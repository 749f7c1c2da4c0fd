---------------------------------- MODULE Jobs ----------------------------------
(***************************************************************************)
(* The job queue (job_queue rows, the supervisor that claims them every    *)
(* two seconds, one worker per claimed job, cancellation through a map of  *)
(* tokens), and the module switches, each of whose transitions holds its   *)
(* module's lock, replaces or cancels the module's token and starts its    *)
(* background worker.                                                      *)
(*                                                                         *)
(* The supervisor serves its list in any order (priority and age decide in *)
(* the code).  What a worker does is its outcome.  A token is the number   *)
(* of its generation.                                                      *)
(***************************************************************************)
EXTENDS Naturals, FiniteSets

CONSTANTS
  JobIds, Askers,
  MaxConcurrent,   \* config.job_max_concurrent, at least 1
  MaxToggles,      \* bound on switch requests
  MaxRestarts,     \* bound on restarts of the server
  JobFaults        \* what an instance contains of "drop", a request dropped half-way,
                   \* and "error", a statement that fails

ASSUME JobAssumption ==
  /\ IsFiniteSet(JobIds) /\ MaxConcurrent \in Nat \ {0}
  /\ MaxToggles \in Nat /\ MaxRestarts \in Nat /\ JobFaults \subseteq {"drop", "error"}

Switches == {"scan", "sync"}
Terminal == {"completed", "failed", "cancelled"}
NoJob == "none"

VARIABLES
  row,       \* job_queue: the state of each job, "none" before it is created
  token,     \* job_cancel_tokens: "none", "live" or "cancelled"
  worker,    \* the worker of each job: stage, its own token, outcome
  sup,       \* the supervisor: stage, jobs listed, job in hand
  asker,     \* cancellation requests: stage, job, and whether there was a token to cancel
  started,   \* ghost: how often a worker was started for the job
  told,      \* ghost: jobs whose cancellation was answered with success
  stranded,  \* ghost: jobs claimed when the server stopped
  abandoned, \* ghost: jobs whose worker was stopped by a cancellation that was then cut
             \* off, or whose end could not be recorded
  off,       \* disabled_modules
  switch,    \* per switch: current token, cancelled tokens, workers (by token), holder's stage
  torn,      \* ghost: switches one of whose transitions was dropped
  ntoggle, nrestart

jobVars == <<row, token, worker, sup, asker, started, told, stranded, abandoned, off, switch, torn, ntoggle, nrestart>>

NoWorker == [pc |-> "none", cancel |-> FALSE, out |-> "none"]
IdleSup == [pc |-> "idle", list |-> {}, job |-> NoJob]
IdleAsker == [pc |-> "idle", job |-> NoJob, hit |-> FALSE]

JobInit ==
  /\ row = [j \in JobIds |-> "none"] /\ token = [j \in JobIds |-> "none"]
  /\ worker = [j \in JobIds |-> NoWorker] /\ sup = IdleSup
  /\ asker = [a \in Askers |-> IdleAsker]
  /\ started = [j \in JobIds |-> 0] /\ told = {} /\ stranded = {} /\ abandoned = {}
  /\ off = {} /\ switch = [m \in Switches |-> [tok |-> 1, dead |-> {}, run |-> {1}, pc |-> "free"]]
  /\ torn = {} /\ ntoggle = 0 /\ nrestart = 0

swVars == <<off, switch, torn, ntoggle>>
ghosts == <<started, told, stranded, abandoned>>

---------------------------------------------------------------------------
\* michi-db: every change of state names the states it starts from.

Put(j, s) == row' = [row EXCEPT ![j] = s]

\* Mutants: a claim that leaves the row pending; a completion that ignores the state.
ClaimUnmarked(j) == row[j] = "pending" /\ UNCHANGED row
FinishAlways(j, s) == Put(j, s)
\* Mutant: only success is recorded.
FinishGood(j, s) == IF row[j] = "running" /\ s = "completed" THEN Put(j, s) ELSE UNCHANGED row

create_job(j) == Put(j, "pending")
claim_job(j) == row[j] = "pending" /\ Put(j, "running")
FinishJob(j, s) == IF row[j] = "running" THEN Put(j, s) ELSE UNCHANGED row

CreateJob(j) ==
  /\ row[j] = "none" /\ create_job(j)
  /\ UNCHANGED <<token, worker, sup, asker, ghosts, swVars, nrestart>>

---------------------------------------------------------------------------
\* The supervisor.

SupLists ==
  /\ sup.pc = "idle" /\ off # Switches
  /\ \E j \in JobIds : row[j] = "pending"
  /\ sup' = [IdleSup EXCEPT !.pc = "next", !.list = {j \in JobIds : row[j] = "pending"}]
  /\ UNCHANGED <<row, token, worker, asker, ghosts, swVars, nrestart>>

\* A permit is held by every worker and by the supervisor from here to the spawn.
SupAcquires ==
  /\ sup.pc = "next"
  /\ IF sup.list = {} THEN sup' = IdleSup
     ELSE /\ Cardinality({j \in JobIds : worker[j].pc # "none"}) < MaxConcurrent
          /\ \E j \in sup.list : sup' = [sup EXCEPT !.pc = "claim", !.job = j, !.list = @ \ {j}]
  /\ UNCHANGED <<row, token, worker, asker, ghosts, swVars, nrestart>>

SupClaims ==
  LET j == sup.job
  IN /\ sup.pc = "claim"
     /\ \/ claim_job(j) /\ sup' = [sup EXCEPT !.pc = "spawn"]
        \/ /\ row[j] # "pending" \/ "error" \in JobFaults
           /\ sup' = [sup EXCEPT !.pc = "next", !.job = NoJob] /\ UNCHANGED row
     /\ UNCHANGED <<token, worker, asker, ghosts, swVars, nrestart>>

SupSpawns ==
  LET j == sup.job
  IN /\ sup.pc = "spawn"
     /\ token' = [token EXCEPT ![j] = "live"]
     /\ worker' = [worker EXCEPT ![j] = [NoWorker EXCEPT !.pc = "work"]]
     /\ started' = [started EXCEPT ![j] = @ + 1]
     /\ sup' = [sup EXCEPT !.pc = "next", !.job = NoJob]
     /\ UNCHANGED <<row, asker, told, stranded, abandoned, swVars, nrestart>>

---------------------------------------------------------------------------
\* run_job_worker and the task around it.

JobWorks(j) ==
  /\ worker[j].pc = "work"
  /\ \E out \in {"completed", "failed"} :
       /\ worker[j].cancel => out = "failed"
       /\ worker' = [worker EXCEPT ![j].pc = "check", ![j].out = out]
  /\ UNCHANGED <<row, token, sup, asker, ghosts, swVars, nrestart>>

JobChecks(j) ==
  /\ worker[j].pc = "check"
  /\ worker' = [worker EXCEPT ![j].pc = IF worker[j].cancel THEN "leave" ELSE "record"]
  /\ UNCHANGED <<row, token, sup, asker, ghosts, swVars, nrestart>>

\* An error of complete_job or fail_job is ignored.
JobRecords(j) ==
  /\ worker[j].pc = "record"
  /\ \/ FinishJob(j, worker[j].out) /\ UNCHANGED abandoned
     \/ "error" \in JobFaults /\ UNCHANGED row /\ abandoned' = abandoned \union {j}
  /\ worker' = [worker EXCEPT ![j].pc = "leave"]
  /\ UNCHANGED <<token, sup, asker, started, told, stranded, swVars, nrestart>>

JobLeaves(j) ==
  /\ worker[j].pc = "leave"
  /\ token' = [token EXCEPT ![j] = "none"]
  /\ worker' = [worker EXCEPT ![j] = NoWorker]
  /\ UNCHANGED <<row, sup, asker, ghosts, swVars, nrestart>>

---------------------------------------------------------------------------
\* cancel_job_handler: the token if there is one, then the row.

CancelTells(a, j) ==
  /\ asker[a].pc = "idle" /\ row[j] # "none" /\ j \notin told
  /\ asker' = [asker EXCEPT ![a] = [pc |-> "row", job |-> j, hit |-> token[j] = "live"]]
  /\ IF token[j] = "live"
     THEN token' = [token EXCEPT ![j] = "cancelled"] /\ worker' = [worker EXCEPT ![j].cancel = TRUE]
     ELSE UNCHANGED <<token, worker>>
  /\ UNCHANGED <<row, sup, ghosts, swVars, nrestart>>

cancel_job(a) ==
  LET j == asker[a].job
      can == row[j] \in {"pending", "running"}
  IN /\ asker[a].pc = "row"
     /\ IF can THEN Put(j, "cancelled") ELSE UNCHANGED row
     /\ told' = IF can THEN told \union {j} ELSE told
     /\ asker' = [asker EXCEPT ![a] = IdleAsker]
     /\ UNCHANGED <<token, worker, sup, started, stranded, abandoned, swVars, nrestart>>

\* The client goes away while the handler waits, or the statement fails: the row stays.
CancelCutOff(a) ==
  /\ JobFaults # {} /\ asker[a].pc = "row"
  /\ abandoned' = IF asker[a].hit THEN abandoned \union {asker[a].job} ELSE abandoned
  /\ asker' = [asker EXCEPT ![a] = IdleAsker]
  /\ UNCHANGED <<row, token, worker, sup, started, told, stranded, swVars, nrestart>>

---------------------------------------------------------------------------
\* toggle_module_handler

Set(m, s) == switch' = [switch EXCEPT ![m] = s]

\* Mutant: switching on what is on is not a no-op.
MustSwitch(m, on) == on \/ m \notin off
\* Whether the request changes anything.
Switching(m, on) == on = (m \in off)

\* The lock is free, the request is a transition, and the set is changed.
ToggleBegins(m) ==
  /\ switch[m].pc = "free" /\ ntoggle < MaxToggles /\ ntoggle' = ntoggle + 1
  /\ \E on \in BOOLEAN :
       /\ Switching(m, on)
       /\ off' = IF on THEN off \ {m} ELSE off \union {m}
       /\ Set(m, [switch[m] EXCEPT !.pc = IF on THEN "token" ELSE "cancel"])
  /\ UNCHANGED <<row, token, worker, sup, asker, ghosts, torn, nrestart>>

\* Off: the current token is cancelled.
ToggleCancels(m) ==
  /\ switch[m].pc = "cancel"
  /\ Set(m, [switch[m] EXCEPT !.pc = "free", !.dead = @ \union {switch[m].tok}])
  /\ UNCHANGED <<row, token, worker, sup, asker, ghosts, off, torn, ntoggle, nrestart>>

\* On: a fresh token, the runtime record, then the worker.
ToggleRenews(m) ==
  /\ switch[m].pc = "token"
  /\ Set(m, [switch[m] EXCEPT !.pc = "spawn", !.tok = @ + 1])
  /\ UNCHANGED <<row, token, worker, sup, asker, ghosts, off, torn, ntoggle, nrestart>>

ToggleSpawns(m) ==
  /\ switch[m].pc = "spawn"
  /\ Set(m, [switch[m] EXCEPT !.pc = "free", !.run = @ \union {switch[m].tok}])
  /\ UNCHANGED <<row, token, worker, sup, asker, ghosts, off, torn, ntoggle, nrestart>>

\* A background worker ends when its token is cancelled.
SwitchWorkerEnds(m) ==
  /\ \E g \in switch[m].run \intersect switch[m].dead : Set(m, [switch[m] EXCEPT !.run = @ \ {g}])
  /\ UNCHANGED <<row, token, worker, sup, asker, ghosts, off, torn, ntoggle, nrestart>>

\* The client goes away and the handler is dropped where it waits.
ToggleDropped(m) ==
  /\ "drop" \in JobFaults /\ switch[m].pc # "free"
  /\ Set(m, [switch[m] EXCEPT !.pc = "free"]) /\ torn' = torn \union {m}
  /\ UNCHANGED <<row, token, worker, sup, asker, ghosts, off, ntoggle, nrestart>>

---------------------------------------------------------------------------
\* The server stops, in order or not, and starts again with every module on: rows in
\* state running are nobody's.
JobRestart ==
  /\ nrestart < MaxRestarts /\ nrestart' = nrestart + 1
  /\ token' = [j \in JobIds |-> "none"] /\ worker' = [j \in JobIds |-> NoWorker]
  /\ sup' = IdleSup /\ asker' = [a \in Askers |-> IdleAsker]
  /\ stranded' = {j \in JobIds : row[j] = "running"} /\ abandoned' = {}
  /\ off' = {} /\ torn' = {}
  /\ switch' = [m \in Switches |-> [tok |-> 1, dead |-> {}, run |-> {1}, pc |-> "free"]]
  /\ UNCHANGED <<row, started, told, ntoggle>>

SupStep == SupLists \/ SupAcquires \/ SupClaims \/ SupSpawns
JobStep(j) == JobWorks(j) \/ JobChecks(j) \/ JobRecords(j) \/ JobLeaves(j)
ToggleStep(m) == ToggleCancels(m) \/ ToggleRenews(m) \/ ToggleSpawns(m) \/ SwitchWorkerEnds(m)

JobNext ==
  \/ SupStep \/ JobRestart
  \/ \E j \in JobIds : CreateJob(j) \/ JobStep(j) \/ \E a \in Askers : CancelTells(a, j)
  \/ \E a \in Askers : cancel_job(a) \/ CancelCutOff(a)
  \/ \E m \in Switches : ToggleBegins(m) \/ ToggleStep(m) \/ ToggleDropped(m)

JobSpec == JobInit /\ [][JobNext]_jobVars

---------------------------------------------------------------------------
\* Properties

\* A job whose cancellation was answered with success stays cancelled: no claim from
\* a stale list and no worker that finishes later changes it (the state guards of
\* claim_job, complete_job, fail_job).
CancelSticks == \A j \in told : row[j] = "cancelled"

\* A job is run at most once, and a worker's row is running or was ended under it.
RunsOnce == \A j \in JobIds : started[j] <= 1 /\ (worker[j].pc # "none" => row[j] # "pending")

\* A module has at most one background worker that nobody told to stop, and none
\* once it is off and the transition is over, unless a transition was dropped.
OneLiveWorker ==
  \A m \in Switches \ torn :
    LET live == switch[m].run \ switch[m].dead
    IN Cardinality(live) <= 1 /\ (m \in off /\ switch[m].pc = "free" => live = {})

\* A running row has somebody who will end it: its worker, the supervisor about to
\* start one, or a cancellation that already stopped the worker.  Three things leave one
\* without: a restart, a cancellation cut off between the token and the row, and an end
\* that could not be recorded; only another cancellation ends such a row.
RunningIsTended ==
  \A j \in JobIds \ (stranded \union abandoned) :
    row[j] = "running" =>
      \/ worker[j].pc # "none" \/ (sup.pc = "spawn" /\ sup.job = j)
      \/ \E a \in Askers : asker[a].hit /\ asker[a].job = j

\* Jobs and module workers are run by one task each and stay stopped once stopped: no stale
\* list, late finish, toggle or restart runs a job twice, undoes a cancellation, leaves a
\* running row to nobody (but for a restart, a cancellation cut off and an end not
\* recorded) or two live workers to a module.
OneRunner == CancelSticks /\ RunsOnce /\ OneLiveWorker /\ RunningIsTended
=============================================================================
