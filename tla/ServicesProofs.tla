------------------------------ MODULE ServicesProofs ------------------------------
(***************************************************************************)
(* What holds of background services.  The job queue and the module        *)
(* switches, for any number of jobs, cancellations, toggles and restarts:  *)
(* no job runs twice, no cancellation is undone, a running row is left to  *)
(* nobody only by a restart, a cancellation cut off or an end that could   *)
(* not be recorded, and a module has one live background worker at most.   *)
(* Backups, for any library and any number of files to keep: an            *)
(* undisturbed one gives the library back, and the rotation keeps the      *)
(* newest file.  Presence, for any peers and any capacity of the event     *)
(* channel: it is earned, and the registry ends up showing it, unless an   *)
(* event was overtaken or lost or the entry was changed by others.  Chains *)
(* and room groups, for any receivers, links and requests: positions stay  *)
(* distinct, edits stand, and undisturbed answers are true.                *)
(* Accounts and paired devices, for any users, devices, tokens, codes,     *)
(* concurrent requests and restarts: an ended session stays ended, the     *)
(* managed administrator is the environment's, no session outlives the     *)
(* credentials it was opened with, a revoked device keeps no token, a      *)
(* spent refresh token is not accepted again, and a code is worth one      *)
(* device; logins, validations, pairings and refreshes under way when a    *)
(* session or device ends are excepted.                                    *)
(***************************************************************************)
EXTENDS Jobs, Accounts, DevicePairing, Presence, Outputs, Backups, FiniteSetTheorems,
        SequenceTheorems, WellFoundedInduction, TLAPS

-----------------------------------------------------------------------------
(***************************************************************************)
(* Jobs and modules                                                        *)
(***************************************************************************)
\* The inductive invariant.

RowsTyped ==
  /\ row \in [JobIds -> {"none", "pending", "running"} \union Terminal]
  /\ started \in [JobIds -> Nat]
  /\ told \subseteq JobIds /\ stranded \subseteq JobIds /\ abandoned \subseteq JobIds

WorkersTyped ==
  /\ token \in [JobIds -> {"none", "live", "cancelled"}]
  /\ worker \in [JobIds -> [pc : {"none", "work", "check", "record", "leave"},
                            cancel : BOOLEAN, out : {"none", "completed", "failed"}]]

SupTyped ==
  /\ sup \in [pc : {"idle", "next", "claim", "spawn"}, list : SUBSET JobIds,
              job : JobIds \union {NoJob}]
  /\ sup.pc \in {"claim", "spawn"} => sup.job \in JobIds

AskersTyped ==
  /\ asker \in [Askers -> [pc : {"idle", "row"}, job : JobIds \union {NoJob}, hit : BOOLEAN]]
  /\ \A a \in Askers : asker[a].pc = "row" => asker[a].job \in JobIds

SwitchStates == [tok : Nat, dead : SUBSET Nat, run : SUBSET Nat,
                 pc : {"free", "cancel", "token", "spawn"}]

SwitchesTyped ==
  /\ off \subseteq Switches /\ torn \subseteq Switches
  /\ switch \in [Switches -> SwitchStates]
  /\ ntoggle \in Nat /\ nrestart \in Nat

Types == RowsTyped /\ WorkersTyped /\ SupTyped /\ AskersTyped /\ SwitchesTyped

\* A job that nobody claimed never ran.
Unclaimed(j) == row[j] \in {"none", "pending"} => started[j] = 0 /\ worker[j].pc = "none"

\* What the supervisor claimed and has not spawned yet is nobody else's.
ClaimIsFresh ==
  sup.pc = "spawn" =>
    /\ row[sup.job] \notin {"none", "pending"}
    /\ started[sup.job] = 0 /\ worker[sup.job].pc = "none"

\* job_cancel_tokens holds the token of the job's own worker.
TokenIsWorkers(j) ==
  /\ worker[j].pc = "none" => token[j] = "none" /\ ~worker[j].cancel
  /\ worker[j].pc # "none" => token[j] = IF worker[j].cancel THEN "cancelled" ELSE "live"

\* A cancellation between the token it cancelled and the row.
Cancelling(j) == \E a \in Askers : asker[a].pc = "row" /\ asker[a].hit /\ asker[a].job = j

\* Who stopped a worker still has to end its row, was cut off, or the row was ended.
StopIsCarried(j) == worker[j].cancel /\ row[j] = "running" => Cancelling(j) \/ j \in abandoned

\* What a worker records is a result.
ResultIsSet(j) == worker[j].pc \in {"check", "record"} => worker[j].out \in {"completed", "failed"}

\* A worker that was not stopped leaves only after recording its result, or failing to.
LeavesRecorded(j) ==
  worker[j].pc = "leave" /\ ~worker[j].cancel => row[j] # "running" \/ j \in abandoned

Tended(j) ==
  j \notin stranded \union abandoned /\ row[j] = "running" =>
    worker[j].pc # "none" \/ (sup.pc = "spawn" /\ sup.job = j) \/ Cancelling(j)

JobOK(j) ==
  /\ j \in told => row[j] = "cancelled"
  /\ started[j] <= 1
  /\ Unclaimed(j) /\ TokenIsWorkers(j) /\ StopIsCarried(j)
  /\ ResultIsSet(j) /\ LeavesRecorded(j) /\ Tended(j)

\* Only the current token's worker is live; from the moment the switch is off until its
\* next worker is spawned, none is.
SwitchOK(m) ==
  LET live == switch[m].run \ switch[m].dead
  IN /\ live \subseteq {switch[m].tok}
     /\ switch[m].pc \in {"token", "spawn"} => live = {} /\ m \notin off
     /\ m \in off /\ switch[m].pc = "free" => live = {}

JobsInv ==
  /\ Types /\ ClaimIsFresh
  /\ \A j \in JobIds : JobOK(j)
  /\ \A m \in Switches \ torn : SwitchOK(m)

---------------------------------------------------------------------------
\* The invariant holds initially.

\* JobInit: no job, every module on with its first worker.
LEMMA JobsInitial == JobInit => JobsInv
  <1> SUFFICES ASSUME JobInit PROVE JobsInv
    OBVIOUS
  <1> USE DEF JobInit
  <1>1. Types
    <2>1. RowsTyped
      BY DEF RowsTyped
    <2>2. WorkersTyped
      BY DEF WorkersTyped, NoWorker
    <2>3. SupTyped /\ AskersTyped
      BY DEF SupTyped, AskersTyped, IdleSup, IdleAsker
    <2>4. SwitchesTyped
      BY DEF SwitchesTyped, SwitchStates
    <2> QED
      BY <2>1, <2>2, <2>3, <2>4 DEF Types
  <1>2. ClaimIsFresh
    BY DEF ClaimIsFresh, IdleSup
  <1>3. \A j \in JobIds : JobOK(j)
    BY DEF JobOK, Unclaimed, TokenIsWorkers, StopIsCarried, ResultIsSet, LeavesRecorded, Tended,
       NoWorker
  <1>4. \A m \in Switches \ torn : SwitchOK(m)
    BY DEF SwitchOK, Switches
  <1> QED
    BY <1>1, <1>2, <1>3, <1>4 DEF JobsInv

---------------------------------------------------------------------------
\* The jobs and the switches share nothing: a step of one keeps the invariant of the other.

\* A step of a job leaves the switches alone.
LEMMA SwitchesKept ==
  ASSUME JobsInv, UNCHANGED <<swVars, nrestart>>
  PROVE  SwitchesTyped' /\ \A m \in Switches \ torn' : SwitchOK(m)'
  BY DEF JobsInv, swVars, SwitchOK, Types, SwitchesTyped

\* A step of a switch leaves the jobs alone.
LEMMA JobsKept ==
  ASSUME JobsInv, UNCHANGED <<row, token, worker, sup, asker, ghosts>>
  PROVE  /\ RowsTyped' /\ WorkersTyped' /\ SupTyped' /\ AskersTyped'
         /\ ClaimIsFresh' /\ \A j \in JobIds : JobOK(j)'
  <1>1. RowsTyped' /\ WorkersTyped' /\ SupTyped' /\ AskersTyped' /\ ClaimIsFresh'
    BY DEF JobsInv, ghosts, Types, RowsTyped, WorkersTyped, SupTyped, AskersTyped, ClaimIsFresh
  <1>2. ASSUME NEW j \in JobIds PROVE JobOK(j)'
    BY DEF JobsInv, ghosts, JobOK, Unclaimed, TokenIsWorkers, StopIsCarried, ResultIsSet,
       LeavesRecorded, Tended, Cancelling
  <1> QED
    BY <1>1, <1>2

---------------------------------------------------------------------------
\* Each step of a job keeps the invariant.

\* The row of a new job is pending; nothing ran for it.
LEMMA CreateJobKeep == ASSUME JobsInv, NEW j \in JobIds, CreateJob(j) PROVE JobsInv'
  <1> USE DEF CreateJob, create_job, Put
  <1>1. RowsTyped' /\ WorkersTyped' /\ SupTyped' /\ AskersTyped'
    <2> USE DEF JobsInv, Types, ghosts
    <2>1. RowsTyped'
      BY DEF RowsTyped, WorkersTyped, SupTyped, AskersTyped, Terminal
    <2>2. WorkersTyped'
      BY DEF WorkersTyped
    <2>3. SupTyped'
      BY DEF SupTyped
    <2>4. AskersTyped'
      BY DEF AskersTyped
    <2> QED
      BY <2>1, <2>2, <2>3, <2>4
  <1>2. ClaimIsFresh'
    BY DEF JobsInv, ClaimIsFresh, JobOK, Unclaimed, Types, RowsTyped, WorkersTyped, SupTyped,
       AskersTyped, ghosts
  <1>3. ASSUME NEW i \in JobIds PROVE JobOK(i)'
    BY DEF JobsInv, Types, RowsTyped, WorkersTyped, SupTyped, AskersTyped, ghosts, ClaimIsFresh,
       JobOK, Unclaimed, TokenIsWorkers, StopIsCarried, ResultIsSet, LeavesRecorded, Tended,
       Cancelling
  <1>4. UNCHANGED <<swVars, nrestart>>
    OBVIOUS
  <1> QED
    BY <1>1, <1>2, <1>3, <1>4, SwitchesKept DEF JobsInv, Types

\* Listing the pending rows changes only the supervisor's list.
LEMMA SupListsKeep == ASSUME JobsInv, SupLists PROVE JobsInv'
  <1> USE DEF SupLists, IdleSup
  <1>1. RowsTyped' /\ WorkersTyped' /\ SupTyped' /\ AskersTyped'
    <2> USE DEF JobsInv, Types, ghosts
    <2>1. RowsTyped'
      BY DEF RowsTyped, WorkersTyped, SupTyped, AskersTyped, Terminal
    <2>2. WorkersTyped'
      BY DEF WorkersTyped
    <2>3. SupTyped'
      BY DEF SupTyped
    <2>4. AskersTyped'
      BY DEF AskersTyped
    <2> QED
      BY <2>1, <2>2, <2>3, <2>4
  <1>2. ClaimIsFresh'
    BY DEF JobsInv, ClaimIsFresh, JobOK, Unclaimed, Types, RowsTyped, WorkersTyped, SupTyped,
       AskersTyped, ghosts
  <1>3. ASSUME NEW i \in JobIds PROVE JobOK(i)'
    BY DEF JobsInv, Types, RowsTyped, WorkersTyped, SupTyped, AskersTyped, ghosts, ClaimIsFresh,
       JobOK, Unclaimed, TokenIsWorkers, StopIsCarried, ResultIsSet, LeavesRecorded, Tended,
       Cancelling
  <1>4. UNCHANGED <<swVars, nrestart>>
    OBVIOUS
  <1> QED
    BY <1>1, <1>2, <1>3, <1>4, SwitchesKept DEF JobsInv, Types

\* Taking a permit changes only the job in hand.
LEMMA SupAcquiresKeep == ASSUME JobsInv, SupAcquires PROVE JobsInv'
  <1> USE DEF SupAcquires, IdleSup
  <1>1. RowsTyped' /\ WorkersTyped' /\ SupTyped' /\ AskersTyped'
    <2> USE DEF JobsInv, Types, ghosts
    <2>1. RowsTyped'
      BY DEF RowsTyped, WorkersTyped, SupTyped, AskersTyped, Terminal
    <2>2. WorkersTyped'
      BY DEF WorkersTyped
    <2>3. SupTyped'
      <3>1. CASE sup.list = {}
        BY <3>1 DEF SupTyped
      <3>2. CASE sup.list # {}
        <4>1. PICK k \in sup.list : sup' = [sup EXCEPT !.pc = "claim", !.job = k, !.list = @ \ {k}]
          BY <3>2
        <4>2. k \in JobIds /\ sup.list \ {k} \subseteq JobIds
          BY DEF SupTyped
        <4> QED
          BY <4>1, <4>2 DEF SupTyped
      <3> QED
        BY <3>1, <3>2
    <2>4. AskersTyped'
      BY DEF AskersTyped
    <2> QED
      BY <2>1, <2>2, <2>3, <2>4
  <1>2. ClaimIsFresh'
    <2>1. sup' = IdleSup \/ \E k \in sup.list : sup' = [sup EXCEPT !.pc = "claim", !.job = k, !.list = @ \ {k}]
      OBVIOUS
    <2>2. CASE sup' = IdleSup
      BY <2>2 DEF ClaimIsFresh
    <2>3. ASSUME NEW k \in sup.list, sup' = [sup EXCEPT !.pc = "claim", !.job = k, !.list = @ \ {k}]
          PROVE  ClaimIsFresh'
      BY <2>3 DEF ClaimIsFresh, JobsInv, Types, SupTyped
    <2> QED
      BY <2>1, <2>2, <2>3
  <1>3. ASSUME NEW i \in JobIds PROVE JobOK(i)'
    <2>1. JobOK(i) /\ (Cancelling(i)' <=> Cancelling(i)) /\ sup.pc # "spawn"
      BY DEF JobsInv, Cancelling
    <2>2. UNCHANGED <<row, token, worker, ghosts>>
      OBVIOUS
    <2> QED
      BY <2>1, <2>2 DEF ghosts, JobOK, Unclaimed, TokenIsWorkers, StopIsCarried, ResultIsSet,
         LeavesRecorded, Tended
  <1>4. UNCHANGED <<swVars, nrestart>>
    OBVIOUS
  <1> QED
    BY <1>1, <1>2, <1>3, <1>4, SwitchesKept DEF JobsInv, Types

\* The guarded claim moves a pending row to running; a stale entry is skipped.
LEMMA SupClaimsKeep == ASSUME JobsInv, SupClaims PROVE JobsInv'
  <1> USE DEF SupClaims, claim_job, Put
  <1>1. RowsTyped' /\ WorkersTyped' /\ SupTyped' /\ AskersTyped'
    <2> USE DEF JobsInv, Types, ghosts
    <2>1. RowsTyped'
      BY DEF RowsTyped, WorkersTyped, SupTyped, AskersTyped, Terminal
    <2>2. WorkersTyped'
      BY DEF WorkersTyped
    <2>3. SupTyped'
      BY DEF SupTyped
    <2>4. AskersTyped'
      BY DEF AskersTyped
    <2> QED
      BY <2>1, <2>2, <2>3, <2>4
  <1>2. ClaimIsFresh'
    <2>1. sup.job \in JobIds
      BY DEF JobsInv, Types, SupTyped
    <2>2. CASE row[sup.job] = "pending" /\ row' = [row EXCEPT ![sup.job] = "running"]
               /\ sup' = [sup EXCEPT !.pc = "spawn"]
      <3>1. sup'.job = sup.job /\ row'[sup.job] = "running"
        BY <2>1, <2>2 DEF JobsInv, Types, RowsTyped, SupTyped
      <3>2. started[sup.job] = 0 /\ worker[sup.job].pc = "none"
        BY <2>1, <2>2 DEF JobsInv, JobOK, Unclaimed
      <3> QED
        BY <3>1, <3>2 DEF ClaimIsFresh, ghosts
    <2>3. CASE sup' = [sup EXCEPT !.pc = "next", !.job = NoJob]
      BY <2>3 DEF ClaimIsFresh, JobsInv, Types, SupTyped
    <2> QED
      BY <2>2, <2>3
  <1>3. ASSUME NEW i \in JobIds PROVE JobOK(i)'
    <2>1. JobOK(i) /\ (Cancelling(i)' <=> Cancelling(i)) /\ sup.job \in JobIds
      BY DEF JobsInv, Types, SupTyped, Cancelling
    <2>2. CASE row[sup.job] = "pending" /\ row' = [row EXCEPT ![sup.job] = "running"]
               /\ sup' = [sup EXCEPT !.pc = "spawn"]
      <3>1. sup'.job = sup.job /\ sup'.pc = "spawn" /\ sup.pc = "claim"
        BY <2>2 DEF JobsInv, Types, SupTyped
      <3>2. row'[i] = IF i = sup.job THEN "running" ELSE row[i]
        BY <2>1, <2>2 DEF JobsInv, Types, RowsTyped
      <3>3. i = sup.job => worker[i].pc = "none" /\ row[i] = "pending"
        BY <2>1, <2>2 DEF JobOK, Unclaimed
      <3> QED
        BY <2>1, <3>1, <3>2, <3>3
           DEF ghosts, JobOK, Unclaimed, TokenIsWorkers, StopIsCarried, ResultIsSet,
               LeavesRecorded, Tended
    <2>3. CASE UNCHANGED row
      BY <2>1, <2>3
         DEF ghosts, JobOK, Unclaimed, TokenIsWorkers, StopIsCarried, ResultIsSet, LeavesRecorded,
             Tended
    <2> QED
      BY <2>2, <2>3
  <1>4. UNCHANGED <<swVars, nrestart>>
    OBVIOUS
  <1> QED
    BY <1>1, <1>2, <1>3, <1>4, SwitchesKept DEF JobsInv, Types

\* The worker of a claimed row starts with a token of its own.
LEMMA SupSpawnsKeep == ASSUME JobsInv, SupSpawns PROVE JobsInv'
  <1> USE DEF SupSpawns, NoWorker
  <1>1. RowsTyped' /\ WorkersTyped' /\ SupTyped' /\ AskersTyped'
    <2> USE DEF JobsInv, Types, ghosts
    <2>1. RowsTyped'
      BY DEF RowsTyped, WorkersTyped, SupTyped, AskersTyped, Terminal
    <2>2. WorkersTyped'
      BY DEF WorkersTyped
    <2>3. SupTyped'
      BY DEF SupTyped
    <2>4. AskersTyped'
      BY DEF AskersTyped
    <2> QED
      BY <2>1, <2>2, <2>3, <2>4
  <1>2. ClaimIsFresh'
    BY DEF JobsInv, ClaimIsFresh, JobOK, Unclaimed, Types, RowsTyped, WorkersTyped, SupTyped,
       AskersTyped, ghosts
  <1>3. ASSUME NEW i \in JobIds PROVE JobOK(i)'
    BY DEF JobsInv, Types, RowsTyped, WorkersTyped, SupTyped, AskersTyped, ghosts, ClaimIsFresh,
       JobOK, Unclaimed, TokenIsWorkers, StopIsCarried, ResultIsSet, LeavesRecorded, Tended,
       Cancelling
  <1>4. UNCHANGED <<swVars, nrestart>>
    OBVIOUS
  <1> QED
    BY <1>1, <1>2, <1>3, <1>4, SwitchesKept DEF JobsInv, Types

\* A worker that ends its work fails if it was told to stop.
LEMMA JobWorksKeep == ASSUME JobsInv, NEW j \in JobIds, JobWorks(j) PROVE JobsInv'
  <1> USE DEF JobWorks
  <1>1. RowsTyped' /\ WorkersTyped' /\ SupTyped' /\ AskersTyped'
    <2> USE DEF JobsInv, Types, ghosts
    <2>1. RowsTyped'
      BY DEF RowsTyped, WorkersTyped, SupTyped, AskersTyped, Terminal
    <2>2. WorkersTyped'
      <3>1. PICK res \in {"completed", "failed"} :
              worker' = [worker EXCEPT ![j] = [worker[j] EXCEPT !.pc = "check", !.out = res]]
        BY DEF WorkersTyped
      <3>2. [worker[j] EXCEPT !.pc = "check", !.out = res] \in
              [pc : {"none", "work", "check", "record", "leave"}, cancel : BOOLEAN,
               out : {"none", "completed", "failed"}]
        BY DEF WorkersTyped
      <3> QED
        BY <3>1, <3>2 DEF WorkersTyped
    <2>3. SupTyped'
      BY DEF SupTyped
    <2>4. AskersTyped'
      BY DEF AskersTyped
    <2> QED
      BY <2>1, <2>2, <2>3, <2>4
  <1>2. ClaimIsFresh'
    BY DEF JobsInv, ClaimIsFresh, JobOK, Unclaimed, Types, RowsTyped, WorkersTyped, SupTyped,
       AskersTyped, ghosts
  <1>3. ASSUME NEW i \in JobIds PROVE JobOK(i)'
    BY DEF JobsInv, Types, RowsTyped, WorkersTyped, SupTyped, AskersTyped, ghosts, ClaimIsFresh,
       JobOK, Unclaimed, TokenIsWorkers, StopIsCarried, ResultIsSet, LeavesRecorded, Tended,
       Cancelling
  <1>4. UNCHANGED <<swVars, nrestart>>
    OBVIOUS
  <1> QED
    BY <1>1, <1>2, <1>3, <1>4, SwitchesKept DEF JobsInv, Types

\* A stopped worker leaves without touching the row.
LEMMA JobChecksKeep == ASSUME JobsInv, NEW j \in JobIds, JobChecks(j) PROVE JobsInv'
  <1> USE DEF JobChecks
  <1>1. RowsTyped' /\ WorkersTyped' /\ SupTyped' /\ AskersTyped'
    <2> USE DEF JobsInv, Types, ghosts
    <2>1. RowsTyped'
      BY DEF RowsTyped, WorkersTyped, SupTyped, AskersTyped, Terminal
    <2>2. WorkersTyped'
      BY DEF WorkersTyped
    <2>3. SupTyped'
      BY DEF SupTyped
    <2>4. AskersTyped'
      BY DEF AskersTyped
    <2> QED
      BY <2>1, <2>2, <2>3, <2>4
  <1>2. ClaimIsFresh'
    BY DEF JobsInv, ClaimIsFresh, JobOK, Unclaimed, Types, RowsTyped, WorkersTyped, SupTyped,
       AskersTyped, ghosts
  <1>3. ASSUME NEW i \in JobIds PROVE JobOK(i)'
    BY DEF JobsInv, Types, RowsTyped, WorkersTyped, SupTyped, AskersTyped, ghosts, ClaimIsFresh,
       JobOK, Unclaimed, TokenIsWorkers, StopIsCarried, ResultIsSet, LeavesRecorded, Tended,
       Cancelling
  <1>4. UNCHANGED <<swVars, nrestart>>
    OBVIOUS
  <1> QED
    BY <1>1, <1>2, <1>3, <1>4, SwitchesKept DEF JobsInv, Types

\* The result is recorded only on a running row; an error abandons it.
LEMMA JobRecordsKeep == ASSUME JobsInv, NEW j \in JobIds, JobRecords(j) PROVE JobsInv'
  <1> USE DEF JobRecords, FinishJob, Put
  <1>1. RowsTyped' /\ WorkersTyped' /\ SupTyped' /\ AskersTyped'
    <2> USE DEF JobsInv, Types, ghosts
    <2>1. RowsTyped'
      BY DEF RowsTyped, WorkersTyped, SupTyped, AskersTyped, Terminal
    <2>2. WorkersTyped'
      BY DEF WorkersTyped
    <2>3. SupTyped'
      BY DEF SupTyped
    <2>4. AskersTyped'
      BY DEF AskersTyped
    <2> QED
      BY <2>1, <2>2, <2>3, <2>4
  <1>2. ClaimIsFresh'
    BY DEF JobsInv, ClaimIsFresh, JobOK, Unclaimed, Types, RowsTyped, WorkersTyped, SupTyped,
       AskersTyped, ghosts
  <1>3. ASSUME NEW i \in JobIds PROVE JobOK(i)'
    BY DEF JobsInv, Types, RowsTyped, WorkersTyped, SupTyped, AskersTyped, ghosts, ClaimIsFresh,
       JobOK, Unclaimed, TokenIsWorkers, StopIsCarried, ResultIsSet, LeavesRecorded, Tended,
       Cancelling
  <1>4. UNCHANGED <<swVars, nrestart>>
    OBVIOUS
  <1> QED
    BY <1>1, <1>2, <1>3, <1>4, SwitchesKept DEF JobsInv, Types

\* A worker that leaves takes its token with it; its row was ended, or its canceller
\* is about to end it.
LEMMA JobLeavesKeep == ASSUME JobsInv, NEW j \in JobIds, JobLeaves(j) PROVE JobsInv'
  <1> USE DEF JobLeaves, NoWorker
  <1>1. RowsTyped' /\ WorkersTyped' /\ SupTyped' /\ AskersTyped'
    <2> USE DEF JobsInv, Types, ghosts
    <2>1. RowsTyped'
      BY DEF RowsTyped, WorkersTyped, SupTyped, AskersTyped, Terminal
    <2>2. WorkersTyped'
      BY DEF WorkersTyped
    <2>3. SupTyped'
      BY DEF SupTyped
    <2>4. AskersTyped'
      BY DEF AskersTyped
    <2> QED
      BY <2>1, <2>2, <2>3, <2>4
  <1>2. ClaimIsFresh'
    BY DEF JobsInv, ClaimIsFresh, JobOK, Unclaimed, Types, RowsTyped, WorkersTyped, SupTyped,
       AskersTyped, ghosts
  <1>3. ASSUME NEW i \in JobIds PROVE JobOK(i)'
    BY DEF JobsInv, Types, RowsTyped, WorkersTyped, SupTyped, AskersTyped, ghosts, ClaimIsFresh,
       JobOK, Unclaimed, TokenIsWorkers, StopIsCarried, ResultIsSet, LeavesRecorded, Tended,
       Cancelling
  <1>4. UNCHANGED <<swVars, nrestart>>
    OBVIOUS
  <1> QED
    BY <1>1, <1>2, <1>3, <1>4, SwitchesKept DEF JobsInv, Types

\* Cancelling the token stops the worker that holds it.
LEMMA CancelTellsKeep == ASSUME JobsInv, NEW a \in Askers, NEW j \in JobIds, CancelTells(a, j) PROVE JobsInv'
  <1> USE DEF CancelTells
  <1>1. RowsTyped' /\ WorkersTyped' /\ SupTyped' /\ AskersTyped'
    <2> USE DEF JobsInv, Types, ghosts
    <2>1. RowsTyped'
      BY DEF RowsTyped, WorkersTyped, SupTyped, AskersTyped, Terminal
    <2>2. WorkersTyped'
      BY DEF WorkersTyped
    <2>3. SupTyped'
      BY DEF SupTyped
    <2>4. AskersTyped'
      BY DEF AskersTyped
    <2> QED
      BY <2>1, <2>2, <2>3, <2>4
  <1>2. ClaimIsFresh'
    BY DEF JobsInv, ClaimIsFresh, JobOK, Unclaimed, Types, RowsTyped, WorkersTyped, SupTyped,
       AskersTyped, ghosts
  <1>3. ASSUME NEW i \in JobIds PROVE JobOK(i)'
    <2>1. (Cancelling(i) => Cancelling(i)') /\ (i = j /\ token[j] = "live" => Cancelling(i)')
      BY DEF JobsInv, Types, AskersTyped, Cancelling
    <2>2. worker[i].pc \in {"none", "work", "check", "record", "leave"} /\ worker[i].cancel \in BOOLEAN
      BY DEF JobsInv, Types, WorkersTyped
    <2>3. /\ worker'[i].pc = worker[i].pc /\ worker'[i].out = worker[i].out
          /\ \/ worker'[i].cancel = worker[i].cancel /\ token'[i] = token[i]
             \/ i = j /\ token[i] = "live" /\ worker'[i].cancel = TRUE /\ token'[i] = "cancelled"
      BY DEF JobsInv, Types, WorkersTyped
    <2>4. JobOK(i)
      BY DEF JobsInv
    <2> QED
      BY <2>1, <2>2, <2>3, <2>4
         DEF ghosts, JobOK, Unclaimed, TokenIsWorkers, StopIsCarried, ResultIsSet, LeavesRecorded,
             Tended
  <1>4. UNCHANGED <<swVars, nrestart>>
    OBVIOUS
  <1> QED
    BY <1>1, <1>2, <1>3, <1>4, SwitchesKept DEF JobsInv, Types

\* The row of a live job becomes cancelled and the caller is told so.
LEMMA CancelsKeep == ASSUME JobsInv, NEW a \in Askers, cancel_job(a) PROVE JobsInv'
  <1> USE DEF cancel_job, Put, IdleAsker
  <1>1. RowsTyped' /\ WorkersTyped' /\ SupTyped' /\ AskersTyped'
    <2> USE DEF JobsInv, Types, ghosts
    <2>1. RowsTyped'
      BY DEF RowsTyped, WorkersTyped, SupTyped, AskersTyped, Terminal
    <2>2. WorkersTyped'
      BY DEF WorkersTyped
    <2>3. SupTyped'
      BY DEF SupTyped
    <2>4. AskersTyped'
      BY DEF AskersTyped
    <2> QED
      BY <2>1, <2>2, <2>3, <2>4
  <1>2. ClaimIsFresh'
    BY DEF JobsInv, ClaimIsFresh, JobOK, Unclaimed, Types, RowsTyped, WorkersTyped, SupTyped,
       AskersTyped, ghosts
  <1>3. ASSUME NEW i \in JobIds PROVE JobOK(i)'
    BY DEF JobsInv, Types, RowsTyped, WorkersTyped, SupTyped, AskersTyped, ghosts, ClaimIsFresh,
       JobOK, Unclaimed, TokenIsWorkers, StopIsCarried, ResultIsSet, LeavesRecorded, Tended,
       Cancelling
  <1>4. UNCHANGED <<swVars, nrestart>>
    OBVIOUS
  <1> QED
    BY <1>1, <1>2, <1>3, <1>4, SwitchesKept DEF JobsInv, Types

\* A cancellation cut off leaves the row; if it had stopped the worker the job is abandoned.
LEMMA CancelCutOffKeep == ASSUME JobsInv, NEW a \in Askers, CancelCutOff(a) PROVE JobsInv'
  <1> USE DEF CancelCutOff, IdleAsker
  <1>1. RowsTyped' /\ WorkersTyped' /\ SupTyped' /\ AskersTyped'
    <2> USE DEF JobsInv, Types
    <2>1. RowsTyped'
      BY DEF RowsTyped, AskersTyped, Terminal
    <2>2. WorkersTyped'
      BY DEF WorkersTyped
    <2>3. SupTyped'
      BY DEF SupTyped
    <2>4. AskersTyped'
      BY DEF AskersTyped
    <2> QED
      BY <2>1, <2>2, <2>3, <2>4
  <1>2. ClaimIsFresh'
    BY DEF JobsInv, ClaimIsFresh
  <1>3. ASSUME NEW i \in JobIds PROVE JobOK(i)'
    <2>1. JobOK(i)
      BY DEF JobsInv
    <2>2. (Cancelling(i) => Cancelling(i)' \/ i \in abandoned') /\ abandoned \subseteq abandoned'
      BY DEF JobsInv, Types, AskersTyped, Cancelling
    <2> QED
      BY <2>1, <2>2
         DEF JobOK, Unclaimed, TokenIsWorkers, StopIsCarried, ResultIsSet, LeavesRecorded, Tended
  <1>4. UNCHANGED <<swVars, nrestart>>
    OBVIOUS
  <1> QED
    BY <1>1, <1>2, <1>3, <1>4, SwitchesKept DEF JobsInv, Types

---------------------------------------------------------------------------
\* Each step of a switch keeps the invariant: the switch that moved is examined, the
\* others and the jobs are as they were.

\* Going off starts by cancelling, going on by renewing the token: none is live then.
LEMMA ToggleBeginsKeep == ASSUME JobsInv, NEW m \in Switches, ToggleBegins(m) PROVE JobsInv'
  <1> USE DEF ToggleBegins, Set, Switching
  <1>1. SwitchesTyped'
    BY DEF JobsInv, Types, SwitchesTyped, SwitchStates
  <1>2. ASSUME NEW k \in Switches \ torn' PROVE SwitchOK(k)'
    <2>1. PICK on \in BOOLEAN :
            /\ on = (m \in off)
            /\ off' = IF on THEN off \ {m} ELSE off \union {m}
            /\ switch' = [switch EXCEPT ![m] = [switch[m] EXCEPT !.pc = IF on THEN "token" ELSE "cancel"]]
      OBVIOUS
    <2>2. switch[k] \in SwitchStates /\ switch[m] \in SwitchStates /\ SwitchOK(k)
      BY DEF JobsInv, Types, SwitchesTyped
    <2>3. CASE k # m
      <3>1. switch'[k] = switch[k] /\ (k \in off' <=> k \in off)
        BY <2>1, <2>3 DEF JobsInv, Types, SwitchesTyped
      <3> QED
        BY <2>2, <3>1 DEF SwitchOK
    <2>4. CASE k = m
      <3>1. switch'[m] = [switch[m] EXCEPT !.pc = IF on THEN "token" ELSE "cancel"]
        BY <2>1 DEF JobsInv, Types, SwitchesTyped
      <3>2. /\ switch'[m].run = switch[m].run /\ switch'[m].dead = switch[m].dead
            /\ switch'[m].tok = switch[m].tok /\ switch'[m].pc = IF on THEN "token" ELSE "cancel"
        BY <2>2, <3>1 DEF SwitchStates
      <3>3. CASE m \in off
        <4>1. switch'[m].pc = "token" /\ m \notin off'
          BY <2>1, <3>2, <3>3
        <4>2. switch[m].run \ switch[m].dead = {}
          BY <2>2, <2>4, <3>3 DEF SwitchOK
        <4> QED
          BY <2>4, <3>2, <4>1, <4>2 DEF SwitchOK
      <3>4. CASE m \notin off
        <4>1. switch'[m].pc = "cancel"
          BY <2>1, <3>2, <3>4
        <4> QED
          BY <2>2, <2>4, <3>2, <4>1 DEF SwitchOK
      <3> QED
        BY <3>3, <3>4
    <2> QED
      BY <2>3, <2>4
  <1>3. UNCHANGED <<row, token, worker, sup, asker, ghosts>>
    OBVIOUS
  <1> QED
    BY <1>1, <1>2, <1>3, JobsKept DEF JobsInv, Types

\* Once the current token is cancelled no worker is live.
LEMMA ToggleCancelsKeep == ASSUME JobsInv, NEW m \in Switches, ToggleCancels(m) PROVE JobsInv'
  <1> USE DEF ToggleCancels, Set
  <1>1. SwitchesTyped'
    <2>1. switch[m] \in SwitchStates
      BY DEF JobsInv, Types, SwitchesTyped
    <2>2. [switch[m] EXCEPT !.pc = "free", !.dead = @ \union {switch[m].tok}] \in SwitchStates
      BY <2>1 DEF SwitchStates
    <2> QED
      BY <2>2 DEF JobsInv, Types, SwitchesTyped
  <1>2. ASSUME NEW k \in Switches \ torn' PROVE SwitchOK(k)'
    BY DEF JobsInv, Types, SwitchesTyped, SwitchStates, SwitchOK
  <1>3. UNCHANGED <<row, token, worker, sup, asker, ghosts>>
    OBVIOUS
  <1> QED
    BY <1>1, <1>2, <1>3, JobsKept DEF JobsInv, Types

\* The fresh token has no worker yet.
LEMMA ToggleRenewsKeep == ASSUME JobsInv, NEW m \in Switches, ToggleRenews(m) PROVE JobsInv'
  <1> USE DEF ToggleRenews, Set
  <1>1. SwitchesTyped'
    <2>1. switch[m] \in SwitchStates
      BY DEF JobsInv, Types, SwitchesTyped
    <2>2. [switch[m] EXCEPT !.pc = "spawn", !.tok = @ + 1] \in SwitchStates
      <3>1. switch[m].tok + 1 \in Nat
        BY <2>1 DEF SwitchStates
      <3> QED
        BY <2>1, <3>1 DEF SwitchStates
    <2> QED
      BY <2>2 DEF JobsInv, Types, SwitchesTyped
  <1>2. ASSUME NEW k \in Switches \ torn' PROVE SwitchOK(k)'
    BY DEF JobsInv, Types, SwitchesTyped, SwitchStates, SwitchOK
  <1>3. UNCHANGED <<row, token, worker, sup, asker, ghosts>>
    OBVIOUS
  <1> QED
    BY <1>1, <1>2, <1>3, JobsKept DEF JobsInv, Types

\* The worker of the fresh token is the only live one.
LEMMA ToggleSpawnsKeep == ASSUME JobsInv, NEW m \in Switches, ToggleSpawns(m) PROVE JobsInv'
  <1> USE DEF ToggleSpawns, Set
  <1>1. SwitchesTyped'
    <2>1. switch[m] \in SwitchStates
      BY DEF JobsInv, Types, SwitchesTyped
    <2>2. [switch[m] EXCEPT !.pc = "free", !.run = @ \union {switch[m].tok}] \in SwitchStates
      BY <2>1 DEF SwitchStates
    <2> QED
      BY <2>2 DEF JobsInv, Types, SwitchesTyped
  <1>2. ASSUME NEW k \in Switches \ torn' PROVE SwitchOK(k)'
    BY DEF JobsInv, Types, SwitchesTyped, SwitchStates, SwitchOK
  <1>3. UNCHANGED <<row, token, worker, sup, asker, ghosts>>
    OBVIOUS
  <1> QED
    BY <1>1, <1>2, <1>3, JobsKept DEF JobsInv, Types

\* A worker that was told to stop is not live.
LEMMA SwitchWorkerEndsKeep == ASSUME JobsInv, NEW m \in Switches, SwitchWorkerEnds(m) PROVE JobsInv'
  <1> USE DEF SwitchWorkerEnds, Set
  <1>1. SwitchesTyped'
    BY DEF JobsInv, Types, SwitchesTyped, SwitchStates
  <1>2. ASSUME NEW k \in Switches \ torn' PROVE SwitchOK(k)'
    BY DEF JobsInv, Types, SwitchesTyped, SwitchStates, SwitchOK
  <1>3. UNCHANGED <<row, token, worker, sup, asker, ghosts>>
    OBVIOUS
  <1> QED
    BY <1>1, <1>2, <1>3, JobsKept DEF JobsInv, Types

\* A dropped transition excuses its module until the next restart.
LEMMA ToggleDroppedKeep == ASSUME JobsInv, NEW m \in Switches, ToggleDropped(m) PROVE JobsInv'
  <1> USE DEF ToggleDropped, Set
  <1>1. SwitchesTyped'
    BY DEF JobsInv, Types, SwitchesTyped, SwitchStates
  <1>2. ASSUME NEW k \in Switches \ torn' PROVE SwitchOK(k)'
    BY DEF JobsInv, Types, SwitchesTyped, SwitchStates, SwitchOK
  <1>3. UNCHANGED <<row, token, worker, sup, asker, ghosts>>
    OBVIOUS
  <1> QED
    BY <1>1, <1>2, <1>3, JobsKept DEF JobsInv, Types

---------------------------------------------------------------------------
\* A restart forgets every worker, token and request, and keeps the rows.
LEMMA JobRestartKeep == ASSUME JobsInv, JobRestart PROVE JobsInv'
  <1> USE DEF JobRestart
  <1>1. Types'
    <2> USE DEF JobsInv, Types
    <2>1. RowsTyped'
      BY DEF RowsTyped
    <2>2. WorkersTyped'
      BY DEF WorkersTyped, NoWorker
    <2>3. SupTyped' /\ AskersTyped'
      BY DEF SupTyped, AskersTyped, IdleSup, IdleAsker
    <2>4. SwitchesTyped'
      BY DEF SwitchesTyped, SwitchStates
    <2> QED
      BY <2>1, <2>2, <2>3, <2>4
  <1>2. ClaimIsFresh'
    BY DEF ClaimIsFresh, IdleSup
  <1>3. ASSUME NEW i \in JobIds PROVE JobOK(i)'
    BY DEF JobsInv, JobOK, Unclaimed, TokenIsWorkers, StopIsCarried, ResultIsSet, LeavesRecorded,
       Tended, NoWorker
  <1>4. \A m \in Switches \ torn' : SwitchOK(m)'
    BY DEF SwitchOK
  <1> QED
    BY <1>1, <1>2, <1>3, <1>4 DEF JobsInv

---------------------------------------------------------------------------
\* The theorems.

\* Every step keeps the invariant.
LEMMA JobsInductive == JobsInv /\ [JobNext]_jobVars => JobsInv'
  <1> SUFFICES ASSUME JobsInv, [JobNext]_jobVars PROVE JobsInv'
    OBVIOUS
  <1>1. CASE UNCHANGED jobVars
    <2>1. /\ UNCHANGED <<swVars, nrestart>>
          /\ UNCHANGED <<row, token, worker, sup, asker, ghosts>>
      BY <1>1 DEF jobVars, swVars, ghosts
    <2> QED
      BY <2>1, SwitchesKept, JobsKept DEF JobsInv, Types
  <1>2. CASE SupStep \/ JobRestart
    BY <1>2, SupListsKeep, SupAcquiresKeep, SupClaimsKeep, SupSpawnsKeep, JobRestartKeep DEF SupStep
  <1>3. ASSUME NEW j \in JobIds, CreateJob(j) \/ JobStep(j) \/ \E a \in Askers : CancelTells(a, j)
        PROVE  JobsInv'
    BY <1>3, CreateJobKeep, JobWorksKeep, JobChecksKeep, JobRecordsKeep, JobLeavesKeep,
       CancelTellsKeep DEF JobStep
  <1>4. ASSUME NEW a \in Askers, cancel_job(a) \/ CancelCutOff(a) PROVE JobsInv'
    BY <1>4, CancelsKeep, CancelCutOffKeep
  <1>5. ASSUME NEW m \in Switches, ToggleBegins(m) \/ ToggleStep(m) \/ ToggleDropped(m) PROVE JobsInv'
    BY <1>5, ToggleBeginsKeep, ToggleCancelsKeep, ToggleRenewsKeep, ToggleSpawnsKeep,
       SwitchWorkerEndsKeep, ToggleDroppedKeep DEF ToggleStep
  <1> QED
    BY <1>1, <1>2, <1>3, <1>4, <1>5 DEF JobNext

\* The inductive invariant holds in every reachable state.
THEOREM JobsInvariant == JobSpec => []JobsInv
  BY JobsInitial, JobsInductive, PTL DEF JobSpec

\* No stale list, late finish, toggle or restart runs a job twice (claim_job), undoes an
\* acknowledged cancellation (complete_job, fail_job) or gives a module two live workers
\* (toggle_module_handler); and a running row is left to nobody only by a restart, by a
\* cancellation cut off between token and row, or when its end could not be recorded.
THEOREM JobsRunOnce == JobSpec => []OneRunner
  <1>1. JobsInv => OneRunner
    <2> SUFFICES ASSUME JobsInv PROVE OneRunner
      OBVIOUS
    <2>1. CancelSticks
      BY DEF JobsInv, Types, RowsTyped, JobOK, CancelSticks
    <2>2. RunsOnce
      BY DEF JobsInv, JobOK, Unclaimed, RunsOnce
    <2>3. OneLiveWorker
      <3> SUFFICES ASSUME NEW m \in Switches \ torn
                   PROVE  LET live == switch[m].run \ switch[m].dead
                          IN Cardinality(live) <= 1 /\ (m \in off /\ switch[m].pc = "free" => live = {})
        BY DEF OneLiveWorker
      <3> DEFINE live == switch[m].run \ switch[m].dead
      <3>1. live \in SUBSET {switch[m].tok} /\ (m \in off /\ switch[m].pc = "free" => live = {})
        BY DEF JobsInv, SwitchOK
      <3>2. Cardinality(live) <= 1
        <4>1. IsFiniteSet({switch[m].tok}) /\ Cardinality({switch[m].tok}) = 1
          BY FS_Singleton
        <4> HIDE DEF live
        <4> QED
          BY <3>1, <4>1, FS_Subset
      <3> QED
        BY <3>1, <3>2
    <2>4. RunningIsTended
      BY DEF JobsInv, JobOK, Tended, Cancelling, RunningIsTended
    <2> QED
      BY <2>1, <2>2, <2>3, <2>4 DEF OneRunner
  <1> QED
    BY <1>1, JobsInvariant, PTL

-----------------------------------------------------------------------------
(***************************************************************************)
(* Backups                                                                 *)
(***************************************************************************)
\* The inductive invariant.

Libraries == [tracks : SUBSET Tunes, lists : SUBSET SUBSET Tunes,
              stars : SUBSET Tunes, played : SUBSET Tunes]
MakerRecords == [pc : {"idle", "lists", "songs", "stars", "history"},
                 kind : {"none", "json", "bundle", "auto"},
                 got : Libraries, from : Libraries, calm : BOOLEAN]
MadeRecords == [kind : {"json", "bundle", "auto"}, got : Libraries, from : Libraries, calm : BOOLEAN]

\* Playlists, stars and history refer to tracks that are there (the foreign keys).
Referring(s) ==
  /\ \A l \in s.lists : l \subseteq s.tracks
  /\ s.stars \subseteq s.tracks /\ s.played \subseteq s.tracks

\* An undisturbed backup holds what it has read of the library it began with.
Faithful(r) ==
  r.pc # "idle" =>
    /\ r.kind # "none"
    /\ r.calm =>
         /\ r.from = stock
         /\ r.got.tracks = stock.tracks
         /\ r.pc # "lists" => r.got.lists = stock.lists
         /\ r.pc = "history" => r.got.stars = stock.stars

\* A backup that was made undisturbed is the library it began with.
MadeOK(b) ==
  b.calm =>
    /\ Referring(b.from)
    /\ b.got.tracks = b.from.tracks /\ b.got.lists = b.from.lists
    /\ b.got.stars = b.from.stars /\ b.got.played = b.from.played

LibraryOK == stock \in Libraries /\ Referring(stock)
MakersOK == maker \in [Makers -> MakerRecords] /\ \A m \in Makers : Faithful(maker[m])
KeptOK == made \subseteq MadeRecords /\ \A b \in made : MadeOK(b)

\* The files of the backup directory are numbered in the order they were written.
FilesOK ==
  /\ nfile \in Nat /\ files \subseteq 1..nfile
  /\ RetentionKeepsNewest

BackupsInv == LibraryOK /\ MakersOK /\ KeptOK /\ FilesOK /\ RestoreGivesBack

---------------------------------------------------------------------------
\* The retention

\* The files that the retention leaves have a least one, if there are any.
LEMMA LeastFile ==
  ASSUME NEW S \in SUBSET Nat, NEW k \in S
  PROVE  \E n \in S : \A m \in S : n <= m
  <1> DEFINE R == OpToRel(<, Nat)
  <1>1. PICK n \in S : \A m \in S : ~(<<m, n>> \in R)
    <2> HIDE DEF R
    <2>1. IsWellFoundedOn(R, Nat)
      BY NatLessThanWellFounded DEF R
    <2> QED BY <2>1, WFMin
  <1>2. \A m \in S : ~(m < n)
    BY <1>1 DEF OpToRel
  <1> QED BY <1>2

\* What is not surplus is no more than the number to keep (run_auto_backup_cycle).
LEMMA SurplusLeavesKeep ==
  ASSUME NEW n \in Nat, NEW fs \in SUBSET (1..n)
  PROVE  Cardinality(fs \ Surplus(fs)) <= MaxKeep
  <1> DEFINE S == Surplus(fs)
  <1> DEFINE K == fs \ S
  <1> DEFINE x == Cardinality(fs) - MaxKeep
  <1> SUFFICES Cardinality(K) <= MaxKeep
    OBVIOUS
  <1>1. IsFiniteSet(fs)
    <2>1. IsFiniteSet(1..n)
      BY FS_Interval
    <2> QED BY <2>1, FS_Subset
  <1>2. S \subseteq fs
    BY DEF Surplus
  <1>3. /\ IsFiniteSet(S) /\ IsFiniteSet(K)
        /\ Cardinality(K) \in Nat /\ Cardinality(S) \in Nat /\ Cardinality(fs) \in Nat
    BY <1>1, <1>2, FS_Subset, FS_CardinalityType
  <1>4. Cardinality(K) = Cardinality(fs) - Cardinality(S)
    <2>1. fs \ S = K /\ fs \intersect S = S
      BY <1>2
    <2> HIDE DEF K, S
    <2> QED BY <1>1, <1>3, <2>1, FS_Difference
  <1>5. MaxKeep \in Nat /\ x \in Int
    BY <1>3, BackupAssumption
  <1>6. CASE K = {}
    BY <1>5, <1>6, FS_EmptySet
  <1>7. CASE K # {}
    <2>1. PICK k \in K : TRUE
      BY <1>7
    <2>2. K \in SUBSET Nat
      <3>1. K \subseteq 1..n
        OBVIOUS
      <3> HIDE DEF K
      <3> QED BY <3>1
    <2>3. \E f \in K : \A g \in K : f <= g
      <3> HIDE DEF K
      <3> QED BY <2>1, <2>2, LeastFile
    <2>4. PICK f \in K : \A g \in K : f <= g
      BY <2>3
    <2>5. f \in fs /\ ~(x > 0 /\ Cardinality({g \in fs : g < f}) < x)
      BY DEF Surplus
    <2> DEFINE B == {g \in fs : g < f}
    <2>6. B \subseteq S
      <3> SUFFICES ASSUME NEW g \in fs, g < f, g \notin S PROVE FALSE
        OBVIOUS
      <3>1. g \in K
        OBVIOUS
      <3>2. f <= g /\ f \in Nat /\ g \in Nat
        BY <2>2, <2>4, <3>1
      <3> QED BY <3>2
    <2>7. Cardinality(B) \in Nat /\ Cardinality(B) <= Cardinality(S)
      <3> HIDE DEF B, S
      <3> QED BY <1>3, <2>6, FS_Subset, FS_CardinalityType
    <2>8. x <= 0 \/ Cardinality(B) >= x
      <3> HIDE DEF x
      <3> QED BY <1>5, <2>5, <2>7
    <2> HIDE DEF B, K, S
    <2>9. Cardinality(K) <= Cardinality(fs)
      BY <1>3, <1>4
    <2>10. CASE x <= 0
      BY <1>3, <1>5, <2>9, <2>10
    <2>11. CASE Cardinality(B) >= x
      <3>1. Cardinality(S) >= Cardinality(fs) - MaxKeep
        BY <1>3, <1>5, <2>7, <2>11
      <3> QED BY <1>3, <1>4, <1>5, <3>1
    <2> QED BY <2>8, <2>10, <2>11
  <1> QED BY <1>6, <1>7

\* The newest file is not surplus: at least one is kept.
LEMMA NewestStays ==
  ASSUME NEW n \in Nat, NEW fs \in SUBSET (1..n), n \in fs
  PROVE  n \notin Surplus(fs)
  <1>1. IsFiniteSet(fs) /\ Cardinality(fs) \in Nat
    <2>1. IsFiniteSet(1..n)
      BY FS_Interval
    <2>2. IsFiniteSet(fs)
      BY <2>1, FS_Subset
    <2> QED BY <2>2, FS_CardinalityType
  <1>2. {g \in fs : g < n} = fs \ {n}
    <2>1. \A g \in fs : g \in Nat /\ g <= n
      OBVIOUS
    <2>2. \A g \in fs : g < n <=> g # n
      BY <2>1
    <2> QED BY <2>2
  <1>3. Cardinality(fs \ {n}) = Cardinality(fs) - 1
    BY <1>1, FS_RemoveElement
  <1>4. MaxKeep \in Nat /\ MaxKeep >= 1
    BY BackupAssumption
  <1> QED BY <1>1, <1>2, <1>3, <1>4 DEF Surplus

---------------------------------------------------------------------------
\* The invariant holds initially.

LEMMA BackupsInitial == BakInit => BackupsInv
  <1> SUFFICES ASSUME BakInit PROVE BackupsInv
    OBVIOUS
  <1> USE DEF BakInit
  <1>1. LibraryOK
    BY DEF LibraryOK, Libraries, Referring, Empty, Full
  <1>2. MakersOK
    BY DEF MakersOK, MakerRecords, Faithful, NoMaker, Libraries, Empty
  <1>3. KeptOK
    BY DEF KeptOK
  <1>4. FilesOK
    BY FS_EmptySet, BackupAssumption DEF FilesOK, RetentionKeepsNewest
  <1>5. RestoreGivesBack
    BY DEF RestoreGivesBack, NoVerdict
  <1> QED BY <1>1, <1>2, <1>3, <1>4, <1>5 DEF BackupsInv

---------------------------------------------------------------------------
\* What disturbs the backups being put together

LEMMA NoVerdictIsRight == verdict' = NoVerdict => RestoreGivesBack'
  BY DEF RestoreGivesBack, NoVerdict

LEMMA FilesStay == ASSUME BackupsInv, UNCHANGED bakFiles PROVE FilesOK'
  BY DEF BackupsInv, FilesOK, RetentionKeepsNewest, bakFiles

LEMMA KeptStays == ASSUME BackupsInv, UNCHANGED made PROVE KeptOK'
  BY DEF BackupsInv, KeptOK

\* A disturbed backup promises nothing.
LEMMA DisturbedPromisesNothing ==
  ASSUME BackupsInv, maker' = Disturbed(maker)
  PROVE  MakersOK'
  <1>1. maker \in [Makers -> MakerRecords] /\ Empty \in Libraries
    BY DEF BackupsInv, MakersOK, Libraries, Empty
  <1>2. \A m \in Makers : maker'[m] = [maker[m] EXCEPT !.calm = FALSE, !.from = Empty]
    BY DEF Disturbed
  <1>3. ASSUME NEW m \in Makers
        PROVE  maker'[m] \in MakerRecords /\ ~maker'[m].calm /\ Faithful(maker[m])'
    <2>1. maker[m] \in MakerRecords
      BY <1>1
    <2>2. /\ [maker[m] EXCEPT !.calm = FALSE, !.from = Empty] \in MakerRecords
          /\ ~[maker[m] EXCEPT !.calm = FALSE, !.from = Empty].calm
          /\ [maker[m] EXCEPT !.calm = FALSE, !.from = Empty].pc = maker[m].pc
          /\ [maker[m] EXCEPT !.calm = FALSE, !.from = Empty].kind = maker[m].kind
      BY <1>1, <2>1 DEF MakerRecords
    <2>3. maker[m].pc # "idle" => maker[m].kind # "none"
      BY DEF BackupsInv, MakersOK, Faithful
    <2> QED BY <1>2, <2>2, <2>3 DEF Faithful
  <1>4. maker' = [m \in Makers |-> maker'[m]]
    BY DEF Disturbed
  <1> QED BY <1>3, <1>4 DEF MakersOK

\* Changes of the library by others keep its references.
LEMMA EditKeeps ==
  ASSUME BackupsInv, NEW new \in Libraries, Referring(new), Edit(new)
  PROVE  BackupsInv'
  <1>1. LibraryOK'
    BY DEF Edit, LibraryOK, Referring
  <1> QED BY <1>1, DisturbedPromisesNothing, FilesStay, KeptStays, NoVerdictIsRight
             DEF Edit, BackupsInv

LEMMA UpsertKeeps ==
  ASSUME BackupsInv, NEW s \in Tunes, upsert_tracks(s) PROVE BackupsInv'
  <1> DEFINE new == [stock EXCEPT !.tracks = stock.tracks \union {s}]
  <1>1. new \in Libraries /\ Referring(new)
    BY DEF BackupsInv, LibraryOK, Libraries, Referring
  <1>2. Edit(new)
    BY DEF upsert_tracks
  <1> QED BY <1>1, <1>2, EditKeeps

LEMMA DeleteKeeps ==
  ASSUME BackupsInv, NEW s \in Tunes, delete_track(s) PROVE BackupsInv'
  <1>1. stock \in Libraries /\ Referring(stock)
    BY DEF BackupsInv, LibraryOK
  <1>2. LessTrack(s) \in Libraries
    BY <1>1 DEF Libraries, LessTrack
  <1>3. Referring(LessTrack(s))
    BY <1>1 DEF Referring, LessTrack
  <1> QED BY <1>2, <1>3, EditKeeps DEF delete_track

LEMMA StarKeeps ==
  ASSUME BackupsInv, NEW s \in Tunes, star_track(s) PROVE BackupsInv'
  <1>1. stock \in Libraries /\ Referring(stock) /\ s \in stock.tracks
    BY DEF BackupsInv, LibraryOK, star_track
  <1>2. PICK on \in BOOLEAN :
          Edit([stock EXCEPT !.stars = IF on THEN stock.stars \union {s} ELSE stock.stars \ {s}])
    BY DEF star_track
  <1> DEFINE st == IF on THEN stock.stars \union {s} ELSE stock.stars \ {s}
  <1>3. st \subseteq stock.tracks /\ st \in SUBSET Tunes
    BY <1>1 DEF Libraries, Referring
  <1>4. Edit([stock EXCEPT !.stars = st])
    BY <1>2
  <1> HIDE DEF st
  <1>5. [stock EXCEPT !.stars = st] \in Libraries
    BY <1>1, <1>3 DEF Libraries
  <1>6. Referring([stock EXCEPT !.stars = st])
    BY <1>1, <1>3 DEF Libraries, Referring
  <1> QED BY <1>4, <1>5, <1>6, EditKeeps

LEMMA PlayKeeps ==
  ASSUME BackupsInv, NEW s \in Tunes, log_play(s) PROVE BackupsInv'
  <1> DEFINE new == [stock EXCEPT !.played = stock.played \union {s}]
  <1>1. new \in Libraries /\ Referring(new)
    BY DEF BackupsInv, LibraryOK, Libraries, Referring, log_play
  <1>2. Edit(new)
    BY DEF log_play
  <1> QED BY <1>1, <1>2, EditKeeps

LEMMA ListKeeps ==
  ASSUME BackupsInv, NEW s \in Tunes, list_track(s) PROVE BackupsInv'
  <1>1. stock \in Libraries /\ Referring(stock) /\ s \in stock.tracks
    BY DEF BackupsInv, LibraryOK, list_track
  <1>2. PICK l \in stock.lists \union {{}} :
          Edit([stock EXCEPT !.lists = (stock.lists \ {l}) \union {l \union {s}}])
    BY DEF list_track
  <1> DEFINE ls == (stock.lists \ {l}) \union {l \union {s}}
  <1>3. l \subseteq stock.tracks /\ stock.tracks \subseteq Tunes /\ stock.lists \subseteq SUBSET Tunes
    BY <1>1 DEF Libraries, Referring
  <1>4. ls \in SUBSET SUBSET Tunes /\ \A x \in ls : x \subseteq stock.tracks
    BY <1>1, <1>3 DEF Referring
  <1> HIDE DEF ls
  <1>5. [stock EXCEPT !.lists = ls] \in Libraries
    BY <1>1, <1>4 DEF Libraries
  <1>6. Referring([stock EXCEPT !.lists = ls])
    BY <1>1, <1>4 DEF Libraries, Referring
  <1>7. Edit([stock EXCEPT !.lists = ls])
    BY <1>2 DEF ls
  <1> QED BY <1>5, <1>6, <1>7, EditKeeps

---------------------------------------------------------------------------
\* Putting a backup together

LEMMA TurnKeeps ==
  ASSUME BackupsInv, NEW m \in Makers, NEW r \in MakerRecords, Faithful(r), Turn(m, r), UNCHANGED stock
  PROVE  MakersOK' /\ LibraryOK'
  <1>1. maker \in [Makers -> MakerRecords] /\ maker' = [maker EXCEPT ![m] = r]
    BY DEF BackupsInv, MakersOK, Turn
  <1>2. maker' \in [Makers -> MakerRecords]
    BY <1>1
  <1>3. ASSUME NEW o \in Makers PROVE Faithful(maker[o])'
    <2>1. CASE o = m
      <3>1. maker'[m] = r
        BY <1>1
      <3> QED BY <2>1, <3>1 DEF Faithful
    <2>2. CASE o # m
      <3>1. maker'[o] = maker[o] /\ Faithful(maker[o])
        BY <1>1, <2>2 DEF BackupsInv, MakersOK
      <3> QED BY <3>1 DEF Faithful
    <2> QED BY <2>1, <2>2
  <1> QED BY <1>2, <1>3 DEF MakersOK, LibraryOK, BackupsInv, Referring

\* Every step that reads a table.
LEMMA ReadKeeps ==
  ASSUME BackupsInv, NEW m \in Makers, NEW r \in MakerRecords, Faithful(r), Turn(m, r),
         UNCHANGED <<stock, made, bakFiles, nedit>>, verdict' = NoVerdict
  PROVE  BackupsInv'
  BY TurnKeeps, FilesStay, KeptStays, NoVerdictIsRight DEF BackupsInv

LEMMA ReadTracksKeeps ==
  ASSUME BackupsInv, NEW m \in Makers, ReadTracks(m) PROVE BackupsInv'
  <1>1. PICK kind \in {"json", "bundle", "auto"} :
          Turn(m, [NoMaker EXCEPT !.pc = "lists", !.kind = kind, !.from = stock,
                                  !.got.tracks = stock.tracks])
    BY DEF ReadTracks
  <1> DEFINE g == [Empty EXCEPT !.tracks = stock.tracks]
  <1> DEFINE r == [NoMaker EXCEPT !.pc = "lists", !.kind = kind, !.from = stock, !.got = g]
  <1>2. Turn(m, r)
    <2>1. NoMaker.got = Empty
      BY DEF NoMaker
    <2>2. [NoMaker EXCEPT !.pc = "lists", !.kind = kind, !.from = stock, !.got.tracks = stock.tracks]
            = r
      BY <2>1
    <2> QED BY <1>1, <2>2
  <1>3. stock \in Libraries /\ Empty \in Libraries /\ NoMaker \in MakerRecords
    BY DEF Libraries, Empty, BackupsInv, LibraryOK, NoMaker, MakerRecords
  <1>4. g \in Libraries /\ g.tracks = stock.tracks
    BY <1>3 DEF Libraries
  <1> HIDE DEF g
  <1>5. r \in MakerRecords
    BY <1>3, <1>4 DEF MakerRecords
  <1>6. r.pc = "lists" /\ r.kind = kind /\ r.from = stock /\ r.got = g
    BY <1>3 DEF MakerRecords
  <1> HIDE DEF r
  <1>7. Faithful(r)
    BY <1>4, <1>6 DEF Faithful
  <1> QED BY <1>2, <1>5, <1>7, ReadKeeps DEF ReadTracks

LEMMA ReadListsKeeps ==
  ASSUME BackupsInv, NEW m \in Makers, ReadLists(m) PROVE BackupsInv'
  <1>1. maker[m] \in MakerRecords /\ Faithful(maker[m]) /\ stock \in Libraries /\ maker[m].pc = "lists"
    BY DEF BackupsInv, MakersOK, LibraryOK, ReadLists
  <1> DEFINE g == [maker[m].got EXCEPT !.lists = stock.lists]
  <1> DEFINE r == [maker[m] EXCEPT !.pc = "songs", !.got = g]
  <1>2. maker[m].got \in Libraries
    BY <1>1 DEF MakerRecords
  <1>3. g \in Libraries /\ g.tracks = maker[m].got.tracks /\ g.lists = stock.lists
    BY <1>1, <1>2 DEF Libraries
  <1>4. Turn(m, r)
    BY <1>1 DEF ReadLists, MakerRecords
  <1> HIDE DEF g
  <1>5. r \in MakerRecords
    BY <1>1, <1>3 DEF MakerRecords
  <1>6. r.pc = "songs" /\ r.kind = maker[m].kind /\ r.calm = maker[m].calm /\ r.from = maker[m].from /\ r.got = g
    BY <1>1 DEF MakerRecords
  <1> HIDE DEF r
  <1>7. Faithful(r)
    BY <1>1, <1>3, <1>6 DEF Faithful
  <1> QED BY <1>4, <1>5, <1>7, ReadKeeps DEF ReadLists

LEMMA FetchSongsKeeps ==
  ASSUME BackupsInv, NEW m \in Makers, FetchSongs(m) PROVE BackupsInv'
  <1> DEFINE lostTracks == (UNION maker[m].got.lists) \ stock.tracks
  <1> DEFINE ls == BundleLists(maker[m].got.lists, lostTracks)
  <1> DEFINE g == [maker[m].got EXCEPT !.lists = ls]
  <1> DEFINE r == [maker[m] EXCEPT !.pc = "stars", !.got = g]
  <1>1. maker[m] \in MakerRecords /\ Faithful(maker[m]) /\ stock \in Libraries /\ Referring(stock)
        /\ maker[m].pc = "songs"
    BY DEF BackupsInv, MakersOK, LibraryOK, FetchSongs
  <1>2. maker[m].got \in Libraries
    BY <1>1 DEF MakerRecords
  <1>3. ls \subseteq SUBSET Tunes
    BY <1>2 DEF BundleLists, Libraries
  <1>4. maker[m].calm => ls = stock.lists
    <2> SUFFICES ASSUME maker[m].calm PROVE ls = stock.lists
      OBVIOUS
    <2>1. maker[m].got.lists = stock.lists
      BY <1>1 DEF Faithful
    <2>2. ASSUME NEW l \in stock.lists PROVE l \ lostTracks = l
      <3>1. l \subseteq stock.tracks
        BY <1>1 DEF Referring
      <3>2. \A x \in l : x \notin lostTracks
        BY <3>1
      <3> HIDE DEF lostTracks
      <3> QED BY <3>2
    <2>3. ls = {l \ lostTracks : l \in stock.lists}
      BY <2>1 DEF BundleLists
    <2> HIDE DEF lostTracks, ls
    <2> QED BY <2>2, <2>3
  <1> HIDE DEF ls
  <1>5. g \in Libraries /\ g.tracks = maker[m].got.tracks /\ g.lists = ls
    BY <1>2, <1>3 DEF Libraries
  <1>6. Turn(m, r) \/ Turn(m, NoMaker)
    BY <1>1 DEF FetchSongs, MakerRecords, ls
  <1> HIDE DEF g
  <1>7. r \in MakerRecords
    BY <1>1, <1>5 DEF MakerRecords
  <1>8. r.pc = "stars" /\ r.kind = maker[m].kind /\ r.calm = maker[m].calm /\ r.from = maker[m].from /\ r.got = g
    BY <1>1 DEF MakerRecords
  <1> HIDE DEF r
  <1>9. Faithful(r)
    BY <1>1, <1>4, <1>5, <1>8 DEF Faithful
  <1>10. NoMaker \in MakerRecords /\ Faithful(NoMaker)
    BY DEF NoMaker, MakerRecords, Libraries, Empty, Faithful
  <1> QED BY <1>6, <1>7, <1>9, <1>10, ReadKeeps DEF FetchSongs

LEMMA ReadStarsKeeps ==
  ASSUME BackupsInv, NEW m \in Makers, ReadStars(m) PROVE BackupsInv'
  <1>1. maker[m] \in MakerRecords /\ Faithful(maker[m]) /\ stock \in Libraries /\ maker[m].pc = "stars"
    BY DEF BackupsInv, MakersOK, LibraryOK, ReadStars
  <1> DEFINE g == [maker[m].got EXCEPT !.stars = stock.stars]
  <1> DEFINE r == [maker[m] EXCEPT !.pc = "history", !.got = g]
  <1>2. maker[m].got \in Libraries
    BY <1>1 DEF MakerRecords
  <1>3. /\ g \in Libraries /\ g.tracks = maker[m].got.tracks
        /\ g.lists = maker[m].got.lists /\ g.stars = stock.stars
    BY <1>1, <1>2 DEF Libraries
  <1>4. Turn(m, r)
    BY <1>1 DEF ReadStars, MakerRecords
  <1> HIDE DEF g
  <1>5. r \in MakerRecords
    BY <1>1, <1>3 DEF MakerRecords
  <1>6. /\ r.pc = "history" /\ r.kind = maker[m].kind /\ r.calm = maker[m].calm
        /\ r.from = maker[m].from /\ r.got = g
    BY <1>1 DEF MakerRecords
  <1> HIDE DEF r
  <1>7. Faithful(r)
    BY <1>1, <1>3, <1>6 DEF Faithful
  <1> QED BY <1>4, <1>5, <1>7, ReadKeeps DEF ReadStars

\* The last table: what was put together is kept, and a file of the cycle is the newest.
LEMMA ReadHistoryKeeps ==
  ASSUME BackupsInv, NEW m \in Makers, ReadHistory(m) PROVE BackupsInv'
  <1> DEFINE r == maker[m]
  <1> DEFINE g == [r.got EXCEPT !.played = stock.played]
  <1> DEFINE b == [kind |-> r.kind, got |-> g, from |-> r.from, calm |-> r.calm]
  <1>1. r \in MakerRecords /\ Faithful(r) /\ stock \in Libraries /\ Referring(stock) /\ r.pc = "history"
    BY DEF BackupsInv, MakersOK, LibraryOK, ReadHistory
  <1>2. r.got \in Libraries /\ r.from \in Libraries /\ r.calm \in BOOLEAN /\ r.kind \in {"json", "bundle", "auto"}
    BY <1>1 DEF MakerRecords, Faithful
  <1>3. /\ g \in Libraries /\ g.tracks = r.got.tracks /\ g.lists = r.got.lists
        /\ g.stars = r.got.stars /\ g.played = stock.played
    BY <1>1, <1>2 DEF Libraries
  <1>4. UNCHANGED made \/ made' = {b}
    BY DEF ReadHistory
  <1> HIDE DEF g
  <1>5. b \in MadeRecords
    BY <1>2, <1>3 DEF MadeRecords
  <1>6. MadeOK(b)
    BY <1>1, <1>3 DEF MadeOK, Faithful
  <1> HIDE DEF b
  <1>7. KeptOK'
    <2>1. CASE UNCHANGED made
      BY <2>1, KeptStays
    <2>2. CASE made' = {b}
      BY <1>5, <1>6, <2>2 DEF KeptOK
    <2> QED BY <1>4, <2>1, <2>2
  <1>8. NoMaker \in MakerRecords /\ Faithful(NoMaker)
    BY DEF NoMaker, MakerRecords, Libraries, Empty, Faithful
  <1>9. MakersOK' /\ LibraryOK'
    BY <1>8, TurnKeeps DEF ReadHistory
  <1>10. FilesOK'
    <2>1. CASE r.kind = "auto"
      <3>1. /\ cycle' = "prune" /\ nfile' = nfile + 1
            /\ files' = files \union {nfile + 1} /\ nfile \in Nat /\ files \subseteq 1..nfile
        BY <2>1 DEF ReadHistory, BackupsInv, FilesOK
      <3>2. files' \subseteq 1..nfile' /\ nfile' \in Nat
        BY <3>1
      <3> QED BY <3>1, <3>2 DEF FilesOK, RetentionKeepsNewest
    <2>2. CASE r.kind # "auto"
      BY <2>2, FilesStay DEF ReadHistory, bakFiles
    <2> QED BY <2>1, <2>2
  <1> QED BY <1>7, <1>9, <1>10, NoVerdictIsRight DEF BackupsInv, ReadHistory

---------------------------------------------------------------------------
\* Retention, stop and restoration

LEMMA MakersStay ==
  ASSUME BackupsInv, UNCHANGED <<stock, maker>> PROVE MakersOK' /\ LibraryOK'
  BY DEF BackupsInv, MakersOK, Faithful, LibraryOK, Referring

LEMMA PruneKeeps ==
  ASSUME BackupsInv, Prune PROVE BackupsInv'
  <1>1. PICK kept \in SUBSET Surplus(files) :
          files' = files \ (Surplus(files) \ kept) /\ wrote' = (kept = {})
    BY DEF Prune
  <1>2. nfile \in Nat /\ files \in SUBSET (1..nfile) /\ nfile' = nfile /\ cycle' = "idle"
    BY DEF BackupsInv, FilesOK, Prune
  <1>3. nfile' > 0 => nfile' \in files'
    <2> SUFFICES ASSUME nfile > 0 PROVE nfile \in files'
      BY <1>2
    <2>1. nfile \in files
      BY DEF BackupsInv, FilesOK, RetentionKeepsNewest
    <2> QED BY <1>1, <1>2, <2>1, NewestStays
  <1>4. wrote' => Cardinality(files') <= MaxKeep
    <2> SUFFICES ASSUME wrote' PROVE Cardinality(files') <= MaxKeep
      OBVIOUS
    <2>1. files' = files \ Surplus(files)
      BY <1>1
    <2> QED BY <1>2, <2>1, SurplusLeavesKeep
  <1>5. FilesOK'
    BY <1>1, <1>2, <1>3, <1>4 DEF FilesOK, RetentionKeepsNewest
  <1> QED BY <1>5, MakersStay, KeptStays, NoVerdictIsRight DEF BackupsInv, Prune

LEMMA StopKeeps ==
  ASSUME BackupsInv, Stop PROVE BackupsInv'
  <1>1. NoMaker \in MakerRecords /\ NoMaker.pc = "idle"
    BY DEF NoMaker, MakerRecords, Libraries, Empty
  <1>2. MakersOK'
    BY <1>1 DEF Stop, MakersOK, Faithful
  <1>3. LibraryOK'
    BY DEF BackupsInv, LibraryOK, Referring, Stop
  <1>4. FilesOK'
    BY DEF BackupsInv, FilesOK, RetentionKeepsNewest, Stop
  <1> QED BY <1>2, <1>3, <1>4, KeptStays, NoVerdictIsRight DEF BackupsInv, Stop

\* Two libraries with the same tables are the same.
LEMMA SameTables ==
  ASSUME NEW s \in Libraries, NEW t \in Libraries,
         s.tracks = t.tracks, s.lists = t.lists, s.stars = t.stars, s.played = t.played
  PROVE  s = t
  BY DEF Libraries

\* restore_handler: what it leaves refers to tracks that are there, and the payload of an
\* undisturbed backup restored over nothing is the library it began with.
LEMMA RestoredIsWhole ==
  ASSUME NEW b \in MadeRecords, MadeOK(b), b.calm
  PROVE  Restored(b.got, Empty) = b.from
  <1> DEFINE new == Restored(b.got, Empty)
  <1>1. b.from \in Libraries /\ b.got \in Libraries /\ Referring(b.from)
    BY DEF MadeRecords, MadeOK
  <1>2. /\ b.got.tracks = b.from.tracks /\ b.got.lists = b.from.lists
        /\ b.got.stars = b.from.stars /\ b.got.played = b.from.played
    BY DEF MadeOK
  <1>3. /\ new.tracks = b.got.tracks \union (UNION b.got.lists) \union b.got.stars
        /\ new.lists = b.got.lists /\ new.stars = b.got.stars /\ new.played = b.got.played
    BY DEF Restored, Empty
  <1>4. (UNION b.from.lists) \subseteq b.from.tracks /\ b.from.stars \subseteq b.from.tracks
    BY <1>1 DEF Referring
  <1>5. new.tracks = b.from.tracks
    BY <1>2, <1>3, <1>4
  <1>6. new = [tracks |-> new.tracks, lists |-> new.lists, stars |-> new.stars, played |-> new.played]
    BY DEF Restored
  <1>7. new \in Libraries
    <2> HIDE DEF new
    <2> QED BY <1>1, <1>2, <1>3, <1>5, <1>6 DEF Libraries
  <1> HIDE DEF new
  <1>8. new = b.from
    BY <1>1, <1>2, <1>3, <1>5, <1>7, SameTables
  <1> QED BY <1>8 DEF new

LEMMA RestoredIsLibrary ==
  ASSUME NEW s \in Libraries, NEW base \in Libraries, Referring(base),
         Restored(s, base).played \subseteq Restored(s, base).tracks
  PROVE  Restored(s, base) \in Libraries /\ Referring(Restored(s, base))
  <1> DEFINE new == Restored(s, base)
  <1>1. /\ new.tracks = base.tracks \union s.tracks \union (UNION s.lists) \union s.stars
        /\ new.lists = base.lists \union s.lists
        /\ new.stars = base.stars \union s.stars /\ new.played = base.played \union s.played
    BY DEF Restored
  <1>2. new = [tracks |-> new.tracks, lists |-> new.lists, stars |-> new.stars, played |-> new.played]
    BY DEF Restored
  <1>3. /\ s.tracks \in SUBSET Tunes /\ base.tracks \in SUBSET Tunes
        /\ s.lists \in SUBSET SUBSET Tunes /\ base.lists \in SUBSET SUBSET Tunes
        /\ s.stars \in SUBSET Tunes /\ base.stars \in SUBSET Tunes
        /\ s.played \in SUBSET Tunes /\ base.played \in SUBSET Tunes
    BY DEF Libraries
  <1>4. new.played \subseteq new.tracks
    OBVIOUS
  <1> HIDE DEF new
  <1>5. new \in Libraries
    <2>1. (UNION s.lists) \subseteq Tunes
      BY <1>3
    <2>2. new.tracks \in SUBSET Tunes
      BY <1>1, <1>3, <2>1
    <2>3. new.lists \in SUBSET SUBSET Tunes
      BY <1>1, <1>3
    <2>4. new.stars \in SUBSET Tunes /\ new.played \in SUBSET Tunes
      BY <1>1, <1>3
    <2> QED BY <1>2, <2>2, <2>3, <2>4 DEF Libraries
  <1>6. Referring(new)
    <2>1. \A l \in new.lists : l \subseteq new.tracks
      BY <1>1 DEF Referring
    <2>2. new.stars \subseteq new.tracks
      BY <1>1 DEF Referring
    <2> QED BY <1>4, <2>1, <2>2 DEF Referring
  <1> QED BY <1>5, <1>6 DEF new

LEMMA RestoreKeeps ==
  ASSUME BackupsInv, NEW b \in made, b.kind # "bundle", NEW force \in BOOLEAN, restore(b, force)
  PROVE  BackupsInv'
  <1> DEFINE base == IF force THEN Empty ELSE stock
  <1> DEFINE new == Restored(b.got, base)
  <1> DEFINE ok == new.played \subseteq new.tracks
  <1>1. b \in MadeRecords /\ MadeOK(b) /\ b.got \in Libraries
    BY DEF BackupsInv, KeptOK, MadeRecords
  <1>2. base \in Libraries /\ Referring(base)
    BY DEF Libraries, Referring, Empty, BackupsInv, LibraryOK
  <1>3. stock' = IF ok THEN new ELSE stock
    BY DEF restore
  <1> HIDE DEF base
  <1>4. LibraryOK'
    <2>1. stock' \in Libraries /\ Referring(stock')
      <3>1. CASE ok
        <4>1. new \in Libraries /\ Referring(new)
          BY <1>1, <1>2, <3>1, RestoredIsLibrary
        <4> HIDE DEF new
        <4> QED BY <1>3, <3>1, <4>1
      <3>2. CASE ~ok
        <4>1. stock' = stock
          BY <1>3, <3>2
        <4> QED BY <4>1 DEF BackupsInv, LibraryOK
      <3> QED BY <3>1, <3>2
    <2> QED BY <2>1 DEF LibraryOK, Referring
  <1>5. RestoreGivesBack'
    <2>1. CASE force
      <3>1. /\ verdict'.calm = b.calm /\ verdict'.all = (stock' = b.from)
            /\ verdict'.lists = (stock'.tracks = b.from.tracks /\ stock'.lists = b.from.lists)
        BY <2>1 DEF restore, Judged
      <3>2. b.calm => stock' = b.from
        <4> SUFFICES ASSUME b.calm PROVE stock' = b.from
          OBVIOUS
        <4>1. base = Empty
          BY <2>1 DEF base
        <4>2. new = b.from
          BY <1>1, <4>1, RestoredIsWhole
        <4>3. b.from.played \subseteq b.from.tracks
          BY <1>1 DEF MadeOK, Referring
        <4> HIDE DEF new
        <4> QED BY <1>3, <4>2, <4>3
      <3> QED BY <3>1, <3>2 DEF RestoreGivesBack
    <2>2. CASE ~force
      BY <2>2, NoVerdictIsRight DEF restore
    <2> QED BY <2>1, <2>2
  <1> QED BY <1>4, <1>5, DisturbedPromisesNothing, FilesStay, KeptStays DEF BackupsInv, restore

\* restore_backup_bundle_handler: the tracks and the playlists of the library the bundle
\* began with, as no playlist of it names a song that is no track.
LEMMA RestoreBundleKeeps ==
  ASSUME BackupsInv, NEW b \in made, b.kind = "bundle", restore_bundle(b)
  PROVE  BackupsInv'
  <1>1. b \in MadeRecords /\ MadeOK(b) /\ b.got \in Libraries
    BY DEF BackupsInv, KeptOK, MadeRecords
  <1> DEFINE ls == {l \intersect b.got.tracks : l \in b.got.lists}
  <1>2. /\ stock' = [tracks |-> b.got.tracks, lists |-> ls, stars |-> {}, played |-> {}]
    BY DEF restore_bundle, Bundled, Empty
  <1>3. /\ b.got.tracks \in SUBSET Tunes /\ ls \in SUBSET SUBSET Tunes
        /\ \A l \in ls : l \subseteq b.got.tracks
    BY <1>1 DEF Libraries
  <1>4. b.calm => ls = b.from.lists /\ b.got.tracks = b.from.tracks
    <2> SUFFICES ASSUME b.calm PROVE ls = b.from.lists /\ b.got.tracks = b.from.tracks
      OBVIOUS
    <2>1. b.got.tracks = b.from.tracks /\ b.got.lists = b.from.lists /\ Referring(b.from)
      BY <1>1 DEF MadeOK
    <2>2. \A l \in b.from.lists : l \intersect b.from.tracks = l
      BY <2>1 DEF Referring
    <2>3. ls = {l \intersect b.from.tracks : l \in b.from.lists}
      BY <2>1
    <2> HIDE DEF ls
    <2>4. ASSUME NEW x \in ls PROVE x \in b.from.lists
      <3>1. PICK l \in b.from.lists : x = l \intersect b.from.tracks
        BY <2>3
      <3> QED BY <2>2, <3>1
    <2>5. ASSUME NEW x \in b.from.lists PROVE x \in ls
      <3>1. x \intersect b.from.tracks \in ls
        BY <2>3
      <3> QED BY <2>2, <3>1
    <2>6. ls = b.from.lists
      BY <2>4, <2>5
    <2> QED BY <2>1, <2>6
  <1> HIDE DEF ls
  <1>5. LibraryOK'
    BY <1>2, <1>3 DEF LibraryOK, Libraries, Referring
  <1>6. RestoreGivesBack'
    <2>1. /\ verdict'.calm = b.calm /\ verdict'.kind = "bundle"
          /\ verdict'.lists = (stock'.tracks = b.from.tracks /\ stock'.lists = b.from.lists)
      BY DEF restore_bundle, Judged
    <2> QED BY <1>2, <1>4, <2>1 DEF RestoreGivesBack
  <1> QED BY <1>5, <1>6, DisturbedPromisesNothing, FilesStay, KeptStays
             DEF BackupsInv, restore_bundle

LEMMA BackupsInductive == BackupsInv /\ [BakNext]_bakVars => BackupsInv'
  <1> SUFFICES ASSUME BackupsInv, [BakNext]_bakVars PROVE BackupsInv'
    OBVIOUS
  <1>1. CASE Restore
    BY <1>1, RestoreKeeps, RestoreBundleKeeps DEF Restore
  <1>2. CASE Prune \/ Stop
    BY <1>2, PruneKeeps, StopKeeps
  <1>3. ASSUME NEW m \in Makers,
               \/ ReadTracks(m) \/ ReadLists(m) \/ FetchSongs(m)
               \/ ReadStars(m) \/ ReadHistory(m)
        PROVE  BackupsInv'
    BY <1>3, ReadTracksKeeps, ReadListsKeeps, FetchSongsKeeps, ReadStarsKeeps, ReadHistoryKeeps
  <1>4. ASSUME NEW s \in Tunes,
               \/ upsert_tracks(s) \/ delete_track(s) \/ star_track(s)
               \/ log_play(s) \/ list_track(s)
        PROVE  BackupsInv'
    BY <1>4, UpsertKeeps, DeleteKeeps, StarKeeps, PlayKeeps, ListKeeps
  <1>5. CASE UNCHANGED bakVars
    <2>1. UNCHANGED <<stock, maker, made, bakFiles, verdict>>
      BY <1>5 DEF bakVars, bakFiles
    <2>2. RestoreGivesBack'
      BY <2>1 DEF BackupsInv, RestoreGivesBack
    <2> QED BY <2>1, <2>2, MakersStay, KeptStays, FilesStay DEF BackupsInv
  <1> QED BY <1>1, <1>2, <1>3, <1>4, <1>5 DEF BakNext

THEOREM BackupsInvariant == BakSpec => []BackupsInv
  BY BackupsInitial, BackupsInductive, PTL DEF BakSpec

\* A backup taken while nothing changed gives the library back (restore_handler,
\* restore_backup_bundle_handler), and rotation keeps the newest file and no more than
\* configured (run_auto_backup_cycle), for any library and any number of files to keep.
THEOREM BackupsAreWorthHaving == BakSpec => []BackupsServe
  <1>1. BackupsInv => BackupsServe
    BY DEF BackupsInv, FilesOK, BackupsServe
  <1> QED BY <1>1, BackupsInvariant, PTL

-----------------------------------------------------------------------------
(***************************************************************************)
(* Presence                                                                *)
(***************************************************************************)
\* The inductive invariant.

Records == [online : BOOLEAN, verified : BOOLEAN, source : {"mdns", "signed"}, signed : Nat,
            mdns : Nat, url : Urls \union {NoUrl}]
Events == [kind : {"Discovered", "Updated", "EndpointChanged", "Offline"}, peer : Peers,
           verified : BOOLEAN, source : {"mdns", "signed"}, url : Urls \union {NoUrl}, stale : BOOLEAN]
Unsents == [by : {"listener", "resolver"}, ev : Events]
Entries == [presence : {"none", "offline", "provisional", "verified"}, url : Urls \union {NoUrl}]

PresTypes ==
  /\ clock \in Nat /\ swept \in BOOLEAN /\ lagging \in BOOLEAN /\ listening \in BOOLEAN
  /\ scent \in [Peers -> Records] /\ unsent \in Seq(Unsents) /\ channel \in Seq(Events)
  /\ snapshot \in SUBSET Events /\ projected \in [Peers -> Entries]
  /\ heard \in [Peers -> Nat] /\ met \in [Peers -> Nat] /\ astray \in SUBSET Peers

\* At time t the record is overdue, or the sweep has nothing to say of it.
LateAt(r, t) == ~(t < r.signed + Expiry) /\ ~(t < r.mdns + Expiry)
CalmAt(r, t) ==
  /\ r.online /\ ~LateAt(r, t)
  /\ ~(t < r.signed + Expiry) => ~r.verified /\ r.source = "mdns"

\* A record follows the two times it was refreshed at; after the sweep no record is overdue.
RecordOK(r, h, m, t, done) ==
  /\ h = r.signed /\ m = r.mdns
  /\ r.verified => r.online /\ r.source = "signed"
  /\ r.online /\ ~r.verified => r.source = "mdns"
  /\ ~r.online => LateAt(r, t)
  /\ done /\ r.online => ~LateAt(r, t)

\* What an event says of its record.
EventOK(e) ==
  /\ e.kind # "Offline" => e.source = IF e.verified THEN "signed" ELSE "mdns"
  /\ e.kind = "EndpointChanged" => e.url # NoUrl

EventsOK ==
  /\ \A i \in 1 .. Len(channel) : EventOK(channel[i])
  /\ \A i \in 1 .. Len(unsent) : EventOK(unsent[i].ev)
  /\ \A e \in snapshot : EventOK(e) /\ e.kind = "Updated"

\* The sweep has nothing to say of a record whose event is not sent yet.
UnsentFresh ==
  \A i \in 1 .. Len(unsent) :
    CalmAt(scent[unsent[i].ev.peer], clock)

\* A bridge that does not listen yet has raised no entry.
Raised(ent) == ent.presence \notin {"none", "offline"}
DeafOK ==
  ~listening =>
    /\ channel = <<>> /\ snapshot = {} /\ ~lagging
    /\ \A p \in Peers : Raised(projected[p]) => p \in astray

\* An event that writes the entry of p.
About(p, e) == e.peer = p /\ (e.kind = "Offline" \/ e.url # NoUrl)

Mirrors(e, r) ==
  /\ e.verified = r.verified /\ e.url = r.url
  /\ e.kind = "Offline" <=> ~r.online
Stands(e, r) == Mirrors(e, r) \/ (e.stale /\ r.online)

MatchesOf(ent, r) ==
  /\ ent.presence = IF ~r.online THEN "offline" ELSE IF r.verified THEN "verified" ELSE "provisional"
  /\ r.online => ent.url = r.url

NoneIn(p, s) == \A j \in 1 .. Len(s) : ~About(p, s[j])
NoneUnsent(p, un) == \A j \in 1 .. Len(un) : ~About(p, un[j].ev)

\* The last event about p that the bridge has still to receive tells the record as it is.
LastSent(p, ch, r) ==
  \A i \in 1 .. Len(ch) :
    About(p, ch[i]) /\ (\A j \in 1 .. Len(ch) : j > i => ~About(p, ch[j])) => Stands(ch[i], r)
LastUnsent(p, un, r) ==
  \A i \in 1 .. Len(un) :
    About(p, un[i].ev) /\ (\A j \in 1 .. Len(un) : j > i => ~About(p, un[j].ev)) => Stands(un[i].ev, r)
LastOf(p, ch, un, r) ==
  /\ LastUnsent(p, un, r)
  /\ NoneUnsent(p, un) => LastSent(p, ch, r)

\* When no event about p is on its way, the entry is right, will be made right by the snapshot
\* the bridge goes through, by the one a lagging bridge takes next, or by the sweep.
SettledOf(p, ch, un, sn, r, late, lag, ent, ast) ==
  NoneIn(p, ch) /\ NoneUnsent(p, un) =>
    \/ r.online /\ (lag \/ late)
    \/ /\ \E e \in sn : About(p, e)
       /\ \A e \in sn : About(p, e) => e.stale \/ Mirrors(e, r)
    \/ /\ \A e \in sn : ~About(p, e)
       /\ p \in ast \/ ent.presence = "none" \/ MatchesOf(ent, r)

Follow(p) ==
  scent[p].url # NoUrl =>
    /\ LastOf(p, channel, unsent, scent[p])
    /\ listening => SettledOf(p, channel, unsent, snapshot, scent[p], LateAt(scent[p], clock), lagging,
                              projected[p], astray)

PresInv ==
  /\ PresTypes /\ PresenceIsEarned
  /\ \A p \in Peers : RecordOK(scent[p], heard[p], met[p], clock, swept)
  /\ EventsOK /\ UnsentFresh /\ DeafOK
  /\ \A p \in Peers : Follow(p)

-----------------------------------------------------------------------------
\* Sequences of events.

LEMMA LastIndex ==
  ASSUME NEW p, NEW ch \in Seq(Events), ~NoneIn(p, ch)
  PROVE  \E i \in 1 .. Len(ch) : /\ About(p, ch[i])
                                 /\ \A j \in 1 .. Len(ch) : j > i => ~About(p, ch[j])
<1>. DEFINE n == Len(ch)
            S == {k \in 0 .. n : n - k \in 1 .. n /\ About(p, ch[n - k])}
<1>0. n \in Nat
  BY LenProperties
<1>1. PICK i \in 1 .. n : About(p, ch[i])
  BY DEF NoneIn
<1>2. n - i \in S
  BY <1>0, <1>1
<1>3. S \in SUBSET Nat
  BY <1>0
<1>. HIDE DEF S
<1>4. PICK k \in S : \A m \in S : k <= m
  BY <1>2, <1>3, LeastFile
<1>. USE DEF S
<1>5. n - k \in 1 .. n /\ About(p, ch[n - k]) /\ k \in Nat
  BY <1>4, <1>0
<1>6. ASSUME NEW j \in 1 .. n, j > n - k
      PROVE  ~About(p, ch[j])
  <2>1. n - j \in 0 .. n /\ n - (n - j) = j /\ ~(k <= n - j)
    BY <1>0, <1>5, <1>6
  <2>. QED  BY <2>1, <1>4
<1>. QED  BY <1>5, <1>6

(* The channel loses its oldest events: the bridge notices, an Offline     *)
(* that is lost excuses its peer, and what the snapshot still says of it   *)
(* is marked (broadcast::Sender::send).                                    *)
Marked(sn, lost) == {[e EXCEPT !.stale = @ \/ e.peer \in lost] : e \in sn}

\* m is e, marked or not.
MarkOf(m, e, lost) ==
  /\ m.peer = e.peer /\ m.kind = e.kind /\ m.url = e.url /\ m.verified = e.verified
  /\ m.source = e.source /\ (m.stale <=> e.stale \/ e.peer \in lost)

LEMMA MarkedFacts ==
  ASSUME NEW sn \in SUBSET Events, NEW lost
  PROVE  /\ Marked(sn, lost) \in SUBSET Events
         /\ \A m \in Marked(sn, lost) : \E e \in sn : MarkOf(m, e, lost)
         /\ \A e \in sn : \E m \in Marked(sn, lost) : MarkOf(m, e, lost)
<1>. DEFINE M(e) == [e EXCEPT !.stale = @ \/ e.peer \in lost]
<1>1. ASSUME NEW e \in sn
      PROVE  /\ M(e) \in Events
             /\ M(e).peer = e.peer /\ M(e).kind = e.kind /\ M(e).url = e.url
             /\ M(e).verified = e.verified /\ M(e).source = e.source
             /\ M(e).stale <=> e.stale \/ e.peer \in lost
  <2>1. e \in Events
    OBVIOUS
  <2>2. (e.stale \/ e.peer \in lost) \in BOOLEAN
    OBVIOUS
  <2>3. M(e) \in Events
    BY <2>1, <2>2 DEF Events
  <2>. QED  BY <2>1, <2>2, <2>3 DEF Events
<1>2. Marked(sn, lost) = {M(e) : e \in sn}
  BY DEF Marked
<1>. HIDE DEF M
<1>3. \A e \in sn : MarkOf(M(e), e, lost)
  BY <1>1 DEF MarkOf
<1>4. \A e \in sn : M(e) \in Events
  BY <1>1
<1>. QED  BY <1>2, <1>3, <1>4

LostOf(ch, over) == {ch[i].peer : i \in {j \in 1 .. over : ch[j].kind = "Offline"}}

LEMMA Loss ==
  ASSUME NEW p \in Peers, NEW ch \in Seq(Events), NEW un, NEW sn \in SUBSET Events,
         NEW r, NEW late, NEW lag \in BOOLEAN, NEW lag2 \in BOOLEAN, NEW ent, NEW ast, NEW over \in Nat, over <= Len(ch),
         NEW lost, lost = LostOf(ch, over), lag2 <=> (lag \/ over > 0),
         LastOf(p, ch, un, r), SettledOf(p, ch, un, sn, r, late, lag, ent, ast)
  PROVE  LET ch2 == SubSeq(ch, over + 1, Len(ch))
             sn2 == Marked(sn, lost)
         IN /\ LastOf(p, ch2, un, r)
            /\ SettledOf(p, ch2, un, sn2, r, late, lag2, ent, ast \union lost)
<1>. DEFINE ch2 == SubSeq(ch, over + 1, Len(ch))
            sn2 == Marked(sn, lost)
            n == Len(ch)
<1>1. /\ n \in Nat /\ ch2 \in Seq(Events) /\ Len(ch2) = n - over
      /\ \A i \in 1 .. n - over : ch2[i] = ch[i + over]
  <2>1. n \in Nat
    BY LenProperties
  <2>2. over + 1 \in 1 .. n + 1 /\ n \in over .. n
    BY <2>1
  <2>. QED  BY <2>1, <2>2, SubSeqProperties
<1>. HIDE DEF ch2
<1>2. LastOf(p, ch2, un, r)
  <2>. SUFFICES ASSUME NoneUnsent(p, un), NEW i \in 1 .. n - over, About(p, ch2[i]),
                       \A j \in 1 .. n - over : j > i => ~About(p, ch2[j])
                PROVE  Stands(ch2[i], r)
    BY <1>1 DEF LastOf, LastSent
  <2>0. i \in Nat /\ i >= 1 /\ i <= n - over
    BY <1>1
  <2>1. ch2[i] = ch[i + over] /\ i + over \in 1 .. n
    BY <1>1, <2>0
  <2>2. ASSUME NEW j \in 1 .. n, j > i + over
        PROVE  ~About(p, ch[j])
    <3>1. j - over \in 1 .. n - over /\ j - over > i /\ (j - over) + over = j
      BY <2>2, <1>1
    <3>. QED  BY <3>1, <1>1
  <2>. QED  BY <2>1, <2>2 DEF LastOf, LastSent
<1>3. SettledOf(p, ch2, un, sn2, r, late, lag2, ent, ast \union lost)
  <2>. SUFFICES ASSUME NoneIn(p, ch2), NoneUnsent(p, un),
                       ~(r.online /\ (lag2 \/ late))
                PROVE  \/ /\ \E e \in sn2 : About(p, e)
                          /\ \A e \in sn2 : About(p, e) => e.stale \/ Mirrors(e, r)
                       \/ /\ \A e \in sn2 : ~About(p, e)
                          /\ p \in ast \union lost \/ ent.presence = "none" \/ MatchesOf(ent, r)
    BY DEF SettledOf
  <2>. DEFINE Q(l) == /\ \A m \in Marked(sn, l) : \E e \in sn : MarkOf(m, e, l)
                      /\ \A e \in sn : \E m \in Marked(sn, l) : MarkOf(m, e, l)
  <2>a. ASSUME NEW l PROVE Q(l)
    BY MarkedFacts
  <2>b. Q(lost)
    <3>. HIDE DEF Q
    <3>. QED  BY <2>a
  <2>1. /\ \A m \in sn2 : \E e \in sn : MarkOf(m, e, lost)
        /\ \A e \in sn : \E m \in sn2 : MarkOf(m, e, lost)
    BY <2>b
  <2>. HIDE DEF sn2, Q
  <2>c. ASSUME NEW m, NEW e, MarkOf(m, e, lost)
        PROVE  (About(p, m) <=> About(p, e)) /\ (Mirrors(m, r) <=> Mirrors(e, r))
    BY <2>c DEF MarkOf, About, Mirrors
  <2>2. CASE NoneIn(p, ch)
    <3>1. CASE /\ \E e \in sn : About(p, e)
               /\ \A e \in sn : About(p, e) => e.stale \/ Mirrors(e, r)
      BY <3>1, <2>1, <2>c DEF MarkOf
    <3>2. CASE /\ \A e \in sn : ~About(p, e)
               /\ p \in ast \/ ent.presence = "none" \/ MatchesOf(ent, r)
      BY <3>2, <2>1, <2>c
    <3>. QED  BY <2>2, <3>1, <3>2 DEF SettledOf
  <2>3. CASE ~NoneIn(p, ch)
    <3>1. PICK i \in 1 .. n : About(p, ch[i]) /\ \A j \in 1 .. n : j > i => ~About(p, ch[j])
      BY <2>3, LastIndex
    <3>2. i <= over
      <4>. SUFFICES ASSUME ~(i <= over) PROVE FALSE
        OBVIOUS
      <4>1. i - over \in 1 .. n - over /\ (i - over) + over = i
        BY <1>1
      <4>2. ch2[i - over] = ch[i]
        BY <4>1, <1>1
      <4>. QED  BY <4>1, <4>2, <3>1, <1>1 DEF NoneIn
    <3>3. over > 0 /\ ~r.online
      BY <3>2, <1>1
    <3>4. ch[i].kind = "Offline" /\ ch[i].peer = p
      BY <3>1, <3>3 DEF LastOf, LastSent, Stands, Mirrors, About
    <3>5. i \in {j \in 1 .. over : ch[j].kind = "Offline"}
      BY <3>2, <3>4
    <3>6. p \in lost
      BY <3>4, <3>5 DEF LostOf
    <3>. QED  BY <3>6, <2>1, <2>c DEF MarkOf, About
  <2>. QED  BY <2>2, <2>3
<1>. QED  BY <1>2, <1>3 DEF ch2

LEMMA SentShape ==
  ASSUME PresTypes, listening, NEW es \in Seq(Events), Sent(es)
  PROVE  \E over \in Nat :
           /\ over <= Len(channel \o es)
           /\ channel' = SubSeq(channel \o es, over + 1, Len(channel \o es))
           /\ lagging' = (lagging \/ over > 0)
           /\ astray' = astray \union LostOf(channel \o es, over)
           /\ snapshot' = Marked(snapshot, LostOf(channel \o es, over))
<1>. DEFINE all == channel \o es
            over == IF Len(all) > Capacity THEN Len(all) - Capacity ELSE 0
<1>1. Len(all) \in Nat /\ Capacity \in Nat
  BY PresenceAssumption, ConcatProperties, LenProperties DEF PresTypes
<1>2. over \in Nat /\ over <= Len(all)
  BY <1>1
<1>3. LostOf(all, over) = {all[i].peer : i \in {j \in 1 .. over : all[j].kind = "Offline"}}
  BY DEF LostOf
<1>4. /\ channel' = SubSeq(all, over + 1, Len(all)) /\ lagging' = (lagging \/ over > 0)
      /\ astray' = astray \union LostOf(all, over)
  BY <1>3 DEF Sent
<1>5. snapshot' = {[e EXCEPT !.stale = @ \/ e.peer \in LostOf(all, over)] : e \in snapshot}
  BY <1>3 DEF Sent
<1>6. snapshot' = Marked(snapshot, LostOf(all, over))
  BY <1>5 DEF Marked
<1>. HIDE DEF all, over
<1>7. \E o \in Nat : /\ o <= Len(all) /\ channel' = SubSeq(all, o + 1, Len(all))
                     /\ lagging' = (lagging \/ o > 0) /\ astray' = astray \union LostOf(all, o)
                     /\ snapshot' = Marked(snapshot, LostOf(all, o))
  BY <1>2, <1>4, <1>6
<1>. USE DEF all
<1>. QED  BY <1>7

(* Sending keeps what is said of the channel with all the events in it.    *)
LEMMA SentFollows ==
  ASSUME PresTypes, listening, NEW es \in Seq(Events), Sent(es), NEW p \in Peers,
         NEW un, NEW r, NEW late, NEW ent,
         LastOf(p, channel \o es, un, r),
         SettledOf(p, channel \o es, un, snapshot, r, late, lagging, ent, astray)
  PROVE  /\ LastOf(p, channel', un, r)
         /\ SettledOf(p, channel', un, snapshot', r, late, lagging', ent, astray')
<1>. DEFINE all == channel \o es
<1>1. all \in Seq(Events)
  BY ConcatProperties DEF PresTypes
<1>. HIDE DEF all
<1>2. PICK over \in Nat :
        /\ over <= Len(all) /\ channel' = SubSeq(all, over + 1, Len(all))
        /\ lagging' = (lagging \/ over > 0) /\ astray' = astray \union LostOf(all, over)
        /\ snapshot' = Marked(snapshot, LostOf(all, over))
  BY SentShape DEF all
<1>3. LastOf(p, all, un, r) /\ SettledOf(p, all, un, snapshot, r, late, lagging, ent, astray)
  BY DEF all
<1>4. snapshot \in SUBSET Events /\ lagging \in BOOLEAN
  BY DEF PresTypes
<1>. DEFINE lost == LostOf(all, over)
<1>5. lost = LostOf(all, over)
  OBVIOUS
<1>. HIDE DEF lost
<1>6. /\ LastOf(p, SubSeq(all, over + 1, Len(all)), un, r)
      /\ SettledOf(p, SubSeq(all, over + 1, Len(all)), un, Marked(snapshot, lost), r, late,
                   lagging', ent, astray \union lost)
  <2>1. lagging' \in BOOLEAN /\ (lagging' <=> (lagging \/ over > 0)) /\ over \in Nat /\ over <= Len(all)
    BY <1>2
  <2>. QED  BY <1>1, <2>1, <1>3, <1>4, <1>5, Loss
<1>. QED  BY <1>2, <1>5, <1>6

LEMMA SentTypes ==
  ASSUME PresTypes, NEW es \in Seq(Events), Sent(es)
  PROVE  /\ channel' \in Seq(Events) /\ lagging' \in BOOLEAN /\ snapshot' \in SUBSET Events
         /\ astray \subseteq astray' /\ astray' \in SUBSET Peers
         /\ (\A i \in 1 .. Len(channel) : EventOK(channel[i])) /\ (\A i \in 1 .. Len(es) : EventOK(es[i]))
              => \A i \in 1 .. Len(channel') : EventOK(channel'[i])
         /\ (\A e \in snapshot : EventOK(e) /\ e.kind = "Updated")
              => \A e \in snapshot' : EventOK(e) /\ e.kind = "Updated"
<1>1. CASE ~listening
  BY <1>1 DEF Sent, PresTypes
<1>2. CASE listening
  <2>. DEFINE all == channel \o es
  <2>1. /\ all \in Seq(Events) /\ Len(all) = Len(channel) + Len(es)
        /\ \A i \in 1 .. Len(all) : all[i] = IF i <= Len(channel) THEN channel[i] ELSE es[i - Len(channel)]
    BY ConcatProperties DEF PresTypes
  <2>2. Len(channel) \in Nat /\ Len(es) \in Nat
    BY LenProperties DEF PresTypes
  <2>. HIDE DEF all
  <2>3. PICK over \in Nat :
          /\ over <= Len(all) /\ channel' = SubSeq(all, over + 1, Len(all))
          /\ lagging' = (lagging \/ over > 0) /\ astray' = astray \union LostOf(all, over)
          /\ snapshot' = Marked(snapshot, LostOf(all, over))
    BY <1>2, SentShape DEF all
  <2>4. /\ channel' \in Seq(Events) /\ Len(channel') = Len(all) - over
        /\ \A i \in 1 .. Len(all) - over : channel'[i] = all[i + over]
    <3>1. over + 1 \in 1 .. Len(all) + 1 /\ Len(all) \in over .. Len(all)
      BY <2>1, <2>2, <2>3
    <3>. QED  BY <2>1, <2>3, <3>1, SubSeqProperties
  <2>5. LostOf(all, over) \subseteq Peers
    <3>1. ASSUME NEW i \in {j \in 1 .. over : all[j].kind = "Offline"} PROVE all[i].peer \in Peers
      <4>1. i \in 1 .. Len(all)
        BY <2>1, <2>2, <2>3
      <4>2. all[i] \in Events
        BY <4>1, <2>1, ElementOfSeq
      <4>. QED  BY <4>2 DEF Events
    <3>. QED  BY <3>1 DEF LostOf
  <2>6. ASSUME \A i \in 1 .. Len(channel) : EventOK(channel[i]), \A i \in 1 .. Len(es) : EventOK(es[i]),
               NEW i \in 1 .. Len(channel')
        PROVE  EventOK(channel'[i])
    <3>1. channel'[i] = all[i + over] /\ i + over \in 1 .. Len(all)
      BY <2>1, <2>2, <2>3, <2>4
    <3>2. ASSUME NEW k \in 1 .. Len(all) PROVE EventOK(all[k])
      <4>1. CASE k <= Len(channel)
        BY <2>1, <2>2, <2>6, <4>1
      <4>2. CASE ~(k <= Len(channel))
        <5>1. k - Len(channel) \in 1 .. Len(es) /\ all[k] = es[k - Len(channel)]
          BY <2>1, <2>2, <4>2
        <5>. QED  BY <2>6, <5>1
      <4>. QED  BY <4>1, <4>2
    <3>. QED  BY <3>1, <3>2
  <2>7. snapshot' \in SUBSET Events /\ \A m \in snapshot' : \E e \in snapshot : MarkOf(m, e, LostOf(all, over))
    BY <2>3, MarkedFacts DEF PresTypes
  <2>8. ASSUME NEW m \in snapshot', \A e \in snapshot : EventOK(e) /\ e.kind = "Updated"
        PROVE  EventOK(m) /\ m.kind = "Updated"
    BY <2>7, <2>8 DEF MarkOf, EventOK
  <2>9. lagging' \in BOOLEAN
    BY <2>3
  <2>. QED  BY <2>3, <2>4, <2>5, <2>6, <2>7, <2>8, <2>9 DEF PresTypes
<1>. QED  BY <1>1, <1>2 DEF PresTypes

-----------------------------------------------------------------------------
\* A record changes and its event waits to be sent.

LEMMA AppendedNone ==
  ASSUME NEW p, NEW un \in Seq(Unsents), NEW u \in Unsents
  PROVE  /\ About(p, u.ev) => ~NoneUnsent(p, Append(un, u))
         /\ ~About(p, u.ev) => (NoneUnsent(p, Append(un, u)) <=> NoneUnsent(p, un))
<1>. DEFINE un2 == Append(un, u)
            n == Len(un)
<1>1. /\ n \in Nat /\ Len(un2) = n + 1 /\ un2[n + 1] = u
      /\ \A i \in 1 .. n : un2[i] = un[i]
  BY LenProperties, AppendProperties
<1>. HIDE DEF un2
<1>2. About(p, u.ev) => ~NoneUnsent(p, un2)
  BY <1>1 DEF NoneUnsent
<1>3. ~About(p, u.ev) => (NoneUnsent(p, un2) <=> NoneUnsent(p, un))
  BY <1>1 DEF NoneUnsent
<1>. QED  BY <1>2, <1>3 DEF un2

LEMMA AppendedLast ==
  ASSUME NEW p, NEW un \in Seq(Unsents), NEW u \in Unsents, NEW ch, NEW r
  PROVE  LET un2 == Append(un, u)
         IN /\ About(p, u.ev) /\ Mirrors(u.ev, r) => LastOf(p, ch, un2, r)
            /\ ~About(p, u.ev) /\ LastOf(p, ch, un, r) => LastOf(p, ch, un2, r)
<1>. DEFINE un2 == Append(un, u)
            n == Len(un)
<1>1. /\ n \in Nat /\ Len(un2) = n + 1 /\ un2[n + 1] = u
      /\ \A i \in 1 .. n : un2[i] = un[i]
  BY LenProperties, AppendProperties
<1>. HIDE DEF un2
<1>2. ASSUME About(p, u.ev), Mirrors(u.ev, r) PROVE LastOf(p, ch, un2, r)
  <2>1. ~NoneUnsent(p, un2)
    BY <1>1, <1>2 DEF NoneUnsent
  <2>2. ASSUME NEW i \in 1 .. n + 1, \A j \in 1 .. n + 1 : j > i => ~About(p, un2[j].ev)
        PROVE  Stands(un2[i].ev, r)
    <3>1. i = n + 1
      BY <1>1, <1>2, <2>2
    <3>. QED  BY <3>1, <1>1, <1>2 DEF Stands
  <2>. QED  BY <2>1, <2>2, <1>1 DEF LastOf, LastUnsent
<1>4. ~About(p, u.ev) => (NoneUnsent(p, un2) <=> NoneUnsent(p, un))
  BY AppendedNone DEF un2
<1>5. ASSUME ~About(p, u.ev), LastOf(p, ch, un, r) PROVE LastOf(p, ch, un2, r)
  <2>1. ASSUME NEW i \in 1 .. n + 1, About(p, un2[i].ev),
               \A j \in 1 .. n + 1 : j > i => ~About(p, un2[j].ev)
        PROVE  Stands(un2[i].ev, r)
    <3>1. i \in 1 .. n
      BY <1>1, <1>5, <2>1
    <3>2. \A j \in 1 .. n : j > i => ~About(p, un[j].ev)
      BY <1>1, <2>1
    <3>. QED  BY <3>1, <3>2, <1>1, <1>5, <2>1 DEF LastOf, LastUnsent
  <2>2. NoneUnsent(p, un2) => LastSent(p, ch, r)
    BY <1>4, <1>5 DEF LastOf
  <2>. QED  BY <2>1, <2>2, <1>1 DEF LastOf, LastUnsent
<1>. QED  BY <1>2, <1>5 DEF un2

(* The listener and the resolver: the record of p becomes r, refreshed     *)
(* now, and the event that says so is not sent yet.                        *)
LEMMA Announce ==
  ASSUME PresInv, NEW p \in Peers, NEW r \in Records, NEW by \in {"listener", "resolver"},
         NEW kind \in {"Discovered", "Updated", "EndpointChanged"},
         kind = "EndpointChanged" => r.url # NoUrl,
         scent' = [scent EXCEPT ![p] = r],
         unsent' = Append(unsent, [by |-> by, ev |-> Event(kind, p, r)]),
         CalmAt(r, clock), RecordOK(r, heard'[p], met'[p], clock, swept),
         \A q \in Peers : q # p => heard'[q] = heard[q] /\ met'[q] = met[q],
         heard' \in [Peers -> Nat], met' \in [Peers -> Nat],
         r.verified => clock < heard'[p] + Expiry,
         clock < heard'[p] + Expiry \/ clock < met'[p] + Expiry,
         UNCHANGED <<clock, swept, channel, lagging, bridge, astray>>
  PROVE  PresInv'
<1>. USE DEF PresInv
<1>. DEFINE u == [by |-> by, ev |-> Event(kind, p, r)]
<1>0. UNCHANGED <<clock, swept, channel, lagging, listening, snapshot, projected, astray>>
  BY DEF bridge
<1>1. u \in Unsents /\ EventOK(u.ev) /\ u.ev.peer = p /\ Mirrors(u.ev, r)
  <2>1. u.ev = Event(kind, p, r) /\ u.by = by
    OBVIOUS
  <2>2. Event(kind, p, r) \in Events
    BY DEF Event, Events, Records
  <2>3. EventOK(Event(kind, p, r)) /\ Event(kind, p, r).peer = p /\ Mirrors(Event(kind, p, r), r)
    <3>1. r.online /\ (r.verified => r.source = "signed") /\ (~r.verified => r.source = "mdns")
      BY DEF CalmAt, RecordOK
    <3>. QED  BY <3>1 DEF Event, EventOK, Mirrors, Records
  <2>. QED  BY <2>1, <2>2, <2>3 DEF Unsents
<1>2. unsent' = Append(unsent, u)
  OBVIOUS
<1>2a. u.ev.url = r.url /\ u.ev.kind # "Offline"
  BY DEF Event
<1>. HIDE DEF u
<1>3. /\ Len(unsent) \in Nat /\ Len(unsent') = Len(unsent) + 1 /\ unsent'[Len(unsent) + 1] = u
      /\ \A i \in 1 .. Len(unsent) : unsent'[i] = unsent[i]
      /\ unsent' \in Seq(Unsents)
  BY <1>1, <1>2, LenProperties, AppendProperties DEF PresTypes
<1>4. scent' \in [Peers -> Records] /\ \A q \in Peers : scent'[q] = IF q = p THEN r ELSE scent[q]
  BY DEF PresTypes
<1>5. PresTypes'
  BY <1>0, <1>3, <1>4 DEF PresTypes
<1>6. \A q \in Peers : RecordOK(scent'[q], heard'[q], met'[q], clock', swept')
  BY <1>0, <1>4
<1>7. PresenceIsEarned'
  <2>1. ASSUME NEW q \in Peers, NEW s \in {0, 1}, s = (IF swept THEN 0 ELSE 1)
        PROVE  /\ scent'[q].verified => clock < heard'[q] + Expiry + s
               /\ scent'[q].online => (clock < heard'[q] + Expiry + s \/ clock < met'[q] + Expiry + s)
    <3>1. CASE q = p
      <4>1. heard'[p] \in Nat /\ met'[p] \in Nat /\ Expiry \in Nat /\ clock \in Nat
        BY PresenceAssumption DEF PresTypes
      <4>. QED  BY <4>1, <3>1, <1>4
    <3>2. CASE q # p
      BY <3>2, <2>1, <1>4 DEF PresenceIsEarned
    <3>. QED  BY <3>1, <3>2
  <2>. QED  BY <2>1, <1>0 DEF PresenceIsEarned
<1>8. EventsOK'
  BY <1>0, <1>1, <1>3 DEF EventsOK
<1>9. UnsentFresh'
  <2>1. ASSUME NEW i \in 1 .. Len(unsent')
        PROVE  CalmAt(scent'[unsent'[i].ev.peer], clock')
    <3>1. CASE i = Len(unsent) + 1
      BY <3>1, <1>0, <1>1, <1>3, <1>4
    <3>2. CASE i \in 1 .. Len(unsent)
      <4>1. unsent[i].ev.peer \in Peers
        <5>1. unsent[i] \in Unsents
          BY <3>2, ElementOfSeq DEF PresTypes
        <5>. QED  BY <5>1 DEF Unsents, Events
      <4>. QED  BY <3>2, <4>1, <1>0, <1>3, <1>4 DEF UnsentFresh
    <3>. QED  BY <3>1, <3>2, <1>3
  <2>. QED  BY <2>1 DEF UnsentFresh
<1>10. DeafOK'
  BY <1>0 DEF DeafOK
<1>11. ASSUME NEW q \in Peers PROVE Follow(q)'
  <2>1. CASE q = p
    <3>. SUFFICES ASSUME r.url # NoUrl PROVE Follow(q)'
      BY <2>1, <1>4 DEF Follow
    <3>1. About(p, u.ev)
      BY <1>1, <1>2a DEF About
    <3>2. unsent \in Seq(Unsents)
      BY DEF PresTypes
    <3>3. LastOf(p, channel', unsent', r)
      BY <1>1, <1>2, <3>1, <3>2, AppendedLast
    <3>4. ~NoneUnsent(p, unsent')
      BY <1>1, <1>2, <3>1, <3>2, AppendedNone
    <3>. QED  BY <3>3, <3>4, <2>1, <1>4 DEF Follow, SettledOf
  <2>2. CASE q # p
    <3>1. ~About(q, u.ev)
      BY <1>1, <2>2 DEF About
    <3>2. unsent \in Seq(Unsents)
      BY DEF PresTypes
    <3>3. LastOf(q, channel, unsent, scent[q]) => LastOf(q, channel, unsent', scent[q])
      BY <1>1, <1>2, <3>1, <3>2, AppendedLast
    <3>4. NoneUnsent(q, unsent') <=> NoneUnsent(q, unsent)
      BY <1>1, <1>2, <3>1, <3>2, AppendedNone
    <3>. QED  BY <3>3, <3>4, <2>2, <1>0, <1>4 DEF Follow, SettledOf
  <2>. QED  BY <2>1, <2>2
<1>. QED  BY <1>5, <1>6, <1>7, <1>8, <1>9, <1>10, <1>11

LEMMA PacketKeeps ==
  ASSUME PresInv, NEW p \in Peers, handle_packet(p)
  PROVE  PresInv'
<1>. DEFINE r == Signed(scent[p])
            kind == IF scent[p].online THEN "Updated" ELSE "Discovered"
<1>1. scent[p] \in Records /\ clock \in Nat /\ Expiry \in Nat \ {0}
  BY PresenceAssumption DEF PresInv, PresTypes
<1>2. /\ r \in Records /\ r.online = TRUE /\ r.verified = TRUE /\ r.source = "signed" /\ r.signed = clock
      /\ r.mdns = scent[p].mdns /\ r.url = scent[p].url
  BY <1>1 DEF Signed, Records
<1>3. /\ scent' = [scent EXCEPT ![p] = r]
      /\ unsent' = Append(unsent, [by |-> "listener", ev |-> Event(kind, p, r)])
      /\ heard' = [heard EXCEPT ![p] = clock]
      /\ UNCHANGED <<clock, swept, channel, lagging, bridge, met, astray>>
  BY DEF handle_packet
<1>4. kind \in {"Discovered", "Updated", "EndpointChanged"} /\ kind # "EndpointChanged"
  OBVIOUS
<1>. HIDE DEF r, kind
<1>5. heard \in [Peers -> Nat] /\ met \in [Peers -> Nat] /\ met[p] = scent[p].mdns
  BY DEF PresInv, PresTypes, RecordOK
<1>6. heard' \in [Peers -> Nat] /\ heard'[p] = clock /\ \A q \in Peers : q # p => heard'[q] = heard[q]
  BY <1>1, <1>3, <1>5
<1>7. CalmAt(r, clock) /\ RecordOK(r, heard'[p], met'[p], clock, swept)
  BY <1>1, <1>2, <1>3, <1>5, <1>6 DEF CalmAt, RecordOK, LateAt
<1>8. clock < heard'[p] + Expiry
  BY <1>1, <1>6
<1>. QED  BY <1>2, <1>3, <1>4, <1>5, <1>6, <1>7, <1>8, Announce

LEMMA ResolvedKeeps ==
  ASSUME PresInv, NEW p \in Peers, NEW u \in Urls, NEW a, handle_resolved_service(p, u, a)
  PROVE  PresInv'
<1>. DEFINE r == Candidate(scent[p], u)
            kind == IF ~scent[p].online THEN "Discovered"
                    ELSE IF scent[p].url # u THEN "EndpointChanged" ELSE "Updated"
<1>1. scent[p] \in Records /\ clock \in Nat /\ Expiry \in Nat \ {0} /\ NoUrl \notin Urls
  BY PresenceAssumption DEF PresInv, PresTypes
<1>2. /\ r \in Records /\ r.online = TRUE /\ (r.verified <=> clock < scent[p].signed + Expiry)
      /\ r.source = (IF clock < scent[p].signed + Expiry THEN "signed" ELSE "mdns")
      /\ r.signed = scent[p].signed /\ r.mdns = clock /\ r.url = u
  <2>. DEFINE t == clock < scent[p].signed + Expiry
  <2>1. t \in BOOLEAN
    BY <1>1 DEF Records
  <2>2. r = [scent[p] EXCEPT !.online = TRUE, !.mdns = clock, !.url = u, !.verified = t,
                             !.source = IF t THEN "signed" ELSE "mdns"]
    BY DEF Candidate, is_fresh
  <2>. HIDE DEF t, r
  <2>3. /\ r \in Records /\ r.online = TRUE /\ r.verified = t
        /\ r.source = (IF t THEN "signed" ELSE "mdns")
        /\ r.signed = scent[p].signed /\ r.mdns = clock /\ r.url = u
    BY <1>1, <2>1, <2>2 DEF Records
  <2>. QED  BY <2>3 DEF t
<1>3. /\ scent' = [scent EXCEPT ![p] = r]
      /\ unsent' = Append(unsent, [by |-> "resolver", ev |-> Event(kind, p, r)])
      /\ a.key = p /\ met' = [met EXCEPT ![p] = clock]
      /\ UNCHANGED <<clock, swept, channel, lagging, bridge, heard, astray>>
  BY DEF handle_resolved_service, observe_mdns_candidate, verify_identity_endpoint
<1>4. kind \in {"Discovered", "Updated", "EndpointChanged"} /\ r.url # NoUrl
  BY <1>1, <1>2
<1>. HIDE DEF r, kind
<1>5. heard \in [Peers -> Nat] /\ met \in [Peers -> Nat] /\ heard[p] = scent[p].signed
  BY DEF PresInv, PresTypes, RecordOK
<1>6. met' \in [Peers -> Nat] /\ met'[p] = clock /\ \A q \in Peers : q # p => met'[q] = met[q]
  BY <1>1, <1>3, <1>5
<1>7. CalmAt(r, clock) /\ RecordOK(r, heard'[p], met'[p], clock, swept)
  BY <1>1, <1>2, <1>3, <1>5, <1>6 DEF CalmAt, RecordOK, LateAt
<1>8. clock < met'[p] + Expiry /\ (r.verified => clock < heard'[p] + Expiry)
  BY <1>1, <1>2, <1>3, <1>5, <1>6
<1>. QED  BY <1>2, <1>3, <1>4, <1>5, <1>6, <1>7, <1>8, Announce

-----------------------------------------------------------------------------
\* A thread sends its event after it released the lock.

Overtakes(un, i) == \E j \in 1 .. (i - 1) : un[j].ev.peer = un[i].ev.peer
Resent(un, i) ==
  [k \in 1 .. (Len(un) - 1) |->
     LET u == IF k < i THEN un[k] ELSE un[k + 1]
     IN IF Overtakes(un, i) /\ k < i /\ u.ev.peer = un[i].ev.peer THEN [u EXCEPT !.ev.stale = TRUE] ELSE u]

\* w is u, overtaken or not.
Left(w, u) ==
  /\ w.by = u.by /\ w.ev.kind = u.ev.kind /\ w.ev.peer = u.ev.peer /\ w.ev.verified = u.ev.verified
  /\ w.ev.source = u.ev.source /\ w.ev.url = u.ev.url /\ (u.ev.stale => w.ev.stale)

LEMMA ResentFacts ==
  ASSUME NEW un \in Seq(Unsents), NEW i \in 1 .. Len(un)
  PROVE  /\ Resent(un, i) \in Seq(Unsents) /\ Len(Resent(un, i)) = Len(un) - 1
         /\ \A k \in 1 .. Len(un) - 1 : Left(Resent(un, i)[k], un[IF k < i THEN k ELSE k + 1])
         /\ \A k \in 1 .. Len(un) - 1 :
              k < i /\ un[k].ev.peer = un[i].ev.peer => Resent(un, i)[k].ev.stale = TRUE
<1>. DEFINE n == Len(un)
            w == Resent(un, i)
            U(k) == un[IF k < i THEN k ELSE k + 1]
            S(u) == [u EXCEPT !.ev.stale = TRUE]
<1>1. n \in Nat /\ i \in Nat
  BY LenProperties
<1>2. ASSUME NEW k \in 1 .. n - 1 PROVE U(k) \in Unsents
  <2>1. (IF k < i THEN k ELSE k + 1) \in 1 .. n
    BY <1>1
  <2>. QED  BY <2>1, ElementOfSeq
<1>3. ASSUME NEW u \in Unsents
      PROVE  S(u) \in Unsents /\ Left(S(u), u) /\ S(u).ev.stale = TRUE /\ Left(u, u)
  <2>1. u.ev \in Events /\ u.by \in {"listener", "resolver"}
    BY DEF Unsents
  <2>2. S(u).ev = [u.ev EXCEPT !.stale = TRUE] /\ S(u).by = u.by
    BY DEF Unsents
  <2>3. S(u) \in Unsents
    BY <2>1 DEF Unsents, Events
  <2>. QED  BY <2>1, <2>2, <2>3 DEF Left, Events
<1>. HIDE DEF S
<1>4. ASSUME NEW k \in 1 .. n - 1
      PROVE  w[k] = IF Overtakes(un, i) /\ k < i /\ U(k).ev.peer = un[i].ev.peer THEN S(U(k)) ELSE U(k)
  BY DEF Resent, S
<1>5. w = [k \in 1 .. n - 1 |-> w[k]]
  BY DEF Resent
<1>. HIDE DEF w, U
<1>6. ASSUME NEW k \in 1 .. n - 1 PROVE w[k] \in Unsents /\ Left(w[k], U(k))
  BY <1>2, <1>3, <1>4
<1>7. w \in Seq(Unsents) /\ Len(w) = n - 1
  <2>1. n - 1 \in Nat
    BY <1>1
  <2>. QED  BY <1>5, <1>6, <2>1, IsASeq
<1>8. ASSUME NEW k \in 1 .. n - 1, k < i, un[k].ev.peer = un[i].ev.peer
      PROVE  w[k].ev.stale = TRUE
  <2>1. U(k) = un[k]
    BY <1>8 DEF U
  <2>2. k \in 1 .. (i - 1)
    BY <1>1, <1>8
  <2>3. Overtakes(un, i)
    BY <1>8, <2>2 DEF Overtakes
  <2>. QED  BY <2>1, <2>3, <1>2, <1>3, <1>4, <1>8
<1>. QED  BY <1>6, <1>7, <1>8 DEF w, U

(* One event leaves for the channel: what is told last of p stays so, or   *)
(* is marked as overtaken.                                                 *)
LEMMA SendOne ==
  ASSUME NEW p, NEW ch \in Seq(Events), NEW un \in Seq(Unsents), NEW i \in 1 .. Len(un), NEW r,
         \A k \in 1 .. Len(un) : About(p, un[k].ev) => r.online,
         LastOf(p, ch, un, r)
  PROVE  /\ LastOf(p, ch \o <<un[i].ev>>, Resent(un, i), r)
         /\ NoneIn(p, ch \o <<un[i].ev>>) /\ NoneUnsent(p, Resent(un, i))
              => NoneIn(p, ch) /\ NoneUnsent(p, un)
<1>. DEFINE n == Len(un)
            m == Len(ch)
            w == Resent(un, i)
            c == ch \o <<un[i].ev>>
            At(k) == IF k < i THEN k ELSE k + 1
<1>1. /\ n \in Nat /\ i \in Nat /\ m \in Nat
      /\ w \in Seq(Unsents) /\ Len(w) = n - 1
      /\ \A k \in 1 .. n - 1 : Left(w[k], un[At(k)])
      /\ \A k \in 1 .. n - 1 : k < i /\ un[k].ev.peer = un[i].ev.peer => w[k].ev.stale = TRUE
  <2>1. n \in Nat /\ i \in Nat /\ m \in Nat
    BY LenProperties
  <2>2. /\ Resent(un, i) \in Seq(Unsents) /\ Len(Resent(un, i)) = Len(un) - 1
        /\ \A k \in 1 .. Len(un) - 1 : Left(Resent(un, i)[k], un[IF k < i THEN k ELSE k + 1])
        /\ \A k \in 1 .. Len(un) - 1 :
             k < i /\ un[k].ev.peer = un[i].ev.peer => Resent(un, i)[k].ev.stale = TRUE
    BY ResentFacts
  <2>. QED  BY <2>1, <2>2
<1>2. Len(c) = m + 1 /\ c[m + 1] = un[i].ev /\ \A k \in 1 .. m : c[k] = ch[k]
  <2>1. un[i] \in Unsents
    BY ElementOfSeq
  <2>2. un[i].ev \in Events
    BY <2>1 DEF Unsents
  <2>3. <<un[i].ev>> \in Seq(Events) /\ Len(<<un[i].ev>>) = 1 /\ <<un[i].ev>>[1] = un[i].ev
    BY <2>2
  <2>. HIDE DEF m
  <2>4. Len(c) = Len(ch) + 1 /\ \A k \in 1 .. Len(ch) + 1 : c[k] = IF k <= Len(ch) THEN ch[k] ELSE <<un[i].ev>>[k - Len(ch)]
    BY <2>3, ConcatProperties
  <2>. QED  BY <2>3, <2>4, <1>1 DEF m
<1>. HIDE DEF w, c
<1>3. ASSUME NEW k \in 1 .. n, k # i
      PROVE  \E l \in 1 .. n - 1 : At(l) = k
  <2>1. CASE k < i
    <3>1. k \in 1 .. n - 1 /\ At(k) = k
      BY <1>1, <2>1
    <3>. QED  BY <3>1
  <2>2. CASE k > i
    <3>1. k - 1 \in 1 .. n - 1 /\ At(k - 1) = k
      BY <1>1, <2>2
    <3>. QED  BY <3>1
  <2>. QED  BY <1>3, <2>1, <2>2
<1>4. ASSUME NEW k \in 1 .. n - 1
      PROVE  /\ At(k) \in 1 .. n /\ At(k) # i
             /\ About(p, w[k].ev) <=> About(p, un[At(k)].ev)
             /\ Stands(un[At(k)].ev, r) => Stands(w[k].ev, r)
  <2>1. At(k) \in 1 .. n /\ At(k) # i
    BY <1>1
  <2>2. Left(w[k], un[At(k)])
    BY <1>1
  <2>. HIDE DEF At
  <2>. QED  BY <2>1, <2>2 DEF Left, About, Stands, Mirrors
<1>5. LastUnsent(p, w, r)
  <2>. SUFFICES ASSUME NEW k \in 1 .. n - 1, About(p, w[k].ev),
                       \A j \in 1 .. n - 1 : j > k => ~About(p, w[j].ev)
                PROVE  Stands(w[k].ev, r)
    BY <1>1 DEF LastUnsent
  <2>1. About(p, un[At(k)].ev) /\ At(k) \in 1 .. n
    BY <1>4
  <2>2. r.online
    BY <2>1
  <2>3. ASSUME NEW j \in 1 .. n, j > At(k), j # i PROVE ~About(p, un[j].ev)
    <3>1. PICK l \in 1 .. n - 1 : At(l) = j
      BY <1>3, <2>3
    <3>2. l > k
      BY <3>1, <2>3, <1>1
    <3>3. ~About(p, w[l].ev) /\ (About(p, w[l].ev) <=> About(p, un[At(l)].ev))
      BY <3>2, <1>4
    <3>. HIDE DEF At
    <3>. QED  BY <3>1, <3>3
  <2>4. CASE i > At(k) /\ About(p, un[i].ev)
    <3>1. k < i /\ At(k) = k
      BY <2>4, <1>1
    <3>2. un[k].ev.peer = un[i].ev.peer
      BY <2>1, <2>4, <3>1 DEF About
    <3>. QED  BY <3>1, <3>2, <2>2, <1>1 DEF Stands
  <2>5. CASE ~(i > At(k) /\ About(p, un[i].ev))
    <3>1. \A j \in 1 .. n : j > At(k) => ~About(p, un[j].ev)
      BY <2>3, <2>5
    <3>2. Stands(un[At(k)].ev, r)
      <4>. HIDE DEF At
      <4>. QED  BY <3>1, <2>1 DEF LastOf, LastUnsent
    <3>. QED  BY <3>2, <1>4
  <2>. QED  BY <2>4, <2>5
<1>6. ASSUME NoneUnsent(p, w), NEW k \in 1 .. n, k # i PROVE ~About(p, un[k].ev)
  <2>1. PICK l \in 1 .. n - 1 : At(l) = k
    BY <1>3, <1>6
  <2>2. ~About(p, w[l].ev) /\ (About(p, w[l].ev) <=> About(p, un[At(l)].ev))
    BY <1>4, <1>6, <1>1 DEF NoneUnsent
  <2>. HIDE DEF At
  <2>. QED  BY <2>1, <2>2
<1>7. ASSUME NoneUnsent(p, w) PROVE LastSent(p, c, r)
  <2>1. CASE About(p, un[i].ev)
    <3>1. Stands(un[i].ev, r)
      <4>1. \A j \in 1 .. n : j > i => ~About(p, un[j].ev)
        BY <1>6, <1>7, <1>1
      <4>. QED  BY <4>1, <2>1 DEF LastOf, LastUnsent
    <3>2. ASSUME NEW k \in 1 .. m + 1, \A j \in 1 .. m + 1 : j > k => ~About(p, c[j])
          PROVE  k = m + 1
      BY <3>2, <2>1, <1>1, <1>2
    <3>. QED  BY <3>1, <3>2, <1>2 DEF LastSent
  <2>2. CASE ~About(p, un[i].ev)
    <3>1. NoneUnsent(p, un)
      BY <2>2, <1>6, <1>7 DEF NoneUnsent
    <3>2. LastSent(p, ch, r)
      BY <3>1 DEF LastOf
    <3>3. ASSUME NEW k \in 1 .. m + 1, About(p, c[k]),
                 \A j \in 1 .. m + 1 : j > k => ~About(p, c[j])
          PROVE  Stands(c[k], r)
      <4>1. k \in 1 .. m
        BY <3>3, <2>2, <1>1, <1>2
      <4>2. \A j \in 1 .. m : j > k => ~About(p, ch[j])
        BY <3>3, <1>1, <1>2
      <4>. QED  BY <4>1, <4>2, <3>2, <3>3, <1>2 DEF LastSent
    <3>. QED  BY <3>3, <1>2 DEF LastSent
  <2>. QED  BY <2>1, <2>2
<1>8. LastOf(p, c, w, r)
  BY <1>5, <1>7 DEF LastOf
<1>9. ASSUME NoneIn(p, c), NoneUnsent(p, w) PROVE NoneIn(p, ch) /\ NoneUnsent(p, un)
  <2>1. ~About(p, un[i].ev)
    BY <1>9, <1>1, <1>2 DEF NoneIn
  <2>2. NoneUnsent(p, un)
    BY <2>1, <1>6, <1>9 DEF NoneUnsent
  <2>. QED  BY <2>2, <1>9, <1>1, <1>2 DEF NoneIn
<1>. QED  BY <1>8, <1>9 DEF w, c

LEMMA SendUnsentKeeps ==
  ASSUME PresInv, NEW i, SendUnsent(i)
  PROVE  PresInv'
<1>. USE DEF PresInv
<1>. DEFINE w == Resent(unsent, i)
            es == <<unsent[i].ev>>
<1>1. /\ i \in 1 .. Len(unsent) /\ unsent \in Seq(Unsents) /\ channel \in Seq(Events)
      /\ snapshot \in SUBSET Events /\ Len(unsent) \in Nat
  BY LenProperties DEF SendUnsent, PresTypes
<1>2. /\ unsent' = w /\ Sent(es)
      /\ UNCHANGED <<clock, swept, scent, listening, projected, heard, met>>
  BY DEF SendUnsent, Resent, Overtakes
<1>3. unsent[i] \in Unsents
  BY <1>1, ElementOfSeq
<1>4. es \in Seq(Events) /\ Len(es) = 1 /\ es[1] = unsent[i].ev
  BY <1>3 DEF Unsents
<1>5. /\ w \in Seq(Unsents) /\ Len(w) = Len(unsent) - 1
      /\ \A k \in 1 .. Len(unsent) - 1 : Left(w[k], unsent[IF k < i THEN k ELSE k + 1])
  BY <1>1, ResentFacts
<1>. HIDE DEF w, es
<1>5a. ASSUME NEW k \in 1 .. Len(w)
       PROVE  \E j \in 1 .. Len(unsent) : Left(w[k], unsent[j])
  <2>1. (IF k < i THEN k ELSE k + 1) \in 1 .. Len(unsent) /\ k \in 1 .. Len(unsent) - 1
    BY <1>1, <1>5
  <2>. QED  BY <2>1, <1>5
<1>6. /\ channel' \in Seq(Events) /\ lagging' \in BOOLEAN /\ snapshot' \in SUBSET Events
      /\ astray \subseteq astray' /\ astray' \in SUBSET Peers
      /\ \A k \in 1 .. Len(channel') : EventOK(channel'[k])
      /\ \A e \in snapshot' : EventOK(e) /\ e.kind = "Updated"
  <2>1. \A k \in 1 .. Len(es) : EventOK(es[k])
    BY <1>1, <1>4 DEF EventsOK
  <2>. QED  BY <2>1, <1>2, <1>4, SentTypes DEF EventsOK
<1>7. PresTypes'
  BY <1>2, <1>5, <1>6 DEF PresTypes
<1>8. PresenceIsEarned' /\ \A p \in Peers : RecordOK(scent[p], heard[p], met[p], clock, swept)'
  BY <1>2 DEF PresenceIsEarned
<1>9. EventsOK'
  <2>1. ASSUME NEW k \in 1 .. Len(w) PROVE EventOK(w[k].ev)
    <3>1. PICK j \in 1 .. Len(unsent) : Left(w[k], unsent[j])
      BY <1>5a
    <3>2. EventOK(unsent[j].ev)
      BY DEF EventsOK
    <3>. QED  BY <3>1, <3>2 DEF EventOK, Left
  <2>. QED  BY <2>1, <1>2, <1>6 DEF EventsOK
<1>10. UnsentFresh'
  <2>1. ASSUME NEW k \in 1 .. Len(w) PROVE CalmAt(scent[w[k].ev.peer], clock)
    <3>1. PICK j \in 1 .. Len(unsent) : Left(w[k], unsent[j])
      BY <1>5a
    <3>. QED  BY <3>1 DEF UnsentFresh, Left
  <2>. QED  BY <2>1, <1>2 DEF UnsentFresh
<1>11. DeafOK'
  BY <1>2, <1>6 DEF DeafOK, Sent
<1>12. ASSUME NEW p \in Peers PROVE Follow(p)'
  <2>. DEFINE r == scent[p]
              late == LateAt(scent[p], clock)
  <2>. SUFFICES ASSUME r.url # NoUrl PROVE Follow(p)'
    BY <1>2 DEF Follow
  <2>1. LastOf(p, channel, unsent, r)
    BY DEF Follow
  <2>2. \A k \in 1 .. Len(unsent) : About(p, unsent[k].ev) => r.online
    BY DEF UnsentFresh, CalmAt, About
  <2>3. /\ LastOf(p, channel \o es, w, r)
        /\ NoneIn(p, channel \o es) /\ NoneUnsent(p, w) => NoneIn(p, channel) /\ NoneUnsent(p, unsent)
    BY <1>1, <2>1, <2>2, SendOne DEF w, es
  <2>4. CASE ~listening
    <3>1. channel' = <<>>
      <4>1. channel = <<>>
        BY <2>4 DEF DeafOK
      <4>2. channel' = channel
        BY <1>2, <2>4 DEF Sent
      <4>. QED  BY <4>1, <4>2
    <3>2. LastOf(p, channel', w, r)
      BY <3>1, <2>3 DEF LastOf, LastSent
    <3>. QED  BY <3>2, <2>4, <1>2 DEF Follow
  <2>5. CASE listening
    <3>1. SettledOf(p, channel, unsent, snapshot, r, late, lagging, projected[p], astray)
      BY <2>5 DEF Follow
    <3>2. SettledOf(p, channel \o es, w, snapshot, r, late, lagging, projected[p], astray)
      BY <3>1, <2>3 DEF SettledOf
    <3>. HIDE DEF r, late
    <3>3. /\ LastOf(p, channel', w, r)
          /\ SettledOf(p, channel', w, snapshot', r, late, lagging', projected[p], astray')
      BY <2>3, <2>5, <3>2, <1>2, <1>4, SentFollows
    <3>. QED  BY <3>3, <1>2 DEF Follow, r, late
  <2>. QED  BY <2>4, <2>5
<1>. QED  BY <1>7, <1>8, <1>9, <1>10, <1>11, <1>12

-----------------------------------------------------------------------------
\* The sweep.

LEMMA ConcatOther ==
  ASSUME NEW p, NEW ch \in Seq(Events), NEW es \in Seq(Events), NEW un, NEW r,
         \A i \in 1 .. Len(es) : ~About(p, es[i]), LastOf(p, ch, un, r)
  PROVE  LastOf(p, ch \o es, un, r) /\ (NoneIn(p, ch \o es) => NoneIn(p, ch))
<1>. DEFINE all == ch \o es
            m == Len(ch)
            n == Len(es)
<1>1. /\ m \in Nat /\ n \in Nat /\ Len(all) = m + n
      /\ \A i \in 1 .. m + n : all[i] = IF i <= m THEN ch[i] ELSE es[i - m]
  BY LenProperties, ConcatProperties
<1>. HIDE DEF all
<1>2. ASSUME NEW i \in 1 .. m + n, About(p, all[i]) PROVE i \in 1 .. m
  <2>1. i - m \in 1 .. n \/ i <= m
    BY <1>1
  <2>. QED  BY <2>1, <1>1, <1>2
<1>3. \A i \in 1 .. m : i \in 1 .. m + n /\ all[i] = ch[i]
  BY <1>1
<1>4. NoneIn(p, all) => NoneIn(p, ch)
  BY <1>1, <1>3 DEF NoneIn
<1>5. ASSUME LastSent(p, ch, r), NEW i \in 1 .. m + n, About(p, all[i]),
             \A j \in 1 .. m + n : j > i => ~About(p, all[j])
      PROVE  Stands(all[i], r)
  <2>1. i \in 1 .. m /\ all[i] = ch[i]
    BY <1>2, <1>3, <1>5
  <2>2. \A j \in 1 .. m : j > i => ~About(p, ch[j])
    BY <1>3, <1>5
  <2>. QED  BY <2>1, <2>2, <1>5 DEF LastSent
<1>6. LastSent(p, ch, r) => LastSent(p, all, r)
  BY <1>5, <1>1 DEF LastSent
<1>. QED  BY <1>4, <1>6 DEF LastOf, all

LEMMA ConcatMirrors ==
  ASSUME NEW p, NEW ch \in Seq(Events), NEW es \in Seq(Events), NEW un, NEW r,
         NoneUnsent(p, un), \E i \in 1 .. Len(es) : About(p, es[i]),
         \A i \in 1 .. Len(es) : About(p, es[i]) => Mirrors(es[i], r)
  PROVE  LastOf(p, ch \o es, un, r) /\ ~NoneIn(p, ch \o es)
<1>. DEFINE all == ch \o es
            m == Len(ch)
            n == Len(es)
<1>1. /\ m \in Nat /\ n \in Nat /\ Len(all) = m + n
      /\ \A i \in 1 .. m + n : all[i] = IF i <= m THEN ch[i] ELSE es[i - m]
  BY LenProperties, ConcatProperties
<1>. HIDE DEF all
<1>2. ASSUME NEW i \in 1 .. n PROVE m + i \in 1 .. m + n /\ all[m + i] = es[i]
  <2>1. m + i \in 1 .. m + n /\ ~(m + i <= m) /\ (m + i) - m = i
    BY <1>1
  <2>. QED  BY <2>1, <1>1
<1>3. PICK k \in 1 .. n : About(p, es[k])
  OBVIOUS
<1>4. ~NoneIn(p, all)
  BY <1>1, <1>2, <1>3 DEF NoneIn
<1>5. ASSUME NEW i \in 1 .. m + n, About(p, all[i]),
             \A j \in 1 .. m + n : j > i => ~About(p, all[j])
      PROVE  Stands(all[i], r)
  <2>1. ~(m + k > i)
    BY <1>2, <1>3, <1>5
  <2>2. i - m \in 1 .. n /\ all[i] = es[i - m]
    BY <2>1, <1>1
  <2>. QED  BY <2>2, <1>5 DEF Stands
<1>6. LastSent(p, all, r) /\ LastUnsent(p, un, r)
  BY <1>5, <1>1 DEF LastSent, LastUnsent, NoneUnsent
<1>. QED  BY <1>4, <1>6 DEF LastOf, all

After(r) == IF r.online THEN Swept(r) ELSE r

LEMMA AfterFacts ==
  ASSUME NEW r \in Records, NEW h \in Nat, NEW m \in Nat, NEW done, RecordOK(r, h, m, clock, done),
         clock \in Nat, NEW fin, fin = TRUE
  PROVE  /\ After(r) \in Records /\ After(r).url = r.url /\ RecordOK(After(r), h, m, clock, fin)
         /\ After(r).verified => clock < h + Expiry
         /\ After(r).online => clock < h + Expiry \/ clock < m + Expiry
         /\ CalmAt(r, clock) => After(r) = r
         /\ After(r).online => r.online
         /\ LateAt(After(r), clock) <=> LateAt(r, clock)
<1>. DEFINE s == clock < r.signed + Expiry
            d == clock < r.mdns + Expiry
<1>1. h = r.signed /\ m = r.mdns
  BY DEF RecordOK
<1>2. CASE ~r.online
  BY <1>2, <1>1 DEF After, RecordOK, CalmAt, LateAt
<1>3. CASE r.online /\ s
  <2>1. After(r) = r
    BY <1>3 DEF After, Swept, effective_presence, is_fresh
  <2>. QED  BY <2>1, <1>1, <1>3 DEF RecordOK, LateAt
<1>4. CASE r.online /\ ~s /\ d
  <2>1. After(r) = [r EXCEPT !.source = "mdns", !.verified = FALSE]
    BY <1>4 DEF After, Swept, effective_presence, is_fresh
  <2>2. /\ After(r) \in Records /\ After(r).url = r.url /\ After(r).online = r.online
        /\ After(r).verified = FALSE /\ After(r).source = "mdns" /\ After(r).signed = r.signed
        /\ After(r).mdns = r.mdns
    BY <2>1 DEF Records
  <2>3. CalmAt(r, clock) => After(r) = r
    <3>1. ASSUME CalmAt(r, clock) PROVE r.verified = FALSE /\ r.source = "mdns"
      BY <3>1, <1>4 DEF CalmAt, Records
    <3>. QED  BY <3>1, <2>1 DEF Records
  <2>. QED  BY <2>2, <2>3, <1>1, <1>4 DEF RecordOK, LateAt
<1>5. CASE r.online /\ ~s /\ ~d
  <2>1. After(r) = [r EXCEPT !.online = FALSE, !.verified = FALSE]
    BY <1>5 DEF After, Swept, effective_presence, is_fresh
  <2>2. /\ After(r) \in Records /\ After(r).url = r.url /\ After(r).online = FALSE
        /\ After(r).verified = FALSE /\ After(r).source = r.source /\ After(r).signed = r.signed
        /\ After(r).mdns = r.mdns
    BY <2>1 DEF Records
  <2>. QED  BY <2>2, <1>1, <1>5 DEF RecordOK, LateAt, CalmAt
<1>. QED  BY <1>2, <1>3, <1>4, <1>5

LEMMA SweepKeeps ==
  ASSUME PresInv, check_expirations
  PROVE  PresInv'
<1>. USE DEF PresInv
<1>. DEFINE after == [p \in Peers |-> After(scent[p])]
            changed == {p \in Peers : after[p] # scent[p]}
            Kind(p) == IF after[p].online THEN "Updated" ELSE "Offline"
<1>1. PICK order \in [1 .. Cardinality(changed) -> changed] :
        /\ \A p \in changed : \E i \in DOMAIN order : order[i] = p
        /\ Sent([i \in DOMAIN order |-> Event(Kind(order[i]), order[i], after[order[i]])])
  BY DEF check_expirations, After
<1>2. /\ ~swept /\ swept' = TRUE /\ scent' = after
      /\ UNCHANGED <<clock, unsent, listening, projected, heard, met>>
  BY DEF check_expirations, After
<1>. DEFINE es == [i \in DOMAIN order |-> Event(Kind(order[i]), order[i], after[order[i]])]
            n == Cardinality(changed)
<1>3. ASSUME NEW p \in Peers
      PROVE  /\ scent[p] \in Records /\ after[p] = After(scent[p])
             /\ after[p] \in Records /\ after[p].url = scent[p].url
             /\ RecordOK(after[p], heard[p], met[p], clock, swept')
             /\ after[p].verified => clock < heard[p] + Expiry
             /\ after[p].online => clock < heard[p] + Expiry \/ clock < met[p] + Expiry
             /\ CalmAt(scent[p], clock) => after[p] = scent[p]
             /\ LateAt(after[p], clock) <=> LateAt(scent[p], clock)
  <2>1. /\ scent[p] \in Records /\ heard[p] \in Nat /\ met[p] \in Nat /\ clock \in Nat
        /\ RecordOK(scent[p], heard[p], met[p], clock, swept)
    BY DEF PresTypes
  <2>2. after[p] = After(scent[p])
    OBVIOUS
  <2>. DEFINE A == After(scent[p])
  <2>3. swept' = TRUE
    BY <1>2
  <2>4. /\ A \in Records /\ A.url = scent[p].url
        /\ RecordOK(A, heard[p], met[p], clock, swept')
        /\ A.verified => clock < heard[p] + Expiry
        /\ A.online => clock < heard[p] + Expiry \/ clock < met[p] + Expiry
        /\ CalmAt(scent[p], clock) => A = scent[p]
        /\ LateAt(A, clock) <=> LateAt(scent[p], clock)
    BY <2>1, <2>3, AfterFacts
  <2>. HIDE DEF after, A
  <2>5. after[p] = A
    BY <2>2 DEF A
  <2>. QED  BY <2>1, <2>2, <2>4, <2>5
<1>4. n \in Nat
  <2>1. changed \subseteq Peers
    OBVIOUS
  <2>2. IsFiniteSet(Peers)
    BY PresenceAssumption
  <2>. HIDE DEF changed
  <2>3. IsFiniteSet(changed)
    BY <2>1, <2>2, FS_Subset
  <2>. QED  BY <2>3, FS_CardinalityType
<1>. HIDE DEF after
<1>5. ASSUME NEW p \in Peers
      PROVE  /\ Event(Kind(p), p, after[p]) \in Events /\ EventOK(Event(Kind(p), p, after[p]))
             /\ Event(Kind(p), p, after[p]).peer = p /\ Mirrors(Event(Kind(p), p, after[p]), after[p])
             /\ after[p].url # NoUrl => About(p, Event(Kind(p), p, after[p]))
  <2>1. Event(Kind(p), p, after[p]) \in Events
    BY <1>3 DEF Event, Events, Records
  <2>2. /\ Event(Kind(p), p, after[p]).peer = p /\ Event(Kind(p), p, after[p]).url = after[p].url
        /\ Event(Kind(p), p, after[p]).kind = Kind(p)
        /\ Event(Kind(p), p, after[p]).verified = after[p].verified
        /\ Event(Kind(p), p, after[p]).source = after[p].source
    BY DEF Event
  <2>3. after[p].online \in BOOLEAN /\ after[p].verified \in BOOLEAN
    BY <1>3 DEF Records
  <2>. QED  BY <1>3, <2>1, <2>2, <2>3 DEF EventOK, Mirrors, About, RecordOK
<1>. HIDE DEF Kind, n
<1>6. DOMAIN order = 1 .. n /\ \A i \in 1 .. n : order[i] \in changed /\ order[i] \in Peers
  BY <1>1 DEF n
<1>7. es \in Seq(Events) /\ Len(es) = n
  <2>1. \A i \in 1 .. n : es[i] \in Events
    BY <1>5, <1>6
  <2>2. es = [i \in 1 .. n |-> es[i]]
    BY <1>6
  <2>. HIDE DEF es
  <2>. QED  BY <1>4, <2>1, <2>2, IsASeq
<1>8. Sent(es) /\ \A i \in 1 .. n : es[i] = Event(Kind(order[i]), order[i], after[order[i]])
  BY <1>1, <1>6
<1>8a. \A p \in changed : \E i \in 1 .. n : order[i] = p
  BY <1>1, <1>6
<1>8b. \A p \in Peers : p \in changed <=> after[p] # scent[p]
  OBVIOUS
<1>. HIDE DEF es, changed
<1>9. /\ channel' \in Seq(Events) /\ lagging' \in BOOLEAN /\ snapshot' \in SUBSET Events
      /\ astray \subseteq astray' /\ astray' \in SUBSET Peers
      /\ \A k \in 1 .. Len(channel') : EventOK(channel'[k])
      /\ \A e \in snapshot' : EventOK(e) /\ e.kind = "Updated"
  <2>1. \A k \in 1 .. Len(es) : EventOK(es[k])
    BY <1>5, <1>6, <1>7, <1>8
  <2>. QED  BY <2>1, <1>7, <1>8, SentTypes DEF EventsOK
<1>10. PresTypes'
  <2>1. after \in [Peers -> Records]
    BY <1>3 DEF after
  <2>. QED  BY <1>2, <1>9, <2>1 DEF PresTypes
<1>11. \A p \in Peers : RecordOK(scent'[p], heard'[p], met'[p], clock', swept')
  BY <1>2, <1>3
<1>12. PresenceIsEarned'
  <2>1. \A p \in Peers : heard[p] \in Nat /\ met[p] \in Nat /\ heard[p] + Expiry + 0 = heard[p] + Expiry
                          /\ met[p] + Expiry + 0 = met[p] + Expiry
    BY PresenceAssumption DEF PresTypes
  <2>. QED  BY <1>2, <1>3, <2>1 DEF PresenceIsEarned
<1>13. EventsOK'
  BY <1>2, <1>9 DEF EventsOK
<1>14. UnsentFresh'
  <2>1. ASSUME NEW k \in 1 .. Len(unsent)
        PROVE  CalmAt(after[unsent[k].ev.peer], clock)
    <3>1. unsent[k].ev.peer \in Peers
      <4>1. unsent[k] \in Unsents
        BY ElementOfSeq DEF PresTypes
      <4>. QED  BY <4>1 DEF Unsents, Events
    <3>. QED  BY <3>1, <1>3 DEF UnsentFresh
  <2>. QED  BY <2>1, <1>2 DEF UnsentFresh
<1>15. DeafOK'
  BY <1>2, <1>8, <1>9 DEF DeafOK, Sent
<1>16. ASSUME NEW p \in Peers PROVE Follow(p)'
  <2>. DEFINE r == after[p]
              late == LateAt(scent[p], clock)
              late2 == LateAt(r, clock)
  <2>. SUFFICES ASSUME r.url # NoUrl PROVE Follow(p)'
    BY <1>2 DEF Follow
  <2>0. channel \in Seq(Events) /\ scent[p].url # NoUrl
    BY <1>3 DEF PresTypes
  <2>1. /\ LastOf(p, channel, unsent, scent[p])
        /\ listening => SettledOf(p, channel, unsent, snapshot, scent[p], late, lagging, projected[p], astray)
    BY <2>0 DEF Follow
  <2>2. CASE ~listening
    <3>1. channel = <<>> /\ channel' = <<>>
      BY <2>2, <1>8 DEF DeafOK, Sent
    <3>2. LastSent(p, <<>>, r)
      BY DEF LastSent
    <3>3. LastUnsent(p, unsent, r)
      <4>. SUFFICES ASSUME NEW k \in 1 .. Len(unsent), About(p, unsent[k].ev)
                    PROVE  r = scent[p]
        BY <2>1 DEF LastOf, LastUnsent
      <4>1. CalmAt(scent[p], clock)
        BY DEF UnsentFresh, About
      <4>. QED  BY <4>1, <1>3
    <3>. QED  BY <3>1, <3>2, <3>3, <2>2, <1>2 DEF Follow, LastOf
  <2>3. CASE listening
    <3>1. LastOf(p, channel \o es, unsent, r) /\ SettledOf(p, channel \o es, unsent, snapshot, r, late2, lagging, projected[p], astray)
      <4>1. CASE r = scent[p]
        <5>1. \A i \in 1 .. Len(es) : ~About(p, es[i])
          BY <4>1, <1>5, <1>6, <1>7, <1>8, <1>8b DEF About
        <5>2. LastOf(p, channel \o es, unsent, r) /\ (NoneIn(p, channel \o es) => NoneIn(p, channel))
          BY <2>0, <2>1, <4>1, <5>1, <1>7, ConcatOther
        <5>. QED  BY <5>2, <2>1, <2>3, <4>1 DEF SettledOf
      <4>2. CASE r # scent[p]
        <5>1. NoneUnsent(p, unsent)
          BY <4>2, <1>3 DEF UnsentFresh, About, NoneUnsent
        <5>2. PICK i \in 1 .. n : order[i] = p
          BY <4>2, <1>8a, <1>8b
        <5>3. About(p, es[i])
          BY <5>2, <1>5, <1>8
        <5>4. \A k \in 1 .. Len(es) : About(p, es[k]) => Mirrors(es[k], r)
          BY <1>5, <1>6, <1>7, <1>8 DEF About
        <5>5. LastOf(p, channel \o es, unsent, r) /\ ~NoneIn(p, channel \o es)
          BY <2>0, <5>1, <5>3, <5>4, <1>7, ConcatMirrors
        <5>. QED  BY <5>5 DEF SettledOf
      <4>. QED  BY <4>1, <4>2
    <3>. HIDE DEF r, late2
    <3>2. /\ LastOf(p, channel', unsent, r)
          /\ SettledOf(p, channel', unsent, snapshot', r, late2, lagging', projected[p], astray')
      BY <2>3, <3>1, <1>7, <1>8, SentFollows
    <3>. QED  BY <3>2, <1>2 DEF Follow, r, late2
  <2>. QED  BY <2>2, <2>3
<1>. QED  BY <1>10, <1>11, <1>12, <1>13, <1>14, <1>15, <1>16

-----------------------------------------------------------------------------
\* Time, and the bridge.

LEMMA TimeKeeps ==
  ASSUME PresInv, PassTime
  PROVE  PresInv'
<1>. USE DEF PresInv
<1>1. /\ swept /\ unsent = <<>> /\ clock' = clock + 1 /\ swept' = FALSE
      /\ UNCHANGED <<scent, unsent, channel, lagging, listening, snapshot, projected, heard, met, astray>>
  BY DEF PassTime, scents, bridge
<1>2. /\ clock \in Nat /\ Expiry \in Nat
      /\ \A p \in Peers : /\ scent[p].signed \in Nat /\ scent[p].mdns \in Nat
                          /\ heard[p] \in Nat /\ met[p] \in Nat
  <2>1. \A p \in Peers : scent[p] \in Records
    BY DEF PresTypes
  <2>. QED  BY <2>1, PresenceAssumption DEF PresTypes, Records
<1>3. \A p \in Peers : LateAt(scent[p], clock) => LateAt(scent[p], clock')
  BY <1>1, <1>2 DEF LateAt
<1>4. PresTypes'
  <2>. HIDE DEF PresInv
  <2>1. clock' = clock + 1 /\ swept' = FALSE /\ clock \in Nat
    BY <1>2 DEF PassTime
  <2>2. clock' \in Nat
    BY <2>1
  <2>3. swept' \in BOOLEAN
    BY <2>1
  <2>. QED  BY <1>1, <2>2, <2>3 DEF PresTypes, PresInv
<1>5. \A p \in Peers : RecordOK(scent'[p], heard'[p], met'[p], clock', swept')
  BY <1>1, <1>3 DEF RecordOK
<1>6. PresenceIsEarned'
  <2>1. \A p \in Peers : /\ scent[p].verified => clock < heard[p] + Expiry
                         /\ scent[p].online => clock < heard[p] + Expiry \/ clock < met[p] + Expiry
    BY <1>1, <1>2 DEF PresenceIsEarned
  <2>2. \A p \in Peers : /\ scent[p].verified => clock + 1 < heard[p] + Expiry + 1
                         /\ scent[p].online => clock + 1 < heard[p] + Expiry + 1 \/ clock + 1 < met[p] + Expiry + 1
    BY <1>2, <2>1
  <2>. QED  BY <1>1, <2>2 DEF PresenceIsEarned
<1>7. EventsOK' /\ DeafOK'
  BY <1>1 DEF EventsOK, DeafOK
<1>8. UnsentFresh'
  BY <1>1 DEF UnsentFresh
<1>9. ASSUME NEW p \in Peers PROVE Follow(p)'
  BY <1>1, <1>3 DEF Follow, SettledOf
<1>. QED  BY <1>4, <1>5, <1>6, <1>7, <1>8, <1>9

(* The records list_online returns, as the events the bridge goes through. *)
LEMMA SnapshotTaken ==
  ASSUME PresInv, NEW sn, sn = {Event("Updated", p, scent[p]) : p \in list_online}
  PROVE  /\ sn \in SUBSET Events /\ \A e \in sn : EventOK(e) /\ e.kind = "Updated"
         /\ \A p \in Peers :
              /\ scent[p].url # NoUrl /\ ~LateAt(scent[p], clock) => \E e \in sn : About(p, e)
              /\ \A e \in sn : About(p, e) => Mirrors(e, scent[p])
              /\ LateAt(scent[p], clock) => \A e \in sn : ~About(p, e)
<1>. USE DEF PresInv
<1>1. \A p \in Peers : p \in list_online <=> ~LateAt(scent[p], clock)
  BY DEF list_online, effective_presence, is_fresh, LateAt
<1>2. ASSUME NEW p \in Peers, ~LateAt(scent[p], clock)
      PROVE  LET e == Event("Updated", p, scent[p])
             IN /\ e \in Events /\ EventOK(e) /\ e.kind = "Updated" /\ e.peer = p
                /\ e.url = scent[p].url /\ Mirrors(e, scent[p])
  <2>1. scent[p] \in Records /\ RecordOK(scent[p], heard[p], met[p], clock, swept)
    BY DEF PresTypes
  <2>2. /\ scent[p].online /\ scent[p].verified \in BOOLEAN
        /\ scent[p].source = IF scent[p].verified THEN "signed" ELSE "mdns"
    BY <1>2, <2>1 DEF RecordOK, Records
  <2>. QED  BY <2>1, <2>2 DEF Event, Events, EventOK, Mirrors, Records
<1>3. list_online \subseteq Peers
  BY DEF list_online
<1>4. ASSUME NEW e \in sn
      PROVE  \E p \in Peers : /\ ~LateAt(scent[p], clock) /\ e.peer = p /\ e \in Events /\ EventOK(e)
                              /\ e.kind = "Updated" /\ Mirrors(e, scent[p])
  BY <1>1, <1>2, <1>3
<1>5. ASSUME NEW p \in Peers, scent[p].url # NoUrl, ~LateAt(scent[p], clock)
      PROVE  \E e \in sn : About(p, e)
  <2>1. Event("Updated", p, scent[p]) \in sn
    BY <1>1, <1>5
  <2>. QED  BY <1>2, <1>5, <2>1 DEF About
<1>6. \A e \in sn : e \in Events /\ EventOK(e) /\ e.kind = "Updated"
  BY <1>4
<1>7. ASSUME NEW p \in Peers, NEW e \in sn, About(p, e)
      PROVE  Mirrors(e, scent[p]) /\ ~LateAt(scent[p], clock)
  BY <1>4, <1>7 DEF About
<1>. QED  BY <1>5, <1>6, <1>7

LEMMA StartKeeps ==
  ASSUME PresInv, BridgeStart
  PROVE  PresInv'
<1>. USE DEF PresInv
<1>1. /\ ~listening /\ listening' = TRUE
      /\ snapshot' = {Event("Updated", p, scent[p]) : p \in list_online}
      /\ UNCHANGED <<clock, swept, scent, unsent, channel, lagging, projected, heard, met, astray>>
  BY DEF BridgeStart, scents
<1>. HIDE DEF PresInv
<1>2. /\ snapshot' \in SUBSET Events /\ \A e \in snapshot' : EventOK(e) /\ e.kind = "Updated"
      /\ \A p \in Peers :
           /\ scent[p].url # NoUrl /\ ~LateAt(scent[p], clock) => \E e \in snapshot' : About(p, e)
           /\ \A e \in snapshot' : About(p, e) => Mirrors(e, scent[p])
           /\ LateAt(scent[p], clock) => \A e \in snapshot' : ~About(p, e)
  BY <1>1, SnapshotTaken
<1>. USE DEF PresInv
<1>3. PresTypes'
  BY <1>1, <1>2 DEF PresTypes
<1>4. PresenceIsEarned' /\ \A p \in Peers : RecordOK(scent[p], heard[p], met[p], clock, swept)'
  BY <1>1 DEF PresenceIsEarned
<1>5. EventsOK' /\ UnsentFresh' /\ DeafOK'
  BY <1>1, <1>2 DEF EventsOK, UnsentFresh, DeafOK
<1>6. ASSUME NEW p \in Peers PROVE Follow(p)'
  <2>. DEFINE r == scent[p]
  <2>1. CASE r.url = NoUrl
    BY <1>1, <2>1 DEF Follow
  <2>2. CASE r.url # NoUrl /\ ~LateAt(r, clock)
    BY <1>1, <1>2, <2>2 DEF Follow, SettledOf
  <2>3. CASE r.url # NoUrl /\ LateAt(r, clock) /\ r.online
    BY <1>1, <2>3 DEF Follow, SettledOf
  <2>4. CASE r.url # NoUrl /\ LateAt(r, clock) /\ ~r.online
    <3>1. p \in astray \/ projected[p].presence = "none" \/ MatchesOf(projected[p], r)
      BY <1>1, <2>4 DEF DeafOK, Raised, MatchesOf
    <3>. QED  BY <1>1, <1>2, <2>4, <3>1 DEF Follow, SettledOf
  <2>. QED  BY <2>1, <2>2, <2>3, <2>4
<1>. QED  BY <1>3, <1>4, <1>5, <1>6

LEMMA LaggedKeeps ==
  ASSUME PresInv, BridgeLagged
  PROVE  PresInv'
<1>1. /\ listening /\ snapshot = {} /\ lagging /\ lagging' = FALSE
      /\ snapshot' = {Event("Updated", p, scent[p]) : p \in list_online}
      /\ UNCHANGED <<clock, swept, scent, unsent, channel, listening, projected, heard, met, astray>>
  BY DEF BridgeLagged
<1>2. /\ snapshot' \in SUBSET Events /\ \A e \in snapshot' : EventOK(e) /\ e.kind = "Updated"
      /\ \A p \in Peers :
           /\ scent[p].url # NoUrl /\ ~LateAt(scent[p], clock) => \E e \in snapshot' : About(p, e)
           /\ \A e \in snapshot' : About(p, e) => Mirrors(e, scent[p])
           /\ LateAt(scent[p], clock) => \A e \in snapshot' : ~About(p, e)
  BY <1>1, SnapshotTaken
<1>. USE DEF PresInv
<1>3. PresTypes'
  BY <1>1, <1>2 DEF PresTypes
<1>4. PresenceIsEarned' /\ \A p \in Peers : RecordOK(scent[p], heard[p], met[p], clock, swept)'
  BY <1>1 DEF PresenceIsEarned
<1>5. EventsOK' /\ UnsentFresh' /\ DeafOK'
  BY <1>1, <1>2 DEF EventsOK, UnsentFresh, DeafOK
<1>6. ASSUME NEW p \in Peers PROVE Follow(p)'
  <2>. DEFINE r == scent[p]
  <2>1. CASE r.url = NoUrl
    BY <1>1, <2>1 DEF Follow
  <2>2. CASE r.url # NoUrl /\ ~LateAt(r, clock)
    BY <1>1, <1>2, <2>2 DEF Follow, SettledOf
  <2>3. CASE r.url # NoUrl /\ LateAt(r, clock) /\ r.online
    BY <1>1, <2>3 DEF Follow, SettledOf
  <2>4. CASE r.url # NoUrl /\ LateAt(r, clock) /\ ~r.online
    BY <1>1, <1>2, <2>4 DEF Follow, SettledOf
  <2>. QED  BY <2>1, <2>2, <2>3, <2>4
<1>. QED  BY <1>3, <1>4, <1>5, <1>6

(* An event that is about its peer writes what the record says, or is      *)
(* known to be overtaken; one that names no base URL writes nothing.       *)
LEMMA Written ==
  ASSUME PresTypes, NEW e \in Events, EventOK(e), handle_event(e)
  PROVE  /\ projected' \in [Peers -> Entries] /\ astray' \in SUBSET Peers
         /\ \A q \in Peers : q # e.peer => projected'[q] = projected[q] /\ (q \in astray' <=> q \in astray)
         /\ ~About(e.peer, e) => UNCHANGED <<projected, astray>>
         /\ \A r : e.stale \/ Mirrors(e, r) =>
              \/ ~About(e.peer, e)
              \/ e.peer \in astray' \/ projected'[e.peer].presence = "none" \/ MatchesOf(projected'[e.peer], r)
<1>. DEFINE p == e.peer
<1>1. /\ p \in Peers /\ e.url \in Urls \union {NoUrl} /\ e.stale \in BOOLEAN /\ e.verified \in BOOLEAN
      /\ e.kind \in {"Discovered", "Updated", "EndpointChanged", "Offline"}
      /\ projected \in [Peers -> Entries] /\ astray \in SUBSET Peers
  BY DEF Events, PresTypes
<1>1a. projected[p] \in Entries
  BY <1>1
<1>1b. projected[p].url \in Urls \union {NoUrl}
  BY <1>1a DEF Entries
<1>2. ASSUME NEW presence \in {"offline", "provisional", "verified"}, NEW url \in Urls \union {NoUrl},
             Project(p, presence, url, e.stale)
      PROVE  /\ projected' \in [Peers -> Entries] /\ astray' \in SUBSET Peers
             /\ projected'[p].presence = presence /\ projected'[p].url = url
             /\ \A q \in Peers : q # p => projected'[q] = projected[q] /\ (q \in astray' <=> q \in astray)
             /\ e.stale => p \in astray'
  <2>1. [presence |-> presence, url |-> url] \in Entries
    BY DEF Entries
  <2>. QED  BY <2>1, <1>1, <1>2 DEF Project
<1>. HIDE DEF p
<1>3. CASE About(p, e) /\ e.kind # "Offline" /\ ~UNCHANGED <<projected, astray>>
  <2>1. Project(p, Target(e), e.url, e.stale)
    BY <1>1, <1>3 DEF handle_event, reconcile_record, EventOK, About, p
  <2>2. Target(e) = (IF e.verified THEN "verified" ELSE "provisional")
    BY <1>3 DEF Target, EventOK
  <2>3. Target(e) \in {"offline", "provisional", "verified"}
    BY <2>2
  <2>4. /\ projected' \in [Peers -> Entries] /\ astray' \in SUBSET Peers
        /\ projected'[p].presence = Target(e) /\ projected'[p].url = e.url
        /\ \A q \in Peers : q # p => projected'[q] = projected[q] /\ (q \in astray' <=> q \in astray)
        /\ e.stale => p \in astray'
    BY <1>1, <1>2, <2>1, <2>3
  <2>5. ASSUME NEW r, Mirrors(e, r) PROVE MatchesOf(projected'[p], r)
    BY <1>3, <2>2, <2>4, <2>5 DEF Mirrors, MatchesOf
  <2>. QED  BY <1>3, <2>4, <2>5 DEF p
<1>4. CASE e.kind = "Offline" /\ projected[p].presence # "none"
  <2>1. Project(p, "offline", projected[p].url, e.stale)
    BY <1>4 DEF handle_event, p
  <2>4. /\ projected' \in [Peers -> Entries] /\ astray' \in SUBSET Peers
        /\ projected'[p].presence = "offline"
        /\ \A q \in Peers : q # p => projected'[q] = projected[q] /\ (q \in astray' <=> q \in astray)
        /\ e.stale => p \in astray'
    BY <1>1b, <1>2, <2>1
  <2>5. ASSUME NEW r, Mirrors(e, r) PROVE MatchesOf(projected'[p], r)
    BY <1>4, <2>4, <2>5 DEF Mirrors, MatchesOf
  <2>6. About(p, e)
    BY <1>4 DEF About, p
  <2>. QED  BY <2>4, <2>5, <2>6 DEF p
<1>5. CASE e.kind = "Offline" /\ projected[p].presence = "none"
  <2>1. UNCHANGED <<projected, astray>>
    BY <1>5 DEF handle_event, p
  <2>. QED  BY <1>1, <1>5, <2>1 DEF p
<1>6. CASE ~About(p, e) /\ e.kind # "Offline"
  <2>1. UNCHANGED <<projected, astray>>
    BY <1>6, <1>1 DEF handle_event, reconcile_record, About, EventOK, p
  <2>. QED  BY <1>1, <1>6, <2>1 DEF p
<1>7. CASE About(p, e) /\ e.kind # "Offline" /\ UNCHANGED <<projected, astray>>
  <2>1. CASE projected[p].presence = "none"
    BY <1>1, <1>7, <2>1 DEF p
  <2>2. CASE projected[p].presence # "none"
    <3>1. Project(p, Target(e), e.url, e.stale)
      BY <1>1, <1>7, <2>2 DEF handle_event, reconcile_record, EventOK, About, p
    <3>2. Target(e) = (IF e.verified THEN "verified" ELSE "provisional")
      BY <1>7 DEF Target, EventOK
    <3>3. Target(e) \in {"offline", "provisional", "verified"}
      BY <3>2
    <3>4. /\ projected' \in [Peers -> Entries] /\ astray' \in SUBSET Peers
          /\ projected'[p].presence = Target(e) /\ projected'[p].url = e.url
          /\ e.stale => p \in astray'
      BY <1>1, <1>2, <3>1, <3>3
    <3>5. ASSUME NEW r, Mirrors(e, r) PROVE MatchesOf(projected'[p], r)
      BY <1>7, <3>2, <3>4, <3>5 DEF Mirrors, MatchesOf
    <3>. QED  BY <1>7, <3>4, <3>5 DEF p
  <2>. QED  BY <2>1, <2>2
<1>. QED  BY <1>3, <1>4, <1>5, <1>6, <1>7

LEMMA RecvKeeps ==
  ASSUME PresInv, BridgeRecv
  PROVE  PresInv'
<1>. USE DEF PresInv
<1>. DEFINE e == Head(channel)
            n == Len(channel)
<1>1. /\ listening /\ snapshot = {} /\ ~lagging /\ channel # <<>> /\ handle_event(e)
      /\ channel' = Tail(channel)
      /\ UNCHANGED <<clock, swept, scent, unsent, lagging, listening, snapshot, heard, met>>
  BY DEF BridgeRecv
<1>2. /\ channel \in Seq(Events) /\ n \in Nat /\ n >= 1 /\ e = channel[1]
      /\ channel' \in Seq(Events) /\ Len(channel') = n - 1
      /\ \A i \in 1 .. n - 1 : channel'[i] = channel[i + 1]
  BY <1>1, LenProperties, HeadTailProperties, EmptySeq DEF PresTypes
<1>3. e \in Events /\ EventOK(e)
  BY <1>2, ElementOfSeq DEF EventsOK
<1>. HIDE DEF e, n
<1>4. /\ projected' \in [Peers -> Entries] /\ astray' \in SUBSET Peers
      /\ \A q \in Peers : q # e.peer => projected'[q] = projected[q] /\ (q \in astray' <=> q \in astray)
      /\ ~About(e.peer, e) => UNCHANGED <<projected, astray>>
      /\ \A r : e.stale \/ Mirrors(e, r) =>
           \/ ~About(e.peer, e)
           \/ e.peer \in astray' \/ projected'[e.peer].presence = "none" \/ MatchesOf(projected'[e.peer], r)
  BY <1>1, <1>3, Written
<1>5. PresTypes'
  BY <1>1, <1>2, <1>4 DEF PresTypes
<1>6. PresenceIsEarned' /\ \A p \in Peers : RecordOK(scent[p], heard[p], met[p], clock, swept)'
  BY <1>1 DEF PresenceIsEarned
<1>7. EventsOK'
  <2>1. \A i \in 1 .. n : EventOK(channel[i])
    BY DEF EventsOK, n
  <2>2. \A i \in 1 .. n - 1 : EventOK(channel'[i])
    BY <1>2, <2>1
  <2>. QED  BY <1>1, <1>2, <2>2 DEF EventsOK
<1>8. UnsentFresh' /\ DeafOK'
  BY <1>1 DEF UnsentFresh, DeafOK
<1>9. ASSUME NEW p \in Peers PROVE Follow(p)'
  <2>. DEFINE r == scent[p]
              late == LateAt(scent[p], clock)
  <2>. SUFFICES ASSUME r.url # NoUrl PROVE Follow(p)'
    BY <1>1 DEF Follow
  <2>1. /\ LastOf(p, channel, unsent, r)
        /\ SettledOf(p, channel, unsent, snapshot, r, late, lagging, projected[p], astray)
    BY <1>1 DEF Follow
  <2>. HIDE DEF r, late
  <2>2. ASSUME LastSent(p, channel, r) PROVE LastSent(p, channel', r)
    <3>. SUFFICES ASSUME NEW i \in 1 .. n - 1, About(p, channel'[i]),
                         \A j \in 1 .. n - 1 : j > i => ~About(p, channel'[j])
                  PROVE  Stands(channel'[i], r)
      BY <1>2 DEF LastSent
    <3>1. channel'[i] = channel[i + 1] /\ i + 1 \in 1 .. n
      BY <1>2
    <3>2. ASSUME NEW j \in 1 .. n, j > i + 1 PROVE ~About(p, channel[j])
      <4>1. j - 1 \in 1 .. n - 1 /\ j - 1 > i /\ (j - 1) + 1 = j
        BY <1>2, <3>2
      <4>. QED  BY <4>1, <1>2
    <3>. QED  BY <3>1, <3>2, <2>2 DEF LastSent, n
  <2>3. LastOf(p, channel', unsent, r)
    BY <2>1, <2>2 DEF LastOf
  <2>4. ASSUME NoneIn(p, channel'), NEW i \in 1 .. n, i # 1 PROVE ~About(p, channel[i])
    <3>1. i - 1 \in 1 .. n - 1 /\ (i - 1) + 1 = i
      BY <1>2, <2>4
    <3>. QED  BY <3>1, <1>2, <2>4 DEF NoneIn
  <2>5. SettledOf(p, channel', unsent, snapshot, r, late, lagging, projected'[p], astray')
    <3>. SUFFICES ASSUME NoneIn(p, channel'), NoneUnsent(p, unsent),
                         ~(r.online /\ late)
                  PROVE  p \in astray' \/ projected'[p].presence = "none" \/ MatchesOf(projected'[p], r)
      BY <1>1 DEF SettledOf
    <3>1. CASE About(p, e)
      <4>1. e.peer = p
        BY <3>1 DEF About
      <4>2. \A j \in 1 .. n : j > 1 => ~About(p, channel[j])
        BY <1>2, <2>4
      <4>3. Stands(e, r)
        <5>1. 1 \in 1 .. n
          BY <1>2
        <5>2. LastSent(p, channel, r)
          BY <2>1 DEF LastOf
        <5>. QED  BY <3>1, <4>2, <5>1, <5>2, <1>2 DEF LastSent, n
      <4>. QED  BY <3>1, <4>1, <4>3, <1>4 DEF Stands
    <3>2. CASE ~About(p, e)
      <4>1. NoneIn(p, channel)
        BY <2>4, <3>2, <1>2 DEF NoneIn, n
      <4>2. p \in astray \/ projected[p].presence = "none" \/ MatchesOf(projected[p], r)
        BY <1>1, <2>1, <4>1 DEF SettledOf
      <4>3. projected'[p] = projected[p] /\ (p \in astray' <=> p \in astray)
        BY <1>4, <3>2
      <4>. QED  BY <4>2, <4>3
    <3>. QED  BY <3>1, <3>2
  <2>. QED  BY <2>3, <2>5, <1>1 DEF Follow, r, late
<1>. QED  BY <1>5, <1>6, <1>7, <1>8, <1>9

LEMMA SnapshotKeeps ==
  ASSUME PresInv, reconcile_snapshot
  PROVE  PresInv'
<1>. USE DEF PresInv
<1>1. PICK e \in snapshot : reconcile_record(e) /\ snapshot' = snapshot \ {e}
  BY DEF reconcile_snapshot
<1>2. UNCHANGED <<clock, swept, scent, unsent, channel, lagging, listening, heard, met>>
  BY DEF reconcile_snapshot, scents
<1>3. e \in Events /\ EventOK(e) /\ handle_event(e)
  <2>1. e \in Events /\ EventOK(e) /\ e.kind = "Updated"
    BY DEF EventsOK, PresTypes
  <2>. QED  BY <1>1, <2>1 DEF handle_event
<1>4. /\ projected' \in [Peers -> Entries] /\ astray' \in SUBSET Peers
      /\ \A q \in Peers : q # e.peer => projected'[q] = projected[q] /\ (q \in astray' <=> q \in astray)
      /\ ~About(e.peer, e) => UNCHANGED <<projected, astray>>
      /\ \A r : e.stale \/ Mirrors(e, r) =>
           \/ ~About(e.peer, e)
           \/ e.peer \in astray' \/ projected'[e.peer].presence = "none" \/ MatchesOf(projected'[e.peer], r)
  BY <1>3, Written
<1>5. PresTypes'
  BY <1>1, <1>2, <1>4 DEF PresTypes
<1>6. PresenceIsEarned' /\ \A p \in Peers : RecordOK(scent[p], heard[p], met[p], clock, swept)'
  BY <1>2 DEF PresenceIsEarned
<1>7. EventsOK' /\ UnsentFresh' /\ DeafOK'
  BY <1>1, <1>2 DEF EventsOK, UnsentFresh, DeafOK
<1>8. ASSUME NEW p \in Peers PROVE Follow(p)'
  <2>. DEFINE r == scent[p]
              late == LateAt(scent[p], clock)
  <2>. SUFFICES ASSUME r.url # NoUrl, listening PROVE Follow(p)'
    BY <1>1, <1>2 DEF Follow, DeafOK
  <2>1. /\ LastOf(p, channel, unsent, r)
        /\ SettledOf(p, channel, unsent, snapshot, r, late, lagging, projected[p], astray)
    BY DEF Follow
  <2>. HIDE DEF r, late
  <2>2. SettledOf(p, channel, unsent, snapshot', r, late, lagging, projected'[p], astray')
    <3>. SUFFICES ASSUME NoneIn(p, channel), NoneUnsent(p, unsent), ~(r.online /\ (lagging \/ late))
                  PROVE  \/ /\ \E f \in snapshot' : About(p, f)
                            /\ \A f \in snapshot' : About(p, f) => f.stale \/ Mirrors(f, r)
                         \/ /\ \A f \in snapshot' : ~About(p, f)
                            /\ p \in astray' \/ projected'[p].presence = "none" \/ MatchesOf(projected'[p], r)
      BY DEF SettledOf
    <3>1. CASE /\ \E f \in snapshot : About(p, f)
               /\ \A f \in snapshot : About(p, f) => f.stale \/ Mirrors(f, r)
      <4>1. CASE \E f \in snapshot' : About(p, f)
        BY <1>1, <3>1, <4>1
      <4>2. CASE \A f \in snapshot' : ~About(p, f)
        <5>1. About(p, e) /\ e.peer = p
          BY <1>1, <3>1, <4>2 DEF About
        <5>. QED  BY <1>4, <3>1, <4>2, <5>1
      <4>. QED  BY <4>1, <4>2
    <3>2. CASE /\ \A f \in snapshot : ~About(p, f)
               /\ p \in astray \/ projected[p].presence = "none" \/ MatchesOf(projected[p], r)
      <4>1. ~About(p, e)
        BY <3>2
      <4>2. projected'[p] = projected[p] /\ (p \in astray' <=> p \in astray)
        BY <1>4, <4>1
      <4>. QED  BY <1>1, <3>2, <4>2
    <3>. QED  BY <2>1, <3>1, <3>2 DEF SettledOf
  <2>. QED  BY <2>1, <2>2, <1>2 DEF Follow, r, late
<1>. QED  BY <1>5, <1>6, <1>7, <1>8

LEMMA NoteKeeps ==
  ASSUME PresInv, NEW p \in Peers, NEW presence \in {"offline", "verified"}, NotePresence(p, presence)
  PROVE  PresInv'
<1>. USE DEF PresInv
<1>1. /\ projected' = [projected EXCEPT ![p].presence = presence] /\ astray' = astray \union {p}
      /\ UNCHANGED <<clock, swept, scent, unsent, channel, lagging, listening, snapshot, heard, met>>
  BY DEF NotePresence, scents
<1>2. /\ projected' \in [Peers -> Entries] /\ astray' \in SUBSET Peers
      /\ \A q \in Peers : q # p => projected'[q] = projected[q]
      /\ p \in astray' /\ astray \subseteq astray'
  <2>1. projected \in [Peers -> Entries] /\ projected[p] \in Entries
    BY DEF PresTypes
  <2>2. [projected[p] EXCEPT !.presence = presence] \in Entries
    BY <2>1 DEF Entries
  <2>3. projected' = [projected EXCEPT ![p] = [projected[p] EXCEPT !.presence = presence]]
    BY <1>1
  <2>. QED  BY <1>1, <2>1, <2>2, <2>3 DEF PresTypes
<1>3. PresTypes'
  BY <1>1, <1>2 DEF PresTypes
<1>4. PresenceIsEarned' /\ \A q \in Peers : RecordOK(scent[q], heard[q], met[q], clock, swept)'
  BY <1>1 DEF PresenceIsEarned
<1>5. EventsOK' /\ UnsentFresh'
  BY <1>1 DEF EventsOK, UnsentFresh
<1>6. DeafOK'
  BY <1>1, <1>2 DEF DeafOK
<1>7. ASSUME NEW q \in Peers PROVE Follow(q)'
  BY <1>1, <1>2 DEF Follow, SettledOf
<1>. QED  BY <1>3, <1>4, <1>5, <1>6, <1>7

LEMMA PresInitial == PresInit => PresInv
<1>. SUFFICES ASSUME PresInit PROVE PresInv
  OBVIOUS
<1>0. Expiry \in Nat \ {0}
  BY PresenceAssumption
<1>1. /\ clock = Expiry /\ swept = FALSE /\ scent = [p \in Peers |-> Unknown] /\ unsent = <<>> /\ channel = <<>>
      /\ lagging = FALSE /\ listening = FALSE /\ snapshot = {} /\ heard = [p \in Peers |-> 0]
      /\ met = [p \in Peers |-> 0] /\ astray = {}
  BY DEF PresInit
<1>2. projected \in [Peers -> Entries] /\ \A p \in Peers : ~Raised(projected[p])
  BY DEF PresInit, Entries, Raised
<1>3. /\ Unknown \in Records /\ Unknown.online = FALSE /\ Unknown.verified = FALSE /\ Unknown.url = NoUrl
      /\ Unknown.signed = 0 /\ Unknown.mdns = 0
  BY DEF Unknown, Records
<1>4. PresTypes
  <2>1. clock \in Nat /\ swept \in BOOLEAN /\ lagging \in BOOLEAN /\ listening \in BOOLEAN
    BY <1>0, <1>1
  <2>2. scent \in [Peers -> Records] /\ heard \in [Peers -> Nat] /\ met \in [Peers -> Nat]
    BY <1>1, <1>3
  <2>3. unsent \in Seq(Unsents) /\ channel \in Seq(Events)
    BY <1>1
  <2>4. snapshot \in SUBSET Events /\ astray \in SUBSET Peers
    BY <1>1
  <2>. QED  BY <1>2, <2>1, <2>2, <2>3, <2>4 DEF PresTypes
<1>5. PresenceIsEarned
  BY <1>1, <1>3 DEF PresenceIsEarned
<1>6. \A p \in Peers : RecordOK(scent[p], heard[p], met[p], clock, swept)
  <2>1. ~(Expiry < 0 + Expiry)
    BY <1>0
  <2>. QED  BY <1>1, <1>3, <2>1 DEF RecordOK, LateAt
<1>7. EventsOK /\ UnsentFresh /\ DeafOK
  BY <1>1, <1>2 DEF EventsOK, UnsentFresh, DeafOK
<1>8. \A p \in Peers : Follow(p)
  BY <1>1, <1>3 DEF Follow
<1>. QED  BY <1>4, <1>5, <1>6, <1>7, <1>8 DEF PresInv

LEMMA PresInductive == PresInv /\ [PresNext]_presVars => PresInv'
<1>. SUFFICES ASSUME PresInv, [PresNext]_presVars PROVE PresInv'
  OBVIOUS
<1>1. ASSUME NEW p \in Peers, handle_packet(p) PROVE PresInv'
  BY <1>1, PacketKeeps
<1>2. ASSUME NEW p \in Peers, NEW u \in Urls, NEW a \in Answers, handle_resolved_service(p, u, a) PROVE PresInv'
  BY <1>2, ResolvedKeeps
<1>3. ASSUME NEW i \in 1 .. 2, SendUnsent(i) PROVE PresInv'
  BY <1>3, SendUnsentKeeps
<1>4. CASE check_expirations
  BY <1>4, SweepKeeps
<1>5. CASE PassTime
  BY <1>5, TimeKeeps
<1>6. CASE BridgeStart
  BY <1>6, StartKeeps
<1>7. CASE BridgeRecv
  BY <1>7, RecvKeeps
<1>8. CASE BridgeLagged
  BY <1>8, LaggedKeeps
<1>9. CASE reconcile_snapshot
  BY <1>9, SnapshotKeeps
<1>10. ASSUME NEW p \in Peers, authenticate_receiver(p) \/ revoke_device(p) PROVE PresInv'
  BY <1>10, NoteKeeps DEF authenticate_receiver, revoke_device
<1>11. CASE UNCHANGED presVars
  BY <1>11
     DEF presVars, scents, bridge, PresInv, PresTypes, PresenceIsEarned, EventsOK, UnsentFresh,
         DeafOK, Follow
<1>. QED  BY <1>1, <1>2, <1>3, <1>4, <1>5, <1>6, <1>7, <1>8, <1>9, <1>10, <1>11 DEF PresNext

(* Every reachable state: the records follow the times they were refreshed *)
(* at, and the last word on its way to the bridge is the record's.         *)
THEOREM PresenceInvariant == PresSpec => []PresInv
  BY PresInitial, PresInductive, PTL DEF PresSpec

(* For any peers, any expiry and any capacity of the channel: a record is  *)
(* verified or online only as long as the peer earns it, and an entry of   *)
(* the registry shows its record once the bridge has nothing left to do,   *)
(* unless events were sent out of order, an Offline was overrun or another *)
(* writer changed the entry (ScentStore, mdns_resolver,                    *)
(* ReceiverDiscoveryBridge).                                               *)
THEOREM PresenceIsTrue == PresSpec => []PresenceTrue
<1>1. ASSUME PresInv PROVE PresenceTrue
  <2>. USE <1>1 DEF PresInv
  <2>. SUFFICES ASSUME BridgeIdle, NEW p \in Peers \ astray, projected[p].presence # "none", scent[p].url # NoUrl
                PROVE  MatchesOf(projected[p], scent[p])
    BY DEF PresenceTrue, RegistryFollows, MatchesOf
  <2>1. listening /\ ~lagging /\ swept /\ unsent = <<>> /\ channel = <<>> /\ snapshot = {}
    BY DEF BridgeIdle
  <2>2. SettledOf(p, channel, unsent, snapshot, scent[p], LateAt(scent[p], clock), lagging, projected[p], astray)
    BY <2>1 DEF Follow
  <2>3. NoneIn(p, channel) /\ NoneUnsent(p, unsent)
    BY <2>1 DEF NoneIn, NoneUnsent
  <2>4. scent[p].online => ~LateAt(scent[p], clock)
    BY <2>1 DEF RecordOK
  <2>. QED  BY <2>1, <2>2, <2>3, <2>4 DEF SettledOf
<1>. QED  BY <1>1, PresenceInvariant, PTL

-----------------------------------------------------------------------------
(***************************************************************************)
(* Outputs                                                                 *)
(***************************************************************************)
\* The inductive invariant.

Places == Chains \union Rooms \union {Nowhere}
Links == {NoLink} \union [at : Chains, pos : Nat, r : Speakers]
RoomRows == [st : {"new", "live", "gone"}, mode : Modes, recs : SUBSET Speakers]
Todos == Speakers \union {"mode", "recs"} \union (LinkIds \X Speakers) \union (Speakers \X Speakers)
Asks ==
  [op : {"none", "delete", "add", "reorder", "edit", "play", "pause", "stop", "deactivate", "activate"},
   pc : {"idle", "row", "insert", "each", "upsert", "resolve", "engine", "select", "flag", "links",
         "stops", "starts"},
   at : Places, pos : Nat, todo : SUBSET Todos, seq : Seq(LinkIds),
   new : RoomRows \union {NoAsk.new}, good : {0, 1}, bad : {0, 1}, alone : BOOLEAN]

OutTypes ==
  /\ chain \in [Chains -> [st : {"new", "live", "gone"}, playing : BOOLEAN]]
  /\ link \in [LinkIds -> Links]
  /\ room \in [Rooms -> RoomRows] /\ agreed \in [Rooms -> RoomRows]
  /\ paired \in SUBSET Speakers /\ holds \in SUBSET Speakers /\ engine \in SUBSET Speakers
  /\ ask \in [Hands -> Asks]

\* Which request has which steps, and what they work on.
ShapeOK(a) ==
  /\ a.pc = "idle" <=> a.op = "none"
  /\ a.op = "none" => a = NoAsk
  /\ a.op = "delete" => a.pc = "row" /\ a.at \in Chains
  /\ a.op = "add" <=> a.pc = "insert"
  /\ a.op = "reorder" <=> a.pc = "each"
  /\ a.op = "reorder" => a.pos < Len(a.seq)
  /\ a.op \in {"add", "reorder"} => a.at \in Chains
  /\ a.op = "add" => a.todo \subseteq Speakers
  /\ a.op = "edit" <=> a.pc = "upsert"
  /\ a.op = "edit" => a.at \in Rooms /\ a.new \in RoomRows /\ a.todo \subseteq {"mode", "recs"}
  /\ a.op \in {"play", "pause"} => a.pc \in {"resolve", "engine", "select", "flag"}
  /\ a.pc = "engine" => a.todo \subseteq Speakers
  /\ a.op = "stop" => a.pc \in {"links", "stops", "flag"} /\ a.at \in Chains
  /\ a.op \in {"stop", "deactivate"} /\ a.pc = "stops" => a.todo \subseteq (LinkIds \union Speakers) \X Speakers
  /\ a.pc = "flag" => a.at \in Chains
  /\ a.op = "deactivate" => a.pc = "stops" /\ a.at \in Rooms
  /\ a.op = "activate" => a.pc = "starts" /\ a.at \in Rooms /\ a.todo \subseteq Speakers

\* A reordering nobody interferes with: it lists every link of the chain once, and those it is
\* past have their place in the list for position.
Sorting(a, lk) ==
  /\ \A i, j \in 1 .. Len(a.seq) : a.seq[i] = a.seq[j] => i = j
  /\ \A x \in LinkIds : lk[x].at = a.at => \E i \in 1 .. Len(a.seq) : a.seq[i] = x
  /\ \A i \in 1 .. a.pos : lk[a.seq[i]].at = a.at => lk[a.seq[i]].pos = i - 1

\* What a request to place links knows of them.
LinkAsk(a, lk) ==
  /\ a.op = "add" => \A x \in LinkIds : lk[x].at = a.at => lk[x].pos # a.pos
  /\ a.op = "reorder" => Sorting(a, lk)

Placing(a, c) == a.at = c /\ a.op \in {"add", "reorder"}
ChainOK(c, lk, jb, ak) ==
  c \notin jb =>
    /\ \A d, e \in Hands : Placing(ak[d], c) /\ Placing(ak[e], c) => d = e
    /\ \A d \in Hands : ak[d].at = c => LinkAsk(ak[d], lk)
    /\ (\A d \in Hands : ak[d].at = c => ak[d].op # "reorder") => ~Twice(lk, c)

\* What an edit is going to write differs from the row in what it was given only.
Edits(a, g) == a.at = g /\ a.op = "edit"
EditAsk(a, entry) ==
  /\ entry.st = "live" /\ a.new.st = "live"
  /\ "mode" \notin a.todo => a.new.mode = entry.mode
  /\ "recs" \notin a.todo => a.new.recs = entry.recs

RoomOK(g, rm, ag, mx, ak) ==
  g \notin mx =>
    /\ rm[g] = ag[g]
    /\ \A d, e \in Hands : Edits(ak[d], g) /\ Edits(ak[e], g) => d = e
    /\ \A d \in Hands : Edits(ak[d], g) => EditAsk(ak[d], rm[g])

\* What a request that nobody disturbed has achieved so far.
Achieved(a, lk, rm, hd) ==
  a.bad = 0 =>
    /\ a.op = "stop" /\ a.pc = "stops" =>
         \A x \in LinkIds : lk[x].at = a.at => <<x, lk[x].r>> \in a.todo \/ lk[x].r \notin hd
    /\ a.op = "stop" /\ a.pc = "flag" => \A x \in LinkIds : lk[x].at = a.at => lk[x].r \notin hd
    /\ a.op = "deactivate" => \A r \in rm[a.at].recs : <<r, r>> \in a.todo \/ r \notin hd
    /\ a.op = "activate" => \A r \in rm[a.at].recs : r \in a.todo \/ r \in hd
AnswerOK(a, lk, rm, hd) == a.alone => Achieved(a, lk, rm, hd)

OutInv ==
  /\ OutTypes
  /\ \A k \in Hands : ShapeOK(ask[k])
  /\ \A c \in Chains : ChainOK(c, link, jumbled, ask)
  /\ \A g \in Rooms : RoomOK(g, room, agreed, mixed, ask)
  /\ \A k \in Hands : AnswerOK(ask[k], link, room, holds)
  /\ untrue = {}

-----------------------------------------------------------------------------
\* Requests.

\* b is a, but for what others did to it meanwhile.
Like(b, a) ==
  /\ b.op = a.op /\ b.pc = a.pc /\ b.at = a.at /\ b.pos = a.pos /\ b.todo = a.todo /\ b.seq = a.seq
  /\ b.new = a.new /\ b.good = a.good /\ b.bad = a.bad /\ (a = NoAsk => b = NoAsk)
Shaken(b, a) == Like(b, a) /\ (b.alone => b.op = "none")

LEMMA NoAskFacts ==
  /\ NoAsk \in Asks /\ ShapeOK(NoAsk) /\ NoAsk.op = "none" /\ NoAsk.pc = "idle" /\ NoAsk.alone = TRUE
  /\ NoAsk.at = Nowhere /\ NoAsk.todo = {} /\ NoAsk.seq = <<>> /\ NoAsk.pos = 0
  /\ NoAsk.good = 0 /\ NoAsk.bad = 0 /\ NoAsk.new \in RoomRows \union {NoAsk.new}
<1>1. /\ NoAsk.op = "none" /\ NoAsk.pc = "idle" /\ NoAsk.alone = TRUE
      /\ NoAsk.at = Nowhere /\ NoAsk.todo = {} /\ NoAsk.seq = <<>> /\ NoAsk.pos = 0
      /\ NoAsk.good = 0 /\ NoAsk.bad = 0
  BY DEF NoAsk
<1>2. NoAsk \in Asks
  BY DEF NoAsk, Asks, Places, Todos
<1>. QED  BY <1>1, <1>2 DEF ShapeOK

LEMMA LikeShape ==
  ASSUME NEW a, NEW b, Like(b, a), ShapeOK(a)
  PROVE  ShapeOK(b)
<1>1. CASE a.op = "none"
  BY <1>1, NoAskFacts DEF Like, ShapeOK
<1>2. CASE a.op # "none"
  BY <1>2 DEF Like, ShapeOK
<1>. QED  BY <1>1, <1>2

LEMMA ShakenFacts ==
  ASSUME NEW a \in Asks, ShapeOK(a)
  PROVE  LET b == [a EXCEPT !.alone = @ /\ a = NoAsk]
         IN b \in Asks /\ Shaken(b, a) /\ ShapeOK(b)
<1>. DEFINE t == a.alone /\ a = NoAsk
            b == [a EXCEPT !.alone = t]
<1>1. t \in BOOLEAN /\ (t => a = NoAsk)
  BY DEF Asks
<1>2. a = NoAsk => t = TRUE
  BY NoAskFacts
<1>. HIDE DEF t
<1>3. /\ b \in Asks /\ b.alone = t
      /\ b.op = a.op /\ b.pc = a.pc /\ b.at = a.at /\ b.pos = a.pos /\ b.todo = a.todo /\ b.seq = a.seq
      /\ b.new = a.new /\ b.good = a.good /\ b.bad = a.bad
  BY <1>1 DEF Asks
<1>4. a.alone = t => b = a
  BY <1>1 DEF Asks
<1>. HIDE DEF b
<1>5. Shaken(b, a)
  BY <1>1, <1>2, <1>3, <1>4, NoAskFacts DEF Shaken, Like
<1>6. ShapeOK(b)
  BY <1>5, LikeShape DEF Shaken
<1>. QED  BY <1>3, <1>5, <1>6 DEF b, t

(* A step of one client disturbs the requests of the others.               *)
LEMMA TurnedFacts ==
  ASSUME ask \in [Hands -> Asks], \A d \in Hands : ShapeOK(ask[d]),
         NEW k \in Hands, NEW a \in Asks, Turned(k, a)
  PROVE  /\ ask' \in [Hands -> Asks] /\ ask'[k] = a
         /\ \A d \in Hands : d # k => Shaken(ask'[d], ask[d]) /\ ShapeOK(ask'[d])
<1>. DEFINE B(d) == [ask[d] EXCEPT !.alone = @ /\ ask[d] = NoAsk]
<1>1. ASSUME NEW d \in Hands PROVE B(d) \in Asks /\ Shaken(B(d), ask[d]) /\ ShapeOK(B(d))
  BY ShakenFacts
<1>2. ask' = [d \in Hands |-> IF d = k THEN a ELSE B(d)]
  BY DEF Turned
<1>. HIDE DEF B
<1>. QED  BY <1>1, <1>2

LEMMA AroundFacts ==
  ASSUME ask \in [Hands -> Asks], \A d \in Hands : ShapeOK(ask[d]), Around
  PROVE  /\ ask' \in [Hands -> Asks]
         /\ \A d \in Hands : Shaken(ask'[d], ask[d]) /\ ShapeOK(ask'[d])
<1>. DEFINE B(d) == [ask[d] EXCEPT !.alone = @ /\ ask[d] = NoAsk]
<1>1. ASSUME NEW d \in Hands PROVE B(d) \in Asks /\ Shaken(B(d), ask[d]) /\ ShapeOK(B(d))
  BY ShakenFacts
<1>2. ask' = [d \in Hands |-> B(d)]
  BY DEF Around
<1>. HIDE DEF B
<1>. QED  BY <1>1, <1>2

LEMMA AskFacts ==
  ASSUME ask \in [Hands -> Asks], \A d \in Hands : ShapeOK(ask[d]),
         NEW k \in Hands, NEW a \in Asks, ShapeOK(a), Ask(k, a)
  PROVE  /\ ask[k] = NoAsk
         /\ \E b \in Asks : Turned(k, b) /\ Like(b, a) /\ ShapeOK(b)
<1>0. ask[k] = NoAsk
  BY DEF Ask, ShapeOK
<1>1. CASE a = NoAsk
  <2>1. Turned(k, a) /\ Like(a, a)
    BY <1>1 DEF Ask, Like
  <2>. QED  BY <1>0, <2>1
<1>2. CASE a # NoAsk
  <2>. DEFINE t == \A d \in Hands \ {k} : ask[d] = NoAsk
              b == [a EXCEPT !.alone = t]
  <2>1. Turned(k, b)
    BY <1>2 DEF Ask
  <2>2. t \in BOOLEAN
    OBVIOUS
  <2>. HIDE DEF t
  <2>3. b \in Asks /\ Like(b, a)
    BY <1>2, <2>2 DEF Asks, Like
  <2>. HIDE DEF b
  <2>4. ShapeOK(b)
    BY <2>3, LikeShape
  <2>. QED  BY <1>0, <2>1, <2>3, <2>4
<1>. QED  BY <1>1, <1>2

-----------------------------------------------------------------------------
\* What a step leaves as it is.

(* The links of c are what they were or fewer, and no request on them      *)
(* begins.                                                                 *)
LEMMA ChainQuiet ==
  ASSUME NEW c \in Chains, NEW lk, NEW jb, NEW ak, ChainOK(c, link, jumbled, ask), jumbled \subseteq jb,
         \A x \in LinkIds : lk[x].at = c => lk[x] = link[x],
         \A d \in Hands :
           \/ ak[d].op = ask[d].op /\ ak[d].at = ask[d].at /\ ak[d].pos = ask[d].pos /\ ak[d].seq = ask[d].seq
           \/ ~Placing(ak[d], c) /\ (Placing(ask[d], c) /\ ask[d].op = "reorder" => c \in jb),
         ask \in [Hands -> Asks], \A d \in Hands : ShapeOK(ask[d])
  PROVE  ChainOK(c, lk, jb, ak)
<1>. SUFFICES ASSUME c \notin jb
              PROVE  /\ \A d, e \in Hands : Placing(ak[d], c) /\ Placing(ak[e], c) => d = e
                     /\ \A d \in Hands : ak[d].at = c => LinkAsk(ak[d], lk)
                     /\ (\A d \in Hands : ak[d].at = c => ak[d].op # "reorder") => ~Twice(lk, c)
  BY DEF ChainOK
<1>0. c \notin jumbled
  OBVIOUS
<1>1. \A d \in Hands : Placing(ak[d], c) => Placing(ask[d], c)
  BY DEF Placing
<1>2. \A d, e \in Hands : Placing(ak[d], c) /\ Placing(ak[e], c) => d = e
  BY <1>0, <1>1 DEF ChainOK
<1>3. ASSUME NEW d \in Hands, ak[d].at = c PROVE LinkAsk(ak[d], lk)
  <2>1. CASE Placing(ak[d], c)
    <3>1. /\ ak[d].op = ask[d].op /\ ak[d].at = ask[d].at /\ ak[d].pos = ask[d].pos /\ ak[d].seq = ask[d].seq
      BY <2>1
    <3>2. LinkAsk(ask[d], link)
      BY <1>0, <1>3, <3>1 DEF ChainOK
    <3>3. ASSUME ask[d].op = "reorder" PROVE Sorting(ak[d], lk)
      <4>1. Sorting(ask[d], link)
        BY <3>2, <3>3 DEF LinkAsk
      <4>2. ASSUME NEW i \in 1 .. ask[d].pos, lk[ask[d].seq[i]].at = c
            PROVE  lk[ask[d].seq[i]].pos = i - 1
        <5>1. ask[d] \in Asks /\ ask[d].pos < Len(ask[d].seq)
          BY <3>3 DEF ShapeOK
        <5>2. i \in 1 .. Len(ask[d].seq) /\ ask[d].seq \in Seq(LinkIds)
          BY <5>1, LenProperties DEF Asks
        <5>3. ask[d].seq[i] \in LinkIds
          BY <5>2, ElementOfSeq
        <5>. QED  BY <4>1, <4>2, <5>3, <1>3, <3>1 DEF Sorting
      <4>. QED  BY <4>1, <4>2, <3>1, <1>3 DEF Sorting
    <3>. QED  BY <3>1, <3>2, <3>3, <1>3 DEF LinkAsk
  <2>2. CASE ~Placing(ak[d], c)
    BY <2>2, <1>3 DEF LinkAsk, Placing
  <2>. QED  BY <2>1, <2>2
<1>4. ASSUME \A d \in Hands : ak[d].at = c => ak[d].op # "reorder"
      PROVE  ~Twice(lk, c)
  <2>1. \A d \in Hands : ask[d].at = c => ask[d].op # "reorder"
    BY <1>4 DEF Placing
  <2>2. ~Twice(link, c)
    BY <1>0, <2>1 DEF ChainOK
  <2>. QED  BY <2>2 DEF Twice
<1>. QED  BY <1>2, <1>3, <1>4

(* The room and its edits are what they were or fewer.                     *)
LEMMA RoomQuiet ==
  ASSUME NEW g \in Rooms, NEW rm, NEW ag, NEW mx, NEW ak, RoomOK(g, room, agreed, mixed, ask),
         mixed \subseteq mx, rm[g] = room[g], ag[g] = agreed[g],
         \A d \in Hands :
           \/ ak[d].op = ask[d].op /\ ak[d].at = ask[d].at /\ ak[d].todo = ask[d].todo /\ ak[d].new = ask[d].new
           \/ ~Edits(ak[d], g)
  PROVE  RoomOK(g, rm, ag, mx, ak)
<1>. SUFFICES ASSUME g \notin mx
              PROVE  /\ rm[g] = ag[g]
                     /\ \A d, e \in Hands : Edits(ak[d], g) /\ Edits(ak[e], g) => d = e
                     /\ \A d \in Hands : Edits(ak[d], g) => EditAsk(ak[d], rm[g])
  BY DEF RoomOK
<1>0. g \notin mixed
  OBVIOUS
<1>1. \A d \in Hands : Edits(ak[d], g) => Edits(ask[d], g)
  BY DEF Edits
<1>2. \A d \in Hands : Edits(ak[d], g) => EditAsk(ak[d], rm[g])
  BY <1>0, <1>1 DEF RoomOK, EditAsk
<1>. QED  BY <1>0, <1>1, <1>2 DEF RoomOK

\* The rest of the state keeps its type.
RestTyped ==
  /\ chain' \in [Chains -> [st : {"new", "live", "gone"}, playing : BOOLEAN]]
  /\ paired' \in SUBSET Speakers /\ holds' \in SUBSET Speakers /\ engine' \in SUBSET Speakers

LEMMA LinksLeft ==
  ASSUME OutInv, NEW k \in Hands, NEW a \in Asks, ShapeOK(a), Turned(k, a), jumbled \subseteq jumbled',
         \A x \in LinkIds : link'[x] = link[x] \/ link'[x] = NoLink, link' \in [LinkIds -> Links],
         a.op \notin {"add", "reorder"}, ask[k].op = "reorder" => ask[k].at \in jumbled'
  PROVE  \A c \in Chains : ChainOK(c, link', jumbled', ask')
<1>1. /\ ask \in [Hands -> Asks] /\ \A d \in Hands : ShapeOK(ask[d])
  BY DEF OutInv, OutTypes
<1>2. /\ ask' \in [Hands -> Asks] /\ ask'[k] = a
      /\ \A d \in Hands : d # k => Shaken(ask'[d], ask[d]) /\ ShapeOK(ask'[d])
  BY <1>1, TurnedFacts
<1>3. ASSUME NEW c \in Chains PROVE ChainOK(c, link', jumbled', ask')
  <2>1. NoLink.at # c
    BY OutputsAssumption DEF NoLink
  <2>2. \A x \in LinkIds : link'[x].at = c => link'[x] = link[x]
    BY <2>1
  <2>3. ASSUME NEW d \in Hands
        PROVE  \/ ask'[d].op = ask[d].op /\ ask'[d].at = ask[d].at /\ ask'[d].pos = ask[d].pos /\ ask'[d].seq = ask[d].seq
               \/ ~Placing(ask'[d], c) /\ (Placing(ask[d], c) /\ ask[d].op = "reorder" => c \in jumbled')
    <3>1. CASE d = k
      BY <1>2, <3>1 DEF Placing
    <3>2. CASE d # k
      BY <1>2, <3>2 DEF Shaken, Like
    <3>. QED  BY <3>1, <3>2
  <2>4. ChainOK(c, link, jumbled, ask)
    BY DEF OutInv
  <2>. QED  BY <1>1, <2>2, <2>3, <2>4, ChainQuiet
<1>. QED  BY <1>3

LEMMA RoomsLeft ==
  ASSUME OutInv, NEW k \in Hands, NEW a \in Asks, ShapeOK(a), Turned(k, a), mixed \subseteq mixed',
         UNCHANGED <<room, agreed>>, a.op # "edit"
  PROVE  \A g \in Rooms : RoomOK(g, room', agreed', mixed', ask')
<1>1. /\ ask \in [Hands -> Asks] /\ \A d \in Hands : ShapeOK(ask[d])
  BY DEF OutInv, OutTypes
<1>2. /\ ask' \in [Hands -> Asks] /\ ask'[k] = a
      /\ \A d \in Hands : d # k => Shaken(ask'[d], ask[d]) /\ ShapeOK(ask'[d])
  BY <1>1, TurnedFacts
<1>3. ASSUME NEW g \in Rooms PROVE RoomOK(g, room', agreed', mixed', ask')
  <2>1. ASSUME NEW d \in Hands
        PROVE  \/ ask'[d].op = ask[d].op /\ ask'[d].at = ask[d].at /\ ask'[d].todo = ask[d].todo /\ ask'[d].new = ask[d].new
               \/ ~Edits(ask'[d], g)
    <3>1. CASE d = k
      BY <1>2, <3>1 DEF Edits
    <3>2. CASE d # k
      BY <1>2, <3>2 DEF Shaken, Like
    <3>. QED  BY <3>1, <3>2
  <2>2. RoomOK(g, room, agreed, mixed, ask)
    BY DEF OutInv
  <2>3. room'[g] = room[g] /\ agreed'[g] = agreed[g]
    OBVIOUS
  <2>. QED  BY <2>1, <2>2, <2>3, RoomQuiet
<1>. QED  BY <1>3

(* A step of client k: what is left to show of it.                         *)
LEMMA StepKeeps ==
  ASSUME OutInv, NEW k \in Hands, NEW a \in Asks, ShapeOK(a), Turned(k, a), RestTyped,
         link' \in [LinkIds -> Links], room' \in [Rooms -> RoomRows], agreed' \in [Rooms -> RoomRows],
         \A c \in Chains : ChainOK(c, link', jumbled', ask'),
         \A g \in Rooms : RoomOK(g, room', agreed', mixed', ask'),
         AnswerOK(a, link', room', holds'), untrue' = {}
  PROVE  OutInv'
<1>1. /\ ask \in [Hands -> Asks] /\ \A d \in Hands : ShapeOK(ask[d])
  BY DEF OutInv, OutTypes
<1>2. /\ ask' \in [Hands -> Asks] /\ ask'[k] = a
      /\ \A d \in Hands : d # k => Shaken(ask'[d], ask[d]) /\ ShapeOK(ask'[d])
  BY <1>1, TurnedFacts
<1>3. ASSUME NEW d \in Hands PROVE ShapeOK(ask'[d]) /\ AnswerOK(ask'[d], link', room', holds')
  <2>1. CASE d = k
    BY <1>2, <2>1
  <2>2. CASE d # k
    BY <1>2, <2>2 DEF Shaken, AnswerOK, Achieved
  <2>. QED  BY <2>1, <2>2
<1>4. OutTypes'
  BY <1>2 DEF OutTypes, RestTyped
<1>. QED  BY <1>3, <1>4 DEF OutInv

(* A step that touches neither the links but to delete some, nor the rooms.*)
LEMMA SideKeeps ==
  ASSUME OutInv, NEW k \in Hands, NEW a \in Asks, ShapeOK(a), Turned(k, a), RestTyped,
         jumbled \subseteq jumbled', \A x \in LinkIds : link'[x] = link[x] \/ link'[x] = NoLink,
         link' = [x \in LinkIds |-> link'[x]],
         a.op \notin {"add", "reorder", "edit"}, ask[k].op = "reorder" => ask[k].at \in jumbled',
         UNCHANGED <<room, agreed, mixed>>,
         AnswerOK(a, link', room', holds'), untrue' = {}
  PROVE  OutInv'
<1>1. link' \in [LinkIds -> Links] /\ room' \in [Rooms -> RoomRows] /\ agreed' \in [Rooms -> RoomRows]
  <2>1. \A x \in LinkIds : link[x] \in Links /\ NoLink \in Links
    BY DEF OutInv, OutTypes, Links
  <2>2. room \in [Rooms -> RoomRows] /\ agreed \in [Rooms -> RoomRows]
    BY DEF OutInv, OutTypes
  <2>. QED  BY <2>1, <2>2
<1>2. \A c \in Chains : ChainOK(c, link', jumbled', ask')
  BY <1>1, LinksLeft
<1>3. \A g \in Rooms : RoomOK(g, room', agreed', mixed', ask')
  BY RoomsLeft
<1>. QED  BY <1>1, <1>2, <1>3, StepKeeps

(* A step of the surroundings.                                             *)
LEMMA AroundKeeps ==
  ASSUME OutInv, Around, UNCHANGED <<tables, untrue>>,
         paired' \in SUBSET Speakers, holds' \in SUBSET Speakers, UNCHANGED engine
  PROVE  OutInv'
<1>0. UNCHANGED <<chain, link, room, agreed, mixed, jumbled, engine, untrue>>
  BY DEF tables
<1>1. /\ ask \in [Hands -> Asks] /\ \A d \in Hands : ShapeOK(ask[d])
  BY DEF OutInv, OutTypes
<1>2. /\ ask' \in [Hands -> Asks]
      /\ \A d \in Hands : Shaken(ask'[d], ask[d]) /\ ShapeOK(ask'[d])
  BY <1>1, AroundFacts
<1>3. OutTypes'
  BY <1>0, <1>2 DEF OutInv, OutTypes
<1>4. ASSUME NEW c \in Chains PROVE ChainOK(c, link', jumbled', ask')
  <2>1. ChainOK(c, link, jumbled, ask)
    BY DEF OutInv
  <2>2. \A d \in Hands : ask'[d].op = ask[d].op /\ ask'[d].at = ask[d].at /\ ask'[d].pos = ask[d].pos /\ ask'[d].seq = ask[d].seq
    BY <1>2 DEF Shaken, Like
  <2>3. jumbled \subseteq jumbled' /\ \A x \in LinkIds : link'[x].at = c => link'[x] = link[x]
    BY <1>0
  <2>. QED  BY <1>1, <2>1, <2>2, <2>3, ChainQuiet
<1>5. ASSUME NEW g \in Rooms PROVE RoomOK(g, room', agreed', mixed', ask')
  <2>1. RoomOK(g, room, agreed, mixed, ask)
    BY DEF OutInv
  <2>2. \A d \in Hands : ask'[d].op = ask[d].op /\ ask'[d].at = ask[d].at /\ ask'[d].todo = ask[d].todo /\ ask'[d].new = ask[d].new
    BY <1>2 DEF Shaken, Like
  <2>3. mixed \subseteq mixed' /\ room'[g] = room[g] /\ agreed'[g] = agreed[g]
    BY <1>0
  <2>. QED  BY <2>1, <2>2, <2>3, RoomQuiet
<1>6. \A d \in Hands : AnswerOK(ask'[d], link', room', holds')
  BY <1>2 DEF Shaken, AnswerOK, Achieved
<1>. QED  BY <1>0, <1>2, <1>3, <1>4, <1>5, <1>6 DEF OutInv

LEMMA InvFacts ==
  ASSUME OutInv
  PROVE  /\ ask \in [Hands -> Asks] /\ link \in [LinkIds -> Links] /\ untrue = {}
         /\ chain \in [Chains -> [st : {"new", "live", "gone"}, playing : BOOLEAN]]
         /\ paired \in SUBSET Speakers /\ holds \in SUBSET Speakers /\ engine \in SUBSET Speakers
         /\ room \in [Rooms -> RoomRows] /\ agreed \in [Rooms -> RoomRows]
         /\ \A d \in Hands : ShapeOK(ask[d]) /\ AnswerOK(ask[d], link, room, holds)
         /\ link = [x \in LinkIds |-> link[x]]
  BY DEF OutInv, OutTypes

(* A request that begins: it is alone or not.                              *)
LEMMA AskKeeps ==
  ASSUME OutInv, NEW k \in Hands, NEW a \in Asks, ShapeOK(a), Ask(k, a), RestTyped,
         jumbled \subseteq jumbled', \A x \in LinkIds : link'[x] = link[x] \/ link'[x] = NoLink,
         link' = [x \in LinkIds |-> link'[x]],
         a.op \notin {"add", "reorder", "edit"}, UNCHANGED <<room, agreed, mixed>>,
         Achieved(a, link', room', holds'), untrue' = {}
  PROVE  OutInv'
<1>1. ask[k] = NoAsk /\ \E b \in Asks : Turned(k, b) /\ Like(b, a) /\ ShapeOK(b)
  BY InvFacts, AskFacts
<1>2. PICK b \in Asks : Turned(k, b) /\ Like(b, a) /\ ShapeOK(b)
  BY <1>1
<1>3. b.op \notin {"add", "reorder", "edit"} /\ ask[k].op # "reorder"
  BY <1>1, <1>2, NoAskFacts DEF Like
<1>4. AnswerOK(b, link', room', holds')
  BY <1>2 DEF Like, Achieved, AnswerOK
<1>. QED  BY <1>2, <1>3, <1>4, SideKeeps

-----------------------------------------------------------------------------
\* Chains: the steps that place no link.

LEMMA ChainRowKeeps ==
  ASSUME OutInv, NEW k \in Hands, NEW c \in Chains,
         create_chain(k, c) \/ \E b \in BOOLEAN : update_chain(k, c, b)
  PROVE  OutInv'
<1>1. /\ Ask(k, NoAsk) /\ UNCHANGED <<link, room, agreed, mixed, jumbled, paired, holds, engine, untrue>>
      /\ \/ chain' = [chain EXCEPT ![c].st = "live"]
         \/ \E b \in BOOLEAN : chain' = [chain EXCEPT ![c].playing = b]
  BY DEF create_chain, update_chain, sound
<1>2. RestTyped
  BY <1>1, InvFacts DEF RestTyped
<1>3. Achieved(NoAsk, link', room', holds')
  BY NoAskFacts DEF Achieved
<1>. QED  BY <1>1, <1>2, <1>3, NoAskFacts, InvFacts, AskKeeps

LEMMA DeleteChainKeeps ==
  ASSUME OutInv, NEW k \in Hands, NEW c \in Chains, delete_chain(k, c)
  PROVE  OutInv'
<1>. DEFINE a == [NoAsk EXCEPT !.op = "delete", !.pc = "row", !.at = c]
<1>1. /\ Ask(k, a) /\ UNCHANGED <<chain, room, agreed, mixed, jumbled, paired, holds, engine, untrue>>
      /\ link' = [x \in LinkIds |-> IF link[x].at = c THEN NoLink ELSE link[x]]
  BY DEF delete_chain, sound
<1>2. a \in Asks /\ a.op = "delete" /\ a.pc = "row" /\ a.at = c
  BY NoAskFacts DEF Asks, Places
<1>. HIDE DEF a
<1>3. ShapeOK(a) /\ Achieved(a, link', room', holds')
  BY <1>2 DEF ShapeOK, Achieved
<1>4. RestTyped
  BY <1>1, InvFacts DEF RestTyped
<1>. QED  BY <1>1, <1>2, <1>3, <1>4, InvFacts, AskKeeps

LEMMA DeleteRowKeeps ==
  ASSUME OutInv, NEW k \in Hands, DeleteRow(k)
  PROVE  OutInv'
<1>. DEFINE c == ask[k].at
<1>1. /\ ask[k].pc = "row" /\ Turned(k, NoAsk)
      /\ UNCHANGED <<room, agreed, mixed, jumbled, paired, holds, engine, untrue>>
      /\ chain' = [chain EXCEPT ![c] = [st |-> "gone", playing |-> FALSE]]
      /\ link' = [x \in LinkIds |-> IF link[x].at = c THEN NoLink ELSE link[x]]
  BY DEF DeleteRow, sound, Reply, Move
<1>2. ask[k].op = "delete"
  BY <1>1, InvFacts DEF ShapeOK, Asks
<1>. HIDE DEF c
<1>3. AnswerOK(NoAsk, link', room', holds')
  BY NoAskFacts DEF AnswerOK, Achieved
<1>4. RestTyped
  BY <1>1, InvFacts DEF RestTyped
<1>. QED  BY <1>1, <1>2, <1>3, <1>4, NoAskFacts, InvFacts, SideKeeps

LEMMA DeleteLinkKeeps ==
  ASSUME OutInv, NEW k \in Hands, NEW y \in LinkIds, delete_link(k, y)
  PROVE  OutInv'
<1>1. /\ Ask(k, NoAsk) /\ UNCHANGED <<chain, room, agreed, mixed, jumbled, paired, holds, engine, untrue>>
      /\ link' = [link EXCEPT ![y] = NoLink]
  BY DEF delete_link, sound
<1>2. RestTyped
  BY <1>1, InvFacts DEF RestTyped
<1>3. Achieved(NoAsk, link', room', holds')
  BY NoAskFacts DEF Achieved
<1>4. link' = [x \in LinkIds |-> link'[x]] /\ \A x \in LinkIds : link'[x] = link[x] \/ link'[x] = NoLink
  BY <1>1, InvFacts
<1>. QED  BY <1>1, <1>2, <1>3, <1>4, NoAskFacts, InvFacts, AskKeeps

-----------------------------------------------------------------------------
\* Playing and stopping.

LEMMA PlayOutputKeeps ==
  ASSUME OutInv, NEW k \in Hands, NEW o \in Chains \union Rooms, play_output(k, o)
  PROVE  OutInv'
<1>1. PICK op \in {"play", "pause"} : Ask(k, [NoAsk EXCEPT !.op = op, !.pc = "resolve", !.at = o])
  BY DEF play_output
<1>. DEFINE a == [NoAsk EXCEPT !.op = op, !.pc = "resolve", !.at = o]
<1>2. UNCHANGED <<chain, link, room, agreed, mixed, jumbled, paired, holds, engine, untrue>>
  BY DEF play_output, tables, sound
<1>3. a \in Asks /\ a.op = op /\ a.pc = "resolve"
  BY NoAskFacts DEF Asks, Places
<1>4. Ask(k, a)
  BY <1>1
<1>. HIDE DEF a
<1>5. ShapeOK(a) /\ Achieved(a, link', room', holds')
  BY <1>3 DEF ShapeOK, Achieved
<1>6. RestTyped
  BY <1>2, InvFacts DEF RestTyped
<1>. QED  BY <1>2, <1>3, <1>4, <1>5, <1>6, InvFacts, AskKeeps

LEMMA ResolveKeeps ==
  ASSUME OutInv, NEW k \in Hands, resolve_output(k)
  PROVE  OutInv'
<1>. DEFINE a == ask[k]
            b == [a EXCEPT !.pc = IF a.op = "play" THEN "engine" ELSE "select", !.todo = Sinks(a.at)]
<1>1. /\ a.pc = "resolve" /\ (Turned(k, NoAsk) \/ Turned(k, b))
      /\ UNCHANGED <<chain, link, room, agreed, mixed, jumbled, paired, holds, engine, untrue>>
  BY DEF resolve_output, Reply, Move, tables, sound
<1>2. a \in Asks /\ ShapeOK(a) /\ a.op \in {"play", "pause"}
  BY <1>1, InvFacts DEF ShapeOK, Asks
<1>3. Sinks(a.at) \subseteq Speakers
  BY InvFacts DEF Sinks
<1>4. b \in Asks /\ b.op = a.op /\ b.pc \in {"engine", "select"} /\ b.todo \subseteq Speakers
  BY <1>2, <1>3 DEF Asks, Todos
<1>. HIDE DEF a, b
<1>5. ShapeOK(b) /\ AnswerOK(b, link', room', holds')
  BY <1>2, <1>4 DEF ShapeOK, Achieved, AnswerOK
<1>6. RestTyped
  BY <1>1, InvFacts DEF RestTyped
<1>7. AnswerOK(NoAsk, link', room', holds')
  BY NoAskFacts DEF AnswerOK, Achieved
<1>8. CASE Turned(k, NoAsk)
  BY <1>1, <1>2, <1>6, <1>7, <1>8, NoAskFacts, InvFacts, SideKeeps DEF a
<1>9. CASE Turned(k, b)
  BY <1>1, <1>2, <1>4, <1>5, <1>6, <1>9, InvFacts, SideKeeps DEF a
<1>. QED  BY <1>1, <1>8, <1>9

LEMMA EngineKeeps ==
  ASSUME OutInv, NEW k \in Hands, EnginePlays(k)
  PROVE  OutInv'
<1>. DEFINE a == ask[k]
            b == [a EXCEPT !.pc = "select", !.todo = {}]
<1>1. /\ a.pc = "engine" /\ Turned(k, b) /\ engine' = a.todo
      /\ UNCHANGED <<chain, link, room, agreed, mixed, jumbled, paired, untrue>>
      /\ \E left \in SUBSET holds : holds' = (holds \ engine) \union left
  BY DEF EnginePlays, Move, tables, EngineLeaves
<1>2. a \in Asks /\ ShapeOK(a) /\ a.op \in {"play", "pause"} /\ a.todo \subseteq Speakers
  BY <1>1, InvFacts DEF ShapeOK, Asks
<1>4. b \in Asks /\ b.op = a.op /\ b.pc = "select"
  BY <1>2 DEF Asks
<1>. HIDE DEF a, b
<1>5. ShapeOK(b) /\ AnswerOK(b, link', room', holds')
  BY <1>2, <1>4 DEF ShapeOK, Achieved, AnswerOK
<1>6. RestTyped
  BY <1>1, <1>2, InvFacts DEF RestTyped
<1>. QED  BY <1>1, <1>2, <1>4, <1>5, <1>6, InvFacts, SideKeeps DEF a

LEMMA SelectKeeps ==
  ASSUME OutInv, NEW k \in Hands, Select(k)
  PROVE  OutInv'
<1>. DEFINE a == ask[k]
            b == [a EXCEPT !.pc = "flag", !.pos = 1]
<1>1. /\ a.pc = "select" /\ (Turned(k, NoAsk) \/ (a.at \in Chains /\ Turned(k, b)))
      /\ UNCHANGED <<chain, link, room, agreed, mixed, jumbled, paired, holds, engine, untrue>>
  BY DEF Select, Reply, Move, tables
<1>2. a \in Asks /\ ShapeOK(a) /\ a.op \in {"play", "pause"}
  BY <1>1, InvFacts DEF ShapeOK, Asks
<1>4. b \in Asks /\ b.op = a.op /\ b.pc = "flag" /\ b.at = a.at
  BY <1>2 DEF Asks
<1>. HIDE DEF a, b
<1>5. a.at \in Chains => ShapeOK(b) /\ AnswerOK(b, link', room', holds')
  BY <1>2, <1>4 DEF ShapeOK, Achieved, AnswerOK
<1>6. RestTyped
  BY <1>1, InvFacts DEF RestTyped
<1>7. AnswerOK(NoAsk, link', room', holds')
  BY NoAskFacts DEF AnswerOK, Achieved
<1>8. CASE Turned(k, NoAsk)
  BY <1>1, <1>2, <1>6, <1>7, <1>8, NoAskFacts, InvFacts, SideKeeps DEF a
<1>9. CASE a.at \in Chains /\ Turned(k, b)
  BY <1>1, <1>2, <1>4, <1>5, <1>6, <1>9, InvFacts, SideKeeps DEF a
<1>. QED  BY <1>1, <1>8, <1>9

LEMMA FlagKeeps ==
  ASSUME OutInv, NEW k \in Hands, Flag(k)
  PROVE  OutInv'
<1>. DEFINE a == ask[k]
<1>1. /\ a.pc = "flag" /\ Turned(k, NoAsk)
      /\ chain' = [chain EXCEPT ![a.at].playing = IF chain[a.at].st = "live" THEN a.pos = 1 ELSE @]
      /\ Claim(k, (a.op = "stop" /\ a.bad = 0) => \A x \in LinksOf(a.at) : link[x].r \notin holds, a.at)
      /\ UNCHANGED <<link, room, agreed, mixed, jumbled, paired, holds, engine>>
  BY DEF Flag, Reply, Move
<1>2. /\ a \in Asks /\ ShapeOK(a) /\ a.op \in {"play", "pause", "stop"} /\ a.at \in Chains
      /\ AnswerOK(a, link, room, holds)
  BY <1>1, InvFacts DEF ShapeOK, Asks
<1>3. untrue' = {}
  BY <1>1, <1>2, InvFacts DEF Claim, AnswerOK, Achieved, LinksOf
<1>. HIDE DEF a
<1>4. RestTyped
  <2>. DEFINE t == IF chain[a.at].st = "live" THEN a.pos = 1 ELSE chain[a.at].playing
  <2>1. t \in BOOLEAN
    BY <1>2, InvFacts
  <2>2. chain' = [chain EXCEPT ![a.at].playing = t]
    BY <1>1
  <2>. HIDE DEF t
  <2>3. chain' \in [Chains -> [st : {"new", "live", "gone"}, playing : BOOLEAN]]
    BY <2>1, <2>2, InvFacts
  <2>. QED  BY <1>1, <2>3, InvFacts DEF RestTyped
<1>7. AnswerOK(NoAsk, link', room', holds')
  BY NoAskFacts DEF AnswerOK, Achieved
<1>. QED  BY <1>1, <1>2, <1>3, <1>4, <1>7, NoAskFacts, InvFacts, SideKeeps DEF a

LEMMA StopChainKeeps ==
  ASSUME OutInv, NEW k \in Hands, NEW c \in Chains, stop_chain(k, c)
  PROVE  OutInv'
<1>1. PICK left \in SUBSET holds :
        /\ EngineLeaves(left)
        /\ Ask(k, [NoAsk EXCEPT !.op = "stop", !.pc = "links", !.at = c, !.bad = IF left = {} THEN 0 ELSE 1])
  BY DEF stop_chain
<1>. DEFINE z == IF left = {} THEN 0 ELSE 1
            a == [NoAsk EXCEPT !.op = "stop", !.pc = "links", !.at = c, !.bad = z]
<1>2. UNCHANGED <<chain, link, room, agreed, mixed, jumbled, paired, untrue>> /\ engine' = {}
  BY DEF stop_chain, tables
<1>3. Ask(k, a) /\ z \in {0, 1}
  BY <1>1
<1>. HIDE DEF z
<1>4. a \in Asks /\ a.op = "stop" /\ a.pc = "links" /\ a.at = c
  BY <1>3, NoAskFacts DEF Asks, Places
<1>. HIDE DEF a
<1>5. ShapeOK(a) /\ Achieved(a, link', room', holds')
  BY <1>4 DEF ShapeOK, Achieved
<1>6. RestTyped
  BY <1>1, <1>2, InvFacts DEF RestTyped, EngineLeaves
<1>. QED  BY <1>2, <1>3, <1>4, <1>5, <1>6, InvFacts, AskKeeps

LEMMA GetLinksKeeps ==
  ASSUME OutInv, NEW k \in Hands, get_chain_links(k)
  PROVE  OutInv'
<1>. DEFINE a == ask[k]
            t == {<<x, link[x].r>> : x \in LinksOf(a.at)}
            b == [a EXCEPT !.pc = "stops", !.todo = t]
<1>1. /\ a.pc = "links" /\ Turned(k, b)
      /\ UNCHANGED <<chain, link, room, agreed, mixed, jumbled, paired, holds, engine, untrue>>
  BY DEF get_chain_links, Move, tables, sound
<1>2. a \in Asks /\ ShapeOK(a) /\ a.op = "stop" /\ a.at \in Chains
  BY <1>1, InvFacts DEF ShapeOK, Asks
<1>3. t \subseteq LinkIds \X Speakers
  <2>1. ASSUME NEW x \in LinksOf(a.at) PROVE x \in LinkIds /\ link[x].r \in Speakers
    <3>1. x \in LinkIds /\ link[x].at = a.at /\ link[x] \in Links
      BY InvFacts DEF LinksOf
    <3>2. link[x] # NoLink
      BY <3>1, <1>2, OutputsAssumption DEF NoLink
    <3>. QED  BY <3>1, <3>2 DEF Links
  <2>. QED  BY <2>1
<1>3a. \A x \in LinkIds : link[x].at = a.at => <<x, link[x].r>> \in t
  BY DEF LinksOf
<1>. HIDE DEF t
<1>4. b \in Asks /\ b.op = "stop" /\ b.pc = "stops" /\ b.at = a.at /\ b.todo = t
  BY <1>2, <1>3 DEF Asks, Todos
<1>. HIDE DEF a, b
<1>5. ShapeOK(b) /\ AnswerOK(b, link', room', holds')
  BY <1>1, <1>2, <1>3, <1>3a, <1>4 DEF ShapeOK, Achieved, AnswerOK
<1>6. RestTyped
  BY <1>1, InvFacts DEF RestTyped
<1>. QED  BY <1>1, <1>2, <1>4, <1>5, <1>6, InvFacts, SideKeeps DEF a

LEMMA DeactivateKeeps ==
  ASSUME OutInv, NEW k \in Hands, NEW g \in Rooms, deactivate_room(k, g)
  PROVE  OutInv'
<1>. DEFINE t == {<<r, r>> : r \in room[g].recs}
            a == [NoAsk EXCEPT !.op = "deactivate", !.pc = "stops", !.at = g, !.todo = t]
<1>1. Ask(k, a) /\ UNCHANGED <<chain, link, room, agreed, mixed, jumbled, paired, holds, engine, untrue>>
  BY DEF deactivate_room, tables, sound
<1>2. t \subseteq Speakers \X Speakers /\ \A r \in room[g].recs : <<r, r>> \in t
  <2>1. room[g].recs \subseteq Speakers
    BY InvFacts DEF RoomRows
  <2>. QED  BY <2>1
<1>. HIDE DEF t
<1>3. a \in Asks /\ a.op = "deactivate" /\ a.pc = "stops" /\ a.at = g /\ a.todo = t
  BY <1>2, NoAskFacts DEF Asks, Places, Todos
<1>. HIDE DEF a
<1>4. ShapeOK(a) /\ Achieved(a, link', room', holds')
  BY <1>1, <1>2, <1>3 DEF ShapeOK, Achieved
<1>5. RestTyped
  BY <1>1, InvFacts DEF RestTyped
<1>. QED  BY <1>1, <1>3, <1>4, <1>5, InvFacts, AskKeeps

LEMMA ActivateKeeps ==
  ASSUME OutInv, NEW k \in Hands, NEW g \in Rooms, activate_room(k, g)
  PROVE  OutInv'
<1>. DEFINE a == [NoAsk EXCEPT !.op = "activate", !.pc = "starts", !.at = g, !.todo = room[g].recs]
<1>1. Ask(k, a) /\ UNCHANGED <<chain, link, room, agreed, mixed, jumbled, paired, holds, engine, untrue>>
  BY DEF activate_room, tables, sound
<1>2. room[g].recs \subseteq Speakers
  BY InvFacts DEF RoomRows
<1>3. a \in Asks /\ a.op = "activate" /\ a.pc = "starts" /\ a.at = g /\ a.todo = room[g].recs
  BY <1>2, NoAskFacts DEF Asks, Places, Todos
<1>. HIDE DEF a
<1>4. ShapeOK(a) /\ Achieved(a, link', room', holds')
  BY <1>1, <1>2, <1>3 DEF ShapeOK, Achieved
<1>5. RestTyped
  BY <1>1, InvFacts DEF RestTyped
<1>. QED  BY <1>1, <1>3, <1>4, <1>5, InvFacts, AskKeeps

LEMMA StopOneKeeps ==
  ASSUME OutInv, NEW k \in Hands, StopOne(k)
  PROVE  OutInv'
<1>. DEFINE a == ask[k]
<1>1. PICK t \in a.todo, ok \in BOOLEAN, known \in BOOLEAN :
        /\ ok \/ HasSession(t[2])
        /\ holds' = IF ok /\ HasSession(t[2]) THEN holds \ {t[2]} ELSE holds
        /\ Move(k, [a EXCEPT !.todo = @ \ {t}, !.good = IF ok /\ known THEN 1 ELSE @,
                              !.bad = IF ok THEN @ ELSE 1])
  BY DEF StopOne
<1>. DEFINE g2 == IF ok /\ known THEN 1 ELSE a.good
            b2 == IF ok THEN a.bad ELSE 1
            b == [a EXCEPT !.todo = a.todo \ {t}, !.good = g2, !.bad = b2]
<1>2. /\ a.pc = "stops" /\ Turned(k, b)
      /\ UNCHANGED <<chain, link, room, agreed, mixed, jumbled, paired, engine, untrue>>
  BY <1>1 DEF StopOne, Move, tables
<1>3. /\ a \in Asks /\ ShapeOK(a) /\ a.op \in {"stop", "deactivate"} /\ AnswerOK(a, link, room, holds)
      /\ a.todo \subseteq (LinkIds \union Speakers) \X Speakers
  BY <1>2, InvFacts DEF ShapeOK, Asks
<1>4. g2 \in {0, 1} /\ b2 \in {0, 1} /\ (b2 = 0 => ok /\ a.bad = 0)
  BY <1>3 DEF Asks
<1>. HIDE DEF g2, b2
<1>5. /\ b \in Asks /\ b.op = a.op /\ b.pc = a.pc /\ b.at = a.at /\ b.todo = a.todo \ {t} /\ b.bad = b2
      /\ b.alone = a.alone
  BY <1>3, <1>4 DEF Asks
<1>. HIDE DEF a, b
<1>6. ShapeOK(b)
  BY <1>2, <1>3, <1>5 DEF ShapeOK
<1>7. holds' \subseteq holds /\ (ok => t[2] \notin holds')
  BY <1>1 DEF HasSession
<1>8. AnswerOK(b, link', room', holds')
  <2>. SUFFICES ASSUME b.alone, b.bad = 0
                PROVE  Achieved(b, link', room', holds')
    BY DEF AnswerOK, Achieved
  <2>1. ok /\ Achieved(a, link, room, holds) /\ a.bad = 0
    BY <1>3, <1>4, <1>5 DEF AnswerOK
  <2>2. ASSUME NEW x, NEW r, <<x, r>> = t PROVE r \notin holds'
    BY <1>7, <2>1, <2>2
  <2>. QED  BY <1>2, <1>3, <1>5, <1>7, <2>1, <2>2 DEF Achieved
<1>9. RestTyped
  BY <1>2, <1>7, InvFacts DEF RestTyped
<1>. QED  BY <1>2, <1>3, <1>5, <1>6, <1>8, <1>9, InvFacts, SideKeeps DEF a

LEMMA StopEndsKeeps ==
  ASSUME OutInv, NEW k \in Hands, StopEnds(k)
  PROVE  OutInv'
<1>. DEFINE a == ask[k]
            b == [a EXCEPT !.pc = "flag", !.pos = 0]
<1>1. /\ a.pc = "stops" /\ a.todo = {} /\ (Turned(k, NoAsk) \/ (a.op = "stop" /\ Turned(k, b)))
      /\ Claim(k, (a.op = "deactivate" /\ a.bad = 0) => room[a.at].recs \intersect holds = {}, a.at)
      /\ UNCHANGED <<chain, link, room, agreed, mixed, jumbled, paired, holds, engine>>
  BY DEF StopEnds, Reply, Move, tables
<1>2. /\ a \in Asks /\ ShapeOK(a) /\ a.op \in {"stop", "deactivate"} /\ AnswerOK(a, link, room, holds)
  BY <1>1, InvFacts DEF ShapeOK, Asks
<1>3. untrue' = {}
  BY <1>1, <1>2, InvFacts DEF Claim, AnswerOK, Achieved
<1>4. b \in Asks /\ b.op = a.op /\ b.pc = "flag" /\ b.at = a.at /\ b.bad = a.bad /\ b.alone = a.alone
  BY <1>2 DEF Asks
<1>. HIDE DEF a, b
<1>5. a.op = "stop" => ShapeOK(b) /\ AnswerOK(b, link', room', holds')
  BY <1>1, <1>2, <1>4 DEF ShapeOK, Achieved, AnswerOK
<1>6. RestTyped
  BY <1>1, InvFacts DEF RestTyped
<1>7. AnswerOK(NoAsk, link', room', holds')
  BY NoAskFacts DEF AnswerOK, Achieved
<1>8. CASE Turned(k, NoAsk)
  BY <1>1, <1>2, <1>3, <1>6, <1>7, <1>8, NoAskFacts, InvFacts, SideKeeps DEF a
<1>9. CASE a.op = "stop" /\ Turned(k, b)
  BY <1>1, <1>2, <1>3, <1>4, <1>5, <1>6, <1>9, InvFacts, SideKeeps DEF a
<1>. QED  BY <1>1, <1>8, <1>9

LEMMA StartOneKeeps ==
  ASSUME OutInv, NEW k \in Hands, StartOne(k)
  PROVE  OutInv'
<1>. DEFINE a == ask[k]
<1>1. PICK r \in a.todo, ok \in BOOLEAN :
        /\ ok => r \in paired
        /\ holds' = IF ok THEN holds \union {r} ELSE holds
        /\ Move(k, [a EXCEPT !.todo = @ \ {r}, !.good = IF ok THEN 1 ELSE @, !.bad = IF ok THEN @ ELSE 1])
  BY DEF StartOne
<1>. DEFINE g2 == IF ok THEN 1 ELSE a.good
            b2 == IF ok THEN a.bad ELSE 1
            b == [a EXCEPT !.todo = a.todo \ {r}, !.good = g2, !.bad = b2]
<1>2. /\ a.pc = "starts" /\ Turned(k, b)
      /\ UNCHANGED <<chain, link, room, agreed, mixed, jumbled, paired, engine, untrue>>
  BY <1>1 DEF StartOne, Move, tables
<1>3. /\ a \in Asks /\ ShapeOK(a) /\ a.op = "activate" /\ AnswerOK(a, link, room, holds)
      /\ a.todo \subseteq Speakers
  BY <1>2, InvFacts DEF ShapeOK, Asks
<1>4. g2 \in {0, 1} /\ b2 \in {0, 1} /\ (b2 = 0 => ok /\ a.bad = 0)
  BY <1>3 DEF Asks
<1>. HIDE DEF g2, b2
<1>5. /\ b \in Asks /\ b.op = a.op /\ b.pc = a.pc /\ b.at = a.at /\ b.todo = a.todo \ {r} /\ b.bad = b2
      /\ b.alone = a.alone
  BY <1>3, <1>4 DEF Asks
<1>. HIDE DEF a, b
<1>6. ShapeOK(b)
  BY <1>2, <1>3, <1>5 DEF ShapeOK
<1>7. holds \subseteq holds' /\ (ok => r \in holds') /\ holds' \in SUBSET Speakers
  BY <1>1, <1>3, InvFacts
<1>8. AnswerOK(b, link', room', holds')
  BY <1>2, <1>3, <1>4, <1>5, <1>7 DEF AnswerOK, Achieved
<1>9. RestTyped
  BY <1>2, <1>7, InvFacts DEF RestTyped
<1>. QED  BY <1>2, <1>3, <1>5, <1>6, <1>8, <1>9, InvFacts, SideKeeps DEF a

LEMMA StartEndsKeeps ==
  ASSUME OutInv, NEW k \in Hands, StartEnds(k)
  PROVE  OutInv'
<1>. DEFINE a == ask[k]
<1>1. /\ a.pc = "starts" /\ a.todo = {} /\ Turned(k, NoAsk)
      /\ Claim(k, a.good = 1 /\ Ready(a) => room[a.at].recs \subseteq holds, a.at)
      /\ UNCHANGED <<chain, link, room, agreed, mixed, jumbled, paired, holds, engine>>
  BY DEF StartEnds, Reply, Move, tables
<1>2. /\ a \in Asks /\ ShapeOK(a) /\ a.op = "activate" /\ AnswerOK(a, link, room, holds)
  BY <1>1, InvFacts DEF ShapeOK, Asks
<1>3. untrue' = {}
  BY <1>1, <1>2, InvFacts DEF Claim, AnswerOK, Achieved, Ready
<1>. HIDE DEF a
<1>6. RestTyped
  BY <1>1, InvFacts DEF RestTyped
<1>7. AnswerOK(NoAsk, link', room', holds')
  BY NoAskFacts DEF AnswerOK, Achieved
<1>. QED  BY <1>1, <1>2, <1>3, <1>6, <1>7, NoAskFacts, InvFacts, SideKeeps DEF a

LEMMA DropKeeps ==
  ASSUME OutInv, NEW k \in Hands, Drop(k)
  PROVE  OutInv'
<1>1. /\ Turned(k, NoAsk) /\ UNCHANGED <<chain, link, room, agreed, mixed, paired, holds, engine, untrue>>
      /\ jumbled' = IF ask[k].op = "reorder" THEN jumbled \union {ask[k].at} ELSE jumbled
  BY DEF Drop, sound
<1>2. RestTyped
  BY <1>1, InvFacts DEF RestTyped
<1>3. AnswerOK(NoAsk, link', room', holds')
  BY NoAskFacts DEF AnswerOK, Achieved
<1>. QED  BY <1>1, <1>2, <1>3, NoAskFacts, InvFacts, SideKeeps

LEMMA SpeakerKeeps ==
  ASSUME OutInv, NEW r \in Speakers, SinkOpens(r) \/ SessionLost(r) \/ Revoked(r) \/ Paired(r)
  PROVE  OutInv'
<1>1. CASE SinkOpens(r)
  BY <1>1, InvFacts, AroundKeeps DEF SinkOpens
<1>2. CASE SessionLost(r)
  BY <1>2, InvFacts, AroundKeeps DEF SessionLost
<1>3. CASE Revoked(r)
  BY <1>3, InvFacts, AroundKeeps DEF Revoked
<1>4. CASE Paired(r)
  BY <1>4, InvFacts, AroundKeeps DEF Paired
<1>. QED  BY <1>1, <1>2, <1>3, <1>4

-----------------------------------------------------------------------------
\* Placing links.

(* The greatest of a set of numbers.                                       *)
LEMMA Greatest ==
  ASSUME NEW S \in SUBSET Nat, NEW m \in S, \A q \in S : q <= m
  PROVE  Max(S) = m
<1>1. \A q \in S : m >= q
  OBVIOUS
<1>2. Max(S) \in S /\ \A q \in S : Max(S) >= q
  BY <1>1 DEF Max
<1>. DEFINE n == Max(S)
<1>3. n \in Nat /\ m \in Nat /\ n >= m /\ m >= n
  BY <1>1, <1>2
<1>. HIDE DEF n
<1>4. n = m
  BY <1>3
<1>. QED  BY <1>4 DEF n

(* The next position is none of those taken.                               *)
LEMMA NextLinkFree ==
  ASSUME OutInv, NEW c \in Chains
  PROVE  NextLink(c) \in Nat /\ \A x \in LinkIds : link[x].at = c => link[x].pos # NextLink(c)
<1>. DEFINE L == LinksOf(c)
            p(x) == link[x].pos
<1>1. L \in SUBSET LinkIds /\ IsFiniteSet(L) /\ \A x \in LinkIds : link[x].at = c <=> x \in L
  BY OutputsAssumption, FS_Subset DEF LinksOf
<1>2. \A x \in L : p(x) \in Nat
  BY <1>1, InvFacts, NoAskFacts DEF Links, NoLink
<1>3. CASE L = {}
  BY <1>1, <1>3 DEF NextLink
<1>4. CASE L # {}
  <2>. DEFINE Higher(x) == {y \in L : p(y) > p(x)}
              S == {Cardinality(Higher(x)) : x \in L}
  <2>1. ASSUME NEW x \in L PROVE IsFiniteSet(Higher(x)) /\ Cardinality(Higher(x)) \in Nat
    BY <1>1, FS_Subset, FS_CardinalityType
  <2>2. S \in SUBSET Nat /\ S # {}
    BY <1>4, <2>1
  <2>3. PICK n \in S : \A m \in S : n <= m
    <3>. HIDE DEF S
    <3>. QED  BY <2>2, LeastFile
  <2>4. PICK x \in L : n = Cardinality(Higher(x))
    BY <2>3
  <2>5. ASSUME NEW y \in L, p(y) > p(x) PROVE FALSE
    <3>1. Higher(y) \in SUBSET Higher(x) /\ y \in Higher(x) /\ y \notin Higher(y)
      BY <1>2, <2>5
    <3>2. Cardinality(Higher(y)) <= Cardinality(Higher(x)) /\ Cardinality(Higher(y)) # Cardinality(Higher(x))
      <4>. HIDE DEF Higher
      <4>. QED  BY <3>1, <2>1, FS_Subset
    <3>3. Cardinality(Higher(y)) \in S
      OBVIOUS
    <3>. HIDE DEF Higher, S
    <3>. QED  BY <3>2, <3>3, <2>1, <2>3, <2>4
  <2>6. \A y \in L : p(y) <= p(x)
    BY <1>2, <2>5
  <2>. DEFINE P == {p(y) : y \in L}
  <2>7. p(x) \in P /\ P \in SUBSET Nat /\ \A q \in P : q <= p(x)
    BY <2>6, <1>2
  <2>8. Max(P) = p(x)
    <3>. HIDE DEF P, p
    <3>. QED  BY <2>7, Greatest
  <2>9. NextLink(c) = p(x) + 1
    BY <1>4, <2>8 DEF NextLink
  <2>. HIDE DEF P, L, p, Higher, S
  <2>10. NextLink(c) \in Nat /\ \A y \in L : p(y) # NextLink(c)
    BY <1>2, <2>4, <2>6, <2>9
  <2>. QED  BY <1>1, <2>10 DEF p
<1>. QED  BY <1>3, <1>4

(* A step that places links of c leaves the other chains alone.            *)
LEMMA OthersLeft ==
  ASSUME OutInv, NEW k \in Hands, NEW a \in Asks, ShapeOK(a), Turned(k, a), jumbled \subseteq jumbled',
         NEW c \in Chains, \A x \in LinkIds : link'[x].at # c => link'[x] = link[x],
         Placing(a, c) \/ a.op = "none", ask[k].op = "reorder" => ask[k].at = c,
         ChainOK(c, link', jumbled', ask')
  PROVE  \A e \in Chains : ChainOK(e, link', jumbled', ask')
<1>1. /\ ask \in [Hands -> Asks] /\ \A d \in Hands : ShapeOK(ask[d])
  BY DEF OutInv, OutTypes
<1>2. /\ ask' \in [Hands -> Asks] /\ ask'[k] = a
      /\ \A d \in Hands : d # k => Shaken(ask'[d], ask[d]) /\ ShapeOK(ask'[d])
  BY <1>1, TurnedFacts
<1>3. ASSUME NEW e \in Chains, e # c PROVE ChainOK(e, link', jumbled', ask')
  <2>1. \A x \in LinkIds : link'[x].at = e => link'[x] = link[x]
    BY <1>3
  <2>2. ASSUME NEW d \in Hands
        PROVE  \/ ask'[d].op = ask[d].op /\ ask'[d].at = ask[d].at /\ ask'[d].pos = ask[d].pos /\ ask'[d].seq = ask[d].seq
               \/ ~Placing(ask'[d], e) /\ (Placing(ask[d], e) /\ ask[d].op = "reorder" => e \in jumbled')
    <3>1. CASE d = k
      BY <1>2, <1>3, <3>1 DEF Placing
    <3>2. CASE d # k
      BY <1>2, <3>2 DEF Shaken, Like
    <3>. QED  BY <3>1, <3>2
  <2>3. ChainOK(e, link, jumbled, ask)
    BY DEF OutInv
  <2>. QED  BY <1>1, <2>1, <2>2, <2>3, ChainQuiet
<1>. QED  BY <1>3

LEMMA AddKeeps ==
  ASSUME OutInv, NEW k \in Hands, NEW c \in Chains, NEW r \in Speakers, add_link(k, c, r)
  PROVE  OutInv'
<1>. DEFINE n == NextLink(c)
            a == [NoAsk EXCEPT !.op = "add", !.pc = "insert", !.at = c, !.pos = n, !.todo = {r}]
<1>1. /\ Ask(k, a) /\ UNCHANGED <<chain, link, room, agreed, mixed, paired, holds, engine, untrue>>
      /\ jumbled' = IF Busy(k, c, {"add", "reorder"}) THEN jumbled \union {c} ELSE jumbled
  BY DEF add_link, sound
<1>2. n \in Nat /\ \A x \in LinkIds : link[x].at = c => link[x].pos # n
  BY NextLinkFree
<1>. HIDE DEF n
<1>3. a \in Asks /\ a.op = "add" /\ a.pc = "insert" /\ a.at = c /\ a.pos = n /\ a.todo = {r}
  BY <1>2, NoAskFacts DEF Asks, Places, Todos
<1>. HIDE DEF a
<1>4. ShapeOK(a)
  BY <1>3 DEF ShapeOK
<1>0. ask[k] = NoAsk /\ \E b \in Asks : Turned(k, b) /\ Like(b, a) /\ ShapeOK(b)
  BY <1>1, <1>3, <1>4, InvFacts, AskFacts
<1>5. PICK b \in Asks : ask[k] = NoAsk /\ Turned(k, b) /\ Like(b, a) /\ ShapeOK(b)
  BY <1>0
<1>6. b.op = "add" /\ b.at = c /\ b.pos = n
  BY <1>3, <1>5 DEF Like
<1>7. /\ ask'[k] = b
      /\ \A d \in Hands : d # k => Shaken(ask'[d], ask[d]) /\ ShapeOK(ask'[d])
  BY <1>5, InvFacts, TurnedFacts
<1>8. ChainOK(c, link', jumbled', ask')
  <2>. SUFFICES ASSUME c \notin jumbled'
                PROVE  ChainOK(c, link', jumbled', ask')
    BY DEF ChainOK
  <2>1. c \notin jumbled /\ \A d \in Hands \ {k} : ~Placing(ask[d], c)
    BY <1>1 DEF Busy, Placing
  <2>2. \A d \in Hands \ {k} : ~Placing(ask'[d], c)
    BY <1>7, <2>1 DEF Shaken, Like, Placing
  <2>3. \A d \in Hands : ask'[d].at = c => LinkAsk(ask'[d], link')
    BY <1>1, <1>2, <1>6, <1>7, <2>2 DEF LinkAsk, Placing
  <2>4. \A d \in Hands : ask[d].at = c => ask[d].op # "reorder"
    BY <1>5, <2>1, NoAskFacts DEF Placing
  <2>5. ~Twice(link', c)
    BY <1>1, <2>1, <2>4 DEF OutInv, ChainOK, Twice
  <2>. QED  BY <2>2, <2>3, <2>5 DEF ChainOK
<1>9. \A e \in Chains : ChainOK(e, link', jumbled', ask')
  <2>1. jumbled \subseteq jumbled' /\ ask[k].op # "reorder"
    BY <1>1, <1>5, NoAskFacts
  <2>. QED  BY <1>1, <1>5, <1>6, <1>8, <2>1, OthersLeft DEF Placing
<1>10. \A g \in Rooms : RoomOK(g, room', agreed', mixed', ask')
  BY <1>1, <1>5, <1>6, RoomsLeft
<1>11. RestTyped /\ AnswerOK(b, link', room', holds')
  BY <1>1, <1>6, InvFacts DEF RestTyped, AnswerOK, Achieved
<1>. QED  BY <1>1, <1>5, <1>9, <1>10, <1>11, InvFacts, StepKeeps

LEMMA InsertKeeps ==
  ASSUME OutInv, NEW k \in Hands, InsertLink(k)
  PROVE  OutInv'
<1>. DEFINE a == ask[k]
            c == a.at
<1>1. /\ a.pc = "insert" /\ Turned(k, NoAsk)
      /\ UNCHANGED <<chain, room, agreed, mixed, jumbled, paired, holds, engine, untrue>>
      /\ \/ link' = link
         \/ \E x \in LinkIds, r \in a.todo : link[x] = NoLink /\ link' = [link EXCEPT ![x] = [at |-> c, pos |-> a.pos, r |-> r]]
  BY DEF InsertLink, Reply, Move, sound
<1>2. /\ a \in Asks /\ a.op = "add" /\ c \in Chains /\ a.pos \in Nat /\ a.todo \subseteq Speakers /\ NoLink.at # c
  BY <1>1, InvFacts, OutputsAssumption DEF ShapeOK, Asks, NoLink
<1>3. /\ ask'[k] = NoAsk
      /\ \A d \in Hands : d # k => Shaken(ask'[d], ask[d])
  BY <1>1, InvFacts, TurnedFacts, NoAskFacts
<1>4. /\ link' \in [LinkIds -> Links]
      /\ \A x, y \in LinkIds : link'[x] = link[x] \/ link'[y] = link[y] \/ x = y
      /\ \A x \in LinkIds : link'[x] = link[x] \/ (link'[x].at = c /\ link'[x].pos = a.pos)
  <2>1. CASE link' = link
    BY <2>1, InvFacts
  <2>2. ASSUME NEW x \in LinkIds, NEW r \in a.todo, link[x] = NoLink,
               link' = [link EXCEPT ![x] = [at |-> c, pos |-> a.pos, r |-> r]]
        PROVE  /\ link' \in [LinkIds -> Links]
               /\ \A y, z \in LinkIds : link'[y] = link[y] \/ link'[z] = link[z] \/ y = z
               /\ \A y \in LinkIds : link'[y] = link[y] \/ (link'[y].at = c /\ link'[y].pos = a.pos)
    <3>1. [at |-> c, pos |-> a.pos, r |-> r] \in Links
      BY <1>2 DEF Links
    <3>. QED  BY <2>2, <3>1, InvFacts
  <2>. QED  BY <1>1, <2>1, <2>2
<1>5. ChainOK(c, link', jumbled', ask')
  <2>. SUFFICES ASSUME c \notin jumbled
                PROVE  ChainOK(c, link', jumbled', ask')
    BY <1>1 DEF ChainOK
  <2>1. /\ \A d \in Hands \ {k} : ~Placing(ask[d], c)
        /\ \A x \in LinkIds : link[x].at = c => link[x].pos # a.pos
    BY <1>2 DEF OutInv, ChainOK, Placing, LinkAsk
  <2>2. \A d \in Hands : ~Placing(ask'[d], c)
    BY <1>2, <1>3, <2>1, NoAskFacts DEF Shaken, Like, Placing
  <2>3. ~Twice(link, c)
    <3>1. \A d \in Hands : ask[d].at = c => ask[d].op # "reorder"
      BY <1>2, <2>1 DEF Placing
    <3>. QED  BY <1>2, <3>1 DEF OutInv, ChainOK
  <2>4. ~Twice(link', c)
    <3>. HIDE DEF a, c
    <3>. QED  BY <1>4, <2>1, <2>3 DEF Twice
  <2>. QED  BY <2>2, <2>4 DEF ChainOK, Placing, LinkAsk
<1>. HIDE DEF a, c
<1>6. \A e \in Chains : ChainOK(e, link', jumbled', ask')
  <2>1. ask[k].op # "reorder" /\ \A x \in LinkIds : link'[x].at # c => link'[x] = link[x]
    BY <1>2, <1>4 DEF a
  <2>. QED  BY <1>1, <1>2, <1>5, <2>1, NoAskFacts, OthersLeft
<1>7. \A g \in Rooms : RoomOK(g, room', agreed', mixed', ask')
  BY <1>1, NoAskFacts, RoomsLeft
<1>8. RestTyped /\ AnswerOK(NoAsk, link', room', holds')
  BY <1>1, NoAskFacts, InvFacts DEF RestTyped, AnswerOK, Achieved
<1>. QED  BY <1>1, <1>4, <1>6, <1>7, <1>8, NoAskFacts, InvFacts, StepKeeps

LEMMA UpdateLinkKeeps ==
  ASSUME OutInv, NEW k \in Hands, NEW x \in LinkIds, NEW p \in Nat, update_link(k, x, p)
  PROVE  OutInv'
<1>. DEFINE c == link[x].at
<1>1. /\ link[x] # NoLink /\ Ask(k, NoAsk) /\ link' = [link EXCEPT ![x].pos = p]
      /\ UNCHANGED <<chain, room, agreed, mixed, paired, holds, engine, untrue>>
      /\ jumbled' = IF Twice(link', c) \/ Busy(k, c, {"add", "reorder"}) THEN jumbled \union {c} ELSE jumbled
  BY DEF update_link, sound
<1>2. /\ link[x] \in [at : Chains, pos : Nat, r : Speakers] /\ c \in Chains
  BY <1>1, InvFacts DEF Links
<1>3. /\ link'[x] \in Links /\ link'[x].at = c /\ \A y \in LinkIds : y # x => link'[y] = link[y]
      /\ link' \in [LinkIds -> Links]
  <2>1. [link[x] EXCEPT !.pos = p] \in Links /\ [link[x] EXCEPT !.pos = p].at = c
    BY <1>2 DEF Links
  <2>. QED  BY <1>1, <2>1, InvFacts
<1>. HIDE DEF c
<1>4. ask[k] = NoAsk /\ Turned(k, NoAsk)
  BY <1>1, InvFacts, NoAskFacts DEF Ask, ShapeOK
<1>5. /\ ask'[k] = NoAsk
      /\ \A d \in Hands : d # k => Shaken(ask'[d], ask[d])
  BY <1>4, InvFacts, TurnedFacts, NoAskFacts
<1>6. ChainOK(c, link', jumbled', ask')
  <2>. SUFFICES ASSUME c \notin jumbled'
                PROVE  ChainOK(c, link', jumbled', ask')
    BY DEF ChainOK
  <2>1. ~Twice(link', c) /\ \A d \in Hands \ {k} : ~Placing(ask[d], c)
    BY <1>1 DEF Busy, Placing
  <2>2. \A d \in Hands : ~Placing(ask'[d], c)
    BY <1>5, <2>1, NoAskFacts DEF Shaken, Like, Placing
  <2>. QED  BY <2>1, <2>2 DEF ChainOK, Placing, LinkAsk
<1>7. \A e \in Chains : ChainOK(e, link', jumbled', ask')
  <2>1. /\ ask[k].op # "reorder" /\ jumbled \subseteq jumbled'
        /\ \A y \in LinkIds : link'[y].at # c => link'[y] = link[y]
    BY <1>1, <1>3, <1>4, NoAskFacts
  <2>. QED  BY <1>2, <1>4, <1>6, <2>1, NoAskFacts, OthersLeft
<1>8. \A g \in Rooms : RoomOK(g, room', agreed', mixed', ask')
  BY <1>1, <1>4, NoAskFacts, RoomsLeft
<1>9. RestTyped /\ AnswerOK(NoAsk, link', room', holds')
  BY <1>1, NoAskFacts, InvFacts DEF RestTyped, AnswerOK, Achieved
<1>. QED  BY <1>1, <1>3, <1>4, <1>7, <1>8, <1>9, NoAskFacts, InvFacts, StepKeeps

(* A reordering lists links of the chain, each once; listing as many as    *)
(* there are it lists them all.                                            *)
LEMMA Listed ==
  ASSUME NEW S, IsFiniteSet(S), NEW n \in Nat, NEW f \in [1 .. n -> S],
         \A i, j \in 1 .. n : f[i] = f[j] => i = j, n = Cardinality(S)
  PROVE  \A x \in S : \E i \in 1 .. n : f[i] = x
<1>1. f \in Injection(1 .. n, S)
  BY DEF Injection, IsInjective
<1>2. Cardinality(1 .. n) = n
  BY FS_Interval
<1>3. f \in Surjection(1 .. n, S)
  BY <1>1, <1>2, FS_Injection
<1>. QED  BY <1>3 DEF Surjection

LEMMA ReorderKeeps ==
  ASSUME OutInv, NEW k \in Hands, NEW c \in Chains, reorder_links(k, c)
  PROVE  OutInv'
<1>. DEFINE L == LinksOf(c)
            Given(n) == {f \in [1 .. n -> L] : \A i, j \in 1 .. n : f[i] = f[j] => i = j}
            Begun(ids) == [NoAsk EXCEPT !.op = "reorder", !.pc = "each", !.at = c, !.seq = ids]
<1>1. PICK n \in 1 .. Cardinality(L) : \E ids \in Given(n) :
         /\ Ask(k, Begun(ids))
         /\ jumbled' = IF n # Cardinality(L) \/ Busy(k, c, {"add", "reorder"}) THEN jumbled \union {c} ELSE jumbled
  BY DEF reorder_links
<1>2. PICK ids \in Given(n) :
         /\ Ask(k, Begun(ids))
         /\ jumbled' = IF n # Cardinality(L) \/ Busy(k, c, {"add", "reorder"}) THEN jumbled \union {c} ELSE jumbled
  BY <1>1
<1>. DEFINE a == Begun(ids)
<1>3. UNCHANGED <<chain, link, room, agreed, mixed, paired, holds, engine, untrue>>
  BY DEF reorder_links, sound
<1>4. /\ IsFiniteSet(L) /\ L \subseteq LinkIds /\ Cardinality(L) \in Nat
      /\ \A x \in LinkIds : link[x].at = c <=> x \in L
  BY OutputsAssumption, FS_Subset, FS_CardinalityType DEF LinksOf
<1>5. n \in Nat /\ n >= 1
  BY <1>4
<1>6. ids \in [1 .. n -> L] /\ \A i, j \in 1 .. n : ids[i] = ids[j] => i = j
  OBVIOUS
<1>. HIDE DEF L, Given
<1>7. ids \in Seq(LinkIds) /\ Len(ids) = n
  <2>1. ids \in [1 .. n -> LinkIds]
    BY <1>4, <1>6
  <2>2. ids \in Seq(LinkIds)
    BY <1>5, <2>1, SeqDef
  <2>. QED  BY <1>5, <2>1, <2>2, LenProperties
<1>8. /\ a \in Asks /\ a.op = "reorder" /\ a.pc = "each" /\ a.at = c /\ a.seq = ids /\ a.pos = 0
  BY <1>7, NoAskFacts DEF Asks, Places
<1>9. Ask(k, a)
  BY <1>2
<1>. HIDE DEF a, Begun
<1>10. ShapeOK(a)
  BY <1>5, <1>7, <1>8 DEF ShapeOK
<1>11. ask[k] = NoAsk /\ \E b \in Asks : Turned(k, b) /\ Like(b, a) /\ ShapeOK(b)
  BY <1>8, <1>9, <1>10, InvFacts, AskFacts
<1>12. PICK b \in Asks : Turned(k, b) /\ Like(b, a) /\ ShapeOK(b)
  BY <1>11
<1>13. b.op = "reorder" /\ b.at = c /\ b.seq = ids /\ b.pos = 0
  BY <1>8, <1>12 DEF Like
<1>14. /\ ask'[k] = b
       /\ \A d \in Hands : d # k => Shaken(ask'[d], ask[d])
  BY <1>12, InvFacts, TurnedFacts
<1>15. ChainOK(c, link', jumbled', ask')
  <2>. SUFFICES ASSUME c \notin jumbled'
                PROVE  ChainOK(c, link', jumbled', ask')
    BY DEF ChainOK
  <2>1. n = Cardinality(L) /\ \A d \in Hands \ {k} : ~Placing(ask[d], c)
    BY <1>2 DEF Busy, Placing
  <2>2. \A d \in Hands \ {k} : ~Placing(ask'[d], c)
    BY <1>14, <2>1 DEF Shaken, Like, Placing
  <2>3. \A x \in L : \E i \in 1 .. n : ids[i] = x
    BY <1>4, <1>5, <1>6, <2>1, Listed
  <2>4. Sorting(b, link')
    <3>1. \A x \in LinkIds : link'[x].at = c <=> x \in L
      BY <1>3, <1>4
    <3>. QED  BY <1>6, <1>7, <1>13, <2>3, <3>1 DEF Sorting
  <2>. QED  BY <1>13, <1>14, <2>2, <2>4 DEF ChainOK, Placing, LinkAsk
<1>16. \A e \in Chains : ChainOK(e, link', jumbled', ask')
  <2>1. ask[k].op # "reorder" /\ jumbled \subseteq jumbled'
    BY <1>2, <1>11, NoAskFacts
  <2>. QED  BY <1>3, <1>12, <1>13, <1>15, <2>1, OthersLeft DEF Placing
<1>17. \A g \in Rooms : RoomOK(g, room', agreed', mixed', ask')
  BY <1>3, <1>12, <1>13, RoomsLeft
<1>18. RestTyped /\ AnswerOK(b, link', room', holds')
  BY <1>3, <1>13, InvFacts DEF RestTyped, AnswerOK, Achieved
<1>. QED  BY <1>3, <1>12, <1>16, <1>17, <1>18, InvFacts, StepKeeps

LEMMA ReorderOneKeeps ==
  ASSUME OutInv, NEW k \in Hands, ReorderOne(k)
  PROVE  OutInv'
<1>. DEFINE a == ask[k]
            c == a.at
            n == Len(a.seq)
            x == a.seq[a.pos + 1]
            b == [a EXCEPT !.pos = @ + 1]
<1>1. /\ a.pc = "each" /\ UNCHANGED <<chain, room, agreed, mixed, jumbled, paired, holds, engine, untrue>>
      /\ link' = IF link[x].at = c THEN [link EXCEPT ![x].pos = a.pos] ELSE link
      /\ IF a.pos + 1 = Cardinality(DOMAIN a.seq) THEN Turned(k, NoAsk) ELSE Turned(k, b)
  BY DEF ReorderOne, Reply, Move, sound
<1>2. a \in Asks /\ a.op = "reorder" /\ c \in Chains /\ a.pos < n /\ ShapeOK(a)
  BY <1>1, InvFacts DEF ShapeOK
<1>3. /\ a.pos \in Nat /\ n \in Nat /\ a.seq \in [1 .. n -> LinkIds] /\ DOMAIN a.seq = 1 .. n /\ NoLink.at # c
  BY <1>2, LenProperties, OutputsAssumption DEF Asks, NoLink
<1>4. Cardinality(DOMAIN a.seq) = n
  <2>1. \A i \in Nat : Cardinality(1 .. i) = i
    BY FS_Interval
  <2>. QED  BY <1>3, <2>1
<1>5. a.pos + 1 \in 1 .. n /\ x \in LinkIds
  BY <1>2, <1>3
<1>6. b \in Asks /\ b.op = "reorder" /\ b.pc = a.pc /\ b.at = c /\ b.seq = a.seq /\ b.pos = a.pos + 1
  BY <1>2, <1>3 DEF Asks
<1>. HIDE DEF b
<1>7. /\ link' \in [LinkIds -> Links] /\ \A y \in LinkIds : link'[y].at = link[y].at
      /\ \A y \in LinkIds : y # x => link'[y] = link[y]
      /\ link[x].at = c => link'[x].pos = a.pos
      /\ link[x].at # c => link'[x] = link[x]
  <2>. HIDE DEF a, c, x
  <2>1. CASE link[x].at = c
    <3>1. link[x] \in [at : Chains, pos : Nat, r : Speakers]
      BY <1>3, <1>5, <2>1, InvFacts DEF Links
    <3>2. [link[x] EXCEPT !.pos = a.pos] \in Links /\ [link[x] EXCEPT !.pos = a.pos].at = c /\ [link[x] EXCEPT !.pos = a.pos].pos = a.pos
      BY <1>3, <2>1, <3>1 DEF Links, a
    <3>. QED  BY <1>1, <1>5, <2>1, <3>2, InvFacts DEF a, c, x
  <2>2. CASE link[x].at # c
    BY <1>1, <2>2, InvFacts DEF a, c, x
  <2>. QED  BY <2>1, <2>2
<1>. DEFINE u == IF a.pos + 1 = n THEN NoAsk ELSE b
<1>8. Turned(k, u)
  BY <1>1, <1>4
<1>9. u \in Asks /\ ShapeOK(u) /\ (u.op = "none" \/ Placing(u, c))
  <2>1. CASE a.pos + 1 = n
    BY <2>1, NoAskFacts
  <2>2. CASE a.pos + 1 # n
    <3>1. a.pos + 1 < n
      BY <1>2, <1>3, <2>2
    <3>2. ShapeOK(b)
      BY <1>1, <1>2, <1>6, <3>1 DEF ShapeOK
    <3>. QED  BY <1>6, <2>2, <3>2 DEF Placing
  <2>. QED  BY <2>1, <2>2
<1>. HIDE DEF u
<1>10. /\ ask'[k] = u
       /\ \A d \in Hands : d # k => Shaken(ask'[d], ask[d])
  BY <1>8, <1>9, InvFacts, TurnedFacts
<1>11. ChainOK(c, link', jumbled', ask')
  <2>. SUFFICES ASSUME c \notin jumbled
                PROVE  ChainOK(c, link', jumbled', ask')
    BY <1>1 DEF ChainOK
  <2>1. Sorting(a, link) /\ \A d \in Hands \ {k} : ~Placing(ask[d], c)
    BY <1>2 DEF OutInv, ChainOK, Placing, LinkAsk
  <2>2. \A d \in Hands \ {k} : ~Placing(ask'[d], c)
    BY <1>10, <2>1 DEF Shaken, Like, Placing
  <2>3. /\ \A i, j \in 1 .. n : a.seq[i] = a.seq[j] => i = j
        /\ \A y \in LinkIds : link'[y].at = c => \E i \in 1 .. n : a.seq[i] = y
        /\ \A i \in 1 .. a.pos : link[a.seq[i]].at = c => link[a.seq[i]].pos = i - 1
    BY <1>7, <2>1 DEF Sorting
  <2>4. ASSUME NEW i \in 1 .. a.pos + 1, link'[a.seq[i]].at = c
        PROVE  link'[a.seq[i]].pos = i - 1
    <3>1. i \in 1 .. n /\ a.seq[i] \in LinkIds
      BY <1>2, <1>3
    <3>2. CASE i = a.pos + 1
      BY <1>3, <1>7, <2>4, <3>1, <3>2
    <3>3. CASE i # a.pos + 1
      <4>1. i \in 1 .. a.pos
        BY <1>3, <3>3
      <4>2. a.seq[i] # x
        BY <1>5, <2>3, <3>1, <3>3
      <4>3. link'[a.seq[i]] = link[a.seq[i]]
        BY <1>7, <3>1, <4>2
      <4>. QED  BY <2>3, <2>4, <4>1, <4>3
    <3>. QED  BY <3>2, <3>3
  <2>. HIDE DEF a, c, n, x
  <2>5. CASE a.pos + 1 = n
    <3>1. u.op = "none"
      BY <2>5, NoAskFacts DEF u
    <3>2. ASSUME NEW y \in LinkIds, NEW z \in LinkIds, y # z, link'[y].at = c, link'[z].at = c,
                 link'[y].pos = link'[z].pos
          PROVE  FALSE
      <4>1. PICK i \in 1 .. n : a.seq[i] = y
        BY <2>3, <3>2
      <4>2. PICK j \in 1 .. n : a.seq[j] = z
        BY <2>3, <3>2
      <4>3. link'[y].pos = i - 1 /\ link'[z].pos = j - 1
        BY <2>4, <2>5, <3>2, <4>1, <4>2
      <4>4. i \in Int /\ j \in Int
        BY <1>3
      <4>5. i - 1 = j - 1
        BY <3>2, <4>3
      <4>6. i = j
        BY <4>4, <4>5
      <4>. QED  BY <3>2, <4>1, <4>2, <4>6
    <3>3. ~Twice(link', c)
      BY <3>2 DEF Twice
    <3>. QED  BY <1>10, <2>2, <3>1, <3>3 DEF ChainOK, Placing, LinkAsk
  <2>6. CASE a.pos + 1 # n
    <3>1. u = b
      BY <2>6 DEF u
    <3>2. Sorting(b, link')
      BY <1>6, <2>3, <2>4 DEF Sorting, n
    <3>. QED  BY <1>6, <1>10, <2>2, <3>1, <3>2 DEF ChainOK, Placing, LinkAsk
  <2>. QED  BY <2>5, <2>6
<1>. HIDE DEF a, c, n, x
<1>12. \A e \in Chains : ChainOK(e, link', jumbled', ask')
  <2>1. jumbled \subseteq jumbled' /\ ask[k].at = c /\ \A y \in LinkIds : link'[y].at # c => link'[y] = link[y]
    BY <1>1, <1>7 DEF a, c
  <2>. QED  BY <1>2, <1>8, <1>9, <1>11, <2>1, OthersLeft
<1>13. u.op # "edit" /\ RestTyped /\ AnswerOK(u, link', room', holds')
  BY <1>1, <1>9, InvFacts DEF RestTyped, AnswerOK, Achieved, Placing
<1>14. \A g \in Rooms : RoomOK(g, room', agreed', mixed', ask')
  BY <1>1, <1>8, <1>9, <1>13, RoomsLeft
<1>. QED  BY <1>1, <1>7, <1>8, <1>9, <1>12, <1>13, <1>14, InvFacts, StepKeeps

-----------------------------------------------------------------------------
\* Rooms.

(* A step that changes room g leaves the others alone.                     *)
LEMMA OtherRooms ==
  ASSUME OutInv, NEW k \in Hands, NEW a \in Asks, ShapeOK(a), Turned(k, a), mixed \subseteq mixed',
         NEW g \in Rooms, \A h \in Rooms \ {g} : room'[h] = room[h] /\ agreed'[h] = agreed[h],
         a.op = "edit" => a.at = g, RoomOK(g, room', agreed', mixed', ask')
  PROVE  \A h \in Rooms : RoomOK(h, room', agreed', mixed', ask')
<1>1. /\ ask \in [Hands -> Asks] /\ \A d \in Hands : ShapeOK(ask[d])
  BY DEF OutInv, OutTypes
<1>2. /\ ask' \in [Hands -> Asks] /\ ask'[k] = a
      /\ \A d \in Hands : d # k => Shaken(ask'[d], ask[d]) /\ ShapeOK(ask'[d])
  BY <1>1, TurnedFacts
<1>3. ASSUME NEW h \in Rooms, h # g PROVE RoomOK(h, room', agreed', mixed', ask')
  <2>1. ASSUME NEW d \in Hands
        PROVE  \/ ask'[d].op = ask[d].op /\ ask'[d].at = ask[d].at /\ ask'[d].todo = ask[d].todo /\ ask'[d].new = ask[d].new
               \/ ~Edits(ask'[d], h)
    <3>1. CASE d = k
      BY <1>2, <1>3, <3>1 DEF Edits
    <3>2. CASE d # k
      BY <1>2, <3>2 DEF Shaken, Like
    <3>. QED  BY <3>1, <3>2
  <2>2. RoomOK(h, room, agreed, mixed, ask)
    BY DEF OutInv
  <2>. QED  BY <1>3, <2>1, <2>2, RoomQuiet
<1>. QED  BY <1>3

(* A room that is new or deleted: no edit of it is under way, or it is     *)
(* mixed.                                                                  *)
LEMMA RoomRowKeeps ==
  ASSUME OutInv, NEW k \in Hands, NEW g \in Rooms, NEW entry \in RoomRows, Ask(k, NoAsk),
         room' = [room EXCEPT ![g] = entry], agreed' = [agreed EXCEPT ![g] = room'[g]],
         mixed \subseteq mixed', \A d \in Hands : Edits(ask[d], g) => g \in mixed',
         UNCHANGED <<chain, link, jumbled, paired, holds, engine, untrue>>
  PROVE  OutInv'
<1>1. ask[k] = NoAsk /\ Turned(k, NoAsk)
  BY InvFacts, NoAskFacts DEF Ask, ShapeOK
<1>2. /\ ask'[k] = NoAsk
      /\ \A d \in Hands : d # k => Shaken(ask'[d], ask[d])
  BY <1>1, InvFacts, TurnedFacts, NoAskFacts
<1>3. /\ room' \in [Rooms -> RoomRows] /\ agreed' \in [Rooms -> RoomRows]
      /\ \A h \in Rooms \ {g} : room'[h] = room[h] /\ agreed'[h] = agreed[h]
      /\ agreed'[g] = room'[g]
  <2>1. room'[g] = entry
    BY InvFacts
  <2>. QED  BY <2>1, InvFacts
<1>4. RoomOK(g, room', agreed', mixed', ask')
  <2>1. \A d \in Hands : Edits(ask'[d], g) => g \in mixed'
    BY <1>2, NoAskFacts DEF Edits, Shaken, Like
  <2>. QED  BY <1>3, <2>1 DEF RoomOK
<1>5. \A h \in Rooms : RoomOK(h, room', agreed', mixed', ask')
  BY <1>1, <1>3, <1>4, NoAskFacts, OtherRooms
<1>6. \A c \in Chains : ChainOK(c, link', jumbled', ask')
  BY <1>1, NoAskFacts, InvFacts, LinksLeft
<1>7. RestTyped /\ AnswerOK(NoAsk, link', room', holds')
  BY NoAskFacts, InvFacts DEF RestTyped, AnswerOK, Achieved
<1>. QED  BY <1>1, <1>3, <1>5, <1>6, <1>7, NoAskFacts, InvFacts, StepKeeps

LEMMA CreateRoomKeeps ==
  ASSUME OutInv, NEW k \in Hands, NEW g \in Rooms, NEW m \in Modes, NEW recs \in SUBSET Speakers,
         create_room(k, g, m, recs)
  PROVE  OutInv'
<1>. DEFINE entry == [st |-> "live", mode |-> m, recs |-> recs]
<1>1. /\ room[g].st = "new" /\ Ask(k, NoAsk) /\ room' = [room EXCEPT ![g] = entry]
      /\ agreed' = [agreed EXCEPT ![g] = room'[g]]
      /\ UNCHANGED <<chain, link, mixed, jumbled, paired, holds, engine, untrue>>
  BY DEF create_room, sound
<1>2. entry \in RoomRows
  BY DEF RoomRows
<1>. HIDE DEF entry
<1>3. \A d \in Hands : Edits(ask[d], g) => g \in mixed'
  BY <1>1 DEF OutInv, RoomOK, EditAsk
<1>. QED  BY <1>1, <1>2, <1>3, RoomRowKeeps

LEMMA DeleteRoomKeeps ==
  ASSUME OutInv, NEW k \in Hands, NEW g \in Rooms, delete_room(k, g)
  PROVE  OutInv'
<1>. DEFINE entry == [st |-> "gone", mode |-> "party", recs |-> {}]
<1>1. /\ Ask(k, NoAsk) /\ room' = [room EXCEPT ![g] = entry]
      /\ agreed' = [agreed EXCEPT ![g] = room'[g]]
      /\ mixed' = IF Busy(k, g, {"edit"}) THEN mixed \union {g} ELSE mixed
      /\ UNCHANGED <<chain, link, jumbled, paired, holds, engine, untrue>>
  BY DEF delete_room, sound
<1>2. entry \in RoomRows
  BY DEF RoomRows, Modes
<1>. HIDE DEF entry
<1>3. \A d \in Hands : Edits(ask[d], g) => g \in mixed'
  <2>1. ask[k].op # "edit"
    BY <1>1, InvFacts, NoAskFacts DEF Ask, ShapeOK
  <2>. QED  BY <1>1, <2>1 DEF Busy, Edits
<1>. QED  BY <1>1, <1>2, <1>3, RoomRowKeeps

LEMMA EditRoomKeeps ==
  ASSUME OutInv, NEW k \in Hands, NEW g \in Rooms, NEW given \in SUBSET {"mode", "recs"}, NEW new \in [mode : Modes, recs : SUBSET Speakers],
         edit_room(k, g, given, new)
  PROVE  OutInv'
<1>. DEFINE entry == NewRoom(room[g], given, new)
            a == [NoAsk EXCEPT !.op = "edit", !.pc = "upsert", !.at = g, !.todo = given, !.new = entry]
<1>1. /\ room[g].st = "live" /\ Ask(k, a)
      /\ mixed' = IF Busy(k, g, {"edit"}) THEN mixed \union {g} ELSE mixed
      /\ UNCHANGED <<chain, link, room, agreed, jumbled, paired, holds, engine, untrue>>
  BY DEF edit_room, sound
<1>2. /\ entry \in RoomRows /\ entry.st = "live"
      /\ "mode" \notin given => entry.mode = room[g].mode
      /\ "recs" \notin given => entry.recs = room[g].recs
  BY InvFacts DEF NewRoom, RoomRows
<1>. HIDE DEF entry
<1>3. /\ a \in Asks /\ a.op = "edit" /\ a.pc = "upsert" /\ a.at = g /\ a.todo = given /\ a.new = entry
  BY <1>2, NoAskFacts DEF Asks, Places, Todos
<1>. HIDE DEF a
<1>4. ShapeOK(a)
  BY <1>2, <1>3 DEF ShapeOK
<1>5. ask[k] = NoAsk /\ \E b \in Asks : Turned(k, b) /\ Like(b, a) /\ ShapeOK(b)
  BY <1>1, <1>3, <1>4, InvFacts, AskFacts
<1>6. PICK b \in Asks : Turned(k, b) /\ Like(b, a) /\ ShapeOK(b)
  BY <1>5
<1>7. b.op = "edit" /\ b.at = g /\ b.todo = given /\ b.new = entry
  BY <1>3, <1>6 DEF Like
<1>8. /\ ask'[k] = b
      /\ \A d \in Hands : d # k => Shaken(ask'[d], ask[d])
  BY <1>6, InvFacts, TurnedFacts
<1>9. RoomOK(g, room', agreed', mixed', ask')
  <2>. SUFFICES ASSUME g \notin mixed'
                PROVE  RoomOK(g, room', agreed', mixed', ask')
    BY DEF RoomOK
  <2>1. g \notin mixed /\ \A d \in Hands \ {k} : ~Edits(ask[d], g)
    BY <1>1 DEF Busy, Edits
  <2>2. \A d \in Hands \ {k} : ~Edits(ask'[d], g)
    BY <1>8, <2>1 DEF Edits, Shaken, Like
  <2>3. EditAsk(b, room'[g])
    BY <1>1, <1>2, <1>7 DEF EditAsk
  <2>4. room'[g] = agreed'[g]
    BY <1>1, <2>1 DEF OutInv, RoomOK
  <2>. QED  BY <1>8, <2>2, <2>3, <2>4 DEF RoomOK
<1>10. \A h \in Rooms : RoomOK(h, room', agreed', mixed', ask')
  BY <1>1, <1>6, <1>7, <1>9, OtherRooms
<1>11. \A c \in Chains : ChainOK(c, link', jumbled', ask')
  <2>1. ask[k].op # "reorder"
    BY <1>5, NoAskFacts
  <2>. QED  BY <1>1, <1>6, <1>7, <2>1, InvFacts, LinksLeft
<1>12. RestTyped /\ AnswerOK(b, link', room', holds')
  BY <1>1, <1>7, InvFacts DEF RestTyped, AnswerOK, Achieved
<1>. QED  BY <1>1, <1>6, <1>10, <1>11, <1>12, InvFacts, StepKeeps

Merged(old, new, given) == [f \in DOMAIN old |-> IF f \in given THEN new[f] ELSE old[f]]

(* The row an edit writes over what the answered requests left.            *)
LEMMA WrittenOver ==
  ASSUME NEW old \in RoomRows, NEW new \in RoomRows, NEW given \in SUBSET {"mode", "recs"}
  PROVE  /\ Merged(old, new, given) \in RoomRows
         /\ (/\ old.st = new.st /\ ("mode" \notin given => new.mode = old.mode)
             /\ ("recs" \notin given => new.recs = old.recs)) => Merged(old, new, given) = new
<1>. DEFINE w == [f \in DOMAIN old |-> IF f \in given THEN new[f] ELSE old[f]]
            r(o) == [st |-> o.st, mode |-> o.mode, recs |-> o.recs]
<1>1. old = r(old) /\ new = r(new)
  BY DEF RoomRows
<1>2. DOMAIN old = {"st", "mode", "recs"} /\ DOMAIN new = {"st", "mode", "recs"}
  BY <1>1
<1>3. /\ w.st = old.st
      /\ w.mode = IF "mode" \in given THEN new.mode ELSE old.mode
      /\ w.recs = IF "recs" \in given THEN new.recs ELSE old.recs
  BY <1>2
<1>4. w = r(w)
  BY <1>2
<1>. HIDE DEF w
<1>5. w \in RoomRows
  BY <1>3, <1>4 DEF RoomRows
<1>. QED  BY <1>1, <1>3, <1>4, <1>5 DEF w, Merged

LEMMA SaveRoomKeeps ==
  ASSUME OutInv, NEW k \in Hands, save_room(k)
  PROVE  OutInv'
<1>. DEFINE a == ask[k]
            g == a.at
            w == Merged(agreed[g], a.new, a.todo)
<1>1. /\ a.pc = "upsert" /\ Turned(k, NoAsk)
      /\ room' = [room EXCEPT ![g] = a.new] /\ agreed' = [agreed EXCEPT ![g] = w]
      /\ UNCHANGED <<chain, link, mixed, jumbled, paired, holds, engine, untrue>>
  BY DEF save_room, Reply, Move, sound, Merged
<1>2. a \in Asks /\ a.op = "edit" /\ g \in Rooms /\ a.new \in RoomRows /\ a.todo \subseteq {"mode", "recs"}
  BY <1>1, InvFacts DEF ShapeOK
<1>3. agreed[g] \in RoomRows
  BY <1>2, InvFacts
<1>4. /\ w \in RoomRows
      /\ (/\ agreed[g].st = a.new.st /\ ("mode" \notin a.todo => a.new.mode = agreed[g].mode)
          /\ ("recs" \notin a.todo => a.new.recs = agreed[g].recs)) => w = a.new
  BY <1>2, <1>3, WrittenOver
<1>. HIDE DEF w
<1>5. /\ room' \in [Rooms -> RoomRows] /\ agreed' \in [Rooms -> RoomRows]
      /\ \A h \in Rooms \ {g} : room'[h] = room[h] /\ agreed'[h] = agreed[h]
      /\ agreed'[g] = w /\ room'[g] = a.new
  BY <1>1, <1>2, <1>4, InvFacts
<1>6. /\ ask'[k] = NoAsk
      /\ \A d \in Hands : d # k => Shaken(ask'[d], ask[d])
  BY <1>1, InvFacts, TurnedFacts, NoAskFacts
<1>7. RoomOK(g, room', agreed', mixed', ask')
  <2>. SUFFICES ASSUME g \notin mixed
                PROVE  RoomOK(g, room', agreed', mixed', ask')
    BY <1>1 DEF RoomOK
  <2>1. /\ room[g] = agreed[g] /\ EditAsk(a, room[g]) /\ \A d \in Hands \ {k} : ~Edits(ask[d], g)
    BY <1>2 DEF OutInv, RoomOK, Edits
  <2>2. w = a.new
    BY <1>4, <2>1 DEF EditAsk
  <2>3. \A d \in Hands : ~Edits(ask'[d], g)
    BY <1>6, <2>1, NoAskFacts DEF Edits, Shaken, Like
  <2>. QED  BY <1>5, <2>2, <2>3 DEF RoomOK
<1>8. ask[k].op # "reorder"
  BY <1>2
<1>. HIDE DEF a, g
<1>9. \A h \in Rooms : RoomOK(h, room', agreed', mixed', ask')
  BY <1>1, <1>2, <1>5, <1>7, NoAskFacts, OtherRooms
<1>10. \A c \in Chains : ChainOK(c, link', jumbled', ask')
  BY <1>1, <1>8, NoAskFacts, InvFacts, LinksLeft
<1>11. RestTyped /\ AnswerOK(NoAsk, link', room', holds')
  BY <1>1, NoAskFacts, InvFacts DEF RestTyped, AnswerOK, Achieved
<1>. QED  BY <1>1, <1>5, <1>9, <1>10, <1>11, NoAskFacts, InvFacts, StepKeeps

-----------------------------------------------------------------------------

LEMMA OutInitial ==
  ASSUME OutInit
  PROVE  OutInv
<1>1. ask \in [Hands -> Asks] /\ \A k \in Hands : ask[k] = NoAsk
  BY NoAskFacts DEF OutInit
<1>2. room \in [Rooms -> RoomRows] /\ agreed = room
  BY DEF OutInit, RoomRows, Modes
<1>3. PICK old \in SUBSET Chains :
         /\ chain = [c \in Chains |-> [st |-> IF c \in old THEN "live" ELSE "new", playing |-> FALSE]]
         /\ Linked(old)
  BY DEF OutInit
<1>4. chain \in [Chains -> [st : {"new", "live", "gone"}, playing : BOOLEAN]]
  BY <1>3
<1>5. /\ link \in [LinkIds -> Links]
      /\ \A c \in Chains : ~Twice(link, c)
  <2>1. CASE link = [x \in LinkIds |-> NoLink]
    <3>1. \A c \in Chains : NoLink.at # c
      BY OutputsAssumption DEF NoLink
    <3>. QED  BY <2>1, <3>1 DEF Links, Twice
  <2>2. CASE link # [x \in LinkIds |-> NoLink]
    <3>1. PICK c \in old, who \in [LinkIds -> Speakers], f \in Orders :
            link = [x \in LinkIds |-> [at |-> c, pos |-> f[x], r |-> who[x]]]
      BY <1>3, <2>2 DEF Linked
    <3>2. \A x \in LinkIds : c \in Chains /\ f[x] \in Nat /\ who[x] \in Speakers
      BY <1>3 DEF Orders
    <3>3. \A x, y \in LinkIds : f[x] = f[y] => x = y
      BY DEF Orders
    <3>4. \A x \in LinkIds : link[x] = [at |-> c, pos |-> f[x], r |-> who[x]]
      BY <3>1
    <3>5. \A x \in LinkIds : link[x] \in Links /\ link[x].pos = f[x]
      <4>1. ASSUME NEW x \in LinkIds
            PROVE  [at |-> c, pos |-> f[x], r |-> who[x]] \in Links /\ [at |-> c, pos |-> f[x], r |-> who[x]].pos = f[x]
        BY <3>2 DEF Links
      <4>2. ASSUME NEW x \in LinkIds PROVE link[x] \in Links /\ link[x].pos = f[x]
        BY <3>4, <4>1
      <4>. QED  BY <4>2
    <3>6. link \in [LinkIds -> Links]
      BY <3>1, <3>5
    <3>7. \A d \in Chains : ~Twice(link, d)
      BY <3>3, <3>5 DEF Twice
    <3>. QED  BY <3>6, <3>7
  <2>. QED  BY <2>1, <2>2
<1>6. OutTypes
  BY <1>1, <1>2, <1>4, <1>5 DEF OutTypes, OutInit
<1>7. ASSUME NEW k \in Hands PROVE ShapeOK(ask[k]) /\ AnswerOK(ask[k], link, room, holds)
  BY <1>1, NoAskFacts DEF AnswerOK, Achieved
<1>8. ASSUME NEW c \in Chains PROVE ChainOK(c, link, jumbled, ask)
  BY <1>1, <1>5, NoAskFacts DEF ChainOK, Placing, LinkAsk
<1>9. ASSUME NEW g \in Rooms PROVE RoomOK(g, room, agreed, mixed, ask)
  BY <1>1, <1>2, NoAskFacts DEF RoomOK, Edits
<1>. QED  BY <1>6, <1>7, <1>8, <1>9 DEF OutInv, OutInit

LEMMA OutInductive ==
  ASSUME OutInv, [OutNext]_outVars
  PROVE  OutInv'
<1>1. ASSUME NEW k \in Hands,
             \/ DeleteRow(k) \/ InsertLink(k) \/ ReorderOne(k) \/ save_room(k) \/ resolve_output(k)
             \/ EnginePlays(k) \/ Select(k) \/ Flag(k) \/ get_chain_links(k) \/ StopOne(k) \/ StopEnds(k)
             \/ StartOne(k) \/ StartEnds(k) \/ Drop(k)
      PROVE  OutInv'
  BY <1>1, DeleteRowKeeps, InsertKeeps, ReorderOneKeeps, SaveRoomKeeps, ResolveKeeps,
     EngineKeeps, SelectKeeps, FlagKeeps, GetLinksKeeps, StopOneKeeps, StopEndsKeeps, StartOneKeeps,
     StartEndsKeeps, DropKeeps
<1>2. ASSUME NEW k \in Hands, NEW c \in Chains,
             \/ create_chain(k, c) \/ delete_chain(k, c) \/ reorder_links(k, c) \/ stop_chain(k, c)
             \/ \E r \in Speakers : add_link(k, c, r)
             \/ \E b \in BOOLEAN : update_chain(k, c, b)
      PROVE  OutInv'
  BY <1>2, ChainRowKeeps, DeleteChainKeeps, ReorderKeeps, StopChainKeeps, AddKeeps
<1>3. ASSUME NEW k \in Hands, NEW x \in LinkIds, delete_link(k, x) \/ \E p \in 0 .. 1 : update_link(k, x, p)
      PROVE  OutInv'
  <2>1. 0 .. 1 \subseteq Nat
    OBVIOUS
  <2>. QED  BY <1>3, <2>1, DeleteLinkKeeps, UpdateLinkKeeps
<1>4. ASSUME NEW k \in Hands, NEW o \in Chains \union Rooms, play_output(k, o)
      PROVE  OutInv'
  BY <1>4, PlayOutputKeeps
<1>5. ASSUME NEW k \in Hands, NEW g \in Rooms,
             \/ delete_room(k, g) \/ activate_room(k, g) \/ deactivate_room(k, g)
             \/ \E m \in Modes, recs \in SUBSET Speakers : create_room(k, g, m, recs)
             \/ \E m \in Modes : edit_room(k, g, {"mode"}, [mode |-> m, recs |-> {}])
             \/ \E recs \in SUBSET Speakers : edit_room(k, g, {"recs"}, [mode |-> "party", recs |-> recs])
      PROVE  OutInv'
  <2>1. ASSUME NEW m \in Modes, edit_room(k, g, {"mode"}, [mode |-> m, recs |-> {}])
        PROVE  OutInv'
    <3>1. [mode |-> m, recs |-> {}] \in [mode : Modes, recs : SUBSET Speakers]
      OBVIOUS
    <3>2. {"mode"} \in SUBSET {"mode", "recs"}
      OBVIOUS
    <3>. QED  BY <2>1, <3>1, <3>2, EditRoomKeeps
  <2>2. ASSUME NEW recs \in SUBSET Speakers, edit_room(k, g, {"recs"}, [mode |-> "party", recs |-> recs])
        PROVE  OutInv'
    <3>1. [mode |-> "party", recs |-> recs] \in [mode : Modes, recs : SUBSET Speakers]
      BY DEF Modes
    <3>2. {"recs"} \in SUBSET {"mode", "recs"}
      OBVIOUS
    <3>. QED  BY <2>2, <3>1, <3>2, EditRoomKeeps
  <2>. QED  BY <1>5, <2>1, <2>2, DeleteRoomKeeps, ActivateKeeps, DeactivateKeeps, CreateRoomKeeps
<1>6. ASSUME NEW r \in Speakers, SinkOpens(r) \/ SessionLost(r) \/ Revoked(r) \/ Paired(r)
      PROVE  OutInv'
  BY <1>6, SpeakerKeeps
<1>7. ASSUME UNCHANGED outVars
      PROVE  OutInv'
  BY <1>7 DEF outVars, OutInv, OutTypes, ChainOK, RoomOK, Twice
<1>. QED  BY <1>1, <1>2, <1>3, <1>4, <1>5, <1>6, <1>7 DEF OutNext

(* The sets of receivers a client plays to are as the invariant says in    *)
(* every state.                                                            *)
THEOREM OutputsInvariant == OutSpec => []OutInv
<1>1. OutInit => OutInv
  BY OutInitial
<1>2. OutInv /\ [OutNext]_outVars => OutInv'
  BY OutInductive
<1>. QED  BY <1>1, <1>2, PTL DEF OutSpec

(* Links of a chain keep distinct positions, a room is what its answered   *)
(* edits say, and an undisturbed answer about receivers is true of them.   *)
THEOREM OutputsAreTrue == OutSpec => []OutputsAgree
<1>1. OutInv => OutputsAgree
  BY DEF OutInv, OutputsAgree, PositionsDistinct, RoomEditsStand, AnswersHold, ChainOK, RoomOK
<1>. QED  BY <1>1, OutputsInvariant, PTL

-----------------------------------------------------------------------------
(***************************************************************************)
(* Accounts                                                                *)
(***************************************************************************)
\* The inductive invariant.

UserRows == [name : Names, pw : Passwords, admin : BOOLEAN, managed : BOOLEAN]
Calls == [pc : {"idle", "row", "create", "fill", "logout", "forget", "clear"},
          user : UserIds \union {Nobody}, name : Names \union {Nobody},
          pw : Passwords \union {Nobody}, tok : Nat]

AccTypes ==
  /\ users \in [UserIds -> UserRows \union {Nobody}]
  /\ conf \in [name : Names, pw : Passwords] \union {Nobody}
  /\ rows \in [AuthTokens -> UserIds \union {Nobody}]
  /\ cache \subseteq 1..ntok /\ out \subseteq 1..ntok
  /\ call \in [Callers -> Calls]
  /\ ntok \in Nat /\ ntok <= MaxTokens
  /\ signed \in [AuthTokens -> [name : Names, pw : Passwords] \union {Nobody}]

\* What a request knows at each stage.
CallOK(c) ==
  LET r == call[c]
  IN /\ r.pc \in {"fill", "logout", "forget"} => r.tok \in 1..ntok
     /\ r.pc = "create" => r.name \in Names /\ r.pw \in Passwords
     /\ r.pc = "row" => /\ r.user \in Known
                        /\ r.name = users[r.user].name /\ r.pw = users[r.user].pw
     /\ r.pc = "forget" => rows[r.tok] = Nobody

\* A token that was ended is in neither table and on nobody's way to the cache.
EndedOK ==
  \A t \in out \ overlap :
    /\ t \notin cache /\ rows[t] = Nobody
    /\ \A c \in Callers : ~(call[c].pc = "fill" /\ call[c].tok = t)

\* At most one account is managed, and while the server runs one is, by its environment.
ManagedOK ==
  /\ \A u, v \in Managed : u = v
  /\ Up => \E u \in Managed : users[u] = Row(conf.name, conf.pw, TRUE, TRUE)

\* A session row names an account that exists and the credentials it has.
SessionsOK ==
  /\ \A t \in AuthTokens : rows[t] # Nobody => rows[t] \in Known /\ t <= ntok
  /\ SessionsFollowCredentials

AccInv == AccTypes /\ EndedOK /\ ManagedOK /\ SessionsOK /\ \A c \in Callers : CallOK(c)

---------------------------------------------------------------------------
\* The invariant holds initially.

\* AccInit: the accounts of an older database, none managed, and no session.
LEMMA AccInitial == AccInit => AccInv
  <1> SUFFICES ASSUME AccInit PROVE AccInv
    OBVIOUS
  <1>1. /\ users = [u \in UserIds |-> users[u]]
        /\ \A u \in UserIds : users[u] = Nobody \/ (users[u] \in UserRows /\ ~users[u].managed)
    <2>1. users = [u \in UserIds |-> users[u]]
      BY DEF AccInit
    <2>2. \A u \in UserIds : users[u] \in {Nobody} \union OldRows
      BY DEF AccInit
    <2>3. ASSUME NEW x \in OldRows PROVE x \in UserRows /\ ~x.managed
      BY DEF OldRows, UserRows
    <2> QED
      BY <2>1, <2>2, <2>3
  <1>2. AccTypes
    <2>1. \A u \in UserIds : users[u] \in UserRows \union {Nobody}
      BY <1>1
    <2>2. users \in [UserIds -> UserRows \union {Nobody}]
      BY <1>1, <2>1
    <2>3. NoCall \in Calls
      BY DEF NoCall, Calls
    <2> QED
      BY <2>2, <2>3, AccountAssumption DEF AccInit, AccTypes, AuthTokens
  <1>4. ManagedOK
    BY <1>1 DEF ManagedOK, Managed, Known, Up, AccInit
  <1>5. EndedOK /\ SessionsOK
    BY DEF AccInit, EndedOK, SessionsOK, SessionsFollowCredentials
  <1>6. ASSUME NEW c \in Callers PROVE CallOK(c)
    BY DEF AccInit, CallOK, NoCall
  <1> QED
    BY <1>2, <1>4, <1>5, <1>6 DEF AccInv

---------------------------------------------------------------------------
\* What steps have in common.

\* The records requests start from.
LEMMA NoCallTyped ==
  /\ NoCall \in Calls
  /\ NoCall.pc = "idle" /\ NoCall.user = Nobody /\ NoCall.name = Nobody /\ NoCall.pw = Nobody /\ NoCall.tok = 0
  BY DEF NoCall, Calls

\* A step that leaves the table of users alone leaves the managed account alone.
LEMMA UsersKept ==
  ASSUME ManagedOK, UNCHANGED <<users, conf>>
  PROVE  ManagedOK' /\ Known' = Known
  BY DEF ManagedOK, Managed, Known, Up

\* A step that drops rows, or none.
LEMMA RowsDropped ==
  ASSUME AccTypes, NEW ts, Dropped(ts)
  PROVE  /\ rows' \in [AuthTokens -> UserIds \union {Nobody}]
         /\ \A t \in AuthTokens : rows'[t] = rows[t] \/ rows'[t] = Nobody
         /\ \A t \in AuthTokens : t \in ts => rows'[t] = Nobody
  BY DEF Dropped, AccTypes

\* Sessions may end at any time.
LEMMA SessionsShrink ==
  ASSUME SessionsOK, UNCHANGED <<users, signed, ntok>>,
         \A t \in AuthTokens : rows'[t] = rows[t] \/ rows'[t] = Nobody
  PROVE  SessionsOK'
  BY DEF SessionsOK, SessionsFollowCredentials, Known

\* A token number that was given out names a row.
LEMMA TokensNamed == ASSUME AccTypes, NEW t \in 1..ntok PROVE t \in AuthTokens
  BY AccountAssumption DEF AccTypes, AuthTokens

\* One request moves, the others wait: what they know survives while users stay and rows
\* only go.
LEMMA OthersWait ==
  ASSUME AccInv, NEW c \in Callers, NEW r \in Calls, call' = [call EXCEPT ![c] = r],
         UNCHANGED users, ntok' \in Nat, ntok <= ntok',
         \A t \in 1..ntok : rows'[t] = rows[t] \/ rows'[t] = Nobody
  PROVE  /\ call' \in [Callers -> Calls] /\ call'[c] = r
         /\ \A d \in Callers \ {c} : call'[d] = call[d] /\ CallOK(d)'
  <1>1. /\ call' \in [Callers -> Calls] /\ call'[c] = r
        /\ \A d \in Callers \ {c} : call'[d] = call[d]
    BY DEF AccInv, AccTypes
  <1>2. ASSUME NEW d \in Callers \ {c} PROVE CallOK(d)'
    <2>1. CallOK(d) /\ call'[d] = call[d] /\ Known' = Known
      BY <1>1 DEF AccInv, Known
    <2>2. ntok \in Nat /\ 1..ntok \subseteq 1..ntok'
      BY DEF AccInv, AccTypes
    <2> QED
      BY <2>1, <2>2 DEF CallOK
  <1> QED
    BY <1>1, <1>2

\* No row of the table of users is the absent one.
LEMMA NobodyIsNoRow == Nobody \notin UserRows
  BY AccountAssumption DEF UserRows

---------------------------------------------------------------------------
\* Each request keeps the invariant.

\* Only the request moves, and not towards the cache.
LEMMA CallMoves ==
  ASSUME AccInv, NEW c \in Callers, NEW r \in Calls, call' = [call EXCEPT ![c] = r],
         UNCHANGED <<users, conf, rows, cache, ntok, signed, out, overlap>>,
         r.pc = "fill" => r.tok \in AuthTokens /\ rows[r.tok] # Nobody,
         CallOK(c)'
  PROVE  AccInv'
  <1>1. /\ call' \in [Callers -> Calls] /\ call'[c] = r
        /\ \A d \in Callers \ {c} : call'[d] = call[d] /\ CallOK(d)'
    <2>1. ntok' \in Nat /\ ntok <= ntok' /\ \A t \in 1..ntok : rows'[t] = rows[t]
      BY DEF AccInv, AccTypes
    <2> QED
      BY <2>1, OthersWait
  <1>2. AccTypes'
    BY <1>1 DEF AccInv, AccTypes
  <1>3. EndedOK'
    BY <1>1 DEF AccInv, EndedOK
  <1>4. ManagedOK' /\ SessionsOK'
    BY UsersKept, SessionsShrink DEF AccInv
  <1> QED
    BY <1>1, <1>2, <1>3, <1>4 DEF AccInv

\* login_handler found the account: it keeps its name and password until the row.
LEMMA LoginKeep == ASSUME AccInv, NEW c \in Callers, login(c) PROVE AccInv'
  <1>1. PICK u \in Known : call' = [call EXCEPT ![c] = [NoCall EXCEPT !.pc = "row", !.user = u,
                                                 !.name = users[u].name, !.pw = users[u].pw]]
    BY DEF login, Step
  <1> DEFINE r == [NoCall EXCEPT !.pc = "row", !.user = u, !.name = users[u].name, !.pw = users[u].pw]
  <1>2. u \in UserIds /\ users[u] \in UserRows
    BY DEF Known, AccInv, AccTypes
  <1>3. users[u].name \in Names /\ users[u].pw \in Passwords
    BY <1>2 DEF UserRows
  <1>4. r \in Calls /\ r.pc = "row" /\ r.user = u /\ r.name = users[u].name /\ r.pw = users[u].pw
    BY <1>2, <1>3 DEF NoCall, Calls
  <1>5. UNCHANGED <<users, conf, rows, cache, ntok, signed, out, overlap>>
    BY DEF login
  <1>6. call' = [call EXCEPT ![c] = r]
    BY <1>1
  <1> HIDE DEF r
  <1>7. call'[c] = r
    BY <1>6 DEF AccInv, AccTypes
  <1>8. CallOK(c)'
    BY <1>4, <1>5, <1>7 DEF CallOK, Known
  <1>9. r.pc # "fill"
    BY <1>4
  <1> QED
    BY <1>4, <1>5, <1>6, <1>8, <1>9, CallMoves

\* register_handler found the name free.
LEMMA RegisterKeep == ASSUME AccInv, NEW c \in Callers, register(c) PROVE AccInv'
  <1>1. PICK n \in Names, p \in Passwords :
          call' = [call EXCEPT ![c] = [NoCall EXCEPT !.pc = "create", !.name = n, !.pw = p]]
    BY DEF register, Step
  <1> DEFINE r == [NoCall EXCEPT !.pc = "create", !.name = n, !.pw = p]
  <1>2. r \in Calls /\ r.pc = "create" /\ r.name = n /\ r.pw = p
    BY DEF NoCall, Calls
  <1>3. UNCHANGED <<users, conf, rows, cache, ntok, signed, out, overlap>>
    BY DEF register
  <1>4. call' = [call EXCEPT ![c] = r]
    BY <1>1
  <1> HIDE DEF r
  <1>5. call'[c] = r
    BY <1>4 DEF AccInv, AccTypes
  <1>6. CallOK(c)' /\ r.pc # "fill"
    BY <1>2, <1>5 DEF CallOK
  <1> QED
    BY <1>2, <1>3, <1>4, <1>6, CallMoves

\* logout: the token is one that was given out.
LEMMA LogoutKeep == ASSUME AccInv, NEW c \in Callers, logout(c) PROVE AccInv'
  <1>1. PICK t \in 1..ntok : call' = [call EXCEPT ![c] = [NoCall EXCEPT !.pc = "logout", !.tok = t]]
    BY DEF logout, Step
  <1> DEFINE r == [NoCall EXCEPT !.pc = "logout", !.tok = t]
  <1>2. r \in Calls /\ r.pc = "logout" /\ r.tok = t
    <2>1. t \in Nat
      BY DEF AccInv, AccTypes
    <2> QED
      BY <2>1 DEF NoCall, Calls
  <1>3. UNCHANGED <<users, conf, rows, cache, ntok, signed, out, overlap>>
    BY DEF logout
  <1>4. call' = [call EXCEPT ![c] = r]
    BY <1>1
  <1> HIDE DEF r
  <1>5. call'[c] = r
    BY <1>4 DEF AccInv, AccTypes
  <1>6. CallOK(c)' /\ r.pc # "fill"
    BY <1>2, <1>3, <1>5 DEF CallOK
  <1> QED
    BY <1>2, <1>3, <1>4, <1>6, CallMoves

\* A validation reads a row that is there: the token was not ended.
LEMMA ExtractKeep ==
  ASSUME AccInv, NEW c \in Callers, NEW t \in AuthTokens, extract_user_id(c, t)
  PROVE  AccInv'
  <1> DEFINE r == [NoCall EXCEPT !.pc = "fill", !.user = rows[t], !.tok = t]
  <1>1. call' = [call EXCEPT ![c] = r] /\ rows[t] # Nobody
    BY DEF extract_user_id, Step, get_auth_session
  <1>2. rows[t] \in UserIds \union {Nobody} /\ t \in Nat /\ t \in 1..ntok
    BY <1>1, AccountAssumption DEF AccInv, AccTypes, SessionsOK, AuthTokens
  <1>3. r \in Calls /\ r.pc = "fill" /\ r.tok = t
    BY <1>2 DEF NoCall, Calls
  <1>4. UNCHANGED <<users, conf, rows, cache, ntok, signed, out, overlap>>
    BY DEF extract_user_id
  <1> HIDE DEF r
  <1>5. call'[c] = r
    BY <1>1 DEF AccInv, AccTypes
  <1>6. CallOK(c)'
    BY <1>2, <1>3, <1>4, <1>5 DEF CallOK
  <1> QED
    BY <1>1, <1>3, <1>4, <1>6, CallMoves

\* A client that goes away leaves nothing behind.
LEMMA VanishKeep == ASSUME AccInv, NEW c \in Callers, ClientVanishes(c) PROVE AccInv'
  <1>1. call' = [call EXCEPT ![c] = NoCall]
    BY DEF ClientVanishes, Ends, Step
  <1>2. UNCHANGED <<users, conf, rows, cache, ntok, signed, out, overlap>>
    BY DEF ClientVanishes
  <1>3. call'[c] = NoCall
    BY <1>1 DEF AccInv, AccTypes
  <1>4. CallOK(c)' /\ NoCall.pc # "fill"
    BY <1>3, NoCallTyped DEF CallOK
  <1> QED
    BY <1>1, <1>2, <1>4, NoCallTyped, CallMoves

\* create_user: the row of a new account takes nobody's place and is not managed.
LEMMA CreateUserKeep == ASSUME AccInv, NEW c \in Callers, create_user(c) PROVE AccInv'
  <1> DEFINE r == call[c]
  <1>1. r.pc = "create" /\ r \in Calls /\ r.name \in Names /\ r.pw \in Passwords
    BY DEF create_user, AccInv, AccTypes, CallOK
  <1>2. UNCHANGED <<conf, rows, cache, ntok, signed, out, overlap>>
    BY DEF create_user
  <1>3. CASE UNCHANGED users /\ Ends(c)
    <2>1. call' = [call EXCEPT ![c] = NoCall]
      BY <1>3 DEF Ends, Step
    <2>2. call'[c] = NoCall
      BY <2>1 DEF AccInv, AccTypes
    <2>3. CallOK(c)' /\ NoCall.pc # "fill"
      BY <2>2, NoCallTyped DEF CallOK
    <2> QED
      BY <1>2, <1>3, <2>1, <2>3, NoCallTyped, CallMoves
  <1>4. ASSUME NEW u \in UserIds \ Known,
               users' = [users EXCEPT ![u] = Row(r.name, r.pw, FALSE, FALSE)],
               Step(c, [r EXCEPT !.pc = "row", !.user = u])
        PROVE  AccInv'
    <2> DEFINE new == Row(r.name, r.pw, FALSE, FALSE)
               q == [r EXCEPT !.pc = "row", !.user = u]
    <2>1. new \in UserRows /\ new.name = r.name /\ new.pw = r.pw /\ new.managed = FALSE /\ new # Nobody
      <3>1. new \in UserRows
        BY <1>1 DEF Row, UserRows
      <3>2. new.name = r.name /\ new.pw = r.pw /\ new.managed = FALSE
        BY DEF Row
      <3> QED
        BY <3>1, <3>2, NobodyIsNoRow
    <2>2. q \in Calls /\ q.pc = "row" /\ q.user = u /\ q.name = r.name /\ q.pw = r.pw
      BY <1>1 DEF Calls
    <2>3. /\ call' \in [Callers -> Calls] /\ call'[c] = q
          /\ \A d \in Callers \ {c} : call'[d] = call[d]
      BY <1>4, <2>2 DEF Step, AccInv, AccTypes
    <2>4. /\ users' \in [UserIds -> UserRows \union {Nobody}] /\ users'[u] = new
          /\ \A v \in UserIds \ {u} : users'[v] = users[v]
      BY <1>4, <2>1 DEF AccInv, AccTypes
    <2> HIDE DEF new, q, r
    <2>5. Known' = Known \union {u} /\ \A v \in Known : users'[v] = users[v]
      BY <2>1, <2>4 DEF Known
    <2>6. AccTypes'
      BY <1>2, <2>3, <2>4 DEF AccInv, AccTypes
    <2>7. EndedOK'
      BY <1>2, <2>2, <2>3 DEF AccInv, EndedOK
    <2>8. ManagedOK'
      <3>1. Managed' = Managed
        BY <2>1, <2>4, <2>5 DEF Managed
      <3>2. \A v \in Managed : users'[v] = users[v]
        BY <2>5 DEF Managed
      <3> QED
        BY <1>2, <3>1, <3>2 DEF AccInv, ManagedOK, Up
    <2>9. SessionsOK'
      BY <1>2, <2>5 DEF AccInv, SessionsOK, SessionsFollowCredentials
    <2>10. ASSUME NEW d \in Callers PROVE CallOK(d)'
      <3>1. CASE d = c
        BY <3>1, <2>1, <2>2, <2>3, <2>4, <2>5 DEF CallOK
      <3>2. CASE d # c
        <4>1. call'[d] = call[d] /\ CallOK(d)
          BY <3>2, <2>3 DEF AccInv
        <4> QED
          BY <4>1, <1>2, <2>5 DEF CallOK
      <3> QED
        BY <3>1, <3>2
    <2> QED
      BY <2>6, <2>7, <2>8, <2>9, <2>10 DEF AccInv
  <1> QED
    BY <1>3, <1>4 DEF create_user

\* create_session: a token nobody had, signed with the credentials the account has.
LEMMA CreateSessionKeep == ASSUME AccInv, NEW c \in Callers, create_auth_session(c) PROVE AccInv'
  <1> DEFINE r == call[c]
             t == ntok + 1
             q == [r EXCEPT !.pc = "fill", !.tok = t]
  <1>1. /\ r.pc = "row" /\ ntok < MaxTokens /\ ntok' = t
        /\ rows' = [rows EXCEPT ![t] = r.user]
        /\ signed' = [signed EXCEPT ![t] = [name |-> r.name, pw |-> r.pw]]
        /\ call' = [call EXCEPT ![c] = q]
        /\ UNCHANGED <<users, conf, cache, out, overlap>>
    BY DEF create_auth_session, InsertSession, Step
  <1>2. /\ ntok \in Nat /\ t \in AuthTokens /\ t \notin 1..ntok /\ t \in Nat /\ ntok <= t
        /\ 1..ntok \subseteq 1..t /\ t \in 1..t /\ t <= MaxTokens
    BY <1>1, AccountAssumption DEF AccInv, AccTypes, AuthTokens
  <1>3. /\ r \in Calls /\ r.user \in Known /\ r.user \in UserIds /\ users[r.user] \in UserRows
        /\ r.name = users[r.user].name /\ r.pw = users[r.user].pw
    BY <1>1 DEF AccInv, AccTypes, CallOK, Known
  <1>4. q \in Calls /\ q.pc = "fill" /\ q.tok = t
    BY <1>2, <1>3 DEF Calls
  <1> HIDE DEF q
  <1>5. /\ rows'[t] = r.user /\ rows' \in [AuthTokens -> UserIds \union {Nobody}]
        /\ \A k \in AuthTokens \ {t} : rows'[k] = rows[k]
    BY <1>1, <1>2, <1>3 DEF AccInv, AccTypes
  <1>6. r.name \in Names /\ r.pw \in Passwords
    BY <1>3 DEF UserRows
  <1>7. /\ signed'[t] = [name |-> r.name, pw |-> r.pw]
        /\ signed' \in [AuthTokens -> [name : Names, pw : Passwords] \union {Nobody}]
        /\ \A k \in AuthTokens \ {t} : signed'[k] = signed[k]
    BY <1>1, <1>2, <1>6 DEF AccInv, AccTypes
  <1>8. \A k \in 1..ntok : k \in AuthTokens /\ k # t
    BY <1>2, TokensNamed DEF AccInv
  <1>9. /\ call' \in [Callers -> Calls] /\ call'[c] = q
        /\ \A d \in Callers \ {c} : call'[d] = call[d] /\ CallOK(d)'
    <2>1. \A k \in 1..ntok : rows'[k] = rows[k]
      BY <1>5, <1>8
    <2> QED
      BY <2>1, <1>1, <1>2, <1>4, OthersWait
  <1> HIDE DEF r, t
  <1>10. AccTypes'
    BY <1>1, <1>2, <1>5, <1>7, <1>9 DEF AccInv, AccTypes
  <1>11. EndedOK'
    <2>1. out \subseteq 1..ntok
      BY DEF AccInv, AccTypes
    <2> QED
      BY <2>1, <1>1, <1>4, <1>5, <1>8, <1>9 DEF AccInv, EndedOK
  <1>12. ManagedOK' /\ Known' = Known
    BY <1>1, UsersKept DEF AccInv
  <1>13. SessionsOK'
    <2> SUFFICES ASSUME NEW k \in AuthTokens, rows'[k] # Nobody
                 PROVE  /\ rows'[k] \in Known /\ k <= ntok'
                        /\ signed'[k] = [name |-> users[rows'[k]].name, pw |-> users[rows'[k]].pw]
      BY <1>1, <1>12 DEF SessionsOK, SessionsFollowCredentials
    <2>1. CASE k = t
      BY <2>1, <1>1, <1>2, <1>3, <1>5, <1>7
    <2>2. CASE k # t
      <3>1. rows'[k] = rows[k] /\ signed'[k] = signed[k]
        BY <2>2, <1>5, <1>7
      <3>2. rows[k] \in Known /\ k <= ntok /\ k \in Nat
        BY <3>1, AccountAssumption DEF AccInv, SessionsOK, AuthTokens
      <3>3. signed[k] = [name |-> users[rows[k]].name, pw |-> users[rows[k]].pw]
        BY <3>1 DEF AccInv, SessionsOK, SessionsFollowCredentials
      <3>4. k <= ntok'
        BY <3>2, <1>1, <1>2
      <3> QED
        BY <3>1, <3>2, <3>3, <3>4
    <2> QED
      BY <2>1, <2>2
  <1>14. CallOK(c)'
    BY <1>1, <1>2, <1>4, <1>9 DEF CallOK
  <1> QED
    BY <1>9, <1>10, <1>11, <1>12, <1>13, <1>14 DEF AccInv

\* The token that reaches the cache was not ended, or its way there overlapped its end.
LEMMA FillKeep == ASSUME AccInv, NEW c \in Callers, FillCache(c) PROVE AccInv'
  <1>1. /\ call[c].pc = "fill" /\ cache' = cache \union {call[c].tok}
        /\ call' = [call EXCEPT ![c] = NoCall]
        /\ UNCHANGED <<users, conf, rows, ntok, signed, out, overlap>>
    BY DEF FillCache, Ends, Step
  <1>2. call[c].tok \in 1..ntok
    BY <1>1 DEF AccInv, CallOK
  <1>3. /\ call' \in [Callers -> Calls] /\ call'[c] = NoCall
        /\ \A d \in Callers \ {c} : call'[d] = call[d] /\ CallOK(d)'
    <2>1. ntok' \in Nat /\ ntok <= ntok' /\ \A t \in 1..ntok : rows'[t] = rows[t]
      BY <1>1 DEF AccInv, AccTypes
    <2> QED
      BY <1>1, <2>1, OthersWait, NoCallTyped
  <1>4. AccTypes'
    BY <1>1, <1>2, <1>3 DEF AccInv, AccTypes
  <1>5. EndedOK'
    BY <1>1, <1>3, NoCallTyped DEF AccInv, EndedOK
  <1>6. ManagedOK' /\ SessionsOK'
    BY <1>1, UsersKept, SessionsShrink DEF AccInv
  <1>7. CallOK(c)'
    BY <1>3, NoCallTyped DEF CallOK
  <1> QED
    BY <1>3, <1>4, <1>5, <1>6, <1>7 DEF AccInv

\* AuthState::invalidate: with the row gone first, nobody can bring the token back after
\* the cache has dropped it, except who had read the row before.
LEMMA InvalidateKeep == ASSUME AccInv, NEW c \in Callers, invalidate(c) PROVE AccInv'
  <1> DEFINE r == call[c]
  <1>1. UNCHANGED <<users, conf, ntok, signed>>
    BY DEF invalidate
  <1>2. r \in Calls
    BY DEF AccInv, AccTypes
  <1>3. CASE /\ r.pc = "logout" /\ Dropped({r.tok}) /\ UNCHANGED cache
             /\ Step(c, [r EXCEPT !.pc = "forget"])
    <2> DEFINE q == [r EXCEPT !.pc = "forget"]
    <2>1. q \in Calls /\ q.pc = "forget" /\ q.tok = r.tok
      BY <1>2 DEF Calls
    <2>2. r.tok \in 1..ntok /\ r.tok \in AuthTokens
      BY <1>3, TokensNamed DEF AccInv, CallOK
    <2>3. /\ rows' \in [AuthTokens -> UserIds \union {Nobody}]
          /\ \A t \in AuthTokens : rows'[t] = rows[t] \/ rows'[t] = Nobody
          /\ rows'[r.tok] = Nobody
      BY <1>3, <2>2, RowsDropped DEF AccInv
    <2>4. UNCHANGED <<out, overlap>>
      BY <1>3 DEF invalidate
    <2> HIDE DEF q
    <2>5. /\ call' \in [Callers -> Calls] /\ call'[c] = q
          /\ \A d \in Callers \ {c} : call'[d] = call[d] /\ CallOK(d)'
      <3>1. /\ ntok' \in Nat /\ ntok <= ntok'
            /\ \A t \in 1..ntok : rows'[t] = rows[t] \/ rows'[t] = Nobody
        BY <1>1, <2>3, TokensNamed DEF AccInv, AccTypes
      <3>2. call' = [call EXCEPT ![c] = q]
        BY <1>3 DEF Step, q
      <3> QED
        BY <1>1, <2>1, <3>1, <3>2, OthersWait
    <2>6. AccTypes'
      BY <1>1, <1>3, <2>3, <2>4, <2>5 DEF AccInv, AccTypes
    <2>7. EndedOK'
      <3>1. out \subseteq AuthTokens
        BY TokensNamed DEF AccInv, AccTypes
      <3> QED
        BY <1>3, <2>1, <2>3, <2>4, <2>5, <3>1 DEF AccInv, EndedOK
    <2>8. ManagedOK' /\ SessionsOK'
      BY <1>1, <2>3, UsersKept, SessionsShrink DEF AccInv
    <2>9. CallOK(c)'
      BY <1>1, <2>1, <2>2, <2>3, <2>5 DEF CallOK
    <2> QED
      BY <2>5, <2>6, <2>7, <2>8, <2>9 DEF AccInv
  <1>4. CASE r.pc = "forget" /\ cache' = cache \ {r.tok} /\ UNCHANGED rows /\ Ends(c)
    <2>1. r.tok \in 1..ntok /\ rows[r.tok] = Nobody
      BY <1>4 DEF AccInv, CallOK
    <2>2. out' = out \union {r.tok} /\ overlap' = overlap \union ({r.tok} \intersect InFlight)
      BY <1>4 DEF invalidate
    <2>3. /\ call' \in [Callers -> Calls] /\ call'[c] = NoCall
          /\ \A d \in Callers \ {c} : call'[d] = call[d] /\ CallOK(d)'
      <3>1. ntok' \in Nat /\ ntok <= ntok' /\ \A t \in 1..ntok : rows'[t] = rows[t]
        BY <1>1, <1>4 DEF AccInv, AccTypes
      <3>2. call' = [call EXCEPT ![c] = NoCall]
        BY <1>4 DEF Ends, Step
      <3> QED
        BY <1>1, <3>1, <3>2, OthersWait, NoCallTyped
    <2>4. AccTypes'
      BY <1>1, <1>4, <2>1, <2>2, <2>3 DEF AccInv, AccTypes
    <2>5. EndedOK'
      <3> SUFFICES ASSUME NEW t \in out' \ overlap'
                   PROVE  /\ t \notin cache' /\ rows'[t] = Nobody
                          /\ \A d \in Callers : ~(call'[d].pc = "fill" /\ call'[d].tok = t)
        BY DEF EndedOK
      <3>1. CASE t \in out
        <4>1. t \in out \ overlap
          BY <3>1, <2>2
        <4> QED
          BY <4>1, <1>4, <2>3, NoCallTyped DEF AccInv, EndedOK
      <3>2. CASE t = r.tok
        <4>1. t \notin InFlight
          BY <3>2, <2>2
        <4> QED
          BY <4>1, <3>2, <1>4, <2>1, <2>3, NoCallTyped DEF InFlight
      <3> QED
        BY <3>1, <3>2, <2>2
    <2>6. ManagedOK' /\ SessionsOK'
      BY <1>1, <1>4, UsersKept, SessionsShrink DEF AccInv
    <2>7. CallOK(c)'
      BY <2>3, NoCallTyped DEF CallOK
    <2> QED
      BY <2>3, <2>4, <2>5, <2>6, <2>7 DEF AccInv
  <1> QED
    BY <1>3, <1>4 DEF invalidate

\* restore_handler with force ends every session it finds.
LEMMA ForceKeep == ASSUME AccInv, NEW c \in Callers, ForceRestore(c) PROVE AccInv'
  <1>1. UNCHANGED <<users, conf, ntok, signed>>
    BY DEF ForceRestore
  <1>2. CASE /\ call[c].pc = "idle" /\ Dropped(AuthTokens) /\ Step(c, [NoCall EXCEPT !.pc = "clear"])
             /\ UNCHANGED <<cache, out, overlap>>
    <2> DEFINE q == [NoCall EXCEPT !.pc = "clear"]
    <2>1. q \in Calls /\ q.pc = "clear"
      BY DEF NoCall, Calls
    <2>2. /\ rows' \in [AuthTokens -> UserIds \union {Nobody}]
          /\ \A t \in AuthTokens : rows'[t] = Nobody
      BY <1>2, RowsDropped DEF AccInv
    <2> HIDE DEF q
    <2>3. /\ call' \in [Callers -> Calls] /\ call'[c] = q
          /\ \A d \in Callers \ {c} : call'[d] = call[d] /\ CallOK(d)'
      <3>1. /\ ntok' \in Nat /\ ntok <= ntok'
            /\ \A t \in 1..ntok : rows'[t] = rows[t] \/ rows'[t] = Nobody
        BY <1>1, <2>2, TokensNamed DEF AccInv, AccTypes
      <3>2. call' = [call EXCEPT ![c] = q]
        BY <1>2 DEF Step, q
      <3> QED
        BY <1>1, <2>1, <3>1, <3>2, OthersWait
    <2>4. AccTypes'
      BY <1>1, <1>2, <2>2, <2>3 DEF AccInv, AccTypes
    <2>5. EndedOK'
      <3>1. out \subseteq AuthTokens
        BY TokensNamed DEF AccInv, AccTypes
      <3> QED
        BY <1>2, <2>1, <2>2, <2>3, <3>1 DEF AccInv, EndedOK
    <2>6. ManagedOK' /\ SessionsOK'
      BY <1>1, <2>2, UsersKept, SessionsShrink DEF AccInv
    <2>7. CallOK(c)'
      BY <2>1, <2>3 DEF CallOK
    <2> QED
      BY <2>3, <2>4, <2>5, <2>6, <2>7 DEF AccInv
  <1>3. CASE /\ call[c].pc = "clear" /\ cache' = {} /\ Ends(c) /\ UNCHANGED rows
             /\ out' = out \union {t \in 1..ntok : rows[t] = Nobody}
             /\ overlap' = overlap \union InFlight
    <2>1. /\ call' \in [Callers -> Calls] /\ call'[c] = NoCall
          /\ \A d \in Callers \ {c} : call'[d] = call[d] /\ CallOK(d)'
      <3>1. ntok' \in Nat /\ ntok <= ntok' /\ \A t \in 1..ntok : rows'[t] = rows[t]
        BY <1>1, <1>3 DEF AccInv, AccTypes
      <3>2. call' = [call EXCEPT ![c] = NoCall]
        BY <1>3 DEF Ends, Step
      <3> QED
        BY <1>1, <3>1, <3>2, OthersWait, NoCallTyped
    <2>2. AccTypes'
      BY <1>1, <1>3, <2>1 DEF AccInv, AccTypes
    <2>3. EndedOK'
      <3> SUFFICES ASSUME NEW t \in out' \ overlap'
                   PROVE  /\ t \notin cache' /\ rows'[t] = Nobody
                          /\ \A d \in Callers : ~(call'[d].pc = "fill" /\ call'[d].tok = t)
        BY DEF EndedOK
      <3>1. t \notin InFlight /\ rows[t] = Nobody
        BY <1>3 DEF AccInv, EndedOK
      <3> QED
        BY <3>1, <1>3, <2>1, NoCallTyped DEF InFlight
    <2>4. ManagedOK' /\ SessionsOK'
      BY <1>1, <1>3, UsersKept, SessionsShrink DEF AccInv
    <2>5. CallOK(c)'
      BY <2>1, NoCallTyped DEF CallOK
    <2> QED
      BY <2>1, <2>2, <2>3, <2>4, <2>5 DEF AccInv
  <1> QED
    BY <1>2, <1>3 DEF ForceRestore

\* Expiry and the hourly cleanup only take sessions away.
LEMMA CleanupKeep ==
  ASSUME AccInv, SessionCleanup \/ \E t \in AuthTokens : SessionAges(t)
  PROVE  AccInv'
  <1>1. /\ UNCHANGED <<users, conf, call, ntok, signed, out, overlap>>
        /\ cache' \subseteq cache
    BY DEF SessionCleanup, SessionAges
  <1>2. /\ rows' \in [AuthTokens -> UserIds \union {Nobody}]
        /\ \A t \in AuthTokens : rows'[t] = rows[t] \/ rows'[t] = Nobody
    BY RowsDropped DEF SessionCleanup, SessionAges, AccInv, AccTypes
  <1>3. AccTypes'
    BY <1>1, <1>2 DEF AccInv, AccTypes
  <1>4. EndedOK'
    <2>1. out \subseteq AuthTokens
      BY TokensNamed DEF AccInv, AccTypes
    <2> QED
      BY <1>1, <1>2, <2>1 DEF AccInv, EndedOK
  <1>5. ManagedOK' /\ Known' = Known /\ SessionsOK'
    BY <1>1, <1>2, UsersKept, SessionsShrink DEF AccInv
  <1>6. ASSUME NEW c \in Callers PROVE CallOK(c)'
    BY <1>1, <1>2, <1>5, TokensNamed DEF AccInv, CallOK
  <1> QED
    BY <1>3, <1>4, <1>5, <1>6 DEF AccInv

---------------------------------------------------------------------------
\* A start of the server.

\* A start that made u the environment's account.
Started(u, n, p) ==
  /\ users' = [users EXCEPT ![u] = Row(n, p, TRUE, TRUE)] /\ conf' = [name |-> n, pw |-> p]
  /\ Managed \subseteq {u}
  /\ rows' \in [AuthTokens -> UserIds \union {Nobody}]
  /\ \A t \in AuthTokens : rows'[t] = rows[t] \/ rows'[t] = Nobody
  /\ \A t \in AuthTokens : rows'[t] = u => signed[t] = [name |-> n, pw |-> p]

\* Once the one managed account is the environment's, and the sessions of whoever had
\* other credentials are gone, the invariant holds again.
LEMMA StartedKeep ==
  ASSUME AccInv, Boot, NEW u \in UserIds, NEW n \in Names, NEW p \in Passwords, Started(u, n, p)
  PROVE  AccInv'
  <1> USE DEF Started
  <1> DEFINE new == Row(n, p, TRUE, TRUE)
  <1>1. /\ cache' = {} /\ call' = [c \in Callers |-> NoCall]
        /\ UNCHANGED <<ntok, signed, out, overlap>>
    BY DEF Boot
  <1>2. new \in UserRows /\ new # Nobody /\ new.name = n /\ new.pw = p /\ new.managed = TRUE
    <2>1. new \in UserRows
      BY DEF Row, UserRows
    <2>2. new.name = n /\ new.pw = p /\ new.managed = TRUE
      BY DEF Row
    <2> QED
      BY <2>1, <2>2, NobodyIsNoRow
  <1>3. /\ users' \in [UserIds -> UserRows \union {Nobody}] /\ users'[u] = new
        /\ \A v \in UserIds \ {u} : users'[v] = users[v]
    BY <1>2 DEF AccInv, AccTypes
  <1>4. conf'.name = n /\ conf'.pw = p
    OBVIOUS
  <1> HIDE DEF new
  <1>5. Known' = Known \union {u} /\ Managed' = {u}
    BY <1>2, <1>3 DEF Known, Managed
  <1>6. AccTypes'
    <2>1. conf' \in [name : Names, pw : Passwords] \union {Nobody}
      OBVIOUS
    <2>2. call' \in [Callers -> Calls]
      BY <1>1, NoCallTyped
    <2> QED
      BY <1>1, <1>3, <2>1, <2>2 DEF AccInv, AccTypes
  <1>7. EndedOK'
    <2>1. out \subseteq AuthTokens
      BY TokensNamed DEF AccInv, AccTypes
    <2>2. \A c \in Callers : call'[c].pc # "fill"
      BY <1>1, NoCallTyped
    <2> QED
      BY <1>1, <2>1, <2>2 DEF AccInv, EndedOK
  <1>8. ManagedOK'
    <2>1. users'[u] = Row(conf'.name, conf'.pw, TRUE, TRUE)
      BY <1>3, <1>4 DEF new
    <2> QED
      BY <2>1, <1>5 DEF ManagedOK
  <1>9. SessionsOK'
    <2> SUFFICES ASSUME NEW t \in AuthTokens, rows'[t] # Nobody
                 PROVE  /\ rows'[t] \in Known' /\ t <= ntok'
                        /\ signed'[t] = [name |-> users'[rows'[t]].name, pw |-> users'[rows'[t]].pw]
      BY DEF SessionsOK, SessionsFollowCredentials
    <2>1. /\ rows'[t] = rows[t] /\ rows[t] \in Known /\ t <= ntok
          /\ signed[t] = [name |-> users[rows[t]].name, pw |-> users[rows[t]].pw]
      BY DEF AccInv, SessionsOK, SessionsFollowCredentials
    <2>2. CASE rows[t] = u
      <3>1. rows'[t] = u /\ signed'[t] = [name |-> n, pw |-> p]
        BY <2>1, <2>2, <1>1
      <3>2. users'[u].name = n /\ users'[u].pw = p
        BY <1>2, <1>3
      <3> QED
        BY <3>1, <3>2, <2>1, <1>1, <1>5
    <2>3. CASE rows[t] # u
      BY <2>1, <2>3, <1>1, <1>3, <1>5 DEF Known
    <2> QED
      BY <2>2, <2>3
  <1>10. ASSUME NEW c \in Callers PROVE CallOK(c)'
    BY <1>1, NoCallTyped DEF CallOK
  <1> QED
    BY <1>6, <1>7, <1>8, <1>9, <1>10 DEF AccInv

\* The account adopted is the managed one, if there is one.
LEMMA AdoptedIsManaged ==
  ASSUME AccInv, NEW n, NEW u \in Adopted(n)
  PROVE  u \in UserIds /\ u \in Known /\ Managed \subseteq {u}
  BY DEF AccInv, ManagedOK, Adopted, Managed, Named, Admins, Known

\* init_admin_user, or a server that stays down.
LEMMA BootKeep == ASSUME AccInv, Boot PROVE AccInv'
  <1>1. PICK n \in Names, p \in Passwords :
          \/ init_admin_user(n, p) /\ conf' = [name |-> n, pw |-> p]
          \/ Refuses(n) /\ UNCHANGED <<users, rows>> /\ conf' = Nobody
    BY DEF Boot
  <1>2. ASSUME NEW u \in Adopted(n), Reconcile(u, n, p), conf' = [name |-> n, pw |-> p]
        PROVE  AccInv'
    <2>1. u \in UserIds /\ u \in Known /\ Managed \subseteq {u}
      BY AdoptedIsManaged
    <2>2. users' = [users EXCEPT ![u] = Row(n, p, TRUE, TRUE)]
      BY <1>2 DEF Reconcile
    <2>3. /\ rows' \in [AuthTokens -> UserIds \union {Nobody}]
          /\ \A t \in AuthTokens : rows'[t] = rows[t] \/ rows'[t] = Nobody
      BY <1>2 DEF Reconcile, AccInv, AccTypes
    <2>4. ASSUME NEW t \in AuthTokens, rows'[t] = u PROVE signed[t] = [name |-> n, pw |-> p]
      <3>1. u # Nobody /\ rows[t] = u
        BY <2>1, <2>3, <2>4, AccountAssumption
      <3>2. ~MustRevoke(u, n, p)
        <4>1. SUFFICES ASSUME MustRevoke(u, n, p) PROVE FALSE
          OBVIOUS
        <4>2. rows' = [k \in AuthTokens |-> IF rows[k] = u THEN Nobody ELSE rows[k]]
          BY <1>2, <4>1 DEF Reconcile
        <4> QED
          BY <4>2, <3>1, <2>4
      <3>3. users[u].pw = p /\ users[u].name = n
        BY <3>2 DEF MustRevoke
      <3> QED
        BY <3>1, <3>3 DEF AccInv, SessionsOK, SessionsFollowCredentials
    <2>5. \A t \in AuthTokens : rows'[t] = u => signed[t] = [name |-> n, pw |-> p]
      BY <2>4
    <2>6. Started(u, n, p)
      BY <1>2, <2>1, <2>2, <2>3, <2>5 DEF Started
    <2> QED
      BY <2>1, <2>6, StartedKeep
  <1>3. ASSUME Adopted(n) = {}, CreateManaged(n, p), conf' = [name |-> n, pw |-> p]
        PROVE  AccInv'
    <2>1. PICK u \in UserIds \ Known : users' = [users EXCEPT ![u] = Row(n, p, TRUE, TRUE)]
      BY <1>3 DEF CreateManaged
    <2>2. Managed \subseteq {u}
      BY <1>3 DEF Adopted
    <2>3. UNCHANGED rows /\ rows \in [AuthTokens -> UserIds \union {Nobody}]
      BY <1>3 DEF CreateManaged, AccInv, AccTypes
    <2>4. ASSUME NEW t \in AuthTokens, rows'[t] = u PROVE FALSE
      <3>1. rows[t] = u /\ u # Nobody
        BY <2>1, <2>3, <2>4, AccountAssumption
      <3> QED
        BY <3>1 DEF AccInv, SessionsOK
    <2>5. Started(u, n, p)
      BY <1>3, <2>1, <2>2, <2>3, <2>4 DEF Started
    <2> QED
      BY <2>5, StartedKeep
  <1>4. CASE UNCHANGED <<users, rows>> /\ conf' = Nobody
    <2>1. /\ cache' = {} /\ call' = [c \in Callers |-> NoCall]
          /\ UNCHANGED <<ntok, signed, out, overlap>>
      BY DEF Boot
    <2>2. AccTypes'
      BY <1>4, <2>1, NoCallTyped DEF AccInv, AccTypes
    <2>3. EndedOK'
      BY <1>4, <2>1, NoCallTyped DEF AccInv, EndedOK
    <2>4. ManagedOK'
      BY <1>4 DEF AccInv, ManagedOK, Managed, Known, Up
    <2>5. SessionsOK'
      BY <1>4, <2>1, SessionsShrink DEF AccInv
    <2>6. ASSUME NEW c \in Callers PROVE CallOK(c)'
      BY <2>1, NoCallTyped DEF CallOK
    <2> QED
      BY <2>2, <2>3, <2>4, <2>5, <2>6 DEF AccInv
  <1> QED
    BY <1>1, <1>2, <1>3, <1>4 DEF init_admin_user

---------------------------------------------------------------------------
\* The theorems.

\* A step that changes nothing keeps the invariant.
LEMMA AccStutters == ASSUME AccInv, UNCHANGED accVars PROVE AccInv'
  <1>1. AccTypes' /\ EndedOK'
    BY DEF AccInv, accVars, AccTypes, EndedOK
  <1>2. ManagedOK' /\ SessionsOK' /\ Known' = Known
    BY UsersKept, SessionsShrink DEF AccInv, accVars
  <1>3. ASSUME NEW c \in Callers PROVE CallOK(c)'
    BY <1>2 DEF AccInv, accVars, CallOK
  <1> QED
    BY <1>1, <1>2, <1>3 DEF AccInv

\* Every step keeps the invariant.
LEMMA AccInductive == AccInv /\ [AccNext]_accVars => AccInv'
  <1> SUFFICES ASSUME AccInv, [AccNext]_accVars PROVE AccInv'
    OBVIOUS
  <1>1. CASE UNCHANGED accVars
    BY <1>1, AccStutters
  <1>2. CASE Boot \/ SessionCleanup \/ \E t \in AuthTokens : SessionAges(t)
    BY <1>2, BootKeep, CleanupKeep
  <1>3. ASSUME NEW c \in Callers,
               \/ login(c) \/ register(c) \/ create_user(c) \/ create_auth_session(c) \/ FillCache(c)
               \/ logout(c) \/ invalidate(c) \/ ForceRestore(c) \/ ClientVanishes(c)
               \/ \E t \in AuthTokens : extract_user_id(c, t)
        PROVE  AccInv'
    BY <1>3, LoginKeep, RegisterKeep, CreateUserKeep, CreateSessionKeep, FillKeep, LogoutKeep,
       InvalidateKeep, ForceKeep, VanishKeep, ExtractKeep
  <1> QED
    BY <1>1, <1>2, <1>3 DEF AccNext

\* The inductive invariant holds in every reachable state.
THEOREM AccountsInvariant == AccSpec => []AccInv
  BY AccInitial, AccInductive, PTL DEF AccSpec

\* A session that was ended stays ended (invalidate, the forced restore), unless the login
\* that made it or a validation that had read its row was on its way to the cache; the managed
\* administrator is exactly the environment's (init_admin_user), and no session outlives
\* the credentials it was opened with (reconcile_managed_admin).
THEOREM AccessIsCurrent == AccSpec => []AccessFollows
  <1>1. AccInv => AccessFollows
    <2> SUFFICES ASSUME AccInv PROVE AccessFollows
      OBVIOUS
    <2>1. LogoutIsFinal
      BY DEF AccInv, EndedOK, LogoutIsFinal, Accepted
    <2>2. OneManagedAdmin
      <3> SUFFICES ASSUME Up
                   PROVE  /\ Cardinality(Managed) = 1
                          /\ \A u \in Managed : users[u] = Row(conf.name, conf.pw, TRUE, TRUE)
        BY DEF OneManagedAdmin
      <3>1. PICK u \in Managed : users[u] = Row(conf.name, conf.pw, TRUE, TRUE)
        BY DEF AccInv, ManagedOK
      <3>2. Managed = {u}
        BY DEF AccInv, ManagedOK
      <3>3. Cardinality({u}) = 1
        BY FS_Singleton
      <3> QED
        BY <3>1, <3>2, <3>3
    <2>3. SessionsFollowCredentials
      BY DEF AccInv, SessionsOK
    <2> QED
      BY <2>1, <2>2, <2>3 DEF AccessFollows
  <1> QED
    BY <1>1, AccountsInvariant, PTL

-----------------------------------------------------------------------------
(***************************************************************************)
(* Device pairing                                                          *)
(***************************************************************************)
\* The inductive invariant.

Tokens == [dev : DevIds, kind : {"device", "refresh"}, n : Nat]
Visits == [pc : {"idle", "row", "rotate", "put", "revoke"}, dev : DevIds \union {NoDev},
           put : SUBSET Tokens, old : SUBSET Tokens, n : Nat]

DevTypes ==
  /\ device \in [DevIds -> {"none", "live", "revoked"}]
  /\ store \subseteq Tokens /\ spent \subseteq Tokens
  /\ visit \in [Visitors -> Visits]
  /\ loader \in [on : BOOLEAN, todo : SUBSET Tokens]
  /\ gone \subseteq DevIds /\ nfresh \in Nat

\* The tokens a request holds or has in hand.
Held(v) == visit[v].put \union visit[v].old

\* A token names a device that has a row and a number that was given out.
Issued(t) == device[t.dev] # "none" /\ t.n <= nfresh
AllIssued ==
  /\ \A t \in store \union spent \union loader.todo : Issued(t)
  /\ \A v \in Visitors : \A t \in Held(v) : Issued(t)

\* What the stages of a request know.
VisitOK(v) ==
  LET r == visit[v]
  IN /\ r.pc \in {"rotate", "put", "revoke"} => r.dev \in DevIds
     /\ r.n <= nfresh
     /\ r.pc = "rotate" => device[r.dev] # "none"
     /\ r.pc # "put" => r.put = {}
     /\ \A t \in r.put : t.dev = r.dev
     /\ r.pc \notin {"rotate", "put"} => r.old = {}
     /\ \A t \in r.old : t.kind = "refresh"
     /\ r.pc = "put" => r.old \intersect store = {}
     /\ r.pc = "revoke" => device[r.dev] = "revoked"

\* The refresh token a request is going to store.
Coming(v) ==
  IF visit[v].pc = "rotate" THEN {Token(visit[v].dev, "refresh", visit[v].n)}
  ELSE {t \in visit[v].put : t.kind = "refresh"}

\* It is new: nobody else has it, in the store, in hand or behind him.
ComingIsNew(v) ==
  /\ Coming(v) \intersect (store \union spent) = {}
  /\ \A w \in Visitors : Coming(v) \intersect visit[w].old = {}
  /\ \A w \in Visitors \ {v} : Coming(v) \intersect Coming(w) = {}

\* The loader brings back device tokens only, and refresh tokens only are exchanged.
KindsOK ==
  /\ \A t \in loader.todo : t.kind = "device"
  /\ \A t \in spent : t.kind = "refresh"

\* The row of a device that is gone is revoked, and whoever still stores a token of it
\* was doing so when it was revoked.
GoneOK ==
  /\ \A d \in gone : device[d] = "revoked"
  /\ \A v \in Visitors : visit[v].pc \in {"rotate", "put"} /\ visit[v].dev \in gone => visit[v].dev \in slipped
  /\ \A t \in loader.todo : t.dev \in gone => t.dev \in slipped

TokensOK ==
  /\ DevTypes /\ AllIssued /\ KindsOK /\ GoneOK
  /\ \A v \in Visitors : VisitOK(v) /\ ComingIsNew(v)
  /\ RevokedIsDead /\ SpentIsGone

\* A code that is open has made no device, a code that was taken one.
CodesOK ==
  /\ code \in [Codes -> {"none", "open", "claimed", "expired", "pruned"}]
  /\ claims \in [Codes -> SUBSET DevIds]
  /\ \A q \in Codes : \/ claims[q] = {}
                      \/ code[q] \in {"claimed", "pruned"} /\ \E d \in DevIds : claims[q] = {d}

PairingInv == TokensOK /\ CodesOK

---------------------------------------------------------------------------
\* The invariant holds initially.

\* DevInit: no device, no token, no request.
LEMMA PairingInitial == DevInit => PairingInv
  <1> SUFFICES ASSUME DevInit PROVE PairingInv
    OBVIOUS
  <1> USE DEF DevInit
  <1>1. DevTypes
    BY DEF DevTypes, Visits, NoVisit, NoLoader
  <1>2. AllIssued /\ KindsOK /\ GoneOK
    BY DEF AllIssued, Held, KindsOK, GoneOK, NoVisit, NoLoader
  <1>3. ASSUME NEW v \in Visitors PROVE VisitOK(v) /\ ComingIsNew(v)
    BY DEF VisitOK, ComingIsNew, Coming, NoVisit
  <1>4. RevokedIsDead /\ SpentIsGone
    BY DEF RevokedIsDead, SpentIsGone
  <1>5. CodesOK
    BY DEF CodesOK
  <1> QED
    BY <1>1, <1>2, <1>3, <1>4, <1>5 DEF PairingInv, TokensOK

---------------------------------------------------------------------------
\* Steps that bring no token.

\* A step that leaves the codes alone.
LEMMA CodesKept == ASSUME CodesOK, UNCHANGED <<code, claims>> PROVE CodesOK'
  BY DEF CodesOK

\* A request that is over, or that has drawn its tokens and has no row yet.
Blank(r) == r \in Visits /\ r.pc \in {"idle", "row"} /\ r.put = {} /\ r.old = {} /\ r.n = 0

\* What Blank is for: the records the handlers start from.
LEMMA BlankVisits ==
  Blank(NoVisit) /\ Blank([NoVisit EXCEPT !.pc = "row"])
  BY DEF Blank, NoVisit, Visits

\* Tokens may leave the store and requests may end or begin at any time.
LEMMA TokensShrink ==
  ASSUME TokensOK, store' \subseteq store,
         UNCHANGED <<device, loader, gone, slipped, spent, nfresh>>,
         visit' \in [Visitors -> Visits],
         \A w \in Visitors : visit'[w] = visit[w] \/ Blank(visit'[w])
  PROVE  TokensOK'
  <1> USE DEF TokensOK
  <1>1. DevTypes'
    BY DEF DevTypes
  <1>2. AllIssued'
    BY DEF AllIssued, Held, Issued, Blank
  <1>3. KindsOK' /\ GoneOK'
    BY DEF KindsOK, GoneOK, Blank
  <1>4. ASSUME NEW v \in Visitors PROVE VisitOK(v)'
    BY DEF VisitOK, Blank, DevTypes
  <1>5. ASSUME NEW v \in Visitors PROVE Coming(v)' \subseteq Coming(v)
    BY DEF Coming, Blank, Token
  <1>6. ASSUME NEW v \in Visitors PROVE ComingIsNew(v)'
    BY <1>5 DEF ComingIsNew, Blank
  <1>7. RevokedIsDead' /\ SpentIsGone'
    BY DEF RevokedIsDead, SpentIsGone
  <1> QED
    BY <1>1, <1>2, <1>3, <1>4, <1>6, <1>7

\* The counters and the registry are no part of the invariant.
LEMMA IdleSteps ==
  ASSUME PairingInv, store' \subseteq store, UNCHANGED <<device, loader, visit, gone, slipped, spent, nfresh>>
  PROVE  TokensOK'
  <1>1. visit' \in [Visitors -> Visits] /\ \A w \in Visitors : visit'[w] = visit[w]
    BY DEF PairingInv, TokensOK, DevTypes
  <1> QED
    BY <1>1, TokensShrink DEF PairingInv

\* MinutePasses, link_pair_start and an expired token touch no request.
LEMMA QuietKeep ==
  ASSUME PairingInv, MinutePasses \/ link_pair_start \/ TokenExpires
  PROVE  PairingInv'
  <1>1. store' \subseteq store /\ UNCHANGED <<device, loader, visit, gone, slipped, spent, nfresh>>
    BY DEF MinutePasses, link_pair_start, TokenExpires, devGhosts, devCounts
  <1>2. UNCHANGED <<code, claims>>
    BY DEF MinutePasses, link_pair_start, TokenExpires, devGhosts, devCounts
  <1> QED
    BY <1>1, <1>2, IdleSteps, CodesKept DEF PairingInv

\* A code is made, expires and is pruned without making a device.
LEMMA CodeKeep ==
  ASSUME PairingInv, NEW q \in Codes, qr_generate(q) \/ CodeExpires(q) \/ run_hourly_maintenance(q)
  PROVE  PairingInv'
  <1>1. UNCHANGED <<store, device, loader, visit, gone, slipped, spent, nfresh, claims>>
    BY DEF qr_generate, CodeExpires, run_hourly_maintenance, devGhosts, devCounts
  <1>2. CodesOK'
    BY <1>1 DEF PairingInv, CodesOK, qr_generate, CodeExpires, run_hourly_maintenance
  <1> QED
    BY <1>1, <1>2, IdleSteps DEF PairingInv

\* A confirmation takes its session, or a client goes away: no token moves.
LEMMA BlankKeep ==
  ASSUME PairingInv, NEW v \in Visitors, link_pair_confirm(v) \/ VisitorLeaves(v)
  PROVE  PairingInv'
  <1>1. UNCHANGED <<store, device, loader, gone, slipped, spent, nfresh, code, claims>>
    BY DEF link_pair_confirm, VisitorLeaves, devGhosts, devCounts
  <1>2. PICK r : Blank(r) /\ visit' = [visit EXCEPT ![v] = r]
    BY BlankVisits DEF link_pair_confirm, VisitorLeaves, Goes, Over
  <1>3. /\ visit' \in [Visitors -> Visits]
        /\ \A w \in Visitors : visit'[w] = visit[w] \/ Blank(visit'[w])
    BY <1>2 DEF PairingInv, TokensOK, DevTypes, Blank
  <1> QED
    BY <1>1, <1>3, TokensShrink, CodesKept DEF PairingInv

---------------------------------------------------------------------------
\* Steps that make, store and drop tokens.

\* A new row: the request that made it is the only one to know the device.
LEMMA DeviceMade ==
  ASSUME PairingInv, NEW v \in Visitors, NEW d \in DevIds, InsertDevice(d),
         NEW P \in SUBSET {Token(d, "device", 0), Token(d, "refresh", 0)},
         Goes(v, [NoVisit EXCEPT !.pc = "put", !.dev = d, !.put = P]),
         UNCHANGED <<store, loader, gone, slipped, spent, nfresh>>
  PROVE  TokensOK'
  <1> DEFINE r == [NoVisit EXCEPT !.pc = "put", !.dev = d, !.put = P]
  <1> USE DEF PairingInv, TokensOK
  <1>1. /\ r \in Visits /\ r.pc = "put" /\ r.dev = d /\ r.put = P /\ r.old = {} /\ r.n = 0
        /\ \A t \in P : t \in Tokens /\ t.dev = d /\ t.n = 0
    <2>1. \A t \in P : t \in Tokens /\ t.dev = d /\ t.n = 0
      BY DEF Token, Tokens
    <2> QED
      BY <2>1 DEF NoVisit, Visits
  <1>2. visit'[v] = r /\ \A w \in Visitors \ {v} : visit'[w] = visit[w]
    BY DEF Goes, DevTypes
  <1>3. visit' \in [Visitors -> Visits]
    BY <1>1 DEF Goes, DevTypes
  <1>4. /\ device[d] = "none" /\ device'[d] = "live"
        /\ \A e \in DevIds \ {d} : device'[e] = device[e]
        /\ device' \in [DevIds -> {"none", "live", "revoked"}]
    BY DEF InsertDevice, DevTypes
  <1> HIDE DEF r
  <1>5. DevTypes'
    BY <1>3, <1>4 DEF DevTypes
  <1>6. /\ \A t \in store \union spent \union loader.todo : t.dev # d
        /\ \A w \in Visitors : \A t \in Held(w) : t.dev # d
    BY <1>4 DEF AllIssued, Issued
  <1>7. AllIssued'
    <2>1. ASSUME NEW t \in Tokens, Issued(t) PROVE Issued(t)'
      BY <2>1, <1>4 DEF Issued, Tokens
    <2>2. ASSUME NEW t \in P PROVE Issued(t)'
      BY <1>1, <1>4 DEF Issued, DevTypes
    <2>3. \A t \in store \union spent \union loader.todo : Issued(t)'
      BY <2>1 DEF AllIssued, DevTypes
    <2>4. ASSUME NEW w \in Visitors, NEW t \in Held(w)' PROVE Issued(t)'
      <3>1. CASE w = v
        BY <3>1, <1>1, <1>2, <2>2 DEF Held
      <3>2. CASE w # v
        <4>1. t \in Held(w) /\ t \in Tokens
          BY <3>2, <1>2, <2>4 DEF Held, DevTypes, Visits
        <4> QED
          BY <4>1, <2>1 DEF AllIssued
      <3> QED
        BY <3>1, <3>2
    <2> QED
      BY <2>3, <2>4 DEF AllIssued
  <1>8. KindsOK' /\ GoneOK'
    <2>1. d \notin gone
      BY <1>4 DEF GoneOK
    <2> QED
      BY <2>1, <1>1, <1>2, <1>4 DEF KindsOK, GoneOK, DevTypes
  <1>9. ASSUME NEW w \in Visitors PROVE VisitOK(w)'
    <2>1. CASE w = v
      BY <2>1, <1>1, <1>2 DEF VisitOK, DevTypes
    <2>2. CASE w # v
      BY <2>2, <1>2, <1>4 DEF VisitOK, DevTypes
    <2> QED
      BY <2>1, <2>2
  <1>10. /\ \A w \in Visitors \ {v} : Coming(w)' = Coming(w)
         /\ \A t \in Coming(v)' : t.dev = d
    BY <1>1, <1>2 DEF Coming
  <1>11. ASSUME NEW w \in Visitors, w # v PROVE \A t \in Coming(w) : t.dev # d
    BY <1>4, <1>6 DEF Coming, Held, Token, VisitOK
  <1>12. ASSUME NEW w \in Visitors PROVE ComingIsNew(w)'
    <2>1. \A x \in Visitors : visit'[x].old \subseteq visit[x].old
      BY <1>1, <1>2
    <2>2. CASE w = v
      BY <2>1, <2>2, <1>6, <1>10, <1>11 DEF ComingIsNew, Held
    <2>3. CASE w # v
      BY <2>1, <2>3, <1>10, <1>11 DEF ComingIsNew
    <2> QED
      BY <2>2, <2>3
  <1>13. RevokedIsDead' /\ SpentIsGone'
    BY DEF RevokedIsDead, SpentIsGone
  <1> QED
    BY <1>5, <1>7, <1>8, <1>9, <1>12, <1>13

\* A confirmed PIN: the row, with a token of each kind to store.
LEMMA CreateKeep == ASSUME PairingInv, NEW v \in Visitors, create_link_device(v) PROVE PairingInv'
  <1>1. PICK d \in DevIds :
          /\ InsertDevice(d)
          /\ Goes(v, [NoVisit EXCEPT !.pc = "put", !.dev = d,
                                     !.put = {Token(d, "device", 0), Token(d, "refresh", 0)}])
    BY DEF create_link_device
  <1>2. UNCHANGED <<store, loader, gone, slipped, spent, nfresh, code, claims>>
    BY DEF create_link_device, devGhosts, devCounts
  <1> QED
    BY <1>1, <1>2, DeviceMade, CodesKept DEF PairingInv

\* A claimed code: code and row in one transaction, so the code makes no other device.
LEMMA ClaimKeep == ASSUME PairingInv, NEW v \in Visitors, NEW q \in Codes, qr_claim(v, q) PROVE PairingInv'
  <1>1. PICK d \in DevIds :
          /\ InsertDevice(d)
          /\ Goes(v, [NoVisit EXCEPT !.pc = "put", !.dev = d, !.put = {Token(d, "device", 0)}])
          /\ claims' = [claims EXCEPT ![q] = @ \union {d}]
    BY DEF qr_claim
  <1>2. UNCHANGED <<store, loader, gone, slipped, spent, nfresh>>
    BY DEF qr_claim, devCounts
  <1>3. code[q] = "open" /\ code' = [code EXCEPT ![q] = "claimed"]
    BY DEF qr_claim, TakeCode
  <1>4. CodesOK'
    <2>1. claims[q] = {}
      BY <1>3 DEF PairingInv, CodesOK
    <2>2. claims'[q] = {d} /\ code'[q] = "claimed"
      BY <1>1, <1>3, <2>1 DEF PairingInv, CodesOK
    <2> QED
      BY <1>1, <1>3, <2>2 DEF PairingInv, CodesOK
  <1> QED
    BY <1>1, <1>2, <1>4, DeviceMade DEF PairingInv

\* A token is stored: it was announced, so it is new, and it is not the one exchanged.
LEMMA StoreKeep == ASSUME PairingInv, NEW v \in Visitors, StoreToken(v) PROVE PairingInv'
  <1> DEFINE r == visit[v]
  <1> USE DEF PairingInv, TokensOK
  <1>1. PICK t \in r.put :
          /\ store' = store \union {t}
          /\ IF r.put = {t} THEN Over(v) /\ spent' = spent \union r.old
             ELSE Goes(v, [r EXCEPT !.put = @ \ {t}]) /\ UNCHANGED spent
    BY DEF StoreToken
  <1>2. r.pc = "put" /\ r \in Visits /\ t \in Tokens /\ t.dev = r.dev /\ r.dev \in DevIds
    BY <1>1 DEF StoreToken, DevTypes, Visits, VisitOK
  <1>3. UNCHANGED <<device, loader, gone, slipped, nfresh, code, claims>>
    BY DEF StoreToken, devCounts
  <1>4. /\ visit'[v] \in Visits /\ visit'[v].put \subseteq r.put /\ visit'[v].n <= nfresh
        /\ \/ Blank(visit'[v]) /\ spent' = spent \union r.old
           \/ visit'[v].pc = "put" /\ visit'[v].dev = r.dev /\ visit'[v].old = r.old
              /\ t \notin visit'[v].put /\ spent' = spent
        /\ \A w \in Visitors \ {v} : visit'[w] = visit[w]
        /\ visit' \in [Visitors -> Visits]
    <2>1. CASE r.put = {t}
      <3>1. visit' = [visit EXCEPT ![v] = NoVisit] /\ spent' = spent \union r.old
        BY <1>1, <2>1 DEF Over, Goes
      <3>2. visit'[v] = NoVisit
        BY <3>1 DEF DevTypes
      <3> QED
        BY <3>1, <3>2, BlankVisits DEF DevTypes, Blank
    <2>2. CASE r.put # {t}
      <3>1. visit' = [visit EXCEPT ![v] = [r EXCEPT !.put = @ \ {t}]] /\ spent' = spent
        BY <1>1, <2>2 DEF Goes
      <3>2. visit'[v] = [r EXCEPT !.put = @ \ {t}]
        BY <3>1 DEF DevTypes
      <3>3. /\ [r EXCEPT !.put = @ \ {t}] \in Visits
            /\ [r EXCEPT !.put = @ \ {t}].put = r.put \ {t}
            /\ [r EXCEPT !.put = @ \ {t}].pc = "put"
            /\ [r EXCEPT !.put = @ \ {t}].dev = r.dev
            /\ [r EXCEPT !.put = @ \ {t}].old = r.old
            /\ [r EXCEPT !.put = @ \ {t}].n = r.n
        BY <1>2 DEF Visits
      <3>4. r.n <= nfresh
        BY DEF VisitOK
      <3> HIDE DEF r
      <3> QED
        BY <3>1, <3>2, <3>3, <3>4 DEF DevTypes
    <2> QED
      BY <2>1, <2>2
  <1> HIDE DEF r
  <1>5. spent' \subseteq spent \union r.old /\ r.old \subseteq Tokens
    BY <1>2, <1>4 DEF Visits
  <1>6. DevTypes'
    BY <1>1, <1>2, <1>3, <1>4, <1>5 DEF DevTypes
  <1>7. AllIssued'
    <2>1. t \in Held(v) /\ r.old \subseteq Held(v)
      BY <1>1 DEF Held, r
    <2>2. \A w \in Visitors : Held(w)' \subseteq Held(w)
      BY <1>4 DEF Held, r, Blank
    <2> QED
      BY <1>1, <1>3, <1>5, <2>1, <2>2 DEF AllIssued, Issued
  <1>8. KindsOK' /\ GoneOK'
    <2>1. \A x \in r.old : x.kind = "refresh"
      BY DEF VisitOK, r
    <2> QED
      BY <2>1, <1>2, <1>3, <1>4, <1>5 DEF KindsOK, GoneOK, Blank, r
  <1>9. t.kind = "refresh" => t \in Coming(v)
    BY <1>1, <1>2 DEF Coming, r
  <1>10. ASSUME NEW w \in Visitors PROVE t \notin visit[w].old
    BY <1>9 DEF ComingIsNew, VisitOK, DevTypes, Visits, Tokens
  <1>11. ASSUME NEW w \in Visitors PROVE VisitOK(w)'
    <2>1. CASE w = v
      BY <2>1, <1>1, <1>2, <1>3, <1>4, <1>10 DEF VisitOK, Blank, r, DevTypes
    <2>2. CASE w # v
      BY <2>2, <1>1, <1>3, <1>4, <1>10 DEF VisitOK
    <2> QED
      BY <2>1, <2>2
  <1>12. /\ \A w \in Visitors : Coming(w)' \subseteq Coming(w)
         /\ \A w \in Visitors : t \notin Coming(w)'
    <2>1. ASSUME NEW w \in Visitors PROVE Coming(w)' \subseteq Coming(w)
      BY <1>2, <1>4 DEF Coming, Blank, r
    <2>2. t \notin Coming(v)'
      BY <1>4 DEF Coming, Blank
    <2>3. ASSUME NEW w \in Visitors, w # v PROVE t \notin Coming(w)'
      <3>1. visit'[w] = visit[w]
        BY <2>3, <1>4
      <3>2. Coming(w)' = Coming(w)
        BY <3>1 DEF Coming
      <3>3. \A x \in Coming(w) : x.kind = "refresh"
        BY DEF Coming, Token
      <3> QED
        BY <2>3, <3>2, <3>3, <1>9 DEF ComingIsNew
    <2> QED
      BY <2>1, <2>2, <2>3
  <1>13. ASSUME NEW w \in Visitors PROVE ComingIsNew(w)'
    <2>1. \A x \in Visitors : visit'[x].old \subseteq visit[x].old
      BY <1>4 DEF Blank, r
    <2>2. Coming(w)' \intersect (store' \union spent') = {}
      BY <1>1, <1>5, <1>12 DEF ComingIsNew, r
    <2> QED
      BY <2>1, <2>2, <1>12 DEF ComingIsNew
  <1>14. RevokedIsDead'
    BY <1>1, <1>2, <1>3 DEF RevokedIsDead, GoneOK, r
  <1>15. SpentIsGone'
    <2>1. t \notin spent
      <3>1. CASE t.kind = "refresh"
        BY <3>1, <1>9 DEF ComingIsNew
      <3>2. CASE t.kind # "refresh"
        BY <3>2 DEF KindsOK
      <3> QED
        BY <3>1, <3>2
    <2>2. r.old \intersect store = {} /\ t \notin r.old
      BY <1>2, <1>10 DEF VisitOK, r
    <2> QED
      BY <2>1, <2>2, <1>1, <1>5 DEF SpentIsGone
  <1>16. CodesOK'
    BY <1>3, CodesKept
  <1> QED
    BY <1>6, <1>7, <1>8, <1>11, <1>13, <1>14, <1>15, <1>16

\* A refresh takes a token the store accepts, and a number nobody has.
LEMMA RefreshKeep == ASSUME PairingInv, NEW v \in Visitors, link_token_refresh(v) PROVE PairingInv'
  <1> USE DEF PairingInv, TokensOK
  <1>1. PICK t \in store :
          t.kind = "refresh" /\ Goes(v, [NoVisit EXCEPT !.pc = "rotate", !.dev = t.dev, !.old = {t}, !.n = nfresh'])
    BY DEF link_token_refresh, validate
  <1>2. nfresh' = nfresh + 1 /\ nfresh \in Nat
    BY DEF link_token_refresh, DevTypes
  <1>3. UNCHANGED <<device, store, loader, gone, slipped, spent, code, claims>>
    BY DEF link_token_refresh, devGhosts
  <1> DEFINE r == [NoVisit EXCEPT !.pc = "rotate", !.dev = t.dev, !.old = {t}, !.n = nfresh']
  <1>4. t \in Tokens /\ t.dev \in DevIds /\ Issued(t)
    BY DEF DevTypes, Tokens, AllIssued
  <1>5. /\ r \in Visits /\ r.pc = "rotate" /\ r.dev = t.dev /\ r.put = {} /\ r.old = {t} /\ r.n = nfresh'
    <2>1. nfresh' \in Nat /\ {t} \in SUBSET Tokens
      BY <1>2, <1>4
    <2> QED
      BY <2>1, <1>4 DEF NoVisit, Visits
  <1>6. /\ visit'[v] = r /\ \A w \in Visitors \ {v} : visit'[w] = visit[w]
        /\ visit' \in [Visitors -> Visits]
    BY <1>1, <1>5 DEF Goes, DevTypes
  <1> HIDE DEF r
  <1>7. DevTypes'
    BY <1>2, <1>3, <1>6 DEF DevTypes
  <1>8. \A x : x \in Tokens /\ Issued(x) => Issued(x)' /\ x.n # nfresh'
    BY <1>2, <1>3 DEF Issued, Tokens
  <1>9. AllIssued'
    <2>1. \A x \in store \union spent \union loader.todo : Issued(x)'
      BY <1>8 DEF AllIssued, DevTypes
    <2>2. ASSUME NEW w \in Visitors, NEW x \in Held(w)' PROVE Issued(x)'
      <3>1. CASE w = v
        BY <3>1, <1>4, <1>5, <1>6, <1>8 DEF Held
      <3>2. CASE w # v
        <4>1. x \in Held(w) /\ x \in Tokens
          BY <3>2, <1>6 DEF Held, DevTypes, Visits
        <4> QED
          BY <4>1, <1>8 DEF AllIssued
      <3> QED
        BY <3>1, <3>2
    <2> QED
      BY <1>3, <2>1, <2>2 DEF AllIssued
  <1>10. KindsOK' /\ GoneOK'
    <2>1. t.dev \in gone => t.dev \in slipped
      BY DEF RevokedIsDead
    <2> QED
      BY <2>1, <1>3, <1>5, <1>6 DEF KindsOK, GoneOK
  <1>11. ASSUME NEW w \in Visitors PROVE VisitOK(w)'
    <2>1. CASE w = v
      BY <2>1, <1>1, <1>2, <1>3, <1>4, <1>5, <1>6 DEF VisitOK, Issued
    <2>2. CASE w # v
      <3>1. visit[w].n \in Nat /\ visit[w].n <= nfresh /\ visit'[w] = visit[w]
        BY <2>2, <1>6 DEF VisitOK, DevTypes, Visits
      <3>2. visit[w].n <= nfresh'
        BY <3>1, <1>2
      <3> QED
        BY <3>1, <3>2, <1>3 DEF VisitOK
    <2> QED
      BY <2>1, <2>2
  <1>12. /\ Coming(v)' = {Token(t.dev, "refresh", nfresh')}
         /\ \A w \in Visitors \ {v} : Coming(w)' = Coming(w)
    BY <1>5, <1>6 DEF Coming
  <1>13. ASSUME NEW w \in Visitors PROVE \A x \in Coming(w) : x.n # nfresh'
    <2>1. CASE visit[w].pc = "rotate"
      BY <2>1, <1>2 DEF Coming, Token, VisitOK, DevTypes, Visits
    <2>2. CASE visit[w].pc # "rotate"
      BY <2>2, <1>8 DEF Coming, AllIssued, Held, DevTypes, Visits
    <2> QED
      BY <2>1, <2>2
  <1>14. \A x \in Coming(v)' : x.n = nfresh'
    BY <1>12 DEF Token
  <1>15. ASSUME NEW w \in Visitors PROVE ComingIsNew(w)'
    <2>1. \A x \in store \union spent : x.n # nfresh'
      BY <1>8 DEF AllIssued, DevTypes
    <2>2. \A y \in Visitors : \A x \in visit'[y].old : x.n # nfresh'
      <3>1. \A y \in Visitors : \A x \in visit[y].old : x.n # nfresh'
        BY <1>8 DEF AllIssued, Held, DevTypes, Visits
      <3> QED
        BY <3>1, <1>4, <1>5, <1>6, <1>8
    <2>3. CASE w = v
      <3>1. Coming(w)' \intersect (store' \union spent') = {}
        BY <2>1, <2>3, <1>3, <1>14
      <3>2. \A y \in Visitors : Coming(w)' \intersect visit'[y].old = {}
        BY <2>2, <2>3, <1>14
      <3>3. \A y \in Visitors \ {w} : Coming(w)' \intersect Coming(y)' = {}
        BY <2>3, <1>12, <1>13, <1>14
      <3> QED
        BY <3>1, <3>2, <3>3 DEF ComingIsNew
    <2>4. CASE w # v
      <3>1. t \notin Coming(w) /\ Coming(w)' = Coming(w)
        BY <2>4, <1>12 DEF ComingIsNew
      <3>2. Coming(w)' \intersect (store' \union spent') = {}
        BY <3>1, <1>3 DEF ComingIsNew
      <3>3. \A y \in Visitors : Coming(w)' \intersect visit'[y].old = {}
        BY <3>1, <1>5, <1>6 DEF ComingIsNew
      <3>4. \A y \in Visitors \ {w} : Coming(w)' \intersect Coming(y)' = {}
        BY <3>1, <1>12, <1>13, <1>14 DEF ComingIsNew
      <3> QED
        BY <3>2, <3>3, <3>4 DEF ComingIsNew
    <2> QED
      BY <2>3, <2>4
  <1>16. RevokedIsDead' /\ SpentIsGone'
    BY <1>3 DEF RevokedIsDead, SpentIsGone
  <1> QED
    BY <1>3, <1>7, <1>9, <1>10, <1>11, <1>15, <1>16, CodesKept

\* The old refresh token leaves the store; the new pair is what was announced.
LEMMA RotateKeep == ASSUME PairingInv, NEW v \in Visitors, Rotate(v) PROVE PairingInv'
  <1> USE DEF PairingInv, TokensOK
  <1> DEFINE r == visit[v]
             D == Token(r.dev, "device", r.n)
             F == Token(r.dev, "refresh", r.n)
             s == [r EXCEPT !.pc = "put", !.put = {D, F}]
  <1>1. r.pc = "rotate" /\ store' = store \ r.old /\ Goes(v, s)
    BY DEF Rotate, revoke
  <1>2. UNCHANGED <<device, loader, gone, slipped, spent, nfresh, code, claims>>
    BY DEF Rotate, devGhosts, devCounts
  <1>3. /\ r \in Visits /\ r.dev \in DevIds /\ r.n \in Nat /\ r.n <= nfresh
        /\ device[r.dev] # "none" /\ \A t \in r.old : t.kind = "refresh"
    BY <1>1 DEF DevTypes, Visits, VisitOK
  <1>4. /\ D \in Tokens /\ F \in Tokens /\ D.dev = r.dev /\ F.dev = r.dev
        /\ D.kind = "device" /\ F.kind = "refresh" /\ D.n = r.n /\ F.n = r.n
    BY <1>3 DEF Token, Tokens
  <1> HIDE DEF D, F
  <1>5. s \in Visits /\ s.pc = "put" /\ s.put = {D, F} /\ s.old = r.old /\ s.dev = r.dev /\ s.n = r.n
    BY <1>3, <1>4 DEF Visits
  <1>6. /\ visit'[v] = s /\ \A w \in Visitors \ {v} : visit'[w] = visit[w]
        /\ visit' \in [Visitors -> Visits]
    BY <1>1, <1>5 DEF Goes, DevTypes
  <1> HIDE DEF s, r
  <1>7. DevTypes'
    BY <1>1, <1>2, <1>6 DEF DevTypes
  <1>8. Issued(D) /\ Issued(F)
    BY <1>3, <1>4 DEF Issued
  <1>9. AllIssued'
    <2>1. ASSUME NEW w \in Visitors, NEW x \in Held(w)' PROVE Issued(x)
      <3>1. CASE w = v
        <4>1. x \in {D, F} \/ x \in Held(v)
          BY <3>1, <1>5, <1>6, <2>1 DEF Held, r
        <4> QED
          BY <4>1, <1>8 DEF AllIssued
      <3>2. CASE w # v
        BY <3>2, <1>6, <2>1 DEF Held, AllIssued
      <3> QED
        BY <3>1, <3>2
    <2> QED
      BY <1>1, <1>2, <2>1 DEF AllIssued, Issued
  <1>10. KindsOK' /\ GoneOK'
    BY <1>1, <1>2, <1>5, <1>6 DEF KindsOK, GoneOK, r
  <1>11. ASSUME NEW w \in Visitors PROVE VisitOK(w)'
    <2>1. CASE w = v
      <3>1. \A t \in s.put : t.dev = s.dev
        BY <1>4, <1>5
      <3> QED
        BY <2>1, <3>1, <1>1, <1>2, <1>3, <1>5, <1>6 DEF VisitOK
    <2>2. CASE w # v
      BY <2>2, <1>1, <1>2, <1>6 DEF VisitOK
    <2> QED
      BY <2>1, <2>2
  <1>12. ASSUME NEW w \in Visitors PROVE Coming(w)' = Coming(w)
    <2>1. CASE w = v
      <3>1. Coming(v)' = {F}
        <4>1. visit'[v].pc # "rotate" /\ visit'[v].put = {D, F}
          BY <1>5, <1>6
        <4> QED
          BY <4>1, <1>4 DEF Coming
      <3>2. Coming(v) = {F}
        BY <1>1 DEF Coming, F, r
      <3> QED
        BY <2>1, <3>1, <3>2
    <2>2. CASE w # v
      BY <2>2, <1>6 DEF Coming
    <2> QED
      BY <2>1, <2>2
  <1>13. ASSUME NEW w \in Visitors PROVE ComingIsNew(w)'
    <2>1. \A x \in Visitors : visit'[x].old = visit[x].old
      BY <1>5, <1>6 DEF r
    <2> QED
      BY <2>1, <1>1, <1>2, <1>12 DEF ComingIsNew
  <1>14. RevokedIsDead' /\ SpentIsGone'
    BY <1>1, <1>2 DEF RevokedIsDead, SpentIsGone
  <1> QED
    BY <1>2, <1>7, <1>9, <1>10, <1>11, <1>13, <1>14, CodesKept

\* Revoking marks the row; nobody who was storing a token of it is forgotten.
LEMMA RevokeKeep == ASSUME PairingInv, NEW v \in Visitors, link_devices_revoke(v) PROVE PairingInv'
  <1> USE DEF PairingInv, TokensOK
  <1>1. UNCHANGED <<loader, spent, nfresh, code, claims>>
    BY DEF link_devices_revoke, devCounts
  <1>2. CASE \E d \in DevIds : /\ visit[v].pc = "idle" /\ revoke_link_device(d)
                               /\ Goes(v, [NoVisit EXCEPT !.pc = "revoke", !.dev = d])
                               /\ UNCHANGED <<store, gone, slipped>>
    <2>1. PICK d \in DevIds : /\ device[d] # "none" /\ device' = [device EXCEPT ![d] = "revoked"]
                              /\ visit' = [visit EXCEPT ![v] = [NoVisit EXCEPT !.pc = "revoke", !.dev = d]]
                              /\ UNCHANGED <<store, gone, slipped>>
      BY <1>2 DEF revoke_link_device, Goes
    <2> DEFINE r == [NoVisit EXCEPT !.pc = "revoke", !.dev = d]
    <2>2. r \in Visits /\ r.pc = "revoke" /\ r.dev = d /\ r.put = {} /\ r.old = {} /\ r.n = 0
      BY DEF NoVisit, Visits
    <2>3. /\ visit'[v] = r /\ \A w \in Visitors \ {v} : visit'[w] = visit[w]
          /\ visit' \in [Visitors -> Visits]
      BY <2>1, <2>2 DEF DevTypes
    <2> HIDE DEF r
    <2>4. /\ device' \in [DevIds -> {"none", "live", "revoked"}] /\ device'[d] = "revoked"
          /\ \A e \in DevIds : device[e] # "none" => device'[e] # "none"
          /\ \A e \in DevIds : device[e] = "revoked" => device'[e] = "revoked"
      BY <2>1 DEF DevTypes
    <2>5. DevTypes'
      BY <1>1, <2>1, <2>3, <2>4 DEF DevTypes
    <2>6. AllIssued'
      <3>1. \A x : x \in Tokens /\ Issued(x) => Issued(x)'
        BY <1>1, <2>4 DEF Issued, Tokens
      <3>2. \A w \in Visitors : Held(w)' \subseteq Held(w) /\ Held(w) \subseteq Tokens
        BY <2>2, <2>3 DEF Held, DevTypes, Visits
      <3> QED
        BY <1>1, <2>1, <3>1, <3>2 DEF AllIssued, DevTypes
    <2>7. KindsOK' /\ GoneOK'
      BY <1>1, <2>1, <2>2, <2>3, <2>4 DEF KindsOK, GoneOK, DevTypes
    <2>8. ASSUME NEW w \in Visitors PROVE VisitOK(w)'
      <3>1. CASE w = v
        BY <3>1, <1>1, <2>2, <2>3, <2>4 DEF VisitOK, DevTypes
      <3>2. CASE w # v
        BY <3>2, <1>1, <2>1, <2>3, <2>4 DEF VisitOK
      <3> QED
        BY <3>1, <3>2
    <2>9. ASSUME NEW w \in Visitors PROVE Coming(w)' \subseteq Coming(w)
      BY <2>2, <2>3 DEF Coming
    <2>10. ASSUME NEW w \in Visitors PROVE ComingIsNew(w)'
      BY <1>1, <2>1, <2>2, <2>3, <2>9 DEF ComingIsNew
    <2>11. RevokedIsDead' /\ SpentIsGone'
      BY <1>1, <2>1 DEF RevokedIsDead, SpentIsGone
    <2> QED
      BY <1>1, <2>5, <2>6, <2>7, <2>8, <2>10, <2>11, CodesKept
  <1>3. CASE /\ visit[v].pc = "revoke" /\ store' = store \ revoke_all_by_device(visit[v].dev) /\ Over(v)
             /\ gone' = gone \union {visit[v].dev}
             /\ slipped' = IF visit[v].dev \in {visit[w].dev : w \in Visitors \ {v}}
                                                 \union {t.dev : t \in loader.todo}
                           THEN slipped \union {visit[v].dev} ELSE slipped
             /\ UNCHANGED device
    <2> DEFINE d == visit[v].dev
    <2>1. d \in DevIds /\ device[d] = "revoked"
      BY <1>3 DEF VisitOK
    <2>2. store' \subseteq store /\ (\A t \in store' : t.dev # d)
      BY <1>3 DEF revoke_all_by_device
    <2>3. /\ slipped \subseteq slipped'
          /\ \A w \in Visitors \ {v} : visit[w].dev = d => d \in slipped'
          /\ \A t \in loader.todo : t.dev = d => d \in slipped'
      BY <1>3
    <2>4. /\ visit'[v] = NoVisit /\ \A w \in Visitors \ {v} : visit'[w] = visit[w]
          /\ visit' \in [Visitors -> Visits]
      BY <1>3, BlankVisits DEF Over, Goes, DevTypes, Blank
    <2>5. gone' = gone \union {d} /\ UNCHANGED device
      BY <1>3
    <2> HIDE DEF d
    <2>6. NoVisit.pc = "idle" /\ NoVisit.put = {} /\ NoVisit.old = {} /\ NoVisit.n = 0
      BY DEF NoVisit
    <2>7. DevTypes'
      BY <1>1, <2>1, <2>2, <2>4, <2>5 DEF DevTypes
    <2>8. AllIssued'
      BY <1>1, <2>2, <2>4, <2>5, <2>6 DEF AllIssued, Held, Issued
    <2>9. KindsOK'
      BY <1>1 DEF KindsOK
    <2>10. GoneOK'
      BY <1>1, <2>1, <2>3, <2>4, <2>5, <2>6 DEF GoneOK
    <2>11. ASSUME NEW w \in Visitors PROVE VisitOK(w)'
      <3>1. CASE w = v
        BY <3>1, <1>1, <2>4, <2>6 DEF VisitOK, DevTypes
      <3>2. CASE w # v
        BY <3>2, <1>1, <2>2, <2>4, <2>5 DEF VisitOK
      <3> QED
        BY <3>1, <3>2
    <2>12. ASSUME NEW w \in Visitors PROVE Coming(w)' \subseteq Coming(w)
      BY <2>4, <2>6 DEF Coming
    <2>13. ASSUME NEW w \in Visitors PROVE ComingIsNew(w)'
      BY <1>1, <2>2, <2>4, <2>6, <2>12 DEF ComingIsNew
    <2>14. RevokedIsDead' /\ SpentIsGone'
      BY <1>1, <2>2, <2>3, <2>5 DEF RevokedIsDead, SpentIsGone
    <2> QED
      BY <1>1, <2>7, <2>8, <2>9, <2>10, <2>11, <2>13, <2>14, CodesKept
  <1> QED
    BY <1>2, <1>3 DEF link_devices_revoke

\* A restart keeps the rows only, and loads the devices that are not revoked.
LEMMA RebootKeep == ASSUME PairingInv, Reboot PROVE PairingInv'
  <1> USE DEF PairingInv, TokensOK
  <1>1. /\ store' = {} /\ visit' = [v \in Visitors |-> NoVisit] /\ slipped' = {}
        /\ loader'.todo = {Token(d, "device", 0) : d \in {e \in DevIds : device[e] = "live"}}
        /\ UNCHANGED <<device, code, claims, gone, spent, nfresh>>
    BY DEF Reboot
  <1>2. \A t \in loader'.todo : t \in Tokens /\ device[t.dev] = "live" /\ t.kind = "device" /\ t.n = 0
    BY <1>1 DEF Token, Tokens
  <1>3. /\ NoVisit \in Visits /\ NoVisit.pc = "idle" /\ NoVisit.put = {} /\ NoVisit.old = {}
        /\ NoVisit.n = 0
    BY DEF NoVisit, Visits
  <1>4. DevTypes'
    <2>1. loader' \in [on : BOOLEAN, todo : SUBSET Tokens]
      BY <1>2 DEF Reboot
    <2> QED
      BY <1>1, <1>3, <2>1 DEF DevTypes
  <1>5. AllIssued'
    BY <1>1, <1>2, <1>3 DEF AllIssued, Held, Issued, DevTypes
  <1>6. KindsOK' /\ GoneOK'
    BY <1>1, <1>2, <1>3 DEF KindsOK, GoneOK
  <1>7. ASSUME NEW v \in Visitors PROVE VisitOK(v)' /\ Coming(v)' = {}
    BY <1>1, <1>3 DEF VisitOK, Coming, DevTypes
  <1>8. ASSUME NEW v \in Visitors PROVE ComingIsNew(v)'
    BY <1>7 DEF ComingIsNew
  <1>9. RevokedIsDead' /\ SpentIsGone'
    BY <1>1 DEF RevokedIsDead, SpentIsGone
  <1> QED
    BY <1>1, <1>4, <1>5, <1>6, <1>7, <1>8, <1>9, CodesKept

\* The loader stores the device token of a row it read, or stops.
LEMMA LoadKeep == ASSUME PairingInv, load_tokens_from_db PROVE PairingInv'
  <1> USE DEF PairingInv, TokensOK
  <1>1. UNCHANGED <<device, visit, gone, slipped, spent, nfresh, code, claims>>
    BY DEF load_tokens_from_db, devGhosts, devCounts
  <1>2. /\ loader'.todo \subseteq loader.todo /\ store' \subseteq store \union loader.todo
    <2>1. CASE loader' = NoLoader /\ UNCHANGED store
      BY <2>1 DEF NoLoader
    <2>2. ASSUME NEW t \in loader.todo, store' = store \union {t}, loader' = [loader EXCEPT !.todo = @ \ {t}]
          PROVE  loader'.todo \subseteq loader.todo /\ store' \subseteq store \union loader.todo
      BY <2>2 DEF DevTypes
    <2> QED
      BY <2>1, <2>2 DEF load_tokens_from_db
  <1>3. DevTypes'
    <2>1. loader' \in [on : BOOLEAN, todo : SUBSET Tokens]
      <3>1. CASE loader' = NoLoader
        BY <3>1 DEF NoLoader
      <3>2. ASSUME NEW t \in loader.todo, loader' = [loader EXCEPT !.todo = @ \ {t}]
            PROVE  loader' \in [on : BOOLEAN, todo : SUBSET Tokens]
        BY <3>2 DEF DevTypes
      <3> QED
        BY <3>1, <3>2 DEF load_tokens_from_db
    <2> QED
      BY <1>1, <1>2, <2>1 DEF DevTypes
  <1>4. AllIssued' /\ KindsOK' /\ GoneOK'
    BY <1>1, <1>2 DEF AllIssued, Held, Issued, KindsOK, GoneOK
  <1>5. ASSUME NEW v \in Visitors PROVE VisitOK(v)'
    BY <1>1, <1>2 DEF VisitOK, KindsOK
  <1>6. ASSUME NEW v \in Visitors PROVE ComingIsNew(v)'
    <2>1. Coming(v)' = Coming(v) /\ \A t \in Coming(v) : t.kind = "refresh"
      BY <1>1 DEF Coming, Token
    <2>2. \A w \in Visitors : Coming(w)' = Coming(w)
      BY <1>1 DEF Coming
    <2> QED
      BY <1>1, <1>2, <2>1, <2>2 DEF ComingIsNew, KindsOK
  <1>7. RevokedIsDead' /\ SpentIsGone'
    BY <1>1, <1>2 DEF RevokedIsDead, SpentIsGone, GoneOK, KindsOK
  <1> QED
    BY <1>1, <1>3, <1>4, <1>5, <1>6, <1>7, CodesKept

---------------------------------------------------------------------------
\* The theorems.

\* Every step keeps the invariant.
LEMMA PairingInductive == PairingInv /\ [DevNext]_devVars => PairingInv'
  <1> SUFFICES ASSUME PairingInv, [DevNext]_devVars PROVE PairingInv'
    OBVIOUS
  <1>1. CASE UNCHANGED devVars
    BY <1>1, IdleSteps, CodesKept DEF devVars, PairingInv
  <1>2. CASE MinutePasses \/ link_pair_start \/ TokenExpires \/ Reboot \/ load_tokens_from_db
    BY <1>2, QuietKeep, RebootKeep, LoadKeep
  <1>3. ASSUME NEW q \in Codes,
               \/ qr_generate(q) \/ CodeExpires(q) \/ run_hourly_maintenance(q)
               \/ \E v \in Visitors : qr_claim(v, q)
        PROVE  PairingInv'
    BY <1>3, CodeKeep, ClaimKeep
  <1>4. ASSUME NEW v \in Visitors,
               \/ link_pair_confirm(v) \/ create_link_device(v) \/ StoreToken(v) \/ link_token_refresh(v)
               \/ Rotate(v) \/ link_devices_revoke(v) \/ VisitorLeaves(v)
        PROVE  PairingInv'
    BY <1>4, BlankKeep, CreateKeep, StoreKeep, RefreshKeep, RotateKeep, RevokeKeep
  <1> QED
    BY <1>1, <1>2, <1>3, <1>4 DEF DevNext

\* The inductive invariant holds in every reachable state.
THEOREM PairingInvariant == DevSpec => []PairingInv
  BY PairingInitial, PairingInductive, PTL DEF DevSpec

\* Device tokens end with the revocation of their device (link_devices_revoke), refresh
\* tokens with their first exchange (link_token_refresh), and a QR code is worth one
\* device (qr_claim_handler), whatever requests overlap and however often the server
\* restarts; but a pairing, a refresh or the loader that was about to store a token when
\* the device was revoked stores it (slipped), until the next restart.
THEOREM TokensAreEnded == DevSpec => []TokensEnd
  <1>1. PairingInv => TokensEnd
    <2> SUFFICES ASSUME PairingInv PROVE OneDevicePerCode
      BY DEF PairingInv, TokensOK, TokensEnd
    <2> SUFFICES ASSUME NEW q \in Codes PROVE Cardinality(claims[q]) <= 1
      BY DEF OneDevicePerCode
    <2>1. claims[q] = {} \/ \E d \in DevIds : claims[q] = {d}
      BY DEF PairingInv, CodesOK
    <2>2. CASE claims[q] = {}
      BY <2>2, FS_EmptySet
    <2>3. ASSUME NEW d \in DevIds, claims[q] = {d} PROVE Cardinality(claims[q]) <= 1
      <3>1. Cardinality({d}) = 1
        BY FS_Singleton
      <3> QED
        BY <2>3, <3>1
    <2> QED
      BY <2>1, <2>2, <2>3
  <1> QED
    BY <1>1, PairingInvariant, PTL
=============================================================================
