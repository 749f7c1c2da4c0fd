---------------------- MODULE UploadFinalizationProofs ----------------------
(***************************************************************************)
(* What holds of every upload, for any number of concurrent requests,      *)
(* chunks and faults: the wholeness and publication of a finalized upload, *)
(* the fencing of its owners, the finality of its verdict and the honesty  *)
(* of the session cache.                                                   *)
(***************************************************************************)
EXTENDS UploadFinalization, FiniteSetTheorems, TLAPS

HasFile == part # NoFile \/ final # NoFile

\* The labels from the entry of verify_and_finalize_upload on.
Finalizers == Owners \cup {"enter", "acquire", "inspect", "poll", "take_epoch",
                           "take_lease", "completed", "failed", "reload", "install"}

\* What the shared state owes.
SharedOK ==
    /\ Received # {} => HasFile
    /\ row.status \in {"finalizing", "completed", "failed"} => Received = Chunks
    /\ row.status = "failed" => row.class = "terminal"
    /\ row.status = "completed" => registered
    /\ registered => final # NoFile
    /\ ram.status = "completed" => row.status = "completed"
    /\ ram.received \subseteq Received

\* What a worker has established when it is at label l.
Ready(l, w) ==
    /\ l \in {"write", "receipt"} => HasFile
    /\ l = "note" => worker[w].chunk \in Received
    /\ l \in Finalizers => Received = Chunks
    /\ l \in {"size", "hash", "assert1", "promote"}
          => worker[w].target = "part" \/ final # NoFile
    /\ l \in {"assert2", "register", "complete"} => final # NoFile
    /\ l = "complete" => registered
    /\ l = "completed" => row.status = "completed"

\* What the copies of shared state that a worker carries are worth.
CopiesOK(w) ==
    /\ worker[w].fresh /\ row.status = "finalizing" => row.lease = "expired"
    /\ worker[w].snap.received \subseteq Received
    /\ worker[w].snap.status = "completed" => row.status = "completed"

\* A request holds the staging file open only while it writes.
HandleOK(w) == worker[w].pc # "write" => worker[w].fd = NoFile

WorkerOK(w) == Ready(worker[w].pc, w) /\ CopiesOK(w) /\ HandleOK(w)

\* A token is held once: by one worker or by one orphaned heartbeat.
TokensOK ==
    /\ row.status = "finalizing" => row.token # 0
    /\ row.token <= row.attempts
    /\ 0 \notin orphans
    /\ \A t \in orphans : t <= row.attempts
    /\ \A w \in Workers :
         /\ worker[w].token <= row.attempts
         /\ worker[w].token \notin orphans
         /\ worker[w].pc \in Owners => worker[w].token # 0
         /\ worker[w].hb = "on" => worker[w].token # 0
         /\ \A v \in Workers : v # w /\ worker[w].token # 0
                                 => worker[v].token # worker[w].token

\* The inductive invariant.
IInv == TypeOK /\ SharedOK /\ (\A w \in Workers : WorkerOK(w)) /\ TokensOK

-----------------------------------------------------------------------------
LEMMA RestingType == Resting \in WorkerStates /\ Absent \in Sessions
  <1>1. 0 \in Chunks
    BY ChunksAssumption DEF Chunks
  <1>2. Absent \in Sessions
    BY DEF Absent, Sessions, Statuses
  <1> QED
    BY <1>1, <1>2 DEF Resting, WorkerStates, Labels

\* The updates of a worker's record stay within its type.
LEMMA Updates ==
    ASSUME NEW r \in WorkerStates, NEW l \in Labels
    PROVE  /\ \A f \in Inodes \cup {NoFile} : [r EXCEPT !.pc = l, !.fd = f] \in WorkerStates
           /\ [r EXCEPT !.pc = l, !.hb = "on"] \in WorkerStates
           /\ \A t \in {"part", "final"} : [r EXCEPT !.pc = l, !.target = t] \in WorkerStates
           /\ [r EXCEPT !.pc = l, !.fresh = TRUE] \in WorkerStates
           /\ \A m \in Sessions : [r EXCEPT !.pc = l, !.snap = m] \in WorkerStates
           /\ \A t \in Nat : [r EXCEPT !.pc = l, !.token = t] \in WorkerStates
           /\ [r EXCEPT !.fresh = FALSE] \in WorkerStates
           /\ \A h \in {"off", "on", "lost", "dead"} : [r EXCEPT !.hb = h] \in WorkerStates
  BY DEF WorkerStates

\* What a worker keeps when the row it read is overtaken.
LEMMA Forgets ==
    ASSUME NEW r \in WorkerStates, NEW q, q = [r EXCEPT !.fresh = FALSE]
    PROVE  /\ q \in WorkerStates
           /\ q.pc = r.pc /\ q.token = r.token /\ q.fd = r.fd /\ q.snap = r.snap
           /\ q.chunk = r.chunk /\ q.hb = r.hb /\ q.target = r.target
           /\ q.fresh = FALSE
  BY DEF WorkerStates

\* What no step takes back.
Grows ==
    /\ HasFile => HasFile'
    /\ Received \subseteq Received'
    /\ Received' \subseteq Chunks
    /\ final # NoFile => final' # NoFile
    /\ registered => registered'
    /\ row.status = "completed" => row'.status = "completed"

\* A worker that a step leaves alone keeps what it has established.
LEMMA SameOK ==
    ASSUME NEW v \in Workers, WorkerOK(v), Grows, worker'[v] = worker[v],
           worker[v].fresh /\ row'.status = "finalizing" => row'.lease = "expired"
    PROVE  WorkerOK(v)'
  <1>1. Ready(worker[v].pc, v) /\ CopiesOK(v) /\ HandleOK(v)
    BY DEF WorkerOK
  <1>2. Ready(worker[v].pc, v)'
    BY <1>1 DEF Ready, Grows, HasFile
  <1>3. CopiesOK(v)'
    BY <1>1 DEF CopiesOK, Grows
  <1> QED
    BY <1>1, <1>2, <1>3 DEF WorkerOK, HandleOK

\* A worker that has returned has nothing to show.
LEMMA RestingOK ==
    ASSUME NEW v \in Workers, worker'[v] = Resting
    PROVE  WorkerOK(v)'
  BY DEF WorkerOK, Ready, CopiesOK, HandleOK, Resting, Absent, Finalizers, Owners

\* A step that neither takes the row over nor renews its lease.
Calm ==
    /\ row'.attempts = row.attempts
    /\ row'.token = row.token \/ row'.token = 0
    /\ row'.status = "finalizing" =>
          /\ row.status = "finalizing"
          /\ row'.token = row.token
          /\ row'.lease = row.lease \/ row'.lease = "expired"

\* What is owed about the workers and their tokens.
WorkersOK ==
    /\ worker \in [Workers -> WorkerStates]
    /\ orphans \subseteq Nat
    /\ \A w \in Workers : WorkerOK(w)
    /\ TokensOK

\* One worker moves, keeping its token or dropping it.
LEMMA OneMoves ==
    ASSUME IInv, Grows, Calm, UNCHANGED orphans, NEW w \in Workers,
           worker' \in [Workers -> WorkerStates],
           \A v \in Workers : v # w => worker'[v] = worker[v],
           WorkerOK(w)',
           worker'[w].token = 0 \/ worker'[w].token = worker[w].token,
           worker'[w].pc \in Owners => worker'[w].token # 0,
           worker'[w].hb = "on" => worker'[w].token # 0
    PROVE  WorkersOK'
  <1>1. ASSUME NEW v \in Workers PROVE WorkerOK(v)'
    <2>1. WorkerOK(v)
      BY DEF IInv
    <2>2. worker[v].fresh /\ row'.status = "finalizing" => row'.lease = "expired"
      BY <2>1 DEF WorkerOK, CopiesOK, Calm
    <2> QED
      BY <2>1, <2>2, SameOK
  <1>2. TokensOK'
    BY DEF IInv, TypeOK, TokensOK, Calm, WorkerStates
  <1> QED
    BY <1>1, <1>2 DEF WorkersOK, IInv, TypeOK

\* The step is a jump to another label: of an owner only to an owner's.
LEMMA GotoOK ==
    ASSUME IInv, Grows, Calm, UNCHANGED orphans, NEW w \in Workers, NEW l \in Labels,
           Goto(w, l), Ready(l, w)', l \in Owners => worker[w].pc \in Owners,
           l # "write", worker[w].pc # "write"
    PROVE  WorkersOK'
  <1>0. worker \in [Workers -> WorkerStates]
    BY DEF IInv, TypeOK
  <1>1. /\ worker' \in [Workers -> WorkerStates]
        /\ \A v \in Workers : v # w => worker'[v] = worker[v]
    BY <1>0 DEF Goto, WorkerStates
  <1>2. /\ worker'[w].pc = l
        /\ worker'[w].fd = worker[w].fd
        /\ worker'[w].token = worker[w].token
        /\ worker'[w].hb = worker[w].hb
        /\ worker'[w].fresh = worker[w].fresh
        /\ worker'[w].snap = worker[w].snap
    BY <1>0 DEF Goto, WorkerStates
  <1>3. WorkerOK(w)'
    <2>1. CopiesOK(w)
      BY DEF IInv, WorkerOK
    <2>2. CopiesOK(w)'
      BY <1>2, <2>1 DEF CopiesOK, Grows, Calm
    <2>3. HandleOK(w)'
      BY <1>2 DEF IInv, WorkerOK, HandleOK
    <2> QED
      BY <1>2, <2>2, <2>3 DEF WorkerOK
  <1>4. /\ worker'[w].pc \in Owners => worker'[w].token # 0
        /\ worker'[w].hb = "on" => worker'[w].token # 0
    BY <1>2 DEF IInv, TokensOK
  <1> QED
    BY <1>1, <1>2, <1>3, <1>4, OneMoves

\* The step ends a call.
LEMMA ReturnOK ==
    ASSUME IInv, Grows, Calm, UNCHANGED orphans, NEW w \in Workers, Return(w)
    PROVE  WorkersOK'
  <1>1. /\ worker' \in [Workers -> WorkerStates]
        /\ \A v \in Workers : v # w => worker'[v] = worker[v]
        /\ worker'[w] = Resting
    BY RestingType DEF IInv, TypeOK, Return
  <1>2. WorkerOK(w)'
    BY <1>1, RestingOK
  <1>3. worker'[w].token = 0 /\ worker'[w].pc = "idle" /\ worker'[w].hb = "off"
    BY <1>1 DEF Resting
  <1> QED
    BY <1>1, <1>2, <1>3, OneMoves DEF Owners

\* The step ends a call and may leave its heartbeat behind.
LEMMA AbandonOK ==
    ASSUME IInv, Grows, Calm, NEW w \in Workers, Abandon(w)
    PROVE  WorkersOK'
  <1>1. /\ worker' \in [Workers -> WorkerStates]
        /\ \A v \in Workers : v # w => worker'[v] = worker[v]
        /\ worker'[w] = Resting
    BY RestingType DEF IInv, TypeOK, Abandon, Return
  <1>2. ASSUME NEW v \in Workers PROVE WorkerOK(v)'
    <2>1. WorkerOK(v)
      BY DEF IInv
    <2>2. worker[v].fresh /\ row'.status = "finalizing" => row'.lease = "expired"
      BY <2>1 DEF WorkerOK, CopiesOK, Calm
    <2>3. CASE v = w
      BY <1>1, <2>3, RestingOK
    <2>4. CASE v # w
      BY <1>1, <2>1, <2>2, <2>4, SameOK
    <2> QED
      BY <2>3, <2>4
  <1>3. /\ worker'[w].token = 0
        /\ worker'[w].pc \notin Owners
        /\ worker'[w].hb = "off"
    BY <1>1 DEF Resting, Owners
  <1>4. /\ TokensOK
        /\ orphans \subseteq Nat
        /\ row.attempts \in Nat
        /\ \A v \in Workers : worker[v].token \in Nat
    BY DEF IInv, TypeOK, WorkerStates
  <1>5. TokensOK'
    <2>1. orphans' \subseteq orphans \cup {worker[w].token} /\ 0 \notin orphans'
      BY <1>4 DEF Abandon, TokensOK
    <2>2. \A t \in orphans' : t <= row'.attempts
      BY <1>4, <2>1 DEF TokensOK, Calm
    <2>3. \A v \in Workers : worker'[v].token \notin orphans'
      BY <1>1, <1>3, <1>4, <2>1 DEF TokensOK
    <2> QED
      BY <1>1, <1>3, <1>4, <2>1, <2>2, <2>3 DEF TokensOK, Calm
  <1> QED
    BY <1>1, <1>2, <1>4, <1>5 DEF WorkersOK, Abandon, WorkerStates

\* What is owed about everything else.
OthersOK ==
    /\ row \in [status : Statuses, class : {"none", "terminal"}, token : Nat,
                epoch : Nat, lease : {"none", "valid", "expired"}, attempts : Nat]
    /\ receipts \in [Chunks -> {"hole", "good", "bad"}]
    /\ registered \in BOOLEAN
    /\ files \in [Inodes -> [Chunks -> {"hole", "good", "bad"}]]
    /\ part \in Inodes \cup {NoFile}
    /\ final \in Inodes \cup {NoFile}
    /\ ram \in Sessions
    /\ epoch \in Nat
    /\ faults \in 0..MaxFaults
    /\ SharedOK

LEMMA Together ==
    ASSUME WorkersOK', OthersOK'
    PROVE  IInv'
  BY DEF IInv, TypeOK, WorkersOK, OthersOK

\* A step that changes nothing but workers and the cache.
LEMMA OthersSame ==
    ASSUME IInv, UNCHANGED <<row, receipts, registered, disk>>,
           epoch' \in Nat, faults' \in 0..MaxFaults, ram' \in Sessions,
           ram'.status = "completed" => row.status = "completed",
           ram'.received \subseteq Received
    PROVE  OthersOK' /\ Grows /\ Calm
  <1>1. OthersOK'
    BY DEF IInv, TypeOK, OthersOK, SharedOK, disk, HasFile, Received
  <1>2. Grows
    BY DEF Grows, disk, HasFile, Received
  <1>3. Calm
    BY DEF Calm
  <1> QED
    BY <1>1, <1>2, <1>3

LEMMA Quiet ==
    ASSUME IInv, UNCHANGED <<db, disk, ram>>, epoch' \in Nat, faults' \in 0..MaxFaults
    PROVE  OthersOK' /\ Grows /\ Calm
  BY OthersSame DEF IInv, TypeOK, SharedOK, db

LEMMA QuietStep ==
    ASSUME IInv, UNCHANGED <<db, disk, ram, epoch, faults>>
    PROVE  OthersOK' /\ Grows /\ Calm
  BY Quiet DEF IInv, TypeOK

LEMMA FaultOK ==
    ASSUME IInv, NEW kind, Fault(kind)
    PROVE  faults' \in 0..MaxFaults
  BY FaultsAssumption DEF IInv, TypeOK, Fault

\* What the cache holds after it is consulted.
LEMMA LoadedOK ==
    ASSUME IInv
    PROVE  /\ Loaded \in Sessions
           /\ Loaded.status = "completed" => row.status = "completed"
           /\ Loaded.received \subseteq Received
  BY DEF IInv, TypeOK, SharedOK, Loaded, Session, Sessions, Received

\* The cache of a running process learns a status.
LEMMA CacheStatus ==
    ASSUME IInv, NEW st \in Statuses, ram' = [ram EXCEPT !.status = st],
           st = "completed" => row.status = "completed"
    PROVE  /\ ram' \in Sessions
           /\ ram'.status = "completed" => row.status = "completed"
           /\ ram'.received \subseteq Received
  <1>1. ram \in Sessions /\ ram.received \subseteq Received
    BY DEF IInv, TypeOK, SharedOK
  <1> QED
    BY <1>1 DEF Sessions

-----------------------------------------------------------------------------
(* upload_chunk                                                            *)

LEMMA LookupOK ==
    ASSUME IInv, NEW w \in Workers, Lookup(w)
    PROVE  IInv'
  <1>1. OthersOK' /\ Grows /\ Calm /\ UNCHANGED orphans
    BY QuietStep DEF Lookup
  <1>2. CASE Goto(w, "open")
    <2>1. Ready("open", w)'
      BY DEF Ready, Finalizers, Owners
    <2> QED
      BY <1>1, <1>2, <2>1, GotoOK, Together DEF Labels, Owners, Lookup, At
  <1>3. CASE AllIn(ram) /\ Goto(w, "enter")
    <2>1. Ready("enter", w)'
      BY <1>1, <1>3 DEF IInv, SharedOK, Ready, AllIn, Grows
    <2> QED
      BY <1>1, <1>3, <2>1, GotoOK, Together DEF Labels, Owners, Lookup, At
  <1>4. CASE Return(w)
    BY <1>1, <1>4, ReturnOK, Together
  <1> QED
    BY <1>2, <1>3, <1>4 DEF Lookup

LEMMA ReceiveOK ==
    ASSUME IInv, NEW w \in Requests, NEW c \in Chunks, NEW d \in Payloads,
           Receive(w, c, d)
    PROVE  IInv'
  <1>1. OthersOK' /\ Grows /\ Calm /\ UNCHANGED orphans
    BY OthersSame, LoadedOK DEF Receive, db, IInv, TypeOK
  <1>2. w \in Workers /\ worker \in [Workers -> WorkerStates] /\ d \in {"good", "bad"}
    BY PayloadsAssumption DEF Workers, IInv, TypeOK
  <1>3. CASE worker' = worker
    <2>1. worker'[w] = worker[w]
      BY <1>3
    <2>2. WorkerOK(w)'
      BY <1>1, <1>2, <2>1, SameOK DEF IInv, WorkerOK, CopiesOK, Receive, db
    <2>3. /\ worker[w].pc \in Owners => worker[w].token # 0
          /\ worker[w].hb = "on" => worker[w].token # 0
      BY <1>2 DEF IInv, TokensOK
    <2>4. WorkersOK'
      BY <1>1, <1>2, <1>3, <2>2, <2>3, OneMoves
    <2> QED
      BY <1>1, <2>4, Together
  <1>4. CASE worker' = [worker EXCEPT ![w] = [Resting EXCEPT
                          !.pc = "lookup", !.chunk = c, !.data = d]]
    <2>1. /\ worker' \in [Workers -> WorkerStates]
          /\ \A v \in Workers : v # w => worker'[v] = worker[v]
      BY <1>2, <1>4, RestingType DEF WorkerStates, Labels
    <2>2. worker'[w] = [Resting EXCEPT !.pc = "lookup", !.chunk = c, !.data = d]
      BY <1>2, <1>4
    <2>3. /\ worker'[w].pc = "lookup" /\ worker'[w].token = 0
          /\ worker'[w].hb = "off" /\ ~worker'[w].fresh /\ worker'[w].snap = Absent
          /\ worker'[w].fd = NoFile
      BY <2>2 DEF Resting
    <2>4. WorkerOK(w)'
      BY <2>3 DEF WorkerOK, Ready, CopiesOK, HandleOK, Absent, Finalizers, Owners
    <2>5. WorkersOK'
      BY <1>1, <1>2, <2>1, <2>3, <2>4, OneMoves DEF Owners
    <2> QED
      BY <1>1, <2>5, Together
  <1> QED
    BY <1>3, <1>4 DEF Receive

\* There is always a file left for a staging file to be created in.
LEMMA FreeInode ==
    ASSUME IInv, NEW w \in Workers, worker[w].fd = NoFile
    PROVE  \E i \in Inodes : i \notin {final} \cup {worker[v].fd : v \in Workers}
  <1> DEFINE f == [v \in Workers |-> worker[v].fd]
             fds == {worker[v].fd : v \in Workers}
             used == {final} \cup fds
             n == Cardinality(Requests)
  <1>1. n \in Nat /\ IsFiniteSet(Workers) /\ Cardinality(Workers) = n + 1
    <2>1. n \in Nat
      BY WorkersAssumption, FS_CardinalityType
    <2>2. /\ IsFiniteSet(Requests \cup {Recovery})
          /\ Cardinality(Requests \cup {Recovery}) = n + 1
      BY WorkersAssumption, FS_AddElement
    <2> QED
      BY <2>1, <2>2 DEF Workers
  <1>2. IsFiniteSet(fds) /\ Cardinality(fds) <= n + 1
    <2>1. f \in Surjection(Workers, fds)
      BY DEF Surjection
    <2> HIDE DEF f, fds
    <2>3. /\ IsFiniteSet(fds)
          /\ Cardinality(fds) <= Cardinality(Workers)
      BY <1>1, <2>1, FS_Surjection
    <2> QED
      BY <1>1, <2>3, FS_CardinalityType
  <1>3. NoFile \in fds
    OBVIOUS
  <1> HIDE DEF fds
  <1>4. IsFiniteSet(used) /\ Cardinality(used) <= n + 2 /\ NoFile \in used
    <2>0. Cardinality(fds) \in Nat
      BY <1>2, FS_CardinalityType
    <2>a. /\ IsFiniteSet(fds \cup {final})
          /\ \/ Cardinality(fds \cup {final}) = Cardinality(fds)
             \/ Cardinality(fds \cup {final}) = Cardinality(fds) + 1
      BY <1>2, FS_AddElement
    <2>1. /\ IsFiniteSet(fds \cup {final})
          /\ Cardinality(fds \cup {final}) <= n + 2
      BY <1>1, <1>2, <2>0, <2>a
    <2>2. used = fds \cup {final}
      OBVIOUS
    <2> QED
      BY <1>3, <2>1, <2>2
  <1>5. Cardinality(Inodes) = n + 2 /\ NoFile \notin Inodes
    BY <1>1, FS_Interval DEF Inodes, NoFile
  <1>6. ASSUME Inodes \subseteq used PROVE FALSE
    <2> HIDE DEF used
    <2>1. Inodes \subseteq used \ {NoFile}
      BY <1>5, <1>6
    <2>2. /\ IsFiniteSet(used \ {NoFile})
          /\ Cardinality(used \ {NoFile}) = Cardinality(used) - 1
      BY <1>4, FS_RemoveElement
    <2>3. Cardinality(Inodes) <= Cardinality(used \ {NoFile})
      BY <2>1, <2>2, FS_Subset
    <2> QED
      BY <1>1, <1>4, <1>5, <2>2, <2>3, FS_CardinalityType
  <1> QED
    BY <1>6 DEF fds

LEMMA OpenOK ==
    ASSUME IInv, NEW w \in Workers, Open(w)
    PROVE  IInv'
  <1> DEFINE g == IF part # NoFile THEN part
                  ELSE CHOOSE i \in Inodes :
                          i \notin {final} \cup {worker[v].fd : v \in Workers}
  <1>0. worker[w].fd = NoFile
    BY DEF IInv, WorkerOK, HandleOK, Open, At
  <1>1. g \in Inodes
    BY <1>0, FreeInode DEF IInv, TypeOK
  <1>2. /\ worker' = [worker EXCEPT ![w] = [@ EXCEPT !.pc = "write", !.fd = g]]
        /\ part' = g
        /\ final' = final
        /\ files' = files \/ files' = [files EXCEPT ![g] = [c \in Chunks |-> "hole"]]
    BY DEF Open, disk
  <1> HIDE DEF g
  <1>3. OthersOK' /\ Grows /\ Calm /\ UNCHANGED orphans
    <2>1. files' \in [Inodes -> [Chunks -> {"hole", "good", "bad"}]]
      BY <1>1, <1>2 DEF IInv, TypeOK
    <2>2. HasFile'
      BY <1>1, <1>2 DEF HasFile, Inodes, NoFile
    <2>3. UNCHANGED <<row, receipts, registered, ram, epoch, orphans, faults>>
      BY DEF Open, db
    <2>4. OthersOK'
      BY <1>1, <1>2, <2>1, <2>2, <2>3 DEF IInv, TypeOK, OthersOK, SharedOK, Received
    <2>5. Grows
      BY <1>2, <2>2, <2>3 DEF Grows, Received
    <2> QED
      BY <2>3, <2>4, <2>5 DEF Calm
  <1>4. worker \in [Workers -> WorkerStates]
    BY DEF IInv, TypeOK
  <1>5. /\ worker' \in [Workers -> WorkerStates]
        /\ \A v \in Workers : v # w => worker'[v] = worker[v]
    <2>1. worker[w] \in WorkerStates /\ "write" \in Labels
      BY <1>4 DEF Labels
    <2>2. [worker[w] EXCEPT !.pc = "write", !.fd = g] \in WorkerStates
      BY <1>1, <2>1, Updates
    <2> QED
      BY <1>2, <1>4, <2>2
  <1>6. /\ worker'[w].pc = "write"
        /\ worker'[w].token = worker[w].token
        /\ worker'[w].hb = worker[w].hb
        /\ worker'[w].fresh = worker[w].fresh
        /\ worker'[w].snap = worker[w].snap
    BY <1>2, <1>4 DEF WorkerStates
  <1>7. WorkerOK(w)'
    <2>1. HasFile'
      BY <1>1, <1>2 DEF HasFile, Inodes, NoFile
    <2>2. Ready("write", w)'
      BY <2>1 DEF Ready, Finalizers, Owners
    <2>3. CopiesOK(w)'
      BY <1>3, <1>6 DEF IInv, WorkerOK, CopiesOK, Grows, Calm
    <2> QED
      BY <1>6, <2>2, <2>3 DEF WorkerOK, HandleOK
  <1>8. worker'[w].hb = "on" => worker'[w].token # 0
    BY <1>6 DEF IInv, TokensOK
  <1>9. WorkersOK'
    BY <1>3, <1>5, <1>6, <1>7, <1>8, OneMoves DEF Owners
  <1> QED
    BY <1>3, <1>9, Together

LEMMA WriteOK ==
    ASSUME IInv, NEW w \in Workers, Write(w)
    PROVE  IInv'
  <1>1. worker \in [Workers -> WorkerStates]
    BY DEF IInv, TypeOK
  <1>2. OthersOK' /\ Grows /\ Calm /\ UNCHANGED orphans
    <2>1. files' \in [Inodes -> [Chunks -> {"hole", "good", "bad"}]]
      BY <1>1 DEF IInv, TypeOK, Write, WorkerStates
    <2>2. UNCHANGED <<row, receipts, registered, part, final, ram, epoch, orphans, faults>>
      BY DEF Write, db
    <2>3. OthersOK'
      BY <2>1, <2>2 DEF IInv, TypeOK, OthersOK, SharedOK, Received, HasFile
    <2> QED
      BY <2>2, <2>3 DEF Grows, Calm, Received, HasFile
  <1>3. /\ worker' \in [Workers -> WorkerStates]
        /\ \A v \in Workers : v # w => worker'[v] = worker[v]
        /\ worker'[w] = [worker[w] EXCEPT !.pc = "receipt", !.fd = NoFile]
    <2>1. worker[w] \in WorkerStates /\ "receipt" \in Labels
      BY <1>1 DEF Labels
    <2>2. [worker[w] EXCEPT !.pc = "receipt", !.fd = NoFile] \in WorkerStates
      BY <2>1, Updates
    <2> QED
      BY <1>1, <2>2 DEF Write
  <1>4. /\ worker'[w].pc = "receipt"
        /\ worker'[w].fd = NoFile
        /\ worker'[w].token = worker[w].token
        /\ worker'[w].hb = worker[w].hb
        /\ worker'[w].fresh = worker[w].fresh
        /\ worker'[w].snap = worker[w].snap
    BY <1>1, <1>3 DEF WorkerStates
  <1>5. WorkerOK(w)'
    <2>1. HasFile'
      BY <1>2 DEF IInv, WorkerOK, Ready, Write, At, Grows
    <2>2. Ready("receipt", w)'
      BY <2>1 DEF Ready, Finalizers, Owners
    <2>3. CopiesOK(w)'
      BY <1>2, <1>4 DEF IInv, WorkerOK, CopiesOK, Grows, Calm
    <2> QED
      BY <1>4, <2>2, <2>3 DEF WorkerOK, HandleOK
  <1>6. worker'[w].hb = "on" => worker'[w].token # 0
    BY <1>4 DEF IInv, TokensOK
  <1>7. WorkersOK'
    BY <1>2, <1>3, <1>4, <1>5, <1>6, OneMoves DEF Owners
  <1> QED
    BY <1>2, <1>7, Together

LEMMA WriteErrorOK ==
    ASSUME IInv, NEW w \in Workers, WriteError(w)
    PROVE  IInv'
  <1>1. worker \in [Workers -> WorkerStates]
    BY DEF IInv, TypeOK
  <1>2. OthersOK' /\ Grows /\ Calm /\ UNCHANGED orphans
    <2>1. files' \in [Inodes -> [Chunks -> {"hole", "good", "bad"}]]
      BY <1>1 DEF IInv, TypeOK, WriteError, WorkerStates
    <2>2. UNCHANGED <<row, receipts, registered, part, final, ram, epoch, orphans>>
      BY DEF WriteError, db
    <2>3. OthersOK'
      BY <2>1, <2>2, FaultOK DEF IInv, TypeOK, OthersOK, SharedOK, Received, HasFile, WriteError
    <2> QED
      BY <2>2, <2>3 DEF Grows, Calm, Received, HasFile
  <1> QED
    BY <1>2, ReturnOK, Together DEF WriteError

LEMMA ReceiptOK ==
    ASSUME IInv, NEW w \in Workers, Receipt(w)
    PROVE  IInv'
  <1>1. worker \in [Workers -> WorkerStates]
    BY DEF IInv, TypeOK
  <1>2. /\ UNCHANGED <<row, registered, files, part, final, ram, epoch, orphans, faults>>
        /\ At(w, "receipt")
        /\ Goto(w, "note")
    BY DEF Receipt, disk
  <1>3. receipts' \in [Chunks -> {"hole", "good", "bad"}]
    BY <1>1 DEF IInv, TypeOK, Receipt, WorkerStates
  <1>4. worker[w].chunk \in Chunks /\ worker[w].data # "hole"
    BY <1>1 DEF WorkerStates
  <1>5. /\ Received \subseteq Received'
        /\ Received' \subseteq Chunks
        /\ worker[w].chunk \in Received'
    BY <1>3, <1>4 DEF Receipt, Received, IInv, TypeOK
  <1>6. Grows /\ Calm
    BY <1>2, <1>5 DEF Grows, Calm, HasFile
  <1>7. OthersOK'
    <2>1. HasFile'
      BY <1>2 DEF IInv, WorkerOK, Ready, At, HasFile
    <2> QED
      BY <1>2, <1>3, <1>5, <2>1 DEF IInv, TypeOK, OthersOK, SharedOK, Received
  <1>8. Ready("note", w)'
    <2>1. worker'[w].chunk = worker[w].chunk
      BY <1>1, <1>2 DEF Goto, WorkerStates
    <2> QED
      BY <1>5, <2>1 DEF Ready, Finalizers, Owners
  <1>9. WorkersOK'
    BY <1>2, <1>6, <1>8, GotoOK DEF Labels, Owners, At
  <1> QED
    BY <1>7, <1>9, Together

LEMMA NoteOK ==
    ASSUME IInv, NEW w \in Workers, Note(w)
    PROVE  IInv'
  <1>1. worker \in [Workers -> WorkerStates] /\ ram \in Sessions
    BY DEF IInv, TypeOK
  <1>2. worker[w].chunk \in Received /\ Received \subseteq Chunks
    BY DEF IInv, WorkerOK, Ready, Note, At, Received
  <1>3. /\ ram' \in Sessions
        /\ ram'.status = ram.status
        /\ ram'.received = ram.received \cup {worker[w].chunk}
    BY <1>1, <1>2 DEF Note, Sessions
  <1>4. OthersOK' /\ Grows /\ Calm /\ UNCHANGED orphans
    BY <1>2, <1>3, OthersSame DEF IInv, TypeOK, SharedOK, Note, db
  <1>5. CASE AllIn(ram') /\ Goto(w, "enter")
    <2>1. Received = Chunks
      BY <1>2, <1>3, <1>5 DEF AllIn, IInv, SharedOK
    <2>2. Ready("enter", w)'
      BY <1>4, <2>1 DEF Ready, Grows
    <2> QED
      BY <1>4, <1>5, <2>2, GotoOK, Together DEF Labels, Owners, Note, At
  <1>6. CASE Return(w)
    BY <1>4, <1>6, ReturnOK, Together
  <1> QED
    BY <1>5, <1>6 DEF Note

-----------------------------------------------------------------------------
(* verify_and_finalize_upload: becoming the owner                          *)

LEMMA EnterOK ==
    ASSUME IInv, NEW w \in Workers, Enter(w)
    PROVE  IInv'
  <1>1. OthersOK' /\ Grows /\ Calm /\ UNCHANGED orphans
    BY OthersSame, LoadedOK DEF Enter, db, IInv, TypeOK
  <1>2. CASE Return(w)
    BY <1>1, <1>2, ReturnOK, Together
  <1>3. CASE Goto(w, "acquire")
    <2>1. Received = Chunks
      BY DEF Enter, At, IInv, WorkerOK, Ready, Finalizers
    <2>2. Ready("acquire", w)'
      BY <1>1, <2>1 DEF Ready, Grows
    <2> QED
      BY <1>1, <1>3, <2>2, GotoOK, Together DEF Labels, Owners, Enter, At
  <1> QED
    BY <1>2, <1>3 DEF Enter

\* Taking the row: a fresh token for w, and what others read is stale.
LEMMA TakeRowOK ==
    ASSUME IInv, NEW w \in Workers, TakeRow(w), worker[w].pc \in Finalizers,
           row.status # "completed", worker[w].pc # "write",
           UNCHANGED <<receipts, registered, disk, ram, epoch, orphans, faults>>
    PROVE  IInv'
  <1> DEFINE t == row.attempts + 1
  <1>1. /\ worker \in [Workers -> WorkerStates]
        /\ row.attempts \in Nat
        /\ t \in Nat \ {0}
    BY DEF IInv, TypeOK
  <1>2. Received = Chunks /\ Received' = Received
    BY DEF IInv, WorkerOK, Ready, Received
  <1>3. /\ row'.status = "finalizing" /\ row'.token = t /\ row'.attempts = t
        /\ row'.lease = "valid" /\ row'.class = row.class
        /\ row' \in [status : Statuses, class : {"none", "terminal"}, token : Nat,
                epoch : Nat, lease : {"none", "valid", "expired"}, attempts : Nat]
    <2>1. /\ row \in [status : Statuses, class : {"none", "terminal"}, token : Nat,
                epoch : Nat, lease : {"none", "valid", "expired"}, attempts : Nat]
          /\ epoch \in Nat
      BY DEF IInv, TypeOK
    <2> QED
      BY <1>1, <2>1 DEF TakeRow, Statuses
  <1>4. Grows
    BY <1>2 DEF Grows, HasFile, disk
  <1>5. OthersOK'
    <2>1. UNCHANGED <<receipts, registered, files, part, final, ram, epoch, faults>>
      BY DEF disk
    <2> QED
      BY <1>2, <1>3, <2>1 DEF IInv, TypeOK, OthersOK, SharedOK, HasFile
  <1>6. \A v \in Workers : v # w => worker'[v] = [worker[v] EXCEPT !.fresh = FALSE]
    BY <1>1 DEF TakeRow, Overtaken
  <1>7. /\ worker'[w] \in WorkerStates
        /\ worker'[w].pc = "own" /\ worker'[w].token = t /\ worker'[w].fresh = FALSE
        /\ worker'[w].fd = worker[w].fd /\ worker'[w].snap = worker[w].snap
    <2> DEFINE r == [worker[w] EXCEPT !.fresh = FALSE]
    <2>1. worker'[w] = [r EXCEPT !.pc = "own", !.token = t]
      BY <1>1 DEF TakeRow, Overtaken
    <2>2. /\ r \in WorkerStates
          /\ r.fresh = FALSE /\ r.fd = worker[w].fd /\ r.snap = worker[w].snap
      BY <1>1, Forgets
    <2>3. t \in Nat
      BY <1>1
    <2> HIDE DEF r, t
    <2>4. worker'[w] \in WorkerStates
      BY <2>1, <2>2, <2>3 DEF WorkerStates, Labels
    <2>5. /\ worker'[w].pc = "own" /\ worker'[w].token = t
          /\ worker'[w].fd = r.fd /\ worker'[w].snap = r.snap
      BY <2>1, <2>2 DEF WorkerStates
    <2>6. worker'[w].fresh = r.fresh
      BY <2>1, <2>2 DEF WorkerStates
    <2> QED
      BY <2>2, <2>4, <2>5, <2>6
  <1>8. worker' \in [Workers -> WorkerStates]
    <2>1. \A v \in Workers : [worker[v] EXCEPT !.fresh = FALSE] \in WorkerStates
      BY <1>1, Updates DEF Labels
    <2>3. worker' = [v \in Workers |-> worker'[v]]
      BY DEF TakeRow, Overtaken
    <2> QED
      BY <1>6, <1>7, <2>1, <2>3
  <1>9. ASSUME NEW v \in Workers, v # w
         PROVE  /\ worker'[v].pc = worker[v].pc /\ worker'[v].token = worker[v].token
                /\ worker'[v].fd = worker[v].fd /\ worker'[v].snap = worker[v].snap
                /\ worker'[v].chunk = worker[v].chunk /\ worker'[v].hb = worker[v].hb
                /\ worker'[v].target = worker[v].target /\ ~worker'[v].fresh
    <2>1. worker[v] \in WorkerStates /\ worker'[v] = [worker[v] EXCEPT !.fresh = FALSE]
      BY <1>1, <1>6, <1>9
    <2> QED
      BY <2>1, Forgets
  <1>10. ASSUME NEW v \in Workers PROVE WorkerOK(v)'
    <2>1. WorkerOK(v)
      BY DEF IInv
    <2>2. CASE v = w
      <3>1. Ready("own", w)'
        BY <1>2 DEF Ready
      <3> QED
        BY <1>4, <1>7, <2>1, <2>2, <3>1 DEF WorkerOK, CopiesOK, HandleOK, Grows
    <2>3. CASE v # w
      BY <1>4, <1>9, <2>1, <2>3 DEF WorkerOK, Ready, CopiesOK, HandleOK, Grows, HasFile
    <2> QED
      BY <2>2, <2>3
  <1>11. TokensOK'
    <2>1. TokensOK /\ orphans \subseteq Nat /\ \A v \in Workers : worker[v].token \in Nat
      BY <1>1 DEF IInv, TypeOK, WorkerStates
    <2>3. \A v \in Workers : v # w => worker'[v].token < t
      BY <1>1, <1>9, <2>1 DEF TokensOK
    <2>4. t \notin orphans /\ \A u \in orphans : u <= t
      BY <1>1, <2>1 DEF TokensOK
    <2>5. \A v \in Workers : worker'[v].token <= t /\ worker'[v].token \notin orphans
      BY <1>1, <1>7, <1>9, <2>1, <2>3, <2>4 DEF TokensOK
    <2> HIDE DEF t
    <2> QED
      BY <1>1, <1>3, <1>7, <1>9, <2>1, <2>3, <2>4, <2>5 DEF TokensOK
  <1> QED
    BY <1>5, <1>8, <1>10, <1>11, Together DEF WorkersOK, IInv, TypeOK

LEMMA AcquireOK ==
    ASSUME IInv, NEW w \in Workers, Acquire(w)
    PROVE  IInv'
  <1>1. worker[w].pc = "acquire" /\ Received = Chunks
    BY DEF Acquire, At, IInv, WorkerOK, Ready, Finalizers
  <1>2. CASE Acquirable /\ TakeRow(w)
    BY <1>1, <1>2, TakeRowOK DEF Acquire, Acquirable, Finalizers
  <1>3. CASE Goto(w, "inspect") /\ UNCHANGED row
    <2>1. OthersOK' /\ Grows /\ Calm /\ UNCHANGED orphans
      BY <1>3, QuietStep DEF Acquire, db
    <2>2. Ready("inspect", w)'
      BY <1>1, <2>1 DEF Ready, Grows
    <2> QED
      BY <1>1, <1>3, <2>1, <2>2, GotoOK, Together DEF Labels, Owners
  <1> QED
    BY <1>2, <1>3 DEF Acquire

LEMMA TakeEpochOK ==
    ASSUME IInv, NEW w \in Workers, TakeEpoch(w)
    PROVE  IInv'
  <1>1. CASE row.status = "finalizing" /\ TakeRow(w)
    BY <1>1, TakeRowOK DEF TakeEpoch, At, Finalizers
  <1>2. CASE Return(w) /\ UNCHANGED row
    BY <1>2, QuietStep, ReturnOK, Together DEF TakeEpoch, db
  <1> QED
    BY <1>1, <1>2 DEF TakeEpoch

LEMMA TakeLeaseOK ==
    ASSUME IInv, NEW w \in Workers, TakeLease(w)
    PROVE  IInv'
  <1>1. CASE row.status = "finalizing" /\ TakeRow(w)
    BY <1>1, TakeRowOK DEF TakeLease, At, Finalizers
  <1>2. CASE Return(w) /\ UNCHANGED row
    BY <1>2, QuietStep, ReturnOK, Together DEF TakeLease, db
  <1> QED
    BY <1>1, <1>2 DEF TakeLease

LEMMA PollOK ==
    ASSUME IInv, NEW w \in Workers, Poll(w)
    PROVE  IInv'
  <1>1. /\ ram' \in Sessions
        /\ ram'.status = "completed" => row.status = "completed"
        /\ ram'.received \subseteq Received
    BY CacheStatus DEF Poll, Statuses, IInv, TypeOK, SharedOK
  <1>2. OthersOK' /\ Grows /\ Calm /\ UNCHANGED orphans
    BY <1>1, OthersSame DEF Poll, db, IInv, TypeOK
  <1> QED
    BY <1>2, ReturnOK, Together DEF Poll

LEMMA InspectOK ==
    ASSUME IInv, NEW w \in Workers, Inspect(w)
    PROVE  IInv'
  <1>1. worker[w].pc = "inspect" /\ Received = Chunks
    BY DEF Inspect, At, IInv, WorkerOK, Ready, Finalizers
  <1>2. /\ ram' \in Sessions
        /\ ram'.status = "completed" => row.status = "completed"
        /\ ram'.received \subseteq Received
    BY CacheStatus DEF Inspect, Statuses, IInv, TypeOK, SharedOK
  <1>3. OthersOK' /\ Grows /\ Calm /\ UNCHANGED orphans
    BY <1>2, OthersSame DEF Inspect, db, IInv, TypeOK
  <1>4. CASE Return(w)
    BY <1>3, <1>4, ReturnOK, Together
  <1>5. ASSUME NEW l \in {"take_epoch", "poll"}, Goto(w, l) PROVE IInv'
    <2>1. Ready(l, w)'
      BY <1>1, <1>3, <1>5 DEF Ready, Grows
    <2> QED
      BY <1>1, <1>3, <1>5, <2>1, GotoOK, Together DEF Labels, Owners
  <1>6. CASE /\ row.lease = "expired"
             /\ worker' = [worker EXCEPT ![w] = [@ EXCEPT !.pc = "take_lease", !.fresh = TRUE]]
    <2>1. worker \in [Workers -> WorkerStates]
      BY DEF IInv, TypeOK
    <2>2. worker[w] \in WorkerStates /\ "take_lease" \in Labels
      BY <2>1 DEF Labels
    <2>3. /\ worker' \in [Workers -> WorkerStates]
          /\ \A v \in Workers : v # w => worker'[v] = worker[v]
          /\ worker'[w] = [worker[w] EXCEPT !.pc = "take_lease", !.fresh = TRUE]
      BY <1>6, <2>1, <2>2, Updates
    <2>4. /\ worker'[w].pc = "take_lease" /\ worker'[w].fd = worker[w].fd
          /\ worker'[w].token = worker[w].token /\ worker'[w].hb = worker[w].hb
          /\ worker'[w].snap = worker[w].snap
      BY <2>2, <2>3 DEF WorkerStates
    <2>5. WorkerOK(w)'
      <3>1. WorkerOK(w)
        BY DEF IInv
      <3>2. Ready("take_lease", w)'
        BY <1>1, <1>3 DEF Ready, Grows
      <3>3. CopiesOK(w)'
        BY <1>3, <1>6, <2>4, <3>1 DEF WorkerOK, CopiesOK, Grows, Inspect, db
      <3>4. HandleOK(w)'
        BY <1>1, <2>4, <3>1 DEF WorkerOK, HandleOK
      <3> QED
        BY <2>4, <3>2, <3>3, <3>4 DEF WorkerOK
    <2>6. worker'[w].hb = "on" => worker'[w].token # 0
      BY <2>4 DEF IInv, TokensOK
    <2>7. WorkersOK'
      BY <1>3, <2>3, <2>4, <2>5, <2>6, OneMoves DEF Owners
    <2> QED
      BY <1>3, <2>7, Together
  <1> QED
    BY <1>4, <1>5, <1>6 DEF Inspect

LEMMA OwnOK ==
    ASSUME IInv, NEW w \in Workers, Own(w)
    PROVE  IInv'
  <1>1. /\ worker[w].pc = "own" /\ Received = Chunks
        /\ worker[w].token # 0
    BY DEF Own, At, IInv, WorkerOK, Ready, Finalizers, Owners, TokensOK
  <1>2. OthersOK' /\ Grows /\ Calm /\ UNCHANGED orphans
    BY CacheStatus, OthersSame DEF Own, db, IInv, TypeOK, Statuses
  <1>3. worker \in [Workers -> WorkerStates]
    BY DEF IInv, TypeOK
  <1>4. worker[w] \in WorkerStates /\ "chunks" \in Labels
    BY <1>3 DEF Labels
  <1>5. /\ worker' \in [Workers -> WorkerStates]
        /\ \A v \in Workers : v # w => worker'[v] = worker[v]
        /\ worker'[w] = [worker[w] EXCEPT !.pc = "chunks", !.hb = "on"]
    BY <1>3, <1>4, Updates DEF Own
  <1>6. /\ worker'[w].pc = "chunks" /\ worker'[w].fd = worker[w].fd
        /\ worker'[w].token = worker[w].token /\ worker'[w].snap = worker[w].snap
    BY <1>4, <1>5 DEF WorkerStates
  <1>7. worker'[w].fresh = worker[w].fresh
    BY <1>4, <1>5 DEF WorkerStates
  <1>8. WorkerOK(w)'
    <2>1. WorkerOK(w)
      BY DEF IInv
    <2>2. Ready("chunks", w)'
      BY <1>1, <1>2 DEF Ready, Grows
    <2>3. CopiesOK(w)'
      BY <1>2, <1>6, <1>7, <2>1 DEF WorkerOK, CopiesOK, Grows, Calm
    <2>4. HandleOK(w)'
      BY <1>1, <1>6, <2>1 DEF WorkerOK, HandleOK
    <2> QED
      BY <1>6, <2>2, <2>3, <2>4 DEF WorkerOK
  <1>9. WorkersOK'
    BY <1>1, <1>2, <1>5, <1>6, <1>8, OneMoves
  <1> QED
    BY <1>2, <1>9, Together

-----------------------------------------------------------------------------
(* verify_and_finalize_upload: the owner's steps                           *)

\* An owner that moves to another owner's label.
LEMMA OwnerGoto ==
    ASSUME IInv, Grows, Calm, OthersOK', UNCHANGED orphans,
           NEW w \in Workers, NEW l \in Owners, Goto(w, l), worker[w].pc \in Owners,
           l \in {"size", "hash", "assert1", "promote"} =>
              worker[w].target = "part" \/ final' # NoFile,
           l \in {"assert2", "register", "complete"} => final' # NoFile,
           l = "complete" => registered'
    PROVE  IInv'
  <1>1. worker'[w].target = worker[w].target
    BY DEF IInv, TypeOK, Goto, WorkerStates
  <1>2. Received' = Chunks
    BY DEF IInv, WorkerOK, Ready, Finalizers, Grows
  <1>3. Ready(l, w)'
    BY <1>1, <1>2 DEF Ready, Owners
  <1>4. l \in Labels /\ l # "write" /\ worker[w].pc # "write"
    BY DEF Owners, Labels
  <1> QED
    BY <1>3, <1>4, GotoOK, Together

LEMMA CheckChunksOK ==
    ASSUME IInv, NEW w \in Workers, CheckChunks(w)
    PROVE  IInv'
  BY QuietStep, OwnerGoto DEF CheckChunks, At, Owners

LEMMA PickOK ==
    ASSUME IInv, NEW w \in Workers, Pick(w)
    PROVE  IInv'
  <1>1. /\ worker[w].pc = "pick" /\ Received = Chunks
        /\ worker[w].token # 0
    BY DEF Pick, At, IInv, WorkerOK, Ready, Finalizers, Owners, TokensOK
  <1>2. OthersOK' /\ Grows /\ Calm /\ UNCHANGED orphans
    BY QuietStep DEF Pick
  <1>3. worker \in [Workers -> WorkerStates]
    BY DEF IInv, TypeOK
  <1>4. worker[w] \in WorkerStates /\ "size" \in Labels
    BY <1>3 DEF Labels
  <1>5. PICK t \in {"part", "final"} :
          /\ worker' = [worker EXCEPT ![w] = [@ EXCEPT !.pc = "size", !.target = t]]
          /\ t = "part" \/ final # NoFile
    BY DEF Pick
  <1>6. /\ worker' \in [Workers -> WorkerStates]
        /\ \A v \in Workers : v # w => worker'[v] = worker[v]
        /\ worker'[w] = [worker[w] EXCEPT !.pc = "size", !.target = t]
    BY <1>3, <1>4, <1>5, Updates
  <1>7. /\ worker'[w].pc = "size" /\ worker'[w].target = t /\ worker'[w].fd = worker[w].fd
        /\ worker'[w].token = worker[w].token /\ worker'[w].snap = worker[w].snap
    BY <1>4, <1>6 DEF WorkerStates
  <1>8. worker'[w].fresh = worker[w].fresh
    BY <1>4, <1>6 DEF WorkerStates
  <1>9. WorkerOK(w)'
    <2>1. WorkerOK(w)
      BY DEF IInv
    <2>2. Ready("size", w)'
      BY <1>1, <1>2, <1>5, <1>7 DEF Ready, Grows
    <2>3. CopiesOK(w)'
      BY <1>2, <1>7, <1>8, <2>1 DEF WorkerOK, CopiesOK, Grows, Calm
    <2>4. HandleOK(w)'
      BY <1>1, <1>7, <2>1 DEF WorkerOK, HandleOK
    <2> QED
      BY <1>7, <2>2, <2>3, <2>4 DEF WorkerOK
  <1>10. WorkersOK'
    BY <1>1, <1>2, <1>6, <1>7, <1>9, OneMoves
  <1> QED
    BY <1>2, <1>10, Together

LEMMA SizeOK ==
    ASSUME IInv, NEW w \in Workers, Size(w)
    PROVE  IInv'
  <1>1. OthersOK' /\ Grows /\ Calm
    BY QuietStep DEF Size
  <1>2. worker[w].target = "part" \/ final' # NoFile
    BY DEF Size, At, IInv, WorkerOK, Ready, disk
  <1>3. CASE Abandon(w)
    BY <1>1, <1>3, AbandonOK, Together
  <1>4. CASE (Goto(w, "fail") \/ Goto(w, "hash")) /\ UNCHANGED orphans
    BY <1>1, <1>2, <1>4, OwnerGoto DEF Size, At, Owners
  <1> QED
    BY <1>3, <1>4 DEF Size

LEMMA HashOK ==
    ASSUME IInv, NEW w \in Workers, Hash(w)
    PROVE  IInv'
  <1>1. OthersOK' /\ Grows /\ Calm /\ UNCHANGED orphans
    BY QuietStep DEF Hash
  <1>2. worker[w].target = "part" \/ final' # NoFile
    BY DEF Hash, At, IInv, WorkerOK, Ready, disk
  <1>3. CASE Return(w)
    BY <1>1, <1>3, ReturnOK, Together
  <1>4. CASE Goto(w, "assert1") \/ Goto(w, "fail")
    BY <1>1, <1>2, <1>4, OwnerGoto DEF Hash, At, Owners
  <1> QED
    BY <1>3, <1>4 DEF Hash

LEMMA AssertOwnerOK ==
    ASSUME IInv, NEW w \in Workers, AssertOwner(w)
    PROVE  IInv'
  <1>1. OthersOK' /\ Grows /\ Calm /\ UNCHANGED orphans
    BY QuietStep DEF AssertOwner
  <1>2. CASE Return(w)
    BY <1>1, <1>2, ReturnOK, Together
  <1>3. CASE worker[w].pc = "assert1" /\ Goto(w, "promote")
    <2>1. worker[w].target = "part" \/ final' # NoFile
      BY <1>1, <1>3 DEF IInv, WorkerOK, Ready, Grows
    <2> QED
      BY <1>1, <1>3, <2>1, OwnerGoto DEF Owners
  <1>4. CASE worker[w].pc = "assert2" /\ Goto(w, "register")
    <2>1. final' # NoFile
      BY <1>1, <1>4 DEF IInv, WorkerOK, Ready, Grows
    <2> QED
      BY <1>1, <1>4, <2>1, OwnerGoto DEF Owners
  <1> QED
    BY <1>2, <1>3, <1>4 DEF AssertOwner, At

LEMMA PromoteOK ==
    ASSUME IInv, NEW w \in Workers, Promote(w)
    PROVE  IInv'
  <1>1. worker[w].pc = "promote" /\ UNCHANGED orphans
    BY DEF Promote, At
  <1>2. CASE UNCHANGED disk
    <2>1. OthersOK' /\ Grows /\ Calm
      BY <1>2, QuietStep DEF Promote
    <2>2. CASE Return(w)
      BY <1>1, <2>1, <2>2, ReturnOK, Together
    <2>3. CASE worker[w].target # "part" /\ Goto(w, "assert2")
      <3>1. final' # NoFile
        BY <1>1, <2>1, <2>3 DEF IInv, WorkerOK, Ready, Grows
      <3> QED
        BY <1>1, <2>1, <2>3, <3>1, OwnerGoto DEF Owners
    <2>4. CASE final' = part /\ part # NoFile /\ Goto(w, "assert2")
      BY <1>1, <2>1, <2>4, OwnerGoto DEF Owners
    <2> QED
      BY <2>2, <2>3, <2>4 DEF Promote
  <1>3. CASE /\ part # NoFile /\ final' = part /\ part' = NoFile
             /\ Goto(w, "assert2") /\ UNCHANGED files
    <2>1. UNCHANGED <<row, receipts, registered, ram, epoch, faults>>
      BY DEF Promote, db
    <2>2. HasFile' /\ Received' = Received
      BY <1>3, <2>1 DEF HasFile, Received
    <2>3. OthersOK'
      BY <1>3, <2>1, <2>2 DEF IInv, TypeOK, OthersOK, SharedOK
    <2>4. Grows /\ Calm
      BY <1>3, <2>1, <2>2 DEF Grows, Calm, Received
    <2> QED
      BY <1>1, <1>3, <2>3, <2>4, OwnerGoto DEF Owners
  <1> QED
    BY <1>2, <1>3 DEF Promote

LEMMA RegisterOK ==
    ASSUME IInv, NEW w \in Workers, Register(w)
    PROVE  IInv'
  <1>1. /\ worker[w].pc = "register" /\ final # NoFile /\ registered' = TRUE
        /\ Goto(w, "complete")
        /\ UNCHANGED <<row, receipts, files, part, final, ram, epoch, orphans, faults>>
    BY DEF Register, At, disk, IInv, WorkerOK, Ready
  <1>2. registered' \in BOOLEAN
    BY <1>1
  <1>3. OthersOK'
    BY <1>1, <1>2 DEF IInv, TypeOK, OthersOK, SharedOK, Received, HasFile
  <1>4. Grows /\ Calm
    BY <1>1 DEF Grows, Calm, Received, HasFile
  <1> QED
    BY <1>1, <1>3, <1>4, OwnerGoto DEF Owners

\* An owner that is done with its lease and has one thing left to do.
LEMMA LastLabel ==
    ASSUME IInv, Grows, Calm, OthersOK', UNCHANGED orphans, NEW w \in Workers,
           NEW l \in {"idle", "completed", "failed", "reload"},
           worker' = [worker EXCEPT ![w] = [Resting EXCEPT !.pc = l]],
           Received' = Chunks,
           l = "completed" => row'.status = "completed"
    PROVE  IInv'
  <1>1. worker \in [Workers -> WorkerStates]
    BY DEF IInv, TypeOK
  <1>2. [Resting EXCEPT !.pc = l] \in WorkerStates
    BY RestingType DEF WorkerStates, Labels
  <1>3. /\ worker' \in [Workers -> WorkerStates]
        /\ \A v \in Workers : v # w => worker'[v] = worker[v]
        /\ worker'[w] = [Resting EXCEPT !.pc = l]
    BY <1>1, <1>2
  <1>4. /\ worker'[w].pc = l /\ worker'[w].token = 0 /\ worker'[w].hb = "off"
        /\ worker'[w].fd = NoFile /\ worker'[w].snap = Absent /\ ~worker'[w].fresh
    BY <1>3 DEF Resting
  <1>5. WorkerOK(w)'
    BY <1>4 DEF WorkerOK, Ready, CopiesOK, HandleOK, Absent
  <1>6. WorkersOK'
    BY <1>3, <1>4, <1>5, OneMoves DEF Owners
  <1> QED
    BY <1>6, Together

\* The row after its owner has written a verdict.
LEMMA VerdictRow ==
    ASSUME IInv, NEW st \in {"completed", "failed"}, NEW cl \in {"none", "terminal"},
           row' = [row EXCEPT !.status = st, !.class = cl,
                              !.token = 0, !.epoch = 0, !.lease = "none"],
           row.status = "finalizing", st = "completed" => registered,
           st = "failed" => cl = "terminal",
           UNCHANGED <<receipts, registered, disk, ram, epoch, faults>>
    PROVE  OthersOK' /\ Grows /\ Calm /\ Received' = Chunks /\ row'.status = st
  <1>1. row \in [status : Statuses, class : {"none", "terminal"}, token : Nat,
                epoch : Nat, lease : {"none", "valid", "expired"}, attempts : Nat]
    BY DEF IInv, TypeOK
  <1>2. /\ row'.status = st /\ row'.class = cl /\ row'.token = 0
        /\ row'.attempts = row.attempts
        /\ row' \in [status : Statuses, class : {"none", "terminal"}, token : Nat,
                epoch : Nat, lease : {"none", "valid", "expired"}, attempts : Nat]
    BY <1>1 DEF Statuses
  <1>3. UNCHANGED <<receipts, registered, files, part, final, ram, epoch, faults>>
    BY DEF disk
  <1>4. Received = Chunks /\ Received' = Received
    BY <1>3 DEF IInv, SharedOK, Received
  <1>5. OthersOK'
    BY <1>2, <1>3, <1>4 DEF IInv, TypeOK, OthersOK, SharedOK, HasFile
  <1>6. Grows /\ Calm
    BY <1>2, <1>3, <1>4 DEF Grows, Calm, HasFile
  <1> QED
    BY <1>2, <1>4, <1>5, <1>6

LEMMA CompleteOK ==
    ASSUME IInv, NEW w \in Workers, Complete(w)
    PROVE  IInv'
  <1>1. /\ worker[w].pc = "complete" /\ registered /\ Received = Chunks
        /\ UNCHANGED <<receipts, registered, disk, ram, epoch, orphans, faults>>
    BY DEF Complete, At, IInv, WorkerOK, Ready, Finalizers, Owners
  <1>2. CASE /\ row.status = "finalizing"
             /\ row' = [row EXCEPT !.status = "completed", !.class = "none",
                                  !.token = 0, !.epoch = 0, !.lease = "none"]
             /\ worker' = [worker EXCEPT ![w] = [Resting EXCEPT !.pc = "completed"]]
    <2>1. OthersOK' /\ Grows /\ Calm /\ Received' = Chunks /\ row'.status = "completed"
      BY <1>1, <1>2, VerdictRow
    <2> QED
      BY <1>1, <1>2, <2>1, LastLabel
  <1>3. CASE UNCHANGED row
    <2>1. OthersOK' /\ Grows /\ Calm /\ Received' = Chunks
      BY <1>1, <1>3, QuietStep DEF db, Received
    <2>2. PICK l \in {"idle", "reload"} :
             worker' = [worker EXCEPT ![w] = [Resting EXCEPT !.pc = l]]
      BY <1>3, <1>1 DEF Complete, Owns, IInv, TypeOK
    <2> QED
      BY <1>1, <2>1, <2>2, LastLabel
  <1> QED
    BY <1>2, <1>3 DEF Complete, Owns

LEMMA FailOK ==
    ASSUME IInv, NEW w \in Workers, Fail(w)
    PROVE  IInv'
  <1>1. /\ worker[w].pc = "fail" /\ Received = Chunks
        /\ UNCHANGED <<receipts, registered, disk, ram, epoch, orphans, faults>>
    BY DEF Fail, At, IInv, WorkerOK, Ready, Finalizers, Owners
  <1>2. CASE /\ row.status = "finalizing"
             /\ row' = [row EXCEPT !.status = "failed", !.class = "terminal",
                                  !.token = 0, !.epoch = 0, !.lease = "none"]
             /\ worker' = [worker EXCEPT ![w] = [Resting EXCEPT !.pc = "failed"]]
    <2>1. OthersOK' /\ Grows /\ Calm /\ Received' = Chunks /\ row'.status = "failed"
      BY <1>1, <1>2, VerdictRow
    <2> QED
      BY <1>1, <1>2, <2>1, LastLabel
  <1>3. CASE /\ worker' = [worker EXCEPT ![w] = [Resting EXCEPT !.pc = "reload"]]
             /\ UNCHANGED row
    <2>1. OthersOK' /\ Grows /\ Calm /\ Received' = Chunks
      BY <1>1, <1>3, QuietStep DEF db, Received
    <2> QED
      BY <1>1, <1>3, <2>1, LastLabel
  <1> QED
    BY <1>2, <1>3 DEF Fail, Owns

LEMMA CacheVerdictOK ==
    ASSUME IInv, NEW w \in Workers, CacheVerdict(w)
    PROVE  IInv'
  <1>1. worker[w].pc = "completed" => row.status = "completed"
    BY DEF IInv, WorkerOK, Ready
  <1>2. OthersOK' /\ Grows /\ Calm /\ UNCHANGED orphans
    BY <1>1, CacheStatus, OthersSame DEF CacheVerdict, db, IInv, TypeOK, Statuses
  <1> QED
    BY <1>2, ReturnOK, Together DEF CacheVerdict

LEMMA ReloadOK ==
    ASSUME IInv, NEW w \in Workers, Reload(w)
    PROVE  IInv'
  <1>1. worker[w].pc = "reload" /\ Received = Chunks
    BY DEF Reload, At, IInv, WorkerOK, Ready, Finalizers
  <1>2. OthersOK' /\ Grows /\ Calm /\ UNCHANGED <<row, orphans>>
    BY QuietStep DEF Reload, db
  <1>3. worker \in [Workers -> WorkerStates]
    BY DEF IInv, TypeOK
  <1>4. worker[w] \in WorkerStates /\ "install" \in Labels /\ Session \in Sessions
    BY <1>3 DEF Labels, Session, Sessions, Received, IInv, TypeOK
  <1>5. /\ worker' \in [Workers -> WorkerStates]
        /\ \A v \in Workers : v # w => worker'[v] = worker[v]
        /\ worker'[w] = [worker[w] EXCEPT !.pc = "install", !.snap = Session]
    BY <1>3, <1>4, Updates DEF Reload
  <1>6. /\ worker'[w].pc = "install" /\ worker'[w].fd = worker[w].fd
        /\ worker'[w].token = worker[w].token /\ worker'[w].snap = Session
        /\ worker'[w].hb = worker[w].hb
    BY <1>4, <1>5 DEF WorkerStates
  <1>7. worker'[w].fresh = worker[w].fresh
    BY <1>4, <1>5 DEF WorkerStates
  <1>8. WorkerOK(w)'
    <2>1. WorkerOK(w)
      BY DEF IInv
    <2>2. Ready("install", w)'
      BY <1>1, <1>2 DEF Ready, Grows
    <2>3. Session.received = Received /\ Session.status = row.status
      BY DEF Session
    <2>4. CopiesOK(w)'
      BY <1>2, <1>6, <1>7, <2>1, <2>3 DEF WorkerOK, CopiesOK, Grows
    <2>5. HandleOK(w)'
      BY <1>1, <1>6, <2>1 DEF WorkerOK, HandleOK
    <2> QED
      BY <1>6, <2>2, <2>4, <2>5 DEF WorkerOK
  <1>9. worker'[w].hb = "on" => worker'[w].token # 0
    BY <1>6 DEF IInv, TokensOK
  <1>10. WorkersOK'
    BY <1>2, <1>5, <1>6, <1>8, <1>9, OneMoves DEF Owners
  <1> QED
    BY <1>2, <1>10, Together

LEMMA InstallOK ==
    ASSUME IInv, NEW w \in Workers, Install(w)
    PROVE  IInv'
  <1>1. /\ ram' \in Sessions
        /\ ram'.status = "completed" => row.status = "completed"
        /\ ram'.received \subseteq Received
    BY DEF Install, IInv, TypeOK, WorkerStates, WorkerOK, CopiesOK
  <1>2. OthersOK' /\ Grows /\ Calm /\ UNCHANGED orphans
    BY <1>1, OthersSame DEF Install, db, IInv, TypeOK
  <1> QED
    BY <1>2, ReturnOK, Together DEF Install

LEMMA ScanOK ==
    ASSUME IInv, NEW w \in Workers, Scan(w)
    PROVE  IInv'
  <1>1. OthersOK' /\ Grows /\ Calm /\ UNCHANGED orphans
    BY QuietStep DEF Scan
  <1>2. CASE row.status \in {"finalizing", "failed"} /\ Goto(w, "enter")
    <2>1. Ready("enter", w)'
      BY <1>1, <1>2 DEF IInv, SharedOK, Ready, Grows
    <2> QED
      BY <1>1, <1>2, <2>1, GotoOK, Together DEF Scan, At, Labels, Owners
  <1>3. CASE Return(w)
    BY <1>1, <1>3, ReturnOK, Together
  <1> QED
    BY <1>2, <1>3 DEF Scan

-----------------------------------------------------------------------------
(* Heartbeats, time and faults                                             *)

\* A step that changes nothing of the row but its lease.
LEMMA LeaseRow ==
    ASSUME IInv, NEW l \in {"valid", "expired"}, row' = [row EXCEPT !.lease = l],
           UNCHANGED <<receipts, registered, disk, ram, epoch>>,
           faults' \in 0..MaxFaults
    PROVE  /\ OthersOK' /\ Grows
           /\ row'.status = row.status /\ row'.token = row.token
           /\ row'.attempts = row.attempts /\ row'.lease = l
  <1>1. row \in [status : Statuses, class : {"none", "terminal"}, token : Nat,
                epoch : Nat, lease : {"none", "valid", "expired"}, attempts : Nat]
    BY DEF IInv, TypeOK
  <1>2. /\ row'.status = row.status /\ row'.class = row.class /\ row'.token = row.token
        /\ row'.attempts = row.attempts /\ row'.lease = l
        /\ row' \in [status : Statuses, class : {"none", "terminal"}, token : Nat,
                epoch : Nat, lease : {"none", "valid", "expired"}, attempts : Nat]
    BY <1>1
  <1>3. UNCHANGED <<receipts, registered, files, part, final, ram, epoch>>
    BY DEF disk
  <1>4. OthersOK'
    BY <1>2, <1>3 DEF IInv, TypeOK, OthersOK, SharedOK, Received, HasFile
  <1>5. Grows
    BY <1>2, <1>3 DEF Grows, Received, HasFile
  <1> QED
    BY <1>2, <1>4, <1>5

\* The heartbeat renews the lease and outdates what the others read of it.
LEMMA RenewedOK ==
    ASSUME IInv, row.status = "finalizing", row' = [row EXCEPT !.lease = "valid"],
           worker' = Overtaken(worker),
           UNCHANGED <<receipts, registered, disk, ram, epoch, orphans, faults>>
    PROVE  IInv'
  <1>1. /\ OthersOK' /\ Grows
        /\ row'.status = row.status /\ row'.token = row.token
        /\ row'.attempts = row.attempts /\ row'.lease = "valid"
    BY LeaseRow DEF IInv, TypeOK
  <1>2. worker \in [Workers -> WorkerStates]
    BY DEF IInv, TypeOK
  <1>3. \A v \in Workers : worker'[v] = [worker[v] EXCEPT !.fresh = FALSE]
    BY DEF Overtaken
  <1>4. worker' \in [Workers -> WorkerStates]
    <2>1. \A v \in Workers : [worker[v] EXCEPT !.fresh = FALSE] \in WorkerStates
      BY <1>2, Updates DEF Labels
    <2>2. worker' = [v \in Workers |-> worker'[v]]
      BY DEF Overtaken
    <2> QED
      BY <1>3, <2>1, <2>2
  <1>5. ASSUME NEW v \in Workers
        PROVE  /\ worker'[v].pc = worker[v].pc /\ worker'[v].token = worker[v].token
               /\ worker'[v].fd = worker[v].fd /\ worker'[v].snap = worker[v].snap
               /\ worker'[v].chunk = worker[v].chunk /\ worker'[v].hb = worker[v].hb
               /\ worker'[v].target = worker[v].target /\ ~worker'[v].fresh
    <2>1. worker[v] \in WorkerStates /\ worker'[v] = [worker[v] EXCEPT !.fresh = FALSE]
      BY <1>2, <1>3
    <2> QED
      BY <2>1, Forgets
  <1>6. ASSUME NEW v \in Workers PROVE WorkerOK(v)'
    <2>1. WorkerOK(v)
      BY DEF IInv
    <2> QED
      BY <1>1, <1>5, <2>1 DEF WorkerOK, Ready, CopiesOK, HandleOK, Grows, HasFile
  <1>7. TokensOK'
    <2>1. TokensOK
      BY DEF IInv
    <2> QED
      BY <1>1, <1>5, <2>1 DEF TokensOK
  <1> QED
    BY <1>1, <1>4, <1>6, <1>7, Together DEF WorkersOK, IInv, TypeOK

\* A heartbeat that ends leaves its finalization where it is.
LEMMA HeartbeatEnds ==
    ASSUME IInv, OthersOK', Grows, Calm, UNCHANGED orphans, NEW w \in Workers,
           NEW h \in {"lost", "dead"}, worker' = [worker EXCEPT ![w].hb = h]
    PROVE  IInv'
  <1>1. worker \in [Workers -> WorkerStates]
    BY DEF IInv, TypeOK
  <1>2. /\ worker' \in [Workers -> WorkerStates]
        /\ \A v \in Workers : v # w => worker'[v] = worker[v]
        /\ worker'[w] = [worker[w] EXCEPT !.hb = h]
    <2>1. [worker[w] EXCEPT !.hb = h] \in WorkerStates
      BY <1>1, Updates DEF Labels
    <2> QED
      BY <1>1, <2>1
  <1>3. /\ worker'[w].pc = worker[w].pc /\ worker'[w].token = worker[w].token
        /\ worker'[w].fd = worker[w].fd /\ worker'[w].snap = worker[w].snap
        /\ worker'[w].chunk = worker[w].chunk /\ worker'[w].hb = h
        /\ worker'[w].target = worker[w].target
    BY <1>1, <1>2 DEF WorkerStates
  <1>4. worker'[w].fresh = worker[w].fresh
    BY <1>1, <1>2 DEF WorkerStates
  <1>5. WorkerOK(w)'
    <2>1. WorkerOK(w)
      BY DEF IInv
    <2>2. Ready(worker[w].pc, w)'
      BY <1>3, <2>1 DEF WorkerOK, Ready, Grows, HasFile
    <2>3. CopiesOK(w)'
      BY <1>3, <1>4, <2>1 DEF WorkerOK, CopiesOK, Grows, Calm
    <2>4. HandleOK(w)'
      BY <1>3, <2>1 DEF WorkerOK, HandleOK
    <2> QED
      BY <1>3, <2>2, <2>3, <2>4 DEF WorkerOK
  <1>6. worker'[w].pc \in Owners => worker'[w].token # 0
    BY <1>3 DEF IInv, TokensOK
  <1>7. WorkersOK'
    BY <1>2, <1>3, <1>5, <1>6, OneMoves
  <1> QED
    BY <1>7, Together

LEMMA RenewOK ==
    ASSUME IInv, NEW w \in Workers, Renew(w)
    PROVE  IInv'
  <1>1. CASE Owns(w)
    BY <1>1, RenewedOK DEF Renew, Owns
  <1>2. CASE ~Owns(w)
    BY <1>2, QuietStep, HeartbeatEnds DEF Renew, db
  <1> QED
    BY <1>1, <1>2

LEMMA RenewErrorOK ==
    ASSUME IInv, NEW w \in Workers, RenewError(w)
    PROVE  IInv'
  <1>1. OthersOK' /\ Grows /\ Calm /\ UNCHANGED orphans
    BY Quiet, FaultOK DEF RenewError, IInv, TypeOK
  <1> QED
    BY <1>1, HeartbeatEnds DEF RenewError

\* The workers after a step that leaves them alone.
LEMMA Unmoved ==
    ASSUME IInv, Grows, Calm, UNCHANGED worker, orphans' \subseteq orphans
    PROVE  WorkersOK'
  <1>1. ASSUME NEW v \in Workers PROVE WorkerOK(v)'
    <2>1. WorkerOK(v)
      BY DEF IInv
    <2>2. worker[v].fresh /\ row'.status = "finalizing" => row'.lease = "expired"
      BY <2>1 DEF WorkerOK, CopiesOK, Calm
    <2> QED
      BY <2>1, <2>2, SameOK
  <1>2. TokensOK'
    BY DEF IInv, TypeOK, TokensOK, Calm, WorkerStates
  <1> QED
    BY <1>1, <1>2 DEF WorkersOK, IInv, TypeOK

LEMMA RenewOrphanOK ==
    ASSUME IInv, NEW t \in orphans, RenewOrphan(t)
    PROVE  IInv'
  <1>1. CASE row.status = "finalizing" /\ row.token = t /\ row.epoch = epoch
    BY <1>1, RenewedOK DEF RenewOrphan
  <1>2. CASE ~(row.status = "finalizing" /\ row.token = t /\ row.epoch = epoch)
    BY <1>2, QuietStep, Unmoved, Together DEF RenewOrphan, db
  <1> QED
    BY <1>1, <1>2

LEMMA ExpireOK ==
    ASSUME IInv, Expire, faults' \in 0..MaxFaults
    PROVE  IInv'
  <1>1. /\ OthersOK' /\ Grows
        /\ row'.status = row.status /\ row'.token = row.token
        /\ row'.attempts = row.attempts /\ row'.lease = "expired"
    BY LeaseRow DEF Expire
  <1>2. Calm
    BY <1>1 DEF Calm
  <1> QED
    BY <1>1, <1>2, Unmoved, Together DEF Expire

LEMMA StepErrorOK ==
    ASSUME IInv, NEW w \in Workers, StepError(w)
    PROVE  IInv'
  <1>1. OthersOK' /\ Grows /\ Calm /\ UNCHANGED orphans
    BY Quiet, FaultOK DEF StepError, IInv, TypeOK
  <1> QED
    BY <1>1, ReturnOK, Together DEF StepError

\* The errors and the disconnection that leave a heartbeat behind.
LEMMA AbandonedOK ==
    ASSUME IInv, NEW w \in Workers, Abandon(w), NEW kind, Fault(kind),
           UNCHANGED <<db, disk, ram, epoch>>
    PROVE  IInv'
  <1>1. OthersOK' /\ Grows /\ Calm
    BY Quiet, FaultOK DEF IInv, TypeOK
  <1> QED
    BY <1>1, AbandonOK, Together

LEMMA CrashOK ==
    ASSUME IInv, Crash
    PROVE  IInv'
  <1>1. OthersOK' /\ Grows /\ Calm
    <2>1. ram' \in Sessions /\ ram'.status = "none" /\ ram'.received = {}
      BY RestingType DEF Crash, Absent
    <2>2. epoch' \in Nat
      BY DEF Crash, IInv, TypeOK
    <2> QED
      BY <2>1, <2>2, FaultOK, OthersSame DEF Crash, db
  <1> DEFINE scanning == [Resting EXCEPT !.pc = "scan"]
  <1>2. \A v \in Workers : worker'[v] = Resting \/ worker'[v] = scanning
    BY DEF Crash
  <1>3. scanning \in WorkerStates
    BY RestingType DEF WorkerStates, Labels
  <1>4. worker' \in [Workers -> WorkerStates]
    <2>1. worker' = [v \in Workers |-> worker'[v]]
      BY DEF Crash
    <2> HIDE DEF scanning
    <2> QED
      BY <1>2, <1>3, <2>1, RestingType
  <1>5. ASSUME NEW v \in Workers PROVE WorkerOK(v)'
    <2>1. CASE worker'[v] = Resting
      BY <2>1, RestingOK
    <2>2. CASE worker'[v] = scanning
      BY <2>2 DEF WorkerOK, Ready, CopiesOK, HandleOK, Resting, Absent, Finalizers, Owners
    <2> QED
      BY <1>2, <2>1, <2>2
  <1>6. \A v \in Workers : /\ worker'[v].token = 0 /\ worker'[v].pc \notin Owners
                           /\ worker'[v].hb = "off"
    BY <1>2 DEF Resting, Owners
  <1>7. TokensOK'
    <2>1. orphans' = {}
      BY DEF Crash
    <2>2. TokensOK /\ row.attempts \in Nat
      BY DEF IInv, TypeOK
    <2> QED
      BY <1>1, <1>6, <2>1, <2>2 DEF TokensOK, Calm
  <1> QED
    BY <1>1, <1>4, <1>5, <1>7, Together DEF WorkersOK, Crash

LEMMA InitUploadOK ==
    ASSUME IInv, InitUpload
    PROVE  IInv'
  <1>1. row \in [status : Statuses, class : {"none", "terminal"}, token : Nat,
                epoch : Nat, lease : {"none", "valid", "expired"}, attempts : Nat]
    BY DEF IInv, TypeOK
  <1>2. /\ row'.status = "uploading" /\ row'.token = row.token
        /\ row'.attempts = row.attempts
        /\ row' \in [status : Statuses, class : {"none", "terminal"}, token : Nat,
                epoch : Nat, lease : {"none", "valid", "expired"}, attempts : Nat]
    BY <1>1 DEF InitUpload, Statuses
  <1>3. UNCHANGED <<receipts, registered, files, part, final, epoch, faults, orphans, worker>>
    BY DEF InitUpload, disk
  <1>4. ram' \in Sessions /\ ram'.status = "uploading" /\ ram'.received = {}
    BY DEF InitUpload, Sessions, Statuses
  <1>5. OthersOK'
    BY <1>2, <1>3, <1>4 DEF IInv, TypeOK, OthersOK, SharedOK, Received, HasFile
  <1>6. Grows /\ Calm
    BY <1>2, <1>3 DEF Grows, Calm, Received, HasFile, InitUpload
  <1> QED
    BY <1>3, <1>5, <1>6, Unmoved, Together

LEMMA ProgressOK ==
    ASSUME IInv, Progress
    PROVE  IInv'
  <1>1. OthersOK' /\ Grows /\ Calm
    BY OthersSame, LoadedOK DEF Progress, db, IInv, TypeOK
  <1> QED
    BY <1>1, Unmoved, Together DEF Progress

-----------------------------------------------------------------------------
(* The theorems                                                            *)

\* Every step of a request, of the finalization, of a heartbeat, of time and
\* of a crash preserves the inductive invariant.
THEOREM Inductive == IInv /\ [Next]_vars => IInv'
  <1> SUFFICES ASSUME IInv, [Next]_vars PROVE IInv'
    OBVIOUS
  <1>1. ASSUME NEW w \in Workers, Step(w) PROVE IInv'
    <2>1. CASE Scan(w) \/ UploadStep(w)
      BY <2>1, ScanOK, LookupOK, OpenOK, WriteOK, ReceiptOK, NoteOK DEF UploadStep
    <2>2. CASE Enter(w) \/ Acquire(w) \/ Inspect(w) \/ Poll(w) \/ TakeEpoch(w)
                 \/ TakeLease(w) \/ Own(w)
      BY <2>2, EnterOK, AcquireOK, InspectOK, PollOK, TakeEpochOK, TakeLeaseOK, OwnOK
    <2>3. CASE OwnerStep(w)
      BY <2>3, CheckChunksOK, PickOK, SizeOK, HashOK, AssertOwnerOK, PromoteOK,
         RegisterOK, CompleteOK, FailOK, CacheVerdictOK, ReloadOK, InstallOK DEF OwnerStep
    <2> QED
      BY <1>1, <2>1, <2>2, <2>3 DEF Step, FinalizeStep
  <1>2. ASSUME NEW w \in Workers, Renew(w) PROVE IInv'
    BY <1>2, RenewOK
  <1>3. ASSUME NEW w \in Workers, ErrorStep(w) PROVE IInv'
    <2>1. CASE LeakyError(w)
      BY <2>1, AbandonedOK DEF LeakyError
    <2> QED
      BY <1>3, <2>1, StepErrorOK, WriteErrorOK, RenewErrorOK DEF ErrorStep
  <1>4. ASSUME NEW w \in Requests, DropRequest(w) PROVE IInv'
    BY <1>4, AbandonedOK DEF DropRequest, Workers
  <1>5. CASE LeaseExpires
    BY <1>5, ExpireOK DEF LeaseExpires, IInv, TypeOK
  <1>6. CASE LeaseStalls
    BY <1>6, ExpireOK, FaultOK DEF LeaseStalls
  <1>7. CASE UNCHANGED vars
    <2>1. OthersOK' /\ Grows /\ Calm
      BY <1>7, QuietStep DEF vars
    <2> QED
      BY <1>7, <2>1, Unmoved, Together DEF vars
  <1>8. CASE InitUpload \/ Progress \/ Crash
    BY <1>8, InitUploadOK, ProgressOK, CrashOK
  <1>9. CASE \E w \in Requests, c \in Chunks, d \in Payloads : Receive(w, c, d)
    BY <1>9, ReceiveOK
  <1>10. CASE \E t \in orphans : RenewOrphan(t)
    BY <1>10, RenewOrphanOK
  <1> QED
    BY <1>1, <1>2, <1>3, <1>4, <1>5, <1>6, <1>7, <1>8, <1>9, <1>10 DEF Next

\* A server without the upload satisfies the inductive invariant.
THEOREM Initial == Init => IInv
  <1> SUFFICES ASSUME Init PROVE IInv
    OBVIOUS
  <1>1. Received = {}
    BY DEF Init, Received
  <1>2. /\ row.status = "none" /\ row.token = 0 /\ row.attempts = 0
        /\ registered = FALSE /\ ram = Absent /\ orphans = {}
        /\ \A w \in Workers : worker[w] = Resting
    BY DEF Init
  <1>3. TypeOK
    <2>1. registered \in BOOLEAN
      BY <1>2
    <2>2. worker \in [Workers -> WorkerStates] /\ ram \in Sessions
      BY RestingType DEF Init
    <2> QED
      BY <2>1, <2>2, FaultsAssumption DEF Init, TypeOK, Statuses, NoFile
  <1>4. SharedOK
    BY <1>1, <1>2 DEF SharedOK, Absent
  <1>5. \A w \in Workers : WorkerOK(w)
    BY <1>2 DEF WorkerOK, Ready, CopiesOK, HandleOK, Resting, Absent, Finalizers, Owners
  <1>6. TokensOK
    BY <1>2 DEF TokensOK, Resting, Owners
  <1> QED
    BY <1>3, <1>4, <1>5, <1>6 DEF IInv

\* The inductive invariant holds in every reachable state.
THEOREM Invariance == Spec => []IInv
  BY Initial, Inductive, PTL DEF Spec

\* Every variable keeps the type of the column, file or field it models.
THEOREM TypeCorrect == Spec => []TypeOK
  <1>1. IInv => TypeOK
    BY DEF IInv
  <1> QED
    BY <1>1, Invariance, PTL

\* An upload is finalized only with every chunk recorded and a file at one of
\* its paths, so verify_and_finalize_upload never reports a missing chunk or a
\* missing artifact.
THEOREM FinalizedWhole == Spec => []FinalizingIsWhole
  <1>1. IInv => FinalizingIsWhole
    <2>1. Chunks # {}
      BY ChunksAssumption DEF Chunks
    <2> QED
      BY <2>1 DEF IInv, SharedOK, FinalizingIsWhole, HasFile
  <1> QED
    BY <1>1, Invariance, PTL

\* A registered or completed upload has its file at the final path, whatever
\* step the server crashed at.
THEOREM CompletedPublished == Spec => []CompletedIsPublished
  <1>1. IInv => CompletedIsPublished
    BY DEF IInv, SharedOK, CompletedIsPublished
  <1> QED
    BY <1>1, Invariance, PTL

\* get_upload_progress never answers more than the database records.
THEOREM CacheHonest == Spec => []CacheNeverAhead
  <1>1. IInv => CacheNeverAhead
    BY DEF IInv, SharedOK, CacheNeverAhead
  <1> QED
    BY <1>1, Invariance, PTL

\* The token fences every owner but one: at most one worker, or one orphaned
\* heartbeat, passes the guarded updates of the row.
THEOREM Fenced == Spec => []OneOwner
  <1>1. IInv => OneOwner
    BY DEF IInv, TokensOK, OneOwner, Owns
  <1> QED
    BY <1>1, Invariance, PTL

\* What a step may do to the row: nothing to its status and token, its
\* creation or its verdict, or a takeover by a guarded update.
LEMMA RowMoves ==
    ASSUME IInv, Next
    PROVE  \/ /\ row'.status = row.status /\ row'.token = row.token
              /\ row'.attempts = row.attempts
           \/ /\ row.status \in {"none", "finalizing"} /\ row'.status # "finalizing"
              /\ row'.attempts = row.attempts
           \/ /\ \/ row.status = "uploading"
                 \/ row.status = "finalizing" /\ (row.epoch # epoch \/ row.lease = "expired")
              /\ row'.attempts = row.attempts + 1
  <1> DEFINE Kept == /\ row'.status = row.status /\ row'.token = row.token
                     /\ row'.attempts = row.attempts
             Settled == /\ row.status \in {"none", "finalizing"}
                        /\ row'.status # "finalizing"
                        /\ row'.attempts = row.attempts
             Free == \/ row.status = "uploading"
                     \/ row.status = "finalizing" /\ (row.epoch # epoch \/ row.lease = "expired")
             Taken == Free /\ row'.attempts = row.attempts + 1
  <1> SUFFICES Kept \/ Settled \/ Taken
    OBVIOUS
  <1>1. row \in [status : Statuses, class : {"none", "terminal"}, token : Nat,
                epoch : Nat, lease : {"none", "valid", "expired"}, attempts : Nat]
    BY DEF IInv, TypeOK
  <1>2. UNCHANGED row => Kept
    OBVIOUS
  <1>3. ASSUME NEW l, row' = [row EXCEPT !.lease = l] PROVE Kept
    BY <1>1, <1>3
  <1>4. ASSUME NEW w \in Workers, Acquire(w) \/ TakeEpoch(w) \/ TakeLease(w)
        PROVE  Kept \/ Taken
    <2>1. CASE UNCHANGED row
      BY <2>1
    <2>2. CASE TakeRow(w) /\ Free
      <3>1. row'.attempts = row.attempts + 1
        BY <1>1, <2>2 DEF TakeRow
      <3> QED
        BY <2>2, <3>1
    <2>3. worker[w].fresh /\ row.status = "finalizing" => row.lease = "expired"
      BY DEF IInv, WorkerOK, CopiesOK
    <2>4. row.status = "failed" => row.class = "terminal"
      BY DEF IInv, SharedOK
    <2> HIDE DEF Kept, Taken
    <2> QED
      BY <1>4, <2>1, <2>2, <2>3, <2>4 DEF Acquire, Acquirable, TakeEpoch, TakeLease
  <1>5. ASSUME NEW w \in Workers, Complete(w) \/ Fail(w) PROVE Kept \/ Settled
    BY <1>1, <1>5 DEF Complete, Fail, Owns
  <1>6. ASSUME NEW w \in Workers, Renew(w) PROVE Kept
    BY <1>2, <1>3, <1>6 DEF Renew
  <1>7. ASSUME NEW t \in orphans, RenewOrphan(t) PROVE Kept
    BY <1>2, <1>3, <1>7 DEF RenewOrphan
  <1>8. CASE LeaseExpires \/ LeaseStalls
    BY <1>3, <1>8 DEF LeaseExpires, LeaseStalls, Expire
  <1>9. CASE InitUpload
    BY <1>1, <1>9 DEF InitUpload
  <1>10. ASSUME NEW w \in Workers, Step(w)
         PROVE  \/ UNCHANGED row
                \/ Acquire(w) \/ TakeEpoch(w) \/ TakeLease(w) \/ Complete(w) \/ Fail(w)
    BY <1>10 DEF Step, UploadStep, FinalizeStep, OwnerStep, Scan, Lookup, Open, Write,
       Receipt, Note, Enter, Inspect, Poll, Own, CheckChunks, Pick, Size, Hash,
       AssertOwner, Promote, Register, CacheVerdict, Reload, Install, db
  <1>11. ASSUME NEW w \in Workers, ErrorStep(w) PROVE UNCHANGED row
    BY <1>11 DEF ErrorStep, StepError, WriteError, RenewError, LeakyError, db
  <1>12. CASE Progress \/ Crash \/ \E w \in Requests : DropRequest(w)
    BY <1>12 DEF Progress, Crash, DropRequest, db
  <1>13. CASE \E w \in Requests, c \in Chunks, d \in Payloads : Receive(w, c, d)
    BY <1>13 DEF Receive, db
  <1> HIDE DEF Kept, Settled, Taken
  <1>14. ASSUME NEW w \in Workers, Step(w) \/ Renew(w) \/ ErrorStep(w)
         PROVE  Kept \/ Settled \/ Taken
    BY <1>2, <1>4, <1>5, <1>6, <1>10, <1>11, <1>14
  <1> QED
    BY <1>7, <1>8, <1>9, <1>12, <1>13, <1>14 DEF Next

\* No step takes a verdict back or reuses a token.
THEOREM VerdictFinal == Spec => VerdictIsFinal
  <1>1. IInv /\ [Next]_vars =>
          [/\ row.status \in {"completed", "failed"} => row'.status = row.status
           /\ row'.attempts >= row.attempts]_vars
    <2>1. IInv => row.attempts \in Nat
      BY DEF IInv, TypeOK
    <2> QED
      BY <2>1, RowMoves
  <1> QED
    BY <1>1, Invariance, PTL DEF Spec, VerdictIsFinal

\* No takeover within a process steals a lease that was renewed after the
\* takeover read it.
THEOREM LeaseSafe == Spec => LiveLeaseNotStolen
  <1>1. IInv /\ [Next]_vars =>
          [row.status = "finalizing" /\ row'.status = "finalizing"
           /\ row'.token # row.token /\ row.epoch = epoch => row.lease = "expired"]_vars
    BY RowMoves
  <1> QED
    BY <1>1, Invariance, PTL DEF Spec, LiveLeaseNotStolen

-----------------------------------------------------------------------------
(* The validity of a completed upload.  It needs clients that send the     *)
(* right bytes and owners that keep their lease: neither a lost heartbeat  *)
(* nor a stall.  Crashes, errors, leaks and disconnections are allowed, in *)
(* any number.                                                             *)

Honest == \A w \in Workers : worker[w].data = "good"

PartGood  == part # NoFile /\ Intact(part)
FinalGood == final # NoFile /\ Intact(final)

\* What the owner w is about to publish, or has published, is intact.
Verified(w) ==
    /\ worker[w].pc \in {"assert1", "promote"} =>
          IF worker[w].target = "part" THEN PartGood ELSE FinalGood
    /\ worker[w].pc \in {"assert2", "register", "complete"} => FinalGood

\* A worker that acts as the owner is the owner, and its lease is renewed.
OwnerOK(w) ==
    worker[w].pc \in Owners =>
        /\ Owns(w)
        /\ row.lease = "valid"
        /\ worker[w].pc # "own" => worker[w].hb = "on"
        /\ Verified(w)

\* The strengthening of IInv that makes CompletedIsValid inductive.
ValidInv ==
    /\ Honest
    /\ \A w \in Workers : OwnerOK(w)
    /\ row.status = "completed" => FinalGood

\* No step damages a file at its path.
FilesSafe == (PartGood => PartGood') /\ (FinalGood => FinalGood')

\* A row that stays with its owner.
RowSafe ==
    /\ row'.status = row.status /\ row'.token = row.token /\ row'.epoch = row.epoch
    /\ epoch' = epoch
    /\ row'.lease = row.lease \/ row'.lease = "valid"

\* A worker that stands where it stood.
Stands(v) ==
    /\ worker'[v].pc = worker[v].pc /\ worker'[v].token = worker[v].token
    /\ worker'[v].hb = worker[v].hb /\ worker'[v].target = worker[v].target
    /\ worker'[v].data = worker[v].data

\* An owner that stands keeps what it knows.
LEMMA StandsOK ==
    ASSUME NEW v \in Workers, OwnerOK(v), Stands(v), RowSafe, FilesSafe
    PROVE  OwnerOK(v)'
  <1>1. Verified(v) => Verified(v)'
    BY DEF Verified, Stands, FilesSafe
  <1> QED
    BY <1>1 DEF OwnerOK, Stands, RowSafe, Owns

\* A step of one worker that leaves row and files to their owner.
LEMMA OneGoesOn ==
    ASSUME ValidInv, RowSafe, FilesSafe, NEW w \in Workers,
           \A v \in Workers : v # w => worker'[v] = worker[v],
           worker'[w].data = "good", OwnerOK(w)'
    PROVE  ValidInv'
  <1>1. Honest'
    BY DEF ValidInv, Honest
  <1>2. ASSUME NEW v \in Workers PROVE OwnerOK(v)'
    BY <1>2, StandsOK DEF ValidInv, Stands
  <1>3. row'.status = "completed" => FinalGood'
    BY DEF ValidInv, RowSafe, FilesSafe
  <1> QED
    BY <1>1, <1>2, <1>3 DEF ValidInv

\* A step after which w is no owner.
LEMMA OneIsNoOwner ==
    ASSUME ValidInv, RowSafe, FilesSafe, NEW w \in Workers,
           \A v \in Workers : v # w => worker'[v] = worker[v],
           worker'[w].data = "good", worker'[w].pc \notin Owners
    PROVE  ValidInv'
  BY OneGoesOn DEF OwnerOK

\* Nothing that matters here moves.
LEMMA AllStand ==
    ASSUME ValidInv, RowSafe, FilesSafe, \A v \in Workers : Stands(v)
    PROVE  ValidInv'
  <1>1. Honest'
    BY DEF ValidInv, Honest, Stands
  <1>2. ASSUME NEW v \in Workers PROVE OwnerOK(v)'
    BY <1>2, StandsOK DEF ValidInv
  <1>3. row'.status = "completed" => FinalGood'
    BY DEF ValidInv, RowSafe, FilesSafe
  <1> QED
    BY <1>1, <1>2, <1>3 DEF ValidInv

LEMMA RowStays ==
    ASSUME UNCHANGED <<row, epoch>>
    PROVE  RowSafe
  BY DEF RowSafe

LEMMA DiskStays ==
    ASSUME UNCHANGED disk
    PROVE  FilesSafe
  BY DEF FilesSafe, PartGood, FinalGood, Intact, disk

\* What the assignments of one worker's record leave of the others.
LEMMA Jumps ==
    ASSUME IInv, Honest, NEW w \in Workers, NEW l \in Labels, Goto(w, l)
    PROVE  /\ \A v \in Workers : v # w => worker'[v] = worker[v]
           /\ worker'[w].pc = l /\ worker'[w].token = worker[w].token
           /\ worker'[w].hb = worker[w].hb /\ worker'[w].target = worker[w].target
           /\ worker'[w].data = "good"
  BY DEF IInv, TypeOK, Honest, Goto, WorkerStates

LEMMA Returns ==
    ASSUME IInv, NEW w \in Workers, Return(w)
    PROVE  /\ \A v \in Workers : v # w => worker'[v] = worker[v]
           /\ worker'[w].pc = "idle" /\ worker'[w].data = "good"
  BY DEF IInv, TypeOK, Return, Resting

\* A worker that is no owner, or gives up, returns.
LEMMA ReturnsSafely ==
    ASSUME IInv, ValidInv, NEW w \in Workers, Return(w), RowSafe, FilesSafe
    PROVE  ValidInv'
  BY Returns, OneIsNoOwner DEF Owners

\* A jump to a label that is not an owner's.
LEMMA GoesSafely ==
    ASSUME IInv, ValidInv, NEW w \in Workers, NEW l \in Labels \ Owners, Goto(w, l),
           RowSafe, FilesSafe
    PROVE  ValidInv'
  BY Jumps, OneIsNoOwner DEF ValidInv

\* A jump from one label of an owner to another, with what is verified there.
LEMMA OwnerGoesOn ==
    ASSUME IInv, ValidInv, NEW w \in Workers, worker[w].pc \in Owners \ {"own"},
           NEW l \in Owners, Goto(w, l), UNCHANGED <<row, epoch>>, FilesSafe,
           Verified(w)'
    PROVE  ValidInv'
  <1>1. l \in Labels
    BY DEF Owners, Labels
  <1>2. OwnerOK(w)'
    BY <1>1, Jumps DEF ValidInv, OwnerOK, Owns
  <1> QED
    BY <1>1, <1>2, Jumps, RowStays, OneGoesOn DEF ValidInv

\* There is one owner.
LEMMA SoleOwner ==
    ASSUME IInv, ValidInv, NEW v \in Workers, NEW w \in Workers,
           worker[v].pc \in Owners, worker[w].pc \in Owners
    PROVE  v = w
  BY DEF IInv, TokensOK, ValidInv, OwnerOK, Owns

\* There is no owner unless the row is being finalized by this process under
\* a valid lease.
LEMMA NoOwner ==
    ASSUME ValidInv, \/ row.status # "finalizing" \/ row.epoch # epoch
                     \/ row.lease # "valid"
    PROVE  \A w \in Workers : worker[w].pc \notin Owners
  BY DEF ValidInv, OwnerOK, Owns

-----------------------------------------------------------------------------
(* The requests                                                            *)

\* A request that arrives carries the right bytes.
LEMMA ReceivesSafely ==
    ASSUME IInv, ValidInv, Payloads \subseteq {"good"},
           NEW w \in Requests, NEW c \in Chunks, NEW d \in Payloads, Receive(w, c, d)
    PROVE  ValidInv'
  <1>1. RowSafe /\ FilesSafe
    BY RowStays, DiskStays DEF Receive, db
  <1>2. CASE worker' = worker
    BY <1>1, <1>2, AllStand DEF Stands
  <1>3. CASE worker' = [worker EXCEPT ![w] = [Resting EXCEPT
                          !.pc = "lookup", !.chunk = c, !.data = d]]
    <2>1. /\ \A v \in Workers : v # w => worker'[v] = worker[v]
          /\ worker'[w].pc = "lookup" /\ worker'[w].data = "good"
      BY <1>3 DEF IInv, TypeOK, Resting, Workers
    <2> QED
      BY <1>1, <2>1, OneIsNoOwner DEF Workers, Owners
  <1> QED
    BY <1>2, <1>3 DEF Receive

\* Opening creates a file at a path that had none, under a fresh descriptor.
LEMMA OpensSafely ==
    ASSUME IInv, ValidInv, NEW w \in Workers, Open(w)
    PROVE  ValidInv'
  <1> DEFINE g == IF part # NoFile THEN part
                  ELSE CHOOSE i \in Inodes :
                          i \notin {final} \cup {worker[v].fd : v \in Workers}
  <1>0. worker[w].fd = NoFile
    BY DEF IInv, WorkerOK, HandleOK, Open, At
  <1>1. part = NoFile => g \in Inodes \ {final}
    BY <1>0, FreeInode
  <1>2. /\ worker' = [worker EXCEPT ![w] = [@ EXCEPT !.pc = "write", !.fd = g]]
        /\ final' = final
        /\ UNCHANGED <<row, epoch>>
        /\ \/ UNCHANGED disk
           \/ part = NoFile /\ files' = [files EXCEPT ![g] = [c \in Chunks |-> "hole"]]
    BY DEF Open, disk, db
  <1> HIDE DEF g
  <1>3. FilesSafe
    <2>1. CASE UNCHANGED disk
      BY <2>1, DiskStays
    <2>2. CASE part = NoFile /\ files' = [files EXCEPT ![g] = [c \in Chunks |-> "hole"]]
      <3>1. final # NoFile => files'[final] = files[final]
        BY <1>1, <2>2 DEF IInv, TypeOK
      <3> QED
        BY <1>2, <2>2, <3>1 DEF FilesSafe, PartGood, FinalGood, Intact
    <2> QED
      BY <1>2, <2>1, <2>2
  <1>4. /\ \A v \in Workers : v # w => worker'[v] = worker[v]
        /\ worker'[w].pc = "write" /\ worker'[w].data = "good"
    BY <1>2 DEF IInv, TypeOK, ValidInv, Honest, WorkerStates
  <1> QED
    BY <1>2, <1>3, <1>4, RowStays, OneIsNoOwner DEF Owners

\* Writing the right bytes, or failing to over the right bytes, damages nothing.
LEMMA WritesRight ==
    ASSUME IInv, NEW f, NEW c, NEW b,
           files' = [files EXCEPT ![f][c] = b], UNCHANGED <<part, final>>,
           b = "good" \/ b = files[f][c] \/ files[f][c] # "good"
    PROVE  FilesSafe
  <1>1. ASSUME NEW g \in Inodes, Intact(g) PROVE Intact(g)'
    BY <1>1 DEF IInv, TypeOK, Intact
  <1>2. part \in Inodes \cup {NoFile} /\ final \in Inodes \cup {NoFile}
    BY DEF IInv, TypeOK
  <1>3. part # NoFile /\ Intact(part) => Intact(part)'
    BY <1>1, <1>2 DEF Intact
  <1>4. final # NoFile /\ Intact(final) => Intact(final)'
    BY <1>1, <1>2 DEF Intact
  <1> QED
    BY <1>3, <1>4 DEF FilesSafe, PartGood, FinalGood

LEMMA WriteSafely ==
    ASSUME IInv, ValidInv, NEW w \in Workers, Write(w)
    PROVE  ValidInv'
  <1>1. worker[w].data = "good"
    BY DEF ValidInv, Honest
  <1>2. FilesSafe
    BY <1>1, WritesRight DEF Write
  <1>3. /\ \A v \in Workers : v # w => worker'[v] = worker[v]
        /\ worker'[w].pc = "receipt" /\ worker'[w].data = "good"
    BY <1>1 DEF Write, IInv, TypeOK, WorkerStates
  <1> QED
    BY <1>2, <1>3, RowStays, OneIsNoOwner DEF Owners, Write, db

LEMMA WriteErrorSafely ==
    ASSUME IInv, ValidInv, NEW w \in Workers, WriteError(w)
    PROVE  ValidInv'
  <1> DEFINE f == worker[w].fd
             c == worker[w].chunk
             b == IF files[f][c] = worker[w].data THEN files[f][c] ELSE "bad"
  <1>1. files' = [files EXCEPT ![f][c] = b]
    BY DEF WriteError
  <1>2. b = files[f][c] \/ files[f][c] # "good"
    BY DEF ValidInv, Honest
  <1> HIDE DEF f, c, b
  <1>3. UNCHANGED <<part, final>> /\ RowSafe /\ Return(w)
    BY RowStays DEF WriteError, db
  <1>4. FilesSafe
    BY <1>1, <1>2, <1>3, WritesRight
  <1> QED
    BY <1>3, <1>4, ReturnsSafely

\* The other steps of a request.
LEMMA RequestSafely ==
    ASSUME IInv, ValidInv, NEW w \in Workers,
           Scan(w) \/ Lookup(w) \/ Receipt(w) \/ Note(w) \/ Enter(w)
    PROVE  ValidInv'
  <1>1. RowSafe /\ FilesSafe
    BY RowStays, DiskStays DEF Scan, Lookup, Receipt, Note, Enter, db
  <1>2. \/ Return(w)
        \/ \E l \in {"enter", "open", "note", "acquire"} : Goto(w, l)
    BY DEF Scan, Lookup, Receipt, Note, Enter
  <1>3. {"enter", "open", "note", "acquire"} \subseteq Labels \ Owners
    BY DEF Labels, Owners
  <1> QED
    BY <1>1, <1>2, <1>3, ReturnsSafely, GoesSafely

-----------------------------------------------------------------------------
(* Becoming the owner                                                      *)

\* A takeover while nobody is the owner.
LEMMA TakesSafely ==
    ASSUME IInv, ValidInv, NEW w \in Workers, TakeRow(w), row.status # "completed",
           \A v \in Workers : worker[v].pc \notin Owners,
           UNCHANGED epoch, UNCHANGED disk
    PROVE  ValidInv'
  <1>1. /\ worker \in [Workers -> WorkerStates]
        /\ row \in [status : Statuses, class : {"none", "terminal"}, token : Nat,
                epoch : Nat, lease : {"none", "valid", "expired"}, attempts : Nat]
        /\ Honest
    BY DEF IInv, TypeOK, ValidInv
  <1>2. /\ row'.status = "finalizing" /\ row'.token = row.attempts + 1
        /\ row'.epoch = epoch /\ row'.lease = "valid"
    BY <1>1 DEF TakeRow
  <1>3. ASSUME NEW v \in Workers, v # w
        PROVE  worker'[v].pc = worker[v].pc /\ worker'[v].data = "good"
    <2>1. worker'[v] = [worker[v] EXCEPT !.fresh = FALSE]
      BY <1>1, <1>3 DEF TakeRow, Overtaken
    <2> QED
      BY <1>1, <2>1 DEF Honest, WorkerStates
  <1>4. /\ worker'[w].pc = "own" /\ worker'[w].token = row.attempts + 1
        /\ worker'[w].data = "good"
    <2>1. PICK r : r = [worker[w] EXCEPT !.fresh = FALSE]
      OBVIOUS
    <2>2. r \in WorkerStates /\ r.data = "good"
      BY <1>1, <2>1 DEF Honest, WorkerStates
    <2>3. worker'[w] = [r EXCEPT !.pc = "own", !.token = row.attempts + 1]
      BY <1>1, <2>1 DEF TakeRow, Overtaken
    <2> QED
      BY <2>2, <2>3 DEF WorkerStates
  <1>5. Honest'
    BY <1>3, <1>4 DEF Honest
  <1>6. OwnerOK(w)'
    BY <1>2, <1>4 DEF OwnerOK, Owns, Verified
  <1>7. \A v \in Workers : OwnerOK(v)'
    BY <1>3, <1>6 DEF OwnerOK
  <1> QED
    BY <1>2, <1>5, <1>7 DEF ValidInv

\* The guarded updates that take over find no owner: the row is up for
\* finalization, was left by another process, or its lease has expired.
LEMMA TakeoverSafely ==
    ASSUME IInv, ValidInv, NEW w \in Workers, Acquire(w) \/ TakeEpoch(w) \/ TakeLease(w)
    PROVE  ValidInv'
  <1>1. UNCHANGED epoch /\ UNCHANGED disk
    BY DEF Acquire, TakeEpoch, TakeLease
  <1>2. worker[w].fresh /\ row.status = "finalizing" => row.lease = "expired"
    BY DEF IInv, WorkerOK, CopiesOK
  <1>3. \/ /\ TakeRow(w) /\ row.status # "completed"
           /\ row.status # "finalizing" \/ row.epoch # epoch \/ row.lease # "valid"
        \/ UNCHANGED row /\ (Return(w) \/ Goto(w, "inspect"))
    BY <1>2 DEF Acquire, TakeEpoch, TakeLease, Acquirable
  <1>4. CASE TakeRow(w) /\ row.status # "completed"
             /\ (row.status # "finalizing" \/ row.epoch # epoch \/ row.lease # "valid")
    BY <1>1, <1>4, NoOwner, TakesSafely
  <1>5. CASE UNCHANGED row /\ (Return(w) \/ Goto(w, "inspect"))
    <2>1. "inspect" \in Labels \ Owners
      BY DEF Labels, Owners
    <2> QED
      BY <1>1, <1>5, <2>1, RowStays, DiskStays, ReturnsSafely, GoesSafely
  <1> QED
    BY <1>3, <1>4, <1>5

\* Waiting for another owner's verdict.
LEMMA WaitsSafely ==
    ASSUME IInv, ValidInv, NEW w \in Workers, Inspect(w) \/ Poll(w)
    PROVE  ValidInv'
  <1>1. RowSafe /\ FilesSafe
    BY RowStays, DiskStays DEF Inspect, Poll, db
  <1>2. \/ Return(w)
        \/ \E l \in {"take_epoch", "poll"} : Goto(w, l)
        \/ worker' = [worker EXCEPT ![w] = [@ EXCEPT !.pc = "take_lease", !.fresh = TRUE]]
    BY DEF Inspect, Poll
  <1>3. {"take_epoch", "poll"} \subseteq Labels \ Owners
    BY DEF Labels, Owners
  <1>4. CASE worker' = [worker EXCEPT ![w] = [@ EXCEPT !.pc = "take_lease", !.fresh = TRUE]]
    <2>1. /\ \A v \in Workers : v # w => worker'[v] = worker[v]
          /\ worker'[w].pc = "take_lease" /\ worker'[w].data = "good"
      BY <1>4 DEF IInv, TypeOK, ValidInv, Honest, WorkerStates
    <2> QED
      BY <1>1, <2>1, OneIsNoOwner DEF Owners
  <1> QED
    BY <1>1, <1>2, <1>3, <1>4, ReturnsSafely, GoesSafely

\* The owner spawns its heartbeat.
LEMMA OwnSafely ==
    ASSUME IInv, ValidInv, NEW w \in Workers, Own(w)
    PROVE  ValidInv'
  <1>1. RowSafe /\ FilesSafe
    BY RowStays, DiskStays DEF Own, db
  <1>2. worker[w].pc = "own" /\ OwnerOK(w)
    BY DEF Own, At, ValidInv
  <1>3. /\ \A v \in Workers : v # w => worker'[v] = worker[v]
        /\ worker'[w].pc = "chunks" /\ worker'[w].data = "good"
        /\ worker'[w].hb = "on" /\ worker'[w].token = worker[w].token
    BY DEF Own, IInv, TypeOK, ValidInv, Honest, WorkerStates
  <1>4. OwnerOK(w)'
    BY <1>2, <1>3 DEF OwnerOK, Owns, Verified, Owners, Own, db
  <1> QED
    BY <1>1, <1>3, <1>4, OneGoesOn

-----------------------------------------------------------------------------
(* The owner                                                               *)

\* The steps that have nothing verified yet, and those after the verdict.
LEMMA CheckSafely ==
    ASSUME IInv, ValidInv, NEW w \in Workers, CheckChunks(w) \/ Size(w)
    PROVE  ValidInv'
  <1>1. UNCHANGED <<row, epoch>> /\ FilesSafe /\ RowSafe
    BY RowStays, DiskStays DEF CheckChunks, Size, db
  <1>2. worker[w].pc \in Owners \ {"own"}
    BY DEF CheckChunks, Size, At, Owners
  <1>3. Return(w) \/ \E l \in {"pick", "fail", "hash"} : Goto(w, l)
    BY DEF CheckChunks, Size, Abandon
  <1>4. ASSUME NEW l \in {"pick", "fail", "hash"}, Goto(w, l)
        PROVE  ValidInv'
    <2>1. l \in Owners /\ l \in Labels
      BY DEF Owners, Labels
    <2>2. worker'[w].pc = l
      BY <1>4, <2>1, Jumps DEF ValidInv
    <2>3. Verified(w)'
      BY <2>2 DEF Verified
    <2> QED
      BY <1>1, <1>2, <1>4, <2>1, <2>3, OwnerGoesOn
  <1> QED
    BY <1>1, <1>3, <1>4, ReturnsSafely

LEMMA PickSafely ==
    ASSUME IInv, ValidInv, NEW w \in Workers, Pick(w)
    PROVE  ValidInv'
  <1>1. RowSafe /\ FilesSafe /\ UNCHANGED <<row, epoch>>
    BY RowStays, DiskStays DEF Pick, db
  <1>2. worker[w].pc = "pick" /\ OwnerOK(w)
    BY DEF Pick, At, ValidInv
  <1>3. /\ \A v \in Workers : v # w => worker'[v] = worker[v]
        /\ worker'[w].pc = "size" /\ worker'[w].data = "good"
        /\ worker'[w].hb = worker[w].hb /\ worker'[w].token = worker[w].token
    BY DEF Pick, IInv, TypeOK, ValidInv, Honest, WorkerStates
  <1>4. OwnerOK(w)'
    BY <1>1, <1>2, <1>3 DEF OwnerOK, Owns, Verified, Owners
  <1> QED
    BY <1>1, <1>3, <1>4, OneGoesOn

\* The hash is what verifies the target.
LEMMA HashSafely ==
    ASSUME IInv, ValidInv, NEW w \in Workers, Hash(w)
    PROVE  ValidInv'
  <1> DEFINE f == FileAt(worker[w].target)
  <1>1. UNCHANGED <<row, epoch>> /\ FilesSafe /\ RowSafe /\ UNCHANGED disk
    BY RowStays, DiskStays DEF Hash, db
  <1>2. worker[w].pc \in Owners \ {"own"}
    BY DEF Hash, At, Owners
  <1>3. \/ Return(w)
        \/ Goto(w, "fail")
        \/ Goto(w, "assert1") /\ f # NoFile /\ Intact(f)
    BY DEF Hash
  <1>4. "fail" \in Owners \cap Labels /\ "assert1" \in Owners \cap Labels
    BY DEF Owners, Labels
  <1>5. CASE Goto(w, "fail")
    <2>1. worker'[w].pc = "fail"
      BY <1>4, <1>5, Jumps DEF ValidInv
    <2>2. Verified(w)'
      BY <2>1 DEF Verified
    <2> QED
      BY <1>1, <1>2, <1>4, <1>5, <2>2, OwnerGoesOn
  <1>6. CASE Goto(w, "assert1") /\ f # NoFile /\ Intact(f)
    <2>1. worker'[w].pc = "assert1" /\ worker'[w].target = worker[w].target
      BY <1>4, <1>6, Jumps DEF ValidInv
    <2>2. IF worker[w].target = "part" THEN PartGood ELSE FinalGood
      BY <1>6 DEF FileAt, PartGood, FinalGood
    <2>3. Verified(w)'
      BY <1>1, <2>1, <2>2 DEF Verified, FilesSafe
    <2> QED
      BY <1>1, <1>2, <1>4, <1>6, <2>3, OwnerGoesOn
  <1> QED
    BY <1>1, <1>3, <1>5, <1>6, ReturnsSafely

LEMMA AssertSafely ==
    ASSUME IInv, ValidInv, NEW w \in Workers, AssertOwner(w)
    PROVE  ValidInv'
  <1>1. UNCHANGED <<row, epoch>> /\ FilesSafe /\ RowSafe
    BY RowStays, DiskStays DEF AssertOwner, db
  <1>2. worker[w].pc \in Owners \ {"own"} /\ Verified(w)
    BY DEF AssertOwner, Owners, ValidInv, OwnerOK
  <1>3. \/ Return(w)
        \/ worker[w].pc = "assert1" /\ Goto(w, "promote")
        \/ worker[w].pc = "assert2" /\ Goto(w, "register")
    BY DEF AssertOwner, At
  <1>4. "promote" \in Owners \cap Labels /\ "register" \in Owners \cap Labels
    BY DEF Owners, Labels
  <1>5. CASE worker[w].pc = "assert1" /\ Goto(w, "promote")
    <2>1. worker'[w].pc = "promote" /\ worker'[w].target = worker[w].target
      BY <1>4, <1>5, Jumps DEF ValidInv
    <2>2. Verified(w)'
      BY <1>1, <1>2, <1>5, <2>1 DEF Verified, FilesSafe
    <2> QED
      BY <1>1, <1>2, <1>4, <1>5, <2>2, OwnerGoesOn
  <1>6. CASE worker[w].pc = "assert2" /\ Goto(w, "register")
    <2>1. worker'[w].pc = "register"
      BY <1>4, <1>6, Jumps DEF ValidInv
    <2>2. Verified(w)'
      BY <1>1, <1>2, <1>6, <2>1 DEF Verified, FilesSafe
    <2> QED
      BY <1>1, <1>2, <1>4, <1>6, <2>2, OwnerGoesOn
  <1> QED
    BY <1>1, <1>3, <1>5, <1>6, ReturnsSafely

\* The rename moves the file that was verified onto the final path; no other
\* owner has anything verified there.
LEMMA PromoteSafely ==
    ASSUME IInv, ValidInv, NEW w \in Workers, Promote(w)
    PROVE  ValidInv'
  <1>1. UNCHANGED <<row, epoch>> /\ RowSafe
    BY RowStays DEF Promote, db
  <1>2. worker[w].pc = "promote" /\ OwnerOK(w) /\ Owns(w) /\ Verified(w)
    BY DEF Promote, At, Owners, ValidInv, OwnerOK
  <1>3. \/ Return(w) /\ UNCHANGED disk
        \/ Goto(w, "assert2") /\ worker[w].target # "part" /\ UNCHANGED disk
        \/ Goto(w, "assert2") /\ worker[w].target = "part"
           /\ final' = part /\ part' = NoFile /\ UNCHANGED files
    BY DEF Promote
  <1>4. CASE Return(w) /\ UNCHANGED disk
    BY <1>1, <1>4, DiskStays, ReturnsSafely
  <1>5. CASE /\ Goto(w, "assert2")
             /\ \/ worker[w].target # "part" /\ UNCHANGED disk
                \/ worker[w].target = "part" /\ final' = part /\ UNCHANGED files
    <2>1. /\ \A v \in Workers : v # w => worker'[v] = worker[v]
          /\ worker'[w].pc = "assert2" /\ worker'[w].token = worker[w].token
          /\ worker'[w].hb = worker[w].hb /\ worker'[w].data = "good"
      BY <1>5, Jumps DEF ValidInv, Labels
    <2>2. FinalGood'
      BY <1>2, <1>5 DEF Verified, PartGood, FinalGood, Intact, disk
    <2>3. OwnerOK(w)'
      BY <1>1, <1>2, <2>1, <2>2 DEF OwnerOK, Owns, Verified, Owners
    <2>4. \A v \in Workers : v # w => worker[v].pc \notin Owners
      BY <1>2, SoleOwner DEF Owners
    <2>5. \A v \in Workers : OwnerOK(v)'
      BY <2>1, <2>3, <2>4 DEF OwnerOK
    <2>6. Honest'
      BY <2>1 DEF Honest, ValidInv
    <2> QED
      BY <2>2, <2>5, <2>6 DEF ValidInv
  <1> QED
    BY <1>3, <1>4, <1>5

LEMMA RegisterSafely ==
    ASSUME IInv, ValidInv, NEW w \in Workers, Register(w)
    PROVE  ValidInv'
  <1>1. UNCHANGED <<row, epoch>> /\ FilesSafe
    BY DiskStays DEF Register
  <1>2. worker[w].pc \in Owners \ {"own"} /\ worker[w].pc = "register" /\ Verified(w)
    BY DEF Register, At, Owners, ValidInv, OwnerOK
  <1>3. "complete" \in Owners \cap Labels /\ Goto(w, "complete")
    BY DEF Owners, Labels, Register
  <1>4. worker'[w].pc = "complete"
    BY <1>3, Jumps DEF ValidInv
  <1>5. Verified(w)'
    BY <1>1, <1>2, <1>4 DEF Verified, FilesSafe
  <1> QED
    BY <1>1, <1>2, <1>3, <1>5, OwnerGoesOn

\* The verdict: after it nobody is the owner.
LEMMA VerdictSafely ==
    ASSUME IInv, ValidInv, NEW w \in Workers, Complete(w) \/ Fail(w)
    PROVE  ValidInv'
  <1>1. /\ UNCHANGED epoch /\ UNCHANGED disk
        /\ worker[w].pc \in {"complete", "fail"} /\ OwnerOK(w)
    BY DEF Complete, Fail, At, ValidInv
  <1>2. Verified(w)
    BY <1>1 DEF OwnerOK, Owners
  <1>3. /\ \A v \in Workers : v # w => worker'[v] = worker[v]
        /\ worker'[w].pc \notin Owners /\ worker'[w].data = "good"
    BY DEF Complete, Fail, IInv, TypeOK, Resting, Owners
  <1>4. \A v \in Workers : v # w => worker[v].pc \notin Owners
    BY <1>1, SoleOwner DEF Owners
  <1>5. \A v \in Workers : OwnerOK(v)'
    BY <1>3, <1>4 DEF OwnerOK
  <1>6. Honest'
    BY <1>3 DEF Honest, ValidInv
  <1>7. row'.status = "completed" => FinalGood
    <2>1. row \in [status : Statuses, class : {"none", "terminal"}, token : Nat,
                epoch : Nat, lease : {"none", "valid", "expired"}, attempts : Nat]
      BY DEF IInv, TypeOK
    <2> QED
      BY <1>2, <2>1 DEF Complete, Fail, Verified, At, ValidInv
  <1>8. FilesSafe
    BY <1>1, DiskStays
  <1> QED
    BY <1>5, <1>6, <1>7, <1>8 DEF ValidInv, FilesSafe

\* What is left after a verdict.
LEMMA AfterVerdictSafely ==
    ASSUME IInv, ValidInv, NEW w \in Workers, CacheVerdict(w) \/ Reload(w) \/ Install(w)
    PROVE  ValidInv'
  <1>1. RowSafe /\ FilesSafe
    BY RowStays, DiskStays DEF CacheVerdict, Reload, Install, db
  <1>2. CASE Reload(w)
    <2>1. /\ \A v \in Workers : v # w => worker'[v] = worker[v]
          /\ worker'[w].pc = "install" /\ worker'[w].data = "good"
      BY <1>2 DEF Reload, IInv, TypeOK, ValidInv, Honest, WorkerStates
    <2> QED
      BY <1>1, <2>1, OneIsNoOwner DEF Owners
  <1>3. CASE CacheVerdict(w) \/ Install(w)
    BY <1>1, <1>3, ReturnsSafely DEF CacheVerdict, Install
  <1> QED
    BY <1>2, <1>3

-----------------------------------------------------------------------------
(* Heartbeats, time and faults                                             *)

\* A renewal gives the owner a valid lease.
LEMMA RenewalSafely ==
    ASSUME IInv, ValidInv, row' = [row EXCEPT !.lease = "valid"],
           worker' = Overtaken(worker), UNCHANGED disk, UNCHANGED epoch
    PROVE  ValidInv'
  <1>1. RowSafe
    BY DEF RowSafe, IInv, TypeOK
  <1>2. ASSUME NEW v \in Workers PROVE Stands(v)
    <2>1. worker[v] \in WorkerStates /\ worker'[v] = [worker[v] EXCEPT !.fresh = FALSE]
      BY DEF IInv, TypeOK, Overtaken
    <2> QED
      BY <2>1 DEF Stands, WorkerStates
  <1> QED
    BY <1>1, <1>2, DiskStays, AllStand

\* Only a heartbeat that nobody owns finds the ownership lost.
LEMMA RenewSafely ==
    ASSUME IInv, ValidInv, NEW w \in Workers, Renew(w)
    PROVE  ValidInv'
  <1>1. CASE Owns(w)
    BY <1>1, RenewalSafely DEF Renew
  <1>2. CASE ~Owns(w)
    <2>1. RowSafe /\ FilesSafe
      BY <1>2, RowStays, DiskStays DEF Renew
    <2>2. worker[w].pc \notin Owners
      BY <1>2 DEF ValidInv, OwnerOK
    <2>3. /\ \A v \in Workers : v # w => worker'[v] = worker[v]
          /\ worker'[w].pc = worker[w].pc /\ worker'[w].data = "good"
      BY <1>2 DEF Renew, IInv, TypeOK, ValidInv, Honest, WorkerStates
    <2> QED
      BY <2>1, <2>2, <2>3, OneIsNoOwner
  <1> QED
    BY <1>1, <1>2

LEMMA RenewOrphanSafely ==
    ASSUME IInv, ValidInv, NEW t \in orphans, RenewOrphan(t)
    PROVE  ValidInv'
  <1>1. CASE row' = [row EXCEPT !.lease = "valid"] /\ worker' = Overtaken(worker)
    BY <1>1, RenewalSafely DEF RenewOrphan
  <1>2. CASE UNCHANGED <<row, worker>>
    BY <1>2, RowStays, DiskStays, AllStand DEF RenewOrphan, Stands
  <1> QED
    BY <1>1, <1>2 DEF RenewOrphan

\* A lease expires only when nobody tends it, so without an owner.
LEMMA ExpiresSafely ==
    ASSUME IInv, ValidInv, LeaseExpires
    PROVE  ValidInv'
  <1>1. \A v \in Workers : worker[v].pc \notin Owners
    BY DEF LeaseExpires, Tended, At, ValidInv, OwnerOK, Owns
  <1>2. /\ row.status = "finalizing" /\ row'.status = row.status
        /\ UNCHANGED worker /\ UNCHANGED disk
    BY DEF LeaseExpires, Expire, IInv, TypeOK
  <1>3. \A v \in Workers : OwnerOK(v)'
    BY <1>1, <1>2 DEF OwnerOK
  <1> QED
    BY <1>2, <1>3 DEF ValidInv, Honest

\* Errors and disconnections: the request returns.
LEMMA ErrorsSafely ==
    ASSUME IInv, ValidInv, NEW w \in Workers,
           StepError(w) \/ LeakyError(w) \/ DropRequest(w)
    PROVE  ValidInv'
  <1>1. RowSafe /\ FilesSafe /\ Return(w)
    BY RowStays, DiskStays DEF StepError, LeakyError, DropRequest, Abandon, db
  <1> QED
    BY <1>1, ReturnsSafely

\* A crash ends every owner; row and files are what they were.
LEMMA CrashSafely ==
    ASSUME IInv, ValidInv, Crash
    PROVE  ValidInv'
  <1>1. \A v \in Workers : worker'[v].pc \notin Owners /\ worker'[v].data = "good"
    BY DEF Crash, Resting, Owners
  <1>2. row' = row /\ UNCHANGED disk
    BY DEF Crash, db
  <1>3. FilesSafe
    BY <1>2, DiskStays
  <1> QED
    BY <1>1, <1>2, <1>3 DEF ValidInv, Honest, OwnerOK, FilesSafe

LEMMA BeginsSafely ==
    ASSUME IInv, ValidInv, InitUpload \/ Progress
    PROVE  ValidInv'
  <1>1. CASE InitUpload
    <2>1. /\ row.status = "none" /\ row'.status = "uploading"
          /\ UNCHANGED worker
      BY <1>1 DEF InitUpload, IInv, TypeOK
    <2>2. \A v \in Workers : OwnerOK(v)'
      BY <2>1, NoOwner DEF OwnerOK
    <2> QED
      BY <2>1, <2>2 DEF ValidInv, Honest
  <1>2. CASE Progress
    BY <1>2, RowStays, DiskStays, AllStand DEF Progress, Stands, db
  <1> QED
    BY <1>1, <1>2

\* As long as clients send the right bytes, and no owner loses its heartbeat
\* or is held up for longer than its lease, every step keeps what is about to
\* be published intact.
THEOREM ValidInductive ==
    ASSUME Payloads \subseteq {"good"}, Faults \cap {"heartbeat", "stall"} = {}
    PROVE  IInv /\ ValidInv /\ [Next]_vars => ValidInv'
  <1> SUFFICES ASSUME IInv, ValidInv, [Next]_vars PROVE ValidInv'
    OBVIOUS
  <1>1. ASSUME NEW w \in Workers, Step(w) PROVE ValidInv'
    <2>1. CASE Scan(w) \/ UploadStep(w) \/ Enter(w)
      BY <2>1, RequestSafely, OpensSafely, WriteSafely DEF UploadStep
    <2>2. CASE Acquire(w) \/ Inspect(w) \/ Poll(w) \/ TakeEpoch(w) \/ TakeLease(w) \/ Own(w)
      BY <2>2, TakeoverSafely, WaitsSafely, OwnSafely
    <2>3. CASE OwnerStep(w)
      BY <2>3, CheckSafely, PickSafely, HashSafely, AssertSafely, PromoteSafely,
         RegisterSafely, VerdictSafely, AfterVerdictSafely DEF OwnerStep
    <2> QED
      BY <1>1, <2>1, <2>2, <2>3 DEF Step, FinalizeStep
  <1>2. ASSUME NEW w \in Workers, ErrorStep(w) PROVE ValidInv'
    <2>1. ~RenewError(w)
      BY DEF RenewError, Fault
    <2> QED
      BY <1>2, <2>1, ErrorsSafely, WriteErrorSafely DEF ErrorStep
  <1>3. ~LeaseStalls
    BY DEF LeaseStalls, Fault
  <1>4. ASSUME NEW w \in Requests, DropRequest(w) PROVE ValidInv'
    BY <1>4, ErrorsSafely DEF Workers
  <1>5. CASE UNCHANGED vars
    <2>1. UNCHANGED <<row, epoch>> /\ UNCHANGED disk /\ UNCHANGED worker
      BY <1>5 DEF vars, db
    <2> QED
      BY <2>1, RowStays, DiskStays, AllStand DEF Stands
  <1>6. ASSUME NEW w \in Workers, Renew(w) PROVE ValidInv'
    BY <1>6, RenewSafely
  <1>7. CASE \E w \in Requests, c \in Chunks, d \in Payloads : Receive(w, c, d)
    BY <1>7, ReceivesSafely
  <1>8. CASE \E t \in orphans : RenewOrphan(t)
    BY <1>8, RenewOrphanSafely
  <1>9. CASE InitUpload \/ Progress \/ LeaseExpires \/ Crash
    BY <1>9, BeginsSafely, ExpiresSafely, CrashSafely
  <1> QED
    BY <1>1, <1>2, <1>3, <1>4, <1>5, <1>6, <1>7, <1>8, <1>9 DEF Next

\* The file of a completed upload holds the bytes that were announced, however
\* the server crashed or failed on the way: what the owner hashed is what it
\* publishes, because no other request damages the file and no other owner
\* renames one onto it between the hash and the completion.
THEOREM CompletedValid ==
    ASSUME Payloads \subseteq {"good"}, Faults \cap {"heartbeat", "stall"} = {}
    PROVE  Spec => []CompletedIsValid
  <1>1. Init => ValidInv
    <2> SUFFICES ASSUME Init PROVE ValidInv
      OBVIOUS
    <2>1. row.status = "none" /\ \A w \in Workers : worker[w] = Resting
      BY DEF Init
    <2> QED
      BY <2>1 DEF ValidInv, Honest, OwnerOK, Resting, Owners
  <1>2. IInv /\ ValidInv /\ [Next]_vars => ValidInv'
    BY ValidInductive
  <1>3. ValidInv => CompletedIsValid
    BY DEF ValidInv, CompletedIsValid, FinalGood
  <1> QED
    BY <1>1, <1>2, <1>3, Invariance, PTL DEF Spec
=============================================================================
