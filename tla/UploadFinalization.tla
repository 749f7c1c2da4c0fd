------------------------- MODULE UploadFinalization -------------------------
(***************************************************************************)
(* One chunked upload of crates/michi-sync/src/lib.rs: the requests that   *)
(* write chunks into the staging file, the finalization that verifies and  *)
(* publishes it under a lease, the heartbeat that keeps the lease, the     *)
(* session cache, and the recovery scan of the next process.  Every step   *)
(* between two awaits that touch shared state is one action: each SQL      *)
(* statement, each file-system call and each critical section of the       *)
(* session cache.                                                          *)
(*                                                                         *)
(* Abstractions.  A chunk's bytes are "good" (the ones the expected hash   *)
(* was computed from) or "bad" (any others); a file is what it holds at    *)
(* each chunk's offset, "hole" where nothing was written.  Hashes are      *)
(* compared by the bytes they stand for.  A finalization token is the      *)
(* value of finalize_attempts that its acquisition wrote: both are fresh   *)
(* at every acquisition.  A process epoch is the number of the process.  A *)
(* lease is "valid" or "expired", and `fresh` remembers whether the token  *)
(* and lease a worker read are still the ones in the row.  Parameter       *)
(* checks that reject a request outright are left out.                     *)
(***************************************************************************)
EXTENDS Integers, FiniteSets

CONSTANTS
    Requests,   \* concurrent upload_chunk calls
    Recovery,   \* the task that runs recover_incomplete_uploads
    LastChunk,  \* total_chunks - 1
    Payloads,   \* the bytes clients send for a chunk
    Faults,     \* kinds of fault that may happen
    MaxFaults   \* bound on their number

FaultKinds == {"crash", "error", "heartbeat", "leak", "drop", "stall"}

ASSUME ChunksAssumption == LastChunk \in Nat
ASSUME WorkersAssumption == IsFiniteSet(Requests) /\ Recovery \notin Requests
ASSUME PayloadsAssumption == Payloads \subseteq {"good", "bad"}
ASSUME FaultsAssumption == Faults \subseteq FaultKinds /\ MaxFaults \in Nat

Chunks  == 0..LastChunk
Workers == Requests \cup {Recovery}
\* Enough files for the two paths and one descriptor per request.
Inodes  == 1..(Cardinality(Requests) + 2)
NoFile  == 0

VARIABLES
    row,         \* the sync_uploads row
    receipts,    \* sync_upload_chunks: the recorded bytes, or "hole"
    registered,  \* synced_files has the row of this upload
    files,       \* what each file holds at each chunk's offset
    part,        \* the file at <id>.part
    final,       \* the file at <id>
    ram,         \* the cached session of the running process
    epoch,       \* process_epoch of the running process
    worker,      \* the requests and the recovery task
    orphans,     \* tokens of heartbeats whose finalization is gone
    faults       \* faults so far

db   == <<row, receipts, registered>>
disk == <<files, part, final>>
vars == <<db, disk, ram, epoch, worker, orphans, faults>>

Statuses == {"none", "uploading", "finalizing", "completed", "failed"}
Labels == {"idle", "scan", "lookup", "open", "write", "receipt", "note", "enter",
           "acquire", "inspect", "poll", "take_epoch", "take_lease", "own",
           "chunks", "pick", "size", "hash", "assert1", "promote", "assert2",
           "register", "complete", "fail", "completed", "failed", "reload",
           "install"}

Sessions == [status : Statuses, received : SUBSET Chunks]
WorkerStates ==
    [pc : Labels, chunk : Chunks, data : {"good", "bad"},
     fd : Inodes \cup {NoFile}, token : Nat, target : {"part", "final"},
     hb : {"off", "on", "lost", "dead"}, fresh : BOOLEAN, snap : Sessions]

Absent   == [status |-> "none", received |-> {}]
Resting  == [pc |-> "idle", chunk |-> 0, data |-> "good", fd |-> NoFile,
             token |-> 0, target |-> "part", hb |-> "off", fresh |-> FALSE,
             snap |-> Absent]

Received == {c \in Chunks : receipts[c] # "hole"}
\* load_session_from_db_internal
Session  == [status |-> row.status, received |-> Received]
\* get_or_load_session: the cache wins over the database.
Loaded   == IF ram.status = "none" THEN Session ELSE ram
\* Mutant: the first chunk to arrive counts as the whole upload.
AnyIn(s) == s.received # {}
AllIn(s) == s.received = Chunks

FileAt(path) == IF path = "part" THEN part ELSE final
Intact(f) == \A c \in Chunks : files[f][c] = "good"

\* The statement of an UPDATE that only the owner of the lease passes.
Owns(w) == /\ row.status = "finalizing"
           /\ row.token = worker[w].token
           /\ row.epoch = epoch

At(w, l)   == worker[w].pc = l
Goto(w, l) == worker' = [worker EXCEPT ![w].pc = l]
\* Return to the caller; a running heartbeat has been cancelled and joined.
Return(w)  == worker' = [worker EXCEPT ![w] = Resting]
\* What any change of the row's token or lease does to what others read.
Overtaken(ws) == [v \in Workers |-> [ws[v] EXCEPT !.fresh = FALSE]]

Init ==
    /\ row = [status |-> "none", class |-> "none", token |-> 0, epoch |-> 0,
              lease |-> "none", attempts |-> 0]
    /\ receipts = [c \in Chunks |-> "hole"]
    /\ registered = FALSE
    /\ files = [f \in Inodes |-> [c \in Chunks |-> "hole"]]
    /\ part = NoFile
    /\ final = NoFile
    /\ ram = Absent
    /\ epoch = 1
    /\ worker = [w \in Workers |-> Resting]
    /\ orphans = {}
    /\ faults = 0

-----------------------------------------------------------------------------
(* Requests: init_upload, get_upload_progress, upload_chunk                *)

InitUpload ==
    /\ row.status = "none"
    /\ row' = [row EXCEPT !.status = "uploading"]
    /\ ram' = [status |-> "uploading", received |-> {}]
    /\ UNCHANGED <<receipts, registered, disk, epoch, worker, orphans, faults>>

\* get_upload_progress changes nothing but the cache.
Progress ==
    /\ row.status # "none"
    /\ ram' = Loaded
    /\ UNCHANGED <<db, disk, epoch, worker, orphans, faults>>

\* A well-formed request arrives; a completed session refuses it.
Receive(w, c, d) ==
    /\ At(w, "idle")
    /\ row.status # "none"
    /\ ram' = Loaded
    /\ worker' = IF Loaded.status = "completed" THEN worker
                 ELSE [worker EXCEPT ![w] = [Resting EXCEPT
                          !.pc = "lookup", !.chunk = c, !.data = d]]
    /\ UNCHANGED <<db, disk, epoch, orphans, faults>>

\* A recorded chunk is acknowledged (and may finalize) or conflicts.
Lookup(w) ==
    /\ At(w, "lookup")
    /\ LET c == worker[w].chunk IN
         IF receipts[c] = "hole" THEN Goto(w, "open")
         ELSE IF receipts[c] = worker[w].data /\ ram.status # "completed" /\ AllIn(ram)
              THEN Goto(w, "enter")
              ELSE Return(w)
    /\ UNCHANGED <<db, disk, ram, epoch, orphans, faults>>

\* OpenOptions::create(true).truncate(false) on <id>.part.
Open(w) ==
    /\ At(w, "open")
    /\ IF part # NoFile
       THEN /\ worker' = [worker EXCEPT ![w] = [@ EXCEPT !.pc = "write", !.fd = part]]
            /\ UNCHANGED disk
       ELSE LET used == {final} \cup {worker[v].fd : v \in Workers}
                f    == CHOOSE i \in Inodes : i \notin used
            IN /\ part' = f
               /\ files' = [files EXCEPT ![f] = [c \in Chunks |-> "hole"]]
               /\ worker' = [worker EXCEPT ![w] = [@ EXCEPT !.pc = "write", !.fd = f]]
               /\ UNCHANGED final
    /\ UNCHANGED <<db, ram, epoch, orphans, faults>>

\* Seek, write_all and sync_all on the open file, wherever its name is now.
Write(w) ==
    /\ At(w, "write")
    /\ files' = [files EXCEPT ![worker[w].fd][worker[w].chunk] = worker[w].data]
    /\ worker' = [worker EXCEPT ![w] = [@ EXCEPT !.pc = "receipt", !.fd = NoFile]]
    /\ UNCHANGED <<db, part, final, ram, epoch, orphans, faults>>

\* INSERT OR IGNORE: the first receipt of a chunk stays.
Receipt(w) ==
    /\ At(w, "receipt")
    /\ LET c == worker[w].chunk IN
         receipts' = IF receipts[c] = "hole"
                     THEN [receipts EXCEPT ![c] = worker[w].data] ELSE receipts
    /\ Goto(w, "note")
    /\ UNCHANGED <<row, registered, disk, ram, epoch, orphans, faults>>

\* Mutant: the cache counts chunks from 1.
NoteFromOne(w) ==
    /\ At(w, "note")
    /\ ram' = [ram EXCEPT !.received = @ \cup {worker[w].chunk + 1}]
    /\ IF AllIn(ram') THEN Goto(w, "enter") ELSE Return(w)
    /\ UNCHANGED <<db, disk, epoch, orphans, faults>>

Note(w) ==
    /\ At(w, "note")
    /\ ram' = [ram EXCEPT !.received = @ \cup {worker[w].chunk}]
    /\ IF AllIn(ram') THEN Goto(w, "enter") ELSE Return(w)
    /\ UNCHANGED <<db, disk, epoch, orphans, faults>>

-----------------------------------------------------------------------------
(* verify_and_finalize_upload: becoming the owner                          *)

Enter(w) ==
    /\ At(w, "enter")
    /\ ram' = Loaded
    /\ IF Loaded.status = "completed" /\ final # NoFile
       THEN Return(w) ELSE Goto(w, "acquire")
    /\ UNCHANGED <<db, disk, epoch, orphans, faults>>

\* Mutant: a terminal failure may be finalized again.
AnyFailure == row.status \in {"uploading", "failed"}

Acquirable == \/ row.status = "uploading"
              \/ row.status = "failed" /\ row.class # "terminal"

\* Mutant: a takeover keeps the token of the previous owner.
TakeRowSameToken(w) ==
    LET t == IF row.token = 0 THEN row.attempts + 1 ELSE row.token IN
    /\ row' = [row EXCEPT !.status = "finalizing", !.token = t, !.epoch = epoch,
                          !.lease = "valid", !.attempts = row.attempts + 1]
    /\ worker' = [Overtaken(worker) EXCEPT ![w] = [@ EXCEPT !.pc = "own", !.token = t]]

\* The row and the worker after w becomes the owner under a fresh token.
TakeRow(w) ==
    /\ row' = [row EXCEPT !.status = "finalizing", !.token = row.attempts + 1,
                          !.epoch = epoch, !.lease = "valid",
                          !.attempts = row.attempts + 1]
    /\ worker' = [Overtaken(worker) EXCEPT ![w] =
                     [@ EXCEPT !.pc = "own", !.token = row.attempts + 1]]

Acquire(w) ==
    /\ At(w, "acquire")
    /\ IF Acquirable THEN TakeRow(w)
       ELSE Goto(w, "inspect") /\ UNCHANGED row
    /\ UNCHANGED <<receipts, registered, disk, ram, epoch, orphans, faults>>

\* Mutant: a lease of this process never counts as expired.
InspectTrustsOwner(w) ==
    /\ At(w, "inspect")
    /\ ram' = IF row.status = "completed"
              THEN [ram EXCEPT !.status = "completed"] ELSE ram
    /\ IF row.status # "finalizing" THEN Return(w)
       ELSE Goto(w, IF row.epoch # epoch THEN "take_epoch" ELSE "poll")
    /\ UNCHANGED <<db, disk, epoch, orphans, faults>>

\* The SELECT after a failed acquisition.
Inspect(w) ==
    /\ At(w, "inspect")
    /\ \/ /\ row.status = "completed"
          /\ ram' = [ram EXCEPT !.status = "completed"]
          /\ Return(w)
       \/ /\ row.status = "failed"
          /\ Return(w)
          /\ UNCHANGED ram
       \/ /\ row.status = "finalizing"
          /\ IF row.epoch # epoch THEN Goto(w, "take_epoch")
             ELSE IF row.lease = "expired"
                  THEN worker' = [worker EXCEPT ![w] =
                                    [@ EXCEPT !.pc = "take_lease", !.fresh = TRUE]]
                  ELSE Goto(w, "poll")
          /\ UNCHANGED ram
    /\ UNCHANGED <<db, disk, epoch, orphans, faults>>

\* Mutant: the end of the polling is taken for the completion.
PollAssumes(w) ==
    /\ At(w, "poll")
    /\ ram' = [ram EXCEPT !.status = "completed"]
    /\ Return(w)
    /\ UNCHANGED <<db, disk, epoch, orphans, faults>>

\* The last poll of the row, or the first that finds it completed.
Poll(w) ==
    /\ At(w, "poll")
    /\ ram' = IF row.status = "completed"
              THEN [ram EXCEPT !.status = "completed"] ELSE ram
    /\ Return(w)
    /\ UNCHANGED <<db, disk, epoch, orphans, faults>>

\* The compare-and-set that takes over from a dead process.
TakeEpoch(w) ==
    /\ At(w, "take_epoch")
    /\ IF row.status = "finalizing" /\ row.epoch # epoch THEN TakeRow(w)
       ELSE Return(w) /\ UNCHANGED row
    /\ UNCHANGED <<receipts, registered, disk, ram, epoch, orphans, faults>>

\* Mutant: the takeover does not compare the lease it read.
TakeLeaseBlindly(w) ==
    /\ At(w, "take_lease")
    /\ IF row.status = "finalizing" THEN TakeRow(w)
       ELSE Return(w) /\ UNCHANGED row
    /\ UNCHANGED <<receipts, registered, disk, ram, epoch, orphans, faults>>

\* The compare-and-set that takes over an expired lease.
TakeLease(w) ==
    /\ At(w, "take_lease")
    /\ IF row.status = "finalizing" /\ worker[w].fresh THEN TakeRow(w)
       ELSE Return(w) /\ UNCHANGED row
    /\ UNCHANGED <<receipts, registered, disk, ram, epoch, orphans, faults>>

\* Cache the ownership and spawn the heartbeat.
Own(w) ==
    /\ At(w, "own")
    /\ ram' = [ram EXCEPT !.status = "finalizing"]
    /\ worker' = [worker EXCEPT ![w] = [@ EXCEPT !.pc = "chunks", !.hb = "on"]]
    /\ UNCHANGED <<db, disk, epoch, orphans, faults>>

-----------------------------------------------------------------------------
(* verify_and_finalize_upload: the owner's steps                           *)

\* The receipts are always complete here (FinalizingIsWhole): the branch
\* that reports a missing chunk cannot be taken.
CheckChunks(w) ==
    /\ At(w, "chunks")
    /\ Received = Chunks
    /\ Goto(w, "pick")
    /\ UNCHANGED <<db, disk, ram, epoch, orphans, faults>>

\* The staging file if there is one, else the published one; the branch that
\* reports neither cannot be taken (FinalizingIsWhole).
Pick(w) ==
    /\ At(w, "pick")
    /\ part # NoFile \/ final # NoFile
    /\ worker' = [worker EXCEPT ![w] = [@ EXCEPT !.pc = "size",
                      !.target = IF part # NoFile THEN "part" ELSE "final"]]
    /\ UNCHANGED <<db, disk, ram, epoch, orphans, faults>>

\* Give up without stopping the heartbeat task.
Abandon(w) ==
    /\ orphans' = IF worker[w].hb = "on" THEN orphans \cup {worker[w].token}
                  ELSE orphans
    /\ Return(w)

\* A target renamed away since Pick makes metadata fail, through `?`.
Size(w) ==
    /\ At(w, "size")
    /\ LET f == FileAt(worker[w].target) IN
         IF f = NoFile THEN Abandon(w)
         ELSE /\ Goto(w, IF files[f][LastChunk] = "hole" THEN "fail" ELSE "hash")
              /\ UNCHANGED orphans
    /\ UNCHANGED <<db, disk, ram, epoch, faults>>

\* Mutant: the size is all that is verified.
HashSkipped(w) ==
    /\ At(w, "hash")
    /\ Goto(w, "assert1")
    /\ UNCHANGED <<db, disk, ram, epoch, orphans, faults>>

Hash(w) ==
    /\ At(w, "hash")
    /\ LET f == FileAt(worker[w].target) IN
         IF f = NoFile THEN Return(w)
         ELSE Goto(w, IF Intact(f) THEN "assert1" ELSE "fail")
    /\ UNCHANGED <<db, disk, ram, epoch, orphans, faults>>

\* Mutant: the owner registers before it has renamed.
AssertSkipsPromote(w) ==
    /\ worker[w].pc \in {"assert1", "assert2"}
    /\ IF Owns(w) /\ row.lease # "expired" THEN Goto(w, "register") ELSE Return(w)
    /\ UNCHANGED <<db, disk, ram, epoch, orphans, faults>>

\* assert_finalization_owner, before the rename and before registration.
AssertOwner(w) ==
    /\ worker[w].pc \in {"assert1", "assert2"}
    /\ IF Owns(w) /\ row.lease # "expired"
       THEN Goto(w, IF At(w, "assert1") THEN "promote" ELSE "register")
       ELSE Return(w)
    /\ UNCHANGED <<db, disk, ram, epoch, orphans, faults>>

\* Rename the staging file onto the final path, if that was verified.
Promote(w) ==
    /\ At(w, "promote")
    /\ IF worker[w].target = "part"
       THEN IF part = NoFile
            THEN Return(w) /\ UNCHANGED disk
            ELSE /\ final' = part
                 /\ part' = NoFile
                 /\ Goto(w, "assert2")
                 /\ UNCHANGED files
       ELSE Goto(w, "assert2") /\ UNCHANGED disk
    /\ UNCHANGED <<db, ram, epoch, orphans, faults>>

\* register_uploaded_file: INSERT ... ON CONFLICT DO NOTHING.
Register(w) ==
    /\ At(w, "register")
    /\ registered' = TRUE
    /\ Goto(w, "complete")
    /\ UNCHANGED <<row, receipts, disk, ram, epoch, orphans, faults>>

\* The heartbeat is joined; if it found the ownership lost, so does w.
\* Otherwise mark_upload_completed.
Complete(w) ==
    /\ At(w, "complete")
    /\ IF Owns(w) /\ worker[w].hb # "lost"
       THEN /\ row' = [row EXCEPT !.status = "completed", !.class = "none",
                                  !.token = 0, !.epoch = 0, !.lease = "none"]
            /\ worker' = [worker EXCEPT ![w] = [Resting EXCEPT !.pc = "completed"]]
       ELSE /\ worker' = [worker EXCEPT ![w] = [Resting EXCEPT !.pc =
                            IF worker[w].hb = "lost" THEN "idle" ELSE "reload"]]
            /\ UNCHANGED row
    /\ UNCHANGED <<receipts, registered, disk, ram, epoch, orphans, faults>>

\* mark_upload_failed_as_owner with a terminal class.
Fail(w) ==
    /\ At(w, "fail")
    /\ IF Owns(w)
       THEN /\ row' = [row EXCEPT !.status = "failed", !.class = "terminal",
                                  !.token = 0, !.epoch = 0, !.lease = "none"]
            /\ worker' = [worker EXCEPT ![w] = [Resting EXCEPT !.pc = "failed"]]
       ELSE /\ worker' = [worker EXCEPT ![w] = [Resting EXCEPT !.pc = "reload"]]
            /\ UNCHANGED row
    /\ UNCHANGED <<receipts, registered, disk, ram, epoch, orphans, faults>>

\* Both then copy their verdict into the session cache.
CacheVerdict(w) ==
    /\ worker[w].pc \in {"completed", "failed"}
    /\ ram' = [ram EXCEPT !.status = worker[w].pc]
    /\ Return(w)
    /\ UNCHANGED <<db, disk, epoch, orphans, faults>>

\* reload_session_from_db: read the database, then overwrite the cache.
Reload(w) ==
    /\ At(w, "reload")
    /\ worker' = [worker EXCEPT ![w] = [@ EXCEPT !.pc = "install", !.snap = Session]]
    /\ UNCHANGED <<db, disk, ram, epoch, orphans, faults>>

Install(w) ==
    /\ At(w, "install")
    /\ ram' = worker[w].snap
    /\ Return(w)
    /\ UNCHANGED <<db, disk, epoch, orphans, faults>>

\* recover_incomplete_uploads, once in each process.
Scan(w) ==
    /\ At(w, "scan")
    /\ IF \/ row.status = "finalizing"
          \/ row.status = "failed" /\ row.class # "terminal"
       THEN Goto(w, "enter") ELSE Return(w)
    /\ UNCHANGED <<db, disk, ram, epoch, orphans, faults>>

-----------------------------------------------------------------------------
(* Heartbeats, time and faults                                             *)

\* renew_finalization_lease by the heartbeat of a running finalization.
Renew(w) ==
    /\ worker[w].hb = "on"
    /\ IF Owns(w)
       THEN /\ row' = [row EXCEPT !.lease = "valid"]
            /\ worker' = Overtaken(worker)
       ELSE /\ worker' = [worker EXCEPT ![w].hb = "lost"]
            /\ UNCHANGED row
    /\ UNCHANGED <<receipts, registered, disk, ram, epoch, orphans, faults>>

\* The same by a heartbeat that nobody cancels any more.
RenewOrphan(t) ==
    /\ t \in orphans
    /\ IF row.status = "finalizing" /\ row.token = t /\ row.epoch = epoch
       THEN /\ row' = [row EXCEPT !.lease = "valid"]
            /\ worker' = Overtaken(worker)
            /\ UNCHANGED orphans
       ELSE /\ orphans' = orphans \ {t}
            /\ UNCHANGED <<row, worker>>
    /\ UNCHANGED <<receipts, registered, disk, ram, epoch, faults>>

\* Somebody renews the lease well before it expires.
Tended == \/ row.token \in orphans
          \/ \E w \in Workers : /\ worker[w].token = row.token
                                /\ At(w, "own") \/ worker[w].hb = "on"

Fault(kind) ==
    /\ kind \in Faults
    /\ faults < MaxFaults
    /\ faults' = faults + 1

Expire ==
    /\ row.status = "finalizing"
    /\ row.lease = "valid"
    /\ row' = [row EXCEPT !.lease = "expired"]
    /\ UNCHANGED <<receipts, registered, disk, ram, epoch, worker, orphans>>

LeaseExpires == ~Tended /\ Expire /\ UNCHANGED faults

\* The process is held up for longer than the lease.
LeaseStalls == Tended /\ Expire /\ Fault("stall")

\* A file-system or database error returns from a step that cleans up.
StepError(w) ==
    /\ worker[w].pc \in {"scan", "lookup", "open", "receipt", "acquire", "inspect",
                         "poll", "take_epoch", "take_lease", "hash", "assert1",
                         "promote", "assert2", "register", "complete", "fail"}
    /\ Return(w)
    /\ Fault("error")
    /\ UNCHANGED <<db, disk, ram, epoch, orphans>>

\* A write that fails half way: harmless where the same bytes already were.
WriteError(w) ==
    /\ At(w, "write")
    /\ files' = [files EXCEPT ![worker[w].fd][worker[w].chunk] =
                                  IF @ = worker[w].data THEN @ ELSE "bad"]
    /\ Return(w)
    /\ Fault("error")
    /\ UNCHANGED <<db, part, final, ram, epoch, orphans>>

\* The heartbeat task ends with a database error.
RenewError(w) ==
    /\ worker[w].hb = "on"
    /\ worker' = [worker EXCEPT ![w].hb = "dead"]
    /\ Fault("heartbeat")
    /\ UNCHANGED <<db, disk, ram, epoch, orphans>>

\* The errors that leave through `?` and do not cancel the heartbeat.
LeakyError(w) ==
    /\ worker[w].pc \in {"chunks", "size"}
    /\ Abandon(w)
    /\ Fault("leak")
    /\ UNCHANGED <<db, disk, ram, epoch>>

\* The client disconnects and the handler's future is dropped at an await.
DropRequest(w) ==
    /\ ~At(w, "idle")
    /\ Abandon(w)
    /\ Fault("drop")
    /\ UNCHANGED <<db, disk, ram, epoch>>

\* The process dies and the next one starts its recovery scan.
Crash ==
    /\ Fault("crash")
    /\ ram' = Absent
    /\ epoch' = epoch + 1
    /\ worker' = [w \in Workers |->
                    IF w = Recovery THEN [Resting EXCEPT !.pc = "scan"] ELSE Resting]
    /\ orphans' = {}
    /\ UNCHANGED <<db, disk>>

-----------------------------------------------------------------------------
UploadStep(w) ==
    Lookup(w) \/ Open(w) \/ Write(w) \/ Receipt(w) \/ Note(w)

OwnerStep(w) ==
    \/ CheckChunks(w) \/ Pick(w) \/ Size(w) \/ Hash(w) \/ AssertOwner(w)
    \/ Promote(w) \/ Register(w) \/ Complete(w) \/ Fail(w)
    \/ CacheVerdict(w) \/ Reload(w) \/ Install(w)

FinalizeStep(w) ==
    \/ Enter(w) \/ Acquire(w) \/ Inspect(w) \/ Poll(w)
    \/ TakeEpoch(w) \/ TakeLease(w) \/ Own(w) \/ OwnerStep(w)

Step(w) == Scan(w) \/ UploadStep(w) \/ FinalizeStep(w)

ErrorStep(w) ==
    StepError(w) \/ WriteError(w) \/ RenewError(w) \/ LeakyError(w)

Next ==
    \/ InitUpload
    \/ Progress
    \/ \E w \in Requests, c \in Chunks, d \in Payloads : Receive(w, c, d)
    \/ \E w \in Workers : Step(w) \/ Renew(w) \/ ErrorStep(w)
    \/ \E t \in orphans : RenewOrphan(t)
    \/ \E w \in Requests : DropRequest(w)
    \/ LeaseExpires
    \/ LeaseStalls
    \/ Crash

Spec == Init /\ [][Next]_vars

\* Scheduling: every task runs, time passes, and a client sends each chunk
\* again and again until it is told that the upload is completed.
FairSpec ==
    /\ Spec
    /\ \A w \in Workers : WF_vars(Step(w))
    /\ WF_vars(InitUpload)
    /\ WF_vars(LeaseExpires)
    /\ \A c \in Chunks : SF_vars(\E w \in Requests : Receive(w, c, "good"))

-----------------------------------------------------------------------------
(* Properties                                                              *)

Owners == {"own", "chunks", "pick", "size", "hash", "assert1", "promote",
           "assert2", "register", "complete", "fail"}

\* Every variable stays within the values its declaration allows.
TypeOK ==
    /\ row \in [status : Statuses, class : {"none", "terminal"}, token : Nat,
                epoch : Nat, lease : {"none", "valid", "expired"}, attempts : Nat]
    /\ receipts \in [Chunks -> {"hole", "good", "bad"}]
    /\ registered \in BOOLEAN
    /\ files \in [Inodes -> [Chunks -> {"hole", "good", "bad"}]]
    /\ part \in Inodes \cup {NoFile}
    /\ final \in Inodes \cup {NoFile}
    /\ ram \in Sessions
    /\ epoch \in Nat
    /\ worker \in [Workers -> WorkerStates]
    /\ orphans \subseteq Nat
    /\ faults \in 0..MaxFaults

\* An upload leaves the uploading status only with every chunk recorded and a
\* file at one of its two paths: whatever crashes and whoever promotes, the
\* MissingChunk and ArtifactMissing failures of verify_and_finalize_upload
\* are never the verdict on an upload nobody tampered with.
FinalizingIsWhole ==
    row.status \in {"finalizing", "completed", "failed"} =>
        Received = Chunks /\ (part # NoFile \/ final # NoFile)

\* A registered upload, and so a completed one, has its file at the final
\* path and its row in synced_files (rename, register, then complete).
CompletedIsPublished ==
    /\ registered => final # NoFile
    /\ row.status = "completed" => registered

\* The session cache, which answers get_upload_progress, never claims more
\* than the database: not the completion, and not one chunk.
CacheNeverAhead ==
    /\ ram.status = "completed" => row.status = "completed"
    /\ ram.received \subseteq Received

\* However many workers believe they own the finalization, the guarded
\* updates of the row let at most one of them, or one orphaned heartbeat, in.
OneOwner ==
    /\ \A v, w \in Workers : worker[v].pc \in Owners /\ worker[w].pc \in Owners
                               /\ Owns(v) /\ Owns(w) => v = w
    /\ \A w \in Workers : worker[w].pc \in Owners /\ Owns(w) => row.token \notin orphans

\* The file of a completed upload holds the bytes its expected hash was
\* computed from.
CompletedIsValid ==
    row.status = "completed" => final # NoFile /\ Intact(final)

\* An upload whose clients only ever send the right bytes never ends in the
\* terminal failure.
HonestNeverFails == Payloads = {"good"} => row.status # "failed"

\* Neither completion nor a terminal failure is ever taken back, and the
\* attempts, which name the tokens, never decrease.
VerdictIsFinal ==
    [][/\ row.status \in {"completed", "failed"} => row'.status = row.status
       /\ row'.attempts >= row.attempts]_vars

\* No takeover within a process steals a lease that has been renewed, even
\* between the takeover's read of the row and its compare-and-set.
LiveLeaseNotStolen ==
    [][row.status = "finalizing" /\ row'.status = "finalizing"
       /\ row'.token # row.token /\ row.epoch = epoch => row.lease = "expired"]_vars

\* An upload with every chunk recorded is eventually completed or failed.
WholeUploadSettles ==
    Received = Chunks ~> row.status \in {"completed", "failed"}
=============================================================================
