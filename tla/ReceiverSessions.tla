---------------------------- MODULE ReceiverSessions ----------------------------
(***************************************************************************)
(* The streaming sessions of one receiver as michi-receivers keeps them:   *)
(* ReceiverSessionManager (start, stop, heartbeat, loss), AuthorityGate    *)
(* (claim, takeover, release), PawPassCoordinator (transfer) and the HTTP  *)
(* routes and ReceiverAudioSink that call them.  The receiver itself is    *)
(* external and behaves as scripts/receiver_sim.py does: one session at a  *)
(* time, heartbeats with increasing sequence numbers.                      *)
(*                                                                         *)
(* Receivers share no state, so one is modelled.  Every acquisition of a   *)
(* lock and every HTTP exchange is a step, since callers run on several    *)
(* threads.  Sessions, heartbeat tasks and authority epochs are numbered,  *)
(* 0 is none.  Codecs, ports, volumes and times are left out; what they    *)
(* can make fail is a refusal.                                             *)
(***************************************************************************)
EXTENDS Naturals, Sequences

CONSTANTS
  Callers,      \* tasks that run an operation: HTTP handlers, the engine
  Authority,    \* whether the receiver supports authority-v1
  Hazards,      \* the disturbances an instance contains
  MaxOps,       \* bound on operations started
  MaxSeq,       \* bound on the heartbeats of a session that are answered
  MaxFaults     \* bound on disturbances

ASSUME SessionsAssumption ==
  /\ Authority \in BOOLEAN
  /\ Hazards \subseteq {"concurrent", "late", "lost", "refuse", "restart"}
  /\ MaxOps \in Nat /\ MaxSeq \in Nat /\ MaxFaults \in Nat

VARIABLES
  reg,        \* the registry entry
  sess,       \* active_sessions[receiver]
  transport,  \* active_transports[receiver], by the session it streams to
  handle,     \* heartbeat_handles[receiver]
  beats,      \* heartbeat tasks ever spawned
  grant,      \* active_grants[receiver]
  op,         \* what each caller is doing
  rcv,        \* the receiver
  ops, faults \* operations started, disturbances so far

vars == <<reg, sess, transport, handle, beats, grant, op, rcv, ops, faults>>

NoSess == [id |-> 0, state |-> "None", seq |-> 0]
Idle == [pc |-> "idle", kind |-> "none", sid |-> 0, seq |-> 0, tok |-> FALSE,
         epoch |-> 0, beat |-> 0]
Kinds == {"start", "prepare", "stop", "revoke", "delete", "transfer", "takeover", "pulse"}

\* A heartbeat task as it is spawned.
Beat == [pc |-> "tick", cancelled |-> FALSE, sid |-> 0, seq |-> 0, fails |-> 0]

Init ==
  /\ reg = [present |-> TRUE, paired |-> TRUE, revoked |-> FALSE, token |-> TRUE, active |-> 0]
  /\ sess = NoSess
  /\ transport = 0
  /\ handle = 0
  /\ beats = <<>>
  /\ grant = 0
  /\ op = [c \in Callers |-> Idle]
  /\ rcv = [session |-> 0, last |-> 0, seq |-> 0, owner |-> "nobody", epoch |-> 0]
  /\ ops = 0
  /\ faults = 0

Fault(h) == h \in Hazards /\ faults < MaxFaults /\ faults' = faults + 1
Goto(c, pc) == op' = [op EXCEPT ![c].pc = pc]
Finish(c) == op' = [op EXCEPT ![c] = Idle]
UnchangedLocal == UNCHANGED <<reg, sess, transport, handle, beats, grant>>

(***************************************************************************)
(* Operations.  The routes and the sink look at the entry first.           *)
(***************************************************************************)
\* Whether the caller's route goes on to the manager at all.
Admitted(kind) ==
  CASE kind = "prepare"  -> reg.present /\ reg.paired /\ sess = NoSess
    [] kind = "start"    -> reg.present /\ ~reg.revoked
    [] kind = "transfer" -> reg.present /\ reg.paired
    [] kind = "takeover" -> reg.present /\ reg.paired
    [] kind = "pulse"    -> reg.present /\ sess # NoSess /\ sess.seq < MaxSeq
    [] kind = "stop"     -> sess # NoSess
    [] kind = "revoke"   -> reg.present /\ ~reg.revoked
    [] kind = "delete"   -> reg.present

FirstStep(kind) ==
  CASE kind \in {"start", "prepare"} -> "read"
    [] kind \in {"stop", "delete"}   -> "mark"
    [] OTHER                         -> kind

Begin(c, kind) ==
  /\ op[c].pc = "idle"
  /\ "concurrent" \in Hazards \/ \A d \in Callers : op[d].pc = "idle"
  /\ ops < MaxOps
  /\ Admitted(kind)
  /\ ops' = ops + 1
  /\ op' = [op EXCEPT ![c] = [Idle EXCEPT !.pc = FirstStep(kind), !.kind = kind]]
  /\ UnchangedLocal
  /\ UNCHANGED <<rcv, faults>>

(***************************************************************************)
(* start_session_with_authority                                            *)
(***************************************************************************)
\* The entry is copied; a revoked or unsuitable receiver ends the start.
ReadEntry(c) ==
  /\ op[c].pc = "read"
  /\ \/ /\ reg.present /\ ~reg.revoked
        /\ op' = [op EXCEPT ![c].pc = IF Authority THEN "claim" ELSE "create",
                            ![c].tok = reg.token]
        /\ UNCHANGED faults
     \/ /\ IF reg.present /\ ~reg.revoked THEN Fault("refuse") ELSE UNCHANGED faults
        /\ Finish(c)
  /\ UnchangedLocal
  /\ UNCHANGED <<rcv, ops>>

\* AuthorityGate::ensure_claim, the exchange: an occupied receiver and a bad token refuse.
Claim(c) ==
  /\ op[c].pc = "claim"
  /\ \/ /\ op[c].tok /\ rcv.owner # "peer"
        /\ rcv' = [rcv EXCEPT !.owner = "us", !.epoch = @ + 1]
        /\ \/ op' = [op EXCEPT ![c].pc = "keepGrant", ![c].epoch = rcv.epoch + 1]
              /\ UNCHANGED faults
           \/ Fault("lost") /\ Finish(c)
     \/ /\ ~op[c].tok \/ rcv.owner = "peer"
        /\ Finish(c)
        /\ UNCHANGED <<rcv, faults>>
  /\ UnchangedLocal
  /\ UNCHANGED ops

\* ... and the grant is noted, by a claim and by explicit_takeover alike.
KeepGrant(c) ==
  /\ op[c].pc = "keepGrant"
  /\ grant' = op[c].epoch
  /\ IF op[c].kind = "takeover" THEN Finish(c) ELSE Goto(c, "create")
  /\ UNCHANGED <<reg, sess, transport, handle, beats, rcv, ops, faults>>

\* The receiver creates a session for a good token and, if it has authority, the current grant.
Accepts(tok, epoch) ==
  /\ tok
  /\ rcv.session = 0
  /\ Authority => rcv.owner = "us" /\ epoch = rcv.epoch

\* session_start: created, answer lost, or refused; with a bad token the caller authenticates
\* once and tries again.
Create(c) ==
  /\ op[c].pc = "create"
  /\ \/ /\ Accepts(op[c].tok, op[c].epoch)
        /\ rcv' = [rcv EXCEPT !.session = rcv.last + 1, !.last = @ + 1, !.seq = 0]
        /\ \/ op' = [op EXCEPT ![c].pc = "openTransport", ![c].sid = rcv.last + 1]
              /\ UNCHANGED faults
           \/ Fault("lost") /\ Finish(c)
        /\ UNCHANGED reg
     \/ /\ ~op[c].tok /\ ~reg.revoked /\ reg.present
        /\ reg' = [reg EXCEPT !.token = TRUE, !.paired = TRUE]
        /\ op' = [op EXCEPT ![c].tok = TRUE]
        /\ UNCHANGED <<rcv, faults>>
     \/ /\ IF Accepts(op[c].tok, op[c].epoch) THEN Fault("refuse") ELSE UNCHANGED faults
        /\ Finish(c)
        /\ UNCHANGED <<reg, rcv>>
  /\ UNCHANGED <<sess, transport, handle, beats, grant, ops>>

\* RtpReceiverTransport::start; if it fails the receiver's session is deleted, best effort.
OpenTransport(c) ==
  /\ op[c].pc = "openTransport"
  /\ \/ Goto(c, "putSess") /\ UNCHANGED <<rcv, faults>>
     \/ /\ Fault("refuse")
        /\ Finish(c)
        /\ rcv' = [rcv EXCEPT !.session = IF @ = op[c].sid THEN 0 ELSE @]
  /\ UnchangedLocal
  /\ UNCHANGED ops

PutSess(c) ==
  /\ op[c].pc = "putSess"
  /\ sess' = [id |-> op[c].sid, state |-> "Active", seq |-> 0]
  /\ Goto(c, "putTransport")
  /\ UNCHANGED <<reg, transport, handle, beats, grant, rcv, ops, faults>>

PutTransport(c) ==
  /\ op[c].pc = "putTransport"
  /\ transport' = op[c].sid
  /\ Goto(c, "putReg")
  /\ UNCHANGED <<reg, sess, handle, beats, grant, rcv, ops, faults>>

PutReg(c) ==
  /\ op[c].pc = "putReg"
  /\ reg' = [reg EXCEPT !.active = IF reg.present THEN op[c].sid ELSE @]
  /\ Goto(c, "unhook")
  /\ UNCHANGED <<sess, transport, handle, beats, grant, rcv, ops, faults>>

\* Mutant: the handle is dropped without cancelling its task.
Detached(h) == beats

\* spawn_heartbeat_task and stop_session take the handle out and cancel its task ...
Cancelled(h) == IF h = 0 THEN beats ELSE [beats EXCEPT ![h].cancelled = TRUE]

Unhook(c) ==
  /\ op[c].pc = "unhook"
  /\ beats' = Cancelled(handle)
  /\ handle' = 0
  /\ op' = [op EXCEPT ![c].pc = "join", ![c].beat = handle]
  /\ UNCHANGED <<reg, sess, transport, grant, rcv, ops, faults>>

\* ... and wait for it at most 500 ms: a task in the middle of an exchange outlives the wait.
Joined(h) == "late" \in Hazards \/ (h # 0 => beats[h].pc = "gone")

Starting(c) == op[c].kind \in {"start", "prepare"}

Join(c) ==
  /\ op[c].pc = "join"
  /\ Joined(op[c].beat)
  /\ Goto(c, IF Starting(c) THEN "spawn" ELSE "erase")
  /\ UnchangedLocal
  /\ UNCHANGED <<rcv, ops, faults>>

\* Mutant: the handle is kept although no task was spawned.
SpawnNothing(c) ==
  /\ op[c].pc = "spawn"
  /\ handle' = Len(beats) + 1
  /\ Finish(c)
  /\ UNCHANGED <<reg, sess, transport, beats, grant, rcv, ops, faults>>

\* Mutant: the new task is spawned but its handle is not kept.
SpawnDetached(c) ==
  /\ op[c].pc = "spawn"
  /\ beats' = Append(beats, Beat)
  /\ Finish(c)
  /\ UNCHANGED <<reg, sess, transport, handle, grant, rcv, ops, faults>>

Spawn(c) ==
  /\ op[c].pc = "spawn"
  /\ beats' = Append(beats, Beat)
  /\ handle' = Len(beats) + 1
  /\ Finish(c)
  /\ UNCHANGED <<reg, sess, transport, grant, rcv, ops, faults>>

(***************************************************************************)
(* stop_session, also as part of revoke_device, of the deletion of the     *)
(* receiver and of a transfer                                              *)
(***************************************************************************)
\* revoke_device: the entry is revoked and its token cleared before the session is stopped.
Revoke(c) ==
  /\ op[c].pc = "revoke"
  /\ reg' = [reg EXCEPT !.revoked = reg.present, !.paired = FALSE, !.token = FALSE]
  /\ Goto(c, "mark")
  /\ UNCHANGED <<sess, transport, handle, beats, grant, rcv, ops, faults>>

\* What follows a stop, successful or not.
AfterStop(c) == IF op[c].kind = "delete" THEN Goto(c, "forget") ELSE Finish(c)

Mark(c) ==
  /\ op[c].pc = "mark"
  /\ IF sess = NoSess
     THEN UNCHANGED sess /\ AfterStop(c)
     ELSE /\ sess' = [sess EXCEPT !.state = "Closing"]
          /\ op' = [op EXCEPT ![c].pc = "unhook", ![c].sid = sess.id]
  /\ UNCHANGED <<reg, transport, handle, beats, grant, rcv, ops, faults>>

\* The remote DELETE carries the token of the marked session.  A failure marks whatever session
\* is active now as Failed.
Erase(c) ==
  /\ op[c].pc = "erase"
  /\ \/ /\ reg.present /\ rcv.session = op[c].sid
        /\ rcv' = [rcv EXCEPT !.session = 0]
        /\ Goto(c, "dropTransport")
        /\ UNCHANGED <<sess, faults>>
     \/ /\ reg.present
        /\ \/ rcv.session # op[c].sid /\ UNCHANGED <<rcv, faults>>
           \/ /\ rcv.session = op[c].sid
              /\ Fault("lost")
              /\ rcv' \in {rcv, [rcv EXCEPT !.session = 0]}
        /\ sess' = [sess EXCEPT !.state = IF sess = NoSess THEN @ ELSE "Failed"]
        /\ AfterStop(c)
     \/ /\ ~reg.present
        /\ AfterStop(c)
        /\ UNCHANGED <<sess, rcv, faults>>
  /\ UNCHANGED <<reg, transport, handle, beats, grant, ops>>

\* Mutant: the transport of a stopped session stays.
KeepTransport(c) == op[c].pc = "dropTransport" /\ Goto(c, "dropSess")
  /\ UNCHANGED <<reg, sess, transport, handle, beats, grant, rcv, ops, faults>>

DropTransport(c) ==
  /\ op[c].pc = "dropTransport"
  /\ transport' = 0
  /\ Goto(c, "dropSess")
  /\ UNCHANGED <<reg, sess, handle, beats, grant, rcv, ops, faults>>

DropSess(c) ==
  /\ op[c].pc = "dropSess"
  /\ sess' = NoSess
  /\ Goto(c, "dropReg")
  /\ UNCHANGED <<reg, transport, handle, beats, grant, rcv, ops, faults>>

DropReg(c) ==
  /\ op[c].pc = "dropReg"
  /\ reg' = [reg EXCEPT !.active = 0]
  /\ Goto(c, "release")
  /\ UNCHANGED <<sess, transport, handle, beats, grant, rcv, ops, faults>>

\* AuthorityGate::release_grant forgets the grant and tells the receiver, whose answer it ignores.
Release(c) ==
  /\ op[c].pc = "release"
  /\ grant' = 0
  /\ \/ /\ rcv' = [rcv EXCEPT !.owner = IF grant # 0 /\ grant = rcv.epoch THEN "nobody" ELSE @]
        /\ UNCHANGED faults
     \/ Fault("lost") /\ UNCHANGED rcv
  /\ AfterStop(c)
  /\ UNCHANGED <<reg, sess, transport, handle, beats, ops>>

\* delete_receiver_handler removes the entry in the end.
Forget(c) ==
  /\ op[c].pc = "forget"
  /\ reg' = [present |-> FALSE, paired |-> FALSE, revoked |-> FALSE, token |-> FALSE, active |-> 0]
  /\ Finish(c)
  /\ UNCHANGED <<sess, transport, handle, beats, grant, rcv, ops, faults>>

(***************************************************************************)
(* Takeover and PawPass                                                    *)
(***************************************************************************)
\* explicit_takeover: the receiver gives authority to whoever asks and ends a peer's session.
Takeover(c) ==
  /\ op[c].pc = "takeover"
  /\ \/ /\ reg.token
        /\ rcv' = [rcv EXCEPT !.owner = "us", !.epoch = @ + 1]
        /\ \/ op' = [op EXCEPT ![c].pc = "keepGrant", ![c].epoch = rcv.epoch + 1]
              /\ UNCHANGED faults
           \/ Fault("lost") /\ Finish(c)
     \/ /\ IF reg.token THEN Fault("refuse") ELSE UNCHANGED faults
        /\ Finish(c)
        /\ UNCHANGED rcv
  /\ UnchangedLocal
  /\ UNCHANGED ops

\* PawPassCoordinator::transfer_to up to the handoff: the target prepares, the grant is looked up
\* and presented to the receiver, which gives authority to the target.
Handoff(c) ==
  /\ op[c].pc = "transfer"
  /\ \/ /\ grant # 0 /\ reg.token /\ rcv.owner = "us" /\ grant = rcv.epoch
        /\ rcv' \in {[rcv EXCEPT !.owner = "peer", !.epoch = @ + 1, !.session = s]
                       : s \in {0, rcv.session}}
        /\ \/ Goto(c, "commit") /\ UNCHANGED faults
           \/ Fault("lost") /\ Finish(c)
     \/ Finish(c) /\ UNCHANGED <<rcv, faults>>
  /\ UnchangedLocal
  /\ UNCHANGED ops

\* The target commits or refuses: either way the local session is stopped.  An error of the
\* exchange itself ends the transfer.
Commit(c) ==
  /\ op[c].pc = "commit"
  /\ \/ Goto(c, "mark") /\ UNCHANGED faults
     \/ Fault("lost") /\ Finish(c)
  /\ UnchangedLocal
  /\ UNCHANGED <<rcv, ops>>

(***************************************************************************)
(* Heartbeats                                                              *)
(***************************************************************************)
\* What the receiver answers to a heartbeat of session s with sequence number q.
Pulse(s, q) ==
  IF rcv.session # s \/ s = 0 THEN "unauthorized"
  ELSE IF q <= rcv.seq THEN "conflict"
  ELSE "ok"

\* A heartbeat that is answered counts for whatever session is active then.
Counted == IF sess = NoSess THEN sess ELSE [sess EXCEPT !.seq = @ + 1]

\* ReceiverSessionManager::heartbeat authenticates a receiver that refuses the session, if it
\* may be, and asks once more, with the same answer.
Reauthenticated(answer) ==
  IF answer = "unauthorized" /\ reg.present /\ ~reg.revoked
  THEN [reg EXCEPT !.token = TRUE, !.paired = TRUE] ELSE reg

\* The managed task wakes up: cancelled it ends; without a session it reports a loss.  After
\* MaxSeq answers only a heartbeat that finds something changed is followed.
Tick(h) ==
  /\ beats[h].pc = "tick"
  /\ sess.seq < MaxSeq \/ rcv.session # sess.id \/ beats[h].cancelled
  /\ beats' = [beats EXCEPT ![h] =
       IF @.cancelled THEN [@ EXCEPT !.pc = "gone"]
       ELSE IF sess = NoSess THEN [@ EXCEPT !.pc = "lost"]
       ELSE [@ EXCEPT !.pc = "call", !.sid = sess.id, !.seq = sess.seq + 1]]
  /\ UNCHANGED <<reg, sess, transport, handle, grant, op, rcv, ops, faults>>

\* classify_heartbeat_error_typed of a transient failure: the third in a row is a loss.
Transient(b) == [b EXCEPT !.fails = @ + 1, !.pc = IF b.fails + 1 >= 3 THEN "lost" ELSE "tick"]

\* Mutant: a heartbeat that the receiver refuses counts as a transient failure without a limit.
CallForgiving(h) ==
  LET b == beats[h]
      ok == Pulse(b.sid, b.seq) = "ok"
  IN /\ b.pc = "call"
     /\ rcv' = IF ok THEN [rcv EXCEPT !.seq = b.seq] ELSE rcv
     /\ sess' = IF ok THEN Counted ELSE sess
     /\ beats' = [beats EXCEPT ![h].pc = "tick"]
     /\ UNCHANGED <<reg, transport, handle, grant, op, ops, faults>>

\* The exchange.
Call(h) ==
  LET b == beats[h]
      answer == Pulse(b.sid, b.seq)
  IN /\ b.pc = "call"
     /\ rcv' = IF answer = "ok" THEN [rcv EXCEPT !.seq = b.seq] ELSE rcv
     /\ \/ /\ answer = "ok"
           /\ sess' = Counted
           /\ beats' = [beats EXCEPT ![h] = [b EXCEPT !.pc = "tick", !.fails = 0]]
           /\ UNCHANGED <<reg, faults>>
        \/ /\ answer # "ok"
           /\ reg' = Reauthenticated(answer)
           /\ beats' = [beats EXCEPT ![h].pc = "lost"]
           /\ UNCHANGED <<sess, faults>>
        \/ /\ Fault("lost")
           /\ beats' = [beats EXCEPT ![h] = Transient(b)]
           /\ UNCHANGED <<reg, sess>>
     /\ UNCHANGED <<transport, handle, grant, op, ops>>

\* The request itself is lost: the receiver has seen nothing.
CallLost(h) ==
  /\ beats[h].pc = "call"
  /\ Fault("lost")
  /\ beats' = [beats EXCEPT ![h] = Transient(beats[h])]
  /\ UNCHANGED <<reg, sess, transport, handle, grant, op, rcv, ops>>

\* handle_session_lost, run by the task: every map loses what it holds for this receiver.
LoseSess(h) ==
  /\ beats[h].pc = "lost"
  /\ sess' = NoSess
  /\ beats' = [beats EXCEPT ![h].pc = "lostTransport"]
  /\ UNCHANGED <<reg, transport, handle, grant, op, rcv, ops, faults>>

\* Mutant: the loss of a session leaves its transport.
LoseNoTransport(h) ==
  /\ beats[h].pc = "lostTransport"
  /\ beats' = [beats EXCEPT ![h].pc = "lostReg"]
  /\ UNCHANGED <<reg, sess, transport, handle, grant, op, rcv, ops, faults>>

LoseTransport(h) ==
  /\ beats[h].pc = "lostTransport"
  /\ transport' = 0
  /\ beats' = [beats EXCEPT ![h].pc = "lostReg"]
  /\ UNCHANGED <<reg, sess, handle, grant, op, rcv, ops, faults>>

LoseReg(h) ==
  /\ beats[h].pc = "lostReg"
  /\ reg' = [reg EXCEPT !.active = 0]
  /\ beats' = [beats EXCEPT ![h].pc = "lostHandle"]
  /\ UNCHANGED <<sess, transport, handle, grant, op, rcv, ops, faults>>

LoseHandle(h) ==
  /\ beats[h].pc = "lostHandle"
  /\ beats' = [Cancelled(handle) EXCEPT ![h].pc = "lostGrant",
                                        ![h].sid = IF handle = h THEN 0 ELSE handle]
  /\ handle' = 0
  /\ UNCHANGED <<reg, sess, transport, grant, op, rcv, ops, faults>>

LoseGrant(h) ==
  /\ beats[h].pc = "lostGrant"
  /\ Joined(beats[h].sid)
  /\ grant' = 0
  /\ beats' = [beats EXCEPT ![h].pc = "gone"]
  /\ UNCHANGED <<reg, sess, transport, handle, op, rcv, ops, faults>>

\* receiver_heartbeat_handler sends a heartbeat of its own ...
ReadPulse(c) ==
  /\ op[c].pc = "pulse"
  /\ IF reg.present /\ sess # NoSess
     THEN op' = [op EXCEPT ![c].pc = "callPulse", ![c].sid = sess.id, ![c].seq = sess.seq + 1]
     ELSE Finish(c)
  /\ UnchangedLocal
  /\ UNCHANGED <<rcv, ops, faults>>

\* ... authenticates again as the task does, and only reports what came of it.
CallPulse(c) ==
  /\ op[c].pc = "callPulse"
  /\ LET answer == Pulse(op[c].sid, op[c].seq)
         ok == answer = "ok"
     IN /\ rcv' = IF ok THEN [rcv EXCEPT !.seq = op[c].seq] ELSE rcv
        /\ \/ /\ sess' = IF ok THEN Counted ELSE sess
              /\ reg' = Reauthenticated(answer)
              /\ UNCHANGED faults
           \/ Fault("lost") /\ UNCHANGED <<sess, reg>>
  /\ Finish(c)
  /\ UNCHANGED <<transport, handle, beats, grant, ops>>

(***************************************************************************)
(* The receiver on its own (external)                                      *)
(***************************************************************************)
\* The lease of the session, or of a grant that was never used, runs out; a receiver that was
\* restarted has also forgotten the token.
Lapse ==
  /\ Fault("restart")
  /\ rcv.session # 0 \/ rcv.owner # "nobody"
  /\ rcv' = [rcv EXCEPT !.session = 0, !.owner = "nobody"]
  /\ reg' \in {reg, [reg EXCEPT !.token = FALSE]}
  /\ UNCHANGED <<sess, transport, handle, beats, grant, op, ops>>

\* Another controller takes the receiver over.
Pounce ==
  /\ Authority
  /\ Fault("restart")
  /\ rcv.owner # "peer"
  /\ rcv' = [rcv EXCEPT !.owner = "peer", !.epoch = @ + 1, !.session = 0]
  /\ UNCHANGED <<reg, sess, transport, handle, beats, grant, op, ops>>

Operate(c) ==
  \/ ReadEntry(c) \/ Claim(c) \/ KeepGrant(c) \/ Create(c) \/ OpenTransport(c)
  \/ PutSess(c) \/ PutTransport(c) \/ PutReg(c) \/ Unhook(c) \/ Join(c) \/ Spawn(c)
  \/ Revoke(c) \/ Mark(c) \/ Erase(c) \/ DropTransport(c) \/ DropSess(c) \/ DropReg(c)
  \/ Release(c) \/ Forget(c) \/ Takeover(c) \/ Handoff(c) \/ Commit(c)
  \/ ReadPulse(c) \/ CallPulse(c)

Heartbeat(h) ==
  \/ Tick(h) \/ Call(h) \/ CallLost(h)
  \/ LoseSess(h) \/ LoseTransport(h) \/ LoseReg(h) \/ LoseHandle(h) \/ LoseGrant(h)

Next ==
  \/ \E c \in Callers : Operate(c) \/ \E kind \in Kinds : Begin(c, kind)
  \/ \E h \in DOMAIN beats : Heartbeat(h)
  \/ Lapse \/ Pounce

\* Handlers and tasks run to their end (tokio polls them); heartbeats tick on.
Fairness ==
  /\ \A c \in Callers : WF_vars(Operate(c))
  /\ \A h \in 1..MaxOps : WF_vars(h \in DOMAIN beats /\ Heartbeat(h))

Spec == Init /\ [][Next]_vars /\ Fairness

-----------------------------------------------------------------------------
TypeOK ==
  /\ reg \in [present: BOOLEAN, paired: BOOLEAN, revoked: BOOLEAN, token: BOOLEAN, active: Nat]
  /\ sess \in [id: Nat, state: {"None", "Active", "Closing", "Failed"}, seq: Nat]
  /\ transport \in Nat /\ grant \in Nat
  /\ handle \in {0} \union DOMAIN beats
  /\ rcv.session <= rcv.last
  /\ ops <= MaxOps /\ faults <= MaxFaults

\* Nothing is being done to the maps right now.
Quiet ==
  /\ \A c \in Callers : op[c].pc = "idle"
  /\ \A h \in DOMAIN beats : beats[h].pc \in {"tick", "call", "gone"}

\* Some heartbeat task will look at the session again.
Watched == IF handle = 0 THEN FALSE ELSE beats[handle].pc # "gone" /\ ~beats[handle].cancelled

\* A session that start_session reported as started has a heartbeat task that nobody cancelled,
\* whatever start, stop, revoke, delete, transfer, loss and refused or lost exchanges came
\* before; otherwise its loss would never be noticed (spawn_heartbeat_task, stop_session).
SessionIsWatched == Quiet /\ sess.state = "Active" => Watched

\* A session that is gone left nothing behind, no transport that still streams and no entry in
\* the registry, unless a heartbeat task is there to clear it away (stop_session steps 2 to 5,
\* handle_session_lost steps 1 to 4, racing start_session's insertions).
NothingLeftBehind ==
  Quiet /\ sess = NoSess => (transport = 0 /\ reg.active = 0) \/ Watched

\* The loss of a session at the receiver (lease run out, restarted, taken over, handed off) is
\* noticed and torn down (spawn_heartbeat_task, classify_heartbeat_error_typed).
LossIsNoticed ==
  (sess.state = "Active" /\ rcv.session # sess.id) ~>
    (sess.state # "Active" \/ rcv.session = sess.id)

\* Every operation comes to an end: nobody waits for a heartbeat task that waits in turn
\* (the joins of stop_session, spawn_heartbeat_task and handle_session_lost).
CallersReturn == \A c \in Callers : op[c].pc # "idle" ~> op[c].pc = "idle"

\* A transport without a session is closed in the end, unless a new session takes its place.
LeftoversCleared == (sess = NoSess /\ transport # 0) ~> (transport = 0 \/ sess # NoSess)

\* A session is kept as Failed "for retryability" (stop_session): a stop of a session that the
\* receiver does not have any more clears it.
RetryClears ==
  [][\A c \in Callers :
       op[c].pc = "erase" /\ op'[c].pc # "erase" /\ sess.id = op[c].sid /\ rcv.session # op[c].sid
         => sess'.state # "Failed"]_vars

\* At rest every session is accounted for: one that was reported as started is watched by a
\* heartbeat task, and one that is gone left neither a transport nor a registry entry that
\* nobody will clear (start_session, stop_session and handle_session_lost in any order).
SessionAccounted == TypeOK /\ SessionIsWatched /\ NothingLeftBehind

\* Nobody is stuck: operations return although they join heartbeat tasks that may be tearing
\* the session down themselves, and what they left over is cleared in the end.
NobodyStuck == CallersReturn /\ LeftoversCleared
=============================================================================
