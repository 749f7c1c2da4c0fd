------------------------- MODULE ReceiverSessionsProofs -------------------------
(***************************************************************************)
(* Proofs about ReceiverSessions: for every number of callers, operations, *)
(* heartbeats and disturbances, every session is accounted for at rest,    *)
(* as long as operations on a receiver do not overlap and a heartbeat task *)
(* that was cancelled ends within the wait for it.                         *)
(***************************************************************************)
EXTENDS ReceiverSessions, TLAPS

-----------------------------------------------------------------------------
(***************************************************************************)
(* The inductive invariant                                                 *)
(***************************************************************************)
OpPcs == {"idle", "read", "claim", "keepGrant", "create", "openTransport", "putSess",
          "putTransport", "putReg", "unhook", "join", "spawn", "revoke", "mark", "erase",
          "dropTransport", "dropSess", "dropReg", "release", "forget", "takeover", "transfer",
          "commit", "pulse", "callPulse"}
OpType == [pc: OpPcs, kind: Kinds \union {"none"}, sid: Nat, seq: Nat, tok: BOOLEAN, epoch: Nat,
           beat: Nat]

BeatPcs == {"tick", "call", "lost", "lostTransport", "lostReg", "lostHandle", "lostGrant", "gone"}
BeatType == [pc: BeatPcs, cancelled: BOOLEAN, sid: Nat, seq: Nat, fails: Nat]

RcvType == [session: Nat, last: Nat, seq: Nat, owner: {"nobody", "us", "peer"}, epoch: Nat]

RegOK == reg \in [present: BOOLEAN, paired: BOOLEAN, revoked: BOOLEAN, token: BOOLEAN, active: Nat]
MapsOK ==
  /\ sess \in [id: Nat, state: {"None", "Active", "Closing", "Failed"}, seq: Nat]
  /\ transport \in Nat /\ grant \in Nat
RcvOK == rcv \in RcvType /\ rcv.session <= rcv.last
CountsOK == ops \in 0..MaxOps /\ faults \in 0..MaxFaults
TasksOK ==
  /\ op \in [Callers -> OpType]
  /\ beats \in Seq(BeatType)
  /\ handle \in {0} \union DOMAIN beats

\* TypeOK, with what callers, tasks and the receiver are.
Types == RegOK /\ MapsOK /\ RcvOK /\ CountsOK /\ TasksOK

\* One operation at a time.
OneOp == \A c, d \in Callers : op[c].pc # "idle" /\ op[d].pc # "idle" => c = d

StartPcs == {"read", "claim", "create", "openTransport", "putSess", "putTransport", "putReg", "spawn"}
OtherPcs == {"mark", "erase", "dropTransport", "dropSess", "dropReg", "release", "forget", "revoke",
             "transfer", "commit", "pulse", "callPulse", "takeover"}

\* The steps of start_session are taken by starts only, the others by others.
KindOf(c) ==
  /\ op[c].pc \in StartPcs => Starting(c)
  /\ op[c].pc \in OtherPcs => ~Starting(c)
  /\ op[c].pc = "takeover" => op[c].kind = "takeover"
  /\ op[c].pc = "keepGrant" => Starting(c) \/ op[c].kind = "takeover"

KindOK == \A c \in Callers : KindOf(c)

\* A task that is over, but for the release of its grant.
Over(h) == beats[h].pc \in {"lostGrant", "gone"}

\* Somebody waits for the task.
Awaited(h) == \E c \in Callers : op[c].pc = "join" /\ op[c].beat = h

\* The operation has taken the handle out and has put no new one in.
Unhooked == {"join", "spawn", "erase", "dropTransport", "dropSess", "dropReg", "release"}

\* The handle is that of a task that runs on; all others are over, or cancelled and awaited.
HandleOK ==
  /\ handle # 0 => handle \in DOMAIN beats /\ ~beats[handle].cancelled /\ ~Over(handle)
  /\ \A h \in DOMAIN beats : h # handle => Over(h) \/ Awaited(h)
  /\ \A c \in Callers : op[c].pc \in Unhooked => handle = 0

\* A start is putting its session into the maps.
PutPcs == {"putTransport", "putReg", "unhook", "join", "spawn"}
Putting == \E c \in Callers : Starting(c) /\ op[c].pc \in PutPcs

\* A task that tears a session down has cleared what it is past, unless a start puts it back.
ChainOK ==
  ~Putting => \A h \in DOMAIN beats :
    /\ beats[h].pc \in {"lostTransport", "lostReg", "lostHandle"} => sess = NoSess
    /\ beats[h].pc \in {"lostReg", "lostHandle"} => transport = 0
    /\ beats[h].pc = "lostHandle" => reg.active = 0

Clear == transport = 0 /\ reg.active = 0
Clearing == \E h \in DOMAIN beats : beats[h].pc \in {"lostTransport", "lostReg"}

\* How far stop_session has come.
StopOf(c) ==
  ~Starting(c) =>
    /\ op[c].pc \in Unhooked \union {"unhook"} => sess.state # "Active"
    /\ op[c].pc \in {"unhook", "join", "erase"} /\ sess = NoSess => Clear \/ Clearing
    /\ op[c].pc \in {"dropSess", "dropReg", "release"} => transport = 0
    /\ op[c].pc \in {"dropReg", "release"} => sess = NoSess
    /\ op[c].pc = "release" => reg.active = 0

StopOK == \A c \in Callers : StopOf(c)

\* Neither a start nor a stop is in the middle of the maps.
MidPcs == Unhooked \union {"putTransport", "putReg", "unhook"}
Rest == \A c \in Callers : op[c].pc \notin MidPcs

\* Without a heartbeat task there is no active session and nothing left of one.
RestOK == Rest /\ handle = 0 => sess.state # "Active" /\ (sess = NoSess => Clear)

SessInv == Types /\ OneOp /\ KindOK /\ HandleOK /\ ChainOK /\ StopOK /\ RestOK

-----------------------------------------------------------------------------
(***************************************************************************)
(* What the operations do to a caller and to a task                        *)
(***************************************************************************)
\* The caller c goes to l and keeps the rest of its operation.
Went(c, l) ==
  /\ op' \in [Callers -> OpType]
  /\ op'[c].pc = l
  /\ op'[c].kind = op[c].kind
  /\ \A d \in Callers : d # c => op'[d] = op[d]

LEMMA GotoWent ==
  ASSUME op \in [Callers -> OpType], NEW c \in Callers, NEW l \in OpPcs, Goto(c, l)
  PROVE  Went(c, l) /\ op'[c].beat = op[c].beat
  BY DEF Goto, Went, OpType

\* The caller returns.
Returned(c) ==
  /\ op' \in [Callers -> OpType]
  /\ op'[c].pc = "idle"
  /\ \A d \in Callers : d # c => op'[d] = op[d]

LEMMA FinishReturned ==
  ASSUME op \in [Callers -> OpType], NEW c \in Callers, Finish(c)
  PROVE  Returned(c)
  BY DEF Finish, Returned, OpType, OpPcs, Idle

\* The other fields of an operation that steps fill in.
LEMMA TokenFilled ==
  ASSUME op \in [Callers -> OpType], NEW c \in Callers, NEW l \in OpPcs, NEW b \in BOOLEAN,
         op' = [op EXCEPT ![c].pc = l, ![c].tok = b]
  PROVE  Went(c, l)
  BY DEF Went, OpType

LEMMA TokenKept ==
  ASSUME op \in [Callers -> OpType], NEW c \in Callers, NEW b \in BOOLEAN,
         op' = [op EXCEPT ![c].tok = b]
  PROVE  Went(c, op[c].pc)
  BY DEF Went, OpType

LEMMA EpochFilled ==
  ASSUME op \in [Callers -> OpType], NEW c \in Callers, NEW l \in OpPcs, NEW n \in Nat,
         op' = [op EXCEPT ![c].pc = l, ![c].epoch = n]
  PROVE  Went(c, l)
  BY DEF Went, OpType

LEMMA SessionFilled ==
  ASSUME op \in [Callers -> OpType], NEW c \in Callers, NEW l \in OpPcs, NEW n \in Nat,
         op' = [op EXCEPT ![c].pc = l, ![c].sid = n]
  PROVE  Went(c, l)
  BY DEF Went, OpType

LEMMA PulseFilled ==
  ASSUME op \in [Callers -> OpType], NEW c \in Callers, NEW l \in OpPcs, NEW n \in Nat,
         NEW m \in Nat, op' = [op EXCEPT ![c].pc = l, ![c].sid = n, ![c].seq = m]
  PROVE  Went(c, l)
  BY DEF Went, OpType

LEMMA BeatFilled ==
  ASSUME op \in [Callers -> OpType], NEW c \in Callers, NEW l \in OpPcs, NEW n \in Nat,
         op' = [op EXCEPT ![c].pc = l, ![c].beat = n]
  PROVE  Went(c, l) /\ op'[c].beat = n
  BY DEF Went, OpType

LEMMA FaultCounts ==
  ASSUME CountsOK, NEW h, Fault(h)
  PROVE  faults' \in 0..MaxFaults
  BY SessionsAssumption DEF CountsOK, Fault

\* The task h becomes b.
Became(h, b) ==
  /\ beats' \in Seq(BeatType)
  /\ DOMAIN beats' = DOMAIN beats
  /\ beats'[h] = b
  /\ \A g \in DOMAIN beats : g # h => beats'[g] = beats[g]

LEMMA ExceptBecame ==
  ASSUME beats \in Seq(BeatType), NEW h \in DOMAIN beats, NEW b \in BeatType,
         beats' = [beats EXCEPT ![h] = b]
  PROVE  Became(h, b)
  BY DEF Became

LEMMA BeatGoes ==
  ASSUME beats \in Seq(BeatType), NEW h \in DOMAIN beats, NEW l \in BeatPcs,
         beats' = [beats EXCEPT ![h].pc = l]
  PROVE  Became(h, [beats[h] EXCEPT !.pc = l]) /\ beats[h] \in BeatType
  <1>1. beats[h] \in BeatType
    OBVIOUS
  <1>2. [beats[h] EXCEPT !.pc = l] \in BeatType
    BY <1>1 DEF BeatType
  <1>3. beats' = [beats EXCEPT ![h] = [beats[h] EXCEPT !.pc = l]]
    OBVIOUS
  <1> QED BY <1>1, <1>2, <1>3, ExceptBecame

\* Taking a handle out cancels its task.
LEMMA CancelledBeats ==
  ASSUME beats \in Seq(BeatType), NEW h \in {0} \union DOMAIN beats
  PROVE  /\ Cancelled(h) \in Seq(BeatType)
         /\ DOMAIN Cancelled(h) = DOMAIN beats
         /\ \A g \in DOMAIN beats : Cancelled(h)[g].pc = beats[g].pc
         /\ \A g \in DOMAIN beats : g # h => Cancelled(h)[g] = beats[g]
  <1>1. CASE h = 0
    BY <1>1 DEF Cancelled
  <1>2. CASE h \in DOMAIN beats /\ h # 0
    <2>1. beats[h] \in BeatType
      BY <1>2
    <2>2. [beats[h] EXCEPT !.cancelled = TRUE] \in BeatType
      BY <2>1 DEF BeatType
    <2>3. Cancelled(h) = [beats EXCEPT ![h] = [beats[h] EXCEPT !.cancelled = TRUE]]
      BY <1>2 DEF Cancelled
    <2>4. [beats[h] EXCEPT !.cancelled = TRUE].pc = beats[h].pc
      BY <2>1 DEF BeatType
    <2> QED BY <1>2, <2>2, <2>3, <2>4
  <1> QED BY <1>1, <1>2

-----------------------------------------------------------------------------
(***************************************************************************)
(* Frames                                                                  *)
(***************************************************************************)
\* The caller c makes the step, and no other operation is under way.
Alone(c) == \A d \in Callers : d # c => op[d].pc = "idle" /\ op'[d] = op[d]

\* Operations do not overlap.
LEMMA NoOther ==
  ASSUME OneOp, NEW c \in Callers, op[c].pc # "idle", \A d \in Callers : d # c => op'[d] = op[d]
  PROVE  Alone(c)
  BY DEF OneOp, Alone

\* Then what is said of all callers is said of this one.
LEMMA OnlyCaller ==
  ASSUME NEW c \in Callers, Alone(c)
  PROVE  /\ Putting <=> Starting(c) /\ op[c].pc \in PutPcs
         /\ Putting' <=> (Starting(c) /\ op[c].pc \in PutPcs)'
         /\ Rest <=> op[c].pc \notin MidPcs
         /\ Rest' <=> op'[c].pc \notin MidPcs
         /\ \A h : Awaited(h) <=> op[c].pc = "join" /\ op[c].beat = h
         /\ \A h : Awaited(h)' <=> op'[c].pc = "join" /\ op'[c].beat = h
  BY DEF Alone, Putting, PutPcs, Rest, MidPcs, Unhooked, Awaited, Starting

\* A step of a caller keeps the invariant if it keeps what concerns that caller.
LEMMA CallerStep ==
  ASSUME SessInv, NEW c \in Callers, Alone(c), Types', KindOf(c)', ChainOK', StopOf(c)', RestOK',
         handle' # 0 => handle' \in DOMAIN beats' /\ ~beats'[handle'].cancelled /\ ~Over(handle)',
         \A h \in DOMAIN beats' :
           h # handle' => Over(h)' \/ (op'[c].pc = "join" /\ op'[c].beat = h),
         op'[c].pc \in Unhooked => handle' = 0
  PROVE  SessInv'
  <1>1. OneOp'
    BY DEF OneOp, Alone
  <1>2. KindOK'
    BY DEF SessInv, KindOK, KindOf, Alone, StartPcs, OtherPcs
  <1>3. StopOK'
    BY DEF SessInv, StopOK, StopOf, Alone, Unhooked
  <1>4. HandleOK'
    <2>1. \A h \in DOMAIN beats' : h # handle' => Over(h)' \/ Awaited(h)'
      BY DEF Awaited
    <2>2. \A d \in Callers : op'[d].pc \in Unhooked => handle' = 0
      BY DEF Alone, Unhooked
    <2> QED BY <2>1, <2>2 DEF HandleOK
  <1> QED BY <1>1, <1>2, <1>3, <1>4 DEF SessInv

\* The maps keep their shape.
Mild ==
  /\ sess'.state = sess.state /\ (sess' = NoSess <=> sess = NoSess)
  /\ transport' = transport
  /\ reg'.active = reg.active \/ reg'.active = 0
  /\ handle' = handle /\ beats' = beats

\* A step away from the middle of the maps that keeps their shape.
LEMMA FreeStep ==
  ASSUME SessInv, NEW c \in Callers, Alone(c), Types', Mild, KindOf(c)',
         op[c].pc \notin MidPcs, op'[c].pc \notin MidPcs
  PROVE  SessInv'
  <1>1. ~Putting /\ ~Putting' /\ Rest /\ Rest' /\ (\A h : ~Awaited(h) /\ ~Awaited(h)')
    BY OnlyCaller DEF MidPcs, Unhooked, PutPcs
  <1>2. ChainOK'
    BY <1>1 DEF SessInv, ChainOK, Mild
  <1>3. RestOK'
    BY <1>1 DEF SessInv, RestOK, Mild, Clear
  <1>4. StopOf(c)'
    BY DEF StopOf, MidPcs, Unhooked
  <1>5. handle' # 0 => handle' \in DOMAIN beats' /\ ~beats'[handle'].cancelled /\ ~Over(handle)'
    BY DEF SessInv, HandleOK, Over, Mild
  <1>6. \A h \in DOMAIN beats' : h # handle' => Over(h)'
    BY <1>1 DEF SessInv, HandleOK, Over, Mild
  <1> QED BY <1>2, <1>3, <1>4, <1>5, <1>6, CallerStep DEF MidPcs

\* A step of the receiver that keeps the shape of the maps.
LEMMA StillStep ==
  ASSUME SessInv, Types', Mild, op' = op
  PROVE  SessInv'
  <1>1. OneOp' /\ KindOK' /\ HandleOK'
    BY DEF SessInv, OneOp, KindOK, KindOf, Starting, HandleOK, Over, Awaited, Mild
  <1>2. ChainOK'
    BY DEF SessInv, ChainOK, Putting, Starting, Mild
  <1>3. StopOK'
    BY DEF SessInv, StopOK, StopOf, Starting, Clear, Clearing, Mild
  <1>4. RestOK'
    BY DEF SessInv, RestOK, Rest, Clear, Mild
  <1> QED BY <1>1, <1>2, <1>3, <1>4 DEF SessInv

\* The receiver gives authority, and perhaps ends its session.
LEMMA RcvGives ==
  ASSUME RcvOK, NEW o \in {"nobody", "us", "peer"}, NEW n \in {0, rcv.session},
         \/ rcv' = [rcv EXCEPT !.owner = o, !.epoch = @ + 1]
         \/ rcv' = [rcv EXCEPT !.owner = o, !.epoch = @ + 1, !.session = n]
  PROVE  RcvOK'
  <1>1. rcv.epoch \in Nat /\ rcv.epoch + 1 \in Nat /\ rcv.session \in Nat /\ n \in Nat /\ rcv.last \in Nat
    BY DEF RcvOK, RcvType
  <1>2. n <= rcv.last
    BY <1>1 DEF RcvOK
  <1>3. CASE rcv' = [rcv EXCEPT !.owner = o, !.epoch = @ + 1]
    <2>1. rcv' \in RcvType
      BY <1>1, <1>3 DEF RcvOK, RcvType
    <2>2. rcv'.session = rcv.session /\ rcv'.last = rcv.last
      BY <1>3 DEF RcvOK, RcvType
    <2> QED BY <2>1, <2>2 DEF RcvOK
  <1>4. CASE rcv' = [rcv EXCEPT !.owner = o, !.epoch = @ + 1, !.session = n]
    <2>1. rcv' \in RcvType
      BY <1>1, <1>4 DEF RcvOK, RcvType
    <2>2. rcv'.session = n /\ rcv'.last = rcv.last
      BY <1>4 DEF RcvOK, RcvType
    <2> QED BY <1>2, <2>1, <2>2 DEF RcvOK
  <1> QED BY <1>3, <1>4

\* The receiver creates a session.
LEMMA RcvCreates ==
  ASSUME RcvOK, rcv' = [rcv EXCEPT !.session = rcv.last + 1, !.last = @ + 1, !.seq = 0]
  PROVE  RcvOK'
  <1>1. rcv.last + 1 \in Nat
    BY DEF RcvOK, RcvType
  <1>2. rcv' \in RcvType
    BY <1>1 DEF RcvOK, RcvType
  <1>3. rcv'.session = rcv.last + 1 /\ rcv'.last = rcv.last + 1
    BY DEF RcvOK, RcvType
  <1> QED BY <1>1, <1>2, <1>3 DEF RcvOK

\* A heartbeat that is answered leaves the session what it was.
LEMMA CountedShape ==
  ASSUME MapsOK
  PROVE  /\ Counted \in [id: Nat, state: {"None", "Active", "Closing", "Failed"}, seq: Nat]
         /\ Counted.state = sess.state
         /\ Counted = NoSess <=> sess = NoSess
  BY DEF MapsOK, Counted, NoSess

-----------------------------------------------------------------------------
(***************************************************************************)
(* The steps of an operation away from the maps                            *)
(***************************************************************************)

LEMMA ReadEntrySafe ==
  ASSUME SessInv, NEW c \in Callers, ReadEntry(c)
  PROVE  SessInv'
  <1>0. Types /\ op[c] \in OpType /\ op[c].pc = "read" /\ KindOf(c)
    BY DEF SessInv, Types, TasksOK, KindOK, ReadEntry
  <1>1. Went(c, "claim") \/ Went(c, "create") \/ Returned(c)
    <2>1. op[c].pc = "read" /\ reg.token \in BOOLEAN
      BY <1>0 DEF Types, RegOK, ReadEntry
    <2>2. CASE Finish(c)
      BY <1>0, <2>2, FinishReturned DEF Types, TasksOK
    <2>3. CASE op' = [op EXCEPT ![c].pc = IF Authority THEN "claim" ELSE "create", ![c].tok = reg.token]
      <3> DEFINE l == IF Authority THEN "claim" ELSE "create"
      <3>1. l \in {"claim", "create"} /\ l \in OpPcs
        BY DEF OpPcs
      <3>2. op' = [op EXCEPT ![c].pc = l, ![c].tok = reg.token]
        BY <2>3
      <3> HIDE DEF l
      <3>3. Went(c, l)
        BY <1>0, <2>1, <3>1, <3>2, TokenFilled DEF Types, TasksOK
      <3> QED BY <3>1, <3>3
    <2> QED BY <2>2, <2>3 DEF ReadEntry
  <1>2. op' \in [Callers -> OpType] /\ Alone(c)
    BY <1>0, <1>1, NoOther DEF Went, Returned, SessInv
  <1>3. Mild
    BY <1>0 DEF Types, RegOK, MapsOK, Mild, UnchangedLocal, ReadEntry
  <1>4. Types'
    <2>1. RegOK'
      BY <1>0 DEF Types, RegOK, UnchangedLocal, ReadEntry
    <2>2. MapsOK'
      BY <1>0 DEF Types, MapsOK, TasksOK, OpType, UnchangedLocal, ReadEntry
    <2>3. RcvOK'
      BY <1>0 DEF Types, RcvOK, RcvType, OpType, ReadEntry
    <2>4. CountsOK'
      BY <1>0, FaultCounts DEF Types, CountsOK, ReadEntry
    <2>5. TasksOK'
      BY <1>0, <1>2, <1>3 DEF Types, TasksOK, Mild
    <2> QED BY <2>1, <2>2, <2>3, <2>4, <2>5 DEF Types
  <1>5. KindOf(c)'
    BY <1>0, <1>1 DEF KindOf, Went, Returned, Starting, StartPcs, OtherPcs, ReadEntry
  <1>6. op[c].pc \notin MidPcs /\ op'[c].pc \notin MidPcs
    BY <1>0, <1>1 DEF MidPcs, Unhooked, Went, Returned
  <1> QED BY <1>2, <1>3, <1>4, <1>5, <1>6, FreeStep

LEMMA ClaimSafe ==
  ASSUME SessInv, NEW c \in Callers, Claim(c)
  PROVE  SessInv'
  <1>0. Types /\ op[c] \in OpType /\ op[c].pc = "claim" /\ KindOf(c)
    BY DEF SessInv, Types, TasksOK, KindOK, Claim
  <1>1. Went(c, "keepGrant") \/ Returned(c)
    <2>1. rcv.epoch + 1 \in Nat /\ "keepGrant" \in OpPcs
      BY <1>0 DEF Types, RcvOK, RcvType, OpPcs
    <2>2. CASE Finish(c)
      BY <1>0, <2>2, FinishReturned DEF Types, TasksOK
    <2>3. CASE op' = [op EXCEPT ![c].pc = "keepGrant", ![c].epoch = rcv.epoch + 1]
      BY <1>0, <2>1, <2>3, EpochFilled DEF Types, TasksOK
    <2> QED BY <2>2, <2>3 DEF Claim
  <1>2. op' \in [Callers -> OpType] /\ Alone(c)
    BY <1>0, <1>1, NoOther DEF Went, Returned, SessInv
  <1>3. Mild
    BY <1>0 DEF Types, RegOK, MapsOK, Mild, UnchangedLocal, Claim
  <1>4. Types'
    <2>1. RegOK'
      BY <1>0 DEF Types, RegOK, UnchangedLocal, Claim
    <2>2. MapsOK'
      BY <1>0 DEF Types, MapsOK, TasksOK, OpType, UnchangedLocal, Claim
    <2>3. RcvOK'
      BY <1>0, RcvGives DEF Types, RcvOK, Claim
    <2>4. CountsOK'
      BY <1>0, FaultCounts DEF Types, CountsOK, Claim
    <2>5. TasksOK'
      BY <1>0, <1>2, <1>3 DEF Types, TasksOK, Mild
    <2> QED BY <2>1, <2>2, <2>3, <2>4, <2>5 DEF Types
  <1>5. KindOf(c)'
    BY <1>0, <1>1 DEF KindOf, Went, Returned, Starting, StartPcs, OtherPcs, Claim
  <1>6. op[c].pc \notin MidPcs /\ op'[c].pc \notin MidPcs
    BY <1>0, <1>1 DEF MidPcs, Unhooked, Went, Returned
  <1> QED BY <1>2, <1>3, <1>4, <1>5, <1>6, FreeStep

LEMMA KeepGrantSafe ==
  ASSUME SessInv, NEW c \in Callers, KeepGrant(c)
  PROVE  SessInv'
  <1>0. Types /\ op[c] \in OpType /\ op[c].pc = "keepGrant" /\ KindOf(c)
    BY DEF SessInv, Types, TasksOK, KindOK, KeepGrant
  <1>1. (op[c].kind # "takeover" /\ Went(c, "create")) \/ Returned(c)
    BY <1>0, GotoWent, FinishReturned DEF Types, TasksOK, OpPcs, KeepGrant
  <1>2. op' \in [Callers -> OpType] /\ Alone(c)
    BY <1>0, <1>1, NoOther DEF Went, Returned, SessInv
  <1>3. Mild
    BY <1>0 DEF Types, RegOK, MapsOK, Mild, UnchangedLocal, KeepGrant
  <1>4. Types'
    <2>1. RegOK'
      BY <1>0 DEF Types, RegOK, UnchangedLocal, KeepGrant
    <2>2. MapsOK'
      BY <1>0 DEF Types, MapsOK, TasksOK, OpType, UnchangedLocal, KeepGrant
    <2>3. RcvOK'
      BY <1>0 DEF Types, RcvOK, RcvType, OpType, KeepGrant
    <2>4. CountsOK'
      BY <1>0, FaultCounts DEF Types, CountsOK, KeepGrant
    <2>5. TasksOK'
      BY <1>0, <1>2, <1>3 DEF Types, TasksOK, Mild
    <2> QED BY <2>1, <2>2, <2>3, <2>4, <2>5 DEF Types
  <1>5. KindOf(c)'
    BY <1>0, <1>1 DEF KindOf, Went, Returned, Starting, StartPcs, OtherPcs, KeepGrant
  <1>6. op[c].pc \notin MidPcs /\ op'[c].pc \notin MidPcs
    BY <1>0, <1>1 DEF MidPcs, Unhooked, Went, Returned
  <1> QED BY <1>2, <1>3, <1>4, <1>5, <1>6, FreeStep

LEMMA CreateSafe ==
  ASSUME SessInv, NEW c \in Callers, Create(c)
  PROVE  SessInv'
  <1>0. Types /\ op[c] \in OpType /\ op[c].pc = "create" /\ KindOf(c)
    BY DEF SessInv, Types, TasksOK, KindOK, Create
  <1>1. Went(c, "create") \/ Went(c, "openTransport") \/ Returned(c)
    <2>1. rcv.last + 1 \in Nat /\ "openTransport" \in OpPcs
      BY <1>0 DEF Types, RcvOK, RcvType, OpPcs
    <2>2. CASE Finish(c)
      BY <1>0, <2>2, FinishReturned DEF Types, TasksOK
    <2>3. CASE op' = [op EXCEPT ![c].pc = "openTransport", ![c].sid = rcv.last + 1]
      BY <1>0, <2>1, <2>3, SessionFilled DEF Types, TasksOK
    <2>4. CASE op' = [op EXCEPT ![c].tok = TRUE]
      <3>1. Went(c, op[c].pc)
        BY <1>0, <2>4, TokenKept DEF Types, TasksOK
      <3> QED BY <1>0, <3>1
    <2> QED BY <2>2, <2>3, <2>4 DEF Create
  <1>2. op' \in [Callers -> OpType] /\ Alone(c)
    BY <1>0, <1>1, NoOther DEF Went, Returned, SessInv
  <1>3. Mild
    BY <1>0 DEF Types, RegOK, MapsOK, Mild, UnchangedLocal, Create
  <1>4. Types'
    <2>1. RegOK'
      BY <1>0 DEF Types, RegOK, UnchangedLocal, Create
    <2>2. MapsOK'
      BY <1>0 DEF Types, MapsOK, TasksOK, OpType, UnchangedLocal, Create
    <2>3. RcvOK'
      BY <1>0, RcvCreates DEF Types, RcvOK, Create
    <2>4. CountsOK'
      BY <1>0, FaultCounts DEF Types, CountsOK, Create
    <2>5. TasksOK'
      BY <1>0, <1>2, <1>3 DEF Types, TasksOK, Mild
    <2> QED BY <2>1, <2>2, <2>3, <2>4, <2>5 DEF Types
  <1>5. KindOf(c)'
    BY <1>0, <1>1 DEF KindOf, Went, Returned, Starting, StartPcs, OtherPcs, Create
  <1>6. op[c].pc \notin MidPcs /\ op'[c].pc \notin MidPcs
    BY <1>0, <1>1 DEF MidPcs, Unhooked, Went, Returned
  <1> QED BY <1>2, <1>3, <1>4, <1>5, <1>6, FreeStep

LEMMA OpenTransportSafe ==
  ASSUME SessInv, NEW c \in Callers, OpenTransport(c)
  PROVE  SessInv'
  <1>0. Types /\ op[c] \in OpType /\ op[c].pc = "openTransport" /\ KindOf(c)
    BY DEF SessInv, Types, TasksOK, KindOK, OpenTransport
  <1>1. Went(c, "putSess") \/ Returned(c)
    BY <1>0, GotoWent, FinishReturned DEF Types, TasksOK, OpPcs, OpenTransport
  <1>2. op' \in [Callers -> OpType] /\ Alone(c)
    BY <1>0, <1>1, NoOther DEF Went, Returned, SessInv
  <1>3. Mild
    BY <1>0 DEF Types, RegOK, MapsOK, Mild, UnchangedLocal, OpenTransport
  <1>4. Types'
    <2>1. RegOK'
      BY <1>0 DEF Types, RegOK, UnchangedLocal, OpenTransport
    <2>2. MapsOK'
      BY <1>0 DEF Types, MapsOK, TasksOK, OpType, UnchangedLocal, OpenTransport
    <2>3. RcvOK'
      BY <1>0 DEF Types, RcvOK, RcvType, OpType, OpenTransport
    <2>4. CountsOK'
      BY <1>0, FaultCounts DEF Types, CountsOK, OpenTransport
    <2>5. TasksOK'
      BY <1>0, <1>2, <1>3 DEF Types, TasksOK, Mild
    <2> QED BY <2>1, <2>2, <2>3, <2>4, <2>5 DEF Types
  <1>5. KindOf(c)'
    BY <1>0, <1>1 DEF KindOf, Went, Returned, Starting, StartPcs, OtherPcs, OpenTransport
  <1>6. op[c].pc \notin MidPcs /\ op'[c].pc \notin MidPcs
    BY <1>0, <1>1 DEF MidPcs, Unhooked, Went, Returned
  <1> QED BY <1>2, <1>3, <1>4, <1>5, <1>6, FreeStep

LEMMA RevokeSafe ==
  ASSUME SessInv, NEW c \in Callers, Revoke(c)
  PROVE  SessInv'
  <1>0. Types /\ op[c] \in OpType /\ op[c].pc = "revoke" /\ KindOf(c)
    BY DEF SessInv, Types, TasksOK, KindOK, Revoke
  <1>1. Went(c, "mark")
    BY <1>0, GotoWent, FinishReturned DEF Types, TasksOK, OpPcs, Revoke
  <1>2. op' \in [Callers -> OpType] /\ Alone(c)
    BY <1>0, <1>1, NoOther DEF Went, Returned, SessInv
  <1>3. Mild
    BY <1>0 DEF Types, RegOK, MapsOK, Mild, UnchangedLocal, Revoke
  <1>4. Types'
    <2>1. RegOK'
      BY <1>0 DEF Types, RegOK, UnchangedLocal, Revoke
    <2>2. MapsOK'
      BY <1>0 DEF Types, MapsOK, TasksOK, OpType, UnchangedLocal, Revoke
    <2>3. RcvOK'
      BY <1>0 DEF Types, RcvOK, RcvType, OpType, Revoke
    <2>4. CountsOK'
      BY <1>0, FaultCounts DEF Types, CountsOK, Revoke
    <2>5. TasksOK'
      BY <1>0, <1>2, <1>3 DEF Types, TasksOK, Mild
    <2> QED BY <2>1, <2>2, <2>3, <2>4, <2>5 DEF Types
  <1>5. KindOf(c)'
    BY <1>0, <1>1 DEF KindOf, Went, Returned, Starting, StartPcs, OtherPcs, Revoke
  <1>6. op[c].pc \notin MidPcs /\ op'[c].pc \notin MidPcs
    BY <1>0, <1>1 DEF MidPcs, Unhooked, Went, Returned
  <1> QED BY <1>2, <1>3, <1>4, <1>5, <1>6, FreeStep

LEMMA ForgetSafe ==
  ASSUME SessInv, NEW c \in Callers, Forget(c)
  PROVE  SessInv'
  <1>0. Types /\ op[c] \in OpType /\ op[c].pc = "forget" /\ KindOf(c)
    BY DEF SessInv, Types, TasksOK, KindOK, Forget
  <1>1. Returned(c)
    BY <1>0, GotoWent, FinishReturned DEF Types, TasksOK, OpPcs, Forget
  <1>2. op' \in [Callers -> OpType] /\ Alone(c)
    BY <1>0, <1>1, NoOther DEF Went, Returned, SessInv
  <1>3. Mild
    BY <1>0 DEF Types, RegOK, MapsOK, Mild, UnchangedLocal, Forget
  <1>4. Types'
    <2>1. RegOK'
      BY <1>0 DEF Types, RegOK, UnchangedLocal, Forget
    <2>2. MapsOK'
      BY <1>0 DEF Types, MapsOK, TasksOK, OpType, UnchangedLocal, Forget
    <2>3. RcvOK'
      BY <1>0 DEF Types, RcvOK, RcvType, OpType, Forget
    <2>4. CountsOK'
      BY <1>0, FaultCounts DEF Types, CountsOK, Forget
    <2>5. TasksOK'
      BY <1>0, <1>2, <1>3 DEF Types, TasksOK, Mild
    <2> QED BY <2>1, <2>2, <2>3, <2>4, <2>5 DEF Types
  <1>5. KindOf(c)'
    BY <1>0, <1>1 DEF KindOf, Went, Returned, Starting, StartPcs, OtherPcs, Forget
  <1>6. op[c].pc \notin MidPcs /\ op'[c].pc \notin MidPcs
    BY <1>0, <1>1 DEF MidPcs, Unhooked, Went, Returned
  <1> QED BY <1>2, <1>3, <1>4, <1>5, <1>6, FreeStep

LEMMA TakeoverSafe ==
  ASSUME SessInv, NEW c \in Callers, Takeover(c)
  PROVE  SessInv'
  <1>0. Types /\ op[c] \in OpType /\ op[c].pc = "takeover" /\ KindOf(c)
    BY DEF SessInv, Types, TasksOK, KindOK, Takeover
  <1>1. Went(c, "keepGrant") \/ Returned(c)
    <2>1. rcv.epoch + 1 \in Nat /\ "keepGrant" \in OpPcs
      BY <1>0 DEF Types, RcvOK, RcvType, OpPcs
    <2>2. CASE Finish(c)
      BY <1>0, <2>2, FinishReturned DEF Types, TasksOK
    <2>3. CASE op' = [op EXCEPT ![c].pc = "keepGrant", ![c].epoch = rcv.epoch + 1]
      BY <1>0, <2>1, <2>3, EpochFilled DEF Types, TasksOK
    <2> QED BY <2>2, <2>3 DEF Takeover
  <1>2. op' \in [Callers -> OpType] /\ Alone(c)
    BY <1>0, <1>1, NoOther DEF Went, Returned, SessInv
  <1>3. Mild
    BY <1>0 DEF Types, RegOK, MapsOK, Mild, UnchangedLocal, Takeover
  <1>4. Types'
    <2>1. RegOK'
      BY <1>0 DEF Types, RegOK, UnchangedLocal, Takeover
    <2>2. MapsOK'
      BY <1>0 DEF Types, MapsOK, TasksOK, OpType, UnchangedLocal, Takeover
    <2>3. RcvOK'
      BY <1>0, RcvGives DEF Types, RcvOK, Takeover
    <2>4. CountsOK'
      BY <1>0, FaultCounts DEF Types, CountsOK, Takeover
    <2>5. TasksOK'
      BY <1>0, <1>2, <1>3 DEF Types, TasksOK, Mild
    <2> QED BY <2>1, <2>2, <2>3, <2>4, <2>5 DEF Types
  <1>5. KindOf(c)'
    BY <1>0, <1>1 DEF KindOf, Went, Returned, Starting, StartPcs, OtherPcs, Takeover
  <1>6. op[c].pc \notin MidPcs /\ op'[c].pc \notin MidPcs
    BY <1>0, <1>1 DEF MidPcs, Unhooked, Went, Returned
  <1> QED BY <1>2, <1>3, <1>4, <1>5, <1>6, FreeStep

LEMMA HandoffSafe ==
  ASSUME SessInv, NEW c \in Callers, Handoff(c)
  PROVE  SessInv'
  <1>0. Types /\ op[c] \in OpType /\ op[c].pc = "transfer" /\ KindOf(c)
    BY DEF SessInv, Types, TasksOK, KindOK, Handoff
  <1>1. Went(c, "commit") \/ Returned(c)
    BY <1>0, GotoWent, FinishReturned DEF Types, TasksOK, OpPcs, Handoff
  <1>2. op' \in [Callers -> OpType] /\ Alone(c)
    BY <1>0, <1>1, NoOther DEF Went, Returned, SessInv
  <1>3. Mild
    BY <1>0 DEF Types, RegOK, MapsOK, Mild, UnchangedLocal, Handoff
  <1>4. Types'
    <2>1. RegOK'
      BY <1>0 DEF Types, RegOK, UnchangedLocal, Handoff
    <2>2. MapsOK'
      BY <1>0 DEF Types, MapsOK, TasksOK, OpType, UnchangedLocal, Handoff
    <2>3. RcvOK'
      <3>1. CASE UNCHANGED rcv
        BY <1>0, <3>1 DEF Types, RcvOK
      <3>2. CASE \E n \in {0, rcv.session} :
                   rcv' = [rcv EXCEPT !.owner = "peer", !.epoch = @ + 1, !.session = n]
        BY <1>0, <3>2, RcvGives DEF Types
      <3> QED BY <3>1, <3>2 DEF Handoff
    <2>4. CountsOK'
      BY <1>0, FaultCounts DEF Types, CountsOK, Handoff
    <2>5. TasksOK'
      BY <1>0, <1>2, <1>3 DEF Types, TasksOK, Mild
    <2> QED BY <2>1, <2>2, <2>3, <2>4, <2>5 DEF Types
  <1>5. KindOf(c)'
    BY <1>0, <1>1 DEF KindOf, Went, Returned, Starting, StartPcs, OtherPcs, Handoff
  <1>6. op[c].pc \notin MidPcs /\ op'[c].pc \notin MidPcs
    BY <1>0, <1>1 DEF MidPcs, Unhooked, Went, Returned
  <1> QED BY <1>2, <1>3, <1>4, <1>5, <1>6, FreeStep

LEMMA CommitSafe ==
  ASSUME SessInv, NEW c \in Callers, Commit(c)
  PROVE  SessInv'
  <1>0. Types /\ op[c] \in OpType /\ op[c].pc = "commit" /\ KindOf(c)
    BY DEF SessInv, Types, TasksOK, KindOK, Commit
  <1>1. Went(c, "mark") \/ Returned(c)
    BY <1>0, GotoWent, FinishReturned DEF Types, TasksOK, OpPcs, Commit
  <1>2. op' \in [Callers -> OpType] /\ Alone(c)
    BY <1>0, <1>1, NoOther DEF Went, Returned, SessInv
  <1>3. Mild
    BY <1>0 DEF Types, RegOK, MapsOK, Mild, UnchangedLocal, Commit
  <1>4. Types'
    <2>1. RegOK'
      BY <1>0 DEF Types, RegOK, UnchangedLocal, Commit
    <2>2. MapsOK'
      BY <1>0 DEF Types, MapsOK, TasksOK, OpType, UnchangedLocal, Commit
    <2>3. RcvOK'
      BY <1>0 DEF Types, RcvOK, RcvType, OpType, Commit
    <2>4. CountsOK'
      BY <1>0, FaultCounts DEF Types, CountsOK, Commit
    <2>5. TasksOK'
      BY <1>0, <1>2, <1>3 DEF Types, TasksOK, Mild
    <2> QED BY <2>1, <2>2, <2>3, <2>4, <2>5 DEF Types
  <1>5. KindOf(c)'
    BY <1>0, <1>1 DEF KindOf, Went, Returned, Starting, StartPcs, OtherPcs, Commit
  <1>6. op[c].pc \notin MidPcs /\ op'[c].pc \notin MidPcs
    BY <1>0, <1>1 DEF MidPcs, Unhooked, Went, Returned
  <1> QED BY <1>2, <1>3, <1>4, <1>5, <1>6, FreeStep

LEMMA ReadPulseSafe ==
  ASSUME SessInv, NEW c \in Callers, ReadPulse(c)
  PROVE  SessInv'
  <1>0. Types /\ op[c] \in OpType /\ op[c].pc = "pulse" /\ KindOf(c)
    BY DEF SessInv, Types, TasksOK, KindOK, ReadPulse
  <1>1. Went(c, "callPulse") \/ Returned(c)
    <2>1. sess.id \in Nat /\ sess.seq + 1 \in Nat /\ "callPulse" \in OpPcs
      BY <1>0 DEF Types, MapsOK, OpPcs
    <2>2. CASE Finish(c)
      BY <1>0, <2>2, FinishReturned DEF Types, TasksOK
    <2>3. CASE op' = [op EXCEPT ![c].pc = "callPulse", ![c].sid = sess.id, ![c].seq = sess.seq + 1]
      BY <1>0, <2>1, <2>3, PulseFilled DEF Types, TasksOK
    <2> QED BY <2>2, <2>3 DEF ReadPulse
  <1>2. op' \in [Callers -> OpType] /\ Alone(c)
    BY <1>0, <1>1, NoOther DEF Went, Returned, SessInv
  <1>3. Mild
    BY <1>0 DEF Types, RegOK, MapsOK, Mild, UnchangedLocal, ReadPulse
  <1>4. Types'
    <2>1. RegOK'
      BY <1>0 DEF Types, RegOK, UnchangedLocal, ReadPulse
    <2>2. MapsOK'
      BY <1>0 DEF Types, MapsOK, TasksOK, OpType, UnchangedLocal, ReadPulse
    <2>3. RcvOK'
      BY <1>0 DEF Types, RcvOK, RcvType, OpType, ReadPulse
    <2>4. CountsOK'
      BY <1>0, FaultCounts DEF Types, CountsOK, ReadPulse
    <2>5. TasksOK'
      BY <1>0, <1>2, <1>3 DEF Types, TasksOK, Mild
    <2> QED BY <2>1, <2>2, <2>3, <2>4, <2>5 DEF Types
  <1>5. KindOf(c)'
    BY <1>0, <1>1 DEF KindOf, Went, Returned, Starting, StartPcs, OtherPcs, ReadPulse
  <1>6. op[c].pc \notin MidPcs /\ op'[c].pc \notin MidPcs
    BY <1>0, <1>1 DEF MidPcs, Unhooked, Went, Returned
  <1> QED BY <1>2, <1>3, <1>4, <1>5, <1>6, FreeStep

LEMMA CallPulseSafe ==
  ASSUME SessInv, NEW c \in Callers, CallPulse(c)
  PROVE  SessInv'
  <1>0. Types /\ op[c] \in OpType /\ op[c].pc = "callPulse" /\ KindOf(c)
    BY DEF SessInv, Types, TasksOK, KindOK, CallPulse
  <1>1. Returned(c)
    BY <1>0, GotoWent, FinishReturned DEF Types, TasksOK, OpPcs, CallPulse
  <1>2. op' \in [Callers -> OpType] /\ Alone(c)
    BY <1>0, <1>1, NoOther DEF Went, Returned, SessInv
  <1>3. Mild
    BY <1>0, CountedShape DEF Types, RegOK, MapsOK, Mild, UnchangedLocal, Reauthenticated, CallPulse
  <1>4. Types'
    <2>1. RegOK'
      BY <1>0 DEF Types, RegOK, UnchangedLocal, Reauthenticated, CallPulse
    <2>2. MapsOK'
      BY <1>0, CountedShape DEF Types, MapsOK, TasksOK, OpType, UnchangedLocal, CallPulse
    <2>3. RcvOK'
      BY <1>0 DEF Types, RcvOK, RcvType, OpType, CallPulse
    <2>4. CountsOK'
      BY <1>0, FaultCounts DEF Types, CountsOK, CallPulse
    <2>5. TasksOK'
      BY <1>0, <1>2, <1>3 DEF Types, TasksOK, Mild
    <2> QED BY <2>1, <2>2, <2>3, <2>4, <2>5 DEF Types
  <1>5. KindOf(c)'
    BY <1>0, <1>1 DEF KindOf, Went, Returned, Starting, StartPcs, OtherPcs, CallPulse
  <1>6. op[c].pc \notin MidPcs /\ op'[c].pc \notin MidPcs
    BY <1>0, <1>1 DEF MidPcs, Unhooked, Went, Returned
  <1> QED BY <1>2, <1>3, <1>4, <1>5, <1>6, FreeStep

\* A request begins an operation when no other is under way.
LEMMA BeginSafe ==
  ASSUME SessInv, "concurrent" \notin Hazards, NEW c \in Callers, NEW kind \in Kinds, Begin(c, kind)
  PROVE  SessInv'
  <1>0. Types /\ (\A d \in Callers : op[d].pc = "idle")
    BY DEF SessInv, Begin
  <1>1. FirstStep(kind) \in {"read", "mark", "transfer", "takeover", "pulse", "revoke"}
    BY DEF FirstStep, Kinds
  <1>2. [Idle EXCEPT !.pc = FirstStep(kind), !.kind = kind] \in OpType
    BY <1>1 DEF Idle, OpType, OpPcs
  <1>3. /\ op' \in [Callers -> OpType]
        /\ op'[c].pc = FirstStep(kind) /\ op'[c].kind = kind
        /\ \A d \in Callers : d # c => op'[d] = op[d]
    BY <1>0, <1>2 DEF Begin, Types, TasksOK, Idle
  <1>4. Alone(c)
    BY <1>0, <1>3 DEF Alone
  <1>5. Mild
    BY DEF Begin, Mild, UnchangedLocal
  <1>6. ops' \in 0..MaxOps
    BY <1>0, SessionsAssumption DEF Begin, Types, CountsOK
  <1>7. Types'
    BY <1>0, <1>3, <1>5, <1>6
       DEF Begin, UnchangedLocal, Types, RegOK, MapsOK, RcvOK, CountsOK, TasksOK, Mild
  <1>8. KindOf(c)'
    BY <1>1, <1>3 DEF KindOf, Starting, StartPcs, OtherPcs, FirstStep, Kinds
  <1>9. op[c].pc \notin MidPcs /\ op'[c].pc \notin MidPcs
    BY <1>0, <1>1, <1>3 DEF MidPcs, Unhooked
  <1> QED BY <1>4, <1>5, <1>7, <1>8, <1>9, FreeStep

-----------------------------------------------------------------------------
(***************************************************************************)
(* A start in the middle of the maps                                       *)
(***************************************************************************)
\* A step of a start that leaves the tasks alone.
LEMMA PutStep ==
  ASSUME SessInv, NEW c \in Callers, Starting(c), op[c].pc \in {"putSess", "putTransport", "putReg"},
         NEW l \in {"putTransport", "putReg", "unhook"}, Went(c, l), UNCHANGED <<handle, beats>>, Types'
  PROVE  SessInv'
  <1>1. Alone(c)
    BY NoOther DEF SessInv, Went
  <1>2. Starting(c)' /\ op'[c].pc = l
    BY DEF Starting, Went
  <1>3. ChainOK'
    BY <1>1, <1>2, OnlyCaller DEF ChainOK, PutPcs
  <1>4. RestOK'
    BY <1>1, <1>2, OnlyCaller DEF RestOK, MidPcs
  <1>5. StopOf(c)' /\ KindOf(c)'
    BY <1>2 DEF StopOf, KindOf, StartPcs, OtherPcs
  <1>6. handle' # 0 => handle' \in DOMAIN beats' /\ ~beats'[handle'].cancelled /\ ~Over(handle)'
    BY DEF SessInv, HandleOK, Over
  <1>7. \A h \in DOMAIN beats' : h # handle' => Over(h)'
    BY <1>1, OnlyCaller DEF SessInv, HandleOK, Over
  <1> QED BY <1>1, <1>2, <1>3, <1>4, <1>5, <1>6, <1>7, CallerStep DEF Unhooked

LEMMA PutSessSafe ==
  ASSUME SessInv, NEW c \in Callers, PutSess(c)
  PROVE  SessInv'
  <1>1. Types /\ op[c] \in OpType /\ op[c].pc = "putSess" /\ Starting(c)
    BY DEF SessInv, Types, TasksOK, KindOK, KindOf, StartPcs, PutSess
  <1>2. Went(c, "putTransport")
    BY <1>1, GotoWent DEF Types, TasksOK, OpPcs, PutSess
  <1>3. Types'
    BY <1>1, <1>2 DEF Types, RegOK, MapsOK, RcvOK, CountsOK, TasksOK, OpType, Went, PutSess
  <1> QED BY <1>1, <1>2, <1>3, PutStep DEF PutSess

LEMMA PutTransportSafe ==
  ASSUME SessInv, NEW c \in Callers, PutTransport(c)
  PROVE  SessInv'
  <1>1. Types /\ op[c] \in OpType /\ op[c].pc = "putTransport" /\ Starting(c)
    BY DEF SessInv, Types, TasksOK, KindOK, KindOf, StartPcs, PutTransport
  <1>2. Went(c, "putReg")
    BY <1>1, GotoWent DEF Types, TasksOK, OpPcs, PutTransport
  <1>3. Types'
    BY <1>1, <1>2 DEF Types, RegOK, MapsOK, RcvOK, CountsOK, TasksOK, OpType, Went, PutTransport
  <1> QED BY <1>1, <1>2, <1>3, PutStep DEF PutTransport

LEMMA PutRegSafe ==
  ASSUME SessInv, NEW c \in Callers, PutReg(c)
  PROVE  SessInv'
  <1>1. Types /\ op[c] \in OpType /\ op[c].pc = "putReg" /\ Starting(c)
    BY DEF SessInv, Types, TasksOK, KindOK, KindOf, StartPcs, PutReg
  <1>2. Went(c, "unhook")
    BY <1>1, GotoWent DEF Types, TasksOK, OpPcs, PutReg
  <1>3. Types'
    BY <1>1, <1>2 DEF Types, RegOK, MapsOK, RcvOK, CountsOK, TasksOK, OpType, Went, PutReg
  <1> QED BY <1>1, <1>2, <1>3, PutStep DEF PutReg

\* The task whose handle is taken out is the one that is awaited.
LEMMA UnhookSafe ==
  ASSUME SessInv, NEW c \in Callers, Unhook(c)
  PROVE  SessInv'
  <1>1. Types /\ op[c].pc = "unhook" /\ handle \in Nat /\ handle \in {0} \union DOMAIN beats
    BY DEF SessInv, Types, TasksOK, Unhook
  <1>2. Went(c, "join") /\ op'[c].beat = handle
    BY <1>1, BeatFilled DEF Types, TasksOK, OpPcs, Unhook
  <1>3. Alone(c) /\ (Starting(c)' <=> Starting(c))
    BY <1>1, <1>2, NoOther DEF SessInv, Went, Starting
  <1>4. /\ beats' \in Seq(BeatType) /\ DOMAIN beats' = DOMAIN beats
        /\ \A g \in DOMAIN beats : beats'[g].pc = beats[g].pc
    BY <1>1, CancelledBeats DEF Types, TasksOK, Unhook
  <1>5. Types'
    BY <1>1, <1>2, <1>4 DEF Types, RegOK, MapsOK, RcvOK, CountsOK, TasksOK, Went, Unhook
  <1>6. \A h \in DOMAIN beats' : h # handle' => Over(h)' \/ (op'[c].pc = "join" /\ op'[c].beat = h)
    BY <1>1, <1>2, <1>3, <1>4, OnlyCaller DEF SessInv, HandleOK, Over, Went
  <1>7. ChainOK'
    BY <1>1, <1>2, <1>3, <1>4, OnlyCaller DEF SessInv, ChainOK, Went, PutPcs, Unhook
  <1>8. RestOK'
    BY <1>2, <1>3, OnlyCaller DEF RestOK, MidPcs, Unhooked, Went
  <1>9. KindOf(c)' /\ StopOf(c)'
    BY <1>1, <1>2, <1>3, <1>4
       DEF SessInv, KindOf, StopOK, StopOf, Clear, Clearing, StartPcs, OtherPcs, Unhooked, Went,
           Unhook
  <1> QED BY <1>3, <1>5, <1>6, <1>7, <1>8, <1>9, CallerStep DEF Unhook

\* The awaited task is gone.
LEMMA JoinSafe ==
  ASSUME SessInv, "late" \notin Hazards, NEW c \in Callers, Join(c)
  PROVE  SessInv'
  <1>1. Types /\ op[c].pc = "join" /\ handle = 0
    BY DEF SessInv, HandleOK, Unhooked, Join
  <1>2. (Starting(c) /\ Went(c, "spawn")) \/ (~Starting(c) /\ Went(c, "erase"))
    BY <1>1, GotoWent DEF Types, TasksOK, OpPcs, Join
  <1>3. Alone(c) /\ (Starting(c)' <=> Starting(c))
    BY <1>1, <1>2, NoOther DEF SessInv, Went, Starting
  <1>4. Types'
    BY <1>1, <1>2 DEF Types, RegOK, MapsOK, RcvOK, CountsOK, TasksOK, Went, UnchangedLocal, Join
  <1>5. \A h \in DOMAIN beats' : h # handle' => Over(h)'
    BY <1>1, <1>3, OnlyCaller DEF SessInv, HandleOK, Over, Joined, UnchangedLocal, Join
  <1>6. ChainOK'
    BY <1>1, <1>2, <1>3, OnlyCaller DEF SessInv, ChainOK, Went, PutPcs, UnchangedLocal, Join
  <1>7. RestOK'
    BY <1>2, <1>3, OnlyCaller DEF RestOK, MidPcs, Unhooked, Went
  <1>8. KindOf(c)' /\ StopOf(c)'
    BY <1>1, <1>2, <1>3
       DEF SessInv, KindOf, StopOK, StopOf, Clear, Clearing, StartPcs, OtherPcs, Unhooked, Went,
           UnchangedLocal, Join
  <1> QED BY <1>1, <1>3, <1>4, <1>5, <1>6, <1>7, <1>8, CallerStep DEF UnchangedLocal, Join

\* When nobody is awaited any more, every task is over.
LEMMA AllOver ==
  ASSUME SessInv, NEW c \in Callers, Alone(c), op[c].pc \in Unhooked \ {"join"}
  PROVE  handle = 0 /\ \A h \in DOMAIN beats : Over(h)
  BY OnlyCaller DEF SessInv, HandleOK, Types, TasksOK

\* The new task watches the session.
LEMMA SpawnSafe ==
  ASSUME SessInv, NEW c \in Callers, Spawn(c)
  PROVE  SessInv'
  <1>1. Types /\ op[c].pc = "spawn"
    BY DEF SessInv, Spawn
  <1>2. Returned(c)
    BY <1>1, FinishReturned DEF Types, TasksOK, Spawn
  <1>3. Alone(c)
    BY <1>1, <1>2, NoOther DEF SessInv, Returned
  <1>4. \A h \in DOMAIN beats : Over(h)
    BY <1>1, <1>3, AllOver DEF Unhooked
  <1>5. Beat \in BeatType /\ Beat.pc = "tick" /\ ~Beat.cancelled
    BY DEF Beat, BeatType, BeatPcs
  <1>6. /\ beats' \in Seq(BeatType) /\ Len(beats) \in Nat
        /\ DOMAIN beats' = 1..(Len(beats) + 1) /\ DOMAIN beats = 1..Len(beats)
        /\ beats'[Len(beats) + 1] = Beat
        /\ \A h \in DOMAIN beats : beats'[h] = beats[h]
    BY <1>1, <1>5 DEF Types, TasksOK, Spawn
  <1>7. handle' = Len(beats) + 1
    BY DEF Spawn
  <1>8. Types'
    BY <1>1, <1>2, <1>6, <1>7 DEF Types, RegOK, MapsOK, RcvOK, CountsOK, TasksOK, Returned, Spawn
  <1>9. \A h \in DOMAIN beats' : h # handle' => Over(h)'
    BY <1>4, <1>6, <1>7 DEF Over
  <1>10. handle' # 0 /\ handle' \in DOMAIN beats' /\ ~beats'[handle'].cancelled /\ ~Over(handle)'
    BY <1>5, <1>6, <1>7 DEF Over
  <1>11. ChainOK'
    BY <1>5, <1>6, <1>7, <1>9 DEF ChainOK, Over
  <1>12. RestOK' /\ KindOf(c)' /\ StopOf(c)'
    BY <1>2, <1>10 DEF RestOK, KindOf, StopOf, StartPcs, OtherPcs, Unhooked, Returned
  <1> QED BY <1>2, <1>3, <1>8, <1>9, <1>10, <1>11, <1>12, CallerStep DEF Returned, Unhooked

-----------------------------------------------------------------------------
(***************************************************************************)
(* stop_session in the middle of the maps                                  *)
(***************************************************************************)
\* What follows a stop: the deletion goes on to remove the entry.
LEMMA Afterwards ==
  ASSUME Types, NEW c \in Callers, AfterStop(c)
  PROVE  /\ Returned(c) \/ (Went(c, "forget") /\ op[c].kind = "delete")
         /\ op' \in [Callers -> OpType] /\ \A d \in Callers : d # c => op'[d] = op[d]
  <1>1. CASE Finish(c)
    BY <1>1, FinishReturned DEF Types, TasksOK, Returned
  <1>2. CASE Goto(c, "forget") /\ op[c].kind = "delete"
    <2>1. "forget" \in OpPcs
      BY DEF OpPcs
    <2>2. Went(c, "forget")
      BY <1>2, <2>1, GotoWent DEF Types, TasksOK
    <2> QED BY <1>2, <2>2 DEF Went
  <1> QED BY <1>1, <1>2 DEF AfterStop

\* After a stop nothing of a session is left without a task to clear it.
LEMMA AfterStopKind ==
  ASSUME NEW c \in Callers, Returned(c) \/ (Went(c, "forget") /\ op[c].kind = "delete")
  PROVE  KindOf(c)' /\ StopOf(c)' /\ op'[c].pc \notin MidPcs
  BY DEF Returned, Went, KindOf, StopOf, Starting, StartPcs, OtherPcs, Unhooked, MidPcs

LEMMA MarkSafe ==
  ASSUME SessInv, NEW c \in Callers, Mark(c)
  PROVE  SessInv'
  <1>0. Types /\ op[c] \in OpType /\ op[c].pc = "mark" /\ ~Starting(c)
    BY DEF SessInv, Types, TasksOK, KindOK, KindOf, OtherPcs, Mark
  <1>1. CASE UNCHANGED sess /\ AfterStop(c)
    <2>1. Returned(c) \/ (Went(c, "forget") /\ op[c].kind = "delete")
      BY <1>0, <1>1, Afterwards
    <2>2. op' \in [Callers -> OpType] /\ Alone(c)
      BY <1>0, <1>1, Afterwards, NoOther DEF SessInv
    <2>3. Types' /\ Mild
      BY <1>0, <1>1, <2>2 DEF Types, RegOK, MapsOK, RcvOK, CountsOK, TasksOK, Mild, Mark
    <2> QED BY <1>0, <2>1, <2>2, <2>3, AfterStopKind, FreeStep DEF MidPcs, Unhooked
  <1>2. CASE /\ sess # NoSess /\ sess' = [sess EXCEPT !.state = "Closing"]
             /\ op' = [op EXCEPT ![c].pc = "unhook", ![c].sid = sess.id]
    <2>1. sess.id \in Nat /\ "unhook" \in OpPcs
      BY <1>0 DEF Types, MapsOK, OpPcs
    <2>2. Went(c, "unhook")
      BY <1>0, <1>2, <2>1, SessionFilled DEF Types, TasksOK
    <2>3. Alone(c) /\ ~Starting(c)'
      BY <1>0, <2>2, NoOther DEF SessInv, Went, Starting
    <2>4. Types' /\ sess'.state = "Closing" /\ sess' # NoSess
      BY <1>0, <1>2, <2>2 DEF Types, RegOK, MapsOK, RcvOK, CountsOK, TasksOK, Went, NoSess, Mark
    <2>5. ~Putting /\ \A h \in DOMAIN beats : beats[h].pc \notin {"lostTransport", "lostReg", "lostHandle"}
      BY <1>0, <1>2, <2>3, OnlyCaller DEF SessInv, ChainOK
    <2>6. ChainOK'
      BY <2>5 DEF ChainOK, Mark
    <2>7. RestOK'
      BY <2>2, <2>3, OnlyCaller DEF RestOK, MidPcs, Went
    <2>8. KindOf(c)' /\ StopOf(c)'
      BY <2>2, <2>3, <2>4 DEF KindOf, StopOf, StartPcs, OtherPcs, Unhooked, Went
    <2>9. handle' # 0 => handle' \in DOMAIN beats' /\ ~beats'[handle'].cancelled /\ ~Over(handle)'
      BY DEF SessInv, HandleOK, Over, Mark
    <2>10. \A h \in DOMAIN beats' : h # handle' => Over(h)'
      BY <1>0, <2>3, OnlyCaller DEF SessInv, HandleOK, Over, Mark
    <2> QED BY <2>2, <2>3, <2>4, <2>6, <2>7, <2>8, <2>9, <2>10, CallerStep DEF Went, Unhooked
  <1> QED BY <1>1, <1>2 DEF Mark

\* A step of a stop whose task is over.
LEMMA TearStep ==
  ASSUME SessInv, NEW c \in Callers, Alone(c), op[c].pc \in Unhooked \ {"join"},
         UNCHANGED <<handle, beats>>, Types', KindOf(c)', StopOf(c)',
         op'[c].pc \notin MidPcs => sess'.state # "Active" /\ (sess' = NoSess => Clear')
  PROVE  SessInv'
  <1>1. handle' = 0 /\ \A h \in DOMAIN beats' : Over(h)'
    BY AllOver DEF Over
  <1>2. ChainOK'
    BY <1>1 DEF ChainOK, Over
  <1>3. RestOK'
    BY OnlyCaller DEF RestOK
  <1> QED BY <1>1, <1>2, <1>3, CallerStep

\* The remote DELETE: without an answer the session is kept, as failed.
LEMMA EraseSafe ==
  ASSUME SessInv, NEW c \in Callers, Erase(c)
  PROVE  SessInv'
  <1>0. Types /\ op[c] \in OpType /\ op[c].pc = "erase" /\ ~Starting(c)
    BY DEF SessInv, Types, TasksOK, KindOK, KindOf, OtherPcs, Erase
  <1>1. Went(c, "dropTransport") \/ AfterStop(c)
    BY <1>0, GotoWent DEF Types, TasksOK, OpPcs, Erase
  <1>2. op' \in [Callers -> OpType] /\ Alone(c)
    BY <1>0, <1>1, Afterwards, NoOther DEF SessInv, Went
  <1>3. sess.state # "Active" /\ (sess = NoSess => Clear)
    <2>1. \A h \in DOMAIN beats : Over(h)
      BY <1>0, <1>2, AllOver DEF Unhooked
    <2> QED BY <1>0, <2>1 DEF SessInv, StopOK, StopOf, Clearing, Over, Unhooked
  <1>4. sess'.state # "Active" /\ (sess' = NoSess => sess = NoSess)
    BY <1>0, <1>3 DEF Types, MapsOK, NoSess, Erase
  <1>5. Types'
    <2>1. RegOK' /\ TasksOK'
      BY <1>0, <1>2 DEF Types, RegOK, TasksOK, Erase
    <2>2. MapsOK'
      BY <1>0 DEF Types, MapsOK, Erase
    <2>3. RcvOK'
      BY <1>0 DEF Types, RcvOK, RcvType, Erase
    <2>4. CountsOK'
      BY <1>0, FaultCounts DEF Types, CountsOK, Erase
    <2> QED BY <2>1, <2>2, <2>3, <2>4 DEF Types
  <1>6. Clear' <=> Clear
    BY DEF Clear, Erase
  <1>7. CASE Went(c, "dropTransport")
    <2>1. KindOf(c)' /\ StopOf(c)' /\ op'[c].pc \in MidPcs
      BY <1>0, <1>4, <1>7 DEF KindOf, StopOf, Starting, StartPcs, OtherPcs, Unhooked, MidPcs, Went
    <2> QED BY <1>0, <1>2, <1>5, <2>1, TearStep DEF Unhooked, Erase
  <1>8. CASE AfterStop(c)
    <2>1. KindOf(c)' /\ StopOf(c)'
      BY <1>0, <1>8, Afterwards, AfterStopKind
    <2> QED BY <1>0, <1>2, <1>3, <1>4, <1>5, <1>6, <2>1, TearStep DEF Unhooked, Erase
  <1> QED BY <1>1, <1>7, <1>8

LEMMA DropTransportSafe ==
  ASSUME SessInv, NEW c \in Callers, DropTransport(c)
  PROVE  SessInv'
  <1>0. Types /\ op[c] \in OpType /\ op[c].pc = "dropTransport" /\ ~Starting(c)
    BY DEF SessInv, Types, TasksOK, KindOK, KindOf, OtherPcs, DropTransport
  <1>1. Went(c, "dropSess")
    BY <1>0, GotoWent DEF Types, TasksOK, OpPcs, DropTransport
  <1>2. Alone(c)
    BY <1>0, <1>1, NoOther DEF SessInv, Went
  <1>3. Types'
    BY <1>0, <1>1 DEF Types, RegOK, MapsOK, RcvOK, CountsOK, TasksOK, Went, DropTransport
  <1>4. KindOf(c)' /\ StopOf(c)' /\ op'[c].pc \in MidPcs
    BY <1>0, <1>1
       DEF SessInv, StopOK, KindOf, StopOf, Starting, StartPcs, OtherPcs, Unhooked, MidPcs, Went,
           DropTransport
  <1> QED BY <1>0, <1>2, <1>3, <1>4, TearStep DEF Unhooked, DropTransport

LEMMA DropSessSafe ==
  ASSUME SessInv, NEW c \in Callers, DropSess(c)
  PROVE  SessInv'
  <1>0. Types /\ op[c] \in OpType /\ op[c].pc = "dropSess" /\ ~Starting(c)
    BY DEF SessInv, Types, TasksOK, KindOK, KindOf, OtherPcs, DropSess
  <1>1. Went(c, "dropReg")
    BY <1>0, GotoWent DEF Types, TasksOK, OpPcs, DropSess
  <1>2. Alone(c)
    BY <1>0, <1>1, NoOther DEF SessInv, Went
  <1>3. Types' /\ sess'.state = "None"
    BY <1>0, <1>1 DEF Types, RegOK, MapsOK, RcvOK, CountsOK, TasksOK, Went, NoSess, DropSess
  <1>4. KindOf(c)' /\ StopOf(c)' /\ op'[c].pc \in MidPcs
    BY <1>0, <1>1, <1>3
       DEF SessInv, StopOK, KindOf, StopOf, Starting, StartPcs, OtherPcs, Unhooked, MidPcs, Went,
           DropSess
  <1> QED BY <1>0, <1>2, <1>3, <1>4, TearStep DEF Unhooked, DropSess

LEMMA DropRegSafe ==
  ASSUME SessInv, NEW c \in Callers, DropReg(c)
  PROVE  SessInv'
  <1>0. Types /\ op[c] \in OpType /\ op[c].pc = "dropReg" /\ ~Starting(c)
    BY DEF SessInv, Types, TasksOK, KindOK, KindOf, OtherPcs, DropReg
  <1>1. Went(c, "release")
    BY <1>0, GotoWent DEF Types, TasksOK, OpPcs, DropReg
  <1>2. Alone(c)
    BY <1>0, <1>1, NoOther DEF SessInv, Went
  <1>3. Types' /\ reg'.active = 0
    BY <1>0, <1>1 DEF Types, RegOK, MapsOK, RcvOK, CountsOK, TasksOK, Went, DropReg
  <1>4. KindOf(c)' /\ StopOf(c)' /\ op'[c].pc \in MidPcs
    BY <1>0, <1>1, <1>3
       DEF SessInv, StopOK, KindOf, StopOf, Starting, StartPcs, OtherPcs, Unhooked, MidPcs, Went,
           DropReg
  <1> QED BY <1>0, <1>2, <1>3, <1>4, TearStep DEF Unhooked, DropReg

LEMMA ReleaseSafe ==
  ASSUME SessInv, NEW c \in Callers, Release(c)
  PROVE  SessInv'
  <1>0. Types /\ op[c] \in OpType /\ op[c].pc = "release" /\ ~Starting(c)
    BY DEF SessInv, Types, TasksOK, KindOK, KindOf, OtherPcs, Release
  <1>1. op' \in [Callers -> OpType] /\ Alone(c) /\ KindOf(c)' /\ StopOf(c)'
    BY <1>0, Afterwards, AfterStopKind, NoOther DEF SessInv, Release
  <1>2. Types'
    <2>1. RegOK' /\ TasksOK' /\ MapsOK'
      BY <1>0, <1>1 DEF Types, RegOK, TasksOK, MapsOK, Release
    <2>2. RcvOK'
      BY <1>0 DEF Types, RcvOK, RcvType, Release
    <2>3. CountsOK'
      BY <1>0, FaultCounts DEF Types, CountsOK, Release
    <2> QED BY <2>1, <2>2, <2>3 DEF Types
  <1>3. sess'.state # "Active" /\ Clear'
    BY <1>0 DEF SessInv, StopOK, StopOf, Unhooked, Clear, Release
  <1> QED BY <1>0, <1>1, <1>2, <1>3, TearStep DEF Unhooked, Release

-----------------------------------------------------------------------------
(***************************************************************************)
(* Heartbeat tasks                                                         *)
(***************************************************************************)
\* A task that has a session still, and may find out that it is lost.
LEMMA TaskStep ==
  ASSUME SessInv, NEW h \in DOMAIN beats, NEW b, Became(h, b), Types', op' = op,
         sess'.state = sess.state, sess' = NoSess <=> sess = NoSess,
         UNCHANGED <<transport, handle>>, reg'.active = reg.active,
         beats[h].pc \in {"tick", "call"}, b.cancelled = beats[h].cancelled,
         b.pc \in {"tick", "call", "lost"} \/ (b.pc = "gone" /\ h # handle)
  PROVE  SessInv'
  <1>1. OneOp' /\ KindOK'
    BY DEF SessInv, OneOp, KindOK, KindOf, Starting
  <1>2. \A g \in DOMAIN beats : beats[g].pc \notin {"tick", "call", "lost"} => beats'[g] = beats[g]
    BY DEF Became
  <1>3. \A g \in DOMAIN beats :
          beats'[g].pc \notin {"tick", "call", "lost", "gone"} => beats'[g] = beats[g]
    BY DEF Became
  <1>4. HandleOK'
    BY <1>2 DEF SessInv, HandleOK, Over, Awaited, Became
  <1>5. ChainOK'
    BY <1>3 DEF SessInv, ChainOK, Putting, Starting, Became
  <1>6. StopOK'
    BY <1>2 DEF SessInv, StopOK, StopOf, Starting, Clear, Clearing, Became
  <1>7. RestOK'
    BY DEF SessInv, RestOK, Rest, Clear
  <1> QED BY <1>1, <1>4, <1>5, <1>6, <1>7 DEF SessInv

LEMMA TickSafe ==
  ASSUME SessInv, NEW h \in DOMAIN beats, Tick(h)
  PROVE  SessInv'
  <1> DEFINE b == IF beats[h].cancelled THEN [beats[h] EXCEPT !.pc = "gone"]
                  ELSE IF sess = NoSess THEN [beats[h] EXCEPT !.pc = "lost"]
                  ELSE [beats[h] EXCEPT !.pc = "call", !.sid = sess.id, !.seq = sess.seq + 1]
  <1>1. Types /\ beats \in Seq(BeatType) /\ beats[h] \in BeatType /\ beats[h].pc = "tick"
    BY DEF SessInv, Types, TasksOK, Tick
  <1>2. b \in BeatType /\ b.cancelled = beats[h].cancelled
    <2>1. sess.id \in Nat /\ sess.seq + 1 \in Nat
      BY <1>1 DEF Types, MapsOK
    <2> QED BY <1>1, <2>1 DEF BeatType, BeatPcs
  <1>3. b.pc \in {"call", "lost"} \/ (b.pc = "gone" /\ beats[h].cancelled)
    BY <1>1 DEF BeatType
  <1>4. beats' = [beats EXCEPT ![h] = b]
    BY DEF Tick
  <1> HIDE DEF b
  <1>5. Became(h, b)
    BY <1>1, <1>2, <1>4, ExceptBecame
  <1>6. Types'
    BY <1>1, <1>5 DEF Types, RegOK, MapsOK, RcvOK, CountsOK, TasksOK, Became, Tick
  <1>7. beats[h].cancelled => h # handle
    BY <1>1 DEF SessInv, HandleOK, Types, TasksOK
  <1> QED BY <1>1, <1>2, <1>3, <1>5, <1>6, <1>7, TaskStep DEF Tick

\* A task after a transient failure.
LEMMA TransientType ==
  ASSUME NEW b \in BeatType
  PROVE  /\ Transient(b) \in BeatType
         /\ Transient(b).cancelled = b.cancelled
         /\ Transient(b).pc \in {"lost", "tick"}
  <1> DEFINE l == IF b.fails + 1 >= 3 THEN "lost" ELSE "tick"
  <1>1. Transient(b) = [b EXCEPT !.fails = b.fails + 1, !.pc = l]
    BY DEF Transient
  <1>2. l \in {"lost", "tick"} /\ l \in BeatPcs
    BY DEF BeatPcs
  <1>3. b.fails + 1 \in Nat
    BY DEF BeatType
  <1> HIDE DEF l
  <1>4. [b EXCEPT !.fails = b.fails + 1, !.pc = l] \in BeatType
    BY <1>2, <1>3 DEF BeatType
  <1>5. /\ [b EXCEPT !.fails = b.fails + 1, !.pc = l].cancelled = b.cancelled
        /\ [b EXCEPT !.fails = b.fails + 1, !.pc = l].pc = l
    BY DEF BeatType
  <1> QED BY <1>1, <1>2, <1>4, <1>5

LEMMA CallSafe ==
  ASSUME SessInv, NEW h \in DOMAIN beats, Call(h)
  PROVE  SessInv'
  <1>1. Types /\ beats \in Seq(BeatType) /\ beats[h] \in BeatType /\ beats[h].pc = "call"
    BY DEF SessInv, Types, TasksOK, Call
  <1>2. PICK b \in BeatType : /\ beats' = [beats EXCEPT ![h] = b]
                              /\ b.cancelled = beats[h].cancelled
                              /\ b.pc \in {"tick", "lost"}
    <2>1. CASE beats' = [beats EXCEPT ![h] = [beats[h] EXCEPT !.pc = "tick", !.fails = 0]]
      <3>1. [beats[h] EXCEPT !.pc = "tick", !.fails = 0] \in BeatType
        BY <1>1 DEF BeatType, BeatPcs
      <3>2. /\ [beats[h] EXCEPT !.pc = "tick", !.fails = 0].cancelled = beats[h].cancelled
            /\ [beats[h] EXCEPT !.pc = "tick", !.fails = 0].pc = "tick"
        BY <1>1 DEF BeatType
      <3> QED BY <2>1, <3>1, <3>2
    <2>2. CASE beats' = [beats EXCEPT ![h].pc = "lost"]
      <3>1. [beats[h] EXCEPT !.pc = "lost"] \in BeatType
        BY <1>1 DEF BeatType, BeatPcs
      <3>2. /\ [beats[h] EXCEPT !.pc = "lost"].cancelled = beats[h].cancelled
            /\ [beats[h] EXCEPT !.pc = "lost"].pc = "lost"
        BY <1>1 DEF BeatType
      <3> QED BY <2>2, <3>1, <3>2
    <2>3. CASE beats' = [beats EXCEPT ![h] = Transient(beats[h])]
      BY <1>1, <2>3, TransientType
    <2> QED BY <2>1, <2>2, <2>3 DEF Call
  <1>3. Became(h, b)
    BY <1>1, <1>2, ExceptBecame
  <1>4. sess' = sess \/ sess' = Counted
    BY DEF Call
  <1>5. MapsOK' /\ sess'.state = sess.state /\ (sess' = NoSess <=> sess = NoSess)
    BY <1>1, <1>4, CountedShape DEF Types, MapsOK, Call
  <1>6. RegOK' /\ reg'.active = reg.active
    BY <1>1 DEF Types, RegOK, Call, Reauthenticated
  <1>7. RcvOK'
    BY <1>1 DEF Types, RcvOK, RcvType, BeatType, Call
  <1>8. CountsOK'
    BY <1>1, FaultCounts DEF Types, CountsOK, Call
  <1>9. TasksOK'
    BY <1>1, <1>3 DEF Types, TasksOK, Became, Call
  <1>10. Types'
    BY <1>5, <1>6, <1>7, <1>8, <1>9 DEF Types
  <1> QED BY <1>1, <1>2, <1>3, <1>5, <1>6, <1>10, TaskStep DEF Call

LEMMA CallLostSafe ==
  ASSUME SessInv, NEW h \in DOMAIN beats, CallLost(h)
  PROVE  SessInv'
  <1>1. Types /\ beats \in Seq(BeatType) /\ beats[h] \in BeatType /\ beats[h].pc = "call"
    BY DEF SessInv, Types, TasksOK, CallLost
  <1>2. Became(h, Transient(beats[h]))
    BY <1>1, TransientType, ExceptBecame DEF CallLost
  <1>3. CountsOK'
    BY <1>1, FaultCounts DEF Types, CountsOK, CallLost
  <1>4. Types'
    BY <1>1, <1>2, <1>3 DEF Types, RegOK, MapsOK, RcvOK, TasksOK, Became, CallLost
  <1> QED BY <1>1, <1>2, <1>4, TransientType, TaskStep DEF CallLost

(***************************************************************************)
(* handle_session_lost                                                     *)
(***************************************************************************)
\* A task that tears down goes from one of its steps to the next.
Tears(h, from, to) ==
  /\ beats[h].pc = from
  /\ beats' \in Seq(BeatType) /\ DOMAIN beats' = DOMAIN beats
  /\ beats'[h].pc = to /\ beats'[h].cancelled = beats[h].cancelled
  /\ \A g \in DOMAIN beats : g # h => beats'[g] = beats[g]

LEMMA TaskTears ==
  ASSUME beats \in Seq(BeatType), NEW h \in DOMAIN beats, NEW l \in BeatPcs,
         beats' = [beats EXCEPT ![h].pc = l]
  PROVE  Tears(h, beats[h].pc, l)
  BY BeatGoes DEF Tears, Became, BeatType

\* It is the task of the handle, or a caller waits for it.
LEMMA WhoTears ==
  ASSUME SessInv, NEW h \in DOMAIN beats, ~Over(h)
  PROVE  /\ h = handle \/ (handle = 0 /\ Awaited(h))
         /\ h # 0
         /\ Rest => h = handle
  <1>1. h # 0
    BY DEF SessInv, Types, TasksOK
  <1>2. h = handle \/ (handle = 0 /\ Awaited(h))
    BY DEF SessInv, HandleOK, Awaited, Unhooked
  <1>3. Rest => ~Awaited(h)
    BY DEF Rest, Awaited, MidPcs, Unhooked
  <1> QED BY <1>1, <1>2, <1>3

\* What a step of a teardown leaves alone.
LEMMA TearsFrame ==
  ASSUME SessInv, NEW h \in DOMAIN beats, NEW from, NEW to, Tears(h, from, to), UNCHANGED <<op, handle>>,
         from \notin {"lostGrant", "gone"}, to \notin {"lostGrant", "gone"}
  PROVE  OneOp' /\ KindOK' /\ HandleOK' /\ (Putting' <=> Putting) /\ (Rest' <=> Rest)
  <1>1. OneOp' /\ KindOK' /\ (Putting' <=> Putting) /\ (Rest' <=> Rest)
    BY DEF SessInv, OneOp, KindOK, KindOf, Starting, Putting, Rest
  <1>2. \A g \in DOMAIN beats : (Over(g)' <=> Over(g)) /\ beats'[g].cancelled = beats[g].cancelled
    BY DEF Tears, Over
  <1>3. HandleOK'
    BY <1>2 DEF SessInv, HandleOK, Awaited, Tears
  <1> QED BY <1>1, <1>3

LEMMA LoseSessSafe ==
  ASSUME SessInv, NEW h \in DOMAIN beats, LoseSess(h)
  PROVE  SessInv'
  <1>1. Types /\ "lostTransport" \in BeatPcs /\ beats[h].pc = "lost"
    BY DEF SessInv, BeatPcs, LoseSess
  <1>2. Tears(h, "lost", "lostTransport")
    BY <1>1, TaskTears DEF Types, TasksOK, LoseSess
  <1>3. OneOp' /\ KindOK' /\ HandleOK' /\ (Putting' <=> Putting) /\ (Rest' <=> Rest)
    BY <1>2, TearsFrame DEF LoseSess
  <1>4. Types' /\ sess' = NoSess /\ sess'.state = "None"
    BY <1>1, <1>2 DEF Types, RegOK, MapsOK, RcvOK, CountsOK, TasksOK, Tears, NoSess, LoseSess
  <1>5. ChainOK'
    BY <1>2, <1>3, <1>4 DEF SessInv, ChainOK, Tears, LoseSess
  <1>6. Clearing'
    BY <1>2 DEF Clearing, Tears
  <1>7. StopOK'
    BY <1>4, <1>6 DEF SessInv, StopOK, StopOf, Starting, LoseSess
  <1>8. RestOK'
    BY <1>1, <1>3, WhoTears DEF RestOK, Over, LoseSess
  <1> QED BY <1>3, <1>4, <1>5, <1>7, <1>8 DEF SessInv

LEMMA LoseTransportSafe ==
  ASSUME SessInv, NEW h \in DOMAIN beats, LoseTransport(h)
  PROVE  SessInv'
  <1>1. Types /\ "lostReg" \in BeatPcs /\ beats[h].pc = "lostTransport"
    BY DEF SessInv, BeatPcs, LoseTransport
  <1>2. Tears(h, "lostTransport", "lostReg")
    BY <1>1, TaskTears DEF Types, TasksOK, LoseTransport
  <1>3. OneOp' /\ KindOK' /\ HandleOK' /\ (Putting' <=> Putting) /\ (Rest' <=> Rest)
    BY <1>2, TearsFrame DEF LoseTransport
  <1>4. Types' /\ transport' = 0
    BY <1>1, <1>2 DEF Types, RegOK, MapsOK, RcvOK, CountsOK, TasksOK, Tears, LoseTransport
  <1>5. ChainOK'
    BY <1>1, <1>2, <1>3, <1>4 DEF SessInv, ChainOK, Tears, LoseTransport
  <1>6. Clearing'
    BY <1>2 DEF Clearing, Tears
  <1>7. StopOK'
    BY <1>4, <1>6 DEF SessInv, StopOK, StopOf, Starting, LoseTransport
  <1>8. RestOK'
    BY <1>1, <1>3, WhoTears DEF RestOK, Over, LoseTransport
  <1> QED BY <1>3, <1>4, <1>5, <1>7, <1>8 DEF SessInv

\* A stop in the middle of the maps excludes a start there.
LEMMA NoPut ==
  ASSUME OneOp, NEW c \in Callers, ~Starting(c), op[c].pc # "idle"
  PROVE  ~Putting
  BY DEF OneOp, Putting, PutPcs

LEMMA LoseRegSafe ==
  ASSUME SessInv, NEW h \in DOMAIN beats, LoseReg(h)
  PROVE  SessInv'
  <1>1. Types /\ "lostHandle" \in BeatPcs /\ beats[h].pc = "lostReg"
    BY DEF SessInv, BeatPcs, LoseReg
  <1>2. Tears(h, "lostReg", "lostHandle")
    BY <1>1, TaskTears DEF Types, TasksOK, LoseReg
  <1>3. OneOp' /\ KindOK' /\ HandleOK' /\ (Putting' <=> Putting) /\ (Rest' <=> Rest)
    BY <1>2, TearsFrame DEF LoseReg
  <1>4. Types' /\ reg'.active = 0
    BY <1>1, <1>2 DEF Types, RegOK, MapsOK, RcvOK, CountsOK, TasksOK, Tears, LoseReg
  <1>5. ChainOK'
    BY <1>1, <1>2, <1>3, <1>4 DEF SessInv, ChainOK, Tears, LoseReg
  <1>6. ~Putting => transport = 0
    BY <1>1 DEF SessInv, ChainOK
  <1>7. \A c \in Callers : ~Starting(c) /\ op[c].pc # "idle" => Clear'
    BY <1>4, <1>6, NoPut DEF SessInv, Clear, LoseReg
  <1>8. StopOK'
    BY <1>4, <1>7 DEF SessInv, StopOK, StopOf, Starting, LoseReg
  <1>9. RestOK'
    BY <1>1, <1>3, WhoTears DEF RestOK, Over, LoseReg
  <1> QED BY <1>3, <1>4, <1>5, <1>8, <1>9 DEF SessInv

\* The handle goes when everything else of the session has gone.
LEMMA LoseHandleSafe ==
  ASSUME SessInv, NEW h \in DOMAIN beats, LoseHandle(h)
  PROVE  SessInv'
  <1>1. Types /\ beats[h].pc = "lostHandle" /\ handle' = 0 /\ op' = op
    BY DEF SessInv, LoseHandle
  <1>2. handle \in {0, h} /\ h # 0 /\ (Rest => handle = h)
    BY <1>1, WhoTears DEF Over
  <1>3. /\ Cancelled(handle) \in Seq(BeatType) /\ DOMAIN Cancelled(handle) = DOMAIN beats
        /\ \A g \in DOMAIN beats : g # h => Cancelled(handle)[g] = beats[g]
    BY <1>1, <1>2, CancelledBeats DEF Types, TasksOK
  <1>4. beats' \in Seq(BeatType) /\ DOMAIN beats' = DOMAIN beats /\ beats'[h].pc = "lostGrant"
        /\ \A g \in DOMAIN beats : g # h => beats'[g] = beats[g]
    <2> DEFINE s == Cancelled(handle)
               n == IF handle = h THEN 0 ELSE handle
               b == [s[h] EXCEPT !.pc = "lostGrant", !.sid = n]
    <2>1. n \in Nat /\ s[h] \in BeatType
      BY <1>2, <1>3
    <2>2. b \in BeatType /\ b.pc = "lostGrant"
      BY <2>1 DEF BeatType, BeatPcs
    <2>3. beats' = [s EXCEPT ![h] = b]
      BY DEF LoseHandle
    <2>4. s \in Seq(BeatType) /\ DOMAIN s = DOMAIN beats /\ \A g \in DOMAIN beats : g # h => s[g] = beats[g]
      BY <1>3
    <2> HIDE DEF s, b, n
    <2> QED BY <2>2, <2>3, <2>4
  <1>5. Types'
    BY <1>1, <1>4 DEF Types, RegOK, MapsOK, RcvOK, CountsOK, TasksOK, LoseHandle
  <1>6. OneOp' /\ KindOK' /\ (Putting' <=> Putting) /\ (Rest' <=> Rest)
    BY <1>1 DEF SessInv, OneOp, KindOK, KindOf, Starting, Putting, Rest
  <1>7. HandleOK'
    <2>1. \A g \in DOMAIN beats' : Over(g)' \/ Awaited(g)'
      BY <1>1, <1>2, <1>4 DEF SessInv, HandleOK, Over, Awaited
    <2> QED BY <1>1, <2>1 DEF HandleOK
  <1>8. ChainOK'
    BY <1>4, <1>6 DEF SessInv, ChainOK, LoseHandle
  <1>9. StopOK'
    <2>1. Clearing => Clearing'
      BY <1>1, <1>4 DEF Clearing
    <2> QED BY <2>1 DEF SessInv, StopOK, StopOf, Starting, Clear, LoseHandle
  <1>10. RestOK'
    <2>1. Rest => ~Putting
      BY DEF Rest, Putting, MidPcs, Unhooked, PutPcs
    <2>2. Rest => sess = NoSess /\ Clear
      BY <1>1, <2>1 DEF SessInv, ChainOK, Clear
    <2> QED BY <1>6, <2>2 DEF RestOK, Clear, NoSess, LoseHandle
  <1> QED BY <1>5, <1>6, <1>7, <1>8, <1>9, <1>10 DEF SessInv

LEMMA LoseGrantSafe ==
  ASSUME SessInv, NEW h \in DOMAIN beats, LoseGrant(h)
  PROVE  SessInv'
  <1>1. Types /\ "gone" \in BeatPcs /\ beats[h].pc = "lostGrant"
    BY DEF SessInv, BeatPcs, LoseGrant
  <1>2. Tears(h, "lostGrant", "gone")
    BY <1>1, TaskTears DEF Types, TasksOK, LoseGrant
  <1>3. OneOp' /\ KindOK' /\ (Putting' <=> Putting) /\ (Rest' <=> Rest)
    BY DEF SessInv, OneOp, KindOK, KindOf, Starting, Putting, Rest, LoseGrant
  <1>4. Types'
    BY <1>1, <1>2 DEF Types, RegOK, MapsOK, RcvOK, CountsOK, TasksOK, Tears, LoseGrant
  <1>5. HandleOK'
    BY <1>2 DEF SessInv, HandleOK, Over, Awaited, Tears, LoseGrant
  <1>6. ChainOK'
    BY <1>2, <1>3 DEF SessInv, ChainOK, Tears, LoseGrant
  <1>7. Clearing => Clearing'
    BY <1>2 DEF Clearing, Tears
  <1>8. StopOK'
    BY <1>7 DEF SessInv, StopOK, StopOf, Starting, Clear, LoseGrant
  <1>9. RestOK'
    BY <1>3 DEF SessInv, RestOK, Clear, LoseGrant
  <1> QED BY <1>3, <1>4, <1>5, <1>6, <1>8, <1>9 DEF SessInv

-----------------------------------------------------------------------------
(***************************************************************************)
(* The receiver on its own, and the theorems                               *)
(***************************************************************************)
LEMMA LapseSafe ==
  ASSUME SessInv, Lapse
  PROVE  SessInv'
  <1>1. Types
    BY DEF SessInv
  <1>2. RegOK' /\ Mild
    <2>1. reg' = reg \/ reg' = [reg EXCEPT !.token = FALSE]
      BY DEF Lapse
    <2>2. RegOK' /\ reg'.active = reg.active
      <3>1. CASE reg' = reg
        BY <1>1, <3>1 DEF Types, RegOK
      <3>2. CASE reg' = [reg EXCEPT !.token = FALSE]
        BY <1>1, <3>2 DEF Types, RegOK
      <3> QED BY <2>1, <3>1, <3>2
    <2>3. UNCHANGED <<sess, transport, handle, beats>>
      BY DEF Lapse
    <2>4. Mild
      BY <2>2, <2>3 DEF Mild
    <2> QED BY <2>2, <2>4
  <1>3. RcvOK'
    <2>1. rcv' = [rcv EXCEPT !.session = 0, !.owner = "nobody"]
      BY DEF Lapse
    <2>2. rcv' \in RcvType
      BY <1>1, <2>1 DEF Types, RcvOK, RcvType
    <2>3. rcv'.session = 0 /\ rcv'.last \in Nat
      BY <1>1, <2>1 DEF Types, RcvOK, RcvType
    <2> QED BY <2>2, <2>3 DEF RcvOK
  <1>4. CountsOK'
    BY <1>1, FaultCounts DEF Types, CountsOK, Lapse
  <1>5. Types'
    BY <1>1, <1>2, <1>3, <1>4 DEF Types, MapsOK, TasksOK, Lapse
  <1> QED BY <1>2, <1>5, StillStep DEF Lapse

LEMMA PounceSafe ==
  ASSUME SessInv, Pounce
  PROVE  SessInv'
  <1>1. Types
    BY DEF SessInv
  <1>2. RegOK' /\ Mild
    BY <1>1 DEF Types, RegOK, Mild, Pounce
  <1>3. RcvOK'
    BY <1>1, RcvGives DEF Types, Pounce
  <1>4. CountsOK'
    BY <1>1, FaultCounts DEF Types, CountsOK, Pounce
  <1>5. Types'
    BY <1>1, <1>2, <1>3, <1>4 DEF Types, MapsOK, TasksOK, Pounce
  <1> QED BY <1>2, <1>5, StillStep DEF Pounce

LEMMA InitSess == Init => SessInv
  <1> SUFFICES ASSUME Init PROVE SessInv
    OBVIOUS
  <1>1. Idle \in OpType
    BY DEF Idle, OpType, OpPcs
  <1>2. \A c \in Callers : op[c] = Idle /\ op[c].pc = "idle"
    BY DEF Init, Idle
  <1>3. TasksOK /\ DOMAIN beats = {}
    BY <1>1 DEF Init, TasksOK
  <1>4. RegOK /\ MapsOK
    BY DEF Init, RegOK, MapsOK, NoSess
  <1>5. RcvOK
    BY DEF Init, RcvOK, RcvType
  <1>6. CountsOK
    BY SessionsAssumption DEF Init, CountsOK
  <1>7. OneOp /\ KindOK
    BY <1>2 DEF OneOp, KindOK, KindOf, StartPcs, OtherPcs
  <1>8. HandleOK
    BY <1>3 DEF HandleOK, Init
  <1>9. ChainOK
    BY <1>3 DEF ChainOK
  <1>10. StopOK
    BY <1>2 DEF StopOK, StopOf, Unhooked
  <1>11. RestOK
    BY DEF RestOK, Clear, Init, NoSess
  <1> QED BY <1>3, <1>4, <1>5, <1>6, <1>7, <1>8, <1>9, <1>10, <1>11 DEF SessInv, Types

LEMMA OperateSafe ==
  ASSUME SessInv, "late" \notin Hazards, NEW c \in Callers, Operate(c)
  PROVE  SessInv'
  BY ReadEntrySafe, ClaimSafe, KeepGrantSafe, CreateSafe, OpenTransportSafe, PutSessSafe,
     PutTransportSafe, PutRegSafe, UnhookSafe, JoinSafe, SpawnSafe, RevokeSafe, MarkSafe, EraseSafe,
     DropTransportSafe, DropSessSafe, DropRegSafe, ReleaseSafe, ForgetSafe, TakeoverSafe,
     HandoffSafe, CommitSafe, ReadPulseSafe, CallPulseSafe DEF Operate

LEMMA HeartbeatSafe ==
  ASSUME SessInv, NEW h \in DOMAIN beats, Heartbeat(h)
  PROVE  SessInv'
  BY TickSafe, CallSafe, CallLostSafe, LoseSessSafe, LoseTransportSafe, LoseRegSafe,
     LoseHandleSafe, LoseGrantSafe DEF Heartbeat

LEMMA SessStep ==
  ASSUME {"concurrent", "late"} \intersect Hazards = {}
  PROVE  SessInv /\ [Next]_vars => SessInv'
  <1> SUFFICES ASSUME SessInv, [Next]_vars PROVE SessInv'
    OBVIOUS
  <1>1. CASE \E c \in Callers : Operate(c) \/ \E kind \in Kinds : Begin(c, kind)
    BY <1>1, OperateSafe, BeginSafe
  <1>2. CASE \E h \in DOMAIN beats : Heartbeat(h)
    BY <1>2, HeartbeatSafe
  <1>3. CASE Lapse \/ Pounce
    BY <1>3, LapseSafe, PounceSafe
  <1>4. CASE UNCHANGED vars
    <2>1. Mild /\ op' = op
      BY <1>4 DEF vars, Mild
    <2>2. Types'
      BY <1>4 DEF SessInv, Types, RegOK, MapsOK, RcvOK, CountsOK, TasksOK, vars
    <2> QED BY <2>1, <2>2, StillStep
  <1> QED BY <1>1, <1>2, <1>3, <1>4 DEF Next

\* The state of the manager, as long as operations on a receiver do not overlap and a cancelled
\* heartbeat task ends within the wait for it (spawn_heartbeat_task, stop_session).
THEOREM SessionsInvariant ==
  ASSUME {"concurrent", "late"} \intersect Hazards = {}
  PROVE  Spec => []SessInv
  BY InitSess, SessStep, PTL DEF Spec

\* At rest a session that was reported as started is watched by a heartbeat task that nobody
\* cancelled, and one that is gone left neither a transport nor a registry entry that nobody
\* will clear, after any sequence of starts, stops, revocations, deletions, transfers, losses and
\* lost or refused exchanges (start_session, stop_session, handle_session_lost).
THEOREM SessionsAreAccounted ==
  ASSUME {"concurrent", "late"} \intersect Hazards = {}
  PROVE  Spec => []SessionAccounted
  <1>1. ASSUME SessInv PROVE SessionAccounted
    <2>1. TypeOK
      BY <1>1, SessionsAssumption
         DEF SessInv, Types, RegOK, MapsOK, RcvOK, CountsOK, TasksOK, TypeOK
    <2>2. ASSUME Quiet PROVE Rest
      BY <2>2 DEF Quiet, Rest, MidPcs, Unhooked
    <2>3. handle # 0 => Watched
      BY <1>1 DEF SessInv, HandleOK, Over, Watched
    <2>4. SessionIsWatched /\ NothingLeftBehind
      BY <1>1, <2>2, <2>3 DEF SessInv, RestOK, Clear, SessionIsWatched, NothingLeftBehind
    <2> QED BY <2>1, <2>4 DEF SessionAccounted
  <1> QED BY <1>1, SessionsInvariant, PTL
=============================================================================
