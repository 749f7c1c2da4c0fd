---------------------------- MODULE PlaybackSyncProofs ----------------------------
(***************************************************************************)
(* What holds of the playback state that servers exchange, for any         *)
(* servers, links and tracks, any capacity of the event channel and of the *)
(* memory of event ids, and any number of commands, disconnections and     *)
(* restarts.                                                               *)
(***************************************************************************)
EXTENDS PlaybackSync, TLAPS

-----------------------------------------------------------------------------
(***************************************************************************)
(* Types                                                                   *)
(***************************************************************************)
\* What is stamped has a Lamport clock.
Dated        == {p \in Provenances : p.dev # 0 => p.lamport > 0}
DatedStates  == [prov : Dated, track : Tracks \cup {NoTrack}, playing : BOOLEAN]
DatedOrigins == [local : BOOLEAN, prov : Dated]
Engines      == [track : Tracks \cup {NoTrack}, playing : BOOLEAN, origin : DatedOrigins]
Applications == [pc : {"idle", "load", "play", "volume"}, state : DatedStates,
                 dial : Dials \cup {NoDial}]
Letters      == [dial : Dials, state : DatedStates]
Starts       == [pc : {"epoch", "load", "store", "done"}, epoch : Nat, lamport : Nat]

ProcTypes  == db \in [Servers -> [epoch : Nat, lamport : Nat]] /\ proc \in [Servers -> Processes]
QueueTypes == /\ events \in [Servers -> Seq(DatedOrigins)]
              /\ \A n \in Servers : Len(events[n]) <= EventCapacity
              /\ lagged \in [Servers -> BOOLEAN]
WireTypes  == /\ conn \in [Dials -> BOOLEAN]
              /\ sent \in [Dials -> DatedStates]
              /\ net \in [Links -> Seq(DatedStates)]
              /\ late \in [Servers -> Seq(Letters)]

SyncTypes ==
  /\ now \in Nat /\ stimuli \in 0..MaxStimuli
  /\ ProcTypes /\ QueueTypes /\ WireTypes
  /\ engine \in [Servers -> Engines]
  /\ ps \in [Servers -> DatedStates]
  /\ applying \in [Servers -> Applications]
  /\ cursor \in [Servers -> [Servers -> Cursors]]

LEMMA DatedIsTyped ==
  /\ DatedStates \subseteq States
  /\ DatedOrigins \subseteq Origins
  BY DEF DatedStates, States, DatedOrigins, Origins, Dated

LEMMA BlankTypes ==
  /\ Unstamped \in Dated /\ Default \in DatedStates /\ LocalOrigin \in DatedOrigins
  /\ IdleEngine \in Engines /\ NotApplying \in Applications /\ Initialized \in Starts
  /\ NoCursor \in Cursors
<1>1. Unstamped \in Dated
  BY DEF Unstamped, Dated, Provenances
<1>2. Default \in DatedStates /\ LocalOrigin \in DatedOrigins
  BY <1>1 DEF Default, DatedStates, LocalOrigin, DatedOrigins
<1>3. IdleEngine \in Engines
  BY <1>2 DEF IdleEngine, Engines
<1>4. NotApplying \in Applications
  BY <1>2 DEF NotApplying, Applications
<1> QED
  BY <1>1, <1>2, <1>3, <1>4 DEF Initialized, Starts, NoCursor, Cursors

\* The two ends of a link are two servers.
LEMMA LinkEnds ==
  ASSUME NEW l \in Links
  PROVE  l[1] \in Dials /\ From(l) \in Servers /\ To(l) \in Servers
  BY DialsAssumption DEF Links, From, To

LEMMA TypesStart == Init => SyncTypes
<1> SUFFICES ASSUME Init PROVE SyncTypes
  OBVIOUS
<1> USE DEF Init
<1>1. ProcTypes
  <2>1. [i \in Inits |-> Initialized] \in [Inits -> Starts]
    BY BlankTypes
  <2> QED
    BY <2>1, BoundsAssumption DEF ProcTypes, Processes, Starts
<1>2. QueueTypes
  BY BoundsAssumption DEF QueueTypes
<1>3. WireTypes
  BY BlankTypes, BoundsAssumption DEF WireTypes
<1>4. now \in Nat /\ stimuli \in 0..MaxStimuli
  BY BoundsAssumption
<1>5. engine \in [Servers -> Engines] /\ ps \in [Servers -> DatedStates]
      /\ applying \in [Servers -> Applications] /\ cursor \in [Servers -> [Servers -> Cursors]]
  BY BlankTypes
<1> QED
  BY <1>1, <1>2, <1>3, <1>4, <1>5 DEF SyncTypes

\* Emit: the channel stays within its capacity.
LEMMA EmitTypes ==
  ASSUME QueueTypes, NEW n \in Servers, NEW o \in DatedOrigins, Emit(n, o)
  PROVE  QueueTypes'
<1> USE DEF QueueTypes
<1> DEFINE full == Len(events[n]) = EventCapacity
           q == Append(IF full THEN Tail(events[n]) ELSE events[n], o)
<1>1. events' = [events EXCEPT ![n] = q] /\ lagged' = [lagged EXCEPT ![n] = @ \/ full]
  BY DEF Emit
<1>2. q \in Seq(DatedOrigins) /\ Len(q) <= EventCapacity
  <2>1. CASE full
    <3>1. events[n] # <<>> /\ events[n] \in Seq(DatedOrigins)
      BY <2>1, BoundsAssumption
    <3>2. Tail(events[n]) \in Seq(DatedOrigins) /\ Len(Tail(events[n])) = EventCapacity - 1
      BY <3>1, <2>1, BoundsAssumption
    <3> QED
      BY <3>2, <2>1, BoundsAssumption
  <2>2. CASE ~full
    BY <2>2, BoundsAssumption
  <2> QED
    BY <2>1, <2>2
<1> HIDE DEF q
<1>3. \A m \in Servers : Len(events'[m]) <= EventCapacity
  BY <1>1, <1>2
<1>4. events' \in [Servers -> Seq(DatedOrigins)]
  BY <1>1, <1>2
<1>5. lagged' \in [Servers -> BOOLEAN]
  <2> HIDE DEF full
  <2> QED
    BY <1>1
<1> QED
  BY <1>3, <1>4, <1>5

LEMMA PublishedTypes ==
  ASSUME NEW q \in [Links -> Seq(DatedStates)], NEW n, NEW s \in DatedStates
  PROVE  Published(q, n, s) \in [Links -> Seq(DatedStates)]
<1>1. ASSUME NEW l \in Links PROVE Append(q[l], s) \in Seq(DatedStates) /\ q[l] \in Seq(DatedStates)
  OBVIOUS
<1> QED
  BY <1>1 DEF Published

\* ProjectAs: a local event is given the next sequence and clock.
LEMMA ProjectTypes ==
  ASSUME SyncTypes, NEW n \in Servers, NEW o \in DatedOrigins, ProjectAs(n, o)
  PROVE  /\ ps' \in [Servers -> DatedStates]
         /\ proc' \in [Servers -> Processes]
         /\ net' \in [Links -> Seq(DatedStates)]
<1> DEFINE mine == [dev |-> n, epoch |-> proc[n].epoch, boot |-> proc[n].boot,
                    seq |-> proc[n].seq + 1, lamport |-> proc[n].lamport + 1]
           p == IF o.local THEN mine ELSE o.prov
           s == [prov |-> p, track |-> engine[n].track, playing |-> engine[n].playing]
<1>1. proc[n] \in Processes /\ engine[n] \in Engines
  BY DEF SyncTypes, ProcTypes
<1>2. mine \in Dated
  BY <1>1, ServersAssumption DEF Processes, Dated, Provenances
<1>3. p \in Dated
  BY <1>2 DEF DatedOrigins
<1>4. s \in DatedStates
  BY <1>1, <1>3 DEF Engines, DatedStates
<1>5. ps' = [ps EXCEPT ![n] = s]
  BY DEF ProjectAs
<1>6. CASE o.local
  <2>1. /\ proc' = [proc EXCEPT ![n].seq = mine.seq, ![n].lamport = mine.lamport]
        /\ net' = Published(net, n, s)
    BY <1>6 DEF ProjectAs
  <2>2. [proc[n] EXCEPT !.seq = mine.seq, !.lamport = mine.lamport] \in Processes
    <3>1. mine.seq \in Nat /\ mine.lamport \in Nat
      BY <1>1 DEF Processes
    <3> HIDE DEF mine
    <3> QED
      BY <1>1, <3>1 DEF Processes
  <2>3. proc' = [proc EXCEPT ![n] = [proc[n] EXCEPT !.seq = mine.seq, !.lamport = mine.lamport]]
    BY <2>1 DEF SyncTypes, ProcTypes
  <2>4. proc' \in [Servers -> Processes]
    BY <2>2, <2>3 DEF SyncTypes, ProcTypes
  <2>5. net' \in [Links -> Seq(DatedStates)]
    BY <2>1, <1>4, PublishedTypes DEF SyncTypes, WireTypes
  <2> QED
    BY <2>4, <2>5, <1>4, <1>5 DEF SyncTypes
<1>7. CASE ~o.local
  BY <1>7, <1>4, <1>5 DEF ProjectAs, SyncTypes, ProcTypes, WireTypes
<1> QED
  BY <1>6, <1>7

\* Consider: what is accepted comes with the connection that brought it.
LEMMA ConsiderTypes ==
  ASSUME SyncTypes, NEW n \in Servers, NEW s \in DatedStates, NEW d \in Dials,
         NEW q \in [Links -> Seq(DatedStates)], Consider(n, s, d, q)
  PROVE  /\ proc' \in [Servers -> Processes]
         /\ applying' \in [Servers -> Applications]
         /\ net' \in [Links -> Seq(DatedStates)]
<1> DEFINE clock == Observed(proc[n].lamport, s.prov.lamport)
           taken == [pc |-> "load", state |-> s, dial |-> d]
<1>1. clock \in Nat
  BY DEF Observed, Larger, SyncTypes, ProcTypes, Processes, DatedStates, Dated, Provenances
<1>2. proc' \in [Servers -> Processes]
  <2>1. [proc[n] EXCEPT !.lamport = clock] \in Processes
    <3> HIDE DEF clock
    <3> QED
      BY <1>1 DEF SyncTypes, ProcTypes, Processes
  <2>2. proc' = proc \/ proc' = [proc EXCEPT ![n] = [proc[n] EXCEPT !.lamport = clock]]
    BY DEF Consider, SyncTypes, ProcTypes
  <2> HIDE DEF clock
  <2> QED
    BY <2>1, <2>2 DEF SyncTypes, ProcTypes
<1>3. applying' \in [Servers -> Applications]
  <2>1. taken \in Applications
    BY DEF Applications
  <2>2. applying' = applying \/ applying' = [applying EXCEPT ![n] = taken]
    BY DEF Consider
  <2> HIDE DEF taken
  <2> QED
    BY <2>1, <2>2 DEF SyncTypes
<1>4. net' = q \/ net' = Published(q, n, ps[n])
  BY DEF Consider
<1>5. net' \in [Links -> Seq(DatedStates)]
  BY <1>4, PublishedTypes DEF SyncTypes
<1> QED
  BY <1>2, <1>3, <1>5

\* Sever: what is still read is the head of a stream.
LEMMA SeverTypes ==
  ASSUME SyncTypes, NEW ds, NEW readers, NEW q \in [Servers -> Seq(Letters)],
         NEW a \in [Servers -> Applications], Sever(ds, readers, q, a)
  PROVE  WireTypes' /\ applying' \in [Servers -> Applications]
<1>1. PICK kept \in {{}} \cup {{l} : l \in {k \in Links :
                  /\ k[1] \in ds /\ To(k) \in readers
                  /\ InOrder(k) /\ ~Covered(k, Head(net[k]))}},
           cut \in SUBSET {n \in Servers : a[n].dial \in ds} :
       /\ conn' = [d \in Dials |-> conn[d] /\ d \notin ds]
       /\ net' = [l \in Links |-> IF l[1] \in ds THEN <<>> ELSE net[l]]
       /\ late' = [n \in Servers |->
                     IF \A l \in kept : To(l) # n THEN q[n]
                     ELSE LET l == CHOOSE l \in kept : TRUE IN
                          Append(q[n], [dial |-> l[1], state |-> Head(net[l])])]
       /\ applying' = [n \in Servers |-> IF n \in cut THEN NotApplying ELSE a[n]]
       /\ UNCHANGED sent
  BY DEF Sever
<1>2. conn' \in [Dials -> BOOLEAN]
  BY <1>1
<1>3. net' \in [Links -> Seq(DatedStates)]
  BY <1>1 DEF SyncTypes, WireTypes
<1>4. applying' \in [Servers -> Applications]
  BY <1>1, BlankTypes
<1>5. late' \in [Servers -> Seq(Letters)]
  <2>1. ASSUME NEW n \in Servers PROVE late'[n] \in Seq(Letters)
    <3>1. CASE \A l \in kept : To(l) # n
      BY <3>1, <1>1
    <3>2. CASE ~ \A l \in kept : To(l) # n
      <4>1. PICK l \in Links : kept = {l} /\ InOrder(l)
        BY <3>2
      <4>2. (CHOOSE k \in kept : TRUE) = l
        BY <4>1
      <4>3. late'[n] = Append(q[n], [dial |-> l[1], state |-> Head(net[l])])
        BY <1>1, <3>2, <4>2
      <4>4. net[l] \in Seq(DatedStates) /\ net[l] # <<>>
        BY <4>1 DEF InOrder, SyncTypes, WireTypes
      <4>5. Head(net[l]) \in DatedStates
        BY <4>4
      <4>6. [dial |-> l[1], state |-> Head(net[l])] \in Letters
        BY <4>5, LinkEnds DEF Letters
      <4> QED
        BY <4>3, <4>6
    <3> QED
      BY <3>1, <3>2
  <2> QED
    BY <2>1, <1>1
<1> QED
  BY <1>1, <1>2, <1>3, <1>4, <1>5 DEF WireTypes, SyncTypes

\* What a command gives the engine, and the event it emits.
LEMMA EngineTypes ==
  ASSUME SyncTypes, NEW n \in Servers, NEW e \in Engines, NEW o \in DatedOrigins,
         Engine(n, e, o)
  PROVE  QueueTypes' /\ engine' \in [Servers -> Engines]
  BY EmitTypes DEF Engine, SyncTypes

LEMMA OriginTypes ==
  ASSUME SyncTypes, NEW n \in Servers
  PROVE  /\ Origin(n) \in DatedOrigins /\ applying[n].state \in DatedStates
         /\ engine[n] \in Engines /\ engine[n].origin \in DatedOrigins
  BY DEF Origin, SyncTypes, Applications, DatedStates, DatedOrigins, Engines

\* Commands, checkpoints and the steps that apply a peer's state move the
\* engine, its events and the application alone.
LEMMA EnginesTyped ==
  ASSUME SyncTypes, NEW n \in Servers,
         \/ \E t \in Tracks, p \in BOOLEAN : Steer(n, t, p) \/ Skip(n, t, p)
         \/ Checkpoint(n) \/ Load(n) \/ ResumeOrPause(n) \/ Record(n) \/ GiveUp(n)
  PROVE  SyncTypes'
<1> USE OriginTypes, BlankTypes
<1>1. ASSUME QueueTypes', engine' \in [Servers -> Engines], applying' \in [Servers -> Applications],
             cursor' \in [Servers -> [Servers -> Cursors]], stimuli' \in 0..MaxStimuli,
             UNCHANGED <<now, db, proc, ps, wire>>
      PROVE  SyncTypes'
  BY <1>1 DEF SyncTypes, ProcTypes, WireTypes, wire
<1>2. Stimulus => stimuli' \in 0..MaxStimuli
  BY BoundsAssumption DEF Stimulus, SyncTypes
<1>3. ASSUME NEW t \in Tracks, NEW p \in BOOLEAN, Steer(n, t, p) PROVE SyncTypes'
  <2>1. [track |-> t, playing |-> p, origin |-> LocalOrigin] \in Engines
    BY DEF Engines
  <2> QED
    BY <1>1, <1>2, <1>3, <2>1, EngineTypes DEF Steer, SyncTypes
<1>4. ASSUME NEW t \in Tracks, NEW p \in BOOLEAN, Skip(n, t, p) PROVE SyncTypes'
  <2>1. [engine[n] EXCEPT !.track = t, !.playing = p] \in Engines
    BY DEF Engines
  <2> QED
    BY <1>1, <1>2, <1>4, <2>1, EngineTypes DEF Skip, Hazard, SyncTypes
<1>5. CASE Checkpoint(n)
  BY <1>1, <1>2, <1>5, EmitTypes DEF Checkpoint, SyncTypes
<1>6. ASSUME NEW pc \in {"play", "volume"}, Goto(n, pc) PROVE applying' \in [Servers -> Applications]
  <2>1. [applying[n] EXCEPT !.pc = pc] \in Applications
    BY DEF SyncTypes, Applications
  <2>2. applying' = [applying EXCEPT ![n] = [applying[n] EXCEPT !.pc = pc]]
    BY <1>6 DEF Goto, SyncTypes
  <2> QED
    BY <2>1, <2>2 DEF SyncTypes
<1>7. Release(n) => applying' \in [Servers -> Applications]
  BY DEF Release, SyncTypes
<1>8. ASSUME NEW e \in Engines, NEW p \in BOOLEAN
      PROVE  /\ [e EXCEPT !.origin = Origin(n)] \in Engines
             /\ [e EXCEPT !.playing = p, !.origin = Origin(n)] \in Engines
  BY DEF Engines
<1>9. CASE Load(n)
  <2> DEFINE s == applying[n].state
             e == IF s.track = NoTrack THEN [engine[n] EXCEPT !.origin = Origin(n)]
                  ELSE [track |-> s.track, playing |-> FALSE, origin |-> Origin(n)]
  <2>1. e \in Engines
    <3>1. [track |-> s.track, playing |-> FALSE, origin |-> Origin(n)] \in Engines
      BY DEF Engines, DatedStates
    <3> QED
      BY <3>1, <1>8
  <2>2. Engine(n, e, Origin(n))
    BY <1>9 DEF Load
  <2> HIDE DEF e
  <2> QED
    BY <1>1, <1>6, <1>9, <2>1, <2>2, EngineTypes DEF Load, SyncTypes
<1>10. CASE ResumeOrPause(n)
  <2> DEFINE e == [engine[n] EXCEPT !.playing = applying[n].state.playing, !.origin = Origin(n)]
  <2>1. e \in Engines
    BY <1>8 DEF DatedStates
  <2>2. Engine(n, e, Origin(n)) \/ (engine' = [engine EXCEPT ![n] = e] /\ UNCHANGED <<events, lagged>>)
    BY <1>10 DEF ResumeOrPause
  <2> HIDE DEF e
  <2>3. QueueTypes' /\ engine' \in [Servers -> Engines]
    BY <2>1, <2>2, EngineTypes DEF SyncTypes, QueueTypes
  <2> QED
    BY <1>1, <1>6, <1>10, <2>3 DEF ResumeOrPause, SyncTypes
<1>11. CASE Record(n)
  <2> DEFINE p == applying[n].state.prov
             c == [epoch |-> p.epoch, boot |-> p.boot, seq |-> p.seq]
  <2>1. p \in Dated
    BY DEF DatedStates
  <2>2. c \in Cursors
    BY <2>1 DEF Cursors, Dated, Provenances
  <2>3. p.dev # 0 => p.dev \in Servers
    BY <2>1 DEF Dated, Provenances
  <2>4. cursor' = cursor \/ (p.dev # 0 /\ cursor' = [cursor EXCEPT ![n][p.dev] = c])
    BY <1>11 DEF Record
  <2> HIDE DEF c, p
  <2>5. cursor' \in [Servers -> [Servers -> Cursors]]
    <3>1. CASE p.dev # 0 /\ cursor' = [cursor EXCEPT ![n][p.dev] = c]
      <4> DEFINE row == [cursor[n] EXCEPT ![p.dev] = c]
      <4>1. row \in [Servers -> Cursors]
        BY <2>2, <2>3, <3>1 DEF SyncTypes
      <4>2. cursor' = [cursor EXCEPT ![n] = row]
        BY <3>1 DEF SyncTypes
      <4> HIDE DEF row
      <4> QED
        BY <4>1, <4>2 DEF SyncTypes
    <3> QED
      BY <2>4, <3>1 DEF SyncTypes
  <2>6. QueueTypes'
    BY <1>11, EmitTypes DEF Record, SyncTypes
  <2> QED
    BY <1>1, <1>7, <1>11, <2>5, <2>6 DEF Record, SyncTypes
<1>12. CASE GiveUp(n)
  <2> DEFINE e == [engine[n] EXCEPT !.origin = Origin(n)]
  <2>1. e \in Engines
    BY <1>8
  <2>2. engine' = [engine EXCEPT ![n].origin = Origin(n)] => engine' = [engine EXCEPT ![n] = e]
    BY DEF SyncTypes
  <2>3. \/ UNCHANGED <<engine, events, lagged>>
        \/ engine' = [engine EXCEPT ![n] = e] /\ UNCHANGED <<events, lagged>>
        \/ Emit(n, Origin(n)) /\ UNCHANGED engine
    BY <1>12, <2>2 DEF GiveUp
  <2> HIDE DEF e
  <2>4. QueueTypes' /\ engine' \in [Servers -> Engines]
    BY <2>1, <2>3, EmitTypes DEF SyncTypes, QueueTypes
  <2> QED
    BY <1>1, <1>2, <1>7, <1>12, <2>4 DEF GiveUp, Hazard, SyncTypes
<1> QED
  BY <1>3, <1>4, <1>5, <1>9, <1>10, <1>11, <1>12

\* The projection's steps, the links' and the restart's.
LEMMA ProjectionTyped ==
  ASSUME SyncTypes, NEW n \in Servers, HandleEvent(n) \/ Reconcile(n)
  PROVE  SyncTypes'
<1>1. ASSUME NEW o \in DatedOrigins, ProjectAs(n, o), QueueTypes',
             UNCHANGED <<now, db, engine, applying, cursor, conn, sent, late, stimuli>>
      PROVE  SyncTypes'
  BY <1>1, ProjectTypes DEF SyncTypes, ProcTypes, WireTypes
<1>2. CASE HandleEvent(n)
  <2>1. events[n] \in Seq(DatedOrigins) /\ events[n] # <<>>
    BY <1>2 DEF HandleEvent, SyncTypes, QueueTypes
  <2>2. Head(events[n]) \in DatedOrigins /\ Tail(events[n]) \in Seq(DatedOrigins)
        /\ Len(Tail(events[n])) <= Len(events[n])
    BY <2>1
  <2>3. QueueTypes'
    <3>1. events' = [events EXCEPT ![n] = Tail(events[n])] /\ lagged' = lagged
      BY <1>2 DEF HandleEvent
    <3>2. events' \in [Servers -> Seq(DatedOrigins)]
      BY <3>1, <2>2 DEF SyncTypes, QueueTypes
    <3>3. Len(Tail(events[n])) <= EventCapacity
      BY <2>1, BoundsAssumption DEF SyncTypes, QueueTypes
    <3>4. \A m \in Servers : Len(events'[m]) <= EventCapacity
      BY <3>1, <3>3 DEF SyncTypes, QueueTypes
    <3> QED
      BY <3>1, <3>2, <3>4 DEF SyncTypes, QueueTypes
  <2> QED
    BY <1>1, <1>2, <2>2, <2>3 DEF HandleEvent
<1>3. CASE Reconcile(n)
  <2>1. QueueTypes'
    BY <1>3 DEF Reconcile, SyncTypes, QueueTypes
  <2> QED
    BY <1>1, <1>3, <2>1, OriginTypes DEF Reconcile
<1> QED
  BY <1>2, <1>3

LEMMA LinksTyped ==
  ASSUME SyncTypes,
         \/ \E d \in Dials : Connect(d) \/ Disconnect(d)
         \/ \E l \in Links : Receive(l)
         \/ \E n \in Servers : ReceiveLate(n)
  PROVE  SyncTypes'
<1>1. ASSUME NEW d \in Dials, Connect(d) PROVE SyncTypes'
  <2>1. ps[d[2]] \in DatedStates
    BY DialsAssumption DEF SyncTypes
  <2>2. conn' \in [Dials -> BOOLEAN] /\ sent' \in [Dials -> DatedStates]
    BY <1>1, <2>1 DEF Connect, SyncTypes, WireTypes
  <2>3. net' \in [Links -> Seq(DatedStates)]
    <3>1. <<ps[d[2]]>> \in Seq(DatedStates)
      BY <2>1
    <3>2. net' = [net EXCEPT ![<<d, "greet">>] = <<ps[d[2]]>>]
      BY <1>1 DEF Connect
    <3> QED
      BY <3>1, <3>2 DEF SyncTypes, WireTypes
  <2> QED
    BY <1>1, <2>2, <2>3 DEF Connect, SyncTypes, ProcTypes, QueueTypes, WireTypes, server
<1>2. ASSUME NEW d \in Dials, Disconnect(d) PROVE SyncTypes'
  <2>1. Sever({d}, {d[2]}, late, applying) /\ stimuli' \in 0..MaxStimuli
    BY <1>2, BoundsAssumption DEF Disconnect, Hazard, Stimulus, SyncTypes
  <2>2. WireTypes' /\ applying' \in [Servers -> Applications]
    <3>1. late \in [Servers -> Seq(Letters)] /\ applying \in [Servers -> Applications]
      BY DEF SyncTypes, WireTypes
    <3> QED
      BY <2>1, <3>1, SeverTypes
  <2> QED
    BY <1>2, <2>1, <2>2 DEF Disconnect, SyncTypes, ProcTypes, QueueTypes
<1>3. ASSUME NEW l \in Links, Receive(l) PROVE SyncTypes'
  <2> DEFINE s == Head(net[l])
             q == [net EXCEPT ![l] = Tail(@)]
  <2>1. net[l] \in Seq(DatedStates) /\ net[l] # <<>>
    BY <1>3 DEF Receive, InOrder, SyncTypes, WireTypes
  <2>2. s \in DatedStates /\ Tail(net[l]) \in Seq(DatedStates)
    BY <2>1
  <2>3. q \in [Links -> Seq(DatedStates)]
    BY <2>2 DEF SyncTypes, WireTypes
  <2>4. \/ net' = q /\ UNCHANGED <<proc, applying, sent>>
        \/ /\ Consider(To(l), s, l[1], q)
           /\ sent' = IF l[2] = "down" THEN [sent EXCEPT ![l[1]] = s] ELSE sent
    BY <1>3 DEF Receive
  <2> HIDE DEF s, q
  <2>5. /\ proc' \in [Servers -> Processes] /\ applying' \in [Servers -> Applications]
        /\ net' \in [Links -> Seq(DatedStates)]
    BY <2>2, <2>3, <2>4, LinkEnds, ConsiderTypes DEF SyncTypes, ProcTypes
  <2>6. sent' \in [Dials -> DatedStates]
    BY <2>2, <2>4, LinkEnds DEF SyncTypes, WireTypes
  <2> QED
    BY <1>3, <2>5, <2>6 DEF Receive, SyncTypes, ProcTypes, QueueTypes, WireTypes
<1>4. ASSUME NEW n \in Servers, ReceiveLate(n) PROVE SyncTypes'
  <2> DEFINE x == Head(late[n])
  <2>1. late[n] \in Seq(Letters) /\ late[n] # <<>>
    BY <1>4 DEF ReceiveLate, SyncTypes, WireTypes
  <2>2. x \in Letters /\ Tail(late[n]) \in Seq(Letters)
    BY <2>1
  <2>3. Consider(n, x.state, x.dial, net) /\ late' = [late EXCEPT ![n] = Tail(late[n])]
    BY <1>4 DEF ReceiveLate
  <2> HIDE DEF x
  <2>4. x.state \in DatedStates /\ x.dial \in Dials
    BY <2>2 DEF Letters
  <2>5. /\ proc' \in [Servers -> Processes] /\ applying' \in [Servers -> Applications]
        /\ net' \in [Links -> Seq(DatedStates)]
    BY <2>3, <2>4, ConsiderTypes DEF SyncTypes, WireTypes
  <2>6. late' \in [Servers -> Seq(Letters)]
    BY <2>2, <2>3 DEF SyncTypes, WireTypes
  <2> QED
    BY <1>4, <2>5, <2>6 DEF ReceiveLate, SyncTypes, ProcTypes, QueueTypes, WireTypes
<1> QED
  BY <1>1, <1>2, <1>3, <1>4

LEMMA RestartTyped ==
  ASSUME SyncTypes, NEW n \in Servers, NEW clean \in BOOLEAN, Restart(n, clean)
  PROVE  SyncTypes'
<1>1. now' \in Nat /\ stimuli' \in 0..MaxStimuli
  BY BoundsAssumption DEF Restart, Hazard, Stimulus, SyncTypes
<1>2. ProcTypes'
  <2> DEFINE blank == [i \in Inits |-> [pc |-> "epoch", epoch |-> 0, lamport |-> 0]]
             p == [boot |-> proc[n].boot + 1, epoch |-> now', seq |-> 0, lamport |-> 0, init |-> blank]
  <2>1. blank \in [Inits -> Starts]
    BY DEF Starts
  <2>2. p \in Processes
    <3> HIDE DEF blank
    <3> QED
      BY <1>1, <2>1 DEF Processes, Starts, SyncTypes, ProcTypes
  <2>3. proc' = [proc EXCEPT ![n] = p]
    BY DEF Restart, SyncTypes, ProcTypes
  <2>4. [db[n] EXCEPT !.lamport = proc[n].lamport] \in [epoch : Nat, lamport : Nat]
    BY DEF SyncTypes, ProcTypes, Processes
  <2>5. db' = db \/ db' = [db EXCEPT ![n] = [db[n] EXCEPT !.lamport = proc[n].lamport]]
    BY DEF Restart, SyncTypes, ProcTypes
  <2>6. db' \in [Servers -> [epoch : Nat, lamport : Nat]]
    BY <2>4, <2>5 DEF SyncTypes, ProcTypes
  <2> HIDE DEF p
  <2> QED
    BY <2>2, <2>3, <2>6 DEF SyncTypes, ProcTypes
<1>3. QueueTypes'
  BY BoundsAssumption DEF Restart, SyncTypes, QueueTypes
<1>4. WireTypes' /\ applying' \in [Servers -> Applications]
  <2>1. [late EXCEPT ![n] = <<>>] \in [Servers -> Seq(Letters)]
    BY DEF SyncTypes, WireTypes
  <2>2. [applying EXCEPT ![n] = NotApplying] \in [Servers -> Applications]
    BY BlankTypes DEF SyncTypes
  <2> QED
    BY <2>1, <2>2, SeverTypes DEF Restart
<1>5. engine' \in [Servers -> Engines] /\ ps' \in [Servers -> DatedStates]
  BY BlankTypes DEF Restart, SyncTypes
<1>6. cursor' \in [Servers -> [Servers -> Cursors]]
  BY BlankTypes DEF Restart, SyncTypes
<1> QED
  BY <1>1, <1>2, <1>3, <1>4, <1>5, <1>6 DEF SyncTypes

\* A step of initialize_db_state leaves the other servers, the boot and the
\* sequence alone, and the other initialization.
InitMoves(n, i, e, l, x) ==
  /\ proc' \in [Servers -> Processes]
  /\ \A m \in Servers : m # n => proc'[m] = proc[m] /\ db'[m] = db[m]
  /\ proc'[n].boot = proc[n].boot /\ proc'[n].seq = proc[n].seq
  /\ proc'[n].epoch = e /\ proc'[n].lamport = l
  /\ proc'[n].init[i] = x
  /\ \A j \in Inits : j # i => proc'[n].init[j] = proc[n].init[j]

LEMMA InitStep ==
  ASSUME SyncTypes, NEW n \in Servers, NEW i \in Inits
  PROVE  /\ InitEpoch(n, i) => LET e == Larger(db[n].epoch + 1, now) IN
              /\ InitMoves(n, i, proc[n].epoch, proc[n].lamport, [pc |-> "load", epoch |-> e, lamport |-> 0])
              /\ db' \in [Servers -> [epoch : Nat, lamport : Nat]]
              /\ db'[n].epoch = e /\ db'[n].lamport = db[n].lamport
         /\ InitLoad(n, i) =>
              InitMoves(n, i, proc[n].init[i].epoch, proc[n].lamport,
                        [pc |-> "store", epoch |-> 0,
                         lamport |-> Larger(db[n].lamport, proc[n].lamport) + Reserve])
         /\ InitStore(n, i) =>
              /\ InitMoves(n, i, proc[n].epoch, proc[n].init[i].lamport, Initialized)
              /\ db' \in [Servers -> [epoch : Nat, lamport : Nat]]
              /\ db'[n].epoch = db[n].epoch
<1>1. /\ proc[n] \in Processes /\ proc[n].epoch \in Nat /\ proc[n].lamport \in Nat
      /\ proc[n].init \in [Inits -> Starts] /\ proc[n].init[i] \in Starts
      /\ db[n] \in [epoch : Nat, lamport : Nat]
      /\ db[n].epoch \in Nat /\ db[n].lamport \in Nat /\ now \in Nat /\ Reserve \in Nat
  BY BoundsAssumption DEF SyncTypes, ProcTypes, Processes, Starts
<1>2. proc[n].init[i].epoch \in Nat /\ proc[n].init[i].lamport \in Nat
  BY <1>1 DEF Starts
<1>3. ASSUME NEW x \in Starts, NEW e \in Nat, NEW l \in Nat,
             proc' = [proc EXCEPT ![n] = [proc[n] EXCEPT !.epoch = e, !.lamport = l,
                                                         !.init = [proc[n].init EXCEPT ![i] = x]]],
             \A m \in Servers : m # n => db'[m] = db[m]
      PROVE  InitMoves(n, i, e, l, x)
  <2> DEFINE y == [proc[n].init EXCEPT ![i] = x]
             r == [proc[n] EXCEPT !.epoch = e, !.lamport = l, !.init = y]
  <2>1. y \in [Inits -> Starts] /\ y[i] = x /\ \A j \in Inits : j # i => y[j] = proc[n].init[j]
    BY <1>1
  <2> HIDE DEF y
  <2>2. /\ r \in Processes /\ r.boot = proc[n].boot /\ r.seq = proc[n].seq
        /\ r.epoch = e /\ r.lamport = l /\ r.init = y
    BY <1>1, <2>1 DEF Processes, Starts
  <2>3. proc' = [proc EXCEPT ![n] = r]
    BY <1>3 DEF y
  <2> HIDE DEF r
  <2>4. proc'[n] = r /\ proc' \in [Servers -> Processes] /\ \A m \in Servers : m # n => proc'[m] = proc[m]
    BY <2>2, <2>3 DEF SyncTypes, ProcTypes
  <2> QED
    BY <2>1, <2>2, <2>4, <1>3 DEF InitMoves
<1>4. ASSUME InitEpoch(n, i)
      PROVE  LET e == Larger(db[n].epoch + 1, now) IN
              /\ InitMoves(n, i, proc[n].epoch, proc[n].lamport, [pc |-> "load", epoch |-> e, lamport |-> 0])
              /\ db' \in [Servers -> [epoch : Nat, lamport : Nat]]
              /\ db'[n].epoch = e /\ db'[n].lamport = db[n].lamport
  <2> DEFINE e == Larger(db[n].epoch + 1, now)
             x == [pc |-> "load", epoch |-> e, lamport |-> 0]
  <2>1. e \in Nat
    BY <1>1 DEF Larger
  <2>2. db' = [db EXCEPT ![n].epoch = e] /\ proc' = [proc EXCEPT ![n].init[i] = x]
    BY <1>4 DEF InitEpoch
  <2> HIDE DEF e
  <2>3. x \in Starts
    BY <2>1 DEF Starts
  <2> HIDE DEF x
  <2>4. /\ db' \in [Servers -> [epoch : Nat, lamport : Nat]] /\ \A m \in Servers : m # n => db'[m] = db[m]
        /\ db'[n].epoch = e /\ db'[n].lamport = db[n].lamport
    BY <2>1, <2>2 DEF SyncTypes, ProcTypes
  <2>5. proc' = [proc EXCEPT ![n] = [proc[n] EXCEPT !.epoch = proc[n].epoch, !.lamport = proc[n].lamport,
                                                    !.init = [proc[n].init EXCEPT ![i] = x]]]
    BY <2>2, <1>1 DEF SyncTypes, ProcTypes, Processes
  <2>6. InitMoves(n, i, proc[n].epoch, proc[n].lamport, x)
    BY <1>1, <1>3, <2>3, <2>4, <2>5
  <2> QED
    BY <2>4, <2>6 DEF e, x
<1>5. ASSUME InitLoad(n, i)
      PROVE  InitMoves(n, i, proc[n].init[i].epoch, proc[n].lamport,
                       [pc |-> "store", epoch |-> 0,
                        lamport |-> Larger(db[n].lamport, proc[n].lamport) + Reserve])
  <2> DEFINE l == Larger(db[n].lamport, proc[n].lamport) + Reserve
             x == [pc |-> "store", epoch |-> 0, lamport |-> l]
             e == proc[n].init[i].epoch
  <2>1. l \in Nat
    BY <1>1 DEF Larger
  <2>2. db' = db /\ proc' = [proc EXCEPT ![n].epoch = e, ![n].init[i] = x]
    BY <1>5 DEF InitLoad
  <2> HIDE DEF l
  <2>3. x \in Starts
    BY <2>1 DEF Starts
  <2> HIDE DEF x, e
  <2>4. proc' = [proc EXCEPT ![n] = [proc[n] EXCEPT !.epoch = e, !.lamport = proc[n].lamport,
                                                    !.init = [proc[n].init EXCEPT ![i] = x]]]
    BY <2>2, <1>1 DEF SyncTypes, ProcTypes, Processes
  <2>5. InitMoves(n, i, e, proc[n].lamport, x)
    BY <1>1, <1>2, <1>3, <2>2, <2>3, <2>4 DEF e
  <2> QED
    BY <2>5 DEF e, x, l
<1>6. ASSUME InitStore(n, i)
      PROVE  /\ InitMoves(n, i, proc[n].epoch, proc[n].init[i].lamport, Initialized)
             /\ db' \in [Servers -> [epoch : Nat, lamport : Nat]]
             /\ db'[n].epoch = db[n].epoch
  <2> DEFINE l == proc[n].init[i].lamport
  <2>1. l \in Nat
    BY <1>2
  <2>2. db' = [db EXCEPT ![n].lamport = l]
        /\ proc' = [proc EXCEPT ![n].lamport = l, ![n].init[i] = Initialized]
    BY <1>6 DEF InitStore
  <2> HIDE DEF l
  <2>3. /\ db' \in [Servers -> [epoch : Nat, lamport : Nat]] /\ \A m \in Servers : m # n => db'[m] = db[m]
        /\ db'[n].epoch = db[n].epoch
    BY <2>1, <2>2 DEF SyncTypes, ProcTypes
  <2>4. proc' = [proc EXCEPT ![n] = [proc[n] EXCEPT !.epoch = proc[n].epoch, !.lamport = l,
                                                    !.init = [proc[n].init EXCEPT ![i] = Initialized]]]
    BY <2>2, <1>1 DEF SyncTypes, ProcTypes, Processes
  <2>5. InitMoves(n, i, proc[n].epoch, l, Initialized)
    BY <1>1, <1>3, <2>1, <2>3, <2>4, BlankTypes
  <2> QED
    BY <2>3, <2>5 DEF l
<1> QED
  BY <1>4, <1>5, <1>6

LEMMA InitsTyped ==
  ASSUME SyncTypes, NEW n \in Servers, NEW i \in Inits,
         InitEpoch(n, i) \/ InitLoad(n, i) \/ InitStore(n, i)
  PROVE  SyncTypes'
<1>1. proc' \in [Servers -> Processes]
  BY InitStep DEF InitMoves
<1>2. db' \in [Servers -> [epoch : Nat, lamport : Nat]]
  BY InitStep DEF InitLoad, SyncTypes, ProcTypes
<1> QED
  BY <1>1, <1>2 DEF InitEpoch, InitLoad, InitStore, SyncTypes, ProcTypes, QueueTypes, WireTypes, wire

LEMMA TypesStep == SyncTypes /\ [Next]_vars => SyncTypes'
<1> SUFFICES ASSUME SyncTypes, [Next]_vars PROVE SyncTypes'
  OBVIOUS
<1>1. CASE UNCHANGED vars
  BY <1>1 DEF vars, server, wire, SyncTypes, ProcTypes, QueueTypes, WireTypes
<1>2. CASE Next
  BY <1>2, EnginesTyped, ProjectionTyped, LinksTyped, RestartTyped, InitsTyped DEF Next, Progress
<1> QED
  BY <1>1, <1>2

\* TypeOK: every variable keeps its type, under every disturbance.
THEOREM SyncIsTyped == Spec => []TypeOK
<1>1. SyncTypes => TypeOK
  <2> SUFFICES ASSUME SyncTypes PROVE TypeOK
    OBVIOUS
  <2> USE DatedIsTyped
  <2>1. \A n \in Servers : /\ events[n] \in Seq(Origins) /\ Len(events[n]) <= EventCapacity
                           /\ late[n] \in Seq([dial : Dials, state : States])
    <3>1. Letters \subseteq [dial : Dials, state : States]
      BY DEF Letters
    <3>2. Seq(DatedOrigins) \subseteq Seq(Origins)
      OBVIOUS
    <3> DEFINE T == [dial : Dials, state : States]
    <3> HIDE DEF T
    <3>3. Letters \subseteq T
      BY <3>1 DEF T
    <3>4. Seq(Letters) \subseteq Seq(T)
      BY <3>3
    <3> QED
      BY <3>2, <3>4 DEF T, SyncTypes, QueueTypes, WireTypes
  <2>2. \A l \in Links : net[l] \in Seq(States)
    <3>1. Seq(DatedStates) \subseteq Seq(States)
      OBVIOUS
    <3> QED
      BY <3>1 DEF SyncTypes, WireTypes
  <2>3. engine \in [Servers -> [track : Tracks \cup {NoTrack}, playing : BOOLEAN, origin : Origins]]
    BY DEF SyncTypes, Engines
  <2>4. applying \in [Servers -> [pc : {"idle", "load", "play", "volume"},
                                  state : States, dial : Dials \cup {NoDial}]]
    BY DEF SyncTypes, Applications
  <2> QED
    BY <2>1, <2>2, <2>3, <2>4 DEF TypeOK, SyncTypes, ProcTypes, QueueTypes, WireTypes
<1> QED
  BY <1>1, TypesStart, TypesStep, PTL DEF Spec

-----------------------------------------------------------------------------
(***************************************************************************)
(* What the servers know of each other's time                              *)
(***************************************************************************)
\* A provenance without its Lamport clock, and the one a cursor remembers.
Stamp(p)   == [dev |-> p.dev, epoch |-> p.epoch, boot |-> p.boot, seq |-> p.seq]
NoStamp    == [dev |-> 0, epoch |-> 0, boot |-> 0, seq |-> 0]
Mark(m, c) == IF c = NoCursor THEN NoStamp
              ELSE [dev |-> m, epoch |-> c.epoch, boot |-> c.boot, seq |-> c.seq]

\* Every stamp that is held, applied, awaited, remembered or on its way.
Stamps(n) == {Stamp(ps[n].prov), Stamp(applying[n].state.prov), Stamp(engine[n].origin.prov)}
               \cup {Stamp(events[n][i].prov) : i \in DOMAIN events[n]}
               \cup {Stamp(late[n][i].state.prov) : i \in DOMAIN late[n]}
               \cup {Mark(m, cursor[n][m]) : m \in Servers}
OnWire(l) == {Stamp(net[l][i].prov) : i \in DOMAIN net[l]}
Carried   == (UNION {Stamps(n) : n \in Servers}) \cup (UNION {OnWire(l) : l \in Links})

\* The inductive invariant.  A stamp was given by a process of its device,
\* under an epoch that every later process of the device goes beyond: none of
\* its initializations holds or stores one as small.
InTurn   == "straggler" \notin Hazards
Fresh(n) == \A i \in Inits : proc[n].init[i].pc = "epoch"
Beyond(n, e) ==
  /\ ~Fresh(n) => e < db[n].epoch
  /\ \A i \in Inits : /\ proc[n].init[i].pc = "load" => e < proc[n].init[i].epoch
                      /\ proc[n].init[i].pc \in {"store", "done"} => e < proc[n].epoch
StampOK(s) ==
  s.dev # 0 =>
    /\ s.dev \in Servers /\ s.epoch > 0
    /\ s.boot <= proc[s.dev].boot /\ s.epoch <= db[s.dev].epoch
    /\ s.boot = proc[s.dev].boot =>
         Ready(s.dev) /\ (InTurn => s.epoch = db[s.dev].epoch /\ s.seq <= proc[s.dev].seq)
    /\ s.boot < proc[s.dev].boot => Beyond(s.dev, s.epoch)
Ordered(a, b) == a.dev # 0 /\ a.dev = b.dev /\ a.boot > b.boot => a.epoch > b.epoch

\* How far a start has come, and that nothing happens before it ends.
StartInTurn(n) ==
  /\ proc[n].init["spawned"].pc # "done" => proc[n].init["bootstrap"].pc = "epoch"
  /\ proc[n].init["bootstrap"].pc \in {"store", "done"} => proc[n].epoch = db[n].epoch
  /\ \A i \in Inits :
        /\ proc[n].init[i].pc = "load" => proc[n].init[i].epoch = db[n].epoch
        /\ proc[n].init[i].pc = "store" => proc[n].init[i].lamport >= proc[n].lamport
StartOK(n) ==
  /\ ~Ready(n) => /\ proc[n].seq = 0 /\ events[n] = <<>> /\ ~lagged[n]
                  /\ ~engine[n].playing /\ applying[n].pc = "idle"
  /\ IF Fresh(n) THEN proc[n].epoch <= now ELSE proc[n].epoch <= db[n].epoch
  /\ \A i \in Inits : proc[n].init[i].pc = "load" => proc[n].init[i].epoch <= db[n].epoch
  /\ db[n].epoch > 0 /\ Beyond(n, 0)
  /\ InTurn => StartInTurn(n)

\* What is being applied is newer than what was applied of its device.
Newer(p, c) == p.epoch > c.epoch \/ (p.epoch = c.epoch /\ p.seq > c.seq)
ApplyOK(n)  == applying[n].pc # "idle" /\ applying[n].state.prov.dev # 0 =>
                 Newer(applying[n].state.prov, cursor[n][applying[n].state.prov.dev])

StampsOK == (\A s \in Carried : StampOK(s)) /\ (\A a, b \in Carried : Ordered(a, b))
StampInv == /\ SyncTypes /\ StampsOK
            /\ \A n \in Servers : StartOK(n)
            /\ \A n \in Servers : ApplyOK(n)

\* The stamps, variable by variable.
PsIn(S)     == \A n \in Servers : Stamp(ps[n].prov) \in S
ApplyIn(S)  == \A n \in Servers : Stamp(applying[n].state.prov) \in S
EngineIn(S) == \A n \in Servers : Stamp(engine[n].origin.prov) \in S
EventsIn(S) == \A n \in Servers : \A i \in DOMAIN events[n] : Stamp(events[n][i].prov) \in S
LateIn(S)   == \A n \in Servers : \A i \in DOMAIN late[n] : Stamp(late[n][i].state.prov) \in S
CursorIn(S) == \A n, m \in Servers : Mark(m, cursor[n][m]) \in S
WireIn(S)   == \A l \in Links : \A i \in DOMAIN net[l] : Stamp(net[l][i].prov) \in S
AllIn(S)    == PsIn(S) /\ ApplyIn(S) /\ EngineIn(S) /\ EventsIn(S) /\ LateIn(S) /\ CursorIn(S)
                 /\ WireIn(S)

LEMMA CarriedIsIn == ASSUME NEW S, Carried \subseteq S PROVE AllIn(S)
<1>1. \A n \in Servers : Stamps(n) \subseteq S
  BY DEF Carried
<1>2. \A l \in Links : OnWire(l) \subseteq S
  BY DEF Carried
<1>3. PsIn(S) /\ ApplyIn(S) /\ EngineIn(S)
  BY <1>1 DEF Stamps, PsIn, ApplyIn, EngineIn
<1>4. EventsIn(S) /\ LateIn(S) /\ CursorIn(S)
  BY <1>1 DEF Stamps, EventsIn, LateIn, CursorIn
<1>5. WireIn(S)
  BY <1>2 DEF OnWire, WireIn
<1> QED
  BY <1>3, <1>4, <1>5 DEF AllIn

LEMMA CarriedLands == ASSUME NEW S, AllIn(S)' PROVE Carried' \subseteq S
<1>1. \A n \in Servers : Stamps(n)' \subseteq S
  <2> SUFFICES ASSUME NEW n \in Servers PROVE Stamps(n)' \subseteq S
    OBVIOUS
  <2>1. {Stamp(ps[n].prov), Stamp(applying[n].state.prov), Stamp(engine[n].origin.prov)}' \subseteq S
    BY DEF AllIn, PsIn, ApplyIn, EngineIn
  <2>2. {Stamp(events[n][i].prov) : i \in DOMAIN events[n]}' \subseteq S
    BY DEF AllIn, EventsIn
  <2>3. {Stamp(late[n][i].state.prov) : i \in DOMAIN late[n]}' \subseteq S
    BY DEF AllIn, LateIn
  <2>4. {Mark(m, cursor[n][m]) : m \in Servers}' \subseteq S
    BY DEF AllIn, CursorIn
  <2> QED
    BY <2>1, <2>2, <2>3, <2>4 DEF Stamps
<1>2. \A l \in Links : OnWire(l)' \subseteq S
  BY DEF AllIn, WireIn, OnWire
<1> QED
  BY <1>1, <1>2 DEF Carried

\* What an event or a broadcast adds.
LEMMA EmitIn ==
  ASSUME SyncTypes, NEW S, EventsIn(S), NEW n \in Servers, NEW o \in DatedOrigins, Stamp(o.prov) \in S,
         Emit(n, o)
  PROVE  EventsIn(S)'
<1> DEFINE full == Len(events[n]) = EventCapacity
           r == IF full THEN Tail(events[n]) ELSE events[n]
<1>1. events' = [events EXCEPT ![n] = Append(r, o)] /\ events \in [Servers -> Seq(DatedOrigins)]
  BY DEF Emit, SyncTypes, QueueTypes
<1>2. r \in Seq(DatedOrigins) /\ \A i \in DOMAIN r : \E j \in DOMAIN events[n] : r[i] = events[n][j]
  <2>1. CASE full
    <3>1. events[n] # <<>> /\ events[n] \in Seq(DatedOrigins)
      BY <1>1, <2>1, BoundsAssumption
    <3>2. Tail(events[n]) \in Seq(DatedOrigins) /\ Len(Tail(events[n])) = Len(events[n]) - 1
          /\ \A i \in 1..Len(Tail(events[n])) : Tail(events[n])[i] = events[n][i + 1]
      BY <3>1
    <3> QED
      BY <3>1, <3>2, <2>1
  <2> QED
    BY <2>1, <1>1
<1> HIDE DEF r
<1>3. ASSUME NEW i \in DOMAIN Append(r, o) PROVE Stamp(Append(r, o)[i].prov) \in S
  <2>1. CASE i = Len(r) + 1
    BY <2>1, <1>2
  <2>2. CASE i # Len(r) + 1
    <3>1. i \in DOMAIN r /\ Append(r, o)[i] = r[i]
      BY <2>2, <1>2, <1>3
    <3> QED
      BY <3>1, <1>2 DEF EventsIn
  <2> QED
    BY <2>1, <2>2
<1> QED
  BY <1>1, <1>3 DEF EventsIn

\* WireIn of another queue than net.
Within(q, S) == \A l \in Links : \A i \in DOMAIN q[l] : Stamp(q[l][i].prov) \in S

LEMMA PublishedIn ==
  ASSUME NEW S, NEW q \in [Links -> Seq(DatedStates)], Within(q, S), NEW n,
         NEW s \in DatedStates, Stamp(s.prov) \in S
  PROVE  Within(Published(q, n, s), S)
<1> SUFFICES ASSUME NEW l \in Links, NEW i \in DOMAIN Published(q, n, s)[l]
             PROVE  Stamp(Published(q, n, s)[l][i].prov) \in S
  BY DEF Within
<1>1. Published(q, n, s)[l] = Append(q[l], s) \/ Published(q, n, s)[l] = q[l]
  BY DEF Published
<1>2. CASE Published(q, n, s)[l] = Append(q[l], s)
  <2>1. CASE i = Len(q[l]) + 1
    BY <1>2, <2>1
  <2>2. CASE i # Len(q[l]) + 1
    <3>1. i \in DOMAIN q[l] /\ Append(q[l], s)[i] = q[l][i]
      BY <1>2, <2>2
    <3> QED
      BY <3>1, <1>2 DEF Within
  <2> QED
    BY <2>1, <2>2
<1> QED
  BY <1>1, <1>2 DEF Within

LEMMA BlankStamps ==
  /\ Stamp(Default.prov) = NoStamp /\ Stamp(LocalOrigin.prov) = NoStamp
  /\ Stamp(IdleEngine.origin.prov) = NoStamp /\ Stamp(NotApplying.state.prov) = NoStamp
  /\ \A m : Mark(m, NoCursor) = NoStamp
  BY DEF Default, LocalOrigin, IdleEngine, NotApplying, Unstamped, Stamp, NoStamp, Mark

\* No step carries a stamp that was not carried before, but for the one that
\* a projection of a local event gives.
NewStamp(n) == [dev |-> n, epoch |-> proc[n].epoch, boot |-> proc[n].boot, seq |-> proc[n].seq + 1]

LEMMA ProjectionFlow ==
  ASSUME SyncTypes, NEW S, AllIn(S), NEW n \in Servers, HandleEvent(n) \/ Reconcile(n),
         proc'[n].seq = proc[n].seq + 1 => NewStamp(n) \in S
  PROVE  AllIn(S)'
<1>1. ASSUME NEW o \in DatedOrigins, Stamp(o.prov) \in S, ProjectAs(n, o) PROVE PsIn(S)' /\ WireIn(S)'
  <2> DEFINE mine == [dev |-> n, epoch |-> proc[n].epoch, boot |-> proc[n].boot,
                      seq |-> proc[n].seq + 1, lamport |-> proc[n].lamport + 1]
             p == IF o.local THEN mine ELSE o.prov
             s == [prov |-> p, track |-> engine[n].track, playing |-> engine[n].playing]
  <2>1. Stamp(p) \in S
    <3>1. Stamp(mine) = NewStamp(n)
      BY DEF Stamp, NewStamp
    <3>2. o.local => proc'[n].seq = proc[n].seq + 1
      BY <1>1 DEF ProjectAs, SyncTypes, ProcTypes, Processes
    <3> QED
      BY <3>1, <3>2, <1>1
  <2>2. p \in Dated
    <3>1. proc[n] \in Processes
      BY DEF SyncTypes, ProcTypes
    <3>2. mine \in Dated
      BY <3>1, ServersAssumption DEF Processes, Dated, Provenances
    <3> QED
      BY <3>2 DEF DatedOrigins
  <2>3. ps' = [ps EXCEPT ![n] = s] /\ (net' = net \/ net' = Published(net, n, s))
    BY <1>1 DEF ProjectAs
  <2> HIDE DEF p
  <2>4. s \in DatedStates /\ s.prov = p
    BY <2>2 DEF SyncTypes, Engines, DatedStates
  <2> HIDE DEF s
  <2>5. PsIn(S)'
    BY <2>1, <2>3, <2>4 DEF AllIn, PsIn, SyncTypes
  <2>6. Within(net, S) /\ net \in [Links -> Seq(DatedStates)]
    BY DEF AllIn, WireIn, Within, SyncTypes, WireTypes
  <2>7. Within(Published(net, n, s), S)
    BY <2>1, <2>4, <2>6, PublishedIn
  <2>8. Within(net', S)
    BY <2>3, <2>6, <2>7, Zenon
  <2> QED
    BY <2>5, <2>8 DEF WireIn, Within
<1>2. CASE HandleEvent(n)
  <2>1. events[n] \in Seq(DatedOrigins) /\ events[n] # <<>> /\ events' = [events EXCEPT ![n] = Tail(events[n])]
    BY <1>2 DEF HandleEvent, SyncTypes, QueueTypes
  <2>2. /\ Head(events[n]) \in DatedOrigins /\ 1 \in DOMAIN events[n] /\ Head(events[n]) = events[n][1]
        /\ \A i \in DOMAIN Tail(events[n]) : i + 1 \in DOMAIN events[n] /\ Tail(events[n])[i] = events[n][i + 1]
    BY <2>1
  <2>3. EventsIn(S)'
    BY <2>1, <2>2 DEF EventsIn, AllIn, SyncTypes, QueueTypes
  <2>4. Stamp(Head(events[n]).prov) \in S
    BY <2>2 DEF EventsIn, AllIn
  <2>5. PsIn(S)' /\ WireIn(S)'
    BY <1>1, <1>2, <2>2, <2>4 DEF HandleEvent
  <2> QED
    BY <1>2, <2>3, <2>5 DEF HandleEvent, AllIn, ApplyIn, EngineIn, LateIn, CursorIn
<1>3. CASE Reconcile(n)
  <2>1. PsIn(S)' /\ WireIn(S)'
    BY <1>1, <1>3, OriginTypes DEF Reconcile, AllIn, EngineIn
  <2> QED
    BY <1>3, <2>1 DEF Reconcile, AllIn, ApplyIn, EngineIn, EventsIn, LateIn, CursorIn
<1> QED
  BY <1>2, <1>3

LEMMA EnginesFlow ==
  ASSUME SyncTypes, NEW S, AllIn(S), NoStamp \in S, NEW n \in Servers,
         \/ \E t \in Tracks, p \in BOOLEAN : Steer(n, t, p) \/ Skip(n, t, p)
         \/ Checkpoint(n) \/ Load(n) \/ ResumeOrPause(n) \/ Record(n) \/ GiveUp(n)
  PROVE  AllIn(S)'
<1>1. PsIn(S)' /\ LateIn(S)' /\ WireIn(S)'
  BY DEF Steer, Skip, Checkpoint, Load, ResumeOrPause, Record, GiveUp, wire, AllIn, PsIn, LateIn, WireIn
<1>2. Stamp(Origin(n).prov) \in S
  BY DEF Origin, AllIn, ApplyIn
<1>3. ApplyIn(S)'
  <2>1. \/ applying' = applying \/ Release(n) \/ \E pc \in {"play", "volume"} : Goto(n, pc)
    BY DEF Steer, Skip, Checkpoint, Load, ResumeOrPause, Record, GiveUp
  <2> QED
    BY <2>1, BlankStamps DEF Release, Goto, AllIn, ApplyIn, SyncTypes, Applications
<1> DEFINE emits == events' = events \/ Emit(n, Origin(n)) \/ Emit(n, LocalOrigin) \/ Emit(n, engine[n].origin)
           turns == /\ \A m \in Servers : m # n => engine'[m] = engine[m]
                    /\ engine'[n].origin \in {engine[n].origin, LocalOrigin, Origin(n)}
<1>4. emits /\ turns
  <2>1. engine[n] \in Engines /\ engine \in [Servers -> Engines]
    BY OriginTypes DEF SyncTypes
  <2>2. ASSUME NEW t \in Tracks, NEW p \in BOOLEAN, Steer(n, t, p) PROVE emits /\ turns
    BY <2>1, <2>2 DEF Steer, Engine
  <2>3. ASSUME NEW t \in Tracks, NEW p \in BOOLEAN, Skip(n, t, p) PROVE emits /\ turns
    <3> DEFINE e == [engine[n] EXCEPT !.track = t, !.playing = p]
    <3>1. e.origin = engine[n].origin
      BY <2>1 DEF Engines
    <3>2. engine' = [engine EXCEPT ![n] = e] /\ Emit(n, LocalOrigin)
      BY <2>3 DEF Skip, Engine
    <3> HIDE DEF e
    <3> QED
      BY <2>1, <3>1, <3>2
  <2>4. CASE Checkpoint(n) \/ Record(n)
    BY <2>4 DEF Checkpoint, Record
  <2>5. CASE Load(n)
    BY <2>1, <2>5 DEF Load, Engine, Engines
  <2>6. CASE ResumeOrPause(n)
    BY <2>1, <2>6 DEF ResumeOrPause, Engine, Engines
  <2>7. CASE GiveUp(n)
    BY <2>1, <2>7 DEF GiveUp, Engines
  <2> QED
    BY <2>2, <2>3, <2>4, <2>5, <2>6, <2>7
<1>5. EngineIn(S)'
  BY <1>2, <1>4, BlankStamps DEF AllIn, EngineIn
<1>6. EventsIn(S)'
  <2>1. EventsIn(S) /\ Stamp(engine[n].origin.prov) \in S /\ Stamp(LocalOrigin.prov) \in S
    BY BlankStamps DEF AllIn, EngineIn
  <2>2. Origin(n) \in DatedOrigins /\ engine[n].origin \in DatedOrigins /\ LocalOrigin \in DatedOrigins
    BY OriginTypes, BlankTypes
  <2>3. CASE events' = events
    BY <2>1, <2>3 DEF EventsIn
  <2> QED
    BY <1>2, <1>4, <2>1, <2>2, <2>3, EmitIn
<1>7. CursorIn(S)'
  <2>1. CASE cursor' = cursor
    BY <2>1 DEF AllIn, CursorIn
  <2>2. CASE cursor' # cursor
    <3> DEFINE p == applying[n].state.prov
               c == [epoch |-> p.epoch, boot |-> p.boot, seq |-> p.seq]
    <3>1. cursor' = [cursor EXCEPT ![n][p.dev] = c] /\ p \in Provenances
      BY <2>2, OriginTypes DEF Steer, Skip, Checkpoint, Load, ResumeOrPause, Record, GiveUp, DatedStates, Dated
    <3>2. Mark(p.dev, c) \in S
      BY <1>2, <3>1 DEF Mark, Stamp, Origin
    <3> HIDE DEF p, c
    <3>3. ASSUME NEW a \in Servers, NEW b \in Servers
          PROVE  cursor'[a][b] = cursor[a][b] \/ (b = p.dev /\ cursor'[a][b] = c)
      BY <3>1 DEF SyncTypes
    <3> QED
      BY <3>2, <3>3 DEF AllIn, CursorIn
  <2> QED
    BY <2>1, <2>2
<1> QED
  BY <1>1, <1>3, <1>5, <1>6, <1>7 DEF AllIn

LEMMA ConsiderFlow ==
  ASSUME SyncTypes, NEW S, AllIn(S), NEW n \in Servers, NEW s \in DatedStates, NEW d, Stamp(s.prov) \in S,
         NEW q \in [Links -> Seq(DatedStates)], Within(q, S), Consider(n, s, d, q)
  PROVE  ApplyIn(S)' /\ Within(net', S)
<1>1. net' = q \/ net' = Published(q, n, ps[n])
  BY DEF Consider
<1>2. ps[n] \in DatedStates /\ Stamp(ps[n].prov) \in S
  BY DEF SyncTypes, AllIn, PsIn
<1>3. Within(Published(q, n, ps[n]), S)
  BY <1>2, PublishedIn
<1>4. applying' = applying \/ applying' = [applying EXCEPT ![n] = [pc |-> "load", state |-> s, dial |-> d]]
  BY DEF Consider
<1>5. ApplyIn(S)'
  BY <1>4 DEF AllIn, ApplyIn, SyncTypes
<1> QED
  BY <1>1, <1>3, <1>5, Zenon

LEMMA SeverFlow ==
  ASSUME SyncTypes, NEW S, AllIn(S), NoStamp \in S, NEW ds, NEW readers,
         NEW q \in [Servers -> Seq(Letters)], NEW a \in [Servers -> Applications],
         \A n \in Servers : \A i \in DOMAIN q[n] : Stamp(q[n][i].state.prov) \in S,
         \A n \in Servers : Stamp(a[n].state.prov) \in S,
         Sever(ds, readers, q, a)
  PROVE  ApplyIn(S)' /\ WireIn(S)' /\ LateIn(S)'
<1>1. PICK kept \in {{}} \cup {{l} : l \in {k \in Links :
                  /\ k[1] \in ds /\ To(k) \in readers
                  /\ InOrder(k) /\ ~Covered(k, Head(net[k]))}},
           cut \in SUBSET {n \in Servers : a[n].dial \in ds} :
       /\ conn' = [d \in Dials |-> conn[d] /\ d \notin ds]
       /\ net' = [l \in Links |-> IF l[1] \in ds THEN <<>> ELSE net[l]]
       /\ late' = [n \in Servers |->
                     IF \A l \in kept : To(l) # n THEN q[n]
                     ELSE LET l == CHOOSE l \in kept : TRUE IN
                          Append(q[n], [dial |-> l[1], state |-> Head(net[l])])]
       /\ applying' = [n \in Servers |-> IF n \in cut THEN NotApplying ELSE a[n]]
       /\ UNCHANGED sent
  BY DEF Sever
<1>2. ApplyIn(S)'
  BY <1>1, BlankStamps DEF ApplyIn
<1>3. WireIn(S)'
  BY <1>1 DEF AllIn, WireIn
<1>4. ASSUME NEW n \in Servers PROVE \A i \in DOMAIN late'[n] : Stamp(late'[n][i].state.prov) \in S
  <2>1. CASE \A l \in kept : To(l) # n
    BY <2>1, <1>1
  <2>2. CASE ~ \A l \in kept : To(l) # n
    <3>1. PICK l \in Links : kept = {l} /\ InOrder(l)
      BY <2>2
    <3>2. (CHOOSE k \in kept : TRUE) = l
      BY <3>1
    <3> DEFINE x == [dial |-> l[1], state |-> Head(net[l])]
    <3>3. late'[n] = Append(q[n], x)
      BY <1>1, <2>2, <3>2
    <3>4. net[l] \in Seq(DatedStates) /\ net[l] # <<>>
      BY <3>1 DEF InOrder, SyncTypes, WireTypes
    <3>5. Head(net[l]) = net[l][1] /\ 1 \in DOMAIN net[l]
      BY <3>4
    <3>6. Stamp(x.state.prov) \in S
      BY <3>5 DEF AllIn, WireIn
    <3> HIDE DEF x
    <3>7. q[n] \in Seq(Letters)
      OBVIOUS
    <3>8. \A i \in DOMAIN Append(q[n], x) :
             (i \in DOMAIN q[n] /\ Append(q[n], x)[i] = q[n][i]) \/ Append(q[n], x)[i] = x
      BY <3>7
    <3> QED
      BY <3>3, <3>6, <3>8
  <2> QED
    BY <2>1, <2>2
<1> QED
  BY <1>2, <1>3, <1>4 DEF LateIn

LEMMA LinksFlow ==
  ASSUME SyncTypes, NEW S, AllIn(S), NoStamp \in S,
         \/ \E d \in Dials : Connect(d) \/ Disconnect(d)
         \/ \E l \in Links : Receive(l)
         \/ \E n \in Servers : ReceiveLate(n)
  PROVE  AllIn(S)'
<1>1. ASSUME NEW d \in Dials, Connect(d) PROVE AllIn(S)'
  <2>1. d[2] \in Servers /\ Stamp(ps[d[2]].prov) \in S
    BY DialsAssumption DEF AllIn, PsIn
  <2>2. net' = [net EXCEPT ![<<d, "greet">>] = <<ps[d[2]]>>]
    BY <1>1 DEF Connect
  <2>3. WireIn(S)'
    <3> SUFFICES ASSUME NEW l \in Links, NEW i \in DOMAIN net'[l] PROVE Stamp(net'[l][i].prov) \in S
      BY DEF WireIn
    <3>1. CASE net'[l] = net[l]
      BY <3>1 DEF AllIn, WireIn
    <3>2. CASE net'[l] = <<ps[d[2]]>>
      BY <2>1, <3>2
    <3> QED
      BY <2>2, <3>1, <3>2 DEF SyncTypes, WireTypes
  <2> QED
    BY <1>1, <2>3 DEF Connect, server, AllIn, PsIn, ApplyIn, EngineIn, EventsIn, LateIn, CursorIn
<1>2. ASSUME NEW d \in Dials, Disconnect(d) PROVE AllIn(S)'
  <2>1. late \in [Servers -> Seq(Letters)] /\ applying \in [Servers -> Applications]
    BY DEF SyncTypes, WireTypes
  <2>2. \A n \in Servers : \A i \in DOMAIN late[n] : Stamp(late[n][i].state.prov) \in S
    BY DEF AllIn, LateIn
  <2>3. \A n \in Servers : Stamp(applying[n].state.prov) \in S
    BY DEF AllIn, ApplyIn
  <2>4. Sever({d}, {d[2]}, late, applying)
    BY <1>2 DEF Disconnect
  <2>5. ApplyIn(S)' /\ WireIn(S)' /\ LateIn(S)'
    BY <2>1, <2>2, <2>3, <2>4, SeverFlow
  <2> QED
    BY <1>2, <2>5 DEF Disconnect, AllIn, PsIn, EngineIn, EventsIn, CursorIn
<1>3. Within(net, S)
  BY DEF AllIn, WireIn, Within
<1>4. ASSUME NEW l \in Links, Receive(l) PROVE AllIn(S)'
  <2> DEFINE s == Head(net[l])
             q == [net EXCEPT ![l] = Tail(@)]
  <2>1. net[l] \in Seq(DatedStates) /\ net[l] # <<>>
    BY <1>4 DEF Receive, InOrder, SyncTypes, WireTypes
  <2>2. s \in DatedStates /\ Tail(net[l]) \in Seq(DatedStates) /\ s = net[l][1] /\ 1 \in DOMAIN net[l]
        /\ \A i \in DOMAIN Tail(net[l]) : i + 1 \in DOMAIN net[l] /\ Tail(net[l])[i] = net[l][i + 1]
    BY <2>1
  <2>3. q \in [Links -> Seq(DatedStates)]
    BY <2>2 DEF SyncTypes, WireTypes
  <2>4. Within(q, S)
    <3> SUFFICES ASSUME NEW k \in Links, NEW i \in DOMAIN q[k] PROVE Stamp(q[k][i].prov) \in S
      BY DEF Within
    <3>1. q[k] = (IF k = l THEN Tail(net[l]) ELSE net[k])
      BY DEF SyncTypes, WireTypes
    <3> HIDE DEF q
    <3> QED
      BY <1>3, <2>2, <3>1 DEF Within
  <2>5. Stamp(s.prov) \in S
    BY <1>3, <2>2 DEF Within
  <2>6. (net' = q /\ UNCHANGED applying) \/ Consider(To(l), s, l[1], q)
    BY <1>4 DEF Receive
  <2> HIDE DEF s, q
  <2>7. ApplyIn(S)' /\ Within(net', S)
    <3>1. CASE Consider(To(l), s, l[1], q)
      BY <2>2, <2>3, <2>4, <2>5, <3>1, LinkEnds, ConsiderFlow
    <3>2. CASE net' = q /\ UNCHANGED applying
      BY <2>4, <3>2 DEF AllIn, ApplyIn
    <3> QED
      BY <2>6, <3>1, <3>2
  <2> QED
    BY <1>4, <2>7 DEF Receive, Within, AllIn, PsIn, EngineIn, EventsIn, LateIn, CursorIn, WireIn
<1>5. ASSUME NEW n \in Servers, ReceiveLate(n) PROVE AllIn(S)'
  <2> DEFINE x == Head(late[n])
  <2>1. late[n] \in Seq(Letters) /\ late[n] # <<>>
    BY <1>5 DEF ReceiveLate, SyncTypes, WireTypes
  <2>2. x \in Letters /\ x = late[n][1] /\ 1 \in DOMAIN late[n]
        /\ \A i \in DOMAIN Tail(late[n]) : i + 1 \in DOMAIN late[n] /\ Tail(late[n])[i] = late[n][i + 1]
    BY <2>1
  <2>3. Consider(n, x.state, x.dial, net) /\ late' = [late EXCEPT ![n] = Tail(late[n])]
    BY <1>5 DEF ReceiveLate
  <2> HIDE DEF x
  <2>4. x.state \in DatedStates /\ Stamp(x.state.prov) \in S
    BY <2>2 DEF Letters, AllIn, LateIn
  <2>5. ApplyIn(S)' /\ Within(net', S)
    <3>1. net \in [Links -> Seq(DatedStates)]
      BY DEF SyncTypes, WireTypes
    <3> QED
      BY <1>3, <2>3, <2>4, <3>1, ConsiderFlow
  <2>6. LateIn(S)'
    BY <2>2, <2>3 DEF AllIn, LateIn, SyncTypes, WireTypes
  <2> QED
    BY <1>5, <2>5, <2>6 DEF ReceiveLate, Within, AllIn, PsIn, EngineIn, EventsIn, CursorIn, WireIn
<1> QED
  BY <1>1, <1>2, <1>4, <1>5

LEMMA RestartFlow ==
  ASSUME SyncTypes, NEW S, AllIn(S), NoStamp \in S, NEW n \in Servers, NEW clean, Restart(n, clean)
  PROVE  AllIn(S)'
<1> DEFINE q == [late EXCEPT ![n] = <<>>]
           a == [applying EXCEPT ![n] = NotApplying]
<1>1. q \in [Servers -> Seq(Letters)] /\ a \in [Servers -> Applications]
  BY BlankTypes DEF SyncTypes, WireTypes
<1>2. \A m \in Servers : \A i \in DOMAIN q[m] : Stamp(q[m][i].state.prov) \in S
  BY DEF AllIn, LateIn, SyncTypes, WireTypes
<1>3. \A m \in Servers : Stamp(a[m].state.prov) \in S
  BY BlankStamps DEF AllIn, ApplyIn, SyncTypes
<1>4. Sever({d \in Dials : conn[d] /\ n \in {d[1], d[2]}}, Servers \ {n}, q, a)
  BY DEF Restart
<1> HIDE DEF q, a
<1>5. ApplyIn(S)' /\ WireIn(S)' /\ LateIn(S)'
  BY <1>1, <1>2, <1>3, <1>4, SeverFlow
<1>6. PsIn(S)' /\ EngineIn(S)'
  BY BlankStamps DEF Restart, AllIn, PsIn, EngineIn, SyncTypes
<1>7. EventsIn(S)'
  BY DEF Restart, AllIn, EventsIn, SyncTypes, QueueTypes
<1>8. CursorIn(S)'
  BY BlankStamps DEF Restart, AllIn, CursorIn, SyncTypes
<1> QED
  BY <1>5, <1>6, <1>7, <1>8 DEF AllIn

LEMMA InitsFlow ==
  ASSUME NEW S, AllIn(S), NEW n, NEW i, InitEpoch(n, i) \/ InitLoad(n, i) \/ InitStore(n, i)
  PROVE  AllIn(S)'
  BY DEF InitEpoch, InitLoad, InitStore, wire,
         AllIn, PsIn, ApplyIn, EngineIn, EventsIn, LateIn, CursorIn, WireIn

\* But for restarts and starts, time is what a projection and an observation
\* make it: the sequence and the Lamport clock grow, once the start has ended.
Ticks == /\ now' = now /\ db' = db
         /\ \A m \in Servers :
               /\ proc'[m].boot = proc[m].boot /\ proc'[m].epoch = proc[m].epoch
               /\ proc'[m].init = proc[m].init
               /\ proc'[m].seq >= proc[m].seq /\ proc'[m].lamport >= proc[m].lamport
               /\ ~Ready(m) => proc'[m].seq = proc[m].seq /\ proc'[m].lamport = proc[m].lamport

LEMMA StandStill == ASSUME SyncTypes, UNCHANGED <<now, db, proc>> PROVE Ticks
  BY DEF Ticks, SyncTypes, ProcTypes, Processes

LEMMA ConsiderTicks ==
  ASSUME SyncTypes, NEW n \in Servers, NEW s \in DatedStates, NEW d, NEW q, Consider(n, s, d, q),
         UNCHANGED <<now, db>>
  PROVE  Ticks
<1> DEFINE clock == Observed(proc[n].lamport, s.prov.lamport)
<1>1. proc[n].lamport \in Nat /\ s.prov.lamport \in Nat
  BY DEF SyncTypes, ProcTypes, Processes, DatedStates, Dated, Provenances
<1>2. clock >= proc[n].lamport
  BY <1>1 DEF Observed, Larger
<1>3. proc' = proc \/ proc' = [proc EXCEPT ![n].lamport = clock]
  BY DEF Consider
<1>4. Ready(n)
  BY DEF Consider
<1> HIDE DEF clock
<1>5. proc[n] \in Processes /\ proc \in [Servers -> Processes]
  BY DEF SyncTypes, ProcTypes
<1>6. CASE proc' = [proc EXCEPT ![n].lamport = clock]
  <2>1. \A m \in Servers : m # n => proc'[m] = proc[m]
    BY <1>6, <1>5
  <2>2. /\ proc'[n].boot = proc[n].boot /\ proc'[n].epoch = proc[n].epoch /\ proc'[n].init = proc[n].init
        /\ proc'[n].seq = proc[n].seq /\ proc'[n].lamport = clock
    BY <1>6, <1>5 DEF Processes
  <2>3. \A m \in Servers : proc[m].seq \in Nat /\ proc[m].lamport \in Nat
    BY <1>5 DEF Processes
  <2> QED
    BY <1>2, <1>4, <2>1, <2>2, <2>3 DEF Ticks
<1> QED
  BY <1>3, <1>6, StandStill

LEMMA LinksTick ==
  ASSUME SyncTypes,
         \/ \E d \in Dials : Connect(d) \/ Disconnect(d)
         \/ \E l \in Links : Receive(l)
         \/ \E n \in Servers : ReceiveLate(n)
  PROVE  Ticks
<1>1. ASSUME NEW d \in Dials, Connect(d) \/ Disconnect(d) PROVE Ticks
  BY <1>1, StandStill DEF Connect, Disconnect, server
<1>2. ASSUME NEW l \in Links, Receive(l) PROVE Ticks
  <2> DEFINE s == Head(net[l])
             q == [net EXCEPT ![l] = Tail(@)]
  <2>1. net[l] \in Seq(DatedStates) /\ net[l] # <<>>
    BY <1>2 DEF Receive, InOrder, SyncTypes, WireTypes
  <2>2. s \in DatedStates
    BY <2>1
  <2>3. (UNCHANGED proc \/ Consider(To(l), s, l[1], q)) /\ UNCHANGED <<now, db>>
    BY <1>2 DEF Receive
  <2> HIDE DEF s, q
  <2> QED
    BY <2>2, <2>3, StandStill, ConsiderTicks, LinkEnds
<1>3. ASSUME NEW n \in Servers, ReceiveLate(n) PROVE Ticks
  <2> DEFINE x == Head(late[n])
  <2>1. late[n] \in Seq(Letters) /\ late[n] # <<>>
    BY <1>3 DEF ReceiveLate, SyncTypes, WireTypes
  <2>2. x \in Letters
    BY <2>1
  <2>3. Consider(n, x.state, x.dial, net) /\ UNCHANGED <<now, db>>
    BY <1>3 DEF ReceiveLate
  <2> HIDE DEF x
  <2>4. x.state \in DatedStates
    BY <2>2 DEF Letters
  <2> QED
    BY <2>3, <2>4, ConsiderTicks
<1> QED
  BY <1>1, <1>2, <1>3

LEMMA EnginesTick ==
  ASSUME SyncTypes, NEW n \in Servers,
         \/ \E t \in Tracks, p \in BOOLEAN : Steer(n, t, p) \/ Skip(n, t, p)
         \/ Checkpoint(n) \/ Load(n) \/ ResumeOrPause(n) \/ Record(n) \/ GiveUp(n)
  PROVE  Ticks
  BY StandStill DEF Steer, Skip, Checkpoint, Load, ResumeOrPause, Record, GiveUp

\* Nothing is projected before the start has ended.
LEMMA ProjectionTicks ==
  ASSUME StampInv, NEW n \in Servers, HandleEvent(n) \/ Reconcile(n)
  PROVE  /\ Ticks /\ Ready(n)
         /\ \A m \in Servers : m # n => proc'[m] = proc[m]
         /\ proc'[n].seq \in {proc[n].seq, proc[n].seq + 1}
<1>1. Ready(n)
  BY DEF StampInv, StartOK, HandleEvent, Reconcile
<1>2. \/ proc' = proc
      \/ proc' = [proc EXCEPT ![n].seq = proc[n].seq + 1, ![n].lamport = proc[n].lamport + 1]
  BY DEF HandleEvent, Reconcile, ProjectAs
<1>3. UNCHANGED <<now, db>> /\ SyncTypes /\ proc[n] \in Processes /\ proc \in [Servers -> Processes]
  BY DEF HandleEvent, Reconcile, StampInv, SyncTypes, ProcTypes
<1>4. CASE proc' = proc
  BY <1>1, <1>3, <1>4, StandStill
<1>5. CASE proc' = [proc EXCEPT ![n].seq = proc[n].seq + 1, ![n].lamport = proc[n].lamport + 1]
  BY <1>1, <1>3, <1>5 DEF Ticks, Processes
<1> QED
  BY <1>2, <1>4, <1>5

\* What is left to show of the stamps when few are new.
LEMMA StampsLeft ==
  ASSUME StampsOK, NEW S, AllIn(S)', \A s \in S : s.dev = 0 \/ s \in Carried,
         \A s \in Carried : StampOK(s)'
  PROVE  StampsOK'
<1>1. Carried' \subseteq S
  BY CarriedLands
<1>2. ASSUME NEW s \in Carried' PROVE StampOK(s)'
  BY <1>1, <1>2 DEF StampOK
<1>3. ASSUME NEW a \in Carried', NEW b \in Carried' PROVE Ordered(a, b)
  BY <1>1, <1>3 DEF StampsOK, Ordered
<1> HIDE DEF Carried
<1> QED
  BY <1>2, <1>3 DEF StampsOK

\* The sort of what is stamped.
LEMMA StampFacts ==
  ASSUME StampInv, NEW s \in Carried, s.dev # 0
  PROVE  /\ s.dev \in Servers /\ s.epoch \in Nat /\ s.boot \in Nat /\ s.seq \in Nat
         /\ StampOK(s)
<1> DEFINE Sorts == [dev : Servers \cup {0}, epoch : Nat, boot : Nat, seq : Nat]
<1>1. \A p \in Provenances : Stamp(p) \in Sorts
  BY DEF Stamp, Provenances
<1>2. \A p \in Dated : Stamp(p) \in Sorts
  BY <1>1 DEF Dated
<1>3. NoStamp \in Sorts /\ \A m \in Servers, c \in Cursors : Mark(m, c) \in Sorts
  BY DEF NoStamp, Mark, Cursors
<1> HIDE DEF Sorts
<1>4. \A n \in Servers : Stamps(n) \subseteq Sorts
  <2> SUFFICES ASSUME NEW n \in Servers PROVE Stamps(n) \subseteq Sorts
    OBVIOUS
  <2>1. /\ ps[n] \in DatedStates /\ applying[n].state \in DatedStates /\ engine[n].origin \in DatedOrigins
        /\ \A i \in DOMAIN events[n] : events[n][i] \in DatedOrigins
        /\ \A i \in DOMAIN late[n] : late[n][i].state \in DatedStates
        /\ \A m \in Servers : cursor[n][m] \in Cursors
    <3>1. events[n] \in Seq(DatedOrigins) /\ late[n] \in Seq(Letters)
      BY DEF StampInv, SyncTypes, QueueTypes, WireTypes
    <3>2. \A i \in DOMAIN events[n] : events[n][i] \in DatedOrigins
      BY <3>1
    <3>3. \A i \in DOMAIN late[n] : late[n][i] \in Letters
      BY <3>1
    <3> QED
      BY <3>2, <3>3, OriginTypes DEF StampInv, SyncTypes, Letters
  <2>2. \A x \in DatedStates : x.prov \in Dated
    BY DEF DatedStates
  <2>3. \A x \in DatedOrigins : x.prov \in Dated
    BY DEF DatedOrigins
  <2> QED
    BY <1>2, <1>3, <2>1, <2>2, <2>3 DEF Stamps
<1>5. \A l \in Links : OnWire(l) \subseteq Sorts
  <2> SUFFICES ASSUME NEW l \in Links PROVE OnWire(l) \subseteq Sorts
    OBVIOUS
  <2>1. net[l] \in Seq(DatedStates)
    BY DEF StampInv, SyncTypes, WireTypes
  <2>2. \A i \in DOMAIN net[l] : net[l][i].prov \in Dated
    <3>1. \A i \in DOMAIN net[l] : net[l][i] \in DatedStates
      BY <2>1
    <3> QED
      BY <3>1 DEF DatedStates
  <2> QED
    BY <1>2, <2>2 DEF OnWire
<1>6. s \in Sorts
  BY <1>4, <1>5 DEF Carried
<1> QED
  BY <1>6 DEF StampInv, StampsOK, Sorts

LEMMA TicksKeepStamps ==
  ASSUME StampInv, SyncTypes', Ticks, NEW s \in Carried
  PROVE  StampOK(s)'
<1>1. CASE s.dev = 0
  BY <1>1 DEF StampOK
<1>2. CASE s.dev # 0
  <2>1. /\ s.dev \in Servers /\ s.seq \in Nat /\ StampOK(s) /\ proc[s.dev].seq \in Nat
    BY <1>2, StampFacts DEF StampInv, SyncTypes, ProcTypes, Processes
  <2>2. proc'[s.dev].seq \in Nat
    BY <2>1 DEF SyncTypes, ProcTypes, Processes
  <2>3. InTurn /\ s.boot = proc[s.dev].boot => s.seq <= proc'[s.dev].seq
    BY <1>2, <2>1, <2>2 DEF Ticks, StampOK
  <2>4. /\ Ready(s.dev)' <=> Ready(s.dev)
        /\ Beyond(s.dev, s.epoch)' <=> Beyond(s.dev, s.epoch)
        /\ db'[s.dev] = db[s.dev] /\ proc'[s.dev].boot = proc[s.dev].boot
    BY <2>1 DEF Ticks, Ready, Fresh, Beyond
  <2> QED
    BY <1>2, <2>1, <2>3, <2>4 DEF StampOK
<1> QED
  BY <1>1, <1>2

LEMMA QuietStamps ==
  ASSUME StampInv,
         \/ \E n \in Servers :
              \/ \E t \in Tracks, p \in BOOLEAN : Steer(n, t, p) \/ Skip(n, t, p)
              \/ Checkpoint(n) \/ Load(n) \/ ResumeOrPause(n) \/ Record(n) \/ GiveUp(n)
              \/ ReceiveLate(n)
         \/ \E d \in Dials : Connect(d) \/ Disconnect(d)
         \/ \E l \in Links : Receive(l)
  PROVE  StampsOK' /\ Ticks
<1>0. PICK S : S = Carried \cup {NoStamp}
  OBVIOUS
<1>1. AllIn(S) /\ NoStamp \in S /\ SyncTypes
  BY <1>0, CarriedIsIn DEF StampInv
<1>2. \A s \in S : s.dev = 0 \/ s \in Carried
  BY <1>0 DEF NoStamp
<1>3. AllIn(S)'
  BY <1>1, EnginesFlow, LinksFlow
<1>4. Ticks /\ SyncTypes'
  BY <1>1, EnginesTick, LinksTick, EnginesTyped, LinksTyped
<1>5. \A s \in Carried : StampOK(s)'
  BY <1>4, TicksKeepStamps
<1> QED
  BY <1>2, <1>3, <1>4, <1>5, StampsLeft DEF StampInv

LEMMA ProjectionStamps ==
  ASSUME StampInv, NEW n \in Servers, HandleEvent(n) \/ Reconcile(n)
  PROVE  StampsOK' /\ Ticks
<1>1. /\ Ticks /\ Ready(n) /\ SyncTypes
      /\ proc'[n].seq \in {proc[n].seq, proc[n].seq + 1} /\ SyncTypes'
  BY ProjectionTicks, ProjectionTyped DEF StampInv
<1>2. \A s \in Carried : StampOK(s)'
  BY <1>1, TicksKeepStamps
<1>3. proc[n] \in Processes /\ proc[n].seq \in Nat /\ proc[n].boot \in Nat
  BY DEF StampInv, SyncTypes, ProcTypes, Processes
<1>4. CASE proc'[n].seq = proc[n].seq
  <2>0. PICK S : S = Carried \cup {NoStamp}
    OBVIOUS
  <2>1. AllIn(S) /\ NoStamp \in S
    BY <2>0, CarriedIsIn
  <2>2. \A s \in S : s.dev = 0 \/ s \in Carried
    BY <2>0 DEF NoStamp
  <2>3. AllIn(S)'
    BY <1>1, <1>3, <1>4, <2>1, ProjectionFlow
  <2> QED
    BY <1>1, <1>2, <2>2, <2>3, StampsLeft DEF StampInv
<1>5. CASE proc'[n].seq = proc[n].seq + 1
  <2>0. PICK new : new = NewStamp(n)
    OBVIOUS
  <2>1. PICK S : S = Carried \cup {new}
    OBVIOUS
  <2>2. AllIn(S)'
    <3>1. AllIn(S) /\ NewStamp(n) \in S
      BY <2>0, <2>1, CarriedIsIn
    <3> QED
      BY <1>1, <3>1, ProjectionFlow
  <2>3. Carried' \subseteq Carried \cup {new}
    BY <2>1, <2>2, CarriedLands
  <2>4. /\ new.dev = n /\ new.epoch = proc[n].epoch /\ new.boot = proc[n].boot
        /\ new.seq = proc[n].seq + 1 /\ n # 0
    BY <2>0, ServersAssumption DEF NewStamp
  <2>5. /\ proc[n].epoch > 0 /\ proc[n].epoch <= db[n].epoch /\ (InTurn => proc[n].epoch = db[n].epoch)
        /\ db[n].epoch \in Nat /\ proc[n].epoch \in Nat
        /\ \A e : Beyond(n, e) => e < proc[n].epoch
    <3>1. StartOK(n) /\ proc[n].init["bootstrap"].pc = "done" /\ "bootstrap" \in Inits
      BY <1>1 DEF StampInv, Ready, Inits
    <3>2. ~Fresh(n) /\ \A e : Beyond(n, e) => e < proc[n].epoch
      BY <3>1 DEF Fresh, Beyond
    <3>3. db[n].epoch \in Nat /\ proc[n].epoch \in Nat
      BY <1>3 DEF StampInv, SyncTypes, ProcTypes, Processes
    <3> QED
      BY <3>1, <3>2, <3>3 DEF StartOK, StartInTurn
  <2>6. StampOK(new)'
    <3>1. /\ Ready(n)' /\ db'[n] = db[n] /\ proc'[n].boot = proc[n].boot
      BY <1>1 DEF Ticks, Ready
    <3> QED
      BY <1>3, <1>5, <2>4, <2>5, <3>1 DEF StampOK
  <2>7. ASSUME NEW s \in Carried PROVE Ordered(s, new) /\ Ordered(new, s)
    <3>1. CASE s.dev # n
      BY <2>4, <3>1 DEF Ordered
    <3>2. CASE s.dev = n
      <4>1. s.boot \in Nat /\ s.boot <= proc[n].boot /\ (s.boot < proc[n].boot => Beyond(n, s.epoch))
        BY <2>4, <3>2, StampFacts DEF StampOK
      <4> QED
        BY <1>3, <2>4, <2>5, <3>2, <4>1 DEF Ordered
    <3> QED
      BY <3>1, <3>2
  <2>8. Ordered(new, new)
    BY <1>3, <2>4 DEF Ordered
  <2>9. \A s \in Carried' : StampOK(s)'
    BY <1>2, <2>3, <2>6
  <2>10. \A a, b \in Carried' : Ordered(a, b)
    BY <2>3, <2>7, <2>8 DEF StampInv, StampsOK
  <2> HIDE DEF Carried
  <2> QED
    BY <1>1, <2>9, <2>10 DEF StampsOK
<1> QED
  BY <1>1, <1>4, <1>5

\* The next process of a server is beyond all that the earlier ones stamped.
LEMMA RestartStamps ==
  ASSUME StampInv, NEW n \in Servers, NEW clean \in BOOLEAN, Restart(n, clean)
  PROVE  StampsOK'
<1>0. PICK S : S = Carried \cup {NoStamp}
  OBVIOUS
<1>1. AllIn(S) /\ NoStamp \in S /\ SyncTypes
  BY <1>0, CarriedIsIn DEF StampInv
<1>2. \A s \in S : s.dev = 0 \/ s \in Carried
  BY <1>0 DEF NoStamp
<1>3. AllIn(S)'
  BY <1>1, RestartFlow
<1>4. ASSUME NEW s \in Carried PROVE StampOK(s)'
  <2>1. CASE s.dev = 0
    BY <2>1 DEF StampOK
  <2>2. CASE s.dev # 0
    <3>1. s.dev \in Servers /\ s.boot \in Nat /\ StampOK(s)
      BY <2>2, StampFacts
    <3>2. proc \in [Servers -> Processes] /\ db \in [Servers -> [epoch : Nat, lamport : Nat]]
      BY <1>1 DEF SyncTypes, ProcTypes
    <3>3. \A m \in Servers : db'[m].epoch = db[m].epoch
      BY <3>2 DEF Restart
    <3>4. CASE s.dev = n
      <4>1. /\ proc'[n].boot = proc[n].boot + 1 /\ proc[n].boot \in Nat
            /\ \A i \in Inits : proc'[n].init[i].pc = "epoch"
        BY <3>2 DEF Restart, Inits, Processes
      <4>2. Beyond(n, s.epoch)'
        BY <4>1 DEF Beyond, Fresh
      <4> QED
        BY <2>2, <3>1, <3>3, <3>4, <4>1, <4>2 DEF StampOK
    <3>5. CASE s.dev # n
      <4>1. proc'[s.dev] = proc[s.dev]
        BY <3>1, <3>2, <3>5 DEF Restart
      <4> QED
        BY <2>2, <3>1, <3>3, <4>1 DEF StampOK, Ready, Fresh, Beyond
    <3> QED
      BY <3>4, <3>5
  <2> QED
    BY <2>1, <2>2
<1> QED
  BY <1>2, <1>3, <1>4, StampsLeft DEF StampInv

\* Without a straggler the two initializations follow each other.
LEMMA StageOrder ==
  ASSUME StampInv, InTurn, NEW n \in Servers, NEW i \in Inits, NEW pc, Stage(n, i, pc), pc # "done"
  PROVE  /\ ~Ready(n)
         /\ i = "spawned" => proc[n].init["bootstrap"].pc = "epoch"
         /\ i = "bootstrap" => proc[n].init["spawned"].pc = "done"
  BY DEF StampInv, StartOK, StartInTurn, InTurn, Stage, Ready, Inits

\* What a step of an initialization does to the numbers of its process.
LEMMA InitFacts ==
  ASSUME SyncTypes, NEW n \in Servers, NEW i \in Inits,
         InitEpoch(n, i) \/ InitLoad(n, i) \/ InitStore(n, i)
  PROVE  /\ now' = now /\ (\A m \in Servers : m # n => proc'[m] = proc[m] /\ db'[m] = db[m])
         /\ proc'[n].boot = proc[n].boot /\ proc'[n].seq = proc[n].seq
         /\ \A j \in Inits : j # i => proc'[n].init[j] = proc[n].init[j]
         /\ ~Fresh(n)' /\ (Ready(n) => Ready(n)')
         /\ now \in Nat /\ proc[n].epoch \in Nat /\ db[n].epoch \in Nat /\ db'[n].epoch \in Nat
         /\ proc[n].lamport \in Nat
         /\ InitEpoch(n, i) =>
              /\ proc[n].init[i].pc = "epoch" /\ proc'[n].init[i].pc = "load"
              /\ proc'[n].init[i].epoch = db'[n].epoch
              /\ db'[n].epoch >= db[n].epoch + 1 /\ db'[n].epoch >= now
              /\ proc'[n].epoch = proc[n].epoch /\ proc'[n].lamport = proc[n].lamport
         /\ InitLoad(n, i) =>
              /\ proc[n].init[i].pc = "load" /\ proc'[n].init[i].pc = "store"
              /\ proc'[n].epoch = proc[n].init[i].epoch /\ proc[n].init[i].epoch \in Nat
              /\ db'[n].epoch = db[n].epoch
              /\ proc'[n].lamport = proc[n].lamport /\ proc'[n].init[i].lamport >= proc[n].lamport
         /\ InitStore(n, i) =>
              /\ proc[n].init[i].pc = "store" /\ proc'[n].init[i].pc = "done"
              /\ proc'[n].epoch = proc[n].epoch /\ db'[n].epoch = db[n].epoch
              /\ proc'[n].lamport = proc[n].init[i].lamport /\ proc[n].init[i].lamport \in Nat
<1>1. /\ proc[n].epoch \in Nat /\ proc[n].lamport \in Nat /\ db[n].epoch \in Nat /\ db[n].lamport \in Nat
      /\ now \in Nat /\ Reserve \in Nat
      /\ proc[n].init[i].epoch \in Nat /\ proc[n].init[i].lamport \in Nat
  BY BoundsAssumption DEF SyncTypes, ProcTypes, Processes
<1>2. db'[n].epoch \in Nat
  BY InitsTyped DEF SyncTypes, ProcTypes
<1>3. now' = now
  BY DEF InitEpoch, InitLoad, InitStore
<1>4. CASE InitEpoch(n, i)
  <2> DEFINE e == Larger(db[n].epoch + 1, now)
             x == [pc |-> "load", epoch |-> e, lamport |-> 0]
  <2>1. /\ InitMoves(n, i, proc[n].epoch, proc[n].lamport, x)
        /\ db'[n].epoch = e /\ proc[n].init[i].pc = "epoch"
    BY <1>4, InitStep DEF InitEpoch, Stage
  <2>2. e >= db[n].epoch + 1 /\ e >= now /\ x.pc = "load" /\ x.epoch = e
    BY <1>1 DEF Larger
  <2> HIDE DEF x, e
  <2>3. proc'[n].init[i].pc = "load"
    BY <2>1, <2>2 DEF InitMoves
  <2>4. ~Fresh(n)' /\ (Ready(n) => Ready(n)')
    BY <2>1, <2>3 DEF InitMoves, Fresh, Ready, Inits
  <2>5. ~InitLoad(n, i) /\ ~InitStore(n, i)
    BY <2>1 DEF InitLoad, InitStore, Stage
  <2> QED
    BY <1>1, <1>2, <1>3, <2>1, <2>2, <2>3, <2>4, <2>5 DEF InitMoves
<1>5. CASE InitLoad(n, i)
  <2> DEFINE l == Larger(db[n].lamport, proc[n].lamport) + Reserve
             x == [pc |-> "store", epoch |-> 0, lamport |-> l]
  <2>1. /\ InitMoves(n, i, proc[n].init[i].epoch, proc[n].lamport, x)
        /\ db' = db /\ proc[n].init[i].pc = "load"
    BY <1>5, InitStep DEF InitLoad, Stage
  <2>2. l >= proc[n].lamport /\ x.pc = "store" /\ x.lamport = l
    BY <1>1 DEF Larger
  <2> HIDE DEF x, l
  <2>3. proc'[n].init[i].pc = "store"
    BY <2>1, <2>2 DEF InitMoves
  <2>4. ~Fresh(n)' /\ (Ready(n) => Ready(n)')
    BY <2>1, <2>3 DEF InitMoves, Fresh, Ready, Inits
  <2>5. ~InitEpoch(n, i) /\ ~InitStore(n, i)
    BY <2>1 DEF InitEpoch, InitStore, Stage
  <2> QED
    BY <1>1, <1>2, <1>3, <2>1, <2>2, <2>3, <2>4, <2>5 DEF InitMoves
<1>6. CASE InitStore(n, i)
  <2>1. /\ InitMoves(n, i, proc[n].epoch, proc[n].init[i].lamport, Initialized)
        /\ db'[n].epoch = db[n].epoch /\ proc[n].init[i].pc = "store"
    BY <1>6, InitStep DEF InitStore, Stage
  <2>2. proc'[n].init[i].pc = "done"
    BY <2>1 DEF InitMoves, Initialized
  <2>3. ~Fresh(n)' /\ (Ready(n) => Ready(n)')
    BY <2>1, <2>2 DEF InitMoves, Fresh, Ready, Inits
  <2>4. ~InitEpoch(n, i) /\ ~InitLoad(n, i)
    BY <2>1 DEF InitEpoch, InitLoad, Stage
  <2> QED
    BY <1>1, <1>2, <1>3, <2>1, <2>2, <2>3, <2>4 DEF InitMoves
<1> QED
  BY <1>4, <1>5, <1>6

\* The epochs of a start go beyond what was stamped before it, in whatever
\* order the two initializations store them.
LEMMA InitsGoBeyond ==
  ASSUME SyncTypes, NEW n \in Servers, NEW i \in Inits,
         InitEpoch(n, i) \/ InitLoad(n, i) \/ InitStore(n, i),
         NEW e \in Nat, e <= db[n].epoch, Beyond(n, e)
  PROVE  Beyond(n, e)'
<1>1. CASE InitEpoch(n, i)
  <2>1. /\ proc'[n].init[i].pc = "load" /\ proc'[n].init[i].epoch = db'[n].epoch
        /\ db'[n].epoch >= db[n].epoch + 1 /\ proc'[n].epoch = proc[n].epoch
        /\ \A j \in Inits : j # i => proc'[n].init[j] = proc[n].init[j]
        /\ db[n].epoch \in Nat /\ db'[n].epoch \in Nat
    BY <1>1, InitFacts
  <2> QED
    BY <2>1 DEF Beyond
<1>2. CASE InitLoad(n, i)
  <2>1. /\ proc[n].init[i].pc = "load" /\ proc'[n].init[i].pc = "store"
        /\ proc'[n].epoch = proc[n].init[i].epoch /\ db'[n].epoch = db[n].epoch
        /\ \A j \in Inits : j # i => proc'[n].init[j] = proc[n].init[j]
    BY <1>2, InitFacts
  <2>2. ~Fresh(n)
    BY <2>1 DEF Fresh
  <2> QED
    BY <2>1, <2>2 DEF Beyond
<1>3. CASE InitStore(n, i)
  <2>1. /\ proc[n].init[i].pc = "store" /\ proc'[n].init[i].pc = "done"
        /\ proc'[n].epoch = proc[n].epoch /\ db'[n].epoch = db[n].epoch
        /\ \A j \in Inits : j # i => proc'[n].init[j] = proc[n].init[j]
    BY <1>3, InitFacts
  <2>2. ~Fresh(n)
    BY <2>1 DEF Fresh
  <2> QED
    BY <2>1, <2>2 DEF Beyond
<1> QED
  BY <1>1, <1>2, <1>3

LEMMA InitsStamps ==
  ASSUME StampInv, NEW n \in Servers, NEW i \in Inits,
         InitEpoch(n, i) \/ InitLoad(n, i) \/ InitStore(n, i)
  PROVE  StampsOK'
<1>0. PICK S : S = Carried \cup {NoStamp}
  OBVIOUS
<1>1. AllIn(S) /\ NoStamp \in S /\ SyncTypes
  BY <1>0, CarriedIsIn DEF StampInv
<1>2. \A s \in S : s.dev = 0 \/ s \in Carried
  BY <1>0 DEF NoStamp
<1>3. AllIn(S)'
  BY <1>1, InitsFlow
<1>4. ASSUME NEW s \in Carried PROVE StampOK(s)'
  <2>1. CASE s.dev = 0
    BY <2>1 DEF StampOK
  <2>2. CASE s.dev # 0
    <3>1. s.dev \in Servers /\ s.boot \in Nat /\ s.epoch \in Nat /\ StampOK(s)
      BY <2>2, StampFacts
    <3>2. /\ \A m \in Servers : m # n => proc'[m] = proc[m] /\ db'[m] = db[m]
          /\ proc'[n].boot = proc[n].boot /\ (Ready(n) => Ready(n)')
      BY <1>1, InitFacts
    <3>3. CASE s.dev # n
      <4>1. proc'[s.dev] = proc[s.dev] /\ db'[s.dev] = db[s.dev]
        BY <3>1, <3>2, <3>3
      <4> QED
        BY <3>1, <4>1 DEF StampOK, Ready, Fresh, Beyond
    <3>4. CASE s.dev = n
      <4>1. /\ s.epoch > 0 /\ s.boot <= proc[n].boot /\ s.epoch <= db[n].epoch
            /\ s.boot = proc[n].boot => Ready(n)
            /\ s.boot < proc[n].boot => Beyond(n, s.epoch)
        BY <2>2, <3>1, <3>4 DEF StampOK
      <4>2. InTurn => ~Ready(n)
        BY StageOrder DEF InitEpoch, InitLoad, InitStore
      <4>3. db'[n].epoch >= db[n].epoch /\ db'[n].epoch \in Nat /\ db[n].epoch \in Nat
        BY <1>1, InitFacts
      <4>4. s.boot < proc[n].boot => Beyond(n, s.epoch)'
        BY <1>1, <3>1, <4>1, InitsGoBeyond
      <4> QED
        BY <3>1, <3>2, <3>4, <4>1, <4>2, <4>3, <4>4 DEF StampOK
    <3> QED
      BY <3>3, <3>4
  <2> QED
    BY <2>1, <2>2
<1> QED
  BY <1>2, <1>3, <1>4, StampsLeft DEF StampInv

\* What is left to show of a start, and of an application, when time ticks.
Untouched(m) == /\ ~Ready(m) => /\ events'[m] = <<>> /\ ~lagged'[m] /\ ~engine'[m].playing
                                /\ applying'[m].pc = "idle"

LEMMA StartLeft ==
  ASSUME StampInv, SyncTypes', Ticks, NEW m \in Servers, Untouched(m)
  PROVE  StartOK(m)'
<1>1. /\ db' = db /\ now' = now /\ proc'[m].epoch = proc[m].epoch /\ proc'[m].init = proc[m].init
      /\ Ready(m)' <=> Ready(m)
      /\ Fresh(m)' <=> Fresh(m)
      /\ Beyond(m, 0)' <=> Beyond(m, 0)
      /\ ~Ready(m) => proc'[m].seq = proc[m].seq /\ proc'[m].lamport = proc[m].lamport
  BY DEF Ticks, Ready, Fresh, Beyond
<1>2. StartOK(m)
  BY DEF StampInv
<1>3. InTurn => StartInTurn(m)'
  <2>1. InTurn => \A i \in Inits : proc[m].init[i].pc = "store" => ~Ready(m)
    BY <1>2 DEF StartOK, StartInTurn, Ready, Inits
  <2> QED
    BY <1>1, <1>2, <2>1 DEF StartOK, StartInTurn
<1> QED
  BY <1>1, <1>2, <1>3 DEF StartOK, Untouched

LEMMA ApplyLeft ==
  ASSUME StampInv, NEW m \in Servers,
         \/ applying'[m].pc = "idle"
         \/ /\ applying'[m].state = applying[m].state /\ applying[m].pc # "idle"
            /\ cursor'[m] = cursor[m]
         \/ applying'[m] = applying[m] /\ cursor'[m] = cursor[m]
  PROVE  ApplyOK(m)'
  BY DEF ApplyOK, StampInv

\* A step on the engine of one server.
LEMMA EnginesLocal ==
  ASSUME SyncTypes, NEW n \in Servers,
         \/ \E t \in Tracks, p \in BOOLEAN : Steer(n, t, p) \/ Skip(n, t, p)
         \/ Checkpoint(n) \/ Load(n) \/ ResumeOrPause(n) \/ Record(n) \/ GiveUp(n),
         NEW m \in Servers, m # n
  PROVE  /\ events'[m] = events[m] /\ lagged'[m] = lagged[m] /\ engine'[m] = engine[m]
         /\ applying'[m] = applying[m] /\ cursor'[m] = cursor[m]
<1>1. ASSUME NEW o, Emit(n, o) PROVE events'[m] = events[m] /\ lagged'[m] = lagged[m]
  BY <1>1 DEF Emit, SyncTypes, QueueTypes
<1>2. UNCHANGED <<events, lagged>> \/ \E o : Emit(n, o)
  BY DEF Steer, Skip, Checkpoint, Load, ResumeOrPause, Record, GiveUp, Engine
<1>3. UNCHANGED engine \/ \E e : engine' = [engine EXCEPT ![n] = e]
  <2>1. CASE GiveUp(n)
    <3>1. UNCHANGED engine \/ engine' = [engine EXCEPT ![n] = [engine[n] EXCEPT !.origin = Origin(n)]]
      BY <2>1 DEF GiveUp, SyncTypes
    <3> QED
      BY <3>1
  <2> QED
    BY <2>1 DEF Steer, Skip, Checkpoint, Load, ResumeOrPause, Record, Engine
<1>4. UNCHANGED applying \/ \E a : applying' = [applying EXCEPT ![n] = a]
  <2>1. ASSUME NEW pc, Goto(n, pc)
        PROVE  applying' = [applying EXCEPT ![n] = [applying[n] EXCEPT !.pc = pc]]
    BY <2>1 DEF Goto, SyncTypes
  <2>2. UNCHANGED applying \/ Release(n) \/ \E pc : Goto(n, pc)
    BY DEF Steer, Skip, Checkpoint, Load, ResumeOrPause, Record, GiveUp
  <2> QED
    BY <2>1, <2>2 DEF Release
<1>5. cursor'[m] = cursor[m]
  BY DEF Steer, Skip, Checkpoint, Load, ResumeOrPause, Record, GiveUp, SyncTypes
<1> QED
  BY <1>1, <1>2, <1>3, <1>4, <1>5 DEF SyncTypes

LEMMA EnginesKeep ==
  ASSUME StampInv, NEW n \in Servers,
         \/ \E t \in Tracks, p \in BOOLEAN : Steer(n, t, p) \/ Skip(n, t, p)
         \/ Checkpoint(n) \/ Load(n) \/ ResumeOrPause(n) \/ Record(n) \/ GiveUp(n)
  PROVE  StampInv'
<1>1. SyncTypes' /\ StampsOK' /\ Ticks /\ SyncTypes
  BY EnginesTyped, QuietStamps DEF StampInv
<1>2. Ready(n)
  BY DEF StampInv, StartOK, Steer, Skip, Checkpoint, Load, ResumeOrPause, Record, GiveUp
<1>3. ASSUME NEW m \in Servers PROVE StartOK(m)'
  <2>1. Untouched(m)
    <3>1. CASE m = n
      BY <1>2, <3>1 DEF Untouched
    <3>2. CASE m # n
      BY <1>1, <3>2, EnginesLocal DEF Untouched, StampInv, StartOK
    <3> QED
      BY <3>1, <3>2
  <2> QED
    BY <1>1, <2>1, StartLeft
<1>4. ASSUME NEW m \in Servers PROVE ApplyOK(m)'
  <2>1. CASE m # n
    BY <1>1, <2>1, EnginesLocal, ApplyLeft
  <2>2. CASE m = n
    <3>1. \/ applying' = applying /\ cursor' = cursor
          \/ Release(n)
          \/ applying[n].pc # "idle" /\ cursor' = cursor /\ \E pc \in {"play", "volume"} : Goto(n, pc)
      BY DEF Steer, Skip, Checkpoint, Load, ResumeOrPause, Record, GiveUp
    <3>2. CASE Release(n)
      BY <1>1, <2>2, <3>2, ApplyLeft DEF Release, NotApplying, SyncTypes
    <3>3. ASSUME NEW pc, Goto(n, pc) PROVE applying'[n].state = applying[n].state
      BY <1>1, <3>3 DEF Goto, SyncTypes, Applications
    <3> QED
      BY <2>2, <3>1, <3>2, <3>3, ApplyLeft
  <2> QED
    BY <2>1, <2>2
<1> QED
  BY <1>1, <1>3, <1>4 DEF StampInv

\* A state is accepted if it is newer than what was applied of its device:
\* within one epoch of a device there is one boot.
LEMMA AcceptedIsNewer ==
  ASSUME StampInv, NEW n \in Servers, NEW p \in Dated, Stamp(p) \in Carried, p.dev # 0, ~IsOld(n, p)
  PROVE  Newer(p, cursor[n][p.dev])
<1> DEFINE c == cursor[n][p.dev]
           k == Mark(p.dev, c)
<1>1. /\ p.dev \in Servers /\ p.epoch \in Nat /\ p.boot \in Nat /\ p.seq \in Nat
  BY DEF Dated, Provenances
<1>2. c \in Cursors
  BY <1>1 DEF StampInv, SyncTypes
<1>3. p.epoch > 0
  <2>1. StampOK(Stamp(p))
    BY DEF StampInv, StampsOK
  <2> QED
    BY <2>1 DEF StampOK, Stamp
<1>4. CASE c = NoCursor
  BY <1>1, <1>3, <1>4 DEF NoCursor, Newer
<1>5. CASE c # NoCursor
  <2>1. k \in Carried
    <3>1. AllIn(Carried)
      BY CarriedIsIn
    <3> QED
      BY <1>1, <3>1 DEF AllIn, CursorIn
  <2>2. k.dev = p.dev /\ k.epoch = c.epoch /\ k.boot = c.boot /\ k.seq = c.seq
    BY <1>5 DEF Mark
  <2>3. Ordered(Stamp(p), k) /\ Ordered(k, Stamp(p))
    BY <2>1 DEF StampInv, StampsOK
  <2>4. c.epoch \in Nat /\ c.boot \in Nat /\ c.seq \in Nat
    BY <1>2 DEF Cursors
  <2>5. p.epoch = c.epoch => p.boot = c.boot
    <3> HIDE DEF k, c
    <3> QED
      BY <1>1, <2>2, <2>3, <2>4 DEF Ordered, Stamp
  <2>6. ~(p.epoch < c.epoch \/ (p.epoch = c.epoch /\ p.boot = c.boot /\ p.seq <= c.seq))
    BY <1>5 DEF IsOld, IsStale
  <2> HIDE DEF c
  <2> QED
    BY <1>1, <2>4, <2>5, <2>6 DEF Newer, c
<1> QED
  BY <1>4, <1>5

LEMMA ConsiderKeeps ==
  ASSUME StampInv, NEW n \in Servers, NEW s \in DatedStates, NEW d, NEW q, Stamp(s.prov) \in Carried,
         Consider(n, s, d, q), UNCHANGED <<engine, events, lagged, cursor>>, NEW m \in Servers
  PROVE  Untouched(m) /\ ApplyOK(m)'
<1>1. Ready(n)
  BY DEF Consider
<1> DEFINE a == [pc |-> "load", state |-> s, dial |-> d]
<1>2. applying' = applying \/ (~IsOld(n, s.prov) /\ applying' = [applying EXCEPT ![n] = a])
  BY DEF Consider
<1>3. applying \in [Servers -> Applications]
  BY DEF StampInv, SyncTypes
<1>4. Untouched(m)
  <2>1. m # n => applying'[m] = applying[m]
    BY <1>2, <1>3
  <2> QED
    BY <1>1, <2>1 DEF Untouched, StampInv, StartOK
<1>5. ApplyOK(m)'
  <2>1. CASE applying'[m] = applying[m]
    BY <2>1, ApplyLeft
  <2>2. CASE m = n /\ ~IsOld(n, s.prov) /\ applying' = [applying EXCEPT ![n] = a]
    <3>1. applying'[m] = a /\ s.prov \in Dated
      BY <1>3, <2>2 DEF DatedStates
    <3>2. s.prov.dev # 0 => Newer(s.prov, cursor[n][s.prov.dev])
      BY <2>2, <3>1, AcceptedIsNewer
    <3> QED
      BY <2>2, <3>1, <3>2 DEF ApplyOK
  <2> QED
    BY <1>2, <1>3, <2>1, <2>2
<1> QED
  BY <1>4, <1>5

\* Sever leaves an application as it was, or cuts it short.
LEMMA SeverCuts ==
  ASSUME NEW ds, NEW readers, NEW q, NEW a, Sever(ds, readers, q, a), NEW m \in Servers
  PROVE  applying'[m] = a[m] \/ applying'[m] = NotApplying
  BY DEF Sever

LEMMA LinksKeep ==
  ASSUME StampInv,
         \/ \E d \in Dials : Connect(d) \/ Disconnect(d)
         \/ \E l \in Links : Receive(l)
         \/ \E n \in Servers : ReceiveLate(n)
  PROVE  StampInv'
<1>1. SyncTypes' /\ StampsOK' /\ Ticks /\ SyncTypes
  BY LinksTyped, QuietStamps DEF StampInv
<1>2. ASSUME NEW m \in Servers PROVE Untouched(m) /\ ApplyOK(m)'
  <2>1. UNCHANGED <<engine, events, lagged, cursor>>
    BY DEF Connect, Disconnect, Receive, ReceiveLate, server
  <2>2. CASE applying'[m] = applying[m] \/ applying'[m] = NotApplying
    BY <2>1, <2>2, ApplyLeft DEF Untouched, StampInv, StartOK, NotApplying
  <2>3. ASSUME NEW d \in Dials, Connect(d) \/ Disconnect(d) PROVE Untouched(m) /\ ApplyOK(m)'
    BY <2>2, <2>3, SeverCuts DEF Connect, Disconnect, server
  <2>4. AllIn(Carried)
    BY CarriedIsIn
  <2>5. ASSUME NEW l \in Links, Receive(l) PROVE Untouched(m) /\ ApplyOK(m)'
    <3> DEFINE s == Head(net[l])
               q == [net EXCEPT ![l] = Tail(@)]
    <3>1. net[l] \in Seq(DatedStates) /\ net[l] # <<>>
      BY <1>1, <2>5 DEF Receive, InOrder, SyncTypes, WireTypes
    <3>2. s \in DatedStates /\ s = net[l][1] /\ 1 \in DOMAIN net[l]
      BY <3>1
    <3>3. Stamp(s.prov) \in Carried
      BY <2>4, <3>2 DEF AllIn, WireIn
    <3>4. UNCHANGED applying \/ Consider(To(l), s, l[1], q)
      BY <2>5 DEF Receive
    <3> HIDE DEF s, q
    <3> QED
      BY <2>1, <2>2, <3>2, <3>3, <3>4, LinkEnds, ConsiderKeeps
  <2>6. ASSUME NEW n \in Servers, ReceiveLate(n) PROVE Untouched(m) /\ ApplyOK(m)'
    <3> DEFINE x == Head(late[n])
    <3>1. late[n] \in Seq(Letters) /\ late[n] # <<>>
      BY <1>1, <2>6 DEF ReceiveLate, SyncTypes, WireTypes
    <3>2. x \in Letters /\ x = late[n][1] /\ 1 \in DOMAIN late[n]
      BY <3>1
    <3>3. Stamp(x.state.prov) \in Carried
      BY <2>4, <3>2 DEF AllIn, LateIn
    <3>4. Consider(n, x.state, x.dial, net)
      BY <2>6 DEF ReceiveLate
    <3> HIDE DEF x
    <3>5. x.state \in DatedStates
      BY <3>2 DEF Letters
    <3> QED
      BY <2>1, <3>3, <3>4, <3>5, ConsiderKeeps
  <2> QED
    BY <2>3, <2>5, <2>6
<1>3. \A m \in Servers : StartOK(m)'
  BY <1>1, <1>2, StartLeft
<1> QED
  BY <1>1, <1>2, <1>3 DEF StampInv

LEMMA ProjectionKeeps ==
  ASSUME StampInv, NEW n \in Servers, HandleEvent(n) \/ Reconcile(n)
  PROVE  StampInv'
<1>1. SyncTypes' /\ StampsOK' /\ Ticks /\ SyncTypes /\ Ready(n)
  BY ProjectionTyped, ProjectionStamps, ProjectionTicks DEF StampInv
<1>2. UNCHANGED <<engine, applying, cursor>>
  BY DEF HandleEvent, Reconcile
<1>3. \A m \in Servers : m # n => events'[m] = events[m] /\ lagged'[m] = lagged[m]
  BY <1>1 DEF HandleEvent, Reconcile, SyncTypes, QueueTypes
<1>4. \A m \in Servers : Untouched(m)
  BY <1>1, <1>2, <1>3 DEF Untouched, StampInv, StartOK
<1>5. \A m \in Servers : ApplyOK(m)'
  BY <1>2, ApplyLeft
<1> QED
  BY <1>1, <1>4, <1>5, StartLeft DEF StampInv

LEMMA RestartKeeps ==
  ASSUME StampInv, NEW n \in Servers, NEW clean \in BOOLEAN, Restart(n, clean)
  PROVE  StampInv'
<1>1. SyncTypes' /\ StampsOK' /\ SyncTypes
  BY RestartTyped, RestartStamps DEF StampInv
<1> DEFINE a == [applying EXCEPT ![n] = NotApplying]
<1>2. \A m \in Servers : applying'[m] = a[m] \/ applying'[m] = NotApplying
  <2>1. \E ds, readers, q : Sever(ds, readers, q, a)
    BY DEF Restart
  <2> HIDE DEF a
  <2> QED
    BY <2>1, SeverCuts
<1>3. applying'[n] = NotApplying /\ \A m \in Servers : m # n => applying'[m] \in {applying[m], NotApplying}
  BY <1>1, <1>2 DEF SyncTypes
<1>4. \A m \in Servers : m # n => /\ events'[m] = events[m] /\ lagged'[m] = lagged[m]
                                  /\ engine'[m] = engine[m] /\ cursor'[m] = cursor[m]
                                  /\ proc'[m] = proc[m] /\ db'[m] = db[m]
  BY <1>1 DEF Restart, SyncTypes, QueueTypes, ProcTypes
<1>5. ASSUME NEW m \in Servers PROVE ApplyOK(m)'
  <2>1. CASE applying'[m] = NotApplying
    BY <2>1, ApplyLeft DEF NotApplying
  <2>2. CASE m # n /\ applying'[m] = applying[m]
    BY <1>4, <2>2, ApplyLeft
  <2> QED
    BY <1>3, <2>1, <2>2
<1>6. now' >= now /\ now \in Nat /\ now' \in Nat
  BY <1>1 DEF Restart, SyncTypes
<1>7. StartOK(n)'
  <2>1. /\ proc'[n].seq = 0 /\ proc'[n].epoch = now'
        /\ \A i \in Inits : proc'[n].init[i].pc = "epoch"
        /\ db'[n].epoch = db[n].epoch
    BY <1>1 DEF Restart, SyncTypes, ProcTypes
  <2>2. events'[n] = <<>> /\ lagged'[n] = FALSE /\ engine'[n] = IdleEngine
    BY <1>1 DEF Restart, SyncTypes, QueueTypes
  <2>3. Fresh(n)' /\ db[n].epoch > 0
    BY <2>1 DEF Fresh, StampInv, StartOK
  <2>4. Beyond(n, 0)'
    BY <2>1, <2>3 DEF Beyond
  <2>5. StartInTurn(n)'
    BY <2>1 DEF StartInTurn, Inits
  <2> QED
    BY <1>3, <1>6, <2>1, <2>2, <2>3, <2>4, <2>5 DEF StartOK, IdleEngine, NotApplying
<1>8. ASSUME NEW m \in Servers, m # n PROVE StartOK(m)'
  <2>1. StartOK(m) /\ proc[m].epoch \in Nat
    BY <1>1 DEF StampInv, SyncTypes, ProcTypes, Processes
  <2>2. /\ Ready(m)' <=> Ready(m)
        /\ Fresh(m)' <=> Fresh(m)
        /\ Beyond(m, 0)' <=> Beyond(m, 0)
        /\ StartInTurn(m)' <=> StartInTurn(m)
    BY <1>4, <1>8 DEF Ready, Fresh, Beyond, StartInTurn
  <2> QED
    BY <1>3, <1>4, <1>6, <1>8, <2>1, <2>2 DEF StartOK, NotApplying
<1> QED
  BY <1>1, <1>5, <1>7, <1>8 DEF StampInv

LEMMA InitsKeep ==
  ASSUME StampInv, NEW n \in Servers, NEW i \in Inits,
         InitEpoch(n, i) \/ InitLoad(n, i) \/ InitStore(n, i)
  PROVE  StampInv'
<1>1. SyncTypes' /\ StampsOK' /\ SyncTypes
  BY InitsTyped, InitsStamps DEF StampInv
<1>2. UNCHANGED <<now, events, lagged, engine, applying, cursor>>
  BY DEF InitEpoch, InitLoad, InitStore
<1>3. \A m \in Servers : ApplyOK(m)'
  BY <1>2, ApplyLeft
<1>4. \A m \in Servers : m # n => proc'[m] = proc[m] /\ db'[m] = db[m]
  BY <1>1, InitStep DEF InitMoves, InitLoad
<1>5. ASSUME NEW m \in Servers, m # n PROVE StartOK(m)'
  <2>1. StartOK(m)
    BY DEF StampInv
  <2>2. /\ Ready(m)' <=> Ready(m)
        /\ Fresh(m)' <=> Fresh(m)
        /\ Beyond(m, 0)' <=> Beyond(m, 0)
        /\ StartInTurn(m)' <=> StartInTurn(m)
    BY <1>4, <1>5 DEF Ready, Fresh, Beyond, StartInTurn
  <2> QED
    BY <1>2, <1>4, <1>5, <2>1, <2>2 DEF StartOK
<1>6. StartOK(n)'
  <2>1. StartOK(n) /\ db[n].epoch > 0 /\ Beyond(n, 0)
    BY DEF StampInv, StartOK
  <2>2. /\ proc'[n].seq = proc[n].seq /\ ~Fresh(n)' /\ (Ready(n) => Ready(n)')
        /\ now \in Nat /\ proc[n].epoch \in Nat /\ db[n].epoch \in Nat /\ db'[n].epoch \in Nat
        /\ db'[n].epoch >= db[n].epoch
    BY <1>1, InitFacts
  <2>3. Beyond(n, 0)'
    BY <1>1, <2>1, <2>2, InitsGoBeyond
  <2>4. /\ proc'[n].epoch <= db'[n].epoch
        /\ \A j \in Inits : proc'[n].init[j].pc = "load" => proc'[n].init[j].epoch <= db'[n].epoch
    <3>1. CASE InitEpoch(n, i)
      <4>1. /\ proc'[n].init[i].epoch = db'[n].epoch /\ db'[n].epoch >= now
            /\ proc'[n].epoch = proc[n].epoch
            /\ \A j \in Inits : j # i => proc'[n].init[j] = proc[n].init[j]
        BY <1>1, <3>1, InitFacts
      <4>2. \A j \in Inits : proc[n].init[j].epoch \in Nat
        BY <1>1 DEF SyncTypes, ProcTypes, Processes
      <4> QED
        BY <2>1, <2>2, <4>1, <4>2 DEF StartOK
    <3>2. CASE InitLoad(n, i)
      <4>1. /\ proc'[n].epoch = proc[n].init[i].epoch /\ db'[n].epoch = db[n].epoch
            /\ proc[n].init[i].pc = "load" /\ proc'[n].init[i].pc = "store"
            /\ \A j \in Inits : j # i => proc'[n].init[j] = proc[n].init[j]
        BY <1>1, <3>2, InitFacts
      <4> QED
        BY <2>1, <4>1 DEF StartOK
    <3>3. CASE InitStore(n, i)
      <4>1. /\ proc'[n].epoch = proc[n].epoch /\ db'[n].epoch = db[n].epoch
            /\ proc[n].init[i].pc = "store" /\ proc'[n].init[i].pc = "done"
            /\ \A j \in Inits : j # i => proc'[n].init[j] = proc[n].init[j]
        BY <1>1, <3>3, InitFacts
      <4>2. ~Fresh(n)
        BY <4>1 DEF Fresh
      <4> QED
        BY <2>1, <4>1, <4>2 DEF StartOK
    <3> QED
      BY <3>1, <3>2, <3>3
  <2>5. ASSUME InTurn PROVE StartInTurn(n)'
    <3>1. /\ StartInTurn(n)
          /\ i = "spawned" => proc[n].init["bootstrap"].pc = "epoch"
          /\ i = "bootstrap" => proc[n].init["spawned"].pc = "done"
      BY <2>1, <2>5, StageOrder DEF StartOK, InitEpoch, InitLoad, InitStore
    <3>2. \A j \in Inits : j # i => proc'[n].init[j] = proc[n].init[j] /\ proc'[n].init[j].pc \in {"epoch", "done"}
      BY <1>1, <3>1, InitFacts DEF Inits
    <3>3. CASE InitEpoch(n, i)
      <4>1. proc'[n].init[i].pc = "load" /\ proc'[n].init[i].epoch = db'[n].epoch
        BY <1>1, <3>3, InitFacts
      <4> QED
        BY <3>1, <3>2, <4>1 DEF StartInTurn, Inits
    <3>4. CASE InitLoad(n, i)
      <4>1. /\ proc[n].init[i].pc = "load" /\ proc'[n].init[i].pc = "store"
            /\ proc'[n].epoch = proc[n].init[i].epoch /\ db'[n].epoch = db[n].epoch
            /\ proc'[n].lamport = proc[n].lamport /\ proc'[n].init[i].lamport >= proc[n].lamport
        BY <1>1, <3>4, InitFacts
      <4> QED
        BY <3>1, <3>2, <4>1 DEF StartInTurn, Inits
    <3>5. CASE InitStore(n, i)
      <4>1. /\ proc[n].init[i].pc = "store" /\ proc'[n].init[i].pc = "done"
            /\ proc'[n].epoch = proc[n].epoch /\ db'[n].epoch = db[n].epoch
        BY <1>1, <3>5, InitFacts
      <4> QED
        BY <3>1, <3>2, <4>1 DEF StartInTurn, Inits
    <3> QED
      BY <3>3, <3>4, <3>5
  <2> QED
    BY <1>2, <2>1, <2>2, <2>3, <2>4, <2>5 DEF StartOK
<1> QED
  BY <1>1, <1>3, <1>5, <1>6 DEF StampInv

LEMMA StampsStart == Init => StampInv
<1> SUFFICES ASSUME Init PROVE StampInv
  OBVIOUS
<1>1. SyncTypes
  BY TypesStart
<1>2. \A n \in Servers : Stamps(n) \subseteq {NoStamp}
  BY BlankStamps DEF Init, Stamps
<1>3. \A s \in Carried : s.dev = 0
  <2>1. \A l \in Links : OnWire(l) = {}
    BY DEF Init, OnWire
  <2> QED
    BY <1>2, <2>1 DEF Carried, NoStamp
<1>4. StampsOK
  BY <1>3 DEF StampsOK, StampOK, Ordered
<1>5. \A n \in Servers : StartOK(n)
  BY DEF Init, StartOK, StartInTurn, Beyond, Ready, Fresh, Inits, Initialized, IdleEngine, NotApplying
<1>6. \A n \in Servers : ApplyOK(n)
  BY DEF Init, ApplyOK, NotApplying
<1> QED
  BY <1>1, <1>4, <1>5, <1>6 DEF StampInv

LEMMA StampsStep == StampInv /\ [Next]_vars => StampInv'
<1> SUFFICES ASSUME StampInv, [Next]_vars PROVE StampInv'
  OBVIOUS
<1>1. CASE UNCHANGED vars
  <2>1. SyncTypes'
    BY TypesStep DEF StampInv
  <2>2. Carried' = Carried
    BY <1>1 DEF vars, server, wire, Carried, Stamps, OnWire
  <2>3. StampsOK'
    <3>1. \A s \in Carried : StampOK(s)' <=> StampOK(s)
      BY <1>1 DEF vars, server, StampOK, Beyond, Ready, Fresh
    <3> HIDE DEF Carried
    <3> QED
      BY <2>2, <3>1 DEF StampInv, StampsOK
  <2>4. \A n \in Servers : StartOK(n)' /\ ApplyOK(n)'
    BY <1>1 DEF vars, server, StampInv, StartOK, StartInTurn, Beyond, ApplyOK, Ready, Fresh
  <2> QED
    BY <2>1, <2>3, <2>4 DEF StampInv
<1>2. CASE Next
  BY <1>2, EnginesKeep, LinksKeep, ProjectionKeeps, RestartKeeps, InitsKeep DEF Next, Progress
<1> QED
  BY <1>1, <1>2

\* Every stamp that is carried anywhere was given under an epoch that the
\* later processes of its device go beyond.
THEOREM SyncInvariant == Spec => []StampInv
  BY StampsStart, StampsStep, PTL DEF Spec

\* The clocks of a process go forward.
Forward(n) == proc'[n].boot = proc[n].boot =>
                proc'[n].lamport >= proc[n].lamport /\ proc'[n].epoch >= proc[n].epoch

\* While a process runs its clocks do not go back, and of every peer each
\* state that is recorded is newer than the one before.
LEMMA StepsForward ==
  ASSUME InTurn, StampInv, [Next]_vars, NEW n \in Servers
  PROVE  /\ proc'[n].boot = proc[n].boot =>
              proc'[n].lamport >= proc[n].lamport /\ proc'[n].epoch >= proc[n].epoch
         /\ LET p == applying[n].state.prov
                c == cursor[n][p.dev] IN
            Record(n) /\ p.dev # 0 => p.epoch > c.epoch \/ (p.epoch = c.epoch /\ p.seq > c.seq)
<1>1. LET p == applying[n].state.prov
          c == cursor[n][p.dev] IN
      Record(n) /\ p.dev # 0 => p.epoch > c.epoch \/ (p.epoch = c.epoch /\ p.seq > c.seq)
  BY DEF StampInv, ApplyOK, Newer, Record
<1>2. /\ SyncTypes /\ proc[n] \in Processes /\ proc[n].epoch \in Nat /\ proc[n].lamport \in Nat
      /\ proc[n].boot \in Nat
  BY DEF StampInv, SyncTypes, ProcTypes, Processes
<1>3. Ticks => Forward(n)
  BY <1>2 DEF Ticks, Forward
<1>4. proc'[n] = proc[n] => Forward(n)
  BY <1>2 DEF Forward
<1>5. ASSUME NEW m \in Servers, NEW clean \in BOOLEAN, Restart(m, clean) PROVE Forward(n)
  <2>1. CASE m = n
    BY <1>2, <1>5, <2>1 DEF Restart, SyncTypes, ProcTypes, Forward
  <2>2. CASE m # n
    BY <1>2, <1>4, <1>5, <2>2 DEF Restart, SyncTypes, ProcTypes
  <2> QED
    BY <2>1, <2>2
<1>6. ASSUME NEW m \in Servers, NEW i \in Inits, InitEpoch(m, i) \/ InitLoad(m, i) \/ InitStore(m, i)
      PROVE  Forward(n)
  <2>1. CASE m # n
    <3>1. proc'[n] = proc[n]
      BY <1>2, <1>6, <2>1, InitStep DEF InitMoves
    <3> QED
      BY <1>4, <3>1
  <2>2. CASE m = n
    <3>1. StartOK(n) /\ StartInTurn(n)
      BY DEF StampInv, StartOK
    <3>2. CASE InitEpoch(n, i)
      <4>1. proc'[n].epoch = proc[n].epoch /\ proc'[n].lamport = proc[n].lamport
        BY <1>2, <3>2, InitFacts
      <4> QED
        BY <1>2, <4>1 DEF Forward
    <3>3. CASE InitLoad(n, i)
      <4>1. /\ proc[n].init[i].pc = "load" /\ proc'[n].epoch = proc[n].init[i].epoch
            /\ proc'[n].lamport = proc[n].lamport
        BY <1>2, <3>3, InitFacts
      <4>2. proc[n].init[i].epoch = db[n].epoch /\ ~Fresh(n)
        BY <3>1, <4>1 DEF StartInTurn, Fresh
      <4> QED
        BY <1>2, <3>1, <4>1, <4>2 DEF StartOK, Forward
    <3>4. CASE InitStore(n, i)
      <4>1. /\ proc[n].init[i].pc = "store" /\ proc'[n].epoch = proc[n].epoch
            /\ proc'[n].lamport = proc[n].init[i].lamport
        BY <1>2, <3>4, InitFacts
      <4>2. proc[n].init[i].lamport >= proc[n].lamport
        BY <3>1, <4>1 DEF StartInTurn
      <4> QED
        BY <1>2, <4>1, <4>2 DEF Forward
    <3> QED
      BY <1>6, <2>2, <3>2, <3>3, <3>4
  <2> QED
    BY <2>1, <2>2
<1>7. ASSUME UNCHANGED vars PROVE Forward(n)
  BY <1>4, <1>7 DEF vars, server
<1>8. ASSUME Next PROVE Forward(n)
  <2>1. ASSUME NEW m \in Servers, HandleEvent(m) \/ Reconcile(m) PROVE Forward(n)
    BY <1>3, <2>1, ProjectionTicks
  <2>2. ASSUME NEW m \in Servers,
               \/ \E t \in Tracks, p \in BOOLEAN : Steer(m, t, p) \/ Skip(m, t, p)
               \/ Checkpoint(m) \/ Load(m) \/ ResumeOrPause(m) \/ Record(m) \/ GiveUp(m)
        PROVE  Forward(n)
    BY <1>2, <1>3, <2>2, EnginesTick
  <2>3. ASSUME \/ \E d \in Dials : Connect(d) \/ Disconnect(d)
               \/ \E l \in Links : Receive(l)
               \/ \E m \in Servers : ReceiveLate(m)
        PROVE  Forward(n)
    BY <1>2, <1>3, <2>3, LinksTick
  <2> QED
    BY <1>5, <1>6, <1>8, <2>1, <2>2, <2>3 DEF Next, Progress
<1>9. Forward(n)
  BY <1>7, <1>8
<1> QED
  BY <1>1, <1>9 DEF Forward

\* OnlyForward: the epoch and the Lamport clock of a running process never go
\* back, and a state of a peer is recorded only if it is newer than the last one.
THEOREM TimeGoesForward == ASSUME InTurn PROVE Spec => OnlyForward
<1>1. StampInv /\ [Next]_vars =>
        [\A n \in Servers : proc'[n].boot = proc[n].boot
            => /\ proc'[n].lamport >= proc[n].lamport
               /\ proc'[n].epoch >= proc[n].epoch]_vars
  BY StepsForward
<1>2. StampInv /\ [Next]_vars =>
        [\A n \in Servers :
           LET p == applying[n].state.prov
               c == cursor[n][p.dev] IN
           Record(n) /\ p.dev # 0 => p.epoch > c.epoch \/ (p.epoch = c.epoch /\ p.seq > c.seq)]_vars
  BY StepsForward
<1> QED
  BY <1>1, <1>2, SyncInvariant, PTL DEF Spec, OnlyForward, ClockNeverRegresses, PeerOrder

\* RebootWins: what a later process of a server stamped has precedence over
\* what an earlier one did, wherever either is held or on its way.
THEOREM RebootsAreFollowed == Spec => []RebootWins
<1>1. StampInv => RebootWins
  <2> SUFFICES ASSUME StampInv PROVE RebootWins
    OBVIOUS
  <2>1. \A a \in Known : Stamp(a) \in Carried
    <3>1. AllIn(Carried)
      BY CarriedIsIn
    <3> QED
      BY <3>1 DEF Known, AllIn, PsIn, ApplyIn, WireIn, LateIn
  <2>2. ASSUME NEW a \in Known, NEW b \in Known, a.dev # 0, a.dev = b.dev, a.boot > b.boot
        PROVE  Precedes(a, b)
    <3>1. Ordered(Stamp(a), Stamp(b))
      BY <2>1 DEF StampInv, StampsOK
    <3> QED
      BY <2>2, <3>1 DEF Ordered, Stamp, Precedes
  <2> QED
    BY <2>2 DEF RebootWins
<1> QED
  BY <1>1, SyncInvariant, PTL

-----------------------------------------------------------------------------
(***************************************************************************)
(* What a server shows                                                     *)
(***************************************************************************)
\* Commands wait for what is under way, none leaves the timeline's origin
\* alone, and a start ends before the server is ready.
Orderly == Hazards \cap {"overlap", "skip", "straggler"} = {}

\* The events that wait are those of the timeline; what is applied, or will
\* be projected, is not preceded by what the server shows, and its clock has
\* been observed.
AtHand(n, p) == /\ p.dev # n /\ p.lamport <= proc[n].lamport
                /\ ~Precedes(ps[n].prov, p)
ShownOK(n) == IF ps[n].prov.dev = n THEN ps[n].prov.boot = proc[n].boot
              ELSE ps[n].prov.lamport <= proc[n].lamport
HeldOK(n) ==
  /\ lagged[n] => events[n] # <<>>
  /\ applying[n].pc = "load" => events[n] = <<>> /\ AtHand(n, applying[n].state.prov)
  /\ applying[n].pc \in {"play", "volume"} => engine[n].origin = Origin(n)
  /\ \A i \in DOMAIN events[n] : events[n][i] = engine[n].origin
  /\ ~engine[n].origin.local => AtHand(n, engine[n].origin.prov)
  /\ ShownOK(n)
HeldInv == StampInv /\ \A n \in Servers : HeldOK(n)

LEMMA NothingPrecedesItself == ASSUME NEW p \in Provenances PROVE ~Precedes(p, p)
  BY ServersAssumption DEF Precedes, Provenances

\* What has not won does not precede.
LEMMA LosersDoNotPrecede ==
  ASSUME NEW a \in Dated, NEW b \in Dated, FALSE \in Outcomes(a, b)
  PROVE  ~Precedes(a, b)
<1>1. /\ a.dev \in Servers \cup {0} /\ b.dev \in Servers \cup {0}
      /\ a.epoch \in Nat /\ b.epoch \in Nat /\ a.seq \in Nat /\ b.seq \in Nat
      /\ a.lamport \in Nat /\ b.lamport \in Nat
  BY DEF Dated, Provenances
<1>2. a.dev \in Nat /\ b.dev \in Nat
  <2>1. \A x \in Servers \cup {0} : x \in Nat
    BY ServersAssumption
  <2> QED
    BY <1>1, <2>1
<1>3. CASE [a EXCEPT !.boot = 0] = [b EXCEPT !.boot = 0]
  <2>1. a.dev = b.dev /\ a.epoch = b.epoch /\ a.seq = b.seq /\ a.lamport = b.lamport
    <3>1. [a EXCEPT !.boot = 0].dev = a.dev /\ [b EXCEPT !.boot = 0].dev = b.dev
          /\ [a EXCEPT !.boot = 0].epoch = a.epoch /\ [b EXCEPT !.boot = 0].epoch = b.epoch
          /\ [a EXCEPT !.boot = 0].seq = a.seq /\ [b EXCEPT !.boot = 0].seq = b.seq
          /\ [a EXCEPT !.boot = 0].lamport = a.lamport /\ [b EXCEPT !.boot = 0].lamport = b.lamport
      BY DEF Dated, Provenances
    <3> QED
      BY <1>3, <3>1
  <2> QED
    BY <1>1, <1>2, <2>1 DEF Precedes
<1>4. CASE a.lamport = 0 /\ b.lamport = 0
  <2>1. a.dev = 0
    BY <1>1, <1>4 DEF Dated
  <2> QED
    BY <1>4, <2>1 DEF Precedes
<1>5. CASE ~([a EXCEPT !.boot = 0] = [b EXCEPT !.boot = 0] \/ (a.lamport = 0 /\ b.lamport = 0))
  BY <1>5 DEF Outcomes
<1> QED
  BY <1>3, <1>4, <1>5

\* The channel holds the events of one origin.
LEMMA EmitSame ==
  ASSUME QueueTypes, NEW n \in Servers, NEW o \in DatedOrigins, Emit(n, o),
         \A i \in DOMAIN events[n] : events[n][i] = o
  PROVE  events'[n] # <<>> /\ \A i \in DOMAIN events'[n] : events'[n][i] = o
<1> USE DEF QueueTypes
<1> DEFINE full == Len(events[n]) = EventCapacity
           r == IF full THEN Tail(events[n]) ELSE events[n]
<1>1. events'[n] = Append(r, o) /\ events[n] \in Seq(DatedOrigins)
  BY DEF Emit
<1>2. r \in Seq(DatedOrigins) /\ \A i \in DOMAIN r : r[i] = o
  <2>1. CASE full
    <3>1. events[n] # <<>>
      BY <1>1, <2>1, BoundsAssumption
    <3>2. Tail(events[n]) \in Seq(DatedOrigins) /\ Len(Tail(events[n])) = Len(events[n]) - 1
          /\ \A i \in 1..Len(Tail(events[n])) : Tail(events[n])[i] = events[n][i + 1]
      BY <1>1, <3>1
    <3> QED
      BY <1>1, <3>1, <3>2, <2>1
  <2> QED
    BY <2>1, <1>1
<1> HIDE DEF r
<1>3. Append(r, o) # <<>>
  <2>1. Len(Append(r, o)) = Len(r) + 1 /\ Len(r) \in Nat
    BY <1>2
  <2>2. Len(<<>>) = 0
    OBVIOUS
  <2>3. Len(r) + 1 # 0
    BY <2>1
  <2> QED
    BY <2>1, <2>2, <2>3, Zenon
<1>4. \A i \in DOMAIN Append(r, o) : Append(r, o)[i] = o
  <2> SUFFICES ASSUME NEW i \in DOMAIN Append(r, o) PROVE Append(r, o)[i] = o
    OBVIOUS
  <2>1. CASE i = Len(r) + 1
    BY <1>2, <2>1
  <2>2. CASE i # Len(r) + 1
    BY <1>2, <2>2
  <2> QED
    BY <2>1, <2>2
<1> QED
  BY <1>1, <1>3, <1>4

\* A server that only ticks, or whose application is cut short, keeps all.
LEMMA HeldStays ==
  ASSUME SyncTypes, SyncTypes', NEW m \in Servers, HeldOK(m),
         proc'[m].boot = proc[m].boot, proc'[m].lamport >= proc[m].lamport,
         events'[m] = events[m], lagged'[m] = lagged[m], engine'[m] = engine[m], ps'[m] = ps[m],
         applying'[m] = applying[m] \/ applying'[m] = NotApplying
  PROVE  HeldOK(m)'
<1>1. /\ proc[m].lamport \in Nat /\ proc'[m].lamport \in Nat /\ ps[m].prov.lamport \in Nat
      /\ engine[m].origin.prov.lamport \in Nat /\ applying[m].state.prov.lamport \in Nat
  <2>1. proc[m] \in Processes /\ proc'[m] \in Processes
    BY DEF SyncTypes, ProcTypes
  <2>2. ps[m].prov \in Dated /\ engine[m].origin.prov \in Dated /\ applying[m].state.prov \in Dated
    BY OriginTypes DEF SyncTypes, DatedStates, DatedOrigins
  <2> QED
    BY <2>1, <2>2 DEF Processes, Dated, Provenances
<1>2. \A p : p.lamport \in Nat /\ AtHand(m, p) => AtHand(m, p)'
  BY <1>1 DEF AtHand
<1>3. ShownOK(m)'
  BY <1>1 DEF HeldOK, ShownOK
<1>4. applying'[m].pc \in {"idle", applying[m].pc}
  BY DEF NotApplying
<1>5. applying'[m].pc # "idle" => applying'[m] = applying[m] /\ Origin(m)' = Origin(m)
  <2>1. applying'[m].pc # "idle" => applying'[m] = applying[m]
    BY DEF NotApplying
  <2> QED
    BY <2>1 DEF Origin
<1>6. AtHand(m, engine[m].origin.prov) => AtHand(m, engine[m].origin.prov)'
  BY <1>1 DEF AtHand
<1>7. applying'[m] = applying[m] /\ AtHand(m, applying[m].state.prov) => AtHand(m, applying[m].state.prov)'
  BY <1>1 DEF AtHand
<1>8. applying'[m].pc = "load" => events'[m] = <<>> /\ AtHand(m, applying[m].state.prov)'
  BY <1>4, <1>5, <1>7 DEF HeldOK
<1>9. applying'[m].pc \in {"play", "volume"} => engine'[m].origin = Origin(m)'
  BY <1>4, <1>5 DEF HeldOK
<1>10. ~engine'[m].origin.local => AtHand(m, engine[m].origin.prov)'
  BY <1>6 DEF HeldOK
<1> QED
  BY <1>3, <1>8, <1>9, <1>10 DEF HeldOK

\* What a server holds has the types that the comparisons need.
LEMMA HeldFacts ==
  ASSUME HeldInv, NEW n \in Servers
  PROVE  /\ SyncTypes /\ HeldOK(n) /\ proc[n].lamport \in Nat /\ proc[n].boot \in Nat
         /\ ps[n].prov \in Dated /\ engine[n].origin \in DatedOrigins /\ engine[n] \in Engines
         /\ applying[n].state.prov \in Dated /\ Origin(n) \in DatedOrigins
         /\ events[n] \in Seq(DatedOrigins)
  BY OriginTypes DEF HeldInv, StampInv, SyncTypes, ProcTypes, QueueTypes, Processes, DatedStates

\* What is shown and the clocks stay: what is left to show of the server on
\* whose engine a step is.
LEMMA HeldLeft ==
  ASSUME HeldInv, Ticks, NEW n \in Servers, ps' = ps, proc' = proc,
         lagged'[n] => events'[n] # <<>>,
         \A i \in DOMAIN events'[n] : events'[n][i] = engine'[n].origin,
         applying'[n].pc # "load",
         applying'[n].pc \in {"play", "volume"} =>
            engine'[n].origin = [local |-> FALSE, prov |-> applying'[n].state.prov],
         ~engine'[n].origin.local => AtHand(n, engine'[n].origin.prov)
  PROVE  HeldOK(n)'
<1>1. ~engine'[n].origin.local => AtHand(n, engine[n].origin.prov)'
  BY DEF AtHand
<1>2. ShownOK(n)'
  BY HeldFacts DEF HeldOK, ShownOK
<1>3. applying'[n].pc \in {"play", "volume"} => engine'[n].origin = Origin(n)'
  BY DEF Origin
<1> QED
  BY <1>1, <1>2, <1>3 DEF HeldOK

LEMMA EnginesHold ==
  ASSUME Orderly, HeldInv, NEW n \in Servers,
         \/ \E t \in Tracks, p \in BOOLEAN : Steer(n, t, p) \/ Skip(n, t, p)
         \/ Checkpoint(n) \/ Load(n) \/ ResumeOrPause(n) \/ Record(n) \/ GiveUp(n)
  PROVE  HeldOK(n)'
<1>1. /\ SyncTypes /\ HeldOK(n) /\ engine[n].origin \in DatedOrigins /\ engine[n] \in Engines
      /\ Origin(n) \in DatedOrigins /\ QueueTypes
  BY HeldFacts DEF SyncTypes
<1>2. Ticks /\ ps' = ps /\ proc' = proc
  BY <1>1, EnginesTick DEF Steer, Skip, Checkpoint, Load, ResumeOrPause, Record, GiveUp
<1>3. Calm(n) => applying[n].pc = "idle" /\ events[n] = <<>>
  BY DEF Calm, Orderly
<1>4. Release(n) => applying'[n].pc = "idle"
  BY <1>1 DEF Release, NotApplying, SyncTypes
<1>5. ASSUME NEW pc \in {"play", "volume"}, Goto(n, pc)
      PROVE  applying'[n].pc = pc /\ applying'[n].state = applying[n].state
  BY <1>1, <1>5 DEF Goto, SyncTypes, Applications
<1>6. ASSUME NEW t \in Tracks, NEW p \in BOOLEAN, Steer(n, t, p) PROVE HeldOK(n)'
  <2>1. applying'[n].pc = "idle" /\ events[n] = <<>> /\ engine'[n].origin = LocalOrigin
        /\ Emit(n, LocalOrigin)
    BY <1>1, <1>3, <1>6 DEF Steer, Engine, SyncTypes
  <2>2. events'[n] # <<>> /\ \A i \in DOMAIN events'[n] : events'[n][i] = LocalOrigin
    BY <1>1, <2>1, BlankTypes, EmitSame
  <2>3. engine'[n].origin.local
    BY <2>1 DEF LocalOrigin
  <2>4. \A i \in DOMAIN events'[n] : events'[n][i] = engine'[n].origin
    BY <2>1, <2>2
  <2>5. applying'[n].pc # "load" /\ applying'[n].pc \notin {"play", "volume"}
    BY <2>1
  <2> QED
    BY <1>2, <2>2, <2>3, <2>4, <2>5, HeldLeft
<1>7. CASE Checkpoint(n)
  <2>1. applying'[n].pc = "idle" /\ events[n] = <<>> /\ engine'[n] = engine[n]
        /\ Emit(n, engine[n].origin)
    BY <1>3, <1>7 DEF Checkpoint
  <2>2. events'[n] # <<>> /\ \A i \in DOMAIN events'[n] : events'[n][i] = engine[n].origin
    BY <1>1, <2>1, EmitSame
  <2> QED
    BY <1>1, <1>2, <2>1, <2>2, HeldLeft DEF HeldOK
<1>8. CASE Load(n)
  <2>1. applying'[n].pc = "play" /\ applying'[n].state = applying[n].state
        /\ events[n] = <<>> /\ AtHand(n, applying[n].state.prov)
    BY <1>1, <1>5, <1>8 DEF Load, HeldOK
  <2>2. engine'[n].origin = Origin(n) /\ Emit(n, Origin(n))
    BY <1>1, <1>8 DEF Load, Engine, SyncTypes, Engines
  <2>3. events'[n] # <<>> /\ \A i \in DOMAIN events'[n] : events'[n][i] = Origin(n)
    BY <1>1, <2>1, <2>2, EmitSame
  <2>4. engine'[n].origin = [local |-> FALSE, prov |-> applying'[n].state.prov]
    BY <2>1, <2>2 DEF Origin
  <2>5. AtHand(n, engine'[n].origin.prov)
    BY <2>1, <2>4
  <2>6. \A i \in DOMAIN events'[n] : events'[n][i] = engine'[n].origin
    BY <2>2, <2>3
  <2> QED
    BY <1>2, <2>1, <2>3, <2>4, <2>5, <2>6, HeldLeft
<1>9. CASE applying[n].pc \in {"play", "volume"} /\ (ResumeOrPause(n) \/ Record(n) \/ GiveUp(n))
  <2>1. engine[n].origin = Origin(n) /\ \A i \in DOMAIN events[n] : events[n][i] = Origin(n)
    BY <1>1, <1>9 DEF HeldOK
  <2>2. ~engine[n].origin.local => AtHand(n, engine[n].origin.prov)
    BY <1>1 DEF HeldOK
  <2>3. engine'[n].origin = Origin(n)
    <3>1. CASE ResumeOrPause(n)
      <4> DEFINE e == [engine[n] EXCEPT !.playing = applying[n].state.playing, !.origin = Origin(n)]
      <4>1. e.origin = Origin(n)
        BY <1>1 DEF Engines
      <4>2. engine' = [engine EXCEPT ![n] = e]
        BY <3>1 DEF ResumeOrPause, Engine
      <4> HIDE DEF e
      <4> QED
        BY <1>1, <4>1, <4>2 DEF SyncTypes
    <3>2. CASE Record(n)
      BY <2>1, <3>2 DEF Record
    <3>3. CASE GiveUp(n)
      BY <1>1, <2>1, <3>3 DEF GiveUp, SyncTypes, Engines
    <3> QED
      BY <1>9, <3>1, <3>2, <3>3
  <2>4. UNCHANGED <<events, lagged>> \/ Emit(n, Origin(n))
    BY <1>9 DEF ResumeOrPause, Record, GiveUp, Engine
  <2>5. /\ lagged'[n] => events'[n] # <<>>
        /\ \A i \in DOMAIN events'[n] : events'[n][i] = Origin(n)
    BY <1>1, <2>1, <2>4, EmitSame DEF HeldOK
  <2>6. \/ applying'[n].pc = "idle"
        \/ applying'[n].pc = "volume" /\ applying'[n].state = applying[n].state
    BY <1>4, <1>5, <1>9 DEF ResumeOrPause, Record, GiveUp
  <2> QED
    BY <1>2, <2>1, <2>2, <2>3, <2>5, <2>6, HeldLeft DEF Origin
<1>10. CASE applying[n].pc = "load" /\ GiveUp(n)
  <2>1. applying'[n].pc = "idle" /\ engine'[n] = engine[n] /\ events'[n] = events[n] /\ lagged'[n] = lagged[n]
    BY <1>4, <1>10 DEF GiveUp
  <2> QED
    BY <1>1, <1>2, <2>1, HeldLeft DEF HeldOK
<1>11. ~ \E t \in Tracks, p \in BOOLEAN : Skip(n, t, p)
  BY DEF Skip, Hazard, Orderly
<1> QED
  BY <1>6, <1>7, <1>8, <1>9, <1>10, <1>11 DEF ResumeOrPause, Record, GiveUp

\* What a projection shows is at hand, or new.
LEMMA ProjectionHolds ==
  ASSUME Orderly, HeldInv, NEW n \in Servers, HandleEvent(n) \/ Reconcile(n)
  PROVE  HeldOK(n)' /\ ~Precedes(ps[n].prov, ps'[n].prov)
<1>1. /\ SyncTypes /\ HeldOK(n) /\ proc[n] \in Processes /\ ps[n].prov \in Dated
      /\ engine[n].origin \in DatedOrigins /\ events[n] \in Seq(DatedOrigins)
      /\ proc[n].lamport \in Nat
  BY HeldFacts DEF SyncTypes, ProcTypes
<1>2. ProjectAs(n, engine[n].origin) /\ applying[n].pc # "load"
  <2>1. CASE HandleEvent(n)
    <3>1. events[n] # <<>> /\ Head(events[n]) = events[n][1] /\ 1 \in DOMAIN events[n]
      BY <1>1, <2>1 DEF HandleEvent
    <3> QED
      BY <1>1, <2>1, <3>1 DEF HandleEvent, HeldOK
  <2>2. CASE Reconcile(n)
    BY <1>1, <2>2 DEF Reconcile, HeldOK
  <2> QED
    BY <2>1, <2>2
<1>3. UNCHANGED <<engine, applying>>
  BY DEF HandleEvent, Reconcile
<1>4. /\ ~lagged'[n]
      /\ \A i \in DOMAIN events'[n] : events'[n][i] = engine[n].origin
  <2>1. CASE HandleEvent(n)
    <3>1. events[n] # <<>> /\ events'[n] = Tail(events[n]) /\ lagged'[n] = lagged[n] /\ ~lagged[n]
      BY <1>1, <2>1 DEF HandleEvent, SyncTypes, QueueTypes
    <3>2. \A i \in DOMAIN Tail(events[n]) : i + 1 \in DOMAIN events[n] /\ Tail(events[n])[i] = events[n][i + 1]
      BY <1>1, <3>1
    <3> QED
      BY <1>1, <3>1, <3>2 DEF HeldOK
  <2>2. CASE Reconcile(n)
    BY <1>1, <2>2 DEF Reconcile, HeldOK, SyncTypes, QueueTypes
  <2> QED
    BY <2>1, <2>2
<1>5. CASE ~engine[n].origin.local
  <2>1. ps'[n].prov = engine[n].origin.prov /\ proc' = proc
    BY <1>1, <1>2, <1>5 DEF ProjectAs, SyncTypes
  <2>2. AtHand(n, engine[n].origin.prov)
    BY <1>1, <1>5 DEF HeldOK
  <2>3. ~Precedes(engine[n].origin.prov, engine[n].origin.prov)
    BY <1>1, NothingPrecedesItself DEF DatedOrigins, Dated
  <2>4. ShownOK(n)' /\ AtHand(n, engine[n].origin.prov)'
    BY <1>3, <2>1, <2>2, <2>3 DEF ShownOK, AtHand
  <2>5. HeldOK(n)'
    BY <1>1, <1>2, <1>3, <1>4, <2>4 DEF HeldOK, Origin
  <2> QED
    BY <2>1, <2>2, <2>5 DEF AtHand
<1>6. CASE engine[n].origin.local
  <2> DEFINE new == [dev |-> n, epoch |-> proc[n].epoch, boot |-> proc[n].boot,
                     seq |-> proc[n].seq + 1, lamport |-> proc[n].lamport + 1]
  <2>1. ps'[n].prov = new /\ proc'[n].boot = proc[n].boot
    BY <1>1, <1>2, <1>6 DEF ProjectAs, SyncTypes, ProcTypes, Processes
  <2>2. ShownOK(n)'
    BY <2>1 DEF ShownOK
  <2>3. HeldOK(n)'
    BY <1>1, <1>2, <1>3, <1>4, <1>6, <2>2 DEF HeldOK, Origin
  <2>4. ~Precedes(ps[n].prov, new)
    <3>1. n # 0 /\ proc[n].seq \in Nat /\ proc[n].epoch \in Nat /\ ps[n].prov.seq \in Nat
          /\ ps[n].prov.epoch \in Nat /\ ps[n].prov.lamport \in Nat
      BY <1>1, ServersAssumption DEF Processes, Dated, Provenances
    <3>2. CASE ps[n].prov.dev = n
      <4>1. ps[n].prov.boot = proc[n].boot
        BY <1>1, <3>2 DEF HeldOK, ShownOK
      <4>2. StampOK(Stamp(ps[n].prov))
        <5>1. AllIn(Carried)
          BY CarriedIsIn
        <5> QED
          BY <5>1 DEF AllIn, PsIn, HeldInv, StampInv, StampsOK
      <4>3. ps[n].prov.epoch = db[n].epoch /\ ps[n].prov.seq <= proc[n].seq /\ Ready(n)
        BY <3>1, <3>2, <4>1, <4>2 DEF StampOK, Stamp, Orderly, InTurn
      <4>4. proc[n].epoch = db[n].epoch
        <5>1. StartInTurn(n)
          BY DEF HeldInv, StampInv, StartOK, Orderly, InTurn
        <5> QED
          BY <4>3, <5>1 DEF StartInTurn, Ready
      <4> QED
        BY <3>1, <3>2, <4>3, <4>4 DEF Precedes
    <3>3. CASE ps[n].prov.dev # n
      <4>1. ps[n].prov.lamport <= proc[n].lamport
        BY <1>1, <3>3 DEF HeldOK, ShownOK
      <4> QED
        BY <1>1, <3>1, <3>3, <4>1 DEF Precedes
    <3> QED
      BY <3>2, <3>3
  <2> QED
    BY <2>1, <2>3, <2>4
<1> QED
  BY <1>5, <1>6

LEMMA ConsiderHolds ==
  ASSUME Orderly, HeldInv, SyncTypes', NEW n \in Servers, NEW s \in DatedStates, NEW d, NEW q,
         Consider(n, s, d, q), UNCHANGED <<now, db, engine, events, lagged, ps>>, NEW m \in Servers
  PROVE  HeldOK(m)'
<1>1. /\ SyncTypes /\ HeldOK(m) /\ HeldOK(n) /\ proc[n].lamport \in Nat /\ ps[n].prov \in Dated
      /\ events[n] = <<>>
  BY HeldFacts DEF Consider, Calm, Orderly
<1>2. Ticks
  BY <1>1, ConsiderTicks
<1> DEFINE a == [pc |-> "load", state |-> s, dial |-> d]
<1>3. CASE applying'[m] = applying[m]
  <2>1. proc'[m].boot = proc[m].boot /\ proc'[m].lamport >= proc[m].lamport
    BY <1>2 DEF Ticks
  <2> QED
    BY <1>1, <1>3, <2>1, HeldStays
<1>4. CASE m = n /\ applying' # applying
  <2>1. /\ s.prov.dev # n /\ applying'[n] = a
        /\ proc'[n].lamport = Observed(proc[n].lamport, s.prov.lamport)
        /\ FALSE \in Outcomes(ps[n].prov, s.prov)
        /\ proc'[n].boot = proc[n].boot
    <3>1. /\ s.prov.dev # n /\ applying' = [applying EXCEPT ![n] = a]
          /\ proc' = [proc EXCEPT ![n].lamport = Observed(@, s.prov.lamport)]
          /\ \E wins \in Outcomes(ps[n].prov, s.prov) : ~wins
      BY <1>4 DEF Consider
    <3>2. Outcomes(ps[n].prov, s.prov) \subseteq BOOLEAN
      BY DEF Outcomes, Precedes
    <3>3. FALSE \in Outcomes(ps[n].prov, s.prov)
      BY <3>1, <3>2
    <3>4. applying'[n] = a
      <4> HIDE DEF a
      <4>1. n \in DOMAIN applying
        BY <1>1 DEF SyncTypes
      <4> QED
        BY <3>1, <4>1
    <3> DEFINE clock == Observed(proc[n].lamport, s.prov.lamport)
    <3>5. proc' = [proc EXCEPT ![n].lamport = clock]
      BY <3>1
    <3>6. proc'[n].lamport = clock /\ proc'[n].boot = proc[n].boot
      <4> HIDE DEF clock
      <4>1. n \in DOMAIN proc /\ proc[n] \in Processes
        BY <1>1 DEF SyncTypes, ProcTypes
      <4> QED
        BY <3>5, <4>1 DEF Processes
    <3> QED
      BY <3>1, <3>3, <3>4, <3>6
  <2>2. s.prov \in Dated /\ s.prov.lamport \in Nat
    BY DEF DatedStates, Dated, Provenances
  <2>3. ~Precedes(ps[n].prov, s.prov)
    BY <1>1, <2>1, <2>2, LosersDoNotPrecede
  <2>4. s.prov.lamport <= proc'[n].lamport /\ proc'[n].lamport >= proc[n].lamport /\ proc'[n].lamport \in Nat
    BY <1>1, <2>1, <2>2 DEF Observed, Larger
  <2>5. applying'[n].pc = "load" /\ applying'[n].state.prov = s.prov
    BY <2>1
  <2>6. AtHand(n, applying[n].state.prov)'
    BY <2>1, <2>3, <2>4, <2>5 DEF AtHand
  <2>7. ps[n].prov.lamport \in Nat /\ engine[n].origin.prov.lamport \in Nat
    BY <1>1, OriginTypes DEF Dated, DatedOrigins, Provenances
  <2>8. ShownOK(n)'
    BY <1>1, <2>1, <2>4, <2>7 DEF HeldOK, ShownOK
  <2>9. ~engine[n].origin.local => AtHand(n, engine[n].origin.prov)'
    BY <1>1, <2>4, <2>7 DEF HeldOK, AtHand
  <2> QED
    BY <1>1, <1>4, <2>5, <2>6, <2>8, <2>9 DEF HeldOK
<1>5. applying'[m] = applying[m] \/ (m = n /\ applying' # applying)
  BY <1>1 DEF Consider, SyncTypes
<1> QED
  BY <1>3, <1>4, <1>5

LEMMA LinksHold ==
  ASSUME Orderly, HeldInv,
         \/ \E d \in Dials : Connect(d) \/ Disconnect(d)
         \/ \E l \in Links : Receive(l)
         \/ \E n \in Servers : ReceiveLate(n),
         NEW m \in Servers
  PROVE  HeldOK(m)'
<1>1. SyncTypes /\ SyncTypes' /\ Ticks /\ HeldOK(m)
  BY LinksTyped, LinksTick DEF HeldInv, StampInv
<1>2. UNCHANGED <<now, db, engine, events, lagged, ps>>
  BY DEF Connect, Disconnect, Receive, ReceiveLate, server
<1>3. CASE applying'[m] = applying[m] \/ applying'[m] = NotApplying
  <2>1. proc'[m].boot = proc[m].boot /\ proc'[m].lamport >= proc[m].lamport
    BY <1>1 DEF Ticks
  <2> QED
    BY <1>1, <1>2, <1>3, <2>1, HeldStays
<1>4. ASSUME NEW d \in Dials, Connect(d) \/ Disconnect(d) PROVE HeldOK(m)'
  BY <1>3, <1>4, SeverCuts DEF Connect, Disconnect, server
<1>5. ASSUME NEW l \in Links, Receive(l) PROVE HeldOK(m)'
  <2> DEFINE s == Head(net[l])
             q == [net EXCEPT ![l] = Tail(@)]
  <2>1. net[l] \in Seq(DatedStates) /\ net[l] # <<>>
    BY <1>1, <1>5 DEF Receive, InOrder, SyncTypes, WireTypes
  <2>2. s \in DatedStates
    BY <2>1
  <2>3. UNCHANGED applying \/ Consider(To(l), s, l[1], q)
    BY <1>5 DEF Receive
  <2> HIDE DEF s, q
  <2> QED
    BY <1>1, <1>2, <1>3, <2>2, <2>3, LinkEnds, ConsiderHolds
<1>6. ASSUME NEW n \in Servers, ReceiveLate(n) PROVE HeldOK(m)'
  <2> DEFINE x == Head(late[n])
  <2>1. late[n] \in Seq(Letters) /\ late[n] # <<>>
    BY <1>1, <1>6 DEF ReceiveLate, SyncTypes, WireTypes
  <2>2. x \in Letters
    BY <2>1
  <2>3. Consider(n, x.state, x.dial, net)
    BY <1>6 DEF ReceiveLate
  <2> HIDE DEF x
  <2>4. x.state \in DatedStates
    BY <2>2 DEF Letters
  <2> QED
    BY <1>1, <1>2, <2>3, <2>4, ConsiderHolds
<1> QED
  BY <1>4, <1>5, <1>6

LEMMA RestartHolds ==
  ASSUME HeldInv, NEW n \in Servers, NEW clean \in BOOLEAN, Restart(n, clean), NEW m \in Servers
  PROVE  HeldOK(m)' /\ (m # n => ps'[m] = ps[m])
<1>1. SyncTypes /\ SyncTypes' /\ HeldOK(m)
  BY RestartTyped DEF HeldInv, StampInv
<1> DEFINE a == [applying EXCEPT ![n] = NotApplying]
<1>2. applying'[m] = a[m] \/ applying'[m] = NotApplying
  <2>1. \E ds, readers, q : Sever(ds, readers, q, a)
    BY DEF Restart
  <2> HIDE DEF a
  <2> QED
    BY <2>1, SeverCuts
<1>3. CASE m = n
  <2>1. /\ applying'[n].pc = "idle" /\ events'[n] = <<>> /\ ~lagged'[n]
        /\ engine'[n].origin.local /\ ps'[n].prov.lamport = 0 /\ ps'[n].prov.dev = 0
    BY <1>1, <1>2, <1>3
       DEF Restart, SyncTypes, QueueTypes, NotApplying, IdleEngine, LocalOrigin, Default, Unstamped
  <2>2. n # 0 /\ proc'[n].lamport \in Nat
    BY <1>1, ServersAssumption DEF SyncTypes, ProcTypes, Processes
  <2>3. ShownOK(n)'
    BY <2>1, <2>2 DEF ShownOK
  <2> QED
    BY <1>3, <2>1, <2>3 DEF HeldOK
<1>4. CASE m # n
  <2>1. /\ proc'[m] = proc[m] /\ events'[m] = events[m] /\ lagged'[m] = lagged[m]
        /\ engine'[m] = engine[m] /\ ps'[m] = ps[m]
        /\ (applying'[m] = applying[m] \/ applying'[m] = NotApplying)
    BY <1>1, <1>2, <1>4 DEF Restart, SyncTypes, QueueTypes, ProcTypes
  <2>2. proc'[m].lamport >= proc[m].lamport
    BY <1>1, <2>1 DEF SyncTypes, ProcTypes, Processes
  <2> QED
    BY <1>1, <1>4, <2>1, <2>2, HeldStays
<1> QED
  BY <1>3, <1>4

LEMMA InitsHold ==
  ASSUME Orderly, HeldInv, NEW n \in Servers, NEW i \in Inits,
         InitEpoch(n, i) \/ InitLoad(n, i) \/ InitStore(n, i), NEW m \in Servers
  PROVE  HeldOK(m)' /\ ps'[m] = ps[m]
<1>1. SyncTypes /\ SyncTypes' /\ HeldOK(m) /\ StampInv
  BY InitsTyped DEF HeldInv, StampInv
<1>2. UNCHANGED <<engine, events, lagged, ps, applying>>
  BY DEF InitEpoch, InitLoad, InitStore
<1>3. Next
  BY DEF Next, Progress
<1>4. proc'[m].boot = proc[m].boot
  BY <1>1, InitStep DEF InitMoves
<1>5. proc'[m].lamport >= proc[m].lamport
  BY <1>1, <1>3, <1>4, StepsForward DEF Orderly, InTurn
<1> QED
  BY <1>1, <1>2, <1>4, <1>5, HeldStays

LEMMA HeldStep ==
  ASSUME Orderly, HeldInv, [Next]_vars, NEW m \in Servers
  PROVE  /\ HeldOK(m)'
         /\ proc'[m].boot = proc[m].boot => ~Precedes(ps[m].prov, ps'[m].prov)
<1>1. SyncTypes /\ HeldOK(m) /\ ps[m].prov \in Provenances /\ SyncTypes'
  BY HeldFacts, TypesStep DEF Dated
<1>2. ps'[m] = ps[m] => ~Precedes(ps[m].prov, ps'[m].prov)
  BY <1>1, NothingPrecedesItself
<1>3. CASE UNCHANGED vars
  <2>1. HeldOK(m)'
    BY <1>1, <1>3 DEF vars, server, HeldOK, AtHand, ShownOK, Origin
  <2> QED
    BY <1>2, <1>3, <2>1 DEF vars, server
<1>4. ASSUME NEW n \in Servers, HandleEvent(n) \/ Reconcile(n)
      PROVE  HeldOK(m)' /\ ~Precedes(ps[m].prov, ps'[m].prov)
  <2>1. CASE m = n
    BY <1>4, <2>1, ProjectionHolds
  <2>2. CASE m # n
    <3>1. /\ ps'[m] = ps[m] /\ events'[m] = events[m] /\ lagged'[m] = lagged[m]
          /\ engine'[m] = engine[m] /\ applying'[m] = applying[m]
      BY <1>1, <1>4, <2>2 DEF HandleEvent, Reconcile, ProjectAs, SyncTypes, QueueTypes
    <3>2. proc'[m].boot = proc[m].boot /\ proc'[m].lamport >= proc[m].lamport
      BY <1>4, ProjectionTicks DEF HeldInv, Ticks
    <3> QED
      BY <1>1, <1>2, <3>1, <3>2, HeldStays
  <2> QED
    BY <2>1, <2>2
<1>5. ASSUME NEW n \in Servers,
             \/ \E t \in Tracks, p \in BOOLEAN : Steer(n, t, p) \/ Skip(n, t, p)
             \/ Checkpoint(n) \/ Load(n) \/ ResumeOrPause(n) \/ Record(n) \/ GiveUp(n)
      PROVE  HeldOK(m)' /\ ~Precedes(ps[m].prov, ps'[m].prov)
  <2>1. UNCHANGED <<ps, proc>>
    BY <1>5 DEF Steer, Skip, Checkpoint, Load, ResumeOrPause, Record, GiveUp
  <2>2. CASE m = n
    BY <1>2, <1>5, <2>1, <2>2, EnginesHold
  <2>3. CASE m # n
    <3>1. proc'[m].lamport >= proc[m].lamport
      BY <1>1, <2>1 DEF SyncTypes, ProcTypes, Processes
    <3> QED
      BY <1>1, <1>2, <1>5, <2>1, <2>3, <3>1, EnginesLocal, HeldStays
  <2> QED
    BY <2>2, <2>3
<1>6. ASSUME \/ \E d \in Dials : Connect(d) \/ Disconnect(d)
             \/ \E l \in Links : Receive(l)
             \/ \E n \in Servers : ReceiveLate(n)
      PROVE  HeldOK(m)' /\ ~Precedes(ps[m].prov, ps'[m].prov)
  <2>1. ps' = ps
    BY <1>6 DEF Connect, Disconnect, Receive, ReceiveLate, server
  <2> QED
    BY <1>2, <1>6, <2>1, LinksHold
<1>7. ASSUME NEW n \in Servers, NEW clean \in BOOLEAN, Restart(n, clean)
      PROVE  /\ HeldOK(m)'
             /\ proc'[m].boot = proc[m].boot => ~Precedes(ps[m].prov, ps'[m].prov)
  <2>1. m = n => proc'[m].boot # proc[m].boot
    BY <1>1, <1>7 DEF Restart, SyncTypes, ProcTypes, Processes
  <2> QED
    BY <1>2, <1>7, <2>1, RestartHolds
<1>8. ASSUME NEW n \in Servers, NEW i \in Inits, InitEpoch(n, i) \/ InitLoad(n, i) \/ InitStore(n, i)
      PROVE  HeldOK(m)' /\ ~Precedes(ps[m].prov, ps'[m].prov)
  BY <1>2, <1>8, InitsHold
<1>9. CASE Next
  BY <1>4, <1>5, <1>6, <1>7, <1>8, <1>9 DEF Next, Progress
<1> QED
  BY <1>3, <1>9

LEMMA HeldStart == Init => HeldInv
<1> SUFFICES ASSUME Init, NEW n \in Servers PROVE HeldOK(n)
  BY StampsStart DEF HeldInv
<1>1. n # 0 /\ Reserve \in Nat
  BY ServersAssumption, BoundsAssumption
<1> QED
  BY <1>1 DEF Init, HeldOK, ShownOK, IdleEngine, LocalOrigin, NotApplying, Default, Unstamped

LEMMA HeldNext == ASSUME Orderly PROVE HeldInv /\ [Next]_vars => HeldInv'
<1> SUFFICES ASSUME HeldInv, [Next]_vars PROVE HeldInv'
  OBVIOUS
<1>1. StampInv'
  BY StampsStep DEF HeldInv
<1>2. \A m \in Servers : HeldOK(m)'
  BY HeldStep
<1> QED
  BY <1>1, <1>2 DEF HeldInv

\* StateNeverRegresses: while a process runs, what it shows never gives way to a
\* state that this has precedence over, in whatever order events, states of
\* peers, disconnections and restarts of others come.
THEOREM StatesDoNotRegress == ASSUME Orderly PROVE Spec => StateNeverRegresses
<1>1. HeldInv /\ [Next]_vars =>
        [\A n \in Servers : proc'[n].boot = proc[n].boot
            => ~Precedes(ps[n].prov, ps'[n].prov)]_vars
  BY HeldStep
<1> QED
  BY <1>1, HeldStart, HeldNext, PTL DEF Spec, StateNeverRegresses

-----------------------------------------------------------------------------
(***************************************************************************)
(* What the servers agree on                                               *)
(***************************************************************************)
\* Each pair of servers is connected, and nothing happens but commands, each of
\* which finds its server with nothing under way.
Peaceful == /\ Hazards = {} /\ Connected
            /\ \A n, m \in Servers : n # m => <<n, m>> \in Dials \/ <<m, n>> \in Dials

\* The state a server is on its way to show: the one it applies, the timeline
\* whose events wait, or the one it shows.
Shown(n) == [prov |-> engine[n].origin.prov, track |-> engine[n].track,
             playing |-> engine[n].playing]
Aim(n) == IF applying[n].pc # "idle" THEN applying[n].state
          ELSE IF ~engine[n].origin.local /\ events[n] # <<>> THEN Shown(n)
          ELSE ps[n]
OnTheWay(l) == {net[l][i] : i \in DOMAIN net[l]}
Told == {Aim(n) : n \in Servers} \cup {sent[d] : d \in Dials}
          \cup UNION {OnTheWay(l) : l \in Links}

\* Among the states that are told, precedence is the Lamport clock, then the
\* device.
Outranks(p, q) == p.lamport > q.lamport \/ (p.lamport = q.lamport /\ p.dev > q.dev)
ToldOK(x) ==
  IF x.prov.dev = 0 THEN x = Default
  ELSE /\ x.prov.epoch = proc[x.prov.dev].epoch /\ x.prov.boot = proc[x.prov.dev].boot
       /\ x.prov.seq <= proc[x.prov.dev].seq /\ x.prov.lamport <= proc[x.prov.dev].lamport
       /\ x.track # NoTrack
Timely(x, y) ==
  x.prov.dev = y.prov.dev => /\ x.prov.seq < y.prov.seq => x.prov.lamport < y.prov.lamport
                             /\ x.prov.seq = y.prov.seq => x = y

\* A server aims no lower than a state, or the state or a later one of its
\* device comes to it.
Reached(m, x) == ~Outranks(x.prov, Aim(m).prov)
Comes(l, m, x) == /\ To(l) = m
                  /\ \E i \in DOMAIN net[l] : /\ net[l][i].prov.dev = x.prov.dev
                                              /\ net[l][i].prov.seq >= x.prov.seq
Coming(m, x) == \E l \in Links : Comes(l, m, x)

\* Once a server has applied what it aims at, it plays what it shows.
PlayOK(n) ==
  /\ applying[n].pc # "idle" => applying[n].state.prov.dev # 0
  /\ applying[n].pc \in {"play", "volume"} => engine[n].track = applying[n].state.track
  /\ applying[n].pc = "volume" => engine[n].playing = applying[n].state.playing
  /\ applying[n].pc = "idle" /\ events[n] = <<>> =>
       /\ ps[n].track = engine[n].track /\ ps[n].playing = engine[n].playing
       /\ ~engine[n].origin.local => ps[n].prov = engine[n].origin.prov
  /\ engine[n].playing \/ events[n] # <<>> => engine[n].track # NoTrack
StartedOK(n) == /\ \A i \in Inits : proc[n].init[i].pc = "done"
                /\ late[n] = <<>> /\ Aim(n).prov.lamport <= proc[n].lamport
\* What is remembered of a peer is not ahead of it.
BooksOK(n) ==
  /\ \A m \in Servers : cursor[n][m].epoch <= proc[m].epoch /\ cursor[n][m].seq <= proc[m].seq
  /\ \A e \in processed[n] : e[1] \in Servers /\ e[3] <= proc[e[1]].seq
LinkOK(l) == (l[2] = "greet" => net[l] = <<>>) /\ \A i \in DOMAIN net[l] : net[l][i].prov.dev = From(l)

\* The inductive invariant: every state told has reached every server or comes to it.
TellingOK ==
  /\ \A x \in Told : ToldOK(x)
  /\ \A x, y \in Told : Timely(x, y)
  /\ \A x \in Told, m \in Servers : Reached(m, x) \/ Coming(m, x)
  /\ \A x \in Told, m \in Servers :
        m # x.prov.dev /\ x.prov.dev # 0 /\ IsOld(m, x.prov) => Reached(m, x)
PeaceOK ==
  /\ processed \in [Servers -> SUBSET (Servers \X Nat \X Nat)]
  /\ \A n \in Servers : PlayOK(n) /\ StartedOK(n) /\ BooksOK(n)
  /\ \A d \in Dials : conn[d] /\ Reached(d[1], sent[d])
  /\ \A l \in Links : LinkOK(l)
PeaceInv == HeldInv /\ PeaceOK /\ TellingOK

LEMMA PeaceIsOrderly == ASSUME Peaceful PROVE Orderly /\ InTurn
  BY DEF Peaceful, Orderly, InTurn

\* Provenances are ordered by Lamport clock and device.
LEMMA RankFacts ==
  ASSUME NEW p \in Provenances, NEW q \in Provenances
  PROVE  /\ ~Outranks(p, p) /\ (Outranks(p, q) => ~Outranks(q, p))
         /\ \A r \in Provenances : ~Outranks(p, q) /\ ~Outranks(q, r) => ~Outranks(p, r)
<1>1. \A d \in Servers \cup {0} : d \in Nat
  BY ServersAssumption
<1>2. \A r \in Provenances : r.dev \in Nat /\ r.lamport \in Nat
  BY <1>1 DEF Provenances
<1> QED
  BY <1>2 DEF Outranks

LEMMA ShownTyped ==
  ASSUME SyncTypes, NEW n \in Servers
  PROVE  Shown(n) \in DatedStates /\ ps[n] \in DatedStates /\ applying[n].state \in DatedStates
         /\ Aim(n) \in DatedStates
<1>1. engine[n] \in Engines /\ ps[n] \in DatedStates /\ applying[n] \in Applications
  BY DEF SyncTypes
<1>2. Shown(n) \in DatedStates
  BY <1>1 DEF Shown, Engines, DatedOrigins, DatedStates
<1>3. applying[n].state \in DatedStates
  BY <1>1 DEF Applications
<1> QED
  BY <1>1, <1>2, <1>3 DEF Aim

\* What is told, variable by variable.
ToldIn(S) == /\ \A n \in Servers : Aim(n) \in S
             /\ \A d \in Dials : sent[d] \in S
             /\ \A l \in Links : OnTheWay(l) \subseteq S

LEMMA ToldIsIn == ToldIn(Told)
  BY DEF ToldIn, Told

LEMMA ToldLands == ASSUME NEW S, ToldIn(S)' PROVE Told' \subseteq S
  BY DEF ToldIn, Told

LEMMA ToldTyped ==
  ASSUME SyncTypes
  PROVE  \A x \in Told : /\ x \in DatedStates /\ x.prov \in Dated /\ x.prov \in Provenances
                         /\ x.prov.dev \in Servers \cup {0} /\ x.prov.dev \in Nat
                         /\ x.prov.seq \in Nat /\ x.prov.lamport \in Nat /\ x.prov.epoch \in Nat
                         /\ (x.prov.dev # 0 => x.prov.dev \in Servers /\ x.prov.lamport > 0)
<1>1. ToldIn(DatedStates)
  <2>1. \A l \in Links : net[l] \in Seq(DatedStates)
    BY DEF SyncTypes, WireTypes
  <2>2. \A l \in Links : OnTheWay(l) \subseteq DatedStates
    BY <2>1 DEF OnTheWay
  <2>3. \A d \in Dials : sent[d] \in DatedStates
    BY DEF SyncTypes, WireTypes
  <2> QED
    BY <2>2, <2>3, ShownTyped DEF ToldIn
<1>2. Told \subseteq DatedStates
  BY <1>1 DEF ToldIn, Told
<1>3. \A d \in Servers \cup {0} : d \in Nat
  BY ServersAssumption
<1> QED
  BY <1>2, <1>3 DEF DatedStates, Dated, Provenances

\* Among the states that are told, one that has precedence outranks.
LEMMA PrecedenceIsRank ==
  ASSUME SyncTypes, TellingOK, NEW x \in Told, NEW y \in Told
  PROVE  Precedes(x.prov, y.prov) <=> Outranks(x.prov, y.prov)
<1> DEFINE p == x.prov
           q == y.prov
<1>1. /\ p.dev \in Nat /\ q.dev \in Nat /\ p.seq \in Nat /\ q.seq \in Nat
      /\ p.lamport \in Nat /\ q.lamport \in Nat /\ p.epoch \in Nat /\ q.epoch \in Nat
      /\ (p.dev # 0 => p.lamport > 0) /\ (q.dev # 0 => q.lamport > 0)
  BY ToldTyped
<1>2. ToldOK(x) /\ ToldOK(y) /\ Timely(x, y) /\ Timely(y, x)
  BY DEF TellingOK
<1>3. CASE p.dev # 0 /\ p.dev = q.dev
  <2>1. p.epoch = q.epoch
    BY <1>2, <1>3 DEF ToldOK
  <2>2. /\ p.seq < q.seq => p.lamport < q.lamport
        /\ q.seq < p.seq => q.lamport < p.lamport
        /\ p.seq = q.seq => p.lamport = q.lamport
    BY <1>2, <1>3 DEF Timely
  <2> HIDE DEF p, q
  <2>3. Precedes(p, q) <=> Outranks(p, q)
    BY <1>1, <1>3, <2>1, <2>2 DEF Precedes, Outranks
  <2> QED
    BY <2>3 DEF p, q
<1>4. CASE p.dev = 0 /\ q.dev = 0
  <2>1. p.lamport = 0 /\ q.lamport = 0
    BY <1>2, <1>4 DEF ToldOK, Default, Unstamped
  <2> HIDE DEF p, q
  <2>2. Precedes(p, q) <=> Outranks(p, q)
    BY <1>1, <1>4, <2>1 DEF Precedes, Outranks
  <2> QED
    BY <2>2 DEF p, q
<1>5. CASE p.dev # q.dev
  <2> HIDE DEF p, q
  <2>1. Precedes(p, q) <=> Outranks(p, q)
    BY <1>1, <1>5 DEF Precedes, Outranks
  <2> QED
    BY <2>1 DEF p, q
<1> QED
  BY <1>3, <1>4, <1>5

\* A server that has reached a later state of a device has reached the earlier ones.
LEMMA LaterIsHigher ==
  ASSUME SyncTypes, TellingOK, NEW x \in Told, NEW y \in Told,
         x.prov.dev = y.prov.dev, x.prov.seq <= y.prov.seq
  PROVE  ~Outranks(x.prov, y.prov)
<1>1. /\ x.prov.seq \in Nat /\ y.prov.seq \in Nat /\ x.prov.dev \in Nat
      /\ x.prov.lamport \in Nat /\ y.prov.lamport \in Nat
  BY ToldTyped
<1>2. x.prov.lamport <= y.prov.lamport
  <2>1. Timely(x, y)
    BY DEF TellingOK
  <2>2. CASE x.prov.seq < y.prov.seq
    BY <1>1, <2>1, <2>2 DEF Timely
  <2>3. CASE x.prov.seq = y.prov.seq
    BY <1>1, <2>1, <2>3 DEF Timely
  <2> QED
    BY <1>1, <2>2, <2>3
<1> QED
  BY <1>1, <1>2 DEF Outranks

\* A server's aim only rises.
Rises(m) == ~Outranks(Aim(m).prov, Aim(m)'.prov)

LEMMA AimIsTyped == SyncTypes => \A n \in Servers : Aim(n) \in DatedStates
  BY ShownTyped

LEMMA NextAimIsTyped == SyncTypes' => (\A n \in Servers : Aim(n) \in DatedStates)'
  BY AimIsTyped, PTL

LEMMA ReachedStays ==
  ASSUME SyncTypes, SyncTypes', NEW m \in Servers, Rises(m),
         NEW x \in DatedStates, Reached(m, x)
  PROVE  Reached(m, x)'
<1>1. x.prov \in Provenances /\ Aim(m).prov \in Provenances /\ Aim(m)'.prov \in Provenances
  BY AimIsTyped, NextAimIsTyped DEF DatedStates, Dated
<1> QED
  BY <1>1, RankFacts DEF Reached, Rises

\* A step that tells nothing new, and what is left to show of it.
LEMMA TellingStays ==
  ASSUME SyncTypes, SyncTypes', TellingOK, Ticks, Told' \subseteq Told, \A m \in Servers : Rises(m),
         \A x \in Told, m \in Servers : Coming(m, x) => Coming(m, x)' \/ Reached(m, x)',
         \A x \in Told, m \in Servers :
            m # x.prov.dev /\ x.prov.dev # 0 /\ IsOld(m, x.prov)' => IsOld(m, x.prov) \/ Reached(m, x)'
  PROVE  TellingOK'
<1>1. \A x \in Told, m \in Servers : Reached(m, x) => Reached(m, x)'
  BY ToldTyped, ReachedStays
<1>2. \A x \in Told : ToldOK(x)'
  <2> SUFFICES ASSUME NEW x \in Told, x.prov.dev # 0 PROVE ToldOK(x)'
    BY DEF ToldOK, TellingOK
  <2>1. x.prov.dev \in Servers /\ x.prov.seq \in Nat /\ x.prov.lamport \in Nat /\ ToldOK(x)
    BY ToldTyped DEF TellingOK
  <2> DEFINE d == x.prov.dev
  <2>2. /\ proc'[d].boot = proc[d].boot /\ proc'[d].epoch = proc[d].epoch
        /\ proc'[d].seq >= proc[d].seq /\ proc'[d].lamport >= proc[d].lamport
    BY <2>1 DEF Ticks
  <2>3. proc[d] \in Processes /\ proc'[d] \in Processes
    BY <2>1 DEF SyncTypes, ProcTypes
  <2>4. proc[d].seq \in Nat /\ proc'[d].seq \in Nat /\ proc[d].lamport \in Nat /\ proc'[d].lamport \in Nat
    BY <2>3 DEF Processes
  <2> QED
    BY <2>1, <2>2, <2>4 DEF ToldOK
<1>3. \A x, y \in Told' : Timely(x, y)
  BY DEF TellingOK
<1>4. \A x \in Told', m \in Servers : Reached(m, x)' \/ Coming(m, x)'
  BY <1>1 DEF TellingOK
<1>5. \A x \in Told', m \in Servers :
        m # x.prov.dev /\ x.prov.dev # 0 /\ IsOld(m, x.prov)' => Reached(m, x)'
  BY <1>1 DEF TellingOK
<1> QED
  BY <1>2, <1>3, <1>4, <1>5 DEF TellingOK, Timely

LEMMA PeaceFacts ==
  ASSUME Peaceful, PeaceInv, NEW n \in Servers
  PROVE  /\ Orderly /\ SyncTypes /\ HeldOK(n) /\ PlayOK(n) /\ StartedOK(n) /\ BooksOK(n)
         /\ Aim(n) \in Told /\ Aim(n) \in DatedStates /\ ToldOK(Aim(n)) /\ ps[n] \in DatedStates
         /\ engine[n] \in Engines /\ events[n] \in Seq(DatedOrigins) /\ QueueTypes
<1>1. SyncTypes /\ HeldOK(n) /\ engine[n] \in Engines /\ events[n] \in Seq(DatedOrigins) /\ QueueTypes
  BY HeldFacts DEF PeaceInv, SyncTypes
<1>2. Aim(n) \in Told
  BY ToldIsIn DEF ToldIn
<1> QED
  BY <1>1, <1>2, PeaceIsOrderly, ShownTyped DEF PeaceInv, PeaceOK, TellingOK

\* A step on its engine does not change what a server aims at.
LEMMA CommandAims ==
  ASSUME Peaceful, PeaceInv, NEW n \in Servers,
         (\E t \in Tracks, p \in BOOLEAN : Steer(n, t, p)) \/ Checkpoint(n)
  PROVE  Aim(n)' = Aim(n) /\ PlayOK(n)'
<1>1. /\ Orderly /\ SyncTypes /\ HeldOK(n) /\ PlayOK(n) /\ ps[n] \in DatedStates /\ engine[n] \in Engines
      /\ QueueTypes
  BY PeaceFacts
<1>2. applying[n].pc = "idle" /\ events[n] = <<>> /\ applying' = applying /\ ps' = ps
  BY <1>1 DEF Steer, Checkpoint, Calm, Orderly
<1>3. Aim(n) = ps[n]
  BY <1>2 DEF Aim
<1>4. ASSUME NEW t \in Tracks, NEW p \in BOOLEAN, Steer(n, t, p) PROVE Aim(n)' = ps[n] /\ PlayOK(n)'
  <2>1. engine'[n].origin.local /\ engine'[n].track = t /\ t # NoTrack /\ Emit(n, LocalOrigin)
    BY <1>1, <1>4, TracksAssumption DEF Steer, Engine, SyncTypes, LocalOrigin
  <2>2. events'[n] # <<>>
    BY <1>1, <1>2, <2>1, BlankTypes, EmitSame
  <2> QED
    BY <1>2, <2>1, <2>2 DEF Aim, PlayOK
<1>5. CASE Checkpoint(n)
  <2>1. engine' = engine /\ Emit(n, engine[n].origin) /\ engine[n].playing
    BY <1>5 DEF Checkpoint
  <2>2. events'[n] # <<>>
    BY <1>1, <1>2, <2>1, EmitSame DEF Engines
  <2>3. PlayOK(n)'
    BY <1>1, <1>2, <2>1, <2>2 DEF PlayOK
  <2>4. ~engine[n].origin.local => Shown(n)' = ps[n]
    <3> SUFFICES ASSUME ~engine[n].origin.local PROVE Shown(n)' = ps[n]
      OBVIOUS
    <3>1. /\ ps[n].track = engine[n].track /\ ps[n].playing = engine[n].playing
          /\ ps[n].prov = engine[n].origin.prov
      BY <1>1, <1>2 DEF PlayOK
    <3>2. Shown(n)' = [prov |-> ps[n].prov, track |-> ps[n].track, playing |-> ps[n].playing]
      BY <2>1, <3>1 DEF Shown
    <3> QED
      BY <1>1, <3>2 DEF DatedStates
  <2> QED
    BY <1>2, <2>1, <2>2, <2>3, <2>4 DEF Aim
<1> QED
  BY <1>3, <1>4, <1>5

LEMMA ApplicationAims ==
  ASSUME Peaceful, PeaceInv, NEW n \in Servers, Load(n) \/ ResumeOrPause(n) \/ Record(n)
  PROVE  Aim(n)' = Aim(n) /\ PlayOK(n)'
<1>1. /\ SyncTypes /\ HeldOK(n) /\ PlayOK(n) /\ ps[n] \in DatedStates /\ engine[n] \in Engines
      /\ QueueTypes /\ Aim(n) \in DatedStates /\ Origin(n) \in DatedOrigins
  BY PeaceFacts, HeldFacts DEF PeaceInv
<1> DEFINE s == applying[n].state
<1>2. applying[n].pc \in {"load", "play", "volume"} /\ ps' = ps
  BY DEF Load, ResumeOrPause, Record
<1>3. Aim(n) = s /\ s \in DatedStates
  BY <1>1, <1>2 DEF Aim
<1>4. s.prov.dev # 0 /\ s.track # NoTrack
  BY <1>1, <1>2, <1>3, PeaceFacts DEF PlayOK, ToldOK
<1>5. ASSUME NEW pc \in {"play", "volume"}, Goto(n, pc)
      PROVE  applying'[n].pc = pc /\ applying'[n].state = s
  BY <1>1, <1>5 DEF Goto, SyncTypes, Applications
<1>6. CASE Load(n)
  <2>1. applying[n].pc = "load" /\ applying'[n].pc = "play" /\ applying'[n].state = s
    BY <1>5, <1>6 DEF Load
  <2>2. engine'[n].track = s.track
    BY <1>1, <1>4, <1>6 DEF Load, Engine, SyncTypes
  <2>3. Aim(n)' = s
    BY <2>1 DEF Aim
  <2>4. PlayOK(n)'
    BY <1>4, <2>1, <2>2 DEF PlayOK
  <2> QED
    BY <1>3, <2>3, <2>4
<1>7. CASE ResumeOrPause(n)
  <2>1. applying[n].pc = "play" /\ applying'[n].pc = "volume" /\ applying'[n].state = s
    BY <1>5, <1>7 DEF ResumeOrPause
  <2> DEFINE e == [engine[n] EXCEPT !.playing = s.playing, !.origin = Origin(n)]
  <2>2. e.track = engine[n].track /\ e.playing = s.playing
    BY <1>1 DEF Engines
  <2>3. engine' = [engine EXCEPT ![n] = e]
    BY <1>7 DEF ResumeOrPause, Engine
  <2>4. engine'[n].track = engine[n].track /\ engine'[n].playing = s.playing
    <3> HIDE DEF e
    <3> QED
      BY <1>1, <2>2, <2>3 DEF SyncTypes
  <2>5. engine[n].track = s.track
    BY <1>1, <2>1 DEF PlayOK
  <2>6. Aim(n)' = s
    BY <2>1 DEF Aim
  <2>7. PlayOK(n)'
    BY <1>4, <2>1, <2>4, <2>5 DEF PlayOK
  <2> QED
    BY <1>3, <2>6, <2>7
<1>8. CASE Record(n)
  <2>1. applying[n].pc = "volume" /\ applying'[n].pc = "idle" /\ engine' = engine /\ Emit(n, Origin(n))
    BY <1>1, <1>8 DEF Record, Release, NotApplying, SyncTypes
  <2>2. engine[n].origin = Origin(n) /\ \A i \in DOMAIN events[n] : events[n][i] = Origin(n)
    BY <1>1, <2>1 DEF HeldOK
  <2>3. events'[n] # <<>>
    BY <1>1, <2>1, <2>2, EmitSame
  <2>4. engine[n].track = s.track /\ engine[n].playing = s.playing
    BY <1>1, <2>1 DEF PlayOK
  <2>5. ~engine[n].origin.local /\ engine[n].origin.prov = s.prov
    BY <2>2 DEF Origin
  <2>6. Shown(n)' = [prov |-> s.prov, track |-> s.track, playing |-> s.playing]
    BY <2>1, <2>4, <2>5 DEF Shown
  <2>7. Shown(n)' = s
    BY <1>3, <2>6 DEF DatedStates
  <2>8. Aim(n)' = Shown(n)'
    BY <2>1, <2>3, <2>5 DEF Aim
  <2>9. PlayOK(n)'
    BY <1>4, <2>1, <2>3, <2>4 DEF PlayOK
  <2> QED
    BY <1>3, <2>7, <2>8, <2>9
<1> QED
  BY <1>6, <1>7, <1>8

LEMMA EventIdTells ==
  ASSUME NEW p, NEW q
  PROVE  /\ EventId(p)[1] = p.dev /\ EventId(p)[3] = p.seq
         /\ (EventId(p) = EventId(q) => p.dev = q.dev /\ p.boot = q.boot /\ p.seq = q.seq)
  BY DEF EventId

\* What Record remembers is not ahead of the peer, and makes no state old that
\* the server has not reached.
LEMMA RecordBooks ==
  ASSUME Peaceful, PeaceInv, NEW n \in Servers, Record(n)
  PROVE  /\ BooksOK(n)' /\ processed' \in [Servers -> SUBSET (Servers \X Nat \X Nat)]
         /\ \A m \in Servers : m # n => processed'[m] = processed[m] /\ cursor'[m] = cursor[m]
         /\ \A x \in Told : x.prov.dev # n /\ x.prov.dev # 0 /\ IsOld(n, x.prov)' =>
               IsOld(n, x.prov) \/ Reached(n, x)
<1> DEFINE s == applying[n].state
           p == s.prov
<1>1. /\ SyncTypes /\ PlayOK(n) /\ BooksOK(n) /\ Aim(n) \in Told /\ ToldOK(Aim(n)) /\ TellingOK
      /\ processed \in [Servers -> SUBSET (Servers \X Nat \X Nat)]
      /\ cursor \in [Servers -> [Servers -> Cursors]] /\ applying[n].pc = "volume" /\ proc' = proc
  BY PeaceFacts DEF PeaceInv, PeaceOK, SyncTypes, Record
<1>2. Aim(n) = s
  BY <1>1 DEF Aim
<1>3. p.dev # 0 /\ p.dev \in Servers /\ p \in Dated /\ s \in Told
  BY <1>1, <1>2, ToldTyped DEF PlayOK
<1>4. p.epoch \in Nat /\ p.boot \in Nat /\ p.seq \in Nat
  BY <1>3 DEF Dated, Provenances
<1>5. p.epoch = proc[p.dev].epoch /\ p.boot = proc[p.dev].boot /\ p.seq <= proc[p.dev].seq
  BY <1>1, <1>2, <1>3 DEF ToldOK
<1>6. proc[p.dev].epoch \in Nat /\ proc[p.dev].seq \in Nat
  <2>1. proc[p.dev] \in Processes
    BY <1>1, <1>3 DEF SyncTypes, ProcTypes
  <2> QED
    BY <2>1 DEF Processes
<1>7. PICK r : r = {EventId(p)} \cup (IF Cardinality(processed[n]) > EventMemory THEN {} ELSE processed[n])
  OBVIOUS
<1>8. PICK c : c = [epoch |-> p.epoch, boot |-> p.boot, seq |-> p.seq]
  OBVIOUS
<1>9. processed' = [processed EXCEPT ![n] = r] /\ cursor' = [cursor EXCEPT ![n][p.dev] = c]
  BY <1>3, <1>7, <1>8 DEF Record
<1>10. c \in Cursors /\ c.epoch = p.epoch /\ c.boot = p.boot /\ c.seq = p.seq
  BY <1>4, <1>8 DEF Cursors
<1>11. r \in SUBSET (Servers \X Nat \X Nat) /\ \A e \in r : e = EventId(p) \/ e \in processed[n]
  <2>1. EventId(p) \in Servers \X Nat \X Nat
    BY <1>3, <1>4 DEF EventId
  <2>2. processed[n] \in SUBSET (Servers \X Nat \X Nat)
    BY <1>1
  <2> QED
    BY <1>7, <2>1, <2>2
<1> HIDE DEF s, p
<1>12. /\ processed'[n] = r /\ \A m \in Servers : m # n => processed'[m] = processed[m]
       /\ processed' \in [Servers -> SUBSET (Servers \X Nat \X Nat)]
  BY <1>1, <1>9, <1>11
<1>13. /\ cursor'[n][p.dev] = c /\ \A m \in Servers : m # p.dev => cursor'[n][m] = cursor[n][m]
       /\ \A m \in Servers : m # n => cursor'[m] = cursor[m]
  BY <1>1, <1>3, <1>9
<1>14. BooksOK(n)'
  <2>1. ASSUME NEW m \in Servers PROVE cursor'[n][m].epoch <= proc[m].epoch /\ cursor'[n][m].seq <= proc[m].seq
    <3>1. CASE m = p.dev
      BY <1>5, <1>6, <1>10, <1>13, <3>1
    <3>2. CASE m # p.dev
      BY <1>1, <1>13, <3>2 DEF BooksOK
    <3> QED
      BY <3>1, <3>2
  <2>2. ASSUME NEW e \in r PROVE e[1] \in Servers /\ e[3] <= proc[e[1]].seq
    <3>1. CASE e \in processed[n]
      BY <1>1, <3>1 DEF BooksOK
    <3>2. CASE e = EventId(p)
      BY <1>3, <1>5, <3>2, EventIdTells
    <3> QED
      BY <1>11, <3>1, <3>2
  <2> QED
    BY <1>1, <1>12, <2>1, <2>2 DEF BooksOK
<1>15. ASSUME NEW x \in Told, x.prov.dev # n, x.prov.dev # 0, IsOld(n, x.prov)'
       PROVE  IsOld(n, x.prov) \/ Reached(n, x)
  <2>1. /\ x.prov.dev \in Servers /\ x.prov.seq \in Nat /\ x.prov.epoch \in Nat /\ ToldOK(x)
    BY <1>1, <1>15, ToldTyped DEF TellingOK
  <2>2. ASSUME x.prov.dev = p.dev, x.prov.seq <= p.seq PROVE Reached(n, x)
    <3>1. ~Outranks(x.prov, p)
      BY <1>1, <1>2, <1>3, <2>2, LaterIsHigher DEF p
    <3> QED
      BY <1>2, <3>1 DEF Reached, p
  <2>3. EventId(x.prov) \in r \/ IsStale(n, x.prov)'
    BY <1>12, <1>15 DEF IsOld
  <2>4. CASE EventId(x.prov) \in processed[n]
    BY <1>15, <2>4 DEF IsOld
  <2>5. CASE EventId(x.prov) = EventId(p)
    <3>1. x.prov.dev = p.dev /\ x.prov.seq = p.seq
      BY <2>5, EventIdTells
    <3> QED
      BY <1>4, <2>2, <3>1 DEF p
  <2>6. CASE IsStale(n, x.prov)' /\ x.prov.dev # p.dev
    <3>1. cursor'[n][x.prov.dev] = cursor[n][x.prov.dev]
      BY <1>13, <2>1, <2>6
    <3> QED
      BY <1>15, <2>6, <3>1 DEF IsOld, IsStale
  <2>7. CASE IsStale(n, x.prov)' /\ x.prov.dev = p.dev
    <3>1. x.prov.epoch < p.epoch \/ x.prov.seq <= p.seq
      BY <1>10, <1>13, <2>7 DEF IsStale
    <3>2. x.prov.epoch = p.epoch
      BY <1>5, <2>1, <1>15, <2>7 DEF ToldOK
    <3> QED
      BY <2>1, <2>2, <2>7, <3>1, <3>2
  <2> QED
    BY <1>11, <2>3, <2>4, <2>5, <2>6, <2>7
<1> QED
  BY <1>12, <1>13, <1>14, <1>15

\* A step on an engine tells nothing.
LEMMA StillTells ==
  ASSUME SyncTypes, SyncTypes', TellingOK, Ticks, \A m \in Servers : Aim(m)' = Aim(m),
         UNCHANGED <<net, sent>>,
         \A x \in Told, m \in Servers :
            m # x.prov.dev /\ x.prov.dev # 0 /\ IsOld(m, x.prov)' => IsOld(m, x.prov) \/ Reached(m, x)
  PROVE  TellingOK' /\ \A m \in Servers : Rises(m)
<1>1. \A m \in Servers : Rises(m)
  <2> SUFFICES ASSUME NEW m \in Servers PROVE Rises(m)
    OBVIOUS
  <2>1. Aim(m).prov \in Provenances
    BY AimIsTyped DEF DatedStates, Dated
  <2> QED
    BY <2>1, RankFacts DEF Rises
<1>2. Told' \subseteq Told
  <2>1. PICK S : S = Told
    OBVIOUS
  <2>2. ToldIn(S)'
    BY <2>1, ToldIsIn DEF ToldIn, OnTheWay
  <2> QED
    BY <2>1, <2>2, ToldLands
<1>3. \A x \in Told, m \in Servers : Coming(m, x) => Coming(m, x)'
  BY DEF Coming, Comes
<1>4. \A x \in Told, m \in Servers : Reached(m, x) => Reached(m, x)'
  BY DEF Reached
<1> QED
  BY <1>1, <1>2, <1>3, <1>4, TellingStays

\* A server whose own variables stay.
LEMMA AimStays ==
  ASSUME NEW m \in Servers, applying'[m] = applying[m], engine'[m] = engine[m],
         events'[m] = events[m], ps'[m] = ps[m]
  PROVE  Aim(m)' = Aim(m) /\ (PlayOK(m) => PlayOK(m)')
  BY DEF Aim, Shown, PlayOK

LEMMA StartedStays ==
  ASSUME SyncTypes, SyncTypes', Ticks, NEW m \in Servers, StartedOK(m), late' = late,
         Aim(m)'.prov.lamport <= proc'[m].lamport \/ Aim(m)' = Aim(m)
  PROVE  StartedOK(m)'
<1>1. proc[m].lamport \in Nat /\ proc'[m].lamport \in Nat
  BY DEF SyncTypes, ProcTypes, Processes
<1>2. Aim(m).prov.lamport \in Nat
  BY AimIsTyped DEF DatedStates, Dated, Provenances
<1>3. proc'[m].lamport >= proc[m].lamport /\ proc'[m].init = proc[m].init
  BY DEF Ticks
<1>4. Aim(m)'.prov.lamport <= proc'[m].lamport
  BY <1>1, <1>2, <1>3 DEF StartedOK
<1> QED
  BY <1>3, <1>4 DEF StartedOK

LEMMA BooksStay ==
  ASSUME SyncTypes, SyncTypes', Ticks, NEW m \in Servers, BooksOK(m),
         cursor'[m] = cursor[m], processed'[m] = processed[m],
         processed \in [Servers -> SUBSET (Servers \X Nat \X Nat)]
  PROVE  BooksOK(m)'
<1>1. \A k \in Servers : /\ proc[k].epoch = proc'[k].epoch /\ proc'[k].seq >= proc[k].seq
                         /\ proc[k].seq \in Nat /\ proc'[k].seq \in Nat
  BY DEF SyncTypes, ProcTypes, Processes, Ticks
<1>2. \A k \in Servers : cursor[m][k].seq \in Nat
  BY DEF SyncTypes, Cursors
<1>3. \A e \in processed[m] : e[3] \in Nat
  BY DEF SyncTypes
<1> QED
  BY <1>1, <1>2, <1>3 DEF BooksOK

LEMMA OldStays ==
  ASSUME NEW m \in Servers, NEW x, cursor'[m] = cursor[m], processed'[m] = processed[m]
  PROVE  IsOld(m, x.prov)' = IsOld(m, x.prov)
  BY DEF IsOld, IsStale

LEMMA EnginesAgree ==
  ASSUME Peaceful, PeaceInv, NEW n \in Servers,
         \/ \E t \in Tracks, p \in BOOLEAN : Steer(n, t, p) \/ Skip(n, t, p)
         \/ Checkpoint(n) \/ Load(n) \/ ResumeOrPause(n) \/ Record(n) \/ GiveUp(n)
  PROVE  PeaceOK' /\ TellingOK'
<1>1. /\ SyncTypes /\ SyncTypes' /\ Ticks /\ PeaceOK /\ TellingOK
      /\ processed \in [Servers -> SUBSET (Servers \X Nat \X Nat)]
  BY EnginesTyped, EnginesTick DEF PeaceInv, PeaceOK, HeldInv, StampInv
<1>2. \/ \E t \in Tracks, p \in BOOLEAN : Steer(n, t, p)
      \/ Checkpoint(n) \/ Load(n) \/ ResumeOrPause(n) \/ Record(n)
  BY DEF Skip, GiveUp, Hazard, Peaceful
<1>3. UNCHANGED <<conn, sent, net, late, ps, proc>>
  BY <1>2 DEF Steer, Checkpoint, Load, ResumeOrPause, Record, wire
<1>4. \A m \in Servers : Aim(m)' = Aim(m) /\ PlayOK(m)'
  <2>1. Aim(n)' = Aim(n) /\ PlayOK(n)'
    BY <1>2, CommandAims, ApplicationAims
  <2>2. ASSUME NEW m \in Servers, m # n PROVE Aim(m)' = Aim(m) /\ PlayOK(m)'
    BY <1>1, <1>3, <2>2, EnginesLocal, AimStays DEF PeaceOK
  <2> QED
    BY <2>1, <2>2
<1>5. /\ processed' \in [Servers -> SUBSET (Servers \X Nat \X Nat)] /\ \A m \in Servers : BooksOK(m)'
      /\ \A x \in Told, m \in Servers :
            m # x.prov.dev /\ x.prov.dev # 0 /\ IsOld(m, x.prov)' => IsOld(m, x.prov) \/ Reached(m, x)
  <2>1. CASE Record(n)
    <3>1. ASSUME NEW m \in Servers, m # n
          PROVE  BooksOK(m)' /\ \A x \in Told : IsOld(m, x.prov)' = IsOld(m, x.prov)
      BY <1>1, <2>1, <3>1, RecordBooks, BooksStay, OldStays DEF PeaceOK
    <3> QED
      BY <2>1, <3>1, RecordBooks
  <2>2. CASE ~Record(n)
    <3>1. cursor' = cursor /\ processed' = processed
      BY <1>2, <2>2 DEF Steer, Checkpoint, Load, ResumeOrPause
    <3>2. ASSUME NEW m \in Servers
          PROVE  BooksOK(m)' /\ \A x \in Told : IsOld(m, x.prov)' = IsOld(m, x.prov)
      BY <1>1, <3>1, BooksStay, OldStays DEF PeaceOK
    <3> QED
      BY <1>1, <3>1, <3>2
  <2> QED
    BY <2>1, <2>2
<1>6. TellingOK'
  BY <1>1, <1>3, <1>4, <1>5, StillTells
<1>7. \A m \in Servers : StartedOK(m)'
  BY <1>1, <1>3, <1>4, StartedStays DEF PeaceOK
<1>8. \A d \in Dials : conn'[d] /\ Reached(d[1], sent[d])'
  BY <1>1, <1>3, <1>4, DialsAssumption DEF PeaceOK, Reached
<1>9. \A l \in Links : LinkOK(l)'
  BY <1>1, <1>3 DEF PeaceOK, LinkOK
<1> QED
  BY <1>4, <1>5, <1>6, <1>7, <1>8, <1>9 DEF PeaceOK

\* A projection is of the timeline, by a server that applies nothing, or the
\* origin of what it applies.
LEMMA ProjectionFacts ==
  ASSUME Peaceful, PeaceInv, NEW n \in Servers, HandleEvent(n) \/ Reconcile(n)
  PROVE  /\ SyncTypes /\ SyncTypes' /\ Ticks /\ PeaceOK /\ TellingOK
         /\ ProjectAs(n, engine[n].origin) /\ events[n] # <<>>
         /\ (engine[n].origin.local => applying[n].pc = "idle")
         /\ UNCHANGED <<engine, applying, cursor, processed, conn, sent, late>>
         /\ \A m \in Servers : m # n => events'[m] = events[m] /\ ps'[m] = ps[m]
<1>1. /\ SyncTypes /\ HeldOK(n) /\ events[n] \in Seq(DatedOrigins) /\ Orderly
  BY PeaceFacts
<1>2. SyncTypes' /\ Ticks /\ PeaceOK /\ TellingOK
  BY <1>1, ProjectionTyped, ProjectionTicks DEF PeaceInv, HeldInv
<1>3. ProjectAs(n, engine[n].origin) /\ events[n] # <<>>
  <2>1. CASE HandleEvent(n)
    <3>1. events[n] # <<>> /\ Head(events[n]) = events[n][1] /\ 1 \in DOMAIN events[n]
      BY <1>1, <2>1 DEF HandleEvent
    <3> QED
      BY <1>1, <2>1, <3>1 DEF HandleEvent, HeldOK
  <2>2. CASE Reconcile(n)
    BY <1>1, <2>2 DEF Reconcile, HeldOK
  <2> QED
    BY <2>1, <2>2
<1>4. engine[n].origin.local => applying[n].pc = "idle"
  <2>1. applying[n].pc \in {"idle", "load", "play", "volume"}
    BY <1>1 DEF SyncTypes, Applications
  <2>2. ~Origin(n).local
    BY DEF Origin
  <2> QED
    BY <1>1, <1>3, <2>1, <2>2 DEF HeldOK
<1>5. UNCHANGED <<engine, applying, cursor, processed, conn, sent, late>>
  BY DEF HandleEvent, Reconcile
<1>6. \A m \in Servers : m # n => events'[m] = events[m]
  BY <1>1 DEF HandleEvent, Reconcile, SyncTypes, QueueTypes
<1>7. \A m \in Servers : m # n => ps'[m] = ps[m]
  BY <1>1, <1>3 DEF ProjectAs, SyncTypes
<1> QED
  BY <1>1, <1>2, <1>3, <1>4, <1>5, <1>6, <1>7

\* Whatever is projected, the books are as they were.
LEMMA ProjectionKeepsBooks ==
  ASSUME Peaceful, PeaceInv, NEW n \in Servers, HandleEvent(n) \/ Reconcile(n), NEW m \in Servers
  PROVE  /\ BooksOK(m)' /\ (\A x \in Told : IsOld(m, x.prov)' = IsOld(m, x.prov))
         /\ (m # n => Aim(m)' = Aim(m) /\ PlayOK(m)')
<1>1. /\ SyncTypes /\ SyncTypes' /\ Ticks /\ PeaceOK
      /\ UNCHANGED <<engine, applying, cursor, processed>>
      /\ (m # n => events'[m] = events[m] /\ ps'[m] = ps[m])
  BY ProjectionFacts
<1>2. BooksOK(m)' /\ (\A x \in Told : IsOld(m, x.prov)' = IsOld(m, x.prov))
  BY <1>1, BooksStay, OldStays DEF PeaceOK
<1> QED
  BY <1>1, <1>2, AimStays DEF PeaceOK

\* The events of a peer's timeline bring up what the server already aims at.
LEMMA EchoAgrees ==
  ASSUME Peaceful, PeaceInv, NEW n \in Servers, HandleEvent(n) \/ Reconcile(n), ~engine[n].origin.local
  PROVE  PeaceOK' /\ TellingOK'
<1>1. /\ SyncTypes /\ SyncTypes' /\ Ticks /\ PeaceOK /\ TellingOK
      /\ ProjectAs(n, engine[n].origin) /\ events[n] # <<>>
      /\ UNCHANGED <<engine, applying, cursor, processed, conn, sent, late>>
  BY ProjectionFacts
<1>2. ps' = [ps EXCEPT ![n] = Shown(n)] /\ UNCHANGED <<proc, net>>
  BY <1>1 DEF ProjectAs, Shown
<1>3. ps'[n] = Shown(n) /\ Shown(n)' = Shown(n)
  BY <1>1, <1>2 DEF SyncTypes, Shown
<1>4. Aim(n)' = Aim(n)
  BY <1>1, <1>3 DEF Aim
<1>5. PlayOK(n)'
  BY <1>1, <1>3 DEF PlayOK, PeaceOK, Shown
<1>6. \A m \in Servers : Aim(m)' = Aim(m) /\ PlayOK(m)' /\ BooksOK(m)'
  BY <1>4, <1>5, ProjectionKeepsBooks
<1>7. TellingOK'
  BY <1>1, <1>2, <1>6, ProjectionKeepsBooks, StillTells
<1>8. \A m \in Servers : StartedOK(m)'
  BY <1>1, <1>6, StartedStays DEF PeaceOK
<1>9. \A d \in Dials : conn'[d] /\ Reached(d[1], sent[d])'
  BY <1>1, <1>6, DialsAssumption DEF PeaceOK, Reached
<1>10. \A l \in Links : LinkOK(l)'
  BY <1>1, <1>2 DEF PeaceOK, LinkOK
<1> QED
  BY <1>1, <1>6, <1>7, <1>8, <1>9, <1>10 DEF PeaceOK

\* What a broadcast leaves on the streams.
LEMMA PublishedFacts ==
  ASSUME NEW q \in [Links -> Seq(DatedStates)], NEW n, NEW s \in DatedStates, NEW l \in Links, NEW r,
         r = Published(q, n, s)[l]
  PROVE  /\ \A i \in DOMAIN q[l] : i \in DOMAIN r /\ r[i] = q[l][i]
         /\ \A i \in DOMAIN r : (i \in DOMAIN q[l] /\ r[i] = q[l][i]) \/ (r[i] = s /\ From(l) = n)
         /\ (l[2] = "greet" => r = q[l])
         /\ (l[2] # "greet" /\ From(l) = n /\ conn[l[1]] => \E i \in DOMAIN r : r[i] = s)
<1>1. q[l] \in Seq(DatedStates)
  OBVIOUS
<1>2. r = IF l[2] # "greet" /\ From(l) = n /\ conn[l[1]] THEN Append(q[l], s) ELSE q[l]
  BY DEF Published
<1>3. PICK t : t = q[l]
  OBVIOUS
<1>4. t \in Seq(DatedStates)
  BY <1>1, <1>3
<1>5. /\ \A i \in DOMAIN t : i \in DOMAIN Append(t, s) /\ Append(t, s)[i] = t[i]
      /\ \A i \in DOMAIN Append(t, s) : (i \in DOMAIN t /\ Append(t, s)[i] = t[i]) \/ Append(t, s)[i] = s
      /\ \E i \in DOMAIN Append(t, s) : Append(t, s)[i] = s
  <2>1. Len(t) \in Nat /\ DOMAIN t = 1..Len(t) /\ DOMAIN Append(t, s) = 1..(Len(t) + 1)
        /\ Append(t, s)[Len(t) + 1] = s /\ \A i \in 1..Len(t) : Append(t, s)[i] = t[i]
    BY <1>4
  <2> QED
    BY <2>1
<1> QED
  BY <1>2, <1>3, <1>5

\* Each pair of servers has a stream in either direction.
LEMMA StreamsLead ==
  ASSUME Peaceful, NEW n \in Servers, NEW m \in Servers, m # n
  PROVE  \E l \in Links : l[2] # "greet" /\ From(l) = n /\ To(l) = m
<1>1. CASE <<n, m>> \in Dials
  <2>1. PICK d : d = <<n, m>>
    OBVIOUS
  <2>2. PICK l : l = <<d, "up">>
    OBVIOUS
  <2>3. l \in Links /\ l[1] = d /\ l[2] = "up"
    BY <1>1, <2>1, <2>2 DEF Links, Streams
  <2>4. From(l) = n /\ To(l) = m
    BY <2>1, <2>3 DEF From, To
  <2> QED
    BY <2>3, <2>4
<1>2. CASE <<m, n>> \in Dials
  <2>1. PICK d : d = <<m, n>>
    OBVIOUS
  <2>2. PICK l : l = <<d, "down">>
    OBVIOUS
  <2>3. l \in Links /\ l[1] = d /\ l[2] = "down"
    BY <1>2, <2>1, <2>2 DEF Links, Streams
  <2>4. From(l) = n /\ To(l) = m
    BY <2>1, <2>3 DEF From, To
  <2> QED
    BY <2>3, <2>4
<1> QED
  BY <1>1, <1>2 DEF Peaceful

\* A local event is told to every peer, and outranks all that is told.
LEMMA NewsFacts ==
  ASSUME Peaceful, PeaceInv, NEW n \in Servers, HandleEvent(n) \/ Reconcile(n), engine[n].origin.local
  PROVE  \E y \in DatedStates :
           /\ ps'[n] = y /\ Aim(n)' = y /\ net' = Published(net, n, y) /\ PlayOK(n)'
           /\ y.prov.dev = n /\ y.track # NoTrack
           /\ y.prov.epoch = proc[n].epoch /\ y.prov.boot = proc[n].boot
           /\ y.prov.seq = proc[n].seq + 1 /\ y.prov.lamport = proc[n].lamport + 1
           /\ proc'[n].seq = y.prov.seq /\ proc'[n].lamport = y.prov.lamport
<1>1. /\ SyncTypes /\ SyncTypes' /\ PeaceOK /\ ProjectAs(n, engine[n].origin) /\ events[n] # <<>>
      /\ applying[n].pc = "idle" /\ UNCHANGED <<engine, applying>>
  BY ProjectionFacts
<1>2. PICK p : p = [dev |-> n, epoch |-> proc[n].epoch, boot |-> proc[n].boot,
                    seq |-> proc[n].seq + 1, lamport |-> proc[n].lamport + 1]
  OBVIOUS
<1>3. PICK y : y = [prov |-> p, track |-> engine[n].track, playing |-> engine[n].playing]
  OBVIOUS
<1>4. /\ ps' = [ps EXCEPT ![n] = y] /\ net' = Published(net, n, y)
      /\ proc' = [proc EXCEPT ![n].seq = p.seq, ![n].lamport = p.lamport]
  BY <1>1, <1>2, <1>3 DEF ProjectAs
<1>5. ps'[n] = y /\ ps'[n] \in DatedStates
  BY <1>1, <1>4 DEF SyncTypes
<1>6. proc'[n].seq = p.seq /\ proc'[n].lamport = p.lamport
  BY <1>1, <1>4 DEF SyncTypes, ProcTypes, Processes
<1>7. Aim(n)' = y
  BY <1>1, <1>5 DEF Aim
<1>8. engine[n].track # NoTrack /\ y.track = engine[n].track /\ y.playing = engine[n].playing /\ y.prov = p
  BY <1>1, <1>3 DEF PeaceOK, PlayOK
<1>9. PlayOK(n)'
  BY <1>1, <1>5, <1>8 DEF PeaceOK, PlayOK
<1> QED
  BY <1>2, <1>4, <1>5, <1>6, <1>7, <1>8, <1>9

LEMMA NewsAgrees ==
  ASSUME Peaceful, PeaceInv, NEW n \in Servers, HandleEvent(n) \/ Reconcile(n), engine[n].origin.local
  PROVE  PeaceOK' /\ TellingOK'
<1>1. /\ SyncTypes /\ SyncTypes' /\ Ticks /\ PeaceOK /\ TellingOK
      /\ UNCHANGED <<cursor, processed, conn, sent, late>>
  BY ProjectionFacts
<1>2. PICK y \in DatedStates :
           /\ ps'[n] = y /\ Aim(n)' = y /\ net' = Published(net, n, y) /\ PlayOK(n)'
           /\ y.prov.dev = n /\ y.track # NoTrack
           /\ y.prov.epoch = proc[n].epoch /\ y.prov.boot = proc[n].boot
           /\ y.prov.seq = proc[n].seq + 1 /\ y.prov.lamport = proc[n].lamport + 1
           /\ proc'[n].seq = y.prov.seq /\ proc'[n].lamport = y.prov.lamport
  BY NewsFacts
<1>3. /\ \A m \in Servers : m # n => Aim(m)' = Aim(m) /\ PlayOK(m)'
      /\ \A m \in Servers : BooksOK(m)'
      /\ \A x \in Told, m \in Servers : IsOld(m, x.prov)' = IsOld(m, x.prov)
  BY ProjectionKeepsBooks
<1>4. /\ proc[n].seq \in Nat /\ proc[n].lamport \in Nat /\ proc[n].epoch \in Nat /\ proc[n].boot \in Nat
      /\ n \in Nat /\ n # 0 /\ y.prov \in Provenances
  BY <1>1, ServersAssumption DEF SyncTypes, ProcTypes, Processes, DatedStates, Dated
<1>5. \A x \in Told : x \in DatedStates /\ x.prov.seq \in Nat /\ x.prov.lamport \in Nat /\ x.prov.dev \in Nat
                      /\ (x.prov.dev = n => x.prov.seq < y.prov.seq /\ x.prov.lamport < y.prov.lamport)
  <2> SUFFICES ASSUME NEW x \in Told, x.prov.dev = n
               PROVE  x.prov.seq < y.prov.seq /\ x.prov.lamport < y.prov.lamport
    BY <1>1, ToldTyped
  <2>1. ToldOK(x) /\ x.prov.seq \in Nat /\ x.prov.lamport \in Nat
    BY <1>1, ToldTyped DEF TellingOK
  <2>2. x.prov.seq <= proc[n].seq /\ x.prov.lamport <= proc[n].lamport
    BY <1>4, <2>1 DEF ToldOK
  <2> QED
    BY <1>2, <1>4, <2>1, <2>2
<1>6. \A m \in Servers : Rises(m)
  <2>1. Rises(n)
    <3>1. Aim(n).prov.lamport <= proc[n].lamport /\ Aim(n).prov.lamport \in Nat
      BY <1>1, AimIsTyped DEF PeaceOK, StartedOK, DatedStates, Dated, Provenances
    <3> QED
      BY <1>2, <1>4, <3>1 DEF Rises, Outranks
  <2>2. ASSUME NEW m \in Servers, m # n PROVE Rises(m)
    <3>1. Aim(m).prov \in Provenances
      BY <1>1, AimIsTyped DEF DatedStates, Dated
    <3> QED
      BY <1>3, <2>2, <3>1, RankFacts DEF Rises
  <2> QED
    BY <2>1, <2>2
<1>7. net \in [Links -> Seq(DatedStates)] /\ net' \in [Links -> Seq(DatedStates)]
  BY <1>1 DEF SyncTypes, WireTypes
<1>7a. ASSUME NEW l \in Links
       PROVE  /\ \A i \in DOMAIN net[l] : i \in DOMAIN net'[l] /\ net'[l][i] = net[l][i]
              /\ \A i \in DOMAIN net'[l] : (i \in DOMAIN net[l] /\ net'[l][i] = net[l][i])
                                              \/ (net'[l][i] = y /\ From(l) = n)
              /\ (l[2] = "greet" => net'[l] = net[l])
              /\ (l[2] # "greet" /\ From(l) = n /\ conn[l[1]] => \E i \in DOMAIN net'[l] : net'[l][i] = y)
  <2>1. PICK r : r = Published(net, n, y)[l]
    OBVIOUS
  <2>2. net'[l] = r
    BY <1>2, <2>1
  <2> QED
    BY <1>7, <2>1, <2>2, PublishedFacts
<1>8. Told' \subseteq Told \cup {y}
  <2>1. PICK S : S = Told \cup {y}
    OBVIOUS
  <2>2. \A m \in Servers : Aim(m)' \in S
    BY <1>2, <1>3, <2>1, ToldIsIn DEF ToldIn
  <2>3. \A d \in Dials : sent'[d] \in S
    BY <1>1, <2>1, ToldIsIn DEF ToldIn
  <2>4. ASSUME NEW l \in Links PROVE OnTheWay(l)' \subseteq S
    <3>1. \A i \in DOMAIN net'[l] : (i \in DOMAIN net[l] /\ net'[l][i] = net[l][i]) \/ net'[l][i] = y
      BY <1>7a
    <3>2. OnTheWay(l) \subseteq Told
      BY ToldIsIn DEF ToldIn
    <3> QED
      BY <2>1, <3>1, <3>2 DEF OnTheWay
  <2>5. ToldIn(S)'
    BY <2>2, <2>3, <2>4 DEF ToldIn
  <2> QED
    BY <2>1, <2>5, ToldLands
<1>9. \A x \in Told, m \in Servers : /\ Reached(m, x) => Reached(m, x)'
                                     /\ Coming(m, x) => Coming(m, x)'
  <2>1. ASSUME NEW x \in Told, NEW m \in Servers, NEW l \in Links, Comes(l, m, x) PROVE Comes(l, m, x)'
    <3>1. \A i \in DOMAIN net[l] : i \in DOMAIN net'[l] /\ net'[l][i] = net[l][i]
      BY <1>7a
    <3> QED
      BY <2>1, <3>1 DEF Comes
  <2> QED
    BY <1>1, <1>5, <1>6, <2>1, ReachedStays DEF Coming
<1>10. \A m \in Servers : Reached(m, y)' \/ Coming(m, y)'
  <2>1. Reached(n, y)'
    BY <1>2, <1>4, RankFacts DEF Reached
  <2>2. ASSUME NEW m \in Servers, m # n PROVE Coming(m, y)'
    <3>1. PICK l \in Links : l[2] # "greet" /\ From(l) = n /\ To(l) = m
      BY <2>2, StreamsLead
    <3>2. conn[l[1]]
      BY <1>1, LinkEnds DEF PeaceOK
    <3>3. \E i \in DOMAIN net'[l] : net'[l][i] = y
      BY <1>7a, <3>1, <3>2
    <3>4. y.prov.seq >= y.prov.seq
      BY <1>2, <1>4
    <3>5. Comes(l, m, y)'
      BY <3>1, <3>3, <3>4 DEF Comes
    <3> QED
      BY <3>5 DEF Coming
  <2> QED
    BY <2>1, <2>2
<1>11. \A m \in Servers : m # n => ~IsOld(m, y.prov)'
  <2> SUFFICES ASSUME NEW m \in Servers, m # n PROVE ~IsOld(m, y.prov)'
    OBVIOUS
  <2>1. BooksOK(m) /\ cursor[m][n] \in Cursors
    BY <1>1 DEF PeaceOK, SyncTypes
  <2>2. EventId(y.prov) \notin processed'[m]
    <3>1. EventId(y.prov)[1] = n /\ EventId(y.prov)[3] = proc[n].seq + 1
      BY <1>2, EventIdTells
    <3>2. EventId(y.prov) \in processed[m] => proc[n].seq + 1 <= proc[n].seq
      BY <2>1, <3>1 DEF BooksOK
    <3> QED
      BY <1>1, <1>4, <3>2
  <2>3. ~IsStale(m, y.prov)'
    <3>1. PICK c : c = cursor[m][n]
      OBVIOUS
    <3>2. c.epoch <= proc[n].epoch /\ c.seq <= proc[n].seq /\ c.epoch \in Nat /\ c.seq \in Nat
      BY <2>1, <3>1 DEF BooksOK, Cursors
    <3>3. cursor'[m][y.prov.dev] = c
      BY <1>1, <1>2, <3>1
    <3>4. ~(y.prov.epoch < c.epoch) /\ ~(y.prov.seq <= c.seq)
      BY <1>2, <1>4, <3>2
    <3> QED
      BY <3>3, <3>4 DEF IsStale
  <2> QED
    BY <2>2, <2>3 DEF IsOld
<1>12. \A x \in Told' : ToldOK(x)'
  <2>1. ToldOK(y)'
    BY <1>1, <1>2, <1>4 DEF ToldOK, Ticks
  <2>2. ASSUME NEW x \in Told PROVE ToldOK(x)'
    <3>1. CASE x.prov.dev = 0
      BY <1>1, <3>1 DEF ToldOK, TellingOK
    <3>2. CASE x.prov.dev # 0
      <4> DEFINE d == x.prov.dev
      <4>1. d \in Servers /\ x.prov.seq \in Nat /\ x.prov.lamport \in Nat /\ ToldOK(x)
        BY <1>1, <3>2, ToldTyped DEF TellingOK
      <4>2. /\ proc'[d].boot = proc[d].boot /\ proc'[d].epoch = proc[d].epoch
            /\ proc'[d].seq >= proc[d].seq /\ proc'[d].lamport >= proc[d].lamport
        BY <1>1, <4>1 DEF Ticks
      <4>3. proc[d].seq \in Nat /\ proc'[d].seq \in Nat /\ proc[d].lamport \in Nat /\ proc'[d].lamport \in Nat
        BY <1>1, <4>1 DEF SyncTypes, ProcTypes, Processes
      <4> QED
        BY <3>2, <4>1, <4>2, <4>3 DEF ToldOK
    <3> QED
      BY <3>1, <3>2
  <2> QED
    BY <1>8, <2>1, <2>2
<1>13. \A x, z \in Told' : Timely(x, z)
  <2>1. ASSUME NEW x \in Told PROVE Timely(x, y) /\ Timely(y, x)
    <3>1. y.prov.seq \in Nat /\ y.prov.lamport \in Nat
      BY <1>2, <1>4
    <3> QED
      BY <1>2, <1>5, <3>1 DEF Timely
  <2>2. Timely(y, y)
    BY <1>2, <1>4 DEF Timely
  <2>3. \A x, z \in Told : Timely(x, z)
    BY <1>1 DEF TellingOK
  <2> QED
    BY <1>8, <2>1, <2>2, <2>3
<1>14. \A x \in Told', m \in Servers : Reached(m, x)' \/ Coming(m, x)'
  BY <1>1, <1>8, <1>9, <1>10 DEF TellingOK
<1>15. \A x \in Told', m \in Servers :
          m # x.prov.dev /\ x.prov.dev # 0 /\ IsOld(m, x.prov)' => Reached(m, x)'
  BY <1>1, <1>2, <1>3, <1>8, <1>9, <1>11 DEF TellingOK
<1>16. TellingOK'
  BY <1>12, <1>13, <1>14, <1>15 DEF TellingOK, Timely
<1>17. \A m \in Servers : StartedOK(m)'
  <2>1. Aim(n)'.prov.lamport <= proc'[n].lamport
    BY <1>2, <1>4
  <2> QED
    BY <1>1, <1>3, <2>1, StartedStays DEF PeaceOK
<1>18. \A d \in Dials : conn'[d] /\ Reached(d[1], sent[d])'
  <2> SUFFICES ASSUME NEW d \in Dials PROVE Reached(d[1], sent[d])'
    BY <1>1 DEF PeaceOK
  <2>1. sent[d] \in Told /\ d[1] \in Servers /\ Reached(d[1], sent[d])
    BY <1>1, ToldIsIn, DialsAssumption DEF ToldIn, PeaceOK
  <2>2. PICK x \in Told : x = sent[d]
    BY <2>1
  <2>3. Reached(d[1], x)'
    BY <1>9, <2>1, <2>2
  <2> QED
    BY <1>1, <2>2, <2>3 DEF Reached
<1>19. ASSUME NEW l \in Links PROVE LinkOK(l)'
  <2>1. /\ \A i \in DOMAIN net'[l] : (i \in DOMAIN net[l] /\ net'[l][i] = net[l][i])
                                      \/ (net'[l][i] = y /\ From(l) = n)
        /\ l[2] = "greet" => net'[l] = net[l]
    BY <1>7a
  <2> QED
    BY <1>1, <1>2, <2>1 DEF LinkOK, PeaceOK
<1>20. \A m \in Servers : PlayOK(m)'
  BY <1>2, <1>3
<1> QED
  BY <1>1, <1>3, <1>16, <1>17, <1>18, <1>19, <1>20 DEF PeaceOK

\* What arrives: a state of the sender, which is not the receiver.
LEMMA ArrivalIs ==
  ASSUME Peaceful, PeaceInv, NEW l \in Links, Receive(l)
  PROVE  \E y \in Told :
           /\ y = Head(net[l]) /\ y = net[l][1] /\ 1 \in DOMAIN net[l] /\ net[l] \in Seq(DatedStates)
           /\ net[l] # <<>>
           /\ l[2] # "greet" /\ y.prov.dev = From(l) /\ From(l) \in Servers /\ From(l) # To(l)
<1>1. net[l] \in Seq(DatedStates) /\ net[l] # <<>>
  BY PeaceFacts DEF Receive, InOrder, PeaceInv, HeldInv, StampInv, SyncTypes, WireTypes
<1>2. PICK y : y = Head(net[l])
  OBVIOUS
<1>3. y = net[l][1] /\ 1 \in DOMAIN net[l]
  BY <1>1, <1>2
<1>4. y \in Told
  <2>1. y \in OnTheWay(l)
    BY <1>3 DEF OnTheWay
  <2> QED
    BY <2>1, ToldIsIn DEF ToldIn
<1>5. l[2] # "greet" /\ y.prov.dev = From(l)
  BY <1>1, <1>3 DEF PeaceInv, PeaceOK, LinkOK
<1>6. From(l) \in Servers /\ From(l) # To(l)
  BY LinkEnds, DialsAssumption DEF From, To
<1> QED
  BY <1>1, <1>2, <1>3, <1>4, <1>5, <1>6

\* A tie is of one device and Lamport clock, unless neither has a clock.
LEMMA WinnersAreNotOutranked ==
  ASSUME SyncTypes, TellingOK, NEW x \in Told, NEW y \in Told, y.prov.dev # 0,
         TRUE \in Outcomes(x.prov, y.prov)
  PROVE  ~Outranks(y.prov, x.prov)
<1>1. x.prov \in Provenances /\ y.prov \in Provenances /\ y.prov.lamport > 0 /\ y.prov.lamport \in Nat
  BY ToldTyped
<1>2. PICK a \in Provenances, b \in Provenances : a = x.prov /\ b = y.prov
  BY <1>1
<1>3. CASE [a EXCEPT !.boot = 0] = [b EXCEPT !.boot = 0]
  <2>1. [a EXCEPT !.boot = 0].dev = a.dev /\ [b EXCEPT !.boot = 0].dev = b.dev
        /\ [a EXCEPT !.boot = 0].lamport = a.lamport /\ [b EXCEPT !.boot = 0].lamport = b.lamport
    BY DEF Provenances
  <2>2. a.dev = b.dev /\ a.lamport = b.lamport
    BY <1>3, <2>1
  <2>3. ~Outranks(b, b)
    BY RankFacts
  <2> QED
    BY <1>2, <2>2, <2>3 DEF Outranks
<1>4. CASE ~([a EXCEPT !.boot = 0] = [b EXCEPT !.boot = 0])
  <2>1. ~(a.lamport = 0 /\ b.lamport = 0)
    BY <1>1, <1>2
  <2>2. TRUE \in {Precedes(a, b)}
    BY <1>2, <1>4, <2>1 DEF Outcomes
  <2>3. Precedes(x.prov, y.prov)
    BY <1>2, <2>2
  <2>4. Outranks(x.prov, y.prov)
    BY <2>3, PrecedenceIsRank
  <2> QED
    BY <1>1, <2>4, RankFacts
<1> QED
  BY <1>3, <1>4

\* The engine, the events and what is shown stay when a state arrives.
LEMMA ArrivalLands ==
  ASSUME Peaceful, PeaceInv, NEW l \in Links, Receive(l), NEW n, n = To(l), NEW y \in Told, y = Head(net[l])
  PROVE  /\ Reached(n, y)' /\ Rises(n) /\ (Aim(n)' = Aim(n) \/ Aim(n)' = y)
         /\ PlayOK(n)' /\ StartedOK(n)'
<1>1. /\ SyncTypes /\ SyncTypes' /\ Ticks /\ PeaceOK /\ TellingOK /\ n \in Servers /\ Orderly
      /\ UNCHANGED <<engine, events, ps, late, cursor, processed>>
  BY LinksTyped, LinksTick, LinkEnds, PeaceIsOrderly DEF PeaceInv, HeldInv, StampInv, Receive
<1>2. y.prov.dev = From(l) /\ From(l) # n /\ y.prov.dev \in Servers /\ y.prov.dev # 0
  BY ArrivalIs, ServersAssumption
<1>3. /\ y \in DatedStates /\ y.prov \in Provenances /\ y.prov \in Dated /\ Aim(n) \in Told
      /\ Aim(n).prov \in Provenances /\ Aim(n).prov \in Dated /\ PlayOK(n) /\ StartedOK(n)
  BY <1>1, ToldTyped, PeaceFacts
<1>4. ASSUME applying' = applying, Reached(n, y)
      PROVE  /\ Reached(n, y)' /\ Rises(n) /\ (Aim(n)' = Aim(n) \/ Aim(n)' = y)
             /\ PlayOK(n)' /\ StartedOK(n)'
  <2>1. Aim(n)' = Aim(n) /\ PlayOK(n)'
    BY <1>1, <1>3, <1>4, AimStays
  <2>2. Reached(n, y)' /\ Rises(n)
    BY <1>3, <1>4, <2>1, RankFacts DEF Reached, Rises
  <2>3. StartedOK(n)'
    BY <1>1, <1>3, <2>1, StartedStays
  <2> QED
    BY <2>1, <2>2, <2>3
<1>5. CASE Covered(l, y)
  <2>1. applying' = applying
    BY <1>5 DEF Receive
  <2>2. l[1] \in Dials /\ n = l[1][1] /\ sent[l[1]] \in Told
    BY <1>5, LinkEnds, ToldIsIn DEF Covered, To, ToldIn
  <2>3. PICK z \in Told : z = sent[l[1]]
    BY <2>2
  <2>4. Reached(n, z)
    BY <1>1, <2>2, <2>3 DEF PeaceOK
  <2>5. ~Outranks(y.prov, z.prov)
    <3>1. CASE z = y
      BY <1>3, <3>1, RankFacts
    <3>2. CASE Precedes(z.prov, y.prov)
      BY <1>1, <1>3, <3>2, PrecedenceIsRank, ToldTyped, RankFacts
    <3> QED
      BY <1>5, <2>3, <3>1, <3>2 DEF Covered
  <2>6. Reached(n, y)
    <3>1. z.prov \in Provenances
      BY <1>1, ToldTyped
    <3> QED
      BY <1>3, <2>4, <2>5, <3>1, RankFacts DEF Reached
  <2> QED
    BY <1>4, <2>1, <2>6
<1>6. CASE ~Covered(l, y)
  <2>1. PICK q : Consider(n, y, l[1], q)
    BY <1>6 DEF Receive
  <2>2. applying[n].pc = "idle" /\ events[n] = <<>>
    BY <1>1, <2>1 DEF Consider, Calm, Orderly
  <2>3. Aim(n) = ps[n]
    BY <2>2 DEF Aim
  <2>4. PICK a : a = [pc |-> "load", state |-> y, dial |-> l[1]]
    OBVIOUS
  <2>5. /\ IsOld(n, y.prov) => applying' = applying
        /\ ~IsOld(n, y.prov) =>
             \E wins \in Outcomes(ps[n].prov, y.prov) :
                IF wins THEN applying' = applying
                ELSE /\ applying' = [applying EXCEPT ![n] = a]
                     /\ proc' = [proc EXCEPT ![n].lamport = Observed(@, y.prov.lamport)]
    BY <1>2, <2>1, <2>4 DEF Consider
  <2>6. CASE IsOld(n, y.prov)
    <3>1. Reached(n, y)
      BY <1>1, <1>2, <2>6 DEF TellingOK
    <3> QED
      BY <1>4, <2>5, <2>6, <3>1
  <2>7. CASE ~IsOld(n, y.prov)
    <3>1. PICK wins \in Outcomes(ps[n].prov, y.prov) :
                IF wins THEN applying' = applying
                ELSE /\ applying' = [applying EXCEPT ![n] = a]
                     /\ proc' = [proc EXCEPT ![n].lamport = Observed(@, y.prov.lamport)]
      BY <2>5, <2>7
    <3>2. wins \in BOOLEAN
      BY DEF Outcomes, Precedes
    <3>3. CASE wins
      <4>1. TRUE \in Outcomes(Aim(n).prov, y.prov)
        BY <2>3, <3>2, <3>3
      <4>2. ~Outranks(y.prov, Aim(n).prov)
        BY <1>1, <1>2, <1>3, <4>1, WinnersAreNotOutranked
      <4> QED
        BY <1>4, <3>1, <3>3, <4>2 DEF Reached
    <3>4. CASE ~wins
      <4>1. FALSE \in Outcomes(Aim(n).prov, y.prov)
        BY <2>3, <3>2, <3>4
      <4>2. ~Precedes(Aim(n).prov, y.prov)
        BY <1>3, <4>1, LosersDoNotPrecede
      <4>3. ~Outranks(Aim(n).prov, y.prov)
        BY <1>1, <1>3, <4>2, PrecedenceIsRank
      <4>4. applying' = [applying EXCEPT ![n] = a]
        BY <3>1, <3>4
      <4>5. applying'[n] = a
        BY <1>1, <4>4 DEF SyncTypes
      <4>6. applying'[n].pc = "load" /\ applying'[n].state = y
        BY <2>4, <4>5
      <4>7. Aim(n)' = y
        BY <4>6 DEF Aim
      <4>8. Reached(n, y)' /\ Rises(n)
        BY <1>3, <4>3, <4>7, RankFacts DEF Reached, Rises
      <4>9. PlayOK(n)'
        BY <1>1, <1>2, <1>3, <4>6 DEF PlayOK
      <4>10. StartedOK(n)'
        <5>1. PICK clock : clock = Observed(proc[n].lamport, y.prov.lamport)
          OBVIOUS
        <5>2. proc' = [proc EXCEPT ![n].lamport = clock]
          BY <3>1, <3>4, <5>1
        <5>3. proc'[n].lamport = clock
          BY <1>1, <5>2 DEF SyncTypes, ProcTypes, Processes
        <5>4. y.prov.lamport <= clock
          <6>1. y.prov.lamport \in Nat /\ proc[n].lamport \in Nat
            BY <1>1, <1>3 DEF SyncTypes, ProcTypes, Processes, Provenances
          <6> QED
            BY <5>1, <6>1 DEF Observed, Larger
        <5>5. Aim(n)'.prov.lamport <= proc'[n].lamport
          BY <4>7, <5>3, <5>4
        <5> QED
          BY <1>1, <1>3, <5>5, StartedStays
      <4> QED
        BY <4>7, <4>8, <4>9, <4>10
    <3> QED
      BY <3>2, <3>3, <3>4
  <2> QED
    BY <2>6, <2>7
<1> QED
  BY <1>5, <1>6

\* What the stream loses was taken; what the server answers is what it aims at.
LEMMA ArrivalMoves ==
  ASSUME Peaceful, PeaceInv, NEW l \in Links, Receive(l), NEW n, n = To(l), NEW y \in Told, y = Head(net[l]),
         NEW k \in Links
  PROVE  /\ \A i \in DOMAIN net[k] : (k = l /\ net[k][i] = y) \/ \E j \in DOMAIN net'[k] : net'[k][j] = net[k][i]
         /\ \A j \in DOMAIN net'[k] : \/ \E i \in DOMAIN net[k] : net'[k][j] = net[k][i]
                                      \/ /\ net'[k][j] = Aim(n) /\ From(k) = n /\ Aim(n).prov.dev = n
         /\ (k[2] = "greet" => net'[k] = net[k])
<1>1. /\ SyncTypes /\ net \in [Links -> Seq(DatedStates)] /\ n \in Servers /\ Orderly
      /\ Aim(n) \in DatedStates
  BY LinkEnds, PeaceFacts DEF SyncTypes, WireTypes
<1>2. /\ y = net[l][1] /\ 1 \in DOMAIN net[l] /\ net[l] \in Seq(DatedStates) /\ net[l] # <<>>
      /\ l[2] # "greet"
  BY ArrivalIs
<1>3. PICK q : q = [net EXCEPT ![l] = Tail(net[l])]
  OBVIOUS
<1>4. PICK t : t = Tail(net[l])
  OBVIOUS
<1>5. /\ t \in Seq(DatedStates)
      /\ \A i \in DOMAIN net[l] : net[l][i] = y \/ \E j \in DOMAIN t : t[j] = net[l][i]
      /\ \A j \in DOMAIN t : \E i \in DOMAIN net[l] : t[j] = net[l][i]
  <2>1. PICK s : s = net[l]
    OBVIOUS
  <2>2. s \in Seq(DatedStates) /\ s # <<>> /\ t = Tail(s) /\ y = s[1]
    BY <1>2, <1>4, <2>1
  <2>3. /\ t \in Seq(DatedStates) /\ DOMAIN s = 1..Len(s) /\ DOMAIN t = 1..(Len(s) - 1) /\ Len(s) \in Nat
        /\ \A j \in 1..(Len(s) - 1) : t[j] = s[j + 1]
    BY <2>2
  <2>4. ASSUME NEW i \in DOMAIN s, i # 1 PROVE i - 1 \in DOMAIN t /\ t[i - 1] = s[i]
    BY <2>3, <2>4
  <2>5. ASSUME NEW j \in DOMAIN t PROVE j + 1 \in DOMAIN s /\ t[j] = s[j + 1]
    BY <2>3
  <2>6. \A i \in DOMAIN s : s[i] = y \/ \E j \in DOMAIN t : t[j] = s[i]
    BY <2>2, <2>4
  <2> QED
    BY <2>1, <2>3, <2>5, <2>6
<1>6. /\ q \in [Links -> Seq(DatedStates)] /\ q[l] = t /\ \A m \in Links : m # l => q[m] = net[m]
  BY <1>1, <1>3, <1>4, <1>5
<1>7. net' = q \/ (net' = Published(q, n, Aim(n)) /\ Aim(n).prov.dev = n)
  <2>1. CASE Covered(l, y)
    BY <1>3, <2>1 DEF Receive
  <2>2. CASE ~Covered(l, y)
    <3>1. Consider(n, y, l[1], q)
      BY <1>3, <2>2 DEF Receive
    <3>2. applying[n].pc = "idle" /\ events[n] = <<>>
      BY <1>1, <3>1 DEF Consider, Calm, Orderly
    <3>3. Aim(n) = ps[n]
      BY <3>2 DEF Aim
    <3> QED
      BY <3>1, <3>3 DEF Consider
  <2> QED
    BY <2>1, <2>2
<1>8. /\ \A i \in DOMAIN net[k] : (k = l /\ net[k][i] = y) \/ \E j \in DOMAIN q[k] : q[k][j] = net[k][i]
      /\ \A j \in DOMAIN q[k] : \E i \in DOMAIN net[k] : q[k][j] = net[k][i]
  BY <1>5, <1>6
<1>9. k[2] = "greet" => q[k] = net[k]
  BY <1>2, <1>6
<1>10. CASE net' = q
  BY <1>8, <1>9, <1>10
<1>11. CASE net' = Published(q, n, Aim(n)) /\ Aim(n).prov.dev = n
  <2>1. PICK r : r = Published(q, n, Aim(n))[k]
    OBVIOUS
  <2>2. /\ \A i \in DOMAIN q[k] : i \in DOMAIN r /\ r[i] = q[k][i]
        /\ \A i \in DOMAIN r : (i \in DOMAIN q[k] /\ r[i] = q[k][i]) \/ (r[i] = Aim(n) /\ From(k) = n)
        /\ (k[2] = "greet" => r = q[k])
    BY <1>1, <1>6, <2>1, PublishedFacts
  <2>3. net'[k] = r
    BY <1>11, <2>1
  <2>4. \A i \in DOMAIN net[k] : (k = l /\ net[k][i] = y) \/ \E j \in DOMAIN r : r[j] = net[k][i]
    BY <1>8, <2>2
  <2>5. \A j \in DOMAIN r : (\E i \in DOMAIN net[k] : r[j] = net[k][i]) \/ (r[j] = Aim(n) /\ From(k) = n)
    BY <1>8, <2>2
  <2> QED
    BY <1>9, <1>11, <2>2, <2>3, <2>4, <2>5
<1> QED
  BY <1>7, <1>10, <1>11

LEMMA ArrivalAgrees ==
  ASSUME Peaceful, PeaceInv, NEW l \in Links, Receive(l)
  PROVE  PeaceOK' /\ TellingOK'
<1>1. PICK n : n = To(l)
  OBVIOUS
<1>2. PICK y \in Told : y = Head(net[l]) /\ y.prov.dev = From(l) /\ l[2] # "greet"
  BY ArrivalIs
<1>3. /\ SyncTypes /\ SyncTypes' /\ Ticks /\ PeaceOK /\ TellingOK /\ n \in Servers
      /\ UNCHANGED <<engine, events, ps, late, cursor, processed, conn>>
  BY <1>1, LinksTyped, LinksTick, LinkEnds DEF PeaceInv, HeldInv, StampInv, Receive
<1>4. /\ Reached(n, y)' /\ Rises(n) /\ (Aim(n)' = Aim(n) \/ Aim(n)' = y)
      /\ PlayOK(n)' /\ StartedOK(n)'
  BY <1>1, <1>2, ArrivalLands
<1>5. ASSUME NEW k \in Links
      PROVE  /\ \A i \in DOMAIN net[k] : (k = l /\ net[k][i] = y) \/ \E j \in DOMAIN net'[k] : net'[k][j] = net[k][i]
             /\ \A j \in DOMAIN net'[k] : \/ \E i \in DOMAIN net[k] : net'[k][j] = net[k][i]
                                          \/ /\ net'[k][j] = Aim(n) /\ From(k) = n /\ Aim(n).prov.dev = n
             /\ (k[2] = "greet" => net'[k] = net[k])
  BY <1>1, <1>2, ArrivalMoves
<1>6. ASSUME NEW m \in Servers, m # n PROVE Aim(m)' = Aim(m) /\ PlayOK(m)' /\ StartedOK(m)' /\ Rises(m)
  <2>1. applying'[m] = applying[m]
    <3>1. applying' = applying \/ \E a : applying' = [applying EXCEPT ![n] = a]
      BY <1>1, <1>2 DEF Receive, Consider
    <3> QED
      BY <1>3, <1>6, <3>1 DEF SyncTypes
  <2>2. Aim(m)' = Aim(m) /\ PlayOK(m)'
    BY <1>3, <2>1, AimStays DEF PeaceOK
  <2>3. StartedOK(m)'
    BY <1>3, <2>2, StartedStays DEF PeaceOK
  <2>4. Aim(m).prov \in Provenances
    BY <1>3, AimIsTyped DEF DatedStates, Dated
  <2> QED
    BY <2>2, <2>3, <2>4, RankFacts DEF Rises
<1>7. \A m \in Servers : PlayOK(m)' /\ StartedOK(m)' /\ Rises(m) /\ BooksOK(m)'
  <2>1. \A m \in Servers : BooksOK(m)'
    BY <1>3, BooksStay DEF PeaceOK
  <2> QED
    BY <1>4, <1>6, <2>1
<1>8. sent' = sent \/ (l[2] = "down" /\ sent' = [sent EXCEPT ![l[1]] = y])
  BY <1>2 DEF Receive
<1>9. Told' \subseteq Told
  <2>1. PICK S : S = Told
    OBVIOUS
  <2>2. \A m \in Servers : Aim(m)' \in S
    BY <1>2, <1>4, <1>6, <2>1, ToldIsIn DEF ToldIn
  <2>3. \A d \in Dials : sent'[d] \in S
    <3>1. sent \in [Dials -> DatedStates]
      BY <1>3 DEF SyncTypes, WireTypes
    <3> QED
      BY <1>2, <1>8, <2>1, <3>1, ToldIsIn DEF ToldIn
  <2>4. ASSUME NEW k \in Links PROVE OnTheWay(k)' \subseteq S
    <3>1. OnTheWay(k) \subseteq S /\ Aim(n) \in S
      BY <1>3, <2>1, ToldIsIn DEF ToldIn
    <3>2. ASSUME NEW j \in DOMAIN net'[k] PROVE net'[k][j] \in S
      <4>1. (\E i \in DOMAIN net[k] : net'[k][j] = net[k][i]) \/ net'[k][j] = Aim(n)
        BY <1>5
      <4> QED
        BY <3>1, <4>1 DEF OnTheWay
    <3> QED
      BY <3>2 DEF OnTheWay
  <2>5. ToldIn(S)'
    BY <2>2, <2>3, <2>4 DEF ToldIn
  <2> QED
    BY <2>1, <2>5, ToldLands
<1>10. \A x \in Told, m \in Servers : Coming(m, x) => Coming(m, x)' \/ Reached(m, x)'
  <2> SUFFICES ASSUME NEW x \in Told, NEW m \in Servers, NEW k \in Links, Comes(k, m, x)
               PROVE  Comes(k, m, x)' \/ Reached(m, x)'
    BY DEF Coming
  <2>1. PICK i \in DOMAIN net[k] : net[k][i].prov.dev = x.prov.dev /\ net[k][i].prov.seq >= x.prov.seq
    BY DEF Comes
  <2>2. CASE k = l /\ net[k][i] = y
    <3>1. m = n
      BY <1>1, <2>2 DEF Comes
    <3>2. x.prov.seq \in Nat /\ y.prov.seq \in Nat /\ x.prov \in Provenances /\ y.prov \in Provenances
      BY <1>3, ToldTyped
    <3>3. ~Outranks(x.prov, y.prov)
      BY <1>3, <2>1, <2>2, <3>2, LaterIsHigher
    <3>4. Aim(n)'.prov \in Provenances
      BY <1>3, NextAimIsTyped DEF DatedStates, Dated
    <3> QED
      BY <1>4, <3>1, <3>2, <3>3, <3>4, RankFacts DEF Reached
  <2>3. CASE ~(k = l /\ net[k][i] = y)
    <3>1. PICK j \in DOMAIN net'[k] : net'[k][j] = net[k][i]
      BY <1>5, <2>3
    <3> QED
      BY <2>1, <3>1 DEF Comes
  <2> QED
    BY <2>2, <2>3
<1>11. \A x \in Told, m \in Servers : IsOld(m, x.prov)' = IsOld(m, x.prov)
  BY <1>3, OldStays
<1>12. TellingOK'
  BY <1>3, <1>7, <1>9, <1>10, <1>11, TellingStays
<1>13. ASSUME NEW d \in Dials PROVE conn'[d] /\ Reached(d[1], sent[d])'
  <2>1. sent[d] \in DatedStates /\ d[1] \in Servers /\ Reached(d[1], sent[d]) /\ conn[d]
        /\ sent \in [Dials -> DatedStates]
    BY <1>3, DialsAssumption DEF PeaceOK, SyncTypes, WireTypes
  <2>2. CASE sent'[d] = sent[d]
    <3>1. PICK x \in DatedStates : x = sent[d]
      BY <2>1
    <3>2. Reached(d[1], x)'
      BY <1>3, <1>7, <2>1, <3>1, ReachedStays
    <3> QED
      BY <1>3, <2>1, <2>2, <3>1, <3>2 DEF Reached
  <2>3. CASE sent'[d] # sent[d]
    <3>1. sent'[d] = y /\ d = l[1] /\ l[2] = "down"
      BY <1>8, <2>1, <2>3
    <3>2. d[1] = n
      BY <1>1, <3>1 DEF To
    <3> QED
      BY <1>3, <1>4, <2>1, <3>1, <3>2 DEF Reached
  <2> QED
    BY <2>2, <2>3
<1>14. ASSUME NEW k \in Links PROVE LinkOK(k)'
  <2>1. LinkOK(k)
    BY <1>3 DEF PeaceOK
  <2> QED
    BY <1>5, <2>1 DEF LinkOK
<1> QED
  BY <1>3, <1>7, <1>12, <1>13, <1>14 DEF PeaceOK

LEMMA PeaceStart == ASSUME Peaceful, Init PROVE PeaceInv
<1>1. HeldInv /\ SyncTypes
  BY HeldStart DEF HeldInv, StampInv
<1>2. /\ Unstamped.lamport = 0 /\ Unstamped.dev = 0 /\ Unstamped.seq = 0 /\ Default.prov = Unstamped
      /\ Default.track = NoTrack /\ Default.playing = FALSE /\ 2 * Reserve \in Nat
  BY BoundsAssumption DEF Unstamped, Default
<1>3. ~Outranks(Unstamped, Unstamped)
  BY <1>2 DEF Outranks
<1>4. \A n \in Servers : Aim(n) = Default /\ applying[n].pc = "idle" /\ events[n] = <<>>
  BY DEF Init, Aim, NotApplying
<1>5. \A l \in Links : net[l] = <<>>
  BY DEF Init
<1>6. \A x \in Told : x = Default
  <2>1. \A l \in Links : OnTheWay(l) = {}
    BY <1>5 DEF OnTheWay
  <2>2. \A d \in Dials : sent[d] = Default
    BY DEF Init
  <2> QED
    BY <1>4, <2>1, <2>2 DEF Told
<1>7. \A n \in Servers : PlayOK(n)
  <2> SUFFICES ASSUME NEW n \in Servers PROVE PlayOK(n)
    OBVIOUS
  <2>1. /\ ps[n] = Default /\ engine[n].track = NoTrack /\ engine[n].playing = FALSE
        /\ engine[n].origin.local
    BY DEF Init, IdleEngine, LocalOrigin
  <2> QED
    BY <1>2, <1>4, <2>1 DEF PlayOK
<1>8. \A n \in Servers : StartedOK(n)
  <2> SUFFICES ASSUME NEW n \in Servers PROVE StartedOK(n)
    OBVIOUS
  <2>1. late[n] = <<>> /\ proc[n].lamport = 2 * Reserve /\ \A i \in Inits : proc[n].init[i].pc = "done"
    BY DEF Init, Initialized
  <2> QED
    BY <1>2, <1>4, <2>1 DEF StartedOK
<1>9. processed \in [Servers -> SUBSET (Servers \X Nat \X Nat)] /\ \A n \in Servers : processed[n] = {}
  BY DEF Init
<1>10. \A n \in Servers : BooksOK(n)
  <2>1. \A n, m \in Servers : cursor[n][m] = NoCursor
    BY DEF Init
  <2>2. \A m \in Servers : proc[m].epoch = 2 /\ proc[m].seq = 0
    BY DEF Init
  <2> QED
    BY <1>9, <2>1, <2>2 DEF BooksOK, NoCursor
<1>11. \A d \in Dials : conn[d] /\ Reached(d[1], sent[d])
  BY <1>2, <1>3, <1>4, DialsAssumption DEF Init, Peaceful, Reached
<1>12. \A l \in Links : LinkOK(l)
  BY <1>5 DEF LinkOK
<1>13. TellingOK
  <2>1. \A x \in Told, m \in Servers : Reached(m, x)
    BY <1>2, <1>3, <1>4, <1>6 DEF Reached
  <2> QED
    BY <1>2, <1>6, <2>1 DEF TellingOK, ToldOK, Timely
<1> QED
  BY <1>1, <1>7, <1>8, <1>9, <1>10, <1>11, <1>12, <1>13 DEF PeaceInv, PeaceOK

LEMMA PeaceNext == ASSUME Peaceful, PeaceInv, [Next]_vars PROVE PeaceInv'
<1>1. HeldInv' /\ SyncTypes /\ SyncTypes' /\ PeaceOK /\ TellingOK
  BY HeldNext, PeaceIsOrderly DEF PeaceInv, HeldInv, StampInv
<1>2. CASE UNCHANGED vars
  <2>1. UNCHANGED <<db, proc, engine, events, ps, applying, cursor, processed, conn, sent, net, late, now>>
    BY <1>2 DEF vars, server, wire
  <2>2. \A m \in Servers : /\ Aim(m)' = Aim(m) /\ PlayOK(m)'
                           /\ \A x \in Told : IsOld(m, x.prov)' = IsOld(m, x.prov)
    BY <1>1, <2>1, AimStays, OldStays DEF PeaceOK
  <2>3. Ticks
    BY <1>1, <2>1, StandStill
  <2>4. TellingOK'
    BY <1>1, <2>1, <2>2, <2>3, StillTells
  <2>5. \A m \in Servers : StartedOK(m)' /\ BooksOK(m)'
    BY <1>1, <2>1, <2>2, <2>3, StartedStays, BooksStay DEF PeaceOK
  <2>6. \A d \in Dials : conn'[d] /\ Reached(d[1], sent[d])'
    BY <1>1, <2>1, <2>2, DialsAssumption DEF PeaceOK, Reached
  <2>7. \A l \in Links : LinkOK(l)'
    BY <1>1, <2>1 DEF PeaceOK, LinkOK
  <2> QED
    BY <1>1, <2>1, <2>2, <2>4, <2>5, <2>6, <2>7 DEF PeaceInv, PeaceOK
<1>3. ASSUME NEW n \in Servers, HandleEvent(n) \/ Reconcile(n) PROVE PeaceInv'
  BY <1>1, <1>3, EchoAgrees, NewsAgrees DEF PeaceInv
<1>4. ASSUME NEW n \in Servers,
             \/ \E t \in Tracks, p \in BOOLEAN : Steer(n, t, p) \/ Skip(n, t, p)
             \/ Checkpoint(n) \/ Load(n) \/ ResumeOrPause(n) \/ Record(n) \/ GiveUp(n)
      PROVE  PeaceInv'
  BY <1>1, <1>4, EnginesAgree DEF PeaceInv
<1>5. ASSUME NEW l \in Links, Receive(l) PROVE PeaceInv'
  BY <1>1, <1>5, ArrivalAgrees DEF PeaceInv
<1>6. ASSUME NEW n \in Servers PROVE ~ReceiveLate(n) /\ \A clean \in BOOLEAN : ~Restart(n, clean)
  BY <1>1 DEF ReceiveLate, Restart, Hazard, Peaceful, PeaceOK, StartedOK
<1>7. ASSUME NEW d \in Dials PROVE ~Connect(d) /\ ~Disconnect(d)
  BY <1>1 DEF Connect, Disconnect, Hazard, Peaceful, PeaceOK
<1>8. ASSUME NEW n \in Servers, NEW i \in Inits
      PROVE  ~InitEpoch(n, i) /\ ~InitLoad(n, i) /\ ~InitStore(n, i)
  BY <1>1 DEF InitEpoch, InitLoad, InitStore, Stage, PeaceOK, StartedOK
<1>9. CASE Next
  BY <1>3, <1>4, <1>5, <1>6, <1>7, <1>8, <1>9 DEF Next, Progress
<1> QED
  BY <1>2, <1>9

\* When nothing is on its way no state outranks another: all show the same.
LEMMA QuietAgrees == ASSUME Peaceful, PeaceInv, Quiet PROVE Agreed
<1> SUFFICES ASSUME NEW n \in Servers, NEW m \in Servers
             PROVE  engine[n].track = engine[m].track /\ engine[n].playing = engine[m].playing
  BY DEF Agreed
<1>1. SyncTypes /\ PeaceOK /\ TellingOK
  BY PeaceFacts DEF PeaceInv
<1>2. \A k \in Servers : /\ Aim(k) = ps[k] /\ Aim(k) \in Told
                         /\ ps[k].track = engine[k].track /\ ps[k].playing = engine[k].playing
  <2> SUFFICES ASSUME NEW k \in Servers
               PROVE  /\ Aim(k) = ps[k] /\ Aim(k) \in Told
                      /\ ps[k].track = engine[k].track /\ ps[k].playing = engine[k].playing
    OBVIOUS
  <2>1. applying[k].pc = "idle" /\ events[k] = <<>>
    BY DEF Quiet
  <2>2. PlayOK(k) /\ Aim(k) \in Told
    BY <1>1, PeaceFacts
  <2> QED
    BY <2>1, <2>2 DEF PlayOK, Aim
<1>3. \A x \in Told, k \in Servers : ~Coming(k, x)
  BY DEF Quiet, Coming, Comes
<1>4. PICK x \in Told : x = ps[n]
  BY <1>2
<1>5. PICK y \in Told : y = ps[m]
  BY <1>2
<1>6. ~Outranks(x.prov, y.prov) /\ ~Outranks(y.prov, x.prov)
  BY <1>1, <1>2, <1>3, <1>4, <1>5 DEF TellingOK, Reached
<1>7. /\ x.prov.dev \in Nat /\ y.prov.dev \in Nat /\ x.prov.lamport \in Nat /\ y.prov.lamport \in Nat
      /\ x.prov.seq \in Nat /\ y.prov.seq \in Nat
  BY <1>1, ToldTyped
<1>8. x.prov.dev = y.prov.dev /\ x.prov.lamport = y.prov.lamport
  BY <1>6, <1>7 DEF Outranks
<1>9. x.prov.seq = y.prov.seq
  <2>1. Timely(x, y) /\ Timely(y, x)
    BY <1>1 DEF TellingOK
  <2> QED
    BY <1>7, <1>8, <2>1 DEF Timely
<1>10. x = y
  BY <1>1, <1>8, <1>9 DEF TellingOK, Timely
<1> QED
  BY <1>2, <1>4, <1>5, <1>10

\* Converged: when every message has arrived and every event is projected, all
\* servers play the same, whatever their users did at once and in whatever order
\* the states crossed.
THEOREM PeersConverge == ASSUME Peaceful PROVE Spec => []Converged
<1>1. Init => PeaceInv
  BY PeaceStart
<1>2. PeaceInv /\ [Next]_vars => PeaceInv'
  BY PeaceNext
<1>3. PeaceInv => Converged
  BY QuietAgrees DEF Converged
<1> QED
  BY <1>1, <1>2, <1>3, PTL DEF Spec

=============================================================================
