---------------------------- MODULE PlaybackSync ----------------------------
(***************************************************************************)
(* Playback state exchanged between servers: the projection that turns     *)
(* engine events into the server's playback_state and broadcasts the local *)
(* ones (crates/michi-api/src/playback_projection.rs), the WebSocket links *)
(* that carry them (sync_ws.rs, start_sync_peers in lib.rs), and the       *)
(* application of a peer's state to the engine (apply_remote_playback_     *)
(* state), which resolves conflicts with has_precedence_over of            *)
(* crates/michi-sync/src/lib.rs.                                           *)
(*                                                                         *)
(* Abstractions.  A state carries its provenance (device, epoch, boot,     *)
(* sequence, Lamport clock) and what is played: a track and whether it     *)
(* plays.  Position, volume, shuffle and repeat are left out; an engine    *)
(* command is one step and emits one event.  The event id of a state is    *)
(* its device, boot and sequence.  Device ids are numbers: they are only   *)
(* compared.  updated_at, which only breaks ties, is a free choice.  The   *)
(* name and event id given to an unstamped state are left out.  A snapshot *)
(* of the engine is projected in the step that takes it, and a database    *)
(* value is read and written in one.  An unsent broadcast and a message on *)
(* the wire are the same queue, since both are in order; `late` holds what *)
(* a dead connection had delivered and nobody had read yet.                *)
(***************************************************************************)
EXTENDS Integers, Sequences, FiniteSets

CONSTANTS
    Servers,        \* device ids
    Dials,          \* pairs <<c, s>>: s is one of the sync_peers of c
    Tracks,
    NoTrack,
    Connected,      \* whether the dials start connected, all of them at rest
    Reserve,        \* the block of Lamport values reserved at start (10 000)
    EventCapacity,  \* the engine's event channel (128)
    EventMemory,    \* how many processed event ids are remembered (10 000)
    Hazards,        \* the kinds of disturbance that may happen
    MaxStimuli      \* bound on commands, checkpoints and disturbances

\* overlap     a command or a peer's state meets an application or an event
\*             the projection has not caught up with
\* skip        a command that leaves the timeline's origin alone
\* disconnect  a connection is lost
\* restart     a server stops or crashes, and starts again
\* straggler   the initialization the constructor spawned is still under way
\*             when bootstrap_runtime has finished its own
\* torn        a server is dialled while it applies a peer's state
\* unplayable  the engine cannot apply a peer's state
HazardKinds == {"overlap", "skip", "disconnect", "restart", "straggler",
                "torn", "unplayable"}
\* initialize_db_state runs twice in a process.
Inits == {"spawned", "bootstrap"}

ASSUME ServersAssumption == Servers \subseteq Nat \ {0}
ASSUME DialsAssumption == \A d \in Dials : d \in Servers \X Servers /\ d[1] # d[2]
ASSUME TracksAssumption == NoTrack \notin Tracks
ASSUME BoundsAssumption ==
    /\ Connected \in BOOLEAN
    /\ Reserve \in Nat /\ EventCapacity \in Nat \ {0}
    /\ EventMemory \in Nat /\ MaxStimuli \in Nat
    /\ Hazards \subseteq HazardKinds

\* The three streams of a connection: what the server sends on accepting it,
\* and the broadcasts of either side.
Streams == {"greet", "down", "up"}
Links   == Dials \X Streams
From(l) == IF l[2] = "up" THEN l[1][1] ELSE l[1][2]
To(l)   == IF l[2] = "up" THEN l[1][2] ELSE l[1][1]

Provenances == [dev : Servers \cup {0}, epoch : Nat, boot : Nat, seq : Nat,
                lamport : Nat]
States  == [prov : Provenances, track : Tracks \cup {NoTrack}, playing : BOOLEAN]
\* CommandOrigin
Origins == [local : BOOLEAN, prov : Provenances]
Cursors == [epoch : Nat, boot : Nat, seq : Nat]

NoDial      == <<0, 0>>
Unstamped   == [dev |-> 0, epoch |-> 0, boot |-> 0, seq |-> 0, lamport |-> 0]
Default     == [prov |-> Unstamped, track |-> NoTrack, playing |-> FALSE]
LocalOrigin == [local |-> TRUE, prov |-> Unstamped]
NoCursor    == [epoch |-> 0, boot |-> 0, seq |-> 0]
Larger(a, b) == IF a >= b THEN a ELSE b

VARIABLES
    now,        \* the clock, in seconds
    db,         \* sync_server_epoch and sync_server_lamport, durable
    proc,       \* the running process: boot, epoch, sequence, Lamport clock
    engine,     \* what the engine plays and its current_timeline_origin
    events,     \* origins of the engine's events the projection has not seen
    lagged,     \* the projection has missed events
    ps,         \* playback_state
    applying,   \* the application of a peer's state that holds the lock
    cursor,     \* peer_vectors
    processed,  \* processed_events
    conn,       \* which dials are connected
    sent,       \* last_sent_state of the accepting side
    net,        \* states on each stream, oldest first
    late,       \* what is left to read of dead connections
    stimuli     \* commands, checkpoints and disturbances so far

server == <<db, proc, engine, events, lagged, ps, applying, cursor, processed>>
wire   == <<conn, sent, net, late>>
vars   == <<now, server, wire, stimuli>>

Processes == [boot : Nat, epoch : Nat, seq : Nat, lamport : Nat,
              init : [Inits -> [pc : {"epoch", "load", "store", "done"},
                                epoch : Nat, lamport : Nat]]]
IdleEngine == [track |-> NoTrack, playing |-> FALSE, origin |-> LocalOrigin]
NotApplying == [pc |-> "idle", state |-> Default, dial |-> NoDial]
Initialized == [pc |-> "done", epoch |-> 0, lamport |-> 0]

Init ==
    /\ now = 1
    /\ db = [n \in Servers |-> [epoch |-> 2, lamport |-> 2 * Reserve]]
    /\ proc = [n \in Servers |-> [boot |-> 1, epoch |-> 2, seq |-> 0,
                lamport |-> 2 * Reserve, init |-> [i \in Inits |-> Initialized]]]
    /\ engine = [n \in Servers |-> IdleEngine]
    /\ events = [n \in Servers |-> <<>>]
    /\ lagged = [n \in Servers |-> FALSE]
    /\ ps = [n \in Servers |-> Default]
    /\ applying = [n \in Servers |-> NotApplying]
    /\ cursor = [n \in Servers |-> [m \in Servers |-> NoCursor]]
    /\ processed = [n \in Servers |-> {}]
    /\ conn = [d \in Dials |-> Connected]
    /\ sent = [d \in Dials |-> Default]
    /\ net = [l \in Links |-> <<>>]
    /\ late = [n \in Servers |-> <<>>]
    /\ stimuli = 0

-----------------------------------------------------------------------------
(* Precedence and clocks                                                   *)

\* Mutant: equal Lamport clocks are not told apart.
PrecedesByClock(a, b) ==
    IF a.dev # 0 /\ a.dev = b.dev
    THEN a.epoch > b.epoch \/ (a.epoch = b.epoch /\ a.seq > b.seq)
    ELSE a.lamport > b.lamport

\* has_precedence_over.  Only unstamped states have no Lamport clock.
Precedes(a, b) ==
    IF a.dev # 0 /\ a.dev = b.dev
    THEN \/ a.epoch > b.epoch
         \/ a.epoch = b.epoch /\ a.seq > b.seq
         \/ a.epoch = b.epoch /\ a.seq = b.seq /\ a.lamport > b.lamport
    ELSE \/ a.lamport > b.lamport
         \/ a.lamport = b.lamport /\ a.lamport > 0 /\ a.dev > b.dev

\* Between the same event twice, or two unstamped states, updated_at decides.
Outcomes(a, b) ==
    LET tie == \/ [a EXCEPT !.boot = 0] = [b EXCEPT !.boot = 0]
               \/ a.lamport = 0 /\ b.lamport = 0
    IN IF tie THEN BOOLEAN ELSE {Precedes(a, b)}

\* Mutants: the remote clock is ignored; the local one is.
ObservedNothing(clock, remote) == clock
ObservedAlone(clock, remote) == IF remote = 0 THEN clock ELSE remote + 1

\* observe_lamport; a state without a clock is not observed.
Observed(clock, remote) == IF remote = 0 THEN clock ELSE Larger(clock, remote) + 1

EventId(p) == <<p.dev, p.boot, p.seq>>

\* Mutant: the epoch is not compared.
IsStaleByBoot(n, p) == p.boot = cursor[n][p.dev].boot /\ p.seq <= cursor[n][p.dev].seq

\* is_stale_peer_state: another boot of the same epoch is never stale.
IsStale(n, p) ==
    LET c == cursor[n][p.dev] IN
    c # NoCursor /\ \/ p.epoch < c.epoch
                    \/ p.epoch = c.epoch /\ p.boot = c.boot /\ p.seq <= c.seq

IsOld(n, p) == p.dev # 0 /\ (EventId(p) \in processed[n] \/ IsStale(n, p))

-----------------------------------------------------------------------------
(* The engine's events and their projection                                *)

\* Mutant: events pile up.
EmitUnbounded(n, o) ==
    /\ events' = [events EXCEPT ![n] = Append(@, o)]
    /\ UNCHANGED lagged

\* The event channel overwrites its oldest event when it is full.
Emit(n, o) ==
    LET full == Len(events[n]) = EventCapacity IN
    /\ events' = [events EXCEPT ![n] = Append(IF full THEN Tail(@) ELSE @, o)]
    /\ lagged' = [lagged EXCEPT ![n] = @ \/ full]

\* sync_tx.send: every connection of n gets the state.
Published(q, n, s) ==
    [l \in Links |-> IF l[2] # "greet" /\ From(l) = n /\ conn[l[1]]
                     THEN Append(q[l], s) ELSE q[l]]

\* An event of origin o meets a fresh snapshot of the engine.  Only a local
\* one is given a new provenance and broadcast.
ProjectAs(n, o) ==
    LET p == IF o.local
             THEN [dev |-> n, epoch |-> proc[n].epoch, boot |-> proc[n].boot,
                   seq |-> proc[n].seq + 1, lamport |-> proc[n].lamport + 1]
             ELSE o.prov
        s == [prov |-> p, track |-> engine[n].track, playing |-> engine[n].playing]
    IN /\ ps' = [ps EXCEPT ![n] = s]
       /\ IF o.local
          THEN /\ proc' = [proc EXCEPT ![n].seq = p.seq, ![n].lamport = p.lamport]
               /\ net' = Published(net, n, s)
          ELSE UNCHANGED <<proc, net>>

\* handle_event
HandleEvent(n) ==
    /\ events[n] # <<>> /\ ~lagged[n]
    /\ ProjectAs(n, Head(events[n]))
    /\ events' = [events EXCEPT ![n] = Tail(@)]
    /\ UNCHANGED <<now, db, engine, lagged, applying, cursor, processed,
                   conn, sent, late, stimuli>>

\* RecvError::Lagged: reconcile_from_snapshot under the timeline's origin.
Reconcile(n) ==
    /\ lagged[n]
    /\ ProjectAs(n, engine[n].origin)
    /\ lagged' = [lagged EXCEPT ![n] = FALSE]
    /\ UNCHANGED <<now, db, engine, events, applying, cursor, processed,
                   conn, sent, late, stimuli>>

-----------------------------------------------------------------------------
(* What happens on a server                                                *)

Stimulus == stimuli < MaxStimuli /\ stimuli' = stimuli + 1
Hazard(kind) == kind \in Hazards /\ Stimulus

\* Nothing is served and no peer is dialled before bootstrap_runtime ends.
Ready(n) == proc[n].init["bootstrap"].pc = "done"
Calm(n)  == \/ "overlap" \in Hazards
            \/ applying[n].pc = "idle" /\ events[n] = <<>>

Engine(n, e, o) ==
    /\ engine' = [engine EXCEPT ![n] = e]
    /\ Emit(n, o)

\* Play, LoadTrack, JumpToIndex, Pause, Resume, Seek and Stop by a user.
Steer(n, t, p) ==
    /\ Ready(n) /\ Calm(n) /\ Stimulus
    /\ Engine(n, [track |-> t, playing |-> p, origin |-> LocalOrigin], LocalOrigin)
    /\ UNCHANGED <<now, db, proc, ps, applying, cursor, processed, wire>>

\* Next and Previous, which leave the timeline's origin as it is.
Skip(n, t, p) ==
    /\ Ready(n) /\ Calm(n) /\ Hazard("skip")
    /\ Engine(n, [engine[n] EXCEPT !.track = t, !.playing = p], LocalOrigin)
    /\ UNCHANGED <<now, db, proc, ps, applying, cursor, processed, wire>>

\* PositionCheckpoint: an event of no command has the timeline's origin.
Checkpoint(n) ==
    /\ engine[n].playing /\ Calm(n) /\ Stimulus
    /\ Emit(n, engine[n].origin)
    /\ UNCHANGED <<now, db, proc, engine, ps, applying, cursor, processed, wire>>

-----------------------------------------------------------------------------
(* apply_remote_playback_state, under the lock of the playback module      *)

\* The checks, up to the comparison with the current state; a current state
\* that wins and is this server's own is broadcast again.
Consider(n, s, d, q) ==
    /\ Ready(n) /\ Calm(n) /\ applying[n].pc = "idle"
    /\ IF s.prov.dev = n THEN net' = q /\ UNCHANGED <<proc, applying>>
       ELSE /\ proc' = [proc EXCEPT ![n].lamport = Observed(@, s.prov.lamport)]
            /\ IF IsOld(n, s.prov) THEN net' = q /\ UNCHANGED applying
               ELSE \E wins \in Outcomes(ps[n].prov, s.prov) :
                      IF wins
                      THEN /\ net' = IF ps[n].prov.dev = n
                                     THEN Published(q, n, ps[n]) ELSE q
                           /\ UNCHANGED applying
                      ELSE /\ applying' = [applying EXCEPT ![n] =
                                 [pc |-> "load", state |-> s, dial |-> d]]
                           /\ net' = q

Origin(n) == [local |-> FALSE, prov |-> applying[n].state.prov]
Goto(n, pc) == applying' = [applying EXCEPT ![n].pc = pc]
Release(n)  == applying' = [applying EXCEPT ![n] = NotApplying]

\* load_track_with_origin, which pauses, or seek_with_origin without a track.
Load(n) ==
    /\ applying[n].pc = "load"
    /\ LET s == applying[n].state IN
       Engine(n, IF s.track = NoTrack THEN [engine[n] EXCEPT !.origin = Origin(n)]
                 ELSE [track |-> s.track, playing |-> FALSE, origin |-> Origin(n)],
              Origin(n))
    /\ Goto(n, "play")
    /\ UNCHANGED <<now, db, proc, ps, cursor, processed, wire, stimuli>>

\* Mutant: the engine does not answer a resume of what plays.
ResumeUnanswered(n) ==
    /\ applying[n].pc = "play" /\ ~(applying[n].state.playing /\ engine[n].playing)
    /\ Engine(n, [engine[n] EXCEPT !.playing = applying[n].state.playing,
                                   !.origin = Origin(n)], Origin(n))
    /\ Goto(n, "volume")
    /\ UNCHANGED <<now, db, proc, ps, cursor, processed, wire, stimuli>>

\* resume_with_origin or pause_with_origin; resuming what plays is silent.
ResumeOrPause(n) ==
    /\ applying[n].pc = "play"
    /\ LET p == applying[n].state.playing
           e == [engine[n] EXCEPT !.playing = p, !.origin = Origin(n)] IN
       IF p /\ engine[n].playing
       THEN engine' = [engine EXCEPT ![n] = e] /\ UNCHANGED <<events, lagged>>
       ELSE Engine(n, e, Origin(n))
    /\ Goto(n, "volume")
    /\ UNCHANGED <<now, db, proc, ps, cursor, processed, wire, stimuli>>

\* set_volume_with_origin, then the event and the peer's cursor are recorded.
Record(n) ==
    LET p == applying[n].state.prov IN
    /\ applying[n].pc = "volume"
    /\ Emit(n, Origin(n))
    /\ IF p.dev = 0 THEN UNCHANGED <<cursor, processed>>
       ELSE /\ processed' = [processed EXCEPT ![n] =
                  {EventId(p)} \cup (IF Cardinality(@) > EventMemory THEN {} ELSE @)]
            /\ cursor' = [cursor EXCEPT ![n][p.dev] =
                  [epoch |-> p.epoch, boot |-> p.boot, seq |-> p.seq]]
    /\ Release(n)
    /\ UNCHANGED <<now, db, proc, engine, ps, wire, stimuli>>

\* The track is unknown, no output is selected, or every output refuses the
\* volume: nothing is recorded, what was applied stays.
GiveUp(n) ==
    /\ Hazard("unplayable")
    /\ LET s == applying[n].state IN
       \/ /\ applying[n].pc = "load" /\ s.track # NoTrack
          /\ UNCHANGED <<engine, events, lagged>>
       \/ /\ applying[n].pc = "play" /\ s.playing
          /\ engine' = [engine EXCEPT ![n].origin = Origin(n)]
          /\ UNCHANGED <<events, lagged>>
       \/ /\ applying[n].pc = "volume"
          /\ Emit(n, Origin(n))
          /\ UNCHANGED engine
    /\ Release(n)
    /\ UNCHANGED <<now, db, proc, ps, cursor, processed, wire>>

-----------------------------------------------------------------------------
(* Connections                                                             *)

\* start_sync_peers connects, once it has left the previous connection;
\* handle_sync greets with the current state.
Connect(d) ==
    /\ ~conn[d] /\ Ready(d[1]) /\ Ready(d[2])
    /\ applying[d[1]].dial # d /\ \A i \in DOMAIN late[d[1]] : late[d[1]][i].dial # d
    /\ "torn" \in Hazards \/ (applying[d[2]].pc = "idle" /\ events[d[2]] = <<>>)
    /\ conn' = [conn EXCEPT ![d] = TRUE]
    /\ sent' = [sent EXCEPT ![d] = ps[d[2]]]
    /\ net' = [net EXCEPT ![<<d, "greet">>] = <<ps[d[2]]>>]
    /\ UNCHANGED <<now, server, late, stimuli>>

\* The send task of handle_sync skips what the last state sent covers.
Covered(l, s) == l[2] = "down" /\ (Precedes(sent[l[1]].prov, s.prov) \/ sent[l[1]] = s)
\* The greeting is sent before the first broadcast.
InOrder(l) == net[l] # <<>> /\ (l[2] = "down" => net[<<l[1], "greet">>] = <<>>)

Receive(l) ==
    /\ InOrder(l)
    /\ LET s == Head(net[l])
           q == [net EXCEPT ![l] = Tail(@)] IN
       IF Covered(l, s) THEN net' = q /\ UNCHANGED <<proc, applying, sent>>
       ELSE /\ Consider(To(l), s, l[1], q)
            /\ sent' = IF l[2] = "down" THEN [sent EXCEPT ![l[1]] = s] ELSE sent
    /\ UNCHANGED <<now, db, engine, events, lagged, ps, cursor, processed, conn,
                   late, stimuli>>

ReceiveLate(n) ==
    /\ late[n] # <<>>
    /\ Consider(n, Head(late[n]).state, Head(late[n]).dial, net)
    /\ late' = [late EXCEPT ![n] = Tail(@)]
    /\ UNCHANGED <<now, db, engine, events, lagged, ps, cursor, processed, conn,
                   sent, stimuli>>

\* Connections ds end.  Of what was under way to the readers at most one state
\* is still read, and an application is cut short when its task is aborted.
Sever(ds, readers, q, a) ==
    \E kept \in {{}} \cup {{l} : l \in {k \in Links :
                  /\ k[1] \in ds /\ To(k) \in readers
                  /\ InOrder(k) /\ ~Covered(k, Head(net[k]))}},
       cut \in SUBSET {n \in Servers : a[n].dial \in ds} :
       /\ conn' = [d \in Dials |-> conn[d] /\ d \notin ds]
       /\ net' = [l \in Links |-> IF l[1] \in ds THEN <<>> ELSE net[l]]
       /\ late' = [n \in Servers |->
                     IF \A l \in kept : To(l) # n THEN q[n]
                     ELSE LET l == CHOOSE l \in kept : TRUE IN
                          Append(q[n], [dial |-> l[1], state |-> Head(net[l])])]
       /\ applying' = [n \in Servers |-> IF n \in cut THEN NotApplying ELSE a[n]]
       /\ UNCHANGED sent

\* The dialling side gives the connection up; the other may read on.
Disconnect(d) ==
    /\ conn[d] /\ Hazard("disconnect")
    /\ Sever({d}, {d[2]}, late, applying)
    /\ UNCHANGED <<now, db, proc, engine, events, lagged, ps, cursor, processed>>

-----------------------------------------------------------------------------
(* Restart                                                                 *)

\* A process ends, after flush_shutdown or without it, and the next starts
\* with the clock as its epoch until it has read the database.
Restart(n, clean) ==
    /\ Hazard("restart")
    /\ now' \in {now, now + 1}
    /\ db' = IF clean THEN [db EXCEPT ![n].lamport = proc[n].lamport] ELSE db
    /\ proc' = [proc EXCEPT ![n] =
                  [boot |-> @.boot + 1, epoch |-> now', seq |-> 0, lamport |-> 0,
                   init |-> [i \in Inits |->
                                [pc |-> "epoch", epoch |-> 0, lamport |-> 0]]]]
    /\ engine' = [engine EXCEPT ![n] = IdleEngine]
    /\ events' = [events EXCEPT ![n] = <<>>]
    /\ lagged' = [lagged EXCEPT ![n] = FALSE]
    /\ ps' = [ps EXCEPT ![n] = Default]
    /\ cursor' = [cursor EXCEPT ![n] = [m \in Servers |-> NoCursor]]
    /\ processed' = [processed EXCEPT ![n] = {}]
    /\ Sever({d \in Dials : conn[d] /\ n \in {d[1], d[2]}}, Servers \ {n},
             [late EXCEPT ![n] = <<>>], [applying EXCEPT ![n] = NotApplying])

\* initialize_db_state, spawned by the constructor and then awaited by
\* bootstrap_runtime: the epoch is advanced in the database and stored, the
\* Lamport clock is loaded, and stored after the database has answered.
Stage(n, i, pc) ==
    /\ proc[n].init[i].pc = pc
    /\ \/ i = "spawned" \/ "straggler" \in Hazards
       \/ proc[n].init["spawned"].pc = "done"

\* Mutant: the epoch is the clock alone.
InitEpochNow(n, i) ==
    /\ Stage(n, i, "epoch")
    /\ db' = [db EXCEPT ![n].epoch = now]
    /\ proc' = [proc EXCEPT ![n].init[i] = [pc |-> "load", epoch |-> now, lamport |-> 0]]
    /\ UNCHANGED <<now, engine, events, lagged, ps, applying, cursor, processed,
                   wire, stimuli>>

InitEpoch(n, i) ==
    LET e == Larger(db[n].epoch + 1, now) IN
    /\ Stage(n, i, "epoch")
    /\ db' = [db EXCEPT ![n].epoch = e]
    /\ proc' = [proc EXCEPT ![n].init[i] = [pc |-> "load", epoch |-> e, lamport |-> 0]]
    /\ UNCHANGED <<now, engine, events, lagged, ps, applying, cursor, processed,
                   wire, stimuli>>

InitLoad(n, i) ==
    /\ Stage(n, i, "load")
    /\ proc' = [proc EXCEPT ![n].epoch = proc[n].init[i].epoch,
                            ![n].init[i] = [pc |-> "store", epoch |-> 0, lamport |->
                               Larger(db[n].lamport, proc[n].lamport) + Reserve]]
    /\ UNCHANGED <<now, db, engine, events, lagged, ps, applying, cursor,
                   processed, wire, stimuli>>

InitStore(n, i) ==
    LET reserved == proc[n].init[i].lamport IN
    /\ Stage(n, i, "store")
    /\ db' = [db EXCEPT ![n].lamport = reserved]
    /\ proc' = [proc EXCEPT ![n].lamport = reserved, ![n].init[i] = Initialized]
    /\ UNCHANGED <<now, engine, events, lagged, ps, applying, cursor, processed,
                   wire, stimuli>>

-----------------------------------------------------------------------------
\* Nothing is under way anywhere.
Quiet == /\ \A n \in Servers : /\ proc[n].init = [i \in Inits |-> Initialized]
                               /\ events[n] = <<>> /\ ~lagged[n]
                               /\ applying[n].pc = "idle"
                               /\ late[n] = <<>>
         /\ \A d \in Dials : conn[d]
         /\ \A l \in Links : net[l] = <<>>

Progress(n) ==
    \/ HandleEvent(n) \/ Reconcile(n)
    \/ Load(n) \/ ResumeOrPause(n) \/ Record(n)
    \/ ReceiveLate(n)
    \/ \E i \in Inits : InitEpoch(n, i) \/ InitLoad(n, i) \/ InitStore(n, i)

Next ==
    \/ \E n \in Servers : Progress(n) \/ Checkpoint(n) \/ GiveUp(n)
    \/ \E n \in Servers, t \in Tracks, p \in BOOLEAN : Steer(n, t, p) \/ Skip(n, t, p)
    \/ \E n \in Servers, clean \in BOOLEAN : Restart(n, clean)
    \/ \E d \in Dials : Connect(d) \/ Disconnect(d)
    \/ \E l \in Links : Receive(l)

Spec == Init /\ [][Next]_vars

\* Tasks run, messages arrive and clients reconnect.
FairSpec ==
    /\ Spec
    /\ \A n \in Servers : WF_vars(Progress(n))
    /\ \A d \in Dials : WF_vars(Connect(d))
    /\ \A l \in Links : WF_vars(Receive(l))

-----------------------------------------------------------------------------
(* Properties                                                              *)

\* Every variable has its type.
TypeOK ==
    /\ now \in Nat
    /\ db \in [Servers -> [epoch : Nat, lamport : Nat]]
    /\ proc \in [Servers -> Processes]
    /\ engine \in [Servers -> [track : Tracks \cup {NoTrack}, playing : BOOLEAN,
                               origin : Origins]]
    /\ \A n \in Servers : /\ events[n] \in Seq(Origins)
                          /\ Len(events[n]) <= EventCapacity
                          /\ late[n] \in Seq([dial : Dials, state : States])
    /\ lagged \in [Servers -> BOOLEAN]
    /\ ps \in [Servers -> States]
    /\ applying \in [Servers -> [pc : {"idle", "load", "play", "volume"},
                                 state : States, dial : Dials \cup {NoDial}]]
    /\ cursor \in [Servers -> [Servers -> Cursors]]
    /\ conn \in [Dials -> BOOLEAN]
    /\ sent \in [Dials -> States]
    /\ \A l \in Links : net[l] \in Seq(States)
    /\ stimuli \in 0..MaxStimuli

\* Every provenance a server or a message holds.
Known == {ps[n].prov : n \in Servers} \cup {applying[n].state.prov : n \in Servers}
         \cup (UNION {{net[l][i].prov : i \in DOMAIN net[l]} : l \in Links})
         \cup (UNION {{late[n][i].state.prov : i \in DOMAIN late[n]} : n \in Servers})

Agreed == \A n, m \in Servers : /\ engine[n].track = engine[m].track
                                /\ engine[n].playing = engine[m].playing

\* When nothing is under way every server plays the same: conflicts were
\* resolved alike in whatever order the states arrived.
Converged == Quiet => Agreed

\* The same once no server plays a timeline of its own either, whose next
\* checkpoint would be broadcast: what differs then differs until a user acts.
RestsConverged ==
    Quiet /\ (\A n \in Servers : ~(engine[n].playing /\ engine[n].origin.local))
       => Agreed

\* The state a server shows never gives way to one it has precedence over: a
\* user's command outranks all the server has observed, and an event of a
\* peer's timeline does not bring an older provenance back.
StateNeverRegresses ==
    [][\A n \in Servers : proc'[n].boot = proc[n].boot
          => ~Precedes(ps[n].prov, ps'[n].prov)]_vars

\* The states of one peer are applied in its order and none twice, whatever
\* is duplicated, late or rebooted, and with any memory of event ids.
PeerOrder ==
    [][\A n \in Servers :
          LET p == applying[n].state.prov
              c == cursor[n][p.dev] IN
          Record(n) /\ p.dev # 0 =>
             p.epoch > c.epoch \/ (p.epoch = c.epoch /\ p.seq > c.seq)]_vars

\* Whatever a process of a server publishes has precedence over all that its
\* earlier processes left behind.
RebootWins ==
    \A a, b \in Known : a.dev # 0 /\ a.dev = b.dev /\ a.boot > b.boot => Precedes(a, b)

\* The epoch and the Lamport clock of a process do not go back, so each of
\* its states has precedence over the ones before and no two carry one time.
ClockNeverRegresses ==
    [][\A n \in Servers : proc'[n].boot = proc[n].boot
          => /\ proc'[n].lamport >= proc[n].lamport
             /\ proc'[n].epoch >= proc[n].epoch]_vars

\* Precedence is an order on the states that are about: it has no cycle of
\* three.
PrecedenceIsOrder ==
    \A a, b, c \in Known : Precedes(a, b) /\ Precedes(b, c) => ~Precedes(c, a)

\* Broadcasts, re-broadcasts and echoes die out once users and faults rest.
Quiesces == <>[]Quiet

\* Time only goes forward: neither a process's own clocks nor the states it applies of a
\* peer ever step back, over duplicates, late messages and restarts.
OnlyForward == ClockNeverRegresses /\ PeerOrder
=============================================================================
