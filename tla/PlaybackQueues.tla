------------------------------ MODULE PlaybackQueues ------------------------------
(***************************************************************************)
(* The queue and session requests of the HTTP API (routes/v1/queue.rs,     *)
(* playback.rs, playback_transfer.rs), the database queue and the latest   *)
(* playback_sessions row they write, the engine they drive, the projection *)
(* that writes the row from engine events, and what a restart restores.    *)
(*                                                                         *)
(* A request is a job: its handler validates and commits in its first      *)
(* step and leaves the awaits that follow in todo, one step each, so that  *)
(* requests interleave between any two of them.  Of the engine only its    *)
(* queue, index, track and lifecycle are kept (PlaybackEngine has the      *)
(* rest), of an event the track and the index it carries.  Positions,      *)
(* volumes and modes are left out.                                         *)
(***************************************************************************)
EXTENDS Naturals, Sequences, SequencesExt, FiniteSetsExt

CONSTANTS
  Tracks,     \* the tracks of the library
  Lists,      \* the queues a request may carry
  Callers,    \* concurrent requests
  None,       \* no track, no row, no queue
  Hazards,    \* the disturbances an instance contains
  MaxOps,     \* bound on requests
  MaxLen,     \* bound on the length of a queue
  MaxEvts,    \* bound on the events the projection has not received
  MaxMoves,   \* bound on what the engine does by itself or by single commands
  MaxFaults   \* bound on disturbances

Queues == UNION {[1..n -> Tracks] : n \in 0..MaxLen}
MaybeTrack == Tracks \union {None}
Row == [q : {"none", "active", "saved", "gone"}, idx : 0..MaxLen, cur : MaybeTrack]
Event == [cur : MaybeTrack, idx : 0..MaxLen]

ASSUME QueuesAssumption ==
  /\ {MaxOps, MaxLen, MaxEvts, MaxMoves, MaxFaults} \subseteq Nat
  /\ MaxLen > 0
  /\ None \notin Tracks \union Nat \union Row \union Event
  /\ Lists \subseteq Queues
  /\ "boot" \notin Callers
  /\ Hazards \subseteq {"drop", "vanish", "lag", "restart", "crash", "playfail"}

VARIABLES
  db,      \* active and saved queue, and the playback_sessions row updated last
  eng,     \* the engine: queue, index, track, lifecycle
  evts,    \* engine events the projection has not received
  proj,    \* the projection between its read and its write
  last,    \* last_projection
  lib,     \* the tracks that validate
  sel,     \* whether an output is selected
  xfer,    \* the pending playback transfer
  job,     \* what each request still has to do
  fin,     \* ghost: the last request, if it ended well and nothing overlapped it
  drift,   \* ghost: the row was written without the engine following
  place,   \* ghost: the track a restart should bring back
  ops, moves, faults

vars == <<db, eng, evts, proj, last, lib, sel, xfer, job, fin, drift, place, ops, moves, faults>>
world == <<proj, last, lib, sel, xfer, drift, place, moves, faults>>

Jobs == Callers \union {"boot"}
Idle == [todo |-> <<>>, op |-> "none", q |-> "active", list |-> <<>>, idx |-> 0, cur |-> None,
         alone |-> FALSE]
NoRow == [q |-> "none", idx |-> 0, cur |-> None]
NoFin == [op |-> "none", q |-> "active", cur |-> None]
NoEngine == [queue |-> <<>>, idx |-> 0, track |-> None, life |-> "idle"]

Init ==
  /\ db = [active |-> <<>>, saved |-> <<>>, row |-> NoRow, rows |-> FALSE]
  /\ eng = NoEngine
  /\ evts = <<>> /\ proj = None /\ last = None
  /\ lib = Tracks /\ sel = FALSE /\ xfer = None
  /\ job = [c \in Jobs |-> Idle]
  /\ fin = NoFin /\ drift = FALSE /\ place = None
  /\ ops = 0 /\ moves = 0 /\ faults = 0

Fault(h) == h \in Hazards /\ faults < MaxFaults /\ faults' = faults + 1

(***************************************************************************)
(* The database                                                            *)
(***************************************************************************)
\* A queue of the database: the active one, the saved one, or none.
get_queue_items(q) ==
  CASE q = "active" -> db.active
    [] q = "saved" -> db.saved
    [] OTHER -> <<>>

\* validate_and_load_tracks: all of them or none.
validate_and_load_tracks(l) == ToSet(l) \subseteq lib

create_playback_session(d, q, i, t) ==
  [d EXCEPT !.row = [q |-> q, idx |-> i, cur |-> t], !.rows = TRUE]

\* The row written is the one updated last from now on.
update_playback_session(d, r) == [d EXCEPT !.row = r, !.rows = TRUE]

\* The row names the first track, whatever the index.
save_queue_state(d, l, i) ==
  [create_playback_session(d, "saved", i, IF l = <<>> THEN None ELSE Head(l)) EXCEPT !.saved = l]

(***************************************************************************)
(* The engine                                                              *)
(***************************************************************************)
\* The place of the first t in l, counted from 0.
PlaceOf(l, t) == Min({i \in DOMAIN l : l[i] = t}) - 1

\* Mutant: an empty queue leaves the index.
SetQueueKeepsIndex(e, l, i, t) ==
  LET want == IF t \in ToSet(l) THEN PlaceOf(l, t) ELSE i
      at == IF l = <<>> THEN e.idx ELSE Min({want, Len(l) - 1})
  IN [e EXCEPT !.queue = l, !.idx = at,
               !.track = IF @ = None /\ e.life # "playing" /\ l # <<>> THEN l[at + 1] ELSE @]

\* SetQueue: by track, else by index; a track is adopted only if there is none.
EngineSetQueue(e, l, i, t) ==
  LET want == IF t \in ToSet(l) THEN PlaceOf(l, t) ELSE i
      at == IF l = <<>> THEN 0 ELSE Min({want, Len(l) - 1})
  IN [e EXCEPT !.queue = l, !.idx = at,
               !.track = IF @ = None /\ e.life # "playing" /\ l # <<>> THEN l[at + 1] ELSE @]

EngineLoad(e, t) == [e EXCEPT !.track = t, !.life = "paused"]
EnginePlay(e, t) == [e EXCEPT !.track = t, !.life = "playing"]
EngineJump(e, i) == [e EXCEPT !.idx = i, !.track = e.queue[i + 1]]

\* The engine runs a command and reports the track and the index it ends with.
Engine(e) ==
  /\ Len(evts) < MaxEvts
  /\ eng' = e
  /\ evts' = Append(evts, [cur |-> e.track, idx |-> e.idx])
NoEngineChange == UNCHANGED <<eng, evts>>

(***************************************************************************)
(* Jobs                                                                    *)
(***************************************************************************)
\* A request begins; whatever else runs is no longer alone.
Begin(c, j) ==
  /\ job[c] = Idle /\ c # "boot"
  /\ ops < MaxOps /\ ops' = ops + 1
  /\ fin' = NoFin
  /\ job' = [x \in Jobs |->
               IF x = c THEN [j EXCEPT !.alone = \A y \in Jobs : job[y] = Idle]
               ELSE [job[x] EXCEPT !.alone = FALSE]]

\* A request that is over in its first step: only what it was is remembered.
BeginAndEnd(c, op, q) ==
  /\ job[c] = Idle /\ c # "boot"
  /\ ops < MaxOps /\ ops' = ops + 1
  /\ fin' = [NoFin EXCEPT !.op = IF \A y \in Jobs : job[y] = Idle THEN op ELSE "none", !.q = q]
  /\ job' = [x \in Jobs |-> [job[x] EXCEPT !.alone = FALSE]]

At(c, step) == job[c].todo # <<>> /\ Head(job[c].todo) = step

\* The job c goes on as j after its current step; the last step ends it.
Go(c, j) ==
  LET rest == Tail(job[c].todo) IN
  /\ job' = [job EXCEPT ![c] = IF rest = <<>> THEN Idle ELSE [j EXCEPT !.todo = rest]]
  /\ fin' = IF rest = <<>> /\ j.alone THEN [op |-> j.op, q |-> j.q, cur |-> j.cur] ELSE fin
  /\ UNCHANGED ops

\* The handler returns an error.
Refuse(c) == job' = [job EXCEPT ![c] = Idle] /\ UNCHANGED <<fin, ops>>

New(op, steps) == [Idle EXCEPT !.op = op, !.todo = steps]

(***************************************************************************)
(* routes/v1/queue.rs                                                      *)
(***************************************************************************)
queue_items_handler(c, l) ==
  /\ l # <<>> /\ validate_and_load_tracks(l)
  /\ Len(db.active) + Len(l) <= MaxLen
  /\ db' = [db EXCEPT !.active = @ \o l]
  /\ Begin(c, New("add", <<"snap", "read", "set">>))
  /\ NoEngineChange /\ UNCHANGED world

\* Any order of the items; the queue may be one that is not active.
queue_reorder_handler(c, q) ==
  /\ \E p \in Bijection(DOMAIN get_queue_items(q), DOMAIN get_queue_items(q)) :
       LET l == [i \in DOMAIN get_queue_items(q) |-> get_queue_items(q)[p[i]]] IN
       db' = IF q = "active" THEN [db EXCEPT !.active = l] ELSE [db EXCEPT !.saved = l]
  /\ get_queue_items(q) # <<>>
  /\ Begin(c, [New("reorder", <<"snap", "read", "set">>) EXCEPT !.q = q])
  /\ NoEngineChange /\ UNCHANGED world

\* The items are read and validated; those of another queue become the active ones.
queue_jump_handler(c, q, i) ==
  /\ i < Len(get_queue_items(q)) /\ validate_and_load_tracks(get_queue_items(q))
  /\ Begin(c, [New("jump", IF q = "active" THEN <<"set", "jump">> ELSE <<"promote", "set", "jump">>)
                 EXCEPT !.list = get_queue_items(q), !.idx = i, !.cur = get_queue_items(q)[i + 1]])
  /\ UNCHANGED db /\ NoEngineChange /\ UNCHANGED world

\* Mutant: the queue jumped into is not promoted.
JumpNotPromoted(c) ==
  /\ At(c, "promote")
  /\ Go(c, job[c]) /\ UNCHANGED db /\ NoEngineChange /\ UNCHANGED world

JumpPromote(c) ==
  /\ At(c, "promote")
  /\ db' = [db EXCEPT !.active = job[c].list]
  /\ Go(c, job[c]) /\ NoEngineChange /\ UNCHANGED world

queue_transfer_handler(c, l, i) ==
  /\ i < Len(l) /\ validate_and_load_tracks(l)
  /\ db' = [db EXCEPT !.active = l]
  /\ Begin(c, [New("transfer", <<"save", "set">>) EXCEPT !.list = l, !.idx = i, !.cur = l[i + 1]])
  /\ NoEngineChange /\ UNCHANGED world

TransferSave(c) ==
  /\ At(c, "save")
  /\ db' = save_queue_state(db, job[c].list, job[c].idx)
  /\ Go(c, job[c]) /\ NoEngineChange /\ UNCHANGED world

clear_queue_handler(c, q) ==
  /\ db' = IF q = "active" THEN [db EXCEPT !.active = <<>>] ELSE [db EXCEPT !.saved = <<>>]
  /\ IF q = "active" THEN Begin(c, New("clear", <<"set">>)) ELSE BeginAndEnd(c, "none", q)
  /\ NoEngineChange /\ UNCHANGED world

\* The queue itself goes too: a row that names it names nothing from now on.
queue_delete_handler(c, q) ==
  /\ get_queue_items(q) # <<>>
  /\ LET d == [db EXCEPT !.row.q = IF @ = q THEN "gone" ELSE @] IN
     db' = IF q = "active" THEN [d EXCEPT !.active = <<>>] ELSE [d EXCEPT !.saved = <<>>]
  /\ IF q = "active" THEN Begin(c, New("clear", <<"set">>)) ELSE BeginAndEnd(c, "none", q)
  /\ NoEngineChange /\ UNCHANGED world

\* Unvalidated, and nothing but the database.
queue_save_handler(c, l, i) ==
  /\ db' = save_queue_state(db, l, i)
  /\ BeginAndEnd(c, "none", "saved")
  /\ NoEngineChange /\ UNCHANGED world

\* The track the engine has, asked for before the queue is read again.
SnapshotTrack(c) ==
  /\ At(c, "snap")
  /\ Go(c, [job[c] EXCEPT !.cur = eng.track])
  /\ UNCHANGED db /\ NoEngineChange /\ UNCHANGED world

\* Mutant: the queue is pushed from its beginning, whatever plays.
SyncForgetsTrack(c) ==
  /\ At(c, "read")
  /\ IF validate_and_load_tracks(get_queue_items(job[c].q))
     THEN Go(c, [job[c] EXCEPT !.list = get_queue_items(job[c].q), !.cur = None, !.idx = 0])
     ELSE Refuse(c)
  /\ UNCHANGED db /\ NoEngineChange /\ UNCHANGED world

\* sync_active_queue_to_engine: reads and validates; an empty queue names no track.
sync_active_queue_to_engine(c) ==
  /\ At(c, "read")
  /\ LET l == get_queue_items(job[c].q)
         t == job[c].cur IN
     IF validate_and_load_tracks(l)
     THEN Go(c, [job[c] EXCEPT !.list = l, !.cur = IF l = <<>> THEN None ELSE t,
                               !.idx = IF t \in ToSet(l) THEN PlaceOf(l, t) ELSE 0])
     ELSE Refuse(c)
  /\ UNCHANGED db /\ NoEngineChange /\ UNCHANGED world

SetQueue(c) ==
  /\ At(c, "set")
  /\ Engine(EngineSetQueue(eng, job[c].list, job[c].idx, job[c].cur))
  /\ Go(c, job[c])
  /\ UNCHANGED db /\ UNCHANGED world

\* The index is refused if the queue became shorter in between.
JumpToIndex(c) ==
  /\ At(c, "jump")
  /\ IF job[c].idx < Len(eng.queue)
     THEN Engine(EngineJump(eng, job[c].idx)) /\ Go(c, job[c])
     ELSE NoEngineChange /\ Refuse(c)
  /\ UNCHANGED db /\ UNCHANGED world

(***************************************************************************)
(* routes/v1/playback.rs                                                   *)
(***************************************************************************)
set_playback_output_handler ==
  /\ ~sel /\ sel' = TRUE
  /\ UNCHANGED <<db, eng, evts, proj, last, lib, xfer, job, fin, drift, place, ops, moves, faults>>

\* Everything is validated; playing needs an output and a track.
playback_session_handler(c, l, t, playing) ==
  /\ validate_and_load_tracks(l)
  /\ IF l = <<>> THEN t = None ELSE t \in ToSet(l)
  /\ playing => sel /\ l # <<>>
  /\ db' = [db EXCEPT !.active = l]
  /\ Begin(c, [New("session", IF l = <<>> THEN <<"row", "set">>
                              ELSE <<"row", "set", IF playing THEN "play" ELSE "load">>)
                 EXCEPT !.list = l, !.cur = t, !.idx = IF l = <<>> THEN 0 ELSE PlaceOf(l, t)])
  /\ NoEngineChange /\ UNCHANGED world

\* The row, or the refusal of a device_id that is checked after the commit.
SessionRow(c) ==
  /\ At(c, "row")
  /\ \/ db' = create_playback_session(db, "active", job[c].idx, job[c].cur) /\ Go(c, job[c])
     \/ "drop" \in Hazards /\ Refuse(c) /\ UNCHANGED db
  /\ NoEngineChange /\ UNCHANGED world

LoadTrack(c) ==
  /\ At(c, "load")
  /\ Engine(EngineLoad(eng, job[c].list[job[c].idx + 1]))
  /\ Go(c, job[c])
  /\ UNCHANGED db /\ UNCHANGED world

\* A start that fails leaves the engine its track but reports the new one.
PlayTrack(c) ==
  /\ At(c, "play")
  /\ LET t == job[c].list[job[c].idx + 1] IN
     \/ Engine(EnginePlay(eng, t)) /\ Go(c, job[c]) /\ UNCHANGED <<drift, faults>>
     \/ /\ Fault("playfail") /\ Refuse(c) /\ Len(evts) < MaxEvts
        /\ eng' = [eng EXCEPT !.life = "idle"]
        /\ evts' = Append(evts, [cur |-> t, idx |-> eng.idx])
        /\ drift' = TRUE
  /\ UNCHANGED <<db, proj, last, lib, sel, xfer, place, moves>>

\* The queue of the row, else the active one, else the track of the row.
RestoreTracks(fallback) ==
  LET own == get_queue_items(db.row.q)
      first == IF validate_and_load_tracks(own) THEN own ELSE <<>>
      second == IF validate_and_load_tracks(db.active) THEN db.active ELSE <<>>
  IN IF ~fallback \/ first # <<>> THEN first
     ELSE IF second # <<>> THEN second
     ELSE IF db.row.cur \in lib THEN <<db.row.cur>> ELSE <<>>

resolve_restore_index(l, t, i) ==
  IF l = <<>> THEN None
  ELSE IF t # None THEN IF t \in ToSet(l) THEN PlaceOf(l, t) ELSE None
  ELSE IF i < Len(l) THEN i ELSE None

\* The row is read, its tracks are found, and its place among them.
RestoreRead(c, op, fallback) ==
  LET l == RestoreTracks(fallback)
      at == resolve_restore_index(l, db.row.cur, db.row.idx) IN
  /\ db.rows /\ at # None
  /\ job[c].todo = <<>>
  /\ Begin(c, [New(op, <<"set", "load", "mark">>)
                 EXCEPT !.q = db.row.q, !.list = l, !.idx = at, !.cur = l[at + 1]])

restore_playback_state_handler(c) ==
  /\ RestoreRead(c, "restore", TRUE)
  /\ UNCHANGED db /\ NoEngineChange /\ UNCHANGED world

\* The row read at the beginning is written back with its restored flag.
RestoreMark(c) ==
  /\ At(c, "mark")
  /\ db' = update_playback_session(db, [q |-> job[c].q, idx |-> job[c].idx, cur |-> job[c].cur])
  /\ drift' = (drift \/ ~job[c].alone)
  /\ Go(c, job[c])
  /\ NoEngineChange /\ UNCHANGED <<proj, last, lib, sel, xfer, place, moves, faults>>

\* One track from another device, played or loaded beside the queue.
handoff_handler(c, t, playing) ==
  /\ t \in lib /\ (playing => sel)
  /\ Engine(IF playing THEN EnginePlay(eng, t) ELSE EngineLoad(eng, t))
  /\ BeginAndEnd(c, "none", "active")
  /\ UNCHANGED db /\ UNCHANGED world

\* play without a track resumes a paused engine, else plays the first of the queue.
ControlPlay(c) ==
  /\ BeginAndEnd(c, "none", "active")
  /\ \/ eng.life = "paused" /\ sel /\ Engine([eng EXCEPT !.life = "playing"])
     \/ /\ eng.life # "paused" /\ sel /\ db.active # <<>> /\ Head(db.active) \in lib
        /\ Engine(EnginePlay(eng, Head(db.active)))
  /\ UNCHANGED db /\ UNCHANGED world

\* pause, toggle, stop: the track stays; next and previous go where the engine says, as does
\* the end of a track.
Controls ==
  {[eng EXCEPT !.life = "paused"], [eng EXCEPT !.life = "idle"]}
    \union {EngineJump(eng, i) : i \in 0..(Len(eng.queue) - 1)}
playback_control_handler ==
  /\ moves < MaxMoves /\ moves' = moves + 1
  /\ \E e \in Controls \ {eng} : Engine(e)
  /\ fin' = NoFin
  /\ job' = [x \in Jobs |-> [job[x] EXCEPT !.alone = FALSE]]
  /\ UNCHANGED <<db, proj, last, lib, sel, xfer, drift, place, ops, faults>>

(***************************************************************************)
(* routes/v1/playback_transfer.rs                                          *)
(***************************************************************************)
\* k is what is found of l, in its order.
Found(l, k) ==
  \E at \in [DOMAIN k -> DOMAIN l] :
    /\ \A i, j \in DOMAIN k : i < j => at[i] < at[j]
    /\ ToSet(at) = {i \in DOMAIN l : l[i] \in lib}
    /\ \A i \in DOMAIN k : k[i] = l[at[i]]

\* The tracks that are found are kept, with the index of the whole queue.
playback_transfer_prepare_handler(c) ==
  /\ xfer = None
  /\ BeginAndEnd(c, "none", "active")
  /\ \E l \in Lists, k \in Queues, t \in lib, i \in 0..(MaxLen - 1), playing \in BOOLEAN :
       Found(l, k) /\ xfer' = [list |-> k, cur |-> t, idx |-> i, playing |-> playing]
  /\ UNCHANGED <<db, eng, evts, proj, last, lib, sel, drift, place, moves, faults>>

\* The output is selected and the receiver session started before the queue is installed.
playback_transfer_commit_handler(c) ==
  /\ xfer # None
  /\ sel' = TRUE
  /\ LET l == IF xfer.list = <<>> THEN <<xfer.cur>> ELSE xfer.list
         i == Min({xfer.idx, Len(l) - 1}) IN
     Begin(c, [New("commit", <<"install", "set", IF xfer.playing THEN "play" ELSE "load", "forget">>)
                 EXCEPT !.list = l, !.idx = i, !.cur = l[i + 1]])
  /\ UNCHANGED db /\ NoEngineChange
  /\ UNCHANGED <<proj, last, lib, xfer, drift, place, moves, faults>>

CommitInstall(c) ==
  /\ At(c, "install")
  /\ db' = [db EXCEPT !.active = job[c].list]
  /\ Go(c, job[c]) /\ NoEngineChange /\ UNCHANGED world

CommitForget(c) ==
  /\ At(c, "forget")
  /\ xfer' = None
  /\ Go(c, job[c])
  /\ UNCHANGED db /\ NoEngineChange
  /\ UNCHANGED <<proj, last, lib, sel, drift, place, moves, faults>>

\* PendingTransferStore: aborted, or expired.
playback_transfer_abort_handler ==
  /\ xfer # None /\ xfer' = None
  /\ UNCHANGED <<db, eng, evts, proj, last, lib, sel, job, fin, drift, place, ops, moves, faults>>

(***************************************************************************)
(* The projection                                                          *)
(***************************************************************************)
\* An event: the latest row is read, or created, and changed in memory.
ProjectRead ==
  /\ proj = None /\ evts # <<>>
  /\ evts' = Tail(evts)
  /\ proj' = [db.row EXCEPT !.cur = Head(evts).cur, !.idx = Head(evts).idx]
  /\ db' = [db EXCEPT !.rows = TRUE]
  /\ UNCHANGED <<eng, last, lib, sel, xfer, job, fin, drift, place, ops, moves, faults>>

\* Events were lost: the row follows the snapshot; an engine without a track changes nothing.
reconcile_from_snapshot ==
  /\ proj = None /\ evts # <<>>
  /\ Fault("lag")
  /\ evts' = <<>>
  /\ IF eng.track = None THEN UNCHANGED <<proj, db>>
     ELSE proj' = [db.row EXCEPT !.cur = eng.track] /\ db' = [db EXCEPT !.rows = TRUE]
  /\ drift' = TRUE
  /\ UNCHANGED <<eng, last, lib, sel, xfer, job, fin, place, ops, moves>>

\* What is compared with the last projection also has fields left out here.
Projected(r) == [cur |-> r.cur, idx |-> r.idx]

\* Mutant: the projection is noted before it is compared.
NoteThenCompare ==
  /\ proj # None
  /\ proj' = None
  /\ last' = Projected(proj)
  /\ UNCHANGED <<db, drift>>
  /\ UNCHANGED <<eng, evts, lib, sel, xfer, job, fin, place, ops, moves, faults>>

persist_if_changed ==
  /\ proj # None
  /\ proj' = None
  /\ \/ /\ db' = update_playback_session(db, proj) /\ last' = Projected(proj)
        /\ drift' = (drift /\ ~(evts = <<>> /\ proj.cur = eng.track))
     \/ last = Projected(proj) /\ UNCHANGED <<db, last, drift>>
  /\ UNCHANGED <<eng, evts, lib, sel, xfer, job, fin, place, ops, moves, faults>>

(***************************************************************************)
(* Disturbances                                                            *)
(***************************************************************************)
\* A client disconnects: the handler is dropped at an await.
DropRequest(c) ==
  /\ job[c] # Idle /\ c # "boot"
  /\ Fault("drop")
  /\ job' = [job EXCEPT ![c] = Idle]
  /\ drift' = TRUE
  /\ UNCHANGED <<db, eng, evts, proj, last, lib, sel, xfer, fin, place, ops, moves>>

\* A file disappears from the disk.
TrackVanishes ==
  /\ \E t \in lib : lib' = lib \ {t}
  /\ Fault("vanish")
  /\ fin' = NoFin /\ place' = None
  /\ UNCHANGED <<db, eng, evts, proj, last, sel, xfer, job, drift, ops, moves>>

Settled == evts = <<>> /\ proj = None /\ \A c \in Jobs : job[c] = Idle

\* The row names the track of the engine as a place in a queue that can be restored.
Restorable(r, d) == r.q = "active" /\ r.cur \in ToSet(d.active) /\ ToSet(d.active) \subseteq lib

\* Mutant: the row is not written at shutdown.
NoFlush == db

\* flush_shutdown: the row takes the track of the engine, whatever is still queued.
flush_shutdown == update_playback_session(db, [db.row EXCEPT !.cur = eng.track])

\* auto_restore_playback_state begins with the process and ends where something is missing.
auto_restore_playback_state(d) ==
  LET l == CASE d.row.q = "active" -> d.active
             [] d.row.q = "saved" -> d.saved
             [] OTHER -> <<>>
      at == resolve_restore_index(l, d.row.cur, d.row.idx)
  IN IF ToSet(l) \subseteq lib /\ at # None
     THEN [New("boot", <<"set", "load", "mark">>)
             EXCEPT !.q = d.row.q, !.list = l, !.idx = at, !.cur = l[at + 1], !.alone = TRUE]
     ELSE Idle

Reboot(d) ==
  /\ db' = d
  /\ eng' = NoEngine /\ evts' = <<>> /\ proj' = None /\ last' = None
  /\ sel' = FALSE /\ xfer' = None /\ fin' = NoFin
  /\ job' = [[c \in Jobs |-> Idle] EXCEPT !["boot"] = auto_restore_playback_state(d)]
  /\ drift' = TRUE
  /\ UNCHANGED <<lib, ops, moves>>

Restart ==
  /\ Fault("restart")
  /\ Reboot(flush_shutdown)
  /\ place' = IF Restorable([db.row EXCEPT !.cur = eng.track], db) THEN eng.track ELSE None

Crash ==
  /\ Fault("crash")
  /\ Reboot(db)
  /\ place' = IF Settled /\ ~drift /\ Restorable(db.row, db) THEN eng.track ELSE None

\* The steps a handler leaves for later.
Step(c) ==
  \/ SnapshotTrack(c) \/ sync_active_queue_to_engine(c) \/ SetQueue(c) \/ JumpToIndex(c)
  \/ JumpPromote(c) \/ TransferSave(c) \/ SessionRow(c) \/ LoadTrack(c) \/ PlayTrack(c)
  \/ RestoreMark(c) \/ CommitInstall(c) \/ CommitForget(c)

Request(c) ==
  \/ \E l \in Lists : queue_items_handler(c, l)
  \/ \E q \in {"active", "saved"} : queue_reorder_handler(c, q) \/ clear_queue_handler(c, q)
                                       \/ queue_delete_handler(c, q)
  \/ \E q \in {"active", "saved"}, i \in 0..(MaxLen - 1) : queue_jump_handler(c, q, i)
  \/ \E l \in Lists, i \in 0..(MaxLen - 1) :
       queue_transfer_handler(c, l, i) \/ queue_save_handler(c, l, i)
  \/ \E l \in Lists \union {<<>>}, t \in Tracks \union {None}, p \in BOOLEAN :
       playback_session_handler(c, l, t, p)
  \/ restore_playback_state_handler(c)
  \/ \E t \in Tracks, p \in BOOLEAN : handoff_handler(c, t, p)
  \/ ControlPlay(c)
  \/ playback_transfer_prepare_handler(c) \/ playback_transfer_commit_handler(c)

Next ==
  \/ \E c \in Callers : Request(c) \/ DropRequest(c)
  \/ \E c \in Jobs : Step(c)
  \/ set_playback_output_handler \/ playback_control_handler
  \/ playback_transfer_abort_handler
  \/ ProjectRead \/ persist_if_changed \/ reconcile_from_snapshot
  \/ TrackVanishes \/ Restart \/ Crash

Spec == Init /\ [][Next]_vars

(***************************************************************************)
(* Properties                                                              *)
(***************************************************************************)
\* The variables have their types, and the engine's index is a place in its queue, or 0.
TypeOK ==
  /\ db.active \in Queues /\ db.saved \in Queues /\ db.row \in Row /\ db.rows \in BOOLEAN
  /\ eng.queue \in Queues /\ eng.track \in MaybeTrack
  /\ eng.life \in {"idle", "paused", "playing"}
  /\ eng.idx = 0 \/ eng.idx < Len(eng.queue)
  /\ proj \in Row \union {None}
  /\ lib \subseteq Tracks /\ sel \in BOOLEAN
  /\ \A c \in Jobs : job[c].list \in Queues /\ job[c].cur \in MaybeTrack

\* Whatever interleaved before, a queue request that nothing overlaps leaves the engine with
\* the queue the database has (queue.rs, playback_queue.rs).
RequestsHeal ==
  fin.op \in {"add", "clear", "jump", "transfer", "session", "commit", "reorder"} =>
    eng.queue = get_queue_items(fin.q)

\* A jump, a session, a commit or a restore that nothing overlaps leaves the engine on the
\* track it was for, at its place in the queue; an addition or a new order keeps the place of
\* the track that plays.
LandsOnTrack ==
  /\ fin.op \in {"jump", "session", "commit", "restore", "boot"} /\ eng.queue # <<>> =>
       eng.track = fin.cur /\ eng.queue[eng.idx + 1] = fin.cur
  /\ fin.op \in {"add", "reorder"} /\ eng.track \in ToSet(eng.queue) =>
       eng.queue[eng.idx + 1] = eng.track

\* Once every request and every event is dealt with, a row of the active queue that names a
\* track names the one of the engine, although row and engine are written by different tasks and a
\* projection equal to the last one is not written (persist_if_changed).
SessionFollows ==
  Settled /\ ~drift /\ db.row.q = "active" /\ db.row.cur # None => db.row.cur = eng.track

\* A restart in a settled state, or an orderly one in any state, brings back the track the
\* engine had (flush_shutdown, auto_restore_playback_state).
PlaceSurvives == fin.op = "boot" /\ place # None => eng.track = place

\* Whatever interleaved before, the next queue request that runs alone makes engine and
\* database agree again, on the queue and on the track at its place.
QueueHeals == TypeOK /\ RequestsHeal /\ LandsOnTrack

\* The place in the queue is kept: the stored session follows the engine once everything is
\* dealt with, and a restart brings the track back.
PlaceKept == SessionFollows /\ PlaceSurvives
====
