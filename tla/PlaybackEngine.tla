--------------------------- MODULE PlaybackEngine ---------------------------
(***************************************************************************)
(* The playback engine of crates/michi-playback/src/engine.rs: one task    *)
(* that owns the queue, the play order, the decoder and the output sinks.  *)
(* It takes one command at a time from an mpsc channel and, while a track  *)
(* is active, interleaves commands with the delivery of PCM chunks.  Every *)
(* handler runs to completion before the next one (run awaits it inside    *)
(* the select! arm), so each handler is one action.                        *)
(*                                                                         *)
(* Abstractions.  A track is a model value; a sink is a model value and a  *)
(* vector of sinks is a set; a position is a member of Positions; the      *)
(* delivered PCM bytes of a track are counted in chunks up to the evidence *)
(* threshold, which is the only value they are compared with.  Events,     *)
(* byte totals, error texts, the volume and the generation counter are     *)
(* telemetry and left out; so is the origin of a command.                  *)
(***************************************************************************)
EXTENDS Integers, Sequences, Functions

CONSTANTS
    Tracks,          \* tracks of the library
    Sinks,           \* output sinks a Play command can name
    MaxQueue,        \* bound: longest queue a SetQueue command carries
    Positions,       \* positions in a track, in milliseconds
    EvidenceChunks,  \* PLAYING_EVIDENCE_THRESHOLD_MS in decoded chunks
    None             \* no track / no decoder

ASSUME TracksAssumption == None \notin Tracks
ASSUME BoundsAssumption ==
    /\ MaxQueue \in Nat
    /\ EvidenceChunks \in Nat \ {0}
ASSUME PositionsAssumption == Positions \subseteq Nat /\ 0 \in Positions

VARIABLES
    alive,       \* the engine task has not returned from run
    state,       \* PlaybackLifecycle
    track,       \* current_track
    queue,       \* queue of tracks
    queueIndex,  \* queue_index, counted from 0
    playOrder,   \* play_order: a sequence of queue indices
    playPos,     \* play_order_pos, counted from 0
    shuffle,
    repeat,
    base,        \* base_position_ms
    started,     \* playing_started_at is Some: the position clock runs
    sinks,       \* the active fan-out
    open,        \* sinks prepared and not asked to stop since then
    failed,      \* failed_sinks
    health,      \* output_health
    decoder,     \* the track the running decoder decodes, or None
    evidence     \* track_pcm_timeline_bytes in chunks, up to the threshold

listVars == <<queue, playOrder, playPos, queueIndex, shuffle, repeat>>
outVars  == <<sinks, open, failed, health>>
vars     == <<alive, state, track, base, started, decoder, evidence,
              listVars, outVars>>

\* Buffering and Stopping are declared by the enum and never assigned.
Lifecycles == {"Idle", "Preparing", "AudioFlowing", "Playing", "Paused",
               "Stopped", "Ended", "Failed"}
Repeats    == {"Off", "All", "One"}
Healths    == {"none", "healthy", "partial", "failed"}
Queues     == UNION {[1..n -> Tracks] : n \in 0..MaxQueue}

IsPlaying == state \in {"AudioFlowing", "Playing"}
\* The lifecycles in which run also delivers audio.
IsActive  == state \in {"Preparing", "AudioFlowing", "Playing"}

Indices(q) == 0..(Len(q) - 1)
\* The ways a queue can be ordered: each index exactly once.
Orders(q)  == Bijection(1..Len(q), Indices(q))
MinOf(a, b) == IF a <= b THEN a ELSE b

Init ==
    /\ alive = TRUE
    /\ state = "Idle"
    /\ track = None
    /\ queue = <<>>
    /\ queueIndex = 0
    /\ playOrder = <<>>
    /\ playPos = 0
    /\ shuffle = FALSE
    /\ repeat = "Off"
    /\ base = 0
    /\ started = FALSE
    /\ sinks = {}
    /\ open = {}
    /\ failed = {}
    /\ health = "none"
    /\ decoder = None
    /\ evidence = 0

-----------------------------------------------------------------------------
(***************************************************************************)
(* The play order.                                                         *)
(***************************************************************************)

\* recompute_play_order: a shuffled order starts at the current index, the
\* sequential one keeps its place.
RecomputePlayOrder(q, shuf, cur) ==
       IF shuf /\ q # <<>>
       THEN /\ playOrder' \in {f \in Orders(q) : f[1] = cur}
            /\ playPos' = 0
       ELSE /\ playOrder' = [i \in 1..Len(q) |-> i - 1]
            /\ playPos' = IF q = <<>> THEN 0 ELSE MinOf(cur, Len(q) - 1)

\* Mutant: the first index of the new cycle is not compared.
NewCycleRepeats(finished) ==
    IF shuffle
    THEN playOrder' \in Orders(queue) /\ playPos' = 0
    ELSE playOrder' = [i \in 1..Len(queue) |-> i - 1] /\ playPos' = 0

\* recompute_play_order_new_cycle: with more than one track the first index
\* of the new shuffled cycle is not the one that just finished.
RecomputePlayOrderNewCycle(finished) ==
    /\ playPos' = 0
    /\ IF shuffle
       THEN playOrder' \in {f \in Orders(queue) :
                              Len(queue) > 1 => f[1] # finished}
       ELSE playOrder' = [i \in 1..Len(queue) |-> i - 1]

\* The step to the following place of the order.
AdvanceOrder ==
    /\ queue # <<>> /\ playPos + 1 < Len(playOrder)
    /\ playPos' = playPos + 1
    /\ UNCHANGED playOrder

\* The wrap-around of repeat mode All.  Without shuffle the code only resets
\* the place: the order already is the sequential one.
WrapOrder ==
    /\ queue # <<>> /\ playPos + 1 >= Len(playOrder) /\ repeat = "All"
    /\ IF shuffle THEN RecomputePlayOrderNewCycle(queueIndex)
       ELSE playPos' = 0 /\ UNCHANGED playOrder

\* queue_index follows the place in the order.
FollowOrder ==
    /\ queueIndex' = playOrder'[playPos' + 1]
    /\ UNCHANGED <<queue, shuffle, repeat>>

-----------------------------------------------------------------------------
(***************************************************************************)
(* Starting and stopping the pipeline.                                     *)
(***************************************************************************)

\* start_playback_internal, success: of the sinks ss those in ok prepared, the
\* others are dropped and stopped in the background, the decoder runs.  The
\* sinks in op were open before.
StartOk(ss, op, t, pos) ==
    \E ok \in SUBSET ss :
        /\ ok # {}
        /\ sinks' = ok
        /\ open' = (op \ ss) \cup ok
        /\ failed' = {}
        /\ health' = IF ok = ss THEN "healthy" ELSE "partial"
        /\ state' = "Preparing"
        /\ decoder' = t
        /\ track' = t
        /\ base' = pos
        /\ started' = FALSE
        /\ evidence' = 0

\* start_playback_internal, failure: no sink (or none that prepares) leaves
\* Failed; a decoder that does not start rolls the sinks back and leaves
\* Idle.  The previous decoder and the position clock are not touched.
StartErr(ss, op, dec, clock) ==
    /\ \/ state' = "Failed" /\ health' = IF ss = {} THEN "none" ELSE "failed"
       \/ ss # {} /\ state' = "Idle" /\ health' = "none"
    /\ sinks' = {}
    /\ open' = op \ ss
    /\ failed' = {}
    /\ decoder' = dec
    /\ started' = clock
    /\ UNCHANGED <<track, base, evidence>>

StartPlayback(t, pos) ==
    \/ StartOk(sinks, open, t, pos)
    \/ StartErr(sinks, open, decoder, started)

\* What cleanup_playback may leave in output_health when stops fail.
HealthAfterStops ==
    {health} \cup (IF sinks # {} THEN {"failed"} ELSE {})
             \cup (IF \E a, b \in sinks : a # b THEN {"partial"} ELSE {})

\* Mutant: the sinks of the previous output are not asked to stop.
CleanupForgetsSinks ==
    decoder' = None /\ started' = FALSE /\ UNCHANGED open

\* cleanup_playback: the decoder ends, every sink is asked to stop (and stays
\* in the fan-out), the clock stops.
CleanupPlayback ==
    /\ decoder' = None
    /\ started' = FALSE
    /\ open' = {}

\* The track of the new queue_index becomes current without starting.
SelectTrack ==
    /\ track' = queue[queueIndex' + 1]
    /\ base' = 0
    /\ evidence' = 0
    /\ UNCHANGED <<state, decoder, outVars>>

-----------------------------------------------------------------------------
(***************************************************************************)
(* Audio delivery.                                                         *)
(***************************************************************************)

\* process_audio_chunk, a decoded chunk: the sinks in lost fail to take it and
\* leave the fan-out; delivered says whether a remaining one took any byte.
FanOut(lost, delivered) ==
    /\ sinks' = sinks \ lost
    /\ open' = open \ lost
    /\ failed' = failed \cup lost
    /\ health' = IF lost # {} THEN "partial" ELSE health
    /\ IF delivered
       THEN /\ evidence' = MinOf(evidence + 1, EvidenceChunks)
            /\ started' = TRUE
            /\ state' = IF evidence' = EvidenceChunks THEN "Playing"
                        ELSE "AudioFlowing"
       ELSE UNCHANGED <<evidence, started, state>>
    /\ UNCHANGED <<track, base, decoder, listVars>>

\* Mutant: the fan-out may become empty without failing the playback.
DeliverToNobody(lost, delivered) == FanOut(lost, delivered)

DeliverChunk(lost, delivered) == lost # sinks /\ FanOut(lost, delivered)

\* process_audio_chunk, every sink fails: the decoder ends with them.
AllSinksFail ==
    /\ sinks' = {}
    /\ open' = {}
    /\ failed' = failed \cup sinks
    /\ health' = "failed"
    /\ state' = "Failed"
    /\ decoder' = None
    /\ started' = FALSE
    /\ UNCHANGED <<track, base, evidence, listVars>>

\* process_audio_chunk, the decoder reports an error: the sinks stay open.
DecoderFails ==
    /\ state' = "Failed"
    /\ health' = "failed"
    /\ decoder' = None
    /\ started' = FALSE
    /\ UNCHANGED <<track, base, evidence, sinks, open, failed, listVars>>

\* fail_playback after a start that failed inside handle_eof: the sinks were
\* already dropped by start_playback_internal.
StartAfterEof(t) ==
    \/ StartOk(sinks, open, t, 0)
    \/ /\ state' = "Failed"
       /\ health' \in {"failed", "none"}
       /\ sinks' = {}
       /\ open' = open \ sinks
       /\ failed' = {}
       /\ decoder' = None
       /\ started' = FALSE
       /\ UNCHANGED <<track, base, evidence>>

\* handle_eof with nothing left to play: the decoder is gone; the sinks stay
\* open and the position clock keeps running.
EndOfQueue ==
    /\ state' = "Ended"
    /\ decoder' = None
    /\ UNCHANGED <<track, base, started, evidence, outVars, listVars>>

\* handle_eof.
HandleEof ==
    \/ /\ repeat = "One" /\ track # None
       /\ StartAfterEof(track)
       /\ UNCHANGED listVars
    \/ /\ repeat = "All" /\ (AdvanceOrder \/ WrapOrder)
       /\ FollowOrder
       /\ StartAfterEof(queue[queueIndex' + 1])
    \/ /\ repeat = "Off" /\ AdvanceOrder
       /\ FollowOrder
       /\ StartAfterEof(queue[queueIndex' + 1])
    \/ /\ IF repeat = "Off" THEN ~(playPos + 1 < Len(playOrder))
          ELSE repeat = "All" /\ queue = <<>>
       /\ EndOfQueue

\* run: an active engine delivers the next chunk when no command is waiting.
\* That an active engine always has its decoder is the invariant
\* ActivePipeline, so the branch without one is not an action.
ProcessAudioChunk ==
    /\ alive /\ IsActive
    /\ \/ \E lost \in SUBSET sinks, delivered \in BOOLEAN :
              DeliverChunk(lost, delivered)
       \/ AllSinksFail
       \/ DecoderFails
       \/ HandleEof
    /\ UNCHANGED alive

-----------------------------------------------------------------------------
(***************************************************************************)
(* Commands.                                                               *)
(***************************************************************************)

\* Play: cleanup_playback stops the previous sinks, decoder and clock, then
\* the new sinks replace the old ones and the track starts.  A command
\* without sinks is refused and changes nothing.
Play(t, ss, pos) ==
    /\ ss # {}
    /\ \/ StartOk(ss, {}, t, pos)
       \/ StartErr(ss, {}, None, FALSE)
    /\ UNCHANGED listVars

\* LoadTrack: the track is loaded paused at a position.
LoadTrack(t, pos) ==
    /\ CleanupPlayback
    /\ health' \in HealthAfterStops
    /\ track' = t
    /\ base' = pos
    /\ state' = "Paused"
    /\ UNCHANGED <<sinks, failed, evidence, listVars>>

\* JumpToIndex: a running pipeline restarts on the track, otherwise the track
\* is only selected.  The selection leaves the position clock as it is.
Jump(index, restart) ==
    /\ index \in Indices(queue)
    /\ queueIndex' = index
    /\ playPos' = (CHOOSE i \in DOMAIN playOrder : playOrder[i] = index) - 1
    /\ UNCHANGED <<queue, playOrder, shuffle, repeat>>
    /\ IF restart THEN StartPlayback(queue[index + 1], 0)
       ELSE SelectTrack /\ UNCHANGED started

\* Mutant: only a pipeline that is still being prepared is restarted.
JumpIgnoresPlaying(index) == Jump(index, state = "Preparing" /\ sinks # {})

JumpToIndex(index) == Jump(index, IsActive /\ sinks # {})

\* Pause: from every state; the running clock is folded into the position.
PauseLeaving(clock) ==
    /\ decoder' = None
    /\ started' = clock
    /\ base' \in {p \in Positions : p = base \/ (started /\ p >= base)}
    /\ health' \in {health} \cup (IF sinks # {} THEN {"failed"} ELSE {})
    /\ state' = "Paused"
    /\ UNCHANGED <<track, evidence, sinks, open, failed, listVars>>

\* Mutant: the position clock is left running.
PauseKeepsClock == PauseLeaving(started)

Pause == PauseLeaving(FALSE)

\* Resume: restarts the current track at the stored position; refused without
\* sinks or track, and without effect in the other states.
Resume ==
    /\ sinks # {} /\ track # None
    /\ state \in {"Paused", "Idle", "Stopped"}
    /\ StartPlayback(track, base)
    /\ UNCHANGED listVars

\* Seek: a playing engine restarts its decoder at the position (or fails), the
\* sinks are kept; otherwise only the stored position changes.
Seek(pos) ==
    /\ IF IsPlaying
       THEN /\ started' = FALSE
            /\ evidence' = 0
            /\ failed' = {}
            /\ \/ state' = "Preparing" /\ base' = pos /\ decoder' = track
               \/ state' = "Failed" /\ decoder' = None /\ UNCHANGED base
       ELSE /\ base' = pos
            /\ UNCHANGED <<state, decoder, failed, started, evidence>>
    /\ UNCHANGED <<track, sinks, open, health, listVars>>

\* The engine moves to the track the order names: with sinks it starts it,
\* without it only selects it.
GoToSelected ==
    IF sinks = {} THEN SelectTrack /\ started' = FALSE
    ELSE StartPlayback(queue[queueIndex' + 1], 0)

\* Next: forward in the order, around it in repeat mode All, else the end.
Next_ ==
    \/ /\ AdvanceOrder \/ WrapOrder
       /\ FollowOrder
       /\ GoToSelected
    \/ /\ ~(playPos + 1 < Len(playOrder))
       /\ repeat = "All" => queue = <<>>
       /\ CleanupPlayback
       /\ health' \in HealthAfterStops
       /\ state' = "Ended"
       /\ UNCHANGED <<track, base, evidence, sinks, failed, listVars>>

\* The position is past the threshold under which Previous changes track.
PastThreeSeconds == base > 3000

\* Previous: restarts the current track when it is past three seconds or the
\* first of the order, else goes one place back.
Previous ==
    \/ /\ playPos > 0 /\ queue # <<>> /\ ~PastThreeSeconds
       /\ playPos' = playPos - 1
       /\ UNCHANGED playOrder
       /\ FollowOrder
       /\ GoToSelected
    \/ /\ PastThreeSeconds \/ started \/ playPos = 0 \/ queue = <<>>
       /\ track # None
       /\ IF sinks = {}
          THEN /\ base' = 0
               /\ started' = FALSE
               /\ UNCHANGED <<state, track, decoder, evidence, outVars>>
          ELSE StartPlayback(track, 0)
       /\ UNCHANGED listVars

\* Stop: the pipeline is cleaned up and the position forgotten.
Stop ==
    /\ CleanupPlayback
    /\ health' \in HealthAfterStops
    /\ base' = 0
    /\ state' = "Stopped"
    /\ UNCHANGED <<track, evidence, sinks, failed, listVars>>

\* SetVolume: only the failures of the sinks are visible here.
SetVolume ==
    /\ health' \in HealthAfterStops
    /\ UNCHANGED <<state, track, base, started, decoder, evidence, sinks, open,
                   failed, listVars>>

SetShuffle(on) ==
    /\ shuffle' = on
    /\ RecomputePlayOrder(queue, on, queueIndex)
    /\ UNCHANGED <<state, track, base, started, decoder, evidence, queue,
                   queueIndex, repeat, outVars>>

SetRepeat(mode) ==
    /\ repeat' = mode
    /\ UNCHANGED <<state, track, base, started, decoder, evidence, queue,
                   queueIndex, playOrder, playPos, shuffle, outVars>>

\* The index a SetQueue command means: the first place of the named track,
\* or the given index.
ResolveIndex(q, index, id) ==
    IF \E i \in DOMAIN q : q[i] = id
    THEN (CHOOSE i \in DOMAIN q : q[i] = id /\ \A j \in 1..(i - 1) : q[j] # id) - 1
    ELSE index

\* SetQueue: replaces the queue under whatever is playing; an engine without
\* a track adopts the one at the index.
ReplaceQueue(q, index) ==
    /\ queue' = q
    /\ queueIndex' = index
    /\ RecomputePlayOrder(q, shuffle, index)
    /\ track' = IF ~IsPlaying /\ track = None /\ index \in Indices(q)
                THEN q[index + 1] ELSE track
    /\ UNCHANGED <<state, base, started, decoder, evidence, shuffle, repeat,
                   outVars>>

\* Mutant: the resolved index is not clamped to the new queue.
SetQueueUnclamped(q, index, id) == ReplaceQueue(q, ResolveIndex(q, index, id))

\* Mutant: the clamp computes len - 1 without saturating at 0.
SetQueueUnderflows(q, index, id) ==
    ReplaceQueue(q, MinOf(ResolveIndex(q, index, id), Len(q) - 1))

SetQueue(q, index, id) ==
    ReplaceQueue(q, IF q = <<>> THEN 0
                    ELSE MinOf(ResolveIndex(q, index, id), Len(q) - 1))

\* Shutdown, or the command channel closing: cleanup, then the task ends.
Shutdown ==
    /\ CleanupPlayback
    /\ health' \in HealthAfterStops
    /\ sinks' = {}
    /\ state' = "Stopped"
    /\ UNCHANGED <<track, base, evidence, failed, listVars>>

\* handle_command: any command, in any state.
HandleCommand ==
    \/ \E t \in Tracks, ss \in SUBSET Sinks, pos \in Positions : Play(t, ss, pos)
    \/ \E t \in Tracks, pos \in Positions : LoadTrack(t, pos)
    \/ \E index \in 0..MaxQueue : JumpToIndex(index)
    \/ Pause
    \/ Resume
    \/ \E pos \in Positions : Seek(pos)
    \/ Next_
    \/ Previous
    \/ Stop
    \/ SetVolume
    \/ \E on \in BOOLEAN : SetShuffle(on)
    \/ \E mode \in Repeats : SetRepeat(mode)
    \/ \E q \in Queues, index \in 0..MaxQueue, id \in Tracks \cup {None} :
           SetQueue(q, index, id)

Next ==
    \/ ProcessAudioChunk
    \/ alive /\ HandleCommand /\ UNCHANGED alive
    \/ alive /\ Shutdown /\ alive' = FALSE
    \/ ~alive /\ UNCHANGED vars   \* the task has ended

Spec == Init /\ [][Next]_vars

-----------------------------------------------------------------------------
(***************************************************************************)
(* Properties.                                                             *)
(***************************************************************************)

\* Every variable has its type.
TypeOK ==
    /\ alive \in BOOLEAN
    /\ state \in Lifecycles
    /\ track \in Tracks \cup {None}
    /\ queue \in Queues
    /\ queueIndex \in Nat
    /\ playOrder \in Seq(Nat)
    /\ playPos \in Nat
    /\ shuffle \in BOOLEAN
    /\ repeat \in Repeats
    /\ base \in Positions
    /\ started \in BOOLEAN
    /\ sinks \subseteq Sinks
    /\ open \subseteq Sinks
    /\ failed \subseteq Sinks
    /\ health \in Healths
    /\ decoder \in Tracks \cup {None}
    /\ evidence \in 0..EvidenceChunks

\* The order lists every index of the queue once, the place in it is one of
\* its places and names queue_index: none of the indexing expressions
\* play_order[play_order_pos] and queue[queue_index] can be out of bounds,
\* after any mix of SetQueue, SetShuffle, JumpToIndex, Next and end of track.
PlayOrderOK ==
    /\ playOrder \in Orders(queue)
    /\ queue = <<>> => playPos = 0 /\ queueIndex = 0
    /\ queue # <<>> => /\ playPos \in Indices(queue)
                       /\ queueIndex = playOrder[playPos + 1]

\* A lifecycle that delivers audio has the whole pipeline: a decoder of the
\* current track and at least one sink, all of them prepared.  The branch of
\* process_audio_chunk that finds no decoder is dead code.
ActivePipeline ==
    IsActive => /\ track # None
                /\ decoder = track
                /\ sinks # {}
                /\ open = sinks

\* Playing is only reported after the threshold of PCM was delivered since
\* the last start, seek or track change.
PlayingHasEvidence == state = "Playing" => evidence = EvidenceChunks

\* No sink is left prepared outside the fan-out, and none at all in the states
\* that promise a released output.
NoLeakedOutput ==
    /\ open \subseteq sinks
    /\ state \in {"Idle", "Stopped"} => open = {}

\* Paused, Stopped and Ended keep no decoder; one that survives a failed start, in Idle
\* or Failed, has no sink to write to.  The position clock does not run while the track
\* is paused, stopped or being prepared.  It may run on in Ended, which handle_eof enters
\* without stopping it, and in Idle and Failed after a start that failed from there.
QuietStates ==
    /\ state \in {"Paused", "Stopped", "Ended"} => decoder = None
    /\ decoder # None /\ ~IsActive => sinks = {}
    /\ state \in {"Paused", "Stopped", "Preparing"} => ~started

\* With more than one track, neither the end of a track nor Next starts the
\* same place of the queue again: they move to another one or end, the
\* re-shuffled cycle of repeat mode All included.
NoImmediateRepeat ==
    [][(Next_ \/ (HandleEof /\ IsActive)) /\ Len(queue) > 1 /\ repeat # "One"
          => queueIndex' # queueIndex \/ state' = "Ended"]_vars

\* docs/WEB_UI_FUNCTIONAL_MATRIX.md, UI-009: a jump that is accepted resets
\* the position to 0.
JumpResetsPosition ==
    [][\A index \in Indices(queue) :
          JumpToIndex(index) /\ (state' = state \/ state' = "Preparing")
             => base' = 0 /\ ~started']_vars

\* What the engine reports is what it does: Playing only with delivered audio behind it,
\* no decoder in Paused, Stopped and Ended and none with an output in Idle and Failed, and
\* no clock running in Paused, Stopped and Preparing.
HonestStates == PlayingHasEvidence /\ QuietStates
=============================================================================
