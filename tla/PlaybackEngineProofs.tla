------------------------ MODULE PlaybackEngineProofs ------------------------
(***************************************************************************)
(* Proofs about the playback engine, for every set of tracks and sinks and *)
(* every bound on the queue.                                               *)
(***************************************************************************)
EXTENDS PlaybackEngine, WellFoundedInduction, TLAPS

(***************************************************************************)
(* Queues and orders.                                                      *)
(***************************************************************************)

\* A non-empty set of natural numbers has a least element.
LEMMA LeastNatural ==
    ASSUME NEW S \in SUBSET Nat, NEW k \in S
    PROVE  \E n \in S : \A m \in S : n <= m
<1> DEFINE R == OpToRel(<, Nat)
<1>1. PICK n \in S : \A m \in S : ~(<<m, n>> \in R)
  <2> HIDE DEF R
  <2>1. IsWellFoundedOn(R, Nat)
    BY NatLessThanWellFounded DEF R
  <2> QED BY <2>1, WFMin
<1>2. \A m \in S : ~(m < n)
  BY <1>1 DEF OpToRel
<1> QED
  BY <1>2

\* A queue is a sequence of tracks.
LEMMA QueueIsSeq ==
    ASSUME NEW q \in Queues
    PROVE  /\ q \in Seq(Tracks)
           /\ Len(q) \in Nat
           /\ DOMAIN q = 1..Len(q)
           /\ q = <<>> <=> Len(q) = 0
           /\ \A i \in Indices(q) : q[i + 1] \in Tracks
<1>1. PICK n \in 0..MaxQueue : q \in [1..n -> Tracks]
  BY DEF Queues
<1>2. n \in Nat
  BY BoundsAssumption
<1>3. q \in Seq(Tracks) /\ Len(q) = n
  BY <1>1, <1>2
<1> QED
  BY <1>1, <1>2, <1>3 DEF Indices

\* A queue index is a natural number one below a place of the sequence.
LEMMA IndexIsPlace ==
    ASSUME NEW q \in Queues, NEW k \in Indices(q)
    PROVE  k \in Nat /\ k + 1 \in 1..Len(q)
<1>1. Len(q) \in Nat
  BY QueueIsSeq
<1> QED
  BY <1>1 DEF Indices

\* An order of a queue is a sequence that holds each of its indices once.
LEMMA OrderFacts ==
    ASSUME NEW q \in Queues, NEW f \in Orders(q)
    PROVE  /\ f \in Seq(Nat)
           /\ Len(f) = Len(q)
           /\ DOMAIN f = 1..Len(q)
           /\ \A i \in 1..Len(q) : f[i] \in Indices(q)
           /\ \A i, j \in 1..Len(q) : f[i] = f[j] => i = j
           /\ \A k \in Indices(q) : \E i \in 1..Len(q) : f[i] = k
<1>1. Len(q) \in Nat
  BY QueueIsSeq
<1>2. f \in [1..Len(q) -> Indices(q)]
  BY DEF Orders, Bijection, Injection
<1>3. \A i, j \in 1..Len(q) : f[i] = f[j] => i = j
  BY <1>2 DEF Orders, Bijection, Injection, IsInjective
<1>4. \A k \in Indices(q) : \E i \in 1..Len(q) : f[i] = k
  BY DEF Orders, Bijection, Surjection
<1>5. Indices(q) \subseteq Nat
  BY <1>1 DEF Indices
<1>6. f \in [1..Len(q) -> Nat]
  BY <1>2, <1>5
<1>7. f \in Seq(Nat) /\ Len(f) = Len(q)
  BY <1>6, <1>1
<1> QED
  BY <1>2, <1>3, <1>4, <1>7

\* The sequential order is an order.
LEMMA SequentialOrder ==
    ASSUME NEW q \in Queues
    PROVE  [i \in 1..Len(q) |-> i - 1] \in Orders(q)
<1> DEFINE f == [i \in 1..Len(q) |-> i - 1]
<1>1. Len(q) \in Nat
  BY QueueIsSeq
<1>2. f \in [1..Len(q) -> Indices(q)]
  BY <1>1 DEF Indices
<1>3. \A i, j \in 1..Len(q) : f[i] = f[j] => i = j
  BY <1>1
<1>4. \A k \in Indices(q) : \E i \in 1..Len(q) : f[i] = k
  <2> TAKE k \in Indices(q)
  <2>1. k + 1 \in 1..Len(q) /\ f[k + 1] = k
    BY <1>1 DEF Indices
  <2> QED BY <2>1
<1> QED
  BY <1>2, <1>3, <1>4 DEF Orders, Bijection, Injection, Surjection, IsInjective

-----------------------------------------------------------------------------
(***************************************************************************)
(* The list half of the state: queue, order and cursor.                    *)
(***************************************************************************)

\* The part of the inductive invariant that concerns the queue.
ListOK ==
    /\ queue \in Queues
    /\ queueIndex \in Nat
    /\ playOrder \in Seq(Nat)
    /\ playPos \in Nat
    /\ shuffle \in BOOLEAN
    /\ repeat \in Repeats
    /\ PlayOrderOK

\* A recomputed order is an order of the queue whose cursor is on cur.
LEMMA RecomputeOK ==
    ASSUME ListOK,
           NEW q \in Queues, NEW cur \in Nat, NEW shuf \in BOOLEAN,
           q = <<>> => cur = 0,
           q # <<>> => cur \in Indices(q),
           RecomputePlayOrder(q, shuf, cur)
    PROVE  /\ playOrder' \in Orders(q)
           /\ q = <<>> => playPos' = 0
           /\ q # <<>> => playPos' \in Indices(q) /\ cur = playOrder'[playPos' + 1]
           /\ playPos' \in Nat
<1>1. Len(q) \in Nat /\ (q = <<>> <=> Len(q) = 0)
  BY QueueIsSeq
<1>2. CASE shuf /\ q # <<>>
  BY <1>1, <1>2 DEF RecomputePlayOrder, Indices
<1>3. CASE ~(shuf /\ q # <<>>)
  <2>1. playOrder' = [i \in 1..Len(q) |-> i - 1]
    BY <1>3 DEF RecomputePlayOrder
  <2>2. playOrder' \in Orders(q)
    BY <2>1, SequentialOrder
  <2>3. q # <<>> => playPos' = cur
    BY <1>1, <1>3 DEF RecomputePlayOrder, MinOf, Indices
  <2>4. q # <<>> => playOrder'[cur + 1] = cur
    BY <1>1, <2>1 DEF Indices
  <2>5. q = <<>> => playPos' = 0
    BY <1>3 DEF RecomputePlayOrder
  <2> QED
    BY <1>1, <2>2, <2>3, <2>4, <2>5 DEF Indices
<1> QED
  BY <1>2, <1>3

\* Moving to a place of an order keeps the list half in order.
LEMMA MoveOK ==
    ASSUME ListOK,
           playOrder' \in Orders(queue),
           queue # <<>>,
           playPos' \in Indices(queue),
           queue' = queue,
           queueIndex' = playOrder'[playPos' + 1],
           shuffle' = shuffle, repeat' = repeat
    PROVE  /\ ListOK'
           /\ queueIndex' \in Indices(queue)
           /\ queue[queueIndex' + 1] \in Tracks
<1>1. queue \in Queues /\ Len(queue) \in Nat
  BY QueueIsSeq DEF ListOK
<1>2. playPos' \in Nat /\ playPos' + 1 \in 1..Len(queue)
  BY <1>1, IndexIsPlace
<1>3. queueIndex' \in Indices(queue) /\ playOrder' \in Seq(Nat)
  BY <1>1, <1>2, OrderFacts
<1>4. queue[queueIndex' + 1] \in Tracks
  BY <1>1, <1>3, QueueIsSeq
<1>5. queueIndex' \in Nat
  BY <1>1, <1>3 DEF Indices
<1>6. PlayOrderOK'
  BY <1>1 DEF PlayOrderOK, Orders, Indices
<1> QED
  BY <1>1, <1>2, <1>3, <1>4, <1>5, <1>6 DEF ListOK

\* The step that Next and the end of a track share.
LEMMA AdvanceOK ==
    ASSUME ListOK, AdvanceOrder \/ WrapOrder, FollowOrder
    PROVE  /\ ListOK'
           /\ queueIndex' \in Indices(queue)
           /\ queue[queueIndex' + 1] \in Tracks
           /\ Len(queue) > 1 => queueIndex' # queueIndex
<1>1. queue \in Queues /\ Len(queue) \in Nat /\ (queue = <<>> <=> Len(queue) = 0)
  BY QueueIsSeq DEF ListOK
<1>2. playOrder \in Orders(queue) /\ Len(playOrder) = Len(queue)
  BY <1>1, OrderFacts DEF ListOK, PlayOrderOK
<1>3. queue # <<>>
  BY DEF AdvanceOrder, WrapOrder
<1>4. playPos \in Indices(queue) /\ queueIndex = playOrder[playPos + 1]
  BY <1>3 DEF ListOK, PlayOrderOK
<1>5. /\ playOrder' \in Orders(queue)
      /\ playPos' \in Indices(queue)
      /\ Len(queue) > 1 => playOrder'[playPos' + 1] # queueIndex
  <2>1. CASE AdvanceOrder
    <3>1. playOrder' = playOrder /\ playPos' = playPos + 1 /\ playPos + 1 < Len(queue)
      BY <2>1, <1>2 DEF AdvanceOrder
    <3>2. playPos' \in Indices(queue)
      BY <3>1, <1>1, <1>4 DEF Indices
    <3>3. playPos' + 1 # playPos + 1 /\ playPos + 1 \in 1..Len(queue)
                                    /\ playPos' + 1 \in 1..Len(queue)
      BY <3>1, <1>1, <1>4 DEF Indices
    <3>4. playOrder[playPos' + 1] # playOrder[playPos + 1]
      BY <3>3, <1>1, <1>2, OrderFacts
    <3> QED
      BY <3>1, <3>2, <3>4, <1>2, <1>4
  <2>2. CASE WrapOrder /\ shuffle
    <3>1. playPos' = 0 /\ playOrder' \in Orders(queue)
          /\ (Len(queue) > 1 => playOrder'[1] # queueIndex)
      BY <2>2 DEF WrapOrder, RecomputePlayOrderNewCycle
    <3> QED
      BY <3>1, <1>1, <1>3 DEF Indices
  <2>3. CASE WrapOrder /\ ~shuffle
    <3>1. playPos' = 0 /\ playOrder' = playOrder /\ playPos + 1 >= Len(queue)
      BY <2>3, <1>2 DEF WrapOrder
    <3>2. Len(queue) > 1 => playPos + 1 # 1
      BY <3>1, <1>1, <1>4 DEF Indices
    <3>3. Len(queue) > 1 => playOrder[1] # playOrder[playPos + 1]
      <4>1. playPos + 1 \in 1..Len(queue) /\ 1 \in 1..Len(queue)
        BY <1>1, <1>3, <1>4 DEF Indices
      <4> QED BY <4>1, <3>2, <1>1, <1>2, OrderFacts
    <3> QED
      BY <3>1, <3>3, <1>1, <1>2, <1>3, <1>4 DEF Indices
  <2> QED
    BY <2>1, <2>2, <2>3 DEF ListOK
<1>6. queueIndex' = playOrder'[playPos' + 1] /\ queue' = queue
      /\ shuffle' = shuffle /\ repeat' = repeat
  BY DEF FollowOrder
<1>7. /\ ListOK'
      /\ queueIndex' \in Indices(queue)
      /\ queue[queueIndex' + 1] \in Tracks
  BY <1>3, <1>5, <1>6, MoveOK
<1> QED
  BY <1>5, <1>6, <1>7

\* JumpToIndex moves the cursor to the place of the index.
LEMMA JumpOK ==
    ASSUME ListOK, NEW index, NEW restart, Jump(index, restart)
    PROVE  ListOK' /\ queueIndex' \in Indices(queue)
                   /\ queue[queueIndex' + 1] \in Tracks
<1>1. queue \in Queues /\ index \in Indices(queue) /\ queue # <<>>
  <2>1. queue \in Queues /\ index \in Indices(queue)
    BY DEF ListOK, Jump
  <2>2. Len(queue) # 0
    BY <2>1, QueueIsSeq DEF Indices
  <2> QED BY <2>1, <2>2, QueueIsSeq
<1>2. playOrder \in Orders(queue) /\ playOrder' = playOrder
  BY DEF ListOK, PlayOrderOK, Jump
<1>3. DOMAIN playOrder = 1..Len(queue)
      /\ \E i \in 1..Len(queue) : playOrder[i] = index
  BY <1>1, <1>2, OrderFacts
<1> DEFINE at == CHOOSE i \in DOMAIN playOrder : playOrder[i] = index
<1>4. at \in 1..Len(queue) /\ playOrder[at] = index
  BY <1>3
<1>5. playPos' = at - 1
  BY DEF Jump
<1> HIDE DEF at
<1>6. playPos' \in Indices(queue) /\ playPos' + 1 = at
  <2>1. Len(queue) \in Nat
    BY <1>1, QueueIsSeq
  <2> QED BY <2>1, <1>4, <1>5 DEF Indices
<1>7. queueIndex' = playOrder'[playPos' + 1]
  BY <1>2, <1>4, <1>6 DEF Jump
<1> QED
  BY <1>1, <1>2, <1>6, <1>7, MoveOK DEF Jump

\* Previous moves one place back.
LEMMA BackOK ==
    ASSUME ListOK, playPos > 0, queue # <<>>, playPos' = playPos - 1,
           playOrder' = playOrder, FollowOrder
    PROVE  ListOK' /\ queueIndex' \in Indices(queue)
                   /\ queue[queueIndex' + 1] \in Tracks
<1>1. queue \in Queues /\ playPos \in Indices(queue) /\ playOrder \in Orders(queue)
  BY DEF ListOK, PlayOrderOK
<1>2. playPos' \in Indices(queue)
  <2>1. Len(queue) \in Nat
    BY <1>1, QueueIsSeq
  <2> QED BY <2>1, <1>1 DEF Indices
<1> QED
  BY <1>1, <1>2, MoveOK DEF FollowOrder

\* SetShuffle recomputes the order around the current index.
LEMMA ShuffleOK ==
    ASSUME ListOK, NEW on \in BOOLEAN, SetShuffle(on)
    PROVE  ListOK'
<1>1. queue \in Queues /\ queueIndex \in Nat
  BY DEF ListOK
<1>2. queue = <<>> => queueIndex = 0
  BY DEF ListOK, PlayOrderOK
<1>3. queue # <<>> => queueIndex \in Indices(queue)
  <2>1. HAVE queue # <<>>
  <2>2. playPos + 1 \in 1..Len(queue)
    BY <1>1, <2>1, IndexIsPlace DEF ListOK, PlayOrderOK
  <2> QED BY <1>1, <2>1, <2>2, OrderFacts DEF ListOK, PlayOrderOK
<1>4. /\ playOrder' \in Orders(queue)
      /\ queue = <<>> => playPos' = 0
      /\ queue # <<>> => playPos' \in Indices(queue)
                         /\ queueIndex = playOrder'[playPos' + 1]
      /\ playPos' \in Nat
  BY <1>1, <1>2, <1>3, RecomputeOK DEF SetShuffle
<1>5. playOrder' \in Seq(Nat)
  BY <1>1, <1>4, OrderFacts
<1>6. queue' = queue /\ queueIndex' = queueIndex /\ repeat' = repeat /\ shuffle' = on
  BY DEF SetShuffle
<1> QED
  BY <1>1, <1>2, <1>4, <1>5, <1>6 DEF ListOK, PlayOrderOK, Orders, Indices

\* SetQueue clamps the resolved index to the new queue.
LEMMA SetQueueOK ==
    ASSUME ListOK, NEW q \in Queues, NEW index \in Nat, NEW id,
           SetQueue(q, index, id)
    PROVE  ListOK' /\ (queueIndex' \in Indices(q) => q[queueIndex' + 1] \in Tracks)
<1>1. Len(q) \in Nat /\ DOMAIN q = 1..Len(q) /\ (q = <<>> <=> Len(q) = 0)
  BY QueueIsSeq
<1> DEFINE cur == IF q = <<>> THEN 0
                  ELSE MinOf(ResolveIndex(q, index, id), Len(q) - 1)
<1>2. ResolveIndex(q, index, id) \in Nat
  <2>1. CASE \E i \in DOMAIN q : q[i] = id
    <3> DEFINE P(i) == q[i] = id /\ \A j \in 1..(i - 1) : q[j] # id
    <3>1. \E i \in DOMAIN q : P(i)
      <4> DEFINE S == {i \in Nat : i \in 1..Len(q) /\ q[i] = id}
      <4>1. PICK i \in S : TRUE
        BY <1>1, <2>1
      <4>2. \E n \in S : \A m \in S : n <= m
        BY <4>1, LeastNatural
      <4>3. PICK n \in S : \A m \in S : n <= m
        BY <4>2
      <4>4. \A j \in 1..(n - 1) : j \in Nat /\ j \in 1..Len(q) /\ j < n
        BY <1>1, <4>3
      <4> QED BY <1>1, <4>3, <4>4
    <3> DEFINE first == CHOOSE i \in DOMAIN q : P(i)
    <3>2. first \in 1..Len(q)
      BY <3>1, <1>1
    <3>3. ResolveIndex(q, index, id) = first - 1
      BY <2>1 DEF ResolveIndex
    <3> QED BY <3>2, <3>3, <1>1
  <2>2. CASE ~ \E i \in DOMAIN q : q[i] = id
    BY <2>2 DEF ResolveIndex
  <2> QED BY <2>1, <2>2
<1>3. cur \in Nat /\ (q = <<>> => cur = 0) /\ (q # <<>> => cur \in Indices(q))
  BY <1>1, <1>2 DEF MinOf, Indices
<1>4. ReplaceQueue(q, cur)
  BY DEF SetQueue
<1> HIDE DEF cur
<1>5. queue' = q /\ queueIndex' = cur /\ shuffle' = shuffle /\ repeat' = repeat
      /\ RecomputePlayOrder(q, shuffle, cur)
  BY <1>4 DEF ReplaceQueue
<1>6. /\ playOrder' \in Orders(q)
      /\ q = <<>> => playPos' = 0
      /\ q # <<>> => playPos' \in Indices(q) /\ cur = playOrder'[playPos' + 1]
      /\ playPos' \in Nat
  BY <1>3, <1>5, RecomputeOK DEF ListOK
<1>7. playOrder' \in Seq(Nat)
  BY <1>6, OrderFacts
<1>8. ListOK'
  BY <1>3, <1>5, <1>6, <1>7 DEF ListOK, PlayOrderOK, Orders, Indices
<1> QED
  BY <1>8, <1>5, QueueIsSeq

-----------------------------------------------------------------------------
(***************************************************************************)
(* The pipeline half of the state: lifecycle, decoder, clock and sinks.    *)
(***************************************************************************)

\* The types of the pipeline half.
PipeTypes ==
    /\ state \in Lifecycles
    /\ track \in Tracks \cup {None}
    /\ base \in Positions
    /\ started \in BOOLEAN
    /\ sinks \subseteq Sinks
    /\ open \subseteq Sinks
    /\ failed \subseteq Sinks
    /\ health \in Healths
    /\ decoder \in Tracks \cup {None}
    /\ evidence \in 0..EvidenceChunks

\* The part of the inductive invariant that concerns the pipeline.
PipeOK ==
    /\ PipeTypes
    /\ ActivePipeline
    /\ PlayingHasEvidence
    /\ NoLeakedOutput
    /\ QuietStates

pipeVars == <<state, track, base, started, decoder, evidence, outVars>>

LEMMA StartOkOK ==
    ASSUME PipeOK, NEW ss \in SUBSET Sinks, NEW op \in SUBSET ss,
           NEW t \in Tracks, NEW pos \in Positions, StartOk(ss, op, t, pos)
    PROVE  PipeOK'
<1>1. PICK ok \in SUBSET ss :
        /\ ok # {} /\ sinks' = ok /\ open' = (op \ ss) \cup ok /\ failed' = {}
        /\ health' = IF ok = ss THEN "healthy" ELSE "partial"
        /\ state' = "Preparing" /\ decoder' = t /\ track' = t /\ base' = pos
        /\ started' = FALSE /\ evidence' = 0
  BY DEF StartOk
<1>2. open' = ok
  BY <1>1
<1>3. t # None
  BY TracksAssumption
<1>4. evidence' \in 0..EvidenceChunks /\ health' \in Healths
  BY <1>1, BoundsAssumption DEF Healths
<1>5. started' \in BOOLEAN
  BY <1>1
<1>6. PipeTypes'
  BY <1>1, <1>2, <1>4, <1>5 DEF PipeTypes, Lifecycles
<1> QED
  BY <1>1, <1>2, <1>3, <1>6
     DEF PipeOK, ActivePipeline, PlayingHasEvidence, NoLeakedOutput, QuietStates, IsActive

LEMMA StartErrOK ==
    ASSUME PipeOK, NEW ss \in SUBSET Sinks, NEW op \in SUBSET ss,
           NEW dec \in Tracks \cup {None}, NEW clock \in BOOLEAN,
           StartErr(ss, op, dec, clock)
    PROVE  PipeOK'
<1>1. /\ state' \in {"Failed", "Idle"}
      /\ health' \in Healths
      /\ sinks' = {} /\ open' = {} /\ failed' = {}
      /\ decoder' = dec /\ started' = clock
      /\ track' = track /\ base' = base /\ evidence' = evidence
  BY DEF StartErr, Healths
<1>2. PipeTypes'
  BY <1>1 DEF PipeOK, PipeTypes, Lifecycles
<1> QED
  BY <1>1, <1>2
     DEF PipeOK, ActivePipeline, PlayingHasEvidence, NoLeakedOutput, QuietStates, IsActive

LEMMA StartPlaybackOK ==
    ASSUME PipeOK, NEW t \in Tracks, NEW pos \in Positions, StartPlayback(t, pos)
    PROVE  PipeOK'
<1>1. sinks \in SUBSET Sinks /\ open \in SUBSET sinks
      /\ decoder \in Tracks \cup {None} /\ started \in BOOLEAN
  BY DEF PipeOK, PipeTypes, NoLeakedOutput
<1> QED
  BY <1>1, StartOkOK, StartErrOK DEF StartPlayback

\* A stop command leaves one of the healths.
LEMMA HealthAfterStopsOK ==
    ASSUME PipeOK PROVE HealthAfterStops \subseteq Healths
  BY DEF PipeOK, PipeTypes, HealthAfterStops, Healths

\* Selecting a track outside an active lifecycle keeps the pipeline half.
LEMMA SelectOK ==
    ASSUME PipeOK, ~IsActive, queue[queueIndex' + 1] \in Tracks, SelectTrack,
           started' \in {started, FALSE}
    PROVE  PipeOK'
<1>1. evidence' \in 0..EvidenceChunks /\ base' \in Positions
  BY BoundsAssumption, PositionsAssumption DEF SelectTrack
<1>2. started' \in BOOLEAN
  BY DEF PipeOK, PipeTypes
<1>3. PipeTypes'
  BY <1>1, <1>2 DEF SelectTrack, PipeOK, PipeTypes, outVars
<1> QED
  BY <1>3 DEF PipeOK, SelectTrack, outVars, ActivePipeline, PlayingHasEvidence,
              NoLeakedOutput, QuietStates, IsActive, PipeTypes

\* The pipeline half depends on nothing else.
LEMMA PipeUnchanged ==
    ASSUME PipeOK, UNCHANGED pipeVars PROVE PipeOK'
  BY DEF pipeVars, outVars, PipeOK, PipeTypes, ActivePipeline, PlayingHasEvidence,
         NoLeakedOutput, QuietStates, IsActive

\* The list half depends on nothing else.
LEMMA ListUnchanged ==
    ASSUME ListOK, UNCHANGED listVars PROVE ListOK'
  BY DEF listVars, ListOK, PlayOrderOK, Orders, Indices

-----------------------------------------------------------------------------
(***************************************************************************)
(* The inductive invariant and its steps.                                  *)
(***************************************************************************)

\* The inductive invariant: both halves hold together.  The list half gives
\* the pipeline the track it starts; the pipeline half gives JumpToIndex, Next
\* and Previous that an engine without sinks is not active.
IInv == alive \in BOOLEAN /\ ListOK /\ PipeOK

\* The end of a track.
LEMMA EofOK ==
    ASSUME IInv, IsActive, HandleEof
    PROVE  ListOK' /\ PipeOK'
<1>1. ListOK /\ PipeOK /\ sinks \in SUBSET Sinks /\ open \in SUBSET sinks
      /\ track \in Tracks
  BY DEF IInv, PipeOK, PipeTypes, NoLeakedOutput, ActivePipeline
<1>2. ASSUME NEW t \in Tracks, StartAfterEof(t) PROVE PipeOK'
  <2>1. CASE StartOk(sinks, open, t, 0)
    BY <1>1, <2>1, PositionsAssumption, StartOkOK
  <2>2. CASE ~StartOk(sinks, open, t, 0)
    <3>1. /\ state' = "Failed" /\ health' \in Healths
          /\ sinks' = {} /\ open' = {} /\ failed' = {}
          /\ decoder' = None /\ started' = FALSE
          /\ track' = track /\ base' = base /\ evidence' = evidence
      BY <1>1, <1>2, <2>2 DEF StartAfterEof, Healths
    <3>2. started' \in BOOLEAN
      BY <3>1
    <3>3. PipeTypes'
      BY <1>1, <3>1, <3>2 DEF PipeOK, PipeTypes, Lifecycles
    <3> QED
      BY <3>1, <3>3 DEF PipeOK, ActivePipeline, PlayingHasEvidence, NoLeakedOutput,
                        QuietStates, IsActive
  <2> QED BY <2>1, <2>2
<1>3. CASE StartAfterEof(track) /\ UNCHANGED listVars
  BY <1>1, <1>2, <1>3, ListUnchanged
<1>4. CASE (AdvanceOrder \/ WrapOrder) /\ FollowOrder /\ StartAfterEof(queue[queueIndex' + 1])
  BY <1>1, <1>2, <1>4, AdvanceOK
<1>5. CASE EndOfQueue
  <2>1. ListOK'
    BY <1>1, <1>5, ListUnchanged DEF EndOfQueue
  <2>2. PipeTypes'
    BY <1>1, <1>5 DEF EndOfQueue, PipeOK, PipeTypes, Lifecycles, outVars
  <2> QED
    BY <1>1, <1>5, <2>1, <2>2
       DEF EndOfQueue, outVars, PipeOK, ActivePipeline, PlayingHasEvidence,
           NoLeakedOutput, QuietStates, IsActive
<1> QED
  BY <1>3, <1>4, <1>5 DEF HandleEof

\* A chunk that reaches some sinks.
LEMMA DeliverOK ==
    ASSUME IInv, IsActive, NEW lost \in SUBSET sinks, NEW delivered \in BOOLEAN,
           DeliverChunk(lost, delivered)
    PROVE  ListOK' /\ PipeOK'
<1>1. ListOK /\ PipeOK
  BY DEF IInv
<1>2. ListOK'
  BY <1>1, ListUnchanged DEF DeliverChunk, FanOut
<1>3. /\ sinks' = sinks \ lost /\ sinks' # {} /\ open' = sinks'
      /\ track' = track /\ base' = base /\ decoder' = decoder
  BY <1>1 DEF DeliverChunk, FanOut, PipeOK, ActivePipeline
<1>4. failed' \subseteq Sinks /\ health' \in Healths
  BY <1>1 DEF DeliverChunk, FanOut, PipeOK, PipeTypes, Healths
<1>5. /\ evidence' \in 0..EvidenceChunks /\ started' \in BOOLEAN
      /\ state' \in {"Preparing", "AudioFlowing", "Playing"}
      /\ state' = "Playing" => evidence' = EvidenceChunks
      /\ state' = "Preparing" => ~started'
  <2>1. CASE delivered = TRUE
    <3>1. evidence' = MinOf(evidence + 1, EvidenceChunks)
          /\ state' = IF evidence' = EvidenceChunks THEN "Playing" ELSE "AudioFlowing"
      BY <2>1 DEF DeliverChunk, FanOut
    <3>2. started' \in BOOLEAN
      BY <2>1 DEF DeliverChunk, FanOut
    <3>3. evidence' \in 0..EvidenceChunks
      BY <1>1, <3>1, BoundsAssumption DEF MinOf, PipeOK, PipeTypes
    <3> QED BY <3>1, <3>2, <3>3
  <2>2. CASE delivered = FALSE
    <3>1. evidence' = evidence /\ started' = started /\ state' = state
      BY <2>2 DEF DeliverChunk, FanOut
    <3> QED
      BY <1>1, <3>1 DEF PipeOK, PipeTypes, PlayingHasEvidence, QuietStates, IsActive
  <2> QED BY <2>1, <2>2
<1>6. PipeTypes'
  BY <1>1, <1>3, <1>4, <1>5 DEF PipeOK, PipeTypes, Lifecycles
<1> QED
  BY <1>1, <1>2, <1>3, <1>5, <1>6
     DEF PipeOK, ActivePipeline, PlayingHasEvidence, NoLeakedOutput, QuietStates, IsActive

\* Audio delivery, every outcome.
LEMMA ChunkOK ==
    ASSUME IInv, ProcessAudioChunk
    PROVE  IInv'
<1>1. ListOK /\ PipeOK /\ IsActive /\ alive' = alive
  BY DEF IInv, ProcessAudioChunk
<1>2. CASE \E lost \in SUBSET sinks, delivered \in BOOLEAN : DeliverChunk(lost, delivered)
  BY <1>1, <1>2, DeliverOK DEF IInv
<1>3. CASE AllSinksFail
  <2>1. ListOK'
    BY <1>1, <1>3, ListUnchanged DEF AllSinksFail
  <2>2. started' \in BOOLEAN
    BY <1>3 DEF AllSinksFail
  <2>3. PipeTypes'
    BY <1>1, <1>3, <2>2 DEF AllSinksFail, PipeOK, PipeTypes, Lifecycles, Healths
  <2> QED
    BY <1>1, <1>3, <2>1, <2>3
       DEF AllSinksFail, IInv, PipeOK, ActivePipeline, PlayingHasEvidence,
           NoLeakedOutput, QuietStates, IsActive
<1>4. CASE DecoderFails
  <2>1. ListOK'
    BY <1>1, <1>4, ListUnchanged DEF DecoderFails
  <2>2. started' \in BOOLEAN
    BY <1>4 DEF DecoderFails
  <2>3. PipeTypes'
    BY <1>1, <1>4, <2>2 DEF DecoderFails, PipeOK, PipeTypes, Lifecycles, Healths
  <2> QED
    BY <1>1, <1>4, <2>1, <2>3
       DEF DecoderFails, IInv, PipeOK, ActivePipeline, PlayingHasEvidence,
           NoLeakedOutput, QuietStates, IsActive
<1>5. CASE HandleEof
  BY <1>1, <1>5, EofOK DEF IInv
<1> QED
  BY <1>2, <1>3, <1>4, <1>5 DEF ProcessAudioChunk

\* A command that ends in a quiet lifecycle.
LEMMA QuietOK ==
    ASSUME PipeOK,
           state' \in {"Paused", "Stopped", "Ended"},
           decoder' = None, started' = FALSE,
           open' = {} \/ (open' = open /\ sinks' = sinks /\ state' = "Paused"),
           sinks' \subseteq sinks, failed' = failed, health' \in Healths,
           track' \in Tracks \cup {None}, base' \in Positions, evidence' = evidence
    PROVE  PipeOK'
<1>1. started' \in BOOLEAN
  OBVIOUS
<1>2. PipeTypes'
  BY <1>1 DEF PipeOK, PipeTypes, Lifecycles
<1> QED
  BY <1>2 DEF PipeOK, ActivePipeline, PlayingHasEvidence, NoLeakedOutput, QuietStates,
              IsActive

\* Every command preserves the invariant.
LEMMA CommandOK ==
    ASSUME IInv, HandleCommand
    PROVE  ListOK' /\ PipeOK'
<1>1. ListOK /\ PipeOK /\ sinks \in SUBSET Sinks /\ track \in Tracks \cup {None}
      /\ base \in Positions /\ HealthAfterStops \subseteq Healths /\ 0 \in Positions
      /\ (IsActive => sinks # {})
  BY HealthAfterStopsOK, PositionsAssumption
     DEF IInv, PipeOK, PipeTypes, ActivePipeline
<1>2. ASSUME NEW t \in Tracks, NEW ss \in SUBSET Sinks, NEW pos \in Positions,
             Play(t, ss, pos)
      PROVE  ListOK' /\ PipeOK'
  <2>1. ListOK'
    BY <1>1, <1>2, ListUnchanged DEF Play
  <2>2. {} \in SUBSET ss /\ FALSE \in BOOLEAN /\ None \in Tracks \cup {None}
    OBVIOUS
  <2>3. StartOk(ss, {}, t, pos) \/ StartErr(ss, {}, None, FALSE)
    BY <1>2 DEF Play
  <2> QED BY <1>1, <2>1, <2>2, <2>3, StartOkOK, StartErrOK
<1>3. ASSUME NEW t \in Tracks, NEW pos \in Positions, LoadTrack(t, pos)
      PROVE  ListOK' /\ PipeOK'
  <2>1. ListOK'
    BY <1>1, <1>3, ListUnchanged DEF LoadTrack
  <2> QED BY <1>1, <1>3, <2>1, QuietOK DEF LoadTrack, CleanupPlayback
<1>4. ASSUME NEW index \in 0..MaxQueue, JumpToIndex(index)
      PROVE  ListOK' /\ PipeOK'
  <2>1. /\ ListOK' /\ queue[queueIndex' + 1] \in Tracks /\ queueIndex' = index
        /\ IF IsActive /\ sinks # {} THEN StartPlayback(queue[index + 1], 0)
           ELSE SelectTrack /\ UNCHANGED started
    BY <1>1, <1>4, JumpOK DEF JumpToIndex, Jump
  <2>2. CASE IsActive
    BY <1>1, <2>1, <2>2, StartPlaybackOK
  <2>3. CASE ~IsActive
    BY <1>1, <2>1, <2>3, SelectOK
  <2> QED BY <2>2, <2>3
<1>5. CASE Pause
  <2>1. ListOK' /\ base' \in Positions /\ health' \in Healths
    BY <1>1, <1>5, ListUnchanged DEF Pause, PauseLeaving, PipeOK, PipeTypes, Healths
  <2> QED BY <1>1, <1>5, <2>1, QuietOK DEF Pause, PauseLeaving
<1>6. CASE Resume
  BY <1>1, <1>6, ListUnchanged, StartPlaybackOK DEF Resume
<1>7. ASSUME NEW pos \in Positions, Seek(pos)
      PROVE  ListOK' /\ PipeOK'
  <2>1. ListOK' /\ track' = track /\ sinks' = sinks /\ open' = open /\ health' = health
    BY <1>1, <1>7, ListUnchanged DEF Seek
  <2>2. CASE IsPlaying
    <3>1. /\ started' = FALSE /\ evidence' = 0 /\ failed' = {}
          /\ \/ state' = "Preparing" /\ base' = pos /\ decoder' = track
             \/ state' = "Failed" /\ decoder' = None /\ base' = base
      BY <1>7, <2>2 DEF Seek
    <3>2. started' \in BOOLEAN
      BY <3>1
    <3>3. evidence' \in 0..EvidenceChunks
      BY <3>1, BoundsAssumption
    <3>4. PipeTypes'
      BY <1>1, <2>1, <3>1, <3>2, <3>3 DEF PipeOK, PipeTypes, Lifecycles
    <3> QED
      BY <1>1, <2>1, <2>2, <3>1, <3>4
         DEF PipeOK, ActivePipeline, PlayingHasEvidence, NoLeakedOutput, QuietStates,
             IsActive, IsPlaying
  <2>3. CASE ~IsPlaying
    <3>1. /\ base' = pos /\ state' = state /\ decoder' = decoder /\ failed' = failed
          /\ started' = started /\ evidence' = evidence
      BY <1>7, <2>3 DEF Seek
    <3> QED
      BY <1>1, <2>1, <3>1
         DEF PipeOK, PipeTypes, ActivePipeline, PlayingHasEvidence, NoLeakedOutput,
             QuietStates, IsActive
  <2> QED BY <2>1, <2>2, <2>3
<1>8. ASSUME queue[queueIndex' + 1] \in Tracks, GoToSelected
      PROVE  PipeOK'
  <2>1. CASE sinks = {}
    BY <1>1, <1>8, <2>1, SelectOK DEF GoToSelected
  <2>2. CASE sinks # {}
    BY <1>1, <1>8, <2>2, StartPlaybackOK DEF GoToSelected
  <2> QED BY <2>1, <2>2
<1>9. CASE Next_
  <2>1. CASE (AdvanceOrder \/ WrapOrder) /\ FollowOrder /\ GoToSelected
    BY <1>1, <1>8, <2>1, AdvanceOK
  <2>2. CASE /\ CleanupPlayback /\ health' \in HealthAfterStops /\ state' = "Ended"
             /\ UNCHANGED <<track, base, evidence, sinks, failed, listVars>>
    <3>1. ListOK'
      BY <1>1, <2>2, ListUnchanged
    <3> QED BY <1>1, <2>2, <3>1, QuietOK DEF CleanupPlayback
  <2> QED BY <1>9, <2>1, <2>2 DEF Next_
<1>10. CASE Previous
  <2>1. CASE /\ playPos > 0 /\ queue # <<>> /\ playPos' = playPos - 1
             /\ playOrder' = playOrder /\ FollowOrder /\ GoToSelected
    BY <1>1, <1>8, <2>1, BackOK
  <2>2. CASE /\ track # None /\ UNCHANGED listVars
             /\ IF sinks = {}
                THEN /\ base' = 0 /\ started' = FALSE
                     /\ UNCHANGED <<state, track, decoder, evidence, outVars>>
                ELSE StartPlayback(track, 0)
    <3>1. ListOK'
      BY <1>1, <2>2, ListUnchanged
    <3>2. CASE sinks # {}
      BY <1>1, <2>2, <3>1, <3>2, StartPlaybackOK
    <3>3. CASE sinks = {}
      <4>1. base' = 0 /\ UNCHANGED <<state, track, decoder, evidence, outVars>>
            /\ ~started'
        BY <2>2, <3>3
      <4>2. started' \in BOOLEAN
        BY <2>2, <3>3
      <4>3. PipeTypes'
        BY <1>1, <4>1, <4>2 DEF PipeOK, PipeTypes, outVars
      <4> QED
        BY <1>1, <3>1, <3>3, <4>1, <4>3
           DEF outVars, PipeOK, ActivePipeline, PlayingHasEvidence, NoLeakedOutput,
               QuietStates, IsActive
    <3> QED BY <3>2, <3>3
  <2> QED BY <1>10, <2>1, <2>2 DEF Previous
<1>11. CASE Stop
  <2>1. ListOK'
    BY <1>1, <1>11, ListUnchanged DEF Stop
  <2> QED BY <1>1, <1>11, <2>1, QuietOK DEF Stop, CleanupPlayback
<1>12. CASE SetVolume
  <2>1. ListOK'
    BY <1>1, <1>12, ListUnchanged DEF SetVolume
  <2> QED
    BY <1>1, <1>12, <2>1
       DEF SetVolume, PipeOK, PipeTypes, ActivePipeline, PlayingHasEvidence,
           NoLeakedOutput, QuietStates, IsActive
<1>13. ASSUME NEW on \in BOOLEAN, SetShuffle(on)
       PROVE  ListOK' /\ PipeOK'
  BY <1>1, <1>13, ShuffleOK, PipeUnchanged DEF SetShuffle, pipeVars
<1>14. ASSUME NEW mode \in Repeats, SetRepeat(mode)
       PROVE  ListOK' /\ PipeOK'
  <2>1. PipeOK'
    BY <1>1, <1>14, PipeUnchanged DEF SetRepeat, pipeVars
  <2>2. ListOK'
    BY <1>1, <1>14 DEF SetRepeat, ListOK, PlayOrderOK, Orders, Indices
  <2> QED BY <2>1, <2>2
<1>15. ASSUME NEW q \in Queues, NEW index \in 0..MaxQueue, NEW id \in Tracks \cup {None},
              SetQueue(q, index, id)
       PROVE  ListOK' /\ PipeOK'
  <2>1. index \in Nat
    BY BoundsAssumption
  <2>2. ListOK' /\ (queueIndex' \in Indices(q) => q[queueIndex' + 1] \in Tracks)
    BY <1>1, <1>15, <2>1, SetQueueOK
  <2>3. /\ track' = IF ~IsPlaying /\ track = None /\ queueIndex' \in Indices(q)
                    THEN q[queueIndex' + 1] ELSE track
        /\ UNCHANGED <<state, base, started, decoder, evidence, outVars>>
    BY <1>15 DEF SetQueue, ReplaceQueue
  <2>4. track' \in Tracks \cup {None} /\ (track # None => track' = track)
    BY <1>1, <2>2, <2>3
  <2> QED
    BY <1>1, <2>2, <2>3, <2>4
       DEF outVars, PipeOK, PipeTypes, ActivePipeline, PlayingHasEvidence,
           NoLeakedOutput, QuietStates, IsActive
<1> QED
  BY <1>2, <1>3, <1>4, <1>5, <1>6, <1>7, <1>9, <1>10, <1>11, <1>12, <1>13, <1>14, <1>15
     DEF HandleCommand

\* The invariant is inductive.
THEOREM Inductive == IInv /\ [Next]_vars => IInv'
<1> SUFFICES ASSUME IInv, [Next]_vars PROVE IInv'
  OBVIOUS
<1>1. CASE ProcessAudioChunk
  BY <1>1, ChunkOK
<1>2. CASE alive /\ HandleCommand /\ UNCHANGED alive
  BY <1>2, CommandOK DEF IInv
<1>3. CASE alive /\ Shutdown /\ alive' = FALSE
  <2>1. ListOK' /\ HealthAfterStops \subseteq Healths
    BY <1>3, ListUnchanged, HealthAfterStopsOK DEF Shutdown, IInv
  <2>2. PipeOK'
    BY <1>3, <2>1, QuietOK DEF Shutdown, CleanupPlayback, IInv, PipeOK, PipeTypes
  <2> QED BY <1>3, <2>1, <2>2 DEF IInv
<1>4. CASE UNCHANGED vars
  BY <1>4, ListUnchanged, PipeUnchanged DEF vars, pipeVars, IInv
<1> QED
  BY <1>1, <1>2, <1>3, <1>4 DEF Next

\* It holds of a new engine.
THEOREM Initial == Init => IInv
<1> SUFFICES ASSUME Init PROVE IInv
  OBVIOUS
<1>1. queue \in Queues
  <2>1. 0 \in 0..MaxQueue /\ <<>> \in [1..0 -> Tracks]
    BY BoundsAssumption
  <2> QED BY <2>1 DEF Init, Queues
<1>2. playOrder \in Orders(queue)
  <2>1. [i \in 1..Len(queue) |-> i - 1] = <<>>
    BY DEF Init
  <2> QED BY <1>1, <2>1, SequentialOrder DEF Init
<1>b. shuffle \in BOOLEAN /\ started \in BOOLEAN /\ alive \in BOOLEAN
  BY DEF Init
<1>3. ListOK
  <2>1. playOrder \in Seq(Nat)
    BY <1>1, <1>2, OrderFacts
  <2> QED BY <1>1, <1>2, <1>b, <2>1 DEF Init, ListOK, PlayOrderOK, Repeats
<1>4. PipeTypes
  <2>1. evidence \in 0..EvidenceChunks /\ base \in Positions
    BY BoundsAssumption, PositionsAssumption DEF Init
  <2> QED BY <1>b, <2>1 DEF Init, PipeTypes, Lifecycles, Healths
<1> QED
  BY <1>3, <1>4, <1>b
     DEF Init, IInv, PipeOK, ActivePipeline, PlayingHasEvidence, NoLeakedOutput,
         QuietStates, IsActive

\* Every reachable state satisfies the invariant.
THEOREM Invariance == Spec => []IInv
  BY Initial, Inductive, PTL DEF Spec

\* Every variable keeps its type, whatever the commands and the failures.
THEOREM TypeCorrect == Spec => []TypeOK
<1>1. IInv => TypeOK
  BY DEF IInv, ListOK, PipeOK, PipeTypes, TypeOK
<1> QED
  BY <1>1, Invariance, PTL

\* recompute_play_order, JumpToIndex, Next, Previous and handle_eof never leave
\* a cursor outside the order or an order that is not one of the queue.
THEOREM OrderSafe == Spec => []PlayOrderOK
<1>1. IInv => PlayOrderOK
  BY DEF IInv, ListOK
<1> QED
  BY <1>1, Invariance, PTL

\* An active engine has decoder, track and prepared sinks, and Playing has its
\* evidence.
THEOREM PipelineSafe == Spec => [](ActivePipeline /\ PlayingHasEvidence)
<1>1. IInv => ActivePipeline /\ PlayingHasEvidence
  BY DEF IInv, PipeOK
<1> QED
  BY <1>1, Invariance, PTL

\* No output is leaked, and decoder and clock are at rest in the states QuietStates names.
THEOREM OutputSafe == Spec => [](NoLeakedOutput /\ QuietStates)
<1>1. IInv => NoLeakedOutput /\ QuietStates
  BY DEF IInv, PipeOK
<1> QED
  BY <1>1, Invariance, PTL

\* What the engine reports is what it does: Playing only after delivered audio; no decoder
\* left in Paused, Stopped and Ended, nor with an output in Idle and Failed; no clock left
\* running in Paused, Stopped and Preparing.
THEOREM HonestSafe == Spec => []HonestStates
<1>1. IInv => HonestStates
  BY DEF IInv, PipeOK, HonestStates
<1> QED
  BY <1>1, Invariance, PTL

\* Next and the end of a track never start the place just played again when
\* the queue has another one, in a re-shuffled cycle neither.
THEOREM NeverRepeats == Spec => NoImmediateRepeat
<1> DEFINE A == (Next_ \/ (HandleEof /\ IsActive)) /\ Len(queue) > 1 /\ repeat # "One"
                  => queueIndex' # queueIndex \/ state' = "Ended"
<1>1. IInv /\ [Next]_vars => [A]_vars
  <2> SUFFICES ASSUME IInv, Next_ \/ HandleEof, Len(queue) > 1, repeat # "One"
               PROVE  queueIndex' # queueIndex \/ state' = "Ended"
    OBVIOUS
  <2>1. CASE (AdvanceOrder \/ WrapOrder) /\ FollowOrder
    BY <2>1, AdvanceOK DEF IInv
  <2>2. CASE state' = "Ended"
    BY <2>2
  <2> QED
    BY <2>1, <2>2 DEF Next_, HandleEof, EndOfQueue
<1> QED
  BY <1>1, Invariance, PTL DEF Spec, NoImmediateRepeat

=============================================================================
