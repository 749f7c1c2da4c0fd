------------------------ MODULE PlaybackQueuesProofs ------------------------
(***************************************************************************)
(* Proofs about the playback queues and sessions, for every set of tracks, *)
(* queues and concurrent requests, every disturbance and every bound.      *)
(***************************************************************************)
EXTENDS PlaybackQueues, WellFoundedInduction, TLAPS

(***************************************************************************)
(* Queues and places.                                                      *)
(***************************************************************************)

\* A queue may have a track.
LEMMA Bounds == MaxLen \in Nat /\ MaxLen > 0
BY QueuesAssumption

\* A queue is a sequence of tracks of a bounded length.
LEMMA QueueIsSeq ==
  ASSUME NEW l \in Queues
  PROVE  /\ l \in Seq(Tracks)
         /\ Len(l) \in 0..MaxLen
         /\ DOMAIN l = 1..Len(l)
         /\ l = <<>> <=> Len(l) = 0
         /\ \A i \in 1..Len(l) : l[i] \in Tracks
         /\ ToSet(l) = {l[i] : i \in 1..Len(l)}
<1>1. PICK n \in 0..MaxLen : l \in [1..n -> Tracks]
  BY DEF Queues
<1>2. n \in Nat
  BY Bounds
<1>3. l \in Seq(Tracks) /\ Len(l) = n
  BY <1>1, <1>2
<1> QED
  BY <1>1, <1>2, <1>3 DEF ToSet

\* A sequence of tracks of a bounded length is a queue.
LEMMA SeqIsQueue ==
  ASSUME NEW l \in Seq(Tracks), Len(l) <= MaxLen
  PROVE  l \in Queues
<1>1. Len(l) \in 0..MaxLen
  BY Bounds
<1>2. l \in [1..Len(l) -> Tracks]
  OBVIOUS
<1> QED
  BY <1>1, <1>2 DEF Queues

\* The empty queue is one.
LEMMA EmptyIsQueue == <<>> \in Queues
<1> DEFINE l == <<>>
<1>1. l \in Seq(Tracks) /\ Len(l) = 0
  OBVIOUS
<1>2. Len(l) <= MaxLen
  BY <1>1, Bounds
<1> HIDE DEF l
<1>3. l \in Queues
  BY <1>1, <1>2, SeqIsQueue
<1> QED
  BY <1>3 DEF l

\* A non-empty set of natural numbers has a least element.
LEMMA LeastNatural ==
  ASSUME NEW S \in SUBSET Nat, NEW k \in S
  PROVE  Min(S) \in S /\ \A m \in S : Min(S) <= m
<1> DEFINE R == OpToRel(<, Nat)
<1>1. PICK n \in S : \A m \in S : ~(<<m, n>> \in R)
  <2> HIDE DEF R
  <2>1. IsWellFoundedOn(R, Nat)
    BY NatLessThanWellFounded DEF R
  <2> QED BY <2>1, WFMin
<1>2. \A m \in S : ~(m < n)
  BY <1>1 DEF OpToRel
<1>3. \E x \in S : \A y \in S : x =< y
  BY <1>2
<1> QED
  BY <1>3 DEF Min

\* The place of a track of a queue is one where it stands.
LEMMA PlaceFound ==
  ASSUME NEW l \in Queues, NEW t \in ToSet(l)
  PROVE  /\ PlaceOf(l, t) \in 0..MaxLen
         /\ PlaceOf(l, t) < Len(l)
         /\ l[PlaceOf(l, t) + 1] = t
         /\ l # <<>>
<1> DEFINE S == {i \in DOMAIN l : l[i] = t}
<1>1. DOMAIN l = 1..Len(l) /\ Len(l) \in 0..MaxLen
  BY QueueIsSeq
<1>2. PICK i \in DOMAIN l : l[i] = t
  BY DEF ToSet
<1>3. S \subseteq Nat /\ i \in S
  BY <1>1, <1>2
<1>4. Min(S) \in S
  <2> HIDE DEF S
  <2> QED BY <1>3, LeastNatural
<1>5. PlaceOf(l, t) = Min(S) - 1
  BY DEF PlaceOf
<1>6. Min(S) \in 1..Len(l) /\ l[Min(S)] = t
  BY <1>1, <1>4
<1>7. l # <<>>
  BY <1>1, <1>2
<1> HIDE DEF S
<1> QED
  BY <1>1, <1>5, <1>6, <1>7, Bounds

\* Of two natural numbers the smaller.
LEMMA MinOfTwo ==
  ASSUME NEW a \in Nat, NEW b \in Nat
  PROVE  Min({a, b}) = IF a <= b THEN a ELSE b
<1>1. Min({a, b}) \in {a, b} /\ \A m \in {a, b} : Min({a, b}) <= m
  <2> DEFINE S == {a, b}
  <2>1. S \in SUBSET Nat /\ a \in S
    OBVIOUS
  <2> HIDE DEF S
  <2>2. Min(S) \in S /\ \A m \in S : Min(S) <= m
    BY <2>1, LeastNatural
  <2> QED BY <2>2 DEF S
<1> QED
  BY <1>1

\* Found keeps some of the tracks of a list.
LEMMA TracksOfLists ==
  ASSUME NEW l \in Lists
  PROVE  l \in Queues
BY QueuesAssumption

(***************************************************************************)
(* The inductive invariant.                                                *)
(***************************************************************************)

\* What a request may still have to do after some of its steps.
ToDo(op) ==
  CASE op \in {"add", "reorder"} -> {<<"snap", "read", "set">>, <<"read", "set">>, <<"set">>}
    [] op = "jump" -> {<<"promote", "set", "jump">>, <<"set", "jump">>, <<"jump">>}
    [] op = "transfer" -> {<<"save", "set">>, <<"set">>}
    [] op = "clear" -> {<<"set">>}
    [] op = "session" -> {<<"row", "set">>, <<"set">>} \union
         UNION {{<<"row", "set", s>>, <<"set", s>>, <<s>>} : s \in {"play", "load"}}
    [] op \in {"restore", "boot"} ->
         {<<"set", "load", "mark">>, <<"load", "mark">>, <<"mark">>}
    [] op = "commit" -> {<<"forget">>} \union
         UNION {{<<"install", "set", s, "forget">>, <<"set", s, "forget">>, <<s, "forget">>}
                  : s \in {"play", "load"}}
    [] OTHER -> {}

Ops == {"add", "reorder", "jump", "transfer", "clear", "session", "restore", "boot", "commit"}
Owners == {"none", "active", "saved", "gone"}

\* The queue of j has the track j is for at the index of j.
Names(j) == j.list # <<>> /\ j.idx < Len(j.list) /\ j.cur = j.list[j.idx + 1]

\* A session without a track.
Bare(todo) == todo \in {<<"row", "set">>, <<"set">>}

\* A request under way carries a queue and a place in it.
WorkOK(j) ==
  /\ j.op \in Ops /\ j.todo \in ToDo(j.op)
  /\ j.q \in Owners /\ j.list \in Queues /\ j.idx \in 0..MaxLen /\ j.cur \in MaybeTrack
  /\ j.op \in {"jump", "transfer", "commit", "restore", "boot"} => Names(j)
  /\ j.op = "session" =>
       IF Bare(j.todo) THEN j.list = <<>> /\ j.cur = None ELSE Names(j)
  /\ j.op = "clear" => j.list = <<>>
  /\ j.op \notin {"reorder", "restore", "boot"} => j.q = "active"
  /\ j.alone \in BOOLEAN

JobOK(c) == job[c] = Idle \/ (WorkOK(job[c]) /\ (job[c].op = "boot" <=> c = "boot"))

\* The active queue of the database is the one j carries.
Holding(j) ==
  \/ j.op \in {"transfer", "session", "clear"}
  \/ j.op = "jump" /\ Head(j.todo) # "promote"
  \/ j.op = "commit" /\ Head(j.todo) # "install"

\* What a request that nothing overlapped knows at its step.
AloneKnows(j) ==
  /\ Holding(j) => j.list = db.active
  /\ Head(j.todo) \in {"jump", "play", "load", "mark", "forget"} =>
       eng.queue = j.list /\ eng.queue[eng.idx + 1] = j.cur
  /\ Head(j.todo) \in {"mark", "forget"} => eng.track = j.cur
  /\ j.op \in {"add", "reorder"} =>
       /\ Head(j.todo) = "read" => j.cur = eng.track
       /\ Head(j.todo) = "set" =>
            j.list = get_queue_items(j.q) /\ (j.list # <<>> => j.cur = eng.track)

AloneOK == \A c \in Jobs : job[c].alone => AloneKnows(job[c]) /\ \A d \in Jobs \ {c} : job[d] = Idle

\* What a request f that ended well leaves: RequestsHeal, LandsOnTrack and PlaceSurvives.
Healed(f) ==
  /\ f.op \in {"add", "clear", "jump", "transfer", "session", "commit", "reorder"} =>
       eng.queue = get_queue_items(f.q)
  /\ f.op \in {"jump", "session", "commit", "restore", "boot"} /\ eng.queue # <<>> =>
       eng.track = f.cur /\ eng.queue[eng.idx + 1] = f.cur
  /\ f.op \in {"add", "reorder"} /\ eng.track \in ToSet(eng.queue) =>
       eng.queue[eng.idx + 1] = eng.track
  /\ f.op = "boot" /\ place # None => eng.track = place

\* What a request that ended well left holds until something begins.
FinOK ==
  /\ fin.op # "none" => \A c \in Jobs : job[c] = Idle
  /\ Healed(fin)

\* A restart is on its way to the place it should bring back.
PlaceOK == place # None /\ job["boot"] # Idle => job["boot"].cur = place

\* The last thing the projection will have heard of is the track of the engine.
TailOK ==
  ~drift => eng.track = IF evts # <<>> THEN evts[Len(evts)].cur
                        ELSE IF proj # None THEN proj.cur
                        ELSE IF last # None THEN last.cur ELSE None

\* The projection will hear of t, or heard of it last.
Coming(t) ==
  \/ \E i \in DOMAIN evts : evts[i].cur = t
  \/ proj # None /\ proj.cur = t
  \/ last # None /\ last.cur = t
  \/ \E c \in Jobs : job[c].op = "session" /\ job[c].cur = t /\ Head(job[c].todo) # "row"

RowOK == ~drift /\ db.row.q = "active" /\ db.row.cur # None => Coming(db.row.cur)

Transfer == [list : Queues, cur : Tracks, idx : 0..(MaxLen - 1), playing : BOOLEAN]

Base == [active : Queues, saved : Queues, row : Row, rows : BOOLEAN]

EngineType ==
  [queue : Queues, idx : 0..MaxLen, track : MaybeTrack, life : {"idle", "paused", "playing"}]

\* The index of an engine is a place in its queue, or 0.
EngineOK(e) ==
  /\ e \in EngineType
  /\ e.idx = 0 \/ e.idx < Len(e.queue)

WorldOK ==
  /\ db \in Base /\ EngineOK(eng)
  /\ evts \in Seq(Event)
  /\ proj \in Row \union {None} /\ last \in Event \union {None}
  /\ lib \subseteq Tracks /\ sel \in BOOLEAN /\ drift \in BOOLEAN
  /\ xfer \in Transfer \union {None}

ToDos == {<<>>} \union UNION {ToDo(op) : op \in Ops}
JobType == [todo : ToDos, op : Ops \union {"none"}, q : Owners, list : Queues, idx : 0..MaxLen,
            cur : MaybeTrack, alone : BOOLEAN]

JobsOK ==
  /\ job \in [Jobs -> JobType]
  /\ \A c \in Jobs : JobOK(c)

QueuesInv == WorldOK /\ JobsOK /\ AloneOK /\ FinOK /\ PlaceOK /\ TailOK /\ RowOK

(***************************************************************************)
(* Plans.                                                                  *)
(***************************************************************************)

\* A request of kind op takes the step s and has r left.
StepOf(op, s, r) ==
  \/ op \in {"add", "reorder"} /\ s = "snap" /\ r = <<"read", "set">>
  \/ op \in {"add", "reorder"} /\ s = "read" /\ r = <<"set">>
  \/ op \in {"add", "reorder", "transfer", "clear"} /\ s = "set" /\ r = <<>>
  \/ op = "jump" /\ s = "promote" /\ r = <<"set", "jump">>
  \/ op = "jump" /\ s = "set" /\ r = <<"jump">>
  \/ op = "jump" /\ s = "jump" /\ r = <<>>
  \/ op = "transfer" /\ s = "save" /\ r = <<"set">>
  \/ op = "session" /\ s = "row" /\ r \in {<<"set">>, <<"set", "play">>, <<"set", "load">>}
  \/ op = "session" /\ s = "set" /\ r \in {<<>>, <<"play">>, <<"load">>}
  \/ op = "session" /\ s \in {"play", "load"} /\ r = <<>>
  \/ op \in {"restore", "boot"} /\ s = "set" /\ r = <<"load", "mark">>
  \/ op \in {"restore", "boot"} /\ s = "load" /\ r = <<"mark">>
  \/ op \in {"restore", "boot"} /\ s = "mark" /\ r = <<>>
  \/ op = "commit" /\ s = "install" /\ r \in {<<"set", "play", "forget">>, <<"set", "load", "forget">>}
  \/ op = "commit" /\ s = "set" /\ r \in {<<"play", "forget">>, <<"load", "forget">>}
  \/ op = "commit" /\ s \in {"play", "load"} /\ r = <<"forget">>
  \/ op = "commit" /\ s = "forget" /\ r = <<>>

\* What a request that is about to take a step is, and what remains.
LEMMA Plans ==
  ASSUME NEW op \in Ops, NEW todo \in ToDo(op)
  PROVE  /\ todo # <<>>
         /\ StepOf(op, Head(todo), Tail(todo))
         /\ Tail(todo) # <<>> => Tail(todo) \in ToDo(op)
         /\ op = "session" /\ Tail(todo) # <<>> => (Bare(Tail(todo)) <=> Bare(todo))
         /\ op = "session" /\ Head(todo) = "set" => (Tail(todo) = <<>> <=> Bare(todo))
         /\ op = "session" /\ Head(todo) \in {"play", "load"} => ~Bare(todo)
<1>1. CASE op \in {"add", "reorder"}
  <2>0. todo \in {<<"snap", "read", "set">>, <<"read", "set">>, <<"set">>}
    BY <1>1 DEF ToDo
  <2>1. CASE todo = <<"snap", "read", "set">>
    <3>1. Head(todo) = "snap" /\ Tail(todo) = <<"read", "set">> /\ todo # <<>>
      BY <2>1
    <3>2. Tail(todo) # <<>> => Tail(todo) \in ToDo(op)
      BY <3>1, <1>1 DEF ToDo
    <3> QED
      BY <3>1, <3>2, <1>1, <2>1 DEF StepOf, Bare
  <2>2. CASE todo = <<"read", "set">>
    <3>1. Head(todo) = "read" /\ Tail(todo) = <<"set">> /\ todo # <<>>
      BY <2>2
    <3>2. Tail(todo) # <<>> => Tail(todo) \in ToDo(op)
      BY <3>1, <1>1 DEF ToDo
    <3> QED
      BY <3>1, <3>2, <1>1, <2>2 DEF StepOf, Bare
  <2>3. CASE todo = <<"set">>
    <3>1. Head(todo) = "set" /\ Tail(todo) = <<>> /\ todo # <<>>
      BY <2>3
    <3>2. Tail(todo) # <<>> => Tail(todo) \in ToDo(op)
      BY <3>1, <1>1 DEF ToDo
    <3> QED
      BY <3>1, <3>2, <1>1, <2>3 DEF StepOf, Bare
  <2> QED
    BY <2>0, <2>1, <2>2, <2>3
<1>2. CASE op = "jump"
  <2>0. todo \in {<<"promote", "set", "jump">>, <<"set", "jump">>, <<"jump">>}
    BY <1>2 DEF ToDo
  <2>1. CASE todo = <<"promote", "set", "jump">>
    <3>1. Head(todo) = "promote" /\ Tail(todo) = <<"set", "jump">> /\ todo # <<>>
      BY <2>1
    <3>2. Tail(todo) # <<>> => Tail(todo) \in ToDo(op)
      BY <3>1, <1>2 DEF ToDo
    <3> QED
      BY <3>1, <3>2, <1>2, <2>1 DEF StepOf, Bare
  <2>2. CASE todo = <<"set", "jump">>
    <3>1. Head(todo) = "set" /\ Tail(todo) = <<"jump">> /\ todo # <<>>
      BY <2>2
    <3>2. Tail(todo) # <<>> => Tail(todo) \in ToDo(op)
      BY <3>1, <1>2 DEF ToDo
    <3> QED
      BY <3>1, <3>2, <1>2, <2>2 DEF StepOf, Bare
  <2>3. CASE todo = <<"jump">>
    <3>1. Head(todo) = "jump" /\ Tail(todo) = <<>> /\ todo # <<>>
      BY <2>3
    <3>2. Tail(todo) # <<>> => Tail(todo) \in ToDo(op)
      BY <3>1, <1>2 DEF ToDo
    <3> QED
      BY <3>1, <3>2, <1>2, <2>3 DEF StepOf, Bare
  <2> QED
    BY <2>0, <2>1, <2>2, <2>3
<1>3. CASE op = "transfer"
  <2>0. todo \in {<<"save", "set">>, <<"set">>}
    BY <1>3 DEF ToDo
  <2>1. CASE todo = <<"save", "set">>
    <3>1. Head(todo) = "save" /\ Tail(todo) = <<"set">> /\ todo # <<>>
      BY <2>1
    <3>2. Tail(todo) # <<>> => Tail(todo) \in ToDo(op)
      BY <3>1, <1>3 DEF ToDo
    <3> QED
      BY <3>1, <3>2, <1>3, <2>1 DEF StepOf, Bare
  <2>2. CASE todo = <<"set">>
    <3>1. Head(todo) = "set" /\ Tail(todo) = <<>> /\ todo # <<>>
      BY <2>2
    <3>2. Tail(todo) # <<>> => Tail(todo) \in ToDo(op)
      BY <3>1, <1>3 DEF ToDo
    <3> QED
      BY <3>1, <3>2, <1>3, <2>2 DEF StepOf, Bare
  <2> QED
    BY <2>0, <2>1, <2>2
<1>4. CASE op = "clear"
  <2>0. todo \in {<<"set">>}
    BY <1>4 DEF ToDo
  <2>1. CASE todo = <<"set">>
    <3>1. Head(todo) = "set" /\ Tail(todo) = <<>> /\ todo # <<>>
      BY <2>1
    <3>2. Tail(todo) # <<>> => Tail(todo) \in ToDo(op)
      BY <3>1, <1>4 DEF ToDo
    <3> QED
      BY <3>1, <3>2, <1>4, <2>1 DEF StepOf, Bare
  <2> QED
    BY <2>0, <2>1
<1>5. CASE op = "session"
  <2>0. todo \in {<<"row", "set">>, <<"set">>, <<"row", "set", "play">>,
                  <<"set", "play">>, <<"play">>, <<"row", "set", "load">>,
                  <<"set", "load">>, <<"load">>}
    BY <1>5 DEF ToDo
  <2>1. CASE todo = <<"row", "set">>
    <3>1. Head(todo) = "row" /\ Tail(todo) = <<"set">> /\ todo # <<>>
      BY <2>1
    <3>2. Tail(todo) # <<>> => Tail(todo) \in ToDo(op)
      BY <3>1, <1>5 DEF ToDo
    <3> QED
      BY <3>1, <3>2, <1>5, <2>1 DEF StepOf, Bare
  <2>2. CASE todo = <<"set">>
    <3>1. Head(todo) = "set" /\ Tail(todo) = <<>> /\ todo # <<>>
      BY <2>2
    <3>2. Tail(todo) # <<>> => Tail(todo) \in ToDo(op)
      BY <3>1, <1>5 DEF ToDo
    <3> QED
      BY <3>1, <3>2, <1>5, <2>2 DEF StepOf, Bare
  <2>3. CASE todo = <<"row", "set", "play">>
    <3>1. Head(todo) = "row" /\ Tail(todo) = <<"set", "play">> /\ todo # <<>>
      BY <2>3
    <3>2. Tail(todo) # <<>> => Tail(todo) \in ToDo(op)
      BY <3>1, <1>5 DEF ToDo
    <3> QED
      BY <3>1, <3>2, <1>5, <2>3 DEF StepOf, Bare
  <2>4. CASE todo = <<"set", "play">>
    <3>1. Head(todo) = "set" /\ Tail(todo) = <<"play">> /\ todo # <<>>
      BY <2>4
    <3>2. Tail(todo) # <<>> => Tail(todo) \in ToDo(op)
      BY <3>1, <1>5 DEF ToDo
    <3> QED
      BY <3>1, <3>2, <1>5, <2>4 DEF StepOf, Bare
  <2>5. CASE todo = <<"play">>
    <3>1. Head(todo) = "play" /\ Tail(todo) = <<>> /\ todo # <<>>
      BY <2>5
    <3>2. Tail(todo) # <<>> => Tail(todo) \in ToDo(op)
      BY <3>1, <1>5 DEF ToDo
    <3> QED
      BY <3>1, <3>2, <1>5, <2>5 DEF StepOf, Bare
  <2>6. CASE todo = <<"row", "set", "load">>
    <3>1. Head(todo) = "row" /\ Tail(todo) = <<"set", "load">> /\ todo # <<>>
      BY <2>6
    <3>2. Tail(todo) # <<>> => Tail(todo) \in ToDo(op)
      BY <3>1, <1>5 DEF ToDo
    <3> QED
      BY <3>1, <3>2, <1>5, <2>6 DEF StepOf, Bare
  <2>7. CASE todo = <<"set", "load">>
    <3>1. Head(todo) = "set" /\ Tail(todo) = <<"load">> /\ todo # <<>>
      BY <2>7
    <3>2. Tail(todo) # <<>> => Tail(todo) \in ToDo(op)
      BY <3>1, <1>5 DEF ToDo
    <3> QED
      BY <3>1, <3>2, <1>5, <2>7 DEF StepOf, Bare
  <2>8. CASE todo = <<"load">>
    <3>1. Head(todo) = "load" /\ Tail(todo) = <<>> /\ todo # <<>>
      BY <2>8
    <3>2. Tail(todo) # <<>> => Tail(todo) \in ToDo(op)
      BY <3>1, <1>5 DEF ToDo
    <3> QED
      BY <3>1, <3>2, <1>5, <2>8 DEF StepOf, Bare
  <2> QED
    BY <2>0, <2>1, <2>2, <2>3, <2>4, <2>5, <2>6, <2>7, <2>8
<1>6. CASE op \in {"restore", "boot"}
  <2>0. todo \in {<<"set", "load", "mark">>, <<"load", "mark">>, <<"mark">>}
    BY <1>6 DEF ToDo
  <2>1. CASE todo = <<"set", "load", "mark">>
    <3>1. Head(todo) = "set" /\ Tail(todo) = <<"load", "mark">> /\ todo # <<>>
      BY <2>1
    <3>2. Tail(todo) # <<>> => Tail(todo) \in ToDo(op)
      BY <3>1, <1>6 DEF ToDo
    <3> QED
      BY <3>1, <3>2, <1>6, <2>1 DEF StepOf, Bare
  <2>2. CASE todo = <<"load", "mark">>
    <3>1. Head(todo) = "load" /\ Tail(todo) = <<"mark">> /\ todo # <<>>
      BY <2>2
    <3>2. Tail(todo) # <<>> => Tail(todo) \in ToDo(op)
      BY <3>1, <1>6 DEF ToDo
    <3> QED
      BY <3>1, <3>2, <1>6, <2>2 DEF StepOf, Bare
  <2>3. CASE todo = <<"mark">>
    <3>1. Head(todo) = "mark" /\ Tail(todo) = <<>> /\ todo # <<>>
      BY <2>3
    <3>2. Tail(todo) # <<>> => Tail(todo) \in ToDo(op)
      BY <3>1, <1>6 DEF ToDo
    <3> QED
      BY <3>1, <3>2, <1>6, <2>3 DEF StepOf, Bare
  <2> QED
    BY <2>0, <2>1, <2>2, <2>3
<1>7. CASE op = "commit"
  <2>0. todo \in {<<"install", "set", "play", "forget">>, <<"set", "play", "forget">>, <<"play", "forget">>,
                  <<"install", "set", "load", "forget">>, <<"set", "load", "forget">>, <<"load", "forget">>,
                  <<"forget">>}
    BY <1>7 DEF ToDo
  <2>1. CASE todo = <<"install", "set", "play", "forget">>
    <3>1. Head(todo) = "install" /\ Tail(todo) = <<"set", "play", "forget">> /\ todo # <<>>
      BY <2>1
    <3>2. Tail(todo) # <<>> => Tail(todo) \in ToDo(op)
      BY <3>1, <1>7 DEF ToDo
    <3> QED
      BY <3>1, <3>2, <1>7, <2>1 DEF StepOf, Bare
  <2>2. CASE todo = <<"set", "play", "forget">>
    <3>1. Head(todo) = "set" /\ Tail(todo) = <<"play", "forget">> /\ todo # <<>>
      BY <2>2
    <3>2. Tail(todo) # <<>> => Tail(todo) \in ToDo(op)
      BY <3>1, <1>7 DEF ToDo
    <3> QED
      BY <3>1, <3>2, <1>7, <2>2 DEF StepOf, Bare
  <2>3. CASE todo = <<"play", "forget">>
    <3>1. Head(todo) = "play" /\ Tail(todo) = <<"forget">> /\ todo # <<>>
      BY <2>3
    <3>2. Tail(todo) # <<>> => Tail(todo) \in ToDo(op)
      BY <3>1, <1>7 DEF ToDo
    <3> QED
      BY <3>1, <3>2, <1>7, <2>3 DEF StepOf, Bare
  <2>4. CASE todo = <<"install", "set", "load", "forget">>
    <3>1. Head(todo) = "install" /\ Tail(todo) = <<"set", "load", "forget">> /\ todo # <<>>
      BY <2>4
    <3>2. Tail(todo) # <<>> => Tail(todo) \in ToDo(op)
      BY <3>1, <1>7 DEF ToDo
    <3> QED
      BY <3>1, <3>2, <1>7, <2>4 DEF StepOf, Bare
  <2>5. CASE todo = <<"set", "load", "forget">>
    <3>1. Head(todo) = "set" /\ Tail(todo) = <<"load", "forget">> /\ todo # <<>>
      BY <2>5
    <3>2. Tail(todo) # <<>> => Tail(todo) \in ToDo(op)
      BY <3>1, <1>7 DEF ToDo
    <3> QED
      BY <3>1, <3>2, <1>7, <2>5 DEF StepOf, Bare
  <2>6. CASE todo = <<"load", "forget">>
    <3>1. Head(todo) = "load" /\ Tail(todo) = <<"forget">> /\ todo # <<>>
      BY <2>6
    <3>2. Tail(todo) # <<>> => Tail(todo) \in ToDo(op)
      BY <3>1, <1>7 DEF ToDo
    <3> QED
      BY <3>1, <3>2, <1>7, <2>6 DEF StepOf, Bare
  <2>7. CASE todo = <<"forget">>
    <3>1. Head(todo) = "forget" /\ Tail(todo) = <<>> /\ todo # <<>>
      BY <2>7
    <3>2. Tail(todo) # <<>> => Tail(todo) \in ToDo(op)
      BY <3>1, <1>7 DEF ToDo
    <3> QED
      BY <3>1, <3>2, <1>7, <2>7 DEF StepOf, Bare
  <2> QED
    BY <2>0, <2>1, <2>2, <2>3, <2>4, <2>5, <2>6, <2>7
<1> QED
  BY <1>1, <1>2, <1>3, <1>4, <1>5, <1>6, <1>7 DEF Ops

(***************************************************************************)
(* Jobs.                                                                   *)
(***************************************************************************)

\* A job without a request has its type and nothing to do.
LEMMA IdleFacts ==
  /\ Idle \in JobType /\ Idle.op = "none" /\ Idle.alone = FALSE /\ Idle.todo = <<>>
  /\ Idle = [Idle EXCEPT !.alone = FALSE]
<1>1. <<>> \in ToDos
  BY DEF ToDos
<1>2. 0 \in 0..MaxLen /\ None \in MaybeTrack /\ <<>> \in Queues
  BY Bounds, EmptyIsQueue DEF MaybeTrack
<1>3. Idle \in JobType
  <2> DEFINE e == <<>>
  <2>1. e \in ToDos /\ e \in Queues
    BY <1>1, <1>2
  <2> HIDE DEF e
  <2>2. [todo |-> e, op |-> "none", q |-> "active", list |-> e, idx |-> 0, cur |-> None,
         alone |-> FALSE] \in JobType
    BY <2>1, <1>2 DEF JobType, Owners, Ops
  <2> QED
    BY <2>2 DEF e, Idle
<1>4. Idle.op = "none" /\ Idle.alone = FALSE /\ Idle.todo = <<>>
  BY DEF Idle
<1>5. Idle = [Idle EXCEPT !.alone = FALSE]
  BY <1>3, <1>4 DEF JobType
<1> QED
  BY <1>3, <1>4, <1>5

\* A job that has something to do is a request under way.
LEMMA AtWork ==
  ASSUME JobsOK, NEW c \in Jobs, job[c].todo # <<>>
  PROVE  /\ job[c] \in JobType /\ WorkOK(job[c]) /\ job[c] # Idle
         /\ job[c].op = "boot" <=> c = "boot"
         /\ job[c].op \in Ops /\ job[c].todo \in ToDo(job[c].op)
<1>1. job[c] # Idle
  BY IdleFacts
<1>2. job[c] \in JobType /\ JobOK(c)
  BY DEF JobsOK
<1> QED
  BY <1>1, <1>2 DEF JobOK, WorkOK

\* A job that is not idle has something to do.
LEMMA BusyWorks ==
  ASSUME JobsOK, NEW c \in Jobs, job[c] # Idle
  PROVE  job[c].todo # <<>>
<1>1. WorkOK(job[c])
  BY DEF JobsOK, JobOK
<1> QED
  BY <1>1, Plans DEF WorkOK

\* A request that takes a step is still one under way.
LEMMA WorkGoesOn ==
  ASSUME NEW j \in JobType, WorkOK(j), NEW n, n = [j EXCEPT !.todo = Tail(j.todo)]
  PROVE  /\ n \in JobType /\ n.todo = Tail(j.todo)
         /\ n.op = j.op /\ n.q = j.q /\ n.list = j.list /\ n.idx = j.idx /\ n.cur = j.cur
         /\ n.alone = j.alone
         /\ n.todo # <<>> => WorkOK(n)
<1>1. j.op \in Ops /\ (Tail(j.todo) # <<>> => Tail(j.todo) \in ToDo(j.op))
  BY Plans DEF WorkOK
<1>2. Tail(j.todo) \in ToDos
  BY <1>1 DEF ToDos
<1>3. n \in JobType
  BY <1>2 DEF JobType
<1>4. /\ n.op = j.op /\ n.q = j.q /\ n.list = j.list /\ n.idx = j.idx /\ n.cur = j.cur
      /\ n.alone = j.alone /\ n.todo = Tail(j.todo)
  BY DEF JobType
<1>5. ASSUME n.todo # <<>> PROVE WorkOK(n)
  <2>1. n.todo \in ToDo(n.op) /\ (n.op = "session" => (Bare(n.todo) <=> Bare(j.todo)))
    BY <1>4, <1>5, Plans DEF WorkOK
  <2>2. Names(n) <=> Names(j)
    BY <1>4 DEF Names
  <2> QED
    BY <1>4, <2>1, <2>2 DEF WorkOK
<1> QED
  BY <1>3, <1>4, <1>5

\* The job c goes on as n, or ends as what n is.
GoesOn(c, n) ==
  /\ n.todo = Tail(job[c].todo)
  /\ job' = [job EXCEPT ![c] = IF n.todo = <<>> THEN Idle ELSE n]
  /\ fin' = IF n.todo = <<>> /\ n.alone THEN [op |-> n.op, q |-> n.q, cur |-> n.cur] ELSE fin

\* A step that goes on as j leaves what remains of the plan.
LEMMA GoIs ==
  ASSUME NEW c, NEW j \in JobType, Go(c, j), NEW n, n = [j EXCEPT !.todo = Tail(job[c].todo)]
  PROVE  GoesOn(c, n)
<1>1. /\ n.todo = Tail(job[c].todo) /\ n.op = j.op /\ n.q = j.q /\ n.cur = j.cur
      /\ n.alone = j.alone
  BY DEF JobType
<1> QED
  BY <1>1 DEF GoesOn, Go

\* The request c takes a step; what it knows when it is alone, and what it heals when it ends, is
\* owed by the step.
LEMMA JobGoesOn ==
  ASSUME JobsOK, AloneOK, FinOK, PlaceOK, place' = place,
         NEW c \in Jobs, job[c].todo # <<>>, NEW n \in JobType, GoesOn(c, n),
         n.op = job[c].op, n.alone = job[c].alone, c = "boot" => n.cur = job[c].cur,
         n.todo # <<>> => WorkOK(n) /\ (n.alone => AloneKnows(n)'),
         n.todo = <<>> /\ n.alone => Healed(n)'
  PROVE  /\ JobsOK' /\ AloneOK' /\ FinOK' /\ PlaceOK'
         /\ job' = [job EXCEPT ![c] = IF n.todo = <<>> THEN Idle ELSE n]
<1>2. job' = [job EXCEPT ![c] = IF n.todo = <<>> THEN Idle ELSE n]
  BY DEF GoesOn
<1>3. job \in [Jobs -> JobType]
  BY DEF JobsOK
<1>4. \A d \in Jobs \ {c} : job'[d] = job[d]
  BY <1>2, <1>3
<1>5. job'[c] = IF n.todo = <<>> THEN Idle ELSE n
  BY <1>2, <1>3
<1>6. job[c] # Idle /\ (job[c].op = "boot" <=> c = "boot")
  BY AtWork
<1>7. \A d \in Jobs \ {c} : ~job'[d].alone
  BY <1>4, <1>6 DEF AloneOK
<1>8. JobsOK'
  <2>1. job' \in [Jobs -> JobType]
    BY <1>2, <1>3, IdleFacts
  <2>2. JobOK(c)'
    BY <1>5, <1>6 DEF JobOK
  <2>3. \A d \in Jobs \ {c} : JobOK(d)'
    BY <1>4 DEF JobsOK, JobOK
  <2> QED
    BY <2>1, <2>2, <2>3 DEF JobsOK
<1>9. AloneOK'
  <2>1. ASSUME job'[c].alone PROVE AloneKnows(job[c])' /\ \A d \in Jobs \ {c} : job'[d] = Idle
    <3>1. n.todo # <<>> /\ n.alone
      BY <2>1, <1>5, IdleFacts
    <3>2. \A d \in Jobs \ {c} : job[d] = Idle
      BY <3>1 DEF AloneOK
    <3>3. AloneKnows(n)' /\ job'[c] = n
      BY <3>1, <1>5
    <3>4. AloneKnows(job[c])'
      BY <3>3 DEF AloneKnows, Holding
    <3> QED
      BY <3>2, <3>4, <1>4
  <2> QED
    BY <2>1, <1>7 DEF AloneOK
<1>10. PlaceOK'
  BY <1>4, <1>5, <1>6 DEF PlaceOK, Jobs
<1>11. FinOK'
  <2>1. CASE n.todo = <<>> /\ n.alone
    <3>1. fin' = [op |-> n.op, q |-> n.q, cur |-> n.cur]
      BY <2>1 DEF GoesOn
    <3>2. \A d \in Jobs : job'[d] = Idle
      BY <2>1, <1>4, <1>5 DEF AloneOK
    <3>3. fin'.op = n.op /\ fin'.q = n.q /\ fin'.cur = n.cur
      BY <3>1
    <3>4. Healed(n)'
      BY <2>1
    <3>5. Healed(fin)'
      BY <3>3, <3>4 DEF Healed, get_queue_items
    <3> QED
      BY <3>2, <3>5 DEF FinOK
  <2>2. CASE ~(n.todo = <<>> /\ n.alone)
    <3>1. fin' = fin
      BY <2>2 DEF GoesOn
    <3>2. fin.op = "none"
      BY <1>6 DEF FinOK
    <3>3. Healed(fin)'
      BY <3>1, <3>2 DEF Healed
    <3> QED
      BY <3>1, <3>2, <3>3 DEF FinOK
  <2> QED
    BY <2>1, <2>2
<1> QED
  BY <1>2, <1>8, <1>9, <1>10, <1>11

\* A request whose plan is the same, alone or not.
LEMMA Lowered ==
  ASSUME NEW j, WorkOK(j), NEW n, n.alone \in BOOLEAN, n.todo = j.todo,
         n.op = j.op, n.q = j.q, n.list = j.list, n.idx = j.idx, n.cur = j.cur
  PROVE  WorkOK(n)
<1>1. Names(n) <=> Names(j)
  BY DEF Names
<1> QED
  BY <1>1 DEF WorkOK

\* Nothing is alone any more and nothing is claimed.
LEMMA NobodyAlone ==
  ASSUME JobsOK, PlaceOK, place' = place, fin'.op = "none",
         job' = [x \in Jobs |-> [job[x] EXCEPT !.alone = FALSE]]
  PROVE  /\ JobsOK' /\ AloneOK' /\ FinOK' /\ PlaceOK'
         /\ \A d \in Jobs : /\ job'[d].op = job[d].op /\ job'[d].cur = job[d].cur
                            /\ job'[d].todo = job[d].todo
<1>1. ASSUME NEW d \in Jobs
      PROVE  /\ job'[d] \in JobType /\ ~job'[d].alone /\ job'[d].todo = job[d].todo
             /\ job'[d].op = job[d].op /\ job'[d].cur = job[d].cur
             /\ JobOK(d)' /\ (job[d] = Idle <=> job'[d] = Idle)
  <2>1. job[d] \in JobType /\ JobOK(d)
    BY DEF JobsOK
  <2>2. job'[d] = [job[d] EXCEPT !.alone = FALSE]
    OBVIOUS
  <2>3. /\ job'[d] \in JobType /\ job'[d].alone = FALSE /\ job'[d].todo = job[d].todo
        /\ job'[d].op = job[d].op /\ job'[d].cur = job[d].cur
        /\ WorkOK(job[d]) => WorkOK(job'[d])
        /\ job[d] = Idle => job'[d] = Idle
    <3>1. /\ job'[d] \in JobType /\ job'[d].alone = FALSE /\ job'[d].todo = job[d].todo
          /\ job'[d].op = job[d].op /\ job'[d].q = job[d].q /\ job'[d].list = job[d].list
          /\ job'[d].idx = job[d].idx /\ job'[d].cur = job[d].cur
      BY <2>1, <2>2 DEF JobType
    <3>2. WorkOK(job[d]) => WorkOK(job'[d])
      <4>1. job'[d].alone \in BOOLEAN
        BY <3>1
      <4> QED
        BY <3>1, <4>1, Lowered
    <3>3. job[d] = Idle => job'[d] = Idle
      BY <2>2, IdleFacts
    <3> QED
      BY <3>1, <3>2, <3>3
  <2>4. JobOK(d)'
    BY <2>1, <2>3 DEF JobOK
  <2>5. job'[d] = Idle => job[d] = Idle
    <3>1. ASSUME job[d] # Idle PROVE job'[d].todo # <<>>
      BY <2>3, <3>1, BusyWorks
    <3> QED
      BY <3>1, IdleFacts
  <2> QED
    BY <2>3, <2>4, <2>5
<1>2. JobsOK'
  BY <1>1 DEF JobsOK
<1>3. AloneOK'
  BY <1>1 DEF AloneOK
<1>4. FinOK'
  BY DEF FinOK, Healed
<1>5. PlaceOK'
  BY <1>1 DEF PlaceOK, Jobs
<1> QED
  BY <1>1, <1>2, <1>3, <1>4, <1>5

\* A request begins as j.
LEMMA RequestBegins ==
  ASSUME JobsOK, PlaceOK, place' = place, NEW c \in Callers, NEW j \in JobType, Begin(c, j),
         WorkOK(j), j.op # "boot",
         (\A d \in Jobs : job[d] = Idle) => AloneKnows(j)'
  PROVE  /\ JobsOK' /\ AloneOK' /\ FinOK' /\ PlaceOK'
         /\ \A d \in Jobs : job[d].op = "session" =>
              /\ job'[d].op = "session" /\ job'[d].cur = job[d].cur
              /\ job'[d].todo = job[d].todo
<1> DEFINE b == \A d \in Jobs : job[d] = Idle
<1>1. c \in Jobs /\ c # "boot" /\ job[c] = Idle
  BY DEF Begin, Jobs
<1>2. job' = [x \in Jobs |-> IF x = c THEN [j EXCEPT !.alone = b] ELSE [job[x] EXCEPT !.alone = FALSE]]
  BY DEF Begin
<1>3. b \in BOOLEAN
  OBVIOUS
<1>4. job'[c] = [j EXCEPT !.alone = b]
  BY <1>1, <1>2
<1>5. /\ job'[c] \in JobType /\ job'[c].alone = b /\ job'[c].todo = j.todo /\ job'[c].op = j.op
      /\ job'[c].q = j.q /\ job'[c].list = j.list /\ job'[c].cur = j.cur /\ WorkOK(job'[c])
  <2> HIDE DEF b
  <2>1. /\ job'[c] \in JobType /\ job'[c].alone = b /\ job'[c].todo = j.todo
        /\ job'[c].op = j.op /\ job'[c].q = j.q /\ job'[c].list = j.list
        /\ job'[c].idx = j.idx /\ job'[c].cur = j.cur
    BY <1>3, <1>4 DEF JobType
  <2>2. WorkOK(job'[c])
    BY <1>3, <2>1, Lowered
  <2> QED
    BY <2>1, <2>2
<1>6. ASSUME NEW d \in Jobs \ {c}
      PROVE  /\ job'[d] \in JobType /\ ~job'[d].alone /\ job'[d].todo = job[d].todo
             /\ job'[d].op = job[d].op /\ job'[d].cur = job[d].cur
             /\ JobOK(d)' /\ (job[d] = Idle => job'[d] = Idle)
  <2>1. job[d] \in JobType /\ JobOK(d)
    BY DEF JobsOK
  <2>2. job'[d] = [job[d] EXCEPT !.alone = FALSE]
    BY <1>2
  <2>3. /\ job'[d] \in JobType /\ job'[d].alone = FALSE /\ job'[d].todo = job[d].todo
        /\ job'[d].op = job[d].op /\ job'[d].cur = job[d].cur
        /\ WorkOK(job[d]) => WorkOK(job'[d])
        /\ job[d] = Idle => job'[d] = Idle
    <3>1. /\ job'[d] \in JobType /\ job'[d].alone = FALSE /\ job'[d].todo = job[d].todo
          /\ job'[d].op = job[d].op /\ job'[d].q = job[d].q /\ job'[d].list = job[d].list
          /\ job'[d].idx = job[d].idx /\ job'[d].cur = job[d].cur
      BY <2>1, <2>2 DEF JobType
    <3>2. WorkOK(job[d]) => WorkOK(job'[d])
      <4>1. job'[d].alone \in BOOLEAN
        BY <3>1
      <4> QED
        BY <3>1, <4>1, Lowered
    <3>3. job[d] = Idle => job'[d] = Idle
      BY <2>2, IdleFacts
    <3> QED
      BY <3>1, <3>2, <3>3
  <2> QED
    BY <2>1, <2>3 DEF JobOK
<1>7. JobsOK'
  <2>1. JobOK(c)'
    BY <1>1, <1>5 DEF JobOK
  <2>2. job' \in [Jobs -> JobType]
    BY <1>2, <1>5, <1>6
  <2> QED
    BY <1>6, <2>1, <2>2 DEF JobsOK
<1>8. AloneOK'
  <2>1. ASSUME job'[c].alone PROVE AloneKnows(job[c])' /\ \A d \in Jobs \ {c} : job'[d] = Idle
    <3>1. b
      BY <2>1, <1>5
    <3>2. AloneKnows(j)'
      BY <3>1
    <3>3. AloneKnows(job[c])'
      BY <3>2, <1>5 DEF AloneKnows, Holding
    <3> QED
      BY <3>1, <3>3, <1>6
  <2> QED
    BY <2>1, <1>6 DEF AloneOK
<1>9. FinOK'
  <2>1. fin'.op = "none"
    BY DEF NoFin, Begin
  <2> QED
    BY <2>1 DEF FinOK, Healed
<1>10. PlaceOK'
  <2>1. "boot" \in Jobs \ {c}
    BY <1>1 DEF Jobs
  <2>2. job["boot"] = Idle \/ job["boot"] # Idle
    OBVIOUS
  <2> QED
    BY <1>6, <2>1, <2>2 DEF PlaceOK
<1>11. job[c].op # "session"
  BY <1>1, IdleFacts
<1> QED
  BY <1>6, <1>7, <1>8, <1>9, <1>10, <1>11

\* A request ends: it is refused, or dropped.
LEMMA JobEnds ==
  ASSUME JobsOK, AloneOK, FinOK, PlaceOK, place' = place, fin' = fin,
         NEW c \in Jobs, job[c] # Idle, job' = [job EXCEPT ![c] = Idle]
  PROVE  JobsOK' /\ AloneOK' /\ FinOK' /\ PlaceOK'
<1>1. job \in [Jobs -> JobType]
  BY DEF JobsOK
<1>2. job'[c] = Idle /\ \A d \in Jobs \ {c} : job'[d] = job[d]
  BY <1>1
<1>3. \A d \in Jobs \ {c} : ~job'[d].alone
  BY <1>2 DEF AloneOK
<1>4. JobsOK'
  <2>1. job' \in [Jobs -> JobType]
    BY <1>1, IdleFacts
  <2>2. \A d \in Jobs : JobOK(d)'
    BY <1>2 DEF JobsOK, JobOK
  <2> QED
    BY <2>1, <2>2 DEF JobsOK
<1>5. AloneOK'
  BY <1>2, <1>3, IdleFacts DEF AloneOK
<1>6. FinOK'
  <2>1. fin'.op = "none"
    BY DEF FinOK
  <2> QED
    BY <2>1 DEF FinOK, Healed
<1>7. PlaceOK'
  BY <1>2 DEF PlaceOK, Jobs
<1> QED
  BY <1>4, <1>5, <1>6, <1>7

\* No request takes a step, and neither the engine nor the queues change.
LEMMA JobsStill ==
  ASSUME JobsOK, AloneOK, FinOK, PlaceOK, UNCHANGED <<job, fin, place, eng, db.active, db.saved>>
  PROVE  JobsOK' /\ AloneOK' /\ FinOK' /\ PlaceOK'
<1>1. \A q : get_queue_items(q)' = get_queue_items(q)
  BY DEF get_queue_items
<1>2. JobsOK' /\ PlaceOK'
  BY DEF JobsOK, JobOK, PlaceOK
<1>3. \A c \in Jobs : AloneKnows(job[c]) => AloneKnows(job[c])'
  BY <1>1 DEF AloneKnows, Holding
<1>4. AloneOK'
  BY <1>3 DEF AloneOK
<1>5. FinOK'
  BY <1>1 DEF FinOK, Healed
<1> QED
  BY <1>2, <1>4, <1>5

(***************************************************************************)
(* The engine and what the projection hears.                               *)
(***************************************************************************)

\* An engine that runs a command has its type and its report was appended.
LEMMA Reported ==
  ASSUME WorldOK, NEW e, EngineOK(e), Engine(e)
  PROVE  /\ eng' = e /\ EngineOK(eng') /\ evts' \in Seq(Event) /\ evts' # <<>>
         /\ Len(evts') \in DOMAIN evts' /\ evts'[Len(evts')].cur = e.track
         /\ \A i \in DOMAIN evts : i \in DOMAIN evts' /\ evts'[i] = evts[i]
<1> DEFINE v == [cur |-> e.track, idx |-> e.idx]
<1>1. evts \in Seq(Event) /\ v \in Event
  BY DEF WorldOK, EngineOK, EngineType, Event
<1>2. evts' = Append(evts, v) /\ eng' = e
  BY DEF Engine
<1>3. v.cur = e.track
  OBVIOUS
<1> HIDE DEF v
<1>4. /\ evts' \in Seq(Event) /\ Len(evts') = Len(evts) + 1 /\ evts'[Len(evts')] = v
      /\ \A i \in 1..Len(evts) : i \in 1..Len(evts') /\ evts'[i] = evts[i]
      /\ Len(evts) \in Nat
  BY <1>1, <1>2
<1>5. DOMAIN evts = 1..Len(evts) /\ DOMAIN evts' = 1..Len(evts')
  BY <1>1, <1>4
<1>6. evts' # <<>>
  BY <1>4
<1> QED
  BY <1>2, <1>3, <1>4, <1>5, <1>6

\* What is coming stays so while events are only added and sessions go on.
LEMMA StillComing ==
  ASSUME NEW t, Coming(t), UNCHANGED <<proj, last>>,
         \A i \in DOMAIN evts : i \in DOMAIN evts' /\ evts'[i] = evts[i],
         \A d \in Jobs : job[d].op = "session" /\ job[d].cur = t /\ Head(job[d].todo) # "row" =>
           \/ job'[d].op = "session" /\ job'[d].cur = t /\ Head(job'[d].todo) # "row"
           \/ \E i \in DOMAIN evts' : evts'[i].cur = t
  PROVE  Coming(t)'
BY DEF Coming

\* The track of the engine is coming.
LEMMA TailComes ==
  ASSUME WorldOK, TailOK, ~drift, eng.track # None
  PROVE  Coming(eng.track)
<1>1. evts \in Seq(Event)
  BY DEF WorldOK
<1>2. ASSUME evts # <<>> PROVE Len(evts) \in DOMAIN evts
  BY <1>1, <1>2
<1> QED
  BY <1>2 DEF TailOK, Coming

\* A session that took its first step is past the row.
LEMMA NotRow ==
  ASSUME NEW r \in {<<"set">>, <<"set", "play">>, <<"set", "load">>, <<"play">>, <<"load">>}
  PROVE  Head(r) # "row"
<1>1. CASE r = <<"set">>
  BY <1>1
<1>2. CASE r = <<"set", "play">>
  BY <1>2
<1>3. CASE r = <<"set", "load">>
  BY <1>3
<1>4. CASE r = <<"play">>
  BY <1>4
<1>5. CASE r = <<"load">>
  BY <1>5
<1> QED
  BY <1>1, <1>2, <1>3, <1>4, <1>5

\* A request takes a step.
LEMMA StepKeeps ==
  ASSUME QueuesInv, NEW c \in Jobs, job[c].todo # <<>>, NEW n \in JobType,
         GoesOn(c, n),
         n.op = job[c].op, n.alone = job[c].alone,
         n.cur = job[c].cur \/ n.op \in {"add", "reorder"},
         n.todo # <<>> => WorkOK(n) /\ (n.alone => AloneKnows(n)'),
         n.todo = <<>> /\ n.alone => Healed(n)',
         WorldOK', UNCHANGED <<place, proj, last>>, drift => drift',
         \/ UNCHANGED <<eng, evts>>
         \/ \E e : EngineOK(e) /\ Engine(e),
         n.op = "session" /\ n.todo = <<>> =>
           n.cur = None \/ \E e : EngineOK(e) /\ Engine(e) /\ e.track = n.cur,
         \/ db'.row = db.row
         \/ db'.row.q # "active"
         \/ db'.row.cur = n.cur /\ n.op = "session" /\ n.todo # <<>>
         \/ UNCHANGED <<eng, evts>> /\ (drift' \/ db'.row.cur = eng.track)
  PROVE  QueuesInv'
<1>1. WorldOK /\ JobsOK /\ AloneOK /\ FinOK /\ PlaceOK /\ TailOK /\ RowOK
  BY DEF QueuesInv
<1>2. WorkOK(job[c]) /\ (job[c].op = "boot" <=> c = "boot")
  BY <1>1, AtWork
<1>3. c = "boot" => n.cur = job[c].cur
  BY <1>2
<1>4. /\ JobsOK' /\ AloneOK' /\ FinOK' /\ PlaceOK'
      /\ job' = [job EXCEPT ![c] = IF n.todo = <<>> THEN Idle ELSE n]
  <2>1. JobsOK' /\ AloneOK' /\ FinOK' /\ PlaceOK'
    BY <1>1, <1>3, JobGoesOn
  <2> QED
    BY <2>1 DEF GoesOn
<1>5. ASSUME NEW e, EngineOK(e), Engine(e)
      PROVE  /\ eng' = e /\ evts' # <<>> /\ Len(evts') \in DOMAIN evts'
             /\ evts'[Len(evts')].cur = e.track
             /\ \A i \in DOMAIN evts : i \in DOMAIN evts' /\ evts'[i] = evts[i]
  BY <1>1, <1>5, Reported
<1>6. \A i \in DOMAIN evts : i \in DOMAIN evts' /\ evts'[i] = evts[i]
  BY <1>5
<1>7. TailOK'
  BY <1>1, <1>5 DEF TailOK
<1>8. n.todo = Tail(job[c].todo) /\ StepOf(n.op, Head(job[c].todo), n.todo)
  <2>1. n.todo = Tail(job[c].todo)
    BY DEF GoesOn
  <2> QED
    BY <1>2, <2>1, Plans DEF WorkOK
<1>9. n.op = "session" /\ n.todo # <<>> => Head(n.todo) # "row"
  BY <1>8, NotRow DEF StepOf
<1>10. job \in [Jobs -> JobType]
  BY <1>1 DEF JobsOK
<1>11. \A d \in Jobs \ {c} : job'[d] = job[d]
  BY <1>4, <1>10
<1>12. n.todo # <<>> => job'[c] = n
  BY <1>4, <1>10
<1>13. ASSUME NEW t, t # None, Coming(t) PROVE Coming(t)'
  <2>1. n.op = "session" /\ n.todo = <<>> /\ n.cur = t => \E i \in DOMAIN evts' : evts'[i].cur = t
    BY <1>5, <1>13
  <2>2. ASSUME NEW d \in Jobs, job[d].op = "session", job[d].cur = t, Head(job[d].todo) # "row"
        PROVE  \/ job'[d].op = "session" /\ job'[d].cur = t /\ Head(job'[d].todo) # "row"
               \/ \E i \in DOMAIN evts' : evts'[i].cur = t
    <3>1. CASE d # c
      BY <2>2, <3>1, <1>11
    <3>2. CASE d = c
      <4>1. n.op = "session" /\ n.cur = t
        BY <2>2, <3>2
      <4> QED
        BY <4>1, <2>1, <1>9, <1>12, <3>2
    <3> QED
      BY <3>1, <3>2
  <2> QED
    BY <1>6, <1>13, <2>2, StillComing
<1>14. RowOK'
  <2> SUFFICES ASSUME ~drift', db'.row.q = "active", db'.row.cur # None
               PROVE  Coming(db.row.cur)'
    BY DEF RowOK
  <2>0. ~drift
    OBVIOUS
  <2>1. CASE db'.row = db.row
    <3>1. Coming(db.row.cur)
      BY <2>0, <2>1, <1>1 DEF RowOK
    <3>2. PICK t : t = db.row.cur
      OBVIOUS
    <3>3. Coming(t)'
      BY <3>1, <3>2, <1>13, <2>1
    <3> QED
      BY <3>2, <3>3, <2>1 DEF Coming
  <2>2. CASE db'.row.cur = n.cur /\ n.op = "session" /\ n.todo # <<>>
    <3>1. job'[c].op = "session" /\ job'[c].cur = db'.row.cur /\ Head(job'[c].todo) # "row"
      BY <2>2, <1>9, <1>12
    <3> QED
      BY <3>1 DEF Coming
  <2>3. CASE UNCHANGED <<eng, evts>> /\ (drift' \/ db'.row.cur = eng.track)
    <3>2. db'.row.cur = eng.track
      BY <2>3
    <3>3. Coming(eng.track)
      BY <2>0, <3>2, <1>1, TailComes
    <3>4. PICK t : t = eng.track
      OBVIOUS
    <3>5. Coming(t)'
      BY <3>2, <3>3, <3>4, <1>13
    <3> QED
      BY <3>2, <3>4, <3>5 DEF Coming
  <2> QED
    BY <2>1, <2>2, <2>3
<1> QED
  BY <1>4, <1>7, <1>14 DEF QueuesInv

(***************************************************************************)
(* Requests.                                                               *)
(***************************************************************************)

\* A request begins and leaves the engine alone.
LEMMA BeginKeeps ==
  ASSUME QueuesInv, NEW c \in Callers, NEW j \in JobType, Begin(c, j), WorkOK(j), j.op # "boot",
         (\A d \in Jobs : job[d] = Idle) => AloneKnows(j)',
         WorldOK', UNCHANGED <<place, proj, last, drift, eng, evts>>,
         db'.row = db.row \/ db'.row.q # "active"
  PROVE  QueuesInv'
<1>1. WorldOK /\ JobsOK /\ PlaceOK /\ TailOK /\ RowOK
  BY DEF QueuesInv
<1>2. /\ JobsOK' /\ AloneOK' /\ FinOK' /\ PlaceOK'
      /\ \A d \in Jobs : job[d].op = "session" =>
           /\ job'[d].op = "session" /\ job'[d].cur = job[d].cur /\ job'[d].todo = job[d].todo
  BY <1>1, RequestBegins
<1>3. TailOK'
  BY <1>1 DEF TailOK
<1>4. ASSUME NEW t, Coming(t) PROVE Coming(t)'
  BY <1>2, <1>4 DEF Coming
<1>5. RowOK'
  BY <1>1, <1>4 DEF RowOK
<1> QED
  BY <1>2, <1>3, <1>5 DEF QueuesInv

\* Nothing is alone any more, and the engine may have run a command.
LEMMA OverlapKeeps ==
  ASSUME QueuesInv, fin'.op = "none", job' = [x \in Jobs |-> [job[x] EXCEPT !.alone = FALSE]],
         WorldOK', UNCHANGED <<place, proj, last, drift>>,
         \/ UNCHANGED <<eng, evts>>
         \/ \E e : EngineOK(e) /\ Engine(e),
         db'.row = db.row \/ db'.row.q # "active"
  PROVE  QueuesInv'
<1>1. WorldOK /\ JobsOK /\ PlaceOK /\ TailOK /\ RowOK
  BY DEF QueuesInv
<1>2. /\ JobsOK' /\ AloneOK' /\ FinOK' /\ PlaceOK'
      /\ \A d \in Jobs : /\ job'[d].op = job[d].op /\ job'[d].cur = job[d].cur
                         /\ job'[d].todo = job[d].todo
  BY <1>1, NobodyAlone
<1>3. ASSUME NEW e, EngineOK(e), Engine(e)
      PROVE  /\ eng' = e /\ evts' # <<>> /\ evts'[Len(evts')].cur = e.track
             /\ \A i \in DOMAIN evts : i \in DOMAIN evts' /\ evts'[i] = evts[i]
  BY <1>1, <1>3, Reported
<1>4. TailOK'
  BY <1>1, <1>3 DEF TailOK
<1>5. ASSUME NEW t, Coming(t) PROVE Coming(t)'
  <2>1. \A i \in DOMAIN evts : i \in DOMAIN evts' /\ evts'[i] = evts[i]
    BY <1>3
  <2> QED
    BY <1>2, <1>5, <2>1, StillComing
<1>6. RowOK'
  <2> SUFFICES ASSUME ~drift', db'.row.q = "active", db'.row.cur # None
               PROVE  Coming(db.row.cur)'
    BY DEF RowOK
  <2>1. db'.row = db.row /\ Coming(db.row.cur)
    BY <1>1 DEF RowOK
  <2>2. PICK t : t = db.row.cur
    OBVIOUS
  <2>3. Coming(t)'
    BY <1>5, <2>1, <2>2
  <2> QED
    BY <2>1, <2>2, <2>3 DEF Coming
<1> QED
  BY <1>2, <1>4, <1>6 DEF QueuesInv

\* A request over in its first step claims nothing, and nothing is alone after it.
LEMMA BeginAndEndIs ==
  ASSUME NEW c, NEW q, BeginAndEnd(c, "none", q)
  PROVE  fin'.op = "none" /\ job' = [x \in Jobs |-> [job[x] EXCEPT !.alone = FALSE]]
BY DEF BeginAndEnd, NoFin

\* A new request with its plan, its queue and its place.
LEMMA NewJob ==
  ASSUME NEW op \in Ops, NEW todo \in ToDo(op), NEW j, j = New(op, todo)
  PROVE  /\ j \in JobType /\ j.op = op /\ j.todo = todo /\ j.q = "active" /\ j.list = Idle.list
         /\ j.idx = 0 /\ j.cur = None /\ ~j.alone
<1>1. todo \in ToDos /\ op \in Ops \union {"none"}
  BY DEF ToDos
<1>2. Idle \in JobType
  BY IdleFacts
<1>3. Idle.q = "active" /\ Idle.idx = 0 /\ Idle.cur = None /\ Idle.alone = FALSE
  BY DEF Idle
<1> QED
  BY <1>1, <1>2, <1>3 DEF New, JobType

\* A new request is one under way if it names its place.
LEMMA NewWork ==
  ASSUME NEW j \in JobType, j.op \in Ops, j.todo \in ToDo(j.op), j.q \in Owners, ~j.alone,
         j.op \in {"jump", "transfer", "commit", "restore", "boot"} => Names(j),
         j.op = "session" => IF Bare(j.todo) THEN j.list = <<>> /\ j.cur = None ELSE Names(j),
         j.op = "clear" => j.list = <<>>,
         j.op \notin {"reorder", "restore", "boot"} => j.q = "active"
  PROVE  WorkOK(j)
<1>1. j.list \in Queues /\ j.idx \in 0..MaxLen /\ j.cur \in MaybeTrack /\ j.alone \in BOOLEAN
  BY DEF JobType
<1> QED
  BY <1>1 DEF WorkOK

\* A write to the database keeps its type.
LEMMA BaseWrites ==
  ASSUME NEW d \in Base
  PROVE  /\ d.active \in Queues /\ d.saved \in Queues /\ d.row \in Row
         /\ \A l \in Queues : [d EXCEPT !.active = l] \in Base /\ [d EXCEPT !.saved = l] \in Base
         /\ \A r \in Row : [d EXCEPT !.row = r, !.rows = TRUE] \in Base
         /\ [d EXCEPT !.rows = TRUE] \in Base
BY DEF Base

\* A queue request changes one of the two queues.
LEMMA QueuesMove ==
  ASSUME WorldOK, UNCHANGED <<eng, evts, proj, last, lib, sel, drift, xfer>>, db' \in Base
  PROVE  WorldOK'
BY DEF WorldOK

\* queue_items_handler appends within the bound.
LEMMA AddKeeps ==
  ASSUME QueuesInv, NEW c \in Callers, NEW l \in Lists, queue_items_handler(c, l)
  PROVE  QueuesInv'
<1>0. PICK o, p : o = "add" /\ p = <<"snap", "read", "set">>
  OBVIOUS
<1> DEFINE k == New(o, p)
<1>1. PICK j : j = k
  OBVIOUS
<1>2. o \in Ops /\ p \in ToDo(o)
  BY <1>0 DEF Ops, ToDo
<1>3. /\ j \in JobType /\ j.op = o /\ j.todo = p /\ j.q = "active"
      /\ ~j.alone
  BY <1>1, <1>2, NewJob
<1>4. WorkOK(j)
  BY <1>0, <1>2, <1>3, NewWork DEF Owners
<1>5. Begin(c, j) /\ UNCHANGED <<eng, evts, proj, last, lib, sel, xfer, drift, place>>
  BY <1>0, <1>1 DEF queue_items_handler, NoEngineChange, world
<1>6. db' = [db EXCEPT !.active = @ \o l] /\ Len(db.active) + Len(l) <= MaxLen
  BY DEF queue_items_handler
<1>7. AloneKnows(j)'
  <2>1. Head(j.todo) = "snap"
    BY <1>0, <1>3
  <2> QED
    BY <2>1, <1>0, <1>3 DEF AloneKnows, Holding
<1>8. db \in Base /\ WorldOK
  BY DEF QueuesInv, WorldOK
<1>9. db' \in Base /\ db'.row = db.row
  <2>1. db.active \in Seq(Tracks) /\ l \in Seq(Tracks)
    BY <1>8, BaseWrites, QueueIsSeq, TracksOfLists
  <2>2. db.active \o l \in Seq(Tracks) /\ Len(db.active \o l) = Len(db.active) + Len(l)
    BY <2>1
  <2>3. db.active \o l \in Queues
    BY <1>6, <2>2, SeqIsQueue
  <2> QED
    BY <1>6, <1>8, <2>3 DEF Base
<1>10. WorldOK'
  BY <1>5, <1>8, <1>9, QueuesMove
<1> QED
  BY <1>0, <1>3, <1>4, <1>5, <1>7, <1>9, <1>10, BeginKeeps

\* queue_reorder_handler writes a permutation of the items.
LEMMA ReorderKeeps ==
  ASSUME QueuesInv, NEW c \in Callers, NEW q \in {"active", "saved"}, queue_reorder_handler(c, q)
  PROVE  QueuesInv'
<1>0. PICK o, p : o = "reorder" /\ p = <<"snap", "read", "set">>
  OBVIOUS
<1> DEFINE k == New(o, p)
<1> DEFINE w == [k EXCEPT !.q = q]
<1>1. PICK j : j = w
  OBVIOUS
<1>2. o \in Ops /\ p \in ToDo(o)
  BY <1>0 DEF Ops, ToDo
<1>3. /\ j \in JobType /\ j.op = o /\ j.todo = p /\ j.q = q
      /\ ~j.alone
  <2>1. /\ k \in JobType /\ k.op = o /\ k.todo = p
        /\ ~k.alone
    BY <1>2, NewJob
  <2> HIDE DEF k
  <2> QED
    BY <1>1, <2>1 DEF JobType, Owners
<1>4. WorkOK(j)
  BY <1>0, <1>2, <1>3, NewWork DEF Owners
<1>5. Begin(c, j) /\ UNCHANGED <<eng, evts, proj, last, lib, sel, xfer, drift, place>>
  BY <1>0, <1>1 DEF queue_reorder_handler, NoEngineChange, world
<1>6. AloneKnows(j)'
  <2>1. Head(j.todo) = "snap"
    BY <1>0, <1>3
  <2> QED
    BY <2>1, <1>0, <1>3 DEF AloneKnows, Holding
<1>7. db \in Base /\ WorldOK
  BY DEF QueuesInv, WorldOK
<1>8. db' \in Base /\ db'.row = db.row
  <2> DEFINE g == get_queue_items(q)
  <2>1. PICK f \in Bijection(DOMAIN g, DOMAIN g) :
          LET l == [i \in DOMAIN g |-> g[f[i]]] IN
          db' = IF q = "active" THEN [db EXCEPT !.active = l] ELSE [db EXCEPT !.saved = l]
    BY DEF queue_reorder_handler
  <2>2. g \in Queues
    BY <1>7, BaseWrites DEF get_queue_items
  <2>3. f \in [DOMAIN g -> DOMAIN g]
    BY <2>1 DEF Bijection, Injection
  <2>4. PICK m : m = [i \in DOMAIN g |-> g[f[i]]]
    OBVIOUS
  <2>5. m \in Queues
    <3> HIDE DEF g
    <3>1. DOMAIN g = 1..Len(g) /\ Len(g) \in 0..MaxLen /\ \A i \in 1..Len(g) : g[i] \in Tracks
      BY <2>2, QueueIsSeq
    <3>2. m \in [1..Len(g) -> Tracks]
      BY <2>3, <2>4, <3>1
    <3> QED
      BY <3>1, <3>2 DEF Queues
  <2>6. db' = IF q = "active" THEN [db EXCEPT !.active = m] ELSE [db EXCEPT !.saved = m]
    BY <2>1, <2>4
  <2> QED
    BY <1>7, <2>5, <2>6 DEF Base
<1>9. WorldOK'
  BY <1>5, <1>7, <1>8, QueuesMove
<1> QED
  BY <1>0, <1>3, <1>4, <1>5, <1>6, <1>8, <1>9, BeginKeeps

(***************************************************************************)
(* Commands of the engine.                                                 *)
(***************************************************************************)

\* What load, play, a change of lifecycle and a jump do to the engine.
LEMMA CommandsOK ==
  ASSUME NEW e, EngineOK(e)
  PROVE  /\ \A t \in MaybeTrack : /\ EngineOK(EngineLoad(e, t)) /\ EngineOK(EnginePlay(e, t))
                                  /\ EngineLoad(e, t).track = t /\ EnginePlay(e, t).track = t
                                  /\ EngineLoad(e, t).queue = e.queue /\ EnginePlay(e, t).queue = e.queue
                                  /\ EngineLoad(e, t).idx = e.idx /\ EnginePlay(e, t).idx = e.idx
         /\ \A s \in {"idle", "paused", "playing"} : EngineOK([e EXCEPT !.life = s])
         /\ \A i \in Nat : i < Len(e.queue) =>
              /\ EngineOK(EngineJump(e, i)) /\ EngineJump(e, i).queue = e.queue
              /\ EngineJump(e, i).idx = i /\ EngineJump(e, i).track = e.queue[i + 1]
<1>1. e \in EngineType
  BY DEF EngineOK
<1>2. ASSUME NEW t \in MaybeTrack
      PROVE  /\ EngineOK(EngineLoad(e, t)) /\ EngineOK(EnginePlay(e, t))
             /\ EngineLoad(e, t).track = t /\ EnginePlay(e, t).track = t
             /\ EngineLoad(e, t).queue = e.queue /\ EnginePlay(e, t).queue = e.queue
             /\ EngineLoad(e, t).idx = e.idx /\ EnginePlay(e, t).idx = e.idx
  BY <1>1 DEF EngineOK, EngineLoad, EnginePlay, EngineType
<1>3. ASSUME NEW s \in {"idle", "paused", "playing"} PROVE EngineOK([e EXCEPT !.life = s])
  BY <1>1 DEF EngineOK, EngineType
<1>4. ASSUME NEW i \in Nat, i < Len(e.queue)
      PROVE  /\ EngineOK(EngineJump(e, i)) /\ EngineJump(e, i).queue = e.queue
             /\ EngineJump(e, i).idx = i /\ EngineJump(e, i).track = e.queue[i + 1]
  <2>1. e.queue \in Queues
    BY <1>1 DEF EngineType
  <2>2. Len(e.queue) \in 0..MaxLen /\ \A k \in 1..Len(e.queue) : e.queue[k] \in Tracks
    BY <2>1, QueueIsSeq
  <2>3. i \in 0..MaxLen /\ e.queue[i + 1] \in MaybeTrack
    BY <1>4, <2>2, Bounds DEF MaybeTrack
  <2> QED
    BY <1>1, <1>4, <2>3 DEF EngineOK, EngineJump, EngineType
<1> QED
  BY <1>2, <1>3, <1>4

\* SetQueue puts the index on the track that is asked for, if the queue has it, and adopts the
\* track there if there is none.
LEMMA SetQueueOK ==
  ASSUME NEW e, EngineOK(e), NEW l \in Queues, NEW i \in 0..MaxLen, NEW t \in MaybeTrack,
         NEW f, f = EngineSetQueue(e, l, i, t)
  PROVE  /\ EngineOK(f) /\ f.queue = l
         /\ t \in ToSet(l) => l[f.idx + 1] = t
         /\ f.track = e.track \/ (e.track = None /\ l # <<>> /\ f.track = l[f.idx + 1])
<1> DEFINE want == IF t \in ToSet(l) THEN PlaceOf(l, t) ELSE i
           at == IF l = <<>> THEN 0 ELSE Min({want, Len(l) - 1})
<1>1. e \in EngineType
  BY DEF EngineOK
<1>2. /\ Len(l) \in 0..MaxLen
      /\ l = <<>> <=> Len(l) = 0
      /\ \A k \in 1..Len(l) : l[k] \in Tracks
  BY QueueIsSeq
<1>3. t \in ToSet(l) => want \in 0..MaxLen /\ want < Len(l) /\ l[want + 1] = t /\ l # <<>>
  BY PlaceFound
<1>4. want \in Nat
  BY <1>3, Bounds
<1>5. /\ at \in 0..MaxLen /\ (at = 0 \/ at < Len(l))
      /\ l # <<>> => at + 1 \in 1..Len(l)
      /\ l # <<>> /\ want < Len(l) => at = want
  <2>1. CASE l = <<>>
    BY <2>1, Bounds
  <2>2. CASE l # <<>>
    <3>1. Len(l) \in Nat /\ Len(l) > 0 /\ Len(l) - 1 \in Nat
      BY <1>2, <2>2, Bounds
    <3> HIDE DEF want
    <3>2. at = IF want <= Len(l) - 1 THEN want ELSE Len(l) - 1
      BY <1>4, <2>2, <3>1, MinOfTwo
    <3> HIDE DEF at
    <3>3. at \in Nat /\ at < Len(l) /\ (want < Len(l) => at = want)
      BY <1>4, <3>1, <3>2
    <3>4. Len(l) <= MaxLen
      BY <1>2, Bounds
    <3>5. at \in 0..MaxLen /\ at + 1 \in 1..Len(l)
      BY <3>1, <3>3, <3>4, Bounds
    <3> QED
      BY <3>3, <3>5
  <2> QED
    BY <2>1, <2>2
<1>6. t \in ToSet(l) => l[at + 1] = t
  <2> HIDE DEF want, at
  <2> QED
    BY <1>3, <1>5
<1>7. l # <<>> => l[at + 1] \in MaybeTrack
  <2> HIDE DEF want, at
  <2> QED
    BY <1>2, <1>5 DEF MaybeTrack
<1> DEFINE now == IF e.track = None /\ e.life # "playing" /\ l # <<>> THEN l[at + 1] ELSE e.track
<1>8. f = [e EXCEPT !.queue = l, !.idx = at, !.track = now]
  BY <1>1 DEF EngineSetQueue, EngineType
<1>9. now \in MaybeTrack
  BY <1>1, <1>7 DEF EngineType
<1>10. now = e.track \/ (e.track = None /\ l # <<>> /\ now = l[at + 1])
  OBVIOUS
<1> HIDE DEF want, at, now
<1>11. f \in EngineType /\ f.queue = l /\ f.idx = at /\ f.track = now
  BY <1>1, <1>5, <1>8, <1>9 DEF EngineType
<1> QED
  BY <1>5, <1>6, <1>10, <1>11 DEF EngineOK

(***************************************************************************)
(* Requests about queues.                                                  *)
(***************************************************************************)

\* What is read of a queue is one.
LEMMA ItemsOK ==
  ASSUME WorldOK, NEW q
  PROVE  get_queue_items(q) \in Queues
BY BaseWrites, EmptyIsQueue DEF WorldOK, get_queue_items

\* queue_jump_handler names the track at its index.
LEMMA JumpKeeps ==
  ASSUME QueuesInv, NEW c \in Callers, NEW q \in {"active", "saved"}, NEW i \in 0..(MaxLen - 1),
         queue_jump_handler(c, q, i)
  PROVE  QueuesInv'
<1>0. PICK o, p : /\ o = "jump"
                  /\ p = IF q = "active" THEN <<"set", "jump">> ELSE <<"promote", "set", "jump">>
  OBVIOUS
<1>1. PICK l, t : l = get_queue_items(q) /\ t = l[i + 1]
  OBVIOUS
<1> DEFINE k == New(o, p)
           w == [k EXCEPT !.list = l, !.idx = i, !.cur = t]
<1>2. PICK j : j = w
  OBVIOUS
<1>3. WorldOK /\ l \in Queues
  BY <1>1, ItemsOK DEF QueuesInv
<1>4. i < Len(l) /\ UNCHANGED <<db, eng, evts, proj, last, lib, sel, xfer, drift, place>> /\ Begin(c, j)
  BY <1>0, <1>1, <1>2 DEF queue_jump_handler, NoEngineChange, world
<1>5. i \in 0..MaxLen /\ l # <<>> /\ t \in MaybeTrack
  <2>1. /\ Len(l) \in 0..MaxLen /\ \A n \in 1..Len(l) : l[n] \in Tracks
        /\ l = <<>> <=> Len(l) = 0
    BY <1>3, QueueIsSeq
  <2>2. i + 1 \in 1..Len(l) /\ i \in 0..MaxLen
    BY <1>4, <2>1, Bounds
  <2> QED
    BY <1>1, <2>1, <2>2 DEF MaybeTrack
<1>6. o \in Ops /\ p \in ToDo(o)
  BY <1>0 DEF Ops, ToDo
<1>7. /\ j \in JobType /\ j.op = o /\ j.todo = p /\ j.q = "active" /\ ~j.alone
      /\ j.list = l /\ j.idx = i /\ j.cur = t
  <2>1. k \in JobType /\ k.op = o /\ k.todo = p /\ k.q = "active" /\ ~k.alone
    BY <1>6, NewJob
  <2> HIDE DEF k
  <2> QED
    BY <1>2, <1>3, <1>5, <2>1 DEF JobType
<1>8. Names(j)
  BY <1>1, <1>4, <1>5, <1>7 DEF Names
<1>9. WorkOK(j)
  BY <1>0, <1>6, <1>7, <1>8, NewWork DEF Owners
<1>10. AloneKnows(j)'
  <2>1. CASE q = "active"
    <3>1. p = <<"set", "jump">>
      BY <1>0, <2>1
    <3>2. Head(p) = "set"
      BY <3>1
    <3>3. j.list = db'.active
      BY <1>1, <1>4, <1>7, <2>1 DEF get_queue_items
    <3> QED
      BY <1>0, <1>7, <3>2, <3>3 DEF AloneKnows, Holding
  <2>2. CASE q # "active"
    <3>1. p = <<"promote", "set", "jump">>
      BY <1>0, <2>2
    <3>2. Head(p) = "promote"
      BY <3>1
    <3> QED
      BY <1>0, <1>7, <3>2 DEF AloneKnows, Holding
  <2> QED
    BY <2>1, <2>2
<1>11. WorldOK'
  BY <1>3, <1>4, QueuesMove DEF WorldOK
<1> QED
  BY <1>0, <1>4, <1>7, <1>9, <1>10, <1>11, BeginKeeps

\* queue_transfer_handler writes the queue it was given.
LEMMA TransferKeeps ==
  ASSUME QueuesInv, NEW c \in Callers, NEW l \in Lists, NEW i \in 0..(MaxLen - 1),
         queue_transfer_handler(c, l, i)
  PROVE  QueuesInv'
<1>0. PICK o, p, t : o = "transfer" /\ p = <<"save", "set">> /\ t = l[i + 1]
  OBVIOUS
<1> DEFINE k == New(o, p)
           w == [k EXCEPT !.list = l, !.idx = i, !.cur = t]
<1>2. PICK j : j = w
  OBVIOUS
<1>3. WorldOK /\ db \in Base /\ l \in Queues
  BY TracksOfLists DEF QueuesInv, WorldOK
<1>4. /\ i < Len(l) /\ UNCHANGED <<eng, evts, proj, last, lib, sel, xfer, drift, place>> /\ Begin(c, j)
      /\ db' = [db EXCEPT !.active = l]
  BY <1>0, <1>2 DEF queue_transfer_handler, NoEngineChange, world
<1>5. i \in 0..MaxLen /\ l # <<>> /\ t \in MaybeTrack
  <2>1. /\ Len(l) \in 0..MaxLen /\ \A n \in 1..Len(l) : l[n] \in Tracks
        /\ l = <<>> <=> Len(l) = 0
    BY <1>3, QueueIsSeq
  <2>2. i + 1 \in 1..Len(l) /\ i \in 0..MaxLen
    BY <1>4, <2>1, Bounds
  <2> QED
    BY <1>0, <2>1, <2>2 DEF MaybeTrack
<1>6. o \in Ops /\ p \in ToDo(o)
  BY <1>0 DEF Ops, ToDo
<1>7. /\ j \in JobType /\ j.op = o /\ j.todo = p /\ j.q = "active" /\ ~j.alone
      /\ j.list = l /\ j.idx = i /\ j.cur = t
  <2>1. k \in JobType /\ k.op = o /\ k.todo = p /\ k.q = "active" /\ ~k.alone
    BY <1>6, NewJob
  <2> HIDE DEF k
  <2> QED
    BY <1>2, <1>3, <1>5, <2>1 DEF JobType
<1>8. Names(j)
  BY <1>0, <1>4, <1>5, <1>7 DEF Names
<1>9. WorkOK(j)
  BY <1>0, <1>6, <1>7, <1>8, NewWork DEF Owners
<1>10. db' \in Base /\ db'.row = db.row /\ db'.active = l
  BY <1>3, <1>4 DEF Base
<1>11. AloneKnows(j)'
  <2>1. Head(p) = "save"
    BY <1>0
  <2> QED
    BY <1>0, <1>7, <1>10, <2>1 DEF AloneKnows, Holding
<1>12. WorldOK'
  BY <1>3, <1>4, <1>10, QueuesMove
<1> QED
  BY <1>0, <1>4, <1>7, <1>9, <1>10, <1>11, <1>12, BeginKeeps

\* A queue is emptied, and may be gone.
LEMMA EmptyingKeeps ==
  ASSUME QueuesInv, NEW c \in Callers, NEW q \in {"active", "saved"}, NEW d \in Base,
         d.row = db.row \/ d.row.q = "gone",
         db' = IF q = "active" THEN [d EXCEPT !.active = <<>>] ELSE [d EXCEPT !.saved = <<>>],
         IF q = "active" THEN Begin(c, New("clear", <<"set">>)) ELSE BeginAndEnd(c, "none", q),
         UNCHANGED <<eng, evts, proj, last, lib, sel, xfer, drift, place>>
  PROVE  QueuesInv'
<1>1. PICK e \in Queues : e = <<>>
  BY EmptyIsQueue
<1>2. db' = IF q = "active" THEN [d EXCEPT !.active = e] ELSE [d EXCEPT !.saved = e]
  BY <1>1
<1>3. db' \in Base /\ db'.row = d.row /\ (q = "active" => db'.active = e)
  BY <1>2 DEF Base
<1>4. WorldOK'
  BY <1>3, QueuesMove DEF QueuesInv
<1>5. CASE q = "active"
  <2>0. PICK o, p : o = "clear" /\ p = <<"set">>
    OBVIOUS
  <2>1. PICK j : j = New(o, p)
    OBVIOUS
  <2>2. Begin(c, j)
    BY <1>5, <2>0, <2>1
  <2>3. o \in Ops /\ p \in ToDo(o)
    BY <2>0 DEF Ops, ToDo
  <2>4. /\ j \in JobType /\ j.op = o /\ j.todo = p /\ j.q = "active" /\ ~j.alone
        /\ j.list = Idle.list
    BY <2>1, <2>3, NewJob
  <2>5. j.list = e
    BY <1>1, <2>4 DEF Idle
  <2>6. WorkOK(j)
    <3>1. j.list = <<>>
      BY <1>1, <2>5
    <3> QED
      BY <2>0, <2>3, <2>4, <3>1, NewWork DEF Owners
  <2>7. AloneKnows(j)'
    <3>1. Head(p) = "set"
      BY <2>0
    <3> QED
      BY <1>3, <1>5, <2>0, <2>4, <2>5, <3>1 DEF AloneKnows, Holding
  <2> QED
    BY <1>3, <1>4, <2>0, <2>2, <2>4, <2>6, <2>7, BeginKeeps
<1>6. CASE q # "active"
  <2>1. fin'.op = "none" /\ job' = [x \in Jobs |-> [job[x] EXCEPT !.alone = FALSE]]
    BY <1>6, BeginAndEndIs
  <2> QED
    BY <1>3, <1>4, <2>1, OverlapKeeps
<1> QED
  BY <1>5, <1>6

\* clear_queue_handler empties a queue.
LEMMA ClearKeeps ==
  ASSUME QueuesInv, NEW c \in Callers, NEW q \in {"active", "saved"}, clear_queue_handler(c, q)
  PROVE  QueuesInv'
<1>1. db \in Base
  BY DEF QueuesInv, WorldOK
<1>2. PICK d : d = db
  OBVIOUS
<1>3. /\ db' = IF q = "active" THEN [d EXCEPT !.active = <<>>] ELSE [d EXCEPT !.saved = <<>>]
      /\ IF q = "active" THEN Begin(c, New("clear", <<"set">>)) ELSE BeginAndEnd(c, "none", q)
      /\ UNCHANGED <<eng, evts, proj, last, lib, sel, xfer, drift, place>>
  BY <1>2 DEF clear_queue_handler, NoEngineChange, world
<1> QED
  BY <1>1, <1>2, <1>3, EmptyingKeeps

\* queue_delete_handler empties a queue and orphans the row that names it.
LEMMA DeleteKeeps ==
  ASSUME QueuesInv, NEW c \in Callers, NEW q \in {"active", "saved"}, queue_delete_handler(c, q)
  PROVE  QueuesInv'
<1>1. db \in Base
  BY DEF QueuesInv, WorldOK
<1>2. PICK d : d = [db EXCEPT !.row.q = IF @ = q THEN "gone" ELSE @]
  OBVIOUS
<1>3. /\ db' = IF q = "active" THEN [d EXCEPT !.active = <<>>] ELSE [d EXCEPT !.saved = <<>>]
      /\ IF q = "active" THEN Begin(c, New("clear", <<"set">>)) ELSE BeginAndEnd(c, "none", q)
      /\ UNCHANGED <<eng, evts, proj, last, lib, sel, xfer, drift, place>>
  BY <1>2 DEF queue_delete_handler, NoEngineChange, world
<1>4. d \in Base /\ (d.row = db.row \/ d.row.q = "gone")
  <2>1. db.row \in Row
    BY <1>1 DEF Base
  <2> DEFINE g == [db.row EXCEPT !.q = IF @ = q THEN "gone" ELSE @]
  <2>2. d = [db EXCEPT !.row = g]
    BY <1>1, <1>2 DEF Base
  <2>3. g \in Row /\ (g = db.row \/ g.q = "gone")
    BY <2>1 DEF Row
  <2> HIDE DEF g
  <2> QED
    BY <1>1, <2>2, <2>3 DEF Base
<1> QED
  BY <1>3, <1>4, EmptyingKeeps

\* Saving writes the row of another queue.
LEMMA SavedBase ==
  ASSUME NEW d \in Base, NEW l \in Queues, NEW i \in 0..MaxLen
  PROVE  /\ save_queue_state(d, l, i) \in Base
         /\ save_queue_state(d, l, i).row.q = "saved"
         /\ save_queue_state(d, l, i).active = d.active
<1> DEFINE t == IF l = <<>> THEN None ELSE Head(l)
           r == [q |-> "saved", idx |-> i, cur |-> t]
<1>1. t \in MaybeTrack
  <2>1. /\ l \in Seq(Tracks) /\ Len(l) \in 0..MaxLen /\ \A n \in 1..Len(l) : l[n] \in Tracks
        /\ l = <<>> <=> Len(l) = 0
    BY QueueIsSeq
  <2>2. l # <<>> => Head(l) \in Tracks
    BY <2>1
  <2> QED
    BY <2>2 DEF MaybeTrack
<1> HIDE DEF t
<1>2. r \in Row /\ r.q = "saved"
  BY <1>1 DEF Row
<1>3. save_queue_state(d, l, i) = [[d EXCEPT !.row = r, !.rows = TRUE] EXCEPT !.saved = l]
  BY DEF save_queue_state, create_playback_session, t
<1> HIDE DEF r
<1> QED
  BY <1>2, <1>3 DEF Base

\* queue_save_handler leaves a row that does not name the active queue.
LEMMA SaveKeeps ==
  ASSUME QueuesInv, NEW c \in Callers, NEW l \in Lists, NEW i \in 0..(MaxLen - 1),
         queue_save_handler(c, l, i)
  PROVE  QueuesInv'
<1>1. WorldOK /\ db \in Base /\ l \in Queues /\ i \in 0..MaxLen
  BY TracksOfLists, Bounds DEF QueuesInv, WorldOK
<1>2. /\ db' = save_queue_state(db, l, i) /\ BeginAndEnd(c, "none", "saved")
      /\ UNCHANGED <<eng, evts, proj, last, lib, sel, xfer, drift, place>>
  BY DEF queue_save_handler, NoEngineChange, world
<1>3. db' \in Base /\ db'.row.q # "active"
  BY <1>1, <1>2, SavedBase
<1>4. WorldOK'
  BY <1>1, <1>2, <1>3, QueuesMove
<1>5. fin'.op = "none" /\ job' = [x \in Jobs |-> [job[x] EXCEPT !.alone = FALSE]]
  BY <1>2, BeginAndEndIs
<1> QED
  BY <1>2, <1>3, <1>4, <1>5, OverlapKeeps

(***************************************************************************)
(* Requests about playback.                                                *)
(***************************************************************************)

\* playback_session_handler names the place of its track.
LEMMA SessionKeeps ==
  ASSUME QueuesInv, NEW c \in Callers, NEW l \in Lists \union {<<>>}, NEW t \in Tracks \union {None},
         NEW playing \in BOOLEAN, playback_session_handler(c, l, t, playing)
  PROVE  QueuesInv'
<1>0. PICK o, p, i : /\ o = "session"
                     /\ p = IF l = <<>> THEN <<"row", "set">>
                            ELSE <<"row", "set", IF playing THEN "play" ELSE "load">>
                     /\ i = IF l = <<>> THEN 0 ELSE PlaceOf(l, t)
  OBVIOUS
<1> DEFINE k == New(o, p)
           w == [k EXCEPT !.list = l, !.cur = t, !.idx = i]
<1>2. PICK j : j = w
  OBVIOUS
<1>3. WorldOK /\ db \in Base /\ l \in Queues
  BY TracksOfLists, EmptyIsQueue DEF QueuesInv, WorldOK
<1>4. /\ UNCHANGED <<eng, evts, proj, last, lib, sel, xfer, drift, place>> /\ Begin(c, j)
      /\ db' = [db EXCEPT !.active = l]
      /\ IF l = <<>> THEN t = None ELSE t \in ToSet(l)
  BY <1>0, <1>2 DEF playback_session_handler, NoEngineChange, world
<1>5. i \in 0..MaxLen /\ (l # <<>> => i < Len(l) /\ l[i + 1] = t)
  BY <1>0, <1>3, <1>4, PlaceFound, Bounds
<1>6. o \in Ops /\ p \in ToDo(o) /\ Head(p) = "row" /\ (Bare(p) <=> l = <<>>)
  <2>1. CASE l = <<>>
    <3>1. p = <<"row", "set">>
      BY <1>0, <2>1
    <3> QED
      BY <1>0, <2>1, <3>1 DEF Ops, ToDo, Bare
  <2>2. CASE l # <<>> /\ playing
    <3>1. p = <<"row", "set", "play">>
      BY <1>0, <2>2
    <3> QED
      BY <1>0, <2>2, <3>1 DEF Ops, ToDo, Bare
  <2>3. CASE l # <<>> /\ ~playing
    <3>1. p = <<"row", "set", "load">>
      BY <1>0, <2>3
    <3> QED
      BY <1>0, <2>3, <3>1 DEF Ops, ToDo, Bare
  <2> QED
    BY <2>1, <2>2, <2>3
<1>7. /\ j \in JobType /\ j.op = o /\ j.todo = p /\ j.q = "active" /\ ~j.alone
      /\ j.list = l /\ j.idx = i /\ j.cur = t
  <2>1. k \in JobType /\ k.op = o /\ k.todo = p /\ k.q = "active" /\ ~k.alone
    BY <1>6, NewJob
  <2>2. t \in MaybeTrack
    BY DEF MaybeTrack
  <2> HIDE DEF k
  <2> QED
    BY <1>2, <1>3, <1>5, <2>1, <2>2 DEF JobType
<1>8. IF Bare(j.todo) THEN j.list = <<>> /\ j.cur = None ELSE Names(j)
  BY <1>4, <1>5, <1>6, <1>7 DEF Names
<1>9. WorkOK(j)
  BY <1>0, <1>6, <1>7, <1>8, NewWork DEF Owners
<1>10. db' \in Base /\ db'.row = db.row /\ db'.active = l
  BY <1>3, <1>4 DEF Base
<1>11. AloneKnows(j)'
  BY <1>0, <1>6, <1>7, <1>10 DEF AloneKnows, Holding
<1>12. WorldOK'
  BY <1>3, <1>4, <1>10, QueuesMove
<1> QED
  BY <1>0, <1>4, <1>7, <1>9, <1>10, <1>11, <1>12, BeginKeeps

\* The place a restore finds is one where the track it is for stands.
LEMMA RestoreFinds ==
  ASSUME NEW l \in Queues, NEW t \in MaybeTrack, NEW i \in 0..MaxLen, NEW at,
         at = resolve_restore_index(l, t, i), at # None
  PROVE  /\ l # <<>> /\ at \in 0..MaxLen /\ at < Len(l) /\ l[at + 1] \in Tracks
         /\ t # None => l[at + 1] = t
<1>1. l # <<>>
  BY DEF resolve_restore_index
<1>2. /\ Len(l) \in 0..MaxLen
      /\ \A n \in 1..Len(l) : l[n] \in Tracks
  BY QueueIsSeq
<1>3. CASE t # None
  <2>1. t \in ToSet(l) /\ at = PlaceOf(l, t)
    BY <1>1, <1>3 DEF resolve_restore_index
  <2>2. at \in 0..MaxLen /\ at < Len(l) /\ l[at + 1] = t
    BY <2>1, PlaceFound
  <2> QED
    BY <1>1, <1>3, <2>2 DEF MaybeTrack
<1>4. CASE t = None
  <2>1. at = i /\ i < Len(l)
    BY <1>1, <1>4 DEF resolve_restore_index
  <2>2. at + 1 \in 1..Len(l) /\ at \in 0..MaxLen
    BY <1>2, <2>1, Bounds
  <2> QED
    BY <1>1, <1>2, <1>4, <2>1, <2>2
<1> QED
  BY <1>3, <1>4

\* What a restore finds to play is a queue.
LEMMA RestoreTracksOK ==
  ASSUME WorldOK
  PROVE  RestoreTracks(TRUE) \in Queues
<1>1. get_queue_items(db.row.q) \in Queues /\ db.active \in Queues /\ <<>> \in Queues
  BY ItemsOK, EmptyIsQueue, BaseWrites DEF WorldOK
<1>2. ASSUME db.row.cur \in lib PROVE <<db.row.cur>> \in Queues
  <2>1. PICK t \in Tracks : t = db.row.cur
    BY <1>2 DEF WorldOK
  <2> DEFINE e == <<t>>
  <2>2. e \in Seq(Tracks) /\ Len(e) = 1
    OBVIOUS
  <2>3. Len(e) <= MaxLen
    BY <2>2, Bounds
  <2> HIDE DEF e
  <2>4. e \in Queues
    BY <2>2, <2>3, SeqIsQueue
  <2> QED
    BY <2>1, <2>4 DEF e
<1> QED
  BY <1>1, <1>2 DEF RestoreTracks

\* restore_playback_state_handler begins at the place it found.
LEMMA RestoreKeeps ==
  ASSUME QueuesInv, NEW c \in Callers, restore_playback_state_handler(c)
  PROVE  QueuesInv'
<1>0. PICK o, p, l, i : /\ o = "restore" /\ p = <<"set", "load", "mark">> /\ l = RestoreTracks(TRUE)
                        /\ i = resolve_restore_index(l, db.row.cur, db.row.idx)
  OBVIOUS
<1>1. PICK t, q : t = l[i + 1] /\ q = db.row.q
  OBVIOUS
<1> DEFINE k == New(o, p)
           w == [k EXCEPT !.q = q, !.list = l, !.idx = i, !.cur = t]
<1>2. PICK j : j = w
  OBVIOUS
<1>3. WorldOK /\ db.row \in Row /\ l \in Queues
  BY <1>0, RestoreTracksOK, BaseWrites DEF QueuesInv, WorldOK
<1>4. /\ UNCHANGED <<db, eng, evts, proj, last, lib, sel, xfer, drift, place>> /\ Begin(c, j)
      /\ i # None
  BY <1>0, <1>1, <1>2 DEF restore_playback_state_handler, RestoreRead, NoEngineChange, world
<1>5. i \in 0..MaxLen /\ l # <<>> /\ i < Len(l) /\ t \in MaybeTrack
  <2>1. db.row.cur \in MaybeTrack /\ db.row.idx \in 0..MaxLen
    BY <1>3 DEF Row
  <2>2. PICK x, y : x = db.row.cur /\ y = db.row.idx
    OBVIOUS
  <2>3. x \in MaybeTrack /\ y \in 0..MaxLen /\ i = resolve_restore_index(l, x, y)
    BY <1>0, <2>1, <2>2
  <2>4. l # <<>> /\ i \in 0..MaxLen /\ i < Len(l) /\ l[i + 1] \in Tracks
    BY <1>3, <1>4, <2>3, RestoreFinds
  <2> QED
    BY <1>1, <2>4 DEF MaybeTrack
<1>6. o \in Ops /\ p \in ToDo(o) /\ Head(p) = "set"
  BY <1>0 DEF Ops, ToDo
<1>7. /\ j \in JobType /\ j.op = o /\ j.todo = p /\ j.q = q /\ ~j.alone
      /\ j.list = l /\ j.idx = i /\ j.cur = t
  <2>1. k \in JobType /\ k.op = o /\ k.todo = p /\ ~k.alone
    BY <1>6, NewJob
  <2>2. q \in Owners
    BY <1>1, <1>3 DEF Row, Owners
  <2> HIDE DEF k
  <2> QED
    BY <1>2, <1>3, <1>5, <2>1, <2>2 DEF JobType
<1>8. Names(j) /\ j.q \in Owners
  BY <1>1, <1>3, <1>5, <1>7 DEF Names, Row, Owners
<1>9. WorkOK(j)
  BY <1>0, <1>6, <1>7, <1>8, NewWork
<1>10. AloneKnows(j)'
  BY <1>0, <1>6, <1>7 DEF AloneKnows, Holding
<1>11. WorldOK'
  BY <1>3, <1>4, QueuesMove DEF WorldOK
<1> QED
  BY <1>0, <1>4, <1>7, <1>9, <1>10, <1>11, BeginKeeps

\* A command that the engine runs keeps the types.
LEMMA EngineMoves ==
  ASSUME WorldOK, UNCHANGED <<db, proj, last, lib, sel, drift, xfer>>, NEW e, EngineOK(e), Engine(e)
  PROVE  WorldOK'
<1>1. EngineOK(eng') /\ evts' \in Seq(Event)
  BY Reported
<1>2. EngineOK(eng)'
  BY <1>1 DEF EngineOK
<1> QED
  BY <1>1, <1>2 DEF WorldOK

\* handoff_handler starts one track and claims nothing.
LEMMA HandoffKeeps ==
  ASSUME QueuesInv, NEW c \in Callers, NEW t \in Tracks, NEW playing \in BOOLEAN,
         handoff_handler(c, t, playing)
  PROVE  QueuesInv'
<1>1. WorldOK /\ EngineOK(eng)
  BY DEF QueuesInv, WorldOK
<1>2. PICK e : e = IF playing THEN EnginePlay(eng, t) ELSE EngineLoad(eng, t)
  OBVIOUS
<1>3. /\ Engine(e) /\ BeginAndEnd(c, "none", "active")
      /\ UNCHANGED <<db, proj, last, lib, sel, xfer, drift, place>>
  BY <1>2 DEF handoff_handler, world
<1>4. EngineOK(e)
  BY <1>1, <1>2, CommandsOK DEF MaybeTrack
<1>5. WorldOK'
  BY <1>1, <1>3, <1>4, EngineMoves
<1>6. fin'.op = "none" /\ job' = [x \in Jobs |-> [job[x] EXCEPT !.alone = FALSE]]
  BY <1>3, BeginAndEndIs
<1> QED
  BY <1>3, <1>4, <1>5, <1>6, OverlapKeeps

\* play without a track claims nothing.
LEMMA ControlPlayKeeps ==
  ASSUME QueuesInv, NEW c \in Callers, ControlPlay(c)
  PROVE  QueuesInv'
<1>1. WorldOK /\ EngineOK(eng) /\ lib \subseteq Tracks
  BY DEF QueuesInv, WorldOK
<1>2. PICK e : /\ \/ e = [eng EXCEPT !.life = "playing"]
                  \/ Head(db.active) \in lib /\ e = EnginePlay(eng, Head(db.active))
               /\ Engine(e)
  BY DEF ControlPlay
<1>3. /\ BeginAndEnd(c, "none", "active")
      /\ UNCHANGED <<db, proj, last, lib, sel, xfer, drift, place>>
  BY DEF ControlPlay, world
<1>4. EngineOK(e)
  <2>1. CASE e = [eng EXCEPT !.life = "playing"]
    BY <1>1, <2>1, CommandsOK
  <2>2. CASE Head(db.active) \in lib /\ e = EnginePlay(eng, Head(db.active))
    BY <1>1, <2>2, CommandsOK DEF MaybeTrack
  <2> QED
    BY <1>2, <2>1, <2>2
<1>5. WorldOK'
  BY <1>1, <1>2, <1>3, <1>4, EngineMoves
<1>6. fin'.op = "none" /\ job' = [x \in Jobs |-> [job[x] EXCEPT !.alone = FALSE]]
  BY <1>3, BeginAndEndIs
<1> QED
  BY <1>2, <1>3, <1>4, <1>5, <1>6, OverlapKeeps

\* A command, or the engine by itself, overlaps whatever runs.
LEMMA ControlKeeps ==
  ASSUME QueuesInv, playback_control_handler
  PROVE  QueuesInv'
<1>1. WorldOK /\ EngineOK(eng)
  BY DEF QueuesInv, WorldOK
<1>2. PICK e \in Controls : Engine(e)
  BY DEF playback_control_handler
<1>3. /\ fin'.op = "none" /\ job' = [x \in Jobs |-> [job[x] EXCEPT !.alone = FALSE]]
      /\ UNCHANGED <<db, proj, last, lib, sel, xfer, drift, place>>
  BY DEF playback_control_handler, NoFin
<1>4. EngineOK(e)
  <2>1. Len(eng.queue) \in Nat
    <3>1. eng.queue \in Queues
      BY <1>1 DEF EngineOK, EngineType
    <3> QED
      BY <3>1, QueueIsSeq, Bounds
  <2>2. CASE e \in {[eng EXCEPT !.life = "paused"], [eng EXCEPT !.life = "idle"]}
    BY <1>1, <2>2, CommandsOK
  <2>3. CASE \E i \in 0..(Len(eng.queue) - 1) : e = EngineJump(eng, i)
    <3>1. PICK i \in 0..(Len(eng.queue) - 1) : e = EngineJump(eng, i)
      BY <2>3
    <3>2. i \in Nat /\ i < Len(eng.queue)
      BY <2>1
    <3> QED
      BY <1>1, <3>1, <3>2, CommandsOK
  <2> QED
    BY <1>2, <2>2, <2>3 DEF Controls
<1>5. WorldOK'
  BY <1>1, <1>2, <1>3, <1>4, EngineMoves
<1> QED
  BY <1>2, <1>3, <1>4, <1>5, OverlapKeeps

\* A prepared transfer has its type.
LEMMA PrepareKeeps ==
  ASSUME QueuesInv, NEW c \in Callers, playback_transfer_prepare_handler(c)
  PROVE  QueuesInv'
<1>1. WorldOK
  BY DEF QueuesInv
<1>2. /\ BeginAndEnd(c, "none", "active")
      /\ UNCHANGED <<db, eng, evts, proj, last, lib, sel, drift, place>>
  BY DEF playback_transfer_prepare_handler
<1>3. xfer' \in Transfer
  <2>1. PICK k \in Queues, t \in lib, i \in 0..(MaxLen - 1), playing \in BOOLEAN :
          xfer' = [list |-> k, cur |-> t, idx |-> i, playing |-> playing]
    BY DEF playback_transfer_prepare_handler
  <2>2. t \in Tracks
    BY <1>1 DEF WorldOK
  <2> QED
    BY <2>1, <2>2 DEF Transfer
<1>4. WorldOK'
  BY <1>1, <1>2, <1>3 DEF WorldOK
<1>5. fin'.op = "none" /\ job' = [x \in Jobs |-> [job[x] EXCEPT !.alone = FALSE]]
  BY <1>2, BeginAndEndIs
<1> QED
  BY <1>2, <1>4, <1>5, OverlapKeeps

\* playback_transfer_commit_handler names the track at the index it clamps.
LEMMA CommitKeeps ==
  ASSUME QueuesInv, NEW c \in Callers, playback_transfer_commit_handler(c)
  PROVE  QueuesInv'
<1>0. PICK o, p, l : /\ o = "commit"
                     /\ p = <<"install", "set", IF xfer.playing THEN "play" ELSE "load", "forget">>
                     /\ l = IF xfer.list = <<>> THEN <<xfer.cur>> ELSE xfer.list
  OBVIOUS
<1>1. PICK i : i = Min({xfer.idx, Len(l) - 1})
  OBVIOUS
<1>2. PICK t : t = l[i + 1]
  OBVIOUS
<1> DEFINE k == New(o, p)
           w == [k EXCEPT !.list = l, !.idx = i, !.cur = t]
<1>3. PICK j : j = w
  OBVIOUS
<1>4. WorldOK /\ xfer \in Transfer
  BY DEF playback_transfer_commit_handler, QueuesInv, WorldOK
<1>5. /\ UNCHANGED <<db, eng, evts, proj, last, lib, xfer, drift, place>> /\ Begin(c, j)
      /\ sel' = TRUE
  BY <1>0, <1>1, <1>2, <1>3 DEF playback_transfer_commit_handler, NoEngineChange
<1>6. l \in Queues /\ l # <<>>
  <2>1. xfer.list \in Queues
    BY <1>4 DEF Transfer
  <2>2. PICK s \in Tracks : s = xfer.cur
    BY <1>4 DEF Transfer
  <2> DEFINE e == <<s>>
  <2>3. e \in Seq(Tracks) /\ Len(e) = 1 /\ e # <<>>
    OBVIOUS
  <2>4. Len(e) <= MaxLen
    BY <2>3, Bounds
  <2> HIDE DEF e
  <2>5. e \in Queues
    BY <2>3, <2>4, SeqIsQueue
  <2> QED
    BY <1>0, <2>1, <2>2, <2>3, <2>5 DEF e
<1>7. i \in 0..MaxLen /\ i < Len(l) /\ t \in MaybeTrack
  <2>1. /\ Len(l) \in 0..MaxLen
        /\ l = <<>> <=> Len(l) = 0
        /\ \A n \in 1..Len(l) : l[n] \in Tracks
    BY <1>6, QueueIsSeq
  <2>2. PICK a : a = xfer.idx
    OBVIOUS
  <2>3. PICK b : b = Len(l) - 1
    OBVIOUS
  <2>4. a \in 0..(MaxLen - 1)
    BY <1>4, <2>2 DEF Transfer
  <2>5. a \in Nat /\ b \in Nat /\ b < Len(l) /\ b <= MaxLen /\ a <= MaxLen
    BY <1>6, <2>1, <2>3, <2>4, Bounds
  <2>6. i = IF a <= b THEN a ELSE b
    BY <1>1, <2>2, <2>3, <2>5, MinOfTwo
  <2>7. i \in Nat /\ i <= MaxLen /\ i < Len(l)
    BY <2>1, <2>3, <2>5, <2>6, Bounds
  <2>8. i \in 0..MaxLen /\ i + 1 \in 1..Len(l)
    BY <2>1, <2>7, Bounds
  <2> QED
    BY <1>2, <2>1, <2>7, <2>8 DEF MaybeTrack
<1>8. o \in Ops /\ p \in ToDo(o) /\ Head(p) = "install"
  <2>1. CASE xfer.playing
    <3>1. p = <<"install", "set", "play", "forget">>
      BY <1>0, <2>1
    <3> QED
      BY <1>0, <3>1 DEF Ops, ToDo
  <2>2. CASE ~xfer.playing
    <3>1. p = <<"install", "set", "load", "forget">>
      BY <1>0, <2>2
    <3> QED
      BY <1>0, <3>1 DEF Ops, ToDo
  <2> QED
    BY <2>1, <2>2
<1>9. /\ j \in JobType /\ j.op = o /\ j.todo = p /\ j.q = "active" /\ ~j.alone
      /\ j.list = l /\ j.idx = i /\ j.cur = t
  <2>1. k \in JobType /\ k.op = o /\ k.todo = p /\ k.q = "active" /\ ~k.alone
    BY <1>8, NewJob
  <2> HIDE DEF k
  <2> QED
    BY <1>3, <1>6, <1>7, <2>1 DEF JobType
<1>10. Names(j)
  BY <1>2, <1>6, <1>7, <1>9 DEF Names
<1>11. WorkOK(j)
  BY <1>0, <1>8, <1>9, <1>10, NewWork DEF Owners
<1>12. AloneKnows(j)'
  BY <1>0, <1>8, <1>9 DEF AloneKnows, Holding
<1>13. WorldOK'
  BY <1>4, <1>5 DEF WorldOK
<1> QED
  BY <1>0, <1>5, <1>9, <1>11, <1>12, <1>13, BeginKeeps

(***************************************************************************)
(* The steps of a request.                                                 *)
(***************************************************************************)

\* A request that is at the step s.
LEMMA AtStep ==
  ASSUME QueuesInv, NEW c \in Jobs, NEW s, At(c, s)
  PROVE  /\ job[c].todo # <<>> /\ Head(job[c].todo) = s /\ job[c] \in JobType /\ WorkOK(job[c])
         /\ job[c].op \in Ops /\ StepOf(job[c].op, s, Tail(job[c].todo))
         /\ job[c].op = "session" /\ s = "set" => (Tail(job[c].todo) = <<>> <=> Bare(job[c].todo))
         /\ job[c].op = "session" /\ s \in {"play", "load"} => ~Bare(job[c].todo)
         /\ WorldOK
         /\ job[c].alone => AloneKnows(job[c])
<1>1. job[c].todo # <<>> /\ Head(job[c].todo) = s
  BY DEF At
<1>2. job[c] \in JobType /\ WorkOK(job[c])
  BY <1>1, AtWork DEF QueuesInv
<1>3. job[c].op \in Ops /\ job[c].todo \in ToDo(job[c].op)
  BY <1>2 DEF WorkOK
<1>4. WorldOK /\ (job[c].alone => AloneKnows(job[c]))
  BY DEF QueuesInv, AloneOK
<1> QED
  BY <1>1, <1>2, <1>3, <1>4, Plans

\* A request that goes on as it was.
LEMMA SameGoes ==
  ASSUME QueuesInv, NEW c \in Jobs, job[c].todo # <<>>, Go(c, job[c])
  PROVE  \E n \in JobType :
           /\ GoesOn(c, n) /\ n.todo = Tail(job[c].todo)
           /\ n.op = job[c].op /\ n.q = job[c].q /\ n.list = job[c].list /\ n.idx = job[c].idx
           /\ n.cur = job[c].cur /\ n.alone = job[c].alone
           /\ n.todo # <<>> => WorkOK(n)
<1>1. PICK j : j = job[c]
  OBVIOUS
<1>2. j \in JobType /\ WorkOK(j)
  BY <1>1, AtWork DEF QueuesInv
<1>3. PICK n : n = [j EXCEPT !.todo = Tail(j.todo)]
  OBVIOUS
<1>4. /\ n \in JobType /\ n.todo = Tail(j.todo)
      /\ n.op = j.op /\ n.q = j.q /\ n.list = j.list /\ n.idx = j.idx /\ n.cur = j.cur
      /\ n.alone = j.alone
      /\ n.todo # <<>> => WorkOK(n)
  BY <1>2, <1>3, WorkGoesOn
<1>5. GoesOn(c, n)
  BY <1>1, <1>2, <1>3, GoIs
<1> QED
  BY <1>1, <1>4, <1>5

\* A request ends without an answer, and what it had announced will not come, or the row drifts.
LEMMA RefusalKeeps ==
  ASSUME QueuesInv, NEW c \in Jobs, job[c].todo # <<>>, job' = [job EXCEPT ![c] = Idle], fin' = fin,
         place' = place, WorldOK',
         \/ drift' = TRUE
         \/ /\ UNCHANGED <<db, eng, evts, proj, last, drift>>
            /\ job[c].op # "session" \/ Head(job[c].todo) = "row"
  PROVE  QueuesInv'
<1>1. WorldOK /\ JobsOK /\ AloneOK /\ FinOK /\ PlaceOK /\ TailOK /\ RowOK
  BY DEF QueuesInv
<1>2. job[c] # Idle
  BY <1>1, AtWork
<1>3. JobsOK' /\ AloneOK' /\ FinOK' /\ PlaceOK'
  BY <1>1, <1>2, JobEnds
<1>4. CASE drift' = TRUE
  <2>1. TailOK' /\ RowOK'
    BY <1>4 DEF TailOK, RowOK
  <2> QED
    BY <1>3, <2>1 DEF QueuesInv
<1>5. CASE /\ UNCHANGED <<db, eng, evts, proj, last, drift>>
           /\ job[c].op # "session" \/ Head(job[c].todo) = "row"
  <2>1. TailOK'
    BY <1>1, <1>5 DEF TailOK
  <2>2. \A d \in Jobs \ {c} : job'[d] = job[d]
    BY <1>1 DEF JobsOK
  <2>3. ASSUME NEW t, Coming(t) PROVE Coming(t)'
    BY <1>5, <2>2, <2>3 DEF Coming
  <2>4. RowOK'
    BY <1>1, <1>5, <2>3 DEF RowOK
  <2> QED
    BY <1>3, <2>1, <2>4 DEF QueuesInv
<1> QED
  BY <1>4, <1>5

\* The track asked for is the one of the engine.
LEMMA SnapshotKeeps ==
  ASSUME QueuesInv, NEW c \in Jobs, SnapshotTrack(c)
  PROVE  QueuesInv'
<1>1. /\ job[c].todo # <<>> /\ job[c] \in JobType /\ WorkOK(job[c])
      /\ StepOf(job[c].op, "snap", Tail(job[c].todo)) /\ WorldOK
  BY AtStep DEF SnapshotTrack
<1>2. job[c].op \in {"add", "reorder"} /\ Tail(job[c].todo) = <<"read", "set">>
  BY <1>1 DEF StepOf
<1>3. PICK j : j = [job[c] EXCEPT !.cur = eng.track]
  OBVIOUS
<1>4. eng.track \in MaybeTrack
  BY <1>1 DEF WorldOK, EngineOK, EngineType
<1>5. /\ j \in JobType /\ j.op = job[c].op /\ j.q = job[c].q /\ j.alone = job[c].alone
      /\ j.cur = eng.track
  BY <1>1, <1>3, <1>4 DEF JobType
<1>6. PICK n : n = [j EXCEPT !.todo = Tail(job[c].todo)]
  OBVIOUS
<1>7. PICK p : p = <<"read", "set">>
  OBVIOUS
<1>8. p \in ToDo(job[c].op) /\ p \in ToDos /\ Head(p) = "read" /\ p # <<>>
  BY <1>2, <1>7 DEF ToDo, ToDos, Ops
<1>9. /\ n \in JobType /\ n.todo = p /\ n.op = job[c].op /\ n.q = job[c].q /\ n.alone = job[c].alone
      /\ n.cur = eng.track
  BY <1>2, <1>5, <1>6, <1>7, <1>8 DEF JobType
<1>10. /\ UNCHANGED <<db, eng, evts, proj, last, lib, sel, xfer, drift, place>> /\ Go(c, j)
  BY <1>3 DEF SnapshotTrack, NoEngineChange, world
<1>11. GoesOn(c, n)
  BY <1>5, <1>6, <1>10, GoIs
<1>12. WorkOK(n)
  <2>1. /\ n.list \in Queues /\ n.idx \in 0..MaxLen /\ n.cur \in MaybeTrack /\ n.alone \in BOOLEAN
        /\ n.q \in Owners
    BY <1>9 DEF JobType
  <2>2. job[c].op = "add" => n.q = "active"
    BY <1>1, <1>9 DEF WorkOK
  <2> QED
    BY <1>2, <1>8, <1>9, <2>1, <2>2 DEF WorkOK, Ops
<1>13. AloneKnows(n)'
  BY <1>2, <1>8, <1>9, <1>10 DEF AloneKnows, Holding
<1>14. WorldOK'
  BY <1>1, <1>10 DEF WorldOK, EngineOK
<1>15. n.todo # <<>> /\ n.op \in {"add", "reorder"} /\ n.op # "session"
  BY <1>2, <1>8, <1>9
<1> QED
  BY <1>1, <1>8, <1>9, <1>10, <1>11, <1>12, <1>13, <1>14, <1>15, StepKeeps

\* The queue read again is the one of the database.
LEMMA SyncKeeps ==
  ASSUME QueuesInv, NEW c \in Jobs, sync_active_queue_to_engine(c)
  PROVE  QueuesInv'
<1>1. /\ job[c].todo # <<>> /\ job[c] \in JobType /\ WorkOK(job[c]) /\ Head(job[c].todo) = "read"
      /\ StepOf(job[c].op, "read", Tail(job[c].todo)) /\ WorldOK
      /\ job[c].alone => AloneKnows(job[c])
  BY AtStep DEF sync_active_queue_to_engine
<1>2. job[c].op \in {"add", "reorder"} /\ Tail(job[c].todo) = <<"set">>
  BY <1>1 DEF StepOf
<1>3. UNCHANGED <<db, eng, evts, proj, last, lib, sel, xfer, drift, place>>
  BY DEF sync_active_queue_to_engine, NoEngineChange, world
<1>4. WorldOK'
  BY <1>1, <1>3 DEF WorldOK, EngineOK
<1>5. PICK l, t : l = get_queue_items(job[c].q) /\ t = job[c].cur
  OBVIOUS
<1>6. PICK u, i : u = (IF l = <<>> THEN None ELSE t) /\ i = IF t \in ToSet(l) THEN PlaceOf(l, t) ELSE 0
  OBVIOUS
<1>7. PICK j : j = [job[c] EXCEPT !.list = l, !.cur = u, !.idx = i]
  OBVIOUS
<1>8. Go(c, j) \/ Refuse(c)
  BY <1>5, <1>6, <1>7 DEF sync_active_queue_to_engine
<1>9. CASE Refuse(c)
  <2>1. job' = [job EXCEPT ![c] = Idle] /\ fin' = fin
    BY <1>9 DEF Refuse
  <2>2. job[c].op # "session"
    BY <1>2
  <2> QED
    BY <1>1, <1>3, <1>4, <2>1, <2>2, RefusalKeeps
<1>10. CASE Go(c, j)
  <2>1. l \in Queues /\ t \in MaybeTrack /\ u \in MaybeTrack /\ i \in 0..MaxLen
    <3>1. l \in Queues
      BY <1>1, <1>5, ItemsOK
    <3>2. t \in MaybeTrack /\ u \in MaybeTrack
      BY <1>1, <1>5, <1>6 DEF JobType, MaybeTrack
    <3>3. i \in 0..MaxLen
      BY <1>6, <3>1, PlaceFound, Bounds
    <3> QED
      BY <3>1, <3>2, <3>3
  <2>2. /\ j \in JobType /\ j.op = job[c].op /\ j.q = job[c].q /\ j.alone = job[c].alone
        /\ j.cur = u /\ j.list = l
    BY <1>1, <1>7, <2>1 DEF JobType
  <2>3. PICK n : n = [j EXCEPT !.todo = Tail(job[c].todo)]
    OBVIOUS
  <2>4. PICK p : p = <<"set">>
    OBVIOUS
  <2>5. p \in ToDo(job[c].op) /\ p \in ToDos /\ Head(p) = "set" /\ p # <<>>
    BY <1>2, <2>4 DEF ToDo, ToDos, Ops
  <2>6. /\ n \in JobType /\ n.todo = p /\ n.op = job[c].op /\ n.q = job[c].q
        /\ n.alone = job[c].alone /\ n.cur = u /\ n.list = l
    BY <1>2, <2>2, <2>3, <2>4, <2>5 DEF JobType
  <2>7. GoesOn(c, n)
    BY <1>10, <2>2, <2>3, GoIs
  <2>8. WorkOK(n)
    <3>1. /\ n.list \in Queues /\ n.idx \in 0..MaxLen /\ n.cur \in MaybeTrack /\ n.alone \in BOOLEAN
          /\ n.q \in Owners
      BY <2>6 DEF JobType
    <3>2. job[c].op = "add" => n.q = "active"
      BY <1>1, <2>6 DEF WorkOK
    <3> QED
      BY <1>2, <2>5, <2>6, <3>1, <3>2 DEF WorkOK, Ops
  <2>9. ASSUME n.alone PROVE AloneKnows(n)'
    <3>1. t = eng.track
      BY <1>1, <1>2, <1>5, <2>6, <2>9 DEF AloneKnows
    <3>2. l = get_queue_items(n.q)'
      BY <1>3, <1>5, <2>6 DEF get_queue_items
    <3> QED
      BY <1>2, <1>3, <1>6, <2>5, <2>6, <3>1, <3>2 DEF AloneKnows, Holding
  <2>10. n.todo # <<>> /\ n.op \in {"add", "reorder"} /\ n.op # "session"
    BY <1>2, <2>5, <2>6
  <2> QED
    BY <1>1, <1>3, <1>4, <2>6, <2>7, <2>8, <2>9, <2>10, StepKeeps
<1> QED
  BY <1>8, <1>9, <1>10

\* The track a request is for is one of its queue.
LEMMA NamedIsThere ==
  ASSUME NEW j, Names(j), j.list \in Queues, j.idx \in 0..MaxLen
  PROVE  j.cur \in ToSet(j.list) /\ j.list # <<>> /\ j.list[j.idx + 1] = j.cur /\ j.cur \in Tracks
<1>1. PICK l, i : l = j.list /\ i = j.idx
  OBVIOUS
<1>2. /\ Len(l) \in 0..MaxLen /\ ToSet(l) = {l[n] : n \in 1..Len(l)}
      /\ \A n \in 1..Len(l) : l[n] \in Tracks
  BY <1>1, QueueIsSeq
<1>3. i \in 0..MaxLen /\ i < Len(l) /\ l # <<>> /\ j.cur = l[i + 1]
  BY <1>1 DEF Names
<1>4. i + 1 \in 1..Len(l)
  BY <1>2, <1>3, Bounds
<1> QED
  BY <1>1, <1>2, <1>3, <1>4

\* What may follow SetQueue.
LEMMA AfterSet ==
  ASSUME NEW r \in {<<"jump">>, <<"play">>, <<"load">>, <<"load", "mark">>, <<"play", "forget">>,
                    <<"load", "forget">>}
  PROVE  Head(r) \in {"jump", "play", "load"} /\ r # <<>>
<1>1. CASE r = <<"jump">>
  BY <1>1
<1>2. CASE r = <<"play">>
  BY <1>2
<1>3. CASE r = <<"load">>
  BY <1>3
<1>4. CASE r = <<"load", "mark">>
  BY <1>4
<1>5. CASE r = <<"play", "forget">>
  BY <1>5
<1>6. CASE r = <<"load", "forget">>
  BY <1>6
<1> QED
  BY <1>1, <1>2, <1>3, <1>4, <1>5, <1>6

\* SetQueue brings the engine the queue of the request, at the place of its track.
LEMMA SetKeeps ==
  ASSUME QueuesInv, NEW c \in Jobs, SetQueue(c)
  PROVE  QueuesInv'
<1>1. /\ job[c].todo # <<>> /\ job[c] \in JobType /\ WorkOK(job[c]) /\ Head(job[c].todo) = "set"
      /\ StepOf(job[c].op, "set", Tail(job[c].todo)) /\ WorldOK
      /\ job[c].op = "session" => (Tail(job[c].todo) = <<>> <=> Bare(job[c].todo))
      /\ job[c].alone => AloneKnows(job[c])
  BY AtStep DEF SetQueue
<1>2. PICK e : e = EngineSetQueue(eng, job[c].list, job[c].idx, job[c].cur)
  OBVIOUS
<1>3. Engine(e) /\ Go(c, job[c]) /\ UNCHANGED <<db, proj, last, lib, sel, xfer, drift, place>>
  BY <1>2 DEF SetQueue, world
<1>4. PICK n \in JobType :
           /\ GoesOn(c, n) /\ n.todo = Tail(job[c].todo)
           /\ n.op = job[c].op /\ n.q = job[c].q /\ n.list = job[c].list /\ n.idx = job[c].idx
           /\ n.cur = job[c].cur /\ n.alone = job[c].alone
           /\ n.todo # <<>> => WorkOK(n)
  BY <1>1, <1>3, SameGoes
<1>5. n.list \in Queues /\ n.idx \in 0..MaxLen /\ n.cur \in MaybeTrack
  BY DEF JobType
<1>6. /\ EngineOK(e) /\ e.queue = n.list
      /\ n.cur \in ToSet(n.list) => n.list[e.idx + 1] = n.cur
      /\ e.track = eng.track
         \/ (eng.track = None /\ n.list # <<>> /\ e.track = n.list[e.idx + 1])
  BY <1>1, <1>2, <1>4, <1>5, SetQueueOK DEF WorldOK
<1>7. WorldOK' /\ eng' = e
  BY <1>1, <1>3, <1>6, EngineMoves DEF Engine
<1>8. StepOf(n.op, "set", n.todo)
  BY <1>1, <1>4
<1>9. n.op \in {"add", "reorder", "transfer", "clear"} => n.todo = <<>>
  BY <1>8 DEF StepOf
<1>10. n.op \in {"jump", "commit", "restore", "boot"} \/ (n.op = "session" /\ n.todo # <<>>) =>
         Head(n.todo) \in {"jump", "play", "load"} /\ n.todo # <<>>
  BY <1>8, AfterSet DEF StepOf
<1>11. n.op \in Ops
  BY <1>1, <1>4 DEF WorkOK
<1>12. n.alone => /\ n.op \in {"transfer", "session", "clear", "jump", "commit"} => n.list = db.active
                  /\ n.op \in {"add", "reorder"} =>
                       n.list = get_queue_items(n.q) /\ (n.list # <<>> => n.cur = eng.track)
  BY <1>1, <1>4 DEF AloneKnows, Holding
<1>13. n.op \notin {"reorder", "restore", "boot"} => n.q = "active"
  BY <1>1, <1>4 DEF WorkOK
<1>14. ASSUME n.todo = <<>>, n.alone PROVE Healed(n)'
  <2>1. n.op \in {"add", "reorder", "transfer", "clear", "session"}
    BY <1>8, <1>14 DEF StepOf
  <2>2. e.queue = get_queue_items(n.q)'
    <3>1. get_queue_items(n.q)' = get_queue_items(n.q)
      BY <1>3 DEF get_queue_items
    <3>2. n.q = "active" => get_queue_items(n.q) = db.active
      BY DEF get_queue_items
    <3> QED
      BY <1>6, <1>12, <1>13, <1>14, <2>1, <3>1, <3>2
  <2>3. ASSUME n.op \in {"add", "reorder"}, e.track \in ToSet(e.queue)
        PROVE  e.queue[e.idx + 1] = e.track
    <3>1. n.list # <<>>
      <4>1. ToSet(n.list) = {n.list[k] : k \in 1..Len(n.list)} /\ (n.list = <<>> => Len(n.list) = 0)
        BY <1>5, QueueIsSeq
      <4> QED
        BY <1>6, <2>3, <4>1
    <3>2. n.cur = eng.track
      BY <1>12, <1>14, <2>3, <3>1
    <3> QED
      BY <1>6, <2>3, <3>2
  <2>4. n.op = "session" => e.queue = <<>>
    <3>1. n.op = "session" => Bare(job[c].todo)
      BY <1>1, <1>4, <1>14
    <3>2. n.op = "session" => n.list = <<>>
      BY <1>1, <1>4, <3>1 DEF WorkOK
    <3> QED
      BY <1>6, <3>2
  <2> QED
    BY <1>7, <2>1, <2>2, <2>3, <2>4 DEF Healed
<1>15. ASSUME n.todo # <<>>, n.alone PROVE AloneKnows(n)'
  <2>1. n.op \in {"jump", "commit", "restore", "boot", "session"}
    BY <1>9, <1>11, <1>15 DEF Ops
  <2>2. Head(n.todo) \in {"jump", "play", "load"}
    BY <1>10, <1>15, <2>1
  <2>3. Names(job[c])
    BY <1>1, <1>4, <1>15, <2>1 DEF WorkOK
  <2>4. Names(n)
    BY <1>4, <2>3 DEF Names
  <2>5. n.cur \in ToSet(n.list)
    BY <1>5, <2>4, NamedIsThere
  <2>6. e.queue = n.list /\ e.queue[e.idx + 1] = n.cur
    BY <1>6, <2>5
  <2>7. Holding(n) => n.list = db'.active
    BY <1>3, <1>12, <1>15, <2>1 DEF Holding
  <2> QED
    BY <1>7, <2>1, <2>2, <2>6, <2>7 DEF AloneKnows
<1>16. n.op = "session" /\ n.todo = <<>> => n.cur = None
  BY <1>1, <1>4 DEF WorkOK
<1> QED
  BY <1>1, <1>3, <1>4, <1>6, <1>7, <1>14, <1>15, <1>16, StepKeeps

\* What may precede SetQueue.
LEMMA SetIsNext ==
  ASSUME NEW r \in {<<"set">>, <<"set", "play">>, <<"set", "load">>, <<"set", "play", "forget">>,
                    <<"set", "load", "forget">>}
  PROVE  Head(r) = "set" /\ r # <<>>
<1>1. CASE r = <<"set">>
  BY <1>1
<1>2. CASE r = <<"set", "play">>
  BY <1>2
<1>3. CASE r = <<"set", "load">>
  BY <1>3
<1>4. CASE r = <<"set", "play", "forget">>
  BY <1>4
<1>5. CASE r = <<"set", "load", "forget">>
  BY <1>5
<1> QED
  BY <1>1, <1>2, <1>3, <1>4, <1>5

\* JumpToIndex lands on the track of the request, or is refused.
LEMMA JumpStepKeeps ==
  ASSUME QueuesInv, NEW c \in Jobs, JumpToIndex(c)
  PROVE  QueuesInv'
<1>1. /\ job[c].todo # <<>> /\ job[c] \in JobType /\ WorkOK(job[c]) /\ Head(job[c].todo) = "jump"
      /\ StepOf(job[c].op, "jump", Tail(job[c].todo)) /\ WorldOK
      /\ job[c].alone => AloneKnows(job[c])
  BY AtStep DEF JumpToIndex
<1>2. UNCHANGED <<db, proj, last, lib, sel, xfer, drift, place>>
  BY DEF JumpToIndex, world
<1>3. job[c].op = "jump" /\ Tail(job[c].todo) = <<>>
  BY <1>1 DEF StepOf
<1>4. CASE job[c].idx < Len(eng.queue)
  <2>1. PICK e : e = EngineJump(eng, job[c].idx)
    OBVIOUS
  <2>2. Engine(e) /\ Go(c, job[c])
    BY <1>4, <2>1 DEF JumpToIndex
  <2>3. PICK n \in JobType :
             /\ GoesOn(c, n) /\ n.todo = Tail(job[c].todo)
             /\ n.op = job[c].op /\ n.q = job[c].q /\ n.list = job[c].list /\ n.idx = job[c].idx
             /\ n.cur = job[c].cur /\ n.alone = job[c].alone
             /\ n.todo # <<>> => WorkOK(n)
    BY <1>1, <2>2, SameGoes
  <2>4. n.idx \in Nat /\ n.idx \in 0..MaxLen /\ n.list \in Queues
    BY Bounds DEF JobType
  <2>5. /\ EngineOK(e) /\ e.queue = eng.queue /\ e.idx = n.idx
        /\ e.track = eng.queue[n.idx + 1]
    <3>1. PICK g, i : g = eng /\ i = n.idx
      OBVIOUS
    <3>2. EngineOK(g) /\ i \in Nat /\ i < Len(g.queue) /\ e = EngineJump(g, i)
      BY <1>1, <1>4, <2>1, <2>3, <2>4, <3>1 DEF WorldOK
    <3>3. EngineOK(e) /\ e.queue = g.queue /\ e.idx = i /\ e.track = g.queue[i + 1]
      BY <3>2, CommandsOK
    <3> QED
      BY <3>1, <3>3
  <2>6. WorldOK' /\ eng' = e
    BY <1>1, <1>2, <2>2, <2>5, EngineMoves DEF Engine
  <2>7. ASSUME n.alone PROVE Healed(n)'
    <3>1. eng.queue = n.list /\ n.list = db.active
      BY <1>1, <1>3, <2>3, <2>7 DEF AloneKnows, Holding
    <3>2. Names(job[c])
      BY <1>1, <1>3 DEF WorkOK
    <3>3. n.cur = n.list[n.idx + 1]
      BY <2>3, <3>2 DEF Names
    <3>4. n.q = "active"
      BY <1>1, <1>3, <2>3 DEF WorkOK
    <3>5. get_queue_items(n.q)' = db.active
      BY <1>2, <3>4 DEF get_queue_items
    <3> QED
      BY <1>3, <2>3, <2>5, <2>6, <3>1, <3>3, <3>5 DEF Healed
  <2>8. n.todo = <<>> /\ n.op # "session"
    BY <1>3, <2>3
  <2> QED
    BY <1>1, <1>2, <2>2, <2>3, <2>5, <2>6, <2>7, <2>8, StepKeeps
<1>5. CASE ~(job[c].idx < Len(eng.queue))
  <2>1. UNCHANGED <<eng, evts>> /\ job' = [job EXCEPT ![c] = Idle] /\ fin' = fin
    BY <1>5 DEF JumpToIndex, NoEngineChange, Refuse
  <2>2. WorldOK'
    BY <1>1, <1>2, <2>1 DEF WorldOK, EngineOK
  <2>3. job[c].op # "session"
    BY <1>3
  <2> QED
    BY <1>1, <1>2, <2>1, <2>2, <2>3, RefusalKeeps
<1> QED
  BY <1>4, <1>5

\* The queue jumped into becomes the active one.
LEMMA PromoteKeeps ==
  ASSUME QueuesInv, NEW c \in Jobs, JumpPromote(c)
  PROVE  QueuesInv'
<1>1. /\ job[c].todo # <<>> /\ job[c] \in JobType /\ WorkOK(job[c])
      /\ StepOf(job[c].op, "promote", Tail(job[c].todo)) /\ WorldOK /\ db \in Base
  BY AtStep DEF JumpPromote, WorldOK
<1>2. /\ UNCHANGED <<eng, evts, proj, last, lib, sel, xfer, drift, place>> /\ Go(c, job[c])
      /\ db' = [db EXCEPT !.active = job[c].list]
  BY DEF JumpPromote, world, NoEngineChange
<1>3. job[c].op = "jump" /\ Tail(job[c].todo) = <<"set", "jump">>
  BY <1>1 DEF StepOf
<1>4. PICK n \in JobType :
           /\ GoesOn(c, n) /\ n.todo = Tail(job[c].todo)
           /\ n.op = job[c].op /\ n.q = job[c].q /\ n.list = job[c].list /\ n.idx = job[c].idx
           /\ n.cur = job[c].cur /\ n.alone = job[c].alone
           /\ n.todo # <<>> => WorkOK(n)
  BY <1>1, <1>2, SameGoes
<1>5. n.list \in Queues
  BY DEF JobType
<1>6. db' \in Base /\ db'.row = db.row /\ db'.active = n.list
  BY <1>1, <1>2, <1>4, <1>5 DEF Base
<1>7. WorldOK'
  BY <1>1, <1>2, <1>6, QueuesMove
<1>8. PICK p : p = <<"set", "jump">>
  OBVIOUS
<1>9. Head(p) = "set" /\ p # <<>> /\ n.todo = p
  BY <1>3, <1>4, <1>8
<1>10. AloneKnows(n)'
  BY <1>3, <1>4, <1>6, <1>9 DEF AloneKnows, Holding
<1>11. n.todo # <<>> /\ n.op # "session"
  BY <1>3, <1>4, <1>9
<1> QED
  BY <1>1, <1>2, <1>4, <1>6, <1>7, <1>10, <1>11, StepKeeps

\* The transferred queue becomes the active one.
LEMMA InstallKeeps ==
  ASSUME QueuesInv, NEW c \in Jobs, CommitInstall(c)
  PROVE  QueuesInv'
<1>1. /\ job[c].todo # <<>> /\ job[c] \in JobType /\ WorkOK(job[c])
      /\ StepOf(job[c].op, "install", Tail(job[c].todo)) /\ WorldOK /\ db \in Base
  BY AtStep DEF CommitInstall, WorldOK
<1>2. /\ UNCHANGED <<eng, evts, proj, last, lib, sel, xfer, drift, place>> /\ Go(c, job[c])
      /\ db' = [db EXCEPT !.active = job[c].list]
  BY DEF CommitInstall, world, NoEngineChange
<1>3. /\ job[c].op = "commit"
      /\ Tail(job[c].todo) \in {<<"set", "play", "forget">>, <<"set", "load", "forget">>}
  BY <1>1 DEF StepOf
<1>4. PICK n \in JobType :
           /\ GoesOn(c, n) /\ n.todo = Tail(job[c].todo)
           /\ n.op = job[c].op /\ n.q = job[c].q /\ n.list = job[c].list /\ n.idx = job[c].idx
           /\ n.cur = job[c].cur /\ n.alone = job[c].alone
           /\ n.todo # <<>> => WorkOK(n)
  BY <1>1, <1>2, SameGoes
<1>5. n.list \in Queues
  BY DEF JobType
<1>6. db' \in Base /\ db'.row = db.row /\ db'.active = n.list
  BY <1>1, <1>2, <1>4, <1>5 DEF Base
<1>7. WorldOK'
  BY <1>1, <1>2, <1>6, QueuesMove
<1>8. PICK p : p = Tail(job[c].todo)
  OBVIOUS
<1>9. Head(p) = "set" /\ p # <<>> /\ n.todo = p
  BY <1>3, <1>4, <1>8, SetIsNext
<1>10. AloneKnows(n)'
  BY <1>3, <1>4, <1>6, <1>9 DEF AloneKnows, Holding
<1>11. n.todo # <<>> /\ n.op # "session"
  BY <1>3, <1>4, <1>9
<1> QED
  BY <1>1, <1>2, <1>4, <1>6, <1>7, <1>10, <1>11, StepKeeps

\* The row saved names another queue than the active one.
LEMMA TransferSaveKeeps ==
  ASSUME QueuesInv, NEW c \in Jobs, TransferSave(c)
  PROVE  QueuesInv'
<1>1. /\ job[c].todo # <<>> /\ job[c] \in JobType /\ WorkOK(job[c])
      /\ StepOf(job[c].op, "save", Tail(job[c].todo)) /\ WorldOK /\ db \in Base
      /\ job[c].alone => AloneKnows(job[c])
  BY AtStep DEF TransferSave, WorldOK
<1>2. /\ UNCHANGED <<eng, evts, proj, last, lib, sel, xfer, drift, place>> /\ Go(c, job[c])
      /\ db' = save_queue_state(db, job[c].list, job[c].idx)
  BY DEF TransferSave, world, NoEngineChange
<1>3. job[c].op = "transfer" /\ Tail(job[c].todo) = <<"set">>
  BY <1>1 DEF StepOf
<1>4. PICK n \in JobType :
           /\ GoesOn(c, n) /\ n.todo = Tail(job[c].todo)
           /\ n.op = job[c].op /\ n.q = job[c].q /\ n.list = job[c].list /\ n.idx = job[c].idx
           /\ n.cur = job[c].cur /\ n.alone = job[c].alone
           /\ n.todo # <<>> => WorkOK(n)
  BY <1>1, <1>2, SameGoes
<1>5. n.list \in Queues /\ n.idx \in 0..MaxLen
  BY DEF JobType
<1>6. db' \in Base /\ db'.row.q # "active" /\ db'.active = db.active
  BY <1>1, <1>2, <1>4, <1>5, SavedBase
<1>7. WorldOK'
  BY <1>1, <1>2, <1>6, QueuesMove
<1>8. PICK p : p = <<"set">>
  OBVIOUS
<1>9. Head(p) = "set" /\ p # <<>> /\ n.todo = p
  BY <1>3, <1>4, <1>8
<1>10. n.alone => AloneKnows(n)'
  <2>1. n.alone => n.list = db.active
    BY <1>1, <1>3, <1>4 DEF AloneKnows, Holding
  <2> QED
    BY <1>3, <1>4, <1>6, <1>9, <2>1 DEF AloneKnows, Holding
<1>11. n.todo # <<>> /\ n.op # "session"
  BY <1>3, <1>4, <1>9
<1> QED
  BY <1>1, <1>2, <1>4, <1>6, <1>7, <1>10, <1>11, StepKeeps

\* The row of a session names the track the engine is about to start.
LEMMA SessionRowKeeps ==
  ASSUME QueuesInv, NEW c \in Jobs, SessionRow(c)
  PROVE  QueuesInv'
<1>1. /\ job[c].todo # <<>> /\ job[c] \in JobType /\ WorkOK(job[c]) /\ Head(job[c].todo) = "row"
      /\ StepOf(job[c].op, "row", Tail(job[c].todo)) /\ WorldOK /\ db \in Base
      /\ job[c].alone => AloneKnows(job[c])
  BY AtStep DEF SessionRow, WorldOK
<1>2. /\ UNCHANGED <<eng, evts, proj, last, lib, sel, xfer, drift, place>>
  BY DEF SessionRow, world, NoEngineChange
<1>3. /\ job[c].op = "session"
      /\ Tail(job[c].todo) \in {<<"set">>, <<"set", "play">>, <<"set", "load">>}
  BY <1>1 DEF StepOf
<1>4. CASE Refuse(c) /\ UNCHANGED db
  <2>1. job' = [job EXCEPT ![c] = Idle] /\ fin' = fin
    BY <1>4 DEF Refuse
  <2>2. WorldOK'
    BY <1>1, <1>2, <1>4 DEF WorldOK, EngineOK
  <2> QED
    BY <1>1, <1>2, <1>4, <2>1, <2>2, RefusalKeeps
<1>5. CASE db' = create_playback_session(db, "active", job[c].idx, job[c].cur) /\ Go(c, job[c])
  <2>1. PICK n \in JobType :
             /\ GoesOn(c, n) /\ n.todo = Tail(job[c].todo)
             /\ n.op = job[c].op /\ n.q = job[c].q /\ n.list = job[c].list /\ n.idx = job[c].idx
             /\ n.cur = job[c].cur /\ n.alone = job[c].alone
             /\ n.todo # <<>> => WorkOK(n)
    BY <1>1, <1>5, SameGoes
  <2>2. PICK r : r = [q |-> "active", idx |-> n.idx, cur |-> n.cur]
    OBVIOUS
  <2>3. r \in Row /\ r.cur = n.cur
    BY <2>2 DEF JobType, Row
  <2>4. db' = [db EXCEPT !.row = r, !.rows = TRUE]
    BY <1>5, <2>1, <2>2 DEF create_playback_session
  <2>5. db' \in Base /\ db'.row.cur = n.cur /\ db'.active = db.active
    BY <1>1, <2>3, <2>4 DEF Base
  <2>6. WorldOK'
    BY <1>1, <1>2, <2>5, QueuesMove
  <2>7. PICK p : p = Tail(job[c].todo)
    OBVIOUS
  <2>8. Head(p) = "set" /\ p # <<>> /\ n.todo = p
    BY <1>3, <2>1, <2>7, SetIsNext
  <2>9. n.alone => AloneKnows(n)'
    <3>1. n.alone => n.list = db.active
      BY <1>1, <1>3, <2>1 DEF AloneKnows, Holding
    <3> QED
      BY <1>3, <2>1, <2>5, <2>8, <3>1 DEF AloneKnows, Holding
  <2>10. n.todo # <<>> /\ n.op = "session"
    BY <1>3, <2>1, <2>8
  <2> QED
    BY <1>1, <1>2, <2>1, <2>5, <2>6, <2>9, <2>10, StepKeeps
<1> QED
  BY <1>4, <1>5 DEF SessionRow

\* The track a request is for is started: the engine is on it, at the place it already had.
LEMMA StartKeeps ==
  ASSUME QueuesInv, NEW c \in Jobs, NEW s \in {"load", "play"}, At(c, s), Go(c, job[c]), NEW e,
         EngineOK(e), Engine(e), e.track = job[c].cur, e.queue = eng.queue, e.idx = eng.idx,
         UNCHANGED <<db, proj, last, lib, sel, xfer, drift, place>>
  PROVE  QueuesInv'
<1>1. /\ job[c].todo # <<>> /\ job[c] \in JobType /\ WorkOK(job[c]) /\ Head(job[c].todo) = s
      /\ StepOf(job[c].op, s, Tail(job[c].todo)) /\ WorldOK
      /\ job[c].op = "session" => ~Bare(job[c].todo)
      /\ job[c].alone => AloneKnows(job[c])
  BY AtStep
<1>2. \/ job[c].op = "session" /\ Tail(job[c].todo) = <<>>
      \/ job[c].op \in {"restore", "boot"} /\ Tail(job[c].todo) = <<"mark">>
      \/ job[c].op = "commit" /\ Tail(job[c].todo) = <<"forget">>
  BY <1>1 DEF StepOf
<1>3. PICK n \in JobType :
           /\ GoesOn(c, n) /\ n.todo = Tail(job[c].todo)
           /\ n.op = job[c].op /\ n.q = job[c].q /\ n.list = job[c].list /\ n.idx = job[c].idx
           /\ n.cur = job[c].cur /\ n.alone = job[c].alone
           /\ n.todo # <<>> => WorkOK(n)
  BY <1>1, SameGoes
<1>4. WorldOK' /\ eng' = e
  BY <1>1, EngineMoves DEF Engine
<1>5. n.alone => /\ eng.queue = n.list /\ eng.queue[eng.idx + 1] = n.cur
                 /\ n.op \in {"session", "commit"} => n.list = db.active
  BY <1>1, <1>3 DEF AloneKnows, Holding
<1>6. ASSUME n.todo = <<>>, n.alone PROVE Healed(n)'
  <2>1. n.op = "session"
    <3>1. PICK m, f : m = <<"mark">> /\ f = <<"forget">>
      OBVIOUS
    <3>2. m # <<>> /\ f # <<>>
      BY <3>1
    <3> QED
      BY <1>2, <1>3, <1>6, <3>1, <3>2
  <2>2. n.q = "active"
    BY <1>1, <1>3, <2>1 DEF WorkOK
  <2>3. get_queue_items(n.q)' = db.active
    BY <2>2 DEF get_queue_items
  <2> QED
    BY <1>3, <1>4, <1>5, <1>6, <2>1, <2>3 DEF Healed
<1>7. ASSUME n.todo # <<>>, n.alone PROVE AloneKnows(n)'
  <2>1. PICK m, f : m = <<"mark">> /\ f = <<"forget">>
    OBVIOUS
  <2>2. Head(m) = "mark" /\ Head(f) = "forget"
    BY <2>1
  <2>3. \/ n.op \in {"restore", "boot"} /\ Head(n.todo) = "mark"
        \/ n.op = "commit" /\ Head(n.todo) = "forget"
    BY <1>2, <1>3, <1>7, <2>1, <2>2
  <2> QED
    BY <1>3, <1>4, <1>5, <1>7, <2>3 DEF AloneKnows, Holding
<1>8. EngineOK(e) /\ Engine(e) /\ e.track = n.cur
  BY <1>3
<1> QED
  BY <1>1, <1>3, <1>4, <1>6, <1>7, <1>8, StepKeeps

\* A request that starts a track has the one it is for at its index.
LEMMA StartsIts ==
  ASSUME QueuesInv, NEW c \in Jobs, NEW s \in {"load", "play"}, At(c, s)
  PROVE  job[c].list[job[c].idx + 1] = job[c].cur /\ job[c].cur \in MaybeTrack
<1>1. /\ job[c] \in JobType /\ WorkOK(job[c]) /\ StepOf(job[c].op, s, Tail(job[c].todo))
      /\ job[c].op = "session" => ~Bare(job[c].todo)
  BY AtStep
<1>2. job[c].op \in {"session", "restore", "boot", "commit"}
  BY <1>1 DEF StepOf
<1>3. Names(job[c])
  BY <1>1, <1>2 DEF WorkOK
<1> QED
  BY <1>1, <1>3 DEF Names, JobType

\* The engine loads the track of the request.
LEMMA LoadKeeps ==
  ASSUME QueuesInv, NEW c \in Jobs, LoadTrack(c)
  PROVE  QueuesInv'
<1>1. PICK e, t : t = job[c].cur /\ e = EngineLoad(eng, t)
  OBVIOUS
<1>2. PICK s \in {"load", "play"} : s = "load"
  OBVIOUS
<1>3. At(c, s)
  BY <1>2 DEF LoadTrack
<1>4. job[c].list[job[c].idx + 1] = t /\ t \in MaybeTrack
  BY <1>1, <1>3, StartsIts
<1>5. Engine(e) /\ Go(c, job[c]) /\ UNCHANGED <<db, proj, last, lib, sel, xfer, drift, place>>
  BY <1>1, <1>4 DEF LoadTrack, world
<1>6. EngineOK(eng)
  BY DEF QueuesInv, WorldOK
<1>7. EngineOK(e) /\ e.track = t /\ e.queue = eng.queue /\ e.idx = eng.idx
  BY <1>1, <1>4, <1>6, CommandsOK
<1> QED
  BY <1>1, <1>3, <1>5, <1>7, StartKeeps

\* The engine plays the track of the request, or reports it and fails.
LEMMA PlayKeeps ==
  ASSUME QueuesInv, NEW c \in Jobs, PlayTrack(c)
  PROVE  QueuesInv'
<1>1. PICK e, t : t = job[c].cur /\ e = EnginePlay(eng, t)
  OBVIOUS
<1>2. PICK s \in {"load", "play"} : s = "play"
  OBVIOUS
<1>3. At(c, s)
  BY <1>2 DEF PlayTrack
<1>4. job[c].list[job[c].idx + 1] = t /\ t \in MaybeTrack
  BY <1>1, <1>3, StartsIts
<1>5. UNCHANGED <<db, proj, last, lib, sel, xfer, place>>
  BY DEF PlayTrack
<1>6. WorldOK /\ EngineOK(eng)
  BY DEF QueuesInv, WorldOK
<1>7. CASE Engine(e) /\ Go(c, job[c]) /\ UNCHANGED drift
  <2>1. EngineOK(e) /\ e.track = t /\ e.queue = eng.queue /\ e.idx = eng.idx
    BY <1>1, <1>4, <1>6, CommandsOK
  <2> QED
    BY <1>1, <1>3, <1>5, <1>7, <2>1, StartKeeps
<1>8. CASE /\ Refuse(c) /\ eng' = [eng EXCEPT !.life = "idle"]
           /\ evts' = Append(evts, [cur |-> t, idx |-> eng.idx]) /\ drift' = TRUE
  <2>1. PICK v : v = [cur |-> t, idx |-> eng.idx]
    OBVIOUS
  <2>2. v \in Event
    BY <1>4, <1>6, <2>1 DEF Event, EngineOK, EngineType
  <2>3. evts \in Seq(Event) /\ evts' = Append(evts, v)
    BY <1>6, <1>8, <2>1 DEF WorldOK
  <2>4. evts' \in Seq(Event)
    BY <2>2, <2>3
  <2>5. EngineOK(eng')
    BY <1>6, <1>8, CommandsOK
  <2>6. EngineOK(eng)'
    BY <2>5 DEF EngineOK
  <2>7. WorldOK'
    BY <1>5, <1>6, <1>8, <2>4, <2>6 DEF WorldOK
  <2>8. job' = [job EXCEPT ![c] = Idle] /\ fin' = fin
    BY <1>8 DEF Refuse
  <2>9. job[c].todo # <<>>
    BY <1>3 DEF At
  <2> QED
    BY <1>5, <1>8, <2>7, <2>8, <2>9, RefusalKeeps
<1> QED
  BY <1>1, <1>4, <1>7, <1>8 DEF PlayTrack

\* The row a restore writes back names the track the engine is on, unless something overlapped.
LEMMA MarkKeeps ==
  ASSUME QueuesInv, NEW c \in Jobs, RestoreMark(c)
  PROVE  QueuesInv'
<1>1. /\ job[c].todo # <<>> /\ job[c] \in JobType /\ WorkOK(job[c]) /\ Head(job[c].todo) = "mark"
      /\ StepOf(job[c].op, "mark", Tail(job[c].todo)) /\ WorldOK /\ db \in Base
      /\ job[c].alone => AloneKnows(job[c])
  BY AtStep DEF RestoreMark, WorldOK
<1>2. /\ UNCHANGED <<eng, evts, proj, last, lib, sel, xfer, place>> /\ Go(c, job[c])
      /\ drift' = (drift \/ ~job[c].alone)
      /\ db' = update_playback_session(db, [q |-> job[c].q, idx |-> job[c].idx, cur |-> job[c].cur])
  BY DEF RestoreMark, NoEngineChange
<1>3. job[c].op \in {"restore", "boot"} /\ Tail(job[c].todo) = <<>>
  BY <1>1 DEF StepOf
<1>4. PICK n \in JobType :
           /\ GoesOn(c, n) /\ n.todo = Tail(job[c].todo)
           /\ n.op = job[c].op /\ n.q = job[c].q /\ n.list = job[c].list /\ n.idx = job[c].idx
           /\ n.cur = job[c].cur /\ n.alone = job[c].alone
           /\ n.todo # <<>> => WorkOK(n)
  BY <1>1, <1>2, SameGoes
<1>5. PICK r : r = [q |-> n.q, idx |-> n.idx, cur |-> n.cur]
  OBVIOUS
<1>6. r \in Row /\ r.cur = n.cur
  BY <1>5 DEF JobType, Row, Owners
<1>7. db' = [db EXCEPT !.row = r, !.rows = TRUE]
  BY <1>2, <1>4, <1>5 DEF update_playback_session
<1>8. db' \in Base /\ db'.row.cur = n.cur
  BY <1>1, <1>6, <1>7 DEF Base
<1>9. drift' \in BOOLEAN /\ (drift => drift') /\ (drift' \/ n.alone)
  BY <1>1, <1>2, <1>4 DEF WorldOK
<1>10. WorldOK'
  BY <1>1, <1>2, <1>8, <1>9 DEF WorldOK, EngineOK
<1>11. n.alone => eng.track = n.cur /\ eng.queue[eng.idx + 1] = n.cur
  BY <1>1, <1>4 DEF AloneKnows
<1>12. n.op = "boot" /\ place # None => n.cur = place
  <2>1. n.op = "boot" => c = "boot" /\ job[c] # Idle
    BY <1>1, <1>4, AtWork DEF QueuesInv
  <2> QED
    BY <1>4, <2>1 DEF QueuesInv, PlaceOK
<1>13. n.alone => Healed(n)'
  BY <1>2, <1>3, <1>4, <1>11, <1>12 DEF Healed
<1>14. n.todo = <<>> /\ n.op # "session"
  BY <1>3, <1>4
<1>15. UNCHANGED <<eng, evts>> /\ (drift' \/ db'.row.cur = eng.track)
  BY <1>2, <1>8, <1>9, <1>11
<1> QED
  BY <1>1, <1>2, <1>4, <1>9, <1>10, <1>13, <1>14, <1>15, StepKeeps

\* A transfer that ends leaves the engine on its track.
LEMMA ForgetKeeps ==
  ASSUME QueuesInv, NEW c \in Jobs, CommitForget(c)
  PROVE  QueuesInv'
<1>1. /\ job[c].todo # <<>> /\ job[c] \in JobType /\ WorkOK(job[c]) /\ Head(job[c].todo) = "forget"
      /\ StepOf(job[c].op, "forget", Tail(job[c].todo)) /\ WorldOK
      /\ job[c].alone => AloneKnows(job[c])
  BY AtStep DEF CommitForget
<1>2. /\ UNCHANGED <<db, eng, evts, proj, last, lib, sel, drift, place>> /\ Go(c, job[c])
      /\ xfer' = None
  BY DEF CommitForget, NoEngineChange
<1>3. job[c].op = "commit" /\ Tail(job[c].todo) = <<>>
  BY <1>1 DEF StepOf
<1>4. PICK n \in JobType :
           /\ GoesOn(c, n) /\ n.todo = Tail(job[c].todo)
           /\ n.op = job[c].op /\ n.q = job[c].q /\ n.list = job[c].list /\ n.idx = job[c].idx
           /\ n.cur = job[c].cur /\ n.alone = job[c].alone
           /\ n.todo # <<>> => WorkOK(n)
  BY <1>1, <1>2, SameGoes
<1>5. WorldOK'
  BY <1>1, <1>2 DEF WorldOK, EngineOK
<1>6. n.alone => /\ eng.track = n.cur /\ eng.queue[eng.idx + 1] = n.cur /\ eng.queue = n.list
                 /\ n.list = db.active
  BY <1>1, <1>3, <1>4 DEF AloneKnows, Holding
<1>7. n.q = "active"
  BY <1>1, <1>3, <1>4 DEF WorkOK
<1>8. n.alone => Healed(n)'
  BY <1>2, <1>3, <1>4, <1>6, <1>7 DEF Healed, get_queue_items
<1>9. n.todo = <<>> /\ n.op # "session"
  BY <1>3, <1>4
<1> QED
  BY <1>1, <1>2, <1>4, <1>5, <1>8, <1>9, StepKeeps

\* A dropped request leaves the row behind, and says so.
LEMMA DropKeeps ==
  ASSUME QueuesInv, NEW c \in Callers, DropRequest(c)
  PROVE  QueuesInv'
<1>1. c \in Jobs /\ job[c] # Idle
  BY DEF DropRequest, Jobs
<1>2. job[c].todo # <<>>
  BY <1>1, BusyWorks DEF QueuesInv
<1>3. /\ job' = [job EXCEPT ![c] = Idle] /\ drift' = TRUE
      /\ UNCHANGED <<db, eng, evts, proj, last, lib, sel, xfer, fin, place>>
  BY DEF DropRequest
<1>4. WorldOK'
  BY <1>3 DEF QueuesInv, WorldOK, EngineOK
<1> QED
  BY <1>1, <1>2, <1>3, <1>4, RefusalKeeps

(***************************************************************************)
(* What happens beside the requests.                                       *)
(***************************************************************************)

\* The output and the pending transfer play no part.
LEMMA OutputKeeps ==
  ASSUME QueuesInv, set_playback_output_handler \/ playback_transfer_abort_handler
  PROVE  QueuesInv'
<1>1. /\ UNCHANGED <<db, eng, evts, proj, last, lib, job, fin, drift, place>>
      /\ sel' \in {sel, TRUE} /\ xfer' \in {xfer, None}
  BY DEF set_playback_output_handler, playback_transfer_abort_handler
<1>2. WorldOK'
  BY <1>1 DEF QueuesInv, WorldOK, EngineOK
<1>3. JobsOK' /\ AloneOK' /\ FinOK' /\ PlaceOK'
  BY <1>1, JobsStill DEF QueuesInv
<1>4. TailOK' /\ RowOK'
  BY <1>1 DEF QueuesInv, TailOK, RowOK, Coming
<1> QED
  BY <1>2, <1>3, <1>4 DEF QueuesInv

\* The projection takes the oldest event: it is still the last it will have heard of, if it is
\* the only one.
LEMMA ProjectKeeps ==
  ASSUME QueuesInv, ProjectRead
  PROVE  QueuesInv'
<1>1. /\ UNCHANGED <<eng, last, lib, sel, xfer, job, fin, drift, place>>
      /\ proj = None /\ evts # <<>> /\ evts' = Tail(evts)
  BY DEF ProjectRead
<1>2. WorldOK /\ JobsOK /\ AloneOK /\ FinOK /\ PlaceOK /\ TailOK /\ RowOK /\ db \in Base
  BY DEF QueuesInv, WorldOK
<1>3. db' = [db EXCEPT !.rows = TRUE]
  BY DEF ProjectRead
<1>4. db' \in Base /\ db'.row = db.row /\ db'.active = db.active /\ db'.saved = db.saved
  BY <1>2, <1>3 DEF Base
<1>5. PICK v : v = Head(evts)
  OBVIOUS
<1>6. /\ evts \in Seq(Event) /\ v \in Event /\ v = evts[1] /\ evts' \in Seq(Event)
      /\ Len(evts) \in Nat /\ Len(evts) > 0 /\ Len(evts') = Len(evts) - 1
      /\ DOMAIN evts = 1..Len(evts) /\ DOMAIN evts' = 1..Len(evts')
      /\ \A i \in 1..Len(evts') : evts'[i] = evts[i + 1]
      /\ evts' = <<>> <=> Len(evts') = 0
  <2>1. evts \in Seq(Event)
    BY <1>2 DEF WorldOK
  <2>2. Len(evts) \in Nat /\ Len(evts) > 0
    BY <1>1, <2>1
  <2>3. evts' \in Seq(Event) /\ v \in Event /\ v = evts[1]
    BY <1>1, <1>5, <2>1
  <2>4. Len(evts') = Len(evts) - 1 /\ \A i \in 1..Len(evts') : evts'[i] = evts[i + 1]
    BY <1>1, <2>1, <2>2
  <2>5. evts' = <<>> <=> Len(evts') = 0
    BY <2>3
  <2>6. DOMAIN evts = 1..Len(evts) /\ DOMAIN evts' = 1..Len(evts')
    BY <2>1, <2>3
  <2> QED
    BY <2>1, <2>2, <2>3, <2>4, <2>5, <2>6
<1>7. proj' \in Row /\ proj'.cur = v.cur /\ proj' # None
  <2>1. PICK r : r = db.row
    OBVIOUS
  <2>2. r \in Row /\ proj' = [r EXCEPT !.cur = v.cur, !.idx = v.idx]
    BY <1>2, <1>5, <2>1, BaseWrites DEF ProjectRead
  <2>3. proj' \in Row /\ proj'.cur = v.cur
    BY <1>6, <2>2 DEF Row, Event
  <2>4. None \notin Row
    BY QueuesAssumption
  <2> QED
    BY <2>3, <2>4
<1>8. WorldOK'
  BY <1>1, <1>2, <1>4, <1>6, <1>7 DEF WorldOK, EngineOK
<1>9. JobsOK' /\ AloneOK' /\ FinOK' /\ PlaceOK'
  BY <1>1, <1>2, <1>4, JobsStill
<1>10. TailOK'
  <2>1. CASE Len(evts') = 0
    <3>1. evts' = <<>> /\ evts[Len(evts)] = v
      BY <1>6, <2>1
    <3> QED
      BY <1>1, <1>2, <1>7, <3>1 DEF TailOK
  <2>2. CASE Len(evts') # 0
    <3>1. evts' # <<>> /\ evts'[Len(evts')] = evts[Len(evts)]
      BY <1>6, <2>2
    <3> QED
      BY <1>1, <1>2, <3>1 DEF TailOK
  <2> QED
    BY <2>1, <2>2
<1>11. ASSUME NEW t, Coming(t) PROVE Coming(t)'
  <2>1. ASSUME NEW i \in DOMAIN evts, evts[i].cur = t PROVE Coming(t)'
    <3>1. CASE i = 1
      BY <1>6, <1>7, <2>1, <3>1 DEF Coming
    <3>2. CASE i # 1
      <4>1. i - 1 \in DOMAIN evts' /\ evts'[i - 1] = evts[i]
        BY <1>6, <2>1, <3>2
      <4> QED
        BY <2>1, <4>1 DEF Coming
    <3> QED
      BY <3>1, <3>2
  <2> QED
    BY <1>1, <1>11, <2>1 DEF Coming
<1>12. RowOK'
  <2>1. PICK t : t = db.row.cur
    OBVIOUS
  <2>2. ~drift /\ db.row.q = "active" /\ t # None => Coming(t)'
    BY <1>2, <1>11, <2>1 DEF RowOK
  <2> QED
    BY <1>1, <1>4, <2>1, <2>2 DEF RowOK, Coming
<1> QED
  BY <1>8, <1>9, <1>10, <1>12 DEF QueuesInv

\* What the projection holds is a row, and what it notes of it is no row.
LEMMA Noted ==
  ASSUME WorldOK, proj # None
  PROVE  proj \in Row /\ Projected(proj) \in Event /\ Projected(proj) # None /\ Projected(proj).cur = proj.cur
<1>1. proj \in Row
  BY DEF WorldOK
<1>2. Projected(proj) \in Event /\ Projected(proj).cur = proj.cur
  BY <1>1 DEF Projected, Row, Event
<1>3. None \notin Event
  BY QueuesAssumption
<1> QED
  BY <1>1, <1>2, <1>3

\* Written or not, what the projection held is what it will have heard of last.
LEMMA PersistKeeps ==
  ASSUME QueuesInv, persist_if_changed
  PROVE  QueuesInv'
<1>1. /\ UNCHANGED <<eng, evts, lib, sel, xfer, job, fin, place>>
      /\ proj # None /\ proj' = None
  BY DEF persist_if_changed
<1>2. WorldOK /\ JobsOK /\ AloneOK /\ FinOK /\ PlaceOK /\ TailOK /\ RowOK /\ db \in Base
  BY DEF QueuesInv, WorldOK
<1>3. PICK r : r = proj
  OBVIOUS
<1>4. PICK v : v = Projected(proj)
  OBVIOUS
<1>5. r \in Row /\ v \in Event /\ v # None /\ v.cur = r.cur
  BY <1>1, <1>2, <1>3, <1>4, Noted
<1>6. last' = v
  BY <1>4 DEF persist_if_changed
<1>7. \/ /\ db' = [db EXCEPT !.row = r, !.rows = TRUE]
         /\ drift' = (drift /\ ~(evts = <<>> /\ r.cur = eng.track))
      \/ last = v /\ UNCHANGED <<db, drift>>
  BY <1>3, <1>4 DEF persist_if_changed, update_playback_session
<1>8. /\ db' \in Base /\ db'.active = db.active /\ db'.saved = db.saved
      /\ db'.row = r \/ (db'.row = db.row /\ last = v /\ drift' = drift)
      /\ drift' = drift \/ (evts = <<>> /\ r.cur = eng.track)
  BY <1>2, <1>5, <1>7 DEF Base, WorldOK
<1>9. drift' \in BOOLEAN
  BY <1>2, <1>7 DEF WorldOK
<1>10. WorldOK'
  BY <1>1, <1>2, <1>5, <1>6, <1>8, <1>9 DEF WorldOK, EngineOK
<1>11. JobsOK' /\ AloneOK' /\ FinOK' /\ PlaceOK'
  BY <1>1, <1>2, <1>8, JobsStill
<1>12. TailOK'
  BY <1>1, <1>2, <1>3, <1>5, <1>6, <1>8 DEF TailOK
<1>13. ASSUME NEW t, Coming(t) PROVE Coming(t)' \/ last # v
  BY <1>1, <1>3, <1>5, <1>6, <1>13 DEF Coming
<1>14. RowOK'
  <2>1. PICK t : t = db'.row.cur
    OBVIOUS
  <2>2. CASE db'.row = r
    BY <1>5, <1>6, <2>2 DEF RowOK, Coming
  <2>3. CASE db'.row = db.row /\ last = v /\ drift' = drift
    <3>1. ~drift' /\ db'.row.q = "active" /\ t # None => Coming(t)'
      BY <1>2, <1>13, <2>1, <2>3 DEF RowOK
    <3> QED
      BY <2>1, <3>1 DEF RowOK, Coming
  <2> QED
    BY <1>8, <2>2, <2>3
<1> QED
  BY <1>10, <1>11, <1>12, <1>14 DEF QueuesInv

\* Lost events are a drift.
LEMMA ReconcileKeeps ==
  ASSUME QueuesInv, reconcile_from_snapshot
  PROVE  QueuesInv'
<1>1. /\ UNCHANGED <<eng, last, lib, sel, xfer, job, fin, place>>
      /\ evts' = <<>> /\ drift' = TRUE
  BY DEF reconcile_from_snapshot
<1>2. WorldOK /\ JobsOK /\ AloneOK /\ FinOK /\ PlaceOK /\ db \in Base
  BY DEF QueuesInv, WorldOK
<1>3. PICK r : r = db.row
  OBVIOUS
<1>4. \/ UNCHANGED <<proj, db>>
      \/ proj' = [r EXCEPT !.cur = eng.track] /\ db' = [db EXCEPT !.rows = TRUE]
  BY <1>3 DEF reconcile_from_snapshot
<1>5. r \in Row /\ eng.track \in MaybeTrack
  BY <1>2, <1>3, BaseWrites DEF WorldOK, EngineOK, EngineType
<1>6. [r EXCEPT !.cur = eng.track] \in Row
  BY <1>5 DEF Row
<1>7. db' \in Base /\ db'.active = db.active /\ db'.saved = db.saved
  BY <1>2, <1>4 DEF Base
<1>8. proj' \in Row \union {None}
  BY <1>2, <1>4, <1>6 DEF WorldOK
<1>9. evts' \in Seq(Event)
  BY <1>1
<1>10. WorldOK'
  BY <1>1, <1>2, <1>7, <1>8, <1>9 DEF WorldOK, EngineOK
<1>11. JobsOK' /\ AloneOK' /\ FinOK' /\ PlaceOK'
  BY <1>1, <1>2, <1>7, JobsStill
<1>12. TailOK' /\ RowOK'
  BY <1>1 DEF TailOK, RowOK
<1> QED
  BY <1>10, <1>11, <1>12 DEF QueuesInv

\* Nothing is claimed of a request that ended, nor of a restart, once a track is gone.
LEMMA VanishKeeps ==
  ASSUME QueuesInv, TrackVanishes
  PROVE  QueuesInv'
<1>1. /\ UNCHANGED <<db, eng, evts, proj, last, sel, xfer, job, drift>>
      /\ fin' = NoFin /\ place' = None /\ lib' \subseteq lib
  BY DEF TrackVanishes
<1>2. WorldOK'
  BY <1>1 DEF QueuesInv, WorldOK, EngineOK
<1>3. JobsOK'
  BY <1>1 DEF QueuesInv, JobsOK, JobOK
<1>4. AloneOK'
  <2>1. \A c \in Jobs : AloneKnows(job[c]) => AloneKnows(job[c])'
    BY <1>1 DEF AloneKnows, Holding, get_queue_items
  <2> QED
    BY <1>1, <2>1 DEF QueuesInv, AloneOK
<1>5. FinOK' /\ PlaceOK'
  <2>1. fin'.op = "none"
    BY <1>1 DEF NoFin
  <2> QED
    BY <1>1, <2>1 DEF FinOK, Healed, PlaceOK
<1>6. TailOK' /\ RowOK'
  BY <1>1 DEF QueuesInv, TailOK, RowOK, Coming
<1> QED
  BY <1>2, <1>3, <1>4, <1>5, <1>6 DEF QueuesInv

(***************************************************************************)
(* Restarts.                                                               *)
(***************************************************************************)

\* Once everything is dealt with, the row follows the engine.
LEMMA RowFollows ==
  ASSUME QueuesInv
  PROVE  SessionFollows
<1> SUFFICES ASSUME Settled, ~drift, db.row.q = "active", db.row.cur # None
             PROVE  db.row.cur = eng.track
  BY DEF SessionFollows
<1>1. evts = <<>> /\ proj = None /\ \A c \in Jobs : job[c].op = "none"
  BY IdleFacts DEF Settled
<1>2. DOMAIN evts = {}
  BY <1>1
<1>3. Coming(db.row.cur)
  BY DEF QueuesInv, RowOK
<1>4. last # None /\ last.cur = db.row.cur
  BY <1>1, <1>2, <1>3 DEF Coming
<1> QED
  BY <1>1, <1>4 DEF QueuesInv, TailOK

\* What a process that starts with the base d restores.
LEMMA BootIs ==
  ASSUME NEW d \in Base, NEW b, b = auto_restore_playback_state(d), b # Idle
  PROVE  /\ b \in JobType /\ WorkOK(b) /\ b.op = "boot" /\ Head(b.todo) = "set"
         /\ d.row.cur # None => b.cur = d.row.cur
<1>0. PICK o, p : o = "boot" /\ p = <<"set", "load", "mark">>
  OBVIOUS
<1>1. PICK l : l = CASE d.row.q = "active" -> d.active
                     [] d.row.q = "saved" -> d.saved
                     [] OTHER -> <<>>
  OBVIOUS
<1>2. PICK x, y : x = d.row.cur /\ y = d.row.idx
  OBVIOUS
<1>3. PICK i : i = resolve_restore_index(l, x, y)
  OBVIOUS
<1>4. PICK t, q : t = l[i + 1] /\ q = d.row.q
  OBVIOUS
<1> DEFINE k == New(o, p)
           w == [k EXCEPT !.q = q, !.list = l, !.idx = i, !.cur = t, !.alone = TRUE]
<1>5. PICK j : j = w
  OBVIOUS
<1>6. i # None /\ b = j
  BY <1>0, <1>1, <1>2, <1>3, <1>4, <1>5 DEF auto_restore_playback_state
<1>7. l \in Queues /\ x \in MaybeTrack /\ y \in 0..MaxLen /\ q \in Owners
  <2>1. d.active \in Queues /\ d.saved \in Queues /\ d.row \in Row /\ <<>> \in Queues
    BY BaseWrites, EmptyIsQueue
  <2>2. l \in Queues
    BY <1>1, <2>1
  <2> QED
    BY <1>2, <1>4, <2>1, <2>2 DEF Row, Owners
<1>8. /\ l # <<>> /\ i \in 0..MaxLen /\ i < Len(l) /\ t \in MaybeTrack
      /\ x # None => t = x
  <2>1. l # <<>> /\ i \in 0..MaxLen /\ i < Len(l) /\ l[i + 1] \in Tracks /\ (x # None => l[i + 1] = x)
    BY <1>3, <1>6, <1>7, RestoreFinds
  <2> QED
    BY <1>4, <2>1 DEF MaybeTrack
<1>9. o \in Ops /\ p \in ToDo(o) /\ Head(p) = "set"
  BY <1>0 DEF Ops, ToDo
<1>10. /\ j \in JobType /\ j.op = o /\ j.todo = p /\ j.q = q /\ j.alone
       /\ j.list = l /\ j.idx = i /\ j.cur = t
  <2>1. k \in JobType /\ k.op = o /\ k.todo = p
    BY <1>9, NewJob
  <2> HIDE DEF k
  <2> QED
    BY <1>5, <1>7, <1>8, <2>1 DEF JobType
<1>11. Names(j)
  BY <1>4, <1>8, <1>10 DEF Names
<1>12. WorkOK(j)
  <2>1. j.alone \in BOOLEAN
    BY <1>10 DEF JobType
  <2> QED
    BY <1>0, <1>7, <1>8, <1>9, <1>10, <1>11, <2>1 DEF WorkOK
<1> QED
  BY <1>0, <1>2, <1>6, <1>8, <1>9, <1>10, <1>12

\* A process that starts with the base d, on its way to the place it should bring back.
LEMMA RebootKeeps ==
  ASSUME QueuesInv, NEW d \in Base, Reboot(d),
         place' # None => d.row.cur = place'
  PROVE  QueuesInv'
<1>1. /\ db' = d /\ eng' = NoEngine /\ evts' = <<>> /\ proj' = None /\ last' = None
      /\ sel' = FALSE /\ xfer' = None /\ fin' = NoFin /\ drift' = TRUE /\ lib' = lib
  BY DEF Reboot
<1>2. PICK b : b = auto_restore_playback_state(d)
  OBVIOUS
<1>3. job' = [[c \in Jobs |-> Idle] EXCEPT !["boot"] = b]
  BY <1>2 DEF Reboot
<1>4. "boot" \in Jobs
  BY DEF Jobs
<1>5. job'["boot"] = b /\ \A c \in Jobs \ {"boot"} : job'[c] = Idle
  BY <1>3, <1>4
<1>6. b # Idle => /\ b \in JobType /\ WorkOK(b) /\ b.op = "boot" /\ Head(b.todo) = "set"
                  /\ d.row.cur # None => b.cur = d.row.cur
  BY <1>2, BootIs
<1>7. JobsOK'
  <2>1. job' \in [Jobs -> JobType]
    BY <1>3, <1>4, <1>6, IdleFacts
  <2>2. \A c \in Jobs : JobOK(c)'
    BY <1>5, <1>6 DEF JobOK
  <2> QED
    BY <2>1, <2>2 DEF JobsOK
<1>8. AloneOK'
  <2>1. ASSUME NEW c \in Jobs, job'[c].alone
        PROVE  AloneKnows(job[c])' /\ \A x \in Jobs \ {c} : job'[x] = Idle
    <3>1. c = "boot" /\ b # Idle
      BY <1>5, <2>1, IdleFacts
    <3>2. AloneKnows(job[c])'
      BY <1>5, <1>6, <3>1 DEF AloneKnows, Holding
    <3> QED
      BY <1>5, <3>1, <3>2
  <2> QED
    BY <2>1 DEF AloneOK
<1>9. FinOK'
  <2>1. fin'.op = "none"
    BY <1>1 DEF NoFin
  <2> QED
    BY <2>1 DEF FinOK, Healed
<1>10. PlaceOK'
  BY <1>5, <1>6 DEF PlaceOK
<1>11. TailOK' /\ RowOK'
  BY <1>1 DEF TailOK, RowOK
<1>12. WorldOK'
  <2>1. evts' \in Seq(Event)
    BY <1>1
  <2>2. EngineOK(eng)'
    <3>1. PICK e \in Queues : e = <<>>
      BY EmptyIsQueue
    <3>2. eng' = [queue |-> e, idx |-> 0, track |-> None, life |-> "idle"]
      BY <1>1, <3>1 DEF NoEngine
    <3>3. 0 \in 0..MaxLen /\ None \in MaybeTrack
      BY Bounds DEF MaybeTrack
    <3> QED
      BY <3>2, <3>3 DEF EngineOK, EngineType
  <2> QED
    BY <1>1, <2>1, <2>2 DEF QueuesInv, WorldOK
<1> QED
  BY <1>7, <1>8, <1>9, <1>10, <1>11, <1>12 DEF QueuesInv

\* flush_shutdown writes the track of the engine, which the next process restores.
LEMMA RestartKeeps ==
  ASSUME QueuesInv, Restart
  PROVE  QueuesInv'
<1>1. PICK r, d : r = [db.row EXCEPT !.cur = eng.track] /\ d = [db EXCEPT !.row = r, !.rows = TRUE]
  OBVIOUS
<1>2. db \in Base /\ db.row \in Row /\ eng.track \in MaybeTrack
  BY BaseWrites DEF QueuesInv, WorldOK, EngineOK, EngineType
<1>3. r \in Row /\ r.cur = eng.track
  BY <1>1, <1>2 DEF Row
<1>4. d \in Base /\ d.row = r
  BY <1>1, <1>2, <1>3 DEF Base
<1>5. Reboot(d) /\ place' \in {eng.track, None}
  BY <1>1 DEF Restart, flush_shutdown, update_playback_session
<1> QED
  BY <1>3, <1>4, <1>5, RebootKeeps

\* After a crash the row is what it was; it names the track of the engine if everything was dealt
\* with.
LEMMA CrashKeeps ==
  ASSUME QueuesInv, Crash
  PROVE  QueuesInv'
<1>1. PICK d : d = db
  OBVIOUS
<1>2. d \in Base /\ lib \subseteq Tracks /\ Reboot(d)
  BY <1>1 DEF QueuesInv, WorldOK, Crash
<1>3. ASSUME place' # None PROVE d.row.cur = place'
  <2>1. Settled /\ ~drift /\ Restorable(db.row, db) /\ place' = eng.track
    BY <1>3 DEF Crash
  <2>2. db.row.cur \in Tracks /\ db.row.q = "active"
    BY <1>2, <2>1 DEF Restorable
  <2>3. db.row.cur # None
    BY <2>2, QueuesAssumption
  <2>4. SessionFollows
    BY RowFollows
  <2> QED
    BY <1>1, <2>1, <2>2, <2>3, <2>4 DEF SessionFollows
<1> QED
  BY <1>2, <1>3, RebootKeeps

(***************************************************************************)
(* Every step.                                                             *)
(***************************************************************************)

\* The invariant holds in the beginning.
LEMMA InitKeeps ==
  ASSUME Init
  PROVE  QueuesInv
<1>1. PICK e \in Queues : e = <<>>
  BY EmptyIsQueue
<1>2. NoRow \in Row /\ None \in MaybeTrack /\ 0 \in 0..MaxLen
  BY Bounds DEF NoRow, Row, MaybeTrack
<1>3. db = [active |-> e, saved |-> e, row |-> NoRow, rows |-> FALSE]
  BY <1>1 DEF Init
<1>4. db \in Base
  BY <1>2, <1>3 DEF Base
<1>5. eng = [queue |-> e, idx |-> 0, track |-> None, life |-> "idle"]
  BY <1>1 DEF Init, NoEngine
<1>6. EngineOK(eng)
  BY <1>2, <1>5 DEF EngineOK, EngineType
<1>7. evts \in Seq(Event)
  BY DEF Init
<1>8. WorldOK
  BY <1>4, <1>6, <1>7 DEF Init, WorldOK
<1>9. /\ job = [c \in Jobs |-> Idle] /\ fin = NoFin /\ place = None /\ evts = <<>>
      /\ proj = None /\ last = None /\ ~drift
  BY DEF Init
<1>10. JobsOK
  BY <1>9, IdleFacts DEF JobsOK, JobOK
<1>11. AloneOK
  BY <1>9, IdleFacts DEF AloneOK
<1>12. FinOK
  <2>1. fin.op = "none"
    BY <1>9 DEF NoFin
  <2> QED
    BY <2>1 DEF FinOK, Healed
<1>13. PlaceOK
  BY <1>9 DEF PlaceOK
<1>14. TailOK
  BY <1>5, <1>9 DEF TailOK
<1>15. RowOK
  <2>1. db.row.cur = None
    BY <1>3 DEF NoRow
  <2> QED
    BY <2>1 DEF RowOK
<1> QED
  BY <1>8, <1>10, <1>11, <1>12, <1>13, <1>14, <1>15 DEF QueuesInv

\* Every request keeps it.
LEMMA RequestKeeps ==
  ASSUME QueuesInv, NEW c \in Callers, Request(c)
  PROVE  QueuesInv'
<1>1. ASSUME NEW l \in Lists, queue_items_handler(c, l) PROVE QueuesInv'
  BY <1>1, AddKeeps
<1>2. ASSUME NEW q \in {"active", "saved"},
             queue_reorder_handler(c, q) \/ clear_queue_handler(c, q) \/ queue_delete_handler(c, q)
      PROVE  QueuesInv'
  BY <1>2, ReorderKeeps, ClearKeeps, DeleteKeeps
<1>3. ASSUME NEW q \in {"active", "saved"}, NEW i \in 0..(MaxLen - 1), queue_jump_handler(c, q, i)
      PROVE  QueuesInv'
  BY <1>3, JumpKeeps
<1>4. ASSUME NEW l \in Lists, NEW i \in 0..(MaxLen - 1),
             queue_transfer_handler(c, l, i) \/ queue_save_handler(c, l, i)
      PROVE  QueuesInv'
  BY <1>4, TransferKeeps, SaveKeeps
<1>5. ASSUME NEW l \in Lists \union {<<>>}, NEW t \in Tracks \union {None}, NEW p \in BOOLEAN,
             playback_session_handler(c, l, t, p)
      PROVE  QueuesInv'
  BY <1>5, SessionKeeps
<1>6. CASE restore_playback_state_handler(c)
  BY <1>6, RestoreKeeps
<1>7. ASSUME NEW t \in Tracks, NEW p \in BOOLEAN, handoff_handler(c, t, p) PROVE QueuesInv'
  BY <1>7, HandoffKeeps
<1>8. CASE ControlPlay(c)
  BY <1>8, ControlPlayKeeps
<1>9. CASE playback_transfer_prepare_handler(c)
  BY <1>9, PrepareKeeps
<1>10. CASE playback_transfer_commit_handler(c)
  BY <1>10, CommitKeeps
<1> QED
  BY <1>1, <1>2, <1>3, <1>4, <1>5, <1>6, <1>7, <1>8, <1>9, <1>10 DEF Request

\* Every step of a request keeps it.
LEMMA StepsKeep ==
  ASSUME QueuesInv, NEW c \in Jobs, Step(c)
  PROVE  QueuesInv'
<1>1. CASE SnapshotTrack(c) \/ sync_active_queue_to_engine(c) \/ SetQueue(c) \/ JumpToIndex(c)
  BY <1>1, SnapshotKeeps, SyncKeeps, SetKeeps, JumpStepKeeps
<1>2. CASE JumpPromote(c) \/ TransferSave(c) \/ SessionRow(c)
  BY <1>2, PromoteKeeps, TransferSaveKeeps, SessionRowKeeps
<1>3. CASE LoadTrack(c) \/ PlayTrack(c) \/ RestoreMark(c)
  BY <1>3, LoadKeeps, PlayKeeps, MarkKeeps
<1>4. CASE CommitInstall(c) \/ CommitForget(c)
  BY <1>4, InstallKeeps, ForgetKeeps
<1> QED
  BY <1>1, <1>2, <1>3, <1>4 DEF Step

\* Every step of the system keeps it.
LEMMA NextKeeps ==
  ASSUME QueuesInv, [Next]_vars
  PROVE  QueuesInv'
<1>1. ASSUME NEW c \in Callers, Request(c) \/ DropRequest(c) PROVE QueuesInv'
  BY <1>1, RequestKeeps, DropKeeps
<1>2. ASSUME NEW c \in Jobs, Step(c) PROVE QueuesInv'
  BY <1>2, StepsKeep
<1>3. CASE set_playback_output_handler \/ playback_transfer_abort_handler
  BY <1>3, OutputKeeps
<1>4. CASE playback_control_handler
  BY <1>4, ControlKeeps
<1>5. CASE ProjectRead
  BY <1>5, ProjectKeeps
<1>6. CASE persist_if_changed
  BY <1>6, PersistKeeps
<1>7. CASE reconcile_from_snapshot
  BY <1>7, ReconcileKeeps
<1>8. CASE TrackVanishes
  BY <1>8, VanishKeeps
<1>9. CASE Restart
  BY <1>9, RestartKeeps
<1>10. CASE Crash
  BY <1>10, CrashKeeps
<1>11. CASE UNCHANGED vars
  <2>1. WorldOK'
    BY <1>11 DEF QueuesInv, WorldOK, EngineOK, vars
  <2>2. JobsOK' /\ AloneOK' /\ FinOK' /\ PlaceOK'
    <3>1. UNCHANGED <<job, fin, place, eng, db>>
      BY <1>11 DEF vars
    <3> QED
      BY <3>1, JobsStill DEF QueuesInv
  <2>3. TailOK' /\ RowOK'
    BY <1>11 DEF QueuesInv, TailOK, RowOK, Coming, vars
  <2> QED
    BY <2>1, <2>2, <2>3 DEF QueuesInv
<1> QED
  BY <1>1, <1>2, <1>3, <1>4, <1>5, <1>6, <1>7, <1>8, <1>9, <1>10, <1>11 DEF Next

\* The invariant of requests, engine, row and projection is one of the specification.
THEOREM QueuesInvariant == Spec => []QueuesInv
<1>1. Init => QueuesInv
  BY InitKeeps
<1>2. QueuesInv /\ [Next]_vars => QueuesInv'
  BY NextKeeps
<1> QED
  BY <1>1, <1>2, PTL DEF Spec

\* The invariant implies QueueHeals.
LEMMA Heals ==
  ASSUME QueuesInv
  PROVE  QueueHeals
<1>1. TypeOK
  <2>1. WorldOK /\ JobsOK
    BY DEF QueuesInv
  <2>2. /\ db.active \in Queues /\ db.saved \in Queues /\ db.row \in Row /\ db.rows \in BOOLEAN
    BY <2>1 DEF WorldOK, Base
  <2>3. /\ eng.queue \in Queues /\ eng.track \in MaybeTrack
        /\ eng.life \in {"idle", "paused", "playing"}
        /\ eng.idx = 0 \/ eng.idx < Len(eng.queue)
    BY <2>1 DEF WorldOK, EngineOK, EngineType
  <2>4. \A c \in Jobs : job[c].list \in Queues /\ job[c].cur \in MaybeTrack
    BY <2>1 DEF JobsOK, JobType
  <2> QED
    BY <2>1, <2>2, <2>3, <2>4 DEF TypeOK, WorldOK
<1>2. RequestsHeal /\ LandsOnTrack
  BY DEF QueuesInv, FinOK, Healed, RequestsHeal, LandsOnTrack
<1> QED
  BY <1>1, <1>2 DEF QueueHeals

\* Whatever interleaved before, the queue request, session, transfer or restore that runs alone
\* leaves engine and database with the same queue, and the engine on the track the request was
\* for, at its place in that queue (queue.rs, playback.rs, playback_transfer.rs): for every
\* number of requests, every library and every disturbance.
THEOREM QueueHealsAlways == Spec => []QueueHeals
<1>1. QueuesInv => QueueHeals
  BY Heals
<1> QED
  BY <1>1, QueuesInvariant, PTL

\* The stored session follows the engine once every event is dealt with, although requests and the
\* projection write it independently and an unchanged projection is not written, and a restart or
\* a crash that was to bring a track back does (persist_if_changed, flush_shutdown,
\* auto_restore_playback_state).
THEOREM PlaceIsKept == Spec => []PlaceKept
<1>1. QueuesInv => PlaceKept
  BY RowFollows DEF QueuesInv, FinOK, Healed, PlaceSurvives, PlaceKept
<1> QED
  BY <1>1, QueuesInvariant, PTL

=============================================================================
