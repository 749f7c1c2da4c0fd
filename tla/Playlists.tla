-------------------------------- MODULE Playlists --------------------------------
(***************************************************************************)
(* Playlists (library.rs, routes/v1/playlists.rs and the playlist          *)
(* functions of michi-db).  Adding a track is three statements, reading    *)
(* the last position, inserting, recounting; removing one and updating the *)
(* text are two; only a reordering is a transaction.  Importing a file and *)
(* building a smart playlist create a list and add to it track by track,   *)
(* ignoring what fails.  Deleting a track removes its entries with it.     *)
(*                                                                         *)
(* Requests interleave between statements and may be dropped there.        *)
(***************************************************************************)
EXTENDS Naturals, Sequences, FiniteSets, FiniteSetsExt

CONSTANTS
  Lists, Songs, Clients,
  MaxCalls,   \* bound on requests
  MaxAborts   \* bound on requests dropped half-way

ASSUME PlaylistAssumption ==
  /\ IsFiniteSet(Lists) /\ IsFiniteSet(Songs)
  /\ MaxCalls \in Nat /\ MaxAborts \in Nat

VARIABLES
  pl,       \* playlists: state, name, description, track_count
  entries,  \* playlist_tracks: position and track, with when its request began and was answered
  songs,    \* the tracks that exist
  call,     \* the request each client has under way
  clock,    \* ghost: changes answered so far
  meant,    \* ghost: the name and description last answered for
  muddled,  \* ghost: lists with overlapping text updates, a skewed count, or built in company
  missing,  \* ghost: tracks a finished import should have listed and did not
  ncalls, naborts

plVars == <<pl, entries, songs, call, clock, meant, muddled, missing, ncalls, naborts>>

NoCall == [op |-> "none", pc |-> "idle", l |-> "none", todo |-> <<>>, pos |-> 0, born |-> 0,
           given |-> {}, text |-> [name |-> 0, desc |-> 0]]
Fresh == [name |-> 0, desc |-> 0]

PlaylistInit ==
  /\ pl = [l \in Lists |-> [st |-> "new", text |-> Fresh, count |-> 0]]
  /\ entries = [l \in Lists |-> {}] /\ songs = Songs
  /\ call = [c \in Clients |-> NoCall]
  /\ clock = 0 /\ meant = [l \in Lists |-> Fresh] /\ muddled = [l \in Lists |-> {}]
  /\ missing = {} /\ ncalls = 0 /\ naborts = 0

---------------------------------------------------------------------------
\* Statements of michi-db.

Live(l) == pl[l].st = "live"
Positions(l) == {e.pos : e \in entries[l]}
SongsOf(l) == {e.song : e \in entries[l]}

\* Mutants: the first free position; the last one instead of the one after it.
FirstFree(l) == Min((0 .. Cardinality(entries[l])) \ Positions(l))
LastTaken(l) == IF entries[l] = {} THEN 0 ELSE Max(Positions(l))

\* MAX(position) + 1, from zero.
NextPosition(l) == IF entries[l] = {} THEN 0 ELSE Max(Positions(l)) + 1

\* Mutant: the count is advanced from what it was.
CountUp(l) == pl' = [pl EXCEPT ![l].count = IF Live(l) THEN @ + 1 ELSE @]

\* UPDATE playlists SET track_count = (SELECT COUNT(*) ...)
Recount(l) == pl' = [pl EXCEPT ![l].count = IF Live(l) THEN Cardinality(entries[l]) ELSE @]

Begin(c, r) ==
  /\ call[c].pc = "idle" /\ ncalls < MaxCalls
  /\ ncalls' = ncalls + 1 /\ call' = [call EXCEPT ![c] = r]
Continue(c, pc) == call' = [call EXCEPT ![c].pc = pc]
Answer(c) == call' = [call EXCEPT ![c] = NoCall] /\ clock' = clock + 1

\* Someone else changes a list that c2 is building or whose text c2 is updating.
Company(c, l, ops, tag) ==
  muddled' = [muddled EXCEPT ![l] = @ \union
                (IF \E d \in Clients \ {c} : call[d].l = l /\ call[d].op \in ops THEN {tag} ELSE {})]

---------------------------------------------------------------------------
\* create_playlist_handler; import_playlist_handler and smart_playlist_handler find
\* their tracks, create the list and add the tracks one by one.

CreateList(c, l) ==
  /\ pl[l].st = "new" /\ Begin(c, NoCall)
  /\ pl' = [pl EXCEPT ![l].st = "live"]
  /\ UNCHANGED <<entries, songs, clock, meant, muddled, missing, naborts>>

FindTracks(c, l) ==
  /\ pl[l].st = "new"
  /\ \E a, b \in songs :
       Begin(c, [NoCall EXCEPT !.op = "build", !.pc = "create", !.l = l, !.todo = <<a, b>>,
                               !.given = {a, b}])
  /\ UNCHANGED <<pl, entries, songs, clock, meant, muddled, missing, naborts>>

CreateBuilt(c) ==
  LET l == call[c].l
  IN /\ call[c].pc = "create" /\ pl[l].st = "new"
     /\ pl' = [pl EXCEPT ![l].st = "live"]
     /\ Continue(c, "read")
     /\ UNCHANGED <<entries, songs, clock, meant, muddled, missing, ncalls, naborts>>

\* add_playlist_track_handler
AddTrack(c, l, s) ==
  /\ pl[l].st # "new"
  /\ Begin(c, [NoCall EXCEPT !.op = "add", !.pc = "read", !.l = l, !.todo = <<s>>])
  /\ UNCHANGED <<pl, entries, songs, clock, meant, muddled, missing, naborts>>

AddReads(c) ==
  /\ call[c].pc = "read" /\ call[c].todo # <<>>
  /\ call' = [call EXCEPT ![c].pc = "insert", ![c].pos = NextPosition(call[c].l), ![c].born = clock]
  /\ UNCHANGED <<pl, entries, songs, clock, meant, muddled, missing, ncalls, naborts>>

\* The insert fails on a taken position, a missing track and a missing list; an import
\* goes on with the next track.
AddInserts(c) ==
  LET r == call[c]
      fits == r.pos \notin Positions(r.l) /\ Head(r.todo) \in songs /\ Live(r.l)
  IN /\ r.pc = "insert"
     /\ IF fits
        THEN /\ entries' = [entries EXCEPT ![r.l] = @ \union {[pos |-> r.pos, song |-> Head(r.todo), born |-> r.born, ack |-> 0]}]
             /\ Continue(c, "count")
             /\ Company(c, r.l, {"build"}, "built")
        ELSE /\ call' = [call EXCEPT ![c] = IF r.op = "build" THEN [r EXCEPT !.pc = "read", !.todo = Tail(@)] ELSE NoCall]
             /\ UNCHANGED <<entries, muddled>>
     /\ UNCHANGED <<pl, songs, clock, meant, missing, ncalls, naborts>>

AddCounts(c) ==
  LET r == call[c]
  IN /\ r.pc = "count" /\ r.op \in {"add", "build"}
     /\ Recount(r.l)
     /\ clock' = clock + 1
     /\ entries' = [entries EXCEPT ![r.l] = {IF e.pos = r.pos /\ e.song = Head(r.todo) /\ e.ack = 0
                                              THEN [e EXCEPT !.ack = clock + 1] ELSE e : e \in @}]
     /\ call' = [call EXCEPT ![c] = IF r.op = "build" THEN [r EXCEPT !.pc = "read", !.todo = Tail(@)] ELSE NoCall]
     /\ UNCHANGED <<songs, meant, muddled, missing, ncalls, naborts>>

BuildAnswers(c) ==
  LET r == call[c]
  IN /\ r.op = "build" /\ r.pc = "read" /\ r.todo = <<>>
     /\ Answer(c)
     /\ missing' = IF Live(r.l) /\ "built" \notin muddled[r.l] THEN missing \union ((r.given \intersect songs) \ SongsOf(r.l)) ELSE missing
     /\ UNCHANGED <<pl, entries, songs, meant, muddled, ncalls, naborts>>

---------------------------------------------------------------------------
\* remove_playlist_track_handler: every entry of the track, then the count.
RemoveTrack(c, l, s) ==
  /\ Live(l)
  /\ Begin(c, [NoCall EXCEPT !.op = "remove", !.pc = "count", !.l = l])
  /\ entries' = [entries EXCEPT ![l] = {e \in @ : e.song # s}]
  /\ Company(c, l, {"build"}, "built")
  /\ UNCHANGED <<pl, songs, clock, meant, missing, naborts>>

RemoveCounts(c) ==
  /\ call[c].op = "remove" /\ call[c].pc = "count"
  /\ Recount(call[c].l) /\ Answer(c)
  /\ UNCHANGED <<entries, songs, meant, muddled, missing, ncalls, naborts>>

\* reorder_playlist_handler: one transaction that replaces the list by the given one,
\* which need not be a permutation; an unknown track rolls it back.
Reorder(c, l) ==
  /\ Live(l) /\ Begin(c, NoCall)
  /\ \E n \in 0 .. 2 : \E ids \in [1 .. n -> songs] :
       /\ entries' = [entries EXCEPT ![l] = {[pos |-> i - 1, song |-> ids[i], born |-> clock, ack |-> clock + 1] : i \in 1 .. n}]
       /\ pl' = [pl EXCEPT ![l].count = n]
  /\ clock' = clock + 1
  /\ Company(c, l, {"build"}, "built")
  /\ UNCHANGED <<songs, meant, missing, naborts>>

---------------------------------------------------------------------------
\* update_playlist_handler: read the row, then write both fields, the one given and the
\* one read.
UpdateReads(c, l) ==
  /\ Live(l)
  /\ \E f \in {"name", "desc"} :
       Begin(c, [NoCall EXCEPT !.op = f, !.pc = "write", !.l = l, !.text = pl[l].text])
  /\ Company(c, l, {"name", "desc"}, "text")
  /\ UNCHANGED <<pl, entries, songs, clock, meant, missing, naborts>>

\* Mutant: a field that is not given is cleared.
GivenOnly(old, f, v) == [Fresh EXCEPT ![f] = v]

\* The row after an update of field f.
NewText(old, f, v) == [old EXCEPT ![f] = v]

UpdateWrites(c) ==
  LET r == call[c]
  IN /\ r.pc = "write"
     /\ pl' = [pl EXCEPT ![r.l].text = IF Live(r.l) THEN NewText(r.text, r.op, 1) ELSE @]
     /\ meant' = [meant EXCEPT ![r.l][r.op] = 1]
     /\ Answer(c)
     /\ UNCHANGED <<entries, songs, muddled, missing, ncalls, naborts>>

---------------------------------------------------------------------------
\* Deletions, and requests dropped between two statements.

DeleteList(c, l) ==
  /\ Live(l) /\ Begin(c, NoCall)
  /\ pl' = [pl EXCEPT ![l].st = "gone"]
  /\ entries' = [entries EXCEPT ![l] = {}]
  /\ UNCHANGED <<songs, clock, meant, muddled, missing, naborts>>

\* delete_track: the entries go by cascade, no count is told.
DeleteSong(c, s) ==
  /\ s \in songs /\ Begin(c, NoCall)
  /\ songs' = songs \ {s}
  /\ entries' = [l \in Lists |-> {e \in entries[l] : e.song # s}]
  /\ muddled' = [l \in Lists |-> IF s \in SongsOf(l) THEN muddled[l] \union {"count"} ELSE muddled[l]]
  /\ UNCHANGED <<pl, clock, meant, missing, naborts>>

DropCall(c) ==
  /\ call[c].pc # "idle" /\ naborts < MaxAborts
  /\ naborts' = naborts + 1 /\ call' = [call EXCEPT ![c] = NoCall]
  /\ muddled' = IF call[c].pc = "count" THEN [muddled EXCEPT ![call[c].l] = @ \union {"count"}] ELSE muddled
  /\ UNCHANGED <<pl, entries, songs, clock, meant, missing, ncalls>>

PlaylistNext ==
  \E c \in Clients :
    \/ CreateBuilt(c) \/ AddReads(c) \/ AddInserts(c) \/ AddCounts(c) \/ BuildAnswers(c)
    \/ RemoveCounts(c) \/ UpdateWrites(c) \/ DropCall(c)
    \/ \E s \in Songs : DeleteSong(c, s)
    \/ \E l \in Lists :
         \/ CreateList(c, l) \/ FindTracks(c, l) \/ Reorder(c, l) \/ UpdateReads(c, l) \/ DeleteList(c, l)
         \/ \E s \in Songs : AddTrack(c, l, s) \/ RemoveTrack(c, l, s)

PlaylistSpec == PlaylistInit /\ [][PlaylistNext]_plVars

---------------------------------------------------------------------------
\* Properties

\* The stored track_count is the number of entries whenever no request is between its
\* change and its recount, however adds, removals and reorderings overlap; only a
\* deleted track or a dropped request leaves it wrong.
CountMatches ==
  \A l \in Lists :
    Live(l) /\ "count" \notin muddled[l] /\ (\A c \in Clients : call[c].pc = "count" => call[c].l # l) =>
      pl[l].count = Cardinality(entries[l])

\* A track added after another addition to the list was answered stands after it,
\* whatever is removed or inserted in between (add_track_to_playlist appends).
AppendsInOrder ==
  \A l \in Lists : \A e, f \in entries[l] : e.ack # 0 /\ f.born >= e.ack => e.pos < f.pos

\* A finished import lists every track it found that still exists, unless another
\* request changed the list under it: its inserts never collide with each other.
BuiltComplete == missing = {}

\* Updates of a playlist's text that did not overlap all stand: updating one field
\* keeps what an earlier request wrote to the other (update_playlist).
UpdatesStand == \A l \in Lists : Live(l) /\ "text" \notin muddled[l] => pl[l].text = meant[l]

\* Playlists agree with the requests that were answered, although most requests are several
\* statements outside any transaction: the stored count is the number of entries, additions
\* stand in their order, an import is complete and text updates stand.
PlaylistsAgree == CountMatches /\ AppendsInOrder /\ BuiltComplete /\ UpdatesStand
=============================================================================
