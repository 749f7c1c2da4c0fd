--------------------------------- MODULE Outputs ---------------------------------
(***************************************************************************)
(* Playback chains and room groups: the sets of receivers a client plays   *)
(* to (routes/v1/chains.rs, rooms.rs, the group handlers of receivers.rs,  *)
(* output/mod.rs and their tables in michi-db).                            *)
(*                                                                         *)
(* No handler here holds a lock or a transaction over its statements:      *)
(* adding a link reads the last position and then inserts, a reordering is *)
(* one UPDATE per link, an edit of a room reads the row and upserts it,    *)
(* and playing or stopping goes receiver by receiver.  Requests interleave *)
(* at every await and may be dropped there.                                *)
(*                                                                         *)
(* The engine and the sessions are the ones PlaybackEngine and             *)
(* ReceiverSessions model; here the engine is the set of receivers it      *)
(* plays to and a receiver holds a session or does not.                    *)
(***************************************************************************)
EXTENDS Naturals, FiniteSets, FiniteSetsExt

CONSTANTS
  Chains, LinkIds, Rooms, Speakers, Hands,
  Nowhere,    \* no output chosen
  MaxAsks,    \* bound on requests
  MaxDrops    \* bound on requests dropped half-way

ASSUME OutputsAssumption ==
  /\ IsFiniteSet(LinkIds) /\ Nowhere \notin Chains \union Rooms
  /\ MaxAsks \in Nat /\ MaxDrops \in Nat

VARIABLES
  chain,    \* playback_chains: is it there, its playing flag
  link,     \* chain_links: chain, position, receiver
  room,     \* room_groups: is it there, mode, receivers
  paired,   \* receivers that are paired
  holds,    \* receivers with an active session
  engine,   \* the receivers the engine plays to
  chosen,   \* playback_output_selection
  ask,      \* the request each client has under way
  agreed,   \* ghost: the rooms as the answered requests leave them
  mixed,    \* ghost: rooms whose edits overlapped
  jumbled,  \* ghost: chains whose link positions were given, overlapped or cut short
  untrue,   \* ghost: answers that did not hold when given, nobody interfering
  nasks, ndrops

outVars == <<chain, link, room, paired, holds, engine, chosen, ask, agreed, mixed, jumbled, untrue, nasks, ndrops>>
tables == <<chain, link, room, agreed, mixed, jumbled>>
sound == <<paired, holds, engine, chosen, untrue>>

Modes == {"party", "custom"}
NoLink == [at |-> Nowhere, pos |-> 0, r |-> Nowhere]
NoAsk == [op |-> "none", pc |-> "idle", at |-> Nowhere, pos |-> 0, todo |-> {}, seq |-> <<>>,
          new |-> [mode |-> "party", recs |-> {}], good |-> 0, bad |-> 0, alone |-> TRUE]

\* Distinct positions, from zero on.
Orders == {g \in [LinkIds -> 0 .. Cardinality(LinkIds) - 1] : \A x, y \in LinkIds : g[x] = g[y] => x = y}

\* The links an earlier run left: none, or every one of a chain, in some order.
Linked(old) ==
  \/ link = [x \in LinkIds |-> NoLink]
  \/ \E c \in old, who \in [LinkIds -> Speakers], f \in Orders :
       link = [x \in LinkIds |-> [at |-> c, pos |-> f[x], r |-> who[x]]]

OutInit ==
  /\ \E old \in SUBSET Chains :
       /\ chain = [c \in Chains |-> [st |-> IF c \in old THEN "live" ELSE "new", playing |-> FALSE]]
       /\ Linked(old)
  /\ room = [g \in Rooms |-> [st |-> "new", mode |-> "party", recs |-> {}]]
  /\ paired = Speakers /\ holds = {} /\ engine = {} /\ chosen = Nowhere
  /\ ask = [k \in Hands |-> NoAsk]
  /\ agreed = room /\ mixed = {} /\ jumbled = {} /\ untrue = {}
  /\ nasks = 0 /\ ndrops = 0

---------------------------------------------------------------------------
\* Requests.  A step of one client disturbs the requests of the others.

Turned(k, a) == ask' = [d \in Hands |-> IF d = k THEN a ELSE [ask[d] EXCEPT !.alone = @ /\ ask[d] = NoAsk]]
Ask(k, a) ==
  /\ ask[k].pc = "idle" /\ nasks < MaxAsks /\ nasks' = nasks + 1 /\ UNCHANGED ndrops
  /\ Turned(k, IF a = NoAsk THEN a ELSE [a EXCEPT !.alone = \A d \in Hands \ {k} : ask[d] = NoAsk])
Move(k, a) == Turned(k, a) /\ UNCHANGED <<nasks, ndrops>>
Reply(k) == Move(k, NoAsk)
Busy(k, at, ops) == \E d \in Hands \ {k} : ask[d].at = at /\ ask[d].op \in ops

LinksOf(c) == {x \in LinkIds : link[x].at = c}
Twice(f, c) == \E x, y \in LinkIds : x # y /\ f[x].at = c /\ f[y].at = c /\ f[x].pos = f[y].pos

\* An answer given undisturbed must be true of the receivers it is about.
Claim(k, held, who) ==
  untrue' = IF ask[k].alone /\ ~held THEN untrue \union {who} ELSE untrue

---------------------------------------------------------------------------
\* Chains and their links.

create_chain(k, c) ==
  /\ chain[c].st = "new" /\ Ask(k, NoAsk)
  /\ chain' = [chain EXCEPT ![c].st = "live"]
  /\ UNCHANGED <<link, room, agreed, mixed, jumbled, sound>>

\* update_chain, of the fields of the row only the flag matters here.
update_chain(k, c, playing) ==
  /\ chain[c].st = "live" /\ Ask(k, NoAsk)
  /\ chain' = [chain EXCEPT ![c].playing = playing]
  /\ UNCHANGED <<link, room, agreed, mixed, jumbled, sound>>

\* delete_chain: the links, then the row, whose cascade takes links added meanwhile.
delete_chain(k, c) ==
  /\ chain[c].st = "live"
  /\ Ask(k, [NoAsk EXCEPT !.op = "delete", !.pc = "row", !.at = c])
  /\ link' = [x \in LinkIds |-> IF link[x].at = c THEN NoLink ELSE link[x]]
  /\ UNCHANGED <<chain, room, agreed, mixed, jumbled, sound>>

DeleteRow(k) ==
  LET c == ask[k].at
  IN /\ ask[k].pc = "row" /\ Reply(k)
     /\ chain' = [chain EXCEPT ![c] = [st |-> "gone", playing |-> FALSE]]
     /\ link' = [x \in LinkIds |-> IF link[x].at = c THEN NoLink ELSE link[x]]
     /\ UNCHANGED <<room, agreed, mixed, jumbled, sound>>

\* Mutant: the number of links is taken for the next position.
CountLinks(c) == Cardinality(LinksOf(c))

\* MAX(position) + 1, from zero.
NextLink(c) == IF LinksOf(c) = {} THEN 0 ELSE Max({link[x].pos : x \in LinksOf(c)}) + 1

\* add_link_handler finds the chain; add_chain_link reads the last position ...
add_link(k, c, r) ==
  /\ chain[c].st = "live"
  /\ Ask(k, [NoAsk EXCEPT !.op = "add", !.pc = "insert", !.at = c, !.pos = NextLink(c), !.todo = {r}])
  /\ jumbled' = IF Busy(k, c, {"add", "reorder"}) THEN jumbled \union {c} ELSE jumbled
  /\ UNCHANGED <<chain, link, room, agreed, mixed, sound>>

\* ... and inserts the link, unless the chain is gone (foreign key).
InsertLink(k) ==
  LET a == ask[k]
      free == {x \in LinkIds : link[x] = NoLink /\ \A d \in Hands : \A i \in DOMAIN ask[d].seq : ask[d].seq[i] # x}
  IN /\ a.pc = "insert" /\ Reply(k)
     /\ IF chain[a.at].st = "live"
        THEN \E x \in free, r \in a.todo : link' = [link EXCEPT ![x] = [at |-> a.at, pos |-> a.pos, r |-> r]]
        ELSE UNCHANGED link
     /\ UNCHANGED <<chain, room, agreed, mixed, jumbled, sound>>

\* update_chain_link may set the position to anything.
update_link(k, x, p) ==
  /\ link[x] # NoLink /\ Ask(k, NoAsk)
  /\ link' = [link EXCEPT ![x].pos = p]
  /\ jumbled' = IF Twice(link', link[x].at) \/ Busy(k, link[x].at, {"add", "reorder"})
                THEN jumbled \union {link[x].at} ELSE jumbled
  /\ UNCHANGED <<chain, room, agreed, mixed, sound>>

delete_link(k, x) ==
  /\ link[x] # NoLink /\ Ask(k, NoAsk)
  /\ link' = [link EXCEPT ![x] = NoLink]
  /\ UNCHANGED <<chain, room, agreed, mixed, jumbled, sound>>

\* reorder_chain_links: one UPDATE after the other, for the links the client listed,
\* which need not be all of them.
reorder_links(k, c) ==
  /\ chain[c].st = "live" /\ LinksOf(c) # {}
  /\ \E n \in 1 .. Cardinality(LinksOf(c)) :
       \E ids \in {f \in [1 .. n -> LinksOf(c)] : \A i, j \in 1 .. n : f[i] = f[j] => i = j} :
         /\ Ask(k, [NoAsk EXCEPT !.op = "reorder", !.pc = "each", !.at = c, !.seq = ids])
         /\ jumbled' = IF n # Cardinality(LinksOf(c)) \/ Busy(k, c, {"add", "reorder"})
                       THEN jumbled \union {c} ELSE jumbled
  /\ UNCHANGED <<chain, link, room, agreed, mixed, sound>>

ReorderOne(k) ==
  LET a == ask[k]
      x == a.seq[a.pos + 1]
  IN /\ a.pc = "each"
     /\ link' = IF link[x].at = a.at THEN [link EXCEPT ![x].pos = a.pos] ELSE link
     /\ IF a.pos + 1 = Cardinality(DOMAIN a.seq) THEN Reply(k) ELSE Move(k, [a EXCEPT !.pos = @ + 1])
     /\ UNCHANGED <<chain, room, agreed, mixed, jumbled, sound>>

---------------------------------------------------------------------------
\* Room groups.

\* create_group_handler, create_room_handler and create_room_group_handler
create_room(k, g, m, recs) ==
  /\ room[g].st = "new" /\ Ask(k, NoAsk)
  /\ room' = [room EXCEPT ![g] = [st |-> "live", mode |-> m, recs |-> recs]]
  /\ agreed' = [agreed EXCEPT ![g] = room'[g]]
  /\ UNCHANGED <<chain, link, mixed, jumbled, sound>>

\* Mutant: an update without receivers empties the room.
NewRoomBlank(old, given, new) ==
  [st |-> "live",
   mode |-> IF "mode" \in given THEN new.mode ELSE old.mode,
   recs |-> IF "recs" \in given THEN new.recs ELSE {}]

\* The row update_room_group_handler and set_room_mode_handler write: what was given
\* over what they read; save_room_group_db inserts the row if it is not there.
NewRoom(old, given, new) ==
  [st |-> "live",
   mode |-> IF "mode" \in given THEN new.mode ELSE old.mode,
   recs |-> IF "recs" \in given THEN new.recs ELSE old.recs]

\* The row is read first ...
edit_room(k, g, given, new) ==
  /\ room[g].st = "live"
  /\ Ask(k, [NoAsk EXCEPT !.op = "edit", !.pc = "upsert", !.at = g, !.todo = given,
                          !.new = NewRoom(room[g], given, new)])
  /\ mixed' = IF Busy(k, g, {"edit"}) THEN mixed \union {g} ELSE mixed
  /\ UNCHANGED <<chain, link, room, agreed, jumbled, sound>>

\* ... and written back afterwards, whatever happened to it meanwhile.
save_room(k) ==
  /\ ask[k].pc = "upsert" /\ Reply(k)
  /\ room' = [room EXCEPT ![ask[k].at] = ask[k].new]
  /\ agreed' = [agreed EXCEPT ![ask[k].at] = [f \in DOMAIN @ |-> IF f \in ask[k].todo THEN ask[k].new[f] ELSE @[f]]]
  /\ UNCHANGED <<chain, link, mixed, jumbled, sound>>

delete_room(k, g) ==
  /\ room[g].st = "live" /\ Ask(k, NoAsk)
  /\ room' = [room EXCEPT ![g] = [st |-> "gone", mode |-> "party", recs |-> {}]]
  /\ agreed' = [agreed EXCEPT ![g] = room'[g]]
  /\ mixed' = IF Busy(k, g, {"edit"}) THEN mixed \union {g} ELSE mixed
  /\ UNCHANGED <<chain, link, jumbled, sound>>

---------------------------------------------------------------------------
\* Playing: find the chain or the room, resolve it into sinks, hand them to the engine,
\* choose the output, and for a chain note that it plays.

\* play_chain_handler, room_play_handler and sync_group_handler
play_output(k, o) ==
  /\ IF o \in Chains THEN chain[o].st = "live" /\ LinksOf(o) # {} ELSE room[o].st = "live"
  /\ \E op \in {"play"} \union (IF o \in Rooms THEN {"pause"} ELSE {}) :
       Ask(k, [NoAsk EXCEPT !.op = op, !.pc = "resolve", !.at = o])
  /\ UNCHANGED <<tables, sound>>

\* resolve_output reads the tables again and keeps the receivers that are paired.
Sinks(o) ==
  paired \intersect (IF o \in Chains THEN {link[x].r : x \in LinksOf(o)}
                     ELSE IF room[o].st = "live" THEN room[o].recs ELSE {})

resolve_output(k) ==
  LET a == ask[k]
  IN /\ a.pc = "resolve"
     /\ IF Sinks(a.at) = {} THEN Reply(k)
        ELSE Move(k, [a EXCEPT !.pc = IF a.op = "play" THEN "engine" ELSE "select", !.todo = Sinks(a.at)])
     /\ UNCHANGED <<tables, sound>>

\* The engine stops the receivers it plays to; a stop that fails leaves the session.
EngineLeaves(left) == left \subseteq engine \intersect holds /\ holds' = (holds \ engine) \union left

EnginePlays(k) ==
  /\ ask[k].pc = "engine"
  /\ \E left \in SUBSET holds : EngineLeaves(left)
  /\ engine' = ask[k].todo
  /\ Move(k, [ask[k] EXCEPT !.pc = "select", !.todo = {}])
  /\ UNCHANGED <<tables, paired, chosen, untrue>>

Select(k) ==
  LET a == ask[k]
  IN /\ a.pc = "select"
     /\ chosen' = a.at
     /\ IF a.at \in Chains THEN Move(k, [a EXCEPT !.pc = "flag", !.pos = 1]) ELSE Reply(k)
     /\ UNCHANGED <<tables, paired, holds, engine, untrue>>

\* update_chain after a play or a stop.
Flag(k) ==
  LET a == ask[k]
  IN /\ a.pc = "flag" /\ Reply(k)
     /\ chain' = [chain EXCEPT ![a.at].playing = IF chain[a.at].st = "live" THEN a.pos = 1 ELSE @]
     /\ Claim(k, (a.op = "stop" /\ a.bad = 0) => \A x \in LinksOf(a.at) : link[x].r \notin holds, a.at)
     /\ UNCHANGED <<link, room, agreed, mixed, jumbled, paired, holds, engine, chosen>>

---------------------------------------------------------------------------
\* Stopping a chain, activating and deactivating a room: receiver by receiver.

\* stop_chain_handler stops the engine, whatever it plays, and then reads the links,
\* without asking whether the chain exists.
stop_chain(k, c) ==
  /\ chain[c].st # "new"
  /\ \E left \in SUBSET holds :
       /\ EngineLeaves(left)
       /\ Ask(k, [NoAsk EXCEPT !.op = "stop", !.pc = "links", !.at = c, !.bad = IF left = {} THEN 0 ELSE 1])
  /\ engine' = {}
  /\ UNCHANGED <<tables, paired, chosen, untrue>>

get_chain_links(k) ==
  /\ ask[k].pc = "links"
  /\ Move(k, [ask[k] EXCEPT !.pc = "stops", !.todo = {<<x, link[x].r>> : x \in LinksOf(ask[k].at)}])
  /\ UNCHANGED <<tables, sound>>

deactivate_room(k, g) ==
  /\ room[g].st = "live"
  /\ Ask(k, [NoAsk EXCEPT !.op = "deactivate", !.pc = "stops", !.at = g, !.todo = {<<r, r>> : r \in room[g].recs}])
  /\ UNCHANGED <<tables, sound>>

\* Mutant: the session of a receiver that is no longer paired is passed over.
SessionOfPaired(r) == r \in holds \intersect paired

\* entry.active_session_id.is_some()
HasSession(r) == r \in holds

\* stop_session: one that fails keeps the session for a retry; a receiver without a
\* session counts as stopped, one the registry does not know as nothing.
StopOne(k) ==
  LET a == ask[k]
  IN /\ a.pc = "stops"
     /\ \E t \in a.todo, ok \in BOOLEAN, known \in BOOLEAN :
          /\ ok \/ HasSession(t[2])
          /\ known \/ t[2] \notin paired \union holds
          /\ holds' = IF ok /\ HasSession(t[2]) THEN holds \ {t[2]} ELSE holds
          /\ Move(k, [a EXCEPT !.todo = @ \ {t}, !.good = IF ok /\ known THEN 1 ELSE @,
                                !.bad = IF ok THEN @ ELSE 1])
     /\ UNCHANGED <<tables, paired, engine, chosen, untrue>>

\* A chain is refused when nothing could be stopped, else it is no longer playing.
StopEnds(k) ==
  LET a == ask[k]
  IN /\ a.pc = "stops" /\ a.todo = {}
     /\ IF a.op = "stop" /\ (a.bad = 0 \/ a.good = 1) THEN Move(k, [a EXCEPT !.pc = "flag", !.pos = 0]) ELSE Reply(k)
     /\ Claim(k, (a.op = "deactivate" /\ a.bad = 0) => room[a.at].recs \intersect holds = {}, a.at)
     /\ UNCHANGED <<tables, paired, holds, engine, chosen>>

\* activate_room_group_handler: a session for every receiver that is paired and has
\* none; chosen when at least one succeeded.
activate_room(k, g) ==
  /\ room[g].st = "live" /\ room[g].recs # {}
  /\ Ask(k, [NoAsk EXCEPT !.op = "activate", !.pc = "starts", !.at = g, !.todo = room[g].recs])
  /\ UNCHANGED <<tables, sound>>

StartOne(k) ==
  LET a == ask[k]
  IN /\ a.pc = "starts"
     /\ \E r \in a.todo, ok \in BOOLEAN :
          /\ ok => r \in paired
          /\ (~ok) => r \notin paired \intersect holds
          /\ holds' = IF ok THEN holds \union {r} ELSE holds
          /\ Move(k, [a EXCEPT !.todo = @ \ {r}, !.good = IF ok THEN 1 ELSE @, !.bad = IF ok THEN @ ELSE 1])
     /\ UNCHANGED <<tables, paired, engine, chosen, untrue>>

\* Mutant: "ready" as soon as one receiver is.
ReadyAtOne(a) == a.good = 1

\* successful_receivers = total_receivers
Ready(a) == a.bad = 0

StartEnds(k) ==
  LET a == ask[k]
  IN /\ a.pc = "starts" /\ a.todo = {} /\ Reply(k)
     /\ chosen' = IF a.good = 1 THEN a.at ELSE chosen
     /\ Claim(k, a.good = 1 /\ Ready(a) => room[a.at].recs \subseteq holds, a.at)
     /\ UNCHANGED <<tables, paired, holds, engine>>

---------------------------------------------------------------------------
\* Surroundings: the engine opens the sessions it plays through, receivers are paired
\* and revoked, sessions are lost, and a request is dropped between two of its steps.

Around == ask' = [k \in Hands |-> [ask[k] EXCEPT !.alone = @ /\ ask[k] = NoAsk]] /\ UNCHANGED <<nasks, ndrops>>

SinkOpens(r) ==
  /\ r \in (engine \intersect paired) \ holds /\ holds' = holds \union {r} /\ Around
  /\ UNCHANGED <<tables, paired, engine, chosen, untrue>>

SessionLost(r) ==
  /\ r \in holds /\ holds' = holds \ {r} /\ Around
  /\ UNCHANGED <<tables, paired, engine, chosen, untrue>>

\* A revocation stops the session, or leaves it when the receiver does not answer.
Revoked(r) ==
  /\ r \in paired /\ paired' = paired \ {r} /\ holds' \in {holds, holds \ {r}} /\ Around
  /\ UNCHANGED <<tables, engine, chosen, untrue>>

Paired(r) ==
  /\ r \notin paired /\ paired' = paired \union {r} /\ Around
  /\ UNCHANGED <<tables, holds, engine, chosen, untrue>>

Drop(k) ==
  /\ ask[k].pc # "idle" /\ ndrops < MaxDrops /\ ndrops' = ndrops + 1
  /\ Turned(k, NoAsk)
  /\ jumbled' = IF ask[k].op = "reorder" THEN jumbled \union {ask[k].at} ELSE jumbled
  /\ UNCHANGED <<chain, link, room, agreed, mixed, sound, nasks>>

OutNext ==
  \/ \E k \in Hands :
       \/ DeleteRow(k) \/ InsertLink(k) \/ ReorderOne(k) \/ save_room(k) \/ resolve_output(k)
       \/ EnginePlays(k) \/ Select(k) \/ Flag(k) \/ get_chain_links(k) \/ StopOne(k) \/ StopEnds(k)
       \/ StartOne(k) \/ StartEnds(k) \/ Drop(k)
       \/ \E c \in Chains :
            \/ create_chain(k, c) \/ delete_chain(k, c) \/ reorder_links(k, c) \/ stop_chain(k, c)
            \/ \E r \in Speakers : add_link(k, c, r)
            \/ \E b \in BOOLEAN : update_chain(k, c, b)
       \/ \E x \in LinkIds : delete_link(k, x) \/ \E p \in 0 .. 1 : update_link(k, x, p)
       \/ \E o \in Chains \union Rooms : play_output(k, o)
       \/ \E g \in Rooms :
            \/ delete_room(k, g) \/ activate_room(k, g) \/ deactivate_room(k, g)
            \/ \E m \in Modes, recs \in SUBSET Speakers : create_room(k, g, m, recs)
            \/ \E m \in Modes : edit_room(k, g, {"mode"}, [mode |-> m, recs |-> {}])
            \/ \E recs \in SUBSET Speakers : edit_room(k, g, {"recs"}, [mode |-> "party", recs |-> recs])
  \/ \E r \in Speakers : SinkOpens(r) \/ SessionLost(r) \/ Revoked(r) \/ Paired(r)

OutSpec == OutInit /\ [][OutNext]_outVars

---------------------------------------------------------------------------
\* Properties

\* The links of a chain keep distinct positions, so get_chain_links always gives one
\* order, through additions, deletions and complete reorderings, unless a client gave a
\* position itself, listed only some links, or two such requests overlapped.
PositionsDistinct ==
  \A c \in Chains \ jumbled : (\A k \in Hands : ask[k].at = c => ask[k].op # "reorder") => ~Twice(link, c)

\* A room is what its answered edits say: an edit of one field keeps what an earlier one
\* wrote to the other, and a deleted room stays deleted, unless an edit was under way
\* while another edit or the deletion came (save_room_group_db upserts what was read).
RoomEditsStand == \A g \in Rooms \ mixed : room[g] = agreed[g]

\* What the handlers answer about the receivers is true of all of them when nobody
\* interfered: after "stopped" and "deactivated" none holds a session, after "ready" all
\* do, whatever failed on the way (stop_chain_handler, deactivate and activate).
AnswersHold == untrue = {}

\* Chains and rooms are what the answered requests made them, and what the handlers say of
\* their receivers is true, as long as no two requests on the same one overlap.
OutputsAgree == PositionsDistinct /\ RoomEditsStand /\ AnswersHold
=============================================================================
