------------------------------ MODULE Presence ------------------------------
(***************************************************************************)
(* Which receivers are on the network: the scent store, the three tasks    *)
(* that write it (the multicast listener, the mDNS resolver and the sweep  *)
(* of expired records) and the bridge that projects it into the registry   *)
(* of receivers through a broadcast channel.                               *)
(*                                                                         *)
(* The listener and the resolver change a record under the store's lock    *)
(* and send the event after they released it, so two events about one peer *)
(* can be sent in the other order; the sweep sends under the lock.  The    *)
(* channel keeps Capacity events: a bridge that falls behind loses the     *)
(* oldest and goes through a snapshot of the active records instead.       *)
(*                                                                         *)
(* Time is counted in periods of the sweep (5 s); a record is fresh for    *)
(* Expiry of them (90 s).  The clock starts at Expiry, so that the time 0  *)
(* stands for "never".                                                     *)
(***************************************************************************)
EXTENDS Naturals, Sequences, FiniteSets

CONSTANTS
  Peers,      \* the michi_ids of receivers
  Urls,       \* base URLs a receiver may answer at
  NoUrl,      \* base_url: None
  Expiry,     \* SCENT_EXPIRY_TIMEOUT in sweeps
  Capacity,   \* SCENT_EVENT_CHANNEL_CAPACITY
  MaxTicks    \* bound: periods of the sweep that pass

ASSUME PresenceAssumption ==
  /\ Expiry \in Nat \ {0} /\ Capacity \in Nat \ {0} /\ MaxTicks \in Nat
  /\ NoUrl \notin Urls /\ IsFiniteSet(Peers)

VARIABLES
  clock,      \* Instant::now()
  swept,      \* the sweep of this period is done
  scent,      \* michi_id -> ScentRecord, known or not
  unsent,     \* events formed under the lock and not sent yet, oldest first
  channel,    \* what the bridge has still to receive
  lagging,    \* the bridge's next recv is Err(Lagged)
  listening,  \* the bridge has subscribed
  snapshot,   \* records reconcile_snapshot has still to go through
  projected,  \* michi_id -> presence and base_url of its registry entry
  heard,      \* ghost: when a signed announcement of the peer was last accepted
  met,        \* ghost: when the resolver last met the owner of the peer's key
  astray      \* ghost: peers whose entry another writer than the bridge, an
              \* event out of order or a lost Offline left as it is

scents == <<scent, unsent, channel, lagging>>
bridge == <<listening, snapshot, projected>>
presVars == <<clock, swept, scents, bridge, heard, met, astray>>

Unknown == [online |-> FALSE, verified |-> FALSE, source |-> "mdns", signed |-> 0, mdns |-> 0, url |-> NoUrl]

\* Entries of paired receivers are loaded from the database as Offline.
PresInit ==
  /\ clock = Expiry /\ swept = FALSE
  /\ scent = [p \in Peers |-> Unknown]
  /\ unsent = <<>> /\ channel = <<>>
  /\ lagging = FALSE /\ listening = FALSE /\ snapshot = {}
  /\ \E paired \in SUBSET Peers : projected =
       [p \in Peers |-> [presence |-> IF p \in paired THEN "offline" ELSE "none",
                         url |-> NoUrl]]
  /\ heard = [p \in Peers |-> 0] /\ met = [p \in Peers |-> 0]
  /\ astray = {}

-----------------------------------------------------------------------------
(* The store.                                                              *)

is_fresh(t) == clock < t + Expiry

effective_presence(r) ==
  IF is_fresh(r.signed) THEN "verified"
  ELSE IF is_fresh(r.mdns) THEN "provisional" ELSE "offline"

Event(kind, p, r) ==
  [kind |-> kind, peer |-> p, verified |-> r.verified, source |-> r.source,
   url |-> r.url, stale |-> FALSE]

\* What broadcast::Sender::send does: the oldest event makes room.  What a snapshot still
\* holds of a peer whose Offline was lost is out of order.
Sent(es) ==
  LET all == channel \o es
      over == IF Len(all) > Capacity THEN Len(all) - Capacity ELSE 0
      lost == {all[i].peer : i \in {j \in 1..over : all[j].kind = "Offline"}}
  IN IF listening
     THEN /\ channel' = SubSeq(all, over + 1, Len(all))
          /\ lagging' = (lagging \/ over > 0)
          /\ astray' = astray \union lost
          /\ snapshot' = {[e EXCEPT !.stale = @ \/ e.peer \in lost] : e \in snapshot}
     ELSE UNCHANGED <<channel, lagging, astray, snapshot>>

Signed(r) ==
  [r EXCEPT !.online = TRUE, !.verified = TRUE,
            !.source = "signed", !.signed = clock]

(* A datagram whose announcement the identity engine verified and that     *)
(* comes from a stream service with the receiver's role; every other       *)
(* datagram is counted and dropped.                                        *)
handle_packet(p) ==
  /\ \A i \in 1..Len(unsent) : unsent[i].by # "listener"
  /\ LET r == Signed(scent[p])
     IN /\ scent' = [scent EXCEPT ![p] = r]
        /\ unsent' = Append(unsent,
             [by |-> "listener",
              ev |-> Event(IF scent[p].online THEN "Updated" ELSE "Discovered", p, r)])
  /\ heard' = [heard EXCEPT ![p] = clock]
  /\ UNCHANGED <<clock, swept, channel, lagging, bridge, met, astray>>

\* Mutant: an answered server/info counts as an announcement.
CandidateElevates(r, u) ==
  [r EXCEPT !.online = TRUE, !.mdns = clock, !.url = u,
            !.signed = clock, !.verified = TRUE, !.source = "signed"]

\* mDNS refreshes presence, and never elevates or retains verified trust.
Candidate(r, u) ==
  LET trusted == is_fresh(r.signed)
  IN [r EXCEPT !.online = TRUE, !.mdns = clock, !.url = u,
               !.verified = trusted,
               !.source = IF trusted THEN "signed" ELSE "mdns"]

(* What answers at an address: the michi_id it claims, the owner of its    *)
(* public key, and whether service, version, role and server_id are those  *)
(* of a receiver.                                                          *)
Answers == [claims : Peers \union {"other"}, key : Peers \union {"other"},
            receiver : BOOLEAN]

verify_identity_endpoint(p, a) == a.claims = p /\ a.key = p /\ a.receiver

observe_mdns_candidate(p, u, a) ==
  LET r == Candidate(scent[p], u)
      kind == IF ~scent[p].online THEN "Discovered"
              ELSE IF scent[p].url # u THEN "EndpointChanged" ELSE "Updated"
  IN /\ scent' = [scent EXCEPT ![p] = r]
     /\ unsent' = Append(unsent, [by |-> "resolver", ev |-> Event(kind, p, r)])
     /\ met' = IF a.key = p THEN [met EXCEPT ![p] = clock] ELSE met

(* The resolver goes through one resolved service at a time and keeps the  *)
(* first address whose server/info proves the michi_id; an answer that     *)
(* proves nothing, or none, changes nothing.                               *)
handle_resolved_service(p, u, a) ==
  /\ verify_identity_endpoint(p, a)
  /\ \A i \in 1..Len(unsent) : unsent[i].by # "resolver"
  /\ observe_mdns_candidate(p, u, a)
  /\ UNCHANGED <<clock, swept, channel, lagging, bridge, heard, astray>>

\* The send that follows the release of the lock.
SendUnsent(i) ==
  /\ i \in 1..Len(unsent)
  /\ LET mine == unsent[i]
         overtakes == \E j \in 1..(i - 1) : unsent[j].ev.peer = mine.ev.peer
         rest == [k \in 1..(Len(unsent) - 1) |->
                    LET u == IF k < i THEN unsent[k] ELSE unsent[k + 1]
                    IN IF overtakes /\ k < i /\ u.ev.peer = mine.ev.peer
                       THEN [u EXCEPT !.ev.stale = TRUE] ELSE u]
     IN /\ unsent' = rest
        /\ Sent(<<mine.ev>>)
  /\ UNCHANGED <<clock, swept, scent, listening, projected, heard, met>>

Swept(r) ==
  CASE effective_presence(r) = "verified" -> r
    [] effective_presence(r) = "provisional" ->
         [r EXCEPT !.source = "mdns", !.verified = FALSE]
    [] OTHER -> [r EXCEPT !.online = FALSE, !.verified = FALSE]

(* The sweep; the records come in the order of the hash map.               *)
check_expirations ==
  LET after == [p \in Peers |-> IF scent[p].online THEN Swept(scent[p]) ELSE scent[p]]
      changed == {p \in Peers : after[p] # scent[p]}
      Kind(p) == IF after[p].online THEN "Updated" ELSE "Offline"
  IN /\ ~swept /\ swept' = TRUE
     /\ scent' = after
     /\ \E order \in [1..Cardinality(changed) -> changed] :
          /\ \A p \in changed : \E i \in DOMAIN order : order[i] = p
          /\ Sent([i \in DOMAIN order |-> Event(Kind(order[i]), order[i], after[order[i]])])
     /\ UNCHANGED <<clock, unsent, listening, projected, heard, met>>

(* The sweeper and a thread between its unlock and its send are never a    *)
(* whole period late.                                                      *)
PassTime ==
  /\ clock < Expiry + MaxTicks /\ swept /\ unsent = <<>>
  /\ clock' = clock + 1 /\ swept' = FALSE
  /\ UNCHANGED <<scents, bridge, heard, met, astray>>

-----------------------------------------------------------------------------
(* The bridge: subscribe, then a snapshot, then the events.                *)

list_online == {p \in Peers : effective_presence(scent[p]) # "offline"}

Target(e) ==
  IF e.source = "signed" /\ e.verified THEN "verified" ELSE "provisional"

\* An entry is written: it follows the store unless the event was overtaken.
Project(p, presence, url, stale) ==
  /\ projected' = [projected EXCEPT ![p] = [presence |-> presence, url |-> url]]
  /\ astray' = IF stale THEN astray \union {p} ELSE astray \ {p}

\* A record that names no base URL is kept in the scent store only.
reconcile_record(e) ==
  IF (~e.verified /\ e.source # "mdns") \/ e.url = NoUrl
  THEN UNCHANGED <<projected, astray>>
  ELSE Project(e.peer, Target(e), e.url, e.stale)

\* Mutant: an endpoint's new URL is noted and its new presence is not.
handle_event_url_only(e) ==
  IF e.kind \in {"Discovered", "Updated"} THEN reconcile_record(e)
  ELSE IF projected[e.peer].presence = "none" THEN UNCHANGED <<projected, astray>>
  ELSE IF e.kind = "EndpointChanged"
  THEN Project(e.peer, projected[e.peer].presence, e.url, e.stale)
  ELSE Project(e.peer, "offline", projected[e.peer].url, e.stale)

handle_event(e) ==
  IF e.kind \in {"Discovered", "Updated"} THEN reconcile_record(e)
  ELSE IF projected[e.peer].presence = "none" THEN UNCHANGED <<projected, astray>>
  ELSE IF e.kind = "EndpointChanged" THEN Project(e.peer, Target(e), e.url, e.stale)
  ELSE Project(e.peer, "offline", projected[e.peer].url, e.stale)

BridgeStart ==
  /\ ~listening /\ listening' = TRUE
  /\ snapshot' = {Event("Updated", p, scent[p]) : p \in list_online}
  /\ UNCHANGED <<clock, swept, scents, projected, heard, met, astray>>

BridgeRecv ==
  /\ listening /\ snapshot = {} /\ ~lagging /\ channel # <<>>
  /\ handle_event(Head(channel))
  /\ channel' = Tail(channel)
  /\ UNCHANGED <<clock, swept, scent, unsent, lagging, listening, snapshot, heard, met>>

BridgeLagged ==
  /\ listening /\ snapshot = {} /\ lagging
  /\ lagging' = FALSE
  /\ snapshot' = {Event("Updated", p, scent[p]) : p \in list_online}
  /\ UNCHANGED <<clock, swept, scent, unsent, channel, listening, projected, heard, met, astray>>

reconcile_snapshot ==
  /\ \E e \in snapshot :
       /\ reconcile_record(e)
       /\ snapshot' = snapshot \ {e}
  /\ UNCHANGED <<clock, swept, scents, listening, heard, met>>

(* The other writers of an entry's presence: an authentication that        *)
(* succeeded and a revocation.                                             *)
NotePresence(p, presence) ==
  /\ projected[p].presence # "none"
  /\ projected' = [projected EXCEPT ![p].presence = presence]
  /\ astray' = astray \union {p}
  /\ UNCHANGED <<clock, swept, scents, listening, snapshot, heard, met>>

authenticate_receiver(p) == NotePresence(p, "verified")
revoke_device(p) == NotePresence(p, "offline")

PresNext ==
  \/ \E p \in Peers : handle_packet(p)
  \/ \E p \in Peers, u \in Urls, a \in Answers : handle_resolved_service(p, u, a)
  \/ \E i \in 1..2 : SendUnsent(i)
  \/ check_expirations
  \/ PassTime
  \/ BridgeStart \/ BridgeRecv \/ BridgeLagged \/ reconcile_snapshot
  \/ \E p \in Peers : authenticate_receiver(p) \/ revoke_device(p)

PresSpec == PresInit /\ [][PresNext]_presVars

-----------------------------------------------------------------------------
(* Properties.                                                             *)

BridgeIdle ==
  listening /\ ~lagging /\ swept /\ unsent = <<>> /\ channel = <<>> /\ snapshot = {}

(* A record is verified only while the peer itself announced within the    *)
(* expiry, and online only while it was announced or met within it, up to  *)
(* the one period the sweep may be late: mDNS never lends trust, and a     *)
(* trust whose announcements stopped is gone although mDNS goes on.        *)
PresenceIsEarned ==
  LET slack == IF swept THEN 0 ELSE 1
      Recent(t) == clock < t + Expiry + slack
  IN \A p \in Peers :
       /\ scent[p].verified => Recent(heard[p])
       /\ scent[p].online => (Recent(heard[p]) \/ Recent(met[p]))

(* Once the bridge has nothing left to do, an entry of the registry shows  *)
(* the presence and the URL of the peer's record, whatever order the two   *)
(* observers, the sweep, an overrun channel and its snapshot came in, but  *)
(* for the peers in astray: those whose last event to be dealt with was    *)
(* sent after a newer one, whose Offline was overrun in the channel, or    *)
(* whose entry another writer changed, until the bridge writes it again.   *)
RegistryFollows ==
  BridgeIdle =>
    \A p \in Peers \ astray :
      (projected[p].presence # "none" /\ scent[p].url # NoUrl) =>
        /\ projected[p].presence =
             IF ~scent[p].online THEN "offline"
             ELSE IF scent[p].verified THEN "verified" ELSE "provisional"
        /\ scent[p].online => projected[p].url = scent[p].url

(* Presence is earned by the peer's own announcements and is what the      *)
(* registry shows once the events have been dealt with, but for astray.    *)
PresenceTrue == PresenceIsEarned /\ RegistryFollows
=============================================================================
