------------------------------- MODULE DevicePairing -------------------------------
(***************************************************************************)
(* Paired devices: PIN pairing, QR codes, token refresh and revocation     *)
(* (routes/v1/pair.rs), the link_devices rows, and the in-memory           *)
(* TokenStore, which a task refills from the rows after a start.           *)
(*                                                                         *)
(* A token is a device, a kind and a number; number 0 of kind "device" is  *)
(* the one whose hash is in the row.  Requests are sequences of awaits.    *)
(* The pairing registry is external: of it a session is open or used.      *)
(* Names, permissions, URLs and the QR picture are left out.               *)
(***************************************************************************)
EXTENDS Naturals, FiniteSets

CONSTANTS
  DevIds,          \* device ids, drawn afresh by every pairing
  Codes,           \* QR codes
  Visitors,        \* concurrent requests
  StartLimit,      \* pairing starts allowed per minute (10)
  ConfirmLimit,    \* confirmations allowed per minute (5), counted together with starts
  MaxPairings,     \* bound on PIN sessions
  MaxRefreshes,    \* bound on token refreshes
  MaxReboots,      \* bound on restarts
  NoDev            \* no device

ASSUME PairingAssumption ==
  /\ {StartLimit, ConfirmLimit, MaxPairings, MaxRefreshes, MaxReboots} \subseteq Nat
  /\ NoDev \notin DevIds

VARIABLES
  device,    \* link_devices: "none", "live" or "revoked"
  store,     \* TokenStore.by_hash: the tokens accepted
  pin,       \* PIN sessions that are open
  code,      \* pairing_qr_codes: "none", "open", "claimed", "expired" or "pruned"
  window,    \* pairing_attempts of the client: requests in this minute
  visit,     \* requests: stage, device, tokens still to store, refresh token in hand
  loader,    \* the task of a start: "off", or the rows it has read and not stored yet
  claims,    \* ghost: devices made from each code
  gone,      \* ghost: devices whose revocation was answered
  slipped,   \* ghost: devices something was still storing a token of at that moment
  spent,     \* ghost: refresh tokens whose exchange was answered
  npair, nfresh, nreboot

devVars == <<device, store, pin, code, window, visit, loader, claims, gone, slipped, spent,
             npair, nfresh, nreboot>>

Token(d, kind, n) == [dev |-> d, kind |-> kind, n |-> n]
NoVisit == [pc |-> "idle", dev |-> NoDev, put |-> {}, old |-> {}, n |-> 0]
NoLoader == [on |-> FALSE, todo |-> {}]

DevInit ==
  /\ device = [d \in DevIds |-> "none"] /\ store = {} /\ pin = 0
  /\ code = [q \in Codes |-> "none"] /\ window = 0
  /\ visit = [v \in Visitors |-> NoVisit] /\ loader = NoLoader
  /\ claims = [q \in Codes |-> {}] /\ gone = {} /\ slipped = {} /\ spent = {}
  /\ npair = 0 /\ nfresh = 0 /\ nreboot = 0

Goes(v, r) == visit' = [visit EXCEPT ![v] = r]
Over(v) == Goes(v, NoVisit)
devGhosts == <<claims, gone, slipped, spent>>
devCounts == <<npair, nfresh, nreboot>>

---------------------------------------------------------------------------
\* PIN pairing

\* The counter of the last minute; a refused request leaves it alone.
Admit(limit) == window < limit /\ window' = window + 1

MinutePasses ==
  /\ window > 0 /\ window' = 0
  /\ UNCHANGED <<device, store, pin, code, visit, loader, devGhosts, devCounts>>

link_pair_start ==
  /\ Admit(StartLimit) /\ npair < MaxPairings /\ npair' = npair + 1
  /\ pin' = pin + 1
  /\ UNCHANGED <<device, store, code, visit, loader, devGhosts, nfresh, nreboot>>

\* The registry gives the session to one confirmation; the tokens are drawn.
link_pair_confirm(v) ==
  /\ visit[v].pc = "idle" /\ Admit(ConfirmLimit)
  /\ pin > 0 /\ pin' = pin - 1
  /\ Goes(v, [NoVisit EXCEPT !.pc = "row"])
  /\ UNCHANGED <<device, store, code, loader, devGhosts, devCounts>>

InsertDevice(d) == device[d] = "none" /\ device' = [device EXCEPT ![d] = "live"]

\* A fresh row; its device token and a refresh token are stored next.
create_link_device(v) ==
  /\ visit[v].pc = "row"
  /\ \E d \in DevIds :
       /\ InsertDevice(d)
       /\ Goes(v, [NoVisit EXCEPT !.pc = "put", !.dev = d,
                                  !.put = {Token(d, "device", 0), Token(d, "refresh", 0)}])
  /\ UNCHANGED <<store, pin, code, window, loader, devGhosts, devCounts>>

\* TokenStore::store, the device token first; the last one is the answer.
StoreToken(v) ==
  LET r == visit[v]
  IN /\ r.pc = "put"
     /\ \E t \in r.put :
          /\ t.kind = "refresh" => r.put = {t}
          /\ store' = store \union {t}
          /\ IF r.put = {t} THEN Over(v) /\ spent' = spent \union r.old
             ELSE Goes(v, [r EXCEPT !.put = @ \ {t}]) /\ UNCHANGED spent
     /\ UNCHANGED <<device, pin, code, window, loader, claims, gone, slipped, devCounts>>

---------------------------------------------------------------------------
\* link_token_refresh: validate; revoke the old refresh token; store the new pair.

\* The tokens of a kind that the store accepts.
validate(kind) == {t \in store : t.kind = kind}

link_token_refresh(v) ==
  /\ visit[v].pc = "idle" /\ nfresh < MaxRefreshes /\ nfresh' = nfresh + 1
  /\ \E t \in validate("refresh") :
       Goes(v, [NoVisit EXCEPT !.pc = "rotate", !.dev = t.dev, !.old = {t}, !.n = nfresh'])
  /\ UNCHANGED <<device, store, pin, code, window, loader, devGhosts, npair, nreboot>>

\* Mutant: the old refresh token is kept.
RevokeNone(old) == store
revoke(old) == store \ old

Rotate(v) ==
  LET r == visit[v]
  IN /\ r.pc = "rotate"
     /\ store' = revoke(r.old)
     /\ Goes(v, [r EXCEPT !.pc = "put", !.put = {Token(r.dev, "device", r.n), Token(r.dev, "refresh", r.n)}])
     /\ UNCHANGED <<device, pin, code, window, loader, devGhosts, devCounts>>

---------------------------------------------------------------------------
\* QR codes

qr_generate(q) ==
  /\ code[q] = "none" /\ code' = [code EXCEPT ![q] = "open"]
  /\ UNCHANGED <<device, store, pin, window, visit, loader, devGhosts, devCounts>>

CodeExpires(q) ==
  /\ code[q] = "open" /\ code' = [code EXCEPT ![q] = "expired"]
  /\ UNCHANGED <<device, store, pin, window, visit, loader, devGhosts, devCounts>>

\* The hourly maintenance deletes the rows of codes that are claimed or expired.
run_hourly_maintenance(q) ==
  /\ code[q] \in {"claimed", "expired"} /\ code' = [code EXCEPT ![q] = "pruned"]
  /\ UNCHANGED <<device, store, pin, window, visit, loader, devGhosts, devCounts>>

\* Mutant: the code stays open.
ClaimOpen(q) == code[q] = "open" /\ UNCHANGED code
\* The transaction takes an open code: it was read unclaimed and not expired, and the
\* update names claimed = 0 again.
TakeCode(q) == code[q] = "open" /\ code' = [code EXCEPT ![q] = "claimed"]

\* qr_claim_handler: code and device row in one transaction; the token afterwards.
qr_claim(v, q) ==
  /\ visit[v].pc = "idle" /\ TakeCode(q)
  /\ \E d \in DevIds :
       /\ InsertDevice(d)
       /\ Goes(v, [NoVisit EXCEPT !.pc = "put", !.dev = d, !.put = {Token(d, "device", 0)}])
       /\ claims' = [claims EXCEPT ![q] = @ \union {d}]
  /\ UNCHANGED <<store, pin, window, loader, gone, slipped, spent, devCounts>>

---------------------------------------------------------------------------
\* Revocation, expiry, restart

\* Mutant: only the device tokens are dropped.
RevokeDeviceOnly(d) == {t \in store : t.dev = d /\ t.kind = "device"}
revoke_all_by_device(d) == {t \in store : t.dev = d}

revoke_link_device(d) == device[d] # "none" /\ device' = [device EXCEPT ![d] = "revoked"]

\* The row, then the store; then the answer.
link_devices_revoke(v) ==
  LET r == visit[v]
      storing == {visit[w].dev : w \in Visitors \ {v}} \union {t.dev : t \in loader.todo}
  IN /\ \/ /\ r.pc = "idle"
           /\ \E d \in DevIds : revoke_link_device(d)
                                /\ Goes(v, [NoVisit EXCEPT !.pc = "revoke", !.dev = d])
           /\ UNCHANGED <<store, gone, slipped>>
        \/ /\ r.pc = "revoke" /\ store' = store \ revoke_all_by_device(r.dev) /\ Over(v)
           /\ gone' = gone \union {r.dev}
           /\ slipped' = IF r.dev \in storing THEN slipped \union {r.dev} ELSE slipped
           /\ UNCHANGED device
     /\ UNCHANGED <<pin, code, window, loader, claims, spent, devCounts>>

\* Seven days are over, or the hourly cleanup finds them so.
TokenExpires ==
  /\ \E t \in store : store' = store \ {t}
  /\ UNCHANGED <<device, pin, code, window, visit, loader, devGhosts, devCounts>>

\* Everything but the rows is lost; load_tokens_from_db reads the rows of devices that
\* are not revoked.
Reboot ==
  /\ nreboot < MaxReboots /\ nreboot' = nreboot + 1
  /\ store' = {} /\ pin' = 0 /\ window' = 0
  /\ visit' = [v \in Visitors |-> NoVisit] /\ slipped' = {}
  /\ loader' = [on |-> TRUE, todo |-> {Token(d, "device", 0) : d \in {e \in DevIds : device[e] = "live"}}]
  /\ UNCHANGED <<device, code, claims, gone, spent, npair, nfresh>>

\* Each hash is stored for another seven days, or the task ends before it is through
\* (a failing query, an id it cannot decode).
load_tokens_from_db ==
  /\ loader.on
  /\ \/ \E t \in loader.todo : store' = store \union {t} /\ loader' = [loader EXCEPT !.todo = @ \ {t}]
     \/ loader' = NoLoader /\ UNCHANGED store
  /\ UNCHANGED <<device, pin, code, window, visit, devGhosts, devCounts>>

VisitorLeaves(v) ==
  /\ visit[v].pc # "idle" /\ Over(v)
  /\ UNCHANGED <<device, store, pin, code, window, loader, devGhosts, devCounts>>

DevNext ==
  \/ MinutePasses \/ link_pair_start \/ TokenExpires \/ Reboot \/ load_tokens_from_db
  \/ \E q \in Codes : qr_generate(q) \/ CodeExpires(q) \/ run_hourly_maintenance(q) \/ \E v \in Visitors : qr_claim(v, q)
  \/ \E v \in Visitors :
       \/ link_pair_confirm(v) \/ create_link_device(v) \/ StoreToken(v) \/ link_token_refresh(v)
       \/ Rotate(v) \/ link_devices_revoke(v) \/ VisitorLeaves(v)

DevSpec == DevInit /\ [][DevNext]_devVars

---------------------------------------------------------------------------
\* Properties

\* A device whose revocation was answered has no token of either kind, and no refresh
\* brings one back, unless a pairing, a refresh or the loader was about to store one
\* when the store was emptied; a restart ends even that.
RevokedIsDead == \A t \in store : t.dev \in gone => t.dev \in slipped

\* A QR code makes at most one device, however many clients claim it at once.
OneDevicePerCode == \A q \in Codes : Cardinality(claims[q]) <= 1

\* A refresh token that was exchanged is not accepted again: what was answered with a
\* new pair cannot be replayed.
SpentIsGone == spent \intersect store = {}

\* Device tokens end when they should: with the revocation of the device (but for what slipped
\* in during it), with the first exchange of a refresh token, and a pairing code is worth one
\* device.
TokensEnd == RevokedIsDead /\ OneDevicePerCode /\ SpentIsGone
=============================================================================
