----------------------------- MODULE ImportContract -----------------------------
(***************************************************************************)
(* What an import session promises its client.  A file is acknowledged     *)
(* while the session is open.  A commit publishes, at once, at least every *)
(* file acknowledged so far, except those of which an upload broke off     *)
(* before the acknowledgement; a session that is rolled back or expires    *)
(* publishes nothing; none of the three ends is ever left.                 *)
(***************************************************************************)
CONSTANTS Sessions, Contents

VARIABLES phase, acked, broken, published
contractVars == <<phase, acked, broken, published>>

ContractInit ==
  /\ phase = [s \in Sessions |-> "none"]
  /\ acked = [s \in Sessions |-> {}] /\ broken = [s \in Sessions |-> {}]
  /\ published = [s \in Sessions |-> {}]

Open(s) ==
  /\ phase[s] = "none" /\ phase' = [phase EXCEPT ![s] = "open"]
  /\ UNCHANGED <<acked, broken, published>>

Acknowledge(s, x) ==
  /\ phase[s] \in {"open", "failed"} /\ acked' = [acked EXCEPT ![s] = @ \union {x}]
  /\ UNCHANGED <<phase, broken, published>>

\* Uploads break off, one or all of them at once; nothing acknowledged is lost by it.
BreakOff ==
  /\ \E lost \in [Sessions -> SUBSET Contents] :
       /\ \A s \in Sessions : lost[s] \intersect acked[s] = {}
       /\ broken' = [s \in Sessions |-> broken[s] \union lost[s]]
  /\ UNCHANGED <<phase, acked, published>>

\* A refused commit leaves the session failed; another upload opens it again.
Fail(s) ==
  /\ phase[s] = "open" /\ phase' = [phase EXCEPT ![s] = "failed"]
  /\ UNCHANGED <<acked, broken, published>>

Reopen(s) ==
  /\ phase[s] = "failed" /\ phase' = [phase EXCEPT ![s] = "open"]
  /\ UNCHANGED <<acked, broken, published>>

Publish(s) ==
  /\ phase[s] = "open" /\ phase' = [phase EXCEPT ![s] = "committed"]
  /\ \E files \in SUBSET Contents :
       acked[s] \ broken[s] \subseteq files /\ published' = [published EXCEPT ![s] = files]
  /\ UNCHANGED <<acked, broken>>

Drop(s) ==
  /\ phase[s] \in {"open", "failed"}
  /\ \E end \in {"rolled_back", "expired"} : phase' = [phase EXCEPT ![s] = end]
  /\ UNCHANGED <<acked, broken, published>>

ContractNext ==
  \/ BreakOff
  \/ \E s \in Sessions :
       \/ Open(s) \/ Fail(s) \/ Reopen(s) \/ Publish(s) \/ Drop(s)
       \/ \E x \in Contents : Acknowledge(s, x)

ContractSpec == ContractInit /\ [][ContractNext]_contractVars
=============================================================================
