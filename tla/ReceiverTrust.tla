------------------------------ MODULE ReceiverTrust ------------------------------
(***************************************************************************)
(* Which receivers the home trusts: pairing with its journal, mutual       *)
(* authentication, revocation with its outbox, and what a restart makes of *)
(* the database (michi-receivers session_manager.rs, the receiver routes,  *)
(* the discovery bridge, bootstrap_runtime and the michi-db functions      *)
(* behind them).                                                           *)
(*                                                                         *)
(* One receiver is paired, authenticated and revoked; one other receiver   *)
(* of the home is the target its revocation is delivered to.  Every        *)
(* database statement and every HTTP exchange is a step.  Of a token only  *)
(* whether there is one is kept; keys, signatures, capabilities and        *)
(* presence are left out: what they can make fail is a refusal.            *)
(***************************************************************************)
EXTENDS Naturals

CONSTANTS
  Workers,     \* concurrent calls of flush_revocation_outbox
  Hazards,     \* the disturbances an instance contains
  MaxFaults,   \* bound on disturbances
  MaxRevokes   \* bound on revocations

ASSUME TrustAssumption ==
  /\ Hazards \subseteq {"lost", "refuse", "dbfail", "crash", "gap", "race"}
  /\ {MaxFaults, MaxRevokes} \subseteq Nat
  /\ Workers \intersect {"pair", "auth", "revoke", "boot"} = {}

VARIABLES
  db,       \* the tables receivers, receiver_credentials, home_revocations, ...
  mem,      \* the manager: registry entry, revocations, trust state, ...
  rcv,      \* the pairing session of the receiver
  told,     \* whether the target knows of the revocation
  pc, tok,  \* control of each task, and whether it holds a token
  revokes, faults

vars == <<db, mem, rcv, told, pc, tok, revokes, faults>>

Tasks == {"pair", "auth", "revoke", "boot"} \union Workers

JournalStates == {"none", "started", "confirm_sent", "remote_outcome_unknown",
                  "token_received", "persisted", "failed", "recovery_required"}

(***************************************************************************)
(* The statements of michi-db, each on the row d                           *)
(***************************************************************************)
record_pairing_journal_start(d) == [d EXCEPT !.journal = "started", !.jtok = FALSE]
record_pairing_journal(d, s) == [d EXCEPT !.journal = s]
record_pairing_journal_token(d, t) == [d EXCEPT !.journal = "token_received", !.jtok = t]

\* list_unrecovered_pairing_journals_db
Unrecovered == {"confirm_sent", "remote_outcome_unknown", "token_received", "recovery_required"}

persist_paired_receiver_transaction(d, paired, t) == [d EXCEPT !.paired = paired, !.cred = t]
delete_receiver(d) == [d EXCEPT !.paired = FALSE, !.cred = FALSE]

persist_home_revocation_transaction(d) == [d EXCEPT !.rev = TRUE, !.outbox = "pending"]
list_home_revocations(d) == d.rev

\* list_due_revocation_outbox_db; the back-off of a failed attempt has passed.
due(d) == d.outbox \in {"pending", "failed"}
mark_delivering(d) == IF due(d) THEN [d EXCEPT !.outbox = "delivering"] ELSE d
mark_acknowledged(d) == [d EXCEPT !.outbox = "acknowledged"]
mark_attempt_failed(d) == [d EXCEPT !.outbox = "failed"]
reset_for_retry(d) ==
  IF d.outbox \in {"none", "acknowledged"} THEN d ELSE [d EXCEPT !.outbox = "pending"]

\* The registry entry as the discovery bridge projects it: known, not paired.
FreshEntry == [known |-> TRUE, paired |-> FALSE, token |-> FALSE, revoked |-> FALSE]
NoEntry == [FreshEntry EXCEPT !.known = FALSE]

Init ==
  /\ db = [paired |-> FALSE, cred |-> FALSE, rev |-> FALSE, journal |-> "none", jtok |-> FALSE,
           outbox |-> "none"]
  /\ mem = [entry |-> FreshEntry, revs |-> FALSE, trust |-> "Ready", pending |-> FALSE,
            authFlight |-> FALSE, outFlight |-> FALSE]
  /\ rcv = "none"
  /\ told = FALSE
  /\ pc = [t \in Tasks |-> "idle"]
  /\ tok = [t \in Tasks |-> FALSE]
  /\ revokes = 0
  /\ faults = 0

Goto(t, l) == pc' = [pc EXCEPT ![t] = l]
Fault(h) == h \in Hazards /\ faults < MaxFaults /\ faults' = faults + 1
Fine == UNCHANGED faults
Booted == pc["boot"] = "idle"

\* The receiver issues a token and the task keeps it.
authenticate(t) == tok' = [tok EXCEPT ![t] = TRUE]
push_revocation == told' = TRUE
pair_start == rcv' = "open"
pair_confirm == tok' = [tok EXCEPT !["pair"] = TRUE] /\ rcv' = "confirmed"
pair_status == rcv
pair_recover == tok' = [tok EXCEPT !["pair"] = TRUE] /\ UNCHANGED rcv

\* A task is over.
Done(t) == Goto(t, "idle") /\ tok' = [tok EXCEPT ![t] = FALSE]

(***************************************************************************)
(* Pairing: start_pairing and confirm_pairing, in one request or in two    *)
(***************************************************************************)
\* A paired receiver is not paired again; the journal is written after the pending pairing.
StartPairing ==
  /\ pc["pair"] = "idle" /\ Booted
  /\ ~mem.entry.paired
  /\ pair_start
  /\ mem' = [mem EXCEPT !.pending = TRUE]
  /\ db' = record_pairing_journal_start(db)
  /\ Goto("pair", "confirm")
  /\ UNCHANGED <<told, tok, revokes, faults>>

\* The receiver is checked again and the journal notes that the request is about to be sent.
ConfirmSent ==
  /\ pc["pair"] = "confirm"
  /\ \/ db' = record_pairing_journal(db, "confirm_sent") /\ Goto("pair", "send") /\ Fine
     \/ UNCHANGED db /\ Goto("pair", "idle") /\ Fault("refuse")
  /\ UNCHANGED <<mem, rcv, told, tok, revokes>>

\* pair_confirm: a wrong PIN keeps the pending pairing, an expired one drops it.
Send ==
  /\ pc["pair"] = "send"
  /\ \/ /\ pair_confirm /\ Goto("pair", "noteToken") /\ Fine
        /\ UNCHANGED mem
     \/ /\ Fault("lost") /\ Goto("pair", "unknown")
        /\ rcv' = "confirmed"
        /\ UNCHANGED <<mem, tok>>
     \/ /\ Fault("lost") /\ Goto("pair", "unknown")
        /\ UNCHANGED <<mem, rcv, tok>>
     \/ /\ Fault("refuse") /\ Goto("pair", "idle")
        /\ mem' \in {mem, [mem EXCEPT !.pending = FALSE]}
        /\ UNCHANGED <<rcv, tok>>
  /\ UNCHANGED <<db, told, revokes>>

\* Mutant: a request without an answer counts as one that failed.
OutcomeFailed ==
  /\ pc["pair"] = "unknown"
  /\ db' = record_pairing_journal(db, "failed")
  /\ Goto("pair", "status")
  /\ UNCHANGED <<mem, rcv, told, tok, revokes, faults>>

OutcomeUnknown ==
  /\ pc["pair"] = "unknown"
  /\ db' = record_pairing_journal(db, "remote_outcome_unknown")
  /\ Goto("pair", "status")
  /\ UNCHANGED <<mem, rcv, told, tok, revokes, faults>>

\* pair_status: a session that was confirmed after all is recovered under a new token.
AskStatus ==
  /\ pc["pair"] = "status"
  /\ \/ pair_status # "confirmed" /\ Goto("pair", "idle") /\ Fine /\ UNCHANGED <<rcv, tok>>
     \/ pair_status = "confirmed" /\ pair_recover /\ Goto("pair", "noteToken") /\ Fine
     \/ Fault("lost") /\ Goto("pair", "idle") /\ UNCHANGED <<rcv, tok>>
  /\ UNCHANGED <<db, mem, told, revokes>>

\* Mutant: the journal gets a state that no reader of it knows.
NoteMisspelt ==
  /\ pc["pair"] = "noteToken"
  /\ db' = [db EXCEPT !.journal = "received", !.jtok = tok["pair"]]
  /\ Goto("pair", "register")
  /\ UNCHANGED <<mem, rcv, told, tok, revokes, faults>>

NoteToken ==
  /\ pc["pair"] = "noteToken"
  /\ db' = record_pairing_journal_token(db, tok["pair"])
  /\ Goto("pair", "register")
  /\ UNCHANGED <<mem, rcv, told, tok, revokes, faults>>

\* The identity is checked once more; then the entry is replaced.
Register ==
  /\ pc["pair"] = "register"
  /\ \/ /\ mem' = [mem EXCEPT !.entry = [FreshEntry EXCEPT !.paired = TRUE, !.token = tok["pair"]]]
        /\ Goto("pair", "complete") /\ Fine
     \/ UNCHANGED mem /\ Goto("pair", "abandon") /\ Fault("lost")
  /\ UNCHANGED <<db, rcv, told, tok, revokes>>

Abandon ==
  /\ pc["pair"] = "abandon"
  /\ db' = record_pairing_journal(db, "recovery_required")
  /\ Done("pair")
  /\ UNCHANGED <<mem, rcv, told, revokes, faults>>

\* The journal is closed before the receiver is stored.
Complete ==
  /\ pc["pair"] = "complete"
  /\ db' = record_pairing_journal(db, "persisted")
  /\ mem' = [mem EXCEPT !.pending = FALSE]
  /\ Goto("pair", "persist")
  /\ UNCHANGED <<rcv, told, tok, revokes, faults>>

\* persist_paired_receiver, three attempts: an entry that lost its token meanwhile is not stored.
\* The confirm route then sets the journal back, the discover route does not.
Persist ==
  /\ pc["pair"] = "persist"
  /\ \/ /\ mem.entry.token
        /\ db' = persist_paired_receiver_transaction(db, mem.entry.paired, TRUE)
        /\ Done("pair") /\ Fine
     \/ /\ UNCHANGED db
        /\ \/ /\ Goto("pair", "abandon") /\ UNCHANGED tok
              /\ IF mem.entry.token THEN Fault("dbfail") ELSE Fine
           \/ Done("pair") /\ IF mem.entry.token THEN Fault("gap") ELSE Fine
  /\ UNCHANGED <<mem, rcv, told, revokes>>

(***************************************************************************)
(* authenticate_receiver, called by the routes, by a session that the      *)
(* receiver refuses and by the discovery bridge                            *)
(***************************************************************************)
\* authenticate_url, the pair/start route of a home: a receiver that is not known gets an entry.
AuthUrl ==
  /\ pc["auth"] = "idle" /\ Booted
  /\ ~mem.entry.known
  /\ mem' = [mem EXCEPT !.entry = FreshEntry]
  /\ Goto("auth", "enter")
  /\ UNCHANGED <<db, rcv, told, tok, revokes, faults>>

\* One authentication of a receiver at a time (single_flight_auth).
AuthEnter ==
  /\ pc["auth"] \in {"idle", "enter"} /\ Booted
  /\ mem.entry.known /\ ~mem.authFlight
  /\ "race" \in Hazards \/ (pc["revoke"] = "idle" /\ pc["pair"] = "idle")
  /\ mem' = [mem EXCEPT !.authFlight = TRUE]
  /\ Goto("auth", "check")
  /\ UNCHANGED <<db, rcv, told, tok, revokes, faults>>

\* A revoked receiver is refused, and its entry marked if only the list knew.
AuthCheck ==
  /\ pc["auth"] = "check"
  /\ LET refused == mem.trust # "Ready" \/ mem.entry.revoked \/ mem.revs IN
     /\ mem' = IF mem.revs /\ mem.trust = "Ready" /\ ~mem.entry.revoked
               THEN [mem EXCEPT !.entry = [FreshEntry EXCEPT !.revoked = TRUE],
                                !.authFlight = FALSE]
               ELSE [mem EXCEPT !.authFlight = ~refused]
     /\ Goto("auth", IF refused THEN "idle" ELSE "call")
  /\ UNCHANGED <<db, rcv, told, tok, revokes, faults>>

AuthCall ==
  /\ pc["auth"] = "call"
  /\ \/ authenticate("auth") /\ Goto("auth", "put") /\ Fine /\ UNCHANGED mem
     \/ /\ Fault("lost") /\ Goto("auth", "idle")
        /\ mem' = [mem EXCEPT !.authFlight = FALSE]
        /\ UNCHANGED tok
  /\ UNCHANGED <<db, rcv, told, revokes>>

AuthPut ==
  /\ pc["auth"] = "put"
  /\ mem' = [mem EXCEPT !.entry.token = tok["auth"], !.entry.paired = TRUE]
  /\ Goto("auth", "save")
  /\ UNCHANGED <<db, rcv, told, tok, revokes, faults>>

\* The pairing is stored in one transaction; a failure is ignored.
AuthSave ==
  /\ pc["auth"] = "save"
  /\ \/ db' = persist_paired_receiver_transaction(db, TRUE, tok["auth"]) /\ Fine
     \/ UNCHANGED db /\ Fault("gap")
  /\ mem' = [mem EXCEPT !.authFlight = FALSE]
  /\ Done("auth")
  /\ UNCHANGED <<rcv, told, revokes>>

(***************************************************************************)
(* revoke_device                                                           *)
(***************************************************************************)
\* Mutant: a failure of the transaction is logged and the revocation goes on.
RevokeVolatile ==
  /\ pc["revoke"] = "idle" /\ Booted
  /\ revokes < MaxRevokes
  /\ "race" \in Hazards \/ (pc["auth"] = "idle" /\ pc["pair"] = "idle")
  /\ revokes' = revokes + 1
  /\ \/ db' = persist_home_revocation_transaction(db) /\ Fine
     \/ UNCHANGED db /\ Fault("dbfail")
  /\ Goto("revoke", "note")
  /\ UNCHANGED <<mem, rcv, told, tok>>

\* The revocation and the outbox entry of its target are one transaction, and come first.
RevokePersist ==
  /\ pc["revoke"] = "idle" /\ Booted
  /\ revokes < MaxRevokes
  /\ "race" \in Hazards \/ (pc["auth"] = "idle" /\ pc["pair"] = "idle")
  /\ revokes' = revokes + 1
  /\ \/ /\ db' = persist_home_revocation_transaction(db)
        /\ Goto("revoke", "note") /\ Fine
     \/ UNCHANGED db /\ UNCHANGED pc /\ Fault("dbfail")
  /\ UNCHANGED <<mem, rcv, told, tok>>

RevokeNote ==
  /\ pc["revoke"] = "note"
  /\ mem' = [mem EXCEPT !.revs = TRUE]
  /\ Goto("revoke", "mark")
  /\ UNCHANGED <<db, rcv, told, tok, revokes, faults>>

\* The session is stopped (ReceiverSessions) and the outbox flushed (FlushList) after this.
RevokeMark ==
  /\ pc["revoke"] = "mark"
  /\ mem' = [mem EXCEPT !.entry = IF @.known THEN [FreshEntry EXCEPT !.revoked = TRUE] ELSE @]
  /\ Goto("revoke", "idle")
  /\ UNCHANGED <<db, rcv, told, tok, revokes, faults>>

(***************************************************************************)
(* flush_revocation_outbox, every 30 s and after a revocation              *)
(***************************************************************************)
FlushList(w) ==
  /\ pc[w] = "idle" /\ Booted
  /\ mem.trust = "Ready"
  /\ due(db)
  /\ Goto(w, "enter")
  /\ UNCHANGED <<db, mem, rcv, told, tok, revokes, faults>>

\* Mutant: the entry is delivered although another call is at it.
FlushEnterAnyway(w) ==
  /\ pc[w] = "enter"
  /\ mem' = [mem EXCEPT !.outFlight = TRUE]
  /\ Goto(w, "claim")
  /\ UNCHANGED <<db, rcv, told, tok, revokes, faults>>

FlushEnter(w) ==
  /\ pc[w] = "enter"
  /\ mem' = [mem EXCEPT !.outFlight = TRUE]
  /\ Goto(w, IF mem.outFlight THEN "idle" ELSE "claim")
  /\ UNCHANGED <<db, rcv, told, tok, revokes, faults>>

\* The claim in the database decides: an entry that is not due any more is skipped.
FlushClaim(w) ==
  /\ pc[w] = "claim"
  /\ db' = mark_delivering(db)
  /\ Goto(w, IF due(db) THEN "push" ELSE "leave")
  /\ UNCHANGED <<mem, rcv, told, tok, revokes, faults>>

\* The revocation is looked up, verified and pushed to where the target is now.
FlushPush(w) ==
  /\ pc[w] = "push"
  /\ \/ push_revocation /\ Goto(w, "ack") /\ Fine
     \/ told' \in {told, TRUE} /\ Goto(w, "nack") /\ Fault("lost")
  /\ UNCHANGED <<db, mem, rcv, tok, revokes>>

\* Mutant: a failed attempt is acknowledged, too.
FlushNoteAck(w) ==
  /\ pc[w] \in {"ack", "nack"}
  /\ db' = mark_acknowledged(db)
  /\ Goto(w, "leave")
  /\ UNCHANGED <<mem, rcv, told, tok, revokes, faults>>

\* The outcome is noted; that this fails is ignored.
FlushNote(w) ==
  /\ pc[w] \in {"ack", "nack"}
  /\ \/ db' = (IF pc[w] = "ack" THEN mark_acknowledged(db) ELSE mark_attempt_failed(db)) /\ Fine
     \/ UNCHANGED db /\ Fault("gap")
  /\ Goto(w, "leave")
  /\ UNCHANGED <<mem, rcv, told, tok, revokes>>

\* Mutant: the flight is left open.
FlushLeaveOpen(w) ==
  /\ pc[w] = "leave"
  /\ Goto(w, "idle")
  /\ UNCHANGED <<db, mem, rcv, told, tok, revokes, faults>>

FlushLeave(w) ==
  /\ pc[w] = "leave"
  /\ mem' = [mem EXCEPT !.outFlight = FALSE]
  /\ Goto(w, "idle")
  /\ UNCHANGED <<db, rcv, told, tok, revokes, faults>>

\* retry_outbox_delivery, asked for by an administrator.
RetryOutbox ==
  /\ Booted
  /\ reset_for_retry(db) # db
  /\ db' = reset_for_retry(db)
  /\ UNCHANGED <<mem, rcv, told, pc, tok, revokes, faults>>

(***************************************************************************)
(* delete_receiver_handler and the discovery bridge                        *)
(***************************************************************************)
Delete ==
  /\ Booted
  /\ "race" \in Hazards \/ \A t \in Tasks \ Workers : pc[t] = "idle"
  /\ mem.entry.known
  /\ db' = delete_receiver(db)
  /\ mem' = [mem EXCEPT !.entry = NoEntry]
  /\ rcv' = "none"
  /\ UNCHANGED <<told, pc, tok, revokes, faults>>

\* A receiver that is heard of again gets an entry (reconcile_record).
Discover ==
  /\ Booted
  /\ ~mem.entry.known
  /\ mem' = [mem EXCEPT !.entry = FreshEntry]
  /\ UNCHANGED <<db, rcv, told, pc, tok, revokes, faults>>

(***************************************************************************)
(* Crash and bootstrap_runtime                                             *)
(***************************************************************************)
\* The windows in which a crash loses something that the database does not tell.
InGap ==
  \/ pc["pair"] \in {"persist", "abandon"} /\ db.journal = "persisted"
  \/ db.outbox = "delivering"

Crash ==
  /\ IF InGap THEN "gap" \in Hazards /\ Fault("gap") ELSE Fault("crash")
  /\ mem' = [mem EXCEPT !.entry = NoEntry, !.revs = FALSE, !.trust = "Ready",
                        !.pending = FALSE, !.authFlight = FALSE, !.outFlight = FALSE]
  /\ pc' = [t \in Tasks |-> IF t = "boot" THEN "revocations" ELSE "idle"]
  /\ tok' = [t \in Tasks |-> FALSE]
  /\ UNCHANGED <<db, rcv, told, revokes>>

\* load_persisted_revocations: the registry it marks is still empty.
LoadRevocations ==
  /\ pc["boot"] = "revocations"
  /\ \/ mem' = [mem EXCEPT !.revs = list_home_revocations(db)] /\ Fine
     \/ mem' = [mem EXCEPT !.trust = "RecoveryRequired"] /\ Fault("dbfail")
  /\ Goto("boot", "receivers")
  /\ UNCHANGED <<db, rcv, told, tok, revokes>>

Restored(d) ==
  IF ~d.paired /\ ~d.cred THEN NoEntry
  ELSE [FreshEntry EXCEPT !.paired = d.paired /\ d.cred, !.token = d.cred]

RestoreReceivers ==
  /\ pc["boot"] = "receivers"
  /\ mem' = [mem EXCEPT !.entry = Restored(db)]
  /\ Goto("boot", "reconcile")
  /\ UNCHANGED <<db, rcv, told, tok, revokes, faults>>

\* reconcile_unrecovered_pairings.  The token of the journal is verified and used.
FromJournal ==
  /\ db.journal = "token_received"
  /\ tok' = [tok EXCEPT !["boot"] = db.jtok]
  /\ Goto("boot", "restore")
  /\ UNCHANGED <<db, faults>>

\* A stream receiver is authenticated, unless it has been revoked.
FromReceiver ==
  \/ /\ mem.trust = "Ready" /\ ~mem.revs
     /\ authenticate("boot") /\ Goto("boot", "restore")
     /\ UNCHANGED <<db, faults>>
  \/ /\ IF mem.trust = "Ready" /\ ~mem.revs THEN Fault("lost") ELSE Fine
     /\ db' = record_pairing_journal(db, "recovery_required")
     /\ Goto("boot", "idle")
     /\ UNCHANGED tok

\* A receiver that does not tell what it is is asked for its pairing session.
FromSession ==
  /\ Fault("lost")
  /\ \/ /\ pair_status = "confirmed"
        /\ tok' = [tok EXCEPT !["boot"] = TRUE]
        /\ Goto("boot", "restore")
        /\ UNCHANGED db
     \/ /\ pair_status # "confirmed"
        /\ db' = record_pairing_journal(db, "failed")
        /\ Goto("boot", "idle")
        /\ UNCHANGED tok
     \/ /\ Goto("boot", "idle")
        /\ UNCHANGED <<db, tok>>

\* A receiver that is stored already closes the journal.
Reconcile ==
  /\ pc["boot"] = "reconcile"
  /\ \/ /\ db.journal \notin Unrecovered \/ db.paired
        /\ db' = IF db.journal \in Unrecovered THEN record_pairing_journal(db, "persisted") ELSE db
        /\ Goto("boot", "idle")
        /\ UNCHANGED <<tok, faults>>
     \/ /\ db.journal \in Unrecovered /\ ~db.paired
        /\ FromJournal \/ FromReceiver \/ FromSession
  /\ UNCHANGED <<mem, rcv, told, revokes>>

\* The recovered receiver is stored, entered and the journal closed, in this order.
RestorePairing ==
  /\ pc["boot"] = "restore"
  /\ db' = persist_paired_receiver_transaction(db, TRUE, tok["boot"])
  /\ Goto("boot", "enter")
  /\ UNCHANGED <<mem, rcv, told, tok, revokes, faults>>

EnterRestored ==
  /\ pc["boot"] = "enter"
  /\ mem' = [mem EXCEPT !.entry = [FreshEntry EXCEPT !.paired = TRUE, !.token = tok["boot"]]]
  /\ db' = record_pairing_journal(db, "persisted")
  /\ Done("boot")
  /\ UNCHANGED <<rcv, told, revokes, faults>>

Pairing ==
  StartPairing \/ ConfirmSent \/ Send \/ OutcomeUnknown \/ AskStatus \/ NoteToken \/ Register
    \/ Abandon \/ Complete \/ Persist
Authentication == AuthUrl \/ AuthEnter \/ AuthCheck \/ AuthCall \/ AuthPut \/ AuthSave
Revocation == RevokePersist \/ RevokeNote \/ RevokeMark \/ RetryOutbox
Flush(w) ==
  FlushList(w) \/ FlushEnter(w) \/ FlushClaim(w) \/ FlushPush(w) \/ FlushNote(w) \/ FlushLeave(w)
Boot == LoadRevocations \/ RestoreReceivers \/ Reconcile \/ RestorePairing \/ EnterRestored

Next ==
  Pairing \/ Authentication \/ Revocation \/ (\E w \in Workers : Flush(w)) \/ Delete \/ Discover
    \/ Crash \/ Boot

\* A flush comes every 30 s, and a call of it runs to its end; so does a start of the server.
Spec == Init /\ [][Next]_vars /\ WF_vars(Boot) /\ \A w \in Workers : WF_vars(Flush(w))

-----------------------------------------------------------------------------
Entries == [known: BOOLEAN, paired: BOOLEAN, token: BOOLEAN, revoked: BOOLEAN]

TypeOK ==
  /\ db \in [paired: BOOLEAN, cred: BOOLEAN, rev: BOOLEAN, journal: JournalStates,
             jtok: BOOLEAN, outbox: {"none", "pending", "delivering", "acknowledged", "failed"}]
  /\ mem \in [entry: Entries, revs: BOOLEAN, trust: {"Ready", "RecoveryRequired"},
              pending: BOOLEAN, authFlight: BOOLEAN, outFlight: BOOLEAN]
  /\ rcv \in {"none", "open", "confirmed"}
  /\ tok \in [Tasks -> BOOLEAN]

\* A revocation is durable before anything acts on it: whatever refuses the receiver in memory is
\* in the database, whenever the server crashes (revoke_device, "Durable DB persistence first!").
RevocationIsDurable == mem.revs \/ mem.entry.revoked => db.rev

\* No two calls of flush_revocation_outbox deliver the same entry at the same time, although a
\* second revocation or a manual retry sets an entry back that is being delivered
\* (single_flight_outbox, mark_revocation_outbox_delivering_db).
OneDelivery ==
  \A v, w \in Workers :
    pc[v] \in {"push", "ack", "nack"} /\ pc[w] \in {"push", "ack", "nack"} => v = w

\* An entry is acknowledged only when the target knows of the revocation.
AcknowledgedIsTold == db.outbox = "acknowledged" => told

\* A pairing that the receiver has confirmed is stored, or the journal still lists it for the next
\* start of the server, or the receiver has been revoked meanwhile: no lost answer, refusal or
\* crash leaves it on one side only (confirm_pairing, reconcile_unrecovered_pairings).
PairingAccounted ==
  rcv = "confirmed" /\ pc["pair"] = "idle" /\ Booted
    => db.paired \/ db.journal \in Unrecovered \/ db.rev

\* The outbox delivers: an entry that is due is acknowledged in the end, whatever answers are lost
\* and however often the server starts anew, unless the server could not read its revocations and
\* trusts nobody (flush_revocation_outbox, load_persisted_revocations).
OutboxDelivers == db.outbox = "pending" ~> db.outbox = "acknowledged" \/ mem.trust # "Ready"

\* A receiver that was revoked is still refused after a restart: "Reconcile registry: mark matching
\* receivers revoked" (load_persisted_revocations).
RestartKeepsRevocation ==
  [][~Booted /\ pc'["boot"] = "idle" /\ db.rev => ~mem'.entry.paired \/ mem'.entry.revoked]_vars

\* Both sides' trust is accounted for across crashes and lost answers: a revocation acts only
\* once it is stored, is delivered by one worker at a time and acknowledged only when told, and
\* a confirmed pairing is stored or still in the journal (revoke_device, confirm_pairing and
\* flush_revocation_outbox).
TrustAccounted ==
  TypeOK /\ RevocationIsDurable /\ OneDelivery /\ AcknowledgedIsTold /\ PairingAccounted
=============================================================================
