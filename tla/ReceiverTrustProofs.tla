--------------------------- MODULE ReceiverTrustProofs ---------------------------
(***************************************************************************)
(* Proofs about ReceiverTrust: for every number of flushing workers, of    *)
(* revocations and of disturbances, a revocation acts only once it is      *)
(* stored, one worker delivers it at a time and it is acknowledged only    *)
(* when told; and, away from the windows that the "gap" disturbance names, *)
(* a confirmed pairing is stored or still listed by the journal.           *)
(***************************************************************************)
EXTENDS ReceiverTrust, TLAPS

\* A call of flush_revocation_outbox that holds the flight of the entry.
Delivering == {"claim", "push", "ack", "nack", "leave"}

\* revoke_device is past its transaction.
RevokeStored == pc["revoke"] \in {"note", "mark"} => db.rev

\* While bootstrap_runtime runs nothing else does.
BootAlone == pc["boot"] # "idle" => \A t \in Tasks \ {"boot"} : pc[t] = "idle"

\* The flight is held by one worker, which says so to the others.
FlightHeld ==
  /\ \A w \in Workers : pc[w] \in Delivering => mem.outFlight
  /\ \A v, w \in Workers : pc[v] \in Delivering /\ pc[w] \in Delivering => v = w

\* A worker acknowledges after the push was answered.
ToldFirst == \A w \in Workers : pc[w] = "ack" => told

\* Every task is somewhere.
PcType == pc = [t \in Tasks |-> pc[t]]

\* What holds of revocations whatever happens.
RevInv ==
  /\ TypeOK
  /\ PcType
  /\ RevocationIsDurable
  /\ RevokeStored
  /\ BootAlone
  /\ FlightHeld
  /\ ToldFirst
  /\ AcknowledgedIsTold

\* Where confirm_pairing is, the journal says so.
JournalFollows ==
  /\ pc["pair"] \in {"send", "unknown"} => db.journal = "confirm_sent"
  /\ pc["pair"] = "status" => db.journal = "remote_outcome_unknown"
  /\ pc["pair"] = "noteToken" => db.journal \in {"confirm_sent", "remote_outcome_unknown"}
  /\ pc["pair"] \in {"register", "complete"} => db.journal = "token_received"
  /\ pc["pair"] = "persist" => db.journal = "persisted"
  /\ pc["pair"] = "abandon" => db.journal \in {"token_received", "persisted"}

\* A task that is about to use a token has one.
TokenHeld ==
  /\ pc["pair"] \in {"noteToken", "register"} => tok["pair"]
  /\ pc["auth"] \in {"put", "save"} => tok["auth"]

\* The database tells of the pairing, or of its end.
Recorded == db.paired \/ db.journal \in Unrecovered \/ db.rev

\* Outside the window between the end of the journal and the transaction the database tells of a
\* confirmed pairing; in the window the entry does, until a revocation takes its token.
ConfirmedRecorded ==
  rcv = "confirmed" =>
    /\ pc["pair"] \notin {"confirm", "send"}
    /\ pc["pair"] \notin {"persist", "abandon"} => Recorded
    /\ pc["pair"] \in {"complete", "persist"} =>
         (mem.entry.known /\ mem.entry.paired /\ mem.entry.token) \/ db.rev
    /\ pc["boot"] = "enter" => db.paired

PairInv == JournalFollows /\ TokenHeld /\ ConfirmedRecorded

TrustInv == RevInv /\ PairInv

-----------------------------------------------------------------------------
(***************************************************************************)
(* Frames                                                                  *)
(***************************************************************************)
DbType ==
  db \in [paired: BOOLEAN, cred: BOOLEAN, rev: BOOLEAN, journal: JournalStates,
          jtok: BOOLEAN, outbox: {"none", "pending", "delivering", "acknowledged", "failed"}]
MemType ==
  mem \in [entry: Entries, revs: BOOLEAN, trust: {"Ready", "RecoveryRequired"},
           pending: BOOLEAN, authFlight: BOOLEAN, outFlight: BOOLEAN]
RcvType == rcv \in {"none", "open", "confirmed"}

\* Only the task t moves, and only its token changes.
Moves(t) ==
  /\ PcType'
  /\ \A u \in Tasks : u # t => pc'[u] = pc[u]
Tokens(t) ==
  /\ tok' \in [Tasks -> BOOLEAN]
  /\ \A u \in Tasks : u # t => tok'[u] = tok[u]

\* The workers and what they deliver are left alone.
Aside ==
  /\ mem'.outFlight = mem.outFlight
  /\ told' = told
  /\ db'.outbox = "acknowledged" => db.outbox = "acknowledged"

\* No revocation is forgotten by the database, and none is new to memory alone.
Honest ==
  /\ db.rev => db'.rev
  /\ mem'.revs \/ mem'.entry.revoked => mem.revs \/ mem.entry.revoked \/ db'.rev

\* The tasks that are no workers.
LEMMA TaskNames ==
  /\ {"pair", "auth", "revoke", "boot"} \subseteq Tasks
  /\ Workers \subseteq Tasks
  /\ \A w \in Workers : w \notin {"pair", "auth", "revoke", "boot"}
  BY TrustAssumption DEF Tasks

\* What Goto does.
LEMMA GotoMoves ==
  ASSUME PcType, NEW t \in Tasks, NEW l, Goto(t, l)
  PROVE  Moves(t) /\ pc'[t] = l
  BY DEF Goto, PcType, Moves

\* Registry entries that the operations build.
LEMMA EntryTypes ==
  /\ FreshEntry \in Entries /\ ~FreshEntry.revoked
  /\ NoEntry \in Entries /\ ~NoEntry.revoked
  /\ [FreshEntry EXCEPT !.revoked = TRUE] \in Entries
  /\ \A p, q \in BOOLEAN :
       /\ [FreshEntry EXCEPT !.paired = p, !.token = q] \in Entries
       /\ ~[FreshEntry EXCEPT !.paired = p, !.token = q].revoked
       /\ [FreshEntry EXCEPT !.paired = p, !.token = q].known
       /\ [FreshEntry EXCEPT !.paired = p, !.token = q].paired = p
       /\ [FreshEntry EXCEPT !.paired = p, !.token = q].token = q
  BY DEF FreshEntry, NoEntry, Entries

\* A step of a task that is no worker keeps the invariant of revocations.
LEMMA RevFrame ==
  ASSUME RevInv, NEW t \in {"pair", "auth", "revoke", "boot"}, Moves(t),
         tok' \in [Tasks -> BOOLEAN], DbType', MemType', RcvType', Aside, Honest, RevokeStored',
         pc["boot"] = "idle" \/ t = "boot", pc["boot"] # "idle" \/ t # "boot"
  PROVE  RevInv'
  <1>1. TypeOK' /\ PcType'
    BY DEF TypeOK, DbType, MemType, RcvType, Moves
  <1>2. \A w \in Workers : pc'[w] = pc[w]
    BY TaskNames DEF Moves
  <1>3. FlightHeld' /\ ToldFirst' /\ AcknowledgedIsTold'
    BY <1>2 DEF RevInv, FlightHeld, ToldFirst, AcknowledgedIsTold, Aside
  <1>4. RevocationIsDurable'
    BY DEF RevInv, RevocationIsDurable, Honest
  <1>5. BootAlone'
    BY TaskNames DEF RevInv, BootAlone, Moves
  <1> QED BY <1>1, <1>3, <1>4, <1>5 DEF RevInv

\* The token of a paired receiver is put into its entry (AuthPut).
LEMMA EntryPut ==
  ASSUME NEW e \in Entries, NEW b \in BOOLEAN
  PROVE  /\ [e EXCEPT !.token = b, !.paired = TRUE] \in Entries
         /\ [e EXCEPT !.token = b, !.paired = TRUE].known = e.known
         /\ [e EXCEPT !.token = b, !.paired = TRUE].token = b
         /\ [e EXCEPT !.token = b, !.paired = TRUE].paired = TRUE
         /\ [e EXCEPT !.token = b, !.paired = TRUE].revoked = e.revoked
  BY DEF Entries

\* Storing a pairing writes the columns of the receiver and no other.
LEMMA PersistWrites ==
  ASSUME DbType, NEW p \in BOOLEAN, NEW b \in BOOLEAN,
         db' = persist_paired_receiver_transaction(db, p, b)
  PROVE  /\ DbType'
         /\ db'.paired = p
         /\ db'.rev = db.rev
         /\ db'.journal = db.journal
         /\ db'.outbox = db.outbox
  BY DEF DbType, persist_paired_receiver_transaction

\* Replacing the entry leaves the rest of the manager alone.
LEMMA EntryWritten ==
  ASSUME MemType, NEW e \in Entries, mem' = [mem EXCEPT !.entry = e]
  PROVE  MemType' /\ mem'.entry = e /\ mem'.revs = mem.revs /\ mem'.outFlight = mem.outFlight
  BY DEF MemType

\* An entry in the receiver's place for a paired one.
Full == mem.entry.known /\ mem.entry.paired /\ mem.entry.token

\* A step that leaves confirm_pairing and the start of the server alone keeps the invariant of
\* pairings, if it takes neither the record nor, without a revocation, the token away.
LEMMA PairFrame ==
  ASSUME TrustInv, pc'["pair"] = pc["pair"], pc'["boot"] \in {pc["boot"], "receivers", "reconcile"},
         tok'["pair"] = tok["pair"],
         db'.journal = db.journal, db.rev => db'.rev,
         rcv' = "confirmed" => /\ rcv = "confirmed"
                               /\ db.paired => db'.paired
                               /\ pc["pair"] # "idle" /\ Full => Full' \/ db'.rev,
         pc'["auth"] \in {"put", "save"} => tok'["auth"]
  PROVE  PairInv'
  <1>1. JournalFollows'
    BY DEF TrustInv, PairInv, JournalFollows
  <1>2. TokenHeld'
    BY DEF TrustInv, PairInv, TokenHeld
  <1>3. ConfirmedRecorded'
    BY DEF TrustInv, PairInv, ConfirmedRecorded, Recorded, Full
  <1> QED BY <1>1, <1>2, <1>3 DEF PairInv

\* What a step of confirm_pairing or of the start has to leave behind.
LEMMA RecordLeft ==
  ASSUME rcv' = "confirmed" => Recorded',
         pc'["pair"] \notin {"confirm", "send", "complete", "persist"}, pc'["boot"] # "enter"
  PROVE  ConfirmedRecorded'
  BY DEF ConfirmedRecorded

(***************************************************************************)
(* start_pairing and confirm_pairing.  Of every action: the lemma named Rev *)
(* says that it keeps the invariant of revocations, the one named Pair     *)
(* that it keeps the invariant of pairings.                                *)
(***************************************************************************)
LEMMA StartPairingRev ==
  ASSUME RevInv, StartPairing
  PROVE  RevInv' /\ Moves("pair") /\ Tokens("pair") /\ Honest
  <1>1. Moves("pair")
    BY TaskNames, GotoMoves DEF RevInv, StartPairing
  <1>2. Tokens("pair")
    BY TaskNames DEF RevInv, TypeOK, Tokens, StartPairing
  <1>3. DbType' /\ RcvType'
    BY TaskNames
       DEF RevInv, TypeOK, DbType, RcvType, JournalStates, StartPairing,
           record_pairing_journal_start, pair_start
  <1>4. MemType'
    BY TaskNames, EntryTypes
       DEF RevInv, TypeOK, MemType, StartPairing, record_pairing_journal_start, pair_start
  <1>5. Aside /\ Honest
    BY TaskNames, EntryTypes
       DEF RevInv, TypeOK, RevocationIsDurable, RevokeStored, Aside, Honest, StartPairing,
           record_pairing_journal_start, pair_start
  <1>6. RevokeStored'
    BY <1>1, <1>5, TaskNames DEF RevInv, RevokeStored, Moves, Honest
  <1>7. pc["boot"] = "idle"
    BY TaskNames DEF RevInv, BootAlone, Booted, StartPairing
  <1> QED BY <1>1, <1>2, <1>3, <1>4, <1>5, <1>6, <1>7, RevFrame DEF Tokens

LEMMA StartPairingPair ==
  ASSUME TrustInv, StartPairing, "gap" \notin Hazards
  PROVE  PairInv'
  <1>1. Moves("pair") /\ Tokens("pair") /\ Honest
    BY StartPairingRev DEF TrustInv
  <1>2. JournalFollows'
    BY <1>1, GotoMoves, TaskNames
       DEF TrustInv, RevInv, BootAlone, TypeOK, PairInv, JournalFollows, Moves, StartPairing,
           record_pairing_journal_start, pair_start
  <1>3. TokenHeld'
    BY <1>1, GotoMoves, TaskNames
       DEF TrustInv, RevInv, BootAlone, TypeOK, PairInv, TokenHeld, Moves, Tokens, StartPairing,
           record_pairing_journal_start, pair_start
  <1>4. ConfirmedRecorded'
    BY <1>1, GotoMoves, TaskNames, EntryTypes
       DEF TrustInv, RevInv, BootAlone, TypeOK, PairInv, JournalFollows, TokenHeld,
           ConfirmedRecorded, Recorded, Unrecovered, Moves, Honest, StartPairing,
           record_pairing_journal_start, pair_start
  <1> QED BY <1>2, <1>3, <1>4 DEF PairInv

LEMMA ConfirmSentRev ==
  ASSUME RevInv, ConfirmSent
  PROVE  RevInv' /\ Moves("pair") /\ Tokens("pair") /\ Honest
  <1>1. Moves("pair")
    BY TaskNames, GotoMoves DEF RevInv, ConfirmSent
  <1>2. Tokens("pair")
    BY TaskNames DEF RevInv, TypeOK, Tokens, ConfirmSent
  <1>3. DbType' /\ RcvType'
    BY TaskNames
       DEF RevInv, TypeOK, DbType, RcvType, JournalStates, ConfirmSent, record_pairing_journal
  <1>4. MemType'
    BY TaskNames, EntryTypes DEF RevInv, TypeOK, MemType, ConfirmSent, record_pairing_journal
  <1>5. Aside /\ Honest
    BY TaskNames, EntryTypes
       DEF RevInv, TypeOK, RevocationIsDurable, RevokeStored, Aside, Honest, ConfirmSent,
           record_pairing_journal
  <1>6. RevokeStored'
    BY <1>1, <1>5, TaskNames DEF RevInv, RevokeStored, Moves, Honest
  <1>7. pc["boot"] = "idle"
    BY TaskNames DEF RevInv, BootAlone, Booted, ConfirmSent
  <1> QED BY <1>1, <1>2, <1>3, <1>4, <1>5, <1>6, <1>7, RevFrame DEF Tokens

LEMMA ConfirmSentPair ==
  ASSUME TrustInv, ConfirmSent, "gap" \notin Hazards
  PROVE  PairInv'
  <1>1. Moves("pair") /\ Tokens("pair") /\ Honest
    BY ConfirmSentRev DEF TrustInv
  <1>2. JournalFollows'
    BY <1>1, GotoMoves, TaskNames
       DEF TrustInv, RevInv, BootAlone, TypeOK, PairInv, JournalFollows, Moves, ConfirmSent,
           record_pairing_journal
  <1>3. TokenHeld'
    BY <1>1, GotoMoves, TaskNames
       DEF TrustInv, RevInv, BootAlone, TypeOK, PairInv, TokenHeld, Moves, Tokens, ConfirmSent,
           record_pairing_journal
  <1>4. ConfirmedRecorded'
    BY <1>1, GotoMoves, TaskNames, EntryTypes
       DEF TrustInv, RevInv, BootAlone, TypeOK, PairInv, JournalFollows, TokenHeld,
           ConfirmedRecorded, Recorded, Unrecovered, Moves, Honest, Fault, ConfirmSent,
           record_pairing_journal
  <1> QED BY <1>2, <1>3, <1>4 DEF PairInv

LEMMA SendRev ==
  ASSUME RevInv, Send
  PROVE  RevInv' /\ Moves("pair") /\ Tokens("pair") /\ Honest
  <1>1. Moves("pair")
    BY TaskNames, GotoMoves DEF RevInv, Send, pair_confirm
  <1>2. Tokens("pair")
    BY TaskNames DEF RevInv, TypeOK, Tokens, Send, pair_confirm
  <1>3. DbType' /\ RcvType'
    BY TaskNames DEF RevInv, TypeOK, DbType, RcvType, JournalStates, Send, pair_confirm
  <1>4. MemType'
    BY TaskNames, EntryTypes DEF RevInv, TypeOK, MemType, Send, pair_confirm
  <1>5. Aside /\ Honest
    BY TaskNames, EntryTypes
       DEF RevInv, TypeOK, RevocationIsDurable, RevokeStored, Aside, Honest, Send, pair_confirm
  <1>6. RevokeStored'
    BY <1>1, <1>5, TaskNames DEF RevInv, RevokeStored, Moves, Honest
  <1>7. pc["boot"] = "idle"
    BY TaskNames DEF RevInv, BootAlone, Booted, Send
  <1> QED BY <1>1, <1>2, <1>3, <1>4, <1>5, <1>6, <1>7, RevFrame DEF Tokens

LEMMA SendPair ==
  ASSUME TrustInv, Send, "gap" \notin Hazards
  PROVE  PairInv'
  <1>1. Moves("pair") /\ Tokens("pair") /\ Honest
    BY SendRev DEF TrustInv
  <1>2. JournalFollows'
    BY <1>1, GotoMoves, TaskNames
       DEF TrustInv, RevInv, BootAlone, TypeOK, PairInv, JournalFollows, Moves, Send, pair_confirm
  <1>3. TokenHeld'
    BY <1>1, GotoMoves, TaskNames
       DEF TrustInv, RevInv, BootAlone, TypeOK, PairInv, TokenHeld, Moves, Tokens, Send,
           pair_confirm
  <1>4. ConfirmedRecorded'
    <2>1. pc["boot"] = "idle" /\ pc'["boot"] = "idle"
      BY <1>1, TaskNames DEF TrustInv, RevInv, BootAlone, Moves, Send
    <2>2. Recorded' \/ rcv' # "confirmed"
      BY DEF TrustInv, PairInv, JournalFollows, Recorded, Unrecovered, Send
    <2>3. pc'["pair"] \in {"noteToken", "unknown", "idle"}
      BY GotoMoves, TaskNames DEF TrustInv, RevInv, Send
    <2> QED BY <2>1, <2>2, <2>3, RecordLeft
  <1> QED BY <1>2, <1>3, <1>4 DEF PairInv

LEMMA OutcomeUnknownRev ==
  ASSUME RevInv, OutcomeUnknown
  PROVE  RevInv' /\ Moves("pair") /\ Tokens("pair") /\ Honest
  <1>1. Moves("pair")
    BY TaskNames, GotoMoves DEF RevInv, OutcomeUnknown
  <1>2. Tokens("pair")
    BY TaskNames DEF RevInv, TypeOK, Tokens, OutcomeUnknown
  <1>3. DbType' /\ RcvType'
    BY TaskNames
       DEF RevInv, TypeOK, DbType, RcvType, JournalStates, OutcomeUnknown, record_pairing_journal
  <1>4. MemType'
    BY TaskNames, EntryTypes DEF RevInv, TypeOK, MemType, OutcomeUnknown, record_pairing_journal
  <1>5. Aside /\ Honest
    BY TaskNames, EntryTypes
       DEF RevInv, TypeOK, RevocationIsDurable, RevokeStored, Aside, Honest, OutcomeUnknown,
           record_pairing_journal
  <1>6. RevokeStored'
    BY <1>1, <1>5, TaskNames DEF RevInv, RevokeStored, Moves, Honest
  <1>7. pc["boot"] = "idle"
    BY TaskNames DEF RevInv, BootAlone, Booted, OutcomeUnknown
  <1> QED BY <1>1, <1>2, <1>3, <1>4, <1>5, <1>6, <1>7, RevFrame DEF Tokens

LEMMA OutcomeUnknownPair ==
  ASSUME TrustInv, OutcomeUnknown, "gap" \notin Hazards
  PROVE  PairInv'
  <1>1. Moves("pair") /\ Tokens("pair") /\ Honest
    BY OutcomeUnknownRev DEF TrustInv
  <1>2. JournalFollows'
    BY <1>1, GotoMoves, TaskNames
       DEF TrustInv, RevInv, BootAlone, TypeOK, PairInv, JournalFollows, Moves, OutcomeUnknown,
           record_pairing_journal
  <1>3. TokenHeld'
    BY <1>1, GotoMoves, TaskNames
       DEF TrustInv, RevInv, BootAlone, TypeOK, PairInv, TokenHeld, Moves, Tokens, OutcomeUnknown,
           record_pairing_journal
  <1>4. ConfirmedRecorded'
    <2>1. pc["boot"] = "idle" /\ pc'["boot"] = "idle"
      BY <1>1, TaskNames DEF TrustInv, RevInv, BootAlone, Moves, OutcomeUnknown
    <2>2. Recorded'
      BY DEF TrustInv, RevInv, TypeOK, Recorded, Unrecovered, OutcomeUnknown, record_pairing_journal
    <2>3. pc'["pair"] = "status"
      BY GotoMoves, TaskNames DEF TrustInv, RevInv, OutcomeUnknown
    <2> QED BY <2>1, <2>2, <2>3, RecordLeft
  <1> QED BY <1>2, <1>3, <1>4 DEF PairInv

LEMMA AskStatusRev ==
  ASSUME RevInv, AskStatus
  PROVE  RevInv' /\ Moves("pair") /\ Tokens("pair") /\ Honest
  <1>1. Moves("pair")
    BY TaskNames, GotoMoves DEF RevInv, AskStatus, pair_recover
  <1>2. Tokens("pair")
    BY TaskNames DEF RevInv, TypeOK, Tokens, AskStatus, pair_recover
  <1>3. DbType' /\ RcvType'
    BY TaskNames
       DEF RevInv, TypeOK, DbType, RcvType, JournalStates, AskStatus, pair_status, pair_recover
  <1>4. MemType'
    BY TaskNames, EntryTypes DEF RevInv, TypeOK, MemType, AskStatus, pair_status, pair_recover
  <1>5. Aside /\ Honest
    BY TaskNames, EntryTypes
       DEF RevInv, TypeOK, RevocationIsDurable, RevokeStored, Aside, Honest, AskStatus, pair_status,
           pair_recover
  <1>6. RevokeStored'
    BY <1>1, <1>5, TaskNames DEF RevInv, RevokeStored, Moves, Honest
  <1>7. pc["boot"] = "idle"
    BY TaskNames DEF RevInv, BootAlone, Booted, AskStatus
  <1> QED BY <1>1, <1>2, <1>3, <1>4, <1>5, <1>6, <1>7, RevFrame DEF Tokens

LEMMA AskStatusPair ==
  ASSUME TrustInv, AskStatus, "gap" \notin Hazards
  PROVE  PairInv'
  <1>1. Moves("pair") /\ Tokens("pair") /\ Honest
    BY AskStatusRev DEF TrustInv
  <1>2. JournalFollows'
    BY <1>1, GotoMoves, TaskNames
       DEF TrustInv, RevInv, BootAlone, TypeOK, PairInv, JournalFollows, Moves, AskStatus,
           pair_status, pair_recover
  <1>3. TokenHeld'
    BY <1>1, GotoMoves, TaskNames
       DEF TrustInv, RevInv, BootAlone, TypeOK, PairInv, TokenHeld, Moves, Tokens, AskStatus,
           pair_status, pair_recover
  <1>4. ConfirmedRecorded'
    <2>1. pc["boot"] = "idle" /\ pc'["boot"] = "idle"
      BY <1>1, TaskNames DEF TrustInv, RevInv, BootAlone, Moves, AskStatus
    <2>2. Recorded'
      BY DEF TrustInv, PairInv, JournalFollows, Recorded, Unrecovered, AskStatus
    <2>3. pc'["pair"] \in {"idle", "noteToken"}
      BY GotoMoves, TaskNames DEF TrustInv, RevInv, AskStatus
    <2> QED BY <2>1, <2>2, <2>3, RecordLeft
  <1> QED BY <1>2, <1>3, <1>4 DEF PairInv

LEMMA NoteTokenRev ==
  ASSUME RevInv, NoteToken
  PROVE  RevInv' /\ Moves("pair") /\ Tokens("pair") /\ Honest
  <1>1. Moves("pair")
    BY TaskNames, GotoMoves DEF RevInv, NoteToken
  <1>2. Tokens("pair")
    BY TaskNames DEF RevInv, TypeOK, Tokens, NoteToken
  <1>3. DbType' /\ RcvType'
    BY TaskNames
       DEF RevInv, TypeOK, DbType, RcvType, JournalStates, NoteToken, record_pairing_journal_token
  <1>4. MemType'
    BY TaskNames, EntryTypes DEF RevInv, TypeOK, MemType, NoteToken, record_pairing_journal_token
  <1>5. Aside /\ Honest
    BY TaskNames, EntryTypes
       DEF RevInv, TypeOK, RevocationIsDurable, RevokeStored, Aside, Honest, NoteToken,
           record_pairing_journal_token
  <1>6. RevokeStored'
    BY <1>1, <1>5, TaskNames DEF RevInv, RevokeStored, Moves, Honest
  <1>7. pc["boot"] = "idle"
    BY TaskNames DEF RevInv, BootAlone, Booted, NoteToken
  <1> QED BY <1>1, <1>2, <1>3, <1>4, <1>5, <1>6, <1>7, RevFrame DEF Tokens

LEMMA NoteTokenPair ==
  ASSUME TrustInv, NoteToken, "gap" \notin Hazards
  PROVE  PairInv'
  <1>1. Moves("pair") /\ Tokens("pair") /\ Honest
    BY NoteTokenRev DEF TrustInv
  <1>2. JournalFollows'
    BY <1>1, GotoMoves, TaskNames
       DEF TrustInv, RevInv, BootAlone, TypeOK, PairInv, JournalFollows, Moves, NoteToken,
           record_pairing_journal_token
  <1>3. TokenHeld'
    BY <1>1, GotoMoves, TaskNames
       DEF TrustInv, RevInv, BootAlone, TypeOK, PairInv, TokenHeld, Moves, Tokens, NoteToken,
           record_pairing_journal_token
  <1>4. ConfirmedRecorded'
    <2>1. pc["boot"] = "idle" /\ pc'["boot"] = "idle"
      BY <1>1, TaskNames DEF TrustInv, RevInv, BootAlone, Moves, NoteToken
    <2>2. Recorded'
      BY DEF TrustInv, RevInv, TypeOK, Recorded, Unrecovered, NoteToken,
         record_pairing_journal_token
    <2>3. pc'["pair"] = "register"
      BY GotoMoves, TaskNames DEF TrustInv, RevInv, NoteToken
    <2> QED BY <2>1, <2>2, <2>3, RecordLeft
  <1> QED BY <1>2, <1>3, <1>4 DEF PairInv

LEMMA RegisterRev ==
  ASSUME RevInv, Register
  PROVE  RevInv' /\ Moves("pair") /\ Tokens("pair") /\ Honest
  <1>1. Moves("pair")
    BY TaskNames, GotoMoves DEF RevInv, Register
  <1>2. Tokens("pair")
    BY TaskNames DEF RevInv, TypeOK, Tokens, Register
  <1>3. DbType' /\ RcvType'
    BY TaskNames DEF RevInv, TypeOK, DbType, RcvType, JournalStates, Register, FreshEntry
  <1>4. MemType'
    <2> DEFINE e == [FreshEntry EXCEPT !.paired = TRUE, !.token = tok["pair"]]
    <2>1. tok["pair"] \in BOOLEAN /\ MemType
      BY TaskNames DEF RevInv, TypeOK, MemType
    <2>2. e \in Entries /\ ~e.revoked
      BY <2>1, EntryTypes
    <2>3. mem' = [mem EXCEPT !.entry = e] \/ UNCHANGED mem
      BY DEF Register
    <2> HIDE DEF e
    <2> QED BY <2>1, <2>2, <2>3, EntryWritten DEF MemType
  <1>5. Aside /\ Honest
    <2> DEFINE e == [FreshEntry EXCEPT !.paired = TRUE, !.token = tok["pair"]]
    <2>1. tok["pair"] \in BOOLEAN /\ MemType
      BY TaskNames DEF RevInv, TypeOK, MemType
    <2>2. e \in Entries /\ ~e.revoked
      BY <2>1, EntryTypes
    <2>3. mem' = [mem EXCEPT !.entry = e] \/ UNCHANGED mem
      BY DEF Register
    <2> HIDE DEF e
    <2> QED BY <2>1, <2>2, <2>3, EntryWritten DEF Aside, Honest, Register
  <1>6. RevokeStored'
    BY <1>1, <1>5, TaskNames DEF RevInv, RevokeStored, Moves, Honest
  <1>7. pc["boot"] = "idle"
    BY TaskNames DEF RevInv, BootAlone, Booted, Register
  <1> QED BY <1>1, <1>2, <1>3, <1>4, <1>5, <1>6, <1>7, RevFrame DEF Tokens

LEMMA RegisterPair ==
  ASSUME TrustInv, Register, "gap" \notin Hazards
  PROVE  PairInv'
  <1>1. Moves("pair") /\ Tokens("pair") /\ Honest
    BY RegisterRev DEF TrustInv
  <1>2. JournalFollows'
    BY <1>1, GotoMoves, TaskNames
       DEF TrustInv, RevInv, BootAlone, TypeOK, PairInv, JournalFollows, Moves, Register, FreshEntry
  <1>3. TokenHeld'
    BY <1>1, GotoMoves, TaskNames
       DEF TrustInv, RevInv, BootAlone, TypeOK, PairInv, TokenHeld, Moves, Tokens, Register,
           FreshEntry
  <1>4. ConfirmedRecorded'
    <2>1. pc["boot"] = "idle" /\ pc'["boot"] = "idle"
      BY <1>1, TaskNames DEF TrustInv, RevInv, BootAlone, Moves, Register
    <2>2. Recorded'
      BY DEF TrustInv, PairInv, JournalFollows, Recorded, Unrecovered, Register
    <2>3. CASE Goto("pair", "abandon")
      <3>1. pc'["pair"] = "abandon"
        BY <2>3, GotoMoves, TaskNames DEF TrustInv, RevInv
      <3> QED BY <2>1, <2>2, <3>1, RecordLeft
    <2>4. CASE /\ Goto("pair", "complete")
               /\ mem' = [mem EXCEPT !.entry = [FreshEntry EXCEPT !.paired = TRUE, !.token = tok["pair"]]]
      <3> DEFINE e == [FreshEntry EXCEPT !.paired = TRUE, !.token = tok["pair"]]
      <3>1. tok["pair"] \in BOOLEAN /\ MemType /\ tok["pair"]
        BY TaskNames DEF TrustInv, RevInv, TypeOK, MemType, PairInv, TokenHeld, Register
      <3>2. e \in Entries /\ e.known /\ e.paired = TRUE /\ e.token = tok["pair"]
        BY <3>1, EntryTypes
      <3> HIDE DEF e
      <3>3. mem'.entry.known /\ mem'.entry.paired /\ mem'.entry.token
        BY <2>4, <3>1, <3>2, EntryWritten DEF e
      <3>4. pc'["pair"] = "complete"
        BY <2>4, GotoMoves, TaskNames DEF TrustInv, RevInv
      <3> QED BY <2>1, <2>2, <3>3, <3>4 DEF ConfirmedRecorded
    <2> QED BY <2>3, <2>4 DEF Register
  <1> QED BY <1>2, <1>3, <1>4 DEF PairInv

LEMMA AbandonRev ==
  ASSUME RevInv, Abandon
  PROVE  RevInv' /\ Moves("pair") /\ Tokens("pair") /\ Honest
  <1>1. Moves("pair")
    BY TaskNames, GotoMoves DEF RevInv, Abandon, Done
  <1>2. Tokens("pair")
    BY TaskNames DEF RevInv, TypeOK, Tokens, Abandon, Done
  <1>3. DbType' /\ RcvType'
    BY TaskNames DEF RevInv, TypeOK, DbType, RcvType, JournalStates, Abandon, record_pairing_journal
  <1>4. MemType'
    BY TaskNames, EntryTypes DEF RevInv, TypeOK, MemType, Abandon, record_pairing_journal
  <1>5. Aside /\ Honest
    BY TaskNames, EntryTypes
       DEF RevInv, TypeOK, RevocationIsDurable, RevokeStored, Aside, Honest, Abandon,
           record_pairing_journal
  <1>6. RevokeStored'
    BY <1>1, <1>5, TaskNames DEF RevInv, RevokeStored, Moves, Honest
  <1>7. pc["boot"] = "idle"
    BY TaskNames DEF RevInv, BootAlone, Booted, Abandon
  <1> QED BY <1>1, <1>2, <1>3, <1>4, <1>5, <1>6, <1>7, RevFrame DEF Tokens

LEMMA AbandonPair ==
  ASSUME TrustInv, Abandon, "gap" \notin Hazards
  PROVE  PairInv'
  <1>1. Moves("pair") /\ Tokens("pair") /\ Honest
    BY AbandonRev DEF TrustInv
  <1>2. JournalFollows'
    BY <1>1, GotoMoves, TaskNames
       DEF TrustInv, RevInv, BootAlone, TypeOK, PairInv, JournalFollows, Moves, Done, Abandon,
           record_pairing_journal
  <1>3. TokenHeld'
    BY <1>1, GotoMoves, TaskNames
       DEF TrustInv, RevInv, BootAlone, TypeOK, PairInv, TokenHeld, Moves, Tokens, Done, Abandon,
           record_pairing_journal
  <1>4. ConfirmedRecorded'
    <2>1. pc["boot"] = "idle" /\ pc'["boot"] = "idle"
      BY <1>1, TaskNames DEF TrustInv, RevInv, BootAlone, Moves, Abandon
    <2>2. Recorded'
      BY DEF TrustInv, RevInv, TypeOK, Recorded, Unrecovered, Abandon, record_pairing_journal, Done
    <2>3. pc'["pair"] = "idle"
      BY GotoMoves, TaskNames DEF TrustInv, RevInv, Abandon, Done
    <2> QED BY <2>1, <2>2, <2>3, RecordLeft
  <1> QED BY <1>2, <1>3, <1>4 DEF PairInv

LEMMA CompleteRev ==
  ASSUME RevInv, Complete
  PROVE  RevInv' /\ Moves("pair") /\ Tokens("pair") /\ Honest
  <1>1. Moves("pair")
    BY TaskNames, GotoMoves DEF RevInv, Complete
  <1>2. Tokens("pair")
    BY TaskNames DEF RevInv, TypeOK, Tokens, Complete
  <1>3. DbType' /\ RcvType'
    BY TaskNames
       DEF RevInv, TypeOK, DbType, RcvType, JournalStates, Complete, record_pairing_journal
  <1>4. MemType'
    BY TaskNames, EntryTypes DEF RevInv, TypeOK, MemType, Complete, record_pairing_journal
  <1>5. Aside /\ Honest
    BY TaskNames, EntryTypes
       DEF RevInv, TypeOK, RevocationIsDurable, RevokeStored, Aside, Honest, Complete,
           record_pairing_journal
  <1>6. RevokeStored'
    BY <1>1, <1>5, TaskNames DEF RevInv, RevokeStored, Moves, Honest
  <1>7. pc["boot"] = "idle"
    BY TaskNames DEF RevInv, BootAlone, Booted, Complete
  <1> QED BY <1>1, <1>2, <1>3, <1>4, <1>5, <1>6, <1>7, RevFrame DEF Tokens

LEMMA CompletePair ==
  ASSUME TrustInv, Complete, "gap" \notin Hazards
  PROVE  PairInv'
  <1>1. Moves("pair") /\ Tokens("pair") /\ Honest
    BY CompleteRev DEF TrustInv
  <1>2. JournalFollows'
    BY <1>1, GotoMoves, TaskNames
       DEF TrustInv, RevInv, BootAlone, TypeOK, PairInv, JournalFollows, Moves, Complete,
           record_pairing_journal
  <1>3. TokenHeld'
    BY <1>1, GotoMoves, TaskNames
       DEF TrustInv, RevInv, BootAlone, TypeOK, PairInv, TokenHeld, Moves, Tokens, Complete,
           record_pairing_journal
  <1>4. ConfirmedRecorded'
    <2>1. pc["boot"] = "idle" /\ pc'["boot"] = "idle"
      BY <1>1, TaskNames DEF TrustInv, RevInv, BootAlone, Moves, Complete
    <2>2. mem'.entry = mem.entry /\ db'.rev = db.rev /\ rcv' = rcv
      BY DEF TrustInv, RevInv, TypeOK, Complete, record_pairing_journal
    <2>3. pc["pair"] = "complete" /\ pc'["pair"] = "persist"
      BY GotoMoves, TaskNames DEF TrustInv, RevInv, Complete
    <2> QED BY <2>1, <2>2, <2>3 DEF TrustInv, PairInv, ConfirmedRecorded
  <1> QED BY <1>2, <1>3, <1>4 DEF PairInv

LEMMA PersistRev ==
  ASSUME RevInv, Persist
  PROVE  RevInv' /\ Moves("pair") /\ Tokens("pair") /\ Honest
  <1>1. Moves("pair")
    BY TaskNames, GotoMoves DEF RevInv, Persist, Done
  <1>2. Tokens("pair")
    BY TaskNames DEF RevInv, TypeOK, Tokens, Persist, Done
  <1>3. DbType' /\ RcvType'
    <2>1. mem.entry.paired \in BOOLEAN /\ DbType /\ RcvType
      BY DEF RevInv, TypeOK, Entries, DbType, RcvType
    <2>2. CASE UNCHANGED db
      BY <2>1, <2>2 DEF Persist, DbType, RcvType
    <2>3. CASE db' = persist_paired_receiver_transaction(db, mem.entry.paired, TRUE)
      BY <2>1, <2>3, PersistWrites DEF Persist, RcvType
    <2> QED BY <2>2, <2>3 DEF Persist
  <1>4. MemType'
    BY TaskNames, EntryTypes
       DEF RevInv, TypeOK, MemType, Persist, persist_paired_receiver_transaction
  <1>5. Aside /\ Honest
    BY TaskNames, EntryTypes
       DEF RevInv, TypeOK, RevocationIsDurable, RevokeStored, Aside, Honest, Persist,
           persist_paired_receiver_transaction
  <1>6. RevokeStored'
    BY <1>1, <1>5, TaskNames DEF RevInv, RevokeStored, Moves, Honest
  <1>7. pc["boot"] = "idle"
    BY TaskNames DEF RevInv, BootAlone, Booted, Persist
  <1> QED BY <1>1, <1>2, <1>3, <1>4, <1>5, <1>6, <1>7, RevFrame DEF Tokens

LEMMA PersistPair ==
  ASSUME TrustInv, Persist, "gap" \notin Hazards
  PROVE  PairInv'
  <1>1. Moves("pair") /\ Tokens("pair") /\ Honest
    BY PersistRev DEF TrustInv
  <1>2. JournalFollows'
    BY <1>1, GotoMoves, TaskNames
       DEF TrustInv, RevInv, BootAlone, TypeOK, PairInv, JournalFollows, Moves, Done, Persist,
           persist_paired_receiver_transaction
  <1>3. TokenHeld'
    BY <1>1, GotoMoves, TaskNames
       DEF TrustInv, RevInv, BootAlone, TypeOK, PairInv, TokenHeld, Moves, Tokens, Done, Persist,
           persist_paired_receiver_transaction
  <1>4. ConfirmedRecorded'
    <2>1. pc["boot"] = "idle" /\ pc'["boot"] = "idle"
      BY <1>1, TaskNames DEF TrustInv, RevInv, BootAlone, Moves, Persist
    <2>2. pc["pair"] = "persist" /\ rcv' = rcv /\ mem' = mem
      BY DEF Persist
    <2>3. rcv = "confirmed" => (mem.entry.paired /\ mem.entry.token) \/ db.rev
      BY <2>2 DEF TrustInv, PairInv, ConfirmedRecorded
    <2>4. CASE /\ Goto("pair", "idle") /\ mem.entry.token
               /\ db' = persist_paired_receiver_transaction(db, mem.entry.paired, TRUE)
      <3>1. db'.paired = mem.entry.paired /\ db'.rev = db.rev
        BY <2>4, PersistWrites DEF TrustInv, RevInv, TypeOK, DbType, Entries
      <3>2. pc'["pair"] = "idle"
        BY <2>4, GotoMoves, TaskNames DEF TrustInv, RevInv
      <3> QED BY <2>1, <2>2, <2>3, <3>1, <3>2, RecordLeft DEF Recorded
    <2>5. CASE UNCHANGED db /\ Goto("pair", "abandon")
      <3>1. pc'["pair"] = "abandon"
        BY <2>5, GotoMoves, TaskNames DEF TrustInv, RevInv
      <3> QED BY <2>1, <3>1 DEF ConfirmedRecorded
    <2>6. CASE UNCHANGED db /\ Goto("pair", "idle") /\ ~mem.entry.token
      <3>1. pc'["pair"] = "idle"
        BY <2>6, GotoMoves, TaskNames DEF TrustInv, RevInv
      <3> QED BY <2>1, <2>2, <2>3, <2>6, <3>1, RecordLeft DEF Recorded
    <2> QED BY <2>4, <2>5, <2>6 DEF Persist, Done, Fault
  <1> QED BY <1>2, <1>3, <1>4 DEF PairInv

(***************************************************************************)
(* authenticate_receiver                                                   *)
(***************************************************************************)
LEMMA AuthUrlRev ==
  ASSUME RevInv, AuthUrl
  PROVE  RevInv' /\ Moves("auth") /\ Tokens("auth") /\ Honest
  <1>1. Moves("auth")
    BY TaskNames, GotoMoves DEF RevInv, AuthUrl
  <1>2. Tokens("auth")
    BY TaskNames DEF RevInv, TypeOK, Tokens, AuthUrl
  <1>3. DbType' /\ RcvType'
    BY TaskNames DEF RevInv, TypeOK, DbType, RcvType, JournalStates, AuthUrl, FreshEntry
  <1>4. MemType'
    BY TaskNames, EntryTypes DEF RevInv, TypeOK, MemType, AuthUrl
  <1>5. Aside /\ Honest
    BY TaskNames, EntryTypes
       DEF RevInv, TypeOK, RevocationIsDurable, RevokeStored, Aside, Honest, AuthUrl
  <1>6. RevokeStored'
    BY <1>1, <1>5, TaskNames DEF RevInv, RevokeStored, Moves, Honest
  <1>7. pc["boot"] = "idle"
    BY TaskNames DEF RevInv, BootAlone, Booted, AuthUrl
  <1> QED BY <1>1, <1>2, <1>3, <1>4, <1>5, <1>6, <1>7, RevFrame DEF Tokens

LEMMA AuthUrlPair ==
  ASSUME TrustInv, AuthUrl
  PROVE  PairInv'
  <1>1. Moves("auth") /\ Tokens("auth") /\ Honest
    BY AuthUrlRev DEF TrustInv
  <1>2. db'.journal = db.journal /\ (db.paired => db'.paired) /\ rcv' = rcv
    BY DEF TrustInv, RevInv, TypeOK, AuthUrl, FreshEntry
  <1>3. pc["pair"] # "idle" /\ Full => Full' \/ db'.rev
    BY EntryTypes, EntryPut, TaskNames
       DEF TrustInv, RevInv, TypeOK, RevocationIsDurable, RevokeStored, Full, AuthUrl
  <1>4. pc'["auth"] \in {"put", "save"} => tok'["auth"]
    BY <1>1, TaskNames
       DEF TrustInv, RevInv, PairInv, TypeOK, PcType, Moves, Tokens, TokenHeld, Goto, AuthUrl
  <1> QED BY <1>1, <1>2, <1>3, <1>4, TaskNames, PairFrame DEF Moves, Tokens, Honest

LEMMA AuthEnterRev ==
  ASSUME RevInv, AuthEnter
  PROVE  RevInv' /\ Moves("auth") /\ Tokens("auth") /\ Honest
  <1>1. Moves("auth")
    BY TaskNames, GotoMoves DEF RevInv, AuthEnter
  <1>2. Tokens("auth")
    BY TaskNames DEF RevInv, TypeOK, Tokens, AuthEnter
  <1>3. DbType' /\ RcvType'
    BY TaskNames DEF RevInv, TypeOK, DbType, RcvType, JournalStates, AuthEnter
  <1>4. MemType'
    BY TaskNames, EntryTypes DEF RevInv, TypeOK, MemType, AuthEnter
  <1>5. Aside /\ Honest
    BY TaskNames, EntryTypes
       DEF RevInv, TypeOK, RevocationIsDurable, RevokeStored, Aside, Honest, AuthEnter
  <1>6. RevokeStored'
    BY <1>1, <1>5, TaskNames DEF RevInv, RevokeStored, Moves, Honest
  <1>7. pc["boot"] = "idle"
    BY TaskNames DEF RevInv, BootAlone, Booted, AuthEnter
  <1> QED BY <1>1, <1>2, <1>3, <1>4, <1>5, <1>6, <1>7, RevFrame DEF Tokens

LEMMA AuthEnterPair ==
  ASSUME TrustInv, AuthEnter
  PROVE  PairInv'
  <1>1. Moves("auth") /\ Tokens("auth") /\ Honest
    BY AuthEnterRev DEF TrustInv
  <1>2. db'.journal = db.journal /\ (db.paired => db'.paired) /\ rcv' = rcv
    BY DEF TrustInv, RevInv, TypeOK, AuthEnter
  <1>3. pc["pair"] # "idle" /\ Full => Full' \/ db'.rev
    BY EntryTypes, EntryPut, TaskNames
       DEF TrustInv, RevInv, TypeOK, RevocationIsDurable, RevokeStored, Full, AuthEnter
  <1>4. pc'["auth"] \in {"put", "save"} => tok'["auth"]
    BY <1>1, TaskNames
       DEF TrustInv, RevInv, PairInv, TypeOK, PcType, Moves, Tokens, TokenHeld, Goto, AuthEnter
  <1> QED BY <1>1, <1>2, <1>3, <1>4, TaskNames, PairFrame DEF Moves, Tokens, Honest

LEMMA AuthCheckRev ==
  ASSUME RevInv, AuthCheck
  PROVE  RevInv' /\ Moves("auth") /\ Tokens("auth") /\ Honest
  <1>1. Moves("auth")
    BY TaskNames, GotoMoves DEF RevInv, AuthCheck
  <1>2. Tokens("auth")
    BY TaskNames DEF RevInv, TypeOK, Tokens, AuthCheck
  <1>3. DbType' /\ RcvType'
    BY TaskNames DEF RevInv, TypeOK, DbType, RcvType, JournalStates, AuthCheck, FreshEntry
  <1>4. MemType'
    BY TaskNames, EntryTypes DEF RevInv, TypeOK, MemType, AuthCheck
  <1>5. Aside /\ Honest
    BY TaskNames, EntryTypes
       DEF RevInv, TypeOK, RevocationIsDurable, RevokeStored, Aside, Honest, AuthCheck
  <1>6. RevokeStored'
    BY <1>1, <1>5, TaskNames DEF RevInv, RevokeStored, Moves, Honest
  <1>7. pc["boot"] = "idle"
    BY TaskNames DEF RevInv, BootAlone, Booted, AuthCheck
  <1> QED BY <1>1, <1>2, <1>3, <1>4, <1>5, <1>6, <1>7, RevFrame DEF Tokens

LEMMA AuthCheckPair ==
  ASSUME TrustInv, AuthCheck
  PROVE  PairInv'
  <1>1. Moves("auth") /\ Tokens("auth") /\ Honest
    BY AuthCheckRev DEF TrustInv
  <1>2. db'.journal = db.journal /\ (db.paired => db'.paired) /\ rcv' = rcv
    BY DEF TrustInv, RevInv, TypeOK, AuthCheck, FreshEntry
  <1>3. pc["pair"] # "idle" /\ Full => Full' \/ db'.rev
    BY EntryTypes, EntryPut, TaskNames
       DEF TrustInv, RevInv, TypeOK, RevocationIsDurable, RevokeStored, Full, AuthCheck
  <1>4. pc'["auth"] \in {"put", "save"} => tok'["auth"]
    BY <1>1, TaskNames
       DEF TrustInv, RevInv, PairInv, TypeOK, PcType, Moves, Tokens, TokenHeld, Goto, AuthCheck
  <1> QED BY <1>1, <1>2, <1>3, <1>4, TaskNames, PairFrame DEF Moves, Tokens, Honest

LEMMA AuthCallRev ==
  ASSUME RevInv, AuthCall
  PROVE  RevInv' /\ Moves("auth") /\ Tokens("auth") /\ Honest
  <1>1. Moves("auth")
    BY TaskNames, GotoMoves DEF RevInv, AuthCall, authenticate
  <1>2. Tokens("auth")
    BY TaskNames DEF RevInv, TypeOK, Tokens, AuthCall, authenticate
  <1>3. DbType' /\ RcvType'
    BY TaskNames DEF RevInv, TypeOK, DbType, RcvType, JournalStates, AuthCall, authenticate
  <1>4. MemType'
    BY TaskNames, EntryTypes DEF RevInv, TypeOK, MemType, AuthCall, authenticate
  <1>5. Aside /\ Honest
    BY TaskNames, EntryTypes
       DEF RevInv, TypeOK, RevocationIsDurable, RevokeStored, Aside, Honest, AuthCall, authenticate
  <1>6. RevokeStored'
    BY <1>1, <1>5, TaskNames DEF RevInv, RevokeStored, Moves, Honest
  <1>7. pc["boot"] = "idle"
    BY TaskNames DEF RevInv, BootAlone, Booted, AuthCall
  <1> QED BY <1>1, <1>2, <1>3, <1>4, <1>5, <1>6, <1>7, RevFrame DEF Tokens

LEMMA AuthCallPair ==
  ASSUME TrustInv, AuthCall
  PROVE  PairInv'
  <1>1. Moves("auth") /\ Tokens("auth") /\ Honest
    BY AuthCallRev DEF TrustInv
  <1>2. db'.journal = db.journal /\ (db.paired => db'.paired) /\ rcv' = rcv
    BY DEF TrustInv, RevInv, TypeOK, AuthCall, authenticate
  <1>3. pc["pair"] # "idle" /\ Full => Full' \/ db'.rev
    <2>1. mem'.entry = mem.entry
      BY DEF TrustInv, RevInv, TypeOK, AuthCall
    <2> QED BY <2>1 DEF Full
  <1>4. pc'["auth"] \in {"put", "save"} => tok'["auth"]
    BY <1>1, TaskNames
       DEF TrustInv, RevInv, PairInv, TypeOK, PcType, Moves, Tokens, TokenHeld, Goto, authenticate,
           AuthCall
  <1> QED BY <1>1, <1>2, <1>3, <1>4, TaskNames, PairFrame DEF Moves, Tokens, Honest

LEMMA AuthPutRev ==
  ASSUME RevInv, AuthPut
  PROVE  RevInv' /\ Moves("auth") /\ Tokens("auth") /\ Honest
  <1>1. Moves("auth")
    BY TaskNames, GotoMoves DEF RevInv, AuthPut
  <1>2. Tokens("auth")
    BY TaskNames DEF RevInv, TypeOK, Tokens, AuthPut
  <1>3. DbType' /\ RcvType'
    BY TaskNames DEF RevInv, TypeOK, DbType, RcvType, JournalStates, AuthPut
  <1>4. MemType'
    <2> DEFINE e == [mem.entry EXCEPT !.token = tok["auth"], !.paired = TRUE]
    <2>1. tok["auth"] \in BOOLEAN /\ mem.entry \in Entries /\ MemType
      BY TaskNames DEF RevInv, TypeOK, MemType
    <2>2. e \in Entries /\ e.revoked = mem.entry.revoked
      BY <2>1, EntryPut
    <2>3. mem' = [mem EXCEPT !.entry = e]
      BY DEF AuthPut
    <2> HIDE DEF e
    <2> QED BY <2>1, <2>2, <2>3, EntryWritten
  <1>5. Aside /\ Honest
    <2> DEFINE e == [mem.entry EXCEPT !.token = tok["auth"], !.paired = TRUE]
    <2>1. tok["auth"] \in BOOLEAN /\ mem.entry \in Entries /\ MemType
      BY TaskNames DEF RevInv, TypeOK, MemType
    <2>2. e \in Entries /\ e.revoked = mem.entry.revoked
      BY <2>1, EntryPut
    <2>3. mem' = [mem EXCEPT !.entry = e]
      BY DEF AuthPut
    <2> HIDE DEF e
    <2> QED BY <2>1, <2>2, <2>3, EntryWritten DEF Aside, Honest, AuthPut
  <1>6. RevokeStored'
    BY <1>1, <1>5, TaskNames DEF RevInv, RevokeStored, Moves, Honest
  <1>7. pc["boot"] = "idle"
    BY TaskNames DEF RevInv, BootAlone, Booted, AuthPut
  <1> QED BY <1>1, <1>2, <1>3, <1>4, <1>5, <1>6, <1>7, RevFrame DEF Tokens

LEMMA AuthPutPair ==
  ASSUME TrustInv, AuthPut
  PROVE  PairInv'
  <1>1. Moves("auth") /\ Tokens("auth") /\ Honest
    BY AuthPutRev DEF TrustInv
  <1>2. db'.journal = db.journal /\ (db.paired => db'.paired) /\ rcv' = rcv
    BY DEF TrustInv, RevInv, TypeOK, AuthPut
  <1>3. pc["pair"] # "idle" /\ Full => Full' \/ db'.rev
    <2> DEFINE e == [mem.entry EXCEPT !.token = tok["auth"], !.paired = TRUE]
    <2>1. tok["auth"] \in BOOLEAN /\ mem.entry \in Entries /\ MemType /\ tok["auth"]
      BY TaskNames DEF TrustInv, RevInv, TypeOK, MemType, PairInv, TokenHeld, AuthPut
    <2>2. e \in Entries /\ e.known = mem.entry.known /\ e.paired = TRUE /\ e.token = tok["auth"]
      BY <2>1, EntryPut
    <2>3. mem' = [mem EXCEPT !.entry = e]
      BY DEF AuthPut
    <2> HIDE DEF e
    <2> QED BY <2>1, <2>2, <2>3, EntryWritten DEF Full
  <1>4. pc'["auth"] \in {"put", "save"} => tok'["auth"]
    BY <1>1, TaskNames
       DEF TrustInv, RevInv, PairInv, TypeOK, PcType, Moves, Tokens, TokenHeld, Goto, AuthPut
  <1> QED BY <1>1, <1>2, <1>3, <1>4, TaskNames, PairFrame DEF Moves, Tokens, Honest

LEMMA AuthSaveRev ==
  ASSUME RevInv, AuthSave
  PROVE  RevInv' /\ Moves("auth") /\ Tokens("auth") /\ Honest
  <1>1. Moves("auth")
    BY TaskNames, GotoMoves DEF RevInv, AuthSave, Done
  <1>2. Tokens("auth")
    BY TaskNames DEF RevInv, TypeOK, Tokens, AuthSave, Done
  <1>3. DbType' /\ RcvType'
    BY TaskNames
       DEF RevInv, TypeOK, DbType, RcvType, JournalStates, AuthSave,
           persist_paired_receiver_transaction
  <1>4. MemType'
    BY TaskNames, EntryTypes
       DEF RevInv, TypeOK, MemType, AuthSave, persist_paired_receiver_transaction
  <1>5. Aside /\ Honest
    BY TaskNames, EntryTypes
       DEF RevInv, TypeOK, RevocationIsDurable, RevokeStored, Aside, Honest, AuthSave,
           persist_paired_receiver_transaction
  <1>6. RevokeStored'
    BY <1>1, <1>5, TaskNames DEF RevInv, RevokeStored, Moves, Honest
  <1>7. pc["boot"] = "idle"
    BY TaskNames DEF RevInv, BootAlone, Booted, AuthSave
  <1> QED BY <1>1, <1>2, <1>3, <1>4, <1>5, <1>6, <1>7, RevFrame DEF Tokens

LEMMA AuthSavePair ==
  ASSUME TrustInv, AuthSave
  PROVE  PairInv'
  <1>1. Moves("auth") /\ Tokens("auth") /\ Honest
    BY AuthSaveRev DEF TrustInv
  <1>2. db'.journal = db.journal /\ (db.paired => db'.paired) /\ rcv' = rcv
    BY DEF TrustInv, RevInv, TypeOK, AuthSave, persist_paired_receiver_transaction
  <1>3. pc["pair"] # "idle" /\ Full => Full' \/ db'.rev
    BY EntryTypes, EntryPut, TaskNames
       DEF TrustInv, RevInv, TypeOK, RevocationIsDurable, RevokeStored, Full, AuthSave,
           persist_paired_receiver_transaction
  <1>4. pc'["auth"] \in {"put", "save"} => tok'["auth"]
    BY <1>1, TaskNames
       DEF TrustInv, RevInv, PairInv, TypeOK, PcType, Moves, Tokens, TokenHeld, Goto, Done, AuthSave
  <1> QED BY <1>1, <1>2, <1>3, <1>4, TaskNames, PairFrame DEF Moves, Tokens, Honest

(***************************************************************************)
(* revoke_device and retry_outbox_delivery                                 *)
(***************************************************************************)
LEMMA RevokePersistRev ==
  ASSUME RevInv, RevokePersist
  PROVE  RevInv' /\ Moves("revoke") /\ Tokens("revoke") /\ Honest
  <1>1. Moves("revoke")
    BY TaskNames, GotoMoves DEF RevInv, PcType, Moves, RevokePersist
  <1>2. Tokens("revoke")
    BY TaskNames DEF RevInv, TypeOK, Tokens, RevokePersist
  <1>3. DbType' /\ RcvType'
    BY TaskNames
       DEF RevInv, TypeOK, DbType, RcvType, JournalStates, RevokePersist,
           persist_home_revocation_transaction
  <1>4. MemType'
    BY TaskNames, EntryTypes
       DEF RevInv, TypeOK, MemType, RevokePersist, persist_home_revocation_transaction
  <1>5. Aside /\ Honest
    BY TaskNames, EntryTypes
       DEF RevInv, TypeOK, RevocationIsDurable, RevokeStored, Aside, Honest, RevokePersist,
           persist_home_revocation_transaction
  <1>6. RevokeStored'
    BY <1>1, <1>3, TaskNames
       DEF RevInv, TypeOK, RevokeStored, Moves, Goto, PcType, RevokePersist,
           persist_home_revocation_transaction
  <1>7. pc["boot"] = "idle"
    BY TaskNames DEF RevInv, BootAlone, Booted, RevokePersist
  <1> QED BY <1>1, <1>2, <1>3, <1>4, <1>5, <1>6, <1>7, RevFrame DEF Tokens

LEMMA RevokePersistPair ==
  ASSUME TrustInv, RevokePersist
  PROVE  PairInv'
  <1>1. Moves("revoke") /\ Tokens("revoke") /\ Honest
    BY RevokePersistRev DEF TrustInv
  <1>2. db'.journal = db.journal /\ (db.paired => db'.paired) /\ rcv' = rcv
    BY DEF TrustInv, RevInv, TypeOK, RevokePersist, persist_home_revocation_transaction
  <1>3. pc["pair"] # "idle" /\ Full => Full' \/ db'.rev
    BY EntryTypes, EntryPut, TaskNames
       DEF TrustInv, RevInv, TypeOK, RevocationIsDurable, RevokeStored, Full, RevokePersist,
           persist_home_revocation_transaction
  <1>4. pc'["auth"] \in {"put", "save"} => tok'["auth"]
    BY <1>1, TaskNames
       DEF TrustInv, RevInv, PairInv, TypeOK, PcType, Moves, Tokens, TokenHeld, Goto, RevokePersist
  <1> QED BY <1>1, <1>2, <1>3, <1>4, TaskNames, PairFrame DEF Moves, Tokens, Honest

LEMMA RevokeNoteRev ==
  ASSUME RevInv, RevokeNote
  PROVE  RevInv' /\ Moves("revoke") /\ Tokens("revoke") /\ Honest
  <1>1. Moves("revoke")
    BY TaskNames, GotoMoves DEF RevInv, RevokeNote
  <1>2. Tokens("revoke")
    BY TaskNames DEF RevInv, TypeOK, Tokens, RevokeNote
  <1>3. DbType' /\ RcvType'
    BY TaskNames DEF RevInv, TypeOK, DbType, RcvType, JournalStates, RevokeNote
  <1>4. MemType'
    BY TaskNames, EntryTypes DEF RevInv, TypeOK, MemType, RevokeNote
  <1>5. Aside /\ Honest
    BY TaskNames, EntryTypes
       DEF RevInv, TypeOK, RevocationIsDurable, RevokeStored, Aside, Honest, RevokeNote
  <1>6. RevokeStored'
    BY <1>1, <1>3, TaskNames DEF RevInv, TypeOK, RevokeStored, Moves, Goto, PcType, RevokeNote
  <1>7. pc["boot"] = "idle"
    BY TaskNames DEF RevInv, BootAlone, Booted, RevokeNote
  <1> QED BY <1>1, <1>2, <1>3, <1>4, <1>5, <1>6, <1>7, RevFrame DEF Tokens

LEMMA RevokeNotePair ==
  ASSUME TrustInv, RevokeNote
  PROVE  PairInv'
  <1>1. Moves("revoke") /\ Tokens("revoke") /\ Honest
    BY RevokeNoteRev DEF TrustInv
  <1>2. db'.journal = db.journal /\ (db.paired => db'.paired) /\ rcv' = rcv
    BY DEF TrustInv, RevInv, TypeOK, RevokeNote
  <1>3. pc["pair"] # "idle" /\ Full => Full' \/ db'.rev
    BY EntryTypes, EntryPut, TaskNames
       DEF TrustInv, RevInv, TypeOK, RevocationIsDurable, RevokeStored, Full, RevokeNote
  <1>4. pc'["auth"] \in {"put", "save"} => tok'["auth"]
    BY <1>1, TaskNames
       DEF TrustInv, RevInv, PairInv, TypeOK, PcType, Moves, Tokens, TokenHeld, Goto, RevokeNote
  <1> QED BY <1>1, <1>2, <1>3, <1>4, TaskNames, PairFrame DEF Moves, Tokens, Honest

LEMMA RevokeMarkRev ==
  ASSUME RevInv, RevokeMark
  PROVE  RevInv' /\ Moves("revoke") /\ Tokens("revoke") /\ Honest
  <1>1. Moves("revoke")
    BY TaskNames, GotoMoves DEF RevInv, RevokeMark
  <1>2. Tokens("revoke")
    BY TaskNames DEF RevInv, TypeOK, Tokens, RevokeMark
  <1>3. DbType' /\ RcvType'
    BY TaskNames DEF RevInv, TypeOK, DbType, RcvType, JournalStates, RevokeMark, FreshEntry
  <1>4. MemType'
    BY TaskNames, EntryTypes DEF RevInv, TypeOK, MemType, RevokeMark
  <1>5. Aside /\ Honest
    BY TaskNames, EntryTypes
       DEF RevInv, TypeOK, RevocationIsDurable, RevokeStored, Aside, Honest, RevokeMark
  <1>6. RevokeStored'
    BY <1>1, <1>3, TaskNames
       DEF RevInv, TypeOK, RevokeStored, Moves, Goto, PcType, RevokeMark, FreshEntry
  <1>7. pc["boot"] = "idle"
    BY TaskNames DEF RevInv, BootAlone, Booted, RevokeMark
  <1> QED BY <1>1, <1>2, <1>3, <1>4, <1>5, <1>6, <1>7, RevFrame DEF Tokens

LEMMA RevokeMarkPair ==
  ASSUME TrustInv, RevokeMark
  PROVE  PairInv'
  <1>1. Moves("revoke") /\ Tokens("revoke") /\ Honest
    BY RevokeMarkRev DEF TrustInv
  <1>2. db'.journal = db.journal /\ (db.paired => db'.paired) /\ rcv' = rcv
    BY DEF TrustInv, RevInv, TypeOK, RevokeMark, FreshEntry
  <1>3. pc["pair"] # "idle" /\ Full => Full' \/ db'.rev
    BY EntryTypes, EntryPut, TaskNames
       DEF TrustInv, RevInv, TypeOK, RevocationIsDurable, RevokeStored, Full, RevokeMark
  <1>4. pc'["auth"] \in {"put", "save"} => tok'["auth"]
    BY <1>1, TaskNames
       DEF TrustInv, RevInv, PairInv, TypeOK, PcType, Moves, Tokens, TokenHeld, Goto, RevokeMark
  <1> QED BY <1>1, <1>2, <1>3, <1>4, TaskNames, PairFrame DEF Moves, Tokens, Honest

LEMMA RetryOutboxRev ==
  ASSUME RevInv, RetryOutbox
  PROVE  RevInv' /\ Moves("revoke") /\ Tokens("revoke") /\ Honest
  <1>1. Moves("revoke")
    BY TaskNames, GotoMoves DEF RevInv, PcType, Moves, RetryOutbox
  <1>2. Tokens("revoke")
    BY TaskNames DEF RevInv, TypeOK, Tokens, RetryOutbox, reset_for_retry
  <1>3. DbType' /\ RcvType'
    BY TaskNames DEF RevInv, TypeOK, DbType, RcvType, JournalStates, RetryOutbox, reset_for_retry
  <1>4. MemType'
    BY TaskNames, EntryTypes DEF RevInv, TypeOK, MemType, RetryOutbox, reset_for_retry
  <1>5. Aside /\ Honest
    BY TaskNames, EntryTypes
       DEF RevInv, TypeOK, RevocationIsDurable, RevokeStored, Aside, Honest, RetryOutbox,
           reset_for_retry
  <1>6. RevokeStored'
    BY <1>1, <1>3, TaskNames
       DEF RevInv, TypeOK, RevokeStored, Moves, PcType, RetryOutbox, reset_for_retry
  <1>7. pc["boot"] = "idle"
    BY TaskNames DEF RevInv, BootAlone, Booted, RetryOutbox
  <1> QED BY <1>1, <1>2, <1>3, <1>4, <1>5, <1>6, <1>7, RevFrame DEF Tokens

LEMMA RetryOutboxPair ==
  ASSUME TrustInv, RetryOutbox
  PROVE  PairInv'
  <1>1. Moves("revoke") /\ Tokens("revoke") /\ Honest
    BY RetryOutboxRev DEF TrustInv
  <1>2. db'.journal = db.journal /\ (db.paired => db'.paired) /\ rcv' = rcv
    BY DEF TrustInv, RevInv, TypeOK, RetryOutbox, reset_for_retry
  <1>3. pc["pair"] # "idle" /\ Full => Full' \/ db'.rev
    BY EntryTypes, EntryPut, TaskNames
       DEF TrustInv, RevInv, TypeOK, RevocationIsDurable, RevokeStored, Full, RetryOutbox,
           reset_for_retry
  <1>4. pc'["auth"] \in {"put", "save"} => tok'["auth"]
    BY <1>1, TaskNames
       DEF TrustInv, RevInv, PairInv, TypeOK, PcType, Moves, Tokens, TokenHeld, RetryOutbox
  <1> QED BY <1>1, <1>2, <1>3, <1>4, TaskNames, PairFrame DEF Moves, Tokens, Honest

(***************************************************************************)
(* bootstrap_runtime                                                       *)
(***************************************************************************)
LEMMA LoadRevocationsRev ==
  ASSUME RevInv, LoadRevocations
  PROVE  RevInv' /\ Moves("boot") /\ Tokens("boot") /\ Honest
  <1>1. Moves("boot")
    BY TaskNames, GotoMoves DEF RevInv, LoadRevocations
  <1>2. Tokens("boot")
    BY TaskNames DEF RevInv, TypeOK, Tokens, LoadRevocations
  <1>3. DbType' /\ RcvType'
    BY TaskNames
       DEF RevInv, TypeOK, DbType, RcvType, JournalStates, LoadRevocations, list_home_revocations
  <1>4. MemType'
    BY TaskNames, EntryTypes DEF RevInv, TypeOK, MemType, LoadRevocations, list_home_revocations
  <1>5. Aside /\ Honest
    BY TaskNames, EntryTypes
       DEF RevInv, TypeOK, RevocationIsDurable, RevokeStored, Aside, Honest, LoadRevocations,
           list_home_revocations
  <1>6. RevokeStored'
    BY <1>1, <1>5, TaskNames DEF RevInv, RevokeStored, Moves, Honest
  <1>7. pc["boot"] # "idle"
    BY TaskNames DEF RevInv, BootAlone, Booted, LoadRevocations
  <1> QED BY <1>1, <1>2, <1>3, <1>4, <1>5, <1>6, <1>7, RevFrame DEF Tokens

LEMMA LoadRevocationsPair ==
  ASSUME TrustInv, LoadRevocations
  PROVE  PairInv'
  <1>1. Moves("boot") /\ Tokens("boot") /\ Honest
    BY LoadRevocationsRev DEF TrustInv
  <1>2. db'.journal = db.journal /\ (db.paired => db'.paired) /\ rcv' = rcv
    BY DEF TrustInv, RevInv, TypeOK, LoadRevocations, list_home_revocations
  <1>3. pc["pair"] # "idle" /\ Full => Full' \/ db'.rev
    BY TaskNames DEF TrustInv, RevInv, BootAlone, LoadRevocations
  <1>4. pc'["auth"] \in {"put", "save"} => tok'["auth"]
    BY <1>1, TaskNames
       DEF TrustInv, RevInv, PairInv, TypeOK, PcType, Moves, Tokens, TokenHeld, Goto,
           LoadRevocations
  <1>5. pc'["boot"] = "receivers"
    BY GotoMoves, TaskNames DEF TrustInv, RevInv, LoadRevocations
  <1> QED BY <1>1, <1>2, <1>3, <1>4, <1>5, TaskNames, PairFrame DEF Moves, Tokens, Honest

LEMMA RestoreReceiversRev ==
  ASSUME RevInv, RestoreReceivers
  PROVE  RevInv' /\ Moves("boot") /\ Tokens("boot") /\ Honest
  <1>1. Moves("boot")
    BY TaskNames, GotoMoves DEF RevInv, RestoreReceivers
  <1>2. Tokens("boot")
    BY TaskNames DEF RevInv, TypeOK, Tokens, RestoreReceivers
  <1>3. DbType' /\ RcvType'
    BY TaskNames
       DEF RevInv, TypeOK, DbType, RcvType, JournalStates, RestoreReceivers, Restored, NoEntry,
           FreshEntry
  <1>4. MemType'
    BY TaskNames, EntryTypes DEF RevInv, TypeOK, MemType, RestoreReceivers, Restored
  <1>5. Aside /\ Honest
    BY TaskNames, EntryTypes
       DEF RevInv, TypeOK, RevocationIsDurable, RevokeStored, Aside, Honest, RestoreReceivers,
           Restored
  <1>6. RevokeStored'
    BY <1>1, <1>5, TaskNames DEF RevInv, RevokeStored, Moves, Honest
  <1>7. pc["boot"] # "idle"
    BY TaskNames DEF RevInv, BootAlone, Booted, RestoreReceivers
  <1> QED BY <1>1, <1>2, <1>3, <1>4, <1>5, <1>6, <1>7, RevFrame DEF Tokens

LEMMA RestoreReceiversPair ==
  ASSUME TrustInv, RestoreReceivers
  PROVE  PairInv'
  <1>1. Moves("boot") /\ Tokens("boot") /\ Honest
    BY RestoreReceiversRev DEF TrustInv
  <1>2. db'.journal = db.journal /\ (db.paired => db'.paired) /\ rcv' = rcv
    BY DEF TrustInv, RevInv, TypeOK, RestoreReceivers, Restored, NoEntry, FreshEntry
  <1>3. pc["pair"] # "idle" /\ Full => Full' \/ db'.rev
    BY TaskNames DEF TrustInv, RevInv, BootAlone, RestoreReceivers
  <1>4. pc'["auth"] \in {"put", "save"} => tok'["auth"]
    BY <1>1, TaskNames
       DEF TrustInv, RevInv, PairInv, TypeOK, PcType, Moves, Tokens, TokenHeld, Goto,
           RestoreReceivers
  <1>5. pc'["boot"] = "reconcile"
    BY GotoMoves, TaskNames DEF TrustInv, RevInv, RestoreReceivers
  <1> QED BY <1>1, <1>2, <1>3, <1>4, <1>5, TaskNames, PairFrame DEF Moves, Tokens, Honest

LEMMA ReconcileRev ==
  ASSUME RevInv, Reconcile
  PROVE  RevInv' /\ Moves("boot") /\ Tokens("boot") /\ Honest
  <1>1. Moves("boot")
    BY TaskNames, GotoMoves
       DEF RevInv, Reconcile, FromJournal, FromReceiver, FromSession, authenticate
  <1>2. Tokens("boot")
    BY TaskNames
       DEF RevInv, TypeOK, Tokens, Reconcile, FromJournal, FromReceiver, FromSession, authenticate
  <1>3. DbType' /\ RcvType'
    BY TaskNames
       DEF RevInv, TypeOK, DbType, RcvType, JournalStates, Reconcile, record_pairing_journal,
           FromJournal, FromReceiver, FromSession, authenticate, pair_status
  <1>4. MemType'
    BY TaskNames, EntryTypes
       DEF RevInv, TypeOK, MemType, Reconcile, record_pairing_journal, FromJournal, FromReceiver,
           FromSession, authenticate, pair_status
  <1>5. Aside /\ Honest
    BY TaskNames, EntryTypes
       DEF RevInv, TypeOK, RevocationIsDurable, RevokeStored, Aside, Honest, Reconcile,
           record_pairing_journal, FromJournal, FromReceiver, FromSession, authenticate, pair_status
  <1>6. RevokeStored'
    BY <1>1, <1>5, TaskNames DEF RevInv, RevokeStored, Moves, Honest
  <1>7. pc["boot"] # "idle"
    BY TaskNames DEF RevInv, BootAlone, Booted, Reconcile
  <1> QED BY <1>1, <1>2, <1>3, <1>4, <1>5, <1>6, <1>7, RevFrame DEF Tokens

LEMMA ReconcilePair ==
  ASSUME TrustInv, Reconcile, "gap" \notin Hazards
  PROVE  PairInv'
  <1>1. Moves("boot") /\ Tokens("boot") /\ Honest
    BY ReconcileRev DEF TrustInv
  <1>2. JournalFollows'
    BY <1>1, GotoMoves, TaskNames
       DEF TrustInv, RevInv, BootAlone, TypeOK, PairInv, JournalFollows, Moves, Reconcile,
           record_pairing_journal, FromJournal, FromReceiver, FromSession, authenticate, pair_status
  <1>3. TokenHeld'
    BY <1>1, GotoMoves, TaskNames
       DEF TrustInv, RevInv, BootAlone, TypeOK, PairInv, TokenHeld, Moves, Tokens, Reconcile,
           record_pairing_journal, FromJournal, FromReceiver, FromSession, authenticate, pair_status
  <1>4. ConfirmedRecorded'
    <2>1. pc["pair"] = "idle" /\ pc'["pair"] = "idle" /\ rcv' = rcv
      BY <1>1, TaskNames DEF TrustInv, RevInv, BootAlone, Moves, Reconcile
    <2>2. pc'["boot"] \in {"idle", "restore"}
      BY GotoMoves, TaskNames
         DEF TrustInv, RevInv, Reconcile, FromJournal, FromReceiver, FromSession
    <2>3. rcv = "confirmed" => Recorded
      BY <2>1 DEF TrustInv, PairInv, ConfirmedRecorded
    <2>4. rcv = "confirmed" => Recorded'
      BY <2>3
         DEF TrustInv, RevInv, TypeOK, Recorded, Unrecovered, Reconcile, FromJournal, FromReceiver,
             FromSession, pair_status, record_pairing_journal
    <2> QED BY <2>1, <2>2, <2>4, RecordLeft
  <1> QED BY <1>2, <1>3, <1>4 DEF PairInv

LEMMA RestorePairingRev ==
  ASSUME RevInv, RestorePairing
  PROVE  RevInv' /\ Moves("boot") /\ Tokens("boot") /\ Honest
  <1>1. Moves("boot")
    BY TaskNames, GotoMoves DEF RevInv, RestorePairing
  <1>2. Tokens("boot")
    BY TaskNames DEF RevInv, TypeOK, Tokens, RestorePairing
  <1>3. DbType' /\ RcvType'
    BY TaskNames
       DEF RevInv, TypeOK, DbType, RcvType, JournalStates, RestorePairing,
           persist_paired_receiver_transaction
  <1>4. MemType'
    BY TaskNames, EntryTypes
       DEF RevInv, TypeOK, MemType, RestorePairing, persist_paired_receiver_transaction
  <1>5. Aside /\ Honest
    BY TaskNames, EntryTypes
       DEF RevInv, TypeOK, RevocationIsDurable, RevokeStored, Aside, Honest, RestorePairing,
           persist_paired_receiver_transaction
  <1>6. RevokeStored'
    BY <1>1, <1>5, TaskNames DEF RevInv, RevokeStored, Moves, Honest
  <1>7. pc["boot"] # "idle"
    BY TaskNames DEF RevInv, BootAlone, Booted, RestorePairing
  <1> QED BY <1>1, <1>2, <1>3, <1>4, <1>5, <1>6, <1>7, RevFrame DEF Tokens

LEMMA RestorePairingPair ==
  ASSUME TrustInv, RestorePairing, "gap" \notin Hazards
  PROVE  PairInv'
  <1>1. Moves("boot") /\ Tokens("boot") /\ Honest
    BY RestorePairingRev DEF TrustInv
  <1>2. JournalFollows'
    BY <1>1, GotoMoves, TaskNames
       DEF TrustInv, RevInv, BootAlone, TypeOK, PairInv, JournalFollows, Moves, RestorePairing,
           persist_paired_receiver_transaction
  <1>3. TokenHeld'
    BY <1>1, GotoMoves, TaskNames
       DEF TrustInv, RevInv, BootAlone, TypeOK, PairInv, TokenHeld, Moves, Tokens, RestorePairing,
           persist_paired_receiver_transaction
  <1>4. ConfirmedRecorded'
    BY <1>1, GotoMoves, TaskNames, EntryTypes
       DEF TrustInv, RevInv, BootAlone, TypeOK, PairInv, JournalFollows, TokenHeld,
           ConfirmedRecorded, Recorded, Unrecovered, Moves, Honest, RestorePairing,
           persist_paired_receiver_transaction
  <1> QED BY <1>2, <1>3, <1>4 DEF PairInv

LEMMA EnterRestoredRev ==
  ASSUME RevInv, EnterRestored
  PROVE  RevInv' /\ Moves("boot") /\ Tokens("boot") /\ Honest
  <1>1. Moves("boot")
    BY TaskNames, GotoMoves DEF RevInv, EnterRestored, Done
  <1>2. Tokens("boot")
    BY TaskNames DEF RevInv, TypeOK, Tokens, EnterRestored, Done
  <1>3. DbType' /\ RcvType'
    BY TaskNames
       DEF RevInv, TypeOK, DbType, RcvType, JournalStates, EnterRestored, FreshEntry,
           record_pairing_journal
  <1>4. MemType'
    BY TaskNames, EntryTypes DEF RevInv, TypeOK, MemType, EnterRestored, record_pairing_journal
  <1>5. Aside /\ Honest
    BY TaskNames, EntryTypes
       DEF RevInv, TypeOK, RevocationIsDurable, RevokeStored, Aside, Honest, EnterRestored,
           record_pairing_journal
  <1>6. RevokeStored'
    BY <1>1, <1>5, TaskNames DEF RevInv, RevokeStored, Moves, Honest
  <1>7. pc["boot"] # "idle"
    BY TaskNames DEF RevInv, BootAlone, Booted, EnterRestored
  <1> QED BY <1>1, <1>2, <1>3, <1>4, <1>5, <1>6, <1>7, RevFrame DEF Tokens

LEMMA EnterRestoredPair ==
  ASSUME TrustInv, EnterRestored, "gap" \notin Hazards
  PROVE  PairInv'
  <1>1. Moves("boot") /\ Tokens("boot") /\ Honest
    BY EnterRestoredRev DEF TrustInv
  <1>2. JournalFollows'
    BY <1>1, GotoMoves, TaskNames
       DEF TrustInv, RevInv, BootAlone, TypeOK, PairInv, JournalFollows, Moves, Done, EnterRestored,
           FreshEntry, record_pairing_journal
  <1>3. TokenHeld'
    BY <1>1, GotoMoves, TaskNames
       DEF TrustInv, RevInv, BootAlone, TypeOK, PairInv, TokenHeld, Moves, Tokens, Done,
           EnterRestored, FreshEntry, record_pairing_journal
  <1>4. ConfirmedRecorded'
    BY <1>1, GotoMoves, TaskNames, EntryTypes
       DEF TrustInv, RevInv, BootAlone, TypeOK, PairInv, JournalFollows, TokenHeld,
           ConfirmedRecorded, Recorded, Unrecovered, Moves, Honest, Done, EnterRestored,
           record_pairing_journal
  <1> QED BY <1>2, <1>3, <1>4 DEF PairInv

(***************************************************************************)
(* flush_revocation_outbox                                                 *)
(***************************************************************************)
\* A step of the worker w that goes on with what it holds.
LEMMA FlushFrame ==
  ASSUME RevInv, NEW w \in Workers, Moves(w), UNCHANGED <<rcv, tok>>,
         DbType', MemType', Honest, pc["boot"] = "idle",
         pc'[w] \in Delivering => mem'.outFlight /\ (pc[w] \in Delivering \/ ~mem.outFlight),
         mem.outFlight => mem'.outFlight \/ pc[w] \in Delivering,
         pc'[w] = "ack" => told', told => told',
         db'.outbox = "acknowledged" => told'
  PROVE  RevInv'
  <1>1. TypeOK' /\ PcType'
    BY DEF RevInv, TypeOK, DbType, MemType, Moves
  <1>2. pc'["boot"] = pc["boot"] /\ pc'["revoke"] = pc["revoke"]
    BY TaskNames DEF Moves
  <1>3. \A v \in Workers : v # w => pc'[v] = pc[v]
    BY TaskNames DEF Moves
  <1>4. FlightHeld'
    BY <1>3 DEF RevInv, FlightHeld
  <1>5. ToldFirst' /\ AcknowledgedIsTold'
    BY <1>3 DEF RevInv, ToldFirst, AcknowledgedIsTold
  <1>6. RevocationIsDurable' /\ RevokeStored' /\ BootAlone'
    BY <1>2 DEF RevInv, RevocationIsDurable, RevokeStored, BootAlone, Honest
  <1> QED BY <1>1, <1>4, <1>5, <1>6 DEF RevInv

\* The steps of a worker, and what they leave alone.
LEMMA FlushRev ==
  ASSUME RevInv, NEW w \in Workers, Flush(w)
  PROVE  /\ RevInv'
         /\ Moves(w) /\ UNCHANGED <<rcv, tok>>
         /\ db'.journal = db.journal /\ db'.paired = db.paired /\ db'.rev = db.rev
         /\ mem'.entry = mem.entry
  <1> DEFINE Others ==
        /\ Moves(w) /\ UNCHANGED <<rcv, tok>>
        /\ db'.journal = db.journal /\ db'.paired = db.paired /\ db'.rev = db.rev
        /\ mem'.entry = mem.entry /\ mem'.revs = mem.revs
  <1>0. DbType /\ MemType /\ PcType /\ w \in Tasks
    BY TaskNames DEF RevInv, TypeOK, DbType, MemType
  <1>1. pc["boot"] = "idle"
    BY TaskNames
       DEF RevInv, BootAlone, Booted, Flush, FlushList, FlushEnter, FlushClaim, FlushPush,
           FlushNote, FlushLeave
  <1>2. CASE FlushList(w)
    <2>1. Others /\ pc'[w] = "enter" /\ UNCHANGED <<db, mem, told>>
      BY <1>0, <1>2, GotoMoves DEF FlushList
    <2>2. DbType' /\ MemType' /\ Honest
      BY <1>0, <2>1 DEF DbType, MemType, Honest
    <2>3. RevInv'
      BY <1>1, <2>1, <2>2, FlushFrame DEF Delivering, RevInv, AcknowledgedIsTold
    <2> QED BY <2>1, <2>3
  <1>3. CASE FlushEnter(w)
    <2>1. Others /\ UNCHANGED <<db, told>> /\ MemType' /\ mem'.outFlight
      BY <1>0, <1>3, GotoMoves DEF FlushEnter, MemType
    <2>2. pc'[w] = IF mem.outFlight THEN "idle" ELSE "claim"
      BY <1>0, <1>3, GotoMoves DEF FlushEnter
    <2>3. DbType' /\ Honest
      BY <1>0, <2>1 DEF DbType, Honest
    <2>4. RevInv'
      BY <1>1, <2>1, <2>2, <2>3, FlushFrame DEF Delivering, RevInv, AcknowledgedIsTold
    <2> QED BY <2>1, <2>4
  <1>4. CASE FlushClaim(w)
    <2>1. Others /\ UNCHANGED <<mem, told>> /\ DbType'
      BY <1>0, <1>4, GotoMoves DEF FlushClaim, DbType, mark_delivering
    <2>2. db'.outbox = "acknowledged" => db.outbox = "acknowledged"
      BY <1>0, <1>4 DEF FlushClaim, DbType, mark_delivering
    <2>3. pc[w] = "claim" /\ pc'[w] \in {"push", "leave"}
      BY <1>0, <1>4, GotoMoves DEF FlushClaim
    <2>4. MemType' /\ Honest
      BY <1>0, <2>1 DEF MemType, Honest
    <2>5. RevInv'
      BY <1>1, <2>1, <2>2, <2>3, <2>4, FlushFrame
         DEF Delivering, RevInv, AcknowledgedIsTold, FlightHeld
    <2> QED BY <2>1, <2>5
  <1>5. CASE FlushPush(w)
    <2>1. Others /\ UNCHANGED <<db, mem>> /\ pc[w] = "push"
      BY <1>0, <1>5, GotoMoves DEF FlushPush
    <2>2. (told => told') /\ pc'[w] \in {"ack", "nack"} /\ (pc'[w] = "ack" => told')
      <3>1. CASE push_revocation /\ Goto(w, "ack")
        <4>1. pc'[w] = "ack"
          BY <1>0, <3>1, GotoMoves
        <4> QED BY <3>1, <4>1 DEF push_revocation
      <3>2. CASE told' \in {told, TRUE} /\ Goto(w, "nack")
        <4>1. pc'[w] = "nack"
          BY <1>0, <3>2, GotoMoves
        <4>2. told => told'
          BY <3>2, Zenon
        <4> QED BY <4>1, <4>2
      <3> QED BY <1>5, <3>1, <3>2 DEF FlushPush
    <2>3. DbType' /\ MemType' /\ Honest
      BY <1>0, <2>1 DEF DbType, MemType, Honest
    <2>4. RevInv'
      BY <1>1, <2>1, <2>2, <2>3, FlushFrame DEF Delivering, RevInv, AcknowledgedIsTold, FlightHeld
    <2> QED BY <2>1, <2>4
  <1>6. CASE FlushNote(w)
    <2>1. Others /\ UNCHANGED <<mem, told>> /\ DbType'
      BY <1>0, <1>6, GotoMoves DEF FlushNote, DbType, mark_acknowledged, mark_attempt_failed
    <2>2. db'.outbox = "acknowledged" => db.outbox = "acknowledged" \/ pc[w] = "ack"
      BY <1>0, <1>6 DEF FlushNote, DbType, mark_acknowledged, mark_attempt_failed
    <2>3. pc[w] \in {"ack", "nack"} /\ pc'[w] = "leave"
      BY <1>0, <1>6, GotoMoves DEF FlushNote
    <2>4. MemType' /\ Honest
      BY <1>0, <2>1 DEF MemType, Honest
    <2>5. RevInv'
      BY <1>1, <2>1, <2>2, <2>3, <2>4, FlushFrame
         DEF Delivering, RevInv, AcknowledgedIsTold, FlightHeld, ToldFirst
    <2> QED BY <2>1, <2>5
  <1>7. CASE FlushLeave(w)
    <2>1. Others /\ UNCHANGED <<db, told>> /\ MemType'
      BY <1>0, <1>7, GotoMoves DEF FlushLeave, MemType
    <2>2. pc[w] = "leave" /\ pc'[w] = "idle"
      BY <1>0, <1>7, GotoMoves DEF FlushLeave
    <2>3. DbType' /\ Honest
      BY <1>0, <2>1 DEF DbType, Honest
    <2>4. RevInv'
      BY <1>1, <2>1, <2>2, <2>3, FlushFrame DEF Delivering, RevInv, AcknowledgedIsTold
    <2> QED BY <2>1, <2>4
  <1> QED BY <1>2, <1>3, <1>4, <1>5, <1>6, <1>7 DEF Flush

LEMMA FlushPair ==
  ASSUME TrustInv, NEW w \in Workers, Flush(w)
  PROVE  PairInv'
  <1>1. /\ Moves(w) /\ UNCHANGED <<rcv, tok>>
        /\ db'.journal = db.journal /\ db'.paired = db.paired /\ db'.rev = db.rev
        /\ mem'.entry = mem.entry
    BY FlushRev DEF TrustInv
  <1>2. pc'["pair"] = pc["pair"] /\ pc'["boot"] = pc["boot"] /\ pc'["auth"] = pc["auth"]
    BY <1>1, TaskNames DEF Moves
  <1> QED BY <1>1, <1>2, PairFrame DEF TrustInv, PairInv, TokenHeld, Full

(***************************************************************************)
(* delete_receiver_handler, the discovery bridge and the crash             *)
(***************************************************************************)
\* An action that moves no task keeps the invariant of revocations.
LEMMA StillRev ==
  ASSUME RevInv, UNCHANGED <<pc, tok, told>>, DbType', MemType', RcvType', Honest,
         mem'.outFlight = mem.outFlight, db'.outbox = db.outbox
  PROVE  RevInv'
  <1>1. TypeOK' /\ PcType'
    BY DEF RevInv, TypeOK, DbType, MemType, RcvType, PcType
  <1>2. RevocationIsDurable' /\ RevokeStored' /\ BootAlone'
    BY DEF RevInv, RevocationIsDurable, RevokeStored, BootAlone, Honest
  <1>3. FlightHeld' /\ ToldFirst' /\ AcknowledgedIsTold'
    BY DEF RevInv, FlightHeld, ToldFirst, AcknowledgedIsTold
  <1> QED BY <1>1, <1>2, <1>3 DEF RevInv

LEMMA DeleteRev ==
  ASSUME RevInv, Delete
  PROVE  RevInv'
  <1>1. DbType /\ MemType
    BY DEF RevInv, TypeOK, DbType, MemType
  <1>2. DbType' /\ RcvType' /\ db'.rev = db.rev /\ db'.outbox = db.outbox
    BY <1>1 DEF Delete, DbType, RcvType, delete_receiver
  <1>3. MemType' /\ mem'.entry = NoEntry /\ mem'.revs = mem.revs /\ mem'.outFlight = mem.outFlight
    BY <1>1, EntryWritten, EntryTypes DEF Delete
  <1>4. Honest
    BY <1>2, <1>3, EntryTypes DEF Honest
  <1> QED BY <1>2, <1>3, <1>4, StillRev DEF Delete

\* The pairing ends on both sides.
LEMMA DeletePair ==
  ASSUME TrustInv, Delete
  PROVE  PairInv'
  <1>1. db'.journal = db.journal /\ db'.rev = db.rev
    BY DEF TrustInv, RevInv, TypeOK, Delete, delete_receiver
  <1> QED BY <1>1, PairFrame DEF Delete, TrustInv, PairInv, TokenHeld

LEMMA DiscoverRev ==
  ASSUME RevInv, Discover
  PROVE  RevInv'
  <1>1. DbType /\ MemType /\ RcvType
    BY DEF RevInv, TypeOK, DbType, MemType, RcvType
  <1>2. MemType' /\ mem'.entry = FreshEntry /\ mem'.revs = mem.revs /\ mem'.outFlight = mem.outFlight
    BY <1>1, EntryWritten, EntryTypes DEF Discover
  <1>3. DbType' /\ RcvType' /\ Honest /\ db'.outbox = db.outbox
    BY <1>1, <1>2, EntryTypes DEF Honest, DbType, RcvType, Discover
  <1> QED BY <1>2, <1>3, StillRev DEF Discover

LEMMA DiscoverPair ==
  ASSUME TrustInv, Discover
  PROVE  PairInv'
  BY PairFrame DEF Discover, TrustInv, PairInv, TokenHeld, Full

\* A crash leaves what is stored and nothing else.
LEMMA CrashRev ==
  ASSUME RevInv, Crash
  PROVE  RevInv'
  <1>1. DbType' /\ RcvType' /\ tok' \in [Tasks -> BOOLEAN] /\ PcType'
    BY DEF RevInv, TypeOK, DbType, RcvType, PcType, Crash
  <1>2. MemType' /\ ~mem'.revs /\ mem'.entry = NoEntry
    BY EntryTypes DEF RevInv, TypeOK, MemType, Crash
  <1>3. \A t \in Tasks : t # "boot" => pc'[t] = "idle"
    BY DEF Crash
  <1>4. \A w \in Workers : pc'[w] = "idle"
    BY <1>3, TaskNames
  <1>5. pc'["revoke"] = "idle"
    BY <1>3, TaskNames
  <1>6. TypeOK'
    BY <1>1, <1>2 DEF TypeOK, DbType, MemType, RcvType
  <1>7. RevocationIsDurable' /\ RevokeStored' /\ BootAlone'
    BY <1>2, <1>3, <1>5, EntryTypes DEF RevocationIsDurable, RevokeStored, BootAlone
  <1>8. FlightHeld' /\ ToldFirst' /\ AcknowledgedIsTold'
    BY <1>4 DEF RevInv, FlightHeld, Delivering, ToldFirst, AcknowledgedIsTold, Crash
  <1> QED BY <1>1, <1>6, <1>7, <1>8 DEF RevInv

\* Outside the windows the database tells of a confirmed pairing.
LEMMA CrashPair ==
  ASSUME TrustInv, Crash, "gap" \notin Hazards
  PROVE  PairInv'
  <1>1. pc'["pair"] = "idle" /\ pc'["auth"] = "idle" /\ pc'["boot"] = "revocations"
    BY TaskNames DEF Crash
  <1>2. rcv' = rcv /\ db' = db
    BY DEF Crash
  <1>3. pc["pair"] \in {"persist", "abandon"} => db.journal # "persisted"
    BY DEF Crash, InGap
  <1>4. rcv = "confirmed" => Recorded
    BY <1>3 DEF TrustInv, PairInv, JournalFollows, ConfirmedRecorded, Recorded, Unrecovered
  <1>5. ConfirmedRecorded'
    BY <1>1, <1>2, <1>4, RecordLeft DEF Recorded
  <1>6. JournalFollows' /\ TokenHeld'
    BY <1>1 DEF JournalFollows, TokenHeld
  <1> QED BY <1>5, <1>6 DEF PairInv

-----------------------------------------------------------------------------
(***************************************************************************)
(* The theorems                                                            *)
(***************************************************************************)
LEMMA InitTrust == Init => TrustInv
  <1> SUFFICES ASSUME Init PROVE TrustInv
    OBVIOUS
  <1>1. DbType /\ RcvType
    BY DEF Init, DbType, RcvType, JournalStates
  <1>2. MemType /\ ~mem.revs /\ ~mem.entry.revoked
    BY EntryTypes DEF Init, MemType
  <1>3. PcType /\ tok \in [Tasks -> BOOLEAN]
    BY DEF Init, PcType
  <1>4. \A t \in Tasks : pc[t] = "idle"
    BY DEF Init
  <1>5. pc["pair"] = "idle" /\ pc["auth"] = "idle" /\ pc["revoke"] = "idle" /\ pc["boot"] = "idle"
    BY <1>4, TaskNames
  <1>6. \A w \in Workers : pc[w] = "idle"
    BY <1>4, TaskNames
  <1>7. TypeOK
    BY <1>1, <1>2, <1>3 DEF TypeOK, DbType, MemType, RcvType
  <1>8. RevocationIsDurable /\ RevokeStored /\ BootAlone /\ FlightHeld /\ ToldFirst /\ AcknowledgedIsTold
    BY <1>2, <1>5, <1>6
       DEF RevocationIsDurable, RevokeStored, BootAlone, FlightHeld, Delivering, ToldFirst,
           AcknowledgedIsTold, Init
  <1>9. PairInv
    BY <1>5 DEF PairInv, JournalFollows, TokenHeld, ConfirmedRecorded, Init
  <1> QED BY <1>3, <1>7, <1>8, <1>9 DEF TrustInv, RevInv

LEMMA RevStutters == RevInv /\ UNCHANGED vars => RevInv'
  BY DEF RevInv, TypeOK, PcType, RevocationIsDurable, RevokeStored, BootAlone, FlightHeld,
     ToldFirst, AcknowledgedIsTold, vars

LEMMA PairStutters == PairInv /\ UNCHANGED vars => PairInv'
  BY DEF PairInv, JournalFollows, TokenHeld, ConfirmedRecorded, Recorded, vars

LEMMA RevStep == RevInv /\ [Next]_vars => RevInv'
  <1> SUFFICES ASSUME RevInv, [Next]_vars PROVE RevInv'
    OBVIOUS
  <1>1. CASE Pairing
    BY <1>1, StartPairingRev, ConfirmSentRev, SendRev, OutcomeUnknownRev, AskStatusRev,
       NoteTokenRev, RegisterRev, AbandonRev, CompleteRev, PersistRev DEF Pairing
  <1>2. CASE Authentication
    BY <1>2, AuthUrlRev, AuthEnterRev, AuthCheckRev, AuthCallRev, AuthPutRev, AuthSaveRev
       DEF Authentication
  <1>3. CASE Revocation
    BY <1>3, RevokePersistRev, RevokeNoteRev, RevokeMarkRev, RetryOutboxRev DEF Revocation
  <1>4. CASE Boot
    BY <1>4, LoadRevocationsRev, RestoreReceiversRev, ReconcileRev, RestorePairingRev,
       EnterRestoredRev DEF Boot
  <1>5. CASE \E w \in Workers : Flush(w)
    BY <1>5, FlushRev
  <1>6. CASE Delete \/ Discover \/ Crash
    BY <1>6, DeleteRev, DiscoverRev, CrashRev
  <1> QED BY <1>1, <1>2, <1>3, <1>4, <1>5, <1>6, RevStutters DEF Next

LEMMA PairStep ==
  ASSUME "gap" \notin Hazards
  PROVE  TrustInv /\ [Next]_vars => PairInv'
  <1> SUFFICES ASSUME TrustInv, [Next]_vars PROVE PairInv'
    OBVIOUS
  <1>1. CASE Pairing
    BY <1>1, StartPairingPair, ConfirmSentPair, SendPair, OutcomeUnknownPair, AskStatusPair,
       NoteTokenPair, RegisterPair, AbandonPair, CompletePair, PersistPair DEF Pairing
  <1>2. CASE Authentication
    BY <1>2, AuthUrlPair, AuthEnterPair, AuthCheckPair, AuthCallPair, AuthPutPair, AuthSavePair
       DEF Authentication
  <1>3. CASE Revocation
    BY <1>3, RevokePersistPair, RevokeNotePair, RevokeMarkPair, RetryOutboxPair DEF Revocation
  <1>4. CASE Boot
    BY <1>4, LoadRevocationsPair, RestoreReceiversPair, ReconcilePair, RestorePairingPair,
       EnterRestoredPair DEF Boot
  <1>5. CASE \E w \in Workers : Flush(w)
    BY <1>5, FlushPair
  <1>6. CASE Delete \/ Discover \/ Crash
    BY <1>6, DeletePair, DiscoverPair, CrashPair
  <1> QED BY <1>1, <1>2, <1>3, <1>4, <1>5, <1>6, PairStutters DEF Next, TrustInv

\* Whatever is lost, refused or interrupted, in every window: what refuses a receiver in memory is
\* in the database, one call of flush_revocation_outbox delivers an entry at a time, and an entry
\* is acknowledged only when the target has been told (revoke_device, flush_revocation_outbox).
THEOREM RevocationsAreKept ==
  Spec => [](TypeOK /\ RevocationIsDurable /\ OneDelivery /\ AcknowledgedIsTold)
  <1>1. Init => RevInv
    BY InitTrust DEF TrustInv
  <1>2. RevInv => TypeOK /\ RevocationIsDurable /\ OneDelivery /\ AcknowledgedIsTold
    BY DEF RevInv, FlightHeld, Delivering, OneDelivery
  <1> QED BY <1>1, <1>2, RevStep, PTL DEF Spec

\* Where no crash or ignored failure falls into the windows that the database does not tell of,
\* a confirmed pairing is also stored, listed by the journal for the next start, or revoked
\* (confirm_pairing, reconcile_unrecovered_pairings): the whole of TrustAccounted.
THEOREM TrustIsAccounted ==
  ASSUME "gap" \notin Hazards
  PROVE  Spec => []TrustAccounted
  <1>1. TrustInv /\ [Next]_vars => TrustInv'
    BY RevStep, PairStep DEF TrustInv
  <1>2. TrustInv => TrustAccounted
    BY DEF TrustInv, RevInv, FlightHeld, Delivering, OneDelivery, PairInv, ConfirmedRecorded,
       Recorded, PairingAccounted, TrustAccounted
  <1> QED BY <1>1, <1>2, InitTrust, PTL DEF Spec
=============================================================================
