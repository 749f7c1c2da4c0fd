-------------------------------- MODULE Accounts --------------------------------
(***************************************************************************)
(* Accounts and login sessions: the users table with its administrator     *)
(* managed by the environment (init_admin_user at every start), the        *)
(* auth_sessions rows, and the session cache of AuthState in front of      *)
(* them.  A request is the sequence of its awaits; the client may go away  *)
(* at each.                                                                *)
(*                                                                         *)
(* Passwords are model values compared for equality.  A token is a number, *)
(* its hash the token.  Only the expiry that has passed is kept.  A cache  *)
(* hit changes nothing and is no action.  No code path deletes a user.     *)
(***************************************************************************)
EXTENDS Naturals, FiniteSets

CONSTANTS
  UserIds, Names, Passwords,
  Nobody,          \* no user, no row
  Callers,         \* concurrent requests
  MaxTokens,       \* bound on session tokens
  MaxBoots,        \* bound on starts of the server
  AuthFaults       \* what an instance contains of "vanish": a client that goes away

ASSUME AccountAssumption ==
  /\ IsFiniteSet(UserIds) /\ MaxTokens \in Nat /\ MaxBoots \in Nat
  /\ AuthFaults \subseteq {"vanish"} /\ Nobody \notin UserIds
  /\ Nobody \notin [name : Names, pw : Passwords, admin : BOOLEAN, managed : BOOLEAN]

AuthTokens == 1..MaxTokens

VARIABLES
  users,     \* users: name, password, admin and managed flags of each row, Nobody if absent
  conf,      \* MICHI_AUTH_USERNAME and MICHI_AUTH_PASSWORD of the running server, Nobody when down
  rows,      \* auth_sessions: the user of each token
  cache,     \* AuthState.sessions
  aged,      \* tokens past their expiry
  call,      \* requests: stage, user, name and token
  ntok,      \* tokens handed out
  signed,    \* ghost: the name and password a token was issued for
  out,       \* ghost: tokens whose logout, or whose mass revocation, was answered
  overlap,   \* ghost: tokens a validation or login was storing when they were revoked
  nboots

accVars == <<users, conf, rows, cache, aged, call, ntok, signed, out, overlap, nboots>>

NoCall == [pc |-> "idle", user |-> Nobody, name |-> Nobody, pw |-> Nobody, tok |-> 0]
Known == {u \in UserIds : users[u] # Nobody}
Named(n) == {u \in Known : users[u].name = n}
Row(n, p, admin, managed) == [name |-> n, pw |-> p, admin |-> admin, managed |-> managed]

\* A database written before accounts were managed: any users, with distinct names.
OldRows == {r \in [name : Names, pw : Passwords, admin : BOOLEAN, managed : BOOLEAN] : ~r.managed}

AccInit ==
  /\ users \in {f \in [UserIds -> {Nobody} \union OldRows] :
                 \A u, v \in UserIds : u # v /\ f[u] # Nobody /\ f[v] # Nobody => f[u].name # f[v].name}
  /\ conf = Nobody /\ rows = [t \in AuthTokens |-> Nobody] /\ cache = {} /\ aged = {}
  /\ call = [c \in Callers |-> NoCall] /\ ntok = 0
  /\ signed = [t \in AuthTokens |-> Nobody] /\ out = {} /\ overlap = {} /\ nboots = 0

---------------------------------------------------------------------------
\* init_admin_user: whom the environment's administrator is, whether the sessions go.

Managed == {u \in Known : users[u].managed}
Admins == {u \in Known : users[u].admin}

\* reconcile_managed_admin: nothing when another user has the name.
Reconciles(u, n) == Named(n) \ {u} = {}

\* Mutant: only a change of the password ends the sessions.
RevokePassword(u, n, p) == users[u].pw # p
MustRevoke(u, n, p) == users[u].pw # p \/ users[u].name # n

Reconcile(u, n, p) ==
  /\ users' = [users EXCEPT ![u] = Row(n, p, TRUE, TRUE)]
  /\ rows' = IF MustRevoke(u, n, p) THEN [t \in AuthTokens |-> IF rows[t] = u THEN Nobody ELSE rows[t]]
             ELSE rows

CreateManaged(n, p) ==
  /\ \E u \in UserIds \ Known : users' = [users EXCEPT ![u] = Row(n, p, TRUE, TRUE)]
  /\ UNCHANGED rows

\* Mutant: the rows of the administrators are not counted.
AdoptAny(n) == Admins
\* The user adopted: the managed one, else the one of that name, else a single administrator.
Adopted(n) ==
  IF Managed # {} THEN Managed
  ELSE IF Named(n) # {} THEN Named(n)
  ELSE IF Cardinality(Admins) = 1 THEN Admins ELSE {}

init_admin_user(n, p) ==
  \/ \E u \in Adopted(n) : Reconciles(u, n) /\ Reconcile(u, n, p)
  \/ Adopted(n) = {} /\ Admins = {} /\ CreateManaged(n, p)

\* The name belongs to somebody else, or several administrators and none of that name.
Refuses(n) ==
  \/ \E u \in Adopted(n) : ~Reconciles(u, n)
  \/ Adopted(n) = {} /\ Admins # {}

\* The server is (re)started; it stays down when the administrator cannot be initialized.
Boot ==
  /\ nboots < MaxBoots /\ nboots' = nboots + 1
  /\ cache' = {} /\ call' = [c \in Callers |-> NoCall]
  /\ \E n \in Names, p \in Passwords :
       \/ init_admin_user(n, p) /\ conf' = [name |-> n, pw |-> p]
       \/ Refuses(n) /\ UNCHANGED <<users, rows>> /\ conf' = Nobody
  /\ UNCHANGED <<aged, ntok, signed, out, overlap>>

---------------------------------------------------------------------------
\* Requests

Step(c, r) == call' = [call EXCEPT ![c] = r]
Ends(c) == Step(c, NoCall)
Up == conf # Nobody

\* login_handler: the account is looked up and the password verified.
login(c) ==
  /\ Up /\ call[c].pc = "idle"
  /\ \E u \in Known : Step(c, [NoCall EXCEPT !.pc = "row", !.user = u,
                                            !.name = users[u].name, !.pw = users[u].pw])
  /\ UNCHANGED <<users, conf, rows, cache, aged, ntok, signed, out, overlap, nboots>>

\* register_handler: the name is free; the row; then as a login.
register(c) ==
  /\ Up /\ call[c].pc = "idle"
  /\ \E n \in Names, p \in Passwords :
       Named(n) = {} /\ Step(c, [NoCall EXCEPT !.pc = "create", !.name = n, !.pw = p])
  /\ UNCHANGED <<users, conf, rows, cache, aged, ntok, signed, out, overlap, nboots>>

create_user(c) ==
  LET r == call[c]
  IN /\ r.pc = "create"
     /\ \/ /\ Named(r.name) = {}
           /\ \E u \in UserIds \ Known :
                /\ users' = [users EXCEPT ![u] = Row(r.name, r.pw, FALSE, FALSE)]
                /\ Step(c, [r EXCEPT !.pc = "row", !.user = u])
        \/ Named(r.name) # {} /\ Ends(c) /\ UNCHANGED users
     /\ UNCHANGED <<conf, rows, cache, aged, ntok, signed, out, overlap, nboots>>

\* The row of a new session, and whether a token has one that is still good.
InsertSession(t, u) == rows' = [rows EXCEPT ![t] = u]
get_auth_session(t) == rows[t] # Nobody /\ t \notin aged

\* create_session: the row, then the cache.
create_auth_session(c) ==
  LET r == call[c]
      t == ntok + 1
  IN /\ r.pc = "row" /\ ntok < MaxTokens /\ ntok' = t
     /\ InsertSession(t, r.user)
     /\ signed' = [signed EXCEPT ![t] = [name |-> r.name, pw |-> r.pw]]
     /\ Step(c, [r EXCEPT !.pc = "fill", !.tok = t])
     /\ UNCHANGED <<users, conf, cache, aged, out, overlap, nboots>>

\* extract_user_id of a token that is not cached: the row is read and not expired.
extract_user_id(c, t) ==
  /\ Up /\ call[c].pc = "idle" /\ t \notin cache
  /\ get_auth_session(t)
  /\ Step(c, [NoCall EXCEPT !.pc = "fill", !.user = rows[t], !.tok = t])
  /\ UNCHANGED <<users, conf, rows, cache, aged, ntok, signed, out, overlap, nboots>>

\* The token enters the cache, whatever became of the row meanwhile.
FillCache(c) ==
  /\ call[c].pc = "fill"
  /\ cache' = cache \union {call[c].tok} /\ Ends(c)
  /\ UNCHANGED <<users, conf, rows, aged, ntok, signed, out, overlap, nboots>>

InFlight == {call[c].tok : c \in {d \in Callers : call[d].pc = "fill"}}
Dropped(ts) == rows' = [t \in AuthTokens |-> IF t \in ts THEN Nobody ELSE rows[t]]

\* Mutant: the cache first, the row afterwards.
InvalidateCacheFirst(c) ==
  LET r == call[c]
  IN /\ \/ r.pc = "logout" /\ cache' = cache \ {r.tok} /\ UNCHANGED rows /\ Step(c, [r EXCEPT !.pc = "forget"])
        \/ r.pc = "forget" /\ Dropped({r.tok}) /\ UNCHANGED cache /\ Ends(c)
     /\ out' = IF r.pc = "forget" THEN out \union {r.tok} ELSE out
     /\ overlap' = IF r.pc = "forget" THEN overlap \union ({r.tok} \intersect InFlight) ELSE overlap
     /\ UNCHANGED <<users, conf, aged, ntok, signed, nboots>>

\* AuthState::invalidate: the row, then the cache; then the logout is answered.
invalidate(c) ==
  LET r == call[c]
  IN /\ \/ r.pc = "logout" /\ Dropped({r.tok}) /\ UNCHANGED cache /\ Step(c, [r EXCEPT !.pc = "forget"])
        \/ r.pc = "forget" /\ cache' = cache \ {r.tok} /\ UNCHANGED rows /\ Ends(c)
     /\ out' = IF r.pc = "forget" THEN out \union {r.tok} ELSE out
     /\ overlap' = IF r.pc = "forget" THEN overlap \union ({r.tok} \intersect InFlight) ELSE overlap
     /\ UNCHANGED <<users, conf, aged, ntok, signed, nboots>>

logout(c) ==
  /\ Up /\ call[c].pc = "idle"
  /\ \E t \in 1..ntok : Step(c, [NoCall EXCEPT !.pc = "logout", !.tok = t])
  /\ UNCHANGED <<users, conf, rows, cache, aged, ntok, signed, out, overlap, nboots>>

\* restore_handler with force: every row inside its transaction, the cache after the commit.
ForceRestore(c) ==
  /\ Up
  /\ \/ /\ call[c].pc = "idle" /\ Dropped(AuthTokens) /\ Step(c, [NoCall EXCEPT !.pc = "clear"])
        /\ UNCHANGED <<cache, out, overlap>>
     \/ /\ call[c].pc = "clear" /\ cache' = {} /\ Ends(c) /\ UNCHANGED rows
        /\ out' = out \union {t \in 1..ntok : rows[t] = Nobody}
        /\ overlap' = overlap \union InFlight
  /\ UNCHANGED <<users, conf, aged, ntok, signed, nboots>>

\* A session reaches its expiry; the hourly cleanup drops what has.
SessionAges(t) ==
  /\ t \in 1..ntok \ aged /\ aged' = aged \union {t}
  /\ UNCHANGED <<users, conf, rows, cache, call, ntok, signed, out, overlap, nboots>>

SessionCleanup ==
  /\ Up /\ aged # {} /\ Dropped(aged) /\ cache' = cache \ aged
  /\ UNCHANGED <<users, conf, aged, call, ntok, signed, out, overlap, nboots>>

\* The client goes away: its request is dropped where it waits.
ClientVanishes(c) ==
  /\ "vanish" \in AuthFaults /\ call[c].pc # "idle" /\ Ends(c)
  /\ UNCHANGED <<users, conf, rows, cache, aged, ntok, signed, out, overlap, nboots>>

AccNext ==
  \/ Boot \/ SessionCleanup
  \/ \E c \in Callers :
       \/ login(c) \/ register(c) \/ create_user(c) \/ create_auth_session(c) \/ FillCache(c)
       \/ logout(c) \/ invalidate(c) \/ ForceRestore(c) \/ ClientVanishes(c)
       \/ \E t \in AuthTokens : extract_user_id(c, t)
  \/ \E t \in AuthTokens : SessionAges(t)

AccSpec == AccInit /\ [][AccNext]_accVars

---------------------------------------------------------------------------
\* Properties

Accepted(t) == t \notin aged /\ (t \in cache \/ rows[t] # Nobody)

\* A token whose logout or mass revocation was answered is accepted no more, now and
\* after every restart, unless a validation that had read its row, or the login that
\* made it, was still on its way to the cache (invalidate deletes the row first).
LogoutIsFinal == \A t \in out \ overlap : ~Accepted(t)

\* While the server runs there is exactly one managed account, an administrator with
\* the environment's name and password, whatever the table held before.
OneManagedAdmin ==
  Up => /\ Cardinality(Managed) = 1
        /\ \A u \in Managed : users[u] = Row(conf.name, conf.pw, TRUE, TRUE)

\* Every session that is accepted was opened with the credentials its account has now:
\* a change of the environment's credentials leaves no older session behind.
SessionsFollowCredentials ==
  \A t \in AuthTokens : rows[t] # Nobody =>
    signed[t] = [name |-> users[rows[t]].name, pw |-> users[rows[t]].pw]

\* Access follows the accounts: a session that was ended stays ended, but for the overlaps
\* LogoutIsFinal names, and one that is accepted belongs to the credentials its account has
\* now, the managed administrator's included.
AccessFollows == LogoutIsFinal /\ OneManagedAdmin /\ SessionsFollowCredentials
=============================================================================
