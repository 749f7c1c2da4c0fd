-------------------------------- MODULE Imports --------------------------------
(***************************************************************************)
(* Import sessions (routes/v1/import.rs): a client opens a session,        *)
(* uploads files into its staging directory, and commits or rolls back;    *)
(* an hourly janitor expires what is left.  A session lives in three       *)
(* places: its database row, the map in memory, and a manifest in its      *)
(* staging directory from which the map is recovered after a restart.      *)
(*                                                                         *)
(* Requests of one session are serialized by a lock that the end of the    *)
(* session closes and removes.  Whoever waited for it is refused, whoever  *)
(* comes later is judged by the row and refused too, so a request appears  *)
(* here when it gets the lock.  A file is its content, or cut off when its *)
(* write or copy did not finish; its name in the library is the one the    *)
(* client gives, or that with the content's hash when the session already  *)
(* uses the name for other bytes.                                          *)
(***************************************************************************)
EXTENDS Naturals, FiniteSets

CONSTANTS
  Sessions, Contents, Requests,
  NameOf(_),    \* the name a content is uploaded under
  Foreign,      \* bytes the library held before
  Cut,          \* the bytes of a file that was not written to its end
  Nothing,      \* no file, no manifest, nobody
  Disturbances, \* what an instance contains of "collide", "tear"
  MaxRequests,  \* bound on uploads, commits and rollbacks
  MaxCrashes    \* bound on restarts, dropped requests and failing operations

ASSUME ImportAssumption ==
  /\ IsFiniteSet(Contents) /\ Foreign \notin Contents /\ Cut \notin Contents \union {Foreign}
  /\ Nothing \notin Contents \union {Foreign, Cut}
  /\ Disturbances \subseteq {"collide", "tear"}
  /\ MaxRequests \in Nat /\ MaxCrashes \in Nat

VARIABLES
  sess,     \* import_sessions: status and imported_tracks
  ram,      \* IMPORT_SESSIONS: the files of a session, by name
  manifest, \* manifest.json: the same, on disk
  staged,   \* the staging directory: the bytes under each content's name
  lib,      \* the music directory: content by name
  imported, \* tracks rows: content_hash by name
  holder,   \* who holds the session's lock
  req,      \* the requests under way, and the janitor
  acks,     \* ghost: contents acknowledged to the client
  done,     \* ghost: the files of a committed session
  put,      \* ghost: the names the session's commits copied to
  torn,     \* ghost: a commit stopped while it copied, or later, and did not undo
  broken,   \* ghost: contents whose writing to the staging directory broke off
  nreq, ncrash

impVars == <<sess, ram, manifest, staged, lib, imported, holder, req, acks, done, put, torn, broken, nreq, ncrash>>

Workers == Requests \union {"janitor"}
NameSet == {<<NameOf(x), y>> : x \in Contents, y \in Contents \union {Nothing}}
NoFiles == [n \in NameSet |-> Nothing]
NoStaging == [x \in Contents |-> Nothing]

\* Nothing is no manifest and no worker; the janitor is no request.
ASSUME NothingAssumption ==
  /\ Nothing \notin [NameSet -> Contents \union {Nothing}]
  /\ Nothing \notin Workers /\ "janitor" \notin Requests

NoReq == [op |-> "none", pc |-> "idle", s |-> Nothing, x |-> Nothing, files |-> NoFiles,
          left |-> {}, to |-> Nothing, copied |-> {}]
Closed == {"committed", "rolled_back", "expired"}
FilesOf(m) == {n \in NameSet : m[n] # Nothing}
ContentsOf(m) == {m[n] : n \in FilesOf(m)}

ImportInit ==
  /\ sess = [s \in Sessions |-> [status |-> "none", count |-> 0]]
  /\ ram = [s \in Sessions |-> Nothing] /\ manifest = [s \in Sessions |-> Nothing]
  /\ staged = [s \in Sessions |-> NoStaging]
  /\ \E n \in NameSet : lib \in {NoFiles, [NoFiles EXCEPT ![n] = Foreign]}
  /\ imported = lib
  /\ holder = [s \in Sessions |-> Nothing] /\ req = [c \in Workers |-> NoReq]
  /\ acks = [s \in Sessions |-> {}] /\ done = [s \in Sessions |-> NoFiles]
  /\ put = [s \in Sessions |-> {}] /\ torn = [s \in Sessions |-> FALSE]
  /\ broken = [s \in Sessions |-> {}]
  /\ nreq = 0 /\ ncrash = 0

---------------------------------------------------------------------------
\* Database and disk operations.

\* set_import_session_status: a terminal status is never replaced.
set_import_session_status(s, status) ==
  sess' = [sess EXCEPT ![s].status = IF @ \in Closed THEN @ ELSE status]
create_import_session(s) == sess' = [sess EXCEPT ![s].status = "created"]
expire_import_session(s) == set_import_session_status(s, "expired")

save_manifest(s, m) == manifest' = [manifest EXCEPT ![s] = m]
get_or_recover_session(s) == IF ram[s] # Nothing THEN ram[s] ELSE manifest[s]

\* The name a file takes in its session.
SafeName(m, x) ==
  LET plain == <<NameOf(x), Nothing>>
  IN IF m[plain] \in {Nothing, x} THEN plain ELSE <<NameOf(x), x>>

\* A write or a statement fails.
Fails == "tear" \in Disturbances /\ ncrash < MaxCrashes /\ ncrash' = ncrash + 1

\* The request ends and its lock is free; the lock stays in the map.
Release(c) ==
  /\ req' = [req EXCEPT ![c] = NoReq]
  /\ holder' = [holder EXCEPT ![req[c].s] = Nothing]

\* Names whose copy c would race with another commit.
Rivals(c, m) ==
  \E d \in Requests \ {c} :
    /\ req[d].pc \in {"validate", "copy", "fill", "upsert", "mark"}
    /\ FilesOf(req[d].files) \intersect FilesOf(m) # {}

---------------------------------------------------------------------------
\* import_session_handler: row, directory, manifest, memory.  An I/O failure leaves the row.
CreateSession(s) ==
  /\ sess[s].status = "none"
  /\ create_import_session(s)
  /\ \/ /\ save_manifest(s, NoFiles)
        /\ ram' = [ram EXCEPT ![s] = NoFiles] /\ UNCHANGED ncrash
     \/ Fails /\ UNCHANGED <<manifest, ram>>
  /\ UNCHANGED <<staged, lib, imported, holder, req, acks, done, put, torn, broken, nreq>>

\* A request arrives and gets the session's lock.
Locks(c, s) ==
  /\ req[c].pc = "idle" /\ nreq < MaxRequests /\ nreq' = nreq + 1
  /\ sess[s].status # "none" /\ holder[s] = Nothing
Refused == UNCHANGED <<req, holder>>
Hold(c, r) == req' = [req EXCEPT ![c] = r] /\ holder' = [holder EXCEPT ![r.s] = c]

---------------------------------------------------------------------------
\* import_upload_handler

Upload(pc, s, x) == [NoReq EXCEPT !.op = "upload", !.pc = pc, !.s = s, !.x = x]

\* A file is created under its content's name and then written; one that is there is taken
\* for written.
UploadBegins(c, s, x) ==
  LET m == get_or_recover_session(s)
  IN /\ Locks(c, s)
     /\ IF sess[s].status \in Closed \/ m = Nothing
        THEN Refused /\ UNCHANGED <<sess, ram, staged, acks>>
        ELSE /\ ram' = [ram EXCEPT ![s] = m]
             /\ IF x \in ContentsOf(m)
                THEN /\ sess' = [sess EXCEPT ![s].count = Cardinality(FilesOf(m))]
                     /\ acks' = [acks EXCEPT ![s] = @ \union {x}]
                     /\ Refused /\ UNCHANGED staged
                ELSE /\ IF staged[s][x] = Nothing
                        THEN /\ staged' = [staged EXCEPT ![s][x] = Cut]
                             /\ Hold(c, Upload("write", s, x))
                        ELSE Hold(c, Upload("store", s, x)) /\ UNCHANGED staged
                     /\ UNCHANGED <<sess, acks>>
     /\ UNCHANGED <<manifest, lib, imported, done, put, torn, broken, ncrash>>

\* The bytes are written and synced, or the write breaks off and the file stays.
UploadWrites(c) ==
  LET r == req[c]
  IN /\ r.op = "upload" /\ r.pc = "write"
     /\ \/ /\ staged' = [staged EXCEPT ![r.s][r.x] = r.x]
           /\ req' = [req EXCEPT ![c].pc = "store"] /\ UNCHANGED <<holder, broken, ncrash>>
        \/ /\ Fails /\ broken' = [broken EXCEPT ![r.s] = @ \union {r.x}]
           /\ Release(c) /\ UNCHANGED staged
     /\ UNCHANGED <<sess, ram, manifest, lib, imported, acks, done, put, torn, nreq>>

\* The name is reserved, the status noted, the manifest written.
UploadStores(c) ==
  LET r == req[c]
      m == [ram[r.s] EXCEPT ![SafeName(ram[r.s], r.x)] = r.x]
  IN /\ r.op = "upload" /\ r.pc = "store"
     /\ set_import_session_status(r.s, "uploading")
     /\ save_manifest(r.s, m)
     /\ req' = [req EXCEPT ![c].pc = "publish", ![c].files = m]
     /\ UNCHANGED <<ram, staged, lib, imported, holder, acks, done, put, torn, broken, nreq, ncrash>>

\* Mutant: the session in memory does not learn of the file.
UploadForgets(c) ==
  LET r == req[c]
  IN /\ r.op = "upload" /\ r.pc = "publish"
     /\ sess' = [sess EXCEPT ![r.s].count = Cardinality(FilesOf(r.files))]
     /\ acks' = [acks EXCEPT ![r.s] = @ \union {r.x}]
     /\ Release(c)
     /\ UNCHANGED <<ram, manifest, staged, lib, imported, done, put, torn, broken, nreq, ncrash>>

UploadEnds(c) ==
  LET r == req[c]
  IN /\ r.op = "upload" /\ r.pc = "publish"
     /\ ram' = [ram EXCEPT ![r.s] = r.files]
     /\ sess' = [sess EXCEPT ![r.s].count = Cardinality(FilesOf(r.files))]
     /\ acks' = [acks EXCEPT ![r.s] = @ \union {r.x}]
     /\ Release(c)
     /\ UNCHANGED <<manifest, staged, lib, imported, done, put, torn, broken, nreq, ncrash>>

---------------------------------------------------------------------------
\* import_commit_handler

CommitBegins(c, s) ==
  LET m == get_or_recover_session(s)
  IN /\ Locks(c, s)
     /\ IF sess[s].status \in Closed \union {"failed"} \/ m = Nothing
        THEN Refused /\ UNCHANGED <<sess, ram>>
        ELSE /\ "collide" \in Disturbances \/ ~Rivals(c, m)
             /\ ram' = [ram EXCEPT ![s] = m]
             /\ set_import_session_status(s, "committing")
             /\ Hold(c, [NoReq EXCEPT !.op = "commit", !.pc = "validate", !.s = s, !.files = m])
     /\ UNCHANGED <<manifest, staged, lib, imported, acks, done, put, torn, broken, ncrash>>

\* The commit goes on to its next file, or to the rows.
Onward(left) == IF left = {} THEN "upsert" ELSE "copy"
StartCopying(c) ==
  LET all == FilesOf(req[c].files)
  IN req' = [req EXCEPT ![c].pc = Onward(all), ![c].left = all]

\* Mutant: the destinations are not compared before copying.
CommitUnvalidated(c) ==
  /\ req[c].pc = "validate" /\ StartCopying(c)
  /\ UNCHANGED <<sess, holder, ram, manifest, staged, lib, imported, acks, done, put, torn, broken, nreq, ncrash>>

\* Step 1: a destination with other bytes fails the session.
CommitValidates(c) ==
  LET r == req[c]
  IN /\ r.pc = "validate"
     /\ IF \E n \in FilesOf(r.files) : lib[n] \notin {Nothing, r.files[n]}
        THEN set_import_session_status(r.s, "failed") /\ Release(c)
        ELSE StartCopying(c) /\ UNCHANGED <<sess, holder>>
     /\ UNCHANGED <<ram, manifest, staged, lib, imported, acks, done, put, torn, broken, nreq, ncrash>>

\* Mutant: nothing is removed.
WithoutUndo(names) == lib

\* What the handler removes when it fails after copying.
Without(names) == [n \in NameSet |-> IF n \in names THEN Nothing ELSE lib[n]]

\* Step 2, for one file: it is in the library, or its copy begins, or there is nothing to copy
\* and the earlier copies are removed.
CommitCopies(c) ==
  LET r == req[c]
  IN /\ r.pc = "copy"
     /\ \E n \in r.left :
          \/ /\ lib[n] # Nothing
             /\ req' = [req EXCEPT ![c].pc = Onward(r.left \ {n}), ![c].left = @ \ {n}]
             /\ UNCHANGED <<lib, holder, put>>
          \/ /\ lib[n] = Nothing /\ staged[r.s][r.files[n]] = Nothing
             /\ lib' = Without(r.copied) /\ Release(c) /\ UNCHANGED put
          \/ /\ lib[n] = Nothing /\ staged[r.s][r.files[n]] # Nothing
             /\ lib' = [lib EXCEPT ![n] = Cut]
             /\ put' = [put EXCEPT ![r.s] = @ \union {n}]
             /\ req' = [req EXCEPT ![c].pc = "fill", ![c].to = n] /\ UNCHANGED holder
     /\ UNCHANGED <<sess, ram, manifest, staged, imported, acks, done, torn, broken, nreq, ncrash>>

\* The copy ends, or fails: the earlier ones are removed and what it wrote stays.
CommitFills(c) ==
  LET r == req[c]
      left == r.left \ {r.to}
  IN /\ r.pc = "fill"
     /\ \/ /\ lib' = [lib EXCEPT ![r.to] = staged[r.s][r.files[r.to]]]
           /\ req' = [req EXCEPT ![c].pc = Onward(left), ![c].left = left, ![c].to = Nothing,
                                 ![c].copied = @ \union {r.to}]
           /\ UNCHANGED <<holder, torn, ncrash>>
        \/ /\ Fails /\ torn' = [torn EXCEPT ![r.s] = TRUE]
           /\ lib' = Without(r.copied) /\ Release(c)
     /\ UNCHANGED <<sess, ram, manifest, staged, imported, acks, done, put, broken, nreq>>

\* Steps 3 to 5: bytes already listed under another name may conflict; then the rows.
CommitUpserts(c) ==
  LET r == req[c]
      known == \E n \in FilesOf(r.files), o \in NameSet : o # n /\ imported[o] = r.files[n]
  IN /\ r.pc = "upsert"
     /\ \/ /\ known /\ lib' = Without(r.copied)
           /\ set_import_session_status(r.s, "failed") /\ Release(c) /\ UNCHANGED <<imported, ncrash>>
        \/ /\ Fails /\ lib' = Without(r.copied) /\ Release(c) /\ UNCHANGED <<imported, sess>>
        \/ /\ imported' = [n \in NameSet |-> IF n \in FilesOf(r.files) THEN r.files[n] ELSE imported[n]]
           /\ req' = [req EXCEPT ![c].pc = "mark"] /\ UNCHANGED <<lib, sess, holder, ncrash>>
     /\ UNCHANGED <<ram, manifest, staged, acks, done, put, torn, broken, nreq>>

\* Step 7: the row is committed and closed, or the update fails.
CommitMarks(c) ==
  LET r == req[c]
  IN /\ r.pc = "mark"
     /\ \/ /\ sess' = [sess EXCEPT ![r.s].status = "committed"]
           /\ done' = [done EXCEPT ![r.s] = r.files]
           /\ ram' = [ram EXCEPT ![r.s] = Nothing]
           /\ req' = [req EXCEPT ![c].pc = "clean"] /\ UNCHANGED <<holder, torn, ncrash>>
        \/ /\ Fails /\ torn' = [torn EXCEPT ![r.s] = TRUE]
           /\ Release(c) /\ UNCHANGED <<sess, done, ram>>
     /\ UNCHANGED <<manifest, staged, lib, imported, acks, put, broken, nreq>>

---------------------------------------------------------------------------
\* import_rollback_handler

RollbackBegins(c, s) ==
  /\ Locks(c, s)
  /\ IF sess[s].status \in Closed
     THEN Refused /\ UNCHANGED <<sess, ram>>
     ELSE /\ set_import_session_status(s, "rolled_back")
          /\ ram' = [ram EXCEPT ![s] = Nothing]
          /\ Hold(c, [NoReq EXCEPT !.op = "rollback", !.pc = "clean", !.s = s])
  /\ UNCHANGED <<manifest, staged, lib, imported, acks, done, put, torn, broken, ncrash>>

\* The staging directory is removed, the lock closed.
CleanSession(c) ==
  LET s == req[c].s
  IN /\ req[c].pc = "clean"
     /\ staged' = [staged EXCEPT ![s] = NoStaging] /\ manifest' = [manifest EXCEPT ![s] = Nothing]
     /\ ram' = [ram EXCEPT ![s] = Nothing]
     /\ Release(c)
     /\ UNCHANGED <<sess, lib, imported, acks, done, put, torn, broken, nreq, ncrash>>

---------------------------------------------------------------------------
\* spawn_import_cleanup: sessions past their time are listed, then expired one by one.

JanitorLists ==
  /\ req["janitor"].pc = "idle"
  /\ \E s \in Sessions :
       /\ sess[s].status \notin Closed \union {"none"}
       /\ req' = [req EXCEPT !["janitor"] = [NoReq EXCEPT !.op = "expire", !.pc = "wait", !.s = s]]
  /\ UNCHANGED <<sess, ram, manifest, staged, lib, imported, holder, acks, done, put, torn, broken, nreq, ncrash>>

JanitorExpires ==
  /\ req["janitor"].pc = "wait" /\ holder[req["janitor"].s] = Nothing
  /\ expire_import_session(req["janitor"].s)
  /\ Hold("janitor", [req["janitor"] EXCEPT !.pc = "clean"])
  /\ UNCHANGED <<ram, manifest, staged, lib, imported, acks, done, put, torn, broken, nreq, ncrash>>

---------------------------------------------------------------------------
\* What a request that stops where it stands leaves behind: copies, or half a file.
LeavesCopies(c) == req[c].pc # "clean" /\ (req[c].pc = "fill" \/ req[c].copied # {})

\* A client goes away: its request is dropped where it stands and the lock is freed.
DropRequest(c) ==
  /\ "tear" \in Disturbances /\ req[c].pc # "idle" /\ ncrash < MaxCrashes
  /\ ncrash' = ncrash + 1
  /\ torn' = IF LeavesCopies(c) THEN [torn EXCEPT ![req[c].s] = TRUE] ELSE torn
  /\ broken' = IF req[c].pc = "write" THEN [broken EXCEPT ![req[c].s] = @ \union {req[c].x}] ELSE broken
  /\ req' = [req EXCEPT ![c] = NoReq]
  /\ holder' = IF holder[req[c].s] = c THEN [holder EXCEPT ![req[c].s] = Nothing] ELSE holder
  /\ UNCHANGED <<sess, ram, manifest, staged, lib, imported, acks, done, put, nreq>>

\* The server restarts: memory, locks and requests are gone.
Crash ==
  /\ ncrash < MaxCrashes /\ ncrash' = ncrash + 1
  /\ torn' = [s \in Sessions |-> torn[s] \/ \E c \in Requests : req[c].s = s /\ LeavesCopies(c)]
  /\ broken' = [s \in Sessions |->
               broken[s] \union {req[c].x : c \in {d \in Requests : req[d].s = s /\ req[d].pc = "write"}}]
  /\ ram' = [s \in Sessions |-> Nothing]
  /\ req' = [c \in Workers |-> NoReq] /\ holder' = [s \in Sessions |-> Nothing]
  /\ UNCHANGED <<sess, manifest, staged, lib, imported, acks, done, put, nreq>>

ImportNext ==
  \/ \E s \in Sessions : CreateSession(s)
  \/ \E c \in Requests :
       \/ UploadWrites(c) \/ UploadStores(c) \/ UploadEnds(c)
       \/ CommitValidates(c) \/ CommitCopies(c) \/ CommitFills(c)
       \/ CommitUpserts(c) \/ CommitMarks(c) \/ DropRequest(c)
       \/ \E s \in Sessions :
            \/ CommitBegins(c, s) \/ RollbackBegins(c, s)
            \/ \E x \in Contents : UploadBegins(c, s, x)
  \/ \E c \in Workers : CleanSession(c)
  \/ JanitorLists \/ JanitorExpires \/ Crash

ImportSpec == ImportInit /\ [][ImportNext]_impVars

---------------------------------------------------------------------------
\* Properties

\* A row says what its file holds: the hash an import records is that of the bytes
\* under the name, whatever else was there or was copied meanwhile (steps 1 to 5).  The
\* exception is a content whose upload once broke off while it was written: the file it
\* left behind passes for the whole one.
RowsMatchFiles ==
  \A n \in NameSet : imported[n] \in Contents =>
    \/ lib[n] = imported[n]
    \/ lib[n] = Cut /\ \E s \in Sessions : imported[n] \in broken[s]

\* Not so without the exception: such a content is published with the whole one's hash.
RowsExact == \A n \in NameSet : imported[n] \in Contents => lib[n] = imported[n]

\* A session that ended without committing has left none of its copies in the
\* library (compensating removals), unless its commit was cut off once it had begun to
\* copy, or a copy failed: of that one, what was written stays.
UndoneLeavesNothing ==
  \A s \in Sessions :
    sess[s].status \in {"rolled_back", "expired", "failed"} /\ ~torn[s] =>
      \A n \in put[s] \ UNION {put[o] : o \in Sessions \ {s}} : lib[n] = Nothing

\* An import changes the library as a whole or not at all: rows match their files, and a
\* session that did not commit leaves nothing of its own behind.
ImportsWhole == RowsMatchFiles /\ UndoneLeavesNothing

\* The session as its client sees it.
Phase(s) ==
  CASE sess[s].status \in {"created", "uploading", "committing"} -> "open"
    [] OTHER -> sess[s].status
Contract == INSTANCE ImportContract WITH
  phase <- [s \in Sessions |-> Phase(s)],
  acked <- acks,
  published <- [s \in Sessions |-> {done[s][n] : n \in {k \in FilesOf(done[s]) : lib[k] = done[s][k] /\ imported[k] = lib[k]}}]

\* The sessions implement the contract: what was acknowledged is published by the
\* commit, at once and for good, and an ended session stays ended, across
\* restarts, dropped requests and the janitor.  Contents whose writing once broke off
\* before they were acknowledged are the contract's exception too.
ImplementsContract == Contract!ContractSpec
=============================================================================
