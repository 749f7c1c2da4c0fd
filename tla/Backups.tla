-------------------------------- MODULE Backups --------------------------------
(***************************************************************************)
(* Backups of the library and their restoration (routes/v1/backup.rs).  A  *)
(* backup is put together by reading one table after the other while other *)
(* requests change them; a restoration is one transaction.  The hourly     *)
(* cycle stores a backup as a file and applies the retention.              *)
(*                                                                         *)
(* A playlist is the set of its songs, playlists with the same songs are   *)
(* one, and a song has been played or not.  Ratings, texts, the archive    *)
(* format and its checksums are left out: a bundle is intact or refused.   *)
(***************************************************************************)
EXTENDS Naturals, FiniteSets, FiniteSetsExt

CONSTANTS
  Tunes,
  Makers,          \* concurrent requests for a backup
  MaxKeep,         \* backup_max_keep, at least 1
  MaxFiles,        \* bound on backup files written
  MaxEdits         \* bound on changes of the library by others

ASSUME BackupAssumption == MaxKeep \in Nat \ {0} /\ MaxFiles \in Nat /\ MaxEdits \in Nat

Empty == [tracks |-> {}, lists |-> {}, stars |-> {}, played |-> {}]
Full == [tracks |-> Tunes, lists |-> {Tunes}, stars |-> Tunes, played |-> Tunes]

VARIABLES
  stock,       \* tracks, playlists, stars and play history
  made,      \* the backup somebody kept: contents, kind, and (ghost) the library it began with
  maker,     \* backups being put together: stage, contents, kind, ghost start
  cycle,     \* the auto-backup cycle: "idle", "renamed" or "prune"
  files,     \* numbers of the backup files, in the order of their names
  nfile,     \* files written
  wrote,     \* ghost: whether a file could not be removed
  verdict,   \* ghost: the outcome of the last restoration
  nedit

bakVars == <<stock, made, maker, cycle, files, nfile, wrote, verdict, nedit>>

NoMaker == [pc |-> "idle", kind |-> "none", got |-> Empty, from |-> Empty, calm |-> TRUE]
NoVerdict == [calm |-> FALSE, kind |-> "none", lists |-> FALSE, all |-> FALSE]

BakInit ==
  /\ stock \in {Empty, Full} /\ made = {} /\ maker = [m \in Makers |-> NoMaker]
  /\ cycle = "idle" /\ files = {} /\ nfile = 0 /\ wrote = TRUE
  /\ verdict = NoVerdict /\ nedit = 0

bakFiles == <<cycle, files, nfile, wrote>>

\* Ghost: every change of the library disturbs the backups being put together.
Disturbed(f) == [m \in Makers |-> [f[m] EXCEPT !.calm = FALSE, !.from = Empty]]

---------------------------------------------------------------------------
\* What other requests do to the library

Edit(new) ==
  /\ nedit < MaxEdits /\ nedit' = nedit + 1
  /\ new # stock /\ stock' = new /\ maker' = Disturbed(maker)
  /\ UNCHANGED <<made, bakFiles>> /\ verdict' = NoVerdict

\* Deleting a track takes its star, its history and its playlist entries along.
LessTrack(s) == [tracks |-> stock.tracks \ {s}, lists |-> {l \ {s} : l \in stock.lists},
               stars |-> stock.stars \ {s}, played |-> stock.played \ {s}]

upsert_tracks(s) == Edit([stock EXCEPT !.tracks = @ \union {s}])
delete_track(s) == Edit(LessTrack(s))
star_track(s) == s \in stock.tracks /\ \E on \in BOOLEAN :
                   Edit([stock EXCEPT !.stars = IF on THEN @ \union {s} ELSE @ \ {s}])
log_play(s) == s \in stock.tracks /\ Edit([stock EXCEPT !.played = @ \union {s}])
list_track(s) == s \in stock.tracks /\ \E l \in stock.lists \union {{}} :
                   Edit([stock EXCEPT !.lists = (@ \ {l}) \union {l \union {s}}])

---------------------------------------------------------------------------
\* build_backup_payload, also the beginning of backup_bundle_handler

Turn(m, r) == maker' = [maker EXCEPT ![m] = r]

\* The hourly cycle, one at a time, starts another backup.
AutoDue == cycle = "idle" /\ nfile < MaxFiles /\ \A o \in Makers : maker[o].kind # "auto"

ReadTracks(m) ==
  /\ maker[m].pc = "idle"
  /\ \E kind \in {"json", "bundle"} \union (IF AutoDue THEN {"auto"} ELSE {}) :
       Turn(m, [NoMaker EXCEPT !.pc = "lists", !.kind = kind, !.from = stock, !.got.tracks = stock.tracks])
  /\ UNCHANGED <<stock, made, bakFiles, nedit>> /\ verdict' = NoVerdict

ReadLists(m) ==
  /\ maker[m].pc = "lists"
  /\ Turn(m, [maker[m] EXCEPT !.pc = "songs", !.got.lists = stock.lists])
  /\ UNCHANGED <<stock, made, bakFiles, nedit>> /\ verdict' = NoVerdict

\* The playlists of a bundle: the songs that could be fetched.
BundleLists(lists, gone) == {l \ gone : l \in lists}

\* Every song of every playlist is fetched: one that is gone fails a payload and is
\* left out of a bundle.
FetchSongs(m) ==
  LET r == maker[m]
      gone == (UNION r.got.lists) \ stock.tracks
  IN /\ r.pc = "songs"
     /\ IF gone = {} \/ r.kind = "bundle"
        THEN Turn(m, [r EXCEPT !.pc = "stars", !.got.lists = BundleLists(@, gone)])
        ELSE Turn(m, NoMaker)
     /\ UNCHANGED <<stock, made, bakFiles, nedit>> /\ verdict' = NoVerdict

ReadStars(m) ==
  /\ maker[m].pc = "stars"
  /\ Turn(m, [maker[m] EXCEPT !.pc = "history", !.got.stars = stock.stars])
  /\ UNCHANGED <<stock, made, bakFiles, nedit>> /\ verdict' = NoVerdict

\* The last table; the backup is answered, or written beside its name and renamed.
ReadHistory(m) ==
  LET r == maker[m]
  IN /\ r.pc = "history"
     /\ \/ UNCHANGED made
        \/ made' = {[kind |-> r.kind, got |-> [r.got EXCEPT !.played = stock.played],
                     from |-> r.from, calm |-> r.calm]}
     /\ Turn(m, NoMaker)
     /\ IF r.kind = "auto"
        THEN cycle' = "prune" /\ nfile' = nfile + 1 /\ files' = files \union {nfile + 1}
        ELSE UNCHANGED <<cycle, nfile, files>>
     /\ UNCHANGED <<stock, wrote, nedit>> /\ verdict' = NoVerdict

\* Mutant: the newest go first.
OldestLast(fs) == LET n == Cardinality(fs) - MaxKeep
                  IN {f \in fs : n > 0 /\ Cardinality({g \in fs : g > f}) < n}
\* The oldest of the directory beyond the number to keep.
Surplus(fs) == LET n == Cardinality(fs) - MaxKeep
               IN {f \in fs : n > 0 /\ Cardinality({g \in fs : g < f}) < n}

\* The retention of run_auto_backup_cycle; a removal may fail and is only logged.
Prune ==
  /\ cycle = "prune" /\ cycle' = "idle"
  /\ \E kept \in SUBSET Surplus(files) :
       files' = files \ (Surplus(files) \ kept) /\ wrote' = (kept = {})
  /\ UNCHANGED <<stock, made, maker, nfile, nedit>> /\ verdict' = NoVerdict

\* The server stops: what is being put together is lost, a file may stay beyond the
\* number to keep until the next cycle.
Stop ==
  /\ (cycle # "idle" \/ \E m \in Makers : maker[m].pc # "idle")
  /\ cycle' = "idle" /\ maker' = [m \in Makers |-> NoMaker]
  /\ wrote' = (wrote /\ cycle = "idle")
  /\ UNCHANGED <<stock, made, files, nfile, nedit>> /\ verdict' = NoVerdict

---------------------------------------------------------------------------
\* Restoration

\* What restore_handler's transaction leaves.
Restored(b, base) == [tracks |-> base.tracks \union b.tracks \union (UNION b.lists) \union b.stars,
                      lists |-> base.lists \union b.lists,
                      stars |-> base.stars \union b.stars, played |-> base.played \union b.played]

\* Mutant: the playlists that were there stay.
BundledOver(b) == [Empty EXCEPT !.tracks = b.tracks,
                                !.lists = stock.lists \union {l \intersect b.tracks : l \in b.lists}]
\* What restore_backup_bundle_handler leaves: neither stars nor history, and of a
\* playlist the songs that are tracks.
Bundled(b) == [Empty EXCEPT !.tracks = b.tracks, !.lists = {l \intersect b.tracks : l \in b.lists}]

\* Ghost: what the restored library and the one the backup began with have in common.
Judged(b) ==
  verdict' = [calm |-> b.calm, kind |-> b.kind, all |-> stock' = b.from,
              lists |-> stock'.tracks = b.from.tracks /\ stock'.lists = b.from.lists]

\* restore_handler: refused unless the library is empty or force is given; a history
\* entry without its track fails the transaction.
restore(b, force) ==
  /\ force \/ stock.tracks = {}
  /\ ~(force /\ stock.tracks # {} /\ b.got.tracks \union b.got.stars = {})
  /\ LET new == Restored(b.got, IF force THEN Empty ELSE stock)
         ok == new.played \subseteq new.tracks
     IN /\ stock' = IF ok THEN new ELSE stock
        /\ maker' = Disturbed(maker)
        /\ IF force THEN Judged(b) ELSE verdict' = NoVerdict
  /\ UNCHANGED <<made, bakFiles, nedit>>

restore_bundle(b) ==
  /\ stock' = Bundled(b.got) /\ maker' = Disturbed(maker) /\ Judged(b)
  /\ UNCHANGED <<made, bakFiles, nedit>>

Restore == \E b \in made : IF b.kind = "bundle" THEN restore_bundle(b)
                           ELSE \E force \in BOOLEAN : restore(b, force)

BakNext ==
  \/ Restore \/ Prune \/ Stop
  \/ \E m \in Makers : ReadTracks(m) \/ ReadLists(m) \/ FetchSongs(m) \/ ReadStars(m) \/ ReadHistory(m)
  \/ \E s \in Tunes : upsert_tracks(s) \/ delete_track(s) \/ star_track(s) \/ log_play(s) \/ list_track(s)

BakSpec == BakInit /\ [][BakNext]_bakVars

---------------------------------------------------------------------------
\* Properties

\* A backup taken while nothing changed gives the library back when it is restored
\* with force, however the library has changed since: a payload everything, a bundle
\* the tracks and playlists (restore_handler clears the tables first).
RestoreGivesBack ==
  verdict.calm => verdict.lists /\ (verdict.kind # "bundle" => verdict.all)

\* The newest backup file is never removed, and outside a cycle no more files stay than
\* configured unless one could not be removed or the server stopped in between.
RetentionKeepsNewest ==
  /\ nfile > 0 => nfile \in files
  /\ cycle = "idle" /\ wrote => Cardinality(files) <= MaxKeep

\* A backup is worth having: an undisturbed one gives the library back, and rotation keeps
\* the newest and no more than configured.
BackupsServe == RestoreGivesBack /\ RetentionKeepsNewest
=============================================================================
