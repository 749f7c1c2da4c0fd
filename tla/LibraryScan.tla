------------------------------ MODULE LibraryScan ------------------------------
(***************************************************************************)
(* The library scanner (michi-scanner): the five-second watcher, the       *)
(* passes that scan a whole root and reconcile the tracks table with it    *)
(* (daily integrity cron, scan job, module re-enabled), the scan endpoints *)
(* that only upsert, and the mount guard that keeps a lost volume from     *)
(* emptying the library.                                                   *)
(*                                                                         *)
(* One root.  The volume holds a version of each file; a new version has   *)
(* new bytes and a new fingerprint (size and mtime), so one number stands  *)
(* for both.  The root shows the volume, the bare directory below the      *)
(* mount point, or nothing.  A walk of the root, and each group of         *)
(* per-file checks, is one step; the volume and the mount change between   *)
(* any two steps.                                                          *)
(***************************************************************************)
EXTENDS Naturals, FiniteSets

CONSTANTS
  Paths,      \* the files of the root
  Hazards,    \* the disturbances an instance contains
  MaxEvents   \* bound on what happens to the files, the mount, the module and the server

ASSUME ScanAssumption ==
  /\ IsFiniteSet(Paths)
  /\ Hazards \subseteq {"flap"}
  /\ MaxEvents \in Nat

VARIABLES
  vol,      \* version of each file on the volume, 0 for none
  mount,    \* what the root shows: "vol", "bare" or "gone"
  rows,     \* tracks: fingerprint and content_hash, fp 0 for no row
  guard,    \* mount_guard: state and trusted device (ghost misled: a pass took
            \* the bare directory for the volume, with no device recorded or no row to protect)
  snaps,    \* the watcher's snapshot of the root: st "unset", "lost" or "seen", and the view
  task,     \* where each scanning task stands
  enabled,  \* the scan module
  lost,     \* ghost: rows a task deleted although the volume holds the file
  blind,    \* ghost: files whose row once got a new fingerprint over an old hash
  events    \* how much has happened

scanVars == <<vol, mount, rows, guard, snaps, task, enabled, lost, blind,
              events>>

Tasks == {"watcher", "cron", "request"}
NoView == [f \in Paths |-> 0]
IdleTask == [pc |-> "idle", why |-> "none", seen |-> NoView, dev |-> "none",
             old |-> NoView, plan |-> [f \in Paths |-> 0], dead |-> FALSE, shaken |-> "no"]

Unseen == [st |-> "unset", view |-> NoView]
Lost == [st |-> "lost", view |-> NoView]

ScanInit ==
  /\ vol \in [Paths -> {0, 1}]
  /\ mount \in {"vol", "bare"}
  /\ \/ rows = [f \in Paths |-> [fp |-> 0, hash |-> 0]] /\ guard = [state |-> "none", dev |-> "none", misled |-> FALSE]
     \/ /\ mount = "vol" /\ vol # NoView
        /\ rows = [f \in Paths |-> [fp |-> vol[f], hash |-> vol[f]]]
        /\ guard \in {[state |-> "none", dev |-> "none", misled |-> FALSE], [state |-> "online", dev |-> "vol", misled |-> FALSE]}
  /\ snaps = Unseen /\ task = [p \in Tasks |-> IdleTask] /\ enabled = TRUE
  /\ lost = {} /\ blind = {}
  /\ events = 0

---------------------------------------------------------------------------
\* What a look at the root shows now.

View == IF mount = "vol" THEN vol ELSE NoView
get_path_device_id == IF mount = "gone" THEN "none" ELSE mount
Exists(f) == View[f] # 0
Known == {f \in Paths : rows[f].fp # 0}
Shown(v) == {f \in Paths : v[f] # 0}

\* The row upsert_track leaves: the fingerprint is replaced, the hash only by a new one.
upsert_track(row, fp, hash) == [fp |-> fp, hash |-> IF hash # 0 THEN hash ELSE row.hash]
\* A new fingerprint over an old hash.
KeepsOldHash(row, fp, hash) == hash = 0 /\ row.hash # 0 /\ row.fp # fp

\* The rows and the ghost after files got fingerprints fps and hashes hs.
Upsert(files, fps, hs) ==
  /\ rows' = [f \in Paths |-> IF f \in files THEN upsert_track(rows[f], fps[f], hs[f]) ELSE rows[f]]
  /\ blind' = blind \union {f \in files : KeepsOldHash(rows[f], fps[f], hs[f])}

DeleteRows(files) ==
  rows' = [f \in Paths |-> IF f \in files THEN [fp |-> 0, hash |-> 0] ELSE rows[f]]

\* A task deletes the rows of the files it no longer finds.
Purge(files) ==
  LET gone == {f \in files : rows[f].fp # 0 /\ ~Exists(f)}
  IN DeleteRows(gone) /\ lost' = lost \union {f \in gone : vol[f] # 0}

\* Mutant: the state is stored under another word.
MountMisspelt(s, dev) == guard' = [guard EXCEPT !.state = IF s = "online" THEN "mounted" ELSE s]

update_mount_state_with_device(s, dev) ==
  LET trust == IF s = "online" /\ dev # "none" THEN dev ELSE guard.dev
  IN guard' = [state |-> s, dev |-> trust,
               misled |-> guard.misled \/ (trust = "bare" /\ guard.dev = "none")]

Happens == events < MaxEvents /\ events' = events + 1
Go(p, t) == task' = [task EXCEPT ![p] = t]
\* A pass of p ends; the watcher forgets its snapshot when the root is not trusted.
Finish(p, state) ==
  /\ Go(p, [IdleTask EXCEPT !.dead = p = "watcher" /\ task[p].dead])
  /\ snaps' = IF p = "watcher" /\ task[p].why = "poll" /\ state = "unavailable" THEN Lost ELSE snaps
Cancelled(p) == task[p].dead

---------------------------------------------------------------------------
\* LibraryWatcher::run and poll_root.

WatcherPoll ==
  /\ task["watcher"].pc = "idle" /\ ~Cancelled("watcher")
  /\ IF mount = "gone"
     THEN /\ update_mount_state_with_device("unavailable", "none")
          /\ snaps' = Lost /\ UNCHANGED task
     ELSE /\ Go("watcher", [IdleTask EXCEPT !.pc = "device", !.why = "poll", !.seen = View])
          /\ UNCHANGED <<guard, snaps>>
  /\ UNCHANGED <<vol, mount, rows, enabled, lost, blind, events>>

WatcherIdentify ==
  LET t == task["watcher"]
      dev == get_path_device_id
  IN /\ t.pc = "device"
     /\ IF guard.dev # "none" /\ dev # "none" /\ guard.dev # dev
        THEN /\ update_mount_state_with_device("unavailable", "none")
             /\ snaps' = Lost /\ Go("watcher", [IdleTask EXCEPT !.dead = t.dead])
        ELSE /\ snaps' = [st |-> "seen", view |-> t.seen]
             /\ CASE snaps.st = "lost" \/ (snaps.st = "unset" /\ guard.dev = "none") ->
                       Go("watcher", [t EXCEPT !.pc = "scan", !.seen = NoView]) /\ UNCHANGED guard
                  [] snaps.st = "unset" /\ guard.dev # "none" ->
                       /\ update_mount_state_with_device("online", dev)
                       /\ Go("watcher", [IdleTask EXCEPT !.dead = t.dead])
                  [] OTHER ->
                       /\ update_mount_state_with_device("online", dev)
                       /\ Go("watcher", IF Shown(t.seen) = {} /\ Shown(snaps.view) # {} /\ dev = "none"
                                        THEN [IdleTask EXCEPT !.dead = t.dead]
                                        ELSE [t EXCEPT !.pc = "change", !.old = snaps.view])
     /\ UNCHANGED <<vol, mount, rows, enabled, lost, blind, events>>

\* New and modified files are scanned again; a modified one is hashed.
WatcherUpsert ==
  LET t == task["watcher"]
      changed == {f \in Paths : t.seen[f] # 0 /\ t.seen[f] # t.old[f] /\ Exists(f)}
  IN /\ t.pc = "change"
     /\ IF Cancelled("watcher")
        THEN Finish("watcher", "none") /\ UNCHANGED <<rows, blind>>
        ELSE /\ Upsert(changed, View, [f \in Paths |-> IF t.old[f] # 0 THEN View[f] ELSE 0])
             /\ Go("watcher", [t EXCEPT !.pc = "drop"]) /\ UNCHANGED snaps
     /\ UNCHANGED <<vol, mount, guard, enabled, lost, events>>

\* Files of the previous snapshot that the current one lacks.
WatcherDelete ==
  LET t == task["watcher"]
  IN /\ t.pc = "drop"
     /\ IF Cancelled("watcher") THEN UNCHANGED <<rows, lost>>
        ELSE Purge({f \in Paths : t.old[f] # 0 /\ t.seen[f] = 0})
     /\ Finish("watcher", "none")
     /\ UNCHANGED <<vol, mount, guard, enabled, blind, events>>

\* run ends on cancellation; the supervising loop waits for the module.
WatcherStops ==
  /\ task["watcher"].pc = "idle" /\ Cancelled("watcher")
  /\ Go("watcher", [IdleTask EXCEPT !.pc = "off"])
  /\ UNCHANGED <<vol, mount, rows, guard, snaps, enabled, lost, blind, events>>

WatcherNotices ==
  /\ task["watcher"].pc = "off" /\ ~enabled /\ task["watcher"].why = "none"
  /\ Go("watcher", [task["watcher"] EXCEPT !.why = "enable"])
  /\ UNCHANGED <<vol, mount, rows, guard, snaps, enabled, lost, blind, events>>

\* Enabled again: one reconciliation if the loop saw it disabled, then a new run.
WatcherResumes ==
  /\ task["watcher"].pc = "off" /\ enabled
  /\ snaps' = Unseen
  /\ Go("watcher", IF task["watcher"].why = "enable"
                   THEN [IdleTask EXCEPT !.pc = "scan", !.why = "enable"] ELSE IdleTask)
  /\ UNCHANGED <<vol, mount, rows, guard, enabled, lost, blind, events>>

---------------------------------------------------------------------------
\* scan_root_cancellable and reconcile_root, by the watcher and by the cron or a scan job.

CronStarts ==
  /\ task["cron"].pc = "idle" /\ enabled
  /\ Go("cron", [IdleTask EXCEPT !.pc = "scan"])
  /\ UNCHANGED <<vol, mount, rows, guard, snaps, enabled, lost, blind, events>>

Scan(p) ==
  /\ task[p].pc = "scan"
  /\ CASE mount = "gone" -> /\ update_mount_state_with_device("unavailable", "none")
                            /\ Finish(p, "unavailable")
       [] mount # "gone" /\ Cancelled(p) -> Finish(p, guard.state) /\ UNCHANGED guard
       [] OTHER -> /\ Go(p, [task[p] EXCEPT !.pc = "judge", !.seen = View])
                   /\ UNCHANGED <<guard, snaps>>
  /\ UNCHANGED <<vol, mount, rows, enabled, lost, blind, events>>

\* An I/O error ends the walk: nothing is kept of it and the mount is held unavailable.
WalkFails(p) ==
  /\ task[p].pc = "scan" /\ mount # "gone"
  /\ update_mount_state_with_device("unavailable", "none")
  /\ Finish(p, "unavailable")
  /\ UNCHANGED <<vol, mount, rows, enabled, lost, blind, events>>

\* Mutant: the recorded device is not compared.
TrustAnyDevice(seen, dev) == Known # {} => ~(guard.state = "unavailable" /\ Shown(seen) = {})

\* Whether the root may be trusted to speak for the rows.
Trusted(seen, dev) ==
  Known # {} =>
    /\ IF guard.dev = "none" THEN Shown(seen) \intersect Known # {} ELSE dev = guard.dev
    /\ ~(guard.state = "unavailable" /\ Shown(seen) = {})

\* Mutant: a known hash is kept whatever the fingerprint says.
HashKept(f, fp) == rows[f].hash

\* The hash a scanned file is upserted with: kept, recomputed, or none.
HashFor(f, fp) ==
  IF rows[f].fp = 0 THEN 0 ELSE IF rows[f].fp = fp THEN rows[f].hash ELSE View[f]

Judge(p) ==
  LET t == task[p]
      dev == get_path_device_id
      cut == Cancelled(p) /\ Shown(t.seen) # {}
  IN /\ t.pc = "judge"
     /\ IF mount = "gone" \/ ~Trusted(t.seen, dev)
        THEN update_mount_state_with_device("unavailable", "none") /\ Finish(p, "unavailable")
        ELSE IF cut THEN Finish(p, guard.state) /\ UNCHANGED guard
        ELSE /\ Go(p, [t EXCEPT !.pc = "write", !.dev = dev,
                                !.plan = [f \in Paths |-> IF t.seen[f] # 0 THEN HashFor(f, t.seen[f]) ELSE 0],
                                !.old = [f \in Paths |-> IF rows[f].fp # 0 THEN 1 ELSE 0]])
             /\ guard' = [guard EXCEPT !.misled = @ \/ (dev = "bare" /\ (guard.dev = "none" \/ Known = {}))]
             /\ UNCHANGED snaps
     /\ UNCHANGED <<vol, mount, rows, enabled, lost, blind, events>>

Write(p) ==
  LET t == task[p]
  IN /\ t.pc = "write"
     /\ update_mount_state_with_device("online", t.dev)
     /\ Upsert(Shown(t.seen), t.seen, t.plan)
     /\ IF Cancelled(p) THEN Finish(p, "online")
        ELSE Go(p, [t EXCEPT !.pc = "purge", !.dev = "none", !.plan = NoView]) /\ UNCHANGED snaps
     /\ UNCHANGED <<vol, mount, enabled, lost, events>>

PurgeUnscanned(p) ==
  LET t == task[p]
  IN /\ t.pc = "purge"
     /\ Purge({f \in Paths : t.old[f] # 0 /\ t.seen[f] = 0})
     /\ Finish(p, guard.state)
     /\ UNCHANGED <<vol, mount, guard, enabled, blind, events>>

---------------------------------------------------------------------------
\* Requests: the scan endpoints upsert what they find and hash nothing; rows are deleted.

ScanRequest ==
  /\ task["request"].pc = "idle" /\ mount # "gone" /\ Happens
  /\ Go("request", [IdleTask EXCEPT !.pc = "save", !.seen = View])
  /\ UNCHANGED <<vol, mount, rows, guard, snaps, enabled, lost, blind>>

ScanSave ==
  /\ task["request"].pc = "save"
  /\ Upsert(Shown(task["request"].seen), task["request"].seen, NoView)
  /\ Go("request", IdleTask)
  /\ UNCHANGED <<vol, mount, guard, snaps, enabled, lost, events>>

DeleteTracks ==
  /\ Happens
  /\ \/ \E f \in Paths : rows[f].fp # 0 /\ DeleteRows({f})
     \/ DeleteRows(Paths)
  /\ UNCHANGED <<vol, mount, guard, snaps, task, enabled, lost, blind>>

---------------------------------------------------------------------------
\* The surroundings: files, the mount, the module switch, restarts.

\* The passes under way have met a disturbance of this kind.
Shake(kind) ==
  task' = [p \in Tasks |-> IF task[p].pc \in {"idle", "off"} THEN task[p]
                           ELSE [task[p] EXCEPT !.shaken = kind]]
Calm(kinds) == "flap" \in Hazards \/ \A p \in Tasks : task[p].shaken \notin kinds

EditFile ==
  /\ Happens
  /\ \E f \in Paths, v \in {0, events + 2} :
       /\ vol[f] # v /\ vol' = [vol EXCEPT ![f] = v]
       /\ IF vol[f] = 0 THEN Calm({"mount"}) /\ Shake("file") ELSE UNCHANGED task
  /\ UNCHANGED <<mount, rows, guard, snaps, enabled, lost, blind>>

\* Within one pass the mount changes at most once, and not together with a file
\* that appears, unless the instance flaps it.
MountChange ==
  /\ Happens
  /\ Calm({"mount", "file"}) /\ Shake("mount")
  /\ \E m \in {"vol", "bare", "gone"} \ {mount} : mount' = m
  /\ UNCHANGED <<vol, rows, guard, snaps, enabled, lost, blind>>

\* Disabling cancels the token the running tasks hold; enabling makes a new one.
ToggleScan ==
  /\ Happens
  /\ enabled' = ~enabled
  /\ task' = IF enabled
             THEN [p \in Tasks |-> [task[p] EXCEPT !.dead =
                                     task[p].pc # (CASE p = "watcher" -> "off" [] p = "cron" -> "idle" [] OTHER -> task[p].pc)]]
             ELSE task
  /\ UNCHANGED <<vol, mount, rows, guard, snaps, lost, blind>>

ScanRestart ==
  /\ Happens
  /\ snaps' = Unseen
  /\ task' = [p \in Tasks |-> IF p = "watcher" /\ ~enabled THEN [IdleTask EXCEPT !.pc = "off"] ELSE IdleTask]
  /\ UNCHANGED <<vol, mount, rows, guard, enabled, lost, blind>>

---------------------------------------------------------------------------
WatcherStep == WatcherPoll \/ WatcherIdentify \/ WatcherUpsert \/ WatcherDelete
               \/ WatcherStops \/ WatcherNotices \/ WatcherResumes
PassStep(p) == Scan(p) \/ WalkFails(p) \/ Judge(p) \/ Write(p) \/ PurgeUnscanned(p)

ScanNext ==
  \/ WatcherStep \/ CronStarts \/ ScanRequest \/ ScanSave \/ DeleteTracks
  \/ EditFile \/ MountChange \/ ToggleScan \/ ScanRestart
  \/ \E p \in {"watcher", "cron"} : PassStep(p)

ScanSpec == ScanInit /\ [][ScanNext]_scanVars

---------------------------------------------------------------------------
\* Properties

\* Types, and a busy task holds what its stage needs.
ScanTypeOK ==
  /\ vol \in [Paths -> Nat] /\ mount \in {"vol", "bare", "gone"}
  /\ rows \in [Paths -> [fp : Nat, hash : Nat]]
  /\ guard.state \in {"none", "online", "unavailable"} /\ guard.dev \in {"none", "vol", "bare"}
  /\ snaps \in [st : {"unset", "lost", "seen"}, view : [Paths -> Nat]]
  /\ \A p \in Tasks : task[p].pc \in {"idle", "off", "device", "change", "drop", "scan",
                                      "judge", "write", "purge", "save"}

\* Unless a pass took the bare directory's device for trusted when none was recorded
\* or the table was empty, no pass or poll deletes the row of a file the volume holds, however the mount is lost,
\* replaced by the bare directory or brought back (reconcile_root: "Mount Identity
\* Protection").
OutageKeepsTracks == ~guard.misled => lost = {}

\* A row whose fingerprint is the file's own and that has a hash has the hash of
\* the file's bytes, but for rows refreshed without hashing: the fingerprint is
\* what later passes judge the hash by.
HashIsFresh ==
  \A f \in Paths \ blind :
    rows[f].fp # 0 /\ rows[f].hash # 0 /\ rows[f].fp = vol[f] => rows[f].hash = vol[f]

\* The table tells the truth about the volume, but for a pass that was misled and rows that
\* were refreshed blindly: no outage deletes rows of files that exist, and no row pairs a
\* file's fingerprint with another content's hash (reconcile_root, the watcher and the scan
\* jobs in any order).
LibraryHonest == ScanTypeOK /\ OutageKeepsTracks /\ HashIsFresh
=============================================================================
