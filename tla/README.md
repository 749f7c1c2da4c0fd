# Formal models of the Michi Micro Server

The stateful parts of the server are modelled in TLA+ and model-checked with TLC; the safety of
all seventeen modules is also proved with TLAPS for every instance, under the hypotheses section 11
names; liveness is left to TLC. Section 1 is the inventory of the system, 2 the
plan, 3 to 7 the modules, 8 the runs, 9 the disagreements between code and documentation, 10 the
conditions under which the properties do not hold, 11 the proofs, 12 what is left out.

## 1. The system

Michi Micro Server is a music server: one Rust process (`apps/michi-server`) that scans a
library, serves and plays it, accepts uploads and imports, keeps the playback state of several
servers in step and drives network receivers.

The parts that carry its own logic, with their state, operations and neighbours (paths are below
`src/crates/`; `v1/` is `michi-api/src/routes/v1/`):

| Component | State | Operations | Talks to | What is hard | What makes it correct |
|---|---|---|---|---|---|
| Playback engine (`michi-playback/src/engine.rs`) | lifecycle, track, queue, play order and cursor, shuffle and repeat, decoder, sinks, clock | commands; audio chunk, end of file, failure | one command channel; sinks; emits events | a sink or the decoder failing in the middle of any command | cursor inside an order that is a permutation; an active lifecycle has a pipeline; no output left open |
| Upload and finalization (`michi-sync/src/lib.rs`) | upload and chunk rows, staging and final file, session cache, leases, heartbeats | init, chunk, progress, finalize, recovery scan | concurrent HTTP handlers, SQLite, file system | concurrent finalizers, takeover of a lease, crash at any step | whole before finalized, published before completed, one owner, final verdicts, settles |
| Playback state sync (`michi-sync/src/lib.rs`, `michi-api/src/sync_ws.rs`) | connections, last state sent, cursors of peers | greet, broadcast, filter, compare, apply | WebSocket peers; the engine | order, loss and duplication of messages | peers converge, nothing stale is applied, exchanges die out |
| Playback projection (`michi-api/src/playback_projection.rs`) | `playback_state`, epoch, sequence, Lamport clock, stored session | handle event, reconcile after lag, initialize, flush | engine events, database, sync | restart, lag, two initializations | clocks never go back, a new process wins over the old one |
| Queues and sessions (`v1/queue.rs`, `v1/playback.rs`, `v1/playback_transfer.rs`) | active queue, saved queue, playback session row | add, clear, jump, reorder, session, transfer, restore | engine, projection, database | commit first, engine later; requests overlap or are dropped | the next request heals the engine; the place survives a restart |
| Receiver sessions (`michi-receivers/src/session_manager.rs`, `authority_gate.rs`, `pawpass_coordinator.rs`) | sessions, heartbeats, transports, authority grants | start, stop, heartbeat, loss, claim, release, transfer | receivers over HTTP; the engine's sinks | late heartbeats and stops, lost answers | sessions are watched, loss is noticed, nothing is left behind |
| Receiver trust (`session_manager.rs`, `v1/receivers.rs`) | pairings, tokens, revocations and outbox, pairing journal | authenticate, pair, revoke, flush, reconcile | receivers over HTTP, database | a crash or a lost answer between two steps | revocations durable and delivered once at a time; both sides agree on a pairing |
| Library scanner (`michi-scanner`) | tracks table, mount guard, snapshots of the watcher | poll, whole-root pass, scan endpoints | file system, database | a volume lost or replaced during a pass | an outage deletes nothing; hashes are those of the bytes |
| Imports (`v1/import.rs`) | session rows, sessions in memory, manifests, staging files | open, upload, commit, roll back, expire, recover | file system, database | crash or dropped request between copy, row and status | a commit publishes all that was acknowledged, or nothing |
| Playlists (`v1/playlists.rs`, `michi-api/src/library.rs`) | lists, entries, counts | create, add, remove, reorder, update, import | database | several statements without a transaction | counts match, additions stay in order |
| Settings and scrobbling (`v1/settings.rs`, `michi-config`, `michi-api/src/scrobble.rs`) | config file, environment, startup configuration, plays | save, restart, record, submit | file system, providers | whole-file read-modify-write, torn file | acknowledged settings stand; a play is submitted once |
| Jobs and modules (`michi-api/src/lib.rs`, `v1/jobs.rs`, `v1/modules.rs`) | job rows, tokens, workers, module switches | create, claim, run, cancel, toggle | background tasks | cancellation against claim and finish | a job runs once, a cancellation sticks |
| Accounts (`michi-api/src/auth.rs`) | users, session rows, session cache | boot, register, login, validate, log out | database | cache and row change separately | an ended session stays ended |
| Device pairing (`v1/pair.rs`, `michi-link/src/auth.rs`) | devices, codes, token store | pair, claim, refresh, revoke, reload | database | rows and store change separately | a revoked device is refused |
| Presence (`michi-connect`, `discovery_bridge.rs`) | scents, registry, event channel | announce, resolve, sweep, project | network, receiver registry | events out of order, overrun channel | presence is earned and the registry follows it |
| Output groups (`v1/chains.rs`, `v1/rooms.rs`) | chains, links, rooms, selection | edit, play, stop, activate | engine, receiver sessions | receiver by receiver, no lock | answers are true of all receivers |
| Streaming (`michi-streaming`, `michi-api/src/stream.rs`, `v1/stream.rs`) | transcode permits, HLS cache | decide, send a range, transcode, segment | file system, ffmpeg | the file changes under a response, ffmpeg fails halfway | decisions keep to the configuration, bodies have the promised length, no permit is lost |
| Backups (`v1/backup.rs`) | backup files, the library | back up, restore, rotate | database, file system | tables read one after the other | an undisturbed backup gives the library back |

How they interact: HTTP handlers and WebSocket tasks send commands to the engine, which runs
them one at a time and emits events on a broadcast channel; the projection turns events into
`playback_state`, persists the session and broadcasts local changes to the sync peers; a
peer's state comes back as commands to the engine. Receivers are sinks of the engine, whose
sessions live in the receiver manager; chains and rooms choose which of them play. Discovery
feeds the registry that pairing and sessions use. The scanner, imports, playlists and backups
share the tracks table. The forty places where this is hardest to test are listed, line by line,
under `hazards` in `PROJECT.json`; section 10 has the others.

## 2. Plan

| Order | Module | Composes with | Properties and theorems | State |
|---|---|---|---|---|
| 1 | `PlaybackEngine` | - | pipeline, play order | checked and proved |
| 2 | `UploadFinalization` | - | wholeness, publication, fencing, verdicts, settling | checked; safety proved |
| 3 | `PlaybackSync` | the engine of 1 as its events, the projection | convergence, order, reboots, quiescence | checked; `TypeOK`, `OnlyForward`, `RebootWins`, `StateNeverRegresses` and `Converged` proved |
| 4 | `ReceiverSessions` | manager, authority gate, PawPass, heartbeats | sessions accounted for, loss noticed, nobody stuck | checked; `SessionAccounted` proved |
| 5 | `ReceiverTrust` | manager, database, one target of the outbox | trust accounted for, outbox delivers | checked; safety proved |
| 6 | `PlaybackQueues` | requests, engine, projection, restore | queue heals, place kept | checked and proved |
| 7 | `LibraryScan`, `Imports`, `Playlists`, `Settings`, `Streaming` | run `catalog` | section 6 | checked; `ImportsWhole`, the refinement of `ImportContract`, `SettingsKept`, `StreamsHonest`, `PlaylistsAgree`, `LibraryHonest` proved |
| 8 | `Jobs`, `Accounts`, `DevicePairing`, `Presence`, `Outputs`, `Backups` | run `services` | section 7 | checked; `OneRunner`, `TokensEnd`, `AccessFollows`, `PresenceTrue`, `BackupsServe` and `OutputsAgree` proved |

Abstract specifications: `ImportContract` is stated and implemented (section 6). An upload as a
life cycle (uploading, finalizing, one verdict) that `UploadFinalization` implements is left.

## 3. The playback engine: `PlaybackEngine`

The engine is one task. `run` takes a command, or delivers one chunk of audio, and awaits the
handler before it looks for more, so each handler is one action: `HandleCommand` is the choice
between the commands of `handle_command_inner`, `ProcessAudioChunk` the delivery of a chunk
with its outcomes (delivered to all or some sinks, every sink failed, decoder failed, end of
file). `StartPlayback` and `CleanupPlayback` are the helpers of the same name that several
handlers share. Every call to a decoder or sink may fail at any time.

The variables are the fields of `PlaybackEngine` under their names; `open` is added: the sinks
that were prepared and not stopped since. Positions are members of a small set, the bytes
delivered are counted in chunks up to `PLAYING_EVIDENCE_THRESHOLD_MS`. Events, origins, volume
values and texts are left out here; module `PlaybackSync` has the events and origins.

`QuietStates` is what the code does of "quiet", which is less than one may expect: in Paused, Stopped
and Ended there is no decoder, in Idle and Failed one that survived a failed start but no output for
it, and the clock is at rest while the track is paused, stopped or prepared. It may run on in Ended
and in Idle or Failed after a start that failed from there (section 10).

Code found to be unreachable: the lifecycles `Buffering` and `Stopping` are never assigned, and
the branch of `process_audio_chunk` without a decoder is never taken while the engine is active
(`ActivePipeline`).

## 4. Uploads: `UploadFinalization`

One upload, the requests that carry its chunks, the recovery task, and one process after
another. Every SQL statement, file-system call and critical section of the session cache is a
step of a worker; its label `pc` is the place in `upload_chunk` or `verify_and_finalize_upload`
where it is about to continue, so that any two requests and the recovery scan interleave at
every await. `Owns` is the WHERE clause of the guarded updates (status, token, process epoch).

A file is what it holds at each chunk's offset; `files` is indexed by inode because a request
keeps writing through its descriptor after the path was renamed. A token is the value of
`finalize_attempts`, fresh at each acquisition. Time appears only as a lease that expires:
`LeaseExpires` when nobody renews it, `LeaseStalls` as a fault when somebody should have.

Faults, each enabled by the constant `Faults` and counted against `MaxFaults`: `crash` ends the
process at any step (the next one starts with an empty cache and scans); `error` fails a
database or file-system call on a path that cleans up; `leak` fails one of the calls that leave
through `?` past the running heartbeat; `heartbeat` fails a renewal; `drop` drops the future of
a request whose client left; `stall` holds an owner up for longer than its lease.

Code found to be unreachable (`FinalizingIsWhole`, proved): the `MissingChunk` and
`ArtifactMissing` failures of the finalization. Never used: the status `cancelled`,
`mark_upload_failed_unowned` and the `recoverable` failure class.

## 5. Playback state between servers: `PlaybackSync`

Each server has an engine (what it plays and its `current_timeline_origin`), a queue of engine
events (`events`, with `lagged` when the channel of 128 overflowed), the projection that turns
them into `playback_state` (`ps`), and the links to its peers. `Steer`, `Skip` and `Checkpoint`
are what a user or the engine does; `HandleEvent` and `Reconcile` are the projection;
`Consider`, `Load`, `ResumeOrPause`, `Record` and `GiveUp` are `apply_remote_playback_state`,
which holds the lock of the playback module over several engine commands; `Connect`,
`Receive`, `ReceiveLate` and `Disconnect` are the WebSocket tasks of both sides; `Restart`,
`InitEpoch`, `InitLoad` and `InitStore` are the end of a process, with or without
`flush_shutdown`, and the two runs of `initialize_db_state` in the next one.

`Precedes` is `has_precedence_over` on provenances. `updated_at` only breaks ties between
states that carry the same event or no Lamport clock; `Outcomes` leaves these open, since the
clocks of two servers need not agree. A state is a provenance, a track and whether it plays;
shuffle, repeat, volume and position travel in the same way and are left out. An engine command
emits one event instead of two or three.

A connection has three streams: the greeting of the accepting side, and the broadcasts of
either side. The accepting side filters by `last_sent_state` (`Covered`), the dialling side
does not. When a connection ends, the side that dialled leaves it; the other may still read one
state that was under way (`late`), and either may be aborted in the middle of an application.

The constant `Hazards` selects which disturbances an instance contains, so that a run says
under which conditions a property holds: `overlap` (a command or a peer's state meets an
application or an event that is not projected yet), `skip`, `disconnect`, `restart`,
`straggler`, `torn` (a server is dialled in the middle of an application), `unplayable`.
`MaxStimuli` bounds commands, checkpoints and disturbances together.

## 6. Receivers, queues, and what the server keeps for its user

**`ReceiverSessions`** is one receiver's session. A caller (`op`) runs `start_session`, the sink's
`prepare`, `stop_session`, a revocation, a deletion, a PawPass transfer or a takeover; `beats` are
the heartbeat tasks ever spawned, each ticking, calling and possibly tearing the session down.
Every acquisition of a lock and every exchange with the receiver is a step. `Lapse` and `Pounce`
are the receiver losing the session or another server taking it over; an exchange may be refused,
lost on the way or answered too late. `SessionAccounted` (with the type invariant): at rest a
session reported as started has a heartbeat task nobody cancelled (`SessionIsWatched`), and one
that is gone left neither transport nor registry entry without somebody to clear it
(`NothingLeftBehind`). `LossIsNoticed` and `NobodyStuck` (`CallersReturn`, `LeftoversCleared`) are
liveness: the loss is torn down, operations return although they join heartbeat tasks that may be
tearing down themselves, and leftovers are cleared.

**`ReceiverTrust`** is one receiver paired, authenticated and revoked, and one target of its
revocation. `db` and `mem` are the tables and the manager; the tasks `pair`, `auth`, `revoke`,
`boot` and the flushes of the outbox go statement by statement. `TrustAccounted` (with the type
invariant): what refuses a receiver in memory is in the database (`RevocationIsDurable`), an outbox
entry is delivered by one flush at a time (`OneDelivery`) and acknowledged only when the target was
told (`AcknowledgedIsTold`), and a pairing the receiver confirmed is stored or still in the journal
(`PairingAccounted`). `OutboxDelivers` is liveness.

**`PlaybackQueues`** is the queue and session requests, the engine they drive, the projection that
stores the session and the restore of the next process. A request validates and commits in its
first step and leaves its later awaits in `todo`; requests interleave between them and may be
dropped there. `QueueHeals` (with the type invariant): whatever happened before, a request that
nothing overlaps leaves the engine with the database's queue (`RequestsHeal`), on the track it was
for (`LandsOnTrack`). `PlaceKept`: at rest the stored session names the engine's track
(`SessionFollows`) and a restart brings it back (`PlaceSurvives`).

**`LibraryScan`** is one root whose volume can be lost, replaced by the bare directory below the
mount point and brought back, under the watcher, the whole-root passes and the scan endpoints. A
walk is one step, or one that meets an I/O error, keeps nothing and holds the mount unavailable
(`WalkFails`); the volume and the mount change between any two. `LibraryHonest` (with the type
invariant): no outage deletes the row of a file the volume holds (`OutageKeepsTracks`) and no row
pairs a file's fingerprint with another content's hash (`HashIsFresh`).

**`Imports`** has the three places a session lives in (`sess`, `ram`, `manifest`), the staging
directory, the library and its rows. A staging file is created under its final name in one step and
written in the next (`UploadBegins`, `UploadWrites`); a file that is there is taken for written, so
the cut-off one of an upload that crashed, failed or was dropped between them is accepted by the
retry. A commit copies file by file (`CommitCopies`, `CommitFills`); a copy that fails, or is cut off by a
crash or a drop, leaves a partial destination. `ImportsWhole`: a row's hash is that of the bytes
under its name (`RowsMatchFiles`), except of a content whose upload broke off while it was written
(ghost `broken`; without the exception it is `RowsExact`, which fails, section 9), and a session that
did not commit leaves none of its copies (`UndoneLeavesNothing`), unless its copying was interrupted
(ghost `torn`). `ImportContract` is the abstract specification: files are acknowledged, a commit
publishes at once at least all of them that did not break off before the acknowledgement, the three
ends are final. `ImplementsContract` is the refinement: `phase` is the session's status with the
intermediate ones taken as open, `acked` the contents answered with success, `published` the committed
files that are in the library with their row. It shows that a crash, a dropped request, a recovery
from the manifest or the janitor never loses an acknowledged whole file of a committed session and
never reopens an ended one.

**`Playlists`**: `PlaylistsAgree` is `CountMatches`, `AppendsInOrder`, `BuiltComplete` and
`UpdatesStand`, statement by statement, with overlapping and dropped requests.

**`Settings`** is the configuration file, the environment, the startup configuration, the handlers
that rewrite the whole file and the plays scrobbled under them. File and environment meet in
`load_file_overrides` in three ways, and the model has a setting of each: the variable of the profile
is applied again over the file and wins; a provider's token in the file wins over its variable, which
counts only while the file names none (tokens are values: none, the environment's, the user's); and
opensubsonic is the variable's as long as there is no file, then off, since the file replaces the
configuration and does not store it. `SettingsKept`: an acknowledged change stands (`SettingsStand`),
the next start uses it with the environment in those three ways (`RestartApplies`), the settings page
announces what of the fields it compares that start will change (`RestartIsTold`), and a provider
receives a play at most once (`ScrobbledOnce`), as the settings stand when it is recorded
(`ScrobblesAsSet`). That a variable always wins is `VariablesOverride`, which fails (section 9).

**`Streaming`** has two parts. The pure one is `resolve_stream_decision` (policy, profile, format
asked for), the tables of transcode plans and `parse_range`, each an operator; `DecisionsRight`
and `RangesRight` compare them with declarative definitions over every track, request and
configuration (bit rates in kbit/s, three sample rates, three depths, two limits) and over every
header and file of up to three bytes. A client that names a format is refused or answered with one of
`Answers`: the format's own type for mp3, opus, ogg, wav and aac, but audio/wav for pcm, audio/aac for
m4a, which is served under DirectPlay only, and the file's own for flac, which stands for any lossless
file as it is. The other part follows requests from their arrival to the
end of their body. Responses keep the handle they opened, so a file renamed or deleted under them
keeps its length for them; a v1 transcode holds a permit of the semaphore until its body ends or is
dropped; a playlist is cached as soon as ffmpeg has written part of it, and ffmpeg runs on when
the request that spawned it goes. The rest of the semaphore is held by clients outside the model
(`elsewhere`), so that two clients meet an exhausted one. `StreamsHonest` is `DecisionsRight`,
`RangesRight`, `BodiesWhole`, `PermitsKept` and `PlaylistsWhole`.

## 7. Services

**`Jobs`**: job rows, the supervisor that lists, acquires a permit, claims and spawns, workers,
cancellation, and the switches of two modules with their background workers. A request may be dropped
at its awaits and a statement may fail (`JobFaults`); a cancellation stops the worker's token first and
changes the row after it, and the end of a worker is recorded by a statement whose error is
ignored. `OneRunner`: an answered cancellation sticks (`CancelSticks`), a job runs once (`RunsOnce`), a
running row has somebody who will end it (`RunningIsTended`), and a module has at most one worker
nobody told to stop (`OneLiveWorker`). The rows without anybody are those of before a restart (ghost
`stranded`), and those whose cancellation was cut off between token and row or whose end was not
recorded (ghost `abandoned`); only another cancellation ends them.

**`Accounts`**: users, session rows, the cache in front of them and the environment's
administrator. `AccessFollows`: `LogoutIsFinal`, `OneManagedAdmin`, `SessionsFollowCredentials`.

**`DevicePairing`**: PIN sessions, QR codes, device rows, the token store and the task that
refills it. `TokensEnd`: `RevokedIsDead`, `OneDevicePerCode`, `SpentIsGone`.

**`Presence`**: the scent store written by the signed listener, the mDNS resolver and the sweep,
and the bridge that projects it into the registry through a bounded channel. `PresenceTrue`: a
record is verified or online only while earned (`PresenceIsEarned`), and an idle bridge has made
the registry agree (`RegistryFollows`), except for the peers in `astray`: their entry was written
by somebody else, or by an event that was overtaken or contradicted by an `Offline` the channel
lost, which also marks what the bridge's snapshot still holds of that peer.

**`Outputs`**: chains with links, rooms, the selection, and requests that go receiver by receiver.
`OutputsAgree`: `PositionsDistinct`, `RoomEditsStand`, `AnswersHold`.

**`Backups`**: backups put together table by table, restores, and the hourly cycle.
`BackupsServe`: `RestoreGivesBack`, `RetentionKeepsNewest`.

These six, like the five of run `catalog`, share no variable. Their components do meet in the
code, through rows of the database; what another component does to a row is an action of the
module (a track deleted under a playlist or a backup, a receiver revoked under a chain, a
restoration that ends every login session). `MCCatalog` and `MCServices` therefore check them in
one run each: `focus` selects the component a behaviour is about, the others stay in an initial
state, so no case of any of them is lost. Within `Jobs`, jobs and switches are followed apart for
the same reason: all that joins them is that the supervisor waits while every module is off, which
removes behaviours and adds none.

## 8. The runs

Bounds are small because every property concerns the meeting of two or three actors; where a
theorem exists it lifts the bound. A property of several named parts is one invariant of its run,
and each part has a mutant of its own in `PROJECT.json`.

| Run | Instance | Checks |
|---|---|---|
| `engine` | 2 tracks, 2 sinks, queues up to 2, evidence after 2 chunks (47 000 states) | `TypeOK`, `PlayOrderOK`, `ActivePipeline`, `HonestStates` (`PlayingHasEvidence`, `QuietStates`), `NoLeakedOutput`, `NoImmediateRepeat`. Two sinks let one fail while the other goes on; queues of two make shuffle cycles and repeats happen. |
| `upload_races` | 2 requests and the recovery task, 2 chunks, right and wrong bytes, one fault of any kind (570 000 states) | `TypeOK`, `FinalizingIsWhole`, `CompletedIsPublished`, `CacheNeverAhead`, `OneOwner`, `VerdictIsFinal`, `LiveLeaseNotStolen`. Two requests and the recovery task give two contenders for a lease and one bystander. |
| `upload_settles` | 2 requests, 2 chunks, right bytes, one crash or cleaned-up error, fair (77 000 states) | `CompletedIsValid`, `WholeUploadSettles` |
| `sync_converge` | 3 servers in a mesh, connected, no hazards, 2 stimuli (38 000 states) | `Converged`, `StateNeverRegresses`: two concurrent commands with equal or different Lamport clocks, seen in different orders by the third server. Three stimuli (1.3 million states) hold as well. |
| `sync_reboot` | 2 servers, one dials; `overlap`, `disconnect`, `restart`; 3 stimuli (590 000 states) | `RebootWins`, `OnlyForward` (`ClockNeverRegresses`, `PeerOrder`): three stimuli are a command before a restart, the restart and a command after it. |
| `sync_quiesces` | 2 servers, every hazard but `straggler`, 2 stimuli, an event channel of 2 so that it overflows, fair (21 000 states) | `TypeOK`, `Quiesces` |
| `receiver_sessions` | 1 caller against the heartbeat tasks, 3 operations, 2 disturbances of `lost`, `refuse`, `restart`, fair | `SessionAccounted`, `LossIsNoticed`, `NobodyStuck`. Three operations are a start, what disturbs it and a new start. |
| `receiver_trust` | 2 flushes, 1 revocation, 2 disturbances of `lost`, `refuse`, `dbfail`, `crash`, `race`, fair | `TrustAccounted`, `OutboxDelivers` |
| `trust_restart` | the same with one crash | `RestartKeepsRevocation`, violated: section 9 |
| `playback_queues` | 2 requests, 2 tracks, queues up to 2, 1 disturbance of six kinds, 1 move of the engine | `QueueHeals`, `PlaceKept` |
| `catalog` | 2 files and 2 events of mount, files and server; 2 import sessions of 2 contents under one name, 4 requests, 1 restart, dropped request or failing operation; 1 playlist, 3 requests, 1 dropped; 2 profiles, 2 saves, 1 restart; 2 clients, 3 streams, 2 versions of the file, a server that transcodes and one that does not (920 000 states) | `LibraryHonest`, `ImportsWhole`, `ImplementsContract`, `PlaylistsAgree`, `SettingsKept`, `StreamsHonest` |
| `services` | 2 jobs, 1 permit, 2 cancelling clients, any number of dropped requests and failing statements, 2 restarts; 4 toggles of 2 switches; 2 users, 1 token, 2 starts; 2 devices, 1 code, 1 refresh, 1 restart; 1 peer, 2 URLs, a channel of 1; 1 chain of 2 links, 1 room, 2 receivers, 3 requests, 1 dropped; 2 tracks, 1 backup kept of 2 (830 000 states) | `OneRunner`, `AccessFollows`, `TokensEnd`, `PresenceTrue`, `OutputsAgree`, `BackupsServe` |

In the two composite runs the components are given the same model values for their callers and
subjects, so that one permutation is a symmetry of all of them; only safety is checked there.
`CHECK_DEADLOCK FALSE` appears where a system may rest: servers when nobody acts (`Quiesces` says
that they do not rest with work left), the others when the bounds on requests are used up.

Fairness. In `UploadFinalization`, every worker that can take a step does (tokio polls runnable
tasks), an untended lease expires, the upload is initialized, and a client that is willing to
resend each chunk gets through (strong fairness of `Receive` with the right bytes): without a
client that retries no code would look at the row again before the next start. In
`PlaybackSync`, tasks run, a message on a live connection arrives (TCP) and `start_sync_peers`
reconnects for ever with bounded delays. In `ReceiverSessions`, operations that were begun and
heartbeat tasks run: the requests of `client.rs` have timeouts and the heartbeat ticks by the
clock. In `ReceiverTrust`, the bootstrap runs and the outbox is flushed again and again, which
`start_background_tasks` does every 30 seconds. No fairness is assumed of commands, requests,
checkpoints, faults or restarts.

## 9. Where code and documentation disagree

Run `trust_restart` finds a violation of `RestartKeepsRevocation`: `load_persisted_revocations`
says "Reconcile registry: mark matching receivers revoked", but at start the registry is still
empty; the receivers are restored after it from rows that a revocation leaves paired, with their
token. The finding in `PROJECT.json` has the lines.

The following were found with the same modules; each is reproduced by a configuration of the
module's MC module with these values, everything else as in the runs:

| Property | Values | What happens |
|---|---|---|
| `CompletedIsValid` | `Payloads = {"good", "bad"}`, `MaxFaults = 0` | A second request for the same chunk with other bytes, past its lookup and holding the staging file open, writes after the file was hashed (`michi-sync/src/lib.rs:916`); the row is completed with a corrupt file. `lib.rs:2877` says "Status completed iff final artifact valid". It also fails with right bytes and 3 requests for one chunk, with `Faults = {"stall"}` or `{"heartbeat"}`, `MaxFaults = 1`: an owner whose lease expires before its rename publishes a file re-created after a takeover. |
| `WholeUploadSettles` | 1 request, `LastChunk = 0`, `Faults = {"leak"}` | A failed query leaves through `?` (`lib.rs:1472`) without cancelling the heartbeat, which renews the lease until the process ends. `lib.rs:2926` says "Stale finalization lease is recovered by another worker". |
| `HonestNeverFails` | right bytes, `Faults = {"crash"}` | A duplicate of a chunk that passed its lookup re-creates the staging file after the rename; after a crash before completion the recovery prefers that file (`lib.rs:1502`) and fails a valid upload for good. |
| `RestsConverged`; with `MaxStimuli = 3` `StateNeverRegresses` | 2 servers, `Hazards = {"overlap"}`, `MaxStimuli = 2` | The comparison with `playback_state` (`sync_ws.rs:170`) misses a command the engine has executed and the projection has not seen. `michi-api/tests/api.rs:7629` says "must deterministically converge to the exact same state". |
| `RestsConverged` | 2 servers, `Hazards = {"disconnect"}`, `MaxStimuli = 3` | The dialling side's last state is lost with the connection; the greeting is its own older state and dropped as an echo (`sync_ws.rs:119`), so nothing is sent again. |
| `StateNeverRegresses` | 2 servers, `Hazards = {"skip"}`, `MaxStimuli = 3` | Next and Previous keep the timeline's remote origin (`engine.rs:907`), so the next checkpoint puts an older provenance back. `CHANGELOG.md:52` says "preservación de procedencia de línea de tiempo". |
| `StateNeverRegresses` | `Hazards = {"restart", "straggler"}`, `MaxStimuli = 3` | `new` spawns one `initialize_db_state` (`playback_projection.rs:206`) and `bootstrap_runtime` awaits another; if the spawned one stores last, the epoch of a serving process goes back. |
| `PrecedenceIsOrder` | `Hazards = {"restart"}`, `Reserve = 0`, `MaxStimuli = 5` | After a crash that lost more Lamport values than were reserved, precedence has a cycle of three, although `lib.rs:212` says "strict total order". |
| `JumpResetsPosition` | 1 sink, queues up to 1, `EvidenceChunks = 1` | A jump after the end of the queue leaves `playing_started_at` of the finished track, although `docs/WEB_UI_FUNCTIONAL_MATRIX.md:27` says "reseteo de posición a 0". |
| `RowsExact` | those of `catalog` | An upload dropped while it writes leaves a staging file cut off under its final name (`v1/import.rs:495`). The retry finds the file and acknowledges it unread; the commit copies it and stores the row with the hash of the whole content (`:983`). The same is left by a crash and by a failing write. |
| `VariablesOverride` | those of `catalog` | `michi-config/src/lib.rs:241` says "(env vars override)". Any saved file turns `MICHI_OPENSUBSONIC_ENABLED` off: it is set at line 282, the file replaces the configuration and does not store it (555-580), and nothing applies it again (350-441). A provider's token in the file wins over `MICHI_LISTENBRAINZ_TOKEN` and `MICHI_LASTFM_TOKEN` (261-266). |
| `RetryClears` | `Hazards = {"lost"}`, `MaxFaults = 1` | A session whose remote DELETE failed is kept "for retryability" (`session_manager.rs:2352`); when the receiver has already ended it, every retry fails in the same way. |

## 10. Where the properties stop

Each module states under which conditions its properties hold: a constant selects the
disturbances of an instance, and ghost variables mark what a known race has touched. What lies
outside, with the place in the code:

- **Receiver sessions.** Two concurrent callers (`concurrent`): a start and two stops can leave a
  transport without a session, and a start racing `handle_session_lost` has its new session torn
  down (`session_manager.rs:2307`). A heartbeat that outlives the 500 ms join (`late`) reports the
  loss of the session that replaced its own (`:2148`). A lost heartbeat answer is resent under the
  same sequence number and refused, so a healthy session is torn down, completely.
- **Receiver trust.** A crash while an outbox entry is `delivering`, or between the journal's
  `persisted` and the row (`gap`): the entry is not sent again, the pairing is on one side only.
  An authentication that overlaps a revocation marks the entry paired again (`:526`); discovery
  enters a deleted receiver as unrevoked.
- **Queues.** A session request is refused for its device after it has committed its queue
  (`v1/playback.rs:797`). `save_queue_state` stores the first track beside another index
  (`michi-db/src/lib.rs:5129`). A reordering of a queue that is not active is pushed to the engine.
  `persist_if_changed` compares with the last projection, not with the row
  (`playback_projection.rs:837`). Deleting the active queue leaves the session row without one.
- **Library.** A mount that changes between the walk and the reading of its device id (`flap`,
  `michi-scanner/src/lib.rs:308`) deletes rows of existing files. The scan endpoint and a new file
  seen by the watcher upsert a new fingerprint without a hash, and `COALESCE` keeps the old hash
  (`michi-db/src/lib.rs:4032`, ghost `blind`). A root whose first trusted device was the bare
  directory is not protected (ghost `misled`).
- **Imports.** Two sessions that commit the same name at once (`collide`, `v1/import.rs:937`)
  leave a row with the other's hash. A commit cut off after its copies and then rolled back leaves
  files and rows (ghost `torn`). A copy that fails or breaks off leaves its partial destination
  (`:964`): the removals cover only the copies that ended, and every later commit that meets it is
  refused for other bytes under the name. A dropped request's copy is in truth finished by the
  blocking thread that runs it; the model leaves it cut off, as a crash does. A staging file cut off
  in the middle of its write passes for the whole one (ghost `broken`, section 9).
- **Playlists.** Overlapping adds collide on the unique position and fail, silently in imports
  (`michi-db/src/lib.rs:3748`). Deleting a track leaves `track_count` stale; a reordering from a
  stale list drops tracks; overlapping partial text updates lose one.
- **Settings.** Overlapping changes lose one (`v1/settings.rs:428`), a change that meets a torn
  file restores the startup configuration (`michi-config/src/lib.rs:296`), a disconnected provider
  falls back to the startup's token (`scrobble.rs:156`). A saved file hides the tokens and
  opensubsonic of the environment (section 9), and the settings page announces neither. A submission
  that fails is not repeated; Last.fm plays are never marked.
- **Jobs.** A job that ran when the server stopped stays `running` (`michi-api/src/lib.rs:1040`); so
  does one whose cancellation was dropped or failed between the token and the row
  (`v1/jobs.rs:119`): the worker stops and records nothing. And one whose end could not be recorded,
  as the errors of `complete_job` and `fail_job` are ignored (`lib.rs:1043`, `:1047`).
  A cancellation between claim and token does not reach the worker, which runs to its end; a
  switch dropped half-way leaves the module's worker running.
- **Accounts.** A validation that read the row before a logout puts the token back into the cache
  (`auth.rs:192`); a logout dropped between row and cache leaves it there.
- **Devices.** A token stored after a revocation emptied the store survives until a restart
  (`v1/pair.rs:327`). Refreshed and refresh tokens are only in memory, so a restart brings back
  the original device token and no other, although `michi-link/src/auth.rs:112` says "This ensures
  tokens survive server restarts."; two concurrent refreshes with one token both succeed.
- **Presence.** Events sent after the lock is released can be reordered (`scent_store.rs:223`); a
  bridge that lagged never repairs a lost Offline (`discovery_bridge.rs:249`); an authentication
  marks a receiver verified whatever its record says.
- **Outputs.** Two adds share a position (no unique index); an edit of a room that overlaps its
  deletion resurrects it (`michi-db/src/lib.rs:2436`); stopping a chain stops the engine whatever
  it plays; the selection keeps naming a deleted room.
- **Backups.** A track deleted between the tables (`v1/backup.rs:65`) makes a payload fail or its
  restore refused; a bundle gives back neither stars nor history; ratings are lost by any restore.
- **Streaming.** A playlist is served truncated while ffmpeg writes it (`michi-api/src/stream.rs:147`),
  and for ever after an ffmpeg that failed or was killed halfway: nothing removes it, nor when the
  file is replaced. Only the v1 route takes permits (`v1/stream.rs:186`): `/api/stream/:id?format=`
  transcodes without one, also in profile Eco, for which `docs/RESOURCE_BUDGET.md:11` says "0 = no
  FFmpeg". A limit below 32 kbit/s is raised to 32 (`michi-streaming/src/lib.rs:390`). A client that
  asks for flac gets a lossless WAV as audio/wav (`:547`), one that asks for m4a gets audio/aac
  (`:471`); `Answers` states these as the code has them.
- **Engine and sync.** The position clock runs on when the queue ends (`engine.rs:503`) and after a
  start that failed from Idle or Failed, a jump keeps it (`:741`, section 9), and a decoder may survive
  a failed start. `output_health` counts the sinks that survived the previous track
  (`engine.rs:586`). A request dropped between the commit of its receipt and the cache
  (`michi-sync/src/lib.rs:934`) leaves a cache that never reaches all chunks. A server dialled in
  the middle of an application greets with a half-applied state (`sync_ws.rs:309`). The broadcast
  channel of 64 states (`michi-api/src/lib.rs:493`) and a Lamport clock near the end of its range
  (`playback_projection.rs:350`) are not modelled.
  Not in the list but checked: the reload of a session that overwrites what other requests noted
  (`michi-sync/src/lib.rs:978`, `CacheNeverAhead`), several tasks that advance one Lamport clock
  (`playback_projection.rs:348`, `OnlyForward`), a play reported twice (`scrobble.rs:52`,
  `ScrobbledOnce`).

## 11. What is proved

Every theorem holds for every value of the constants that satisfies the named assumptions of its
module. They fix what the code fixes and little else: for the engine `None` is no track, `MaxQueue`
a natural number, `EvidenceChunks` a positive one, positions natural numbers that include 0; for
uploads a natural number of chunks, finitely many requests, payloads "good" or "bad", any faults
and any bound on them; for the other modules that bounds are natural numbers, disturbances are
those the module names, and the value that stands for "none" is not one of the values it is told
apart from. Sets of requests, callers, workers, devices, users, sessions and names may have any
size. Some theorems have a hypothesis of their own, which excludes the disturbances of sections 9
and 10 under which the property really fails, and no others; for each of them a run checks an
instance within the hypothesis.

`PlaybackEngineProofs`: `TypeCorrect`, `OrderSafe` (`PlayOrderOK`), `PipelineSafe`
(`ActivePipeline`, `PlayingHasEvidence`), `OutputSafe` (`NoLeakedOutput`, `QuietStates`), `HonestSafe`
(`HonestStates`) and `NeverRepeats` (`NoImmediateRepeat`). The inductive invariant is the conjunction of the checked
invariants, split into `ListOK` (queue, order, cursor) and `PipeOK` (lifecycle, decoder, sinks,
clock), since no command depends on both: the lemmas up to `SetQueueOK` show that each operation
on the lists preserves the first, those from `StartOkOK` on the second. That an order is a
permutation is a bijection between places and indices; `LeastNatural` gives the first place of
the current index that `position()` returns.

`UploadFinalizationProofs`: `TypeCorrect`, `FinalizedWhole`, `CompletedPublished`, `CacheHonest`,
`Fenced`, `VerdictFinal` and `LeaseSafe`. The checked invariants are not inductive. `IInv` adds
what each worker has established at its label (`Ready`): a worker in the finalization has seen
every chunk recorded, one past `promote` has published the file, one at `complete` has
registered it; what its copies are worth (`CopiesOK`): a snapshot of the receipts never claims
more than the database, because receipts only grow, and a lease it read as expired and that is
still in the row is expired; that only a worker about to write holds a descriptor (`HandleOK`,
needed to show that a new file gets a free inode: there are two paths and one descriptor per
request); and that tokens are distinct and at most `attempts` (`TokensOK`), the fencing
argument: of all workers and orphaned heartbeats at most one holds the row's token. `Inductive`
has one step per action, each a lemma of its own; `VerdictFinal` and `LeaseSafe` follow from the
same invariant and from `RowMoves`, which lists the ways the row can change.
`CompletedValid` (`CompletedIsValid`) excludes wrong bytes, a lost heartbeat and a stall, under each of
which it fails (section 9), and allows any number of crashes, errors, leaked heartbeats and
disconnections. `ValidInv` says that who acts as the owner is the owner, under a lease that its
heartbeat keeps valid (`OwnerOK`), so that there is one at most (`SoleOwner`) and a takeover finds none
(`NoOwner`); and that what it verified stays intact until the row is completed (`Verified`): other
requests write only what is already there (`WritesRight`) and create no file over one that has a path.

`PlaybackSyncProofs`: `SyncIsTyped` (`TypeOK`) and `RebootsAreFollowed` (`RebootWins`) under every
disturbance, also those under which other properties of the exchange fail. `StampInv` says of every
stamp that is carried anywhere (shown, played, queued as an event, applied, on its way, read late,
or remembered by a cursor) that its device gave it under an epoch the database had reached, and that
a later process of the device goes `Beyond` that epoch: the database, the epoch it runs under, and
what its two initializations are about to store are all greater (`StampOK`), in whatever order they
store it (`InitsGoBeyond`). So a later process has the greater epoch (`Ordered`), and what is being
applied is newer than the cursor (`ApplyOK`). Most steps only move stamps: the lemmas on `AllIn` and
`Carried` reduce each of them to "no stamp that was not carried before, or the one this process gives
now". `TimeGoesForward` (`OnlyForward`) excludes `straggler`, as a second initialization that is
still under way can set the clocks of a serving process back (section 9); `StartInTurn` is what it
adds.
`StatesDoNotRegress` (`StateNeverRegresses`) holds without `overlap`, `skip` and `straggler`, whatever is
cut, restarted, torn or unplayable. `HeldInv` adds what the apply lock and the queue of events
stand for: what is shown was stamped by the running process or its Lamport clock has been observed
(`ShownOK`), a state that is being applied, and the origin its events carry, is not preceded by what
is shown (`AtHand`), and all queued events carry the engine's present origin. A local stamp then
follows what is shown because its Lamport clock is past it, and among one device's because its
sequence number is.
`PeersConverge` (`Converged`) is for any number of servers of which each pair is connected by one dial
or two, and any number of commands at once on different servers; it excludes every disturbance
(`Peaceful`), since a skipped, unplayable or lost state is one that some server never shows, and
`overlap` refutes it (section 9). What is told (`Told`) is what each server is on its way to show (`Aim`:
the state it applies, the timeline whose events wait, or `playback_state`), what it last sent and what
the streams hold. Among told states has_precedence_over is one total preorder, Lamport clock and then
device (`PrecedenceIsRank`), because within a device the clock grows with the sequence (`Timely`); what a
server aims at only rises in it (`Rises`). `TellingOK` says that every state told is either not above the
aim of each server or still comes to it, or a later one of its device does; that a state a server
takes for old is not above its aim; and `PlayOK` that a server with nothing under way plays what it shows.
An arrival is dropped by the sender's own filter, as old, for a state that wins, or it becomes the
aim: in each case it is no longer above it (`ArrivalLands`). With empty streams no two aims outrank
each other, and two states of one device and clock are the same (`QuietAgrees`).

`ReceiverSessionsProofs`: `SessionsAreAccounted` (`SessionAccounted`), if operations on a receiver
do not overlap (`concurrent`) and a cancelled heartbeat ends within the wait for it (`late`).
`SessionAccounted` speaks of the state at rest and says nothing of the middle of an operation, so
`SessInv` says how far each actor has come. `HandleOK`: the handle is that of a task that runs on,
every other task is over or is awaited by the stop that cancelled it. `ChainOK`: a task in
`handle_session_lost` has cleared the maps it is past, unless a start is putting its session there.
`StopOK`: what `stop_session` has removed when, where a stop that finds no session knows that the
maps are clear or that a task is clearing them. `RestOK` is what they leave at rest. Four lemmas say
which steps preserve all of this (`FreeStep`, `StillStep` for steps that touch neither maps nor
tasks, and their like for the others), one lemma per action cites them.

`ReceiverTrustProofs`: `RevocationsAreKept` is unconditional: in every window, `gap` included, the
types, `RevocationIsDurable`, `OneDelivery` and `AcknowledgedIsTold` hold, from `RevInv`
(`RevokeStored`: `revoke_device` writes memory after its transaction only; `FlightHeld`: the flight
of the outbox has one holder; `ToldFirst`). `TrustIsAccounted` (`TrustAccounted`) adds `PairInv`
without `gap`: where `confirm_pairing` is, the journal says so (`JournalFollows`); it has a token
where it uses one; and outside the window between journal and row a confirmed pairing is stored,
listed as unrecovered or revoked (`ConfirmedRecorded`).

`PlaybackQueuesProofs`: `QueueHealsAlways` (`QueueHeals`) and `PlaceIsKept` (`PlaceKept`), without a
hypothesis on faults or overlaps. Both properties speak of the end of a request, of the next start, or of
rest, so `QueuesInv` says what is known on the way there. A request that is `alone` knows at each
of its awaits (`AloneKnows`) that its queue is the active one, that the engine has it or what is left
`todo` will install it, and on which track; what one has ended with is healed until something
else moves (`Healed`). A restart knows the place it is going to (`PlaceOK`). Two more conjuncts
tie the row to the engine although different tasks write them: the last event on its way to the
projection, or else its last projection, names the engine's track (`TailOK`), and the track in the row is
the one that was projected last or a write that corrects it is coming (`RowOK`, `Coming`), also from
a session request that is past its own write. A step either belongs to one request (`StepKeeps`), begins
or refuses one (`BeginKeeps`, `RefusalKeeps`) or makes two overlap, after which neither is alone
(`OverlapKeeps`). Assumed of the constants: room for one track, lists within the bound, `None` no
track, row or event.

`ServicesProofs`: `JobsRunOnce` (`OneRunner`), under dropped requests and failing statements.
`JobsInv` relates the four places that know of a job, row, token, worker and supervisor: a job nobody
claimed never ran, what the supervisor claimed is nobody else's until it is spawned, the token is
that of the worker, and whoever stopped a worker has its row still to change, or was cut off and is
counted in `abandoned` (`StopIsCarried`). A module switch has no live worker but the one of
its current token. `BackupsAreWorthHaving` (`BackupsServe`). `BackupsInv`: what names a track names
one of the library, a backup that nothing disturbed holds the tables it has read so far as they
are, and of the files the cycle still has to judge the least has every file to spare below it, so
the newest is never among those it removes. `PresenceIsTrue` (`PresenceTrue`). `PresInv` relates a
record to the times it was refreshed at (`RecordOK`) and, for the peers outside `astray`, follows what is on its way to the bridge
(`Follow`): the last event about a peer that was sent, or that a thread has formed and not sent,
mirrors the record, or was overtaken and is marked; and when no such event is on its way the entry is
right already, or the snapshot in hand, the one a lagging bridge will take, or the sweep will make
it right. `Loss` shows that a channel that drops its oldest events keeps this, `SendOne` that a
thread does that sends late. A run of the invariant with two peers and a channel of one had shown
that `astray` was too small: the snapshot could write the entry of a peer whose `Offline` had been
lost after it was taken. `OutputsAreTrue` (`OutputsAgree`). `OutInv` says what a request that goes
statement by statement knows of its chain or room: of a chain whose positions are not `jumbled` at most
one request places links, its new position is free (`NextLinkFree`), or its list covers every link
and those it is past have their place (`Sorting`); what an edit will write differs from the row only
in what it was given (`EditAsk`); and a request nobody disturbed has done what it no longer has to do
(`Achieved`). Most steps place no link and write no room: `StepKeeps`, `LinksLeft` and `RoomsLeft` say
what remains to be shown of them.

`ServicesProofs`: `TokensAreEnded` (`TokensEnd`). `PairingInv` follows a refresh
token from the moment its number is drawn: what a request is going to store is in nobody's hands
and was never spent (`ComingIsNew`), so an exchanged one cannot come back; every stored token of a
removed device was on its way when the device was revoked (`GoneOK`). `AccessIsCurrent`
(`AccessFollows`). `AccInv` adds what a login or validation knows at each stage and that an ended token
is on nobody's way into the cache (`EndedOK`), but for the overlaps of section 10.

`CatalogProofs`: `ImportsAreWhole` (`ImportsWhole`) and `ContractIsKept` (`ImplementsContract`), if
no two commits that overlap copy to one name (`collide`). `ImpInv` says what each request knows: it
holds the lock of its session (`LockOK`), a staging file is cut off only while it is written or
after that broke off, a commit under way has everything that was acknowledged and at each step finds
the library and the rows under its names as its last step left them, each name copied, being filled or
left to copy (`CommitOK`), which rests on overlapping commits having no name in common (`Apart`). For the
contract every initial state maps to one of `ImportContract`, and each action, under `ImpInv`, to one of
its actions or to a stutter: an upload is accepted when its answer is given, a commit happens in
the step that marks the row, and everything before it is invisible.

`CatalogProofs`: `SettingsAreKept` (`SettingsKept`), for every way file and environment can meet. `SettingsInv`: a request that is alone read the
file as it is and has its change in hand until the file holds it (`EditOK`), a torn file is being
written or spoilt (`TornOK`), the process runs on what its start read (`StartOK`), and the number
of times a play was posted follows the stage of its submission (`PlayOK`). `StreamsAreHonest`
(`StreamsHonest`). `StreamInv`: the body that is being sent lies inside the file that was opened, only
a request with its own ffmpeg holds a permit, process ids are given once, so a reader never mistakes
another's process for its own, and a playlist that is not whole is being written or marked as left
behind; the permits are counted by `HoldersMove`. TLC can only try the two pure functions on a few
values: `RangeIsNamed` proves of `parse_range`, for every size and offset, that it selects the
bytes the header names, and `DecisionKeepsToSetup` of `resolve_stream_decision`, for every rate, depth
and limit, that it keeps to the configuration and to the types of `Answers`. `PlaylistsAreTrue` (`PlaylistsAgree`). `PlInv` says of
each list (`ListOK`) that its positions are distinct and an entry stands after those answered before
its request began; that the position a request has read still comes after those (`PlaceOK`); that
the count is right, told to be wrong, or some request is about to correct it (`CountOK`); that what
an import found is in the list or to come, and its next position is free, as long as nobody else
changes the list (`BuildOK`); and that of updates that do not overlap one is under way at most,
with the text as it is in its hands (`TextOK`). `OneList` reduces a step of a request to its list,
`CallStep` a step that only moves the request to what it now knows. `LibraryIsHonest`
(`LibraryHonest`), if a pass does not meet a second change of the mount (`flap`); `HashesAreFresh` is
the half of it that needs no such hypothesis. `LibraryInv` rests on versions that never come back
(`Numbered`): what a pass is going to write under a fingerprint that is still the file's is the
hash of the file's bytes (`TaskOK`). A task that has looked at the root (`SeenOK`) either looked at
the mounted volume and saw all of it, but for a file that appeared since, after which the mount
stands; or saw nothing, and then it has no row to delete unless the device of the bare directory
was trusted, which `misled` tells.

Only model-checked: liveness (`WholeUploadSettles`, `Quiesces`, `LossIsNoticed`, `NobodyStuck`,
`OutboxDelivers`), which the prover does not handle. Every invariant and action property of the
runs that hold is proved, some under the hypotheses on disturbances that their theorem names.

## 12. What is not modelled

- Of the engine: the decoder process and the sinks, which are external and may fail at any step;
  texts, byte totals and the generation counter.
- Of uploads: the HTTP layer's parameter checks, which reject a request before it touches state;
  several uploads at once, which share nothing.
- Of playback sync: hand-off messages and Ping, the HTTP route that accepts a state without a
  sequence, the disabling of the module, the end of a track under a remote timeline, events after
  `flush_shutdown` (covered by the reserved block) and a clock that goes back.
- Of receivers: RTP, codecs, volumes, patches of a session, cryptography (what it can make fail is
  a refusal); the receiver itself is external and behaves as `scripts/receiver_sim.py` does.
- Of queues: volumes, positions, modes. Of the library: tags, artwork, metadata edits. Of imports:
  preflight and the cleanup of orphaned directories. Of streaming: HLS segments and radio proxies. Of playlists: share codes. Of settings: all but
  one setting of each kind, and plays without a `client_event_id`, which nothing deduplicates. Of
  jobs: what a job does, priorities. Of device pairing: the pairing registry (external), permissions
  and the idempotency store, which no play reads. Of presence: sockets and signatures. Of outputs:
  volumes and names. Of backups: the archive format, owners and ratings.
- The HTTP API as such, migrations, searches, statistics, tag reading, the update
  check, Home Assistant, OpenSubsonic but its streams, M3U files and the terminal UI: input, output and
  formatting around the components above.
