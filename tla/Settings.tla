------------------------------ MODULE Settings ------------------------------
(***************************************************************************)
(* The server's settings (config.json, the environment, the configuration  *)
(* read at startup) and the scrobbling of plays that lives by them.        *)
(*                                                                         *)
(* Every handler that changes a setting reads the whole file, changes a    *)
(* field and writes the whole file back; std::fs::write first truncates    *)
(* it, so others can read it torn, and a reader that cannot parse it falls *)
(* back on the configuration of the startup.  Handlers run in parallel.    *)
(*                                                                         *)
(* A configuration keeps one setting of each kind: a profile that needs a  *)
(* restart and that its variable overrides; the switch of scrobbling,      *)
(* without a variable here; the token of each provider, read from the file *)
(* at every play, of which one has a variable that the file overrides; and *)
(* opensubsonic, which only a variable sets and the file does not store.   *)
(***************************************************************************)
EXTENDS Naturals

CONSTANTS
  Profiles,    \* values of resource_profile
  Default,     \* the one a server without any setting has
  Unset,       \* a variable the environment does not hold
  Editors,     \* requests that change settings
  Events,      \* client_event_ids of plays
  Lengths,     \* durations of tracks in ms, 0 for an unknown one
  Listens,     \* durations a client may report
  MaxSaves,    \* bound: changes of a setting
  MaxStarts    \* bound: restarts of the server

ASSUME SettingsAssumption ==
  /\ Default \in Profiles /\ Unset \notin Profiles
  /\ Lengths \subseteq Nat /\ Listens \subseteq Nat
  /\ MaxSaves \in Nat /\ MaxStarts \in Nat

VARIABLES
  env,          \* the environment of the process
  cfgFile,      \* config.json: absent, torn or whole, and its fields
  startup,      \* state.config, as of the start of the process
  editor,       \* requests under way: the configuration they will write
  plays,        \* client_event_id -> its row of play_history
  submits,      \* <<event, provider>> -> the spawned submission
  saves,        \* changes so far
  starts,       \* restarts so far
  want,         \* ghost: the settings as acknowledged to the user
  due,          \* ghost: what they make of the configuration at the start
  spoilt,       \* ghost: two changes overlapped, or a write broke off
  posts,        \* ghost: <<event, provider>> -> submissions received
  accepted,     \* ghost: events ListenBrainz answered with success
  unwanted      \* ghost: events submitted against the acknowledged settings

disk == <<env, cfgFile, startup>>
scrobbling == <<plays, submits, posts, accepted, unwanted>>
setVars == <<disk, editor, scrobbling, saves, starts, want, due, spoilt>>

Providers == {"listenbrainz", "lastfm"}
Fields == {"profile", "scrobble", "listenbrainz", "lastfm", "opensubsonic"}

\* A token: none, the one of the environment, or one the user gave.
Tokens == {"none", "environment", "user"}
Either(a, b) == IF a = "none" THEN b ELSE a

NoEdit == [pc |-> "idle", cfg |-> "none", change |-> "none", alone |-> TRUE]
NoPlay == [row |-> FALSE, scrobbled |-> FALSE, todo |-> FALSE]

-----------------------------------------------------------------------------
(* Reading the configuration.                                              *)

\* Mutant: the environment has the first word and not the last one.
EnvFirst(c) == c

apply_env_overrides(c) ==
  IF env.profile = Unset THEN c ELSE [c EXCEPT !.profile = env.profile]

FromVariables ==
  [profile |-> Default, scrobble |-> FALSE, listenbrainz |-> env.listenbrainz,
   lastfm |-> "none", opensubsonic |-> env.opensubsonic]

\* A file that was truncated and not written yet does not parse.
Parses == cfgFile.state = "whole"

\* A token of the file wins over the environment's, a missing one does not; everything
\* else is the file's.
load_file_overrides(c) ==
  IF ~Parses THEN c
  ELSE [cfgFile.cfg EXCEPT !.listenbrainz = Either(@, c.listenbrainz),
                           !.lastfm = Either(@, c.lastfm)]

from_env == apply_env_overrides(load_file_overrides(FromVariables))

\* Mutant: the settings of the startup are taken for the current ones.
CurrentAtStartup == startup

\* read_file_config().unwrap_or_else(|| state.config.clone())
Current == IF Parses THEN cfgFile.cfg ELSE startup

\* Mutant: what the environment overrides is told to wait for a restart.
PendingAnyway == {f \in {"profile", "scrobble"} : Parses /\ cfgFile.cfg[f] # startup[f]}

\* What get_settings_handler reports as waiting for a restart.
pending_restart_fields ==
  {f \in {"profile", "scrobble"} :
     /\ Parses
     /\ cfgFile.cfg[f] # startup[f]
     /\ f = "profile" => env.profile = Unset}

SetInit ==
  /\ env \in [profile : {Unset} \union Profiles, listenbrainz : {"none", "environment"},
              opensubsonic : BOOLEAN]
  /\ cfgFile = [state |-> "absent", cfg |-> FromVariables]
  /\ startup = from_env
  /\ editor = [h \in Editors |-> NoEdit]
  /\ plays = [e \in Events |-> NoPlay]
  /\ submits = [x \in Events \X Providers |-> "none"]
  /\ saves = 0 /\ starts = 0
  /\ want = startup /\ due = startup /\ spoilt = FALSE
  /\ posts = [x \in Events \X Providers |-> 0]
  /\ accepted = {} /\ unwanted = {}

-----------------------------------------------------------------------------
(* Changing a setting.                                                     *)

Changes == [field : {"profile"}, to : Profiles]
             \union [field : {"scrobble"}, to : {"off", "on"}]
             \union [field : Providers, to : {"none", "user"}]

\* Connecting a provider also switches scrobbling on.
Changed(c, ch) ==
  CASE ch.field = "profile" -> [c EXCEPT !.profile = ch.to]
    [] ch.field = "scrobble" -> [c EXCEPT !.scrobble = (ch.to = "on")]
    [] OTHER -> [[c EXCEPT ![ch.field] = ch.to] EXCEPT !.scrobble = @ \/ ch.to = "user"]

Arrive(h, ch) ==
  LET others == {o \in Editors \ {h} : editor[o].pc # "idle"}
  IN /\ editor[h].pc = "idle" /\ saves < MaxSaves
     /\ saves' = saves + 1
     /\ editor' = [o \in Editors |->
          IF o = h THEN [pc |-> "save", cfg |-> Changed(Current, ch), change |-> ch,
                         alone |-> others = {}]
          ELSE IF o \in others THEN [editor[o] EXCEPT !.alone = FALSE] ELSE editor[o]]
     /\ spoilt' = (spoilt \/ others # {})
     /\ UNCHANGED <<disk, scrobbling, starts, want, due>>

(* The body is validated before anything is read: only its accepted        *)
(* changes are requests here.                                              *)
update_settings_handler(h) ==
  \E ch \in Changes : ch.field \in {"profile", "scrobble"} /\ Arrive(h, ch)

\* ListenBrainz has validated the token; the validation precedes the read.
set_listenbrainz_handler(h) == Arrive(h, [field |-> "listenbrainz", to |-> "user"])

set_lastfm_handler(h) == Arrive(h, [field |-> "lastfm", to |-> "user"])

\* A token of the environment cannot be disconnected.
disconnect_listenbrainz_handler(h) ==
  env.listenbrainz = "none" /\ Arrive(h, [field |-> "listenbrainz", to |-> "none"])

disconnect_lastfm_handler(h) == Arrive(h, [field |-> "lastfm", to |-> "none"])

\* Serializing a configuration leaves opensubsonic_enabled out; it is read back as false.
Serialized(c) == [c EXCEPT !.opensubsonic = FALSE]

\* save_to_file, first half: the file is truncated.
Truncate(h) ==
  /\ editor[h].pc = "save"
  /\ editor' = [editor EXCEPT ![h].pc = "write"]
  /\ cfgFile' = [cfgFile EXCEPT !.state = "torn"]
  /\ UNCHANGED <<env, startup, scrobbling, saves, starts, want, due, spoilt>>

(* Second half, and the answer; a change made alone is now the user's.  A  *)
(* write that fails leaves the file torn and answers SAVE_ERROR.           *)
save_to_file(h, ok) ==
  LET e == editor[h]
      base == IF spoilt THEN e.cfg ELSE want
  IN /\ e.pc = "write"
     /\ editor' = [editor EXCEPT ![h] = NoEdit]
     /\ cfgFile' = IF ok THEN [state |-> "whole", cfg |-> Serialized(e.cfg)] ELSE cfgFile
     /\ want' = IF ok /\ e.alone THEN Changed(base, e.change) ELSE want
     /\ spoilt' = IF ok /\ e.alone THEN FALSE ELSE (spoilt \/ ~ok)
     /\ UNCHANGED <<env, startup, scrobbling, saves, starts, due>>

-----------------------------------------------------------------------------
(* Plays.                                                                  *)

threshold(d) ==
  IF d = 0 THEN 30000 ELSE IF d \div 2 < 240000 THEN d \div 2 ELSE 240000

\* Mutant: the answer is dispatched whether the row is new or not.
RecordAgain(e, d, l) ==
  /\ l >= threshold(d)
  /\ plays' = [plays EXCEPT ![e].row = TRUE, ![e].todo = TRUE]

\* The unique index on client_event_id makes the row new once.
record_play(e, d, l) ==
  /\ l >= threshold(d)
  /\ ~plays[e].row
  /\ plays' = [plays EXCEPT ![e].row = TRUE, ![e].todo = TRUE]

Record(e) ==
  /\ \E d \in Lengths, l \in Listens : record_play(e, d, l)
  /\ UNCHANGED <<disk, editor, submits, posts, accepted, unwanted, saves, starts, want,
                 due, spoilt>>

\* Mutant: the switch is the one of the startup.
EnabledAtStartup == startup.scrobble

scrobble_enabled == Current.scrobble

\* The tokens a play is submitted with: the file's, else the startup's.
Token(p) == Either(Current[p], startup[p])

Wanted(p) == want.scrobble /\ Token(p) = Either(want[p], startup[p])

(* The rest of the handler: one task for each provider with a token.       *)
record_play_handler(e) ==
  LET to == {p \in Providers : scrobble_enabled /\ Token(p) # "none"}
  IN /\ plays[e].todo
     /\ plays' = [plays EXCEPT ![e].todo = FALSE]
     /\ submits' = [x \in DOMAIN submits |->
          IF x[1] = e /\ x[2] \in to THEN "post" ELSE submits[x]]
     /\ unwanted' = IF ~spoilt /\ cfgFile.state # "torn" /\ \E p \in to : ~Wanted(p)
                    THEN unwanted \union {e} ELSE unwanted
     /\ UNCHANGED <<disk, editor, posts, accepted, saves, starts, want, due, spoilt>>

(* The request of a task: taken and answered, taken with the answer lost,  *)
(* or refused; the track may also be gone, or the key missing.             *)
Post(e, p, answer) ==
  /\ submits[<<e, p>>] = "post" /\ posts[<<e, p>>] < 2
  /\ submits' = [submits EXCEPT ![<<e, p>>] = answer]
  /\ posts' = IF answer \in {"success", "lost"} THEN [posts EXCEPT ![<<e, p>>] = @ + 1]
              ELSE posts
  /\ accepted' = IF answer = "success" /\ p = "listenbrainz" THEN accepted \union {e}
                 ELSE accepted
  /\ UNCHANGED <<disk, editor, plays, unwanted, saves, starts, want, due, spoilt>>

\* Mutant: any answer of ListenBrainz marks the play.
MarkAnswered(e) == submits[<<e, "listenbrainz">>] \in {"success", "refused"}

Accepted(e) == submits[<<e, "listenbrainz">>] = "success"

submit_listenbrainz(e) == \E a \in {"success", "lost", "refused"} : Post(e, "listenbrainz", a)

\* Last.fm's answer is only logged.
submit_lastfm(e) == \E a \in {"lost", "refused"} : Post(e, "lastfm", a)

mark_scrobbled(e) ==
  /\ Accepted(e)
  /\ plays' = [plays EXCEPT ![e].scrobbled = TRUE]
  /\ submits' = [submits EXCEPT ![<<e, "listenbrainz">>] = "done"]
  /\ UNCHANGED <<disk, editor, posts, accepted, unwanted, saves, starts, want, due, spoilt>>

-----------------------------------------------------------------------------
(* The process stops, requests and tasks are lost, and it starts again.    *)

StartServer ==
  /\ starts < MaxStarts /\ starts' = starts + 1
  /\ startup' = from_env
  /\ due' = IF spoilt \/ cfgFile.state = "torn" THEN startup'
            ELSE [f \in Fields |->
                    CASE f = "profile" ->
                           IF env.profile = Unset THEN want.profile ELSE env.profile
                      [] f = "listenbrainz" -> Either(want.listenbrainz, env.listenbrainz)
                      [] f = "opensubsonic" -> cfgFile.state = "absent" /\ env.opensubsonic
                      [] OTHER -> want[f]]
  /\ spoilt' = (spoilt \/ cfgFile.state = "torn")
  /\ editor' = [h \in Editors |-> NoEdit]
  /\ submits' = [x \in DOMAIN submits |-> "none"]
  /\ plays' = [e \in Events |-> [plays[e] EXCEPT !.todo = FALSE]]
  /\ UNCHANGED <<env, cfgFile, posts, accepted, unwanted, saves, want>>

SetNext ==
  \/ \E h \in Editors :
       \/ update_settings_handler(h)
       \/ set_listenbrainz_handler(h) \/ set_lastfm_handler(h)
       \/ disconnect_listenbrainz_handler(h) \/ disconnect_lastfm_handler(h)
       \/ Truncate(h)
       \/ \E ok \in BOOLEAN : save_to_file(h, ok)
  \/ \E e \in Events :
       \/ Record(e) \/ record_play_handler(e)
       \/ submit_listenbrainz(e) \/ submit_lastfm(e) \/ mark_scrobbled(e)
  \/ StartServer

SetSpec == SetInit /\ [][SetNext]_setVars

-----------------------------------------------------------------------------
(* Properties.                                                             *)

(* The file holds every setting a user can change as it was acknowledged,  *)
(* and none is lost to a later change or a restart, unless two changes     *)
(* overlapped or a write broke off; the next change made alone ends that   *)
(* state.                                                                  *)
SettingsStand ==
  (~spoilt /\ cfgFile.state # "torn") =>
    \A f \in Fields \ {"opensubsonic"} : Current[f] = want[f]

(* The process starts with the acknowledged settings under what the code   *)
(* makes of the environment, kind by kind: the variable of the profile     *)
(* wins over the file; a token the user gave wins over the variable, which *)
(* counts when there is none; opensubsonic is the variable's until the     *)
(* first save and off ever after.                                          *)
RestartApplies == \A f \in Fields : startup[f] = due[f]

(* Of the profile and the switch, the fields the settings page reports as  *)
(* pending are those a restart would change; tokens and opensubsonic are   *)
(* none of the fields it compares.                                         *)
RestartIsTold ==
  cfgFile.state # "torn" =>
    pending_restart_fields = {f \in {"profile", "scrobble"} : from_env[f] # startup[f]}

(* However often a client repeats a play, and however the server restarts, *)
(* a provider receives it at most once, and a play is shown as scrobbled   *)
(* only if ListenBrainz took it.                                           *)
ScrobbledOnce ==
  /\ \A x \in DOMAIN posts : posts[x] <= 1
  /\ \A e \in Events : plays[e].scrobbled => e \in accepted

(* A play is submitted as the settings stand when it is recorded, also     *)
(* when they changed since the server started, and with the token they     *)
(* name; only a token of the startup outlives its disconnection.           *)
ScrobblesAsSet == unwanted = {}

(* "env vars override", as the comment over load_file_overrides says of    *)
(* every variable.  Not so in the code: a save turns opensubsonic off and  *)
(* keeps a token the user gave.                                            *)
VariablesOverride ==
  /\ env.profile # Unset => startup.profile = env.profile
  /\ env.listenbrainz # "none" => startup.listenbrainz = env.listenbrainz
  /\ env.opensubsonic => startup.opensubsonic

(* Settings are kept: an acknowledged change stands, the next start uses   *)
(* it with the environment as RestartApplies says, the settings page       *)
(* announces what of the fields it compares that start will change, and    *)
(* plays reach the providers as the settings say, at most once.            *)
SettingsKept == SettingsStand /\ RestartApplies /\ RestartIsTold /\ ScrobbledOnce /\ ScrobblesAsSet
=============================================================================
