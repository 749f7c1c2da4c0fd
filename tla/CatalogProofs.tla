------------------------------ MODULE CatalogProofs ------------------------------
(***************************************************************************)
(* What holds of the catalogue and its settings, for any number of         *)
(* requests, passes and restarts.  Settings: an acknowledged setting       *)
(* stands, the next start joins it with the environment kind by kind, the  *)
(* page announces what that start will change of the fields it compares,   *)
(* and a play reaches a provider once.  Streaming: an answer is what its   *)
(* headers say, and a decision keeps to the configuration.  Playlists,     *)
(* however requests interleave and are dropped: their count, order,        *)
(* imports and texts are those of the requests that were answered.         *)
(* Library: no outage deletes rows of files that exist, and a hash is that *)
(* of the bytes its fingerprint stands for.                                *)
(* Imports: as long as no two commits that overlap copy to the same name,  *)
(* an import changes the library as a whole or not at all, but for a       *)
(* content whose upload once broke off and for commits cut off or failing  *)
(* as they copy, and the sessions implement the contract with the client.  *)
(***************************************************************************)
EXTENDS Imports, LibraryScan, Playlists, Settings, Streaming, FiniteSetTheorems, SequenceTheorems, WellFoundedInduction, TLAPS

-----------------------------------------------------------------------------
(***************************************************************************)
(* Settings                                                                *)
(***************************************************************************)
\* The inductive invariant.

Configs == [profile : Profiles, scrobble : BOOLEAN, listenbrainz : Tokens, lastfm : Tokens,
            opensubsonic : BOOLEAN]
Edits == [pc : {"idle", "save", "write"}, cfg : Configs \union {"none"},
          change : Changes \union {"none"}, alone : BOOLEAN]
Stages == {"none", "post", "success", "lost", "refused", "done"}

ConfigTypes ==
  /\ env \in [profile : {Unset} \union Profiles, listenbrainz : {"none", "environment"},
              opensubsonic : BOOLEAN]
  /\ cfgFile \in [state : {"absent", "torn", "whole"}, cfg : Configs]
  /\ startup \in Configs /\ want \in Configs /\ spoilt \in BOOLEAN
  /\ editor \in [Editors -> Edits]

PlayTypes ==
  /\ plays \in [Events -> [row : BOOLEAN, scrobbled : BOOLEAN, todo : BOOLEAN]]
  /\ submits \in [Events \X Providers -> Stages]
  /\ posts \in [Events \X Providers -> Nat]

Torn == cfgFile.state = "torn"
Busy(h) == editor[h].pc # "idle"

\* The same settings, as far as a file can hold them.
SameStored(c, d) == Serialized(c) = Serialized(d)

\* A request under way has its change in hand; made alone, it makes the change to the settings
\* as the user knows them, and one that is not alone has spoilt them.
EditOK(h) ==
  LET e == editor[h]
  IN Busy(h) =>
       /\ e.cfg \in Configs /\ e.change \in Changes
       /\ Changed(e.cfg, e.change) = e.cfg
       /\ e.alone => \A o \in Editors : o # h => ~Busy(o)
       /\ ~e.alone => spoilt
       /\ ~spoilt => SameStored(e.cfg, Changed(want, e.change))

\* A torn file is being written, or nobody relies on it.
TornOK == Torn => spoilt \/ \E h \in Editors : editor[h].pc = "write"

\* The file is what the user knows.
FileStands == ~spoilt /\ ~Torn => SameStored(Current, want)

\* The process started with what the environment and, without a file, nothing else says; a
\* file says nothing of opensubsonic.
StartOK ==
  /\ env.profile # Unset => startup.profile = env.profile
  /\ cfgFile.state = "whole" => ~cfgFile.cfg.opensubsonic
  /\ cfgFile.state = "absent" => startup = from_env

ConfigInv ==
  /\ ConfigTypes /\ (\A h \in Editors : EditOK(h)) /\ TornOK
  /\ FileStands /\ StartOK /\ RestartApplies

\* A play is recorded once, handed to its providers once, and asked of each once.
PlayOK(e) ==
  /\ ~plays[e].row => ~plays[e].todo
  /\ \A p \in Providers :
       /\ ~plays[e].row \/ plays[e].todo => posts[<<e, p>>] = 0 /\ submits[<<e, p>>] # "post"
       /\ submits[<<e, p>>] = "post" => posts[<<e, p>>] = 0
       /\ posts[<<e, p>>] <= 1
  /\ submits[<<e, "listenbrainz">>] = "success" => e \in accepted
  /\ plays[e].scrobbled => e \in accepted

PlayInv == PlayTypes /\ (\A e \in Events : PlayOK(e)) /\ ScrobblesAsSet

SettingsInv == ConfigInv /\ PlayInv

---------------------------------------------------------------------------
\* What the operators return

\* Two configurations with the same fields are the same.
LEMMA SameFields ==
  ASSUME NEW c \in Configs, NEW d \in Configs, \A f \in Fields : c[f] = d[f]
  PROVE  c = d
  <1>1. /\ c.profile = d.profile /\ c.scrobble = d.scrobble
        /\ c.listenbrainz = d.listenbrainz /\ c.lastfm = d.lastfm
        /\ c.opensubsonic = d.opensubsonic
    BY DEF Fields
  <1> QED BY <1>1 DEF Configs

\* A provider is connected or disconnected, and a connection switches scrobbling on.
Given == {"none", "user"}
Connected(c, p, b) == [[c EXCEPT ![p] = b] EXCEPT !.scrobble = @ \/ b = "user"]

LEMMA ProviderSet ==
  ASSUME NEW c \in Configs, NEW p \in Providers, NEW b \in Given,
         NEW d, d = Connected(c, p, b)
  PROVE  /\ d \in Configs /\ d[p] = b /\ (d.scrobble <=> c.scrobble \/ b = "user")
         /\ d.profile = c.profile /\ d.opensubsonic = c.opensubsonic
         /\ \A q \in Providers \ {p} : d[q] = c[q]
  <1> DEFINE x == [c EXCEPT ![p] = b]
  <1>1. /\ x \in Configs /\ x[p] = b /\ x.scrobble = c.scrobble
        /\ x.profile = c.profile /\ x.opensubsonic = c.opensubsonic
        /\ \A q \in Providers \ {p} : x[q] = c[q]
    BY DEF Configs, Providers, Tokens, Given
  <1> DEFINE s == x.scrobble \/ b = "user"
  <1>2. d = [x EXCEPT !.scrobble = s]
    BY Zenon DEF Connected
  <1> HIDE DEF x
  <1>3. s \in BOOLEAN
    BY <1>1
  <1>5. s <=> c.scrobble \/ b = "user"
    BY <1>1
  <1> HIDE DEF s
  <1>4. /\ d \in Configs /\ d.scrobble = s /\ d.profile = x.profile
        /\ d.listenbrainz = x.listenbrainz /\ d.lastfm = x.lastfm
        /\ d.opensubsonic = x.opensubsonic
    BY <1>1, <1>2, <1>3 DEF Configs
  <1> QED BY <1>1, <1>4, <1>5 DEF Providers

LEMMA ChangedType ==
  ASSUME NEW c \in Configs, NEW ch \in Changes
  PROVE  Changed(c, ch) \in Configs /\ Changed(Changed(c, ch), ch) = Changed(c, ch)
  <1>1. CASE ch.field = "profile"
    <2>1. ch.to \in Profiles
      BY <1>1 DEF Changes, Providers
    <2>2. /\ Changed(c, ch) = [c EXCEPT !.profile = ch.to]
          /\ Changed(Changed(c, ch), ch) = [[c EXCEPT !.profile = ch.to] EXCEPT !.profile = ch.to]
      BY <1>1 DEF Changed
    <2> QED BY <2>1, <2>2 DEF Configs
  <1>2. CASE ch.field = "scrobble"
    <2> DEFINE on == ch.to = "on"
    <2>1. on \in BOOLEAN
      OBVIOUS
    <2>2. /\ Changed(c, ch) = [c EXCEPT !.scrobble = on]
          /\ Changed(Changed(c, ch), ch) = [[c EXCEPT !.scrobble = on] EXCEPT !.scrobble = on]
      BY <1>2, Zenon DEF Changed
    <2> HIDE DEF on
    <2> QED BY <2>1, <2>2 DEF Configs
  <1>3. CASE ch.field \in Providers
    <2>1. ch.to \in Given
      BY <1>3 DEF Changes, Providers, Given
    <2> DEFINE d == Changed(c, ch)
    <2> DEFINE e == Changed(d, ch)
    <2>2. d = Connected(c, ch.field, ch.to) /\ e = Connected(d, ch.field, ch.to)
      BY <1>3 DEF Changed, Connected, Providers
    <2> HIDE DEF d, e
    <2>3. /\ d \in Configs /\ d[ch.field] = ch.to /\ (d.scrobble <=> c.scrobble \/ ch.to = "user")
          /\ d.profile = c.profile /\ d.opensubsonic = c.opensubsonic
          /\ \A q \in Providers \ {ch.field} : d[q] = c[q]
      BY <1>3, <2>1, <2>2, ProviderSet
    <2>4. /\ e \in Configs /\ e[ch.field] = ch.to /\ (e.scrobble <=> d.scrobble \/ ch.to = "user")
          /\ e.profile = d.profile /\ e.opensubsonic = d.opensubsonic
          /\ \A q \in Providers \ {ch.field} : e[q] = d[q]
      BY <1>3, <2>1, <2>2, <2>3, ProviderSet
    <2>5. e.scrobble = d.scrobble
      BY <2>1, <2>3, <2>4 DEF Configs
    <2>6. e = d
      BY <2>3, <2>4, <2>5, SameFields DEF Fields, Providers
    <2> QED BY <2>3, <2>6 DEF d, e
  <1> QED BY <1>1, <1>2, <1>3 DEF Changes, Providers

\* save_to_file stores every field but opensubsonic.
LEMMA SerializedKeeps ==
  ASSUME NEW c \in Configs
  PROVE  /\ Serialized(c) \in Configs /\ ~Serialized(c).opensubsonic
         /\ \A f \in Fields \ {"opensubsonic"} : Serialized(c)[f] = c[f]
  BY DEF Serialized, Configs, Fields

LEMMA SerializedOnce ==
  ASSUME NEW c \in Configs
  PROVE  SameStored(Serialized(c), c)
  BY DEF SameStored, Serialized, Configs

LEMMA SameSettings ==
  ASSUME NEW c \in Configs, NEW d \in Configs, SameStored(c, d)
  PROVE  /\ \A f \in Fields \ {"opensubsonic"} : c[f] = d[f]
         /\ c.profile = d.profile /\ c.scrobble = d.scrobble
         /\ c.listenbrainz = d.listenbrainz /\ c.lastfm = d.lastfm
  <1>1. \A f \in Fields \ {"opensubsonic"} : c[f] = d[f]
    BY SerializedKeeps DEF SameStored
  <1> QED BY <1>1 DEF Fields

\* A change reads and writes nothing of opensubsonic.
LEMMA ChangedSame ==
  ASSUME NEW c \in Configs, NEW d \in Configs, SameStored(c, d), NEW ch \in Changes
  PROVE  SameStored(Changed(c, ch), Changed(d, ch))
  <1>1. /\ c.profile = d.profile /\ c.scrobble = d.scrobble
        /\ c.listenbrainz = d.listenbrainz /\ c.lastfm = d.lastfm
    BY SameSettings
  <1> DEFINE x == Changed(c, ch)
  <1> DEFINE y == Changed(d, ch)
  <1>2. x \in Configs /\ y \in Configs
    BY ChangedType
  <1>3. /\ x.profile = y.profile /\ x.scrobble = y.scrobble
        /\ x.listenbrainz = y.listenbrainz /\ x.lastfm = y.lastfm
    <2>1. CASE ch.field = "profile"
      <3>1. x = [c EXCEPT !.profile = ch.to] /\ y = [d EXCEPT !.profile = ch.to]
        BY <2>1 DEF Changed
      <3> QED BY <1>1, <3>1 DEF Configs
    <2>2. CASE ch.field = "scrobble"
      <3> DEFINE on == ch.to = "on"
      <3>1. x = [c EXCEPT !.scrobble = on] /\ y = [d EXCEPT !.scrobble = on]
        BY <2>2, Zenon DEF Changed
      <3> HIDE DEF on, x, y
      <3> QED BY <1>1, <3>1 DEF Configs
    <2>3. CASE ch.field \in Providers
      <3>1. x = Connected(c, ch.field, ch.to) /\ y = Connected(d, ch.field, ch.to)
        BY <2>3 DEF Changed, Connected, Providers
      <3>2. ch.to \in Given
        BY <2>3 DEF Changes, Providers, Given
      <3> HIDE DEF x, y
      <3>3. /\ x[ch.field] = ch.to /\ (x.scrobble <=> c.scrobble \/ ch.to = "user")
            /\ x.profile = c.profile /\ \A q \in Providers \ {ch.field} : x[q] = c[q]
        BY <2>3, <3>1, <3>2, ProviderSet
      <3>4. /\ y[ch.field] = ch.to /\ (y.scrobble <=> d.scrobble \/ ch.to = "user")
            /\ y.profile = d.profile /\ \A q \in Providers \ {ch.field} : y[q] = d[q]
        BY <2>3, <3>1, <3>2, ProviderSet
      <3>5. x.scrobble = y.scrobble
        BY <1>1, <1>2, <3>3, <3>4 DEF Configs
      <3>6. \A q \in Providers : x[q] = y[q]
        <4>1. \A q \in Providers : c[q] = d[q]
          BY <1>1 DEF Providers
        <4> QED BY <3>3, <3>4, <4>1
      <3> QED BY <1>1, <3>3, <3>4, <3>5, <3>6 DEF Providers
    <2> QED BY <2>1, <2>2, <2>3 DEF Changes, Providers
  <1> HIDE DEF x, y
  <1>4. Serialized(x) \in Configs /\ Serialized(y) \in Configs
        /\ \A f \in Fields : Serialized(x)[f] = Serialized(y)[f]
    <2>1. ASSUME NEW f \in Fields \ {"opensubsonic"} PROVE Serialized(x)[f] = Serialized(y)[f]
      <3>1. Serialized(x)[f] = x[f] /\ Serialized(y)[f] = y[f]
        BY <1>2, SerializedKeeps
      <3> QED BY <1>3, <3>1 DEF Fields
    <2>2. Serialized(x).opensubsonic = Serialized(y).opensubsonic
      BY <1>2 DEF Serialized, Configs
    <2> QED BY <1>2, <2>1, <2>2, SerializedKeeps
  <1>5. Serialized(x) = Serialized(y)
    BY <1>4, SameFields
  <1> QED BY <1>5 DEF SameStored, x, y

LEMMA FromEnvType ==
  ASSUME ConfigTypes
  PROVE  /\ FromVariables \in Configs /\ from_env \in Configs
         /\ env.profile # Unset => from_env.profile = env.profile
         /\ Parses =>
              /\ env.profile = Unset => from_env.profile = cfgFile.cfg.profile
              /\ from_env.scrobble = cfgFile.cfg.scrobble
              /\ from_env.listenbrainz = Either(cfgFile.cfg.listenbrainz, env.listenbrainz)
              /\ from_env.lastfm = cfgFile.cfg.lastfm
              /\ from_env.opensubsonic = cfgFile.cfg.opensubsonic
         /\ ~Parses => /\ from_env.listenbrainz = env.listenbrainz
                       /\ from_env.opensubsonic = env.opensubsonic
  <1>1. FromVariables \in Configs
    BY SettingsAssumption DEF ConfigTypes, FromVariables, Configs, Tokens
  <1> DEFINE c == load_file_overrides(FromVariables)
  <1>2. c \in Configs
    BY <1>1 DEF ConfigTypes, Configs, load_file_overrides, Either
  <1>3. from_env = IF env.profile = Unset THEN c ELSE [c EXCEPT !.profile = env.profile]
    BY DEF from_env, apply_env_overrides
  <1>4. env.profile # Unset => env.profile \in Profiles
    BY DEF ConfigTypes
  <1>5. Parses => /\ c.profile = cfgFile.cfg.profile /\ c.scrobble = cfgFile.cfg.scrobble
                  /\ c.listenbrainz = Either(cfgFile.cfg.listenbrainz, env.listenbrainz)
                  /\ c.lastfm = cfgFile.cfg.lastfm
                  /\ c.opensubsonic = cfgFile.cfg.opensubsonic
    <2> SUFFICES ASSUME Parses
        PROVE  /\ c.profile = cfgFile.cfg.profile /\ c.scrobble = cfgFile.cfg.scrobble
               /\ c.listenbrainz = Either(cfgFile.cfg.listenbrainz, env.listenbrainz)
               /\ c.lastfm = cfgFile.cfg.lastfm
               /\ c.opensubsonic = cfgFile.cfg.opensubsonic
      OBVIOUS
    <2>1. c = [cfgFile.cfg EXCEPT !.listenbrainz = Either(@, env.listenbrainz),
                                  !.lastfm = Either(@, "none")]
      BY DEF load_file_overrides, FromVariables
    <2>2. Either(cfgFile.cfg.lastfm, "none") = cfgFile.cfg.lastfm
      BY DEF Either
    <2> QED BY <2>1, <2>2 DEF ConfigTypes, Configs
  <1>6. ~Parses => c.listenbrainz = env.listenbrainz /\ c.opensubsonic = env.opensubsonic
    BY DEF load_file_overrides, FromVariables
  <1> HIDE DEF c
  <1>7. from_env \in Configs
    BY <1>2, <1>3, <1>4 DEF Configs
  <1>8. env.profile # Unset => from_env.profile = env.profile
    BY <1>2, <1>3 DEF Configs
  <1>9. /\ env.profile = Unset => from_env.profile = c.profile
        /\ from_env.scrobble = c.scrobble /\ from_env.listenbrainz = c.listenbrainz
        /\ from_env.lastfm = c.lastfm /\ from_env.opensubsonic = c.opensubsonic
    BY <1>2, <1>3 DEF Configs
  <1> QED BY <1>1, <1>5, <1>6, <1>7, <1>8, <1>9

LEMMA CurrentType == ConfigTypes => Current \in Configs
  BY DEF ConfigTypes, Current

---------------------------------------------------------------------------
\* Frames

LEMMA PlaysStay == ASSUME SettingsInv, UNCHANGED scrobbling PROVE PlayInv'
  BY DEF SettingsInv, PlayInv, PlayTypes, PlayOK, ScrobblesAsSet, scrobbling

LEMMA ConfigStays ==
  ASSUME SettingsInv, UNCHANGED <<disk, editor, want, due, spoilt>> PROVE ConfigInv'
  <1>1. env' = env /\ cfgFile' = cfgFile /\ startup' = startup
    BY DEF disk
  <1>2. Current' = Current /\ from_env' = from_env
    BY <1>1 DEF Current, Parses, from_env, apply_env_overrides, load_file_overrides, FromVariables
  <1>3. ConfigTypes' /\ TornOK' /\ FileStands' /\ StartOK' /\ RestartApplies'
    BY <1>1, <1>2
       DEF SettingsInv, ConfigInv, ConfigTypes, TornOK, Torn, FileStands, StartOK, RestartApplies
  <1>4. ASSUME NEW h \in Editors PROVE EditOK(h)'
    <2>1. EditOK(h)
      BY DEF SettingsInv, ConfigInv
    <2> QED BY <2>1 DEF EditOK, Busy
  <1> QED BY <1>3, <1>4 DEF ConfigInv

---------------------------------------------------------------------------
\* Changing a setting

LEMMA ArriveKeeps ==
  ASSUME SettingsInv, NEW h \in Editors, NEW ch \in Changes, Arrive(h, ch)
  PROVE  SettingsInv'
  <1> DEFINE others == {o \in Editors \ {h} : editor[o].pc # "idle"}
  <1> DEFINE e == [pc |-> "save", cfg |-> Changed(Current, ch), change |-> ch, alone |-> others = {}]
  <1>1. ConfigTypes /\ (\A o \in Editors : EditOK(o)) /\ TornOK /\ FileStands /\ StartOK
        /\ RestartApplies /\ ~Busy(h)
    BY DEF SettingsInv, ConfigInv, Arrive, Busy
  <1>2. env' = env /\ cfgFile' = cfgFile /\ startup' = startup /\ want' = want /\ due' = due
        /\ UNCHANGED scrobbling
    BY DEF Arrive, disk
  <1>3. Current' = Current /\ from_env' = from_env /\ Torn' = Torn
    BY <1>2
       DEF Current, Parses, from_env, apply_env_overrides, load_file_overrides, FromVariables, Torn
  <1>4. Current \in Configs
    BY <1>1, CurrentType
  <1>5. Changed(Current, ch) \in Configs
        /\ Changed(Changed(Current, ch), ch) = Changed(Current, ch)
    BY <1>4, ChangedType
  <1>6. /\ editor' = [o \in Editors |->
                         IF o = h THEN e
                         ELSE IF o \in others THEN [editor[o] EXCEPT !.alone = FALSE] ELSE editor[o]]
        /\ spoilt' = (spoilt \/ others # {})
    BY DEF Arrive
  <1>7. e \in Edits
    BY <1>5 DEF Edits
  <1>8. e.pc = "save" /\ e.cfg = Changed(Current, ch) /\ e.change = ch /\ e.alone = (others = {})
    OBVIOUS
  <1> HIDE DEF e
  <1>9. ASSUME NEW o \in Editors, o # h
        PROVE  /\ editor'[o] \in Edits
               /\ editor'[o].pc = editor[o].pc /\ editor'[o].cfg = editor[o].cfg
               /\ editor'[o].change = editor[o].change
               /\ o \in others => ~editor'[o].alone
    BY <1>1, <1>6, <1>9 DEF ConfigTypes, Edits
  <1>10. editor'[h] = e
    BY <1>6
  <1>11. spoilt' \in BOOLEAN /\ (spoilt => spoilt') /\ (others # {} => spoilt')
         /\ (~spoilt' => ~spoilt /\ others = {})
    BY <1>6
  <1>12. ConfigTypes'
    <2>1. editor' \in [Editors -> Edits]
      BY <1>6, <1>7, <1>9, <1>10
    <2> QED BY <1>1, <1>2, <1>11, <2>1 DEF ConfigTypes
  <1>13. EditOK(h)'
    <2>1. \A o \in Editors : o # h /\ Busy(o)' => o \in others
      BY <1>9 DEF Busy
    <2>2. e.alone => others = {}
      BY <1>8
    <2>3. e.alone => \A o \in Editors : o # h => ~Busy(o)'
      BY <2>1, <2>2
    <2>4. ~e.alone => spoilt'
      BY <1>8, <1>11
    <2>5. ~spoilt' => SameStored(e.cfg, Changed(want', ch))
      <3> SUFFICES ASSUME ~spoilt' PROVE SameStored(Changed(Current, ch), Changed(want, ch))
        BY <1>2, <1>8
      <3>1. ~spoilt /\ others = {}
        BY <1>11
      <3>2. ~Torn
        <4> SUFFICES ASSUME Torn PROVE FALSE
          OBVIOUS
        <4>1. PICK w \in Editors : editor[w].pc = "write"
          BY <1>1, <3>1 DEF TornOK
        <4>2. w # h
          BY <1>1, <4>1 DEF Busy
        <4> QED BY <3>1, <4>1, <4>2
      <3>3. SameStored(Current, want) /\ want \in Configs
        BY <1>1, <3>1, <3>2 DEF FileStands, ConfigTypes
      <3> QED BY <1>4, <3>3, ChangedSame
    <2>6. /\ e.cfg \in Configs /\ e.change \in Changes /\ Changed(e.cfg, e.change) = e.cfg
          /\ e.change = ch
      BY <1>5, <1>8
    <2> HIDE DEF others
    <2> QED BY <1>10, <2>3, <2>4, <2>5, <2>6 DEF EditOK
  <1>14. ASSUME NEW o \in Editors, o # h PROVE EditOK(o)'
    <2> SUFFICES ASSUME Busy(o)'
        PROVE  /\ editor'[o].cfg \in Configs /\ editor'[o].change \in Changes
               /\ Changed(editor'[o].cfg, editor'[o].change) = editor'[o].cfg
               /\ ~editor'[o].alone /\ spoilt'
      BY DEF EditOK
    <2>1. Busy(o) /\ o \in others
      BY <1>9, <1>14 DEF Busy
    <2>2. EditOK(o)
      BY <1>1
    <2>3. ~editor'[o].alone /\ spoilt'
      BY <1>9, <1>11, <1>14, <2>1
    <2> HIDE DEF others
    <2> QED BY <1>9, <1>14, <2>1, <2>2, <2>3 DEF EditOK
  <1>15. TornOK'
    <2>1. \A o \in Editors : editor[o].pc = "write" => editor'[o].pc = "write"
      BY <1>1, <1>9 DEF Busy
    <2> HIDE DEF others
    <2> QED BY <1>1, <1>3, <1>11, <2>1 DEF TornOK
  <1>16. FileStands' /\ StartOK' /\ RestartApplies'
    BY <1>1, <1>2, <1>3, <1>11 DEF FileStands, StartOK, RestartApplies
  <1> QED BY <1>2, <1>12, <1>13, <1>14, <1>15, <1>16, PlaysStay DEF SettingsInv, ConfigInv

LEMMA TruncateKeeps ==
  ASSUME SettingsInv, NEW h \in Editors, Truncate(h)
  PROVE  SettingsInv'
  <1>1. ConfigTypes /\ (\A o \in Editors : EditOK(o)) /\ StartOK /\ RestartApplies
    BY DEF SettingsInv, ConfigInv
  <1>2. /\ env' = env /\ startup' = startup /\ want' = want /\ due' = due /\ spoilt' = spoilt
        /\ cfgFile' = [cfgFile EXCEPT !.state = "torn"]
        /\ editor' = [editor EXCEPT ![h].pc = "write"] /\ editor[h].pc = "save"
        /\ UNCHANGED scrobbling
    BY DEF Truncate
  <1>3. cfgFile' \in [state : {"absent", "torn", "whole"}, cfg : Configs] /\ Torn'
    BY <1>1, <1>2 DEF ConfigTypes, Torn
  <1>4. /\ editor' \in [Editors -> Edits] /\ editor'[h].pc = "write"
        /\ \A o \in Editors : /\ editor'[o].cfg = editor[o].cfg
                               /\ editor'[o].change = editor[o].change
                               /\ editor'[o].alone = editor[o].alone
                               /\ Busy(o)' <=> Busy(o)
    BY <1>1, <1>2 DEF ConfigTypes, Edits, Busy
  <1>5. ConfigTypes'
    BY <1>1, <1>2, <1>3, <1>4 DEF ConfigTypes
  <1>6. ASSUME NEW o \in Editors PROVE EditOK(o)'
    <2>1. EditOK(o)
      BY <1>1
    <2> QED BY <1>2, <1>4, <2>1 DEF EditOK
  <1>7. TornOK' /\ FileStands'
    BY <1>3, <1>4 DEF TornOK, FileStands
  <1>8. StartOK'
    BY <1>1, <1>2, <1>3 DEF StartOK, Torn
  <1>9. RestartApplies'
    BY <1>1, <1>2 DEF RestartApplies
  <1> QED BY <1>2, <1>5, <1>6, <1>7, <1>8, <1>9, PlaysStay DEF SettingsInv, ConfigInv

\* save_to_file: a change made alone is the user's, and what had been spoilt is not any more.
LEMMA SaveKeeps ==
  ASSUME SettingsInv, NEW h \in Editors, NEW ok \in BOOLEAN, save_to_file(h, ok)
  PROVE  SettingsInv'
  <1> DEFINE e == editor[h]
  <1> DEFINE base == IF spoilt THEN e.cfg ELSE want
  <1>1. ConfigTypes /\ (\A o \in Editors : EditOK(o)) /\ StartOK /\ RestartApplies /\ TornOK
        /\ FileStands
    BY DEF SettingsInv, ConfigInv
  <1>2. /\ env' = env /\ startup' = startup /\ due' = due /\ e.pc = "write"
        /\ editor' = [editor EXCEPT ![h] = NoEdit]
        /\ cfgFile' = IF ok THEN [state |-> "whole", cfg |-> Serialized(e.cfg)] ELSE cfgFile
        /\ want' = IF ok /\ e.alone THEN Changed(base, e.change) ELSE want
        /\ spoilt' = IF ok /\ e.alone THEN FALSE ELSE (spoilt \/ ~ok)
        /\ UNCHANGED scrobbling
    BY DEF save_to_file
  <1>3. /\ e \in Edits /\ e.cfg \in Configs /\ e.change \in Changes
        /\ Changed(e.cfg, e.change) = e.cfg /\ e.alone \in BOOLEAN /\ spoilt \in BOOLEAN
        /\ e.alone => \A o \in Editors : o # h => ~Busy(o)
        /\ ~e.alone => spoilt
        /\ ~spoilt => SameStored(e.cfg, Changed(want, e.change))
    <2>1. EditOK(h) /\ Busy(h) /\ e \in Edits /\ spoilt \in BOOLEAN
      BY <1>1, <1>2 DEF Busy, ConfigTypes
    <2> QED BY <2>1 DEF EditOK, Edits
  <1>4. ok /\ e.alone => want' \in Configs /\ SameStored(Serialized(e.cfg), want')
    <2> SUFFICES ASSUME ok, e.alone PROVE want' \in Configs /\ SameStored(Serialized(e.cfg), want')
      OBVIOUS
    <2>1. want' = Changed(base, e.change) /\ want \in Configs
      BY <1>1, <1>2 DEF ConfigTypes
    <2>2. SameStored(Serialized(e.cfg), e.cfg)
      BY <1>3, SerializedOnce
    <2>3. want' \in Configs
      BY <1>3, <2>1, ChangedType
    <2>4. SameStored(e.cfg, want')
      BY <1>3, <2>1 DEF SameStored
    <2> QED BY <2>2, <2>3, <2>4 DEF SameStored
  <1>5. want' \in Configs /\ spoilt' \in BOOLEAN
    BY <1>1, <1>2, <1>3, <1>4 DEF ConfigTypes
  <1>6. NoEdit \in Edits /\ NoEdit.pc = "idle"
    BY DEF NoEdit, Edits
  <1>7. /\ editor' \in [Editors -> Edits] /\ ~Busy(h)'
        /\ \A o \in Editors : o # h => editor'[o] = editor[o]
    BY <1>1, <1>2, <1>6 DEF ConfigTypes, Busy
  <1>8. /\ cfgFile' \in [state : {"absent", "torn", "whole"}, cfg : Configs]
        /\ ok => /\ cfgFile'.state = "whole" /\ cfgFile'.cfg = Serialized(e.cfg)
                 /\ ~cfgFile'.cfg.opensubsonic
        /\ ~ok => cfgFile' = cfgFile
    <2>1. Serialized(e.cfg) \in Configs /\ ~Serialized(e.cfg).opensubsonic
      BY <1>3, SerializedKeeps
    <2> QED BY <1>1, <1>2, <2>1 DEF ConfigTypes
  <1> HIDE DEF e
  <1>9. ConfigTypes'
    BY <1>1, <1>2, <1>5, <1>7, <1>8 DEF ConfigTypes
  <1>10. ASSUME NEW o \in Editors PROVE EditOK(o)'
    <2>1. CASE o = h
      BY <1>7, <2>1 DEF EditOK
    <2>2. CASE o # h
      <3>1. editor'[o] = editor[o] /\ (Busy(o)' <=> Busy(o)) /\ EditOK(o)
        BY <1>1, <1>7, <2>2 DEF Busy
      <3>2. \A q \in Editors : Busy(q)' => Busy(q)
        BY <1>7 DEF Busy
      <3>3. Busy(o) => ~e.alone /\ spoilt
        BY <1>3, <2>2
      <3>4. Busy(o) => spoilt'
        BY <1>2, <3>3
      <3> QED BY <3>1, <3>2, <3>4 DEF EditOK
    <2> QED BY <2>1, <2>2
  <1>11. TornOK'
    BY <1>2, <1>8 DEF TornOK, Torn
  <1>12. FileStands'
    <2> SUFFICES ASSUME ~spoilt' PROVE SameStored(Current', want')
      BY DEF FileStands, SameStored, Serialized
    <2>1. ok /\ e.alone
      BY <1>2, <1>3
    <2>2. Current' = Serialized(e.cfg)
      BY <1>8, <2>1 DEF Current, Parses
    <2> QED BY <1>4, <2>1, <2>2
  <1>13. StartOK'
    <2>1. env'.profile # Unset => startup'.profile = env'.profile
      BY <1>1, <1>2 DEF StartOK
    <2>2. CASE ok
      BY <1>8, <2>1, <2>2 DEF StartOK
    <2>3. CASE ~ok
      <3>1. from_env' = from_env
        BY <1>2, <1>8, <2>3
           DEF from_env, apply_env_overrides, load_file_overrides, FromVariables, Parses
      <3> QED BY <1>1, <1>2, <1>8, <2>1, <2>3, <3>1 DEF StartOK
    <2> QED BY <2>2, <2>3
  <1>14. RestartApplies'
    BY <1>1, <1>2 DEF RestartApplies
  <1> QED BY <1>2, <1>9, <1>10, <1>11, <1>12, <1>13, <1>14, PlaysStay DEF SettingsInv, ConfigInv

---------------------------------------------------------------------------
\* The next start

\* from_env: the acknowledged settings under what it makes of the environment.
LEMMA StartsAsWanted ==
  ASSUME ConfigInv, ~spoilt, ~Torn
  PROVE  /\ from_env.profile = IF env.profile = Unset THEN want.profile ELSE env.profile
         /\ from_env.listenbrainz = Either(want.listenbrainz, env.listenbrainz)
         /\ from_env.scrobble = want.scrobble /\ from_env.lastfm = want.lastfm
         /\ from_env.opensubsonic = (cfgFile.state = "absent" /\ env.opensubsonic)
  <1>1. ConfigTypes /\ SameStored(Current, want) /\ StartOK
    BY DEF ConfigInv, FileStands
  <1>2. /\ Current.profile = want.profile /\ Current.scrobble = want.scrobble
        /\ Current.listenbrainz = want.listenbrainz /\ Current.lastfm = want.lastfm
    <2>1. Current \in Configs /\ want \in Configs
      BY <1>1, CurrentType DEF ConfigTypes
    <2> QED BY <1>1, <2>1, SameSettings
  <1>3. CASE cfgFile.state = "whole"
    <2>1. Parses /\ Current = cfgFile.cfg /\ cfgFile.cfg.opensubsonic = FALSE
      BY <1>1, <1>3 DEF Current, Parses, StartOK, ConfigTypes, Configs
    <2> QED BY <1>1, <1>2, <1>3, <2>1, FromEnvType
  <1>4. CASE cfgFile.state = "absent"
    <2>1. ~Parses /\ Current = startup /\ startup = from_env
      BY <1>1, <1>4 DEF Current, Parses, StartOK
    <2>2. /\ from_env.listenbrainz = env.listenbrainz
          /\ from_env.opensubsonic = env.opensubsonic /\ env.opensubsonic \in BOOLEAN
          /\ env.profile # Unset => from_env.profile = env.profile
      BY <1>1, <2>1, FromEnvType DEF ConfigTypes
    <2> QED BY <1>2, <1>4, <2>1, <2>2 DEF Either
  <1> QED BY <1>1, <1>3, <1>4 DEF ConfigTypes, Torn

LEMMA StartKeepsConfig ==
  ASSUME SettingsInv, StartServer
  PROVE  ConfigInv'
  <1>1. ConfigInv /\ ConfigTypes
    BY DEF SettingsInv, ConfigInv
  <1>2. /\ env' = env /\ cfgFile' = cfgFile /\ want' = want /\ startup' = from_env
        /\ spoilt' = (spoilt \/ Torn) /\ editor' = [h \in Editors |-> NoEdit]
        /\ due' = IF spoilt \/ Torn THEN startup'
                  ELSE [f \in Fields |->
                         CASE f = "profile" ->
                                IF env.profile = Unset THEN want.profile ELSE env.profile
                           [] f = "listenbrainz" -> Either(want.listenbrainz, env.listenbrainz)
                           [] f = "opensubsonic" -> cfgFile.state = "absent" /\ env.opensubsonic
                           [] OTHER -> want[f]]
    BY DEF StartServer, Torn
  <1>3. from_env \in Configs /\ (env.profile # Unset => from_env.profile = env.profile)
    BY <1>1, FromEnvType
  <1>4. from_env' = from_env /\ Torn' = Torn
    BY <1>2 DEF from_env, apply_env_overrides, load_file_overrides, FromVariables, Parses, Torn
  <1>5. NoEdit \in Edits /\ NoEdit.pc = "idle"
    BY DEF NoEdit, Edits
  <1>6. spoilt' \in BOOLEAN /\ (~spoilt' => ~spoilt /\ ~Torn) /\ (Torn => spoilt')
    BY <1>2
  <1>7. ConfigTypes'
    BY <1>1, <1>2, <1>3, <1>5, <1>6 DEF ConfigTypes
  <1>8. \A h \in Editors : EditOK(h)'
    BY <1>2, <1>5 DEF EditOK, Busy
  <1>9. TornOK'
    BY <1>4, <1>6 DEF TornOK
  <1>10. StartOK'
    BY <1>1, <1>2, <1>3, <1>4 DEF StartOK, ConfigInv
  <1>11. FileStands'
    <2> SUFFICES ASSUME ~spoilt', ~Torn' PROVE SameStored(Current', want')
      BY DEF FileStands, SameStored, Serialized
    <2>1. SameStored(Current, want)
      BY <1>1, <1>6 DEF ConfigInv, FileStands
    <2>2. CASE Parses
      BY <1>2, <2>1, <2>2 DEF Current, Parses
    <2>3. CASE ~Parses
      <3>1. cfgFile.state = "absent"
        BY <1>1, <1>6, <2>3 DEF ConfigTypes, Parses, Torn
      <3>2. startup = from_env
        BY <1>1, <3>1 DEF ConfigInv, StartOK
      <3> QED BY <1>2, <2>1, <2>3, <3>2 DEF Current, Parses
    <2> QED BY <2>2, <2>3
  <1>12. RestartApplies'
    <2>1. CASE spoilt \/ Torn
      BY <1>2, <2>1 DEF RestartApplies
    <2>2. CASE ~spoilt /\ ~Torn
      <3>1. /\ from_env.profile = IF env.profile = Unset THEN want.profile ELSE env.profile
            /\ from_env.listenbrainz = Either(want.listenbrainz, env.listenbrainz)
            /\ from_env.scrobble = want.scrobble /\ from_env.lastfm = want.lastfm
            /\ from_env.opensubsonic = (cfgFile.state = "absent" /\ env.opensubsonic)
        BY <1>1, <2>2, StartsAsWanted
      <3>2. due' = [f \in Fields |->
                     CASE f = "profile" ->
                            IF env.profile = Unset THEN want.profile ELSE env.profile
                       [] f = "listenbrainz" -> Either(want.listenbrainz, env.listenbrainz)
                       [] f = "opensubsonic" -> cfgFile.state = "absent" /\ env.opensubsonic
                       [] OTHER -> want[f]]
        BY <1>2, <2>2
      <3>3. /\ due'["profile"] = IF env.profile = Unset THEN want.profile ELSE env.profile
            /\ due'["listenbrainz"] = Either(want.listenbrainz, env.listenbrainz)
            /\ due'["scrobble"] = want.scrobble /\ due'["lastfm"] = want.lastfm
            /\ due'["opensubsonic"] = (cfgFile.state = "absent" /\ env.opensubsonic)
        BY <3>2 DEF Fields
      <3> QED BY <1>2, <3>1, <3>3 DEF RestartApplies, Fields
    <2> QED BY <2>1, <2>2
  <1> QED BY <1>7, <1>8, <1>9, <1>10, <1>11, <1>12 DEF ConfigInv

LEMMA StartKeepsPlays ==
  ASSUME SettingsInv, StartServer
  PROVE  PlayInv'
  <1>1. PlayTypes /\ (\A e \in Events : PlayOK(e)) /\ ScrobblesAsSet
    BY DEF SettingsInv, PlayInv
  <1>2. /\ submits' = [x \in DOMAIN submits |-> "none"]
        /\ plays' = [e \in Events |-> [plays[e] EXCEPT !.todo = FALSE]]
        /\ posts' = posts /\ accepted' = accepted /\ unwanted' = unwanted
    BY DEF StartServer
  <1>3. submits' \in [Events \X Providers -> Stages]
        /\ \A x \in Events \X Providers : submits'[x] = "none"
    BY <1>1, <1>2 DEF PlayTypes, Stages
  <1>4. /\ plays' \in [Events -> [row : BOOLEAN, scrobbled : BOOLEAN, todo : BOOLEAN]]
        /\ \A e \in Events : /\ plays'[e].row = plays[e].row /\ ~plays'[e].todo
                             /\ plays'[e].scrobbled = plays[e].scrobbled
    BY <1>1, <1>2 DEF PlayTypes
  <1>5. ASSUME NEW e \in Events PROVE PlayOK(e)'
    <2>1. PlayOK(e)
      BY <1>1
    <2>2. \A p \in Providers : submits'[<<e, p>>] = "none"
      BY <1>3
    <2>3. submits'[<<e, "listenbrainz">>] = "none"
      BY <2>2 DEF Providers
    <2> QED BY <1>2, <1>4, <2>1, <2>2, <2>3 DEF PlayOK
  <1> QED BY <1>1, <1>2, <1>3, <1>4, <1>5 DEF PlayInv, PlayTypes, ScrobblesAsSet

---------------------------------------------------------------------------
\* Plays

LEMMA RecordKeeps ==
  ASSUME SettingsInv, NEW e \in Events, Record(e)
  PROVE  SettingsInv'
  <1>1. PlayTypes /\ (\A o \in Events : PlayOK(o)) /\ ScrobblesAsSet
    BY DEF SettingsInv, PlayInv
  <1>2. /\ plays' = [plays EXCEPT ![e].row = TRUE, ![e].todo = TRUE] /\ ~plays[e].row
        /\ submits' = submits /\ posts' = posts /\ accepted' = accepted /\ unwanted' = unwanted
        /\ UNCHANGED <<disk, editor, want, due, spoilt>>
    BY DEF Record, record_play
  <1>3. /\ plays' \in [Events -> [row : BOOLEAN, scrobbled : BOOLEAN, todo : BOOLEAN]]
        /\ plays'[e].row /\ plays'[e].todo /\ plays'[e].scrobbled = plays[e].scrobbled
        /\ \A o \in Events : o # e => plays'[o] = plays[o]
    BY <1>1, <1>2 DEF PlayTypes
  <1>4. ASSUME NEW o \in Events PROVE PlayOK(o)'
    <2>1. PlayOK(o)
      BY <1>1
    <2>2. CASE o = e
      BY <1>2, <1>3, <2>1, <2>2 DEF PlayOK
    <2>3. CASE o # e
      BY <1>2, <1>3, <2>1, <2>3 DEF PlayOK
    <2> QED BY <2>2, <2>3
  <1> QED BY <1>1, <1>2, <1>3, <1>4, ConfigStays DEF SettingsInv, PlayInv, PlayTypes, ScrobblesAsSet

\* record_play_handler reads the settings as they stand.
LEMMA ScrobbledAsWanted ==
  ASSUME ConfigInv, ~spoilt, ~Torn, NEW p \in Providers, scrobble_enabled
  PROVE  Wanted(p)
  <1>1. SameStored(Current, want) /\ Current \in Configs /\ want \in Configs
    BY CurrentType DEF ConfigInv, FileStands, ConfigTypes
  <1>2. Current.scrobble = want.scrobble /\ Current[p] = want[p]
    BY <1>1, SameSettings DEF Fields, Providers
  <1> QED BY <1>2 DEF scrobble_enabled, Token, Wanted

LEMMA HandKeeps ==
  ASSUME SettingsInv, NEW e \in Events, record_play_handler(e)
  PROVE  SettingsInv'
  <1> DEFINE to == {p \in Providers : scrobble_enabled /\ Token(p) # "none"}
  <1>1. PlayTypes /\ (\A o \in Events : PlayOK(o)) /\ ScrobblesAsSet /\ ConfigInv
    BY DEF SettingsInv, PlayInv
  <1>2. /\ plays[e].todo /\ plays' = [plays EXCEPT ![e].todo = FALSE]
        /\ submits' = [x \in DOMAIN submits |->
                         IF x[1] = e /\ x[2] \in to THEN "post" ELSE submits[x]]
        /\ posts' = posts /\ accepted' = accepted
        /\ UNCHANGED <<disk, editor, want, due, spoilt>>
    BY DEF record_play_handler
  <1>3. unwanted' = IF ~spoilt /\ ~Torn /\ (\E p \in to : ~Wanted(p))
                    THEN unwanted \union {e} ELSE unwanted
    BY DEF record_play_handler, Torn
  <1>4. ~spoilt /\ ~Torn => \A p \in to : Wanted(p)
    BY <1>1, ScrobbledAsWanted
  <1>5. unwanted' = unwanted
    BY <1>3, <1>4
  <1> HIDE DEF to
  <1>6. /\ submits' \in [Events \X Providers -> Stages]
        /\ \A o \in Events, p \in Providers :
             submits'[<<o, p>>] = IF o = e /\ p \in to THEN "post" ELSE submits[<<o, p>>]
    BY <1>1, <1>2 DEF PlayTypes, Stages
  <1>7. /\ plays' \in [Events -> [row : BOOLEAN, scrobbled : BOOLEAN, todo : BOOLEAN]]
        /\ plays'[e].row = plays[e].row /\ ~plays'[e].todo
        /\ plays'[e].scrobbled = plays[e].scrobbled
        /\ \A o \in Events : o # e => plays'[o] = plays[o]
    BY <1>1, <1>2 DEF PlayTypes
  <1>8. ASSUME NEW o \in Events PROVE PlayOK(o)'
    <2>1. PlayOK(o) /\ "listenbrainz" \in Providers
      BY <1>1 DEF Providers
    <2>2. CASE o = e
      <3>1. plays[e].row /\ \A p \in Providers : posts[<<e, p>>] = 0
        BY <1>2, <2>1, <2>2 DEF PlayOK
      <3>2. \A p \in Providers : posts'[<<e, p>>] = 0
        BY <1>2, <3>1
      <3>3. submits'[<<e, "listenbrainz">>] = "success" => submits[<<e, "listenbrainz">>] = "success"
        BY <1>6, <2>1
      <3> QED BY <1>2, <1>7, <2>1, <2>2, <3>1, <3>2, <3>3 DEF PlayOK
    <2>3. CASE o # e
      <3>1. \A p \in Providers : submits'[<<o, p>>] = submits[<<o, p>>]
        BY <1>6, <2>3
      <3>2. submits'[<<o, "listenbrainz">>] = submits[<<o, "listenbrainz">>]
        BY <2>1, <3>1
      <3> QED BY <1>2, <1>7, <2>1, <2>3, <3>1, <3>2 DEF PlayOK
    <2> QED BY <2>2, <2>3
  <1>9. ScrobblesAsSet'
    BY <1>1, <1>5 DEF ScrobblesAsSet
  <1>10. PlayTypes'
    BY <1>1, <1>2, <1>6, <1>7 DEF PlayTypes
  <1>11. ConfigInv'
    BY <1>2, ConfigStays
  <1> QED BY <1>8, <1>9, <1>10, <1>11 DEF SettingsInv, PlayInv

\* The request of a task: one for each play and provider.
LEMMA PostKeeps ==
  ASSUME SettingsInv, NEW e \in Events, NEW q \in Providers,
         NEW answer \in {"success", "lost", "refused"}, Post(e, q, answer),
         answer = "success" => q = "listenbrainz"
  PROVE  SettingsInv'
  <1>1. PlayTypes /\ (\A o \in Events : PlayOK(o)) /\ ScrobblesAsSet
    BY DEF SettingsInv, PlayInv
  <1> DEFINE x == <<e, q>>
  <1>2. /\ submits[x] = "post" /\ submits' = [submits EXCEPT ![x] = answer]
        /\ posts' = IF answer \in {"success", "lost"} THEN [posts EXCEPT ![x] = posts[x] + 1] ELSE posts
        /\ accepted' = IF answer = "success" /\ q = "listenbrainz" THEN accepted \union {e} ELSE accepted
        /\ plays' = plays /\ unwanted' = unwanted
        /\ UNCHANGED <<disk, editor, want, due, spoilt>>
    BY DEF Post
  <1>3. x \in Events \X Providers /\ posts[x] = 0 /\ plays[e].row /\ ~plays[e].todo
    BY <1>1, <1>2 DEF PlayOK, PlayTypes
  <1>4. /\ submits' \in [Events \X Providers -> Stages] /\ submits'[x] = answer
        /\ \A y \in Events \X Providers : y # x => submits'[y] = submits[y]
    BY <1>1, <1>2, <1>3 DEF PlayTypes, Stages
  <1>5. /\ posts' \in [Events \X Providers -> Nat] /\ posts'[x] <= 1
        /\ \A y \in Events \X Providers : y # x => posts'[y] = posts[y]
    BY <1>1, <1>2, <1>3 DEF PlayTypes
  <1>6. accepted \subseteq accepted' /\ (answer = "success" => e \in accepted')
    BY <1>2
  <1>7. ASSUME NEW o \in Events PROVE PlayOK(o)'
    <2>1. PlayOK(o)
      BY <1>1
    <2>2. \A p \in Providers : <<o, p>> \in Events \X Providers
      OBVIOUS
    <2>3. \A p \in Providers : <<o, p>> = x <=> o = e /\ p = q
      OBVIOUS
    <2> HIDE DEF x
    <2>4. ASSUME NEW p \in Providers
          PROVE  /\ ~plays'[o].row \/ plays'[o].todo =>
                      posts'[<<o, p>>] = 0 /\ submits'[<<o, p>>] # "post"
                 /\ submits'[<<o, p>>] = "post" => posts'[<<o, p>>] = 0
                 /\ posts'[<<o, p>>] <= 1
      <3>1. CASE <<o, p>> = x
        BY <1>2, <1>3, <1>4, <1>5, <2>3, <3>1
      <3>2. CASE <<o, p>> # x
        <4>1. submits'[<<o, p>>] = submits[<<o, p>>] /\ posts'[<<o, p>>] = posts[<<o, p>>]
          BY <1>4, <1>5, <2>2, <3>2
        <4> QED BY <1>2, <2>1, <4>1 DEF PlayOK
      <3> QED BY <3>1, <3>2
    <2>5. submits'[<<o, "listenbrainz">>] = "success" => o \in accepted'
      <3>1. "listenbrainz" \in Providers
        BY DEF Providers
      <3>2. CASE <<o, "listenbrainz">> = x
        BY <1>4, <1>6, <2>3, <3>1, <3>2
      <3>3. CASE <<o, "listenbrainz">> # x
        BY <1>4, <1>6, <2>1, <2>2, <3>1, <3>3 DEF PlayOK
      <3> QED BY <3>2, <3>3
    <2>6. plays'[o].scrobbled => o \in accepted'
      BY <1>2, <1>6, <2>1 DEF PlayOK
    <2>7. ~plays'[o].row => ~plays'[o].todo
      BY <1>2, <2>1 DEF PlayOK
    <2> QED BY <2>4, <2>5, <2>6, <2>7 DEF PlayOK
  <1>8. PlayTypes' /\ ScrobblesAsSet'
    BY <1>1, <1>2, <1>4, <1>5 DEF PlayTypes, ScrobblesAsSet
  <1>9. ConfigInv'
    BY <1>2, ConfigStays
  <1> QED BY <1>7, <1>8, <1>9 DEF SettingsInv, PlayInv

LEMMA MarkKeeps ==
  ASSUME SettingsInv, NEW e \in Events, mark_scrobbled(e)
  PROVE  SettingsInv'
  <1>1. PlayTypes /\ (\A o \in Events : PlayOK(o)) /\ ScrobblesAsSet
    BY DEF SettingsInv, PlayInv
  <1> DEFINE x == <<e, "listenbrainz">>
  <1>2. /\ submits[x] = "success" /\ plays' = [plays EXCEPT ![e].scrobbled = TRUE]
        /\ submits' = [submits EXCEPT ![x] = "done"]
        /\ posts' = posts /\ accepted' = accepted /\ unwanted' = unwanted
        /\ UNCHANGED <<disk, editor, want, due, spoilt>>
    BY DEF mark_scrobbled, Accepted
  <1>3. x \in Events \X Providers /\ e \in accepted
    BY <1>1, <1>2 DEF PlayOK, Providers
  <1>4. /\ submits' \in [Events \X Providers -> Stages]
        /\ \A y \in Events \X Providers : submits'[y] = submits[y] \/ submits'[y] = "done"
    BY <1>1, <1>2, <1>3 DEF PlayTypes, Stages
  <1>5. /\ plays' \in [Events -> [row : BOOLEAN, scrobbled : BOOLEAN, todo : BOOLEAN]]
        /\ plays'[e].row = plays[e].row /\ plays'[e].todo = plays[e].todo
        /\ \A o \in Events : o # e => plays'[o] = plays[o]
    BY <1>1, <1>2 DEF PlayTypes
  <1>6. ASSUME NEW o \in Events PROVE PlayOK(o)'
    <2>1. PlayOK(o) /\ "listenbrainz" \in Providers
      BY <1>1 DEF Providers
    <2>2. \A p \in Providers : submits'[<<o, p>>] = submits[<<o, p>>] \/ submits'[<<o, p>>] = "done"
      BY <1>4
    <2>3. /\ plays'[o].row = plays[o].row /\ plays'[o].todo = plays[o].todo
          /\ plays'[o].scrobbled => o \in accepted
      BY <1>3, <1>5, <2>1 DEF PlayOK
    <2> QED BY <1>2, <2>1, <2>2, <2>3 DEF PlayOK
  <1>7. PlayTypes' /\ ScrobblesAsSet'
    BY <1>1, <1>2, <1>4, <1>5 DEF PlayTypes, ScrobblesAsSet
  <1>8. ConfigInv'
    BY <1>2, ConfigStays
  <1> QED BY <1>6, <1>7, <1>8 DEF SettingsInv, PlayInv

---------------------------------------------------------------------------
\* The inductive invariant holds in every reachable state.

LEMMA SettingsInitial == SetInit => SettingsInv
  <1> SUFFICES ASSUME SetInit PROVE SettingsInv
    OBVIOUS
  <1>1. env \in [profile : {Unset} \union Profiles, listenbrainz : {"none", "environment"},
                 opensubsonic : BOOLEAN]
    BY DEF SetInit
  <1>2. FromVariables \in Configs
    BY <1>1, SettingsAssumption DEF FromVariables, Configs, Tokens
  <1>3. cfgFile = [state |-> "absent", cfg |-> FromVariables] /\ ~Parses
    BY DEF SetInit, Parses
  <1>4. from_env = apply_env_overrides(FromVariables)
    BY <1>3 DEF from_env, load_file_overrides
  <1>5. from_env \in Configs /\ (env.profile # Unset => from_env.profile = env.profile)
    BY <1>1, <1>2, <1>4 DEF apply_env_overrides, Configs
  <1>6. /\ startup = from_env /\ want = startup /\ due = startup /\ spoilt = FALSE
        /\ editor = [h \in Editors |-> NoEdit]
    BY DEF SetInit
  <1>7. NoEdit \in Edits /\ NoEdit.pc = "idle"
    BY DEF NoEdit, Edits
  <1>8. ConfigTypes
    BY <1>1, <1>2, <1>3, <1>5, <1>6, <1>7 DEF ConfigTypes
  <1>9. ConfigInv
    BY <1>3, <1>5, <1>6, <1>7, <1>8
       DEF ConfigInv, EditOK, Busy, TornOK, Torn, FileStands, StartOK, RestartApplies, Current, SameStored
  <1>10. PlayInv
    <2>1. /\ plays = [e \in Events |-> NoPlay]
          /\ submits = [x \in Events \X Providers |-> "none"]
          /\ posts = [x \in Events \X Providers |-> 0] /\ unwanted = {}
      BY DEF SetInit
    <2>2. \A e \in Events, p \in Providers : submits[<<e, p>>] = "none" /\ posts[<<e, p>>] = 0
      BY <2>1
    <2>3. "listenbrainz" \in Providers
      BY DEF Providers
    <2>4. ASSUME NEW e \in Events PROVE PlayOK(e)
      BY <2>1, <2>2, <2>3 DEF PlayOK, NoPlay
    <2> QED BY <2>1, <2>4 DEF PlayInv, PlayTypes, ScrobblesAsSet, NoPlay, Stages
  <1> QED BY <1>9, <1>10 DEF SettingsInv

LEMMA SettingsInductive == SettingsInv /\ [SetNext]_setVars => SettingsInv'
  <1> SUFFICES ASSUME SettingsInv, [SetNext]_setVars PROVE SettingsInv'
    OBVIOUS
  <1>1. ASSUME NEW h \in Editors, NEW ch \in Changes, Arrive(h, ch) PROVE SettingsInv'
    BY <1>1, ArriveKeeps
  <1>2. ASSUME NEW h \in Editors,
               \/ update_settings_handler(h)
               \/ set_listenbrainz_handler(h) \/ set_lastfm_handler(h)
               \/ disconnect_listenbrainz_handler(h) \/ disconnect_lastfm_handler(h)
        PROVE  SettingsInv'
    <2>1. \A p \in Providers, b \in {"none", "user"} : [field |-> p, to |-> b] \in Changes
      BY DEF Changes
    <2>2. \E ch \in Changes : Arrive(h, ch)
      BY <1>2, <2>1
         DEF update_settings_handler, set_listenbrainz_handler, set_lastfm_handler,
             disconnect_listenbrainz_handler, disconnect_lastfm_handler, Providers
    <2> QED BY <1>1, <2>2
  <1>3. ASSUME NEW h \in Editors, Truncate(h) \/ \E ok \in BOOLEAN : save_to_file(h, ok)
        PROVE  SettingsInv'
    BY <1>3, TruncateKeeps, SaveKeeps
  <1>4. ASSUME NEW e \in Events, Record(e) \/ record_play_handler(e) \/ mark_scrobbled(e)
        PROVE  SettingsInv'
    BY <1>4, RecordKeeps, HandKeeps, MarkKeeps
  <1>5. ASSUME NEW e \in Events, submit_listenbrainz(e) \/ submit_lastfm(e) PROVE SettingsInv'
    <2>1. CASE submit_listenbrainz(e)
      BY <2>1, PostKeeps DEF submit_listenbrainz, Providers
    <2>2. CASE submit_lastfm(e)
      BY <2>2, PostKeeps DEF submit_lastfm, Providers
    <2> QED BY <1>5, <2>1, <2>2
  <1>6. CASE StartServer
    BY <1>6, StartKeepsConfig, StartKeepsPlays DEF SettingsInv
  <1>7. CASE UNCHANGED setVars
    BY <1>7, ConfigStays, PlaysStay DEF setVars, SettingsInv
  <1> QED BY <1>2, <1>3, <1>4, <1>5, <1>6, <1>7 DEF SetNext

THEOREM SettingsInvariant == SetSpec => []SettingsInv
  BY SettingsInitial, SettingsInductive, PTL DEF SetSpec

\* get_settings_handler: what it reports as pending is what from_env would change.
LEMMA PendingIsTold ==
  ASSUME ConfigInv
  PROVE  RestartIsTold
  <1> SUFFICES ASSUME ~Torn
               PROVE  pending_restart_fields = {f \in {"profile", "scrobble"} : from_env[f] # startup[f]}
    BY DEF RestartIsTold, Torn
  <1>1. ConfigTypes /\ StartOK
    BY DEF ConfigInv
  <1>2. CASE Parses
    <2>1. /\ env.profile = Unset => from_env.profile = cfgFile.cfg.profile
          /\ from_env.scrobble = cfgFile.cfg.scrobble
          /\ env.profile # Unset => from_env.profile = startup.profile
      BY <1>1, <1>2, FromEnvType DEF StartOK
    <2>2. \A f \in {"profile", "scrobble"} :
            (cfgFile.cfg[f] # startup[f] /\ (f = "profile" => env.profile = Unset))
              <=> from_env[f] # startup[f]
      BY <2>1
    <2> QED BY <1>2, <2>2 DEF pending_restart_fields
  <1>3. CASE ~Parses
    <2>1. startup = from_env
      BY <1>1, <1>3 DEF ConfigTypes, StartOK, Parses, Torn
    <2> QED BY <1>3, <2>1 DEF pending_restart_fields
  <1> QED BY <1>2, <1>3

\* An acknowledged setting stands (save_to_file); the next start uses it under what from_env
\* makes of each kind of variable: the profile's wins over the file, a token of the file over
\* its variable, opensubsonic counts until the first save only; the settings page announces
\* what that start will change of the profile and the switch (get_settings_handler); and a play
\* is submitted as the settings stand and once (record_play_handler).
THEOREM SettingsAreKept == SetSpec => []SettingsKept
  <1>1. SettingsInv => SettingsKept
    <2> SUFFICES ASSUME SettingsInv PROVE SettingsKept
      OBVIOUS
    <2>1. SettingsStand /\ RestartApplies
      <3>1. /\ FileStands /\ RestartApplies /\ Current \in Configs /\ want \in Configs
        BY CurrentType DEF SettingsInv, ConfigInv, ConfigTypes
      <3>2. ~spoilt /\ ~Torn => \A f \in Fields \ {"opensubsonic"} : Current[f] = want[f]
        BY <3>1, SameSettings DEF FileStands
      <3> QED BY <3>1, <3>2 DEF SettingsStand, Torn
    <2>2. RestartIsTold
      BY PendingIsTold DEF SettingsInv
    <2>3. ScrobbledOnce
      <3>1. DOMAIN posts = Events \X Providers /\ \A e \in Events : PlayOK(e)
        BY DEF SettingsInv, PlayInv, PlayTypes
      <3>2. \A e \in Events, p \in Providers : posts[<<e, p>>] <= 1
        BY <3>1 DEF PlayOK
      <3>3. \A x \in DOMAIN posts : \E e \in Events, p \in Providers : x = <<e, p>>
        BY <3>1
      <3>4. \A x \in DOMAIN posts : posts[x] <= 1
        BY <3>2, <3>3
      <3> QED BY <3>1, <3>4 DEF ScrobbledOnce, PlayOK
    <2> QED BY <2>1, <2>2, <2>3 DEF SettingsKept, SettingsInv, PlayInv
  <1> QED BY <1>1, SettingsInvariant, PTL

-----------------------------------------------------------------------------
(***************************************************************************)
(* Streaming                                                               *)
(***************************************************************************)
\* The two pure algorithms, for every size, offset, rate and limit.

AnyHeader == [kind : {"suffix", "from", "span", "malformed"}, a : Nat, b : Nat]

\* The bytes of a file of `size` bytes that the header h names.
Named(h, size) ==
  {i \in 0 .. size - 1 : CASE h.kind = "suffix" -> i + h.a >= size
                           [] h.kind = "from" -> i >= h.a
                           [] h.kind = "span" -> h.a <= i /\ i <= h.b
                           [] OTHER -> FALSE}

(* parse_range answers a range inside the file or an error (stream_file    *)
(* slices by it without a further check).                                  *)
LEMMA RangeInside ==
  ASSUME NEW size \in Nat, NEW h \in AnyHeader, parse_range(h, size).ok
  PROVE  /\ parse_range(h, size).start \in Nat /\ parse_range(h, size).len \in Nat
         /\ parse_range(h, size).start + parse_range(h, size).len <= size
BY DEF parse_range, NoRange, ByteRange, AnyHeader

(* parse_range selects the bytes the header names, whatever the size of    *)
(* the file and the offsets in the header.                                 *)
THEOREM RangeIsNamed ==
  ASSUME NEW size \in Nat, NEW h \in AnyHeader
  PROVE  LET r == parse_range(h, size)
         IN IF Named(h, size) = {} THEN ~r.ok
            ELSE r.ok /\ r.start .. r.start + r.len - 1 = Named(h, size)
<1>. DEFINE r == parse_range(h, size)
<1>a. h.a \in Nat /\ h.b \in Nat
  BY DEF AnyHeader
<1>1. CASE h.kind = "malformed" \/ size = 0
  <2>1. Named(h, size) = {}
    BY <1>1 DEF Named
  <2>2. ~r.ok
    BY <1>1 DEF parse_range, NoRange
  <2>. QED  BY <2>1, <2>2
<1>2. CASE h.kind = "suffix" /\ size # 0
  <2>1. Named(h, size) = {i \in 0 .. size - 1 : i + h.a >= size}
    BY <1>2 DEF Named
  <2>2. CASE h.a = 0
    <3>1. Named(h, size) = {}
      BY <2>1, <2>2
    <3>2. ~r.ok
      BY <1>2, <2>2 DEF parse_range, NoRange
    <3>. QED  BY <3>1, <3>2
  <2>3. CASE h.a # 0
    <3>1. size - 1 \in Named(h, size)
      BY <2>1, <2>3, <1>2, <1>a
    <3>2. r = ByteRange(IF h.a > size THEN 0 ELSE size - h.a, size - 1)
      BY <1>2, <2>3 DEF parse_range
    <3>3. r.ok /\ r.start = (IF h.a > size THEN 0 ELSE size - h.a) /\ r.start + r.len - 1 = size - 1
      BY <3>2, <1>2, <1>a DEF ByteRange
    <3>4. r.start .. size - 1 = Named(h, size)
      BY <3>3, <2>1, <1>a, <1>2
    <3>. QED  BY <3>1, <3>3, <3>4
  <2>. QED  BY <2>2, <2>3
<1>3. CASE h.kind = "from" /\ size # 0
  <2>1. Named(h, size) = {i \in 0 .. size - 1 : i >= h.a}
    BY <1>3 DEF Named
  <2>2. r = IF h.a >= size \/ h.a > size - 1 THEN NoRange ELSE ByteRange(h.a, size - 1)
    BY <1>3 DEF parse_range
  <2>3. CASE h.a >= size
    BY <2>1, <2>2, <2>3, <1>a DEF NoRange
  <2>4. CASE ~(h.a >= size)
    <3>1. r.ok /\ r.start = h.a /\ r.start + r.len - 1 = size - 1
      BY <2>2, <2>4, <1>a DEF ByteRange
    <3>2. size - 1 \in Named(h, size) /\ h.a .. size - 1 = Named(h, size)
      BY <2>1, <2>4, <1>a
    <3>. QED  BY <3>1, <3>2
  <2>. QED  BY <2>3, <2>4
<1>4. CASE h.kind = "span" /\ size # 0
  <2>. DEFINE end == IF h.b < size THEN h.b ELSE size - 1
  <2>1. Named(h, size) = {i \in 0 .. size - 1 : h.a <= i /\ i <= h.b}
    BY <1>4 DEF Named
  <2>2. r = IF h.a >= size \/ h.a > end THEN NoRange ELSE ByteRange(h.a, end)
    BY <1>4 DEF parse_range
  <2>3. CASE h.a >= size \/ h.a > end
    <3>1. Named(h, size) = {}
      BY <2>1, <2>3, <1>a
    <3>2. ~r.ok
      BY <2>2, <2>3 DEF NoRange
    <3>. QED  BY <3>1, <3>2
  <2>4. CASE ~(h.a >= size \/ h.a > end)
    <3>1. r.ok /\ r.start = h.a /\ r.start + r.len - 1 = end
      BY <2>2, <2>4, <1>a DEF ByteRange
    <3>2. end \in Named(h, size) /\ h.a .. end = Named(h, size)
      BY <2>1, <2>4, <1>a
    <3>. QED  BY <3>1, <3>2
  <2>. QED  BY <2>3, <2>4
<1>. QED  BY <1>1, <1>2, <1>3, <1>4 DEF AnyHeader

LEMMA RangesAllRight == RangesRight
<1>. SUFFICES ASSUME NEW size \in 0 .. 3, NEW h \in Headers
              PROVE  LET r == parse_range(h, size)
                     IN IF Named(h, size) = {} THEN ~r.ok
                        ELSE r.ok /\ r.start .. r.start + r.len - 1 = Named(h, size)
  BY DEF RangesRight, Named
<1>1. h \in AnyHeader
  BY DEF Headers, Offsets, AnyHeader
<1>. QED  BY <1>1, RangeIsNamed

Tracks == [format : AudioFormats, rate : Nat, depth : Nat]
Confs == [policy : FormatPolicies, profile : StreamProfiles, resource : ResourceProfiles, cap : Nat]

(* resolve_stream_decision keeps to the configuration, for every rate,     *)
(* depth and limit, and a client that names a format is refused or         *)
(* answered with a content type of Answers.                                *)
THEOREM DecisionKeepsToSetup ==
  ASSUME NEW track \in Tracks, NEW asked \in Asked, NEW s \in Confs
  PROVE  LET d == resolve_stream_decision(track, asked, s)
             e == Encoding(d)
             mime == IF d.mode = "direct" THEN d.mime ELSE e.mime
         IN d.mode # "refused" =>
              /\ s.policy = "DirectPlay" \/ s.resource = "Eco" => d.mode = "direct"
              /\ asked # "none" => mime \in Answers(asked)
              /\ asked = "flac" => d.mode = "direct" /\ mime = mime_type(track.format)
              /\ d.mode = "transcode" =>
                   /\ s.policy = "LosslessOnly" => d.codec = "pcm"
                   /\ e.kbps <= AtLeast(s.cap, 32)
                   /\ asked = "none" /\ track.rate # 0 => e.rate <= track.rate
<1>. DEFINE plan == IF asked # "none" THEN Requested(track, asked, s) ELSE Profiled(track, s)
            d == resolve_stream_decision(track, asked, s)
            e == Encoding(d)
<1>a. track.rate \in Nat /\ track.depth \in Nat /\ s.cap \in Nat /\ track.format \in AudioFormats
  BY DEF Tracks, Confs
<1>1. CASE s.policy = "DirectPlay"
  <2>1. d = DirectPlay(track, asked)
    BY <1>1 DEF resolve_stream_decision
  <2>2. d = Refusal \/ d = Direct(track.format)
    BY <2>1 DEF DirectPlay
  <2>3. CASE d = Refusal
    BY <2>3 DEF Refusal
  <2>4. CASE d = Direct(track.format)
    <3>1. d.mode = "direct" /\ d.mime = mime_type(track.format)
      BY <2>4 DEF Direct
    <3>1a. asked # "none" => asked \in (CASE track.format \in {"ogg", "opus"} -> {"ogg", "opus"}
                [] track.format = "aac" -> {"aac", "m4a"}
                [] track.format \in {"mp3", "flac", "wav"} -> {track.format}
                [] OTHER -> {})
      BY <2>4, <2>1 DEF DirectPlay, Direct, Refusal
    <3>2. asked # "none" => mime_type(track.format) \in Answers(asked)
      BY <3>1a, <1>a DEF mime_type, AudioFormats, Answers
    <3>. QED  BY <3>1, <3>2
  <2>. QED  BY <2>2, <2>3, <2>4
<1>2. CASE s.policy # "DirectPlay"
  <2>1. d = plan \/ d = Refusal
    BY <1>2 DEF resolve_stream_decision
  <2>2. d.mode = "transcode" => s.resource # "Eco"
    BY <1>2 DEF resolve_stream_decision, max_transcodes, Refusal
  <2>. SUFFICES ASSUME d = plan, d.mode # "refused"
                PROVE  LET mime == IF d.mode = "direct" THEN d.mime ELSE e.mime
                       IN /\ s.resource = "Eco" => d.mode = "direct"
                          /\ asked # "none" => mime \in Answers(asked)
                          /\ asked = "flac" => d.mode = "direct" /\ mime = mime_type(track.format)
                          /\ d.mode = "transcode" =>
                               /\ s.policy = "LosslessOnly" => d.codec = "pcm"
                               /\ e.kbps <= AtLeast(s.cap, 32)
                               /\ asked = "none" /\ track.rate # 0 => e.rate <= track.rate
    BY <1>2, <2>1 DEF Refusal
  <2>. HIDE DEF d
  <2>3. ASSUME NEW codec \in {"mp3", "opus", "ogg"}, NEW k \in Nat,
               plan = Lossy(codec, k, track.rate, s), asked \in {codec, "none"}
        PROVE  /\ d.mode = "transcode" /\ s.policy # "LosslessOnly"
               /\ e.mime = mime_type(codec) /\ e.kbps <= AtLeast(s.cap, 32) /\ e.rate = 0
    <3>1. d = TranscodePlan(codec, AtMost(k, s.cap), track.rate, 0) /\ s.policy # "LosslessOnly"
      BY <2>3 DEF Lossy, Refusal
    <3>2. d.mode = "transcode" /\ d.codec = codec /\ d.kbps = AtMost(k, s.cap)
      BY <3>1 DEF TranscodePlan
    <3>3. e.rate = 0 /\ e.kbps = IF d.kbps = 0 THEN 0 ELSE AtLeast(d.kbps, 32)
      BY <3>2 DEF Encoding
    <3>4. e.mime = mime_type(codec)
      BY <3>2 DEF Encoding, mime_type
    <3>5. e.kbps <= AtLeast(s.cap, 32)
      BY <3>3, <3>2, <1>a DEF AtLeast, AtMost
    <3>. QED  BY <3>1, <3>2, <3>3, <3>4, <3>5
  <2>4. ASSUME NEW rate \in Nat, NEW depth \in Nat, plan = TranscodePlan("pcm", 0, rate, depth)
        PROVE  /\ d.mode = "transcode" /\ d.codec = "pcm" /\ e.mime = "audio/wav"
               /\ e.kbps <= AtLeast(s.cap, 32) /\ e.rate = rate
    <3>1. d.mode = "transcode" /\ d.codec = "pcm" /\ d.kbps = 0 /\ d.rate = rate
      BY <2>4 DEF TranscodePlan
    <3>2. e.kbps = 0 /\ e.rate = rate /\ e.mime = "audio/wav"
      BY <3>1 DEF Encoding
    <3>. QED  BY <3>1, <3>2, <1>a DEF AtLeast
  <2>5. ASSUME plan = Direct(track.format)
        PROVE  d.mode = "direct" /\ d.mime = mime_type(track.format)
    BY <2>5 DEF Direct
  <2>6. CASE asked \in {"mp3", "opus", "ogg"}
    <3>1. \E k \in Nat : plan = Lossy(asked, k, track.rate, s)
      BY <2>6 DEF Requested
    <3>. QED  BY <3>1, <2>3, <2>6, <2>2 DEF Answers
  <2>7. CASE asked \in {"wav", "pcm"}
    <3>1. plan = TranscodePlan("pcm", 0, track.rate, IF track.depth = 0 THEN 16 ELSE track.depth)
      BY <2>7 DEF Requested
    <3>. QED  BY <3>1, <2>4, <2>7, <1>a, <2>2 DEF mime_type, Answers
  <2>8. CASE asked = "flac"
    <3>1. is_lossless(track.format) /\ plan = Direct(track.format)
      BY <2>8 DEF Requested, Refusal
    <3>2. mime_type(track.format) \in Answers(asked)
      BY <3>1, <2>8 DEF is_lossless, mime_type, Answers
    <3>. QED  BY <3>1, <3>2, <2>5, <2>8
  <2>9. CASE asked \in {"aac", "m4a", "other"}
    BY <2>9 DEF Requested, Refusal
  <2>10. CASE asked = "none"
    <3>1. CASE s.profile \in {"OpusMobile96", "OpusMobile160", "Mp3Compatibility192", "Mp3Compatibility320"}
      <4>1. \E codec \in {"mp3", "opus", "ogg"}, k \in Nat : plan = Lossy(codec, k, track.rate, s)
        BY <2>10, <3>1 DEF Profiled
      <4>. QED  BY <4>1, <2>3, <2>10, <2>2, <1>a
    <3>2. CASE s.profile = "Downsample2448"
      <4>1. plan = TranscodePlan("pcm", 0, IF track.rate = 0 THEN 48 ELSE AtMost(track.rate, 48),
                       IF track.depth = 0 THEN 24 ELSE AtMost(track.depth, 24))
        BY <2>10, <3>2 DEF Profiled
      <4>. DEFINE rate == IF track.rate = 0 THEN 48 ELSE AtMost(track.rate, 48)
                  depth == IF track.depth = 0 THEN 24 ELSE AtMost(track.depth, 24)
      <4>2. rate \in Nat /\ depth \in Nat /\ (track.rate # 0 => rate <= track.rate)
        BY <1>a DEF AtMost
      <4>3. plan = TranscodePlan("pcm", 0, rate, depth)
        BY <4>1
      <4>. HIDE DEF rate, depth
      <4>. QED  BY <4>2, <4>3, <2>4, <2>10, <2>2
    <3>3. CASE s.profile \in {"Original", "LosslessCompatible", "Custom"}
      <4>1. plan = Direct(track.format)
        BY <2>10, <3>3 DEF Profiled
      <4>. QED  BY <4>1, <2>5, <2>10
    <3>. QED  BY <3>1, <3>2, <3>3 DEF Confs, StreamProfiles
  <2>. QED  BY <2>6, <2>7, <2>8, <2>9, <2>10 DEF Asked
<1>. QED  BY <1>1, <1>2

LEMMA DecisionsAllRight == DecisionsRight
<1>1. ASSUME NEW track \in [format : AudioFormats, rate : Rates, depth : Depths], NEW asked \in Asked,
             NEW s \in [policy : FormatPolicies, profile : StreamProfiles, resource : ResourceProfiles, cap : Caps]
      PROVE  track \in Tracks /\ s \in Confs
  BY DEF Tracks, Confs, Rates, Depths, Caps
<1>2. \A asked \in {"mp3", "opus", "ogg", "pcm"} : TranscodeMime(asked) = Encoding(transcode_stream(asked)).mime
  BY DEF TranscodeMime, Encoding, transcode_stream, TranscodePlan
<1>. QED  BY <1>1, <1>2, DecisionKeepsToSetup DEF DecisionsRight

-----------------------------------------------------------------------------
\* The inductive invariant.

Streams == [pc : {"idle", "open", "measure", "body", "encode", "pipe", "probe", "wait", "read", "answered"},
            id : Nat, head : Headers \union {NoHeader}, ver : 0 .. MaxVersions, from : Nat, due : Nat,
            sent : Nat, permit : BOOLEAN, got : {"none", "part", "whole"}, company : BOOLEAN]

StreamTypes ==
  /\ file \in [ver : 1 .. MaxVersions, there : BOOLEAN]
  /\ listening \in [Listeners -> Streams]
  /\ permits \in Nat /\ elsewhere \in Nat /\ nstream \in Nat
  /\ hls \in {"none", "part", "whole"} /\ marred \in BOOLEAN
  /\ segmenters \subseteq [id : Nat, wrote : BOOLEAN]

\* What a request holds at each stage: a body fits in the file that was opened, a permit is held
\* by a transcode only, and a playlist in parts was not made alone.
StreamOK(r) ==
  /\ r.pc = "body" => r.from + r.due <= Length(r.ver) /\ r.sent <= r.due
  /\ r.pc \notin {"body", "answered"} => r.sent = 0 /\ r.due = 0
  /\ r.pc = "answered" => r.sent = r.due
  /\ r.permit => r.pc \in {"encode", "pipe"}
  /\ r.got = "part" => r.company

\* A request that looks at the playlist has no ffmpeg process of its own: ids are given once.
IdsOK ==
  /\ \A l \in Listeners : listening[l].id <= nstream
  /\ \A s \in segmenters : s.id <= nstream
  /\ \A l, m \in Listeners :
       l # m /\ listening[l].pc # "idle" /\ listening[m].pc # "idle" => listening[l].id # listening[m].id
  /\ \A l \in Listeners, s \in segmenters :
       listening[l].pc \in {"probe", "read"} => s.id # listening[l].id
  /\ \A s, t \in segmenters : s.id = t.id => s = t

\* A playlist in parts is being written, or its writer stopped halfway.
PartOK == hls = "part" => marred \/ \E s \in segmenters : s.wrote

StreamInv ==
  /\ StreamTypes /\ (\A l \in Listeners : StreamOK(listening[l]))
  /\ IdsOK /\ PartOK /\ PermitsKept

Holders == {l \in Listeners : listening[l].permit}
Weight(b) == IF b THEN 1 ELSE 0

LEMMA NoStreamFacts ==
  /\ NoStream \in Streams /\ StreamOK(NoStream) /\ NoStream.pc = "idle" /\ NoStream.id = 0
  /\ NoStream.permit = FALSE /\ NoStream.sent = 0 /\ NoStream.due = 0 /\ NoStream.got = "none"
BY StreamingAssumption DEF NoStream, Streams, StreamOK

LEMMA PermitsNat == max_transcodes(setup.resource) \in Nat
BY DEF max_transcodes

(* One request changes: the number of permits held changes by its own.     *)
LEMMA HoldersMove ==
  ASSUME listening \in [Listeners -> Streams], NEW l \in Listeners, NEW r \in Streams, Listen(l, r)
  PROVE  /\ Cardinality(Holders) \in Nat /\ Cardinality(Holders') \in Nat
         /\ Cardinality(Holders') + Weight(listening[l].permit) = Cardinality(Holders) + Weight(r.permit)
         /\ listening' \in [Listeners -> Streams]
         /\ \A m \in Listeners : listening'[m] = IF m = l THEN r ELSE listening[m]
<1>1. /\ listening' \in [Listeners -> Streams]
      /\ \A m \in Listeners : listening'[m] = IF m = l THEN r ELSE listening[m]
  BY DEF Listen
<1>2. IsFiniteSet(Holders) /\ IsFiniteSet(Holders')
  BY StreamingAssumption, FS_Subset DEF Holders
<1>3. Cardinality(Holders) \in Nat /\ Cardinality(Holders') \in Nat
  BY <1>2, FS_CardinalityType
<1>4. r.permit \in BOOLEAN /\ listening[l].permit \in BOOLEAN
  BY DEF Streams
<1>5. CASE r.permit = listening[l].permit
  <2>1. Holders' = Holders
    BY <1>1, <1>5 DEF Holders
  <2>. QED  BY <2>1, <1>1, <1>3, <1>5 DEF Weight
<1>6. CASE r.permit /\ ~listening[l].permit
  <2>1. Holders' = Holders \union {l} /\ l \notin Holders
    BY <1>1, <1>6 DEF Holders
  <2>2. Cardinality(Holders') = Cardinality(Holders) + 1
    BY <2>1, <1>2, FS_AddElement
  <2>. QED  BY <2>2, <1>1, <1>3, <1>6 DEF Weight
<1>7. CASE ~r.permit /\ listening[l].permit
  <2>1. Holders' = Holders \ {l} /\ l \in Holders
    BY <1>1, <1>7 DEF Holders
  <2>2. Cardinality(Holders') = Cardinality(Holders) - 1
    BY <2>1, <1>2, FS_RemoveElement
  <2>. QED  BY <2>2, <1>1, <1>3, <1>7 DEF Weight
<1>. QED  BY <1>4, <1>5, <1>6, <1>7

LEMMA PermitsAre ==
  PermitsKept <=> permits + elsewhere + Cardinality(Holders) = max_transcodes(setup.resource)
BY DEF PermitsKept, Holders

(* A request goes on or ends: what StreamInv says of it has to be shown    *)
(* for its new record only.                                                *)
LEMMA Moves ==
  ASSUME StreamInv, NEW l \in Listeners, NEW r \in Streams, Listen(l, r), StreamOK(r),
         \/ r = NoStream
         \/ /\ r.id = listening[l].id /\ listening[l].pc # "idle"
            /\ r.pc \in {"probe", "read"} => listening[l].pc \in {"probe", "read"},
         permits' = permits + Weight(listening[l].permit) - Weight(r.permit),
         permits' \in Nat,
         UNCHANGED <<setup, file, elsewhere, hls, segmenters, marred, nstream>>
  PROVE  StreamInv'
<1>. USE DEF StreamInv
<1>1. /\ Cardinality(Holders) \in Nat /\ Cardinality(Holders') \in Nat
      /\ Cardinality(Holders') + Weight(listening[l].permit) = Cardinality(Holders) + Weight(r.permit)
      /\ listening' \in [Listeners -> Streams]
      /\ \A m \in Listeners : listening'[m] = IF m = l THEN r ELSE listening[m]
  BY HoldersMove DEF StreamTypes
<1>2. StreamTypes'
  BY <1>1 DEF StreamTypes
<1>3. \A m \in Listeners : StreamOK(listening'[m])
  BY <1>1
<1>4. IdsOK'
  BY <1>1, NoStreamFacts DEF IdsOK, StreamTypes
<1>5. PartOK'
  BY DEF PartOK
<1>6. PermitsKept'
  <2>1. Weight(listening[l].permit) \in Nat /\ Weight(r.permit) \in Nat
    BY DEF Weight
  <2>2. permits' + elsewhere' + Cardinality(Holders') = max_transcodes(setup.resource)
    BY <1>1, <2>1, PermitsAre, PermitsNat DEF StreamTypes
  <2>. QED  BY <2>2 DEF PermitsKept, Holders
<1>. QED  BY <1>2, <1>3, <1>4, <1>5, <1>6

LEMMA Arrival ==
  ASSUME StreamInv, NEW l \in Listeners, NEW r \in Streams, Arrives(l, r), StreamOK(r),
         r.pc # "idle", permits' = permits - Weight(r.permit), permits' \in Nat
  PROVE  StreamInv'
<1>. USE DEF StreamInv
<1>. DEFINE q == [r EXCEPT !.id = nstream + 1]
<1>1. /\ listening[l].pc \in {"idle", "answered"} /\ nstream' = nstream + 1 /\ Listen(l, q)
      /\ UNCHANGED <<setup, file, elsewhere, hls, segmenters, marred>>
  BY DEF Arrives
<1>2. /\ q \in Streams /\ q.id = nstream + 1 /\ q.pc = r.pc /\ q.permit = r.permit
      /\ StreamOK(q)
  <2>1. q \in Streams /\ q.id = nstream + 1 /\ q.pc = r.pc /\ q.permit = r.permit
    BY DEF Streams, StreamTypes
  <2>2. /\ q.sent = r.sent /\ q.due = r.due /\ q.from = r.from /\ q.ver = r.ver /\ q.got = r.got
        /\ q.company = r.company
    BY DEF Streams
  <2>3. StreamOK(q)
    BY <2>1, <2>2 DEF StreamOK
  <2>. QED  BY <2>1, <2>3
<1>. HIDE DEF q
<1>3. listening[l].permit = FALSE
  BY <1>1 DEF StreamTypes, Streams, StreamOK
<1>4. /\ Cardinality(Holders) \in Nat /\ Cardinality(Holders') \in Nat
      /\ Cardinality(Holders') + Weight(listening[l].permit) = Cardinality(Holders) + Weight(q.permit)
      /\ listening' \in [Listeners -> Streams]
      /\ \A m \in Listeners : listening'[m] = IF m = l THEN q ELSE listening[m]
  BY <1>1, <1>2, HoldersMove DEF StreamTypes
<1>5. StreamTypes'
  BY <1>1, <1>4 DEF StreamTypes
<1>6. \A m \in Listeners : StreamOK(listening'[m])
  BY <1>2, <1>4
<1>7. IdsOK'
  <2>1. nstream < q.id /\ q.id <= nstream' /\ nstream <= nstream'
    BY <1>1, <1>2 DEF StreamTypes
  <2>2. \A m \in Listeners : listening'[m].id <= nstream'
    BY <2>1, <1>4, <1>1 DEF IdsOK, StreamTypes, Streams
  <2>3. \A s \in segmenters' : s.id <= nstream' /\ s.id # q.id
    BY <2>1, <1>2, <1>1 DEF IdsOK, StreamTypes
  <2>4. \A m \in Listeners : m # l => listening[m].id # q.id
    BY <2>1, <1>2 DEF IdsOK, StreamTypes, Streams
  <2>. QED  BY <2>2, <2>3, <2>4, <1>4, <1>1 DEF IdsOK
<1>8. PartOK'
  BY <1>1 DEF PartOK
<1>9. PermitsKept'
  <2>1. /\ Weight(listening[l].permit) = 0 /\ Weight(q.permit) \in Nat
        /\ Weight(q.permit) = Weight(r.permit)
    BY <1>2, <1>3 DEF Weight
  <2>2. permits' + elsewhere' + Cardinality(Holders') = max_transcodes(setup'.resource)
    BY <1>1, <1>4, <2>1, PermitsAre, PermitsNat DEF StreamTypes
  <2>. QED  BY <2>2 DEF PermitsKept, Holders
<1>. QED  BY <1>5, <1>6, <1>7, <1>8, <1>9

-----------------------------------------------------------------------------
\* Requests arrive.

LEMMA AskFileKeeps ==
  ASSUME StreamInv, NEW l \in Listeners, NEW h \in Sent, AskFile(l, h)
  PROVE  StreamInv'
<1>. DEFINE r == [NoStream EXCEPT !.pc = "open", !.head = h]
<1>1. h \in Headers \union {NoHeader}
  BY DEF Sent, Headers, Offsets
<1>2. /\ r \in Streams /\ r.pc = "open" /\ r.permit = FALSE /\ r.sent = 0 /\ r.due = 0
      /\ r.got = "none"
  BY <1>1, NoStreamFacts DEF Streams
<1>3. StreamOK(r)
  BY <1>2 DEF StreamOK
<1>4. Arrives(l, r) /\ UNCHANGED permits
  BY DEF AskFile
<1>. HIDE DEF r
<1>. QED  BY <1>2, <1>3, <1>4, Arrival DEF Weight, StreamInv, StreamTypes

LEMMA AskV1Keeps ==
  ASSUME StreamInv, NEW l \in Listeners, NEW asked, AskV1(l, asked, NoHeader)
  PROVE  StreamInv'
<1>1. CASE AskFile(l, NoHeader)
  BY <1>1, AskFileKeeps DEF Sent
<1>2. CASE permits > 0 /\ permits' = permits - 1
           /\ Arrives(l, [NoStream EXCEPT !.pc = "encode", !.permit = TRUE])
  <2>. DEFINE r == [NoStream EXCEPT !.pc = "encode", !.permit = TRUE]
  <2>1. /\ r \in Streams /\ r.pc = "encode" /\ r.permit = TRUE /\ r.sent = 0 /\ r.due = 0
        /\ r.got = "none"
    BY NoStreamFacts DEF Streams
  <2>2. StreamOK(r)
    BY <2>1 DEF StreamOK
  <2>3. Arrives(l, r)
    BY <1>2
  <2>. HIDE DEF r
  <2>4. permits' = permits - Weight(r.permit) /\ permits' \in Nat
    BY <1>2, <2>1 DEF Weight, StreamInv, StreamTypes
  <2>. QED  BY <2>1, <2>2, <2>3, <2>4, Arrival
<1>. QED  BY <1>1, <1>2 DEF AskV1

LEMMA AskLegacyKeeps ==
  ASSUME StreamInv, NEW l \in Listeners, NEW asked, AskLegacy(l, asked)
  PROVE  StreamInv'
<1>. DEFINE r == [NoStream EXCEPT !.pc = IF asked = "hls" THEN "probe" ELSE "encode"]
<1>1. /\ r \in Streams /\ r.pc \in {"probe", "encode"} /\ r.permit = FALSE /\ r.sent = 0
      /\ r.due = 0 /\ r.got = "none"
  BY NoStreamFacts DEF Streams
<1>2. StreamOK(r)
  BY <1>1 DEF StreamOK
<1>3. Arrives(l, r) /\ UNCHANGED permits
  BY DEF AskLegacy
<1>. HIDE DEF r
<1>. QED  BY <1>1, <1>2, <1>3, Arrival DEF Weight, StreamInv, StreamTypes

-----------------------------------------------------------------------------
\* Requests go on, end or are dropped.

LEMMA LeaveKeeps ==
  ASSUME StreamInv, NEW l \in Listeners, Leave(l),
         UNCHANGED <<setup, file, elsewhere, hls, segmenters, marred, nstream>>
  PROVE  StreamInv'
<1>1. permits' = permits + Weight(listening[l].permit) - Weight(NoStream.permit) /\ permits' \in Nat
  BY NoStreamFacts DEF Leave, Weight, StreamInv, StreamTypes
<1>. QED  BY <1>1, NoStreamFacts, Moves DEF Leave

LEMMA EndKeeps ==
  ASSUME StreamInv, NEW l \in Listeners, Listen(l, NoStream), listening[l].permit = FALSE,
         UNCHANGED <<setup, file, permits, elsewhere, hls, segmenters, marred, nstream>>
  PROVE  StreamInv'
<1>1. permits' = permits + Weight(listening[l].permit) - Weight(NoStream.permit) /\ permits' \in Nat
  BY NoStreamFacts DEF Weight, StreamInv, StreamTypes
<1>. QED  BY <1>1, NoStreamFacts, Moves

LEMMA GoesOn ==
  ASSUME StreamInv, NEW l \in Listeners, NEW r \in Streams, Listen(l, r), StreamOK(r),
         r.id = listening[l].id, listening[l].pc # "idle", r.permit = listening[l].permit,
         r.pc \in {"probe", "read"} => listening[l].pc \in {"probe", "read"},
         UNCHANGED <<setup, file, permits, elsewhere, hls, segmenters, marred, nstream>>
  PROVE  StreamInv'
<1>1. permits' = permits + Weight(listening[l].permit) - Weight(r.permit) /\ permits' \in Nat
  BY DEF Weight, StreamInv, StreamTypes
<1>. QED  BY <1>1, Moves

LEMMA OpenKeeps ==
  ASSUME StreamInv, NEW l \in Listeners, open_track_file(l)
  PROVE  StreamInv'
<1>1. listening[l] \in Streams /\ StreamOK(listening[l]) /\ listening[l].pc = "open"
  BY DEF StreamInv, StreamTypes, open_track_file
<1>2. listening[l].permit = FALSE
  BY <1>1 DEF Streams, StreamOK
<1>3. CASE file.there
  <2>. DEFINE r == [listening[l] EXCEPT !.pc = "measure", !.ver = file.ver]
  <2>0. file.ver \in 0 .. MaxVersions
    BY StreamingAssumption DEF StreamInv, StreamTypes
  <2>1. /\ r \in Streams /\ r.pc = "measure" /\ r.id = listening[l].id /\ r.permit = FALSE
        /\ r.sent = listening[l].sent /\ r.due = listening[l].due /\ r.got = listening[l].got
        /\ r.company = listening[l].company
    BY <1>1, <1>2, <2>0 DEF Streams
  <2>2. StreamOK(r)
    BY <2>1, <1>1 DEF StreamOK
  <2>3. Listen(l, r)
    BY <1>3 DEF open_track_file
  <2>. HIDE DEF r
  <2>. QED  BY <2>1, <2>2, <2>3, <1>1, <1>2, GoesOn DEF open_track_file
<1>4. CASE ~file.there
  BY <1>2, <1>4, EndKeeps DEF open_track_file
<1>. QED  BY <1>3, <1>4

LEMMA StreamFileKeeps ==
  ASSUME StreamInv, NEW l \in Listeners, stream_file(l)
  PROVE  StreamInv'
<1>. DEFINE o == listening[l]
            range == IF o.head = NoHeader THEN [ok |-> TRUE, start |-> 0, len |-> Size(o)]
                     ELSE parse_range(o.head, Size(o))
<1>1. o \in Streams /\ StreamOK(o) /\ o.pc = "measure"
  BY DEF StreamInv, StreamTypes, stream_file
<1>2. o.permit = FALSE /\ o.sent = 0
  BY <1>1 DEF Streams, StreamOK
<1>3. Size(o) \in Nat
  BY <1>1, StreamingAssumption DEF Size, Length, Streams
<1>4. range.ok => range.start \in Nat /\ range.len \in Nat /\ range.start + range.len <= Size(o)
  <2>1. CASE o.head = NoHeader
    BY <2>1, <1>3
  <2>2. CASE o.head # NoHeader
    <3>1. o.head \in AnyHeader
      BY <1>1, <2>2 DEF Streams, Headers, Offsets, AnyHeader
    <3>. QED  BY <3>1, <2>2, <1>3, RangeInside
  <2>. QED  BY <2>1, <2>2
<1>5. CASE range.ok
  <2>. DEFINE r == [o EXCEPT !.pc = "body", !.head = NoHeader, !.from = range.start, !.due = range.len]
  <2>1. Listen(l, r)
    BY <1>5 DEF stream_file
  <2>. HIDE DEF range
  <2>2. /\ r \in Streams /\ r.pc = "body" /\ r.id = o.id /\ r.permit = FALSE /\ r.ver = o.ver
        /\ r.sent = 0 /\ r.from = range.start /\ r.due = range.len /\ r.got = o.got
        /\ r.company = o.company
    BY <1>1, <1>2, <1>4, <1>5 DEF Streams
  <2>3. StreamOK(r)
    BY <2>2, <1>1, <1>4, <1>5 DEF StreamOK, Size
  <2>. HIDE DEF r
  <2>. QED  BY <2>1, <2>2, <2>3, <1>1, <1>2, GoesOn DEF stream_file
<1>6. CASE ~range.ok
  <2>1. Listen(l, NoStream)
    BY <1>6 DEF stream_file
  <2>. QED  BY <1>2, <2>1, EndKeeps DEF stream_file
<1>. QED  BY <1>5, <1>6

LEMMA SendBodyKeeps ==
  ASSUME StreamInv, NEW l \in Listeners, SendBody(l)
  PROVE  StreamInv'
<1>. DEFINE o == listening[l]
            rest == o.sent < o.due /\ o.from + o.sent < Length(o.ver)
            r == IF rest THEN [o EXCEPT !.sent = @ + 1] ELSE [o EXCEPT !.pc = "answered"]
<1>1. o \in Streams /\ StreamOK(o) /\ o.pc = "body" /\ Listen(l, r)
  BY DEF StreamInv, StreamTypes, SendBody
<1>2. /\ r \in Streams /\ r.pc = (IF rest THEN "body" ELSE "answered") /\ r.id = o.id
      /\ r.permit = o.permit /\ r.ver = o.ver /\ r.from = o.from /\ r.due = o.due /\ r.got = o.got
      /\ r.company = o.company /\ r.sent = IF rest THEN o.sent + 1 ELSE o.sent
  BY <1>1 DEF Streams
<1>3. o.sent \in Nat /\ o.due \in Nat /\ o.from \in Nat /\ Length(o.ver) \in Nat
  BY <1>1, StreamingAssumption DEF Streams, Length
<1>4. o.from + o.due <= Length(o.ver) /\ o.sent <= o.due
  BY <1>1 DEF StreamOK
<1>5. rest => o.sent + 1 <= o.due
  BY <1>3
<1>6. ~rest => o.sent = o.due
  BY <1>3, <1>4
<1>. HIDE DEF r, rest
<1>7. StreamOK(r)
  BY <1>1, <1>2, <1>4, <1>5, <1>6 DEF StreamOK
<1>. QED  BY <1>1, <1>2, <1>7, GoesOn DEF SendBody

LEMMA EncodeKeeps ==
  ASSUME StreamInv, NEW l \in Listeners, transcode_stream_with_plan(l)
  PROVE  StreamInv'
<1>. DEFINE o == listening[l]
            r == [o EXCEPT !.pc = "pipe"]
<1>1. o \in Streams /\ StreamOK(o) /\ o.pc = "encode" /\ Listen(l, r)
  BY DEF StreamInv, StreamTypes, transcode_stream_with_plan
<1>2. /\ r \in Streams /\ r.pc = "pipe" /\ r.id = o.id /\ r.permit = o.permit /\ r.sent = o.sent
      /\ r.due = o.due /\ r.got = o.got /\ r.company = o.company
  BY <1>1 DEF Streams
<1>3. StreamOK(r)
  BY <1>1, <1>2 DEF StreamOK
<1>. HIDE DEF r
<1>. QED  BY <1>1, <1>2, <1>3, GoesOn DEF transcode_stream_with_plan

LEMMA ReadKeeps ==
  ASSUME StreamInv, NEW l \in Listeners, read_hls_playlist(l)
  PROVE  StreamInv'
<1>. DEFINE o == listening[l]
            company == marred \/ \E s \in segmenters : s.id # o.id
            r == [o EXCEPT !.pc = "answered", !.got = hls, !.company = company]
<1>1. o \in Streams /\ StreamOK(o) /\ o.pc = "read" /\ Listen(l, r)
  BY DEF StreamInv, StreamTypes, read_hls_playlist
<1>2. company \in BOOLEAN
  BY DEF StreamInv, StreamTypes
<1>3. hls = "part" => company
  BY <1>1 DEF StreamInv, PartOK, IdsOK
<1>. HIDE DEF company
<1>4. /\ r \in Streams /\ r.pc = "answered" /\ r.id = o.id /\ r.permit = o.permit /\ r.sent = o.sent
      /\ r.due = o.due /\ r.got = hls /\ r.company = company
  BY <1>1, <1>2 DEF Streams, StreamInv, StreamTypes
<1>5. o.permit = FALSE /\ o.sent = 0 /\ o.due = 0
  BY <1>1 DEF StreamOK, Streams
<1>6. StreamOK(r)
  BY <1>3, <1>4, <1>5 DEF StreamOK
<1>. HIDE DEF r
<1>. QED  BY <1>1, <1>4, <1>6, GoesOn DEF read_hls_playlist

-----------------------------------------------------------------------------
\* The playlist cache.

LEMMA ProbeKeeps ==
  ASSUME StreamInv, NEW l \in Listeners, ProbePlaylist(l)
  PROVE  StreamInv'
<1>. DEFINE o == listening[l]
            g == [o EXCEPT !.pc = "read"]
            w == [o EXCEPT !.pc = "wait"]
<1>1. o \in Streams /\ StreamOK(o) /\ o.pc = "probe" /\ o.permit = FALSE
  BY DEF StreamInv, StreamTypes, ProbePlaylist, Streams, StreamOK
<1>2. CASE hls # "none"
  <2>1. Listen(l, g)
    BY <1>2 DEF ProbePlaylist
  <2>2. /\ g \in Streams /\ g.pc = "read" /\ g.id = o.id /\ g.permit = o.permit /\ g.sent = o.sent
        /\ g.due = o.due /\ g.got = o.got /\ g.company = o.company
    BY <1>1 DEF Streams
  <2>3. StreamOK(g)
    BY <1>1, <2>2 DEF StreamOK
  <2>. HIDE DEF g
  <2>. QED  BY <1>1, <1>2, <2>1, <2>2, <2>3, GoesOn DEF ProbePlaylist
<1>3. CASE hls = "none"
  <2>. DEFINE s0 == [id |-> o.id, wrote |-> FALSE]
  <2>1. Listen(l, w) /\ segmenters' = segmenters \union {s0}
    BY <1>3 DEF ProbePlaylist
  <2>2. /\ w \in Streams /\ w.pc = "wait" /\ w.id = o.id /\ w.permit = o.permit /\ w.sent = o.sent
        /\ w.due = o.due /\ w.got = o.got /\ w.company = o.company
    BY <1>1 DEF Streams
  <2>3. StreamOK(w)
    BY <1>1, <2>2 DEF StreamOK
  <2>. HIDE DEF w
  <2>4. /\ Cardinality(Holders) \in Nat /\ Cardinality(Holders') \in Nat
        /\ Cardinality(Holders') + Weight(o.permit) = Cardinality(Holders) + Weight(w.permit)
        /\ listening' \in [Listeners -> Streams]
        /\ \A m \in Listeners : listening'[m] = IF m = l THEN w ELSE listening[m]
    BY <2>1, <2>2, HoldersMove DEF StreamInv, StreamTypes
  <2>5. Cardinality(Holders') = Cardinality(Holders)
    BY <2>2, <2>4 DEF Weight
  <2>6. UNCHANGED <<setup, file, permits, elsewhere, hls, marred, nstream>>
    BY DEF ProbePlaylist
  <2>7. s0 \in [id : Nat, wrote : BOOLEAN] /\ s0.id = o.id
    BY <1>1 DEF Streams
  <2>. HIDE DEF s0
  <2>8. StreamTypes'
    BY <2>1, <2>4, <2>6, <2>7 DEF StreamInv, StreamTypes
  <2>9. \A m \in Listeners : StreamOK(listening'[m])
    BY <2>3, <2>4 DEF StreamInv
  <2>10. IdsOK'
    <3>1. \A m \in Listeners : listening'[m].id = listening[m].id /\ (listening'[m].pc # "idle" <=> listening[m].pc # "idle")
      BY <2>2, <2>4, <1>1
    <3>2. \A m \in Listeners : listening'[m].pc \in {"probe", "read"} => m # l /\ listening[m].pc \in {"probe", "read"}
      BY <2>2, <2>4
    <3>3. \A m \in Listeners : listening[m].pc \in {"probe", "read"} /\ m # l => listening[m].id # s0.id
      BY <1>1, <2>7 DEF StreamInv, IdsOK
    <3>4. \A s \in segmenters : s.id # s0.id
      BY <1>1, <2>7 DEF StreamInv, IdsOK
    <3>5. s0.id <= nstream
      BY <2>7 DEF StreamInv, IdsOK
    <3>. QED  BY <3>1, <3>2, <3>3, <3>4, <3>5, <2>1, <2>6 DEF StreamInv, IdsOK
  <2>11. PartOK'
    BY <1>3, <2>6 DEF PartOK
  <2>12. PermitsKept'
    BY <2>5, <2>6 DEF StreamInv, PermitsKept, Holders
  <2>. QED  BY <2>8, <2>9, <2>10, <2>11, <2>12 DEF StreamInv
<1>. QED  BY <1>2, <1>3

LEMMA WritesKeeps ==
  ASSUME StreamInv, NEW s \in segmenters, SegmenterWrites(s)
  PROVE  StreamInv'
<1>. DEFINE w == [s EXCEPT !.wrote = TRUE]
<1>1. /\ segmenters' = (segmenters \ {s}) \union {w} /\ hls' = "part"
      /\ UNCHANGED <<setup, file, listening, permits, elsewhere, marred, nstream>>
  BY DEF SegmenterWrites
<1>2. w \in [id : Nat, wrote : BOOLEAN] /\ w.id = s.id /\ w.wrote = TRUE
  BY DEF StreamInv, StreamTypes
<1>. HIDE DEF w
<1>3. StreamTypes'
  BY <1>1, <1>2 DEF StreamInv, StreamTypes
<1>4. IdsOK'
  BY <1>1, <1>2 DEF StreamInv, IdsOK
<1>5. PartOK'
  BY <1>1, <1>2 DEF PartOK
<1>6. PermitsKept'
  BY <1>1 DEF StreamInv, PermitsKept
<1>. QED  BY <1>1, <1>3, <1>4, <1>5, <1>6 DEF StreamInv

(* A segmenter ends: those that wait for it go on with record f, which     *)
(* holds no permit.                                                        *)
LEMMA SegmenterEnds ==
  ASSUME StreamInv, NEW s \in segmenters, segmenters' = segmenters \ {s},
         NEW f \in [Waiting(s) -> Streams],
         \A l \in Waiting(s) : /\ StreamOK(f[l]) /\ f[l].permit = FALSE
                               /\ f[l] = NoStream \/ f[l].id = listening[l].id,
         listening' = [l \in Listeners |-> IF l \in Waiting(s) THEN f[l] ELSE listening[l]],
         marred' \in BOOLEAN, hls' \in {"none", "part", "whole"}, PartOK',
         UNCHANGED <<setup, file, permits, elsewhere, nstream>>
  PROVE  StreamInv'
<1>. USE DEF StreamInv
<1>1. \A l \in Waiting(s) : l \in Listeners /\ listening[l].pc = "wait" /\ listening[l].id = s.id
  BY DEF Waiting
<1>2. listening' \in [Listeners -> Streams]
  BY DEF StreamTypes
<1>3. \A l \in Listeners : listening'[l] = IF l \in Waiting(s) THEN f[l] ELSE listening[l]
  OBVIOUS
<1>4. StreamTypes'
  BY <1>2 DEF StreamTypes
<1>5. \A l \in Listeners : StreamOK(listening'[l])
  BY <1>3
<1>6. IdsOK'
  <2>1. \A l \in Listeners : listening'[l].id <= nstream
    BY <1>3, NoStreamFacts DEF IdsOK, StreamTypes
  <2>2. \A l, m \in Listeners :
          l # m /\ listening'[l].pc # "idle" /\ listening'[m].pc # "idle" => listening'[l].id # listening'[m].id
    BY <1>1, <1>3, NoStreamFacts DEF IdsOK
  <2>3. \A l \in Listeners, t \in segmenters' :
          listening'[l].pc \in {"probe", "read"} => t.id # listening'[l].id
    BY <1>1, <1>3, NoStreamFacts DEF IdsOK
  <2>. QED  BY <2>1, <2>2, <2>3 DEF IdsOK
<1>7. PermitsKept'
  <2>1. Holders' = Holders
    BY <1>1, <1>3 DEF Holders, StreamOK, StreamTypes, Streams
  <2>. QED  BY <2>1 DEF PermitsKept, Holders
<1>. QED  BY <1>4, <1>5, <1>6, <1>7

LEMMA GenerateKeeps ==
  ASSUME StreamInv, NEW s \in segmenters, generate_hls_playlist(s)
  PROVE  StreamInv'
<1>. DEFINE f == [l \in Waiting(s) |-> [listening[l] EXCEPT !.pc = "read"]]
<1>1. ASSUME NEW l \in Waiting(s)
      PROVE  /\ f[l] \in Streams /\ f[l].permit = FALSE /\ f[l].id = listening[l].id /\ StreamOK(f[l])
  <2>1. listening[l] \in Streams /\ StreamOK(listening[l]) /\ listening[l].pc = "wait"
    BY DEF Waiting, StreamInv, StreamTypes
  <2>2. f[l] = [listening[l] EXCEPT !.pc = "read"]
    OBVIOUS
  <2>3. /\ f[l] \in Streams /\ f[l].pc = "read" /\ f[l].permit = listening[l].permit
        /\ f[l].id = listening[l].id /\ f[l].sent = listening[l].sent /\ f[l].due = listening[l].due
        /\ f[l].got = listening[l].got /\ f[l].company = listening[l].company
    BY <2>1, <2>2 DEF Streams
  <2>. HIDE DEF f
  <2>4. listening[l].permit = FALSE
    BY <2>1 DEF StreamOK, Streams
  <2>. QED  BY <2>1, <2>3, <2>4 DEF StreamOK
<1>2. f \in [Waiting(s) -> Streams]
  BY <1>1
<1>3. listening' = [l \in Listeners |-> IF l \in Waiting(s) THEN f[l] ELSE listening[l]]
  BY DEF generate_hls_playlist
<1>. HIDE DEF f
<1>4. PartOK' /\ marred' \in BOOLEAN /\ hls' \in {"none", "part", "whole"}
  BY DEF generate_hls_playlist, PartOK
<1>. QED  BY <1>1, <1>2, <1>3, <1>4, SegmenterEnds DEF generate_hls_playlist

LEMMA FailsKeeps ==
  ASSUME StreamInv, NEW s \in segmenters, SegmenterFails(s)
  PROVE  StreamInv'
<1>. DEFINE f == [l \in Waiting(s) |-> NoStream]
<1>1. f \in [Waiting(s) -> Streams] /\ \A l \in Waiting(s) : f[l] = NoStream
  BY NoStreamFacts
<1>2. listening' = [l \in Listeners |-> IF l \in Waiting(s) THEN f[l] ELSE listening[l]]
  BY DEF SegmenterFails
<1>. HIDE DEF f
<1>3. s.wrote \in BOOLEAN /\ marred \in BOOLEAN
  BY DEF StreamInv, StreamTypes
<1>4. marred' \in BOOLEAN /\ hls' \in {"none", "part", "whole"}
  BY <1>3 DEF SegmenterFails, StreamInv, StreamTypes
<1>5. PartOK'
  <2>1. segmenters' = segmenters \ {s} /\ hls' = hls /\ (marred' <=> marred \/ s.wrote)
    BY <1>3 DEF SegmenterFails
  <2>2. ASSUME NEW t \in segmenters, t.wrote
        PROVE  marred' \/ \E u \in segmenters' : u.wrote
    BY <2>1, <2>2
  <2>. QED  BY <2>1, <2>2 DEF StreamInv, PartOK
<1>. QED  BY <1>1, <1>2, <1>4, <1>5, NoStreamFacts, SegmenterEnds DEF SegmenterFails

-----------------------------------------------------------------------------
\* The surroundings.

LEMMA StreamRestartKeeps ==
  ASSUME StreamInv, StreamRestart
  PROVE  StreamInv'
<1>. USE DEF StreamInv, StreamRestart
<1>1. \A l \in Listeners : listening'[l] = NoStream
  OBVIOUS
<1>2. StreamTypes'
  <2>1. \A s \in segmenters : s.wrote \in BOOLEAN
    BY DEF StreamTypes
  <2>2. marred' \in BOOLEAN
    BY DEF StreamTypes
  <2>. QED  BY <2>2, NoStreamFacts, PermitsNat DEF StreamTypes
<1>3. \A l \in Listeners : StreamOK(listening'[l])
  BY <1>1, NoStreamFacts
<1>4. IdsOK'
  BY <1>1, NoStreamFacts DEF IdsOK, StreamTypes
<1>5. PartOK'
  BY DEF PartOK
<1>6. PermitsKept'
  <2>1. Holders' = {}
    BY <1>1, NoStreamFacts DEF Holders
  <2>2. Cardinality(Holders') = 0
    BY <2>1, FS_EmptySet
  <2>3. permits' + elsewhere' + 0 = max_transcodes(setup'.resource)
    BY PermitsNat
  <2>. QED  BY <2>2, <2>3 DEF PermitsKept, Holders
<1>. QED  BY <1>2, <1>3, <1>4, <1>5, <1>6

LEMMA OtherEndsKeeps ==
  ASSUME StreamInv, OtherEnds
  PROVE  StreamInv'
<1>. USE DEF StreamInv, OtherEnds
<1>1. StreamTypes'
  BY DEF StreamTypes
<1>2. PermitsKept'
  <2>1. Holders' = Holders /\ Cardinality(Holders) \in Nat
    BY StreamingAssumption, FS_Subset, FS_CardinalityType DEF Holders
  <2>2. permits' + elsewhere' + Cardinality(Holders) = max_transcodes(setup'.resource)
    BY <2>1, PermitsAre, PermitsNat DEF StreamTypes
  <2>. QED  BY <2>1, <2>2 DEF PermitsKept, Holders
<1>. QED  BY <1>1, <1>2 DEF IdsOK, PartOK

LEMMA FileChangesKeeps ==
  ASSUME StreamInv, FileChanges
  PROVE  StreamInv'
<1>. USE DEF StreamInv
<1>0. UNCHANGED <<setup, listening, permits, elsewhere, hls, segmenters, marred, nstream>>
  BY DEF FileChanges
<1>1. file' \in [ver : 1 .. MaxVersions, there : BOOLEAN]
  <2>1. CASE file.ver < MaxVersions /\ file' = [ver |-> file.ver + 1, there |-> TRUE]
    BY <2>1, StreamingAssumption DEF StreamTypes
  <2>2. CASE file' = [file EXCEPT !.there = FALSE]
    BY <2>2 DEF StreamTypes
  <2>. QED  BY <2>1, <2>2 DEF FileChanges
<1>2. StreamTypes'
  BY <1>0, <1>1 DEF StreamTypes
<1>. QED  BY <1>0, <1>2 DEF IdsOK, PartOK, PermitsKept

-----------------------------------------------------------------------------
LEMMA StreamInitial == StreamInit => StreamInv
<1>. SUFFICES ASSUME StreamInit PROVE StreamInv
  OBVIOUS
<1>. USE DEF StreamInit
<1>1. \A l \in Listeners : listening[l] = NoStream
  OBVIOUS
<1>2. elsewhere \in Nat /\ permits \in Nat /\ permits + elsewhere = max_transcodes(setup.resource)
  BY PermitsNat DEF AtMost
<1>3. StreamTypes
  <2>1. file \in [ver : 1 .. MaxVersions, there : BOOLEAN]
    BY StreamingAssumption
  <2>. QED  BY <1>2, <2>1, NoStreamFacts DEF StreamTypes
<1>4. IdsOK
  BY <1>1, NoStreamFacts DEF IdsOK
<1>5. PermitsKept
  <2>1. Holders = {}
    BY <1>1, NoStreamFacts DEF Holders
  <2>2. Cardinality(Holders) = 0
    BY <2>1, FS_EmptySet
  <2>. QED  BY <2>2, <1>2, PermitsNat, PermitsAre
<1>. QED  BY <1>1, <1>3, <1>4, <1>5, NoStreamFacts DEF StreamInv, PartOK

LEMMA StreamInductive == StreamInv /\ [StreamNext]_streamVars => StreamInv'
<1>. SUFFICES ASSUME StreamInv, [StreamNext]_streamVars PROVE StreamInv'
  OBVIOUS
<1>1. ASSUME NEW l \in Listeners, NEW h \in Sent,
             AskPlain(l, h) \/ AskDownload(l, h) \/ AskSubsonic(l, h)
      PROVE  StreamInv'
  BY <1>1, AskFileKeeps DEF AskPlain, AskDownload, AskSubsonic
<1>2. ASSUME NEW l \in Listeners, EncodeFails(l) \/ PipeEnds(l) \/ HangUp(l)
      PROVE  StreamInv'
  BY <1>2, LeaveKeeps DEF EncodeFails, PipeEnds, HangUp
<1>3. ASSUME UNCHANGED streamVars
      PROVE  StreamInv'
  BY <1>3 DEF streamVars, StreamInv, StreamTypes, IdsOK, PartOK, PermitsKept
<1>. QED
  BY <1>1, <1>2, <1>3, AskV1Keeps, AskLegacyKeeps, OpenKeeps, StreamFileKeeps, SendBodyKeeps,
     EncodeKeeps, ReadKeeps, ProbeKeeps, WritesKeeps, GenerateKeeps, FailsKeeps, StreamRestartKeeps,
     OtherEndsKeeps, FileChangesKeeps DEF StreamNext

(* What each request holds at each stage, the ids of the ffmpeg processes  *)
(* and the balance of the semaphore hold throughout, under hang-ups,       *)
(* failures, a file that changes and restarts.                             *)
THEOREM StreamsInvariant == StreamSpec => []StreamInv
BY StreamInitial, StreamInductive, PTL DEF StreamSpec

(* Decisions keep to the configuration, ranges are the bytes they name, a  *)
(* body that was sent to the end has the promised length, permits are      *)
(* neither lost nor doubled, and a playlist made alone is whole.           *)
THEOREM StreamsAreHonest == StreamSpec => []StreamsHonest
<1>1. StreamInv => StreamsHonest
  BY DecisionsAllRight, RangesAllRight
     DEF StreamInv, StreamsHonest, StreamOK, BodiesWhole, PlaylistsWhole
<1>. QED  BY <1>1, StreamsInvariant, PTL

-----------------------------------------------------------------------------
(***************************************************************************)
(* Playlists                                                               *)
(***************************************************************************)
(* Sets of numbers have a least member.                                    *)
LEMMA LeastNumber ==
  ASSUME NEW S \in SUBSET Nat, NEW k \in S
  PROVE  \E n \in S : \A m \in S : n <= m
<1>. DEFINE R == OpToRel(<, Nat)
<1>1. PICK n \in S : \A m \in S : ~(<<m, n>> \in R)
  <2>. HIDE DEF R
  <2>1. IsWellFoundedOn(R, Nat)
    BY NatLessThanWellFounded DEF R
  <2>. QED  BY <2>1, WFMin
<1>2. \A m \in S : ~(m < n)
  BY <1>1 DEF OpToRel
<1>. QED  BY <1>2

(* The greatest of a finite set of numbers.                                *)
LEMMA HasGreatest ==
  ASSUME NEW S \in SUBSET Nat, IsFiniteSet(S), S # {}
  PROVE  Max(S) \in S /\ Max(S) \in Nat /\ \A q \in S : q <= Max(S)
<1>. DEFINE Above(x) == {y \in S : y > x}
            N == {Cardinality(Above(x)) : x \in S}
<1>1. ASSUME NEW x \in S PROVE IsFiniteSet(Above(x)) /\ Cardinality(Above(x)) \in Nat
  BY FS_Subset, FS_CardinalityType
<1>2. N \in SUBSET Nat /\ N # {}
  BY <1>1
<1>3. PICK n \in N : \A m \in N : n <= m
  <2>. HIDE DEF N
  <2>. QED  BY <1>2, LeastNumber
<1>4. PICK x \in S : n = Cardinality(Above(x))
  BY <1>3
<1>5. ASSUME NEW y \in S, y > x PROVE FALSE
  <2>0. \A z \in S : z \in Nat
    OBVIOUS
  <2>1. Above(y) \in SUBSET Above(x) /\ y \in Above(x) /\ y \notin Above(y)
    <3>1. \A z \in S : z > y => z > x
      BY <1>5, <2>0
    <3>2. ~(y > y)
      BY <2>0
    <3>. QED  BY <1>5, <3>1, <3>2
  <2>2. /\ Cardinality(Above(y)) <= Cardinality(Above(x))
        /\ Cardinality(Above(y)) # Cardinality(Above(x))
    <3>. HIDE DEF Above
    <3>. QED  BY <2>1, <1>1, FS_Subset
  <2>3. Cardinality(Above(y)) \in N
    OBVIOUS
  <2>. HIDE DEF Above, N
  <2>. QED  BY <2>2, <2>3, <1>1, <1>3, <1>4
<1>6. \A q \in S : x >= q
  BY <1>5
<1>7. Max(S) \in S /\ \A q \in S : Max(S) >= q
  BY <1>6 DEF Max
<1>. QED  BY <1>7

\* The inductive invariant.

Texts == [name : {0, 1}, desc : {0, 1}]
ListRows == [st : {"new", "live", "gone"}, text : Texts, count : Nat]
Entries == [pos : Nat, song : Songs, born : Nat, ack : Nat]
Calls ==
  [op : {"none", "build", "add", "remove", "name", "desc"},
   pc : {"idle", "create", "read", "insert", "count", "write"},
   l : Lists \union {"none"}, todo : Seq(Songs), pos : Nat, born : Nat, given : SUBSET Songs, text : Texts]

PlTypes ==
  /\ pl \in [Lists -> ListRows] /\ entries \in [Lists -> SUBSET Entries] /\ songs \in SUBSET Songs
  /\ call \in [Clients -> Calls] /\ clock \in Nat /\ meant \in [Lists -> Texts]
  /\ muddled \in [Lists -> SUBSET {"built", "text", "count"}]

\* Which request has which steps.
CallShape(r) ==
  /\ r.op = "none" <=> r.pc = "idle"
  /\ r.op # "none" => r.l \in Lists
  /\ r.op = "build" => r.pc \in {"create", "read", "insert", "count"}
  /\ r.op = "add" => r.pc \in {"read", "insert", "count"}
  /\ r.op = "remove" => r.pc = "count"
  /\ r.op \in {"name", "desc"} <=> r.pc = "write"
  /\ r.op \in {"add", "build"} /\ r.pc \in {"insert", "count"} => r.todo # <<>>
  /\ r.pc = "create" => r.op = "build" /\ \A s \in r.given : \E i \in 1 .. Len(r.todo) : r.todo[i] = s

\* A list nobody created yet is blank, and only a request that is going to create it knows of it.
BlankOK(l, row, S, m, cl) ==
  row.st = "new" =>
    /\ row.text = Fresh /\ m = Fresh /\ row.count = 0 /\ S = {}
    /\ \A c \in Clients : cl[c].l = l => cl[c].pc \in {"idle", "create"}

\* Positions are distinct, and an entry stands after those answered before it began.
OrderOK(S, now) ==
  /\ IsFiniteSet(S)
  /\ \A e, f \in S : e.pos = f.pos => e = f
  /\ \A e \in S : e.born <= now /\ e.ack <= now
  /\ \A e, f \in S : e.ack # 0 /\ f.born >= e.ack => e.pos < f.pos

\* The position a request read comes after the entries answered until then.
PlaceOK(r, S, now) ==
  r.pc = "insert" => r.born <= now /\ \A e \in S : e.ack # 0 /\ r.born >= e.ack => e.pos < r.pos

\* The count is right, or about to be corrected, or spoilt.
Counts(c, l, cl) == cl[c].l = l /\ cl[c].pc = "count"
CountOK(l, row, S, tags, cl) ==
  row.st = "live" /\ "count" \notin tags /\ (\A c \in Clients : ~Counts(c, l, cl)) => row.count = Cardinality(S)

\* Of a list nobody else changes, what an import found is in it or to come.
Lists1(S, s) == \E e \in S : e.song = s
BuildOK(r, row, S, tags, ss) ==
  r.op = "build" /\ row.st = "live" /\ "built" \notin tags =>
    /\ \A s \in r.given \intersect ss : Lists1(S, s) \/ \E i \in 1 .. Len(r.todo) : r.todo[i] = s
    /\ r.pc = "insert" => \A e \in S : e.pos # r.pos
    /\ r.pc = "count" => (Head(r.todo) \in ss => Lists1(S, Head(r.todo)))

\* Of a list whose updates do not overlap, one is under way at most, and it read the text as it is.
Updates(c, l, cl) == cl[c].l = l /\ cl[c].pc = "write"
TextOK(l, row, tags, m, cl) ==
  "text" \notin tags =>
    /\ row.st = "live" => row.text = m
    /\ \A c, d \in Clients : Updates(c, l, cl) /\ Updates(d, l, cl) => c = d
    /\ \A c \in Clients : Updates(c, l, cl) => cl[c].text = row.text

ListOK(l, row, S, tags, m, ss, now, cl) ==
  /\ BlankOK(l, row, S, m, cl) /\ OrderOK(S, now) /\ CountOK(l, row, S, tags, cl)
  /\ TextOK(l, row, tags, m, cl)
  /\ \A c \in Clients : cl[c].l = l => PlaceOK(cl[c], S, now) /\ BuildOK(cl[c], row, S, tags, ss)

PlInv ==
  /\ PlTypes /\ \A c \in Clients : CallShape(call[c])
  /\ \A l \in Lists : ListOK(l, pl[l], entries[l], muddled[l], meant[l], songs, clock, call)
  /\ missing = {}

-----------------------------------------------------------------------------
LEMMA NoCallFacts ==
  /\ NoCall \in Calls /\ CallShape(NoCall) /\ NoCall.op = "none" /\ NoCall.pc = "idle"
  /\ Fresh \in Texts
<1>1. Fresh \in Texts /\ <<>> \in Seq(Songs)
  BY EmptySeq DEF Fresh, Texts
<1>2. NoCall \in Calls /\ NoCall.op = "none" /\ NoCall.pc = "idle"
  BY <1>1 DEF NoCall, Calls, Texts
<1>. QED  BY <1>1, <1>2 DEF CallShape

(* A step that changes requests, but begins no recount and no update, and  *)
(* drops no recount unnoticed.                                             *)
LEMMA CallsMove ==
  ASSUME NEW l, NEW row, NEW S \in SUBSET Entries, NEW tags, NEW m, NEW ss, NEW now \in Nat, NEW cl,
         ListOK(l, row, S, tags, m, ss, now, cl),
         NEW tags2, NEW now2 \in Nat, NEW cl2, tags \subseteq tags2, now <= now2,
         \A c \in Clients :
           \/ cl2[c] = cl[c] /\ cl[c] \in Calls
           \/ /\ ~Counts(c, l, cl2) /\ ~Updates(c, l, cl2) /\ (Counts(c, l, cl) => "count" \in tags2)
              /\ cl2[c].l = l =>
                   /\ PlaceOK(cl2[c], S, now2) /\ BuildOK(cl2[c], row, S, tags2, ss)
                   /\ row.st = "new" => cl2[c].pc \in {"idle", "create"}
  PROVE  ListOK(l, row, S, tags2, m, ss, now2, cl2)
<1>1. BlankOK(l, row, S, m, cl2)
  BY DEF ListOK, BlankOK
<1>2. OrderOK(S, now2)
  BY DEF ListOK, OrderOK, Entries
<1>3. CountOK(l, row, S, tags2, cl2)
  BY DEF ListOK, CountOK, Counts
<1>4. TextOK(l, row, tags2, m, cl2)
  BY DEF ListOK, TextOK, Updates
<1>5. ASSUME NEW c \in Clients, cl2[c].l = l
      PROVE  PlaceOK(cl2[c], S, now2) /\ BuildOK(cl2[c], row, S, tags2, ss)
  <2>1. CASE cl2[c] = cl[c] /\ cl[c] \in Calls
    <3>1. PlaceOK(cl[c], S, now) /\ BuildOK(cl[c], row, S, tags, ss)
      BY <1>5, <2>1 DEF ListOK
    <3>2. PlaceOK(cl[c], S, now2)
      BY <2>1, <3>1 DEF PlaceOK, Calls
    <3>3. BuildOK(cl[c], row, S, tags2, ss)
      BY <3>1 DEF BuildOK
    <3>. QED  BY <2>1, <3>2, <3>3
  <2>2. CASE ~(cl2[c] = cl[c] /\ cl[c] \in Calls)
    BY <1>5, <2>2
  <2>. QED  BY <2>1, <2>2
<1>. QED  BY <1>1, <1>2, <1>3, <1>4, <1>5 DEF ListOK

LEMMA PlFacts ==
  ASSUME PlInv
  PROVE  /\ pl \in [Lists -> ListRows] /\ entries \in [Lists -> SUBSET Entries] /\ songs \in SUBSET Songs
         /\ call \in [Clients -> Calls] /\ clock \in Nat /\ meant \in [Lists -> Texts]
         /\ muddled \in [Lists -> SUBSET {"built", "text", "count"}]
         /\ \A c \in Clients : CallShape(call[c])
         /\ \A l \in Lists : ListOK(l, pl[l], entries[l], muddled[l], meant[l], songs, clock, call)
         /\ missing = {}
  BY DEF PlInv, PlTypes

(* A step of one request on one list: what is left to show of it.          *)
LEMMA OneList ==
  ASSUME PlInv, NEW c \in Clients, NEW l \in Lists, NEW r \in Calls, CallShape(r),
         call' = [call EXCEPT ![c] = r], r.l = l \/ r.pc = "idle", call[c].l = l \/ call[c].pc = "idle",
         pl' \in [Lists -> ListRows], entries' \in [Lists -> SUBSET Entries], songs' = songs,
         clock' \in Nat, clock <= clock', meant' \in [Lists -> Texts],
         muddled' \in [Lists -> SUBSET {"built", "text", "count"}],
         \A k \in Lists \ {l} : /\ pl'[k] = pl[k] /\ entries'[k] = entries[k] /\ muddled'[k] = muddled[k]
                                /\ meant'[k] = meant[k],
         ListOK(l, pl'[l], entries'[l], muddled'[l], meant'[l], songs, clock', call'), missing' = {}
  PROVE  PlInv'
<1>1. call' \in [Clients -> Calls] /\ \A d \in Clients : CallShape(call'[d])
  BY PlFacts
<1>2. ASSUME NEW k \in Lists, k # l
      PROVE  ListOK(k, pl[k], entries[k], muddled[k], meant[k], songs, clock', call')
  <2>1. ASSUME NEW d \in Clients
        PROVE  \/ call'[d] = call[d] /\ call[d] \in Calls
               \/ /\ ~Counts(d, k, call') /\ ~Updates(d, k, call') /\ (Counts(d, k, call) => "count" \in muddled[k])
                  /\ call'[d].l = k =>
                       /\ PlaceOK(call'[d], entries[k], clock')
                       /\ BuildOK(call'[d], pl[k], entries[k], muddled[k], songs)
                       /\ pl[k].st = "new" => call'[d].pc \in {"idle", "create"}
    <3>1. CASE d # c
      BY <3>1, PlFacts
    <3>2. CASE d = c
      <4>1. call'[d] = r
        BY <3>2, PlFacts
      <4>2. r.l = k => r.pc = "idle" /\ r.op = "none"
        BY <1>2 DEF CallShape
      <4>3. ~Counts(d, k, call)
        BY <1>2, <3>2 DEF Counts
      <4>. QED  BY <4>1, <4>2, <4>3 DEF Counts, Updates, PlaceOK, BuildOK
    <3>. QED  BY <3>1, <3>2
  <2>2. /\ ListOK(k, pl[k], entries[k], muddled[k], meant[k], songs, clock, call)
        /\ entries[k] \in SUBSET Entries
    BY PlFacts
  <2>3. muddled[k] \subseteq muddled[k] /\ clock \in Nat
    BY PlFacts
  <2>. QED  BY <2>1, <2>2, <2>3, CallsMove
<1>3. \A k \in Lists : ListOK(k, pl'[k], entries'[k], muddled'[k], meant'[k], songs', clock', call')
  BY <1>2
<1>. QED  BY <1>1, <1>3, PlFacts DEF PlInv, PlTypes

(* A step that changes one request and neither lists nor entries.          *)
LEMMA CallStep ==
  ASSUME PlInv, NEW c \in Clients, NEW l \in Lists, NEW r \in Calls, CallShape(r),
         call' = [call EXCEPT ![c] = r], r.l = l \/ r.pc = "idle", call[c].l = l \/ call[c].pc = "idle",
         UNCHANGED <<pl, entries, songs, meant>>, clock' \in Nat, clock <= clock',
         muddled' \in [Lists -> SUBSET {"built", "text", "count"}], muddled[l] \subseteq muddled'[l],
         \A k \in Lists \ {l} : muddled'[k] = muddled[k],
         r.pc \notin {"count", "write"}, call[c].pc = "count" => "count" \in muddled'[l],
         r.pc # "idle" => /\ PlaceOK(r, entries[l], clock') /\ BuildOK(r, pl[l], entries[l], muddled'[l], songs)
                          /\ pl[l].st = "new" => r.pc = "create",
         missing' = {}
  PROVE  PlInv'
<1>1. ASSUME NEW d \in Clients
      PROVE  \/ call'[d] = call[d] /\ call[d] \in Calls
             \/ /\ ~Counts(d, l, call') /\ ~Updates(d, l, call') /\ (Counts(d, l, call) => "count" \in muddled'[l])
                /\ call'[d].l = l =>
                     /\ PlaceOK(call'[d], entries[l], clock')
                     /\ BuildOK(call'[d], pl[l], entries[l], muddled'[l], songs)
                     /\ pl[l].st = "new" => call'[d].pc \in {"idle", "create"}
  <2>1. CASE d # c
    BY <2>1, PlFacts
  <2>2. CASE d = c
    <3>1. call'[d] = r
      BY <2>2, PlFacts
    <3>2. r.pc = "idle" => r.op = "none"
      BY DEF CallShape
    <3>. QED  BY <2>2, <3>1, <3>2 DEF Counts, Updates, PlaceOK, BuildOK
  <2>. QED  BY <2>1, <2>2
<1>2. /\ ListOK(l, pl[l], entries[l], muddled[l], meant[l], songs, clock, call) /\ entries[l] \in SUBSET Entries
      /\ clock \in Nat
  BY PlFacts
<1>3. ListOK(l, pl[l], entries[l], muddled'[l], meant[l], songs, clock', call')
  <2>. DEFINE t == muddled'[l]
              n == clock'
              cl == call'
  <2>1. n \in Nat /\ clock <= n /\ muddled[l] \subseteq t
    OBVIOUS
  <2>2. \A d \in Clients :
           \/ cl[d] = call[d] /\ call[d] \in Calls
           \/ /\ ~Counts(d, l, cl) /\ ~Updates(d, l, cl) /\ (Counts(d, l, call) => "count" \in t)
              /\ cl[d].l = l =>
                   /\ PlaceOK(cl[d], entries[l], n) /\ BuildOK(cl[d], pl[l], entries[l], t, songs)
                   /\ pl[l].st = "new" => cl[d].pc \in {"idle", "create"}
    BY <1>1
  <2>. HIDE DEF t, n, cl
  <2>3. ListOK(l, pl[l], entries[l], t, meant[l], songs, n, cl)
    BY <1>2, <2>1, <2>2, CallsMove
  <2>. QED  BY <2>3 DEF t, n, cl
<1>4. ListOK(l, pl'[l], entries'[l], muddled'[l], meant'[l], songs, clock', call')
  BY <1>3
<1>. QED  BY <1>4, PlFacts, OneList

LEMMA FindKeeps ==
  ASSUME PlInv, NEW c \in Clients, NEW l \in Lists, FindTracks(c, l)
  PROVE  PlInv'
<1>1. PICK a \in songs, b \in songs :
        Begin(c, [NoCall EXCEPT !.op = "build", !.pc = "create", !.l = l, !.todo = <<a, b>>, !.given = {a, b}])
  BY DEF FindTracks
<1>. DEFINE r == [NoCall EXCEPT !.op = "build", !.pc = "create", !.l = l, !.todo = <<a, b>>, !.given = {a, b}]
<1>2. /\ call[c].pc = "idle" /\ call' = [call EXCEPT ![c] = r] /\ pl[l].st = "new"
      /\ UNCHANGED <<pl, entries, songs, clock, meant, muddled, missing>>
  BY <1>1 DEF FindTracks, Begin
<1>3. a \in Songs /\ b \in Songs
  BY PlFacts
<1>4. <<a, b>> \in Seq(Songs) /\ \A s \in {a, b} : \E i \in 1 .. Len(<<a, b>>) : <<a, b>>[i] = s
  <2>1. <<a, b>> \in Seq(Songs) /\ Len(<<a, b>>) = 2 /\ <<a, b>>[1] = a /\ <<a, b>>[2] = b
    BY <1>3
  <2>2. 1 \in 1 .. 2 /\ 2 \in 1 .. 2
    OBVIOUS
  <2>. QED  BY <2>1, <2>2
<1>5. /\ r \in Calls /\ r.op = "build" /\ r.pc = "create" /\ r.l = l /\ r.todo = <<a, b>> /\ r.given = {a, b}
  BY <1>3, <1>4, NoCallFacts DEF Calls
<1>. HIDE DEF r
<1>6. CallShape(r)
  BY <1>4, <1>5 DEF CallShape
<1>7. PlaceOK(r, entries[l], clock') /\ BuildOK(r, pl[l], entries[l], muddled'[l], songs)
  BY <1>2, <1>5 DEF PlaceOK, BuildOK
<1>8. clock' \in Nat /\ clock <= clock' /\ missing' = {}
  BY <1>2, PlFacts
<1>. QED  BY <1>2, <1>5, <1>6, <1>7, <1>8, PlFacts, CallStep

LEMMA AddTrackKeeps ==
  ASSUME PlInv, NEW c \in Clients, NEW l \in Lists, NEW s \in Songs, AddTrack(c, l, s)
  PROVE  PlInv'
<1>. DEFINE r == [NoCall EXCEPT !.op = "add", !.pc = "read", !.l = l, !.todo = <<s>>]
<1>2. /\ call[c].pc = "idle" /\ call' = [call EXCEPT ![c] = r] /\ pl[l].st # "new"
      /\ UNCHANGED <<pl, entries, songs, clock, meant, muddled, missing>>
  BY DEF AddTrack, Begin
<1>4. <<s>> \in Seq(Songs)
  OBVIOUS
<1>5. r \in Calls /\ r.op = "add" /\ r.pc = "read" /\ r.l = l
  BY <1>4, NoCallFacts DEF Calls
<1>. HIDE DEF r
<1>6. CallShape(r)
  BY <1>5 DEF CallShape
<1>7. PlaceOK(r, entries[l], clock') /\ BuildOK(r, pl[l], entries[l], muddled'[l], songs)
  BY <1>2, <1>5 DEF PlaceOK, BuildOK
<1>8. clock' \in Nat /\ clock <= clock' /\ missing' = {}
  BY <1>2, PlFacts
<1>. QED  BY <1>2, <1>5, <1>6, <1>7, <1>8, PlFacts, CallStep

LEMMA BuildAnswersKeeps ==
  ASSUME PlInv, NEW c \in Clients, BuildAnswers(c)
  PROVE  PlInv'
<1>. DEFINE r == call[c]
            l == r.l
<1>1. /\ r.op = "build" /\ r.pc = "read" /\ r.todo = <<>> /\ call' = [call EXCEPT ![c] = NoCall] /\ clock' = clock + 1
      /\ UNCHANGED <<pl, entries, songs, meant, muddled>>
      /\ missing' = IF Live(l) /\ "built" \notin muddled[l] THEN missing \union ((r.given \intersect songs) \ SongsOf(l)) ELSE missing
  BY DEF BuildAnswers, Answer
<1>2. l \in Lists /\ r \in Calls
  BY <1>1, PlFacts DEF CallShape
<1>3. BuildOK(r, pl[l], entries[l], muddled[l], songs)
  BY <1>2, PlFacts DEF ListOK
<1>4. missing' = {}
  <2>1. CASE Live(l) /\ "built" \notin muddled[l]
    <3>1. \A s \in r.given \intersect songs : Lists1(entries[l], s)
      BY <1>1, <1>3, <2>1 DEF BuildOK, Live
    <3>2. (r.given \intersect songs) \ SongsOf(l) = {}
      BY <3>1 DEF Lists1, SongsOf
    <3>. QED  BY <1>1, <2>1, <3>2, PlFacts
  <2>2. CASE ~(Live(l) /\ "built" \notin muddled[l])
    BY <1>1, <2>2, PlFacts
  <2>. QED  BY <2>1, <2>2
<1>5. clock' \in Nat /\ clock <= clock'
  BY <1>1, PlFacts
<1>6. call[c].l = l /\ call[c].pc # "count"
  BY <1>1
<1>. HIDE DEF r, l
<1>. QED  BY <1>1, <1>2, <1>4, <1>5, <1>6, NoCallFacts, PlFacts, CallStep

LEMMA DropCallKeeps ==
  ASSUME PlInv, NEW c \in Clients, DropCall(c)
  PROVE  PlInv'
<1>. DEFINE l == call[c].l
<1>1. /\ call[c].pc # "idle" /\ call' = [call EXCEPT ![c] = NoCall] /\ UNCHANGED <<pl, entries, songs, clock, meant, missing>>
      /\ muddled' = IF call[c].pc = "count" THEN [muddled EXCEPT ![l] = @ \union {"count"}] ELSE muddled
  BY DEF DropCall
<1>2. l \in Lists /\ call[c].l = l
  BY <1>1, PlFacts DEF CallShape
<1>3. /\ muddled' \in [Lists -> SUBSET {"built", "text", "count"}] /\ muddled[l] \subseteq muddled'[l]
      /\ \A k \in Lists \ {l} : muddled'[k] = muddled[k]
      /\ call[c].pc = "count" => "count" \in muddled'[l]
  BY <1>1, <1>2, PlFacts
<1>4. clock' \in Nat /\ clock <= clock' /\ missing' = {}
  BY <1>1, PlFacts
<1>5. /\ UNCHANGED <<pl, entries, songs, meant>> /\ call' = [call EXCEPT ![c] = NoCall]
      /\ call[c].l = l
  BY <1>1
<1>. HIDE DEF l
<1>. QED  BY <1>2, <1>3, <1>4, <1>5, NoCallFacts, CallStep

-----------------------------------------------------------------------------
\* Reading a position, inserting at it, recounting.

LEMMA NextPositionFree ==
  ASSUME PlInv, NEW l \in Lists
  PROVE  NextPosition(l) \in Nat /\ \A e \in entries[l] : e.pos < NextPosition(l)
<1>. DEFINE P == Positions(l)
<1>1. IsFiniteSet(entries[l])
  BY PlFacts DEF ListOK, OrderOK
<1>2. IsFiniteSet(P)
  <2>. DEFINE f == [e \in entries[l] |-> e.pos]
  <2>1. f \in Surjection(entries[l], P)
    BY DEF Surjection, Positions
  <2>. QED  BY <1>1, <2>1, FS_Surjection
<1>3. P \in SUBSET Nat /\ \A e \in entries[l] : e.pos \in P
  BY PlFacts DEF Positions, Entries
<1>4. CASE entries[l] = {}
  BY <1>4 DEF NextPosition
<1>5. CASE entries[l] # {}
  <2>1. P # {}
    BY <1>3, <1>5
  <2>2. NextPosition(l) = Max(P) + 1
    BY <1>5 DEF NextPosition
  <2>. HIDE DEF P
  <2>3. Max(P) \in P /\ Max(P) \in Nat /\ \A q \in P : q <= Max(P)
    BY <1>2, <1>3, <2>1, HasGreatest
  <2>. DEFINE m == Max(P)
  <2>4. m \in Nat /\ NextPosition(l) = m + 1 /\ \A e \in entries[l] : e.pos \in Nat /\ e.pos <= m
    BY <1>3, <2>2, <2>3
  <2>. HIDE DEF m
  <2>. QED  BY <2>4
<1>. QED  BY <1>4, <1>5

LEMMA AddReadsKeeps ==
  ASSUME PlInv, NEW c \in Clients, AddReads(c)
  PROVE  PlInv'
<1>. DEFINE l == call[c].l
            n == NextPosition(l)
            r == [call[c] EXCEPT !.pc = "insert", !.pos = n, !.born = clock]
<1>1. /\ call[c].pc = "read" /\ call[c].todo # <<>> /\ call' = [call EXCEPT ![c] = r]
      /\ UNCHANGED <<pl, entries, songs, clock, meant, muddled, missing>>
  BY PlFacts DEF AddReads
<1>2. l \in Lists /\ call[c] \in Calls /\ CallShape(call[c]) /\ call[c].op \in {"add", "build"}
  BY <1>1, PlFacts DEF CallShape, Calls
<1>3. n \in Nat /\ \A e \in entries[l] : e.pos < n
  BY <1>2, NextPositionFree
<1>4. /\ r \in Calls /\ r.op = call[c].op /\ r.pc = "insert" /\ r.l = l /\ r.todo = call[c].todo
      /\ r.given = call[c].given /\ r.pos = n /\ r.born = clock
  BY <1>2, <1>3, PlFacts DEF Calls
<1>5. ListOK(l, pl[l], entries[l], muddled[l], meant[l], songs, clock, call) /\ call[c].l = l
  BY <1>2, PlFacts
<1>. HIDE DEF l, n, r
<1>6. CallShape(r)
  BY <1>1, <1>2, <1>4 DEF CallShape
<1>7. PlaceOK(r, entries[l], clock) /\ BuildOK(r, pl[l], entries[l], muddled[l], songs)
  <2>1. BuildOK(call[c], pl[l], entries[l], muddled[l], songs)
    BY <1>5 DEF ListOK
  <2>2. \A e \in entries[l] : e.pos # n
    BY <1>2, <1>3, PlFacts DEF Entries
  <2>. QED  BY <1>3, <1>4, <2>1, <2>2, PlFacts DEF PlaceOK, BuildOK
<1>8. pl[l].st # "new"
  BY <1>1, <1>5 DEF ListOK, BlankOK
<1>9. clock' \in Nat /\ clock <= clock' /\ missing' = {} /\ clock' = clock /\ muddled' = muddled
  BY <1>1, PlFacts
<1>10. PlaceOK(r, entries[l], clock') /\ BuildOK(r, pl[l], entries[l], muddled'[l], songs)
  BY <1>7, <1>9
<1>. QED  BY <1>1, <1>2, <1>4, <1>5, <1>6, <1>8, <1>9, <1>10, PlFacts, CallStep

LEMMA CreateStep ==
  ASSUME PlInv, NEW c \in Clients, NEW l \in Lists, NEW r \in Calls, CallShape(r), call' = [call EXCEPT ![c] = r],
         r.l = l \/ r.pc = "idle", call[c].l = l \/ call[c].pc = "idle",
         pl[l].st = "new", pl' = [pl EXCEPT ![l].st = "live"],
         UNCHANGED <<entries, songs, clock, meant, muddled, missing>>, r.pc \in {"idle", "read"},
         r.pc = "read" => \A s \in r.given : \E i \in 1 .. Len(r.todo) : r.todo[i] = s
  PROVE  PlInv'
<1>. DEFINE row == pl'[l]
            S == entries[l]
            cl == call'
<1>1. /\ pl' \in [Lists -> ListRows] /\ \A k \in Lists \ {l} : pl'[k] = pl[k]
      /\ row.st = "live" /\ row.text = pl[l].text /\ row.count = pl[l].count
  <2>. DEFINE new == [pl[l] EXCEPT !.st = "live"]
  <2>0. pl[l] \in ListRows
    BY PlFacts
  <2>1. new \in ListRows /\ new.st = "live" /\ new.text = pl[l].text /\ new.count = pl[l].count
    BY <2>0 DEF ListRows
  <2>2. pl' = [pl EXCEPT ![l] = new]
    OBVIOUS
  <2>. HIDE DEF new
  <2>. QED  BY <2>1, <2>2, PlFacts
<1>2. /\ row.text = Fresh /\ meant[l] = Fresh /\ row.count = 0 /\ S = {}
      /\ \A d \in Clients : call[d].l = l => call[d].pc \in {"idle", "create"}
  BY <1>1, PlFacts DEF ListOK, BlankOK
<1>3. \A d \in Clients : cl[d] = IF d = c THEN r ELSE call[d]
  BY PlFacts
<1>4. OrderOK(S, clock) /\ (\A d \in Clients : CallShape(cl[d]))
  BY <1>3, PlFacts DEF ListOK
<1>. HIDE DEF row, S, cl
<1>5. \A d \in Clients : cl[d].l = l => cl[d].pc \in {"idle", "create", "read"}
  BY <1>2, <1>3
<1>6. BlankOK(l, row, S, meant[l], cl)
  BY <1>1 DEF BlankOK
<1>7. CountOK(l, row, S, muddled[l], cl)
  BY <1>2, FS_EmptySet DEF CountOK
<1>8. TextOK(l, row, muddled[l], meant[l], cl)
  BY <1>2, <1>5 DEF TextOK, Updates
<1>9. ASSUME NEW d \in Clients, cl[d].l = l
      PROVE  PlaceOK(cl[d], S, clock) /\ BuildOK(cl[d], row, S, muddled[l], songs)
  <2>1. PlaceOK(cl[d], S, clock)
    BY <1>5, <1>9 DEF PlaceOK
  <2>2. ASSUME cl[d].op = "build"
        PROVE  \A s \in cl[d].given : \E i \in 1 .. Len(cl[d].todo) : cl[d].todo[i] = s
    <3>1. CASE cl[d].pc = "create"
      BY <1>4, <3>1 DEF CallShape
    <3>2. CASE cl[d].pc = "read"
      <4>1. d = c
        BY <1>2, <1>3, <1>9, <3>2
      <4>. QED  BY <1>3, <3>2, <4>1
    <3>3. CASE cl[d].pc = "idle"
      BY <1>4, <2>2, <3>3 DEF CallShape
    <3>. QED  BY <1>5, <1>9, <3>1, <3>2, <3>3
  <2>. QED  BY <1>5, <1>9, <2>1, <2>2 DEF BuildOK
<1>10. ListOK(l, row, S, muddled[l], meant[l], songs, clock, cl)
  BY <1>4, <1>6, <1>7, <1>8, <1>9 DEF ListOK
<1>11. ListOK(l, pl'[l], entries'[l], muddled'[l], meant'[l], songs, clock', call')
  BY <1>10 DEF row, S, cl
<1>12. clock' \in Nat /\ clock <= clock' /\ missing' = {}
  BY PlFacts
<1>. QED  BY <1>1, <1>11, <1>12, PlFacts, OneList

LEMMA CreateKeeps ==
  ASSUME PlInv, NEW c \in Clients, NEW l \in Lists, CreateList(c, l)
  PROVE  PlInv'
<1>1. /\ call[c].pc = "idle" /\ call' = [call EXCEPT ![c] = NoCall] /\ pl[l].st = "new"
      /\ pl' = [pl EXCEPT ![l].st = "live"]
      /\ UNCHANGED <<entries, songs, clock, meant, muddled, missing>>
  BY DEF CreateList, Begin
<1>. QED  BY <1>1, NoCallFacts, CreateStep

LEMMA CreateBuiltKeeps ==
  ASSUME PlInv, NEW c \in Clients, CreateBuilt(c)
  PROVE  PlInv'
<1>. DEFINE l == call[c].l
            r == [call[c] EXCEPT !.pc = "read"]
<1>1. /\ call[c].pc = "create" /\ pl[l].st = "new" /\ call' = [call EXCEPT ![c] = r]
      /\ pl' = [pl EXCEPT ![l].st = "live"]
      /\ UNCHANGED <<entries, songs, clock, meant, muddled, missing>>
  BY DEF CreateBuilt, Continue
<1>2. /\ l \in Lists /\ call[c] \in Calls /\ CallShape(call[c]) /\ call[c].l = l
      /\ call[c].op = "build" /\ \A s \in call[c].given : \E i \in 1 .. Len(call[c].todo) : call[c].todo[i] = s
  BY <1>1, PlFacts DEF CallShape
<1>3. /\ r \in Calls /\ r.op = call[c].op /\ r.pc = "read" /\ r.l = l /\ r.todo = call[c].todo /\ r.given = call[c].given
  BY <1>2 DEF Calls
<1>. HIDE DEF l, r
<1>4. CallShape(r)
  BY <1>2, <1>3 DEF CallShape
<1>5. \A s \in r.given : \E i \in 1 .. Len(r.todo) : r.todo[i] = s
  BY <1>2, <1>3
<1>6. /\ r.l = l /\ call[c].l = l /\ r.pc \in {"idle", "read"} /\ pl[l].st = "new" /\ r \in Calls
      /\ l \in Lists
  BY <1>1, <1>2, <1>3
<1>. QED  BY <1>1, <1>4, <1>5, <1>6, CreateStep

\* An import goes on with the next track, anything else is over.
NextTrack(r) == IF r.op = "build" THEN [r EXCEPT !.pc = "read", !.todo = Tail(@)] ELSE NoCall

LEMMA NextTrackFacts ==
  ASSUME NEW r \in Calls, CallShape(r), r.op \in {"add", "build"}, r.pc \in {"insert", "count"}
  PROVE  LET u == NextTrack(r)
         IN  /\ u \in Calls /\ CallShape(u) /\ u.pc \in {"idle", "read"} /\ (u.l = r.l \/ u.pc = "idle")
             /\ u.op \in {"none", "build"} /\ (u.pc = "idle" => u.op = "none") /\ (u.op = "build" => r.op = "build" /\ u.given = r.given)
             /\ u.op = "build" => \A s : (\E i \in 1 .. Len(r.todo) : r.todo[i] = s) =>
                                        s = Head(r.todo) \/ \E i \in 1 .. Len(u.todo) : u.todo[i] = s
<1>1. CASE r.op = "build"
  <2>. DEFINE t == Tail(r.todo)
              u == [r EXCEPT !.pc = "read", !.todo = t]
  <2>1. r.todo \in Seq(Songs) /\ r.todo # <<>>
    BY DEF Calls, CallShape
  <2>2. /\ t \in Seq(Songs) /\ Len(t) = Len(r.todo) - 1 /\ Len(r.todo) \in Nat /\ Len(t) \in Nat
        /\ \A i \in 1 .. Len(t) : t[i] = r.todo[i + 1]
        /\ Head(r.todo) = r.todo[1]
    BY <2>1, HeadTailProperties, LenProperties
  <2>. HIDE DEF t
  <2>3. /\ u \in Calls /\ u.op = "build" /\ u.pc = "read" /\ u.l = r.l /\ u.todo = t
        /\ u.given = r.given
    BY <1>1, <2>2 DEF Calls
  <2>4. NextTrack(r) = u
    BY <1>1 DEF NextTrack, t
  <2>. HIDE DEF u
  <2>5. CallShape(u)
    BY <1>1, <2>3 DEF CallShape
  <2>6. ASSUME NEW i \in 1 .. Len(r.todo)
        PROVE  r.todo[i] = Head(r.todo) \/ \E j \in 1 .. Len(t) : t[j] = r.todo[i]
    <3>1. CASE i = 1
      BY <2>2, <3>1
    <3>2. CASE i # 1
      <4>1. i - 1 \in 1 .. Len(t) /\ (i - 1) + 1 = i
        BY <2>2, <3>2
      <4>2. t[i - 1] = r.todo[(i - 1) + 1]
        BY <2>2, <4>1
      <4>3. t[i - 1] = r.todo[i]
        BY <4>1, <4>2
      <4>. QED  BY <4>1, <4>3
    <3>. QED  BY <3>1, <3>2
  <2>. QED  BY <1>1, <2>3, <2>4, <2>5, <2>6
<1>2. CASE r.op # "build"
  BY <1>2, NoCallFacts DEF NextTrack
<1>. QED  BY <1>1, <1>2

LEMMA NotInserted ==
  ASSUME PlInv, NEW c \in Clients, call[c].pc = "insert",
         call' = [call EXCEPT ![c] = NextTrack(call[c])],
         ~(call[c].pos \notin Positions(call[c].l) /\ Head(call[c].todo) \in songs /\ Live(call[c].l)),
         UNCHANGED <<pl, entries, songs, clock, meant, muddled, missing>>
  PROVE  PlInv'
<1>. DEFINE r == call[c]
            l == r.l
            u == NextTrack(r)
<1>1. r \in Calls /\ CallShape(r) /\ r.op \in {"add", "build"} /\ l \in Lists /\ r.pc = "insert"
  BY PlFacts DEF CallShape, Calls
<1>2. /\ u \in Calls /\ CallShape(u) /\ u.pc \in {"idle", "read"} /\ (u.l = r.l \/ u.pc = "idle")
      /\ u.op \in {"none", "build"} /\ (u.pc = "idle" => u.op = "none") /\ (u.op = "build" => r.op = "build" /\ u.given = r.given)
      /\ u.op = "build" => \A s : (\E i \in 1 .. Len(r.todo) : r.todo[i] = s) =>
                                 s = Head(r.todo) \/ \E i \in 1 .. Len(u.todo) : u.todo[i] = s
  BY <1>1, NextTrackFacts
<1>3. /\ BuildOK(r, pl[l], entries[l], muddled[l], songs)
      /\ pl[l].st # "new"
  BY <1>1, PlFacts DEF ListOK, BlankOK
<1>4. call' = [call EXCEPT ![c] = u]
  OBVIOUS
<1>5. u.l = l \/ u.pc = "idle"
  BY <1>2
<1>6. pl[l].st = "live" /\ (\A e \in entries[l] : e.pos # r.pos) => Head(r.todo) \notin songs
  BY DEF Positions, Live
<1>. HIDE DEF u
<1>7. BuildOK(u, pl[l], entries[l], muddled[l], songs)
  BY <1>1, <1>2, <1>3, <1>6 DEF BuildOK
<1>8. PlaceOK(u, entries[l], clock)
  BY <1>2 DEF PlaceOK
<1>9. /\ clock' \in Nat /\ clock <= clock' /\ missing' = {} /\ call[c].l = l /\ call[c].pc # "count"
      /\ clock' = clock /\ muddled' = muddled
      /\ muddled' \in [Lists -> SUBSET {"built", "text", "count"}]
      /\ l \in Lists
  BY <1>1, PlFacts
<1>10. PlaceOK(u, entries[l], clock') /\ BuildOK(u, pl[l], entries[l], muddled'[l], songs)
  BY <1>7, <1>8, <1>9
<1>. HIDE DEF r, l
<1>. QED  BY <1>2, <1>3, <1>4, <1>5, <1>9, <1>10, CallStep

\* A change of list l made in the company of a request that is building it.
Alone(c, l, ops) == \A d \in Clients \ {c} : ~(call[d].l = l /\ call[d].op \in ops)
LEMMA CompanyFacts ==
  ASSUME PlInv, NEW c \in Clients, NEW l \in Lists, NEW ops, NEW tag \in {"built", "text"}, Company(c, l, ops, tag)
  PROVE  /\ muddled' \in [Lists -> SUBSET {"built", "text", "count"}] /\ muddled[l] \subseteq muddled'[l]
         /\ \A k \in Lists \ {l} : muddled'[k] = muddled[k]
         /\ tag \notin muddled'[l] => Alone(c, l, ops)
         /\ \A t \in {"built", "text", "count"} : t # tag /\ t \in muddled'[l] => t \in muddled[l]
  BY PlFacts DEF Company, Alone

LEMMA InsertedKeeps ==
  ASSUME PlInv, NEW c \in Clients, call[c].pc = "insert",
         call[c].pos \notin Positions(call[c].l) /\ Head(call[c].todo) \in songs /\ Live(call[c].l),
         entries' = [entries EXCEPT ![call[c].l] = @ \union
                       {[pos |-> call[c].pos, song |-> Head(call[c].todo), born |-> call[c].born, ack |-> 0]}],
         Continue(c, "count"), Company(c, call[c].l, {"build"}, "built"),
         UNCHANGED <<pl, songs, clock, meant, missing>>
  PROVE  PlInv'
<1>. DEFINE r == call[c]
            l == r.l
            u == [r EXCEPT !.pc = "count"]
            e0 == [pos |-> r.pos, song |-> Head(r.todo), born |-> r.born, ack |-> 0]
            S == entries[l]
            S2 == S \union {e0}
            tags == muddled'[l]
            cl == call'
<1>1. /\ r \in Calls /\ CallShape(r) /\ r.op \in {"add", "build"} /\ l \in Lists /\ r.pc = "insert"
      /\ call[c].l = l
  BY PlFacts DEF CallShape, Calls
<1>2. /\ u \in Calls /\ u.op = r.op /\ u.pc = "count" /\ u.l = l /\ u.todo = r.todo /\ u.given = r.given
      /\ call' = [call EXCEPT ![c] = u]
  BY <1>1 DEF Calls, Continue
<1>3. CallShape(u)
  BY <1>1, <1>2 DEF CallShape
<1>4. /\ e0 \in Entries /\ e0.pos = r.pos /\ e0.song = Head(r.todo) /\ e0.born = r.born /\ e0.ack = 0
      /\ entries' = [entries EXCEPT ![l] = S2]
  BY <1>1, PlFacts DEF Entries, Calls
<1>5. /\ muddled' \in [Lists -> SUBSET {"built", "text", "count"}] /\ muddled[l] \subseteq tags
      /\ \A k \in Lists \ {l} : muddled'[k] = muddled[k]
      /\ "built" \notin tags => Alone(c, l, {"build"})
      /\ "text" \in tags => "text" \in muddled[l]
  BY <1>1, CompanyFacts
<1>6. /\ ListOK(l, pl[l], S, muddled[l], meant[l], songs, clock, call) /\ S \in SUBSET Entries /\ clock \in Nat
      /\ pl[l].st = "live" /\ \A e \in S : e.pos # r.pos
  BY <1>1, PlFacts DEF Live, Positions
<1>7. PlaceOK(r, S, clock) /\ BuildOK(r, pl[l], S, muddled[l], songs)
  BY <1>1, <1>6 DEF ListOK
<1>8. \A d \in Clients : cl[d] = IF d = c THEN u ELSE call[d]
  BY <1>2, PlFacts
<1>9. entries' \in [Lists -> SUBSET Entries] /\ entries'[l] = S2 /\ \A k \in Lists \ {l} : entries'[k] = entries[k]
  BY <1>1, <1>4, PlFacts
<1>10. call \in [Clients -> Calls]
  BY PlFacts
<1>. HIDE DEF u, e0, S, tags, cl
<1>11. OrderOK(S2, clock)
  <2>1. IsFiniteSet(S2)
    BY <1>6, FS_AddElement DEF ListOK, OrderOK
  <2>2. \A e, f \in S2 : e.pos = f.pos => e = f
    BY <1>4, <1>6 DEF ListOK, OrderOK
  <2>3. \A e \in S2 : e.born <= clock /\ e.ack <= clock
    BY <1>1, <1>4, <1>6, <1>7 DEF ListOK, OrderOK, PlaceOK
  <2>4. \A e, f \in S2 : e.ack # 0 /\ f.born >= e.ack => e.pos < f.pos
    BY <1>1, <1>4, <1>6, <1>7 DEF ListOK, OrderOK, PlaceOK
  <2>. QED  BY <2>1, <2>2, <2>3, <2>4 DEF OrderOK
<1>12. BlankOK(l, pl[l], S2, meant[l], cl)
  BY <1>6 DEF BlankOK
<1>13. CountOK(l, pl[l], S2, tags, cl)
  BY <1>2, <1>8 DEF CountOK, Counts
<1>14. TextOK(l, pl[l], tags, meant[l], cl)
  BY <1>2, <1>5, <1>6, <1>8 DEF ListOK, TextOK, Updates
<1>15. ASSUME NEW d \in Clients, cl[d].l = l
       PROVE  PlaceOK(cl[d], S2, clock) /\ BuildOK(cl[d], pl[l], S2, tags, songs)
  <2>1. CASE d = c
    <3>1. BuildOK(u, pl[l], S2, tags, songs)
      BY <1>2, <1>4, <1>5, <1>7, <1>1 DEF BuildOK, Lists1
    <3>. QED  BY <1>2, <1>8, <2>1, <3>1 DEF PlaceOK
  <2>2. CASE d # c
    <3>1. cl[d] = call[d] /\ PlaceOK(call[d], S, clock)
      BY <1>6, <1>8, <1>15, <2>2 DEF ListOK
    <3>2. PlaceOK(call[d], S2, clock)
      BY <1>4, <3>1 DEF PlaceOK
    <3>3. BuildOK(call[d], pl[l], S2, tags, songs)
      BY <1>5, <1>15, <2>2, <3>1 DEF BuildOK, Alone
    <3>. QED  BY <3>1, <3>2, <3>3
  <2>. QED  BY <2>1, <2>2
<1>16. ListOK(l, pl[l], S2, tags, meant[l], songs, clock, cl)
  BY <1>11, <1>12, <1>13, <1>14, <1>15 DEF ListOK
<1>17. ListOK(l, pl'[l], entries'[l], muddled'[l], meant'[l], songs, clock', call')
  BY <1>9, <1>16 DEF tags, cl
<1>18. /\ clock' \in Nat /\ clock <= clock' /\ missing' = {} /\ pl' \in [Lists -> ListRows] /\ meant' \in [Lists -> Texts]
       /\ songs' = songs /\ \A k \in Lists \ {l} : pl'[k] = pl[k] /\ meant'[k] = meant[k]
  BY PlFacts
<1>19. l \in Lists /\ call[c].l = l /\ u.l = l
  BY <1>1, <1>2
<1>. HIDE DEF r, l, S2
<1>. QED  BY <1>2, <1>3, <1>5, <1>9, <1>17, <1>18, <1>19, OneList

LEMMA AddInsertsKeeps ==
  ASSUME PlInv, NEW c \in Clients, AddInserts(c)
  PROVE  PlInv'
<1>. DEFINE r == call[c]
            fits == r.pos \notin Positions(r.l) /\ Head(r.todo) \in songs /\ Live(r.l)
<1>1. CASE fits
  BY <1>1, InsertedKeeps DEF AddInserts
<1>2. CASE ~fits
  BY <1>2, NotInserted DEF AddInserts, NextTrack
<1>. QED  BY <1>1, <1>2

\* The entries when the addition of track s at position p is answered at time t.
Acked(S, p, s, t) == {IF e.pos = p /\ e.song = s /\ e.ack = 0 THEN [e EXCEPT !.ack = t] ELSE e : e \in S}

LEMMA AckedFacts ==
  ASSUME NEW S \in SUBSET Entries, IsFiniteSet(S), \A e, f \in S : e.pos = f.pos => e = f,
         NEW p, NEW s, NEW t \in Nat
  PROVE  /\ Acked(S, p, s, t) \in SUBSET Entries /\ IsFiniteSet(Acked(S, p, s, t))
         /\ Cardinality(Acked(S, p, s, t)) = Cardinality(S)
         /\ \A x \in Acked(S, p, s, t) : \E e \in S :
              x.pos = e.pos /\ x.song = e.song /\ x.born = e.born /\ (x.ack = e.ack \/ x.ack = t)
         /\ \A e \in S : \E x \in Acked(S, p, s, t) : x.pos = e.pos /\ x.song = e.song
         /\ \A x, y \in Acked(S, p, s, t) : x.pos = y.pos => x = y
<1>. DEFINE A(e) == IF e.pos = p /\ e.song = s /\ e.ack = 0 THEN [e EXCEPT !.ack = t] ELSE e
            T == {A(e) : e \in S}
            f == [e \in S |-> A(e)]
<1>1. Acked(S, p, s, t) = T
  BY DEF Acked
<1>2. ASSUME NEW e \in S
      PROVE  /\ A(e) \in Entries /\ A(e).pos = e.pos /\ A(e).song = e.song /\ A(e).born = e.born
             /\ A(e).ack = e.ack \/ A(e).ack = t
  <2>1. e \in Entries
    OBVIOUS
  <2>2. CASE e.pos = p /\ e.song = s /\ e.ack = 0
    BY <2>1, <2>2 DEF Entries
  <2>3. CASE ~(e.pos = p /\ e.song = s /\ e.ack = 0)
    BY <2>1, <2>3
  <2>. QED  BY <2>2, <2>3
<1>. HIDE DEF A
<1>3. \A e \in S : A(e) \in T
  OBVIOUS
<1>4. \A x \in T : \E e \in S : x = A(e)
  OBVIOUS
<1>5. f \in Surjection(S, T) /\ f \in Injection(S, T)
  <2>1. f \in [S -> T]
    OBVIOUS
  <2>2. \A x \in T : \E e \in S : f[e] = x
    OBVIOUS
  <2>3. \A d, e \in S : f[d] = f[e] => d = e
    BY <1>2
  <2>. QED  BY <2>1, <2>2, <2>3 DEF Surjection, Injection, IsInjective
<1>6. IsFiniteSet(T) /\ Cardinality(T) = Cardinality(S)
  BY <1>5, FS_Surjection
<1>. HIDE DEF T
<1>7. T \in SUBSET Entries
  BY <1>2, <1>4
<1>8. \A x \in T : \E e \in S :
              x.pos = e.pos /\ x.song = e.song /\ x.born = e.born /\ (x.ack = e.ack \/ x.ack = t)
  BY <1>2, <1>4
<1>9. \A e \in S : \E x \in T : x.pos = e.pos /\ x.song = e.song
  BY <1>2, <1>3
<1>10. \A x, y \in T : x.pos = y.pos => x = y
  BY <1>2, <1>4
<1>. QED  BY <1>1, <1>6, <1>7, <1>8, <1>9, <1>10

LEMMA AddCountsKeeps ==
  ASSUME PlInv, NEW c \in Clients, AddCounts(c)
  PROVE  PlInv'
<1>. DEFINE r == call[c]
            l == r.l
            u == NextTrack(r)
            S == entries[l]
            now == clock + 1
            S2 == Acked(S, r.pos, Head(r.todo), now)
            row == pl'[l]
            tags == muddled[l]
            cl == call'
<1>1. /\ r.pc = "count" /\ r.op \in {"add", "build"} /\ clock' = now
      /\ entries' = [entries EXCEPT ![l] = S2] /\ call' = [call EXCEPT ![c] = u]
      /\ UNCHANGED <<songs, meant, muddled, missing>>
      /\ pl' = [pl EXCEPT ![l].count = IF Live(l) THEN Cardinality(S) ELSE @]
  BY DEF AddCounts, NextTrack, Recount, Acked
<1>2. r \in Calls /\ CallShape(r) /\ l \in Lists /\ call[c].l = l
  BY <1>1, PlFacts DEF CallShape
<1>3. /\ u \in Calls /\ CallShape(u) /\ u.pc \in {"idle", "read"} /\ (u.l = r.l \/ u.pc = "idle")
      /\ u.op \in {"none", "build"} /\ (u.pc = "idle" => u.op = "none") /\ (u.op = "build" => r.op = "build" /\ u.given = r.given)
      /\ u.op = "build" => \A s : (\E i \in 1 .. Len(r.todo) : r.todo[i] = s) =>
                                 s = Head(r.todo) \/ \E i \in 1 .. Len(u.todo) : u.todo[i] = s
  BY <1>1, <1>2, NextTrackFacts
<1>4. /\ ListOK(l, pl[l], S, tags, meant[l], songs, clock, call) /\ S \in SUBSET Entries /\ clock \in Nat /\ now \in Nat
      /\ pl[l] \in ListRows /\ pl[l].st # "new" /\ OrderOK(S, clock)
      /\ BuildOK(r, pl[l], S, tags, songs)
  BY <1>1, <1>2, PlFacts DEF ListOK, BlankOK
<1>5. /\ S2 \in SUBSET Entries /\ IsFiniteSet(S2) /\ Cardinality(S2) = Cardinality(S)
      /\ \A x \in S2 : \E e \in S :
              x.pos = e.pos /\ x.song = e.song /\ x.born = e.born /\ (x.ack = e.ack \/ x.ack = now)
      /\ \A e \in S : \E x \in S2 : x.pos = e.pos /\ x.song = e.song
      /\ \A x, y \in S2 : x.pos = y.pos => x = y
  BY <1>4, AckedFacts DEF OrderOK
<1>6. Cardinality(S) \in Nat
  BY <1>4, FS_CardinalityType DEF OrderOK
<1>7. /\ row \in ListRows /\ row.st = pl[l].st /\ row.text = pl[l].text
      /\ row.st = "live" => row.count = Cardinality(S)
      /\ pl' \in [Lists -> ListRows] /\ \A k \in Lists \ {l} : pl'[k] = pl[k]
  <2>. DEFINE n == IF Live(l) THEN Cardinality(S) ELSE pl[l].count
              new == [pl[l] EXCEPT !.count = n]
  <2>1. n \in Nat /\ (pl[l].st = "live" => n = Cardinality(S))
    BY <1>4, <1>6 DEF Live, ListRows
  <2>2. pl' = [pl EXCEPT ![l] = new]
    BY <1>1, <1>4
  <2>. HIDE DEF n
  <2>3. new \in ListRows /\ new.st = pl[l].st /\ new.text = pl[l].text /\ new.count = n
    BY <1>4, <2>1 DEF ListRows
  <2>. HIDE DEF new
  <2>. QED  BY <1>2, <2>1, <2>2, <2>3, PlFacts
<1>8. \A d \in Clients : cl[d] = IF d = c THEN u ELSE call[d]
  BY <1>1, PlFacts
<1>9. entries' \in [Lists -> SUBSET Entries] /\ entries'[l] = S2 /\ \A k \in Lists \ {l} : entries'[k] = entries[k]
  BY <1>1, <1>2, <1>5, PlFacts
<1>10. call \in [Clients -> Calls]
  BY PlFacts
<1>. HIDE DEF u, S, S2, row, tags, cl
<1>11. OrderOK(S2, now)
  <2>1. \A x \in S2 : x.born \in Nat /\ x.ack \in Nat /\ x.pos \in Nat /\ x.born <= clock /\ x.ack <= now
    BY <1>4, <1>5 DEF OrderOK, Entries
  <2>2. ASSUME NEW x \in S2, NEW y \in S2, x.ack # 0, y.born >= x.ack PROVE x.pos < y.pos
    <3>1. x.ack # now
      BY <1>4, <2>1, <2>2
    <3>2. PICK e \in S : x.pos = e.pos /\ x.born = e.born /\ x.ack = e.ack
      BY <1>5, <3>1
    <3>3. PICK f \in S : y.pos = f.pos /\ y.born = f.born
      BY <1>5
    <3>. QED  BY <1>4, <2>2, <3>2, <3>3 DEF OrderOK
  <2>. QED  BY <1>4, <1>5, <2>1, <2>2 DEF OrderOK
<1>12. BlankOK(l, row, S2, meant[l], cl)
  BY <1>4, <1>7 DEF BlankOK
<1>13. CountOK(l, row, S2, tags, cl)
  BY <1>5, <1>7 DEF CountOK
<1>14. TextOK(l, row, tags, meant[l], cl)
  BY <1>3, <1>4, <1>7, <1>8 DEF ListOK, TextOK, Updates
<1>15. ASSUME NEW d \in Clients, cl[d].l = l
       PROVE  PlaceOK(cl[d], S2, now) /\ BuildOK(cl[d], row, S2, tags, songs)
  <2>0. \A s : Lists1(S, s) => Lists1(S2, s)
    BY <1>5 DEF Lists1
  <2>1. CASE d = c
    <3>1. BuildOK(u, row, S2, tags, songs)
      BY <1>1, <1>3, <1>4, <1>7, <2>0 DEF BuildOK
    <3>. QED  BY <1>3, <1>8, <2>1, <3>1 DEF PlaceOK
  <2>2. CASE d # c
    <3>1. /\ cl[d] = call[d] /\ PlaceOK(call[d], S, clock)
          /\ BuildOK(call[d], pl[l], S, tags, songs) /\ call[d] \in Calls
      BY <1>4, <1>8, <1>10, <1>15, <2>2 DEF ListOK
    <3>2. ASSUME call[d].pc = "insert"
          PROVE  call[d].born <= now /\ \A x \in S2 : x.ack # 0 /\ call[d].born >= x.ack => x.pos < call[d].pos
      <4>1. call[d].born <= clock /\ call[d].born \in Nat
        BY <3>1, <3>2 DEF PlaceOK, Calls
      <4>2. ASSUME NEW x \in S2, x.ack # 0, call[d].born >= x.ack PROVE x.pos < call[d].pos
        <5>1. x.ack # now
          BY <1>4, <4>1, <4>2
        <5>2. PICK e \in S : x.pos = e.pos /\ x.ack = e.ack
          BY <1>5, <5>1
        <5>. QED  BY <3>1, <3>2, <4>2, <5>2 DEF PlaceOK
      <4>. QED  BY <1>4, <4>1, <4>2
    <3>3. BuildOK(call[d], row, S2, tags, songs)
      <4>1. call[d].pc = "insert" /\ (\A e \in S : e.pos # call[d].pos) => \A x \in S2 : x.pos # call[d].pos
        BY <1>5
      <4>. QED  BY <1>7, <2>0, <3>1, <4>1 DEF BuildOK
    <3>. QED  BY <3>1, <3>2, <3>3 DEF PlaceOK
  <2>. QED  BY <2>1, <2>2
<1>16. ListOK(l, row, S2, tags, meant[l], songs, now, cl)
  BY <1>11, <1>12, <1>13, <1>14, <1>15 DEF ListOK
<1>17. ListOK(l, pl'[l], entries'[l], muddled'[l], meant'[l], songs, clock', call')
  BY <1>1, <1>9, <1>16 DEF tags, cl, row
<1>18. /\ clock' \in Nat /\ clock <= clock' /\ missing' = {} /\ meant' \in [Lists -> Texts] /\ songs' = songs
       /\ muddled' \in [Lists -> SUBSET {"built", "text", "count"}]
       /\ \A k \in Lists \ {l} : muddled'[k] = muddled[k] /\ meant'[k] = meant[k]
  BY <1>1, <1>4, PlFacts
<1>19. l \in Lists /\ call[c].l = l /\ (u.l = l \/ u.pc = "idle") /\ call' = [call EXCEPT ![c] = u]
  BY <1>1, <1>2, <1>3
<1>20. u \in Calls /\ CallShape(u) /\ pl' \in [Lists -> ListRows] /\ \A k \in Lists \ {l} : pl'[k] = pl[k]
  BY <1>3, <1>7
<1>. HIDE DEF r, l, now
<1>. QED  BY <1>9, <1>17, <1>18, <1>19, <1>20, OneList

-----------------------------------------------------------------------------
\* Removing, reordering, updating and deleting.

(* Fewer entries are still in order.                                       *)
LEMMA FewerInOrder ==
  ASSUME NEW S, NEW now, OrderOK(S, now), NEW T \in SUBSET S
  PROVE  OrderOK(T, now)
<1>1. IsFiniteSet(T)
  BY FS_Subset DEF OrderOK
<1>. QED  BY <1>1 DEF OrderOK

LEMMA RemoveKeeps ==
  ASSUME PlInv, NEW c \in Clients, NEW l \in Lists, NEW s \in Songs, RemoveTrack(c, l, s)
  PROVE  PlInv'
<1>. DEFINE S == entries[l]
            T == {e \in S : e.song # s}
            u == [NoCall EXCEPT !.op = "remove", !.pc = "count", !.l = l]
            tags == muddled'[l]
            cl == call'
<1>1. /\ call[c].pc = "idle" /\ call' = [call EXCEPT ![c] = u] /\ pl[l].st = "live"
      /\ entries' = [entries EXCEPT ![l] = T] /\ Company(c, l, {"build"}, "built")
      /\ UNCHANGED <<pl, songs, clock, meant, missing>>
  BY DEF RemoveTrack, Begin, Live
<1>2. u \in Calls /\ u.op = "remove" /\ u.pc = "count" /\ u.l = l
  BY NoCallFacts DEF Calls
<1>3. CallShape(u)
  BY <1>2 DEF CallShape
<1>4. /\ muddled' \in [Lists -> SUBSET {"built", "text", "count"}] /\ muddled[l] \subseteq tags
      /\ \A k \in Lists \ {l} : muddled'[k] = muddled[k]
      /\ "built" \notin tags => Alone(c, l, {"build"})
      /\ "text" \in tags => "text" \in muddled[l]
  BY <1>1, CompanyFacts
<1>5. /\ ListOK(l, pl[l], S, muddled[l], meant[l], songs, clock, call) /\ S \in SUBSET Entries /\ clock \in Nat
      /\ T \in SUBSET S
  BY PlFacts
<1>6. \A d \in Clients : cl[d] = IF d = c THEN u ELSE call[d]
  BY <1>1, PlFacts
<1>7. entries' \in [Lists -> SUBSET Entries] /\ entries'[l] = T /\ \A k \in Lists \ {l} : entries'[k] = entries[k]
  BY <1>1, <1>5, PlFacts
<1>. HIDE DEF u, S, T, tags, cl
<1>8. OrderOK(T, clock)
  BY <1>5, FewerInOrder DEF ListOK
<1>9. BlankOK(l, pl[l], T, meant[l], cl)
  BY <1>1 DEF BlankOK
<1>10. CountOK(l, pl[l], T, tags, cl)
  BY <1>2, <1>6 DEF CountOK, Counts
<1>11. TextOK(l, pl[l], tags, meant[l], cl)
  BY <1>2, <1>4, <1>5, <1>6 DEF ListOK, TextOK, Updates
<1>12. ASSUME NEW d \in Clients, cl[d].l = l
       PROVE  PlaceOK(cl[d], T, clock) /\ BuildOK(cl[d], pl[l], T, tags, songs)
  <2>1. CASE d = c
    BY <1>2, <1>6, <2>1 DEF PlaceOK, BuildOK
  <2>2. CASE d # c
    BY <1>4, <1>5, <1>6, <1>12, <2>2 DEF ListOK, PlaceOK, BuildOK, Alone
  <2>. QED  BY <2>1, <2>2
<1>13. ListOK(l, pl[l], T, tags, meant[l], songs, clock, cl)
  BY <1>8, <1>9, <1>10, <1>11, <1>12 DEF ListOK
<1>14. ListOK(l, pl'[l], entries'[l], muddled'[l], meant'[l], songs, clock', call')
  BY <1>1, <1>7, <1>13 DEF tags, cl
<1>15. /\ clock' \in Nat /\ clock <= clock' /\ missing' = {} /\ pl' \in [Lists -> ListRows] /\ meant' \in [Lists -> Texts]
       /\ songs' = songs /\ \A k \in Lists \ {l} : pl'[k] = pl[k] /\ meant'[k] = meant[k]
  BY <1>1, PlFacts
<1>. QED  BY <1>1, <1>2, <1>3, <1>4, <1>7, <1>14, <1>15, OneList

LEMMA RemoveCountsKeeps ==
  ASSUME PlInv, NEW c \in Clients, RemoveCounts(c)
  PROVE  PlInv'
<1>. DEFINE l == call[c].l
            S == entries[l]
            row == pl'[l]
            tags == muddled[l]
            now == clock + 1
            cl == call'
<1>1. /\ call[c].pc = "count" /\ call' = [call EXCEPT ![c] = NoCall] /\ clock' = now
      /\ UNCHANGED <<entries, songs, meant, muddled, missing>>
      /\ pl' = [pl EXCEPT ![l].count = IF Live(l) THEN Cardinality(S) ELSE @]
  BY DEF RemoveCounts, Recount, Answer
<1>2. l \in Lists /\ call[c].l = l
  BY <1>1, PlFacts DEF CallShape
<1>3. /\ ListOK(l, pl[l], S, tags, meant[l], songs, clock, call) /\ S \in SUBSET Entries /\ clock \in Nat /\ now \in Nat
      /\ clock <= now /\ pl[l] \in ListRows /\ pl[l].st # "new" /\ OrderOK(S, clock)
  BY <1>1, <1>2, PlFacts DEF ListOK, BlankOK
<1>4. Cardinality(S) \in Nat
  BY <1>3, FS_CardinalityType DEF OrderOK
<1>5. /\ row \in ListRows /\ row.st = pl[l].st /\ row.text = pl[l].text
      /\ row.st = "live" => row.count = Cardinality(S)
      /\ pl' \in [Lists -> ListRows] /\ \A k \in Lists \ {l} : pl'[k] = pl[k]
  <2>. DEFINE n == IF Live(l) THEN Cardinality(S) ELSE pl[l].count
              new == [pl[l] EXCEPT !.count = n]
  <2>1. n \in Nat /\ (pl[l].st = "live" => n = Cardinality(S))
    BY <1>3, <1>4 DEF Live, ListRows
  <2>2. pl' = [pl EXCEPT ![l] = new]
    BY <1>1, <1>3
  <2>. HIDE DEF n
  <2>3. new \in ListRows /\ new.st = pl[l].st /\ new.text = pl[l].text /\ new.count = n
    BY <1>3, <2>1 DEF ListRows
  <2>. HIDE DEF new
  <2>. QED  BY <1>2, <2>1, <2>2, <2>3, PlFacts
<1>6. \A d \in Clients : call[d] \in Calls /\ cl[d] = IF d = c THEN NoCall ELSE call[d]
  BY <1>1, PlFacts
<1>. HIDE DEF S, row, tags, cl
<1>7. OrderOK(S, now)
  BY <1>3 DEF OrderOK, Entries
<1>8. BlankOK(l, row, S, meant[l], cl)
  BY <1>3, <1>5 DEF BlankOK
<1>9. CountOK(l, row, S, tags, cl)
  BY <1>5 DEF CountOK
<1>10. TextOK(l, row, tags, meant[l], cl)
  BY <1>3, <1>5, <1>6, NoCallFacts DEF ListOK, TextOK, Updates
<1>11. ASSUME NEW d \in Clients, cl[d].l = l
       PROVE  PlaceOK(cl[d], S, now) /\ BuildOK(cl[d], row, S, tags, songs)
  <2>1. CASE d = c
    BY <1>6, <2>1, NoCallFacts DEF PlaceOK, BuildOK
  <2>2. CASE d # c
    <3>1. /\ cl[d] = call[d] /\ call[d] \in Calls /\ PlaceOK(call[d], S, clock)
          /\ BuildOK(call[d], pl[l], S, tags, songs)
      BY <1>3, <1>6, <1>11, <2>2 DEF ListOK
    <3>2. PlaceOK(call[d], S, now)
      BY <1>3, <3>1 DEF PlaceOK, Calls
    <3>. QED  BY <1>5, <3>1, <3>2 DEF BuildOK
  <2>. QED  BY <2>1, <2>2
<1>12. ListOK(l, row, S, tags, meant[l], songs, now, cl)
  BY <1>7, <1>8, <1>9, <1>10, <1>11 DEF ListOK
<1>13. ListOK(l, pl'[l], entries'[l], muddled'[l], meant'[l], songs, clock', call')
  BY <1>1, <1>12 DEF tags, cl, row, S
<1>14. /\ clock' \in Nat /\ clock <= clock' /\ missing' = {} /\ meant' \in [Lists -> Texts] /\ songs' = songs
       /\ muddled' \in [Lists -> SUBSET {"built", "text", "count"}]
       /\ entries' \in [Lists -> SUBSET Entries]
       /\ \A k \in Lists \ {l} : muddled'[k] = muddled[k] /\ meant'[k] = meant[k] /\ entries'[k] = entries[k]
  BY <1>1, <1>3, PlFacts
<1>15. /\ NoCall \in Calls /\ CallShape(NoCall) /\ NoCall.pc = "idle"
       /\ call' = [call EXCEPT ![c] = NoCall]
  BY <1>1, NoCallFacts
<1>. HIDE DEF l, now
<1>. QED  BY <1>2, <1>5, <1>13, <1>14, <1>15, OneList

\* The entries of a list that is given whole.
Replaced(n, ids, now) == {[pos |-> i - 1, song |-> ids[i], born |-> now, ack |-> now + 1] : i \in 1 .. n}

LEMMA Reordered ==
  ASSUME NEW n \in Nat, NEW ids \in [1 .. n -> Songs], NEW now \in Nat
  PROVE  /\ Replaced(n, ids, now) \in SUBSET Entries /\ OrderOK(Replaced(n, ids, now), now + 1)
         /\ Cardinality(Replaced(n, ids, now)) = n /\ \A e \in Replaced(n, ids, now) : e.ack = now + 1
<1>. DEFINE E(i) == [pos |-> i - 1, song |-> ids[i], born |-> now, ack |-> now + 1]
            T == {E(i) : i \in 1 .. n}
            f == [i \in 1 .. n |-> E(i)]
<1>1. ASSUME NEW i \in 1 .. n
      PROVE  E(i) \in Entries /\ E(i).pos = i - 1 /\ E(i).born = now /\ E(i).ack = now + 1
  BY DEF Entries
<1>. HIDE DEF E
<1>2. \A i \in 1 .. n : E(i) \in T
  OBVIOUS
<1>3. \A x \in T : \E i \in 1 .. n : x = E(i)
  OBVIOUS
<1>4. \A i, j \in 1 .. n : E(i).pos = E(j).pos => i = j
  <2>1. ASSUME NEW i \in 1 .. n, NEW j \in 1 .. n, E(i).pos = E(j).pos PROVE i = j
    <3>1. i \in Int /\ j \in Int /\ i - 1 = j - 1
      BY <1>1, <2>1
    <3>. QED  BY <3>1
  <2>. QED  BY <2>1
<1>5. f \in Surjection(1 .. n, T) /\ f \in Injection(1 .. n, T)
  <2>1. f \in [1 .. n -> T]
    OBVIOUS
  <2>2. \A x \in T : \E i \in 1 .. n : f[i] = x
    OBVIOUS
  <2>3. \A i, j \in 1 .. n : f[i] = f[j] => i = j
    BY <1>4
  <2>. QED  BY <2>1, <2>2, <2>3 DEF Surjection, Injection, IsInjective
<1>6. IsFiniteSet(T) /\ Cardinality(T) = n
  <2>1. IsFiniteSet(1 .. n) /\ Cardinality(1 .. n) = n
    BY FS_Interval
  <2>. QED  BY <1>5, <2>1, FS_Surjection
<1>. HIDE DEF T
<1>7. T \in SUBSET Entries /\ \A x \in T : x.born = now /\ x.ack = now + 1
  BY <1>1, <1>3
<1>8. \A x, y \in T : x.pos = y.pos => x = y
  BY <1>3, <1>4
<1>9. OrderOK(T, now + 1)
  BY <1>6, <1>7, <1>8 DEF OrderOK
<1>. QED  BY <1>6, <1>7, <1>9 DEF T, E, Replaced

LEMMA ReorderKeeps ==
  ASSUME PlInv, NEW c \in Clients, NEW l \in Lists, Reorder(c, l)
  PROVE  PlInv'
<1>. DEFINE now == clock + 1
            tags == muddled'[l]
            row == pl'[l]
            cl == call'
<1>1. /\ call[c].pc = "idle" /\ call' = [call EXCEPT ![c] = NoCall] /\ pl[l].st = "live" /\ clock' = now
      /\ Company(c, l, {"build"}, "built") /\ UNCHANGED <<songs, meant, missing>>
  BY DEF Reorder, Begin, Live
<1>0. PICK n \in 0 .. 2 : \E ids \in [1 .. n -> songs] :
         entries' = [entries EXCEPT ![l] = Replaced(n, ids, clock)] /\ pl' = [pl EXCEPT ![l].count = n]
  BY DEF Reorder, Replaced
<1>2. PICK ids \in [1 .. n -> songs] :
         entries' = [entries EXCEPT ![l] = Replaced(n, ids, clock)] /\ pl' = [pl EXCEPT ![l].count = n]
  BY <1>0
<1>. DEFINE T == Replaced(n, ids, clock)
<1>3. /\ muddled' \in [Lists -> SUBSET {"built", "text", "count"}] /\ muddled[l] \subseteq tags
      /\ \A k \in Lists \ {l} : muddled'[k] = muddled[k]
      /\ "built" \notin tags => Alone(c, l, {"build"})
      /\ "text" \in tags => "text" \in muddled[l]
  BY <1>1, CompanyFacts
<1>4. /\ ListOK(l, pl[l], entries[l], muddled[l], meant[l], songs, clock, call) /\ clock \in Nat /\ now \in Nat
      /\ clock <= now /\ pl[l] \in ListRows /\ n \in Nat /\ ids \in [1 .. n -> Songs]
  BY PlFacts
<1>5. T \in SUBSET Entries /\ OrderOK(T, now) /\ Cardinality(T) = n /\ \A e \in T : e.ack = now
  BY <1>4, Reordered
<1>6. /\ row \in ListRows /\ row.st = "live" /\ row.text = pl[l].text /\ row.count = n
      /\ pl' \in [Lists -> ListRows] /\ \A k \in Lists \ {l} : pl'[k] = pl[k]
  <2>. DEFINE new == [pl[l] EXCEPT !.count = n]
  <2>1. new \in ListRows /\ new.st = pl[l].st /\ new.text = pl[l].text /\ new.count = n
    BY <1>4 DEF ListRows
  <2>2. pl' = [pl EXCEPT ![l] = new]
    BY <1>2
  <2>. HIDE DEF new
  <2>. QED  BY <1>1, <2>1, <2>2, PlFacts
<1>7. \A d \in Clients : call[d] \in Calls /\ cl[d] = IF d = c THEN NoCall ELSE call[d]
  BY <1>1, PlFacts
<1>8. entries' \in [Lists -> SUBSET Entries] /\ entries'[l] = T /\ \A k \in Lists \ {l} : entries'[k] = entries[k]
  BY <1>2, <1>5, PlFacts
<1>. HIDE DEF T, tags, cl, row
<1>9. BlankOK(l, row, T, meant[l], cl)
  BY <1>6 DEF BlankOK
<1>10. CountOK(l, row, T, tags, cl)
  BY <1>5, <1>6 DEF CountOK
<1>11. TextOK(l, row, tags, meant[l], cl)
  BY <1>1, <1>3, <1>4, <1>6, <1>7, NoCallFacts DEF ListOK, TextOK, Updates
<1>12. ASSUME NEW d \in Clients, cl[d].l = l
       PROVE  PlaceOK(cl[d], T, now) /\ BuildOK(cl[d], row, T, tags, songs)
  <2>1. CASE d = c
    BY <1>7, <2>1, NoCallFacts DEF PlaceOK, BuildOK
  <2>2. CASE d # c
    <3>1. cl[d] = call[d] /\ call[d] \in Calls /\ PlaceOK(call[d], entries[l], clock)
      BY <1>4, <1>7, <1>12, <2>2 DEF ListOK
    <3>2. PlaceOK(call[d], T, now)
      BY <1>4, <1>5, <3>1 DEF PlaceOK, Calls
    <3>3. BuildOK(call[d], row, T, tags, songs)
      BY <1>3, <1>12, <2>2, <3>1 DEF BuildOK, Alone
    <3>. QED  BY <3>1, <3>2, <3>3
  <2>. QED  BY <2>1, <2>2
<1>13. ListOK(l, row, T, tags, meant[l], songs, now, cl)
  BY <1>5, <1>9, <1>10, <1>11, <1>12 DEF ListOK
<1>14. ListOK(l, pl'[l], entries'[l], muddled'[l], meant'[l], songs, clock', call')
  BY <1>1, <1>8, <1>13 DEF tags, cl, row
<1>15. /\ clock' \in Nat /\ clock <= clock' /\ missing' = {} /\ meant' \in [Lists -> Texts] /\ songs' = songs
       /\ \A k \in Lists \ {l} : meant'[k] = meant[k]
  BY <1>1, <1>4, PlFacts
<1>. QED  BY <1>1, <1>3, <1>6, <1>8, <1>14, <1>15, NoCallFacts, OneList

LEMMA UpdateReadsKeeps ==
  ASSUME PlInv, NEW c \in Clients, NEW l \in Lists, UpdateReads(c, l)
  PROVE  PlInv'
<1>1. PICK f \in {"name", "desc"} :
         Begin(c, [NoCall EXCEPT !.op = f, !.pc = "write", !.l = l, !.text = pl[l].text])
  BY DEF UpdateReads
<1>. DEFINE u == [NoCall EXCEPT !.op = f, !.pc = "write", !.l = l, !.text = pl[l].text]
            S == entries[l]
            tags == muddled'[l]
            cl == call'
<1>2. /\ call[c].pc = "idle" /\ call' = [call EXCEPT ![c] = u] /\ pl[l].st = "live"
      /\ Company(c, l, {"name", "desc"}, "text")
      /\ UNCHANGED <<pl, entries, songs, clock, meant, missing>>
  BY <1>1 DEF UpdateReads, Begin, Live
<1>3. u \in Calls /\ u.op = f /\ u.pc = "write" /\ u.l = l /\ u.text = pl[l].text
  <2>1. pl[l].text \in Texts
    BY PlFacts DEF ListRows
  <2>. QED  BY <2>1, NoCallFacts DEF Calls
<1>4. CallShape(u)
  BY <1>3 DEF CallShape
<1>5. /\ muddled' \in [Lists -> SUBSET {"built", "text", "count"}] /\ muddled[l] \subseteq tags
      /\ \A k \in Lists \ {l} : muddled'[k] = muddled[k]
      /\ "text" \notin tags => Alone(c, l, {"name", "desc"})
      /\ \A t \in {"built", "count"} : t \in tags => t \in muddled[l]
  BY <1>2, CompanyFacts
<1>6. /\ ListOK(l, pl[l], S, muddled[l], meant[l], songs, clock, call) /\ S \in SUBSET Entries
      /\ clock \in Nat
  BY PlFacts
<1>7. \A d \in Clients : CallShape(call[d]) /\ cl[d] = IF d = c THEN u ELSE call[d]
  BY <1>2, PlFacts
<1>. HIDE DEF u, S, tags, cl
<1>8. BlankOK(l, pl[l], S, meant[l], cl)
  BY <1>2 DEF BlankOK
<1>9. CountOK(l, pl[l], S, tags, cl)
  <2>1. \A d \in Clients : Counts(d, l, call) => Counts(d, l, cl)
    BY <1>2, <1>7 DEF Counts
  <2>. QED  BY <1>5, <1>6, <2>1 DEF ListOK, CountOK
<1>10. TextOK(l, pl[l], tags, meant[l], cl)
  <2>. SUFFICES ASSUME "text" \notin tags
                PROVE  TextOK(l, pl[l], tags, meant[l], cl)
    BY DEF TextOK
  <2>1. \A d \in Clients \ {c} : ~Updates(d, l, cl)
    BY <1>5, <1>7 DEF Alone, Updates, CallShape
  <2>2. pl[l].text = meant[l]
    BY <1>2, <1>5, <1>6 DEF ListOK, TextOK
  <2>. QED  BY <1>3, <1>7, <2>1, <2>2 DEF TextOK
<1>11. ASSUME NEW d \in Clients, cl[d].l = l
       PROVE  PlaceOK(cl[d], S, clock) /\ BuildOK(cl[d], pl[l], S, tags, songs)
  BY <1>3, <1>5, <1>6, <1>7, <1>11 DEF ListOK, PlaceOK, BuildOK
<1>12. ListOK(l, pl[l], S, tags, meant[l], songs, clock, cl)
  BY <1>6, <1>8, <1>9, <1>10, <1>11 DEF ListOK
<1>13. ListOK(l, pl'[l], entries'[l], muddled'[l], meant'[l], songs, clock', call')
  BY <1>2, <1>12 DEF tags, cl, S
<1>14. /\ clock' \in Nat /\ clock <= clock' /\ missing' = {} /\ pl' \in [Lists -> ListRows] /\ meant' \in [Lists -> Texts]
       /\ songs' = songs /\ entries' \in [Lists -> SUBSET Entries]
       /\ \A k \in Lists \ {l} : pl'[k] = pl[k] /\ meant'[k] = meant[k] /\ entries'[k] = entries[k]
  BY <1>2, PlFacts
<1>. QED  BY <1>2, <1>3, <1>4, <1>5, <1>13, <1>14, OneList

(* A row after an update of one of its fields.                             *)
LEMMA TextFacts ==
  ASSUME NEW t \in Texts, NEW f \in {"name", "desc"}
  PROVE  /\ NewText(t, f, 1) \in Texts /\ [t EXCEPT ![f] = 1] \in Texts
         /\ NewText(t, f, 1) = [t EXCEPT ![f] = 1]
<1>1. CASE f = "name"
  BY <1>1 DEF NewText, Texts
<1>2. CASE f = "desc"
  BY <1>2 DEF NewText, Texts
<1>. QED  BY <1>1, <1>2

LEMMA UpdateWritesKeeps ==
  ASSUME PlInv, NEW c \in Clients, UpdateWrites(c)
  PROVE  PlInv'
<1>. DEFINE r == call[c]
            l == r.l
            S == entries[l]
            row == pl'[l]
            m == meant'[l]
            tags == muddled[l]
            now == clock + 1
            cl == call'
<1>1. /\ r.pc = "write" /\ call' = [call EXCEPT ![c] = NoCall] /\ clock' = now
      /\ UNCHANGED <<entries, songs, muddled, missing>>
      /\ pl' = [pl EXCEPT ![l].text = IF Live(l) THEN NewText(r.text, r.op, 1) ELSE @]
      /\ meant' = [meant EXCEPT ![l][r.op] = 1]
  BY DEF UpdateWrites, Answer
<1>2. l \in Lists /\ r \in Calls /\ r.op \in {"name", "desc"}
  BY <1>1, PlFacts DEF CallShape
<1>3. /\ ListOK(l, pl[l], S, tags, meant[l], songs, clock, call) /\ S \in SUBSET Entries /\ clock \in Nat /\ now \in Nat
      /\ clock <= now /\ pl[l] \in ListRows /\ meant[l] \in Texts
  BY <1>2, PlFacts
<1>4. pl[l].st # "new"
  BY <1>1, <1>3 DEF ListOK, BlankOK
<1>5. r.text \in Texts /\ pl[l].text \in Texts
  BY <1>2, <1>3 DEF Calls, ListRows
<1>6. NewText(r.text, r.op, 1) \in Texts /\ [meant[l] EXCEPT ![r.op] = 1] \in Texts
  BY <1>2, <1>3, <1>5, TextFacts
<1>7. /\ row \in ListRows /\ row.st = pl[l].st /\ row.count = pl[l].count
      /\ row.st = "live" => row.text = NewText(r.text, r.op, 1)
      /\ pl' \in [Lists -> ListRows] /\ \A k \in Lists \ {l} : pl'[k] = pl[k]
  <2>. DEFINE t == IF Live(l) THEN NewText(r.text, r.op, 1) ELSE pl[l].text
              new == [pl[l] EXCEPT !.text = t]
  <2>1. t \in Texts /\ (pl[l].st = "live" => t = NewText(r.text, r.op, 1))
    BY <1>5, <1>6 DEF Live
  <2>2. pl' = [pl EXCEPT ![l] = new]
    BY <1>1, <1>3
  <2>. HIDE DEF t
  <2>3. new \in ListRows /\ new.st = pl[l].st /\ new.text = t /\ new.count = pl[l].count
    BY <1>3, <2>1 DEF ListRows
  <2>. HIDE DEF new
  <2>. QED  BY <1>2, <2>1, <2>2, <2>3, PlFacts
<1>8. /\ m = [meant[l] EXCEPT ![r.op] = 1] /\ meant' \in [Lists -> Texts]
      /\ \A k \in Lists \ {l} : meant'[k] = meant[k]
  <2>. DEFINE new == [meant[l] EXCEPT ![r.op] = 1]
  <2>1. new \in Texts /\ meant' = [meant EXCEPT ![l] = new]
    BY <1>1, <1>6
  <2>. HIDE DEF new
  <2>2. m = new /\ meant' \in [Lists -> Texts] /\ \A k \in Lists \ {l} : meant'[k] = meant[k]
    BY <1>2, <2>1, PlFacts
  <2>. QED  BY <2>2 DEF new
<1>9. \A d \in Clients : call[d] \in Calls /\ cl[d] = IF d = c THEN NoCall ELSE call[d]
  BY <1>1, PlFacts
<1>10. TextOK(l, row, tags, m, cl)
  <2>. SUFFICES ASSUME "text" \notin tags
                PROVE  /\ row.st = "live" => row.text = m
                       /\ \A d \in Clients : ~Updates(d, l, cl)
    BY DEF TextOK
  <2>1. \A d, e \in Clients : Updates(d, l, call) /\ Updates(e, l, call) => d = e
    BY <1>3 DEF ListOK, TextOK
  <2>2. Updates(c, l, call) /\ ~Updates(c, l, cl)
    BY <1>1, <1>9, NoCallFacts DEF Updates
  <2>3. \A d \in Clients : ~Updates(d, l, cl)
    BY <1>9, <2>1, <2>2 DEF Updates
  <2>4. ASSUME row.st = "live" PROVE row.text = m
    <3>1. pl[l].text = meant[l] /\ r.text = pl[l].text
      BY <1>3, <1>7, <2>2, <2>4 DEF ListOK, TextOK
    <3>2. NewText(meant[l], r.op, 1) = [meant[l] EXCEPT ![r.op] = 1]
      BY <1>2, <1>3, TextFacts
    <3>. QED  BY <1>7, <1>8, <2>4, <3>1, <3>2
  <2>. QED  BY <2>3, <2>4
<1>. HIDE DEF S, row, m, tags, cl
<1>11. OrderOK(S, now)
  BY <1>3 DEF ListOK, OrderOK, Entries
<1>12. BlankOK(l, row, S, m, cl)
  BY <1>4, <1>7 DEF BlankOK
<1>13. CountOK(l, row, S, tags, cl)
  <2>1. \A d \in Clients : Counts(d, l, call) => Counts(d, l, cl)
    BY <1>1, <1>9 DEF Counts
  <2>. QED  BY <1>3, <1>7, <2>1 DEF ListOK, CountOK
<1>14. ASSUME NEW d \in Clients, cl[d].l = l
       PROVE  PlaceOK(cl[d], S, now) /\ BuildOK(cl[d], row, S, tags, songs)
  <2>1. CASE d = c
    BY <1>9, <2>1, NoCallFacts DEF PlaceOK, BuildOK
  <2>2. CASE d # c
    <3>1. /\ cl[d] = call[d] /\ call[d] \in Calls /\ PlaceOK(call[d], S, clock)
          /\ BuildOK(call[d], pl[l], S, tags, songs)
      BY <1>3, <1>9, <1>14, <2>2 DEF ListOK
    <3>2. PlaceOK(call[d], S, now)
      BY <1>3, <3>1 DEF PlaceOK, Calls
    <3>. QED  BY <1>7, <3>1, <3>2 DEF BuildOK
  <2>. QED  BY <2>1, <2>2
<1>15. ListOK(l, row, S, tags, m, songs, now, cl)
  BY <1>10, <1>11, <1>12, <1>13, <1>14 DEF ListOK
<1>16. ListOK(l, pl'[l], entries'[l], muddled'[l], meant'[l], songs, clock', call')
  BY <1>1, <1>15 DEF tags, cl, row, S, m
<1>17. /\ clock' \in Nat /\ clock <= clock' /\ missing' = {} /\ songs' = songs
       /\ muddled' \in [Lists -> SUBSET {"built", "text", "count"}]
       /\ entries' \in [Lists -> SUBSET Entries]
       /\ \A k \in Lists \ {l} : muddled'[k] = muddled[k] /\ entries'[k] = entries[k]
  BY <1>1, <1>3, PlFacts
<1>18. NoCall \in Calls /\ CallShape(NoCall) /\ NoCall.pc = "idle" /\ call' = [call EXCEPT ![c] = NoCall]
       /\ call[c].l = l
  BY <1>1, NoCallFacts
<1>. HIDE DEF l, now
<1>. QED  BY <1>2, <1>7, <1>8, <1>16, <1>17, <1>18, OneList

LEMMA DeleteListKeeps ==
  ASSUME PlInv, NEW c \in Clients, NEW l \in Lists, DeleteList(c, l)
  PROVE  PlInv'
<1>. DEFINE row == pl'[l]
            tags == muddled[l]
            cl == call'
<1>1. /\ call[c].pc = "idle" /\ call' = [call EXCEPT ![c] = NoCall] /\ pl[l].st = "live"
      /\ pl' = [pl EXCEPT ![l].st = "gone"] /\ entries' = [entries EXCEPT ![l] = {}]
      /\ UNCHANGED <<songs, clock, meant, muddled, missing>>
  BY DEF DeleteList, Begin, Live
<1>2. /\ ListOK(l, pl[l], entries[l], tags, meant[l], songs, clock, call) /\ clock \in Nat /\ pl[l] \in ListRows
  BY PlFacts
<1>3. /\ row \in ListRows /\ row.st = "gone" /\ row.text = pl[l].text
      /\ pl' \in [Lists -> ListRows] /\ \A k \in Lists \ {l} : pl'[k] = pl[k]
  <2>. DEFINE new == [pl[l] EXCEPT !.st = "gone"]
  <2>1. new \in ListRows /\ new.st = "gone" /\ new.text = pl[l].text
    BY <1>2 DEF ListRows
  <2>2. pl' = [pl EXCEPT ![l] = new]
    BY <1>1
  <2>. HIDE DEF new
  <2>. QED  BY <2>1, <2>2, PlFacts
<1>4. entries' \in [Lists -> SUBSET Entries] /\ entries'[l] = {} /\ \A k \in Lists \ {l} : entries'[k] = entries[k]
  BY <1>1, PlFacts
<1>5. \A d \in Clients : cl[d] = IF d = c THEN NoCall ELSE call[d]
  BY <1>1, PlFacts
<1>. HIDE DEF tags, cl, row
<1>6. BlankOK(l, row, {}, meant[l], cl) /\ CountOK(l, row, {}, tags, cl)
  BY <1>3 DEF BlankOK, CountOK
<1>7. OrderOK({}, clock)
  BY FS_EmptySet DEF OrderOK
<1>8. TextOK(l, row, tags, meant[l], cl)
  <2>1. \A d \in Clients : Updates(d, l, cl) => Updates(d, l, call) /\ cl[d] = call[d]
    BY <1>5, NoCallFacts DEF Updates
  <2>2. TextOK(l, pl[l], tags, meant[l], call)
    BY <1>2 DEF ListOK
  <2>. QED  BY <1>3, <2>1, <2>2 DEF TextOK
<1>9. ASSUME NEW d \in Clients, cl[d].l = l
      PROVE  PlaceOK(cl[d], {}, clock) /\ BuildOK(cl[d], row, {}, tags, songs)
  <2>1. BuildOK(cl[d], row, {}, tags, songs)
    BY <1>3 DEF BuildOK
  <2>2. CASE d = c
    BY <1>5, <2>1, <2>2, NoCallFacts DEF PlaceOK
  <2>3. CASE d # c
    <3>1. cl[d] = call[d] /\ PlaceOK(call[d], entries[l], clock)
      BY <1>2, <1>5, <1>9, <2>3 DEF ListOK
    <3>. QED  BY <2>1, <3>1 DEF PlaceOK
  <2>. QED  BY <2>2, <2>3
<1>10. ListOK(l, row, {}, tags, meant[l], songs, clock, cl)
  BY <1>6, <1>7, <1>8, <1>9 DEF ListOK
<1>11. ListOK(l, pl'[l], entries'[l], muddled'[l], meant'[l], songs, clock', call')
  BY <1>1, <1>4, <1>10 DEF tags, cl, row
<1>12. /\ clock' \in Nat /\ clock <= clock' /\ missing' = {} /\ meant' \in [Lists -> Texts] /\ songs' = songs
       /\ muddled' \in [Lists -> SUBSET {"built", "text", "count"}]
       /\ \A k \in Lists \ {l} : muddled'[k] = muddled[k] /\ meant'[k] = meant[k]
  BY <1>1, PlFacts
<1>. QED  BY <1>1, <1>3, <1>4, <1>11, <1>12, NoCallFacts, OneList

\* What is left of a list without a track.
WithoutSong(S, s) == {e \in S : e.song # s}

(* A list when a track is deleted.                                         *)
LEMMA SongGone ==
  ASSUME NEW l, NEW row, NEW S \in SUBSET Entries, NEW tags, NEW m, NEW ss, NEW now, NEW cl, NEW s, NEW cl2, NEW tags2,
         ListOK(l, row, S, tags, m, ss, now, cl),
         \A c \in Clients : cl2[c] = cl[c] \/ (cl[c].pc = "idle" /\ cl2[c] = NoCall),
         tags2 = IF \E e \in S : e.song = s THEN tags \union {"count"} ELSE tags
  PROVE  ListOK(l, row, WithoutSong(S, s), tags2, m, ss \ {s}, now, cl2)
<1>. DEFINE T == WithoutSong(S, s)
<1>1. T \in SUBSET S /\ (\A e \in S : e.song # s => e \in T)
  BY DEF WithoutSong
<1>2. tags \subseteq tags2 /\ ("text" \in tags2 => "text" \in tags)
  OBVIOUS
<1>3. "count" \notin tags2 => T = S /\ "count" \notin tags
  BY DEF WithoutSong
<1>4. NoCall.pc = "idle" /\ NoCall.op = "none"
  BY NoCallFacts
<1>. HIDE DEF T
<1>5. BlankOK(l, row, T, m, cl2)
  BY <1>1, <1>4 DEF ListOK, BlankOK
<1>6. OrderOK(T, now)
  BY <1>1, FewerInOrder DEF ListOK
<1>7. CountOK(l, row, T, tags2, cl2)
  <2>1. \A c \in Clients : Counts(c, l, cl) => Counts(c, l, cl2)
    BY DEF Counts
  <2>2. CountOK(l, row, S, tags, cl)
    BY DEF ListOK
  <2>. QED  BY <1>3, <2>1, <2>2 DEF CountOK
<1>8. TextOK(l, row, tags2, m, cl2)
  <2>1. \A c \in Clients : Updates(c, l, cl2) => Updates(c, l, cl) /\ cl2[c] = cl[c]
    BY <1>4 DEF Updates
  <2>2. TextOK(l, row, tags, m, cl)
    BY DEF ListOK
  <2>. QED  BY <1>2, <2>1, <2>2 DEF TextOK
<1>9. ASSUME NEW c \in Clients, cl2[c].l = l
      PROVE  PlaceOK(cl2[c], T, now) /\ BuildOK(cl2[c], row, T, tags2, ss \ {s})
  <2>1. CASE cl2[c] = NoCall
    BY <1>4, <2>1 DEF PlaceOK, BuildOK
  <2>2. CASE cl2[c] = cl[c]
    <3>1. PlaceOK(cl[c], S, now) /\ BuildOK(cl[c], row, S, tags, ss)
      BY <1>9, <2>2 DEF ListOK
    <3>2. PlaceOK(cl[c], T, now)
      BY <1>1, <3>1 DEF PlaceOK
    <3>3. \A t \in ss \ {s} : Lists1(S, t) => Lists1(T, t)
      BY <1>1 DEF Lists1
    <3>4. BuildOK(cl[c], row, T, tags2, ss \ {s})
      BY <1>1, <1>2, <3>1, <3>3 DEF BuildOK
    <3>. QED  BY <2>2, <3>2, <3>4
  <2>. QED  BY <2>1, <2>2
<1>10. ListOK(l, row, T, tags2, m, ss \ {s}, now, cl2)
  BY <1>5, <1>6, <1>7, <1>8, <1>9 DEF ListOK
<1>. QED  BY <1>10 DEF T

LEMMA DeleteSongKeeps ==
  ASSUME PlInv, NEW c \in Clients, NEW s \in Songs, DeleteSong(c, s)
  PROVE  PlInv'
<1>1. /\ call[c].pc = "idle" /\ call' = [call EXCEPT ![c] = NoCall] /\ songs' = songs \ {s}
      /\ UNCHANGED <<pl, clock, meant, missing>>
      /\ entries' = [l \in Lists |-> WithoutSong(entries[l], s)]
      /\ muddled' = [l \in Lists |-> IF \E e \in entries[l] : e.song = s THEN muddled[l] \union {"count"} ELSE muddled[l]]
  <2>1. \A l \in Lists : s \in SongsOf(l) <=> \E e \in entries[l] : e.song = s
    BY DEF SongsOf
  <2>2. muddled' = [l \in Lists |-> IF s \in SongsOf(l) THEN muddled[l] \union {"count"} ELSE muddled[l]]
    BY DEF DeleteSong
  <2>. HIDE DEF SongsOf
  <2>3. muddled' = [l \in Lists |-> IF \E e \in entries[l] : e.song = s THEN muddled[l] \union {"count"} ELSE muddled[l]]
    BY <2>1, <2>2
  <2>. QED  BY <2>3 DEF DeleteSong, Begin, WithoutSong
<1>2. ASSUME NEW l \in Lists
      PROVE  /\ ListOK(l, pl[l], entries'[l], muddled'[l], meant[l], songs', clock, call')
             /\ entries'[l] \in SUBSET Entries /\ muddled'[l] \in SUBSET {"built", "text", "count"}
  <2>. DEFINE cl == call'
              t == muddled'[l]
  <2>1. entries'[l] = WithoutSong(entries[l], s) /\ songs' = songs \ {s}
    BY <1>1
  <2>2. t = IF \E e \in entries[l] : e.song = s THEN muddled[l] \union {"count"} ELSE muddled[l]
    BY <1>1
  <2>3. \A d \in Clients : cl[d] = call[d] \/ (call[d].pc = "idle" /\ cl[d] = NoCall)
    BY <1>1, PlFacts
  <2>4. ListOK(l, pl[l], entries[l], muddled[l], meant[l], songs, clock, call) /\ entries[l] \in SUBSET Entries
        /\ muddled[l] \in SUBSET {"built", "text", "count"}
    BY PlFacts
  <2>. HIDE DEF cl, t
  <2>5. ListOK(l, pl[l], WithoutSong(entries[l], s), t, meant[l], songs \ {s}, clock, cl)
    BY <2>2, <2>3, <2>4, SongGone
  <2>6. WithoutSong(entries[l], s) \in SUBSET Entries /\ t \in SUBSET {"built", "text", "count"}
    BY <2>2, <2>4 DEF WithoutSong
  <2>. QED  BY <2>1, <2>5, <2>6 DEF cl, t
<1>3. /\ entries' \in [Lists -> SUBSET Entries]
      /\ muddled' \in [Lists -> SUBSET {"built", "text", "count"}]
  <2>1. entries' = [l \in Lists |-> entries'[l]] /\ muddled' = [l \in Lists |-> muddled'[l]]
    BY <1>1
  <2>. QED  BY <1>2, <2>1
<1>4. call' \in [Clients -> Calls] /\ \A d \in Clients : CallShape(call'[d])
  BY <1>1, PlFacts, NoCallFacts
<1>5. /\ pl' \in [Lists -> ListRows] /\ songs' \in SUBSET Songs /\ clock' \in Nat
      /\ meant' \in [Lists -> Texts] /\ missing' = {}
  BY <1>1, PlFacts
<1>6. \A l \in Lists : ListOK(l, pl'[l], entries'[l], muddled'[l], meant'[l], songs', clock', call')
  BY <1>1, <1>2
<1>. QED  BY <1>3, <1>4, <1>5, <1>6 DEF PlInv, PlTypes

LEMMA PlInitial ==
  ASSUME PlaylistInit PROVE PlInv
<1>1. PlTypes
  BY NoCallFacts DEF PlaylistInit, PlTypes, ListRows
<1>2. \A c \in Clients : call[c] = NoCall
  BY DEF PlaylistInit
<1>3. ASSUME NEW l \in Lists
      PROVE  ListOK(l, pl[l], entries[l], muddled[l], meant[l], songs, clock, call)
  <2>1. /\ pl[l].st = "new" /\ pl[l].text = Fresh /\ meant[l] = Fresh /\ pl[l].count = 0
        /\ entries[l] = {}
    BY DEF PlaylistInit
  <2>2. BlankOK(l, pl[l], {}, meant[l], call) /\ OrderOK({}, clock)
    BY <1>2, <2>1, NoCallFacts, FS_EmptySet DEF BlankOK, OrderOK
  <2>3. CountOK(l, pl[l], {}, muddled[l], call) /\ TextOK(l, pl[l], muddled[l], meant[l], call)
    BY <1>2, <2>1, NoCallFacts DEF CountOK, TextOK, Updates
  <2>4. \A c \in Clients : PlaceOK(call[c], {}, clock) /\ BuildOK(call[c], pl[l], {}, muddled[l], songs)
    BY <1>2, <2>1, NoCallFacts DEF PlaceOK, BuildOK
  <2>. QED  BY <2>1, <2>2, <2>3, <2>4 DEF ListOK
<1>. QED  BY <1>1, <1>2, <1>3, NoCallFacts DEF PlInv, PlaylistInit

LEMMA PlInductive ==
  ASSUME PlInv, [PlaylistNext]_plVars
  PROVE  PlInv'
<1>1. CASE PlaylistNext
  <2>1. PICK c \in Clients :
          \/ CreateBuilt(c) \/ AddReads(c) \/ AddInserts(c) \/ AddCounts(c) \/ BuildAnswers(c)
          \/ RemoveCounts(c) \/ UpdateWrites(c) \/ DropCall(c)
          \/ \E s \in Songs : DeleteSong(c, s)
          \/ \E l \in Lists :
               \/ CreateList(c, l) \/ FindTracks(c, l) \/ Reorder(c, l) \/ UpdateReads(c, l) \/ DeleteList(c, l)
               \/ \E s \in Songs : AddTrack(c, l, s) \/ RemoveTrack(c, l, s)
    BY <1>1 DEF PlaylistNext
  <2>2. CASE CreateBuilt(c) \/ AddReads(c) \/ AddInserts(c)
    BY <2>2, CreateBuiltKeeps, AddReadsKeeps, AddInsertsKeeps
  <2>3. CASE AddCounts(c) \/ BuildAnswers(c) \/ RemoveCounts(c)
    BY <2>3, AddCountsKeeps, BuildAnswersKeeps, RemoveCountsKeeps
  <2>4. CASE UpdateWrites(c) \/ DropCall(c)
    BY <2>4, UpdateWritesKeeps, DropCallKeeps
  <2>5. CASE \E s \in Songs : DeleteSong(c, s)
    BY <2>5, DeleteSongKeeps
  <2>6. CASE \E l \in Lists :
               \/ CreateList(c, l) \/ FindTracks(c, l) \/ Reorder(c, l) \/ UpdateReads(c, l) \/ DeleteList(c, l)
               \/ \E s \in Songs : AddTrack(c, l, s) \/ RemoveTrack(c, l, s)
    <3>1. PICK l \in Lists :
               \/ CreateList(c, l) \/ FindTracks(c, l) \/ Reorder(c, l) \/ UpdateReads(c, l) \/ DeleteList(c, l)
               \/ \E s \in Songs : AddTrack(c, l, s) \/ RemoveTrack(c, l, s)
      BY <2>6
    <3>2. CASE CreateList(c, l) \/ FindTracks(c, l) \/ Reorder(c, l)
      BY <3>2, CreateKeeps, FindKeeps, ReorderKeeps
    <3>3. CASE UpdateReads(c, l) \/ DeleteList(c, l)
      BY <3>3, UpdateReadsKeeps, DeleteListKeeps
    <3>4. CASE \E s \in Songs : AddTrack(c, l, s) \/ RemoveTrack(c, l, s)
      BY <3>4, AddTrackKeeps, RemoveKeeps
    <3>. QED  BY <3>1, <3>2, <3>3, <3>4
  <2>. QED  BY <2>1, <2>2, <2>3, <2>4, <2>5, <2>6
<1>2. CASE UNCHANGED plVars
  BY <1>2 DEF plVars, PlInv, PlTypes
<1>. QED  BY <1>1, <1>2

(* Every playlist is blank, or has distinct positions in the order of the  *)
(* requests, a count that is right or about to be, what an import found of *)
(* it so far, and a text that at most one update is about to write.        *)
THEOREM PlaylistsInvariant == PlaylistSpec => []PlInv
<1>1. PlaylistInit => PlInv
  BY PlInitial
<1>2. PlInv /\ [PlaylistNext]_plVars => PlInv'
  BY PlInductive
<1>. QED  BY <1>1, <1>2, PTL DEF PlaylistSpec

(* Playlists agree with the requests that were answered: the stored count, *)
(* the order of additions, finished imports and text updates.              *)
THEOREM PlaylistsAreTrue == PlaylistSpec => []PlaylistsAgree
<1>1. PlInv => PlaylistsAgree
  <2>. SUFFICES ASSUME PlInv PROVE PlaylistsAgree
    OBVIOUS
  <2>1. CountMatches
    BY PlFacts DEF ListOK, CountOK, CountMatches, Counts, Live
  <2>2. AppendsInOrder
    BY PlFacts DEF ListOK, OrderOK, AppendsInOrder
  <2>3. BuiltComplete
    BY PlFacts DEF BuiltComplete
  <2>4. UpdatesStand
    BY PlFacts DEF ListOK, TextOK, UpdatesStand, Live
  <2>. QED  BY <2>1, <2>2, <2>3, <2>4 DEF PlaylistsAgree
<1>. QED  BY <1>1, PlaylistsInvariant, PTL

-----------------------------------------------------------------------------
(***************************************************************************)
(* The library                                                             *)
(***************************************************************************)
\* The inductive invariant.

Views == [Paths -> Nat]
TrackRows == [fp : Nat, hash : Nat]
Guards == [state : {"none", "online", "unavailable"}, dev : {"none", "vol", "bare"}, misled : BOOLEAN]
Snapshots == [st : {"unset", "lost", "seen"}, view : Views]
ScanTasks ==
  [pc : {"idle", "off", "device", "change", "drop", "scan", "judge", "write", "purge", "save"},
   why : {"none", "poll", "enable"}, seen : Views, dev : {"none", "vol", "bare"}, old : Views, plan : Views,
   dead : BOOLEAN, shaken : {"no", "mount", "file"}]

LibraryTypes ==
  /\ vol \in Views /\ mount \in {"vol", "bare", "gone"} /\ rows \in [Paths -> TrackRows]
  /\ guard \in Guards /\ snaps \in Snapshots /\ task \in [Tasks -> ScanTasks]
  /\ lost \in SUBSET Paths /\ blind \in SUBSET Paths /\ events \in Nat

\* Versions are numbered as they appear, so none comes back.
Numbered(v, n) == \A f \in Paths : v[f] <= n + 1

HashOK(row, v, n) == row.fp <= n + 1 /\ (row.fp # 0 /\ row.hash # 0 /\ row.fp = v => row.hash = v)

\* A pass that is about to write has the hashes of the bytes it found, and writes down the bare
\* directory's device only where it was misled.
TaskOK(t, vl, g, bl, n) ==
  /\ Numbered(t.seen, n)
  /\ t.pc = "write" => /\ t.dev = "bare" => g.misled
                       /\ \A f \in Paths \ bl :
                            t.seen[f] # 0 /\ t.seen[f] = vl[f] /\ t.plan[f] # 0 => t.plan[f] = vl[f]

\* A task that has looked at the root saw the volume, all of it unless a file has appeared since
\* and the mount will stand; or it saw nothing, and then has no row to delete.
Whole(t, vl) == \A f \in Paths : vl[f] # 0 => t.seen[f] # 0
Blank(v) == \A f \in Paths : v[f] = 0
Looking == {"device", "change", "drop", "judge", "write", "purge"}
SeenOK(t, vl, mt, g) ==
  t.pc \in Looking =>
    \/ mt = "vol" /\ (t.shaken = "no" => Whole(t, vl))
    \/ t.shaken = "mount" /\ Whole(t, vl)
    \/ /\ Blank(t.seen) /\ (mt = "bare" \/ t.shaken = "mount")
       /\ t.pc \notin {"device", "judge"} => g.misled \/ Blank(t.old)

LibraryInv ==
  /\ LibraryTypes /\ Numbered(vol, events) /\ (guard.dev = "bare" => guard.misled)
  /\ \A f \in Paths \ blind : HashOK(rows[f], vol[f], events)
  /\ \A p \in Tasks : TaskOK(task[p], vol, guard, blind, events)
  /\ "flap" \notin Hazards => OutageKeepsTracks /\ \A p \in Tasks : SeenOK(task[p], vol, mount, guard)

-----------------------------------------------------------------------------
LEMMA LibraryFacts ==
  ASSUME LibraryInv
  PROVE  /\ vol \in Views /\ mount \in {"vol", "bare", "gone"} /\ rows \in [Paths -> TrackRows]
         /\ guard \in Guards /\ snaps \in Snapshots /\ task \in [Tasks -> ScanTasks]
         /\ lost \in SUBSET Paths /\ blind \in SUBSET Paths /\ events \in Nat
         /\ Numbered(vol, events) /\ (guard.dev = "bare" => guard.misled)
         /\ \A f \in Paths \ blind : HashOK(rows[f], vol[f], events)
         /\ \A p \in Tasks : TaskOK(task[p], vol, guard, blind, events)
         /\ "flap" \notin Hazards => OutageKeepsTracks
         /\ "flap" \notin Hazards => \A p \in Tasks : SeenOK(task[p], vol, mount, guard)
  BY DEF LibraryInv, LibraryTypes

LEMMA IdleFacts ==
  /\ NoView \in Views /\ (\A f \in Paths : NoView[f] = 0) /\ IdleTask \in ScanTasks
  /\ IdleTask.pc = "idle" /\ IdleTask.seen = NoView /\ IdleTask.old = NoView
  /\ IdleTask.shaken = "no"
  /\ Unseen \in Snapshots /\ Lost \in Snapshots
<1>1. NoView \in Views /\ (\A f \in Paths : NoView[f] = 0) /\ [f \in Paths |-> 0] \in Views
  BY DEF NoView, Views
<1>. QED  BY <1>1 DEF IdleTask, ScanTasks, Unseen, Lost, Snapshots

LEMMA LookFacts ==
  ASSUME LibraryInv
  PROVE  /\ View \in Views /\ Numbered(View, events) /\ \A f \in Paths : View[f] = 0 \/ View[f] = vol[f]
         /\ mount = "vol" => View = vol
         /\ mount # "vol" => Blank(View)
         /\ get_path_device_id \in {"none", "vol", "bare"}
<1>1. CASE mount = "vol"
  BY <1>1, LibraryFacts DEF View, Blank, get_path_device_id
<1>2. CASE mount # "vol"
  <2>1. View = NoView /\ Numbered(NoView, events)
    BY <1>2, LibraryFacts, IdleFacts DEF View, Numbered
  <2>. QED  BY <1>2, <2>1, LibraryFacts, IdleFacts DEF get_path_device_id, Blank
<1>. QED  BY <1>1, <1>2

(* A step of one task that leaves the volume and the mount alone: what is  *)
(* left to show of it.                                                     *)
LEMMA TaskMoves ==
  ASSUME LibraryInv, NEW p \in Tasks, NEW t \in ScanTasks, task' = [task EXCEPT ![p] = t],
         UNCHANGED <<vol, mount>>, events' \in Nat, events <= events', snaps' \in Snapshots,
         rows' \in [Paths -> TrackRows], blind \subseteq blind', blind' \in SUBSET Paths, lost' \in SUBSET Paths,
         guard' \in Guards, guard.misled => guard'.misled, guard'.dev = "bare" => guard'.misled,
         \A f \in Paths \ blind' : HashOK(rows'[f], vol[f], events'),
         TaskOK(t, vol, guard', blind', events'),
         "flap" \notin Hazards => SeenOK(t, vol, mount, guard') /\ (~guard'.misled => lost' = {})
  PROVE  LibraryInv'
<1>1. LibraryTypes' /\ Numbered(vol', events')
  BY LibraryFacts DEF LibraryTypes, Numbered, Views
<1>2. \A q \in Tasks : task'[q] = IF q = p THEN t ELSE task[q]
  BY LibraryFacts
<1>3. ASSUME NEW q \in Tasks PROVE TaskOK(task'[q], vol', guard', blind', events')
  <2>1. CASE q = p
    BY <1>2, <2>1
  <2>2. CASE q # p
    <3>1. /\ TaskOK(task[q], vol, guard, blind, events) /\ task[q] \in ScanTasks
          /\ task'[q] = task[q] /\ events \in Nat
      BY <1>2, <2>2, LibraryFacts
    <3>2. \A f \in Paths : task[q].seen[f] \in Nat
      BY <3>1 DEF ScanTasks, Views
    <3>3. Numbered(task[q].seen, events')
      BY <3>1, <3>2 DEF TaskOK, Numbered
    <3>. QED  BY <3>1, <3>3 DEF TaskOK
  <2>. QED  BY <2>1, <2>2
<1>4. ASSUME "flap" \notin Hazards, NEW q \in Tasks PROVE SeenOK(task'[q], vol', mount', guard')
  <2>1. SeenOK(task[q], vol, mount, guard)
    BY <1>4, LibraryFacts
  <2>2. SeenOK(task[q], vol, mount, guard')
    BY <2>1 DEF SeenOK
  <2>. QED  BY <1>2, <1>4, <2>2
<1>. QED  BY <1>1, <1>3, <1>4 DEF LibraryInv, OutageKeepsTracks

(* The guard after a state is stored with a device.                        *)
LEMMA GuardMoves ==
  ASSUME LibraryInv, NEW s \in {"none", "online", "unavailable"}, NEW dev \in {"none", "vol", "bare"},
         s = "online" /\ dev = "bare" => guard.misled \/ guard.dev = "none",
         update_mount_state_with_device(s, dev)
  PROVE  /\ guard' \in Guards /\ (guard.misled => guard'.misled) /\ (guard'.dev = "bare" => guard'.misled)
         /\ s = "online" /\ dev = "bare" => guard'.misled
<1>. DEFINE trust == IF s = "online" /\ dev # "none" THEN dev ELSE guard.dev
            bad == guard.misled \/ (trust = "bare" /\ guard.dev = "none")
<1>1. guard' = [state |-> s, dev |-> trust, misled |-> bad]
  BY DEF update_mount_state_with_device
<1>2. trust \in {"none", "vol", "bare"} /\ bad \in BOOLEAN
  BY LibraryFacts DEF Guards
<1>3. trust = "bare" => bad
  BY LibraryFacts
<1>4. s = "online" /\ dev = "bare" => bad
  OBVIOUS
<1>5. guard.misled => bad
  OBVIOUS
<1>. HIDE DEF trust, bad
<1>6. guard' \in Guards /\ guard'.dev = trust /\ guard'.misled = bad
  BY <1>1, <1>2 DEF Guards
<1>. QED  BY <1>3, <1>4, <1>5, <1>6

LEMMA FinishMoves ==
  ASSUME LibraryInv, NEW p \in Tasks, NEW s, Finish(p, s)
  PROVE  /\ snaps' \in Snapshots
         /\ \E t \in ScanTasks : task' = [task EXCEPT ![p] = t] /\ t.pc = "idle" /\ t.seen = NoView
<1>. DEFINE b == p = "watcher" /\ task[p].dead
            t == [IdleTask EXCEPT !.dead = b]
<1>1. task' = [task EXCEPT ![p] = t] /\ snaps' \in Snapshots
  BY LibraryFacts, IdleFacts DEF Finish, Go
<1>2. b \in BOOLEAN
  BY LibraryFacts DEF ScanTasks
<1>. HIDE DEF b
<1>3. t \in ScanTasks /\ t.pc = "idle" /\ t.seen = NoView
  BY <1>2, IdleFacts DEF ScanTasks
<1>. QED  BY <1>1, <1>3

(* A task that is at rest, or about to look.                               *)
LEMMA RestOK ==
  ASSUME LibraryInv, NEW t \in ScanTasks, t.pc \in {"idle", "off", "scan", "save"}, Numbered(t.seen, events),
         NEW g, NEW bl, NEW n \in Nat, events <= n
  PROVE  TaskOK(t, vol, g, bl, n) /\ SeenOK(t, vol, mount, g)
<1>1. \A f \in Paths : t.seen[f] \in Nat
  BY DEF ScanTasks, Views
<1>. QED  BY <1>1, LibraryFacts DEF TaskOK, SeenOK, Numbered, Looking

(* Rows after an upsert.                                                   *)
LEMMA UpsertKeeps ==
  ASSUME LibraryInv, NEW files \in SUBSET Paths, NEW fps \in Views, NEW hs \in Views, Upsert(files, fps, hs),
         \A f \in files : fps[f] # 0 /\ fps[f] <= events + 1,
         \A f \in files \ blind : hs[f] # 0 /\ fps[f] = vol[f] => hs[f] = vol[f]
  PROVE  /\ rows' \in [Paths -> TrackRows] /\ blind \subseteq blind' /\ blind' \in SUBSET Paths
         /\ \A f \in Paths \ blind' : HashOK(rows'[f], vol[f], events)
<1>1. /\ rows' = [f \in Paths |-> IF f \in files THEN upsert_track(rows[f], fps[f], hs[f]) ELSE rows[f]]
      /\ blind \subseteq blind' /\ \A f \in files \ blind' : ~KeepsOldHash(rows[f], fps[f], hs[f])
      /\ blind' \in SUBSET Paths
  BY LibraryFacts DEF Upsert
<1>2. ASSUME NEW f \in Paths
      PROVE  rows'[f] \in TrackRows /\ (f \notin blind' => HashOK(rows'[f], vol[f], events))
  <2>1. rows[f] \in TrackRows /\ fps[f] \in Nat /\ hs[f] \in Nat
    BY LibraryFacts DEF Views
  <2>2. f \notin blind' => f \notin blind /\ HashOK(rows[f], vol[f], events)
    BY <1>1, LibraryFacts
  <2>3. CASE f \in files
    <3>1. rows'[f] = [fp |-> fps[f], hash |-> IF hs[f] # 0 THEN hs[f] ELSE rows[f].hash]
      BY <1>1, <2>3 DEF upsert_track
    <3>2. rows'[f] \in TrackRows /\ rows'[f].fp = fps[f]
          /\ rows'[f].hash = IF hs[f] # 0 THEN hs[f] ELSE rows[f].hash
      BY <2>1, <3>1 DEF TrackRows
    <3>. QED  BY <1>1, <2>1, <2>2, <2>3, <3>2 DEF HashOK, KeepsOldHash, TrackRows
  <2>4. CASE f \notin files
    BY <1>1, <2>1, <2>2, <2>4
  <2>. QED  BY <2>3, <2>4
<1>3. rows' \in [Paths -> TrackRows]
  <2>1. rows' = [f \in Paths |-> rows'[f]]
    BY <1>1
  <2>. QED  BY <1>2, <2>1
<1>. QED  BY <1>1, <1>2, <1>3

LEMMA DeleteRowsKeeps ==
  ASSUME LibraryInv, NEW files, DeleteRows(files)
  PROVE  rows' \in [Paths -> TrackRows] /\ \A f \in Paths \ blind : HashOK(rows'[f], vol[f], events)
<1>1. ASSUME NEW f \in Paths
      PROVE  rows'[f] \in TrackRows /\ (f \notin blind => HashOK(rows'[f], vol[f], events))
  <2>1. CASE f \in files
    <3>1. rows'[f] = [fp |-> 0, hash |-> 0]
      BY <2>1 DEF DeleteRows
    <3>. QED  BY <3>1, LibraryFacts DEF HashOK, TrackRows
  <2>2. CASE f \notin files
    BY <2>2, LibraryFacts DEF DeleteRows
  <2>. QED  BY <2>1, <2>2
<1>2. rows' = [f \in Paths |-> rows'[f]]
  BY DEF DeleteRows
<1>. QED  BY <1>1, <1>2

(* A task that deletes rows deletes those of no file the volume holds.     *)
LEMMA PurgeKeeps ==
  ASSUME LibraryInv, NEW p \in Tasks, task[p].pc \in {"drop", "purge"},
         Purge({f \in Paths : task[p].old[f] # 0 /\ task[p].seen[f] = 0})
  PROVE  /\ rows' \in [Paths -> TrackRows] /\ (\A f \in Paths \ blind : HashOK(rows'[f], vol[f], events))
         /\ lost' \in SUBSET Paths /\ ("flap" \notin Hazards /\ ~guard.misled => lost' = {})
<1>. DEFINE t == task[p]
            gone == {f \in Paths : t.old[f] # 0 /\ t.seen[f] = 0 /\ rows[f].fp # 0 /\ ~Exists(f)}
<1>1. DeleteRows(gone) /\ lost' = lost \union {f \in gone : vol[f] # 0}
  <2>. DEFINE files == {f \in Paths : t.old[f] # 0 /\ t.seen[f] = 0}
  <2>1. {f \in files : rows[f].fp # 0 /\ ~Exists(f)} = gone
    OBVIOUS
  <2>2. Purge(files)
    OBVIOUS
  <2>. HIDE DEF files, gone
  <2>. QED  BY <2>1, <2>2 DEF Purge
<1>2. ASSUME "flap" \notin Hazards, ~guard.misled, NEW f \in gone PROVE vol[f] = 0
  <2>1. SeenOK(t, vol, mount, guard) /\ t.pc \in Looking /\ t.pc \notin {"device", "judge"}
    BY <1>2, LibraryFacts DEF Looking
  <2>2. CASE mount = "vol"
    BY <1>2, <2>2 DEF Exists, View
  <2>3. CASE Whole(t, vol)
    BY <1>2, <2>3 DEF Whole
  <2>4. CASE Blank(t.old)
    BY <1>2, <2>4 DEF Blank
  <2>. QED  BY <1>2, <2>1, <2>2, <2>3, <2>4 DEF SeenOK
<1>3. gone \in SUBSET Paths
  OBVIOUS
<1>. HIDE DEF gone
<1>4. rows' \in [Paths -> TrackRows] /\ \A f \in Paths \ blind : HashOK(rows'[f], vol[f], events)
  BY <1>1, DeleteRowsKeeps
<1>5. lost' \in SUBSET Paths
  BY <1>1, <1>3, LibraryFacts
<1>6. ASSUME "flap" \notin Hazards, ~guard.misled PROVE lost' = {}
  BY <1>1, <1>2, <1>6, LibraryFacts DEF OutageKeepsTracks
<1>. QED  BY <1>4, <1>5, <1>6

-----------------------------------------------------------------------------
\* The watcher.

LEMMA PollKeeps ==
  ASSUME LibraryInv, WatcherPoll PROVE LibraryInv'
<1>0. "watcher" \in Tasks
  BY DEF Tasks
<1>1. CASE mount = "gone"
  <2>1. /\ update_mount_state_with_device("unavailable", "none") /\ snaps' = Lost
        /\ UNCHANGED <<vol, mount, rows, task, lost, blind, events>> /\ task["watcher"].pc = "idle"
    BY <1>1 DEF WatcherPoll
  <2>2. guard' \in Guards /\ (guard.misled => guard'.misled) /\ (guard'.dev = "bare" => guard'.misled)
    BY <2>1, GuardMoves
  <2>. DEFINE t == task["watcher"]
  <2>3. t \in ScanTasks /\ Numbered(t.seen, events) /\ task' = [task EXCEPT !["watcher"] = t]
    BY <1>0, <2>1, LibraryFacts DEF TaskOK
  <2>4. TaskOK(t, vol, guard', blind', events') /\ SeenOK(t, vol, mount, guard')
    BY <2>1, <2>3, RestOK, LibraryFacts
  <2>5. \A f \in Paths \ blind' : HashOK(rows'[f], vol[f], events')
    BY <2>1, LibraryFacts
  <2>6. "flap" \notin Hazards => (~guard'.misled => lost' = {})
    BY <2>1, <2>2, LibraryFacts DEF OutageKeepsTracks
  <2>7. /\ events' \in Nat /\ events <= events' /\ snaps' \in Snapshots /\ rows' \in [Paths -> TrackRows]
        /\ blind \subseteq blind' /\ blind' \in SUBSET Paths /\ lost' \in SUBSET Paths
    BY <2>1, LibraryFacts, IdleFacts
  <2>. HIDE DEF t
  <2>. QED  BY <1>0, <2>1, <2>2, <2>3, <2>4, <2>5, <2>6, <2>7, TaskMoves
<1>2. CASE mount # "gone"
  <2>. DEFINE t == [IdleTask EXCEPT !.pc = "device", !.why = "poll", !.seen = View]
  <2>1. /\ task' = [task EXCEPT !["watcher"] = t]
        /\ UNCHANGED <<vol, mount, rows, guard, snaps, lost, blind, events>>
    BY <1>2 DEF WatcherPoll, Go
  <2>2. t \in ScanTasks /\ t.pc = "device" /\ t.seen = View /\ t.shaken = "no"
    BY LookFacts, IdleFacts DEF ScanTasks
  <2>. HIDE DEF t
  <2>3. TaskOK(t, vol, guard', blind', events')
    BY <2>1, <2>2, LookFacts DEF TaskOK
  <2>4. SeenOK(t, vol, mount, guard')
    BY <1>2, <2>1, <2>2, LookFacts, LibraryFacts DEF SeenOK, Whole
  <2>5. \A f \in Paths \ blind' : HashOK(rows'[f], vol[f], events')
    BY <2>1, LibraryFacts
  <2>6. "flap" \notin Hazards => (~guard'.misled => lost' = {})
    BY <2>1, LibraryFacts DEF OutageKeepsTracks
  <2>7. /\ events' \in Nat /\ events <= events' /\ snaps' \in Snapshots /\ rows' \in [Paths -> TrackRows]
        /\ blind \subseteq blind' /\ blind' \in SUBSET Paths /\ lost' \in SUBSET Paths
        /\ guard' \in Guards /\ (guard.misled => guard'.misled) /\ (guard'.dev = "bare" => guard'.misled)
    BY <2>1, LibraryFacts
  <2>. QED  BY <1>0, <2>1, <2>2, <2>3, <2>4, <2>5, <2>6, <2>7, TaskMoves
<1>. QED  BY <1>1, <1>2

(* A step that neither writes nor deletes rows: what is left to show.      *)
LEMMA QuietMoves ==
  ASSUME LibraryInv, NEW p \in Tasks, NEW t \in ScanTasks, task' = [task EXCEPT ![p] = t],
         UNCHANGED <<vol, mount, rows, lost, blind>>, events' \in Nat, events <= events', snaps' \in Snapshots,
         guard' \in Guards, guard.misled => guard'.misled, guard'.dev = "bare" => guard'.misled,
         TaskOK(t, vol, guard', blind, events'),
         "flap" \notin Hazards => SeenOK(t, vol, mount, guard')
  PROVE  LibraryInv'
<1>1. \A f \in Paths \ blind : HashOK(rows[f], vol[f], events')
  BY LibraryFacts DEF HashOK, TrackRows
<1>2. "flap" \notin Hazards => (~guard'.misled => lost' = {})
  BY LibraryFacts DEF OutageKeepsTracks
<1>3. /\ rows' \in [Paths -> TrackRows] /\ blind \subseteq blind' /\ blind' \in SUBSET Paths /\ lost' \in SUBSET Paths
      /\ \A f \in Paths \ blind' : HashOK(rows'[f], vol[f], events')
      /\ TaskOK(t, vol, guard', blind', events') /\ UNCHANGED <<vol, mount>>
  BY <1>1, LibraryFacts
<1>. QED  BY <1>2, <1>3, TaskMoves

(* A task that ends, waits or is about to look.                            *)
LEMMA RestMoves ==
  ASSUME LibraryInv, NEW p \in Tasks, NEW t \in ScanTasks, task' = [task EXCEPT ![p] = t],
         t.pc \in {"idle", "off", "scan", "save"}, Numbered(t.seen, events),
         UNCHANGED <<vol, mount, rows, lost, blind>>, events' \in Nat, events <= events', snaps' \in Snapshots,
         guard' \in Guards, guard.misled => guard'.misled, guard'.dev = "bare" => guard'.misled
  PROVE  LibraryInv'
<1>1. TaskOK(t, vol, guard', blind, events') /\ SeenOK(t, vol, mount, guard')
  BY RestOK
<1>. QED  BY <1>1, QuietMoves

(* The same for a task that finishes.                                      *)
LEMMA FinishKeeps ==
  ASSUME LibraryInv, NEW p \in Tasks, NEW s, Finish(p, s), UNCHANGED <<vol, mount, rows, lost, blind, events>>,
         guard' \in Guards, guard.misled => guard'.misled, guard'.dev = "bare" => guard'.misled
  PROVE  LibraryInv'
<1>1. PICK t \in ScanTasks : task' = [task EXCEPT ![p] = t] /\ t.pc = "idle" /\ t.seen = NoView
  BY FinishMoves
<1>2. Numbered(t.seen, events) /\ snaps' \in Snapshots /\ events' \in Nat /\ events <= events'
  BY <1>1, FinishMoves, IdleFacts, LibraryFacts DEF Numbered
<1>. QED  BY <1>1, <1>2, RestMoves

LEMMA GuardSame ==
  ASSUME LibraryInv, guard' = guard
  PROVE  guard' \in Guards /\ (guard.misled => guard'.misled) /\ (guard'.dev = "bare" => guard'.misled)
  BY LibraryFacts

LEMMA IdentifyKeeps ==
  ASSUME LibraryInv, WatcherIdentify PROVE LibraryInv'
<1>. DEFINE t == task["watcher"]
            dev == get_path_device_id
            over == [IdleTask EXCEPT !.dead = t.dead]
<1>0. /\ "watcher" \in Tasks /\ t \in ScanTasks /\ dev \in {"none", "vol", "bare"}
      /\ Numbered(t.seen, events)
  BY LibraryFacts, LookFacts DEF Tasks, TaskOK
<1>1. t.pc = "device" /\ UNCHANGED <<vol, mount, rows, lost, blind, events>>
  BY DEF WatcherIdentify
<1>2. over \in ScanTasks /\ over.pc = "idle" /\ Numbered(over.seen, events)
  <2>1. t.dead \in BOOLEAN
    BY <1>0 DEF ScanTasks
  <2>. QED  BY <2>1, IdleFacts, LibraryFacts DEF ScanTasks, Numbered
<1>3. events' \in Nat /\ events <= events'
  BY <1>1, LibraryFacts
<1>4. CASE guard.dev # "none" /\ dev # "none" /\ guard.dev # dev
  <2>1. /\ update_mount_state_with_device("unavailable", "none") /\ snaps' = Lost
        /\ task' = [task EXCEPT !["watcher"] = over]
    BY <1>4 DEF WatcherIdentify, Go
  <2>2. guard' \in Guards /\ (guard.misled => guard'.misled) /\ (guard'.dev = "bare" => guard'.misled)
    BY <2>1, GuardMoves
  <2>. HIDE DEF over
  <2>. QED  BY <1>0, <1>1, <1>2, <1>3, <2>1, <2>2, IdleFacts, RestMoves
<1>5. CASE ~(guard.dev # "none" /\ dev # "none" /\ guard.dev # dev)
  <2>0. snaps' = [st |-> "seen", view |-> t.seen] /\ snaps' \in Snapshots
    <3>1. snaps' = [st |-> "seen", view |-> t.seen]
      BY <1>5 DEF WatcherIdentify
    <3>. QED  BY <1>0, <3>1 DEF Snapshots, ScanTasks
  <2>. DEFINE toScan == [t EXCEPT !.pc = "scan", !.seen = NoView]
              toChange == [t EXCEPT !.pc = "change", !.old = snaps.view]
  <2>1. CASE snaps.st = "lost" \/ (snaps.st = "unset" /\ guard.dev = "none")
    <3>1. task' = [task EXCEPT !["watcher"] = toScan] /\ guard' = guard
      BY <1>5, <2>1 DEF WatcherIdentify, Go
    <3>2. toScan \in ScanTasks /\ toScan.pc = "scan" /\ Numbered(toScan.seen, events)
      <4>1. toScan \in ScanTasks /\ toScan.pc = "scan" /\ toScan.seen = NoView
        BY <1>0, IdleFacts DEF ScanTasks
      <4>. HIDE DEF toScan
      <4>. QED  BY <4>1, IdleFacts, LibraryFacts DEF Numbered
    <3>. HIDE DEF toScan
    <3>. QED  BY <1>0, <1>1, <1>3, <2>0, <3>1, <3>2, GuardSame, RestMoves
  <2>2. CASE ~(snaps.st = "lost" \/ (snaps.st = "unset" /\ guard.dev = "none"))
    <3>0. \/ /\ update_mount_state_with_device("online", dev) /\ task' = [task EXCEPT !["watcher"] = over]
          \/ /\ update_mount_state_with_device("online", dev) /\ task' = [task EXCEPT !["watcher"] = toChange]
             /\ ~(Shown(t.seen) = {} /\ Shown(snaps.view) # {} /\ dev = "none")
      <4>1. snaps.st \in {"unset", "lost", "seen"}
        BY LibraryFacts DEF Snapshots
      <4>2. CASE snaps.st = "unset" /\ guard.dev # "none"
        BY <1>5, <2>2, <4>2 DEF WatcherIdentify, Go
      <4>3. CASE snaps.st = "seen"
        BY <1>5, <2>2, <4>3 DEF WatcherIdentify, Go
      <4>. QED  BY <2>2, <4>1, <4>2, <4>3
    <3>1. update_mount_state_with_device("online", dev)
      BY <3>0
    <3>2. /\ guard' \in Guards /\ (guard.misled => guard'.misled) /\ (guard'.dev = "bare" => guard'.misled)
          /\ dev = "bare" => guard'.misled
      <4>1. dev = "bare" => guard.misled \/ guard.dev = "none"
        BY <1>5, LibraryFacts
      <4>. QED  BY <1>0, <3>1, <4>1, GuardMoves
    <3>3. CASE task' = [task EXCEPT !["watcher"] = over]
      <4>. HIDE DEF over
      <4>. QED  BY <1>0, <1>1, <1>2, <1>3, <2>0, <3>2, <3>3, RestMoves
    <3>4. CASE /\ task' = [task EXCEPT !["watcher"] = toChange]
               /\ ~(Shown(t.seen) = {} /\ Shown(snaps.view) # {} /\ dev = "none")
      <4>1. toChange \in ScanTasks /\ toChange.pc = "change" /\ toChange.seen = t.seen /\ toChange.old = snaps.view
            /\ toChange.shaken = t.shaken
        BY <1>0, LibraryFacts DEF ScanTasks, Snapshots
      <4>. HIDE DEF toChange
      <4>2. TaskOK(toChange, vol, guard', blind, events')
        BY <1>0, <1>1, <4>1 DEF TaskOK
      <4>3. ASSUME "flap" \notin Hazards PROVE SeenOK(toChange, vol, mount, guard')
        <5>1. SeenOK(t, vol, mount, guard) /\ t.pc \in Looking
          BY <1>0, <1>1, <4>3, LibraryFacts DEF Looking
        <5>2. CASE mount = "vol" /\ (t.shaken = "no" => Whole(t, vol))
          BY <4>1, <5>2 DEF SeenOK, Whole
        <5>3. CASE t.shaken = "mount" /\ Whole(t, vol)
          BY <4>1, <5>3 DEF SeenOK, Whole
        <5>4. CASE mount # "vol" /\ Blank(t.seen) /\ (mount = "bare" \/ t.shaken = "mount")
          <6>1. CASE mount = "bare"
            BY <3>2, <4>1, <5>4, <6>1 DEF SeenOK, get_path_device_id
          <6>2. CASE mount = "gone"
            <7>1. Shown(t.seen) = {} /\ dev = "none"
              BY <5>4, <6>2 DEF Shown, Blank, get_path_device_id
            <7>2. Blank(snaps.view)
              BY <3>4, <7>1 DEF Shown, Blank
            <7>. QED  BY <4>1, <5>4, <6>2, <7>2 DEF SeenOK
          <6>. QED  BY <5>4, <6>1, <6>2, LibraryFacts
        <5>5. CASE mount = "vol" /\ Blank(t.seen) /\ t.shaken = "mount"
          BY <4>1, <5>5 DEF SeenOK
        <5>. QED  BY <5>1, <5>2, <5>3, <5>4, <5>5 DEF SeenOK
      <4>. QED  BY <1>0, <1>1, <1>3, <2>0, <3>2, <3>4, <4>1, <4>2, <4>3, QuietMoves
    <3>. QED  BY <3>0, <3>3, <3>4
  <2>. QED  BY <2>1, <2>2
<1>. QED  BY <1>4, <1>5

LEMMA WatcherUpsertKeeps ==
  ASSUME LibraryInv, WatcherUpsert PROVE LibraryInv'
<1>. DEFINE t == task["watcher"]
            changed == {f \in Paths : t.seen[f] # 0 /\ t.seen[f] # t.old[f] /\ Exists(f)}
            hs == [f \in Paths |-> IF t.old[f] # 0 THEN View[f] ELSE 0]
            u == [t EXCEPT !.pc = "drop"]
<1>0. "watcher" \in Tasks /\ t \in ScanTasks /\ TaskOK(t, vol, guard, blind, events)
  BY LibraryFacts DEF Tasks
<1>1. t.pc = "change" /\ UNCHANGED <<vol, mount, guard, lost, events>>
  BY DEF WatcherUpsert
<1>2. CASE Cancelled("watcher")
  <2>1. Finish("watcher", "none") /\ UNCHANGED <<rows, blind>>
    BY <1>2 DEF WatcherUpsert
  <2>. QED  BY <1>0, <1>1, <2>1, GuardSame, FinishKeeps
<1>3. CASE ~Cancelled("watcher")
  <2>1. Upsert(changed, View, hs) /\ task' = [task EXCEPT !["watcher"] = u] /\ UNCHANGED snaps
    BY <1>3 DEF WatcherUpsert, Go
  <2>2. hs \in Views /\ \A f \in Paths : hs[f] = 0 \/ hs[f] = View[f]
    BY LookFacts DEF Views
  <2>3. changed \in SUBSET Paths /\ \A f \in changed : View[f] # 0
    BY DEF Exists
  <2>4. u \in ScanTasks /\ u.pc = "drop" /\ u.seen = t.seen /\ u.old = t.old /\ u.shaken = t.shaken
    BY <1>0 DEF ScanTasks
  <2>. HIDE DEF hs, changed, u
  <2>5. /\ rows' \in [Paths -> TrackRows] /\ blind \subseteq blind' /\ blind' \in SUBSET Paths
        /\ \A f \in Paths \ blind' : HashOK(rows'[f], vol[f], events)
    <3>1. \A f \in changed : View[f] # 0 /\ View[f] <= events + 1
      BY <2>3, LookFacts DEF Numbered
    <3>2. \A f \in changed \ blind : hs[f] # 0 /\ View[f] = vol[f] => hs[f] = vol[f]
      BY <2>2, <2>3
    <3>3. View \in Views
      BY LookFacts
    <3>. QED  BY <2>1, <2>2, <2>3, <3>1, <3>2, <3>3, UpsertKeeps
  <2>6. TaskOK(u, vol, guard', blind', events')
    BY <1>0, <1>1, <2>4 DEF TaskOK
  <2>7. "flap" \notin Hazards => SeenOK(u, vol, mount, guard') /\ (~guard'.misled => lost' = {})
    <3>. SUFFICES ASSUME "flap" \notin Hazards
                  PROVE  SeenOK(u, vol, mount, guard') /\ (~guard'.misled => lost' = {})
      OBVIOUS
    <3>1. SeenOK(t, vol, mount, guard)
      BY <1>0, LibraryFacts
    <3>2. SeenOK(u, vol, mount, guard')
      BY <1>1, <2>4, <3>1 DEF SeenOK, Looking, Whole
    <3>. QED  BY <1>1, <3>2, LibraryFacts DEF OutageKeepsTracks
  <2>8. /\ events' \in Nat /\ events <= events' /\ snaps' \in Snapshots /\ lost' \in SUBSET Paths /\ UNCHANGED <<vol, mount>>
        /\ \A f \in Paths \ blind' : HashOK(rows'[f], vol[f], events')
    BY <1>1, <2>1, <2>5, LibraryFacts
  <2>. QED  BY <1>0, <1>1, <2>1, <2>4, <2>5, <2>6, <2>7, <2>8, GuardSame, TaskMoves
<1>. QED  BY <1>2, <1>3

(* A task that deletes rows and ends.                                      *)
LEMMA PurgeEnds ==
  ASSUME LibraryInv, NEW p \in Tasks, NEW s, Finish(p, s), UNCHANGED <<vol, mount, guard, blind, events>>,
         rows' \in [Paths -> TrackRows], \A f \in Paths \ blind : HashOK(rows'[f], vol[f], events),
         lost' \in SUBSET Paths, "flap" \notin Hazards /\ ~guard.misled => lost' = {}
  PROVE  LibraryInv'
<1>1. PICK t \in ScanTasks : task' = [task EXCEPT ![p] = t] /\ t.pc = "idle" /\ t.seen = NoView
  BY FinishMoves
<1>2. Numbered(t.seen, events) /\ snaps' \in Snapshots /\ events' \in Nat /\ events <= events'
  BY <1>1, FinishMoves, IdleFacts, LibraryFacts DEF Numbered
<1>3. TaskOK(t, vol, guard', blind', events') /\ SeenOK(t, vol, mount, guard')
  BY <1>1, <1>2, RestOK
<1>4. /\ blind \subseteq blind' /\ blind' \in SUBSET Paths /\ UNCHANGED <<vol, mount>>
      /\ \A f \in Paths \ blind' : HashOK(rows'[f], vol[f], events')
      /\ "flap" \notin Hazards => SeenOK(t, vol, mount, guard') /\ (~guard'.misled => lost' = {})
  BY <1>3, LibraryFacts
<1>. QED  BY <1>1, <1>2, <1>3, <1>4, GuardSame, TaskMoves

LEMMA WatcherDeleteKeeps ==
  ASSUME LibraryInv, WatcherDelete PROVE LibraryInv'
<1>1. /\ task["watcher"].pc = "drop" /\ Finish("watcher", "none") /\ UNCHANGED <<vol, mount, guard, blind, events>>
      /\ "watcher" \in Tasks
  BY DEF WatcherDelete, Tasks
<1>2. CASE Cancelled("watcher")
  <2>1. UNCHANGED <<rows, lost>>
    BY <1>2 DEF WatcherDelete
  <2>. QED  BY <1>1, <2>1, GuardSame, FinishKeeps
<1>3. CASE ~Cancelled("watcher")
  <2>1. Purge({f \in Paths : task["watcher"].old[f] # 0 /\ task["watcher"].seen[f] = 0})
    BY <1>3 DEF WatcherDelete
  <2>2. /\ rows' \in [Paths -> TrackRows] /\ (\A f \in Paths \ blind : HashOK(rows'[f], vol[f], events))
        /\ lost' \in SUBSET Paths /\ ("flap" \notin Hazards /\ ~guard.misled => lost' = {})
    BY <1>1, <2>1, PurgeKeeps
  <2>. QED  BY <1>1, <2>2, PurgeEnds
<1>. QED  BY <1>2, <1>3

LEMMA SwitchKeeps ==
  ASSUME LibraryInv, WatcherStops \/ WatcherNotices \/ WatcherResumes \/ CronStarts
  PROVE  LibraryInv'
<1>1. /\ UNCHANGED <<vol, mount, rows, guard, lost, blind, events>> /\ snaps' \in Snapshots
      /\ events' \in Nat /\ events <= events' /\ "watcher" \in Tasks /\ "cron" \in Tasks
  BY LibraryFacts, IdleFacts DEF WatcherStops, WatcherNotices, WatcherResumes, CronStarts, Tasks
<1>2. Numbered(NoView, events)
  BY IdleFacts, LibraryFacts DEF Numbered
<1>3. PICK p \in Tasks, t \in ScanTasks :
        task' = [task EXCEPT ![p] = t] /\ t.pc \in {"idle", "off", "scan", "save"} /\ Numbered(t.seen, events)
  <2>1. CASE WatcherStops
    <3>. DEFINE t == [IdleTask EXCEPT !.pc = "off"]
    <3>1. t \in ScanTasks /\ t.pc = "off" /\ t.seen = NoView
      BY IdleFacts DEF ScanTasks
    <3>2. task' = [task EXCEPT !["watcher"] = t]
      BY <2>1 DEF WatcherStops, Go
    <3>. HIDE DEF t
    <3>. QED  BY <1>1, <1>2, <3>1, <3>2
  <2>2. CASE WatcherNotices
    <3>. DEFINE t == [task["watcher"] EXCEPT !.why = "enable"]
    <3>0. task["watcher"] \in ScanTasks /\ TaskOK(task["watcher"], vol, guard, blind, events)
      BY <1>1, LibraryFacts
    <3>1. t \in ScanTasks /\ t.pc = "off" /\ t.seen = task["watcher"].seen
      BY <2>2, <3>0 DEF WatcherNotices, ScanTasks
    <3>2. task' = [task EXCEPT !["watcher"] = t]
      BY <2>2 DEF WatcherNotices, Go
    <3>. HIDE DEF t
    <3>. QED  BY <1>1, <3>0, <3>1, <3>2 DEF TaskOK
  <2>3. CASE WatcherResumes
    <3>. DEFINE t == IF task["watcher"].why = "enable"
                     THEN [IdleTask EXCEPT !.pc = "scan", !.why = "enable"] ELSE IdleTask
    <3>1. t \in ScanTasks /\ t.pc \in {"idle", "scan"} /\ t.seen = NoView
      BY IdleFacts DEF ScanTasks
    <3>2. task' = [task EXCEPT !["watcher"] = t]
      BY <2>3 DEF WatcherResumes, Go
    <3>. HIDE DEF t
    <3>. QED  BY <1>1, <1>2, <3>1, <3>2
  <2>4. CASE CronStarts
    <3>. DEFINE t == [IdleTask EXCEPT !.pc = "scan"]
    <3>1. t \in ScanTasks /\ t.pc = "scan" /\ t.seen = NoView
      BY IdleFacts DEF ScanTasks
    <3>2. task' = [task EXCEPT !["cron"] = t]
      BY <2>4 DEF CronStarts, Go
    <3>. HIDE DEF t
    <3>. QED  BY <1>1, <1>2, <3>1, <3>2
  <2>. QED  BY <2>1, <2>2, <2>3, <2>4
<1>. QED  BY <1>1, <1>3, GuardSame, RestMoves

-----------------------------------------------------------------------------
\* The passes over the whole root.

LEMMA ScanKeeps ==
  ASSUME LibraryInv, NEW p \in Tasks, Scan(p) PROVE LibraryInv'
<1>1. task[p].pc = "scan" /\ UNCHANGED <<vol, mount, rows, lost, blind, events>>
  BY DEF Scan
<1>2. CASE mount = "gone"
  <2>1. update_mount_state_with_device("unavailable", "none") /\ Finish(p, "unavailable")
    BY <1>2 DEF Scan
  <2>2. guard' \in Guards /\ (guard.misled => guard'.misled) /\ (guard'.dev = "bare" => guard'.misled)
    BY <2>1, GuardMoves
  <2>. QED  BY <1>1, <2>1, <2>2, FinishKeeps
<1>3. CASE mount # "gone" /\ Cancelled(p)
  <2>1. Finish(p, guard.state) /\ guard' = guard
    BY <1>3 DEF Scan
  <2>. QED  BY <1>1, <2>1, GuardSame, FinishKeeps
<1>4. CASE mount # "gone" /\ ~Cancelled(p)
  <2>. DEFINE t == [task[p] EXCEPT !.pc = "judge", !.seen = View]
  <2>1. task' = [task EXCEPT ![p] = t] /\ UNCHANGED <<guard, snaps>>
    BY <1>4 DEF Scan, Go
  <2>2. t \in ScanTasks /\ t.pc = "judge" /\ t.seen = View
    <3>1. task[p] \in ScanTasks /\ View \in Views
      BY LibraryFacts, LookFacts
    <3>. QED  BY <3>1 DEF ScanTasks
  <2>. HIDE DEF t
  <2>3. TaskOK(t, vol, guard', blind, events')
    BY <1>1, <2>2, LookFacts DEF TaskOK
  <2>4. SeenOK(t, vol, mount, guard')
    BY <1>4, <2>2, LookFacts, LibraryFacts DEF SeenOK, Whole
  <2>5. events' \in Nat /\ events <= events' /\ snaps' \in Snapshots
    BY <1>1, <2>1, LibraryFacts
  <2>. QED  BY <1>1, <2>1, <2>2, <2>3, <2>4, <2>5, GuardSame, QuietMoves
<1>. QED  BY <1>2, <1>3, <1>4

LEMMA WalkFailsKeeps ==
  ASSUME LibraryInv, NEW p \in Tasks, WalkFails(p) PROVE LibraryInv'
<1>1. /\ UNCHANGED <<vol, mount, rows, lost, blind, events>>
      /\ update_mount_state_with_device("unavailable", "none") /\ Finish(p, "unavailable")
  BY DEF WalkFails
<1>2. guard' \in Guards /\ (guard.misled => guard'.misled) /\ (guard'.dev = "bare" => guard'.misled)
  BY <1>1, GuardMoves
<1>. QED  BY <1>1, <1>2, FinishKeeps

(* The plan of a pass: the hashes of the files whose fingerprints it saw.  *)
LEMMA PlanFacts ==
  ASSUME LibraryInv, NEW t \in ScanTasks
  PROVE  LET plan == [f \in Paths |-> IF t.seen[f] # 0 THEN HashFor(f, t.seen[f]) ELSE 0]
         IN /\ plan \in Views
            /\ \A f \in Paths \ blind : t.seen[f] # 0 /\ t.seen[f] = vol[f] /\ plan[f] # 0 => plan[f] = vol[f]
<1>. DEFINE plan == [f \in Paths |-> IF t.seen[f] # 0 THEN HashFor(f, t.seen[f]) ELSE 0]
<1>1. ASSUME NEW f \in Paths
      PROVE  /\ HashFor(f, t.seen[f]) \in Nat
             /\ f \notin blind /\ t.seen[f] # 0 /\ t.seen[f] = vol[f] /\ HashFor(f, t.seen[f]) # 0 => HashFor(f, t.seen[f]) = vol[f]
  <2>1. rows[f] \in TrackRows /\ View[f] \in Nat /\ (View[f] = 0 \/ View[f] = vol[f])
    BY LibraryFacts, LookFacts DEF Views
  <2>2. f \notin blind => HashOK(rows[f], vol[f], events)
    BY LibraryFacts
  <2>3. CASE rows[f].fp = 0
    BY <2>3 DEF HashFor
  <2>4. CASE rows[f].fp # 0 /\ rows[f].fp = t.seen[f]
    BY <2>1, <2>2, <2>4 DEF HashFor, HashOK, TrackRows
  <2>5. CASE rows[f].fp # 0 /\ rows[f].fp # t.seen[f]
    BY <2>1, <2>5 DEF HashFor
  <2>. QED  BY <2>3, <2>4, <2>5
<1>2. plan \in Views
  BY <1>1 DEF Views
<1>3. \A f \in Paths \ blind : t.seen[f] # 0 /\ t.seen[f] = vol[f] /\ plan[f] # 0 => plan[f] = vol[f]
  BY <1>1
<1>. HIDE DEF plan
<1>4. QED  BY <1>2, <1>3 DEF plan

LEMMA JudgeKeeps ==
  ASSUME LibraryInv, NEW p \in Tasks, Judge(p) PROVE LibraryInv'
<1>. DEFINE t == task[p]
            dev == get_path_device_id
            cut == Cancelled(p) /\ Shown(t.seen) # {}
<1>0. t \in ScanTasks /\ TaskOK(t, vol, guard, blind, events) /\ dev \in {"none", "vol", "bare"}
  BY LibraryFacts, LookFacts
<1>1. t.pc = "judge" /\ UNCHANGED <<vol, mount, rows, lost, blind, events>>
  BY DEF Judge
<1>2. CASE mount = "gone" \/ ~Trusted(t.seen, dev)
  <2>1. update_mount_state_with_device("unavailable", "none") /\ Finish(p, "unavailable")
    BY <1>2 DEF Judge
  <2>2. guard' \in Guards /\ (guard.misled => guard'.misled) /\ (guard'.dev = "bare" => guard'.misled)
    BY <2>1, GuardMoves
  <2>. QED  BY <1>1, <2>1, <2>2, FinishKeeps
<1>3. CASE ~(mount = "gone" \/ ~Trusted(t.seen, dev)) /\ cut
  <2>1. Finish(p, guard.state) /\ guard' = guard
    BY <1>3 DEF Judge
  <2>. QED  BY <1>1, <2>1, GuardSame, FinishKeeps
<1>4. CASE ~(mount = "gone" \/ ~Trusted(t.seen, dev)) /\ ~cut
  <2>. DEFINE plan == [f \in Paths |-> IF t.seen[f] # 0 THEN HashFor(f, t.seen[f]) ELSE 0]
              known == [f \in Paths |-> IF rows[f].fp # 0 THEN 1 ELSE 0]
              u == [t EXCEPT !.pc = "write", !.dev = dev, !.plan = plan, !.old = known]
              bad == guard.misled \/ (dev = "bare" /\ (guard.dev = "none" \/ Known = {}))
  <2>1. task' = [task EXCEPT ![p] = u] /\ guard' = [guard EXCEPT !.misled = bad] /\ snaps' = snaps
    BY <1>4 DEF Judge, Go
  <2>2. /\ plan \in Views
        /\ \A f \in Paths \ blind : t.seen[f] # 0 /\ t.seen[f] = vol[f] /\ plan[f] # 0 => plan[f] = vol[f]
    <3>. HIDE DEF t
    <3>. QED  BY <1>0, PlanFacts
  <2>3. known \in Views /\ (Known = {} => Blank(known))
    BY DEF Views, Blank, Known
  <2>. HIDE DEF plan, known
  <2>4. u \in ScanTasks /\ u.pc = "write" /\ u.dev = dev /\ u.plan = plan /\ u.old = known /\ u.seen = t.seen
        /\ u.shaken = t.shaken
    BY <1>0, <2>2, <2>3 DEF ScanTasks
  <2>. HIDE DEF u
  <2>5. dev = "bare" => bad
    <3>. SUFFICES ASSUME dev = "bare", guard.dev # "none", Known # {} PROVE guard.misled
      OBVIOUS
    <3>1. dev = guard.dev
      BY <1>4 DEF Trusted
    <3>. QED  BY <3>1, LibraryFacts
  <2>6. bad \in BOOLEAN /\ (guard.misled => bad)
    BY LibraryFacts DEF Guards
  <2>7. guard' \in Guards /\ guard'.dev = guard.dev /\ guard'.misled = bad
    <3>. HIDE DEF bad
    <3>1. guard \in Guards
      BY LibraryFacts
    <3>. QED  BY <2>1, <2>6, <3>1 DEF Guards
  <2>. HIDE DEF bad
  <2>8. (guard.misled => guard'.misled) /\ (guard'.dev = "bare" => guard'.misled) /\ (dev = "bare" => guard'.misled)
    BY <2>5, <2>6, <2>7, LibraryFacts
  <2>9. TaskOK(u, vol, guard', blind, events')
    BY <1>0, <1>1, <2>2, <2>4, <2>8 DEF TaskOK
  <2>10. ASSUME "flap" \notin Hazards PROVE SeenOK(u, vol, mount, guard')
    <3>1. SeenOK(t, vol, mount, guard) /\ t.pc \in Looking
      BY <1>1, <2>10, LibraryFacts DEF Looking
    <3>2. CASE mount = "vol" /\ (t.shaken = "no" => Whole(t, vol))
      BY <2>4, <3>2 DEF SeenOK, Whole
    <3>3. CASE t.shaken = "mount" /\ Whole(t, vol)
      BY <2>4, <3>3 DEF SeenOK, Whole
    <3>4. CASE Blank(t.seen) /\ (mount = "bare" \/ t.shaken = "mount")
      <4>1. CASE mount = "vol"
        <5>1. t.shaken # "no"
          BY <3>4, <4>1
        <5>. QED  BY <2>4, <4>1, <5>1 DEF SeenOK
      <4>2. CASE mount = "bare"
        <5>1. dev = "bare"
          BY <4>2 DEF get_path_device_id
        <5>. QED  BY <2>4, <2>8, <3>4, <4>2, <5>1 DEF SeenOK
      <4>. QED  BY <1>4, <4>1, <4>2, LibraryFacts
    <3>. QED  BY <3>1, <3>2, <3>3, <3>4 DEF SeenOK
  <2>11. events' \in Nat /\ events <= events' /\ snaps' \in Snapshots
    BY <1>1, <2>1, LibraryFacts
  <2>. QED  BY <1>1, <2>1, <2>4, <2>7, <2>8, <2>9, <2>10, <2>11, QuietMoves
<1>. QED  BY <1>2, <1>3, <1>4

LEMMA WriteKeeps ==
  ASSUME LibraryInv, NEW p \in Tasks, Write(p) PROVE LibraryInv'
<1>. DEFINE t == task[p]
<1>0. t \in ScanTasks /\ TaskOK(t, vol, guard, blind, events)
  BY LibraryFacts
<1>1. /\ t.pc = "write" /\ UNCHANGED <<vol, mount, lost, events>>
      /\ update_mount_state_with_device("online", t.dev) /\ Upsert(Shown(t.seen), t.seen, t.plan)
  BY DEF Write
<1>2. /\ guard' \in Guards /\ (guard.misled => guard'.misled) /\ (guard'.dev = "bare" => guard'.misled)
  <2>1. t.dev \in {"none", "vol", "bare"} /\ (t.dev = "bare" => guard.misled)
    BY <1>0, <1>1 DEF ScanTasks, TaskOK
  <2>. QED  BY <1>1, <2>1, GuardMoves
<1>3. /\ rows' \in [Paths -> TrackRows] /\ blind \subseteq blind' /\ blind' \in SUBSET Paths
      /\ \A f \in Paths \ blind' : HashOK(rows'[f], vol[f], events)
  <2>1. Shown(t.seen) \in SUBSET Paths /\ \A f \in Shown(t.seen) : t.seen[f] # 0 /\ t.seen[f] <= events + 1
    BY <1>0 DEF Shown, TaskOK, Numbered
  <2>2. \A f \in Shown(t.seen) \ blind : t.plan[f] # 0 /\ t.seen[f] = vol[f] => t.plan[f] = vol[f]
    BY <1>0, <1>1, <2>1 DEF TaskOK
  <2>3. t.seen \in Views /\ t.plan \in Views
    BY <1>0 DEF ScanTasks
  <2>. HIDE DEF t
  <2>. QED  BY <1>1, <2>1, <2>2, <2>3, UpsertKeeps
<1>4. PICK u \in ScanTasks :
        /\ task' = [task EXCEPT ![p] = u] /\ snaps' \in Snapshots
        /\ \/ u.pc = "idle" /\ u.seen = NoView
           \/ u.pc = "purge" /\ u.seen = t.seen /\ u.old = t.old /\ u.shaken = t.shaken
  <2>1. CASE Cancelled(p)
    <3>1. Finish(p, "online")
      BY <2>1 DEF Write
    <3>. QED  BY <3>1, FinishMoves
  <2>2. CASE ~Cancelled(p)
    <3>. DEFINE u == [t EXCEPT !.pc = "purge", !.dev = "none", !.plan = NoView]
    <3>1. task' = [task EXCEPT ![p] = u] /\ snaps' = snaps
      BY <2>2 DEF Write, Go
    <3>2. /\ u \in ScanTasks /\ u.pc = "purge" /\ u.seen = t.seen /\ u.old = t.old
          /\ u.shaken = t.shaken
      BY <1>0, IdleFacts DEF ScanTasks
    <3>. HIDE DEF u
    <3>. QED  BY <3>1, <3>2, LibraryFacts
  <2>. QED  BY <2>1, <2>2
<1>5. TaskOK(u, vol, guard', blind', events')
  <2>1. Numbered(u.seen, events)
    BY <1>0, <1>4, IdleFacts, LibraryFacts DEF TaskOK, Numbered
  <2>. QED  BY <1>1, <1>4, <2>1 DEF TaskOK
<1>6. "flap" \notin Hazards => SeenOK(u, vol, mount, guard') /\ (~guard'.misled => lost' = {})
  <2>. SUFFICES ASSUME "flap" \notin Hazards
                PROVE  SeenOK(u, vol, mount, guard') /\ (~guard'.misled => lost' = {})
    OBVIOUS
  <2>1. SeenOK(t, vol, mount, guard) /\ t.pc \in Looking /\ t.pc \notin {"device", "judge"}
    BY <1>1, LibraryFacts DEF Looking
  <2>2. SeenOK(u, vol, mount, guard')
    <3>. HIDE DEF t
    <3>. QED  BY <1>2, <1>4, <2>1 DEF SeenOK, Looking, Whole
  <2>. QED  BY <1>1, <1>2, <2>2, LibraryFacts DEF OutageKeepsTracks
<1>7. /\ events' \in Nat /\ events <= events' /\ lost' \in SUBSET Paths /\ UNCHANGED <<vol, mount>>
      /\ \A f \in Paths \ blind' : HashOK(rows'[f], vol[f], events')
  BY <1>1, <1>3, LibraryFacts
<1>. QED  BY <1>2, <1>3, <1>4, <1>5, <1>6, <1>7, TaskMoves

LEMMA PurgeUnscannedKeeps ==
  ASSUME LibraryInv, NEW p \in Tasks, PurgeUnscanned(p) PROVE LibraryInv'
<1>1. /\ task[p].pc = "purge" /\ Finish(p, guard.state) /\ UNCHANGED <<vol, mount, guard, blind, events>>
      /\ Purge({f \in Paths : task[p].old[f] # 0 /\ task[p].seen[f] = 0})
  BY DEF PurgeUnscanned
<1>2. /\ rows' \in [Paths -> TrackRows] /\ (\A f \in Paths \ blind : HashOK(rows'[f], vol[f], events))
      /\ lost' \in SUBSET Paths /\ ("flap" \notin Hazards /\ ~guard.misled => lost' = {})
  BY <1>1, PurgeKeeps
<1>. QED  BY <1>1, <1>2, PurgeEnds

-----------------------------------------------------------------------------
\* Requests and the surroundings.

LEMMA ScanRequestKeeps ==
  ASSUME LibraryInv, ScanRequest PROVE LibraryInv'
<1>. DEFINE t == [IdleTask EXCEPT !.pc = "save", !.seen = View]
<1>1. /\ task' = [task EXCEPT !["request"] = t] /\ events' = events + 1 /\ "request" \in Tasks
      /\ UNCHANGED <<vol, mount, rows, guard, snaps, lost, blind>>
  BY DEF ScanRequest, Happens, Go, Tasks
<1>2. t \in ScanTasks /\ t.pc = "save" /\ t.seen = View
  BY LookFacts, IdleFacts DEF ScanTasks
<1>. HIDE DEF t
<1>3. events' \in Nat /\ events <= events' /\ snaps' \in Snapshots /\ Numbered(t.seen, events)
  BY <1>1, <1>2, LibraryFacts, LookFacts
<1>. QED  BY <1>1, <1>2, <1>3, GuardSame, RestMoves

LEMMA ScanSaveKeeps ==
  ASSUME LibraryInv, ScanSave PROVE LibraryInv'
<1>. DEFINE t == task["request"]
<1>0. "request" \in Tasks /\ t \in ScanTasks /\ TaskOK(t, vol, guard, blind, events)
  BY LibraryFacts DEF Tasks
<1>1. /\ Upsert(Shown(t.seen), t.seen, NoView) /\ task' = [task EXCEPT !["request"] = IdleTask]
      /\ UNCHANGED <<vol, mount, guard, snaps, lost, events>>
  BY DEF ScanSave, Go
<1>2. /\ rows' \in [Paths -> TrackRows] /\ blind \subseteq blind' /\ blind' \in SUBSET Paths
      /\ \A f \in Paths \ blind' : HashOK(rows'[f], vol[f], events)
  <2>1. Shown(t.seen) \in SUBSET Paths /\ \A f \in Shown(t.seen) : t.seen[f] # 0 /\ t.seen[f] <= events + 1
    BY <1>0 DEF Shown, TaskOK, Numbered
  <2>2. t.seen \in Views /\ NoView \in Views
    BY <1>0, IdleFacts DEF ScanTasks
  <2>3. \A f \in Shown(t.seen) \ blind : NoView[f] # 0 /\ t.seen[f] = vol[f] => NoView[f] = vol[f]
    BY <2>1, IdleFacts
  <2>. HIDE DEF t
  <2>. QED  BY <1>1, <2>1, <2>2, <2>3, UpsertKeeps
<1>3. IdleTask \in ScanTasks /\ IdleTask.pc = "idle" /\ Numbered(IdleTask.seen, events)
  BY IdleFacts, LibraryFacts DEF Numbered
<1>4. events' \in Nat /\ events <= events'
  BY <1>1, LibraryFacts
<1>5. TaskOK(IdleTask, vol, guard', blind', events') /\ SeenOK(IdleTask, vol, mount, guard')
  BY <1>3, <1>4, RestOK
<1>6. /\ snaps' \in Snapshots /\ lost' \in SUBSET Paths /\ UNCHANGED <<vol, mount>>
      /\ \A f \in Paths \ blind' : HashOK(rows'[f], vol[f], events')
      /\ "flap" \notin Hazards => SeenOK(IdleTask, vol, mount, guard') /\ (~guard'.misled => lost' = {})
  BY <1>1, <1>2, <1>5, LibraryFacts DEF OutageKeepsTracks
<1>7. guard' = guard
  BY <1>1
<1>. HIDE DEF t
<1>. QED  BY <1>0, <1>1, <1>2, <1>3, <1>4, <1>5, <1>6, <1>7, GuardSame, TaskMoves

LEMMA DeleteTracksKeeps ==
  ASSUME LibraryInv, DeleteTracks PROVE LibraryInv'
<1>1. /\ UNCHANGED <<vol, mount, guard, snaps, task, lost, blind>> /\ events' = events + 1
      /\ \E files \in SUBSET Paths : DeleteRows(files)
  BY DEF DeleteTracks, Happens
<1>2. rows' \in [Paths -> TrackRows] /\ \A f \in Paths \ blind : HashOK(rows'[f], vol[f], events)
  BY <1>1, DeleteRowsKeeps
<1>3. events' \in Nat /\ events <= events'
  BY <1>1, LibraryFacts
<1>4. \A f \in Paths \ blind : HashOK(rows'[f], vol[f], events')
  BY <1>2, <1>3, LibraryFacts DEF HashOK, TrackRows
<1>5. ASSUME NEW p \in Tasks PROVE TaskOK(task[p], vol, guard, blind, events')
  <2>1. task[p] \in ScanTasks /\ TaskOK(task[p], vol, guard, blind, events) /\ \A f \in Paths : task[p].seen[f] \in Nat
    BY LibraryFacts DEF ScanTasks, Views
  <2>2. Numbered(task[p].seen, events')
    BY <1>3, <2>1, LibraryFacts DEF TaskOK, Numbered
  <2>. QED  BY <2>1, <2>2 DEF TaskOK
<1>6. Numbered(vol, events')
  BY <1>3, LibraryFacts DEF Numbered, Views
<1>. QED  BY <1>1, <1>2, <1>3, <1>4, <1>5, <1>6, LibraryFacts
             DEF LibraryInv, LibraryTypes, OutageKeepsTracks

(* What a task found is not spoilt by new versions, which are new numbers. *)
LEMMA TaskAges ==
  ASSUME NEW n \in Nat, NEW m \in Nat, n <= m, NEW t \in ScanTasks, NEW u \in ScanTasks, NEW vl \in Views, NEW wl \in Views,
         NEW g, NEW bl, TaskOK(t, vl, g, bl, n), u.pc = t.pc, u.seen = t.seen, u.dev = t.dev, u.plan = t.plan,
         \A f \in Paths : wl[f] = vl[f] \/ wl[f] = 0 \/ wl[f] > n + 1
  PROVE  TaskOK(u, wl, g, bl, m)
<1>1. \A f \in Paths : t.seen[f] \in Nat /\ vl[f] \in Nat /\ wl[f] \in Nat
  BY DEF ScanTasks, Views
<1>2. \A f \in Paths : t.seen[f] <= n + 1 /\ t.seen[f] <= m + 1
  BY <1>1 DEF TaskOK, Numbered
<1>3. \A f \in Paths : t.seen[f] # 0 /\ t.seen[f] = wl[f] => wl[f] = vl[f]
  BY <1>1, <1>2
<1>. QED  BY <1>2, <1>3 DEF TaskOK, Numbered

LEMMA ShakeFacts ==
  ASSUME LibraryInv, NEW kind \in {"mount", "file"}, Shake(kind), NEW p \in Tasks
  PROVE  /\ task' \in [Tasks -> ScanTasks]
         /\ task'[p].pc = task[p].pc /\ task'[p].seen = task[p].seen /\ task'[p].dev = task[p].dev
         /\ task'[p].plan = task[p].plan /\ task'[p].old = task[p].old
         /\ task[p].pc \in Looking => task'[p].shaken = kind
<1>1. ASSUME NEW q \in Tasks
      PROVE  /\ task'[q] \in ScanTasks /\ task'[q].pc = task[q].pc /\ task'[q].seen = task[q].seen
             /\ task'[q].dev = task[q].dev /\ task'[q].plan = task[q].plan
             /\ task'[q].old = task[q].old
             /\ task[q].pc \in Looking => task'[q].shaken = kind
  <2>. DEFINE t == task[q]
              u == [t EXCEPT !.shaken = kind]
  <2>1. t \in ScanTasks
    BY LibraryFacts
  <2>2. /\ u \in ScanTasks /\ u.pc = t.pc /\ u.seen = t.seen /\ u.dev = t.dev /\ u.plan = t.plan /\ u.old = t.old
        /\ u.shaken = kind
    BY <2>1 DEF ScanTasks
  <2>3. task'[q] = IF t.pc \in {"idle", "off"} THEN t ELSE u
    BY DEF Shake
  <2>. HIDE DEF t, u
  <2>. QED  BY <2>1, <2>2, <2>3 DEF Looking, t
<1>2. task' \in [Tasks -> ScanTasks]
  <2>1. task' = [q \in Tasks |-> task'[q]]
    BY DEF Shake
  <2>. QED  BY <1>1, <2>1
<1>. QED  BY <1>1, <1>2

LEMMA EditKeeps ==
  ASSUME LibraryInv, EditFile PROVE LibraryInv'
<1>1. PICK f \in Paths, v \in {0, events + 2} :
        /\ vol[f] # v /\ vol' = [vol EXCEPT ![f] = v]
        /\ IF vol[f] = 0 THEN Calm({"mount"}) /\ Shake("file") ELSE UNCHANGED task
  BY DEF EditFile
<1>2. UNCHANGED <<mount, rows, guard, snaps, lost, blind>> /\ events' = events + 1
  BY DEF EditFile, Happens
<1>3. events \in Nat /\ events' \in Nat /\ events <= events' /\ v \in Nat /\ (v = 0 \/ v > events + 1) /\ v <= events' + 1
  BY <1>1, <1>2, LibraryFacts
<1>4. /\ vol' \in Views /\ (\A g \in Paths : vol'[g] = IF g = f THEN v ELSE vol[g])
      /\ \A g \in Paths : vol[g] \in Nat
  BY <1>1, <1>3, LibraryFacts DEF Views
<1>5. Numbered(vol', events') /\ \A g \in Paths : vol'[g] = vol[g] \/ vol'[g] = 0 \/ vol'[g] > events + 1
  <2>1. \A g \in Paths : vol[g] <= events + 1
    BY LibraryFacts DEF Numbered
  <2>. QED  BY <1>2, <1>3, <1>4, <2>1 DEF Numbered
<1>6. ASSUME NEW g \in Paths \ blind PROVE HashOK(rows[g], vol'[g], events')
  <2>1. HashOK(rows[g], vol[g], events) /\ rows[g] \in TrackRows
    BY LibraryFacts
  <2>. QED  BY <1>3, <1>4, <2>1 DEF HashOK, TrackRows
<1>7. /\ task' \in [Tasks -> ScanTasks]
      /\ \A p \in Tasks : /\ task'[p].pc = task[p].pc /\ task'[p].seen = task[p].seen /\ task'[p].dev = task[p].dev
                          /\ task'[p].plan = task[p].plan /\ task'[p].old = task[p].old
                          /\ task[p].pc \in Looking => (task'[p].shaken = IF vol[f] = 0 THEN "file" ELSE task[p].shaken)
  <2>1. CASE vol[f] = 0
    <3>1. Shake("file")
      BY <1>1, <2>1
    <3>2. "cron" \in Tasks
      BY DEF Tasks
    <3>. QED  BY <2>1, <3>1, <3>2, ShakeFacts
  <2>2. CASE vol[f] # 0
    BY <1>1, <2>2, LibraryFacts
  <2>. QED  BY <2>1, <2>2
<1>8. ASSUME NEW p \in Tasks PROVE TaskOK(task'[p], vol', guard, blind, events')
  <2>. DEFINE t == task[p]
              u == task'[p]
              wl == vol'
              m == events'
  <2>1. /\ t \in ScanTasks /\ u \in ScanTasks /\ TaskOK(t, vol, guard, blind, events)
        /\ u.pc = t.pc /\ u.seen = t.seen /\ u.dev = t.dev /\ u.plan = t.plan
    BY <1>7, LibraryFacts
  <2>2. /\ m \in Nat /\ events <= m /\ wl \in Views /\ vol \in Views
        /\ \A g \in Paths : wl[g] = vol[g] \/ wl[g] = 0 \/ wl[g] > events + 1
    BY <1>3, <1>4, <1>5, LibraryFacts
  <2>. HIDE DEF t, u, wl, m
  <2>3. TaskOK(u, wl, guard, blind, m)
    BY <1>3, <2>1, <2>2, TaskAges
  <2>. QED  BY <2>3 DEF u, wl, m
<1>9. ASSUME "flap" \notin Hazards, NEW p \in Tasks PROVE SeenOK(task'[p], vol', mount, guard)
  <2>1. SeenOK(task[p], vol, mount, guard)
    BY <1>9, LibraryFacts
  <2>2. CASE vol[f] = 0
    <3>1. task[p].shaken # "mount"
      BY <1>1, <1>9, <2>2 DEF Calm
    <3>2. task[p].pc \in Looking => task'[p].shaken = "file"
      BY <1>7, <2>2
    <3>. QED  BY <1>7, <2>1, <3>1, <3>2 DEF SeenOK
  <2>3. CASE vol[f] # 0
    <3>1. Whole(task[p], vol) => Whole(task'[p], vol')
      BY <1>4, <1>7, <2>3 DEF Whole
    <3>2. task[p].pc \in Looking => task'[p].shaken = task[p].shaken
      BY <1>7, <2>3
    <3>. QED  BY <1>7, <2>1, <3>1, <3>2 DEF SeenOK
  <2>. QED  BY <2>2, <2>3
<1>. QED
  BY <1>2, <1>3, <1>4, <1>5, <1>6, <1>7, <1>8, <1>9, LibraryFacts
     DEF LibraryInv, LibraryTypes, OutageKeepsTracks

LEMMA MountKeeps ==
  ASSUME LibraryInv, MountChange PROVE LibraryInv'
<1>1. PICK m \in {"vol", "bare", "gone"} \ {mount} : mount' = m
  BY DEF MountChange
<1>2. /\ UNCHANGED <<vol, rows, guard, snaps, lost, blind>> /\ events' = events + 1
      /\ Calm({"mount", "file"}) /\ Shake("mount") /\ "cron" \in Tasks
  BY DEF MountChange, Happens, Tasks
<1>3. events \in Nat /\ events' \in Nat /\ events <= events' /\ mount' \in {"vol", "bare", "gone"}
  BY <1>1, <1>2, LibraryFacts
<1>4. \A g \in Paths \ blind : HashOK(rows[g], vol[g], events')
  BY <1>3, LibraryFacts DEF HashOK, TrackRows
<1>5. Numbered(vol, events')
  BY <1>3, LibraryFacts DEF Numbered, Views
<1>6. ASSUME NEW p \in Tasks PROVE TaskOK(task'[p], vol, guard, blind, events')
  <2>. DEFINE t == task[p]
              u == task'[p]
              n == events'
  <2>1. /\ t \in ScanTasks /\ u \in ScanTasks /\ TaskOK(t, vol, guard, blind, events)
        /\ u.pc = t.pc /\ u.seen = t.seen /\ u.dev = t.dev /\ u.plan = t.plan
    BY <1>2, ShakeFacts, LibraryFacts
  <2>2. n \in Nat /\ events <= n /\ vol \in Views
    BY <1>3, LibraryFacts
  <2>. HIDE DEF t, u, n
  <2>3. TaskOK(u, vol, guard, blind, n)
    BY <1>3, <2>1, <2>2, TaskAges
  <2>. QED  BY <2>3 DEF u, n
<1>7. ASSUME "flap" \notin Hazards, NEW p \in Tasks PROVE SeenOK(task'[p], vol, mount', guard)
  <2>1. SeenOK(task[p], vol, mount, guard)
    BY <1>7, LibraryFacts
  <2>2. task[p].shaken = "no"
    <3>1. task[p].shaken \in {"no", "mount", "file"}
      BY LibraryFacts DEF ScanTasks
    <3>. QED  BY <1>2, <1>7, <3>1 DEF Calm
  <2>3. /\ task'[p].pc = task[p].pc /\ task'[p].seen = task[p].seen /\ task'[p].old = task[p].old
        /\ task[p].pc \in Looking => task'[p].shaken = "mount"
    BY <1>2, ShakeFacts
  <2>. QED  BY <2>1, <2>2, <2>3 DEF SeenOK, Whole
<1>8. task' \in [Tasks -> ScanTasks]
  BY <1>2, ShakeFacts
<1>. QED
  BY <1>2, <1>3, <1>4, <1>5, <1>6, <1>7, <1>8, LibraryFacts
     DEF LibraryInv, LibraryTypes, OutageKeepsTracks

LEMMA ToggleKeeps ==
  ASSUME LibraryInv, ToggleScan PROVE LibraryInv'
<1>1. UNCHANGED <<vol, mount, rows, guard, snaps, lost, blind>> /\ events' = events + 1
  BY DEF ToggleScan, Happens
<1>2. events \in Nat /\ events' \in Nat /\ events <= events'
  BY <1>1, LibraryFacts
<1>3. /\ task' \in [Tasks -> ScanTasks]
      /\ \A p \in Tasks : /\ task'[p].pc = task[p].pc /\ task'[p].seen = task[p].seen /\ task'[p].dev = task[p].dev
                          /\ task'[p].plan = task[p].plan /\ task'[p].old = task[p].old
                          /\ task'[p].shaken = task[p].shaken
  <2>1. CASE enabled
    <3>. DEFINE idle(p) == CASE p = "watcher" -> "off" [] p = "cron" -> "idle" [] OTHER -> task[p].pc
                cut(p) == task[p].pc # idle(p)
                u(p) == [task[p] EXCEPT !.dead = cut(p)]
    <3>1. task' = [p \in Tasks |-> u(p)]
      BY <2>1 DEF ToggleScan
    <3>2. \A p \in Tasks : cut(p) \in BOOLEAN
      OBVIOUS
    <3>. HIDE DEF cut
    <3>3. ASSUME NEW p \in Tasks
          PROVE  /\ u(p) \in ScanTasks /\ u(p).pc = task[p].pc /\ u(p).seen = task[p].seen /\ u(p).dev = task[p].dev
                 /\ u(p).plan = task[p].plan /\ u(p).old = task[p].old
                 /\ u(p).shaken = task[p].shaken
      <4>1. task[p] \in ScanTasks /\ cut(p) \in BOOLEAN
        BY <3>2, LibraryFacts
      <4>. QED  BY <4>1 DEF ScanTasks
    <3>. HIDE DEF u
    <3>. QED  BY <3>1, <3>3
  <2>2. CASE ~enabled
    BY <2>2, LibraryFacts DEF ToggleScan
  <2>. QED  BY <2>1, <2>2
<1>4. \A g \in Paths \ blind : HashOK(rows[g], vol[g], events')
  BY <1>2, LibraryFacts DEF HashOK, TrackRows
<1>5. Numbered(vol, events')
  BY <1>2, LibraryFacts DEF Numbered, Views
<1>6. ASSUME NEW p \in Tasks PROVE TaskOK(task'[p], vol, guard, blind, events')
  <2>. DEFINE t == task[p]
              u == task'[p]
              n == events'
  <2>1. /\ t \in ScanTasks /\ u \in ScanTasks /\ TaskOK(t, vol, guard, blind, events)
        /\ u.pc = t.pc /\ u.seen = t.seen /\ u.dev = t.dev /\ u.plan = t.plan
    BY <1>3, LibraryFacts
  <2>2. n \in Nat /\ events <= n /\ vol \in Views
    BY <1>2, LibraryFacts
  <2>. HIDE DEF t, u, n
  <2>3. TaskOK(u, vol, guard, blind, n)
    BY <1>2, <2>1, <2>2, TaskAges
  <2>. QED  BY <2>3 DEF u, n
<1>7. ASSUME "flap" \notin Hazards, NEW p \in Tasks PROVE SeenOK(task'[p], vol, mount, guard)
  <2>1. SeenOK(task[p], vol, mount, guard)
    BY <1>7, LibraryFacts
  <2>. QED  BY <1>3, <2>1 DEF SeenOK, Whole
<1>. QED
  BY <1>1, <1>2, <1>3, <1>4, <1>5, <1>6, <1>7, LibraryFacts
     DEF LibraryInv, LibraryTypes, OutageKeepsTracks

LEMMA ScanRestartKeeps ==
  ASSUME LibraryInv, ScanRestart PROVE LibraryInv'
<1>1. UNCHANGED <<vol, mount, rows, guard, lost, blind>> /\ events' = events + 1 /\ snaps' = Unseen
  BY DEF ScanRestart, Happens
<1>2. events \in Nat /\ events' \in Nat /\ events <= events'
  BY <1>1, LibraryFacts
<1>3. /\ task' \in [Tasks -> ScanTasks]
      /\ \A p \in Tasks : task'[p].pc \in {"idle", "off"} /\ task'[p].seen = NoView
  <2>. DEFINE off == [IdleTask EXCEPT !.pc = "off"]
  <2>1. off \in ScanTasks /\ off.pc = "off" /\ off.seen = NoView
    BY IdleFacts DEF ScanTasks
  <2>2. task' = [p \in Tasks |-> IF p = "watcher" /\ ~enabled THEN off ELSE IdleTask]
    BY DEF ScanRestart
  <2>. HIDE DEF off
  <2>. QED  BY <2>1, <2>2, IdleFacts
<1>4. \A g \in Paths \ blind : HashOK(rows[g], vol[g], events')
  BY <1>2, LibraryFacts DEF HashOK, TrackRows
<1>5. Numbered(vol, events')
  BY <1>2, LibraryFacts DEF Numbered, Views
<1>6. \A p \in Tasks : TaskOK(task'[p], vol, guard, blind, events') /\ SeenOK(task'[p], vol, mount, guard)
  BY <1>2, <1>3, IdleFacts DEF TaskOK, SeenOK, Numbered, Looking
<1>. QED
  BY <1>1, <1>2, <1>3, <1>4, <1>5, <1>6, LibraryFacts, IdleFacts
     DEF LibraryInv, LibraryTypes, OutageKeepsTracks

LEMMA LibraryInitial ==
  ASSUME ScanInit PROVE LibraryInv
<1>1. /\ vol \in [Paths -> {0, 1}] /\ mount \in {"vol", "bare"} /\ snaps = Unseen
      /\ task = [p \in Tasks |-> IdleTask] /\ lost = {} /\ blind = {} /\ events = 0
  BY DEF ScanInit
<1>2. vol \in Views /\ Numbered(vol, 0)
  BY <1>1 DEF Views, Numbered
<1>3. guard \in Guards /\ guard.dev # "bare"
  <2>1. \/ guard = [state |-> "none", dev |-> "none", misled |-> FALSE]
        \/ guard = [state |-> "online", dev |-> "vol", misled |-> FALSE]
    BY DEF ScanInit
  <2>2. CASE guard = [state |-> "none", dev |-> "none", misled |-> FALSE]
    BY <2>2 DEF Guards
  <2>3. CASE guard = [state |-> "online", dev |-> "vol", misled |-> FALSE]
    BY <2>3 DEF Guards
  <2>. QED  BY <2>1, <2>2, <2>3
<1>4. \/ rows = [f \in Paths |-> [fp |-> 0, hash |-> 0]]
      \/ rows = [f \in Paths |-> [fp |-> vol[f], hash |-> vol[f]]]
  BY DEF ScanInit
<1>5. ASSUME NEW f \in Paths PROVE rows[f] \in TrackRows /\ HashOK(rows[f], vol[f], 0)
  <2>1. vol[f] \in {0, 1}
    BY <1>1
  <2>2. rows[f] = [fp |-> 0, hash |-> 0] \/ rows[f] = [fp |-> vol[f], hash |-> vol[f]]
    BY <1>4
  <2>. QED  BY <2>1, <2>2 DEF HashOK, TrackRows
<1>6. rows \in [Paths -> TrackRows]
  <2>1. rows = [f \in Paths |-> rows[f]]
    BY <1>4
  <2>. QED  BY <1>5, <2>1
<1>7. \A p \in Tasks : TaskOK(task[p], vol, guard, blind, 0) /\ SeenOK(task[p], vol, mount, guard)
  BY <1>1, IdleFacts DEF TaskOK, SeenOK, Numbered, Looking
<1>8. task \in [Tasks -> ScanTasks] /\ snaps \in Snapshots
  BY <1>1, IdleFacts
<1>. QED  BY <1>1, <1>2, <1>3, <1>5, <1>6, <1>7, <1>8
             DEF LibraryInv, LibraryTypes, OutageKeepsTracks

LEMMA LibraryInductive ==
  ASSUME LibraryInv, [ScanNext]_scanVars PROVE LibraryInv'
<1>1. CASE WatcherStep
  BY <1>1, PollKeeps, IdentifyKeeps, WatcherUpsertKeeps, WatcherDeleteKeeps, SwitchKeeps
     DEF WatcherStep
<1>2. CASE CronStarts \/ ScanRequest \/ ScanSave \/ DeleteTracks
  BY <1>2, SwitchKeeps, ScanRequestKeeps, ScanSaveKeeps, DeleteTracksKeeps
<1>3. CASE EditFile \/ MountChange \/ ToggleScan \/ ScanRestart
  BY <1>3, EditKeeps, MountKeeps, ToggleKeeps, ScanRestartKeeps
<1>4. CASE \E p \in {"watcher", "cron"} : PassStep(p)
  <2>1. PICK p \in Tasks : PassStep(p)
    BY <1>4 DEF Tasks
  <2>. QED  BY <2>1, ScanKeeps, WalkFailsKeeps, JudgeKeeps, WriteKeeps, PurgeUnscannedKeeps
               DEF PassStep
<1>5. CASE UNCHANGED scanVars
  BY <1>5 DEF scanVars, LibraryInv, LibraryTypes, OutageKeepsTracks
<1>. QED  BY <1>1, <1>2, <1>3, <1>4, <1>5 DEF ScanNext

(* The library's rows carry the numbers and hashes of versions that were,  *)
(* and every scanning task knows what it saw.                              *)
THEOREM LibraryInvariant == ScanSpec => []LibraryInv
<1>1. ScanInit => LibraryInv
  BY LibraryInitial
<1>2. LibraryInv /\ [ScanNext]_scanVars => LibraryInv'
  BY LibraryInductive
<1>. QED  BY <1>1, <1>2, PTL DEF ScanSpec

(* No row pairs a file's fingerprint with another content's hash, in every *)
(* window, that of a mount that flaps within a pass included.              *)
THEOREM HashesAreFresh == ScanSpec => [](ScanTypeOK /\ HashIsFresh)
<1>1. LibraryInv => ScanTypeOK /\ HashIsFresh
  <2>. SUFFICES ASSUME LibraryInv PROVE ScanTypeOK /\ HashIsFresh
    OBVIOUS
  <2>1. HashIsFresh
    BY LibraryFacts DEF HashIsFresh, HashOK
  <2>2. ScanTypeOK
    <3>1. /\ vol \in [Paths -> Nat] /\ mount \in {"vol", "bare", "gone"}
          /\ rows \in [Paths -> [fp : Nat, hash : Nat]]
      BY LibraryFacts DEF Views, TrackRows
    <3>2. guard.state \in {"none", "online", "unavailable"} /\ guard.dev \in {"none", "vol", "bare"}
      BY LibraryFacts DEF Guards
    <3>3. snaps \in [st : {"unset", "lost", "seen"}, view : [Paths -> Nat]]
      BY LibraryFacts DEF Snapshots, Views
    <3>4. \A p \in Tasks : task[p].pc \in {"idle", "off", "device", "change", "drop", "scan",
                                           "judge", "write", "purge", "save"}
      BY LibraryFacts DEF ScanTasks
    <3>. QED  BY <3>1, <3>2, <3>3, <3>4 DEF ScanTypeOK
  <2>. QED  BY <2>1, <2>2
<1>. QED  BY <1>1, LibraryInvariant, PTL

(* The table tells the truth about the volume, where the mount does not    *)
(* flap within a pass: no outage deletes the row of a file the volume      *)
(* holds, unless the bare directory was taken for the volume (misled), and *)
(* a row's hash is that of the bytes its fingerprint stands for, but for   *)
(* rows refreshed without hashing (blind).                                 *)
THEOREM LibraryIsHonest ==
  ASSUME "flap" \notin Hazards PROVE ScanSpec => []LibraryHonest
<1>1. LibraryInv => OutageKeepsTracks
  BY LibraryFacts
<1>. QED  BY <1>1, LibraryInvariant, HashesAreFresh, PTL DEF LibraryHonest

-----------------------------------------------------------------------------
(***************************************************************************)
(* Import sessions                                                         *)
(***************************************************************************)
\* The inductive invariant.

Maps == [NameSet -> Contents \union {Nothing}]
Bytes == Contents \union {Foreign, Cut, Nothing}
Statuses == {"none", "created", "uploading", "committing", "failed"} \union Closed
Removing == {"copy", "fill", "upsert", "mark"}
Committing == {"validate"} \union Removing
Holding == Committing \union {"write", "store", "publish", "clean"}
Reqs == [op : {"none", "upload", "commit", "rollback", "expire"},
         pc : Holding \union {"idle", "wait"}, s : Sessions \union {Nothing},
         x : Contents \union {Nothing}, files : Maps, left : SUBSET NameSet,
         to : NameSet \union {Nothing}, copied : SUBSET NameSet]

Status(s) == sess[s].status

RowsTyped ==
  /\ sess = [s \in Sessions |-> [status |-> sess[s].status, count |-> sess[s].count]]
  /\ \A s \in Sessions : Status(s) \in Statuses
ImpTypes ==
  /\ RowsTyped
  /\ ram \in [Sessions -> Maps \union {Nothing}]
  /\ manifest \in [Sessions -> Maps \union {Nothing}]
  /\ lib \in [NameSet -> Bytes] /\ imported \in [NameSet -> Bytes]
  /\ holder \in [Sessions -> Workers \union {Nothing}] /\ req \in [Workers -> Reqs]
  /\ acks \in [Sessions -> SUBSET Contents] /\ done \in [Sessions -> Maps]
  /\ put \in [Sessions -> SUBSET NameSet] /\ torn \in [Sessions -> BOOLEAN]
  /\ staged \in [Sessions -> [Contents -> Contents \union {Nothing, Cut}]]
  /\ broken \in [Sessions -> SUBSET Contents]

\* A name that carries a hash holds the bytes of that hash.
HashNamed(m) == \A x, y \in Contents : m[<<NameOf(x), y>>] \in {Nothing, y}

\* Whoever works on a session holds its lock.
LockOK(c) == req[c].pc \in Holding => req[c].s \in Sessions /\ holder[req[c].s] = c

\* An upload: the session is open, a file being written is not acknowledged, and what it
\* will publish extends what is known.
UploadOK(c) ==
  LET r == req[c]
  IN /\ r.pc \in {"write", "store", "publish"} =>
          /\ Status(r.s) \notin Closed \union {"none"} /\ ram[r.s] # Nothing /\ r.x \in Contents
     /\ r.pc = "write" => c \in Requests /\ r.x \notin acks[r.s]
     /\ r.pc = "publish" =>
          /\ manifest[r.s] = r.files /\ HashNamed(r.files)
          /\ ContentsOf(ram[r.s]) \union {r.x} \subseteq ContentsOf(r.files)

\* What a commit has dealt with is as it should be, but for a copy of a broken-off upload.
CopyOK(r, n) ==
  lib[n] = r.files[n] \/ (n \in r.copied /\ lib[n] = Cut /\ r.files[n] \in broken[r.s])

\* What c copied, or is copying.
Undoes(c, n) == req[c].pc \in Removing /\ (n \in req[c].copied \/ (req[c].pc = "fill" /\ n = req[c].to))

\* No import has recorded or published the name.
Unpublished(n) == imported[n] \notin Contents /\ \A s \in Sessions : done[s][n] = Nothing

\* A commit: the row says so, it has everything acknowledged, and at each step it knows
\* what the library and the rows hold under its names.
CommitOK(c) ==
  LET r == req[c]
  IN /\ r.pc \in Committing =>
          c \in Requests /\ Status(r.s) = "committing" /\ acks[r.s] \subseteq ContentsOf(r.files)
     /\ r.pc \in Removing =>
          /\ r.left \subseteq FilesOf(r.files) /\ r.copied \subseteq FilesOf(r.files) \ r.left
          /\ \A n \in FilesOf(r.files) \ r.left : CopyOK(r, n)
          /\ \A n \in r.left : (r.pc = "fill" /\ n = r.to) \/ lib[n] \in {Nothing, r.files[n]}
     /\ r.pc = "validate" => r.copied = {}
     /\ r.pc \in {"upsert", "mark"} => r.left = {}
     /\ r.pc = "fill" =>
          r.to \in r.left /\ lib[r.to] = Cut /\ staged[r.s][r.files[r.to]] # Nothing
     /\ r.pc \in Removing \ {"mark"} => \A n \in NameSet : Undoes(c, n) => Unpublished(n)
     /\ r.pc = "mark" => \A n \in FilesOf(r.files) : imported[n] = r.files[n]

EndOK(c) ==
  /\ req[c].pc = "clean" => Status(req[c].s) \in Closed
  /\ req[c].pc = "wait" => c = "janitor" /\ req[c].s \in Sessions /\ Status(req[c].s) # "none"

ReqOK(c) == LockOK(c) /\ UploadOK(c) /\ CommitOK(c) /\ EndOK(c)

\* Two commits under way share no name.
Apart ==
  \A c, d \in Requests :
    c # d /\ req[c].pc \in Committing /\ req[d].pc \in Committing =>
      FilesOf(req[c].files) \intersect FilesOf(req[d].files) = {}

\* Memory lags behind the manifest, and neither lacks what was acknowledged.
FilesKnown(s) ==
  /\ Status(s) = "none" => acks[s] = {}
  /\ ram[s] # Nothing =>
       manifest[s] # Nothing /\ ContentsOf(ram[s]) \subseteq ContentsOf(manifest[s]) /\ HashNamed(ram[s])
  /\ manifest[s] # Nothing => HashNamed(manifest[s])
  /\ Status(s) \notin Closed =>
       /\ ram[s] # Nothing => acks[s] \subseteq ContentsOf(ram[s])
       /\ manifest[s] # Nothing => acks[s] \subseteq ContentsOf(manifest[s])

\* What a commit published stays, in the library and in the rows.
DoneOK(s) ==
  /\ Status(s) # "committed" => done[s] = NoFiles
  /\ \A n \in FilesOf(done[s]) :
       /\ imported[n] = done[s][n]
       /\ lib[n] = done[s][n] \/ (lib[n] = Cut /\ done[s][n] \in broken[s])

\* A file in the staging directory is whole, or being written, or its writing broke off.
StagingOK(s) ==
  \A x \in Contents :
    /\ staged[s][x] \in {Nothing, Cut, x}
    /\ staged[s][x] = Cut /\ x \notin broken[s] =>
         \E c \in Requests : req[c].pc = "write" /\ req[c].s = s /\ req[c].x = x

\* Names the session alone copied to.
Own(s) == put[s] \ UNION {put[o] : o \in Sessions \ {s}}

\* What an uncommitted session copied is gone, or a commit under way will remove it.
UndoneOK(s) ==
  Status(s) # "committed" /\ ~torn[s] =>
    \A n \in Own(s) : lib[n] # Nothing => \E c \in Requests : req[c].s = s /\ Undoes(c, n)

SessOK(s) == FilesKnown(s) /\ DoneOK(s) /\ UndoneOK(s)

ImpInv ==
  /\ ImpTypes /\ Apart /\ RowsMatchFiles
  /\ \A c \in Workers : ReqOK(c)
  /\ \A s \in Sessions : SessOK(s) /\ StagingOK(s)

---------------------------------------------------------------------------
\* The step of one request.

\* Nothing that belongs to session o changes.
Same(o) ==
  /\ sess'[o] = sess[o] /\ ram'[o] = ram[o] /\ manifest'[o] = manifest[o] /\ holder'[o] = holder[o]
  /\ acks'[o] = acks[o] /\ done'[o] = done[o] /\ put'[o] = put[o] /\ torn'[o] = torn[o]
  /\ staged'[o] = staged[o] /\ broken'[o] = broken[o]

\* Only c moves, and only session s, which nobody else holds.
Undisputed(c, s) ==
  /\ \A o \in Sessions \ {s} : Same(o)
  /\ \A d \in Workers \ {c} :
       req'[d] = req[d] /\ (req[d].pc \in Holding => req[d].s # s \/ Same(s))
  /\ req[c].pc \in Removing \union {"write"} => req[c].s = s
  /\ Status(s) # "none" => Status(s)' # "none"
  /\ broken[s] \subseteq broken'[s]

\* The staging directory is left alone, or left in order.
Staged(c, s) == (UNCHANGED <<staged, broken>> /\ req[c].pc # "write") \/ StagingOK(s)'

\* What others rely on in the library and the rows is left alone.
Gentle(c, s) ==
  /\ \A d \in Requests \ {c} :
       req[d].pc \in Committing =>
         \A n \in FilesOf(req[d].files) :
           /\ lib'[n] = lib[n] /\ imported'[n] = imported[n]
           /\ done[s][n] = Nothing => done'[s][n] = Nothing
  /\ \A o \in Sessions \ {s}, n \in NameSet :
       done[o][n] # Nothing => lib'[n] = lib[n] /\ imported'[n] = imported[n]
  /\ put[s] \subseteq put'[s]
  /\ \A n \in NameSet : n \notin put'[s] /\ lib'[n] # Nothing => lib[n] # Nothing

\* A commit of c takes only names no other commit has.
Clear(c) ==
  c \in Requests /\ req'[c].pc \in Committing =>
    \A d \in Requests \ {c} :
      req[d].pc \in Committing => FilesOf(req'[c].files) \intersect FilesOf(req[d].files) = {}

\* The other requests keep their part of the invariant.
LEMMA OthersKept ==
  ASSUME ImpInv, NEW c \in Workers, NEW s \in Sessions, Undisputed(c, s), Gentle(c, s),
         NEW d \in Workers \ {c}
  PROVE  ReqOK(d)'
<1> DEFINE r == req[d]
<1>0. /\ req'[d] = r /\ ReqOK(d)
      /\ r.pc \in Holding => r.s \in Sessions /\ Same(r.s)
  BY DEF ImpInv, Undisputed, ReqOK, LockOK
<1>1. r.pc \in Committing =>
        \A n \in FilesOf(r.files) :
          /\ lib'[n] = lib[n] /\ imported'[n] = imported[n]
          /\ \A o \in Sessions : done[o][n] = Nothing => done'[o][n] = Nothing
  <2> SUFFICES ASSUME r.pc \in Committing, NEW n \in FilesOf(r.files)
               PROVE  /\ lib'[n] = lib[n] /\ imported'[n] = imported[n]
                      /\ \A o \in Sessions : done[o][n] = Nothing => done'[o][n] = Nothing
    OBVIOUS
  <2>1. d \in Requests
    BY <1>0 DEF ReqOK, CommitOK
  <2> QED BY <2>1 DEF Gentle, Undisputed, Same
<1>2. LockOK(d)'
  BY <1>0 DEF ReqOK, LockOK, Same
<1>3. UploadOK(d)'
  BY <1>0 DEF ReqOK, UploadOK, Same, Status, Holding
<1>4. CommitOK(d)'
  <2> USE <1>0 DEF ReqOK, CommitOK, Same, Status, Holding, Committing
  <2>1. r.pc \in Committing =>
          d \in Requests /\ Status(r.s)' = "committing" /\ acks'[r.s] \subseteq ContentsOf(r.files)
    OBVIOUS
  <2>2. r.pc \in Removing =>
          /\ r.left \subseteq FilesOf(r.files) /\ r.copied \subseteq FilesOf(r.files) \ r.left
          /\ \A n \in FilesOf(r.files) \ r.left : CopyOK(r, n)'
          /\ \A n \in r.left : (r.pc = "fill" /\ n = r.to) \/ lib'[n] \in {Nothing, r.files[n]}
    <3> SUFFICES ASSUME r.pc \in Removing
                 PROVE  /\ r.left \subseteq FilesOf(r.files) /\ r.copied \subseteq FilesOf(r.files) \ r.left
                        /\ \A n \in FilesOf(r.files) \ r.left : CopyOK(r, n)'
                        /\ \A n \in r.left : (r.pc = "fill" /\ n = r.to) \/ lib'[n] \in {Nothing, r.files[n]}
      OBVIOUS
    <3>1. broken'[r.s] = broken[r.s] /\ \A n \in FilesOf(r.files) : lib'[n] = lib[n]
      BY <1>1
    <3>2. /\ r.left \subseteq FilesOf(r.files) /\ r.copied \subseteq FilesOf(r.files) \ r.left
          /\ \A n \in FilesOf(r.files) \ r.left : CopyOK(r, n)
          /\ \A n \in r.left : (r.pc = "fill" /\ n = r.to) \/ lib[n] \in {Nothing, r.files[n]}
      OBVIOUS
    <3>3. \A n \in FilesOf(r.files) \ r.left : CopyOK(r, n)'
      BY <3>1, <3>2 DEF CopyOK
    <3> QED BY <3>1, <3>2, <3>3
  <2>3. r.pc = "fill" =>
          r.to \in r.left /\ r.left \subseteq FilesOf(r.files) /\ lib'[r.to] = Cut /\ staged'[r.s][r.files[r.to]] # Nothing
    BY <1>1, <2>2 DEF Removing
  <2>4. ASSUME r.pc \in Removing \ {"mark"}, NEW n \in NameSet, Undoes(d, n)' PROVE Unpublished(n)'
    <3>1. Undoes(d, n) /\ Unpublished(n)
      BY <2>4 DEF Undoes
    <3>2. n \in FilesOf(r.files)
      BY <2>2, <2>3, <2>4, <3>1 DEF Undoes
    <3> QED BY <1>1, <2>4, <3>1, <3>2 DEF Unpublished
  <2>5. r.pc = "mark" => \A n \in FilesOf(r.files) : imported'[n] = r.files[n]
    BY <1>1 DEF Removing
  <2> QED BY <2>1, <2>2, <2>3, <2>4, <2>5 DEF ContentsOf, FilesOf, CopyOK
<1>5. EndOK(d)'
  BY <1>0 DEF ReqOK, EndOK, Same, Status, Holding, Undisputed
<1> QED BY <1>2, <1>3, <1>4, <1>5 DEF ReqOK

\* The other sessions keep theirs.
LEMMA SessionsKept ==
  ASSUME ImpInv, NEW c \in Workers, NEW s \in Sessions, Undisputed(c, s), Gentle(c, s), ImpTypes',
         NEW o \in Sessions \ {s}
  PROVE  SessOK(o)'
<1>0. Same(o) /\ SessOK(o)
  BY DEF ImpInv, Undisputed
<1>1. FilesKnown(o)'
  BY <1>0 DEF SessOK, FilesKnown, Same, Status
<1>2. DoneOK(o)'
  <2>1. \A n \in FilesOf(done[o]) : lib'[n] = lib[n] /\ imported'[n] = imported[n]
    BY DEF Gentle, FilesOf
  <2> QED BY <1>0, <2>1 DEF SessOK, DoneOK, Same, Status
<1>3. UndoneOK(o)'
  <2> SUFFICES ASSUME Status(o) # "committed", ~torn[o], NEW n \in Own(o)', lib'[n] # Nothing
               PROVE  \E d \in Requests : req'[d].s = o /\ Undoes(d, n)'
    BY <1>0 DEF UndoneOK, Same, Status
  <2>1. n \in Own(o) /\ n \notin put'[s]
    BY <1>0 DEF Own, Same, Undisputed, Gentle
  <2>2. lib[n] # Nothing
    BY <2>1 DEF Own, ImpInv, ImpTypes, Gentle
  <2>3. PICK d \in Requests : req[d].s = o /\ Undoes(d, n)
    BY <1>0, <2>1, <2>2 DEF SessOK, UndoneOK
  <2>4. d # c
    BY <2>3 DEF Undisputed, Undoes
  <2> QED BY <2>3, <2>4 DEF Undisputed, Workers, Undoes
<1> QED BY <1>1, <1>2, <1>3 DEF SessOK

\* So do the staging directories.
LEMMA StagingKept ==
  ASSUME ImpInv, NEW c \in Workers, NEW s \in Sessions, Undisputed(c, s), Staged(c, s), NEW o \in Sessions
  PROVE  StagingOK(o)'
<1>1. CASE o = s /\ StagingOK(s)'
  BY <1>1
<1>2. CASE o # s \/ (UNCHANGED <<staged, broken>> /\ req[c].pc # "write")
  <2>1. StagingOK(o) /\ staged'[o] = staged[o] /\ broken'[o] = broken[o]
    BY <1>2 DEF ImpInv, Undisputed, Same
  <2> SUFFICES ASSUME NEW x \in Contents, staged[o][x] = Cut, x \notin broken[o]
               PROVE  \E d \in Requests : req'[d].pc = "write" /\ req'[d].s = o /\ req'[d].x = x
    BY <2>1 DEF StagingOK
  <2>2. PICK d \in Requests : req[d].pc = "write" /\ req[d].s = o /\ req[d].x = x
    BY <2>1 DEF StagingOK
  <2>3. d # c
    BY <1>2, <2>2 DEF Undisputed
  <2> QED BY <2>2, <2>3 DEF Undisputed, Workers
<1> QED BY <1>1, <1>2 DEF Staged

\* One request moves on in one session: enough that it and the session are right afterwards.
LEMMA OneStep ==
  ASSUME ImpInv, NEW c \in Workers, NEW s \in Sessions, Undisputed(c, s), Gentle(c, s), Clear(c),
         Staged(c, s), ImpTypes', RowsMatchFiles', ReqOK(c)', SessOK(s)'
  PROVE  ImpInv'
<1>1. \A d \in Workers : ReqOK(d)'
  BY OthersKept
<1>2. \A o \in Sessions : SessOK(o)' /\ StagingOK(o)'
  BY SessionsKept, StagingKept
<1>3. Apart'
  <2> SUFFICES ASSUME NEW d \in Requests, NEW e \in Requests, d # e,
                      req'[d].pc \in Committing, req'[e].pc \in Committing
               PROVE  FilesOf(req'[d].files) \intersect FilesOf(req'[e].files) = {}
    BY DEF Apart
  <2>1. \A f \in Requests \ {c} : req'[f] = req[f]
    BY DEF Undisputed, Workers
  <2>2. CASE d # c /\ e # c
    BY <2>1, <2>2 DEF ImpInv, Apart
  <2>3. CASE d = c
    BY <2>1, <2>3 DEF Clear
  <2>4. CASE e = c
    BY <2>1, <2>4 DEF Clear
  <2> QED BY <2>2, <2>3, <2>4
<1> QED BY <1>1, <1>2, <1>3 DEF ImpInv

\* Most steps leave the library, the rows and what was published alone.
LEMMA QuietStep ==
  ASSUME ImpInv, NEW c \in Workers, NEW s \in Sessions, Undisputed(c, s), Clear(c),
         UNCHANGED <<lib, imported, done, put, torn>>, \A n \in NameSet : Undoes(c, n) => Undoes(c, n)' /\ req'[c].s = s,
         Status(s) = "committed" => Status(s)' = "committed",
         Staged(c, s), ImpTypes', ReqOK(c)', FilesKnown(s)'
  PROVE  ImpInv'
<1>0. SessOK(s) /\ ImpTypes
  BY DEF ImpInv
<1>1. Gentle(c, s)
  BY DEF Gentle
<1>2. RowsMatchFiles'
  <2>1. \A o \in Sessions : broken[o] \subseteq broken'[o]
    BY DEF Undisputed, Same
  <2> QED BY <2>1 DEF ImpInv, RowsMatchFiles
<1>3. DoneOK(s)'
  BY <1>0 DEF SessOK, DoneOK, Status, Undisputed
<1>4. UndoneOK(s)'
  <2> SUFFICES ASSUME Status(s)' # "committed", ~torn[s], NEW n \in Own(s), lib[n] # Nothing
               PROVE  \E d \in Requests : req'[d].s = s /\ Undoes(d, n)'
    BY DEF UndoneOK, Own
  <2>1. PICK d \in Requests : req[d].s = s /\ Undoes(d, n)
    BY <1>0 DEF SessOK, UndoneOK, Status
  <2>2. n \in NameSet
    BY <1>0 DEF Own, ImpTypes
  <2>3. CASE d # c
    BY <2>1, <2>3 DEF Undisputed, Workers, Undoes
  <2>4. CASE d = c
    BY <2>1, <2>2, <2>4
  <2> QED BY <2>3, <2>4
<1> QED BY <1>1, <1>2, <1>3, <1>4, OneStep DEF SessOK

LEMMA PlainStep ==
  ASSUME ImpInv, NEW c \in Workers, NEW s \in Sessions, Undisputed(c, s), Clear(c),
         UNCHANGED <<lib, imported, done, put, torn>>, UNCHANGED <<staged, broken>>,
         req[c].pc \notin Removing, req[c].pc # "write",
         Status(s) = "committed" => Status(s)' = "committed", ImpTypes', ReqOK(c)', FilesKnown(s)'
  PROVE  ImpInv'
BY QuietStep DEF Undoes, Staged

---------------------------------------------------------------------------
\* The operations.

LEMMA NoFilesFacts == NoFiles \in Maps /\ FilesOf(NoFiles) = {} /\ ContentsOf(NoFiles) = {} /\ HashNamed(NoFiles)
<1>1. \A n \in NameSet : NoFiles[n] = Nothing
  BY DEF NoFiles
<1>2. \A x, y \in Contents : <<NameOf(x), y>> \in NameSet
  BY DEF NameSet
<1>3. NoFiles \in Maps
  BY DEF NoFiles, Maps
<1> QED BY <1>1, <1>2, <1>3 DEF FilesOf, ContentsOf, HashNamed

LEMMA NoReqFacts ==
  /\ NoReq \in Reqs /\ NoReq.pc = "idle" /\ NoReq.copied = {} /\ NoReq.left = {}
  /\ \A c \in Workers : req'[c] = NoReq => ReqOK(c)' /\ Clear(c)
<1>1. NoReq \in Reqs /\ NoReq.pc = "idle" /\ NoReq.copied = {} /\ NoReq.left = {}
  BY NoFilesFacts DEF NoReq, Reqs, Holding, Committing
<1>2. ASSUME NEW c \in Workers, req'[c] = NoReq PROVE ReqOK(c)' /\ Clear(c)
  BY <1>1, <1>2 DEF ReqOK, LockOK, UploadOK, CommitOK, EndOK, Clear, Holding, Committing, Removing
<1> QED BY <1>1, <1>2

\* set_import_session_status touches one row and leaves a terminal status.
LEMMA StatusSet ==
  ASSUME ImpTypes, NEW s \in Sessions, NEW st \in Statuses, set_import_session_status(s, st)
  PROVE  /\ RowsTyped' /\ \A o \in Sessions \ {s} : sess'[o] = sess[o]
         /\ sess'[s].status = IF Status(s) \in Closed THEN Status(s) ELSE st
<1> DEFINE e == IF Status(s) \in Closed THEN Status(s) ELSE st
<1>1. /\ sess = [o \in Sessions |-> sess[o]] /\ \A o \in Sessions : Status(o) \in Statuses
      /\ \A o \in Sessions : sess[o] = [status |-> sess[o].status, count |-> sess[o].count]
  BY DEF ImpTypes, RowsTyped
<1>2. sess' = [sess EXCEPT ![s] = [@ EXCEPT !.status = e]]
  BY DEF set_import_session_status, Status
<1>3. e \in Statuses
  BY <1>1
<1> HIDE DEF e
<1>4. [sess[s] EXCEPT !.status = e] = [status |-> e, count |-> sess[s].count]
  BY <1>1
<1>5. sess' = [o \in Sessions |-> IF o = s THEN [status |-> e, count |-> sess[s].count] ELSE sess[o]]
  BY <1>1, <1>2, <1>4
<1>6. \A o \in Sessions : sess'[o] = [status |-> sess'[o].status, count |-> sess'[o].count]
  BY <1>1, <1>5
<1>7. sess' = [o \in Sessions |-> [status |-> sess'[o].status, count |-> sess'[o].count]]
  BY <1>5, <1>6
<1>8. sess'[s].status = e /\ \A o \in Sessions \ {s} : sess'[o] = sess[o]
  BY <1>5
<1> QED BY <1>1, <1>3, <1>7, <1>8 DEF RowsTyped, Status, e

LEMMA CountSet ==
  ASSUME ImpTypes, NEW s \in Sessions, NEW k, sess' = [sess EXCEPT ![s].count = k]
  PROVE  RowsTyped' /\ \A o \in Sessions : sess'[o].status = sess[o].status /\ (o # s => sess'[o] = sess[o])
<1>1. /\ sess = [o \in Sessions |-> sess[o]] /\ \A o \in Sessions : Status(o) \in Statuses
      /\ \A o \in Sessions : sess[o] = [status |-> sess[o].status, count |-> sess[o].count]
  BY DEF ImpTypes, RowsTyped
<1>2. [sess[s] EXCEPT !.count = k] = [status |-> sess[s].status, count |-> k]
  BY <1>1
<1>3. sess' = [o \in Sessions |-> IF o = s THEN [status |-> sess[s].status, count |-> k] ELSE sess[o]]
  BY <1>1, <1>2
<1>4. \A o \in Sessions : sess'[o] = [status |-> sess'[o].status, count |-> sess'[o].count]
  BY <1>1, <1>3
<1>5. sess' = [o \in Sessions |-> [status |-> sess'[o].status, count |-> sess'[o].count]]
  BY <1>3, <1>4
<1>6. \A o \in Sessions : sess'[o].status = sess[o].status /\ (o # s => sess'[o] = sess[o])
  BY <1>3
<1> QED BY <1>1, <1>5, <1>6 DEF RowsTyped, Status

\* The end of a request frees its lock.
LEMMA Released ==
  ASSUME ImpInv, NEW c \in Workers, req[c].pc \in Holding, Release(c)
  PROVE  /\ req' \in [Workers -> Reqs] /\ holder' \in [Sessions -> Workers \union {Nothing}]
         /\ req[c].s \in Sessions /\ req'[c] = NoReq /\ holder'[req[c].s] = Nothing
         /\ \A d \in Workers \ {c} : req'[d] = req[d] /\ (req[d].pc \in Holding => req[d].s # req[c].s)
         /\ \A o \in Sessions \ {req[c].s} : holder'[o] = holder[o]
         /\ ReqOK(c)' /\ Clear(c)
<1>1. /\ req \in [Workers -> Reqs] /\ holder \in [Sessions -> Workers \union {Nothing}]
      /\ \A d \in Workers : LockOK(d)
  BY DEF ImpInv, ImpTypes, ReqOK
<1>2. req'[c] = NoReq
  BY <1>1 DEF Release
<1>3. ReqOK(c)' /\ Clear(c)
  BY <1>2, NoReqFacts
<1> QED BY <1>1, <1>2, <1>3, NoReqFacts DEF Release, LockOK

\* A request that gets the lock is the only one at work in its session.
LEMMA Held ==
  ASSUME ImpInv, NEW c \in Workers, NEW r \in Reqs, r.s \in Sessions, Hold(c, r), holder[r.s] = Nothing
  PROVE  /\ req' \in [Workers -> Reqs] /\ holder' \in [Sessions -> Workers \union {Nothing}]
         /\ req'[c] = r /\ holder'[r.s] = c
         /\ \A d \in Workers \ {c} : req'[d] = req[d] /\ (req[d].pc \in Holding => req[d].s # r.s)
         /\ \A o \in Sessions \ {r.s} : holder'[o] = holder[o]
<1>1. /\ req \in [Workers -> Reqs] /\ holder \in [Sessions -> Workers \union {Nothing}]
      /\ \A d \in Workers : LockOK(d)
  BY DEF ImpInv, ImpTypes, ReqOK
<1> QED BY <1>1, NothingAssumption DEF Hold, LockOK

\* What the handlers work with is the memory, or else the manifest.
LEMMA Recovered ==
  ASSUME ImpInv, NEW s \in Sessions, get_or_recover_session(s) # Nothing
  PROVE  LET m == get_or_recover_session(s)
         IN /\ m \in Maps /\ HashNamed(m) /\ manifest[s] # Nothing
            /\ ContentsOf(m) \subseteq ContentsOf(manifest[s])
            /\ Status(s) \notin Closed => acks[s] \subseteq ContentsOf(m)
  BY DEF ImpInv, ImpTypes, SessOK, FilesKnown, get_or_recover_session

\* A name is found for a file without giving up another.
LEMMA SafeNameFacts ==
  ASSUME NEW m \in Maps, HashNamed(m), NEW x \in Contents
  PROVE  LET k == [m EXCEPT ![SafeName(m, x)] = x]
         IN k \in Maps /\ HashNamed(k) /\ ContentsOf(m) \union {x} \subseteq ContentsOf(k)
<1> DEFINE n == SafeName(m, x)
           k == [m EXCEPT ![n] = x]
<1>1. n \in NameSet /\ m[n] \in {Nothing, x} /\ \A z, y \in Contents : n = <<NameOf(z), y>> => y = x
  <2>1. <<NameOf(x), Nothing>> \in NameSet /\ <<NameOf(x), x>> \in NameSet /\ Nothing \notin Contents
    BY ImportAssumption DEF NameSet
  <2>2. CASE m[<<NameOf(x), Nothing>>] \in {Nothing, x}
    <3>1. n = <<NameOf(x), Nothing>>
      BY <2>2 DEF SafeName
    <3> QED BY <2>1, <2>2, <3>1
  <2>3. CASE m[<<NameOf(x), Nothing>>] \notin {Nothing, x}
    <3>1. n = <<NameOf(x), x>>
      BY <2>3 DEF SafeName
    <3> QED BY <2>1, <3>1 DEF HashNamed
  <2> QED BY <2>2, <2>3
<1> HIDE DEF n
<1>2. k \in Maps /\ k[n] = x /\ \A o \in NameSet \ {n} : k[o] = m[o]
  BY <1>1 DEF Maps
<1>3. Nothing \notin Contents /\ \A z, y \in Contents : <<NameOf(z), y>> \in NameSet
  BY ImportAssumption DEF NameSet
<1>4. HashNamed(k)
  BY <1>1, <1>2, <1>3 DEF HashNamed
<1>5. ASSUME NEW z \in ContentsOf(m) \union {x} PROVE z \in ContentsOf(k)
  <2>1. CASE z = x
    BY <1>1, <1>2, <1>3, <2>1 DEF ContentsOf, FilesOf
  <2>2. CASE z # x
    <3>1. PICK o \in NameSet : m[o] # Nothing /\ z = m[o]
      BY <2>2 DEF ContentsOf, FilesOf
    <3> QED BY <1>1, <1>2, <2>2, <3>1 DEF ContentsOf, FilesOf
  <2> QED BY <2>1, <2>2
<1> QED BY <1>2, <1>4, <1>5 DEF n

---------------------------------------------------------------------------
\* The actions, one by one.

LEMMA NothingChanges ==
  ASSUME ImpInv,
         UNCHANGED <<sess, ram, manifest, staged, lib, imported, holder, req, acks, done, put, torn, broken>>
  PROVE  ImpInv'
<1>1. ImpTypes' /\ Apart' /\ RowsMatchFiles'
  BY DEF ImpInv, ImpTypes, RowsTyped, Status, Apart, RowsMatchFiles
<1>2. ASSUME NEW c \in Workers PROVE ReqOK(c)'
  BY DEF ImpInv, ReqOK, LockOK, UploadOK, CommitOK, CopyOK, Undoes, Unpublished, EndOK, Status
<1>3. ASSUME NEW s \in Sessions PROVE SessOK(s)' /\ StagingOK(s)'
  BY DEF ImpInv, SessOK, FilesKnown, DoneOK, UndoneOK, StagingOK, Undoes, Own, Status
<1> QED BY <1>1, <1>2, <1>3 DEF ImpInv

LEMMA SessionCreateKeeps ==
  ASSUME ImpInv, NEW s \in Sessions, CreateSession(s)
  PROVE  ImpInv'
<1> DEFINE j == "janitor"
<1>0. j \in Workers /\ ImpTypes /\ SessOK(s) /\ Status(s) = "none"
  BY DEF Workers, ImpInv, CreateSession, Status
<1>1. set_import_session_status(s, "created")
  BY <1>0 DEF CreateSession, create_import_session, set_import_session_status, Status, Closed
<1>2. /\ RowsTyped' /\ \A o \in Sessions \ {s} : sess'[o] = sess[o]
      /\ Status(s)' = "created"
  BY <1>0, <1>1, StatusSet DEF Statuses, Closed, Status
<1>3. /\ \A o \in Sessions \ {s} : ram'[o] = ram[o] /\ manifest'[o] = manifest[o]
      /\ \/ ram'[s] = NoFiles /\ manifest'[s] = NoFiles
         \/ ram'[s] = ram[s] /\ manifest'[s] = manifest[s]
      /\ ram' \in [Sessions -> Maps \union {Nothing}] /\ manifest' \in [Sessions -> Maps \union {Nothing}]
  BY <1>0, NoFilesFacts DEF CreateSession, save_manifest, ImpTypes
<1>4. UNCHANGED <<staged, lib, imported, holder, req, acks, done, put, torn, broken>>
  BY DEF CreateSession
<1>5. \A d \in Workers : req[d].pc \in Holding => req[d].s # s
  <2> SUFFICES ASSUME NEW d \in Workers, req[d].pc \in Holding, req[d].s = s PROVE FALSE
    OBVIOUS
  <2>1. ReqOK(d)
    BY DEF ImpInv
  <2> QED BY <1>0, <2>1 DEF ReqOK, UploadOK, CommitOK, EndOK, Holding, Committing, Closed, Status
<1>6. ImpTypes'
  BY <1>0, <1>2, <1>3, <1>4 DEF ImpTypes
<1>7. ReqOK(j) /\ req[j].pc \notin Committing \union {"write"}
  BY <1>0, NothingAssumption DEF ImpInv, ReqOK, CommitOK, UploadOK
<1>8. Undisputed(j, s)
  BY <1>0, <1>2, <1>3, <1>4, <1>5, <1>7 DEF Undisputed, Same, Committing
<1>9. ReqOK(j)'
  <2>1. CASE req[j].pc \in Holding
    <3>1. req[j].s \in Sessions \ {s}
      BY <1>5, <1>7, <1>0, <2>1 DEF ReqOK, LockOK
    <3> QED BY <1>2, <1>3, <1>4, <1>7, <3>1
        DEF ReqOK, LockOK, UploadOK, CommitOK, EndOK, Status, Committing
  <2>2. CASE req[j].pc \notin Holding
    BY <1>2, <1>4, <1>7, <2>2 DEF ReqOK, LockOK, UploadOK, CommitOK, EndOK, Status, Holding, Committing
  <2> QED BY <2>1, <2>2
<1>10. FilesKnown(s)'
  BY <1>0, <1>2, <1>3, <1>4, NoFilesFacts DEF SessOK, FilesKnown, Status, Closed
<1>11. Clear(j)
  BY NothingAssumption DEF Clear
<1> HIDE DEF j
<1> QED
  <2>1. Status(s) # "committed" /\ req[j].pc \notin Removing /\ req[j].pc # "write"
    BY <1>0, <1>7 DEF Committing
  <2> QED BY <1>0, <1>4, <1>6, <1>8, <1>9, <1>10, <1>11, <2>1, PlainStep

\* import_upload_handler, refused, answered at once, or begun.
LEMMA UploadBeginsKeeps ==
  ASSUME ImpInv, NEW c \in Requests, NEW s \in Sessions, NEW x \in Contents, UploadBegins(c, s, x)
  PROVE  ImpInv'
<1> DEFINE m == get_or_recover_session(s)
<1>0. /\ c \in Workers /\ ImpTypes /\ SessOK(s) /\ req[c].pc = "idle"
      /\ Status(s) # "none" /\ holder[s] = Nothing
      /\ UNCHANGED <<manifest, lib, imported, done, put, torn, broken>>
  BY DEF Workers, ImpInv, UploadBegins, Locks, Status
<1>1. CASE sess[s].status \in Closed \/ m = Nothing
  BY <1>1, NothingChanges DEF UploadBegins, Refused
<1>2. CASE sess[s].status \notin Closed /\ m # Nothing
  <2>1. /\ m \in Maps /\ HashNamed(m) /\ manifest[s] # Nothing
        /\ ContentsOf(m) \subseteq ContentsOf(manifest[s]) /\ acks[s] \subseteq ContentsOf(m)
    BY <1>2, Recovered DEF Status
  <2>2. ram' = [ram EXCEPT ![s] = m]
    BY <1>2 DEF UploadBegins
  <2> HIDE DEF m
  <2>3. /\ ram' \in [Sessions -> Maps \union {Nothing}] /\ ram'[s] = m
        /\ \A o \in Sessions \ {s} : ram'[o] = ram[o]
    BY <1>0, <2>1, <2>2 DEF ImpTypes
  <2>4. CASE x \in ContentsOf(m)
    <3>1. /\ sess' = [sess EXCEPT ![s].count = Cardinality(FilesOf(m))]
          /\ acks' = [acks EXCEPT ![s] = @ \union {x}] /\ UNCHANGED <<req, holder, staged>>
      BY <1>2, <2>4 DEF UploadBegins, Refused, m
    <3>2. RowsTyped' /\ \A o \in Sessions : sess'[o].status = sess[o].status /\ (o # s => sess'[o] = sess[o])
      BY <1>0, <3>1, CountSet
    <3>3. /\ acks' \in [Sessions -> SUBSET Contents] /\ acks'[s] = acks[s] \union {x}
          /\ \A o \in Sessions \ {s} : acks'[o] = acks[o]
      BY <1>0, <3>1 DEF ImpTypes
    <3>4. ImpTypes'
      BY <1>0, <2>3, <3>1, <3>2, <3>3 DEF ImpTypes
    <3>5. \A d \in Workers : req[d].pc \in Holding => req[d].s # s
      BY <1>0, NothingAssumption DEF ImpInv, ReqOK, LockOK
    <3>6. Undisputed(c, s)
      BY <1>0, <2>3, <3>1, <3>2, <3>3, <3>5 DEF Undisputed, Same, Status, Removing
    <3>7. ReqOK(c)' /\ Clear(c)
      BY <1>0, <3>1 DEF ReqOK, LockOK, UploadOK, CommitOK, EndOK, Clear, Holding, Committing, Removing
    <3>8. FilesKnown(s)'
      BY <1>0, <2>1, <2>3, <2>4, <3>2, <3>3 DEF SessOK, FilesKnown, Status
    <3> QED BY <1>0, <3>1, <3>2, <3>4, <3>6, <3>7, <3>8, PlainStep DEF Status, Removing
  <2>5. CASE x \notin ContentsOf(m)
    <3>1. PICK p \in {"write", "store"} : Hold(c, Upload(p, s, x)) /\ UNCHANGED <<sess, acks>>
          /\ \/ p = "write" /\ staged' = [staged EXCEPT ![s][x] = Cut]
             \/ UNCHANGED staged
      BY <1>2, <2>5 DEF UploadBegins, m
    <3> DEFINE r == Upload(p, s, x)
    <3>2. /\ r \in Reqs /\ r.s = s /\ r.pc = p /\ r.x = x /\ Hold(c, r)
      BY <3>1, NoReqFacts DEF NoReq, Reqs, Holding, Upload
    <3> HIDE DEF r
    <3>8. /\ staged' \in [Sessions -> [Contents -> Contents \union {Nothing, Cut}]]
          /\ \A o \in Sessions \ {s} : staged'[o] = staged[o]
          /\ \A y \in Contents : staged'[s][y] = staged[s][y] \/ (y = x /\ p = "write" /\ staged'[s][y] = Cut)
      <4>1. CASE p = "write" /\ staged' = [staged EXCEPT ![s][x] = Cut]
        <5>1. staged[s] \in [Contents -> Contents \union {Nothing, Cut}]
          BY <1>0 DEF ImpTypes
        <5>2. staged' = [staged EXCEPT ![s] = [staged[s] EXCEPT ![x] = Cut]]
          BY <4>1
        <5>3. [staged[s] EXCEPT ![x] = Cut] \in [Contents -> Contents \union {Nothing, Cut}]
          BY <5>1
        <5>4. /\ \A o \in Sessions \ {s} : staged'[o] = staged[o]
              /\ staged'[s] = [staged[s] EXCEPT ![x] = Cut]
              /\ staged' \in [Sessions -> [Contents -> Contents \union {Nothing, Cut}]]
          BY <1>0, <5>2, <5>3 DEF ImpTypes
        <5> QED BY <4>1, <5>1, <5>4
      <4>2. CASE UNCHANGED staged
        BY <1>0, <4>2 DEF ImpTypes
      <4> QED BY <3>1, <4>1, <4>2
    <3>3. /\ req' \in [Workers -> Reqs] /\ holder' \in [Sessions -> Workers \union {Nothing}]
          /\ req'[c] = r /\ holder'[s] = c
          /\ \A d \in Workers \ {c} : req'[d] = req[d] /\ (req[d].pc \in Holding => req[d].s # s)
          /\ \A o \in Sessions \ {s} : holder'[o] = holder[o]
      BY <1>0, <3>1, <3>2, Held
    <3>4. ImpTypes'
      BY <1>0, <2>3, <3>1, <3>3, <3>8 DEF ImpTypes, RowsTyped, Status
    <3>5. Undisputed(c, s)
      BY <1>0, <2>3, <3>1, <3>3, <3>8 DEF Undisputed, Same, Status, Removing
    <3>6. ReqOK(c)' /\ Clear(c)
      <4>1. r.pc \notin Committing /\ r.pc \notin Removing /\ r.pc \notin {"clean", "wait", "publish"}
        BY <3>2 DEF Committing, Removing
      <4>2. x \notin acks'[s] /\ Status(s)' = Status(s) /\ Status(s) \notin Closed \union {"none"}
        BY <1>0, <1>2, <2>1, <2>5, <3>1 DEF Status
      <4>3. LockOK(c)' /\ EndOK(c)' /\ Clear(c)
        BY <3>2, <3>3, <4>1 DEF LockOK, EndOK, Clear
      <4>4. UploadOK(c)'
        BY <1>2, <2>3, <3>2, <3>3, <4>1, <4>2 DEF UploadOK
      <4>5. CommitOK(c)'
        BY <3>2, <3>3 DEF CommitOK, Committing, Removing
      <4> QED BY <4>3, <4>4, <4>5 DEF ReqOK
    <3>7. FilesKnown(s)'
      BY <1>0, <2>1, <2>3, <3>1 DEF SessOK, FilesKnown, Status
    <3>9. StagingOK(s)'
      <4> SUFFICES ASSUME NEW y \in Contents
                   PROVE  /\ staged'[s][y] \in {Nothing, Cut, y}
                          /\ staged'[s][y] = Cut /\ y \notin broken[s] =>
                               \E d \in Requests : req'[d].pc = "write" /\ req'[d].s = s /\ req'[d].x = y
        BY <1>0 DEF StagingOK
      <4>1. CASE y = x /\ p = "write" /\ staged'[s][y] = Cut
        BY <3>2, <3>3, <4>1
      <4>2. CASE staged'[s][y] = staged[s][y]
        <5>1. StagingOK(s)
          BY DEF ImpInv
        <5>2. ASSUME staged[s][y] = Cut, y \notin broken[s]
              PROVE  \E d \in Requests : req'[d].pc = "write" /\ req'[d].s = s /\ req'[d].x = y
          <6>1. PICK d \in Requests : req[d].pc = "write" /\ req[d].s = s /\ req[d].x = y
            BY <5>1, <5>2 DEF StagingOK
          <6> QED BY <1>0, <3>3, <6>1 DEF Workers
        <5> QED BY <4>2, <5>1, <5>2 DEF StagingOK
      <4> QED BY <3>8, <4>1, <4>2
    <3>10. Staged(c, s) /\ \A n \in NameSet : ~Undoes(c, n)
      BY <1>0, <3>9 DEF Staged, Undoes, Removing
    <3> QED BY <1>0, <3>1, <3>4, <3>5, <3>6, <3>7, <3>10, QuietStep DEF Status
  <2> QED BY <2>4, <2>5
<1> QED BY <1>1, <1>2

LEMMA OnlyHolder ==
  ASSUME ImpInv, NEW c \in Workers, req[c].pc \in Holding
  PROVE  /\ req[c].s \in Sessions /\ holder[req[c].s] = c
         /\ \A d \in Workers \ {c} : req[d].pc \in Holding => req[d].s # req[c].s
  BY DEF ImpInv, ReqOK, LockOK

\* A request that only moves to its next step.
LEMMA Advanced ==
  ASSUME ImpInv, NEW c \in Workers, NEW p \in Holding, req' = [req EXCEPT ![c].pc = p]
  PROVE  /\ req' \in [Workers -> Reqs] /\ req'[c].pc = p /\ req'[c].s = req[c].s
         /\ req'[c].files = req[c].files /\ req'[c].copied = req[c].copied
         /\ req'[c].left = req[c].left /\ req'[c].to = req[c].to /\ req'[c].x = req[c].x
         /\ \A d \in Workers \ {c} : req'[d] = req[d]
<1>1. req \in [Workers -> Reqs]
  BY DEF ImpInv, ImpTypes
<1> DEFINE q == [req[c] EXCEPT !.pc = p]
<1>2. /\ q \in Reqs /\ q.pc = p /\ q.s = req[c].s /\ q.files = req[c].files /\ q.copied = req[c].copied
      /\ q.left = req[c].left /\ q.to = req[c].to /\ q.x = req[c].x
  BY <1>1 DEF Reqs
<1>3. req' = [req EXCEPT ![c] = q]
  BY <1>1
<1> HIDE DEF q
<1> QED BY <1>1, <1>2, <1>3

\* The bytes of an upload are written, or the write breaks off.
LEMMA UploadWritesKeeps ==
  ASSUME ImpInv, NEW c \in Requests, UploadWrites(c)
  PROVE  ImpInv'
<1>0. /\ c \in Workers /\ ImpTypes /\ req[c] \in Reqs /\ req[c].pc = "write" /\ req[c].pc \in Holding
      /\ UNCHANGED <<sess, ram, manifest, lib, imported, acks, done, put, torn>>
  BY DEF Workers, ImpInv, ImpTypes, UploadWrites, Holding
<1>1. PICK s \in Sessions :
        s = req[c].s /\ holder[s] = c /\ \A d \in Workers \ {c} : req[d].pc \in Holding => req[d].s # s
  BY <1>0, OnlyHolder
<1>2. PICK x \in Contents : x = req[c].x /\ Status(s) \notin Closed \union {"none"} /\ ram[s] # Nothing
  BY <1>0, <1>1 DEF ImpInv, ReqOK, UploadOK
<1>3. /\ FilesKnown(s)' /\ Status(s)' = Status(s) /\ RowsTyped' /\ StagingOK(s)
      /\ \A n \in NameSet : ~Undoes(c, n)
  BY <1>0 DEF ImpInv, ImpTypes, RowsTyped, SessOK, FilesKnown, Status, Undoes, Removing
<1>4. CASE /\ staged' = [staged EXCEPT ![req[c].s][req[c].x] = req[c].x]
           /\ req' = [req EXCEPT ![c].pc = "store"] /\ UNCHANGED <<holder, broken>>
  <2>1. /\ req' \in [Workers -> Reqs] /\ req'[c].pc = "store" /\ req'[c].s = s /\ req'[c].x = x
        /\ \A d \in Workers \ {c} : req'[d] = req[d]
    BY <1>0, <1>1, <1>2, <1>4, Advanced DEF Holding
  <2>2. /\ staged' \in [Sessions -> [Contents -> Contents \union {Nothing, Cut}]]
        /\ (\A o \in Sessions \ {s} : staged'[o] = staged[o])
        /\ staged'[s] = [staged[s] EXCEPT ![x] = x] /\ staged[s] \in [Contents -> Contents \union {Nothing, Cut}]
    <3>1. staged[s] \in [Contents -> Contents \union {Nothing, Cut}]
      BY <1>0 DEF ImpTypes
    <3>2. staged' = [staged EXCEPT ![s] = [staged[s] EXCEPT ![x] = x]]
      BY <1>1, <1>2, <1>4
    <3>3. [staged[s] EXCEPT ![x] = x] \in [Contents -> Contents \union {Nothing, Cut}]
      BY <3>1
    <3> QED BY <1>0, <3>1, <3>2, <3>3 DEF ImpTypes
  <2>3. ImpTypes'
    BY <1>0, <1>3, <1>4, <2>1, <2>2 DEF ImpTypes
  <2>4. Undisputed(c, s)
    BY <1>0, <1>1, <1>3, <1>4, <2>1, <2>2 DEF Undisputed, Same
  <2>5. StagingOK(s)'
    <3> SUFFICES ASSUME NEW y \in Contents
                 PROVE  /\ staged'[s][y] \in {Nothing, Cut, y}
                        /\ staged'[s][y] = Cut /\ y \notin broken[s] =>
                             \E d \in Requests : req'[d].pc = "write" /\ req'[d].s = s /\ req'[d].x = y
      BY <1>4 DEF StagingOK
    <3>1. CASE y = x
      BY <2>2, <3>1, ImportAssumption
    <3>2. CASE y # x
      <4>1. staged'[s][y] = staged[s][y]
        BY <2>2, <3>2
      <4>2. ASSUME staged[s][y] = Cut, y \notin broken[s]
            PROVE  \E d \in Requests : req'[d].pc = "write" /\ req'[d].s = s /\ req'[d].x = y
        <5>1. PICK d \in Requests : req[d].pc = "write" /\ req[d].s = s /\ req[d].x = y
          BY <1>3, <4>2 DEF StagingOK
        <5> QED BY <1>2, <2>1, <3>2, <5>1 DEF Workers
      <4> QED BY <1>3, <4>1, <4>2 DEF StagingOK
    <3> QED BY <3>1, <3>2
  <2>6. ReqOK(c)' /\ Clear(c)
    BY <1>0, <1>1, <1>2, <1>3, <1>4, <2>1
    DEF ReqOK, LockOK, UploadOK, CommitOK, EndOK, Clear, Holding, Committing, Removing
  <2>7. Staged(c, s)
    BY <2>5 DEF Staged
  <2> QED BY <1>0, <1>1, <1>3, <2>3, <2>4, <2>6, <2>7, QuietStep
<1>5. CASE broken' = [broken EXCEPT ![req[c].s] = @ \union {req[c].x}] /\ Release(c) /\ UNCHANGED staged
  <2>1. /\ req' \in [Workers -> Reqs] /\ holder' \in [Sessions -> Workers \union {Nothing}]
        /\ \A d \in Workers \ {c} : req'[d] = req[d] /\ (req[d].pc \in Holding => req[d].s # s)
        /\ \A o \in Sessions \ {s} : holder'[o] = holder[o]
        /\ ReqOK(c)' /\ Clear(c)
    BY <1>0, <1>1, <1>5, Released
  <2>2. /\ broken' \in [Sessions -> SUBSET Contents] /\ broken'[s] = broken[s] \union {x}
        /\ \A o \in Sessions \ {s} : broken'[o] = broken[o]
    BY <1>0, <1>1, <1>2, <1>5 DEF ImpTypes
  <2>3. ImpTypes'
    BY <1>0, <1>3, <1>5, <2>1, <2>2 DEF ImpTypes
  <2>4. Undisputed(c, s)
    BY <1>0, <1>1, <1>3, <1>5, <2>1, <2>2 DEF Undisputed, Same
  <2>5. StagingOK(s)'
    <3> SUFFICES ASSUME NEW y \in Contents, staged[s][y] = Cut, y \notin broken'[s]
                 PROVE  \E d \in Requests : req'[d].pc = "write" /\ req'[d].s = s /\ req'[d].x = y
      BY <1>3, <1>5 DEF StagingOK
    <3>1. PICK d \in Requests : req[d].pc = "write" /\ req[d].s = s /\ req[d].x = y
      BY <1>3, <2>2 DEF StagingOK
    <3>2. d # c
      BY <1>2, <2>2, <3>1
    <3> QED BY <2>1, <3>1, <3>2 DEF Workers
  <2>6. Staged(c, s)
    BY <2>5 DEF Staged
  <2> QED BY <1>0, <1>1, <1>3, <2>1, <2>3, <2>4, <2>6, QuietStep
<1> QED BY <1>4, <1>5 DEF UploadWrites

LEMMA UploadStoresKeeps ==
  ASSUME ImpInv, NEW c \in Requests, UploadStores(c)
  PROVE  ImpInv'
<1>0. /\ c \in Workers /\ ImpTypes /\ req[c] \in Reqs /\ req[c].pc = "store" /\ req[c].pc \in Holding
      /\ UNCHANGED <<ram, staged, lib, imported, holder, acks, done, put, torn, broken>>
  BY DEF Workers, ImpInv, ImpTypes, UploadStores, Holding
<1>1. PICK s \in Sessions :
        s = req[c].s /\ holder[s] = c /\ \A d \in Workers \ {c} : req[d].pc \in Holding => req[d].s # s
  BY <1>0, OnlyHolder
<1> DEFINE x == req[c].x
           m == [ram[s] EXCEPT ![SafeName(ram[s], x)] = x]
           q == [req[c] EXCEPT !.pc = "publish", !.files = m]
<1>2. Status(s) \notin Closed \union {"none"} /\ ram[s] # Nothing /\ x \in Contents
  BY <1>0, <1>1 DEF ImpInv, ReqOK, UploadOK
<1>3. /\ ram[s] \in Maps /\ HashNamed(ram[s]) /\ acks[s] \subseteq ContentsOf(ram[s]) /\ SessOK(s)
  BY <1>0, <1>1, <1>2 DEF ImpInv, ImpTypes, SessOK, FilesKnown
<1>4. m \in Maps /\ HashNamed(m) /\ ContentsOf(ram[s]) \union {x} \subseteq ContentsOf(m)
  BY <1>2, <1>3, SafeNameFacts
<1>5. /\ set_import_session_status(s, "uploading")
      /\ manifest' = [manifest EXCEPT ![s] = m]
      /\ req' = [req EXCEPT ![c] = q]
  BY <1>0, <1>1 DEF UploadStores, save_manifest
<1> HIDE DEF m
<1>6. RowsTyped' /\ (\A o \in Sessions \ {s} : sess'[o] = sess[o]) /\ Status(s)' = "uploading"
  BY <1>0, <1>1, <1>2, <1>5, StatusSet DEF Statuses, Status
<1>7. /\ manifest' \in [Sessions -> Maps \union {Nothing}] /\ manifest'[s] = m
      /\ \A o \in Sessions \ {s} : manifest'[o] = manifest[o]
  BY <1>0, <1>1, <1>4, <1>5 DEF ImpTypes
<1>8. q \in Reqs /\ q.pc = "publish" /\ q.s = s /\ q.files = m /\ q.x = x
  BY <1>0, <1>1, <1>4 DEF Reqs, Holding
<1> HIDE DEF q
<1>9. req' \in [Workers -> Reqs] /\ req'[c] = q /\ \A d \in Workers \ {c} : req'[d] = req[d]
  BY <1>0, <1>5, <1>8 DEF ImpTypes
<1>10. ImpTypes'
  BY <1>0, <1>6, <1>7, <1>9 DEF ImpTypes
<1>11. Undisputed(c, s)
  BY <1>0, <1>1, <1>6, <1>7, <1>9 DEF Undisputed, Same
<1>12. ReqOK(c)' /\ Clear(c)
  BY <1>0, <1>1, <1>2, <1>4, <1>6, <1>7, <1>8, <1>9
  DEF ReqOK, LockOK, UploadOK, CommitOK, EndOK, Clear, Holding, Committing, Removing, Status, Closed
<1>13. FilesKnown(s)'
  BY <1>0, <1>2, <1>3, <1>4, <1>6, <1>7, NothingAssumption DEF SessOK, FilesKnown, Status, Maps
<1> QED
  <2>1. Status(s) # "committed"
    BY <1>2 DEF Closed
  <2> QED BY <1>0, <1>1, <1>10, <1>11, <1>12, <1>13, <2>1, PlainStep DEF Removing

LEMMA UploadEndsKeeps ==
  ASSUME ImpInv, NEW c \in Requests, UploadEnds(c)
  PROVE  ImpInv'
<1> DEFINE x == req[c].x
           m == req[c].files
<1>0. /\ c \in Workers /\ ImpTypes /\ req[c] \in Reqs /\ req[c].pc = "publish" /\ req[c].pc \in Holding
      /\ UNCHANGED <<manifest, staged, lib, imported, done, put, torn, broken>> /\ Release(c)
  BY DEF Workers, ImpInv, ImpTypes, UploadEnds, Holding
<1>1. PICK s \in Sessions :
      /\ req' \in [Workers -> Reqs] /\ holder' \in [Sessions -> Workers \union {Nothing}]
      /\ s = req[c].s /\ req'[c] = NoReq /\ holder'[s] = Nothing
      /\ \A d \in Workers \ {c} : req'[d] = req[d] /\ (req[d].pc \in Holding => req[d].s # s)
      /\ \A o \in Sessions \ {s} : holder'[o] = holder[o]
      /\ ReqOK(c)' /\ Clear(c)
  BY <1>0, Released
<1>2. /\ Status(s) \notin Closed \union {"none"} /\ ram[s] # Nothing /\ x \in Contents
      /\ manifest[s] = m /\ HashNamed(m) /\ ContentsOf(ram[s]) \union {x} \subseteq ContentsOf(m)
  BY <1>0, <1>1 DEF ImpInv, ReqOK, UploadOK
<1>3. acks[s] \subseteq ContentsOf(ram[s]) /\ SessOK(s) /\ m \in Maps
  BY <1>0, <1>1, <1>2 DEF ImpInv, SessOK, FilesKnown, Reqs
<1>4. /\ ram' = [ram EXCEPT ![s] = m]
      /\ sess' = [sess EXCEPT ![s].count = Cardinality(FilesOf(m))]
      /\ acks' = [acks EXCEPT ![s] = @ \union {x}]
  BY <1>1 DEF UploadEnds
<1> HIDE DEF m, x
<1>5. RowsTyped' /\ \A o \in Sessions : sess'[o].status = sess[o].status /\ (o # s => sess'[o] = sess[o])
  BY <1>0, <1>1, <1>4, CountSet
<1>6. /\ ram' \in [Sessions -> Maps \union {Nothing}] /\ ram'[s] = m
      /\ acks' \in [Sessions -> SUBSET Contents] /\ acks'[s] = acks[s] \union {x}
      /\ \A o \in Sessions \ {s} : ram'[o] = ram[o] /\ acks'[o] = acks[o]
  BY <1>0, <1>1, <1>2, <1>3, <1>4 DEF ImpTypes
<1>7. ImpTypes'
  BY <1>0, <1>1, <1>5, <1>6 DEF ImpTypes
<1>8. Undisputed(c, s)
  BY <1>0, <1>1, <1>5, <1>6 DEF Undisputed, Same, Status
<1>9. FilesKnown(s)'
  BY <1>0, <1>1, <1>2, <1>3, <1>5, <1>6 DEF SessOK, FilesKnown, Status
<1> QED
  <2>1. Status(s) # "committed"
    BY <1>2 DEF Closed
  <2> QED BY <1>0, <1>1, <1>7, <1>8, <1>9, <2>1, PlainStep DEF Removing

LEMMA CommitBeginsKeeps ==
  ASSUME "collide" \notin Disturbances, ImpInv, NEW c \in Requests, NEW s \in Sessions, CommitBegins(c, s)
  PROVE  ImpInv'
<1> DEFINE m == get_or_recover_session(s)
<1>0. /\ c \in Workers /\ ImpTypes /\ SessOK(s) /\ req[c].pc = "idle"
      /\ Status(s) # "none" /\ holder[s] = Nothing
      /\ UNCHANGED <<manifest, staged, lib, imported, acks, done, put, torn, broken>>
  BY DEF Workers, ImpInv, CommitBegins, Locks, Status
<1>1. CASE sess[s].status \in Closed \union {"failed"} \/ m = Nothing
  BY <1>1, NothingChanges DEF CommitBegins, Refused
<1>2. CASE sess[s].status \notin Closed \union {"failed"} /\ m # Nothing
  <2> DEFINE r == [NoReq EXCEPT !.op = "commit", !.pc = "validate", !.s = s, !.files = m]
  <2>1. /\ m \in Maps /\ HashNamed(m) /\ manifest[s] # Nothing
        /\ ContentsOf(m) \subseteq ContentsOf(manifest[s]) /\ acks[s] \subseteq ContentsOf(m)
    BY <1>2, Recovered DEF Status
  <2>2. ram' = [ram EXCEPT ![s] = m] /\ set_import_session_status(s, "committing") /\ Hold(c, r) /\ ~Rivals(c, m)
    BY <1>2 DEF CommitBegins
  <2> HIDE DEF m
  <2>3. /\ ram' \in [Sessions -> Maps \union {Nothing}] /\ ram'[s] = m
        /\ \A o \in Sessions \ {s} : ram'[o] = ram[o]
    BY <1>0, <2>1, <2>2 DEF ImpTypes
  <2>4. RowsTyped' /\ (\A o \in Sessions \ {s} : sess'[o] = sess[o]) /\ Status(s)' = "committing"
    BY <1>0, <1>2, <2>2, StatusSet DEF Statuses, Status
  <2>5. r \in Reqs /\ r.s = s /\ r.pc = "validate" /\ r.files = m /\ r.copied = {}
    BY <2>1, NoReqFacts DEF NoReq, Reqs, Holding, Committing
  <2> HIDE DEF r
  <2>6. /\ req' \in [Workers -> Reqs] /\ holder' \in [Sessions -> Workers \union {Nothing}]
        /\ req'[c] = r /\ holder'[s] = c
        /\ \A d \in Workers \ {c} : req'[d] = req[d] /\ (req[d].pc \in Holding => req[d].s # s)
        /\ \A o \in Sessions \ {s} : holder'[o] = holder[o]
    BY <1>0, <2>2, <2>5, Held
  <2>7. ImpTypes'
    BY <1>0, <2>3, <2>4, <2>6 DEF ImpTypes
  <2>8. Undisputed(c, s)
    BY <1>0, <2>3, <2>4, <2>6 DEF Undisputed, Same, Removing
  <2>9. ReqOK(c)'
    BY <1>0, <2>1, <2>3, <2>4, <2>5, <2>6
    DEF ReqOK, LockOK, UploadOK, CommitOK, EndOK, Holding, Committing, Removing, Status
  <2>10. Clear(c)
    BY <2>2, <2>5, <2>6 DEF Clear, Rivals, Committing, Removing
  <2>11. FilesKnown(s)'
    BY <1>0, <1>2, <2>1, <2>3, <2>4 DEF SessOK, FilesKnown, Status
  <2>12. Status(s) # "committed"
    BY <1>2 DEF Closed, Status
  <2> QED BY <1>0, <2>7, <2>8, <2>9, <2>10, <2>11, <2>12, PlainStep DEF Removing
<1> QED BY <1>1, <1>2

\* Step 1 of a commit.
LEMMA CommitValidatesKeeps ==
  ASSUME ImpInv, NEW c \in Requests, CommitValidates(c)
  PROVE  ImpInv'
<1> DEFINE clash == \E n \in FilesOf(req[c].files) : lib[n] \notin {Nothing, req[c].files[n]}
<1>0. /\ c \in Workers /\ ImpTypes /\ req[c] \in Reqs /\ req[c].pc = "validate" /\ req[c].pc \in Holding
      /\ UNCHANGED <<ram, manifest, staged, lib, imported, acks, done, put, torn, broken>> /\ CommitOK(c)
  BY DEF Workers, ImpInv, ImpTypes, CommitValidates, Holding, Committing, ReqOK
<1>1. CASE clash
  <2>0. set_import_session_status(req[c].s, "failed") /\ Release(c)
    BY <1>1 DEF CommitValidates
  <2>1. PICK s \in Sessions :
        /\ req' \in [Workers -> Reqs] /\ holder' \in [Sessions -> Workers \union {Nothing}]
        /\ s = req[c].s /\ req'[c] = NoReq /\ holder'[s] = Nothing
        /\ \A d \in Workers \ {c} : req'[d] = req[d] /\ (req[d].pc \in Holding => req[d].s # s)
        /\ \A o \in Sessions \ {s} : holder'[o] = holder[o]
        /\ ReqOK(c)' /\ Clear(c)
    BY <1>0, <2>0, Released
  <2>2. Status(s) = "committing" /\ SessOK(s)
    BY <1>0, <2>1 DEF CommitOK, Committing, ImpInv
  <2>3. RowsTyped' /\ (\A o \in Sessions \ {s} : sess'[o] = sess[o]) /\ Status(s)' = "failed"
    BY <1>0, <2>0, <2>1, <2>2, StatusSet DEF Statuses, Status, Closed
  <2>4. ImpTypes'
    BY <1>0, <2>1, <2>3 DEF ImpTypes
  <2>5. Undisputed(c, s)
    BY <1>0, <2>1, <2>3 DEF Undisputed, Same
  <2>6. FilesKnown(s)'
    BY <1>0, <2>2, <2>3 DEF SessOK, FilesKnown, Status, Closed
  <2> QED BY <1>0, <2>1, <2>2, <2>4, <2>5, <2>6, PlainStep DEF Removing
<1>2. CASE ~clash
  <2>0. StartCopying(c) /\ UNCHANGED <<sess, holder>>
    BY <1>2 DEF CommitValidates
  <2>1. PICK s \in Sessions :
          s = req[c].s /\ holder[s] = c /\ \A d \in Workers \ {c} : req[d].pc \in Holding => req[d].s # s
    BY <1>0, OnlyHolder
  <2> DEFINE all == FilesOf(req[c].files)
             q == [req[c] EXCEPT !.pc = Onward(all), !.left = all]
  <2>2. /\ q \in Reqs /\ q.pc \in {"copy", "upsert"} /\ (q.pc = "upsert" => all = {})
        /\ q.s = s /\ q.files = req[c].files /\ q.left = all /\ q.copied = req[c].copied /\ q.copied = {}
    <3>1. Onward(all) \in {"copy", "upsert"} /\ (Onward(all) = "upsert" => all = {}) /\ all \in SUBSET NameSet
      BY DEF Onward, FilesOf
    <3>2. req[c].copied = {}
      BY <1>0 DEF CommitOK
    <3> HIDE DEF all
    <3> QED BY <1>0, <2>1, <3>1, <3>2 DEF Reqs, Holding, Committing, Removing
  <2>3. req' = [req EXCEPT ![c] = q]
    BY <2>0 DEF StartCopying
  <2> HIDE DEF q
  <2>4. req' \in [Workers -> Reqs] /\ req'[c] = q /\ \A d \in Workers \ {c} : req'[d] = req[d]
    BY <1>0, <2>2, <2>3 DEF ImpTypes
  <2>5. ImpTypes'
    BY <1>0, <2>0, <2>4 DEF ImpTypes, RowsTyped, Status
  <2>6. Undisputed(c, s)
    BY <1>0, <2>0, <2>1, <2>4 DEF Undisputed, Same, Status, Removing
  <2>7. CommitOK(c)'
    <3>1. /\ Status(s)' = "committing" /\ acks'[s] \subseteq ContentsOf(q.files)
          /\ \A n \in all : lib'[n] \in {Nothing, q.files[n]}
      BY <1>0, <1>2, <2>0, <2>1, <2>2 DEF CommitOK, Committing, Status
    <3>2. \A n \in NameSet : ~Undoes(c, n)'
      BY <2>2, <2>4 DEF Undoes
    <3> HIDE DEF all
    <3> QED BY <2>2, <2>4, <3>1, <3>2 DEF CommitOK, Committing, Removing, all
  <2>8. ReqOK(c)'
    BY <1>0, <2>0, <2>1, <2>2, <2>4, <2>7 DEF ReqOK, LockOK, UploadOK, EndOK
  <2>9. Clear(c)
    BY <1>0, <2>2, <2>4 DEF Clear, ImpInv, Apart, Committing
  <2>10. FilesKnown(s)' /\ Status(s)' = Status(s)
    BY <1>0, <2>0 DEF ImpInv, SessOK, FilesKnown, Status
  <2> HIDE DEF all
  <2> QED BY <1>0, <2>1, <2>5, <2>6, <2>8, <2>9, <2>10, PlainStep DEF Removing
<1> QED BY <1>1, <1>2

LEMMA RollbackBeginsKeeps ==
  ASSUME ImpInv, NEW c \in Requests, NEW s \in Sessions, RollbackBegins(c, s)
  PROVE  ImpInv'
<1>0. /\ c \in Workers /\ ImpTypes /\ SessOK(s) /\ req[c].pc = "idle"
      /\ Status(s) # "none" /\ holder[s] = Nothing
      /\ UNCHANGED <<manifest, staged, lib, imported, acks, done, put, torn, broken>>
  BY DEF Workers, ImpInv, RollbackBegins, Locks, Status
<1>1. CASE sess[s].status \in Closed
  BY <1>1, NothingChanges DEF RollbackBegins, Refused
<1>2. CASE sess[s].status \notin Closed
  <2> DEFINE r == [NoReq EXCEPT !.op = "rollback", !.pc = "clean", !.s = s]
  <2>1. ram' = [ram EXCEPT ![s] = Nothing] /\ set_import_session_status(s, "rolled_back") /\ Hold(c, r)
    BY <1>2 DEF RollbackBegins
  <2>2. /\ ram' \in [Sessions -> Maps \union {Nothing}] /\ ram'[s] = Nothing
        /\ \A o \in Sessions \ {s} : ram'[o] = ram[o]
    BY <1>0, <2>1 DEF ImpTypes
  <2>3. RowsTyped' /\ (\A o \in Sessions \ {s} : sess'[o] = sess[o]) /\ Status(s)' = "rolled_back"
    BY <1>0, <1>2, <2>1, StatusSet DEF Statuses, Status, Closed
  <2>4. r \in Reqs /\ r.s = s /\ r.pc = "clean"
    BY NoReqFacts DEF NoReq, Reqs, Holding
  <2> HIDE DEF r
  <2>5. /\ req' \in [Workers -> Reqs] /\ holder' \in [Sessions -> Workers \union {Nothing}]
        /\ req'[c] = r /\ holder'[s] = c
        /\ \A d \in Workers \ {c} : req'[d] = req[d] /\ (req[d].pc \in Holding => req[d].s # s)
        /\ \A o \in Sessions \ {s} : holder'[o] = holder[o]
    BY <1>0, <2>1, <2>4, Held
  <2>6. ImpTypes'
    BY <1>0, <2>2, <2>3, <2>5 DEF ImpTypes
  <2>7. Undisputed(c, s)
    BY <1>0, <2>2, <2>3, <2>5 DEF Undisputed, Same, Removing
  <2>8. ReqOK(c)' /\ Clear(c)
    BY <2>3, <2>4, <2>5
    DEF ReqOK, LockOK, UploadOK, CommitOK, EndOK, Clear, Holding, Committing, Removing, Status, Closed
  <2>9. FilesKnown(s)'
    BY <1>0, <2>2, <2>3 DEF SessOK, FilesKnown, Status, Closed
  <2>10. Status(s) # "committed"
    BY <1>2 DEF Closed, Status
  <2> QED BY <1>0, <2>6, <2>7, <2>8, <2>9, <2>10, PlainStep DEF Removing
<1> QED BY <1>1, <1>2

LEMMA CleanKeeps ==
  ASSUME ImpInv, NEW c \in Workers, CleanSession(c)
  PROVE  ImpInv'
<1>0. /\ ImpTypes /\ req[c].pc = "clean" /\ req[c].pc \in Holding /\ Release(c)
      /\ UNCHANGED <<sess, lib, imported, acks, done, put, torn, broken>>
  BY DEF ImpInv, CleanSession, Holding
<1>1. PICK s \in Sessions :
      /\ req' \in [Workers -> Reqs] /\ holder' \in [Sessions -> Workers \union {Nothing}]
      /\ s = req[c].s /\ req'[c] = NoReq /\ holder'[s] = Nothing
      /\ \A d \in Workers \ {c} : req'[d] = req[d] /\ (req[d].pc \in Holding => req[d].s # s)
      /\ \A o \in Sessions \ {s} : holder'[o] = holder[o]
      /\ ReqOK(c)' /\ Clear(c)
  BY <1>0, Released
<1>2. Status(s) \in Closed /\ SessOK(s)
  BY <1>0, <1>1 DEF ImpInv, ReqOK, EndOK
<1>3. /\ ram' \in [Sessions -> Maps \union {Nothing}] /\ ram'[s] = Nothing
      /\ manifest' \in [Sessions -> Maps \union {Nothing}] /\ manifest'[s] = Nothing
      /\ \A o \in Sessions \ {s} : ram'[o] = ram[o] /\ manifest'[o] = manifest[o]
  BY <1>0, <1>1 DEF ImpTypes, CleanSession
<1>8. /\ staged' \in [Sessions -> [Contents -> Contents \union {Nothing, Cut}]]
      /\ staged'[s] = NoStaging /\ \A o \in Sessions \ {s} : staged'[o] = staged[o]
  BY <1>0, <1>1 DEF ImpTypes, CleanSession, NoStaging
<1>4. ImpTypes'
  BY <1>0, <1>1, <1>3, <1>8 DEF ImpTypes, RowsTyped, Status
<1>5. Undisputed(c, s)
  BY <1>0, <1>1, <1>3, <1>8 DEF Undisputed, Same, Status, Removing
<1>6. FilesKnown(s)'
  BY <1>0, <1>2, <1>3 DEF SessOK, FilesKnown, Status
<1>7. Status(s)' = Status(s)
  BY <1>0 DEF Status
<1>9. Staged(c, s) /\ \A n \in NameSet : ~Undoes(c, n)
  BY <1>0, <1>8, ImportAssumption DEF Staged, StagingOK, NoStaging, Undoes, Removing
<1> QED BY <1>0, <1>1, <1>4, <1>5, <1>6, <1>7, <1>9, QuietStep

LEMMA JanitorListsKeeps ==
  ASSUME ImpInv, JanitorLists
  PROVE  ImpInv'
<1> DEFINE j == "janitor"
<1>0. /\ j \in Workers /\ ImpTypes /\ req[j].pc = "idle"
      /\ UNCHANGED <<sess, ram, manifest, staged, lib, imported, holder, acks, done, put, torn, broken>>
  BY DEF Workers, ImpInv, JanitorLists
<1>1. PICK s \in Sessions :
        /\ sess[s].status \notin Closed \union {"none"}
        /\ req' = [req EXCEPT ![j] = [NoReq EXCEPT !.op = "expire", !.pc = "wait", !.s = s]]
  BY DEF JanitorLists
<1> DEFINE r == [NoReq EXCEPT !.op = "expire", !.pc = "wait", !.s = s]
<1>2. r \in Reqs /\ r.s = s /\ r.pc = "wait"
  BY NoReqFacts DEF NoReq, Reqs
<1> HIDE DEF r
<1>3. req' \in [Workers -> Reqs] /\ req'[j] = r /\ \A d \in Workers \ {j} : req'[d] = req[d]
  BY <1>0, <1>1, <1>2 DEF ImpTypes, r
<1>4. ImpTypes'
  BY <1>0, <1>3 DEF ImpTypes, RowsTyped, Status
<1>5. Undisputed(j, s)
  BY <1>0, <1>3 DEF Undisputed, Same, Status, Removing
<1>6. ReqOK(j)' /\ Clear(j)
  BY <1>0, <1>1, <1>2, <1>3 DEF ReqOK, LockOK, UploadOK, CommitOK, EndOK, Clear, Holding, Committing, Removing, Status
<1>7. FilesKnown(s)'
  BY <1>0 DEF ImpInv, SessOK, FilesKnown, Status
<1>8. Status(s)' = Status(s)
  BY <1>0 DEF Status
<1> HIDE DEF j
<1> QED BY <1>0, <1>4, <1>5, <1>6, <1>7, <1>8, PlainStep DEF Removing

LEMMA JanitorExpiresKeeps ==
  ASSUME ImpInv, JanitorExpires
  PROVE  ImpInv'
<1> DEFINE j == "janitor"
           r == [req[j] EXCEPT !.pc = "clean"]
<1>0. /\ j \in Workers /\ ImpTypes /\ req[j] \in Reqs /\ req[j].pc = "wait"
      /\ UNCHANGED <<ram, manifest, staged, lib, imported, acks, done, put, torn, broken>>
  BY DEF Workers, ImpInv, ImpTypes, JanitorExpires
<1>1. PICK s \in Sessions : s = req[j].s /\ Status(s) # "none" /\ holder[s] = Nothing /\ SessOK(s)
  BY <1>0 DEF ImpInv, ReqOK, EndOK, JanitorExpires
<1>2. set_import_session_status(s, "expired") /\ Hold(j, r)
  BY <1>1 DEF JanitorExpires, expire_import_session
<1>3. r \in Reqs /\ r.s = s /\ r.pc = "clean"
  BY <1>0, <1>1 DEF Reqs, Holding
<1> HIDE DEF r
<1>4. /\ RowsTyped' /\ \A o \in Sessions \ {s} : sess'[o] = sess[o]
      /\ Status(s)' \in Closed /\ (Status(s) = "committed" => Status(s)' = "committed")
  BY <1>0, <1>2, StatusSet DEF Statuses, Status, Closed
<1>5. /\ req' \in [Workers -> Reqs] /\ holder' \in [Sessions -> Workers \union {Nothing}]
      /\ req'[j] = r /\ holder'[s] = j
      /\ \A d \in Workers \ {j} : req'[d] = req[d] /\ (req[d].pc \in Holding => req[d].s # s)
      /\ \A o \in Sessions \ {s} : holder'[o] = holder[o]
  BY <1>0, <1>1, <1>2, <1>3, Held
<1>6. ImpTypes'
  BY <1>0, <1>4, <1>5 DEF ImpTypes
<1>7. Undisputed(j, s)
  BY <1>0, <1>4, <1>5 DEF Undisputed, Same, Closed, Removing
<1>8. ReqOK(j)' /\ Clear(j)
  BY <1>3, <1>4, <1>5 DEF ReqOK, LockOK, UploadOK, CommitOK, EndOK, Clear, Holding, Committing, Removing, Status
<1>9. FilesKnown(s)'
  BY <1>0, <1>1, <1>4 DEF SessOK, FilesKnown, Status, Closed
<1> HIDE DEF j
<1> QED BY <1>0, <1>4, <1>6, <1>7, <1>8, <1>9, PlainStep DEF Removing

\* A commit and the names of the others.
LEMMA NamesApart ==
  ASSUME ImpInv, NEW c \in Requests, req[c].pc \in Committing,
         NEW d \in Requests \ {c}, req[d].pc \in Committing, NEW n \in FilesOf(req[d].files)
  PROVE  n \notin FilesOf(req[c].files) /\ req[c].files[n] = Nothing
<1>1. n \notin FilesOf(req[c].files)
  BY DEF ImpInv, Apart
<1> QED BY <1>1 DEF FilesOf

\* Only the holder of a session's lock can answer for what the session copied.
LEMMA OnlyUndoer ==
  ASSUME ImpInv, NEW c \in Workers, req[c].pc \in Holding, NEW s \in Sessions, s = req[c].s,
         Status(s) # "committed", ~torn[s], NEW n \in Own(s), lib[n] # Nothing
  PROVE  Undoes(c, n) /\ c \in Requests
<1>1. PICK d \in Requests : req[d].s = s /\ Undoes(d, n)
  BY DEF ImpInv, SessOK, UndoneOK
<1>2. d = c
  BY <1>1, OnlyHolder DEF Holding, Committing, Workers, Undoes
<1> QED BY <1>1, <1>2

\* The steps of a commit that write to the library or the rows.
Writes(c) == CommitCopies(c) \/ CommitFills(c) \/ CommitUpserts(c)

LEMMA WritesFacts ==
  ASSUME ImpInv, NEW c \in Requests, Writes(c)
  PROVE  /\ c \in Workers /\ ImpTypes /\ req[c] \in Reqs /\ CommitOK(c)
         /\ req[c].pc \in Holding /\ req[c].pc \in Committing /\ req[c].pc \in Removing \ {"mark"}
         /\ UNCHANGED <<ram, manifest, staged, acks, done, broken>>
         /\ \E s \in Sessions :
              /\ s = req[c].s /\ holder[s] = c /\ Status(s) = "committing" /\ SessOK(s) /\ done[s] = NoFiles
              /\ \A d \in Workers \ {c} : req[d].pc \in Holding => req[d].s # s
         /\ \A n \in NameSet : Undoes(c, n) => n \in FilesOf(req[c].files) /\ Unpublished(n)
<1>1. /\ c \in Workers /\ ImpTypes /\ req[c] \in Reqs /\ CommitOK(c) /\ req[c].pc \in {"copy", "fill", "upsert"}
      /\ UNCHANGED <<ram, manifest, staged, acks, done, broken>>
  BY DEF Writes, Workers, ImpInv, ImpTypes, CommitCopies, CommitFills, CommitUpserts, ReqOK
<1>2. req[c].pc \in Holding /\ req[c].pc \in Committing /\ req[c].pc \in Removing \ {"mark"}
  BY <1>1 DEF Holding, Committing, Removing
<1>3. PICK s \in Sessions :
        s = req[c].s /\ holder[s] = c /\ \A d \in Workers \ {c} : req[d].pc \in Holding => req[d].s # s
  BY <1>1, <1>2, OnlyHolder
<1>4. Status(s) = "committing" /\ SessOK(s) /\ done[s] = NoFiles
  BY <1>1, <1>2, <1>3 DEF CommitOK, ImpInv, SessOK, DoneOK
<1>5. ASSUME NEW n \in NameSet, Undoes(c, n) PROVE n \in FilesOf(req[c].files) /\ Unpublished(n)
  BY <1>1, <1>2, <1>5 DEF CommitOK, Undoes
<1> QED BY <1>1, <1>2, <1>3, <1>4, <1>5

\* They touch only names of the commit that nobody has published.
LEMMA CommitTouches ==
  ASSUME ImpInv, NEW c \in Requests, Writes(c), NEW n \in NameSet, lib'[n] # lib[n] \/ imported'[n] # imported[n]
  PROVE  n \in FilesOf(req[c].files) /\ \A o \in Sessions : done[o][n] = Nothing
<1>0. /\ ImpTypes /\ req[c] \in Reqs /\ CommitOK(c) /\ req[c].pc \in Removing
      /\ \A k \in NameSet : Undoes(c, k) => k \in FilesOf(req[c].files) /\ Unpublished(k)
  BY WritesFacts
<1>1. CASE lib' = Without(req[c].copied) /\ UNCHANGED imported
  <2>1. n \in req[c].copied
    BY <1>0, <1>1 DEF Without, ImpTypes
  <2> QED BY <1>0, <2>1 DEF Undoes, Unpublished
<1>2. ASSUME NEW k \in req[c].left, lib[k] = Nothing, lib' = [lib EXCEPT ![k] = Cut], UNCHANGED imported
      PROVE  n \in FilesOf(req[c].files) /\ \A o \in Sessions : done[o][n] = Nothing
  <2>1. n = k /\ n \in FilesOf(req[c].files)
    BY <1>0, <1>2 DEF ImpTypes, CommitOK
  <2>2. \A o \in Sessions : done[o][n] = Nothing
    BY <1>2, <2>1, ImportAssumption DEF ImpInv, SessOK, DoneOK, FilesOf
  <2> QED BY <2>1, <2>2
<1>3. CASE req[c].pc = "fill" /\ UNCHANGED imported /\ \E v : lib' = [lib EXCEPT ![req[c].to] = v]
  <2>1. n = req[c].to
    BY <1>0, <1>3 DEF ImpTypes
  <2> QED BY <1>0, <1>3, <2>1 DEF Undoes, Unpublished, Removing
<1>4. CASE /\ req[c].pc = "upsert" /\ UNCHANGED lib
           /\ imported' = [k \in NameSet |-> IF k \in FilesOf(req[c].files) THEN req[c].files[k] ELSE imported[k]]
  <2>1. n \in FilesOf(req[c].files) /\ imported'[n] = req[c].files[n] /\ imported[n] # req[c].files[n]
    BY <1>4
  <2> SUFFICES ASSUME NEW o \in Sessions, done[o][n] # Nothing PROVE FALSE
    BY <2>1
  <2>2. /\ imported[n] = done[o][n] /\ done[o][n] \in Contents
        /\ lib[n] = done[o][n] \/ lib[n] = Cut
    BY <1>0 DEF ImpInv, ImpTypes, SessOK, DoneOK, FilesOf, Maps
  <2>3. ~Undoes(c, n)
    BY <1>0, <2>2 DEF Unpublished
  <2>4. n \notin req[c].copied /\ req[c].left = {}
    BY <1>0, <1>4, <2>3 DEF Undoes, CommitOK
  <2>5. lib[n] = req[c].files[n]
    BY <1>0, <2>1, <2>4 DEF CommitOK, CopyOK
  <2>6. req[c].files[n] \in Contents
    BY <1>0, <2>1 DEF Reqs, Maps, FilesOf
  <2> QED BY <2>1, <2>2, <2>5, <2>6, ImportAssumption
<1>5. CASE UNCHANGED <<lib, imported>>
  BY <1>5
<1>6. CASE CommitCopies(c)
  BY <1>1, <1>2, <1>5, <1>6 DEF CommitCopies
<1>7. CASE CommitFills(c)
  BY <1>1, <1>3, <1>7 DEF CommitFills
<1>8. CASE CommitUpserts(c)
  BY <1>1, <1>4, <1>8 DEF CommitUpserts
<1> QED BY <1>6, <1>7, <1>8 DEF Writes

LEMMA WritesGently ==
  ASSUME ImpInv, NEW c \in Requests, Writes(c), NEW s \in Sessions, put[s] \subseteq put'[s],
         \A n \in NameSet : n \notin put'[s] /\ lib'[n] # Nothing => lib[n] # Nothing
  PROVE  Gentle(c, s)
<1>0. req[c].pc \in Committing /\ UNCHANGED done
  BY WritesFacts
<1>1. ASSUME NEW d \in Requests \ {c}, req[d].pc \in Committing, NEW n \in FilesOf(req[d].files)
      PROVE  lib'[n] = lib[n] /\ imported'[n] = imported[n] /\ (done[s][n] = Nothing => done'[s][n] = Nothing)
  <2>1. n \notin FilesOf(req[c].files) /\ n \in NameSet
    BY <1>0, <1>1, NamesApart DEF FilesOf
  <2> QED BY <1>0, <2>1, CommitTouches
<1>2. ASSUME NEW o \in Sessions, NEW n \in NameSet, done[o][n] # Nothing
      PROVE  lib'[n] = lib[n] /\ imported'[n] = imported[n]
  BY <1>2, CommitTouches
<1> QED BY <1>1, <1>2 DEF Gentle

\* A commit that fails while it copies, or in steps 3 to 5, removes its copies again.
LEMMA UndoKeeps ==
  ASSUME ImpInv, NEW c \in Requests, Writes(c), NEW s \in Sessions, s = req[c].s,
         lib' = Without(req[c].copied), Release(c), RowsTyped', \A o \in Sessions \ {s} : sess'[o] = sess[o],
         Status(s)' \in {"committing", "failed"}, UNCHANGED <<imported, put>>,
         torn' \in [Sessions -> BOOLEAN], \A o \in Sessions \ {s} : torn'[o] = torn[o],
         torn[s] \/ req[c].pc = "fill" => torn'[s]
  PROVE  ImpInv'
<1> DEFINE gone == req[c].copied
<1>0. /\ c \in Workers /\ ImpTypes /\ req[c] \in Reqs /\ req[c].pc \in Holding /\ SessOK(s)
      /\ req[c].pc \in Removing \ {"mark"} /\ Status(s) = "committing" /\ done[s] = NoFiles
      /\ UNCHANGED <<ram, manifest, staged, acks, done, broken>>
      /\ \A n \in NameSet : Undoes(c, n) => n \in FilesOf(req[c].files) /\ Unpublished(n)
  BY WritesFacts
<1>1. /\ req' \in [Workers -> Reqs] /\ holder' \in [Sessions -> Workers \union {Nothing}]
      /\ \A d \in Workers \ {c} : req'[d] = req[d] /\ (req[d].pc \in Holding => req[d].s # s)
      /\ \A o \in Sessions \ {s} : holder'[o] = holder[o]
      /\ ReqOK(c)' /\ Clear(c)
  BY <1>0, Released
<1>2. gone \subseteq NameSet /\ \A n \in gone : Unpublished(n)
  BY <1>0 DEF Undoes, Reqs
<1>3. /\ lib' \in [NameSet -> Bytes] /\ (\A n \in gone : lib'[n] = Nothing)
      /\ \A n \in NameSet \ gone : lib'[n] = lib[n]
  BY <1>0, <1>2 DEF Without, ImpTypes, Bytes
<1>4. ImpTypes'
  BY <1>0, <1>1, <1>3 DEF ImpTypes
<1>5. Undisputed(c, s)
  BY <1>0, <1>1 DEF Undisputed, Same
<1>6. Gentle(c, s)
  BY <1>2, <1>3, WritesGently
<1>7. RowsMatchFiles'
  BY <1>0, <1>2, <1>3 DEF ImpInv, RowsMatchFiles, Unpublished
<1>8. SessOK(s)'
  <2>1. FilesKnown(s)'
    BY <1>0 DEF SessOK, FilesKnown, Status, Closed
  <2>2. DoneOK(s)'
    BY <1>0, NoFilesFacts DEF DoneOK
  <2>3. ASSUME ~torn'[s], NEW n \in Own(s), lib'[n] # Nothing PROVE FALSE
    <3>1. n \notin gone /\ lib[n] # Nothing /\ ~torn[s] /\ req[c].pc # "fill"
      BY <1>0, <1>3, <2>3 DEF Own, ImpTypes
    <3> QED BY <1>0, <3>1, OnlyUndoer DEF Undoes
  <2>4. UndoneOK(s)'
    BY <2>3 DEF UndoneOK, Own
  <2> QED BY <2>1, <2>2, <2>4 DEF SessOK
<1>9. Staged(c, s)
  BY <1>0 DEF Staged, Removing
<1> QED BY <1>0, <1>1, <1>4, <1>5, <1>6, <1>7, <1>8, <1>9, OneStep

\* A commit that goes on: enough that it is right about what it did.
LEMMA CommitGoesOn ==
  ASSUME ImpInv, NEW c \in Requests, Writes(c), NEW s \in Sessions, s = req[c].s, NEW q \in Reqs,
         q.s = s, q.files = req[c].files, q.pc \in Removing, req' = [req EXCEPT ![c] = q],
         UNCHANGED <<sess, holder, torn>>, lib' \in [NameSet -> Bytes], imported' \in [NameSet -> Bytes],
         put' \in [Sessions -> SUBSET NameSet], \A o \in Sessions \ {s} : put'[o] = put[o], put[s] \subseteq put'[s],
         \A n \in NameSet : n \notin put'[s] /\ lib'[n] # Nothing => lib[n] # Nothing,
         \A n \in NameSet : n \in put'[s] /\ lib'[n] # Nothing => Undoes(c, n)' \/ (n \in put[s] /\ lib[n] # Nothing),
         \A n \in NameSet : Undoes(c, n) => Undoes(c, n)', RowsMatchFiles', CommitOK(c)'
  PROVE  ImpInv'
<1>0. /\ c \in Workers /\ ImpTypes /\ holder[s] = c /\ Status(s) = "committing" /\ SessOK(s) /\ done[s] = NoFiles
      /\ req[c].pc \in Holding /\ req[c].pc \in Committing /\ req[c].pc \in Removing
      /\ UNCHANGED <<ram, manifest, staged, acks, done, broken>>
      /\ \A d \in Workers \ {c} : req[d].pc \in Holding => req[d].s # s
  BY WritesFacts
<1>1. req' \in [Workers -> Reqs] /\ req'[c] = q /\ \A d \in Workers \ {c} : req'[d] = req[d]
  BY <1>0 DEF ImpTypes
<1>2. ImpTypes'
  BY <1>0, <1>1 DEF ImpTypes, RowsTyped, Status
<1>3. Undisputed(c, s)
  BY <1>0, <1>1 DEF Undisputed, Same, Status
<1>4. Gentle(c, s)
  BY WritesGently
<1>5. Clear(c)
  BY <1>0, <1>1 DEF Clear, ImpInv, Apart, Committing
<1>6. ReqOK(c)'
  BY <1>0, <1>1 DEF ReqOK, LockOK, UploadOK, EndOK, Removing
<1>7. Staged(c, s)
  BY <1>0 DEF Staged, Removing
<1>8. SessOK(s)'
  <2>1. FilesKnown(s)'
    BY <1>0 DEF SessOK, FilesKnown, Status
  <2>2. DoneOK(s)'
    BY <1>0, NoFilesFacts DEF DoneOK
  <2>3. ASSUME ~torn[s], NEW n \in Own(s)', lib'[n] # Nothing PROVE Undoes(c, n)'
    <3>1. n \in NameSet /\ n \in put'[s] /\ n \notin UNION {put[o] : o \in Sessions \ {s}}
      BY <1>2 DEF Own, ImpTypes
    <3>2. CASE n \in put[s] /\ lib[n] # Nothing
      <4>1. n \in Own(s)
        BY <3>1, <3>2 DEF Own
      <4> QED BY <1>0, <2>3, <3>1, <3>2, <4>1, OnlyUndoer
    <3> QED BY <2>3, <3>1, <3>2
  <2>4. UndoneOK(s)'
    BY <1>1, <2>3 DEF UndoneOK
  <2> QED BY <2>1, <2>2, <2>4 DEF SessOK
<1> QED BY <1>0, <1>2, <1>3, <1>4, <1>5, <1>6, <1>7, <1>8, OneStep

\* Step 2 of a commit, for one file.
LEMMA CommitCopiesKeeps ==
  ASSUME ImpInv, NEW c \in Requests, CommitCopies(c)
  PROVE  ImpInv'
<1> DEFINE f == req[c].files
           left == req[c].left
<1>0. /\ ImpTypes /\ req[c] \in Reqs /\ req[c].pc = "copy" /\ CommitOK(c) /\ Writes(c)
      /\ UNCHANGED <<sess, ram, manifest, staged, imported, acks, done, torn, broken>>
      /\ \A n \in NameSet : Undoes(c, n) => n \in FilesOf(f) /\ Unpublished(n)
  BY WritesFacts DEF CommitCopies, Writes
<1>1. PICK s \in Sessions : s = req[c].s /\ holder[s] = c /\ Status(s) = "committing"
  BY <1>0, WritesFacts
<1>2. /\ left \subseteq FilesOf(f) /\ left \subseteq NameSet /\ req[c].copied \subseteq FilesOf(f) \ left
      /\ \A n \in FilesOf(f) \ left : CopyOK(req[c], n)
      /\ \A n \in left : lib[n] \in {Nothing, f[n]}
      /\ acks[s] \subseteq ContentsOf(f)
  BY <1>0, <1>1 DEF CommitOK, Committing, Removing, Reqs
<1>3. ASSUME NEW n \in left, lib[n] # Nothing, UNCHANGED <<lib, holder, put>>,
             req' = [req EXCEPT ![c].pc = Onward(left \ {n}), ![c].left = @ \ {n}]
      PROVE  ImpInv'
  <2> DEFINE rest == left \ {n}
             q == [req[c] EXCEPT !.pc = Onward(rest), !.left = rest]
  <2>1. Onward(rest) \in {"copy", "upsert"} /\ (Onward(rest) = "upsert" => rest = {}) /\ rest \in SUBSET NameSet
    BY <1>2 DEF Onward
  <2>2. req' = [req EXCEPT ![c] = q]
    BY <1>3
  <2>3. q \in Reqs /\ q.pc = Onward(rest) /\ q.s = s /\ q.files = f /\ q.left = rest /\ q.copied = req[c].copied
    BY <1>0, <1>1, <2>1 DEF Reqs, Holding, Committing, Removing
  <2> HIDE DEF q
  <2>4. req'[c] = q
    BY <1>0, <2>2 DEF ImpTypes, Workers
  <2>5. q.pc \in {"copy", "upsert"} /\ (q.pc = "upsert" => rest = {})
    BY <2>1, <2>3
  <2>6. \A k \in NameSet : Undoes(c, k) <=> Undoes(c, k)'
    BY <1>0, <2>3, <2>4, <2>5 DEF Undoes, Removing
  <2>7. CommitOK(c)'
    <3>1. \A k \in FilesOf(f) \ rest : CopyOK(req[c], k)'
      <4> SUFFICES ASSUME NEW k \in FilesOf(f) \ rest
                   PROVE  lib[k] = f[k] \/ (k \in req[c].copied /\ lib[k] = Cut /\ f[k] \in broken[s])
        BY <1>0, <1>1, <1>3, <2>3, <2>4 DEF CopyOK
      <4>1. CASE k = n
        BY <1>2, <1>3, <4>1
      <4>2. CASE k # n
        BY <1>1, <1>2, <4>2 DEF CopyOK
      <4> QED BY <4>1, <4>2
    <3>2. Status(s)' = "committing" /\ acks'[s] \subseteq ContentsOf(f)
      BY <1>0, <1>1, <1>2 DEF Status
    <3>3. \A k \in NameSet : Undoes(c, k)' => Unpublished(k)'
      BY <1>0, <2>6 DEF Unpublished
    <3>4. rest \subseteq FilesOf(f) /\ req[c].copied \subseteq FilesOf(f) \ rest /\ \A k \in rest : lib'[k] \in {Nothing, f[k]}
      BY <1>2, <1>3
    <3> HIDE DEF rest
    <3> QED BY <2>3, <2>4, <2>5, <3>1, <3>2, <3>3, <3>4 DEF CommitOK, Committing, Removing
  <2>8. RowsMatchFiles'
    BY <1>0, <1>3 DEF ImpInv, RowsMatchFiles
  <2>9. /\ lib' \in [NameSet -> Bytes] /\ imported' \in [NameSet -> Bytes] /\ put' \in [Sessions -> SUBSET NameSet]
    BY <1>0, <1>3 DEF ImpTypes
  <2>10. q.pc \in Removing
    BY <2>5 DEF Removing
  <2> QED BY <1>0, <1>1, <1>3, <2>2, <2>3, <2>6, <2>7, <2>8, <2>9, <2>10, CommitGoesOn
<1>4. CASE lib' = Without(req[c].copied) /\ Release(c) /\ UNCHANGED put
  <2>1. RowsTyped' /\ Status(s)' = "committing" /\ torn' \in [Sessions -> BOOLEAN]
    BY <1>0, <1>1 DEF ImpTypes, RowsTyped, Status
  <2> QED BY <1>0, <1>1, <1>4, <2>1, UndoKeeps
<1>5. ASSUME NEW n \in left, lib[n] = Nothing, staged[req[c].s][f[n]] # Nothing, UNCHANGED holder,
             lib' = [lib EXCEPT ![n] = Cut], put' = [put EXCEPT ![req[c].s] = @ \union {n}],
             req' = [req EXCEPT ![c].pc = "fill", ![c].to = n]
      PROVE  ImpInv'
  <2> DEFINE q == [req[c] EXCEPT !.pc = "fill", !.to = n]
  <2>1. n \in NameSet /\ n \in FilesOf(f)
    BY <1>2
  <2>2. req' = [req EXCEPT ![c] = q]
    BY <1>5
  <2>3. /\ q \in Reqs /\ q.pc = "fill" /\ q.s = s /\ q.files = f /\ q.left = left /\ q.copied = req[c].copied
        /\ q.to = n
    BY <1>0, <1>1, <2>1 DEF Reqs, Holding, Committing, Removing
  <2> HIDE DEF q
  <2>4. req'[c] = q
    BY <1>0, <2>2 DEF ImpTypes, Workers
  <2>5. /\ lib' \in [NameSet -> Bytes] /\ lib'[n] = Cut /\ \A k \in NameSet \ {n} : lib'[k] = lib[k]
    BY <1>0, <1>5, <2>1 DEF ImpTypes, Bytes
  <2>6. /\ put' \in [Sessions -> SUBSET NameSet] /\ put'[s] = put[s] \union {n}
        /\ \A o \in Sessions \ {s} : put'[o] = put[o]
    BY <1>0, <1>1, <1>5, <2>1 DEF ImpTypes
  <2>7. \A k \in NameSet : Undoes(c, k)' <=> Undoes(c, k) \/ k = n
    BY <1>0, <2>3, <2>4 DEF Undoes, Removing
  <2>8. Unpublished(n)
    BY <1>5, <2>1, ImportAssumption DEF ImpInv, RowsMatchFiles, SessOK, DoneOK, FilesOf, Unpublished
  <2>9. CommitOK(c)'
    <3>1. \A k \in FilesOf(f) \ left : CopyOK(req[c], k)'
      <4> SUFFICES ASSUME NEW k \in FilesOf(f) \ left PROVE CopyOK(req[c], k)'
        OBVIOUS
      <4>1. lib'[k] = lib[k] /\ CopyOK(req[c], k)
        BY <1>2, <2>5 DEF FilesOf
      <4> QED BY <1>0, <1>1, <2>3, <2>4, <4>1 DEF CopyOK
    <3>2. Status(s)' = "committing" /\ acks'[s] \subseteq ContentsOf(f)
      BY <1>0, <1>1, <1>2 DEF Status
    <3>3. \A k \in NameSet : Undoes(c, k)' => Unpublished(k)'
      BY <1>0, <2>7, <2>8 DEF Unpublished
    <3>4. /\ left \subseteq FilesOf(f) /\ req[c].copied \subseteq FilesOf(f) \ left
          /\ \A k \in left : k = n \/ lib'[k] \in {Nothing, f[k]}
      BY <1>2, <2>5
    <3>5. staged'[s][f[n]] # Nothing
      BY <1>0, <1>1, <1>5
    <3> QED BY <1>5, <2>3, <2>4, <2>5, <3>1, <3>2, <3>3, <3>4, <3>5 DEF CommitOK, Committing, Removing
  <2>10. RowsMatchFiles'
    BY <1>0, <2>5, <2>8 DEF ImpInv, RowsMatchFiles, Unpublished
  <2>11. q.pc \in Removing /\ imported' \in [NameSet -> Bytes]
    BY <1>0, <2>3 DEF Removing, ImpTypes
  <2>12. /\ \A k \in NameSet : k \notin put'[s] /\ lib'[k] # Nothing => lib[k] # Nothing
         /\ \A k \in NameSet : k \in put'[s] /\ lib'[k] # Nothing => Undoes(c, k)' \/ (k \in put[s] /\ lib[k] # Nothing)
    BY <2>5, <2>6, <2>7
  <2> QED BY <1>0, <1>1, <1>5, <2>2, <2>3, <2>5, <2>6, <2>7, <2>9, <2>10, <2>11, <2>12, CommitGoesOn
<1> QED BY <1>3, <1>4, <1>5 DEF CommitCopies

\* The end of a copy, or its failure.
LEMMA CommitFillsKeeps ==
  ASSUME ImpInv, NEW c \in Requests, CommitFills(c)
  PROVE  ImpInv'
<1> DEFINE f == req[c].files
           to == req[c].to
           left == req[c].left
           rest == left \ {to}
<1>0. /\ ImpTypes /\ req[c] \in Reqs /\ req[c].pc = "fill" /\ CommitOK(c) /\ Writes(c)
      /\ UNCHANGED <<sess, ram, manifest, staged, imported, acks, done, put, broken>>
      /\ \A n \in NameSet : Undoes(c, n) => n \in FilesOf(f) /\ Unpublished(n)
  BY WritesFacts DEF CommitFills, Writes
<1>1. PICK s \in Sessions : s = req[c].s /\ holder[s] = c /\ Status(s) = "committing"
  BY <1>0, WritesFacts
<1>2. /\ left \subseteq FilesOf(f) /\ left \subseteq NameSet /\ req[c].copied \subseteq FilesOf(f) \ left
      /\ \A n \in FilesOf(f) \ left : CopyOK(req[c], n)
      /\ \A n \in rest : lib[n] \in {Nothing, f[n]}
      /\ to \in left /\ to \in NameSet /\ to \in FilesOf(f) /\ lib[to] = Cut /\ staged[s][f[to]] # Nothing
      /\ acks[s] \subseteq ContentsOf(f) /\ Unpublished(to)
  BY <1>0, <1>1 DEF CommitOK, Committing, Removing, Reqs, Undoes
<1>3. CASE torn' = [torn EXCEPT ![req[c].s] = TRUE] /\ lib' = Without(req[c].copied) /\ Release(c)
  <2>1. /\ RowsTyped' /\ Status(s)' = "committing" /\ torn' \in [Sessions -> BOOLEAN]
        /\ torn'[s] /\ \A o \in Sessions \ {s} : torn'[o] = torn[o]
    BY <1>0, <1>1, <1>3 DEF ImpTypes, RowsTyped, Status
  <2> QED BY <1>0, <1>1, <1>3, <2>1, UndoKeeps
<1>4. CASE /\ lib' = [lib EXCEPT ![to] = staged[req[c].s][f[to]]]
           /\ req' = [req EXCEPT ![c].pc = Onward(rest), ![c].left = rest, ![c].to = Nothing,
                                 ![c].copied = @ \union {to}]
           /\ UNCHANGED <<holder, torn>>
  <2> DEFINE v == staged[s][f[to]]
             q == [req[c] EXCEPT !.pc = Onward(rest), !.left = rest, !.to = Nothing, !.copied = @ \union {to}]
  <2>1. Onward(rest) \in {"copy", "upsert"} /\ (Onward(rest) = "upsert" => rest = {}) /\ rest \in SUBSET NameSet
    BY <1>2 DEF Onward
  <2>2. req' = [req EXCEPT ![c] = q]
    BY <1>4
  <2>3. /\ q \in Reqs /\ q.pc = Onward(rest) /\ q.s = s /\ q.files = f /\ q.left = rest
        /\ q.copied = req[c].copied \union {to}
    BY <1>0, <1>1, <1>2, <2>1 DEF Reqs, Holding, Committing, Removing
  <2> HIDE DEF q
  <2>4. req'[c] = q
    BY <1>0, <2>2 DEF ImpTypes, Workers
  <2>5. q.pc \in {"copy", "upsert"} /\ (q.pc = "upsert" => rest = {})
    BY <2>1, <2>3
  <2>6. v = f[to] \/ (v = Cut /\ f[to] \in broken[s])
    <3>1. f[to] \in Contents /\ StagingOK(s)
      BY <1>0, <1>2 DEF Reqs, Maps, FilesOf, ImpInv
    <3>2. CASE v = Cut /\ f[to] \notin broken[s]
      <4>1. PICK d \in Requests : req[d].pc = "write" /\ req[d].s = s
        BY <3>1, <3>2 DEF StagingOK
      <4> QED BY <1>0, <1>1, <4>1, WritesFacts DEF Workers, Holding
    <3> QED BY <1>2, <3>1, <3>2 DEF StagingOK
  <2>7. v \in Bytes /\ v # Nothing
    BY <1>0, <1>2, <2>6, ImportAssumption DEF Bytes, Reqs, Maps, FilesOf
  <2>8. lib' \in [NameSet -> Bytes] /\ lib'[to] = v /\ \A k \in NameSet \ {to} : lib'[k] = lib[k]
    BY <1>0, <1>1, <1>2, <1>4, <2>7 DEF ImpTypes
  <2> HIDE DEF v
  <2>9. \A k \in NameSet : Undoes(c, k) <=> Undoes(c, k)'
    BY <1>0, <2>3, <2>4, <2>5 DEF Undoes, Removing
  <2>10. CommitOK(c)'
    <3>1. \A k \in FilesOf(f) \ rest : CopyOK(req[c], k)'
      <4> SUFFICES ASSUME NEW k \in FilesOf(f) \ rest
                   PROVE  lib'[k] = f[k] \/ (k \in q.copied /\ lib'[k] = Cut /\ f[k] \in broken[s])
        BY <1>0, <1>1, <2>3, <2>4 DEF CopyOK
      <4>1. CASE k = to
        BY <2>3, <2>6, <2>8, <4>1
      <4>2. CASE k # to
        BY <1>1, <1>2, <2>3, <2>8, <4>2 DEF CopyOK, FilesOf
      <4> QED BY <4>1, <4>2
    <3>2. Status(s)' = "committing" /\ acks'[s] \subseteq ContentsOf(f)
      BY <1>0, <1>1, <1>2 DEF Status
    <3>3. \A k \in NameSet : Undoes(c, k)' => Unpublished(k)'
      BY <1>0, <2>9 DEF Unpublished
    <3>4. rest \subseteq FilesOf(f) /\ q.copied \subseteq FilesOf(f) \ rest /\ \A k \in rest : lib'[k] \in {Nothing, f[k]}
      BY <1>2, <2>3, <2>8
    <3> HIDE DEF rest
    <3> QED BY <2>3, <2>4, <2>5, <3>1, <3>2, <3>3, <3>4 DEF CommitOK, Committing, Removing
  <2>11. RowsMatchFiles'
    BY <1>0, <1>2, <2>8 DEF ImpInv, RowsMatchFiles, Unpublished
  <2>12. q.pc \in Removing /\ imported' \in [NameSet -> Bytes] /\ put' \in [Sessions -> SUBSET NameSet]
    BY <1>0, <2>5 DEF Removing, ImpTypes
  <2>13. \A k \in NameSet : lib'[k] # Nothing => lib[k] # Nothing
    BY <1>2, <2>8, ImportAssumption
  <2>14. /\ \A k \in NameSet : k \notin put'[s] /\ lib'[k] # Nothing => lib[k] # Nothing
         /\ \A k \in NameSet : k \in put'[s] /\ lib'[k] # Nothing => Undoes(c, k)' \/ (k \in put[s] /\ lib[k] # Nothing)
         /\ put[s] \subseteq put'[s] /\ \A o \in Sessions \ {s} : put'[o] = put[o]
    BY <1>0, <2>13
  <2>15. UNCHANGED <<sess, holder, torn>>
    BY <1>0, <1>4
  <2> HIDE DEF f, to, left, rest
  <2> QED BY <1>0, <1>1, <2>2, <2>3, <2>8, <2>9, <2>10, <2>11, <2>12, <2>14, <2>15, CommitGoesOn DEF f
<1> QED BY <1>3, <1>4 DEF CommitFills

\* Steps 3 to 5: a conflict, a failure, or the rows.
LEMMA CommitUpsertsKeeps ==
  ASSUME ImpInv, NEW c \in Requests, CommitUpserts(c)
  PROVE  ImpInv'
<1> DEFINE f == req[c].files
<1>0. /\ ImpTypes /\ req[c] \in Reqs /\ req[c].pc = "upsert" /\ CommitOK(c) /\ Writes(c)
      /\ UNCHANGED <<ram, manifest, staged, acks, done, put, torn, broken>>
      /\ \A n \in NameSet : Undoes(c, n) => n \in FilesOf(f) /\ Unpublished(n)
  BY WritesFacts DEF CommitUpserts, Writes
<1>1. PICK s \in Sessions : s = req[c].s /\ holder[s] = c /\ Status(s) = "committing"
  BY <1>0, WritesFacts
<1>2. torn' \in [Sessions -> BOOLEAN]
  BY <1>0 DEF ImpTypes
<1>3. CASE lib' = Without(req[c].copied) /\ set_import_session_status(req[c].s, "failed") /\ Release(c) /\ UNCHANGED imported
  <2>1. RowsTyped' /\ (\A o \in Sessions \ {s} : sess'[o] = sess[o]) /\ Status(s)' = "failed"
    BY <1>0, <1>1, <1>3, StatusSet DEF Statuses, Status, Closed
  <2> QED BY <1>0, <1>1, <1>2, <1>3, <2>1, UndoKeeps
<1>4. CASE lib' = Without(req[c].copied) /\ Release(c) /\ UNCHANGED <<imported, sess>>
  <2>1. RowsTyped' /\ Status(s)' = "committing"
    BY <1>0, <1>1, <1>4 DEF ImpTypes, RowsTyped, Status
  <2> QED BY <1>0, <1>1, <1>2, <1>4, <2>1, UndoKeeps
<1>5. CASE /\ imported' = [n \in NameSet |-> IF n \in FilesOf(f) THEN f[n] ELSE imported[n]]
           /\ req' = [req EXCEPT ![c].pc = "mark"] /\ UNCHANGED <<lib, sess, holder>>
  <2> DEFINE q == [req[c] EXCEPT !.pc = "mark"]
  <2>1. req' = [req EXCEPT ![c] = q]
    BY <1>5
  <2>2. /\ q \in Reqs /\ q.pc = "mark" /\ q.s = s /\ q.files = f /\ q.left = req[c].left
        /\ q.copied = req[c].copied
    BY <1>0, <1>1 DEF Reqs, Holding, Committing, Removing
  <2> HIDE DEF q
  <2>3. req'[c] = q
    BY <1>0, <2>1 DEF ImpTypes, Workers
  <2>4. /\ f \in Maps /\ FilesOf(f) \subseteq NameSet /\ acks[s] \subseteq ContentsOf(f)
        /\ req[c].left = {} /\ req[c].copied \subseteq FilesOf(f) /\ \A n \in FilesOf(f) : CopyOK(req[c], n)
    BY <1>0, <1>1 DEF Reqs, FilesOf, CommitOK, Committing, Removing
  <2>5. /\ imported' \in [NameSet -> Bytes]
        /\ (\A n \in FilesOf(f) : imported'[n] = f[n])
        /\ \A n \in NameSet \ FilesOf(f) : imported'[n] = imported[n]
    <3> HIDE DEF f
    <3> QED BY <1>0, <1>5, <2>4 DEF ImpTypes, Bytes, Maps
  <2>6. \A k \in NameSet : Undoes(c, k) <=> Undoes(c, k)'
    BY <1>0, <2>2, <2>3 DEF Undoes, Removing
  <2>7. RowsMatchFiles'
    <3> SUFFICES ASSUME NEW n \in NameSet, imported'[n] \in Contents
                 PROVE  lib[n] = imported'[n] \/ (lib[n] = Cut /\ \E o \in Sessions : imported'[n] \in broken[o])
      BY <1>0, <1>5 DEF RowsMatchFiles
    <3>1. CASE n \in FilesOf(f)
      <4>1. CopyOK(req[c], n) /\ imported'[n] = f[n]
        BY <2>4, <2>5, <3>1
      <4> QED BY <1>1, <4>1 DEF CopyOK
    <3>2. CASE n \notin FilesOf(f)
      BY <2>5, <3>2 DEF ImpInv, RowsMatchFiles
    <3> QED BY <3>1, <3>2
  <2>8. CommitOK(c)'
    <3>1. \A k \in FilesOf(f) : CopyOK(req[c], k)'
      <4> SUFFICES ASSUME NEW k \in FilesOf(f)
                   PROVE  lib[k] = f[k] \/ (k \in req[c].copied /\ lib[k] = Cut /\ f[k] \in broken[s])
        BY <1>0, <1>1, <1>5, <2>2, <2>3 DEF CopyOK
      <4> QED BY <1>1, <2>4 DEF CopyOK
    <3>2. Status(s)' = "committing" /\ acks'[s] \subseteq ContentsOf(f)
      BY <1>0, <1>1, <1>5, <2>4 DEF Status
    <3> QED BY <2>2, <2>3, <2>4, <2>5, <3>1, <3>2 DEF CommitOK, Committing, Removing
  <2>9. /\ q.pc \in Removing /\ lib' \in [NameSet -> Bytes] /\ put' \in [Sessions -> SUBSET NameSet]
        /\ UNCHANGED <<sess, holder, torn>> /\ UNCHANGED <<lib, put>>
    BY <1>0, <1>5, <2>2 DEF Removing, ImpTypes
  <2> HIDE DEF f
  <2> QED BY <1>0, <1>1, <2>1, <2>2, <2>5, <2>6, <2>7, <2>8, <2>9, CommitGoesOn DEF f
<1> QED BY <1>3, <1>4, <1>5 DEF CommitUpserts

\* Step 7: the row is marked, or the update fails and the copies stay.
LEMMA CommitMarksKeeps ==
  ASSUME ImpInv, NEW c \in Requests, CommitMarks(c)
  PROVE  ImpInv'
<1> DEFINE f == req[c].files
<1>0. /\ c \in Workers /\ ImpTypes /\ req[c] \in Reqs /\ req[c].pc = "mark" /\ req[c].pc \in Holding
      /\ req[c].pc \in Committing /\ req[c].pc \in Removing
      /\ UNCHANGED <<manifest, staged, lib, imported, acks, put, broken>> /\ CommitOK(c)
  BY DEF Workers, ImpInv, ImpTypes, CommitMarks, Holding, Committing, Removing, ReqOK
<1>1. PICK s \in Sessions :
        s = req[c].s /\ holder[s] = c /\ \A d \in Workers \ {c} : req[d].pc \in Holding => req[d].s # s
  BY <1>0, OnlyHolder
<1>2. Status(s) = "committing" /\ SessOK(s)
  BY <1>0, <1>1 DEF ImpInv, CommitOK
<1>3. RowsMatchFiles' /\ Staged(c, s)
  BY <1>0 DEF ImpInv, RowsMatchFiles, Staged
<1>4. CASE /\ sess' = [sess EXCEPT ![req[c].s].status = "committed"]
           /\ done' = [done EXCEPT ![req[c].s] = f]
           /\ ram' = [ram EXCEPT ![req[c].s] = Nothing]
           /\ req' = [req EXCEPT ![c].pc = "clean"] /\ UNCHANGED <<holder, torn>>
  <2>1. set_import_session_status(s, "committed")
    BY <1>1, <1>2, <1>4 DEF set_import_session_status, Status, Closed
  <2>2. RowsTyped' /\ (\A o \in Sessions \ {s} : sess'[o] = sess[o]) /\ Status(s)' = "committed"
    BY <1>0, <1>2, <2>1, StatusSet DEF Statuses, Status, Closed
  <2>3. /\ f \in Maps
        /\ \A n \in FilesOf(f) : imported[n] = f[n] /\ (lib[n] = f[n] \/ (lib[n] = Cut /\ f[n] \in broken[s]))
    BY <1>0, <1>1 DEF Reqs, CommitOK, CopyOK, Removing
  <2> HIDE DEF f
  <2>4. /\ done' \in [Sessions -> Maps] /\ done'[s] = f
        /\ ram' \in [Sessions -> Maps \union {Nothing}] /\ ram'[s] = Nothing
        /\ \A o \in Sessions \ {s} : ram'[o] = ram[o] /\ done'[o] = done[o]
    BY <1>0, <1>1, <1>4, <2>3 DEF ImpTypes
  <2>5. /\ req' \in [Workers -> Reqs] /\ req'[c].pc = "clean" /\ req'[c].s = s
        /\ \A d \in Workers \ {c} : req'[d] = req[d]
    BY <1>0, <1>1, <1>4, Advanced DEF Holding
  <2>6. ImpTypes'
    BY <1>0, <1>4, <2>2, <2>4, <2>5 DEF ImpTypes
  <2>7. Undisputed(c, s)
    BY <1>0, <1>1, <1>4, <2>2, <2>4, <2>5 DEF Undisputed, Same
  <2>8. Gentle(c, s)
    <3>1. ASSUME NEW d \in Requests \ {c}, req[d].pc \in Committing, NEW n \in FilesOf(req[d].files)
          PROVE  f[n] = Nothing
      BY <1>0, <3>1, NamesApart DEF f
    <3> QED BY <1>0, <2>4, <3>1 DEF Gentle
  <2>9. ReqOK(c)' /\ Clear(c)
    BY <1>1, <1>4, <2>2, <2>5 DEF ReqOK, LockOK, UploadOK, CommitOK, EndOK, Clear, Holding, Committing, Removing, Closed
  <2>10. SessOK(s)'
    BY <1>0, <1>2, <2>2, <2>3, <2>4 DEF SessOK, FilesKnown, DoneOK, UndoneOK, Status, Closed
  <2> QED BY <1>0, <1>3, <2>6, <2>7, <2>8, <2>9, <2>10, OneStep
<1>5. CASE torn' = [torn EXCEPT ![req[c].s] = TRUE] /\ Release(c) /\ UNCHANGED <<sess, done, ram>>
  <2>1. /\ req' \in [Workers -> Reqs] /\ holder' \in [Sessions -> Workers \union {Nothing}]
        /\ \A d \in Workers \ {c} : req'[d] = req[d] /\ (req[d].pc \in Holding => req[d].s # s)
        /\ \A o \in Sessions \ {s} : holder'[o] = holder[o]
        /\ ReqOK(c)' /\ Clear(c)
    BY <1>0, <1>1, <1>5, Released
  <2>2. torn' \in [Sessions -> BOOLEAN] /\ torn'[s] = TRUE /\ \A o \in Sessions \ {s} : torn'[o] = torn[o]
    BY <1>0, <1>1, <1>5 DEF ImpTypes
  <2>3. ImpTypes'
    BY <1>0, <1>5, <2>1, <2>2 DEF ImpTypes, RowsTyped, Status
  <2>4. Undisputed(c, s)
    BY <1>0, <1>1, <1>5, <2>1, <2>2 DEF Undisputed, Same, Status
  <2>5. Gentle(c, s)
    BY <1>0, <1>5 DEF Gentle
  <2>6. SessOK(s)'
    BY <1>0, <1>2, <1>5, <2>2 DEF SessOK, FilesKnown, DoneOK, UndoneOK, Status
  <2> QED BY <1>0, <1>3, <2>1, <2>3, <2>4, <2>5, <2>6, OneStep
<1> QED BY <1>4, <1>5 DEF CommitMarks

\* A request that is dropped leaves copies behind only where torn says so, and half a file
\* in the staging directory only where broken does.
LEMMA DropKeeps ==
  ASSUME ImpInv, NEW c \in Requests, DropRequest(c)
  PROVE  ImpInv'
<1>0. /\ c \in Workers /\ ImpTypes /\ req[c] \in Reqs /\ req[c].pc # "idle"
      /\ UNCHANGED <<sess, ram, manifest, staged, lib, imported, acks, done, put>> /\ ReqOK(c)
  BY DEF Workers, ImpInv, ImpTypes, DropRequest
<1>1. PICK s \in Sessions : s = req[c].s
  BY <1>0 DEF ReqOK, LockOK, EndOK, Reqs
<1>2. /\ req' = [req EXCEPT ![c] = NoReq]
      /\ holder' = IF holder[s] = c THEN [holder EXCEPT ![s] = Nothing] ELSE holder
      /\ torn' = IF LeavesCopies(c) THEN [torn EXCEPT ![s] = TRUE] ELSE torn
      /\ broken' = IF req[c].pc = "write" THEN [broken EXCEPT ![s] = @ \union {req[c].x}] ELSE broken
  BY <1>1 DEF DropRequest
<1>3. /\ req' \in [Workers -> Reqs] /\ req'[c] = NoReq /\ (\A d \in Workers \ {c} : req'[d] = req[d])
      /\ holder' \in [Sessions -> Workers \union {Nothing}]
      /\ \A o \in Sessions \ {s} : holder'[o] = holder[o]
      /\ holder[s] # c => holder'[s] = holder[s]
  BY <1>0, <1>2, NoReqFacts DEF ImpTypes
<1>4. /\ torn' \in [Sessions -> BOOLEAN] /\ (\A o \in Sessions \ {s} : torn'[o] = torn[o])
      /\ LeavesCopies(c) => torn'[s] = TRUE
      /\ ~LeavesCopies(c) => torn' = torn
  BY <1>0, <1>2 DEF ImpTypes
<1>5. ReqOK(c)' /\ Clear(c)
  BY <1>0, <1>3, NoReqFacts
<1>11. /\ broken' \in [Sessions -> SUBSET Contents] /\ \A o \in Sessions \ {s} : broken'[o] = broken[o]
       /\ broken[s] \subseteq broken'[s] /\ (req[c].pc = "write" => req[c].x \in broken'[s])
       /\ req[c].pc # "write" => UNCHANGED broken
  BY <1>0, <1>1, <1>2 DEF ImpTypes, ReqOK, UploadOK
<1>6. ImpTypes'
  BY <1>0, <1>3, <1>4, <1>11 DEF ImpTypes, RowsTyped, Status
<1>7. Undisputed(c, s)
  <2>1. req[c].pc \in Holding
    BY <1>0, NothingAssumption DEF ReqOK, EndOK, Reqs
  <2> QED BY <1>0, <1>1, <1>3, <1>4, <1>11, <2>1, OnlyHolder DEF Undisputed, Same, Status
<1>8. Gentle(c, s)
  BY <1>0 DEF Gentle
<1>9. RowsMatchFiles'
  BY <1>0, <1>11 DEF ImpInv, RowsMatchFiles
<1>10. SessOK(s)'
  <2>1. FilesKnown(s)' /\ DoneOK(s)'
    BY <1>0, <1>11 DEF ImpInv, SessOK, FilesKnown, DoneOK, Status
  <2>2. ASSUME Status(s) # "committed", ~torn'[s], NEW n \in Own(s), lib[n] # Nothing
        PROVE  \E d \in Requests : req'[d].s = s /\ Undoes(d, n)'
    <3>1. ~torn[s]
      BY <1>0, <1>2, <2>2 DEF ImpTypes
    <3>2. PICK d \in Requests : req[d].s = s /\ Undoes(d, n)
      BY <2>2, <3>1 DEF ImpInv, SessOK, UndoneOK
    <3>3. d # c
      BY <1>4, <2>2, <3>2 DEF Undoes, Removing, LeavesCopies
    <3> QED BY <1>3, <3>2, <3>3 DEF Workers, Undoes
  <2>3. UndoneOK(s)'
    BY <1>0, <2>2 DEF UndoneOK, Own, Status
  <2> QED BY <2>1, <2>3 DEF SessOK
<1>12. Staged(c, s)
  <2>1. CASE req[c].pc # "write"
    BY <1>0, <1>11, <2>1 DEF Staged
  <2>2. CASE req[c].pc = "write"
    <3>1. StagingOK(s) /\ \A y \in Contents : staged[s][y] = Cut /\ y \notin broken'[s] =>
            \E d \in Requests : req'[d].pc = "write" /\ req'[d].s = s /\ req'[d].x = y
      <4>1. StagingOK(s)
        BY DEF ImpInv
      <4> SUFFICES ASSUME NEW y \in Contents, staged[s][y] = Cut, y \notin broken'[s]
                   PROVE  \E d \in Requests : req'[d].pc = "write" /\ req'[d].s = s /\ req'[d].x = y
        BY <4>1
      <4>2. PICK d \in Requests : req[d].pc = "write" /\ req[d].s = s /\ req[d].x = y
        BY <1>11, <4>1 DEF StagingOK
      <4>3. d # c
        BY <1>11, <2>2, <4>2
      <4> QED BY <1>3, <4>2, <4>3 DEF Workers
    <3>2. StagingOK(s)'
      BY <1>0, <3>1 DEF StagingOK
    <3> QED BY <3>2 DEF Staged
  <2> QED BY <2>1, <2>2
<1> QED BY <1>0, <1>5, <1>6, <1>7, <1>8, <1>9, <1>10, <1>12, OneStep

LEMMA CrashKeeps ==
  ASSUME ImpInv, Crash
  PROVE  ImpInv'
<1>0. /\ ImpTypes /\ UNCHANGED <<sess, manifest, staged, lib, imported, acks, done, put>>
      /\ \A s \in Sessions : ram'[s] = Nothing /\ holder'[s] = Nothing
      /\ \A c \in Workers : req'[c] = NoReq
  BY DEF ImpInv, Crash
<1>1. /\ \A s \in Sessions : torn'[s] = (torn[s] \/ \E c \in Requests : req[c].s = s /\ LeavesCopies(c))
      /\ \A s \in Sessions :
           broken'[s] = broken[s] \union {req[c].x : c \in {d \in Requests : req[d].s = s /\ req[d].pc = "write"}}
  BY DEF Crash
<1>7. \A c \in Requests : req[c].pc = "write" => req[c].x \in Contents
  BY DEF ImpInv, ReqOK, UploadOK, Workers
<1>2. /\ ram' \in [Sessions -> Maps \union {Nothing}] /\ holder' \in [Sessions -> Workers \union {Nothing}]
      /\ req' \in [Workers -> Reqs] /\ torn' \in [Sessions -> BOOLEAN]
  BY NoReqFacts DEF Crash
<1>8. broken' \in [Sessions -> SUBSET Contents] /\ \A s \in Sessions : broken[s] \subseteq broken'[s]
  <2>1. \A s \in Sessions :
          broken[s] \union {req[c].x : c \in {d \in Requests : req[d].s = s /\ req[d].pc = "write"}} \in SUBSET Contents
    BY <1>0, <1>7 DEF ImpTypes
  <2> QED BY <1>1, <2>1 DEF Crash
<1>3. ImpTypes'
  BY <1>0, <1>2, <1>8 DEF ImpTypes, RowsTyped, Status
<1>4. \A c \in Workers : ReqOK(c)'
  BY <1>0, NoReqFacts
<1>5. Apart' /\ RowsMatchFiles'
  BY <1>0, <1>8, NoReqFacts DEF Apart, ImpInv, RowsMatchFiles, Committing, Removing, Workers
<1>6. ASSUME NEW s \in Sessions PROVE SessOK(s)' /\ StagingOK(s)'
  <2>1. FilesKnown(s)' /\ DoneOK(s)'
    BY <1>0, <1>8 DEF ImpInv, SessOK, FilesKnown, DoneOK, Status
  <2>2. ASSUME Status(s) # "committed", ~torn'[s], NEW n \in Own(s), lib[n] # Nothing PROVE FALSE
    <3>1. ~torn[s]
      BY <1>1, <2>2
    <3>2. PICK d \in Requests : req[d].s = s /\ Undoes(d, n)
      BY <2>2, <3>1 DEF ImpInv, SessOK, UndoneOK
    <3> QED BY <1>1, <2>2, <3>2 DEF Undoes, Removing, LeavesCopies
  <2>3. UndoneOK(s)'
    BY <1>0, <2>2 DEF UndoneOK, Own, Status
  <2>4. StagingOK(s)'
    <3>1. StagingOK(s)
      BY DEF ImpInv
    <3>2. ASSUME NEW y \in Contents, staged[s][y] = Cut PROVE y \in broken'[s]
      BY <1>1, <3>1, <3>2 DEF StagingOK
    <3> QED BY <1>0, <3>1, <3>2 DEF StagingOK
  <2> QED BY <2>1, <2>3, <2>4 DEF SessOK
<1> QED BY <1>3, <1>4, <1>5, <1>6 DEF ImpInv

---------------------------------------------------------------------------
\* The invariant, and what follows from it.

LEMMA ImportsInitial == ImportInit => ImpInv
<1> SUFFICES ASSUME ImportInit PROVE ImpInv
  OBVIOUS
<1>1. /\ \A s \in Sessions : Status(s) = "none" /\ ram[s] = Nothing /\ manifest[s] = Nothing
      /\ \A s \in Sessions : acks[s] = {} /\ done[s] = NoFiles /\ put[s] = {} /\ imported = lib
      /\ \A s \in Sessions : staged[s] = NoStaging /\ broken[s] = {}
      /\ \A c \in Workers : req[c] = NoReq
  BY DEF ImportInit, Status
<1>2. lib \in [NameSet -> Bytes]
  BY DEF ImportInit, NoFiles, Bytes
<1>3. RowsTyped
  BY <1>1 DEF ImportInit, RowsTyped, Status, Statuses
<1>4. /\ ram \in [Sessions -> Maps \union {Nothing}] /\ manifest \in [Sessions -> Maps \union {Nothing}]
      /\ holder \in [Sessions -> Workers \union {Nothing}] /\ req \in [Workers -> Reqs]
      /\ acks \in [Sessions -> SUBSET Contents] /\ done \in [Sessions -> Maps]
      /\ put \in [Sessions -> SUBSET NameSet] /\ torn \in [Sessions -> BOOLEAN] /\ imported = lib
      /\ staged \in [Sessions -> [Contents -> Contents \union {Nothing, Cut}]]
      /\ broken \in [Sessions -> SUBSET Contents]
  BY NoReqFacts, NoFilesFacts DEF ImportInit, NoStaging
<1>5. ImpTypes
  BY <1>2, <1>3, <1>4 DEF ImpTypes
<1>6. \A c \in Workers : ReqOK(c)
  BY <1>1, NoReqFacts DEF ReqOK, LockOK, UploadOK, CommitOK, EndOK, Holding, Committing, Removing
<1>7. Apart /\ RowsMatchFiles
  BY <1>1, <1>4, NoReqFacts DEF Apart, RowsMatchFiles, Committing, Removing, Workers
<1>8. \A s \in Sessions : SessOK(s) /\ StagingOK(s)
  BY <1>1, NoFilesFacts, ImportAssumption DEF SessOK, FilesKnown, DoneOK, UndoneOK, Own, StagingOK, NoStaging
<1> QED BY <1>5, <1>6, <1>7, <1>8 DEF ImpInv

LEMMA ImportsInductive ==
  ASSUME "collide" \notin Disturbances, ImpInv, [ImportNext]_impVars
  PROVE  ImpInv'
<1>1. CASE UNCHANGED impVars
  BY <1>1, NothingChanges DEF impVars
<1>2. ASSUME NEW c \in Requests,
             \/ UploadWrites(c) \/ UploadStores(c) \/ UploadEnds(c)
             \/ CommitValidates(c) \/ CommitCopies(c) \/ CommitFills(c)
             \/ CommitUpserts(c) \/ CommitMarks(c) \/ DropRequest(c)
      PROVE  ImpInv'
  BY <1>2, UploadWritesKeeps, UploadStoresKeeps, UploadEndsKeeps, CommitValidatesKeeps, CommitCopiesKeeps,
     CommitFillsKeeps, CommitUpsertsKeeps, CommitMarksKeeps, DropKeeps
<1>3. ASSUME NEW c \in Requests, NEW s \in Sessions,
             CommitBegins(c, s) \/ RollbackBegins(c, s) \/ \E x \in Contents : UploadBegins(c, s, x)
      PROVE  ImpInv'
  BY <1>3, CommitBeginsKeeps, RollbackBeginsKeeps, UploadBeginsKeeps
<1>4. ASSUME NEW s \in Sessions, CreateSession(s) PROVE ImpInv'
  BY <1>4, SessionCreateKeeps
<1>5. ASSUME NEW c \in Workers, CleanSession(c) PROVE ImpInv'
  BY <1>5, CleanKeeps
<1>6. CASE JanitorLists \/ JanitorExpires \/ Crash
  BY <1>6, JanitorListsKeeps, JanitorExpiresKeeps, CrashKeeps
<1> QED BY <1>1, <1>2, <1>3, <1>4, <1>5, <1>6 DEF ImportNext

\* The invariant holds of every import behaviour (routes/v1/import.rs) in which no two
\* overlapping commits copy to the same name.
THEOREM ImportsInvariant == ASSUME "collide" \notin Disturbances PROVE ImportSpec => []ImpInv
<1>1. ImpInv /\ [ImportNext]_impVars => ImpInv'
  BY ImportsInductive
<1> QED BY <1>1, ImportsInitial, PTL DEF ImportSpec

\* A session that ended without committing has no copies of its own left: nobody is under
\* way in a closed or failed session who could still have to remove them.
LEMMA ImpInvWhole == ImpInv => ImportsWhole
<1> SUFFICES ASSUME ImpInv, NEW s \in Sessions, Status(s) \in {"rolled_back", "expired", "failed"}, ~torn[s],
                    NEW n \in Own(s), lib[n] # Nothing
             PROVE  FALSE
  BY DEF ImportsWhole, UndoneLeavesNothing, ImpInv, Own, Status
<1>1. PICK d \in Requests : req[d].s = s /\ req[d].pc \in Committing
  BY DEF ImpInv, SessOK, UndoneOK, Undoes, Committing
<1> QED BY <1>1 DEF ImpInv, ReqOK, CommitOK, Workers

\* An import changes the library as a whole or not at all: rows match their files, but for a
\* content whose upload once broke off while it was written, and a session that did not commit
\* leaves nothing of its own behind, unless its commit was cut off or failed as it copied
\* (import_upload_handler, import_commit_handler).
THEOREM ImportsAreWhole == ASSUME "collide" \notin Disturbances PROVE ImportSpec => []ImportsWhole
BY ImportsInvariant, ImpInvWhole, PTL

---------------------------------------------------------------------------
\* The sessions implement the contract.

Phases == [s \in Sessions |-> Phase(s)]
PublishedOf(d, l, i) ==
  [s \in Sessions |-> {d[s][n] : n \in {k \in FilesOf(d[s]) : l[k] = d[s][k] /\ i[k] = l[k]}}]
Published == PublishedOf(done, lib, imported)

\* What is published is not touched again.
Stays == \A o \in Sessions, n \in NameSet : done[o][n] # Nothing => lib'[n] = lib[n] /\ imported'[n] = imported[n]

LEMMA PublishedStays ==
  ASSUME ImpInv, [ImportNext]_impVars
  PROVE  Stays
<1>1. ASSUME UNCHANGED <<lib, imported>> PROVE Stays
  BY <1>1 DEF Stays
<1>2. ASSUME NEW c \in Requests, CommitCopies(c) \/ CommitFills(c) \/ CommitUpserts(c) PROVE Stays
  BY <1>2, CommitTouches DEF Stays, Writes
<1>3. CASE UNCHANGED impVars
  BY <1>1, <1>3 DEF impVars
<1>4. ASSUME NEW c \in Requests,
             \/ UploadWrites(c) \/ UploadStores(c) \/ UploadEnds(c)
             \/ CommitValidates(c) \/ CommitMarks(c) \/ DropRequest(c)
      PROVE  Stays
  BY <1>1, <1>4 DEF UploadWrites, UploadStores, UploadEnds, CommitValidates, CommitMarks, DropRequest
<1>5. ASSUME NEW c \in Requests, NEW s \in Sessions,
             CommitBegins(c, s) \/ RollbackBegins(c, s) \/ \E x \in Contents : UploadBegins(c, s, x)
      PROVE  Stays
  BY <1>1, <1>5 DEF CommitBegins, RollbackBegins, UploadBegins
<1>6. ASSUME NEW s \in Sessions, CreateSession(s) PROVE Stays
  BY <1>1, <1>6 DEF CreateSession
<1>7. ASSUME NEW c \in Workers, CleanSession(c) PROVE Stays
  BY <1>1, <1>7 DEF CleanSession
<1>8. CASE JanitorLists \/ JanitorExpires \/ Crash
  BY <1>1, <1>8 DEF JanitorLists, JanitorExpires, Crash
<1> QED BY <1>2, <1>3, <1>4, <1>5, <1>6, <1>7, <1>8 DEF ImportNext

LEMMA SamePublished ==
  ASSUME Stays, NEW o \in Sessions, done'[o] = done[o]
  PROVE  Published'[o] = Published[o]
<1>1. \A k \in FilesOf(done[o]) : lib'[k] = lib[k] /\ imported'[k] = imported[k]
  BY DEF Stays, FilesOf
<1>2. {k \in FilesOf(done[o]) : lib'[k] = done[o][k] /\ imported'[k] = lib'[k]}
      = {k \in FilesOf(done[o]) : lib[k] = done[o][k] /\ imported[k] = lib[k]}
  BY <1>1
<1>3. /\ Published[o] = {done[o][n] : n \in {k \in FilesOf(done[o]) : lib[k] = done[o][k] /\ imported[k] = lib[k]}}
      /\ Published'[o] = {done[o][n] : n \in {k \in FilesOf(done[o]) : lib'[k] = done[o][k] /\ imported'[k] = lib'[k]}}
  BY DEF Published, PublishedOf
<1> QED BY <1>2, <1>3

LEMMA PublishedKept ==
  ASSUME Stays, UNCHANGED done
  PROVE  Published' = Published
<1>1. \A o \in Sessions : Published'[o] = Published[o]
  BY SamePublished
<1> QED BY <1>1 DEF Published, PublishedOf

\* A step that changes no session's phase, acknowledges nothing and publishes nothing.
LEMMA ContractStutters ==
  ASSUME ImpInv, ImpInv', Stays, UNCHANGED <<acks, done, broken>>, \A o \in Sessions : Phase(o)' = Phase(o)
  PROVE  UNCHANGED Contract!contractVars
<1>1. Phases' = Phases
  BY DEF Phases
<1>2. Published' = Published
  BY PublishedKept
<1> QED BY <1>1, <1>2 DEF Contract!contractVars, Phases, Published, PublishedOf

\* A step that moves one session to another phase and does nothing else.
LEMMA PhaseMoves ==
  ASSUME ImpInv, ImpInv', Stays, UNCHANGED <<acks, done, broken>>, NEW s \in Sessions, NEW p, Phase(s)' = p,
         \A o \in Sessions \ {s} : Phase(o)' = Phase(o),
         \/ Phase(s) = p
         \/ Phase(s) = "none" /\ p = "open"
         \/ Phase(s) = "open" /\ p = "failed"
         \/ Phase(s) = "failed" /\ p = "open"
         \/ Phase(s) \in {"open", "failed"} /\ p \in {"rolled_back", "expired"}
  PROVE  Contract!ContractNext \/ UNCHANGED Contract!contractVars
<1>1. Phases' = [Phases EXCEPT ![s] = p] /\ Phases[s] = Phase(s)
  BY DEF Phases
<1>2. Published' = Published
  BY PublishedKept
<1>3. CASE Phase(s) = p
  BY <1>3, ContractStutters
<1>4. CASE Phase(s) = "none" /\ p = "open"
  <2>1. Contract!Open(s)
    BY <1>1, <1>2, <1>4 DEF Contract!Open, Phases, Published, PublishedOf
  <2> QED BY <2>1 DEF Contract!ContractNext
<1>5. CASE Phase(s) = "open" /\ p = "failed"
  <2>1. Contract!Fail(s)
    BY <1>1, <1>2, <1>5 DEF Contract!Fail, Phases, Published, PublishedOf
  <2> QED BY <2>1 DEF Contract!ContractNext
<1>6. CASE Phase(s) = "failed" /\ p = "open"
  <2>1. Contract!Reopen(s)
    BY <1>1, <1>2, <1>6 DEF Contract!Reopen, Phases, Published, PublishedOf
  <2> QED BY <2>1 DEF Contract!ContractNext
<1>7. CASE Phase(s) \in {"open", "failed"} /\ p \in {"rolled_back", "expired"}
  <2>1. Contract!Drop(s)
    BY <1>1, <1>2, <1>7 DEF Contract!Drop, Phases, Published, PublishedOf
  <2> QED BY <2>1 DEF Contract!ContractNext
<1> QED BY <1>3, <1>4, <1>5, <1>6, <1>7

\* A file is acknowledged.
LEMMA Acknowledges ==
  ASSUME ImpInv, ImpInv', Stays, UNCHANGED <<done, broken>>, NEW s \in Sessions, NEW x \in Contents,
         acks' = [acks EXCEPT ![s] = @ \union {x}], Phase(s) \in {"open", "failed"},
         \A o \in Sessions : Phase(o)' = Phase(o)
  PROVE  Contract!ContractNext
<1>1. Phases' = Phases /\ Phases[s] = Phase(s)
  BY DEF Phases
<1>2. Published' = Published
  BY PublishedKept
<1>3. Contract!Acknowledge(s, x)
  BY <1>1, <1>2 DEF Contract!Acknowledge, Phases, Published, PublishedOf
<1> QED BY <1>3 DEF Contract!ContractNext

\* Uploads break off.
LEMMA Breaks ==
  ASSUME ImpInv, ImpInv', Stays, UNCHANGED <<sess, acks, done>>, NEW cut \in [Sessions -> SUBSET Contents],
         \A o \in Sessions : cut[o] \intersect acks[o] = {},
         broken' = [o \in Sessions |-> broken[o] \union cut[o]]
  PROVE  Contract!ContractNext
<1>1. Phases' = Phases
  BY DEF Phases, Phase
<1>2. Published' = Published
  BY PublishedKept
<1>3. Contract!BreakOff
  BY <1>1, <1>2 DEF Contract!BreakOff, Phases, Published, PublishedOf
<1> QED BY <1>3 DEF Contract!ContractNext

LEMMA OneBreaks ==
  ASSUME ImpInv, ImpInv', Stays, UNCHANGED <<sess, acks, done>>, NEW c \in Requests, req[c].pc = "write",
         broken' = [broken EXCEPT ![req[c].s] = @ \union {req[c].x}]
  PROVE  Contract!ContractNext
<1>0. c \in Workers /\ req[c].pc \in Holding
  BY DEF Workers, Holding
<1>1. PICK s \in Sessions : s = req[c].s
  BY <1>0, OnlyHolder
<1>2. PICK x \in Contents : x = req[c].x /\ x \notin acks[s]
  BY <1>0, <1>1 DEF ImpInv, ReqOK, UploadOK
<1> DEFINE cut == [o \in Sessions |-> IF o = s THEN {x} ELSE {}]
<1>3. cut \in [Sessions -> SUBSET Contents] /\ \A o \in Sessions : cut[o] \intersect acks[o] = {}
  BY <1>2
<1>4. broken' = [o \in Sessions |-> broken[o] \union cut[o]]
  <2>1. broken = [o \in Sessions |-> broken[o]]
    BY DEF ImpInv, ImpTypes
  <2>2. broken' = [broken EXCEPT ![s] = broken[s] \union {x}]
    BY <1>1, <1>2
  <2>3. broken' = [o \in Sessions |-> IF o = s THEN broken[s] \union {x} ELSE broken[o]]
    BY <2>1, <2>2
  <2>4. \A o \in Sessions : (IF o = s THEN broken[s] \union {x} ELSE broken[o]) = broken[o] \union cut[o]
    OBVIOUS
  <2> QED BY <2>3, <2>4
<1> HIDE DEF cut
<1> QED BY <1>3, <1>4, Breaks

\* A commit publishes its files, all at once.
LEMMA Publishes ==
  ASSUME ImpInv, ImpInv', Stays, UNCHANGED <<acks, broken>>, NEW s \in Sessions, NEW f \in Maps,
         done' = [done EXCEPT ![s] = f], acks[s] \subseteq ContentsOf(f),
         Phase(s) = "open", Phase(s)' = "committed", \A o \in Sessions \ {s} : Phase(o)' = Phase(o)
  PROVE  Contract!ContractNext
<1>1. Phases' = [Phases EXCEPT ![s] = "committed"] /\ Phases[s] = "open"
  BY DEF Phases
<1> DEFINE files == Published'[s]
<1>2. done'[s] = f /\ \A o \in Sessions \ {s} : done'[o] = done[o]
  BY DEF ImpInv, ImpTypes
<1>3. files = {f[n] : n \in {k \in FilesOf(f) : lib'[k] = f[k] /\ imported'[k] = lib'[k]}}
  BY <1>2 DEF Published, PublishedOf
<1>4. files \in SUBSET Contents
  BY <1>3 DEF FilesOf, Maps
<1>5. ASSUME NEW x \in acks[s] \ broken[s] PROVE x \in files
  <2>1. PICK n \in FilesOf(f) : x = f[n]
    BY <1>5 DEF ContentsOf
  <2>2. imported'[n] = f[n] /\ (lib'[n] = f[n] \/ f[n] \in broken[s])
    BY <1>2, <2>1 DEF ImpInv, SessOK, DoneOK
  <2> QED BY <1>3, <1>5, <2>1, <2>2
<1>6. Published' = [Published EXCEPT ![s] = files]
  <2>1. \A o \in Sessions \ {s} : Published'[o] = Published[o]
    BY <1>2, SamePublished
  <2>2. Published' = [o \in Sessions |-> Published'[o]] /\ Published = [o \in Sessions |-> Published[o]]
    BY DEF Published, PublishedOf
  <2> QED BY <2>1, <2>2
<1> HIDE DEF files
<1>7. Contract!Publish(s)
  BY <1>1, <1>4, <1>5, <1>6 DEF Contract!Publish, Phases, Published, PublishedOf
<1> QED BY <1>7 DEF Contract!ContractNext

Unfinished == {"created", "uploading", "committing"}

LEMMA PhaseFacts ==
  ASSUME NEW s \in Sessions
  PROVE  /\ Status(s) \in Unfinished => Phase(s) = "open"
         /\ Status(s) \notin Unfinished => Phase(s) = Status(s)
         /\ Status(s)' \in Unfinished => Phase(s)' = "open"
         /\ Status(s)' \notin Unfinished => Phase(s)' = Status(s)'
         /\ sess'[s].status = sess[s].status => Phase(s)' = Phase(s)
  BY DEF Phase, Status, Unfinished

\* A change of one status, as set_import_session_status makes it.
LEMMA StatusMoves ==
  ASSUME ImpInv, ImpInv', Stays, UNCHANGED <<acks, done, broken>>, NEW s \in Sessions, NEW st \in Statuses,
         set_import_session_status(s, st),
         \/ Status(s) \in Closed
         \/ st = "created" /\ Status(s) = "none"
         \/ st = "uploading" /\ Status(s) # "none"
         \/ st = "committing" /\ Status(s) \notin {"none", "failed"}
         \/ st = "failed" /\ Status(s) \notin {"none"}
         \/ st \in {"rolled_back", "expired"} /\ Status(s) # "none"
  PROVE  Contract!ContractNext \/ UNCHANGED Contract!contractVars
<1>0. ImpTypes /\ Status(s) \in Statuses
  BY DEF ImpInv, ImpTypes, RowsTyped
<1>1. /\ \A o \in Sessions \ {s} : sess'[o] = sess[o]
      /\ Status(s)' = IF Status(s) \in Closed THEN Status(s) ELSE st
  BY <1>0, StatusSet DEF Status
<1>2. \A o \in Sessions \ {s} : Phase(o)' = Phase(o)
  BY <1>1, PhaseFacts
<1>3. CASE Status(s) \in Closed
  <2>1. Phase(s)' = Phase(s)
    BY <1>1, <1>3, PhaseFacts DEF Status
  <2> QED BY <1>2, <2>1, ContractStutters
<1>4. CASE Status(s) \notin Closed
  <2>1. Status(s)' = st
    BY <1>1, <1>4
  <2>2. CASE st \in Unfinished
    <3>1. Phase(s)' = "open"
      BY <2>1, <2>2, PhaseFacts
    <3>2. Phase(s) \in {"none", "open", "failed"}
      BY <1>0, <1>4, PhaseFacts DEF Statuses, Unfinished, Closed
    <3> QED BY <1>2, <3>1, <3>2, PhaseMoves
  <2>3. CASE st = "failed"
    <3>1. Phase(s)' = "failed"
      BY <2>1, <2>3, PhaseFacts DEF Unfinished
    <3>2. Phase(s) \in {"open", "failed"}
      BY <1>0, <1>4, <2>3, PhaseFacts DEF Statuses, Unfinished, Closed
    <3> QED BY <1>2, <3>1, <3>2, PhaseMoves
  <2>4. CASE st \in {"rolled_back", "expired"}
    <3>1. Phase(s)' = st
      BY <2>1, <2>4, PhaseFacts DEF Unfinished
    <3>2. Phase(s) \in {"open", "failed"}
      BY <1>0, <1>4, <2>4, PhaseFacts DEF Statuses, Unfinished, Closed
    <3> QED BY <1>2, <2>4, <3>1, <3>2, PhaseMoves
  <2> QED BY <1>4, <2>2, <2>3, <2>4 DEF Unfinished
<1> QED BY <1>3, <1>4

\* Every step of the sessions is a step of the contract or none.
LEMMA ContractStep ==
  ASSUME ImpInv, ImpInv', [ImportNext]_impVars
  PROVE  Contract!ContractNext \/ UNCHANGED Contract!contractVars
<1> DEFINE Goal == Contract!ContractNext \/ UNCHANGED Contract!contractVars
<1> SUFFICES Goal
  OBVIOUS
<1>0. ImpTypes /\ Requests \subseteq Workers /\ Stays
  BY PublishedStays DEF ImpInv, Workers
<1>1. ASSUME UNCHANGED <<sess, acks, done, broken>> PROVE Goal
  <2>1. \A o \in Sessions : Phase(o)' = Phase(o)
    BY <1>1, PhaseFacts
  <2> QED BY <1>0, <1>1, <2>1, ContractStutters
<1>2. CASE UNCHANGED impVars
  BY <1>1, <1>2 DEF impVars
<1>3. ASSUME NEW s \in Sessions, CreateSession(s) PROVE Goal
  <2>1. Status(s) = "none" /\ set_import_session_status(s, "created") /\ UNCHANGED <<acks, done, broken>>
    BY <1>3 DEF CreateSession, create_import_session, set_import_session_status, Status, Closed
  <2> QED BY <1>0, <2>1, StatusMoves DEF Statuses
<1>4. ASSUME NEW c \in Requests, NEW s \in Sessions, NEW x \in Contents, UploadBegins(c, s, x) PROVE Goal
  <2> DEFINE m == get_or_recover_session(s)
  <2>1. CASE UNCHANGED <<sess, acks>>
    BY <1>1, <1>4, <2>1 DEF UploadBegins
  <2>2. CASE /\ sess' = [sess EXCEPT ![s].count = Cardinality(FilesOf(m))]
             /\ acks' = [acks EXCEPT ![s] = @ \union {x}]
             /\ Status(s) \notin Closed
    <3>1. \A o \in Sessions : sess'[o].status = sess[o].status
      BY <1>0, <2>2, CountSet
    <3>2. \A o \in Sessions : Phase(o)' = Phase(o)
      BY <3>1, PhaseFacts
    <3>3. Status(s) \in Statuses /\ Status(s) # "none" /\ UNCHANGED <<done, broken>>
      BY <1>0, <1>4 DEF ImpTypes, RowsTyped, UploadBegins, Locks, Status
    <3>4. Phase(s) \in {"open", "failed"}
      BY <2>2, <3>3, PhaseFacts DEF Statuses, Unfinished, Closed
    <3> QED BY <1>0, <2>2, <3>2, <3>3, <3>4, Acknowledges
  <2> QED BY <1>4, <2>1, <2>2 DEF UploadBegins, Status
<1>5. ASSUME NEW c \in Requests, UploadStores(c) PROVE Goal
  <2>1. PICK s \in Sessions : s = req[c].s /\ Status(s) # "none"
    BY <1>0, <1>5, OnlyHolder DEF ImpInv, ReqOK, UploadOK, UploadStores, Holding
  <2>2. set_import_session_status(s, "uploading") /\ UNCHANGED <<acks, done, broken>>
    BY <1>5, <2>1 DEF UploadStores
  <2> QED BY <1>0, <2>1, <2>2, StatusMoves DEF Statuses
<1>6. ASSUME NEW c \in Requests, UploadEnds(c) PROVE Goal
  <2>1. PICK s \in Sessions : s = req[c].s /\ Status(s) \notin Closed \union {"none"} /\ Status(s) \in Statuses
    BY <1>0, <1>6, OnlyHolder DEF ImpInv, ImpTypes, RowsTyped, ReqOK, UploadOK, UploadEnds, Holding
  <2>2. PICK x \in Contents : x = req[c].x
    BY <1>0, <1>6 DEF ImpInv, ReqOK, UploadOK, UploadEnds
  <2>3. /\ sess' = [sess EXCEPT ![s].count = Cardinality(FilesOf(req[c].files))]
        /\ acks' = [acks EXCEPT ![s] = @ \union {x}] /\ UNCHANGED <<done, broken>>
    BY <1>6, <2>1, <2>2 DEF UploadEnds
  <2>4. \A o \in Sessions : sess'[o].status = sess[o].status
    BY <1>0, <2>3, CountSet
  <2>5. \A o \in Sessions : Phase(o)' = Phase(o)
    BY <2>4, PhaseFacts
  <2>6. Phase(s) \in {"open", "failed"}
    BY <2>1, PhaseFacts DEF Statuses, Unfinished, Closed
  <2> QED BY <1>0, <2>3, <2>5, <2>6, Acknowledges
<1>7. ASSUME NEW c \in Requests, NEW s \in Sessions, CommitBegins(c, s) PROVE Goal
  <2>1. CASE UNCHANGED sess
    BY <1>1, <1>7, <2>1 DEF CommitBegins
  <2>2. CASE set_import_session_status(s, "committing") /\ Status(s) # "failed"
    <3>1. Status(s) # "none" /\ UNCHANGED <<acks, done, broken>>
      BY <1>7 DEF CommitBegins, Locks, Status
    <3> QED BY <1>0, <2>2, <3>1, StatusMoves DEF Statuses
  <2> QED BY <1>7, <2>1, <2>2 DEF CommitBegins, Status
<1>8. ASSUME NEW c \in Requests, CommitValidates(c) \/ CommitUpserts(c) PROVE Goal
  <2>1. PICK s \in Sessions : s = req[c].s /\ Status(s) = "committing"
    BY <1>0, <1>8, OnlyHolder DEF ImpInv, ReqOK, CommitOK, CommitValidates, CommitUpserts, Holding, Committing, Removing
  <2>2. UNCHANGED <<acks, done, broken>> /\ (UNCHANGED sess \/ set_import_session_status(s, "failed"))
    BY <1>8, <2>1 DEF CommitValidates, CommitUpserts
  <2> QED BY <1>0, <1>1, <2>1, <2>2, StatusMoves DEF Statuses
<1>9. ASSUME NEW c \in Requests, CommitMarks(c) PROVE Goal
  <2>1. CASE UNCHANGED <<sess, done>>
    BY <1>1, <1>9, <2>1 DEF CommitMarks
  <2>2. CASE sess' = [sess EXCEPT ![req[c].s].status = "committed"] /\ done' = [done EXCEPT ![req[c].s] = req[c].files]
    <3>1. PICK s \in Sessions : s = req[c].s /\ Status(s) = "committing"
      BY <1>0, <1>9, OnlyHolder DEF ImpInv, ReqOK, CommitOK, CommitMarks, Holding, Committing, Removing
    <3>2. PICK f \in Maps : f = req[c].files /\ acks[s] \subseteq ContentsOf(f)
      BY <1>0, <1>9, <3>1 DEF ImpInv, ImpTypes, Reqs, ReqOK, CommitOK, CommitMarks, Committing, Removing
    <3>3. set_import_session_status(s, "committed")
      BY <2>2, <3>1 DEF set_import_session_status, Status, Closed
    <3>4. (\A o \in Sessions \ {s} : sess'[o] = sess[o]) /\ Status(s)' = "committed"
      BY <1>0, <3>1, <3>3, StatusSet DEF Statuses, Status, Closed
    <3>5. /\ Phase(s) = "open" /\ Phase(s)' = "committed"
          /\ \A o \in Sessions \ {s} : Phase(o)' = Phase(o)
      BY <3>1, <3>4, PhaseFacts DEF Unfinished
    <3>6. done' = [done EXCEPT ![s] = f] /\ UNCHANGED <<acks, broken>>
      BY <1>9, <2>2, <3>1, <3>2 DEF CommitMarks
    <3> QED BY <1>0, <3>2, <3>5, <3>6, Publishes
  <2> QED BY <1>9, <2>1, <2>2 DEF CommitMarks
<1>10. ASSUME NEW c \in Requests, NEW s \in Sessions, RollbackBegins(c, s) PROVE Goal
  <2>1. Status(s) # "none" /\ UNCHANGED <<acks, done, broken>> /\ (UNCHANGED sess \/ set_import_session_status(s, "rolled_back"))
    BY <1>10 DEF RollbackBegins, Locks, Status
  <2> QED BY <1>0, <1>1, <2>1, StatusMoves DEF Statuses, Closed
<1>11. CASE JanitorExpires
  <2>1. PICK s \in Sessions : s = req["janitor"].s /\ Status(s) # "none"
    BY <1>11 DEF JanitorExpires, ImpInv, ReqOK, EndOK, Workers
  <2>2. set_import_session_status(s, "expired") /\ UNCHANGED <<acks, done, broken>>
    BY <1>11, <2>1 DEF JanitorExpires, expire_import_session
  <2> QED BY <1>0, <2>1, <2>2, StatusMoves DEF Statuses, Closed
<1>12. ASSUME NEW c \in Workers, CommitCopies(c) \/ CommitFills(c) \/ CleanSession(c) \/ JanitorLists PROVE Goal
  BY <1>1, <1>12 DEF CommitCopies, CommitFills, CleanSession, JanitorLists
<1>13. ASSUME NEW c \in Requests, UploadWrites(c) \/ DropRequest(c) PROVE Goal
  <2>1. UNCHANGED <<sess, acks, done>>
    BY <1>13 DEF UploadWrites, DropRequest
  <2>2. \/ UNCHANGED broken
        \/ req[c].pc = "write" /\ broken' = [broken EXCEPT ![req[c].s] = @ \union {req[c].x}]
    BY <1>13 DEF UploadWrites, DropRequest
  <2> QED BY <1>0, <1>1, <2>1, <2>2, OneBreaks
<1>15. CASE Crash
  <2> DEFINE cut == [o \in Sessions |-> {req[c].x : c \in {d \in Requests : req[d].s = o /\ req[d].pc = "write"}}]
  <2>1. UNCHANGED <<sess, acks, done>> /\ broken' = [o \in Sessions |-> broken[o] \union cut[o]]
    BY <1>15 DEF Crash
  <2>2. ASSUME NEW o \in Sessions, NEW d \in Requests, req[d].s = o, req[d].pc = "write"
        PROVE  req[d].x \in Contents \ acks[o]
    BY <1>0, <2>2 DEF ImpInv, ReqOK, UploadOK
  <2>3. cut \in [Sessions -> SUBSET Contents] /\ \A o \in Sessions : cut[o] \intersect acks[o] = {}
    BY <2>2
  <2> HIDE DEF cut
  <2> QED BY <1>0, <2>1, <2>3, Breaks
<1> HIDE DEF Goal
<1>14. CASE ImportNext
  <2>1. ASSUME NEW c \in Requests,
               \/ UploadWrites(c) \/ UploadStores(c) \/ UploadEnds(c)
               \/ CommitValidates(c) \/ CommitCopies(c) \/ CommitFills(c)
               \/ CommitUpserts(c) \/ CommitMarks(c) \/ DropRequest(c)
        PROVE  Goal
    BY <1>0, <1>5, <1>6, <1>8, <1>9, <1>12, <1>13, <2>1
  <2>2. ASSUME NEW c \in Requests, NEW s \in Sessions,
               CommitBegins(c, s) \/ RollbackBegins(c, s) \/ \E x \in Contents : UploadBegins(c, s, x)
        PROVE  Goal
    BY <1>4, <1>7, <1>10, <2>2
  <2>3. "janitor" \in Workers
    BY DEF Workers
  <2> QED BY <1>3, <1>11, <1>12, <1>14, <1>15, <2>1, <2>2, <2>3 DEF ImportNext
<1> QED BY <1>2, <1>14

\* The sessions implement the contract: what was acknowledged is published by the commit,
\* at once and for good, and an ended session stays ended, across restarts, dropped
\* requests and the janitor (routes/v1/import.rs).  Contents whose writing once broke off
\* before they were acknowledged are the contract's exception.
THEOREM ContractIsKept == ASSUME "collide" \notin Disturbances PROVE ImportSpec => ImplementsContract
<1>1. ImportInit => Contract!ContractInit
  <2> SUFFICES ASSUME ImportInit PROVE Contract!ContractInit
    OBVIOUS
  <2>2. \A s \in Sessions : Phase(s) = "none"
    BY PhaseFacts DEF ImportInit, Status, Unfinished
  <2>3. \A s \in Sessions : FilesOf(done[s]) = {}
    BY NoFilesFacts DEF ImportInit
  <2>4. Published = [s \in Sessions |-> {}]
    BY <2>3 DEF Published, PublishedOf
  <2> QED BY <2>2, <2>4 DEF ImportInit, Contract!ContractInit, Published, PublishedOf
<1>2. ImpInv /\ ImpInv' /\ [ImportNext]_impVars => [Contract!ContractNext]_Contract!contractVars
  BY ContractStep
<1>3. ImportSpec => []ImpInv
  BY ImportsInvariant
<1> QED BY <1>1, <1>2, <1>3, PTL DEF ImportSpec, ImplementsContract, Contract!ContractSpec
=============================================================================
