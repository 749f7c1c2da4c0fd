-------------------------------- MODULE MCCatalog --------------------------------
(***************************************************************************)
(* What the server keeps for its user, checked in one run: the scanned     *)
(* library, imports, playlists, settings with scrobbling, and streams.     *)
(* They share no variable, so a behaviour follows one of them, `focus`,    *)
(* and the others stay in an initial state; no case of any of them is      *)
(* lost.                                                                   *)
(***************************************************************************)
EXTENDS LibraryScan, Imports, Playlists, Settings, Streaming, TLC

VARIABLE focus  \* the component this behaviour is about

SameName(x) == 1

\* A server that transcodes to the configured profile, and one that never transcodes.
Busy == [policy |-> "StandardOnly", profile |-> "Mp3Compatibility192", resource |-> "Balanced", cap |-> 500]
Idle == [policy |-> "StandardOnly", profile |-> "Original", resource |-> "Eco", cap |-> 500]
BothServers == {Busy, Idle}

\* A library that nothing was ever scanned into.
Bare == vol = [f \in Paths |-> 0] /\ mount = "bare"

Init ==
  /\ focus \in {"library", "imports", "playlists", "settings", "streams"}
  /\ ScanInit /\ (focus # "library" => Bare)
  /\ ImportInit /\ (focus # "imports" => lib = NoFiles)
  /\ PlaylistInit
  /\ SetInit /\ (focus # "settings" => env = [profile |-> Unset, listenbrainz |-> "none", opensubsonic |-> FALSE])
  /\ StreamInit /\ (focus # "streams" => setup = Idle)

Next ==
  /\ UNCHANGED focus
  /\ \/ focus = "library" /\ ScanNext /\ UNCHANGED <<impVars, plVars, setVars, streamVars>>
     \/ focus = "imports" /\ ImportNext /\ UNCHANGED <<scanVars, plVars, setVars, streamVars>>
     \/ focus = "playlists" /\ PlaylistNext /\ UNCHANGED <<scanVars, impVars, setVars, streamVars>>
     \/ focus = "settings" /\ SetNext /\ UNCHANGED <<scanVars, impVars, plVars, streamVars>>
     \/ focus = "streams" /\ StreamNext /\ UNCHANGED <<scanVars, impVars, plVars, setVars>>

Spec == Init /\ [][Next]_<<focus, scanVars, impVars, plVars, setVars, streamVars>>

\* The instance gives the components the same two callers and the same two pieces of
\* content, so that one permutation serves them all.
Symmetry == Permutations(Sessions) \union Permutations(Requests) \union Permutations(Contents)
=============================================================================
