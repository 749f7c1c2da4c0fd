-------------------------------- MODULE MCServices --------------------------------
(***************************************************************************)
(* The services around playback, checked in one run: jobs and module       *)
(* switches, accounts, device pairing, presence, output groups, backups.   *)
(* They share no variable, so a behaviour follows one of them, `focus`,    *)
(* and the others stay in an initial state; no case of any of them is      *)
(* lost.  Of module Jobs, jobs and switches are followed apart: all that   *)
(* joins them is that the supervisor waits while every module is off.      *)
(***************************************************************************)
EXTENDS Jobs, Accounts, DevicePairing, Presence, Outputs, Backups, TLC

VARIABLE focus  \* the component this behaviour is about

Init ==
  /\ focus \in {"jobs", "switches", "accounts", "devices", "presence", "outputs", "backups"}
  /\ JobInit
  /\ AccInit /\ (focus # "accounts" => \A u \in UserIds : users[u] = Nobody)
  /\ DevInit
  /\ PresInit /\ (focus # "presence" => \A p \in Peers : projected[p].presence = "none")
  /\ OutInit /\ (focus # "outputs" => \A c \in Chains : chain[c].st = "new" /\ LinksOf(c) = {})
  /\ BakInit /\ (focus # "backups" => stock = Empty)

Next ==
  /\ UNCHANGED focus
  /\ \/ focus = "jobs" /\ JobNext /\ UNCHANGED swVars
        /\ UNCHANGED <<accVars, devVars, presVars, outVars, bakVars>>
     \/ focus = "switches" /\ JobNext /\ UNCHANGED row
        /\ UNCHANGED <<accVars, devVars, presVars, outVars, bakVars>>
     \/ focus = "accounts" /\ AccNext /\ UNCHANGED <<jobVars, devVars, presVars, outVars, bakVars>>
     \/ focus = "devices" /\ DevNext /\ UNCHANGED <<jobVars, accVars, presVars, outVars, bakVars>>
     \/ focus = "presence" /\ PresNext /\ UNCHANGED <<jobVars, accVars, devVars, outVars, bakVars>>
     \/ focus = "outputs" /\ OutNext /\ UNCHANGED <<jobVars, accVars, devVars, presVars, bakVars>>
     \/ focus = "backups" /\ BakNext /\ UNCHANGED <<jobVars, accVars, devVars, presVars, outVars>>

Spec == Init /\ [][Next]_<<focus, jobVars, accVars, devVars, presVars, outVars, bakVars>>

\* The instance gives the components the same two callers and the same two subjects, so
\* that one permutation serves them all.
Symmetry == Permutations(Callers) \union Permutations(UserIds) \union Permutations(LinkIds)
=============================================================================
