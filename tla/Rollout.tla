------------------------------ MODULE Rollout ------------------------------
(***************************************************************************)
(* What install and upgrade promise of each package, without requests,     *)
(* pages, failures or interleavings: a release is started only when what   *)
(* it needs is in place, one helm operation at a time works on it, and     *)
(* once deployed it is only ever upgraded, never taken away.  A package    *)
(* that is created from a manifest has no release that helm works on.      *)
(***************************************************************************)
CONSTANTS
    Pkg,
    Manifest \* the packages created from a manifest

VARIABLES
    release, \* Pkg -> the state of the release
    ready    \* the packages whose secrets and database are in place

rvars == <<release, ready>>

Become(p, state) ==
    /\ release' = [release EXCEPT ![p] = state]
    /\ UNCHANGED ready

Init ==
    /\ release = [p \in Pkg |-> "absent"]
    /\ ready \in SUBSET Pkg

(* What was put in place stays. *)
Prepare ==
    /\ ready' \in SUBSET Pkg
    /\ ready \subseteq ready'
    /\ UNCHANGED release

Install(p) ==
    /\ release[p] = "absent"
    /\ p \in ready
    /\ Become(p, "pending-install")

(* --atomic: an install that fails leaves nothing. *)
Purge(p) == release[p] = "pending-install" /\ Become(p, "absent")

Upgrade(p) == release[p] = "deployed" /\ Become(p, "pending-upgrade")

Settle(p) ==
    /\ release[p] \in {"pending-install", "pending-upgrade"}
    /\ Become(p, "deployed")

(* A manifest is created object by object, and a retry creates the rest. *)
Apply(p) ==
    /\ release[p] \in {"absent", "partial"}
    /\ \E state \in {"partial", "deployed"} : Become(p, state)

Next ==
    \/ Prepare
    \/ \E p \in Pkg \ Manifest :
          Install(p) \/ Purge(p) \/ Upgrade(p) \/ Settle(p)
    \/ \E p \in Pkg \cap Manifest : Apply(p)

Spec == Init /\ [][Next]_rvars
=============================================================================
