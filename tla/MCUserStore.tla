----------------------------- MODULE MCUserStore -----------------------------
(***************************************************************************)
(* Instances of UserStore for TLC.  The bounds of each run are in its cfg. *)
(***************************************************************************)
EXTENDS UserStore, TLC

\* A hash that was never written, and one of a user who changed the settings.
MCOldProfiles == {None, [sol |-> 0, tierBal |-> 0, auto |-> "true", risk |-> "med"]}

\* Handles, keys and slots are interchangeable: no action or property names one.
Symmetry == Permutations(Handles) \cup Permutations(Keys) \cup Permutations(Slots)
=============================================================================
