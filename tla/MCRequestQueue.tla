--------------------------- MODULE MCRequestQueue ---------------------------
(* Values of RequestQueue's constants for TLC.                             *)
EXTENDS RequestQueue

CONSTANTS r1, r2, r3, d1, d2

\* Two requests of one delegate, the third of another one.
TwoOwners == [r \in {r1, r2, r3} |-> IF r = r3 THEN d2 ELSE d1]

\* One request of each background policy that acts on a transition.
MixedPolicies == (r1 :> "continue") @@ (r2 :> "requeue") @@ (r3 :> "cancel")

\* RKRequest's default: nothing happens on a transition.
NoPolicies == [r \in {r1, r2, r3} |-> "none"]
RequeuePolicies == [r \in {r1, r2, r3} |-> "requeue"]
=============================================================================
