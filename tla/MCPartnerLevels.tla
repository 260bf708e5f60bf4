-------------------------- MODULE MCPartnerLevels --------------------------
(* Small instances of PartnerLevels for TLC. *)
EXTENDS PartnerLevels, TLC

CONSTANTS a1, a2, d1, d2, d3

\* Two contracts make a1 ACTIVE, one leaves a2 at START.
OwnerOfThree == d1 :> a1 @@ d2 :> a1 @@ d3 :> a2

AllLevels == Levels

\* A hand edit gives a level the contracts of the instance cannot.
OneLevel == {"PRO"}

\* The two deals of a1 are interchangeable.
SwapDeals == Permutations({d1, d2})

============================================================================
