---------------------------- MODULE MCReferrals ----------------------------
(* Small instances of Referrals for TLC. *)
EXTENDS FixationRefinement, TLC

\* Agents, phones and handler slots are interchangeable.
Symmetry ==
  Permutations(Agents) \cup Permutations(Phones) \cup Permutations(Requests)

============================================================================
