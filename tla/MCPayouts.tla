----------------------------- MODULE MCPayouts -----------------------------
(* Small instances of Payouts for TLC. *)
EXTENDS Payouts, TLC

Symmetry == Permutations(Rewards) \cup Permutations(Handlers)

============================================================================
