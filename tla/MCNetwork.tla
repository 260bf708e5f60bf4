----------------------------- MODULE MCNetwork -----------------------------
(* Small instances of Network for TLC. *)
EXTENDS Network, TLC

Symmetry == Permutations(Phones) \cup Permutations(Handlers) \cup Permutations(Starting)

============================================================================
