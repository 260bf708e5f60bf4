---------------------------- MODULE MCAdminLogin ----------------------------
(* Small instances of AdminLogin for TLC. *)
EXTENDS AdminLogin, TLC

Symmetry == Permutations(Tabs)

=============================================================================
