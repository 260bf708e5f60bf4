----------------------------- MODULE MCAccounts -----------------------------
(* Small instances of Accounts for TLC. *)
EXTENDS Accounts, TLC

CONSTANTS e1, e2, s1

\* The social account brings the e-mail one may also register with.
EmailOfOne == s1 :> e1

Symmetry == Permutations(Browsers)

=============================================================================
