----------------------------- MODULE MCAccounts -----------------------------
(***************************************************************************)
(* Small instances of Accounts.                                            *)
(***************************************************************************)
EXTENDS Accounts, TLC

CONSTANTS u1, u2, s1, s2, c1, c2

AnyForm == [active : BOOLEAN, admin : BOOLEAN, must : BOOLEAN, reset : BOOLEAN]
RoleForms == {f \in AnyForm : ~f.must /\ ~f.reset}
ResetForms == {f \in AnyForm : f.admin /\ ~f.must /\ (f.reset => f.active)}

Everything == Permutations({c1, c2}) \cup Permutations({s1, s2}) \cup Permutations({u1, u2})
=============================================================================
