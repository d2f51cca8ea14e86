----------------------------- MODULE MCAccounts -----------------------------
(* Values of the constants of AccountPages for TLC. *)
EXTENDS AccountPages, TLC

CONSTANTS e1, u1, u2, i1, i2, n1, n2, r1, r2

Symmetric == Permutations(Employee) \cup Permutations(User \ {Root})
             \cup Permutations(Identity \ {RootUid}) \cup Permutations(Name \ {RootName})
             \cup Permutations(Request)

(* Bound: nobody blocks or deletes the administrator who was there first.  *)
RootStays == SignsIn(Root)

OneStaff == {e1}
Users    == {Root, u1, u2}
Uids     == {RootUid, i1, i2}
Names    == {RootName, n1, n2}
Calls    == {r1, r2}
=============================================================================
