----------------------------- MODULE MCStudents -----------------------------
(* Values of the constants of StudentPages for TLC. *)
EXTENDS StudentPages, TLC

(* Requests are interchangeable, and no liveness is checked. *)
Symmetry == Permutations(Request)
=============================================================================
