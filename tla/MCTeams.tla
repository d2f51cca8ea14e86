------------------------------ MODULE MCTeams -------------------------------
(* Values of the constants of Teams for TLC. *)
EXTENDS TeamPages, TLC

(* Requests, students and names are interchangeable, and no liveness is checked. *)
Symmetry == Permutations(Request) \cup Permutations(Student) \cup Permutations(Name)
=============================================================================
