-------------------------- MODULE MCReportDelivery --------------------------
(* Small instances of ReportDelivery. *)
EXTENDS ReportDelivery, FiniteSets, TLC

CONSTANTS r1, r2, a, b, q1, q2

OneReport  == {r1}
TwoReports == {r1, r2}
OneContact == {a}
Contacts   == {a, b}
Requests   == {q1, q2}

(* Two recipients, in order; a recipient alone; one configured twice. *)
Lists        == {<<a, b>>, <<a, a>>}
SingleList   == {<<a>>}
SingleOrDouble == {<<a>>, <<a, a>>}

AllFaults    == FaultKind
PromptFaults == FaultKind \ {"slow_send"}
SlowOnly     == {"slow_send"}

RequestSymmetry == Permutations(Requests)
=============================================================================
