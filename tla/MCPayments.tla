----------------------------- MODULE MCPayments -----------------------------
(* Values of the constants of Payments, Statements and ReceiptPages for TLC. *)
EXTENDS ReceiptPages, TLC

CONSTANTS w1, w2, e1, e2, m1, s1

(* Bound: requests overlap only when they go by the same row or account,   *)
(* once in a behaviour, and nothing is deleted or cut off after that.      *)
OneRace ==
  /\ \A w, v \in Request : w # v /\ tx[w] # Idle /\ tx[v] # Idle =>
       raced = {} /\ Concerns(w) \cap Concerns(v) # {}
  /\ raced # {} => gone = {} /\ crashes = 0

(* Requests are interchangeable, and no liveness is checked. *)
Symmetric == Permutations(Request)

L(a, n) == [account |-> a, amount |-> n]

Requests  == {w1, w2}
OneLine   == {<<L(e1, 1)>>, <<L(e2, 1)>>}
Booleans  == BOOLEAN
Statuses  == (e1 :> "active") @@ (e2 :> "completed")
Levels    == {{e1}, {e2}}
OpenLevels == {{e1}}
StartOf   == [l \in Level |-> IF e1 \in l THEN 1 ELSE 2]
HasOwn    == {{e1}}
Students  == [a \in Account |-> s1]
Tomorrow  == [e \in Enrollment |-> 1]
Fees      == [m \in Member |-> 2]
Days      == {1, 2}
DayOfRow  == [p \in PaymentId |-> IF p = 1 THEN 1 ELSE 2]
MethodOfRow == [p \in PaymentId |-> IF p = 2 THEN "card" ELSE "cash"]
=============================================================================
