---------------------------- MODULE PaymentsProofs ----------------------------
(***************************************************************************)
(* Proofs about Payments, and about the queries of Statements and          *)
(* ReceiptPages over its tables, for any number of enrollments, members,   *)
(* rows and crashes.  The sums of an account take an induction, which goes *)
(* through a set of naturals: InductiveSet, which stands on the least      *)
(* element of a set of naturals, where an induction over a predicate would *)
(* need an operator for its parameter.  The sums of a query take none:     *)
(* they count units, and sets are counted by bijections.                   *)
(***************************************************************************)
EXTENDS ReceiptPages, FiniteSetTheorems, FunctionTheorems, SequenceTheorems,
        WellFoundedInduction, TLAPS

(***************************************************************************)
(* Sums.                                                                   *)
(***************************************************************************)

(* Induction over the naturals, for the n of a set. *)
LEMMA InductiveSet ==
  ASSUME NEW S, 0 \in S, \A n \in Nat : n \in S => n + 1 \in S
  PROVE  Nat \subseteq S
<1> DEFINE Less == {x \in Nat \X Nat : x[1] < x[2]}
           Left == Nat \ S
<1>1. IsWellFoundedOn(Less, Nat)
  BY NatLessThanWellFounded DEF OpToRel
<1>2. SUFFICES ASSUME Left # {} PROVE FALSE
  OBVIOUS
<1>3. PICK k \in Left : \A j \in Left : ~ (<<j, k>> \in Less)
  <2>1. Left \subseteq Nat
    OBVIOUS
  <2> HIDE DEF Less, Left
  <2> QED
    BY <1>1, <1>2, <2>1, WFMin
<1>4. k \in Nat /\ k # 0
  OBVIOUS
<1>5. k - 1 \in Nat /\ <<k - 1, k>> \in Less
  BY <1>4
<1>6. k - 1 \in S
  BY <1>3, <1>5
<1>7. (k - 1) + 1 \in S
  BY <1>5, <1>6
<1> QED
  BY <1>4, <1>7

(* f[i] is the sum of the first i entries. *)
Adds(f, s, n) ==
  /\ f[0] = 0 /\ \A i \in 0 .. n : f[i] \in Int
  /\ \A i \in 1 .. n : f[i] = f[i - 1] + s[i]

(* What Total chooses is there: the running sum of the sequence.           *)
LEMMA Sums ==
  ASSUME NEW s \in Seq(Int)
  PROVE  \E f : Adds(f, s, Len(s)) /\ f[Len(s)] = Total(s)
<1> DEFINE Step(n, g) == g = [i \in 0 .. n |-> IF i = 0 THEN 0 ELSE g[i - 1] + s[i]]
           S == {n \in Nat : n <= Len(s) => \E g : Step(n, g)}
           f == CHOOSE g : Step(Len(s), g)
<1>0. Len(s) \in Nat /\ \A i \in 1 .. Len(s) : s[i] \in Int
  BY LenProperties, ElementOfSeq
<1>1. 0 \in S
  <2>1. Step(0, [i \in 0 .. 0 |-> 0])
    OBVIOUS
  <2> QED
    BY <2>1
<1>2. ASSUME NEW n \in Nat, n \in S PROVE n + 1 \in S
  <2>1. SUFFICES ASSUME n + 1 <= Len(s) PROVE \E g : Step(n + 1, g)
    OBVIOUS
  <2>2. PICK g : Step(n, g)
    BY <1>0, <1>2, <2>1
  <2> DEFINE h == [i \in 0 .. n + 1 |-> IF i = n + 1 THEN g[n] + s[n + 1] ELSE g[i]]
  <2>3. ASSUME NEW i \in 0 .. n + 1
        PROVE  h[i] = IF i = 0 THEN 0 ELSE h[i - 1] + s[i]
    <3>1. CASE i = n + 1
      BY <3>1
    <3>2. CASE i \in 0 .. n
      <4>1. g[i] = IF i = 0 THEN 0 ELSE g[i - 1] + s[i]
        BY <2>2, <3>2
      <4> QED
        BY <3>2, <4>1
    <3> QED
      BY <3>1, <3>2
  <2>4. Step(n + 1, h)
    BY <2>3
  <2> QED
    BY <2>4
<1>3. \E g : Step(Len(s), g)
  <2> HIDE DEF Step
  <2>1. Nat \subseteq S
    <3> HIDE DEF S
    <3> QED
      BY <1>1, <1>2, InductiveSet
  <2> QED
    BY <1>0, <2>1
<1>4. Step(Len(s), f)
  BY <1>3
<1>5. Total(s) = f[Len(s)]
  BY DEF Total
<1> HIDE DEF f
<1>6. f[0] = 0 /\ DOMAIN f = 0 .. Len(s) /\ \A i \in 1 .. Len(s) : f[i] = f[i - 1] + s[i]
  BY <1>0, <1>4
<1>7. \A i \in 0 .. Len(s) : f[i] \in Int
  <2> DEFINE T == {n \in Nat : n <= Len(s) => f[n] \in Int}
  <2>1. 0 \in T /\ \A n \in Nat : n \in T => n + 1 \in T
    BY <1>0, <1>6
  <2>2. Nat \subseteq T
    <3> HIDE DEF T
    <3> QED
      BY <2>1, InductiveSet
  <2> QED
    BY <1>0, <2>2
<1> QED
  BY <1>5, <1>6, <1>7 DEF Adds

(* One more entry. *)
LEMMA AddsNext ==
  ASSUME NEW N \in Nat, NEW n \in Nat, n + 1 <= N, NEW f, NEW s, Adds(f, s, N)
  PROVE  /\ f[n + 1] = f[n] + s[n + 1] /\ f[n] \in Int /\ f[n + 1] \in Int
         /\ n \in 0 .. N /\ n + 1 \in 1 .. N
<1>1. n \in 0 .. N /\ n + 1 \in 0 .. N /\ n + 1 \in 1 .. N /\ (n + 1) - 1 = n
  OBVIOUS
<1> QED
  BY <1>1 DEF Adds

(* Sequences of naturals are sequences of integers. *)
LEMMA NatsAreInts ==
  ASSUME NEW s \in Seq(Nat)
  PROVE  s \in Seq(Int)
<1>1. Len(s) \in Nat /\ s \in [1 .. Len(s) -> Nat]
  BY ElementOfSeq, LenProperties
<1>2. s \in [1 .. Len(s) -> Int]
  BY <1>1
<1> QED
  BY <1>1, <1>2, IsASeq

(* A total is a number. *)
LEMMA TotalIsInt ==
  ASSUME NEW s \in Seq(Int)
  PROVE  Total(s) \in Int
<1>1. Len(s) \in Nat
  BY LenProperties
<1>2. PICK f : Adds(f, s, Len(s)) /\ f[Len(s)] = Total(s)
  BY Sums
<1> QED
  BY <1>1, <1>2 DEF Adds

(* A total bounds each of its members, and that of zeros is zero.          *)
LEMMA TotalBounds ==
  ASSUME NEW s \in Seq(Nat)
  PROVE  /\ Total(s) \in Nat /\ \A i \in DOMAIN s : s[i] <= Total(s)
         /\ (\A i \in DOMAIN s : s[i] = 0) => Total(s) = 0
<1>1. PICK N \in Nat : N = Len(s) /\ DOMAIN s = 1 .. N
  BY LenProperties
<1>2. \A i \in 1 .. N : s[i] \in Nat
  BY <1>1, ElementOfSeq
<1>3. PICK f : Adds(f, s, N) /\ f[N] = Total(s)
  BY <1>1, NatsAreInts, Sums
<1> DEFINE S == {n \in Nat : n <= N =>
                   /\ f[n] >= 0 /\ \A i \in 1 .. n : s[i] <= f[n]
                   /\ (\A i \in 1 .. n : s[i] = 0) => f[n] = 0}
<1>4. Nat \subseteq S
  <2>1. 0 \in S
    BY <1>3 DEF Adds
  <2>2. ASSUME NEW n \in Nat, n \in S, n + 1 <= N PROVE n + 1 \in S
    <3>1. f[n + 1] = f[n] + s[n + 1] /\ f[n] \in Int /\ n + 1 \in 1 .. N
      BY <1>3, <2>2, AddsNext
    <3>2. s[n + 1] \in Nat /\ \A i \in 1 .. n : s[i] \in Nat
      BY <1>2, <2>2
    <3>3. /\ f[n] >= 0 /\ (\A i \in 1 .. n : s[i] <= f[n])
          /\ ((\A i \in 1 .. n : s[i] = 0) => f[n] = 0)
      BY <2>2
    <3>4. f[n + 1] >= 0 /\ f[n + 1] >= f[n] /\ f[n + 1] >= s[n + 1] /\ f[n + 1] \in Int
      <4>1. \A x \in Int, y \in Nat :
              x >= 0 => x + y >= 0 /\ x + y >= x /\ x + y >= y /\ x + y \in Int
        OBVIOUS
      <4> QED
        BY <3>1, <3>2, <3>3, <4>1
    <3>5. ASSUME NEW i \in 1 .. n + 1 PROVE s[i] <= f[n + 1]
      <4>1. CASE i = n + 1
        BY <3>4, <4>1
      <4>2. CASE i \in 1 .. n
        <5>1. \A x \in Nat, y, z \in Int : x <= y /\ z >= y => x <= z
          OBVIOUS
        <5> QED
          BY <3>1, <3>2, <3>3, <3>4, <4>2, <5>1
      <4> QED
        BY <2>2, <4>1, <4>2
    <3>6. ASSUME \A i \in 1 .. n + 1 : s[i] = 0 PROVE f[n + 1] = 0
      <4>1. s[n + 1] = 0 /\ \A i \in 1 .. n : s[i] = 0
        BY <2>2, <3>6
      <4> QED
        BY <3>1, <3>3, <4>1
    <3> QED
      BY <3>4, <3>5, <3>6
  <2>3. \A n \in Nat : ~ (n + 1 <= N) => n + 1 \in S
    OBVIOUS
  <2> HIDE DEF S
  <2>4. \A n \in Nat : n \in S => n + 1 \in S
    BY <2>2, <2>3
  <2> QED
    BY <2>1, <2>4, InductiveSet
<1>5. /\ f[N] >= 0 /\ \A i \in 1 .. N : s[i] <= f[N]
      /\ (\A i \in 1 .. N : s[i] = 0) => f[N] = 0
  <2>1. N \in S
    BY <1>4
  <2> QED
    BY <2>1
<1>6. f[N] \in Int
  BY <1>3 DEF Adds
<1> HIDE DEF S
<1> QED
  BY <1>1, <1>3, <1>5, <1>6

(* The total of two sequences in a row. *)
LEMMA TotalConcat ==
  ASSUME NEW s \in Seq(Int), NEW t \in Seq(Int)
  PROVE  Total(s \o t) = Total(s) + Total(t)
<1> DEFINE u == s \o t
<1>1. u \in Seq(Int) /\ Len(u) = Len(s) + Len(t)
      /\ (\A i \in 1 .. Len(s) : u[i] = s[i])
      /\ (\A i \in 1 .. Len(t) : u[Len(s) + i] = t[i])
  BY ConcatProperties
<1> HIDE DEF u
<1>2. PICK N \in Nat, M \in Nat : N = Len(s) /\ M = Len(t)
  BY LenProperties
<1>3. /\ Len(u) = N + M
      /\ (\A i \in 1 .. N : u[i] = s[i]) /\ (\A i \in 1 .. M : u[N + i] = t[i])
      /\ \A i \in 1 .. M : t[i] \in Int
  BY <1>1, <1>2, ElementOfSeq
<1>4. PICK f : Adds(f, s, N) /\ f[N] = Total(s)
  BY <1>2, Sums
<1>5. PICK g : Adds(g, t, M) /\ g[M] = Total(t)
  BY <1>2, Sums
<1>6. PICK h : Adds(h, u, N + M) /\ h[N + M] = Total(u)
  BY <1>1, <1>3, Sums
<1> DEFINE S == {n \in Nat : n <= N => h[n] = f[n]}
           T == {n \in Nat : n <= M => h[N + n] = f[N] + g[n]}
<1>7. Nat \subseteq S
  <2>1. 0 \in S
    BY <1>4, <1>6 DEF Adds
  <2>2. ASSUME NEW n \in Nat, n \in S, n + 1 <= N PROVE n + 1 \in S
    <3>1. h[n] = f[n] /\ n + 1 <= N + M /\ n + 1 \in 1 .. N
      BY <2>2
    <3>2. f[n + 1] = f[n] + s[n + 1] /\ h[n + 1] = h[n] + u[n + 1]
      BY <1>4, <1>6, <2>2, <3>1, AddsNext
    <3> QED
      BY <1>3, <3>1, <3>2
  <2>3. \A n \in Nat : ~ (n + 1 <= N) => n + 1 \in S
    OBVIOUS
  <2> HIDE DEF S
  <2>4. \A n \in Nat : n \in S => n + 1 \in S
    BY <2>2, <2>3
  <2> QED
    BY <2>1, <2>4, InductiveSet
<1>8. h[N] = f[N] /\ f[N] \in Int
  BY <1>4, <1>7 DEF Adds
<1>9. Nat \subseteq T
  <2>1. 0 \in T
    BY <1>5, <1>8 DEF Adds
  <2>2. ASSUME NEW n \in Nat, n \in T, n + 1 <= M PROVE n + 1 \in T
    <3>1. h[N + n] = f[N] + g[n] /\ N + n + 1 <= N + M /\ n + 1 \in 1 .. M /\ N + n \in Nat
      BY <2>2
    <3>2. g[n + 1] = g[n] + t[n + 1] /\ g[n] \in Int
      BY <1>5, <2>2, AddsNext
    <3>3. h[(N + n) + 1] = h[N + n] + u[(N + n) + 1]
      BY <1>6, <3>1, AddsNext
    <3>4. (N + n) + 1 = N + (n + 1) /\ u[N + (n + 1)] = t[n + 1] /\ t[n + 1] \in Int
      BY <1>3, <3>1
    <3>5. h[N + (n + 1)] = f[N] + g[n + 1]
      <4>1. h[N + (n + 1)] = (f[N] + g[n]) + t[n + 1]
        BY <3>1, <3>3, <3>4
      <4>2. (f[N] + g[n]) + t[n + 1] = f[N] + (g[n] + t[n + 1])
        BY <1>8, <3>2, <3>4
      <4> QED
        BY <3>2, <4>1, <4>2
    <3> QED
      BY <3>5
  <2>3. \A n \in Nat : ~ (n + 1 <= M) => n + 1 \in T
    OBVIOUS
  <2> HIDE DEF T
  <2>4. \A n \in Nat : n \in T => n + 1 \in T
    BY <2>2, <2>3
  <2> QED
    BY <2>1, <2>4, InductiveSet
<1>10. h[N + M] = f[N] + g[M]
  BY <1>9
<1> QED
  BY <1>4, <1>5, <1>6, <1>10 DEF u

(* One member changes: the total changes by as much. *)
LEMMA TotalChanges ==
  ASSUME NEW s \in Seq(Int), NEW t \in Seq(Int), Len(s) = Len(t), NEW k \in DOMAIN s,
         \A i \in DOMAIN s : i # k => t[i] = s[i]
  PROVE  Total(t) = Total(s) - s[k] + t[k]
<1>1. PICK N \in Nat : N = Len(s) /\ DOMAIN s = 1 .. N
  BY LenProperties
<1>2. k \in 1 .. N /\ \A i \in 1 .. N : s[i] \in Int /\ t[i] \in Int
  BY <1>1, ElementOfSeq
<1>3. PICK f : Adds(f, s, N) /\ f[N] = Total(s)
  BY <1>1, Sums
<1>4. PICK g : Adds(g, t, N) /\ g[N] = Total(t)
  BY <1>1, Sums
<1> DEFINE S == {n \in Nat : n <= N =>
                   g[n] = IF n < k THEN f[n] ELSE f[n] - s[k] + t[k]}
<1>5. Nat \subseteq S
  <2>1. 0 \in S
    BY <1>2, <1>3, <1>4 DEF Adds
  <2>2. ASSUME NEW n \in Nat, n \in S, n + 1 <= N PROVE n + 1 \in S
    <3>1. g[n] = IF n < k THEN f[n] ELSE f[n] - s[k] + t[k]
      BY <2>2
    <3>2. /\ g[n + 1] = g[n] + t[n + 1] /\ f[n + 1] = f[n] + s[n + 1]
          /\ f[n] \in Int /\ n + 1 \in 1 .. N
      BY <1>3, <1>4, <2>2, AddsNext
    <3>3. s[k] \in Int /\ t[k] \in Int /\ s[n + 1] \in Int /\ k \in Nat
      BY <1>2, <3>2
    <3>4. CASE n + 1 = k
      <4>1. g[n] = f[n]
        BY <3>1, <3>4
      <4> QED
        BY <3>2, <3>3, <3>4, <4>1
    <3>5. CASE n + 1 # k
      <4>1. t[n + 1] = s[n + 1]
        BY <1>1, <3>2, <3>5
      <4>2. (n < k) <=> (n + 1 < k)
        BY <3>3, <3>5
      <4>3. g[n + 1] = IF n + 1 < k THEN f[n + 1] ELSE f[n + 1] - s[k] + t[k]
        <5>1. CASE n < k
          BY <3>1, <3>2, <4>1, <4>2, <5>1
        <5>2. CASE ~ (n < k)
          <6>1. g[n] = f[n] - s[k] + t[k] /\ f[n + 1] = f[n] + s[n + 1]
            BY <3>1, <3>2, <5>2
          <6>2. g[n + 1] = f[n] - s[k] + t[k] + s[n + 1]
            BY <3>2, <4>1, <6>1
          <6>3. g[n + 1] = f[n + 1] - s[k] + t[k]
            <7>1. \A x, y, z, u \in Int : x - y + z + u = (x + u) - y + z
              OBVIOUS
            <7>2. f[n] - s[k] + t[k] + s[n + 1] = (f[n] + s[n + 1]) - s[k] + t[k]
              BY <3>2, <3>3, <7>1
            <7> QED
              BY <6>1, <6>2, <7>2
          <6> QED
            BY <4>2, <5>2, <6>3
        <5> QED
          BY <5>1, <5>2
      <4> QED
        BY <4>3
    <3> QED
      BY <3>4, <3>5
  <2>3. \A n \in Nat : ~ (n + 1 <= N) => n + 1 \in S
    OBVIOUS
  <2> HIDE DEF S
  <2>4. \A n \in Nat : n \in S => n + 1 \in S
    BY <2>2, <2>3
  <2> QED
    BY <2>1, <2>4, InductiveSet
<1>6. g[N] = f[N] - s[k] + t[k]
  BY <1>2, <1>5
<1> QED
  BY <1>3, <1>4, <1>6

(* One entry that is not zero. *)
LEMMA TotalOfOne ==
  ASSUME NEW s \in Seq(Nat), NEW k \in DOMAIN s, \A i \in DOMAIN s : i # k => s[i] = 0
  PROVE  Total(s) = s[k]
<1> DEFINE z == [i \in 1 .. Len(s) |-> 0]
<1>1. Len(s) \in Nat /\ DOMAIN s = 1 .. Len(s) /\ s[k] \in Nat
  BY LenProperties, ElementOfSeq
<1>2. z \in Seq(Nat)
  BY <1>1, IsASeq
<1>3. Len(z) = Len(s) /\ DOMAIN z = DOMAIN s /\ \A i \in DOMAIN z : z[i] = 0
  BY <1>1, <1>2, LenProperties
<1> HIDE DEF z
<1>4. Total(z) = 0
  BY <1>2, <1>3, TotalBounds
<1>5. Total(s) = Total(z) - z[k] + s[k]
  <2>1. z \in Seq(Int) /\ s \in Seq(Int)
    BY <1>2, NatsAreInts
  <2>2. k \in DOMAIN z /\ \A i \in DOMAIN z : i # k => s[i] = z[i]
    BY <1>3
  <2> QED
    BY <1>3, <2>1, <2>2, TotalChanges
<1> QED
  BY <1>1, <1>3, <1>4, <1>5

(***************************************************************************)
(* The state.                                                              *)
(***************************************************************************)

(* What the rows and the requests hold. *)
Typed ==
  /\ payments \in Seq(Row) /\ Len(payments) <= MaxPayments
  /\ refunded \in [PaymentId -> Nat]
  /\ received = [a \in Account |-> received[a]]
  /\ roster \in [Member -> {"new", "in", "removed"}]
  /\ tx = [w \in Request |-> tx[w]]
  /\ \A w \in Request :
       /\ "step" \in DOMAIN tx[w]
       /\ tx[w].step = "receipt" => tx[w].lines \in Seq(Line)
       /\ tx[w].step = "refund"  => tx[w].id \in DOMAIN payments /\ tx[w].amount \in Amount
       /\ tx[w].step = "pay"     => tx[w].member \in Member /\ tx[w].amount \in Amount

(* An account that has received something has a row, and the members with  *)
(* a row are there.                                                        *)
Anchored ==
  /\ \A a \in Account : received[a] # 0 => Referenced(a)
  /\ \A m \in Member : Referenced(m) => roster[m] = "in"

(* No row yet. *)
LEMMA InitTyped == Init => Typed /\ Anchored
<1> SUFFICES ASSUME Init PROVE Typed /\ Anchored
  OBVIOUS
<1>1. payments \in Seq(Row) /\ Len(payments) = 0 /\ DOMAIN payments = {}
  BY DEF Init
<1>2. \A w \in Request : tx[w].step = "idle" /\ "step" \in DOMAIN tx[w]
  BY DEF Init, Idle
<1> QED
  BY <1>1, <1>2, ConstantsAssumption DEF Init, Typed, Anchored, Referenced

(***************************************************************************)
(* The writes.                                                             *)
(***************************************************************************)

(* Rows are only ever appended. *)
Grown ==
  /\ payments' \in Seq(Row) /\ Len(payments') <= MaxPayments
  /\ DOMAIN payments \subseteq DOMAIN payments'
  /\ \A i \in DOMAIN payments : payments'[i] = payments[i]

(* Rows are added only: what they refer to stays referred to. *)
LEMMA GrownKeepsReferences ==
  ASSUME Grown, NEW a, Referenced(a)
  PROVE  Referenced(a)'
BY DEF Grown, Referenced

(* What the insert of the lines of a receipt does to the tables.           *)
LEMMA AddPaymentsWrites ==
  ASSUME Typed, NEW lines \in Seq(Line), AddPayments(lines)
  PROVE  /\ Grown /\ refunded' = refunded
         /\ received' = [a \in Account |-> received'[a]]
         /\ \A i \in DOMAIN payments' \ DOMAIN payments :
              payments'[i].amount \in Amount /\ Referable(payments'[i].account)
         /\ \A a \in Account : received'[a] # received[a] => Referenced(a)'
         /\ Len(payments') = Len(payments) + Len(lines)
         /\ \A k \in DOMAIN lines : payments'[Len(payments) + k] =
              [kind |-> "payment", account |-> lines[k].account, amount |-> lines[k].amount]
<1> DEFINE added == [i \in DOMAIN lines |->
      [kind |-> "payment", account |-> lines[i].account, amount |-> lines[i].amount]]
<1>1. DOMAIN lines = 1 .. Len(lines) /\ Len(lines) \in Nat
  BY LenProperties
<1>2. \A i \in 1 .. Len(lines) : lines[i] \in Line
  BY ElementOfSeq
<1>3. added \in [1 .. Len(lines) -> Row]
  BY <1>1, <1>2 DEF Row, Line
<1>4. added \in Seq(Row)
  BY <1>1, <1>3, IsASeq
<1>5. Len(added) = Len(lines)
  BY <1>1, <1>3, <1>4, LenProperties
<1>6. payments \in Seq(Row) /\ payments' = payments \o added
  BY DEF Typed, AddPayments
<1> HIDE DEF added
<1>7. /\ payments' \in Seq(Row)
      /\ Len(payments') = Len(payments) + Len(added)
      /\ \A i \in 1 .. Len(payments) : payments'[i] = payments[i]
      /\ \A i \in 1 .. Len(added) : payments'[Len(payments) + i] = added[i]
  BY <1>4, <1>6, ConcatProperties
<1>8. /\ DOMAIN payments = 1 .. Len(payments) /\ Len(payments) \in Nat
      /\ DOMAIN payments' = 1 .. Len(payments')
  BY <1>6, <1>7, LenProperties
<1>9. Grown
  BY <1>1, <1>5, <1>7, <1>8 DEF Grown, AddPayments
<1>10. \A i \in DOMAIN payments' \ DOMAIN payments :
         \E k \in DOMAIN lines : payments'[i] = added[k]
  <2> SUFFICES ASSUME NEW i \in DOMAIN payments' \ DOMAIN payments
               PROVE  \E k \in DOMAIN lines : payments'[i] = added[k]
    OBVIOUS
  <2>1. i - Len(payments) \in 1 .. Len(added) /\ i = Len(payments) + (i - Len(payments))
    BY <1>1, <1>5, <1>7, <1>8
  <2> QED
    BY <1>1, <1>5, <1>7, <2>1
<1>11. \A k \in DOMAIN lines : added[k].account = lines[k].account
                               /\ added[k].amount = lines[k].amount
  BY DEF added
<1>12. \A i \in DOMAIN payments' \ DOMAIN payments :
         payments'[i].amount \in Amount /\ Referable(payments'[i].account)
  BY <1>1, <1>2, <1>10, <1>11 DEF AddPayments, Line
<1>13. ASSUME NEW a \in Account, received'[a] # received[a]
       PROVE  Referenced(a)'
  <2>1. PICK k \in DOMAIN lines : lines[k].account = a
    BY <1>13 DEF AddPayments
  <2>2. Len(payments) + k \in DOMAIN payments' /\ payments'[Len(payments) + k] = added[k]
    BY <1>1, <1>5, <1>7, <1>8
  <2> QED
    BY <1>11, <2>1, <2>2 DEF Referenced
<1>14. received' = [a \in Account |-> received'[a]] /\ refunded' = refunded
  BY DEF AddPayments
<1>15. Len(payments') = Len(payments) + Len(lines)
  BY <1>5, <1>7
<1>16. \A k \in DOMAIN lines : payments'[Len(payments) + k] =
         [kind |-> "payment", account |-> lines[k].account, amount |-> lines[k].amount]
  BY <1>1, <1>5, <1>7 DEF added
<1> QED
  BY <1>9, <1>12, <1>13, <1>14, <1>15, <1>16

(* What the insert of a refund does to the tables. *)
LEMMA AddRefundWrites ==
  ASSUME Typed, NEW p \in DOMAIN payments, NEW n \in Amount, AddRefund(p, n)
  PROVE  /\ Grown /\ received' = received
         /\ DOMAIN payments' \ DOMAIN payments = {Len(payments) + 1}
         /\ payments'[Len(payments) + 1].account = payments[p].account
         /\ payments'[Len(payments) + 1].amount = n
         /\ payments'[Len(payments) + 1].kind = "refund"
         /\ p \in PaymentId /\ payments[p].account \in Account
         /\ refunded' = [refunded EXCEPT ![p] = @ + n]
<1> DEFINE row == [kind |-> "refund", account |-> payments[p].account, amount |-> n]
<1>1. payments \in Seq(Row) /\ DOMAIN payments = 1 .. Len(payments) /\ Len(payments) \in Nat
  BY LenProperties DEF Typed
<1>2. payments[p] \in Row
  BY <1>1, ElementOfSeq
<1>3. row \in Row
  BY <1>2 DEF Row
<1>4. payments' = Append(payments, row) /\ Len(payments) < MaxPayments
  BY DEF AddRefund
<1> HIDE DEF row
<1>5. /\ payments' \in Seq(Row) /\ Len(payments') = Len(payments) + 1
      /\ \A i \in 1 .. Len(payments) : payments'[i] = payments[i]
      /\ payments'[Len(payments) + 1] = row
  BY <1>1, <1>3, <1>4, AppendProperties
<1>6. DOMAIN payments' = 1 .. (Len(payments) + 1)
  BY <1>5, LenProperties
<1>7. p \in PaymentId
  BY <1>1, <1>4, ConstantsAssumption DEF PaymentId
<1>8. Grown /\ DOMAIN payments' \ DOMAIN payments = {Len(payments) + 1}
  BY <1>1, <1>4, <1>5, <1>6, ConstantsAssumption DEF Grown
<1> QED
  BY <1>2, <1>5, <1>7, <1>8 DEF AddRefund, row, Row

(***************************************************************************)
(* The invariant: who has paid stays.                                      *)
(***************************************************************************)

(* A step that writes neither rows nor members keeps both, when what a     *)
(* request has read is of its type.                                        *)
LEMMA NoWrite ==
  ASSUME Typed, Anchored, NEW w \in Request, NEW t,
         tx' = [tx EXCEPT ![w] = t], "step" \in DOMAIN t,
         t.step = "receipt" => t.lines \in Seq(Line),
         t.step = "refund"  => t.id \in DOMAIN payments /\ t.amount \in Amount,
         t.step = "pay"     => t.member \in Member /\ t.amount \in Amount,
         UNCHANGED <<payments, refunded, received, roster>>
  PROVE  Typed' /\ Anchored'
<1>1. \A v \in Request : tx'[v] = IF v = w THEN t ELSE tx[v]
  BY DEF Typed
<1>2. tx' = [v \in Request |-> tx'[v]]
  BY DEF Typed
<1>3. Typed'
  BY <1>1, <1>2 DEF Typed
<1>4. Anchored'
  BY DEF Anchored, Referenced
<1> QED
  BY <1>3, <1>4

(* So does a step that adds or removes members without a row.              *)
LEMMA NoPayment ==
  ASSUME Typed, Anchored, UNCHANGED <<payments, refunded, received, tx>>,
         roster' \in [Member -> {"new", "in", "removed"}],
         \A m \in Member : Referenced(m) => roster'[m] = "in"
  PROVE  Typed' /\ Anchored'
<1>1. Typed'
  BY DEF Typed
<1>2. Anchored'
  BY DEF Anchored, Referenced
<1> QED
  BY <1>1, <1>2

(* A payment: the accounts of the new rows may be referred to. *)
LEMMA PaymentWrites ==
  ASSUME Typed, Anchored, NEW w \in Request, NEW t,
         NEW lines \in Seq(Line), AddPayments(lines), UNCHANGED roster,
         tx' = [tx EXCEPT ![w] = t], "step" \in DOMAIN t,
         t.step \notin {"receipt", "refund", "pay"}
  PROVE  Typed' /\ Anchored'
<1>1. /\ Grown /\ refunded' = refunded
      /\ received' = [a \in Account |-> received'[a]]
      /\ \A i \in DOMAIN payments' \ DOMAIN payments : Referable(payments'[i].account)
      /\ \A a \in Account : received'[a] # received[a] => Referenced(a)'
  BY AddPaymentsWrites
<1>2. Typed'
  <2>1. \A v \in Request : tx'[v] = IF v = w THEN t ELSE tx[v]
    BY DEF Typed
  <2>2. tx' = [v \in Request |-> tx'[v]]
    BY DEF Typed
  <2> QED
    BY <1>1, <2>1, <2>2 DEF Typed, Grown
<1>3. \A a \in Account : received'[a] # 0 => Referenced(a)'
  BY <1>1, GrownKeepsReferences DEF Anchored
<1>4. ASSUME NEW m \in Member, Referenced(m)'
      PROVE  roster'[m] = "in"
  <2>1. PICK i \in DOMAIN payments' : payments'[i].account = m
    BY <1>4 DEF Referenced
  <2>2. CASE i \in DOMAIN payments
    BY <1>1, <2>1, <2>2 DEF Grown, Anchored, Referenced
  <2>3. CASE i \notin DOMAIN payments
    BY <1>1, <2>1, <2>3 DEF Referable
  <2> QED
    BY <2>2, <2>3
<1> QED
  BY <1>2, <1>3, <1>4 DEF Anchored

(* A refund refers to an account that has a row. *)
LEMMA RefundWrites ==
  ASSUME Typed, Anchored, NEW w \in Request, RefundCommit(w)
  PROVE  Typed' /\ Anchored'
<1> DEFINE p == tx[w].id
           n == tx[w].amount
<1>1. p \in DOMAIN payments /\ n \in Amount
  BY DEF RefundCommit, Typed
<1>2. /\ AddRefund(p, n) /\ tx' = [tx EXCEPT ![w] = Idle] /\ roster' = roster
  BY DEF RefundCommit, End, Unlink, team
<1>3. /\ Grown /\ received' = received
      /\ DOMAIN payments' \ DOMAIN payments = {Len(payments) + 1}
      /\ payments'[Len(payments) + 1].account = payments[p].account
      /\ p \in PaymentId
      /\ refunded' = [refunded EXCEPT ![p] = @ + n]
  BY <1>1, <1>2, AddRefundWrites
<1>4. Typed'
  <2>1. \A v \in Request : tx'[v] = IF v = w THEN Idle ELSE tx[v]
    BY <1>2 DEF Typed
  <2>2. tx' = [v \in Request |-> tx'[v]]
    BY <1>2 DEF Typed
  <2>3. refunded' \in [PaymentId -> Nat]
    BY <1>1, <1>3, ConstantsAssumption DEF Typed
  <2>4. received' = [a \in Account |-> received'[a]]
    BY <1>3 DEF Typed
  <2> QED
    BY <1>2, <1>3, <2>1, <2>2, <2>3, <2>4 DEF Typed, Grown, Idle
<1>5. \A a \in Account : received'[a] # 0 => Referenced(a)'
  BY <1>3, GrownKeepsReferences DEF Anchored
<1>6. ASSUME NEW m \in Member, Referenced(m)'
      PROVE  roster'[m] = "in"
  <2>1. Referenced(m)
    BY <1>1, <1>3, <1>6 DEF Referenced, Grown
  <2> QED
    BY <1>2, <2>1 DEF Anchored
<1> QED
  BY <1>4, <1>5, <1>6 DEF Anchored

(* A request that ends without writing changes no table. *)
LEMMA EndsIdle ==
  ASSUME Typed, Anchored, NEW w \in Request, tx' = [tx EXCEPT ![w] = Idle],
         UNCHANGED <<payments, refunded, received, roster>>
  PROVE  Typed' /\ Anchored'
<1>1. Idle.step = "idle" /\ "step" \in DOMAIN Idle
  BY DEF Idle
<1> QED
  BY <1>1, NoWrite

(* Typed and Anchored are kept by every step. *)
LEMMA AnchoredStep == Typed /\ Anchored /\ [Next]_vars => Typed' /\ Anchored'
<1> SUFFICES ASSUME Typed, Anchored, [Next]_vars
             PROVE  Typed' /\ Anchored'
  OBVIOUS
<1> USE DEF money, team
<1>1. ASSUME NEW w \in Request, NEW r \in Receipts, NEW credit \in BOOLEAN,
             ReceiptCheck(w, r, credit)
      PROVE  Typed' /\ Anchored'
  <2> DEFINE t == [step |-> "receipt", lines |-> r, credit |-> credit]
  <2>1. tx' = [tx EXCEPT ![w] = t] /\ UNCHANGED <<payments, refunded, received, roster>>
    BY <1>1 DEF ReceiptCheck, Begin
  <2>2. "step" \in DOMAIN t /\ t.step = "receipt" /\ t.lines \in Seq(Line)
    BY ConstantsAssumption
  <2> HIDE DEF t
  <2> QED
    BY <2>1, <2>2, NoWrite
<1>2. ASSUME NEW w \in Request, NEW p \in PaymentId, NEW n \in Amount, RefundCheck(w, p, n)
      PROVE  Typed' /\ Anchored'
  <2> DEFINE t == [step |-> "refund", id |-> p, amount |-> n, loaded |-> FALSE,
                   orphan |-> payments[p].account \in gone]
  <2>1. tx' = [tx EXCEPT ![w] = t] /\ UNCHANGED <<payments, refunded, received, roster>>
    BY <1>2 DEF RefundCheck, Begin
  <2>2. /\ "step" \in DOMAIN t /\ t.step = "refund"
        /\ t.id \in DOMAIN payments /\ t.amount \in Amount
    BY <1>2 DEF RefundCheck
  <2> HIDE DEF t
  <2> QED
    BY <2>1, <2>2, NoWrite
<1>3. ASSUME NEW w \in Request, NEW m \in Member, NEW p \in PaymentId, NEW n \in Amount,
             FeeRefundCheck(w, m, p, n)
      PROVE  Typed' /\ Anchored'
  <2> DEFINE t == [step |-> "refund", id |-> p, amount |-> n, loaded |-> TRUE,
                   orphan |-> FALSE, paid |-> amountPaid[m]]
  <2>1. tx' = [tx EXCEPT ![w] = t] /\ UNCHANGED <<payments, refunded, received, roster>>
    BY <1>3 DEF FeeRefundCheck, Begin
  <2>2. /\ "step" \in DOMAIN t /\ t.step = "refund"
        /\ t.id \in DOMAIN payments /\ t.amount \in Amount
    BY <1>3 DEF FeeRefundCheck
  <2> HIDE DEF t
  <2> QED
    BY <2>1, <2>2, NoWrite
<1>4. ASSUME NEW w \in Request, NEW m \in Member, NEW n \in Amount, PayLoad(w, m, n)
      PROVE  Typed' /\ Anchored'
  <2> DEFINE t == [step |-> "pay", member |-> m, amount |-> n, paid |-> amountPaid[m]]
  <2>1. tx' = [tx EXCEPT ![w] = t] /\ UNCHANGED <<payments, refunded, received, roster>>
    BY <1>4 DEF PayLoad, Begin
  <2>2. /\ "step" \in DOMAIN t /\ t.step = "pay" /\ t.member \in Member /\ t.amount \in Amount
    OBVIOUS
  <2> HIDE DEF t
  <2> QED
    BY <2>1, <2>2, NoWrite
<1>5. ASSUME NEW w \in Request, ReceiptCommit(w)
      PROVE  Typed' /\ Anchored'
  <2>1. tx[w].lines \in Seq(Line)
    BY <1>5 DEF ReceiptCommit, Typed
  <2>2. AddPayments(tx[w].lines) /\ tx' = [tx EXCEPT ![w] = Idle] /\ UNCHANGED roster
    BY <1>5 DEF ReceiptCommit, End
  <2>3. Idle.step = "idle" /\ "step" \in DOMAIN Idle
    BY DEF Idle
  <2> QED
    BY <2>1, <2>2, <2>3, PaymentWrites
<1>6. ASSUME NEW w \in Request, RefundCommit(w)
      PROVE  Typed' /\ Anchored'
  BY <1>6, RefundWrites
<1>7. ASSUME NEW w \in Request, RefundRaises(w)
      PROVE  Typed' /\ Anchored'
  BY <1>7, EndsIdle DEF RefundRaises, End
<1>8. ASSUME NEW w \in Request, PayReceipt(w)
      PROVE  Typed' /\ Anchored'
  <2> DEFINE line  == [account |-> tx[w].member, amount |-> tx[w].amount]
             t     == [tx[w] EXCEPT !.step = "record"]
  <2>1. line \in Line
    BY <1>8 DEF PayReceipt, Typed, Line, Account
  <2>2. <<line>> \in Seq(Line)
    BY <2>1
  <2>3. AddPayments(<<line>>) /\ UNCHANGED roster
    BY <1>8 DEF PayReceipt
  <2>4. tx' = [tx EXCEPT ![w] = t]
    BY <1>8 DEF PayReceipt
  <2>5. "step" \in DOMAIN t /\ t.step = "record"
    BY DEF Typed
  <2> HIDE DEF line, t
  <2> QED
    BY <2>2, <2>3, <2>4, <2>5, PaymentWrites
<1>9. ASSUME NEW w \in Request, PayRecord(w)
      PROVE  Typed' /\ Anchored'
  BY <1>9, EndsIdle DEF PayRecord, End
<1>10. ASSUME NEW w \in Request, Crash(w)
       PROVE  Typed' /\ Anchored'
  BY <1>10, EndsIdle DEF Crash, End
<1>11. ASSUME NEW ms \in SUBSET Member, RegisterTeam(ms)
       PROVE  Typed' /\ Anchored'
  BY <1>11, NoPayment DEF RegisterTeam, Typed, Anchored
<1>12. ASSUME NEW m \in Member, RemoveMember(m)
       PROVE  Typed' /\ Anchored'
  BY <1>12, NoPayment DEF RemoveMember, Typed, Anchored
<1>13. ASSUME DeleteTeam
       PROVE  Typed' /\ Anchored'
  BY <1>13, NoPayment DEF DeleteTeam, Typed, Anchored
<1>14. ASSUME NEW e \in Enrollment, NEW n \in Price, ChangePrice(e, n)
       PROVE  Typed' /\ Anchored'
  BY <1>14, NoPayment DEF ChangePrice, Typed, Anchored
<1>15. ASSUME NEW l \in Level, DeleteLevel(l)
       PROVE  Typed' /\ Anchored'
  BY <1>15, NoPayment DEF DeleteLevel, Typed, Anchored
<1>16. ASSUME NEW w \in Request, Refused(w)
       PROVE  Typed' /\ Anchored'
  BY <1>16, EndsIdle DEF Refused, End
<1>17. CASE UNCHANGED vars
  BY <1>17 DEF vars, Typed, Anchored, Referenced
<1> QED
  BY <1>1, <1>2, <1>3, <1>4, <1>5, <1>6, <1>7, <1>8, <1>9, <1>10, <1>11, <1>12,
     <1>13, <1>14, <1>15, <1>16, <1>17 DEF Next

(* Who has paid is never removed, however many requests pay, refund and    *)
(* remove at once and wherever they are cut off: the row of the payment is *)
(* there before anything is recorded, and keeps the member.                *)
THEOREM PayersAreKept == Spec => []PayersStay
<1>1. Typed /\ Anchored => PayersStay
  BY DEF Anchored, PayersStay, Account
<1> QED
  BY <1>1, InitTyped, AnchoredStep, PTL DEF Spec

(***************************************************************************)
(* Races: the rows and the accounts that two requests went by at once.     *)
(***************************************************************************)

(* No row is added. *)
LEMMA UnchangedIsGrown == Typed /\ payments' = payments => Grown
  BY DEF Typed, Grown

(* The three commits that write rows, and the lines the payments write. *)
LEMMA PaysFor ==
  ASSUME Typed, NEW w \in Request, ReceiptCommit(w) \/ PayReceipt(w)
  PROVE  \E lines \in Seq(Line) :
           /\ AddPayments(lines)
           /\ ReceiptCommit(w) => lines = tx[w].lines
           /\ PayReceipt(w) =>
                lines = <<[account |-> tx[w].member, amount |-> tx[w].amount]>>
<1>1. CASE ReceiptCommit(w)
  <2>1. tx[w].lines \in Seq(Line) /\ AddPayments(tx[w].lines) /\ ~ PayReceipt(w)
    BY <1>1 DEF ReceiptCommit, PayReceipt, Typed
  <2> QED
    BY <2>1
<1>2. CASE PayReceipt(w)
  <2> DEFINE line == [account |-> tx[w].member, amount |-> tx[w].amount]
  <2>1. line \in Line
    BY <1>2 DEF PayReceipt, Typed, Line, Account
  <2>2. <<line>> \in Seq(Line) /\ AddPayments(<<line>>) /\ ~ ReceiptCommit(w)
    BY <1>2, <2>1 DEF PayReceipt, ReceiptCommit
  <2> HIDE DEF line
  <2>3. PayReceipt(w) => <<line>> = <<line>>
    OBVIOUS
  <2> QED
    BY <2>2, <2>3 DEF line
<1> QED
  BY <1>1, <1>2

(* Three actions write rows; the others leave rows and sums alone.         *)
LEMMA MoneyMoves ==
  ASSUME [Next]_vars
  PROVE  \/ UNCHANGED money
         \/ \E w \in Request : ReceiptCommit(w) \/ PayReceipt(w) \/ RefundCommit(w)
BY DEF Next, vars, money, ReceiptCheck, RefundCheck, FeeRefundCheck, PayLoad, RefundRaises,
       PayRecord, Refused, Crash, RegisterTeam, RemoveMember, DeleteTeam, ChangePrice, DeleteLevel

(* Rows stay as they are, and only refunds change what is refunded.        *)
LEMMA RowsGrow ==
  ASSUME Typed, [Next]_vars
  PROVE  Grown /\ (refunded' = refunded \/ \E w \in Request : RefundCommit(w))
<1>1. CASE UNCHANGED money
  BY <1>1, UnchangedIsGrown DEF money
<1>2. ASSUME NEW w \in Request, ReceiptCommit(w) \/ PayReceipt(w)
      PROVE  Grown /\ refunded' = refunded
  BY <1>2, PaysFor, AddPaymentsWrites
<1>3. ASSUME NEW w \in Request, RefundCommit(w) PROVE Grown
  <2>1. tx[w].id \in DOMAIN payments /\ tx[w].amount \in Amount
        /\ AddRefund(tx[w].id, tx[w].amount)
    BY <1>3 DEF RefundCommit, Typed
  <2> QED
    BY <2>1, AddRefundWrites
<1> QED
  BY <1>1, <1>2, <1>3, MoneyMoves

(* Only a commit that others do not see adds to what was raced, and what   *)
(* was raced stays so.                                                     *)
LEMMA RacesGrow ==
  ASSUME [Next]_vars
  PROVE  /\ raced \subseteq raced'
         /\ UNCHANGED <<payments, raced>> \/ \E w \in Request : Race(w)
BY DEF Next, vars, money, Race, ReceiptCheck, ReceiptCommit, RefundCheck, FeeRefundCheck,
       RefundCommit, RefundRaises, PayLoad, PayReceipt, PayRecord, Refused, Crash,
       RegisterTeam, RemoveMember, DeleteTeam, ChangePrice, DeleteLevel

(* What a request goes by, at each of its steps. *)
LEMMA ConcernsAre ==
  ASSUME NEW w
  PROVE  /\ tx[w].step = "receipt" =>
              Concerns(w) = {tx[w].lines[i].account : i \in DOMAIN tx[w].lines}
         /\ tx[w].step = "refund" =>
              Concerns(w) = {tx[w].id} \cup ({payments[tx[w].id].account} \cap Member)
         /\ tx[w].step \in {"pay", "record"} => Concerns(w) = {tx[w].member}
         /\ tx[w].step \notin {"receipt", "refund", "pay", "record"} => Concerns(w) = {}
BY DEF Concerns

(* What a request has committed, and nobody raced it for, no other goes by. *)
LEMMA NotRaced ==
  ASSUME NEW w \in Request, Race(w), NEW x \in Concerns(w), x \notin raced',
         NEW v \in Request, v # w
  PROVE  x \notin raced /\ x \notin Concerns(v)
<1>1. v \in Request \ {w}
  OBVIOUS
<1> QED
  BY <1>1 DEF Race

(***************************************************************************)
(* The refunds of a row that was not raced stay within it.                 *)
(***************************************************************************)

(* A refund that has been checked still fits. *)
Reserved ==
  /\ RefundsWithinOriginal
  /\ \A p \in PaymentId \ DOMAIN payments : refunded[p] = 0
  /\ \A w \in Request : tx[w].step = "refund" /\ tx[w].id \notin raced =>
       tx[w].amount <= Available(tx[w].id)

(* Nothing is refunded yet. *)
LEMMA InitReserved == Init => Reserved
<1> SUFFICES ASSUME Init PROVE Reserved
  OBVIOUS
<1>1. DOMAIN payments = {} /\ \A w \in Request : tx[w].step = "idle"
  BY DEF Init, Idle
<1> QED
  BY <1>1 DEF Init, Reserved, RefundsWithinOriginal

(* Amounts, rows and what is refunded of them are numbers. *)
LEMMA AmountsAreNaturals ==
  ASSUME Typed
  PROVE  /\ \A p \in DOMAIN payments : payments[p].amount \in Nat /\ p \in PaymentId
         /\ \A p \in PaymentId : refunded[p] \in Nat
         /\ Amount \subseteq Nat
<1>1. payments \in Seq(Row) /\ DOMAIN payments = 1 .. Len(payments) /\ Len(payments) \in Nat
  BY LenProperties DEF Typed
<1>2. \A p \in DOMAIN payments : payments[p] \in Row
  BY <1>1, ElementOfSeq
<1> QED
  BY <1>1, <1>2, ConstantsAssumption DEF Typed, Row, PaymentId

(* A step that refunds nothing, when the request that takes it has checked *)
(* what it will refund.                                                    *)
LEMMA NoRefund ==
  ASSUME Typed, Reserved, Grown, refunded' = refunded, raced \subseteq raced',
         NEW w \in Request, NEW t, tx' = [tx EXCEPT ![w] = t],
         t.step = "refund" => t.id \in DOMAIN payments /\ t.amount <= Available(t.id)
  PROVE  Reserved'
<1>1. ASSUME NEW p \in DOMAIN payments' \ raced'
      PROVE  refunded'[p] <= payments'[p].amount
  <2>1. CASE p \in DOMAIN payments
    BY <2>1 DEF Reserved, RefundsWithinOriginal, Grown
  <2>2. CASE p \notin DOMAIN payments
    <3>1. payments'[p] \in Row /\ p \in PaymentId
      <4>1. payments' \in Seq(Row) /\ DOMAIN payments' = 1 .. Len(payments')
            /\ Len(payments') \in Nat /\ Len(payments') <= MaxPayments
        BY LenProperties DEF Grown
      <4> QED
        BY <4>1, ElementOfSeq, ConstantsAssumption DEF PaymentId
    <3>2. refunded'[p] = 0
      BY <2>2, <3>1 DEF Reserved
    <3>3. payments'[p].amount \in Nat
      BY <3>1, ConstantsAssumption DEF Row
    <3> QED
      BY <3>2, <3>3
  <2> QED
    BY <2>1, <2>2
<1>2. \A p \in PaymentId \ DOMAIN payments' : refunded'[p] = 0
  BY DEF Reserved, Grown
<1>3. \A v \in Request : tx'[v] = IF v = w THEN t ELSE tx[v]
  BY DEF Typed
<1>4. \A p \in DOMAIN payments : payments'[p].amount - refunded'[p] = Available(p)
  BY DEF Grown, Available
<1>5. ASSUME NEW v \in Request, tx'[v].step = "refund", tx'[v].id \notin raced'
      PROVE  tx'[v].amount <= payments'[tx'[v].id].amount - refunded'[tx'[v].id]
  <2>1. CASE v = w
    BY <1>3, <1>4, <1>5, <2>1
  <2>2. CASE v # w
    <3>1. tx'[v] = tx[v] /\ tx[v].id \in DOMAIN payments /\ tx[v].id \notin raced
      BY <1>3, <1>5, <2>2 DEF Typed
    <3>2. tx[v].amount <= Available(tx[v].id)
      BY <1>5, <3>1 DEF Reserved
    <3> QED
      BY <1>4, <3>1, <3>2
  <2> QED
    BY <2>1, <2>2
<1>6. \A v \in Request : (tx[v].step = "refund" /\ tx[v].id \notin raced =>
                            tx[v].amount <= Available(tx[v].id))'
  BY <1>5 DEF Available
<1> QED
  BY <1>1, <1>2, <1>6 DEF Reserved, RefundsWithinOriginal

(* The refund that was checked is made.  Any other refund of the row that  *)
(* is under way is one it raced with.                                      *)
LEMMA RefundFits ==
  ASSUME Typed, Reserved, NEW w \in Request, RefundCommit(w)
  PROVE  Reserved'
<1> DEFINE p == tx[w].id
           n == tx[w].amount
<1>1. p \in DOMAIN payments /\ n \in Amount /\ (p \notin raced => n <= Available(p))
  BY DEF RefundCommit, Typed, Reserved
<1>2. AddRefund(p, n) /\ tx' = [tx EXCEPT ![w] = Idle] /\ Race(w)
  BY DEF RefundCommit, End
<1>3. /\ Grown /\ DOMAIN payments' \ DOMAIN payments = {Len(payments) + 1}
      /\ payments'[Len(payments) + 1].amount = n
      /\ p \in PaymentId /\ refunded' = [refunded EXCEPT ![p] = @ + n]
  BY <1>1, <1>2, AddRefundWrites
<1>4. \A q \in PaymentId : refunded'[q] = IF q = p THEN refunded[p] + n ELSE refunded[q]
  BY <1>3 DEF Typed
<1>5. Len(payments) + 1 \in PaymentId
  BY <1>2, LenProperties, ConstantsAssumption DEF AddRefund, PaymentId, Typed
<1>6. raced \subseteq raced' /\ p \in Concerns(w)
  BY <1>2, ConcernsAre DEF Race, RefundCommit
<1>7. ASSUME NEW q \in DOMAIN payments' \ raced'
      PROVE  refunded'[q] <= payments'[q].amount
  <2>1. CASE q \in DOMAIN payments
    <3>1. /\ payments'[q] = payments[q] /\ refunded[q] <= payments[q].amount
          /\ q \in PaymentId /\ q \notin raced
      BY <1>3, <1>6, <2>1, AmountsAreNaturals DEF Grown, Reserved, RefundsWithinOriginal
    <3> QED
      BY <1>1, <1>4, <2>1, <3>1, AmountsAreNaturals DEF Available
  <2>2. CASE q \notin DOMAIN payments
    <3>1. q = Len(payments) + 1 /\ refunded[q] = 0 /\ q # p
      BY <1>1, <1>3, <1>5, <2>2 DEF Reserved
    <3> QED
      BY <1>1, <1>3, <1>4, <1>5, <3>1, AmountsAreNaturals
  <2> QED
    BY <2>1, <2>2
<1>8. \A q \in PaymentId \ DOMAIN payments' : refunded'[q] = 0
  BY <1>1, <1>3, <1>4 DEF Reserved, Grown
<1>9. ASSUME NEW v \in Request, tx'[v].step = "refund", tx'[v].id \notin raced'
      PROVE  tx'[v].amount <= payments'[tx'[v].id].amount - refunded'[tx'[v].id]
  <2>1. v # w /\ tx'[v] = tx[v]
    BY <1>2, <1>9 DEF Typed, Idle
  <2> DEFINE q == tx[v].id
  <2>2. q \in DOMAIN payments /\ q \notin raced /\ q \in Concerns(v)
    BY <1>6, <1>9, <2>1, ConcernsAre DEF Typed
  <2>3. q # p
    BY <1>2, <1>6, <1>9, <2>1, <2>2, NotRaced
  <2>4. q \in PaymentId /\ payments'[q] = payments[q]
    BY <1>3, <2>2, AmountsAreNaturals DEF Grown
  <2>5. refunded'[q] = refunded[q]
    BY <1>4, <2>3, <2>4
  <2>6. tx[v].amount <= Available(q)
    BY <1>9, <2>1, <2>2 DEF Reserved
  <2> QED
    BY <2>1, <2>4, <2>5, <2>6 DEF Available
<1>10. \A v \in Request : (tx[v].step = "refund" /\ tx[v].id \notin raced =>
                             tx[v].amount <= Available(tx[v].id))'
  BY <1>9 DEF Available
<1> QED
  BY <1>7, <1>8, <1>10 DEF Reserved, RefundsWithinOriginal

(* Reserved is kept by every step, however many requests overlap. *)
LEMMA ReservedStep ==
  ASSUME Typed, Reserved, [Next]_vars
  PROVE  Reserved'
<1> USE DEF money, team
<1>1. Grown /\ raced \subseteq raced'
  BY RowsGrow, RacesGrow
<1>2. ASSUME NEW w \in Request, NEW t, tx' = [tx EXCEPT ![w] = t], refunded' = refunded,
             t.step = "refund" => t.id \in DOMAIN payments /\ t.amount <= Available(t.id)
      PROVE  Reserved'
  BY <1>1, <1>2, NoRefund
<1>3. ASSUME NEW w \in Request, RefundCommit(w)
      PROVE  Reserved'
  BY <1>3, RefundFits
<1>4. ASSUME NEW w \in Request, NEW p \in PaymentId, NEW n \in Amount, RefundCheck(w, p, n)
      PROVE  Reserved'
  <2> DEFINE t == [step |-> "refund", id |-> p, amount |-> n, loaded |-> FALSE,
                   orphan |-> payments[p].account \in gone]
  <2>1. tx' = [tx EXCEPT ![w] = t] /\ refunded' = refunded
    BY <1>4 DEF RefundCheck, Begin
  <2>2. t.id \in DOMAIN payments /\ t.amount <= Available(t.id)
    BY <1>4 DEF RefundCheck
  <2> HIDE DEF t
  <2> QED
    BY <1>2, <2>1, <2>2
<1>5. ASSUME NEW w \in Request, NEW m \in Member, NEW p \in PaymentId, NEW n \in Amount,
             FeeRefundCheck(w, m, p, n)
      PROVE  Reserved'
  <2> DEFINE t == [step |-> "refund", id |-> p, amount |-> n, loaded |-> TRUE,
                   orphan |-> FALSE, paid |-> amountPaid[m]]
  <2>1. tx' = [tx EXCEPT ![w] = t] /\ refunded' = refunded
    BY <1>5 DEF FeeRefundCheck, Begin
  <2>2. t.id \in DOMAIN payments /\ t.amount <= Available(t.id)
    BY <1>5 DEF FeeRefundCheck, Covers
  <2> HIDE DEF t
  <2> QED
    BY <1>2, <2>1, <2>2
<1>6. ASSUME NEW w \in Request, NEW r \in Receipts, NEW credit \in BOOLEAN,
             ReceiptCheck(w, r, credit)
      PROVE  Reserved'
  <2> DEFINE t == [step |-> "receipt", lines |-> r, credit |-> credit]
  <2>1. tx' = [tx EXCEPT ![w] = t] /\ refunded' = refunded /\ t.step # "refund"
    BY <1>6 DEF ReceiptCheck, Begin
  <2> HIDE DEF t
  <2> QED
    BY <1>2, <2>1
<1>7. ASSUME NEW w \in Request, NEW m \in Member, NEW n \in Amount, PayLoad(w, m, n)
      PROVE  Reserved'
  <2> DEFINE t == [step |-> "pay", member |-> m, amount |-> n, paid |-> amountPaid[m]]
  <2>1. tx' = [tx EXCEPT ![w] = t] /\ refunded' = refunded /\ t.step # "refund"
    BY <1>7 DEF PayLoad, Begin
  <2> HIDE DEF t
  <2> QED
    BY <1>2, <2>1
<1>8. ASSUME NEW w \in Request, End(w), refunded' = refunded
      PROVE  Reserved'
  <2>1. tx' = [tx EXCEPT ![w] = Idle] /\ Idle.step # "refund"
    BY <1>8 DEF End, Idle
  <2> QED
    BY <1>2, <1>8, <2>1
<1>9. ASSUME NEW w \in Request,
             ReceiptCommit(w) \/ RefundRaises(w) \/ PayRecord(w) \/ Refused(w) \/ Crash(w)
      PROVE  Reserved'
  BY <1>8, <1>9 DEF ReceiptCommit, AddPayments, RefundRaises, PayRecord, Refused, Crash
<1>10. ASSUME NEW w \in Request, PayReceipt(w)
       PROVE  Reserved'
  <2> DEFINE t == [tx[w] EXCEPT !.step = "record"]
  <2>1. tx' = [tx EXCEPT ![w] = t] /\ t.step = "record" /\ refunded' = refunded
    BY <1>10 DEF PayReceipt, AddPayments, Typed
  <2> HIDE DEF t
  <2> QED
    BY <1>2, <2>1
<1>11. CASE UNCHANGED <<payments, refunded, tx, raced>>
  BY <1>11 DEF Reserved, RefundsWithinOriginal, Available
<1>12. CASE \/ \E m \in Member : RemoveMember(m)
            \/ \E ms \in SUBSET Member : RegisterTeam(ms)
            \/ DeleteTeam \/ UNCHANGED vars
            \/ \E e \in Enrollment : \E n \in Price : ChangePrice(e, n)
            \/ \E l \in Level : DeleteLevel(l)
  BY <1>11, <1>12 DEF RegisterTeam, RemoveMember, DeleteTeam, vars, ChangePrice, DeleteLevel
<1> QED
  BY <1>3, <1>4, <1>5, <1>6, <1>7, <1>9, <1>10, <1>12 DEF Next

(* For any number of requests, however they overlap and wherever they are  *)
(* cut off: the refunds of a row never exceed it, unless two refunds of    *)
(* that row overlapped.  Nothing but such an overlap defeats the check of  *)
(* issue(): not an edit, a deletion, a payment or a refund of another row, *)
(* and not the other endpoint that refunds.                                *)
THEOREM RefundsFit == Spec => []RefundsWithinOriginal
<1>1. Init => Typed /\ Anchored /\ Reserved
  BY InitTyped, InitReserved
<1>2. Typed /\ Anchored /\ Reserved /\ [Next]_vars => (Typed /\ Anchored /\ Reserved)'
  BY AnchoredStep, ReservedStep
<1>3. Reserved => RefundsWithinOriginal
  BY DEF Reserved
<1> QED
  BY <1>1, <1>2, <1>3, PTL DEF Spec

(***************************************************************************)
(* The books: what an account has received and not been given back is what *)
(* refunds may still take from its rows.                                   *)
(***************************************************************************)

(* What a receipt pays to an account that no two of its lines name. *)
LEMMA PaidIs ==
  ASSUME NEW a \in Account, NEW lines \in Seq(Line)
  PROVE  /\ Paid(a, lines) \in Nat
         /\ (\A i \in DOMAIN lines : lines[i].account # a) => Paid(a, lines) = 0
         /\ \A k \in DOMAIN lines :
              lines[k].account = a /\ (\A i \in DOMAIN lines : i # k => lines[i].account # a)
                => Paid(a, lines) = lines[k].amount
<1> DEFINE s == [i \in DOMAIN lines |->
                   IF lines[i].account = a THEN lines[i].amount ELSE 0]
<1>1. DOMAIN lines = 1 .. Len(lines) /\ Len(lines) \in Nat
  BY LenProperties
<1>2. \A i \in 1 .. Len(lines) : lines[i].amount \in Nat
  <2>1. \A i \in 1 .. Len(lines) : lines[i] \in Line
    BY ElementOfSeq
  <2> QED
    BY <2>1, ConstantsAssumption DEF Line
<1>3. s \in Seq(Nat)
  BY <1>1, <1>2, IsASeq
<1>4. DOMAIN s = DOMAIN lines /\ Paid(a, lines) = Total(s)
  BY DEF Paid
<1>5. /\ \A i \in DOMAIN lines : lines[i].account # a => s[i] = 0
      /\ \A i \in DOMAIN lines : lines[i].account = a => s[i] = lines[i].amount
  OBVIOUS
<1> HIDE DEF s
<1> QED
  BY <1>3, <1>4, <1>5, TotalBounds, TotalOfOne

(* The sums of the accounts are naturals. *)
Counted == received \in [Account -> Nat] /\ returned \in [Account -> Nat]

(* The lines of a receipt are added to what their accounts received.       *)
LEMMA CountedPayments ==
  ASSUME Counted, NEW lines \in Seq(Line), AddPayments(lines)
  PROVE  /\ Counted' /\ returned' = returned
         /\ \A a \in Account : received'[a] = received[a] + Paid(a, lines)
<1>1. ASSUME NEW a \in Account PROVE received'[a] = received[a] + Paid(a, lines)
  <2>1. CASE \E i \in DOMAIN lines : lines[i].account = a
    BY <2>1 DEF AddPayments
  <2>2. CASE \A i \in DOMAIN lines : lines[i].account # a
    <3>1. Paid(a, lines) = 0
      BY <2>2, PaidIs
    <3>2. received'[a] = received[a] /\ received[a] \in Nat
      BY <2>2 DEF AddPayments, Counted
    <3> QED
      BY <3>1, <3>2
  <2> QED
    BY <2>1, <2>2
<1>2. \A a \in Account : received'[a] \in Nat
  BY <1>1, PaidIs DEF Counted
<1> QED
  BY <1>1, <1>2 DEF AddPayments, Counted

(* A refund is added to what its account got back. *)
LEMMA CountedRefund ==
  ASSUME Typed, Counted, NEW p \in DOMAIN payments, NEW n \in Amount, AddRefund(p, n)
  PROVE  /\ Counted' /\ received' = received
         /\ \A a \in Account : returned'[a] =
              IF a = payments[p].account THEN returned[a] + n ELSE returned[a]
<1>1. payments[p].account \in Account
  BY AddRefundWrites
<1> QED
  BY <1>1, ConstantsAssumption DEF AddRefund, Counted

(* Counted is kept by every step. *)
LEMMA CountedStep == Typed /\ Counted /\ [Next]_vars => Counted'
<1> SUFFICES ASSUME Typed, Counted, [Next]_vars PROVE Counted'
  OBVIOUS
<1>1. CASE UNCHANGED money
  BY <1>1 DEF money, Counted
<1>2. ASSUME NEW w \in Request, ReceiptCommit(w) \/ PayReceipt(w) PROVE Counted'
  BY <1>2, PaysFor, CountedPayments
<1>3. ASSUME NEW w \in Request, RefundCommit(w) PROVE Counted'
  <2>1. tx[w].id \in DOMAIN payments /\ tx[w].amount \in Amount
        /\ AddRefund(tx[w].id, tx[w].amount)
    BY <1>3 DEF RefundCommit, Typed
  <2> QED
    BY <2>1, CountedRefund
<1> QED
  BY <1>1, <1>2, <1>3, MoneyMoves

(* What refunds may still take from the payments of an account. *)
Shares(a) ==
  [p \in DOMAIN payments |->
     IF payments[p].kind = "payment" /\ payments[p].account = a THEN Available(p) ELSE 0]
Unrefunded(a) == Total(Shares(a))

Balanced == \A a \in Account : received[a] - returned[a] = Unrefunded(a)

(* A refund takes from a payment, never from another refund. *)
PaymentsOnly == RefundableKind \subseteq {"payment"}

OfPayments == \A w \in Request : tx[w].step = "refund" => payments[tx[w].id].kind = "payment"

(* The shares are numbers, one for each row.  Those of a row that was      *)
(* refunded beyond its amount are negative.                                *)
LEMMA SharesAreIntegers ==
  ASSUME Typed, NEW a
  PROVE  Shares(a) \in Seq(Int) /\ Len(Shares(a)) = Len(payments)
         /\ DOMAIN Shares(a) = DOMAIN payments
         /\ \A p \in DOMAIN payments : Available(p) \in Int
<1>1. DOMAIN payments = 1 .. Len(payments) /\ Len(payments) \in Nat
  BY LenProperties DEF Typed
<1>2. \A p \in DOMAIN payments : Available(p) \in Int
  BY AmountsAreNaturals DEF Available
<1>3. Shares(a) \in [1 .. Len(payments) -> Int]
  BY <1>1, <1>2 DEF Shares
<1>4. Shares(a) \in Seq(Int)
  BY <1>1, <1>3, IsASeq
<1>5. DOMAIN Shares(a) = 1 .. Len(payments) /\ DOMAIN Shares(a) = 1 .. Len(Shares(a))
      /\ Len(Shares(a)) \in Nat
  BY <1>1, <1>4, LenProperties DEF Shares
<1> QED
  BY <1>1, <1>2, <1>4, <1>5

(* A receipt adds as much to the shares as to what was received.           *)
LEMMA BalancedPayments ==
  ASSUME Typed, Reserved, Counted, Balanced, NEW lines \in Seq(Line), AddPayments(lines),
         Typed', Reserved'
  PROVE  Balanced'
<1> SUFFICES ASSUME NEW a \in Account PROVE received'[a] - returned'[a] = Unrefunded(a)'
  BY DEF Balanced
<1> DEFINE own == [i \in DOMAIN lines |->
                     IF lines[i].account = a THEN lines[i].amount ELSE 0]
<1>1. DOMAIN lines = 1 .. Len(lines) /\ Len(lines) \in Nat
  BY LenProperties
<1>2. \A i \in 1 .. Len(lines) : lines[i] \in Line /\ lines[i].amount \in Nat
  <2>1. \A i \in 1 .. Len(lines) : lines[i] \in Line
    BY ElementOfSeq
  <2> QED
    BY <2>1, ConstantsAssumption DEF Line
<1>3. own \in Seq(Int) /\ own \in Seq(Nat) /\ Len(own) = Len(lines)
  <2>1. own \in [1 .. Len(lines) -> Nat]
    BY <1>1, <1>2
  <2>2. own \in Seq(Nat)
    BY <1>1, <2>1, IsASeq
  <2>3. DOMAIN own = 1 .. Len(own) /\ Len(own) \in Nat
    BY <2>2, LenProperties
  <2>4. own \in Seq(Int)
    <3> HIDE DEF own
    <3> QED
      BY <2>2, NatsAreInts
  <2> QED
    BY <1>1, <2>1, <2>2, <2>3, <2>4
<1>4. /\ Shares(a) \in Seq(Int) /\ Len(Shares(a)) = Len(payments)
      /\ DOMAIN payments = 1 .. Len(payments) /\ Len(payments) \in Nat
      /\ DOMAIN payments' = 1 .. Len(payments')
  BY SharesAreIntegers, LenProperties DEF Typed
<1>5. /\ Grown /\ refunded' = refunded /\ Len(payments') = Len(payments) + Len(lines)
      /\ \A k \in DOMAIN lines : payments'[Len(payments) + k] =
           [kind |-> "payment", account |-> lines[k].account, amount |-> lines[k].amount]
  BY AddPaymentsWrites
<1>6. \A i \in 1 .. Len(payments) : Shares(a)'[i] = Shares(a)[i]
  BY <1>4, <1>5 DEF Shares, Available, Grown
<1>7. ASSUME NEW k \in 1 .. Len(lines)
      PROVE  Shares(a)'[Len(payments) + k] = own[k]
  <2>1. Len(payments) + k \in DOMAIN payments' /\ Len(payments) + k \notin DOMAIN payments
    BY <1>1, <1>4, <1>5
  <2>2. Len(payments) + k \in PaymentId
    BY <1>1, <1>4, <1>5, ConstantsAssumption DEF Grown, PaymentId
  <2>3. refunded'[Len(payments) + k] = 0
    BY <1>5, <2>1, <2>2 DEF Reserved
  <2>4. payments'[Len(payments) + k] =
          [kind |-> "payment", account |-> lines[k].account, amount |-> lines[k].amount]
    BY <1>1, <1>5
  <2> QED
    BY <1>1, <1>2, <2>1, <2>3, <2>4 DEF Shares, Available
<1>20. Paid(a, lines) = Total(own)
  BY DEF Paid
<1> HIDE DEF own
<1> DEFINE both == Shares(a) \o own
<1>8. /\ both \in Seq(Int) /\ Len(both) = Len(payments) + Len(lines)
      /\ \A i \in 1 .. Len(payments) : both[i] = Shares(a)[i]
      /\ \A i \in 1 .. Len(lines) : both[Len(payments) + i] = own[i]
  <2> DEFINE s == Shares(a)
  <2>1. s \in Seq(Int) /\ own \in Seq(Int)
    BY <1>3, <1>4
  <2> HIDE DEF s
  <2>2. /\ s \o own \in Seq(Int) /\ Len(s \o own) = Len(s) + Len(own)
        /\ \A i \in 1 .. Len(s) : (s \o own)[i] = s[i]
        /\ \A i \in 1 .. Len(own) : (s \o own)[Len(s) + i] = own[i]
    BY <2>1, ConcatProperties
  <2> QED
    BY <1>3, <1>4, <2>2 DEF s
<1>9. Shares(a)' = both
  <2>1. ASSUME NEW i \in 1 .. Len(payments) + Len(lines)
        PROVE  Shares(a)'[i] = both[i]
    <3>1. CASE i \in 1 .. Len(payments)
      BY <1>6, <1>8, <3>1
    <3>2. CASE i \notin 1 .. Len(payments)
      <4>1. PICK k \in 1 .. Len(lines) : i = Len(payments) + k
        <5>1. i - Len(payments) \in 1 .. Len(lines)
              /\ i = Len(payments) + (i - Len(payments))
          BY <1>1, <1>4, <3>2
        <5> QED
          BY <5>1
      <4>2. Shares(a)'[i] = own[k] /\ both[i] = own[k]
        BY <1>7, <1>8, <4>1
      <4> QED
        BY <4>2
    <3> QED
      BY <3>1, <3>2
  <2>2. Shares(a)' = [i \in 1 .. Len(payments) + Len(lines) |-> Shares(a)'[i]]
    BY <1>4, <1>5 DEF Shares
  <2>3. both = [i \in 1 .. Len(payments) + Len(lines) |-> both[i]]
    BY <1>8, LenProperties
  <2> HIDE DEF both
  <2> QED
    BY <2>1, <2>2, <2>3
<1>10. Unrefunded(a)' = Unrefunded(a) + Paid(a, lines)
  <2>1. Total(both) = Total(Shares(a)) + Total(own)
    BY <1>3, <1>4, TotalConcat
  <2> HIDE DEF both
  <2> QED
    BY <1>9, <1>20, <2>1 DEF Unrefunded
<1>11. Unrefunded(a) \in Int
  BY <1>4, TotalIsInt DEF Unrefunded
<1> QED
  BY <1>10, <1>11, CountedPayments, PaidIs DEF Balanced, Counted

(* A refund takes as much from the shares as it gives back. *)
LEMMA BalancedRefund ==
  ASSUME Typed, Counted, Balanced, NEW p \in DOMAIN payments, NEW n \in Amount,
         AddRefund(p, n), payments[p].kind = "payment", Typed'
  PROVE  Balanced'
<1> SUFFICES ASSUME NEW a \in Account PROVE received'[a] - returned'[a] = Unrefunded(a)'
  BY DEF Balanced
<1> DEFINE taken == IF payments[p].account = a THEN n ELSE 0
           less  == [Shares(a) EXCEPT ![p] = @ - taken]
           zero  == <<0>>
<1>1. /\ Shares(a) \in Seq(Int) /\ Len(Shares(a)) = Len(payments)
      /\ DOMAIN payments = 1 .. Len(payments) /\ Len(payments) \in Nat
      /\ DOMAIN payments' = 1 .. Len(payments') /\ DOMAIN Shares(a) = DOMAIN payments
      /\ Available(p) \in Int
  BY SharesAreIntegers, LenProperties DEF Typed
<1>2. /\ Grown /\ DOMAIN payments' \ DOMAIN payments = {Len(payments) + 1}
      /\ payments'[Len(payments) + 1].kind = "refund"
      /\ p \in PaymentId /\ refunded' = [refunded EXCEPT ![p] = @ + n]
  BY AddRefundWrites
<1>3. n \in Nat /\ taken \in 0 .. n
  BY AmountsAreNaturals
<1>4. Shares(a)[p] = IF payments[p].account = a THEN Available(p) ELSE 0
  BY DEF Shares
<1>5. Shares(a)[p] - taken \in Int /\ Shares(a)[p] \in Int
  BY <1>1, <1>3, <1>4
<1>6. less \in Seq(Int) /\ Len(less) = Len(payments) /\ DOMAIN less = DOMAIN payments
  <2>1. Shares(a) \in [1 .. Len(payments) -> Int]
    BY <1>1, ElementOfSeq DEF Shares
  <2>2. less \in [1 .. Len(payments) -> Int]
    BY <1>1, <1>5, <2>1
  <2>3. less \in Seq(Int)
    BY <1>1, <2>2, IsASeq
  <2>4. DOMAIN less = 1 .. Len(less) /\ Len(less) \in Nat
    BY <2>3, LenProperties
  <2> QED
    BY <1>1, <2>2, <2>3, <2>4
<1>7. less[p] = Shares(a)[p] - taken /\ \A i \in DOMAIN payments : i # p => less[i] = Shares(a)[i]
  BY <1>1
<1>8. zero \in Seq(Int) /\ zero \in Seq(Nat) /\ Len(zero) = 1 /\ DOMAIN zero = {1} /\ zero[1] = 0
  OBVIOUS
<1> HIDE DEF less, zero, taken
<1>9. Len(payments') = Len(payments) + 1
  BY <1>1, <1>2, AppendProperties DEF AddRefund, Typed
<1>10. ASSUME NEW i \in 1 .. Len(payments)
       PROVE  Shares(a)'[i] = less[i]
  <2>1. i \in DOMAIN payments' /\ payments'[i] = payments[i] /\ i \in PaymentId
    BY <1>1, <1>2, AmountsAreNaturals DEF Grown
  <2>2. refunded'[i] = IF i = p THEN refunded[i] + n ELSE refunded[i]
    BY <1>2, <2>1 DEF Typed
  <2>3. CASE i = p
    <3>1. Shares(a)'[i] = IF payments[p].account = a THEN payments[p].amount - (refunded[p] + n)
                          ELSE 0
      BY <2>1, <2>2, <2>3 DEF Shares, Available
    <3> QED
      BY <1>1, <1>3, <1>4, <1>7, <2>3, <3>1, AmountsAreNaturals DEF Available, taken
  <2>4. CASE i # p
    BY <1>1, <1>7, <2>1, <2>2, <2>4 DEF Shares, Available
  <2> QED
    BY <2>3, <2>4
<1>11. Shares(a)'[Len(payments) + 1] = 0
  BY <1>1, <1>2, <1>9 DEF Shares
<1> DEFINE both == less \o zero
<1>12. /\ both \in Seq(Int) /\ Len(both) = Len(payments) + 1
       /\ \A i \in 1 .. Len(payments) : both[i] = less[i]
       /\ both[Len(payments) + 1] = 0
  <2>1. /\ both \in Seq(Int) /\ Len(both) = Len(less) + Len(zero)
        /\ \A i \in 1 .. Len(less) : both[i] = less[i]
        /\ \A i \in 1 .. Len(zero) : both[Len(less) + i] = zero[i]
    <3>1. less \in Seq(Int) /\ zero \in Seq(Int)
      BY <1>6, <1>8
    <3> QED
      BY <3>1, ConcatProperties
  <2> HIDE DEF both
  <2>2. 1 \in 1 .. Len(zero)
    BY <1>8
  <2>3. both[Len(less) + 1] = zero[1]
    BY <2>1, <2>2
  <2> QED
    BY <1>6, <1>8, <2>1, <2>3
<1>13. Shares(a)' = both
  <2>1. ASSUME NEW i \in 1 .. Len(payments) + 1
        PROVE  Shares(a)'[i] = both[i]
    <3>1. CASE i \in 1 .. Len(payments)
      BY <1>10, <1>12, <3>1
    <3>2. CASE i = Len(payments) + 1
      BY <1>11, <1>12, <3>2
    <3>3. i \in 1 .. Len(payments) \/ i = Len(payments) + 1
      BY <1>1
    <3> QED
      BY <3>1, <3>2, <3>3
  <2>2. Shares(a)' = [i \in 1 .. Len(payments) + 1 |-> Shares(a)'[i]]
    BY <1>1, <1>9 DEF Shares
  <2>3. both = [i \in 1 .. Len(payments) + 1 |-> both[i]]
    BY <1>12, LenProperties
  <2> HIDE DEF both
  <2> QED
    BY <2>1, <2>2, <2>3
<1>14. Unrefunded(a)' = Unrefunded(a) - taken
  <2>1. Total(both) = Total(less) + Total(zero)
    BY <1>6, <1>8, TotalConcat
  <2>2. Total(zero) = 0
    BY <1>8, TotalBounds
  <2>3. Total(less) = Total(Shares(a)) - Shares(a)[p] + less[p]
    <3> DEFINE s == Shares(a)
    <3>1. /\ s \in Seq(Int) /\ Len(s) = Len(less) /\ p \in DOMAIN s
          /\ \A i \in DOMAIN s : i # p => less[i] = s[i]
      BY <1>1, <1>6, <1>7
    <3> HIDE DEF s
    <3> QED
      BY <1>6, <3>1, TotalChanges DEF s
  <2>4. Total(Shares(a)) \in Int /\ Shares(a)[p] \in Int
    BY <1>1, <1>5, TotalIsInt
  <2> HIDE DEF both
  <2> QED
    BY <1>3, <1>7, <1>13, <2>1, <2>2, <2>3, <2>4 DEF Unrefunded
<1>15. Unrefunded(a) \in Int
  BY <1>1, TotalIsInt DEF Unrefunded
<1>16. returned'[a] = returned[a] + taken
  BY <1>3, CountedRefund DEF Counted, taken
<1> QED
  BY <1>3, <1>14, <1>15, <1>16, CountedRefund DEF Balanced, Counted

(* Balanced is kept by every step. *)
LEMMA BalancedStep ==
  ASSUME Typed, Reserved, Counted, Balanced, OfPayments, [Next]_vars, Typed', Reserved'
  PROVE  Balanced'
<1>1. CASE UNCHANGED money
  BY <1>1 DEF money, Balanced, Unrefunded, Shares, Available
<1>2. ASSUME NEW w \in Request, ReceiptCommit(w) \/ PayReceipt(w) PROVE Balanced'
  BY <1>2, PaysFor, BalancedPayments
<1>3. ASSUME NEW w \in Request, RefundCommit(w) PROVE Balanced'
  <2>1. /\ tx[w].id \in DOMAIN payments /\ tx[w].amount \in Amount
        /\ AddRefund(tx[w].id, tx[w].amount) /\ payments[tx[w].id].kind = "payment"
    BY <1>3 DEF RefundCommit, Typed, OfPayments
  <2> QED
    BY <2>1, BalancedRefund
<1> QED
  BY <1>1, <1>2, <1>3, MoneyMoves

(* OfPayments is kept by every step. *)
LEMMA OfPaymentsStep ==
  ASSUME PaymentsOnly, Typed, OfPayments, [Next]_vars
  PROVE  OfPayments'
<1> USE DEF money
<1>1. Grown
  BY RowsGrow
<1>2. ASSUME NEW w \in Request, NEW t, tx' = [tx EXCEPT ![w] = t],
             t.step = "refund" => t.id \in DOMAIN payments /\ payments[t.id].kind = "payment"
      PROVE  OfPayments'
  <2> SUFFICES ASSUME NEW v \in Request, tx'[v].step = "refund"
               PROVE  payments'[tx'[v].id].kind = "payment"
    BY DEF OfPayments
  <2>1. tx'[v] = IF v = w THEN t ELSE tx[v]
    BY <1>2 DEF Typed
  <2>2. CASE v = w
    BY <1>1, <1>2, <2>1, <2>2 DEF Grown
  <2>3. CASE v # w
    BY <1>1, <2>1, <2>3 DEF Grown, OfPayments, Typed
  <2> QED
    BY <2>2, <2>3
<1>3. ASSUME NEW w \in Request, NEW p \in PaymentId, NEW n \in Amount, RefundCheck(w, p, n)
      PROVE  OfPayments'
  <2> DEFINE t == [step |-> "refund", id |-> p, amount |-> n, loaded |-> FALSE,
                   orphan |-> payments[p].account \in gone]
  <2>1. tx' = [tx EXCEPT ![w] = t]
    BY <1>3 DEF RefundCheck, Begin
  <2>2. t.id \in DOMAIN payments /\ payments[t.id].kind = "payment"
    BY <1>3 DEF RefundCheck, PaymentsOnly
  <2> HIDE DEF t
  <2> QED
    BY <1>2, <2>1, <2>2
<1>4. ASSUME NEW w \in Request, NEW m \in Member, NEW p \in PaymentId, NEW n \in Amount,
             FeeRefundCheck(w, m, p, n)
      PROVE  OfPayments'
  <2> DEFINE t == [step |-> "refund", id |-> p, amount |-> n, loaded |-> TRUE,
                   orphan |-> FALSE, paid |-> amountPaid[m]]
  <2>1. tx' = [tx EXCEPT ![w] = t]
    BY <1>4 DEF FeeRefundCheck, Begin
  <2>2. t.id \in DOMAIN payments /\ payments[t.id].kind = "payment"
    BY <1>4 DEF FeeRefundCheck, Covers
  <2> HIDE DEF t
  <2> QED
    BY <1>2, <2>1, <2>2
<1>5. ASSUME NEW w \in Request, NEW r \in Receipts, NEW credit \in BOOLEAN,
             ReceiptCheck(w, r, credit)
      PROVE  OfPayments'
  <2> DEFINE t == [step |-> "receipt", lines |-> r, credit |-> credit]
  <2>1. tx' = [tx EXCEPT ![w] = t] /\ t.step # "refund"
    BY <1>5 DEF ReceiptCheck, Begin
  <2> HIDE DEF t
  <2> QED
    BY <1>2, <2>1
<1>6. ASSUME NEW w \in Request, NEW m \in Member, NEW n \in Amount, PayLoad(w, m, n)
      PROVE  OfPayments'
  <2> DEFINE t == [step |-> "pay", member |-> m, amount |-> n, paid |-> amountPaid[m]]
  <2>1. tx' = [tx EXCEPT ![w] = t] /\ t.step # "refund"
    BY <1>6 DEF PayLoad, Begin
  <2> HIDE DEF t
  <2> QED
    BY <1>2, <2>1
<1>7. ASSUME NEW w \in Request, PayReceipt(w)
      PROVE  OfPayments'
  <2> DEFINE t == [tx[w] EXCEPT !.step = "record"]
  <2>1. tx' = [tx EXCEPT ![w] = t] /\ t.step = "record"
    BY <1>7 DEF PayReceipt, Typed
  <2> HIDE DEF t
  <2> QED
    BY <1>2, <2>1
<1>8. ASSUME NEW w \in Request, End(w)
      PROVE  OfPayments'
  <2>1. tx' = [tx EXCEPT ![w] = Idle] /\ Idle.step # "refund"
    BY <1>8 DEF End, Idle
  <2> QED
    BY <1>2, <2>1
<1>9. ASSUME NEW w \in Request,
             \/ ReceiptCommit(w) \/ RefundCommit(w) \/ RefundRaises(w)
             \/ PayRecord(w) \/ Refused(w) \/ Crash(w)
      PROVE  OfPayments'
  BY <1>8, <1>9 DEF ReceiptCommit, RefundCommit, RefundRaises, PayRecord, Refused, Crash
<1>10. CASE \/ \E m \in Member : RemoveMember(m)
            \/ \E ms \in SUBSET Member : RegisterTeam(ms)
            \/ DeleteTeam \/ UNCHANGED vars
            \/ \E e \in Enrollment : \E n \in Price : ChangePrice(e, n)
            \/ \E l \in Level : DeleteLevel(l)
  <2>1. UNCHANGED <<tx, payments>>
    BY <1>10 DEF RegisterTeam, RemoveMember, DeleteTeam, vars, ChangePrice, DeleteLevel
  <2> QED
    BY <2>1 DEF OfPayments
<1> QED
  BY <1>3, <1>4, <1>5, <1>6, <1>7, <1>9, <1>10 DEF Next

(***************************************************************************)
(* What requests have read.                                                *)
(***************************************************************************)
Held(m) == received[m] - returned[m]

(* The type of what a request at a step holds. *)
Reads(t) ==
  /\ t.step = "receipt" => t.lines \in Receipts
  /\ t.step = "refund" =>
       /\ t.id \in DOMAIN payments
       /\ t.loaded => payments[t.id].account \in Member /\ t.paid \in Nat
  /\ t.step \in {"pay", "record"} =>
       /\ DOMAIN t = {"step", "member", "amount", "paid"}
       /\ t.member \in Member /\ t.amount \in Amount /\ t.paid \in Nat

Loaded ==
  /\ amountPaid \in [Member -> Nat] /\ crashes \in Nat
  /\ \A w \in Request : Reads(tx[w])

(* A row that was raced is there, and its member was raced with it.        *)
Tracked ==
  /\ raced \subseteq Account \cup DOMAIN payments
  /\ \A p \in raced \cap DOMAIN payments :
       payments[p].account \in Member => payments[p].account \in raced

(* Loaded is kept by a step of a request that holds what it should.        *)
LEMMA LoadedKept ==
  ASSUME Typed, Loaded, Grown, NEW w \in Request, NEW t, tx' = [tx EXCEPT ![w] = t], Reads(t),
         amountPaid' \in [Member -> Nat], crashes' \in Nat
  PROVE  Loaded'
<1> SUFFICES ASSUME NEW v \in Request PROVE Reads(tx[v])'
  BY DEF Loaded
<1>1. tx'[v] = IF v = w THEN t ELSE tx[v]
  BY DEF Typed
<1>2. Reads(tx'[v])
  BY <1>1 DEF Loaded
<1>3. \A u : Reads(u) =>
        /\ u.step = "refund" => u.id \in DOMAIN payments' /\
             (u.loaded => payments'[u.id].account \in Member /\ u.paid \in Nat)
        /\ u.step = "receipt" => u.lines \in Receipts
        /\ u.step \in {"pay", "record"} =>
             /\ DOMAIN u = {"step", "member", "amount", "paid"}
             /\ u.member \in Member /\ u.amount \in Amount /\ u.paid \in Nat
  BY DEF Reads, Grown
<1> QED
  BY <1>2, <1>3 DEF Reads

(* Loaded is kept by every step. *)
LEMMA LoadedStep ==
  ASSUME Typed, Loaded, [Next]_vars
  PROVE  Loaded'
<1> USE DEF money, team
<1>1. Grown /\ amountPaid \in [Member -> Nat] /\ crashes \in Nat /\ Amount \subseteq Nat
  BY RowsGrow, AmountsAreNaturals DEF Loaded
<1>2. ASSUME NEW w \in Request, NEW t, tx' = [tx EXCEPT ![w] = t], Reads(t),
             amountPaid' \in [Member -> Nat], crashes' \in Nat
      PROVE  Loaded'
  BY <1>1, <1>2, LoadedKept
<1>3. ASSUME NEW w \in Request, NEW r \in Receipts, NEW credit \in BOOLEAN,
             ReceiptCheck(w, r, credit)
      PROVE  Loaded'
  <2> DEFINE t == [step |-> "receipt", lines |-> r, credit |-> credit]
  <2>1. tx' = [tx EXCEPT ![w] = t] /\ UNCHANGED <<amountPaid, crashes>> /\ Reads(t)
    BY <1>3 DEF ReceiptCheck, Begin, Reads
  <2> HIDE DEF t
  <2> QED
    BY <1>1, <1>2, <2>1
<1>4. ASSUME NEW w \in Request, NEW p \in PaymentId, NEW n \in Amount, RefundCheck(w, p, n)
      PROVE  Loaded'
  <2> DEFINE t == [step |-> "refund", id |-> p, amount |-> n, loaded |-> FALSE,
                   orphan |-> payments[p].account \in gone]
  <2>1. tx' = [tx EXCEPT ![w] = t] /\ UNCHANGED <<amountPaid, crashes>> /\ Reads(t)
    BY <1>4 DEF RefundCheck, Begin, Reads
  <2> HIDE DEF t
  <2> QED
    BY <1>1, <1>2, <2>1
<1>5. ASSUME NEW w \in Request, NEW m \in Member, NEW p \in PaymentId, NEW n \in Amount,
             FeeRefundCheck(w, m, p, n)
      PROVE  Loaded'
  <2> DEFINE t == [step |-> "refund", id |-> p, amount |-> n, loaded |-> TRUE,
                   orphan |-> FALSE, paid |-> amountPaid[m]]
  <2>1. tx' = [tx EXCEPT ![w] = t] /\ UNCHANGED <<amountPaid, crashes>>
    BY <1>5 DEF FeeRefundCheck, Begin
  <2>2. Reads(t)
    BY <1>1, <1>5 DEF FeeRefundCheck, Covers, Reads
  <2> HIDE DEF t
  <2> QED
    BY <1>1, <1>2, <2>1, <2>2
<1>6. ASSUME NEW w \in Request, NEW m \in Member, NEW n \in Amount, PayLoad(w, m, n)
      PROVE  Loaded'
  <2> DEFINE t == [step |-> "pay", member |-> m, amount |-> n, paid |-> amountPaid[m]]
  <2>1. tx' = [tx EXCEPT ![w] = t] /\ UNCHANGED <<amountPaid, crashes>>
    BY <1>6 DEF PayLoad, Begin
  <2>2. Reads(t)
    BY <1>1 DEF Reads
  <2> HIDE DEF t
  <2> QED
    BY <1>1, <1>2, <2>1, <2>2
<1>7. ASSUME NEW w \in Request, PayReceipt(w)
      PROVE  Loaded'
  <2> DEFINE t == [tx[w] EXCEPT !.step = "record"]
  <2>1. tx' = [tx EXCEPT ![w] = t] /\ UNCHANGED <<amountPaid, crashes>>
    BY <1>7 DEF PayReceipt
  <2>2. tx[w].step = "pay" /\ Reads(tx[w])
    BY <1>7 DEF PayReceipt, Loaded
  <2>3. DOMAIN tx[w] = {"step", "member", "amount", "paid"}
    BY <2>2 DEF Reads
  <2>4. /\ DOMAIN t = DOMAIN tx[w] /\ t.step = "record" /\ t.member = tx[w].member
        /\ t.amount = tx[w].amount /\ t.paid = tx[w].paid
    BY <2>3
  <2> HIDE DEF t
  <2>5. Reads(t)
    BY <2>2, <2>3, <2>4 DEF Reads
  <2> QED
    BY <1>1, <1>2, <2>1, <2>5
<1>8. ASSUME NEW w \in Request, End(w), amountPaid' \in [Member -> Nat], crashes' \in Nat
      PROVE  Loaded'
  <2>1. tx' = [tx EXCEPT ![w] = Idle] /\ Reads(Idle)
    BY <1>8 DEF End, Idle, Reads
  <2> QED
    BY <1>2, <1>8, <2>1
<1>9. ASSUME NEW w \in Request, ReceiptCommit(w) \/ RefundRaises(w) \/ Refused(w) \/ Crash(w)
      PROVE  Loaded'
  <2>1. End(w) /\ amountPaid' = amountPaid /\ (crashes' = crashes \/ crashes' = crashes + 1)
    BY <1>9 DEF ReceiptCommit, RefundRaises, Refused, Crash
  <2> QED
    BY <1>1, <1>8, <2>1
<1>10. ASSUME NEW w \in Request, PayRecord(w)
       PROVE  Loaded'
  <2>1. tx[w].step = "record" /\ Reads(tx[w])
    BY <1>10 DEF PayRecord, Loaded
  <2>2. tx[w].paid + tx[w].amount \in Nat
    <3>1. tx[w].paid \in Nat /\ tx[w].amount \in Amount
      BY <2>1 DEF Reads
    <3>2. tx[w].amount \in Nat
      BY <3>1, ConstantsAssumption
    <3> QED
      BY <3>1, <3>2
  <2>3. /\ End(w) /\ crashes' = crashes
        /\ amountPaid' = [amountPaid EXCEPT ![tx[w].member] = tx[w].paid + tx[w].amount]
    BY <1>10 DEF PayRecord, Record
  <2> QED
    BY <1>1, <1>8, <2>2, <2>3
<1>11. ASSUME NEW w \in Request, RefundCommit(w)
       PROVE  Loaded'
  <2> DEFINE a == payments[tx[w].id].account
  <2>1. /\ tx[w].step = "refund" /\ Reads(tx[w]) /\ tx[w].amount \in Nat
        /\ End(w) /\ crashes' = crashes
        /\ UNCHANGED team \/ (a \in Member /\ Unlink(w, a))
    BY <1>1, <1>11 DEF RefundCommit, Loaded, Typed
  <2>2. CASE UNCHANGED team
    BY <1>1, <1>8, <2>1, <2>2
  <2>3. CASE a \in Member /\ Unlink(w, a)
    <3>1. tx[w].loaded => tx[w].paid \in Nat
      BY <2>1 DEF Reads
    <3> DEFINE n == (IF tx[w].loaded THEN tx[w].paid ELSE amountPaid[a]) - tx[w].amount
    <3>2. n \in Int
      BY <1>1, <2>1, <2>3, <3>1
    <3>3. amountPaid' = [amountPaid EXCEPT ![a] = Least0(n)]
      BY <2>3 DEF Unlink
    <3> HIDE DEF n
    <3>4. Least0(n) \in Nat
      BY <3>2 DEF Least0
    <3>5. amountPaid' \in [Member -> Nat]
      BY <1>1, <3>3, <3>4
    <3> QED
      BY <1>1, <1>8, <2>1, <3>5
  <2> QED
    BY <2>1, <2>2, <2>3
<1>12. CASE \/ \E m \in Member : RemoveMember(m)
            \/ \E ms \in SUBSET Member : RegisterTeam(ms)
            \/ DeleteTeam \/ UNCHANGED vars
            \/ \E e \in Enrollment : \E n \in Price : ChangePrice(e, n)
            \/ \E l \in Level : DeleteLevel(l)
  <2>1. UNCHANGED <<payments, amountPaid, crashes, tx>>
    BY <1>12 DEF RegisterTeam, RemoveMember, DeleteTeam, vars, ChangePrice, DeleteLevel
  <2> QED
    BY <2>1 DEF Loaded, Reads
<1> QED
  BY <1>3, <1>4, <1>5, <1>6, <1>7, <1>9, <1>10, <1>11, <1>12 DEF Next

(* A request goes by accounts and rows that are there; by a row, only to   *)
(* refund it, and then by its member as well.                              *)
LEMMA ConcernsType ==
  ASSUME Typed, Loaded, NEW w \in Request
  PROVE  /\ Concerns(w) \subseteq Account \cup DOMAIN payments
         /\ \A p \in DOMAIN payments \cap Concerns(w) :
              payments[p].account \in Member => payments[p].account \in Concerns(w)
<1>1. \A p \in DOMAIN payments : p \in PaymentId /\ p \notin Account
  BY AmountsAreNaturals, ConstantsAssumption
<1>2. Member \subseteq Account
  BY DEF Account
<1>3. CASE tx[w].step = "receipt"
  <2>1. tx[w].lines \in Seq(Line)
    BY <1>3 DEF Typed
  <2>2. \A i \in DOMAIN tx[w].lines : tx[w].lines[i] \in Line
    BY <2>1, ElementOfSeq, LenProperties
  <2>3. \A i \in DOMAIN tx[w].lines : tx[w].lines[i].account \in Account
    BY <2>2 DEF Line
  <2>4. Concerns(w) \subseteq Account
    BY <1>3, <2>3, ConcernsAre
  <2> QED
    BY <1>1, <2>4
<1>4. CASE tx[w].step = "refund"
  <2>1. Concerns(w) = {tx[w].id} \cup ({payments[tx[w].id].account} \cap Member)
        /\ tx[w].id \in DOMAIN payments
    BY <1>4, ConcernsAre DEF Typed
  <2> QED
    BY <1>1, <1>2, <2>1
<1>5. CASE tx[w].step \in {"pay", "record"}
  <2>1. Concerns(w) = {tx[w].member} /\ tx[w].member \in Member
    BY <1>5, ConcernsAre DEF Loaded, Reads
  <2> QED
    BY <1>1, <1>2, <2>1
<1>6. CASE tx[w].step \notin {"receipt", "refund", "pay", "record"}
  BY <1>6, ConcernsAre
<1> QED
  BY <1>3, <1>4, <1>5, <1>6

(* Tracked is kept by every step. *)
LEMMA TrackedStep ==
  ASSUME Typed, Loaded, Tracked, [Next]_vars
  PROVE  Tracked'
<1>1. Grown
  BY RowsGrow
<1>2. CASE UNCHANGED <<payments, raced>>
  BY <1>2 DEF Tracked
<1>3. ASSUME NEW w \in Request, Race(w) PROVE Tracked'
  <2>1. /\ Concerns(w) \subseteq Account \cup DOMAIN payments
        /\ \A p \in DOMAIN payments \cap Concerns(w) :
             payments[p].account \in Member => payments[p].account \in Concerns(w)
    BY ConcernsType
  <2>2. /\ \A v \in Request : Concerns(v) \subseteq Account \cup DOMAIN payments
        /\ \A v \in Request : \A p \in DOMAIN payments \cap Concerns(v) :
             payments[p].account \in Member => payments[p].account \in Concerns(v)
    BY ConcernsType
  <2>3. raced' \subseteq Account \cup DOMAIN payments
    BY <1>3, <2>1 DEF Race, Tracked
  <2>4. raced' \subseteq Account \cup DOMAIN payments'
    BY <1>1, <2>3 DEF Grown
  <2>5. ASSUME NEW p \in raced' \cap DOMAIN payments', payments'[p].account \in Member
        PROVE  payments'[p].account \in raced'
    <3>1. p \in PaymentId /\ p \notin Account
      BY <1>1, <2>5, LenProperties, ConstantsAssumption DEF Grown, PaymentId
    <3>2. p \in DOMAIN payments /\ payments'[p] = payments[p]
      BY <1>1, <2>3, <2>5, <3>1 DEF Grown
    <3>3. CASE p \in raced
      BY <1>3, <2>5, <3>2, <3>3 DEF Tracked, Race
    <3>4. CASE p \notin raced
      <4>1. PICK v \in Request \ {w} : p \in Concerns(w) /\ p \in Concerns(v)
        BY <1>3, <2>5, <3>4 DEF Race
      <4>2. payments[p].account \in Concerns(w) /\ payments[p].account \in Concerns(v)
        BY <2>1, <2>2, <2>5, <3>2, <4>1
      <4> QED
        BY <1>3, <3>2, <4>1, <4>2 DEF Race
    <3> QED
      BY <3>3, <3>4
  <2> QED
    BY <2>4, <2>5 DEF Tracked
<1> QED
  BY <1>2, <1>3, RacesGrow

(* An account that was not raced has at least what may still be taken from *)
(* one of its rows.                                                        *)
LEMMA HeldCovers ==
  ASSUME Typed, Reserved, Tracked, Balanced, NEW p \in DOMAIN payments,
         payments[p].kind = "payment", payments[p].account \in Member \ raced
  PROVE  Available(p) <= received[payments[p].account] - returned[payments[p].account]
<1> DEFINE a == payments[p].account
<1>1. DOMAIN payments = 1 .. Len(payments) /\ Len(payments) \in Nat
  BY LenProperties DEF Typed
<1>2. \A q \in DOMAIN payments : Available(q) \in Int
  BY SharesAreIntegers
<1>3. \A q \in DOMAIN payments : payments[q].account = a => Available(q) \in Nat
  <2> SUFFICES ASSUME NEW q \in DOMAIN payments, payments[q].account = a
               PROVE  Available(q) \in Nat
    OBVIOUS
  <2>1. q \notin raced
    BY DEF Tracked
  <2>2. refunded[q] <= payments[q].amount
    BY <2>1 DEF Reserved, RefundsWithinOriginal
  <2> QED
    BY <2>2, AmountsAreNaturals DEF Available
<1>4. Shares(a) \in [1 .. Len(payments) -> Nat]
  BY <1>1, <1>3 DEF Shares
<1>5. Shares(a) \in Seq(Nat) /\ DOMAIN Shares(a) = DOMAIN payments
  BY <1>1, <1>4, IsASeq
<1>6. Shares(a)[p] = Available(p)
  BY DEF Shares
<1>7. Shares(a)[p] <= Total(Shares(a))
  BY <1>5, TotalBounds
<1> QED
  BY <1>6, <1>7 DEF Balanced, Unrefunded, Account

(***************************************************************************)
(* The fees that are marked as paid are covered.                           *)
(***************************************************************************)

(* Receipts are for enrollments: a fee is paid by pay_competition_fee.     *)
ReceiptsEnroll == \A r \in Receipts : \A i \in DOMAIN r : r[i].account \in Enrollment

(* What a request has read of a member who was not raced is still so.      *)
Current(w) ==
  /\ tx[w].step = "refund" /\ tx[w].loaded /\ payments[tx[w].id].account \notin raced =>
       tx[w].paid = amountPaid[payments[tx[w].id].account]
  /\ tx[w].step \in {"pay", "record"} /\ tx[w].member \notin raced =>
       tx[w].paid = amountPaid[tx[w].member]
  /\ tx[w].step = "record" /\ tx[w].member \notin raced =>
       /\ tx[w].paid + tx[w].amount <= Held(tx[w].member)
       /\ crashes = 0 => tx[w].paid + tx[w].amount = Held(tx[w].member)

Marked == FeesAreCovered /\ \A w \in Request : Current(w)

(* Marked is kept by a step of a request that leaves the members it was    *)
(* not raced for covered, and those other requests go by as they were.     *)
LEMMA MarkedKept ==
  ASSUME Typed, Loaded, Marked, Grown, NEW w \in Request, NEW t, tx' = [tx EXCEPT ![w] = t],
         raced \subseteq raced', crashes' = 0 => crashes = 0, Current(w)',
         \A m \in Member \ raced' :
           /\ amountPaid'[m] <= received'[m] - returned'[m]
           /\ crashes' = 0 /\ ~ Recording(m)' =>
                amountPaid'[m] = received'[m] - returned'[m]
           /\ \A v \in Request : v # w /\ m \in Concerns(v) =>
                /\ amountPaid'[m] = amountPaid[m]
                /\ received'[m] = received[m] /\ returned'[m] = returned[m]
  PROVE  Marked'
<1>1. FeesAreCovered'
  BY DEF FeesAreCovered, FeesMatchPayments
<1>2. ASSUME NEW v \in Request, v # w PROVE Current(v)'
  <2>1. tx'[v] = tx[v]
    BY <1>2 DEF Typed
  <2>2. Current(v) /\ Reads(tx[v])
    BY DEF Marked, Loaded
  <2>3. ASSUME tx[v].step = "refund", tx[v].loaded,
               payments'[tx[v].id].account \notin raced'
        PROVE  tx[v].paid = amountPaid'[payments'[tx[v].id].account]
    <3> DEFINE a == payments[tx[v].id].account
    <3>1. tx[v].id \in DOMAIN payments /\ a \in Member
      BY <2>2, <2>3 DEF Reads
    <3>2. payments'[tx[v].id] = payments[tx[v].id]
      BY <3>1 DEF Grown
    <3>3. a \in Concerns(v) /\ a \in Member \ raced'
      BY <2>3, <3>1, <3>2, ConcernsAre
    <3>4. amountPaid'[a] = amountPaid[a] /\ tx[v].paid = amountPaid[a]
      BY <1>2, <2>2, <2>3, <3>3 DEF Current
    <3> QED
      BY <3>2, <3>4
  <2>4. ASSUME tx[v].step \in {"pay", "record"}, tx[v].member \notin raced'
        PROVE  /\ amountPaid'[tx[v].member] = amountPaid[tx[v].member]
               /\ Held(tx[v].member)' = Held(tx[v].member)
               /\ tx[v].member \notin raced
    <3>1. tx[v].member \in Concerns(v) /\ tx[v].member \in Member \ raced'
      BY <2>2, <2>4, ConcernsAre DEF Reads
    <3> QED
      BY <1>2, <3>1 DEF Held
  <2>5. tx[v].step \in {"pay", "record"} /\ tx[v].member \notin raced' =>
          tx[v].paid = amountPaid'[tx[v].member]
    BY <2>2, <2>4 DEF Current
  <2>6. ASSUME tx[v].step = "record", tx[v].member \notin raced'
        PROVE  /\ tx[v].paid + tx[v].amount <= Held(tx[v].member)'
               /\ crashes' = 0 => tx[v].paid + tx[v].amount = Held(tx[v].member)'
    BY <2>2, <2>4, <2>6 DEF Current
  <2> QED
    BY <2>1, <2>3, <2>5, <2>6 DEF Current, Held
<1> QED
  BY <1>1, <1>2 DEF Marked

(* A request that writes nothing of a member. *)
LEMMA MarkedReads ==
  ASSUME Typed, Loaded, Marked, Grown, NEW w \in Request, NEW t, tx' = [tx EXCEPT ![w] = t],
         raced \subseteq raced', Current(w)', amountPaid' = amountPaid,
         \A m \in Member : received'[m] = received[m] /\ returned'[m] = returned[m],
         (crashes' = crashes /\ tx[w].step # "record") \/ crashes' = crashes + 1
  PROVE  Marked'
<1>1. crashes' = 0 => crashes = 0 /\ tx[w].step # "record"
  BY DEF Loaded
<1>2. ASSUME NEW m \in Member \ raced', crashes' = 0, ~ Recording(m)'
      PROVE  ~ Recording(m)
  <2> SUFFICES ASSUME NEW v \in Request, tx[v].step = "record", tx[v].member = m
               PROVE  FALSE
    BY DEF Recording
  <2>1. v # w
    BY <1>1, <1>2
  <2>2. tx'[v] = tx[v]
    BY <2>1 DEF Typed
  <2> QED
    BY <1>2, <2>2 DEF Recording
<1>3. ASSUME NEW m \in Member \ raced'
      PROVE  /\ amountPaid'[m] <= received'[m] - returned'[m]
             /\ crashes' = 0 /\ ~ Recording(m)' =>
                  amountPaid'[m] = received'[m] - returned'[m]
  BY <1>1, <1>2 DEF Marked, FeesAreCovered, FeesMatchPayments
<1> QED
  BY <1>1, <1>3, MarkedKept

(* Marked is kept by a receipt for enrollments. *)
LEMMA MarkedReceipt ==
  ASSUME ReceiptsEnroll, Typed, Loaded, Counted, Marked, NEW w \in Request, ReceiptCommit(w)
  PROVE  Marked'
<1>1. tx[w].step = "receipt" /\ tx[w].lines \in Seq(Line) /\ AddPayments(tx[w].lines)
  BY DEF ReceiptCommit, Typed
<1>2. \A i \in DOMAIN tx[w].lines : tx[w].lines[i].account \in Enrollment
  BY <1>1 DEF Loaded, Reads, ReceiptsEnroll
<1>3. \A m \in Member : received'[m] = received[m] /\ returned'[m] = returned[m]
  <2>1. \A m \in Member : m \notin Enrollment
    BY ConstantsAssumption
  <2> QED
    BY <1>1, <1>2, <2>1 DEF AddPayments, Account
<1>4. /\ tx' = [tx EXCEPT ![w] = Idle] /\ crashes' = crashes /\ amountPaid' = amountPaid
      /\ raced \subseteq raced' /\ Grown
  BY <1>1, AddPaymentsWrites DEF ReceiptCommit, End, team, Race
<1>5. Current(w)'
  <2>1. tx'[w].step = "idle"
    BY <1>4 DEF Typed, Idle
  <2> QED
    BY <2>1 DEF Current
<1> QED
  BY <1>1, <1>3, <1>4, <1>5, MarkedReads

(* Marked is kept by a refund. *)
LEMMA MarkedRefund ==
  ASSUME Typed, Reserved, Loaded, Tracked, Counted, Balanced, OfPayments, Marked,
         NEW w \in Request, RefundCommit(w)
  PROVE  Marked'
<1> DEFINE p == tx[w].id
           n == tx[w].amount
           a == payments[p].account
<1>1. /\ tx[w].step = "refund" /\ p \in DOMAIN payments /\ n \in Amount /\ AddRefund(p, n)
      /\ payments[p].kind = "payment" /\ n \in Nat
  BY ConstantsAssumption DEF RefundCommit, Typed, OfPayments
<1>2. a \in Account /\ Grown
  BY <1>1, AddRefundWrites
<1>3. received' = received
      /\ \A b \in Account : returned'[b] = IF b = a THEN returned[b] + n ELSE returned[b]
  BY <1>1, CountedRefund
<1>4. /\ tx' = [tx EXCEPT ![w] = Idle] /\ crashes' = crashes
      /\ Race(w) /\ raced \subseteq raced'
  BY DEF RefundCommit, End, Race
<1>5. Current(w)'
  <2>1. tx'[w].step = "idle"
    BY <1>4 DEF Typed, Idle
  <2> QED
    BY <2>1 DEF Current
<1>6. CASE a \in Enrollment
  <2>1. amountPaid' = amountPaid
    BY <1>6, ConstantsAssumption DEF RefundCommit, team
  <2>2. \A m \in Member : m # a /\ m \in Account
    BY <1>6, ConstantsAssumption DEF Account
  <2>3. \A m \in Member : received'[m] = received[m] /\ returned'[m] = returned[m]
    BY <1>3, <2>2
  <2> QED
    BY <1>1, <1>2, <1>4, <1>5, <2>1, <2>3, MarkedReads
<1>7. CASE a \in Member
  <2>1. amountPaid' = [amountPaid EXCEPT ![a] =
                         Least0((IF tx[w].loaded THEN tx[w].paid ELSE @) - n)]
    BY <1>7, ConstantsAssumption DEF RefundCommit, Unlink
  <2>2. \A m \in Member : m # a => amountPaid'[m] = amountPaid[m]
    BY <2>1 DEF Loaded
  <2>3. \A v \in Request : tx'[v] = IF v = w THEN Idle ELSE tx[v]
    BY <1>4 DEF Typed
  <2>4. a \in Concerns(w) /\ p \in Concerns(w)
    BY <1>1, <1>7, ConcernsAre
  <2>5. ASSUME a \notin raced'
        PROVE  /\ amountPaid'[a] <= received'[a] - returned'[a]
               /\ crashes = 0 => amountPaid'[a] = received'[a] - returned'[a]
               /\ \A v \in Request : v # w => a \notin Concerns(v)
    <3>1. \A v \in Request : v # w => a \notin Concerns(v)
      BY <1>4, <2>4, <2>5, NotRaced
    <3>2. a \notin raced /\ p \notin raced
      BY <1>1, <1>4, <1>7, <2>5 DEF Tracked
    <3>3. ~ Recording(a)
      <4> SUFFICES ASSUME NEW v \in Request, tx[v].step = "record", tx[v].member = a
                   PROVE  FALSE
        BY DEF Recording
      <4>1. v # w /\ a \in Concerns(v)
        BY <1>1, ConcernsAre
      <4> QED
        BY <3>1, <4>1
    <3>4. /\ amountPaid[a] \in Nat /\ amountPaid[a] <= received[a] - returned[a]
          /\ crashes = 0 => amountPaid[a] = received[a] - returned[a]
          /\ received[a] \in Nat /\ returned[a] \in Nat /\ a \in Account
      BY <1>2, <1>7, <3>2, <3>3
      DEF Marked, Loaded, FeesAreCovered, FeesMatchPayments, Counted
    <3>5. n <= Available(p) /\ Available(p) \in Int
      BY <1>1, <3>2, SharesAreIntegers DEF Reserved
    <3>6. n <= received[a] - returned[a]
      <4>1. Available(p) <= received[a] - returned[a]
        BY <1>1, <1>7, <3>2, HeldCovers
      <4> HIDE DEF n, p, a
      <4> QED
        BY <1>1, <3>4, <3>5, <4>1
    <3>7. tx[w].loaded => tx[w].paid = amountPaid[a]
      BY <1>1, <3>2 DEF Marked, Current
    <3>8. amountPaid'[a] = Least0(amountPaid[a] - n)
      BY <1>7, <2>1, <3>7 DEF Loaded
    <3>9. received'[a] - returned'[a] = received[a] - returned[a] - n
      BY <1>1, <1>3, <3>4
    <3> HIDE DEF n, p, a
    <3>10. /\ Least0(amountPaid[a] - n) <= received[a] - returned[a] - n
           /\ crashes = 0 => Least0(amountPaid[a] - n) = received[a] - returned[a] - n
      BY <1>1, <3>4, <3>6 DEF Least0
    <3> QED
      BY <3>1, <3>8, <3>9, <3>10
  <2>6. ASSUME NEW m \in Member \ raced'
        PROVE  /\ amountPaid'[m] <= received'[m] - returned'[m]
               /\ crashes' = 0 /\ ~ Recording(m)' =>
                    amountPaid'[m] = received'[m] - returned'[m]
               /\ \A v \in Request : v # w /\ m \in Concerns(v) =>
                    /\ amountPaid'[m] = amountPaid[m]
                    /\ received'[m] = received[m] /\ returned'[m] = returned[m]
    <3>1. m \in Account /\ m \notin raced
      BY <1>4 DEF Account
    <3>2. CASE m = a
      BY <1>4, <2>5, <3>2
    <3>3. CASE m # a
      <4>1. /\ amountPaid'[m] = amountPaid[m]
            /\ received'[m] = received[m] /\ returned'[m] = returned[m]
        BY <1>3, <2>2, <3>1, <3>3
      <4>2. ~ Recording(m)' => ~ Recording(m)
        BY <1>1, <2>3 DEF Recording
      <4>3. /\ amountPaid[m] <= received[m] - returned[m]
            /\ crashes = 0 /\ ~ Recording(m) => amountPaid[m] = received[m] - returned[m]
        BY <3>1 DEF Marked, FeesAreCovered, FeesMatchPayments
      <4> QED
        BY <1>4, <4>1, <4>2, <4>3
    <3> QED
      BY <3>2, <3>3
  <2> QED
    BY <1>2, <1>4, <1>5, <2>6, MarkedKept
<1> QED
  BY <1>2, <1>6, <1>7 DEF Account

(* Marked is kept by the receipt of a fee. *)
LEMMA MarkedPaid ==
  ASSUME Typed, Loaded, Counted, Marked, NEW w \in Request, PayReceipt(w)
  PROVE  Marked'
<1> DEFINE m == tx[w].member
           n == tx[w].amount
           line == [account |-> m, amount |-> n]
           t == [tx[w] EXCEPT !.step = "record"]
<1>1. /\ tx[w].step = "pay" /\ m \in Member /\ n \in Amount /\ n \in Nat
      /\ tx[w].paid \in Nat /\ DOMAIN tx[w] = {"step", "member", "amount", "paid"}
      /\ m \notin raced => tx[w].paid = amountPaid[m]
  <2>1. tx[w].step = "pay" /\ Reads(tx[w]) /\ Current(w)
    BY DEF PayReceipt, Loaded, Marked
  <2> QED
    BY <2>1, ConstantsAssumption DEF Reads, Current
<1>2. line \in Line
  BY <1>1 DEF Line, Account
<1>3. <<line>> \in Seq(Line) /\ AddPayments(<<line>>) /\ DOMAIN <<line>> = {1}
      /\ <<line>>[1] = line
  BY <1>2 DEF PayReceipt
<1>4. /\ returned' = returned
      /\ \A b \in Account : received'[b] = IF b = m THEN received[b] + n ELSE received[b]
  <2>1. returned' = returned /\ \A b \in Account : received'[b] = received[b] + Paid(b, <<line>>)
    BY <1>3, CountedPayments
  <2>2. ASSUME NEW b \in Account PROVE Paid(b, <<line>>) = IF b = m THEN n ELSE 0
    <3> DEFINE lines == <<line>>
    <3>1. lines \in Seq(Line) /\ DOMAIN lines = {1} /\ lines[1].account = m /\ lines[1].amount = n
      BY <1>3
    <3> HIDE DEF lines, line
    <3>2. CASE b = m
      <4>1. Paid(b, lines) = lines[1].amount
        BY <3>1, <3>2, PaidIs
      <4> QED
        BY <3>1, <3>2, <4>1 DEF lines
    <3>3. CASE b # m
      <4>1. Paid(b, lines) = 0
        BY <3>1, <3>3, PaidIs
      <4> QED
        BY <3>3, <4>1 DEF lines
    <3> QED
      BY <3>2, <3>3
  <2> QED
    BY <2>1, <2>2 DEF Counted
<1>5. /\ tx' = [tx EXCEPT ![w] = t] /\ amountPaid' = amountPaid /\ crashes' = crashes
      /\ Race(w) /\ raced \subseteq raced'
  BY DEF PayReceipt, team, Race
<1>6. /\ t.step = "record" /\ t.member = m /\ t.amount = n /\ t.paid = tx[w].paid
      /\ tx'[w] = t
  BY <1>1, <1>5 DEF Typed
<1>7. Grown
  BY <1>3, AddPaymentsWrites
<1>8. m \in Concerns(w)
  BY <1>1, ConcernsAre
<1>9. \A v \in Request : v # w => tx'[v] = tx[v]
  BY <1>5 DEF Typed
<1>10. m \in Account /\ received[m] \in Nat /\ returned[m] \in Nat /\ amountPaid[m] \in Nat
  BY <1>1 DEF Counted, Account, Loaded
<1> HIDE DEF t
<1>11. ASSUME m \notin raced'
       PROVE  /\ amountPaid'[m] <= received'[m] - returned'[m]
              /\ tx[w].paid + n <= received'[m] - returned'[m]
              /\ crashes = 0 => tx[w].paid + n = received'[m] - returned'[m]
              /\ \A v \in Request : v # w => m \notin Concerns(v)
  <2>1. \A v \in Request : v # w => m \notin Concerns(v)
    BY <1>5, <1>8, <1>11, NotRaced
  <2>2. m \notin raced
    BY <1>5, <1>11
  <2>3. ~ Recording(m)
    <3> SUFFICES ASSUME NEW v \in Request, tx[v].step = "record", tx[v].member = m
                 PROVE  FALSE
      BY DEF Recording
    <3>1. v # w /\ m \in Concerns(v)
      BY <1>1, ConcernsAre
    <3> QED
      BY <2>1, <3>1
  <2>4. /\ amountPaid[m] <= received[m] - returned[m]
        /\ crashes = 0 => amountPaid[m] = received[m] - returned[m]
    BY <1>1, <2>2, <2>3 DEF Marked, FeesAreCovered, FeesMatchPayments
  <2>5. tx[w].paid = amountPaid[m]
    BY <1>1, <2>2
  <2>6. received'[m] - returned'[m] = received[m] - returned[m] + n
    BY <1>1, <1>4, <1>10
  <2> HIDE DEF m, n
  <2> QED
    BY <1>1, <1>5, <1>10, <2>1, <2>4, <2>5, <2>6
<1>12. ASSUME NEW b \in Member \ raced'
       PROVE  /\ amountPaid'[b] <= received'[b] - returned'[b]
              /\ crashes' = 0 /\ ~ Recording(b)' =>
                   amountPaid'[b] = received'[b] - returned'[b]
              /\ \A v \in Request : v # w /\ b \in Concerns(v) =>
                   /\ amountPaid'[b] = amountPaid[b]
                   /\ received'[b] = received[b] /\ returned'[b] = returned[b]
  <2>1. b \in Account /\ b \notin raced
    BY <1>5 DEF Account
  <2>2. CASE b = m
    <3>1. Recording(b)'
      BY <1>6, <2>2 DEF Recording
    <3>2. m \notin raced'
      BY <2>2
    <3> HIDE DEF m, n
    <3> QED
      BY <1>11, <2>2, <3>1, <3>2
  <2>3. CASE b # m
    <3>1. received'[b] = received[b] /\ returned'[b] = returned[b] /\ amountPaid'[b] = amountPaid[b]
      BY <1>4, <1>5, <2>1, <2>3
    <3>2. ~ Recording(b)' => ~ Recording(b)
      BY <1>1, <1>9 DEF Recording
    <3>3. /\ amountPaid[b] <= received[b] - returned[b]
          /\ crashes = 0 /\ ~ Recording(b) => amountPaid[b] = received[b] - returned[b]
      BY <2>1 DEF Marked, FeesAreCovered, FeesMatchPayments
    <3> QED
      BY <1>5, <3>1, <3>2, <3>3
  <2> QED
    BY <2>2, <2>3
<1>13. Current(w)'
  <2>1. m \notin raced' => tx[w].paid = amountPaid'[m]
    BY <1>1, <1>5
  <2> HIDE DEF m, n
  <2> QED
    BY <1>5, <1>6, <1>11, <2>1 DEF Current, Held
<1> QED
  BY <1>5, <1>7, <1>12, <1>13, MarkedKept

(* Marked is kept when the fee is marked as paid. *)
LEMMA MarkedRecord ==
  ASSUME Typed, Loaded, Counted, Marked, NEW w \in Request, PayRecord(w)
  PROVE  Marked'
<1> DEFINE m == tx[w].member
           n == tx[w].amount
<1>1. /\ tx[w].step = "record" /\ m \in Member
      /\ m \notin raced =>
           tx[w].paid + n <= Held(m) /\ (crashes = 0 => tx[w].paid + n = Held(m))
  <2>1. tx[w].step = "record" /\ Reads(tx[w]) /\ Current(w)
    BY DEF PayRecord, Loaded, Marked
  <2> QED
    BY <2>1 DEF Reads, Current
<1>2. \A b \in Member : amountPaid'[b] = IF b = m THEN tx[w].paid + n ELSE amountPaid[b]
  BY <1>1 DEF PayRecord, Record, Loaded
<1>3. /\ tx' = [tx EXCEPT ![w] = Idle] /\ crashes' = crashes
      /\ received' = received /\ returned' = returned /\ payments' = payments
      /\ Race(w) /\ raced \subseteq raced' /\ Grown
  BY UnchangedIsGrown DEF PayRecord, End, money, Race
<1>4. m \in Concerns(w)
  BY <1>1, ConcernsAre
<1>5. Current(w)'
  <2>1. tx'[w].step = "idle"
    BY <1>3 DEF Typed, Idle
  <2> QED
    BY <2>1 DEF Current
<1>6. ASSUME NEW b \in Member \ raced'
      PROVE  /\ amountPaid'[b] <= received'[b] - returned'[b]
             /\ crashes' = 0 /\ ~ Recording(b)' =>
                  amountPaid'[b] = received'[b] - returned'[b]
             /\ \A v \in Request : v # w /\ b \in Concerns(v) =>
                  /\ amountPaid'[b] = amountPaid[b]
                  /\ received'[b] = received[b] /\ returned'[b] = returned[b]
  <2>1. b \notin raced
    BY <1>3
  <2>2. CASE b = m
    <3>1. \A v \in Request : v # w => m \notin Concerns(v)
      BY <1>3, <1>4, <2>2, NotRaced
    <3> QED
      BY <1>1, <1>2, <1>3, <2>1, <2>2, <3>1 DEF Held
  <2>3. CASE b # m
    <3>1. ~ Recording(b)' => ~ Recording(b)
      <4>1. \A v \in Request : v # w => tx'[v] = tx[v]
        BY <1>3 DEF Typed
      <4> QED
        BY <2>3, <4>1 DEF Recording
    <3>2. /\ amountPaid[b] <= received[b] - returned[b]
          /\ crashes = 0 /\ ~ Recording(b) => amountPaid[b] = received[b] - returned[b]
      BY <2>1 DEF Marked, FeesAreCovered, FeesMatchPayments
    <3> QED
      BY <1>2, <1>3, <2>3, <3>1, <3>2
  <2> QED
    BY <2>2, <2>3
<1> QED
  BY <1>3, <1>5, <1>6, MarkedKept

(* Marked is kept by every step. *)
LEMMA MarkedStep ==
  ASSUME ReceiptsEnroll, Typed, Reserved, Loaded, Tracked, Counted, Balanced, OfPayments,
         Marked, [Next]_vars
  PROVE  Marked'
<1> USE DEF money, team
<1>1. Grown
  BY RowsGrow
<1>2. ASSUME NEW w \in Request, NEW t, tx' = [tx EXCEPT ![w] = t], Current(w)',
             UNCHANGED <<raced, amountPaid, received, returned>>,
             (crashes' = crashes /\ tx[w].step # "record") \/ crashes' = crashes + 1
      PROVE  Marked'
  BY <1>1, <1>2, MarkedReads
<1>3. ASSUME NEW w \in Request, NEW r \in Receipts, NEW credit \in BOOLEAN,
             ReceiptCheck(w, r, credit)
      PROVE  Marked'
  <2> DEFINE t == [step |-> "receipt", lines |-> r, credit |-> credit]
  <2>1. tx[w].step = "idle" /\ tx' = [tx EXCEPT ![w] = t] /\ tx'[w].step = "receipt"
    BY <1>3 DEF ReceiptCheck, Begin, Idle, Typed
  <2>2. Current(w)'
    BY <2>1 DEF Current
  <2>3. UNCHANGED <<raced, amountPaid, received, returned>> /\ crashes' = crashes
    BY <1>3 DEF ReceiptCheck
  <2> HIDE DEF t
  <2> QED
    BY <1>2, <2>1, <2>2, <2>3
<1>4. ASSUME NEW w \in Request, NEW p \in PaymentId, NEW n \in Amount, RefundCheck(w, p, n)
      PROVE  Marked'
  <2> DEFINE t == [step |-> "refund", id |-> p, amount |-> n, loaded |-> FALSE,
                   orphan |-> payments[p].account \in gone]
  <2>1. tx[w].step = "idle" /\ tx' = [tx EXCEPT ![w] = t] /\ tx'[w].step = "refund"
        /\ tx'[w].loaded = FALSE
    BY <1>4 DEF RefundCheck, Begin, Idle, Typed
  <2>2. Current(w)'
    BY <2>1 DEF Current
  <2>3. UNCHANGED <<raced, amountPaid, received, returned>> /\ crashes' = crashes
    BY <1>4 DEF RefundCheck
  <2> HIDE DEF t
  <2> QED
    BY <1>2, <2>1, <2>2, <2>3
<1>5. ASSUME NEW w \in Request, NEW m \in Member, NEW p \in PaymentId, NEW n \in Amount,
             FeeRefundCheck(w, m, p, n)
      PROVE  Marked'
  <2> DEFINE t == [step |-> "refund", id |-> p, amount |-> n, loaded |-> TRUE,
                   orphan |-> FALSE, paid |-> amountPaid[m]]
  <2>1. /\ tx[w].step = "idle" /\ tx' = [tx EXCEPT ![w] = t] /\ tx'[w].step = "refund"
        /\ tx'[w].id = p /\ tx'[w].paid = amountPaid[m] /\ payments[p].account = m
        /\ payments' = payments /\ amountPaid' = amountPaid
    BY <1>5 DEF FeeRefundCheck, Covers, Begin, Idle, Typed
  <2>2. Current(w)'
    BY <2>1 DEF Current
  <2>3. UNCHANGED <<raced, amountPaid, received, returned>> /\ crashes' = crashes
    BY <1>5 DEF FeeRefundCheck
  <2> HIDE DEF t
  <2> QED
    BY <1>2, <2>1, <2>2, <2>3
<1>6. ASSUME NEW w \in Request, NEW m \in Member, NEW n \in Amount, PayLoad(w, m, n)
      PROVE  Marked'
  <2> DEFINE t == [step |-> "pay", member |-> m, amount |-> n, paid |-> amountPaid[m]]
  <2>1. /\ tx[w].step = "idle" /\ tx' = [tx EXCEPT ![w] = t] /\ tx'[w].step = "pay"
        /\ tx'[w].member = m /\ tx'[w].paid = amountPaid[m] /\ amountPaid' = amountPaid
    BY <1>6 DEF PayLoad, Begin, Idle, Typed
  <2>2. Current(w)'
    BY <2>1 DEF Current
  <2>3. UNCHANGED <<raced, amountPaid, received, returned>> /\ crashes' = crashes
    BY <1>6 DEF PayLoad
  <2> HIDE DEF t
  <2> QED
    BY <1>2, <2>1, <2>2, <2>3
<1>7. ASSUME NEW w \in Request, RefundRaises(w) \/ Refused(w) \/ Crash(w)
      PROVE  Marked'
  <2>1. /\ tx' = [tx EXCEPT ![w] = Idle]
        /\ UNCHANGED <<raced, received, returned, amountPaid>>
    BY <1>7 DEF RefundRaises, Refused, Crash, End
  <2>2. (crashes' = crashes /\ tx[w].step # "record") \/ crashes' = crashes + 1
    <3>1. CASE RefundRaises(w) \/ Refused(w)
      BY <3>1 DEF RefundRaises, Refused
    <3>2. CASE Crash(w)
      BY <3>2 DEF Crash
    <3> QED
      BY <1>7, <3>1, <3>2
  <2>3. tx'[w].step = "idle"
    BY <2>1 DEF Idle, Typed
  <2>4. Current(w)'
    BY <2>3 DEF Current
  <2> QED
    BY <1>2, <2>1, <2>2, <2>4
<1>8. CASE \/ \E m \in Member : RemoveMember(m)
           \/ \E ms \in SUBSET Member : RegisterTeam(ms)
           \/ DeleteTeam \/ UNCHANGED vars
           \/ \E e \in Enrollment : \E n \in Price : ChangePrice(e, n)
           \/ \E l \in Level : DeleteLevel(l)
  <2>1. UNCHANGED <<payments, received, returned, amountPaid, tx, crashes, raced>>
    BY <1>8 DEF RegisterTeam, RemoveMember, DeleteTeam, vars, ChangePrice, DeleteLevel
  <2> QED
    BY <2>1 DEF Marked, FeesAreCovered, FeesMatchPayments, Recording, Current, Held
<1> QED
  BY <1>3, <1>4, <1>5, <1>6, <1>7, <1>8, MarkedReceipt, MarkedRefund, MarkedPaid,
     MarkedRecord DEF Next

(* The sums of no rows. *)
LEMMA InitBooks ==
  ASSUME Init
  PROVE  Counted /\ OfPayments /\ Balanced /\ Loaded /\ Tracked /\ Marked
<1>1. /\ payments = <<>> /\ \A w \in Request : tx[w].step = "idle"
      /\ \A a \in Account : received[a] = 0 /\ returned[a] = 0
  BY DEF Init, Idle
<1>2. Counted /\ OfPayments
  BY <1>1 DEF Init, Counted, OfPayments
<1>3. Balanced
  <2> SUFFICES ASSUME NEW a \in Account PROVE Unrefunded(a) = 0
    BY <1>1 DEF Balanced
  <2>1. Shares(a) = [i \in {} |-> 0] /\ DOMAIN Shares(a) = {}
    BY <1>1 DEF Shares
  <2>2. Shares(a) \in [1 .. 0 -> Nat]
    BY <2>1
  <2>3. Shares(a) \in Seq(Nat)
    BY <2>2, IsASeq
  <2> QED
    BY <2>1, <2>3, TotalBounds DEF Unrefunded
<1>4. Loaded /\ Tracked
  <2>1. \A w \in Request : Reads(tx[w])
    BY <1>1 DEF Reads
  <2> QED
    BY <2>1 DEF Init, Loaded, Tracked
<1>5. Marked
  <2>1. \A m \in Member : amountPaid[m] = 0 /\ m \in Account
    BY DEF Init, Account
  <2>2. FeesAreCovered
    BY <1>1, <2>1 DEF FeesAreCovered, FeesMatchPayments
  <2>3. \A w \in Request : Current(w)
    BY <1>1 DEF Current
  <2> QED
    BY <2>2, <2>3 DEF Marked
<1> QED
  BY <1>2, <1>3, <1>4, <1>5

(* For receipts of enrollments and refunds of payments, however many       *)
(* requests overlap: what is marked as paid of a competition fee never     *)
(* exceeds what the member's rows hold, wherever a request is cut off, and *)
(* is what they hold as long as none was; but for a member whom one        *)
(* request paid for or refunded while another had amount_paid loaded.      *)
THEOREM FeesStayCovered ==
  ASSUME PaymentsOnly, ReceiptsEnroll
  PROVE  Spec => []FeesAreCovered
<1> DEFINE I == /\ Typed /\ Anchored /\ Reserved /\ Counted /\ OfPayments /\ Balanced
                /\ Loaded /\ Tracked /\ Marked
<1>1. Init => I
  BY InitTyped, InitReserved, InitBooks
<1>2. I /\ [Next]_vars => I'
  <2> SUFFICES ASSUME I, [Next]_vars PROVE I'
    OBVIOUS
  <2>1. Typed' /\ Anchored' /\ Reserved'
    BY AnchoredStep, ReservedStep
  <2>2. Counted' /\ OfPayments' /\ Balanced'
    BY <2>1, CountedStep, OfPaymentsStep, BalancedStep
  <2>3. Loaded' /\ Tracked'
    BY LoadedStep, TrackedStep
  <2>4. Marked'
    BY MarkedStep
  <2> QED
    BY <2>1, <2>2, <2>3, <2>4
<1>3. I => FeesAreCovered
  BY DEF Marked
<1> QED
  BY <1>1, <1>2, <1>3, PTL DEF Spec

(***************************************************************************)
(* Credit is asked for.                                                    *)
(***************************************************************************)

(* No enrollment is on two lines of a receipt: each line is compared with  *)
(* the balance of the table by itself.                                     *)
OneLineEach ==
  \A r \in Receipts : \A i, j \in DOMAIN r : r[i].account = r[j].account => i = j

(* No price is negative: no discount exceeds the amount due.               *)
PricesArePositive == Price \subseteq Nat

(* A receipt that has been checked still fits the enrollments that were    *)
(* not raced.                                                              *)
Ordered(w) ==
  tx[w].step = "receipt" =>
    /\ tx[w].lines \in Receipts
    /\ ~ tx[w].credit =>
         \A i \in DOMAIN tx[w].lines :
           tx[w].lines[i].account \in Enrollment \ (gone \cup lowered \cup raced) =>
             Balance(tx[w].lines[i].account) + tx[w].lines[i].amount <= 0

Allowed ==
  /\ netDue \in [Enrollment -> Int]
  /\ CreditIsAllowed
  /\ \A w \in Request : Ordered(w)

(* A balance is a number. *)
LEMMA BalanceIsInt ==
  ASSUME Counted, Allowed, NEW e \in Enrollment
  PROVE  /\ Balance(e) \in Int /\ netDue[e] \in Int
         /\ received[e] \in Nat /\ returned[e] \in Nat /\ e \in Account /\ e \notin Member
BY ConstantsAssumption DEF Counted, Allowed, Balance, Account

(* The balances do not grow, but for those of lowered prices.              *)
LEMMA AllowedWhenLower ==
  ASSUME Allowed, netDue' \in [Enrollment -> Int],
         gone \subseteq gone', consented \subseteq consented', lowered \subseteq lowered',
         raced \subseteq raced',
         \A e \in Enrollment \ (gone \cup lowered') : Balance(e)' <= Balance(e),
         \A e \in Enrollment : Balance(e) \in Int /\ Balance(e)' \in Int,
         \A w \in Request : tx'[w].step = "receipt" =>
           tx'[w] = tx[w] /\ \A i \in DOMAIN tx[w].lines : tx[w].lines[i].amount \in Int
  PROVE  Allowed'
<1>1. CreditIsAllowed'
  <2> SUFFICES ASSUME NEW e \in Enrollment \ gone', Balance(e)' > 0,
                      e \notin consented' \cup lowered' \cup raced'
               PROVE  FALSE
    BY DEF CreditIsAllowed
  <2>1. Balance(e) > 0 /\ e \in Enrollment \ gone
    OBVIOUS
  <2> QED
    BY <2>1 DEF Allowed, CreditIsAllowed
<1>2. ASSUME NEW w \in Request PROVE Ordered(w)'
  <2> SUFFICES ASSUME tx'[w].step = "receipt",
                      tx'[w] = tx[w],
                      \A i \in DOMAIN tx[w].lines : tx[w].lines[i].amount \in Int
               PROVE  Ordered(w)'
    BY DEF Ordered
  <2>1. Ordered(w) /\ tx[w].step = "receipt"
    BY DEF Allowed
  <2>2. ASSUME ~ tx[w].credit, NEW i \in DOMAIN tx[w].lines,
               tx[w].lines[i].account \in Enrollment \ (gone' \cup lowered' \cup raced')
        PROVE  Balance(tx[w].lines[i].account)' + tx[w].lines[i].amount <= 0
    <3> DEFINE e == tx[w].lines[i].account
    <3>1. Balance(e) + tx[w].lines[i].amount <= 0 /\ e \in Enrollment \ (gone \cup lowered \cup raced)
      BY <2>1, <2>2 DEF Ordered
    <3>2. Balance(e)' <= Balance(e) /\ Balance(e) \in Int /\ Balance(e)' \in Int
      BY <2>2, <3>1
    <3> QED
      BY <3>1, <3>2
  <2> QED
    BY <2>1, <2>2 DEF Ordered
<1> QED
  BY <1>1, <1>2 DEF Allowed

(* Allowed is kept by the receipt that was checked. *)
LEMMA AllowedReceipt ==
  ASSUME OneLineEach, Typed, Counted, Allowed, NEW w \in Request,
         ReceiptCommit(w), Counted'
  PROVE  Allowed'
<1> DEFINE lines == tx[w].lines
<1>1. /\ tx[w].step = "receipt" /\ lines \in Seq(Line) /\ lines \in Receipts
      /\ AddPayments(lines)
  BY DEF ReceiptCommit, Typed, Allowed, Ordered
<1>2. /\ netDue' = netDue /\ lowered' = lowered /\ gone' = gone
      /\ returned' = returned
      /\ \A a \in Account : received'[a] = received[a] + Paid(a, lines)
  BY <1>1, CountedPayments DEF ReceiptCommit, price, levels
<1>9. Race(w) /\ raced \subseteq raced' /\ tx' = [tx EXCEPT ![w] = Idle]
  BY DEF ReceiptCommit, Race, End
<1>3. ASSUME NEW v \in Request PROVE Ordered(v)'
  <2> SUFFICES ASSUME tx'[v].step = "receipt" PROVE Ordered(v)'
    BY DEF Ordered
  <2>1. v # w /\ tx'[v] = tx[v]
    BY <1>9 DEF Idle, Typed
  <2>2. Ordered(v) /\ tx[v].step = "receipt" /\ tx[v].lines \in Receipts
    BY <2>1 DEF Allowed, Ordered
  <2>3. ASSUME ~ tx[v].credit, NEW i \in DOMAIN tx[v].lines,
               tx[v].lines[i].account \in Enrollment \ (gone' \cup lowered' \cup raced')
        PROVE  Balance(tx[v].lines[i].account)' + tx[v].lines[i].amount <= 0
    <3> DEFINE e == tx[v].lines[i].account
    <3>1. Balance(e) + tx[v].lines[i].amount <= 0
      BY <1>2, <1>9, <2>2, <2>3 DEF Ordered
    <3>2. e \in Concerns(v) /\ e \in Account /\ e \notin raced'
      BY <2>2, <2>3, ConcernsAre DEF Account
    <3>3. e \notin Concerns(w)
      BY <1>9, <2>1, <3>2 DEF Race
    <3>4. \A k \in DOMAIN lines : lines[k].account # e
      BY <1>1, <3>3, ConcernsAre
    <3>5. Paid(e, lines) = 0
      BY <1>1, <3>2, <3>4, PaidIs
    <3>6. received'[e] = received[e]
      BY <1>2, <3>2, <3>5 DEF Counted
    <3>7. Balance(e)' = Balance(e)
      BY <1>2, <2>1, <3>6 DEF Balance
    <3> QED
      BY <2>1, <3>1, <3>7
  <2> QED
    BY <2>1, <2>2, <2>3 DEF Ordered
<1>4. CreditIsAllowed'
  <2> SUFFICES ASSUME NEW e \in Enrollment \ gone, Balance(e)' > 0,
                      e \notin consented', e \notin lowered, e \notin raced'
               PROVE  FALSE
    BY <1>2 DEF CreditIsAllowed
  <2>1. /\ Balance(e) \in Int /\ netDue[e] \in Int
        /\ received[e] \in Nat /\ returned[e] \in Nat /\ e \in Account
    BY BalanceIsInt
  <2>2. consented \subseteq consented'
    BY DEF ReceiptCommit
  <2>12. e \notin raced
    BY <1>9
  <2>3. Balance(e) <= 0
    BY <2>1, <2>2, <2>12 DEF Allowed, CreditIsAllowed
  <2>4. Balance(e)' = Balance(e) + Paid(e, lines)
    BY <1>1, <1>2, <2>1, PaidIs DEF Balance
  <2>5. PICK k \in DOMAIN lines : lines[k].account = e
    <3>1. SUFFICES ASSUME \A i \in DOMAIN lines : lines[i].account # e PROVE FALSE
      OBVIOUS
    <3>2. Paid(e, lines) = 0
      BY <1>1, <2>1, <3>1, PaidIs
    <3> QED
      BY <2>1, <2>3, <2>4, <3>2
  <2>6. \A i \in DOMAIN lines : i # k => lines[i].account # e
    BY <1>1, <2>5 DEF OneLineEach
  <2>7. Paid(e, lines) = lines[k].amount
    BY <1>1, <2>1, <2>5, <2>6, PaidIs
  <2>8. ~ tx[w].credit
    BY <2>5 DEF ReceiptCommit
  <2>9. Balance(e) + lines[k].amount <= 0
    BY <1>1, <2>5, <2>8, <2>12 DEF Allowed, Ordered
  <2>10. Balance(e)' <= 0
    BY <2>4, <2>7, <2>9
  <2>11. Balance(e)' \in Int
    BY <1>2, <2>1, PaidIs, <1>1, <2>4
  <2> QED
    BY <2>10, <2>11
<1> QED
  BY <1>2, <1>3, <1>4 DEF Allowed

(* Allowed is kept by every step. *)
LEMMA AllowedStep ==
  ASSUME OneLineEach, PricesArePositive, Typed, Counted, Allowed, [Next]_vars, Counted'
  PROVE  Allowed'
<1> USE DEF money, team, price, levels
<1>1. \A e \in Enrollment : Balance(e) \in Int
  BY BalanceIsInt
<1>2. ASSUME netDue' = netDue PROVE \A e \in Enrollment : Balance(e)' \in Int
  BY <1>2, ConstantsAssumption DEF Balance, Counted, Allowed, Account
<1>3. \A w \in Request : tx[w].step = "receipt" =>
        \A i \in DOMAIN tx[w].lines : tx[w].lines[i].amount \in Int
  <2> SUFFICES ASSUME NEW w \in Request, tx[w].step = "receipt",
                      NEW i \in DOMAIN tx[w].lines
               PROVE  tx[w].lines[i].amount \in Int
    OBVIOUS
  <2>1. tx[w].lines \in Seq(Line)
    BY DEF Typed
  <2>2. tx[w].lines[i] \in Line
    BY <2>1, ElementOfSeq, LenProperties
  <2>3. tx[w].lines[i].amount \in Amount
    BY <2>2 DEF Line
  <2> QED
    BY <2>3, AmountsAreNaturals
<1>16. raced \subseteq raced'
  BY RacesGrow
(* Nothing of the balances is written.                                     *)
<1>4. ASSUME UNCHANGED <<received, returned, netDue, lowered, gone, consented>>,
             \A v \in Request : tx'[v].step = "receipt" => tx'[v] = tx[v]
      PROVE  Allowed'
  <2>1. \A e \in Enrollment : Balance(e)' = Balance(e)
    BY <1>4 DEF Balance
  <2>2. netDue' \in [Enrollment -> Int]
    BY <1>4 DEF Allowed
  <2>3. \A e \in Enrollment \ (gone \cup lowered') : Balance(e)' <= Balance(e)
    BY <1>1, <2>1
  <2> QED
    BY <1>1, <1>3, <1>4, <2>1, <2>2, <2>3, <1>16, AllowedWhenLower
<1>5. ASSUME NEW w \in Request, NEW r \in Receipts, NEW credit \in BOOLEAN,
             ReceiptCheck(w, r, credit)
      PROVE  Allowed'
  <2>1. /\ tx'[w].step = "receipt" /\ tx'[w].lines = r /\ tx'[w].credit = credit
        /\ UNCHANGED <<received, returned, netDue, lowered, gone, consented>>
    BY <1>5 DEF ReceiptCheck, Begin, Typed
  <2>2. \A e \in Enrollment : Balance(e)' = Balance(e)
    BY <2>1 DEF Balance
  <2>3. ASSUME ~ credit, NEW i \in DOMAIN r, r[i].account \in Enrollment
        PROVE  Balance(r[i].account) + r[i].amount <= 0
    <3>1. r \in Seq(Line)
      BY ConstantsAssumption
    <3>2. r[i].amount \in Int
      <4>1. r[i] \in Line
        BY <3>1, ElementOfSeq, LenProperties
      <4>2. r[i].amount \in Amount
        BY <4>1 DEF Line
      <4> QED
        BY <4>2, AmountsAreNaturals
    <3>3. ~ Overpays(r[i])
      BY <1>5, <2>3 DEF ReceiptCheck
    <3> QED
      BY <1>1, <2>3, <3>2, <3>3 DEF Overpays
  <2>4. Ordered(w)'
    BY <2>1, <2>2, <2>3 DEF Ordered
  <2>5. CreditIsAllowed'
    BY <1>16, <2>1, <2>2 DEF Allowed, CreditIsAllowed
  <2>6. ASSUME NEW v \in Request, v # w PROVE Ordered(v)'
    <3>1. tx'[v] = tx[v] /\ Ordered(v)
      BY <1>5, <2>6 DEF ReceiptCheck, Begin, Typed, Allowed
    <3> QED
      BY <1>16, <2>1, <2>2, <3>1 DEF Ordered
  <2> QED
    BY <2>1, <2>4, <2>5, <2>6 DEF Allowed
<1>6. ASSUME NEW w \in Request, NEW p \in PaymentId, NEW n \in Amount, RefundCheck(w, p, n)
      PROVE  Allowed'
  <2>1. \A v \in Request : tx'[v].step = "receipt" => tx'[v] = tx[v]
    BY <1>6 DEF RefundCheck, Begin, Typed
  <2> QED
    BY <1>4, <1>6, <2>1 DEF RefundCheck
<1>7. ASSUME NEW w \in Request, NEW m \in Member, NEW p \in PaymentId, NEW n \in Amount,
             FeeRefundCheck(w, m, p, n)
      PROVE  Allowed'
  <2>1. \A v \in Request : tx'[v].step = "receipt" => tx'[v] = tx[v]
    BY <1>7 DEF FeeRefundCheck, Begin, Typed
  <2> QED
    BY <1>4, <1>7, <2>1 DEF FeeRefundCheck
<1>8. ASSUME NEW w \in Request, NEW m \in Member, NEW n \in Amount, PayLoad(w, m, n)
      PROVE  Allowed'
  <2>1. \A v \in Request : tx'[v].step = "receipt" => tx'[v] = tx[v]
    BY <1>8 DEF PayLoad, Begin, Typed
  <2> QED
    BY <1>4, <1>8, <2>1 DEF PayLoad
<1>9. ASSUME NEW w \in Request, End(w)
      PROVE  \A v \in Request : tx'[v].step = "receipt" => tx'[v] = tx[v]
  <2>1. Idle.step # "receipt"
    BY DEF Idle
  <2> QED
    BY <1>9, <2>1 DEF End, Typed
<1>10. ASSUME NEW w \in Request, RefundRaises(w) \/ PayRecord(w) \/ Refused(w) \/ Crash(w)
       PROVE  Allowed'
  <2>1. \A v \in Request : tx'[v].step = "receipt" => tx'[v] = tx[v]
    BY <1>9, <1>10 DEF RefundRaises, PayRecord, Refused, Crash
  <2>2. UNCHANGED <<received, returned, netDue, lowered, gone, consented>>
    BY <1>10 DEF RefundRaises, PayRecord, Refused, Crash
  <2> QED
    BY <1>4, <2>1, <2>2
<1>11. ASSUME NEW w \in Request, PayReceipt(w)
       PROVE  Allowed'
  <2> DEFINE line == [account |-> tx[w].member, amount |-> tx[w].amount]
  <2>1. AddPayments(<<line>>) /\ tx[w].member \in Member /\ DOMAIN <<line>> = {1}
        /\ <<line>>[1].account = tx[w].member
    BY <1>11 DEF PayReceipt, Typed
  <2>2. returned' = returned /\ \A e \in Enrollment : received'[e] = received[e]
    BY <2>1, ConstantsAssumption DEF AddPayments, Account
  <2>3. \A e \in Enrollment : Balance(e)' = Balance(e)
    BY <1>11, <2>2 DEF PayReceipt, Balance
  <2>4. \A v \in Request : tx'[v].step = "receipt" => tx'[v] = tx[v]
    <3>1. tx'[w].step = "record" /\ \A v \in Request : v # w => tx'[v] = tx[v]
      BY <1>11 DEF PayReceipt, Typed
    <3> QED
      BY <3>1
  <2>5. UNCHANGED <<netDue, lowered, gone, consented>>
    BY <1>11 DEF PayReceipt
  <2>6. netDue' \in [Enrollment -> Int]
    BY <2>5 DEF Allowed
  <2>7. \A e \in Enrollment \ (gone \cup lowered') : Balance(e)' <= Balance(e)
    BY <1>1, <2>3
  <2> QED
    BY <1>1, <1>3, <1>16, <2>3, <2>4, <2>5, <2>6, <2>7, AllowedWhenLower
<1>12. ASSUME NEW w \in Request, RefundCommit(w)
       PROVE  Allowed'
  <2>1. /\ tx[w].id \in DOMAIN payments /\ tx[w].amount \in Amount
        /\ AddRefund(tx[w].id, tx[w].amount) /\ tx[w].amount \in Nat
    BY <1>12, ConstantsAssumption DEF RefundCommit, Typed
  <2>2. /\ received' = received
        /\ \A a \in Account : returned'[a] =
             IF a = payments[tx[w].id].account THEN returned[a] + tx[w].amount
             ELSE returned[a]
    BY <2>1, CountedRefund
  <2>3. UNCHANGED <<netDue, lowered, gone, consented>>
    BY <1>12 DEF RefundCommit
  <2>4. ASSUME NEW e \in Enrollment PROVE Balance(e)' <= Balance(e)
    <3>1. returned'[e] >= returned[e] /\ returned'[e] \in Nat
      BY <2>1, <2>2, BalanceIsInt
    <3> QED
      BY <2>2, <2>3, <3>1, BalanceIsInt DEF Balance
  <2>5. \A v \in Request : tx'[v].step = "receipt" => tx'[v] = tx[v]
    BY <1>9, <1>12 DEF RefundCommit
  <2>6. netDue' \in [Enrollment -> Int]
    BY <2>3 DEF Allowed
  <2> QED
    BY <1>1, <1>2, <1>3, <1>16, <2>3, <2>4, <2>5, <2>6, AllowedWhenLower
<1>13. ASSUME NEW e \in Enrollment, NEW n \in Price, ChangePrice(e, n)
       PROVE  Allowed'
  <2>1. /\ n \in Int /\ netDue' = [netDue EXCEPT ![e] = n]
        /\ UNCHANGED <<received, returned, tx, gone, consented>>
    BY <1>13, ConstantsAssumption DEF ChangePrice
  <2>2. netDue' \in [Enrollment -> Int] /\ lowered \subseteq lowered'
    BY <1>13, <2>1 DEF Allowed, ChangePrice
  <2>3. \A b \in Enrollment : netDue'[b] = IF b = e THEN n ELSE netDue[b]
    BY <2>1 DEF Allowed
  <2>4. \A b \in Enrollment : Balance(b)' \in Int
    BY <2>1, <2>2, ConstantsAssumption DEF Balance, Counted, Account
  <2>5. ASSUME NEW b \in Enrollment \ (gone \cup lowered') PROVE Balance(b)' <= Balance(b)
    <3>1. b = e => netDue[e] < n
      <4>1. b = e => ~ (n < netDue[e]) /\ n # netDue[e]
        BY <1>13 DEF ChangePrice
      <4> QED
        BY <2>1, <4>1 DEF Allowed
    <3>2. netDue'[b] >= netDue[b] /\ netDue'[b] \in Int
      BY <2>1, <2>3, <3>1, BalanceIsInt
    <3> QED
      BY <2>1, <3>2, BalanceIsInt DEF Balance
  <2> QED
    BY <1>1, <1>3, <2>1, <2>2, <2>4, <2>5, <1>16, AllowedWhenLower
<1>14. ASSUME NEW l \in Level, DeleteLevel(l)
       PROVE  Allowed'
  <2>1. /\ UNCHANGED <<received, returned, netDue, lowered, consented, tx>>
        /\ gone \subseteq gone'
    BY <1>14 DEF DeleteLevel
  <2>2. \A e \in Enrollment : Balance(e)' = Balance(e)
    BY <2>1 DEF Balance
  <2>3. netDue' \in [Enrollment -> Int]
    BY <2>1 DEF Allowed
  <2>4. \A e \in Enrollment \ (gone \cup lowered') : Balance(e)' <= Balance(e)
    BY <1>1, <2>2
  <2> QED
    BY <1>1, <1>3, <2>1, <2>2, <2>3, <2>4, <1>16, AllowedWhenLower
<1>15. CASE \/ \E m \in Member : RemoveMember(m)
            \/ \E ms \in SUBSET Member : RegisterTeam(ms)
            \/ DeleteTeam \/ UNCHANGED vars
  <2>1. UNCHANGED <<received, returned, netDue, lowered, gone, consented, tx>>
    BY <1>15 DEF RegisterTeam, RemoveMember, DeleteTeam, vars
  <2> QED
    BY <1>4, <2>1
<1> QED
  BY <1>5, <1>6, <1>7, <1>8, <1>10, <1>11, <1>12, <1>13, <1>14, <1>15, AllowedReceipt
  DEF Next

(* For receipts that name no enrollment twice and prices that are not      *)
(* negative, however many requests overlap: no sequence of payments,       *)
(* refunds, price changes, deleted levels and requests cut off gives an    *)
(* enrollment credit that no receipt has allowed, unless its price has     *)
(* been lowered or two of its receipts overlapped.                         *)
THEOREM NoCreditUnasked ==
  ASSUME OneLineEach, PricesArePositive
  PROVE  Spec => []CreditIsAllowed
<1> DEFINE I == Typed /\ Anchored /\ Counted /\ Allowed
<1>1. Init => I
  <2> SUFFICES ASSUME Init PROVE I
    OBVIOUS
  <2>1. /\ netDue \in [Enrollment -> Nat] /\ \A w \in Request : tx[w].step = "idle"
        /\ \A e \in Enrollment : received[e] = 0 /\ returned[e] = 0
    BY DEF Init, Idle, Account, PricesArePositive
  <2>2. \A e \in Enrollment : ~ (Balance(e) > 0)
    BY <2>1 DEF Balance
  <2>3. Allowed
    BY <2>1, <2>2 DEF Allowed, CreditIsAllowed, Ordered
  <2> QED
    BY <2>3, InitTyped, InitBooks
<1>2. I /\ [Next]_vars => I'
  <2> SUFFICES ASSUME I, [Next]_vars PROVE I'
    OBVIOUS
  <2>1. Typed' /\ Anchored' /\ Counted'
    BY AnchoredStep, CountedStep
  <2> QED
    BY <2>1, AllowedStep
<1>3. I => CreditIsAllowed
  BY DEF Allowed
<1> QED
  BY <1>1, <1>2, <1>3, PTL DEF Spec

(***************************************************************************)
(* The filters on deleted_at: voided rows have no enrollment any more.     *)
(***************************************************************************)
VoidedAreGone ==
  voided \subseteq DOMAIN payments /\ \A p \in voided : payments[p].account \in gone

(* Rows are added only and no level is deleted: VoidedAreGone is kept.     *)
LEMMA VoidedKept ==
  ASSUME VoidedAreGone, Grown, UNCHANGED levels
  PROVE  VoidedAreGone'
BY DEF VoidedAreGone, Grown, levels

(* VoidedAreGone is kept by every step. *)
LEMMA VoidedStep ==
  ASSUME Typed, VoidedAreGone, [Next]_vars
  PROVE  VoidedAreGone'
<1> USE DEF money
<1>1. ASSUME payments' = payments, UNCHANGED levels
      PROVE  VoidedAreGone'
  BY <1>1 DEF VoidedAreGone, levels
<1>2. ASSUME NEW w \in Request, ReceiptCommit(w)
      PROVE  VoidedAreGone'
  <2>1. tx[w].lines \in Seq(Line) /\ AddPayments(tx[w].lines) /\ UNCHANGED levels
    BY <1>2 DEF ReceiptCommit, Typed
  <2> QED
    BY <2>1, AddPaymentsWrites, VoidedKept
<1>3. ASSUME NEW w \in Request, PayReceipt(w)
      PROVE  VoidedAreGone'
  <2> DEFINE line == [account |-> tx[w].member, amount |-> tx[w].amount]
  <2>1. line \in Line
    BY <1>3 DEF PayReceipt, Typed, Line, Account
  <2>2. <<line>> \in Seq(Line) /\ AddPayments(<<line>>) /\ UNCHANGED levels
    BY <1>3, <2>1 DEF PayReceipt
  <2> QED
    BY <2>2, AddPaymentsWrites, VoidedKept
<1>4. ASSUME NEW w \in Request, RefundCommit(w)
      PROVE  VoidedAreGone'
  <2>1. /\ tx[w].id \in DOMAIN payments /\ tx[w].amount \in Amount
        /\ AddRefund(tx[w].id, tx[w].amount) /\ UNCHANGED levels
    BY <1>4 DEF RefundCommit, Typed
  <2> QED
    BY <2>1, AddRefundWrites, VoidedKept
<1>5. ASSUME NEW l \in Level, DeleteLevel(l)
      PROVE  VoidedAreGone'
  BY <1>5 DEF DeleteLevel, VoidedAreGone
<1>6. ASSUME NEW w \in Request, NEW r \in Receipts, NEW credit \in BOOLEAN,
             ReceiptCheck(w, r, credit)
      PROVE  VoidedAreGone'
  BY <1>1, <1>6 DEF ReceiptCheck
<1>7. ASSUME NEW w \in Request, NEW p \in PaymentId, NEW n \in Amount, RefundCheck(w, p, n)
      PROVE  VoidedAreGone'
  BY <1>1, <1>7 DEF RefundCheck
<1>8. ASSUME NEW w \in Request, NEW m \in Member, NEW p \in PaymentId, NEW n \in Amount,
             FeeRefundCheck(w, m, p, n)
      PROVE  VoidedAreGone'
  BY <1>1, <1>8 DEF FeeRefundCheck
<1>9. ASSUME NEW w \in Request, NEW m \in Member, NEW n \in Amount, PayLoad(w, m, n)
      PROVE  VoidedAreGone'
  BY <1>1, <1>9 DEF PayLoad
<1>10. ASSUME NEW w \in Request, RefundRaises(w) \/ PayRecord(w) \/ Refused(w) \/ Crash(w)
       PROVE  VoidedAreGone'
  BY <1>1, <1>10 DEF RefundRaises, PayRecord, Refused, Crash
<1>11. CASE \/ \E m \in Member : RemoveMember(m)
            \/ \E ms \in SUBSET Member : RegisterTeam(ms)
  BY <1>1, <1>11 DEF RegisterTeam, RemoveMember
<1>12. ASSUME NEW e \in Enrollment, NEW n \in Price, ChangePrice(e, n)
       PROVE  VoidedAreGone'
  BY <1>1, <1>12 DEF ChangePrice
<1>13. CASE DeleteTeam \/ UNCHANGED vars
  BY <1>1, <1>13 DEF DeleteTeam, vars, levels
<1> QED
  BY <1>2, <1>3, <1>4, <1>5, <1>6, <1>7, <1>8, <1>9, <1>10, <1>11, <1>12, <1>13 DEF Next

(***************************************************************************)
(* SUM: units counted instead of amounts added.                            *)
(***************************************************************************)

(* A finite set is counted in two parts. *)
LEMMA CountedApart ==
  ASSUME NEW S, IsFiniteSet(S), NEW T \in SUBSET S
  PROVE  /\ IsFiniteSet(T) /\ IsFiniteSet(S \ T)
         /\ Cardinality(S) \in Nat /\ Cardinality(T) \in Nat /\ Cardinality(S \ T) \in Nat
         /\ Cardinality(S) = Cardinality(T) + Cardinality(S \ T)
<1>1. IsFiniteSet(T) /\ IsFiniteSet(S \ T)
  BY FS_Subset
<1>2. S = T \cup (S \ T) /\ T \cap (S \ T) = {}
  OBVIOUS
<1>3. Cardinality(S) \in Nat /\ Cardinality(T) \in Nat /\ Cardinality(S \ T) \in Nat
  BY <1>1, FS_CardinalityType
<1>4. Cardinality(T \cup (S \ T)) = Cardinality(T) + Cardinality(S \ T) - Cardinality(T \cap (S \ T))
  BY <1>1, FS_Union
<1>5. Cardinality({}) = 0
  BY FS_EmptySet
<1>6. Cardinality(S) = Cardinality(T) + Cardinality(S \ T)
  BY <1>2, <1>3, <1>4, <1>5
<1> QED BY <1>1, <1>3, <1>6

(* Finitely many rows have finitely many units. *)
LEMMA UnitsFinite ==
  ASSUME NEW S, IsFiniteSet(S), NEW f \in [S -> Int]
  PROVE  IsFiniteSet(Units(f)) /\ Cardinality(Units(f)) \in Nat
<1> DEFINE part == [x \in S |-> {x} \X (1 .. f[x])]
           U == {{x} \X (1 .. f[x]) : x \in S}
<1>1. ASSUME NEW x \in S PROVE IsFiniteSet({x} \X (1 .. f[x]))
  <2>1. IsFiniteSet({x})
    BY FS_Singleton
  <2>2. 1 \in Int /\ f[x] \in Int
    OBVIOUS
  <2>3. IsFiniteSet(1 .. f[x])
    BY <2>2, FS_Interval
  <2> QED BY <2>1, <2>3, FS_Product
<1>2. part \in Surjection(S, U)
  BY DEF Surjection
<1>3. IsFiniteSet(U)
  <2> HIDE DEF part, U
  <2> QED BY <1>2, FS_Surjection
<1>4. \A T \in U : IsFiniteSet(T)
  BY <1>1
<1>5. IsFiniteSet(UNION U)
  <2> HIDE DEF U
  <2> QED BY <1>3, <1>4, FS_UNION
<1>6. IsFiniteSet(Units(f))
  BY <1>5 DEF Units
<1> QED BY <1>6, FS_CardinalityType

(* A unit is a row and one of the numbers up to its amount. *)
LEMMA UnitsAre ==
  ASSUME NEW S, NEW f, DOMAIN f = S
  PROVE  \A p : p \in Units(f) <=> /\ p = <<p[1], p[2]>> /\ p[1] \in S
                                   /\ p[2] \in 1 .. f[p[1]]
BY DEF Units

(* Counted by what v says of them, the elements of S are as many as S has. *)
LEMMA CountedByValue ==
  ASSUME NEW S, IsFiniteSet(S), NEW X, NEW v \in [S -> X]
  PROVE  Cardinality(Units([x \in X |-> Cardinality({s \in S : v[s] = x})])) = Cardinality(S)
<1> DEFINE Those(x) == {s \in S : v[s] = x}
           count == [x \in X |-> Cardinality(Those(x))]
           P == Units(count)
           nth == [x \in X |-> CHOOSE g : g \in Bijection(1 .. count[x], Those(x))]
           all == [p \in P |-> nth[p[1]][p[2]]]
<1>0. \A p : p \in P <=> p = <<p[1], p[2]>> /\ p[1] \in X /\ p[2] \in 1 .. count[p[1]]
  BY UnitsAre
<1> HIDE DEF P
<1>1. ASSUME NEW x \in X
      PROVE  /\ nth[x] \in [1 .. count[x] -> Those(x)]
             /\ \A i, j \in 1 .. count[x] : nth[x][i] = nth[x][j] => i = j
             /\ \A s \in Those(x) : \E i \in 1 .. count[x] : nth[x][i] = s
  <2>1. IsFiniteSet(Those(x))
    BY FS_Subset
  <2>2. ExistsBijection(1 .. count[x], Those(x))
    BY <2>1, FS_CardinalityType
  <2>3. \E g : g \in Bijection(1 .. count[x], Those(x))
    BY <2>2, Fun_ExistsBij
  <2> DEFINE g == nth[x]  I == 1 .. count[x]  T == Those(x)
  <2>4. g \in Bijection(I, T)
    BY <2>3
  <2>5. /\ g \in [I -> T] /\ \A i, j \in I : g[i] = g[j] => i = j
        /\ \A s \in T : \E i \in I : g[i] = s
    <3> HIDE DEF g, I, T
    <3> QED BY <2>4, Fun_BijectionProperties
  <2> QED BY <2>5
<1>2. ASSUME NEW p \in P
      PROVE  /\ p[1] \in X /\ p[2] \in 1 .. count[p[1]] /\ p = <<p[1], p[2]>>
             /\ all[p] = nth[p[1]][p[2]] /\ all[p] \in S /\ v[all[p]] = p[1]
  <2>1. p[1] \in X /\ p[2] \in 1 .. count[p[1]] /\ p = <<p[1], p[2]>>
    BY <1>0
  <2>2. nth[p[1]] \in [1 .. count[p[1]] -> Those(p[1])]
    BY <1>1, <2>1
  <2>3. all[p] = nth[p[1]][p[2]]
    OBVIOUS
  <2> HIDE DEF nth, all
  <2> QED BY <2>1, <2>2, <2>3
<1> HIDE DEF nth, all, count, Those
<1>3. ASSUME NEW p \in P, NEW o \in P, all[p] = all[o]
      PROVE  p = o
  <2>1. p[1] = o[1]
    BY <1>2, <1>3
  <2>2. nth[p[1]][p[2]] = nth[p[1]][o[2]]
    BY <1>2, <1>3, <2>1
  <2>3. p[2] = o[2]
    BY <1>1, <1>2, <2>1, <2>2
  <2> QED BY <1>2, <2>1, <2>3
<1>4. ASSUME NEW s \in S
      PROVE  \E p \in P : all[p] = s
  <2>1. v[s] \in X /\ s \in Those(v[s])
    BY DEF Those
  <2>2. PICK i \in 1 .. count[v[s]] : nth[v[s]][i] = s
    BY <1>1, <2>1
  <2>3. <<v[s], i>> \in P
    BY <1>0, <2>1
  <2>4. all[<<v[s], i>>] = s
    BY <1>2, <2>2, <2>3
  <2> QED BY <2>3, <2>4
<1>5. all \in [P -> S]
  BY <1>2 DEF all
<1>6. all \in Bijection(P, S)
  BY <1>3, <1>4, <1>5, Fun_IsBij
<1>7. ExistsBijection(S, P)
  BY <1>6, Fun_ExistsBij, Fun_ExistsBijSymmetric
<1>8. Cardinality(P) = Cardinality(S)
  BY <1>7, FS_Bijection
<1> QED BY <1>8 DEF P, count, Those

(* Units are added when amounts are. *)
LEMMA UnitsAdd ==
  ASSUME NEW S, IsFiniteSet(S), NEW f \in [S -> Nat], NEW g \in [S -> Nat],
         NEW h \in [S -> Nat], \A x \in S : h[x] = f[x] + g[x]
  PROVE  Cardinality(Units(h)) = Cardinality(Units(f)) + Cardinality(Units(g))
<1> DEFINE A == Units(f)  B == Units(g)  C == Units(h)
           up == [p \in B |-> <<p[1], f[p[1]] + p[2]>>]
<1>1. /\ \A p : p \in A <=> p = <<p[1], p[2]>> /\ p[1] \in S /\ p[2] \in 1 .. f[p[1]]
      /\ \A p : p \in B <=> p = <<p[1], p[2]>> /\ p[1] \in S /\ p[2] \in 1 .. g[p[1]]
      /\ \A p : p \in C <=> p = <<p[1], p[2]>> /\ p[1] \in S /\ p[2] \in 1 .. h[p[1]]
  BY UnitsAre
<1>2. /\ IsFiniteSet(B) /\ Cardinality(B) \in Nat
      /\ IsFiniteSet(C)
  BY UnitsFinite
<1> HIDE DEF A, B, C
<1>3. A \in SUBSET C
  BY <1>1
<1>4. ASSUME NEW p \in B
      PROVE  up[p] \in C \ A /\ up[p] = <<p[1], f[p[1]] + p[2]>> /\ p = <<p[1], p[2]>>
             /\ p[2] \in Nat /\ f[p[1]] \in Nat
  <2>1. p[1] \in S /\ p[2] \in 1 .. g[p[1]] /\ p = <<p[1], p[2]>>
    BY <1>1
  <2>2. f[p[1]] \in Nat /\ g[p[1]] \in Nat /\ h[p[1]] = f[p[1]] + g[p[1]]
    BY <2>1
  <2>3. f[p[1]] + p[2] \in 1 .. h[p[1]] /\ f[p[1]] + p[2] \notin 1 .. f[p[1]]
    BY <2>1, <2>2
  <2> QED BY <1>1, <2>1, <2>2, <2>3
<1>5. ASSUME NEW p \in B, NEW o \in B, up[p] = up[o] PROVE p = o
  <2> HIDE DEF up
  <2> QED BY <1>4, <1>5
<1>6. ASSUME NEW c \in C \ A PROVE \E p \in B : up[p] = c
  <2> DEFINE p == <<c[1], c[2] - f[c[1]]>>
  <2>1. c[1] \in S /\ c[2] \in 1 .. h[c[1]] /\ c[2] \notin 1 .. f[c[1]] /\ c = <<c[1], c[2]>>
    BY <1>1
  <2>2. f[c[1]] \in Nat /\ g[c[1]] \in Nat /\ h[c[1]] = f[c[1]] + g[c[1]]
    BY <2>1
  <2>3. c[2] - f[c[1]] \in 1 .. g[c[1]]
    BY <2>1, <2>2
  <2>4. p \in B
    BY <1>1, <2>1, <2>3
  <2>5. up[p] = c
    BY <2>1, <2>2, <2>4
  <2> QED BY <2>4, <2>5
<1>7. up \in Bijection(B, C \ A)
  <2>1. up \in [B -> C \ A]
    BY <1>4
  <2> HIDE DEF up
  <2> QED BY <1>5, <1>6, <2>1, Fun_IsBij
<1>8. Cardinality(C \ A) = Cardinality(B)
  <2> HIDE DEF up
  <2> QED BY <1>2, <1>7, Fun_ExistsBij, FS_Bijection
<1>9. Cardinality(C) = Cardinality(A) + Cardinality(C \ A)
  BY <1>2, <1>3, CountedApart
<1> QED BY <1>8, <1>9 DEF A, B, C

(***************************************************************************)
(* Sums.                                                                   *)
(***************************************************************************)

(* What comes in and what goes out of a row. *)
In(f)  == [x \in DOMAIN f |-> Positive(f[x])]
Out(f) == [x \in DOMAIN f |-> Positive(- f[x])]

(* A function is its positive part less its negative part. *)
LEMMA InAndOut ==
  ASSUME NEW S, NEW f \in [S -> Int]
  PROVE  /\ In(f) \in [S -> Nat] /\ Out(f) \in [S -> Nat]
         /\ \A x \in S : f[x] = In(f)[x] - Out(f)[x]
         /\ Units(f) = Units(In(f)) /\ Units([x \in DOMAIN f |-> - f[x]]) = Units(Out(f))
<1>1. \A n \in Int : Positive(n) \in Nat /\ n = Positive(n) - Positive(-n)
                     /\ 1 .. n = 1 .. Positive(n)
  BY DEF Positive
<1>2. DOMAIN In(f) = S /\ DOMAIN Out(f) = S
      /\ \A x \in S : In(f)[x] = Positive(f[x]) /\ Out(f)[x] = Positive(- f[x])
  BY DEF In, Out
<1>3. In(f) \in [S -> Nat] /\ Out(f) \in [S -> Nat]
  <2>1. \A x \in S : f[x] \in Int /\ - f[x] \in Int
    OBVIOUS
  <2>2. \A x \in S : Positive(f[x]) \in Nat /\ Positive(- f[x]) \in Nat
    BY <1>1, <2>1
  <2> QED BY <2>2 DEF In, Out
<1>4. \A x \in S : f[x] = In(f)[x] - Out(f)[x]
  BY <1>1, <1>2
<1>5. \A x \in S : 1 .. f[x] = 1 .. In(f)[x] /\ 1 .. - f[x] = 1 .. Out(f)[x]
  BY <1>1, <1>2
<1>6. Units(f) = Units(In(f))
  BY <1>2, <1>5 DEF Units
<1>7. Units([x \in DOMAIN f |-> - f[x]]) = Units(Out(f))
  BY <1>2, <1>5 DEF Units
<1> QED BY <1>3, <1>4, <1>6, <1>7

(* However a row is split into what comes in and what goes out. *)
LEMMA SumIs ==
  ASSUME NEW S, IsFiniteSet(S), NEW f \in [S -> Int], NEW a \in [S -> Nat], NEW b \in [S -> Nat],
         \A x \in S : f[x] = a[x] - b[x]
  PROVE  Sum(f) = Cardinality(Units(a)) - Cardinality(Units(b))
<1> DEFINE i == In(f)  o == Out(f)
           h == [x \in S |-> i[x] + b[x]]
<1>1. i \in [S -> Nat] /\ o \in [S -> Nat] /\ \A x \in S : f[x] = i[x] - o[x]
  BY InAndOut
<1>2. Sum(f) = Cardinality(Units(i)) - Cardinality(Units(o))
  BY InAndOut DEF Sum
<1> HIDE DEF i, o
<1>3. h \in [S -> Nat] /\ \A x \in S : h[x] = i[x] + b[x] /\ h[x] = o[x] + a[x]
  BY <1>1
<1> HIDE DEF h
<1>4. Cardinality(Units(h)) = Cardinality(Units(i)) + Cardinality(Units(b))
  BY <1>1, <1>3, UnitsAdd
<1>5. Cardinality(Units(h)) = Cardinality(Units(o)) + Cardinality(Units(a))
  BY <1>1, <1>3, UnitsAdd
<1>6. /\ Cardinality(Units(i)) \in Nat /\ Cardinality(Units(o)) \in Nat
      /\ Cardinality(Units(a)) \in Nat /\ Cardinality(Units(b)) \in Nat
  BY <1>1, UnitsFinite
<1> QED BY <1>2, <1>4, <1>5, <1>6

(* A sum is a number. *)
LEMMA SumType ==
  ASSUME NEW S, IsFiniteSet(S), NEW f \in [S -> Int]
  PROVE  Sum(f) \in Int
<1>0. In(f) \in [S -> Nat] /\ Out(f) \in [S -> Nat]
  BY InAndOut
<1>1. In(f) \in [S -> Int] /\ Out(f) \in [S -> Int]
  BY <1>0
<1>2. Cardinality(Units(In(f))) \in Nat /\ Cardinality(Units(Out(f))) \in Nat
  BY <1>1, UnitsFinite
<1>3. Sum(f) = Cardinality(Units(In(f))) - Cardinality(Units(Out(f)))
  BY InAndOut DEF Sum
<1> QED BY <1>2, <1>3

(* The sum of a sum, row by row. *)
LEMMA SumAdds ==
  ASSUME NEW S, IsFiniteSet(S), NEW f \in [S -> Int], NEW g \in [S -> Int], NEW h \in [S -> Int],
         \A x \in S : h[x] = f[x] + g[x]
  PROVE  Sum(h) = Sum(f) + Sum(g)
<1> DEFINE a == [x \in S |-> In(f)[x] + In(g)[x]]
           b == [x \in S |-> Out(f)[x] + Out(g)[x]]
<1>1. /\ In(f) \in [S -> Nat] /\ Out(f) \in [S -> Nat] /\ \A x \in S : f[x] = In(f)[x] - Out(f)[x]
      /\ In(g) \in [S -> Nat] /\ Out(g) \in [S -> Nat] /\ \A x \in S : g[x] = In(g)[x] - Out(g)[x]
  BY InAndOut
<1>2. a \in [S -> Nat] /\ b \in [S -> Nat] /\ \A x \in S : h[x] = a[x] - b[x]
  BY <1>1
<1>3. /\ Cardinality(Units(a)) = Cardinality(Units(In(f))) + Cardinality(Units(In(g)))
      /\ Cardinality(Units(b)) = Cardinality(Units(Out(f))) + Cardinality(Units(Out(g)))
  <2>1. \A x \in S : a[x] = In(f)[x] + In(g)[x] /\ b[x] = Out(f)[x] + Out(g)[x]
    OBVIOUS
  <2> HIDE DEF a, b
  <2> QED BY <1>1, <1>2, <2>1, UnitsAdd
<1> HIDE DEF a, b
<1>4. Sum(f) = Cardinality(Units(In(f))) - Cardinality(Units(Out(f)))
  BY InAndOut DEF Sum
<1>6. Sum(g) = Cardinality(Units(In(g))) - Cardinality(Units(Out(g)))
  BY InAndOut DEF Sum
<1>7. Sum(h) = Cardinality(Units(a)) - Cardinality(Units(b))
  BY <1>2, SumIs
<1>5. /\ Cardinality(Units(In(f))) \in Nat /\ Cardinality(Units(Out(f))) \in Nat
      /\ Cardinality(Units(In(g))) \in Nat /\ Cardinality(Units(Out(g))) \in Nat
  <2>1. \A k \in [S -> Nat] : k \in [S -> Int]
    OBVIOUS
  <2> QED BY <1>1, <2>1, UnitsFinite
<1> QED BY <1>3, <1>4, <1>5, <1>6, <1>7

(* The sum of zeros. *)
LEMMA SumOfNone ==
  ASSUME NEW S, NEW f \in [S -> Int], \A x \in S : f[x] = 0
  PROVE  Sum(f) = 0
<1>1. Units(f) = {}
  BY DEF Units
<1>2. Units([x \in DOMAIN f |-> - f[x]]) = {}
  BY DEF Units
<1> QED BY <1>1, <1>2, FS_EmptySet DEF Sum

(* The sum of the opposites. *)
LEMMA SumNegated ==
  ASSUME NEW S, IsFiniteSet(S), NEW f \in [S -> Int], NEW g \in [S -> Int],
         \A x \in S : g[x] = - f[x]
  PROVE  Sum(g) = - Sum(f)
<1> DEFINE z == [x \in S |-> 0]
<1>1. z \in [S -> Int] /\ \A x \in S : z[x] = f[x] + g[x] /\ z[x] = 0
  OBVIOUS
<1> HIDE DEF z
<1>2. Sum(z) = 0 /\ Sum(z) = Sum(f) + Sum(g)
  BY <1>1, SumOfNone, SumAdds
<1> QED BY <1>2, SumType

(* The sum grows with its rows. *)
LEMMA SumGrows ==
  ASSUME NEW S, IsFiniteSet(S), NEW f \in [S -> Int], NEW g \in [S -> Int],
         \A x \in S : f[x] <= g[x]
  PROVE  Sum(f) <= Sum(g)
<1> DEFINE d == [x \in S |-> g[x] - f[x]]
           z == [x \in S |-> 0]
<1>1. d \in [S -> Nat] /\ \A x \in S : g[x] = f[x] + d[x]
  OBVIOUS
<1>2. z \in [S -> Nat] /\ \A x \in S : z[x] = 0
  OBVIOUS
<1> HIDE DEF d, z
<1>3. Sum(g) = Sum(f) + Sum(d)
  BY <1>1, SumAdds
<1>4. Sum(d) = Cardinality(Units(d)) - Cardinality(Units(z))
  BY <1>1, <1>2, SumIs
<1>5. Units(z) = {}
  BY <1>2 DEF Units
<1>6. Cardinality(Units(d)) \in Nat /\ Cardinality(Units(z)) = 0
  BY <1>1, <1>5, UnitsFinite, FS_EmptySet
<1> QED BY <1>3, <1>4, <1>6, SumType

(* A sum in two parts. *)
LEMMA SumOfParts ==
  ASSUME NEW S, IsFiniteSet(S), NEW f \in [S -> Int], NEW T \in SUBSET S
  PROVE  Sum(f) = Sum([x \in T |-> f[x]]) + Sum([x \in S \ T |-> f[x]])
<1> DEFINE g == [x \in S |-> IF x \in T THEN f[x] ELSE 0]
           h == [x \in S |-> IF x \in T THEN 0 ELSE f[x]]
           neg(k) == [x \in DOMAIN k |-> - k[x]]
<1>1. g \in [S -> Int] /\ h \in [S -> Int] /\ \A x \in S : f[x] = g[x] + h[x]
  OBVIOUS
<1>2. Sum(f) = Sum(g) + Sum(h)
  <2> HIDE DEF g, h
  <2> QED BY <1>1, SumAdds
<1>3. ASSUME NEW R \in SUBSET S, NEW k \in [S -> Int],
             \A x \in S : k[x] = IF x \in R THEN f[x] ELSE 0
      PROVE  Sum(k) = Sum([x \in R |-> f[x]])
  <2> DEFINE r == [x \in R |-> f[x]]
  <2>1. Units(k) = Units(r)
    BY <1>3 DEF Units
  <2>2. Units(neg(k)) = Units(neg(r))
    <3>1. /\ \A p : p \in Units(neg(k)) <=> p = <<p[1], p[2]>> /\ p[1] \in S
                                            /\ p[2] \in 1 .. - k[p[1]]
          /\ \A p : p \in Units(neg(r)) <=> p = <<p[1], p[2]>> /\ p[1] \in R
                                            /\ p[2] \in 1 .. - f[p[1]]
      BY DEF Units
    <3>2. \A p : p \in Units(neg(k)) <=> p \in Units(neg(r))
      BY <1>3, <3>1
    <3> QED BY <3>2
  <2> QED BY <2>1, <2>2 DEF Sum
<1>4. Sum(g) = Sum([x \in T |-> f[x]])
  <2>1. \A x \in S : g[x] = IF x \in T THEN f[x] ELSE 0
    OBVIOUS
  <2> HIDE DEF g, h
  <2> QED BY <1>1, <1>3, <2>1
<1>5. Sum(h) = Sum([x \in S \ T |-> f[x]])
  <2>1. \A x \in S : h[x] = IF x \in S \ T THEN f[x] ELSE 0
    OBVIOUS
  <2> HIDE DEF g, h
  <2> QED BY <1>1, <1>3, <2>1
<1> QED BY <1>2, <1>4, <1>5

(* As many times n as there are rows. *)
LEMMA SumOfSame ==
  ASSUME NEW S, IsFiniteSet(S), NEW n \in Nat
  PROVE  Sum([x \in S |-> n]) = n * Cardinality(S)
<1> DEFINE f == [x \in S |-> n]
<1>1. Units(f) = S \X (1 .. n)
  BY DEF Units
<1>2. Units([x \in DOMAIN f |-> - f[x]]) = {}
  BY DEF Units
<1>3. Cardinality(S \X (1 .. n)) = Cardinality(S) * n /\ Cardinality(S) \in Nat
  <2>1. IsFiniteSet(1 .. n) /\ Cardinality(1 .. n) = n
    BY FS_Interval
  <2> QED BY <2>1, FS_Product, FS_CardinalityType
<1>4. Sum(f) = Cardinality(Units(f)) - Cardinality(Units([x \in DOMAIN f |-> - f[x]]))
  BY DEF Sum
<1>5. Sum(f) = Cardinality(S \X (1 .. n)) - 0
  <2> HIDE DEF f
  <2> QED BY <1>1, <1>2, <1>4, FS_EmptySet
<1>6. n * Cardinality(S) = Cardinality(S) * n /\ n * Cardinality(S) \in Nat
  BY <1>3
<1> HIDE DEF f
<1>7. Sum(f) = n * Cardinality(S)
  BY <1>3, <1>5, <1>6
<1> QED BY <1>7 DEF f

(* The sum of one row. *)
LEMMA SumOfOne ==
  ASSUME NEW x, NEW n \in Int
  PROVE  Sum([y \in {x} |-> n]) = n
<1> DEFINE a == [y \in {x} |-> Positive(n)]
           b == [y \in {x} |-> Positive(- n)]
           f == [y \in {x} |-> n]
<1>1. Positive(n) \in Nat /\ Positive(- n) \in Nat /\ n = Positive(n) - Positive(- n)
  BY DEF Positive
<1>2. IsFiniteSet({x}) /\ Cardinality({x}) = 1
  BY FS_Singleton
<1>3. f \in [{x} -> Int] /\ \A y \in {x} : f[y] = n
  OBVIOUS
<1>4. Sum(a) = Positive(n) /\ Sum(b) = Positive(- n)
  <2>1. Sum(a) = Positive(n) * Cardinality({x}) /\ Sum(b) = Positive(- n) * Cardinality({x})
    BY <1>1, <1>2, SumOfSame
  <2>2. \A k \in Nat : k * 1 = k
    OBVIOUS
  <2> HIDE DEF a, b
  <2> QED BY <1>1, <1>2, <2>1, <2>2
<1>5. b \in [{x} -> Int] /\ f \in [{x} -> Int] /\ a \in [{x} -> Int]
      /\ \A y \in {x} : a[y] = f[y] + b[y]
  BY <1>1
<1>6. Sum(a) = Sum(f) + Sum(b)
  <2> HIDE DEF a, b, f
  <2> QED BY <1>2, <1>5, SumAdds
<1>7. Sum(f) \in Int
  <2> HIDE DEF f
  <2> QED BY <1>2, <1>3, SumType
<1> QED BY <1>1, <1>4, <1>6, <1>7

(* Grouped by what v says of them, the rows have as many units. *)
Counts(S, X, v, k) == [x \in X |-> Cardinality(Units([s \in {q \in S : v[q] = x} |-> k[s]]))]

(* Units counted by a value of their row, for amounts that are not         *)
(* negative.                                                               *)
LEMMA UnitsByValue ==
  ASSUME NEW S, IsFiniteSet(S), NEW X, NEW v \in [S -> X], NEW k \in [S -> Nat]
  PROVE  /\ Counts(S, X, v, k) \in [X -> Nat]
         /\ Cardinality(Units(Counts(S, X, v, k))) = Cardinality(Units(k))
<1> DEFINE U == Units(k)
           w == [p \in U |-> v[p[1]]]
           Only(x) == [s \in {q \in S : v[q] = x} |-> k[s]]
           c == [x \in X |-> Cardinality(Units(Only(x)))]
           d == [x \in X |-> Cardinality({p \in U : w[p] = x})]
<1>1. \A p : p \in U <=> p = <<p[1], p[2]>> /\ p[1] \in S /\ p[2] \in 1 .. k[p[1]]
  BY UnitsAre
<1>2. ASSUME NEW x \in X PROVE Units(Only(x)) = {p \in U : w[p] = x}
  <2>1. \A p : p \in Units(Only(x)) <=> /\ p = <<p[1], p[2]>> /\ p[1] \in {q \in S : v[q] = x}
                                        /\ p[2] \in 1 .. Only(x)[p[1]]
    BY UnitsAre
  <2> HIDE DEF U
  <2> QED BY <1>1, <2>1
<1>3. IsFiniteSet(U)
  BY UnitsFinite
<1>4. w \in [U -> X]
  <2> HIDE DEF U
  <2> QED BY <1>1
<1>5. c = d
  <2> HIDE DEF U, w
  <2>1. \A x \in X : Cardinality(Units(Only(x))) = Cardinality({p \in U : w[p] = x})
    BY <1>2
  <2> QED BY <2>1
<1> HIDE DEF U, w
<1>6. Cardinality(Units(d)) = Cardinality(U)
  BY <1>3, <1>4, CountedByValue
<1>7. \A x \in X : IsFiniteSet({p \in U : w[p] = x}) /\ Cardinality({p \in U : w[p] = x}) \in Nat
  BY <1>3, FS_Subset, FS_CardinalityType
<1>8. d \in [X -> Nat]
  BY <1>7
<1>9. Counts(S, X, v, k) = c
  BY DEF Counts
<1> HIDE DEF c, d
<1> QED BY <1>5, <1>6, <1>8, <1>9 DEF U

(* Grouped by what v says of them, the rows have the same sum. *)
Subtotals(S, X, v, f) == [x \in X |-> Sum([s \in {q \in S : v[q] = x} |-> f[s]])]

(* GROUP BY loses nothing: the subtotals add up to the sum. *)
LEMMA SumByValue ==
  ASSUME NEW S, IsFiniteSet(S), NEW X, IsFiniteSet(X), NEW v \in [S -> X], NEW f \in [S -> Int]
  PROVE  /\ Subtotals(S, X, v, f) \in [X -> Int]
         /\ Sum(Subtotals(S, X, v, f)) = Sum(f)
<1>0. \A k \in [S -> Nat] :
        Counts(S, X, v, k) \in [X -> Nat] /\ Cardinality(Units(Counts(S, X, v, k))) = Cardinality(Units(k))
  BY UnitsByValue
<1> DEFINE Those(x) == {q \in S : v[q] = x}
           Only(k, x) == [s \in Those(x) |-> k[s]]
           t == [x \in X |-> Sum(Only(f, x))]
<1>1. PICK i, o : i \in [S -> Nat] /\ o \in [S -> Nat] /\ \A s \in S : f[s] = i[s] - o[s]
  <2>1. In(f) \in [S -> Nat] /\ Out(f) \in [S -> Nat] /\ \A s \in S : f[s] = In(f)[s] - Out(f)[s]
    BY InAndOut
  <2> QED BY <2>1
<1> DEFINE a == [x \in X |-> Cardinality(Units(Only(i, x)))]
           b == [x \in X |-> Cardinality(Units(Only(o, x)))]
<1>3. /\ a \in [X -> Nat] /\ Cardinality(Units(a)) = Cardinality(Units(i))
      /\ b \in [X -> Nat] /\ Cardinality(Units(b)) = Cardinality(Units(o))
  <2>1. a = Counts(S, X, v, i) /\ b = Counts(S, X, v, o)
    BY DEF Counts
  <2> HIDE DEF a, b
  <2>2. a \in [X -> Nat] /\ Cardinality(Units(a)) = Cardinality(Units(i))
    BY <1>0, <1>1, <2>1
  <2>3. b \in [X -> Nat] /\ Cardinality(Units(b)) = Cardinality(Units(o))
    BY <1>0, <1>1, <2>1
  <2> QED BY <2>2, <2>3
<1>4. ASSUME NEW x \in X PROVE t[x] = a[x] - b[x]
  <2> DEFINE T == Those(x)  F == Only(f, x)  A == Only(i, x)  B == Only(o, x)
  <2>1. IsFiniteSet(T)
    BY FS_Subset
  <2>2. F \in [T -> Int] /\ A \in [T -> Nat] /\ B \in [T -> Nat] /\ \A s \in T : F[s] = A[s] - B[s]
    BY <1>1
  <2>3. t[x] = Sum(F) /\ a[x] = Cardinality(Units(A)) /\ b[x] = Cardinality(Units(B))
    OBVIOUS
  <2>4. Sum(F) = Cardinality(Units(A)) - Cardinality(Units(B))
    <3> HIDE DEF F, A, B, T
    <3> QED BY <2>1, <2>2, SumIs
  <2> QED BY <2>3, <2>4
<1> HIDE DEF a, b
<1>5. \A x \in X : t[x] = a[x] - b[x] /\ a[x] \in Nat /\ b[x] \in Nat
  BY <1>3, <1>4
<1>6. t \in [X -> Int]
  <2>1. \A x \in X : t[x] \in Int
    BY <1>5
  <2> QED BY <2>1
<1>7. Sum(t) = Cardinality(Units(a)) - Cardinality(Units(b))
  <2>1. \A x \in X : t[x] = a[x] - b[x]
    BY <1>5
  <2>2. a \in [X -> Nat] /\ b \in [X -> Nat]
    BY <1>3
  <2> HIDE DEF t
  <2> QED BY <1>6, <2>1, <2>2, SumIs
<1>8. Sum(f) = Cardinality(Units(i)) - Cardinality(Units(o))
  BY <1>1, SumIs
<1>9. Subtotals(S, X, v, f) = t
  BY DEF Subtotals
<1> HIDE DEF t
<1> QED BY <1>3, <1>6, <1>7, <1>8, <1>9

(***************************************************************************)
(* The books and the rows.                                                 *)
(***************************************************************************)

(* A column: the amounts of one kind of the rows of one account. *)
Column(rows, a, k) ==
  [p \in DOMAIN rows |->
     IF rows[p].account = a /\ rows[p].kind = k THEN rows[p].amount ELSE 0]

(* What a row holds. *)
LEMMA RowsAre ==
  ASSUME NEW r \in Seq(Row)
  PROVE  /\ Len(r) \in Nat /\ DOMAIN r = 1 .. Len(r)
         /\ \A p \in DOMAIN r : /\ r[p].kind \in {"payment", "refund"} /\ r[p].account \in Account
                                /\ r[p].amount \in Amount /\ r[p].amount \in Nat
<1>1. Len(r) \in Nat /\ DOMAIN r = 1 .. Len(r)
  BY LenProperties
<1>2. \A p \in DOMAIN r : r[p] \in Row
  BY <1>1, ElementOfSeq
<1> QED BY <1>1, <1>2, ConstantsAssumption DEF Row

(* A column is a sequence of numbers. *)
LEMMA ColumnIs ==
  ASSUME NEW r \in Seq(Row), NEW a, NEW k
  PROVE  /\ Column(r, a, k) \in Seq(Nat) /\ Len(Column(r, a, k)) = Len(r)
         /\ Column(r, a, k) \in [1 .. Len(r) -> Nat]
         /\ Total(Column(r, a, k)) \in Nat
<1> DEFINE c == Column(r, a, k)
<1>1. Len(r) \in Nat /\ DOMAIN r = 1 .. Len(r) /\ \A p \in DOMAIN r : r[p].amount \in Nat
  BY RowsAre
<1>2. c \in [1 .. Len(r) -> Nat]
  BY <1>1 DEF Column
<1> HIDE DEF c
<1>3. c \in Seq(Nat)
  BY <1>1, <1>2, IsASeq
<1>4. DOMAIN c = 1 .. Len(c) /\ Len(c) \in Nat
  BY <1>3, LenProperties
<1>5. Len(c) = Len(r)
  BY <1>1, <1>2, <1>4
<1> QED BY <1>2, <1>3, <1>5, TotalBounds DEF c

(* The column of rows that are added. *)
LEMMA ColumnGrows ==
  ASSUME NEW r \in Seq(Row), NEW s \in Seq(Row), NEW a, NEW k
  PROVE  Total(Column(r \o s, a, k)) = Total(Column(r, a, k)) + Total(Column(s, a, k))
<1> DEFINE u == r \o s
           cr == Column(r, a, k)  cs == Column(s, a, k)  cu == Column(u, a, k)
<1>1. /\ u \in Seq(Row) /\ Len(u) = Len(r) + Len(s)
      /\ \A i \in 1 .. Len(r) : u[i] = r[i]
      /\ \A i \in 1 .. Len(s) : u[Len(r) + i] = s[i]
  BY ConcatProperties
<1> HIDE DEF u
<1>2. /\ Len(r) \in Nat /\ DOMAIN r = 1 .. Len(r) /\ Len(s) \in Nat /\ DOMAIN s = 1 .. Len(s)
      /\ DOMAIN u = 1 .. Len(u)
  BY <1>1, RowsAre
<1>3. /\ cr \in Seq(Nat) /\ Len(cr) = Len(r) /\ cs \in Seq(Nat) /\ Len(cs) = Len(s)
      /\ cu \in Seq(Nat) /\ Len(cu) = Len(u) /\ cu \in [1 .. Len(u) -> Nat]
  BY <1>1, ColumnIs
<1>4. ASSUME NEW i \in 1 .. Len(r) PROVE cu[i] = cr[i]
  <2>1. i \in DOMAIN r /\ i \in DOMAIN u /\ u[i] = r[i]
    BY <1>1, <1>2
  <2> QED BY <2>1 DEF Column
<1>5. ASSUME NEW i \in 1 .. Len(s) PROVE cu[Len(r) + i] = cs[i]
  <2>1. i \in DOMAIN s /\ Len(r) + i \in DOMAIN u /\ u[Len(r) + i] = s[i]
    BY <1>1, <1>2
  <2> QED BY <2>1 DEF Column
<1> HIDE DEF cr, cs, cu
<1> DEFINE both == cr \o cs
<1>6. /\ both \in Seq(Nat) /\ Len(both) = Len(r) + Len(s)
      /\ \A i \in 1 .. Len(r) : both[i] = cr[i]
      /\ \A i \in 1 .. Len(s) : both[Len(r) + i] = cs[i]
  <2>1. cr \in Seq(Nat) /\ cs \in Seq(Nat)
    BY <1>3
  <2>2. /\ cr \o cs \in Seq(Nat) /\ Len(cr \o cs) = Len(cr) + Len(cs)
        /\ \A i \in 1 .. Len(cr) : (cr \o cs)[i] = cr[i]
        /\ \A i \in 1 .. Len(cs) : (cr \o cs)[Len(cr) + i] = cs[i]
    BY <2>1, ConcatProperties
  <2> QED BY <1>3, <2>2
<1>7. both = [i \in 1 .. Len(u) |-> both[i]]
  BY <1>1, <1>6, LenProperties
<1> HIDE DEF both
<1>8. ASSUME NEW i \in 1 .. Len(u) PROVE cu[i] = both[i]
  <2>1. CASE i \in 1 .. Len(r)
    BY <1>4, <1>6, <2>1
  <2>2. CASE i \notin 1 .. Len(r)
    <3>1. i - Len(r) \in 1 .. Len(s) /\ i = Len(r) + (i - Len(r))
      BY <1>1, <1>2, <2>2
    <3>2. cu[Len(r) + (i - Len(r))] = cs[i - Len(r)]
      BY <1>5, <3>1
    <3>3. both[Len(r) + (i - Len(r))] = cs[i - Len(r)]
      BY <1>6, <3>1
    <3> QED BY <3>1, <3>2, <3>3
  <2> QED BY <2>1, <2>2
<1>9. cu = both
  BY <1>3, <1>7, <1>8
<1>10. Total(both) = Total(cr) + Total(cs)
  BY <1>3, NatsAreInts, TotalConcat DEF both
<1> QED BY <1>9, <1>10 DEF cr, cs, cu, u

(* The sums of the accounts are those of the columns.                      *)
Kept ==
  \A a \in Account : /\ received[a] = Total(Column(payments, a, "payment"))
                     /\ returned[a] = Total(Column(payments, a, "refund"))

(* Kept is kept by a receipt. *)
LEMMA KeptPayments ==
  ASSUME Typed, Counted, Kept, NEW lines \in Seq(Line), AddPayments(lines)
  PROVE  Kept'
<1> SUFFICES ASSUME NEW a \in Account
             PROVE  /\ received'[a] = Total(Column(payments', a, "payment"))
                    /\ returned'[a] = Total(Column(payments', a, "refund"))
  BY DEF Kept
<1> DEFINE added == [i \in DOMAIN lines |->
             [kind |-> "payment", account |-> lines[i].account, amount |-> lines[i].amount]]
           own == [i \in DOMAIN lines |-> IF lines[i].account = a THEN lines[i].amount ELSE 0]
<1>1. DOMAIN lines = 1 .. Len(lines) /\ Len(lines) \in Nat
  BY LenProperties
<1>2. \A i \in 1 .. Len(lines) : lines[i] \in Line
  BY ElementOfSeq
<1>3. added \in Seq(Row)
  <2>1. added \in [1 .. Len(lines) -> Row]
    BY <1>1, <1>2 DEF Row, Line
  <2> QED BY <1>1, <2>1, IsASeq
<1>4. payments \in Seq(Row) /\ payments' = payments \o added
  BY DEF Typed, AddPayments
<1>5. Column(added, a, "payment") = own /\ Paid(a, lines) = Total(own)
  BY DEF Column, Paid
<1>6. \A i \in DOMAIN Column(added, a, "refund") : Column(added, a, "refund")[i] = 0
  BY DEF Column
<1> HIDE DEF added, own
<1>7. Total(Column(added, a, "refund")) = 0
  BY <1>3, <1>6, ColumnIs, TotalBounds
<1>8. /\ Total(Column(payments', a, "payment"))
           = Total(Column(payments, a, "payment")) + Total(Column(added, a, "payment"))
      /\ Total(Column(payments', a, "refund"))
           = Total(Column(payments, a, "refund")) + Total(Column(added, a, "refund"))
  BY <1>3, <1>4, ColumnGrows
<1>9. received'[a] = received[a] + Paid(a, lines) /\ returned'[a] = returned[a]
  BY CountedPayments
<1>10. received[a] \in Nat /\ returned[a] \in Nat
  BY DEF Counted
<1> QED BY <1>5, <1>7, <1>8, <1>9, <1>10 DEF Kept

(* Kept is kept by a refund. *)
LEMMA KeptRefund ==
  ASSUME Typed, Counted, Kept, NEW p \in DOMAIN payments, NEW n \in Amount, AddRefund(p, n)
  PROVE  Kept'
<1> SUFFICES ASSUME NEW a \in Account
             PROVE  /\ received'[a] = Total(Column(payments', a, "payment"))
                    /\ returned'[a] = Total(Column(payments', a, "refund"))
  BY DEF Kept
<1> DEFINE row == [kind |-> "refund", account |-> payments[p].account, amount |-> n]
           one == <<row>>
<1>1. payments \in Seq(Row) /\ payments[p].account \in Account /\ n \in Nat
  BY RowsAre, ConstantsAssumption DEF Typed
<1>2. row \in Row
  BY <1>1 DEF Row
<1>3. payments' = Append(payments, row)
  BY DEF AddRefund
<1> HIDE DEF row
<1>4. one \in Seq(Row) /\ Len(one) = 1 /\ one[1] = row /\ DOMAIN one = {1}
  BY <1>2
<1>5. payments' = payments \o one
  BY <1>1, <1>2, <1>3, AppendIsConcat
<1> HIDE DEF one
<1>6. Total(Column(one, a, "payment")) = 0
  <2>1. \A i \in DOMAIN Column(one, a, "payment") : Column(one, a, "payment")[i] = 0
    BY <1>4 DEF Column, row
  <2> QED BY <1>4, <2>1, ColumnIs, TotalBounds
<1>7. Total(Column(one, a, "refund")) = IF a = payments[p].account THEN n ELSE 0
  <2> DEFINE c == Column(one, a, "refund")
  <2>1. DOMAIN c = {1} /\ c[1] = IF a = payments[p].account THEN n ELSE 0
    BY <1>4 DEF Column, row
  <2>2. c \in Seq(Nat)
    BY <1>4, ColumnIs
  <2> HIDE DEF c
  <2>3. Total(c) = c[1]
    BY <2>1, <2>2, TotalOfOne
  <2> QED BY <2>1, <2>3 DEF c
<1>8. /\ Total(Column(payments', a, "payment"))
           = Total(Column(payments, a, "payment")) + Total(Column(one, a, "payment"))
      /\ Total(Column(payments', a, "refund"))
           = Total(Column(payments, a, "refund")) + Total(Column(one, a, "refund"))
  BY <1>1, <1>4, <1>5, ColumnGrows
<1>9. received'[a] = received[a]
      /\ returned'[a] = IF a = payments[p].account THEN returned[a] + n ELSE returned[a]
  BY CountedRefund
<1>10. received[a] \in Nat /\ returned[a] \in Nat
  BY DEF Counted
<1> QED BY <1>1, <1>6, <1>7, <1>8, <1>9, <1>10 DEF Kept

(* Kept is kept by every step. *)
LEMMA KeptStep == Typed /\ Counted /\ Kept /\ [Next]_vars => Kept'
<1> SUFFICES ASSUME Typed, Counted, Kept, [Next]_vars PROVE Kept'
  OBVIOUS
<1>1. CASE UNCHANGED money
  BY <1>1 DEF money, Kept
<1>2. ASSUME NEW w \in Request, ReceiptCommit(w) \/ PayReceipt(w) PROVE Kept'
  BY <1>2, PaysFor, KeptPayments
<1>3. ASSUME NEW w \in Request, RefundCommit(w) PROVE Kept'
  <2>1. tx[w].id \in DOMAIN payments /\ tx[w].amount \in Amount
        /\ AddRefund(tx[w].id, tx[w].amount)
    BY <1>3 DEF RefundCommit, Typed
  <2> QED BY <2>1, KeptRefund
<1> QED BY <1>1, <1>2, <1>3, MoneyMoves

(***************************************************************************)
(* Totals are sums.                                                        *)
(***************************************************************************)
LEMMA TotalIsSum ==
  ASSUME NEW s \in Seq(Nat)
  PROVE  Total(s) = Sum(s)
<1>1. PICK N \in Nat : N = Len(s) /\ DOMAIN s = 1 .. N
  BY LenProperties
<1>2. \A i \in 1 .. N : s[i] \in Nat
  BY <1>1, ElementOfSeq
<1>3. PICK f : Adds(f, s, N) /\ f[N] = Total(s)
  BY <1>1, NatsAreInts, Sums
<1> DEFINE part(n) == [i \in 1 .. n |-> s[i]]
           S == {n \in Nat : n <= N => Sum(part(n)) = f[n]}
<1>4. Nat \subseteq S
  <2>1. 0 \in S
    <3>1. part(0) \in [1 .. 0 -> Int] /\ \A i \in 1 .. 0 : part(0)[i] = 0
      OBVIOUS
    <3> HIDE DEF part
    <3>2. Sum(part(0)) = 0
      BY <3>1, SumOfNone
    <3> QED BY <1>3, <3>2 DEF Adds
  <2>2. ASSUME NEW n \in Nat, n \in S, n + 1 <= N PROVE n + 1 \in S
    <3>1. f[n + 1] = f[n] + s[n + 1] /\ f[n] \in Int /\ n + 1 \in 1 .. N /\ Sum(part(n)) = f[n]
      BY <1>3, <2>2, AddsNext
    <3> DEFINE R == 1 .. (n + 1)  T == 1 .. n  g == part(n + 1)
    <3>2. g \in [R -> Int] /\ T \in SUBSET R /\ R \ T = {n + 1} /\ s[n + 1] \in Int
      BY <1>2, <2>2
    <3>3. [i \in T |-> g[i]] = part(n) /\ [i \in {n + 1} |-> g[i]] = [i \in {n + 1} |-> s[n + 1]]
      BY <2>2
    <3>4. IsFiniteSet(R)
      BY FS_Interval
    <3> HIDE DEF R, T, g, part
    <3>5. Sum(g) = Sum([i \in T |-> g[i]]) + Sum([i \in R \ T |-> g[i]])
      BY <3>2, <3>4, SumOfParts
    <3>6. Sum([i \in {n + 1} |-> s[n + 1]]) = s[n + 1]
      BY <3>2, SumOfOne
    <3>7. Sum(g) = f[n + 1]
      BY <3>1, <3>2, <3>3, <3>5, <3>6
    <3> QED BY <2>2, <3>7 DEF g
  <2>3. \A n \in Nat : ~ (n + 1 <= N) => n + 1 \in S
    OBVIOUS
  <2> HIDE DEF S
  <2>4. \A n \in Nat : n \in S => n + 1 \in S
    BY <2>2, <2>3
  <2> QED BY <2>1, <2>4, InductiveSet
<1>5. part(N) = s
  BY <1>1, SeqDef
<1>6. Sum(part(N)) = f[N]
  BY <1>4
<1> QED BY <1>3, <1>5, <1>6

(***************************************************************************)
(* The rest of the tables.                                                 *)
(***************************************************************************)

(* What a request has read of a fee is a number. *)
ReadsFee(t) ==
  /\ t.step = "refund" /\ t.loaded => t.paid \in Int
  /\ t.step \in {"pay", "record"} => t.member \in Member /\ t.amount \in Amount /\ t.paid \in Int

Priced ==
  /\ netDue \in [Enrollment -> Price] /\ gone \subseteq Enrollment
  /\ amountPaid \in [Member -> Int]
  /\ \A w \in Request : ReadsFee(tx[w])

(* A live row of an enrollment that is gone is a refund.                   *)
LateAreRefunds ==
  \A p \in DOMAIN payments :
    payments[p].account \in gone => p \in voided \/ payments[p].kind = "refund"

(* Priced is kept by a request that writes no price. *)
LEMMA PricedKept ==
  ASSUME Typed, Priced, NEW w \in Request, NEW t, tx' = [tx EXCEPT ![w] = t], ReadsFee(t),
         UNCHANGED <<netDue, gone>>, amountPaid' \in [Member -> Int]
  PROVE  Priced'
<1>1. \A v \in Request : tx'[v] = IF v = w THEN t ELSE tx[v]
  BY DEF Typed
<1>2. \A v \in Request : ReadsFee(tx'[v])
  BY <1>1 DEF Priced
<1> QED BY <1>2 DEF Priced, ReadsFee

(* Priced is kept by every step. *)
LEMMA PricedStep ==
  ASSUME Typed, Priced, [Next]_vars
  PROVE  Priced'
<1> USE DEF price, levels, team
<1>0. ReadsFee(Idle)
  BY DEF ReadsFee, Idle
<1>1. ASSUME NEW w \in Request, NEW r \in Receipts, NEW credit \in BOOLEAN,
             ReceiptCheck(w, r, credit)
      PROVE  Priced'
  <2> DEFINE t == [step |-> "receipt", lines |-> r, credit |-> credit]
  <2>1. tx' = [tx EXCEPT ![w] = t] /\ UNCHANGED <<netDue, gone, amountPaid>> /\ ReadsFee(t)
    BY <1>1 DEF ReceiptCheck, Begin, ReadsFee
  <2> HIDE DEF t
  <2> QED BY <2>1, PricedKept DEF Priced
<1>2. ASSUME NEW w \in Request, NEW p \in PaymentId, NEW n \in Amount, RefundCheck(w, p, n)
      PROVE  Priced'
  <2> DEFINE t == [step |-> "refund", id |-> p, amount |-> n, loaded |-> FALSE,
                   orphan |-> payments[p].account \in gone]
  <2>1. tx' = [tx EXCEPT ![w] = t] /\ UNCHANGED <<netDue, gone, amountPaid>> /\ ReadsFee(t)
    BY <1>2 DEF RefundCheck, Begin, ReadsFee
  <2> HIDE DEF t
  <2> QED BY <2>1, PricedKept DEF Priced
<1>3. ASSUME NEW w \in Request, NEW m \in Member, NEW p \in PaymentId, NEW n \in Amount,
             FeeRefundCheck(w, m, p, n)
      PROVE  Priced'
  <2> DEFINE t == [step |-> "refund", id |-> p, amount |-> n, loaded |-> TRUE,
                   orphan |-> FALSE, paid |-> amountPaid[m]]
  <2>1. tx' = [tx EXCEPT ![w] = t] /\ UNCHANGED <<netDue, gone, amountPaid>>
    BY <1>3 DEF FeeRefundCheck, Begin
  <2>2. ReadsFee(t)
    BY DEF ReadsFee, Priced
  <2> HIDE DEF t
  <2> QED BY <2>1, <2>2, PricedKept DEF Priced
<1>4. ASSUME NEW w \in Request, NEW m \in Member, NEW n \in Amount, PayLoad(w, m, n)
      PROVE  Priced'
  <2> DEFINE t == [step |-> "pay", member |-> m, amount |-> n, paid |-> amountPaid[m]]
  <2>1. tx' = [tx EXCEPT ![w] = t] /\ UNCHANGED <<netDue, gone, amountPaid>>
    BY <1>4 DEF PayLoad, Begin
  <2>2. ReadsFee(t)
    BY DEF ReadsFee, Priced
  <2> HIDE DEF t
  <2> QED BY <2>1, <2>2, PricedKept DEF Priced
<1>5. ASSUME NEW w \in Request,
             ReceiptCommit(w) \/ RefundRaises(w) \/ Refused(w) \/ Crash(w)
      PROVE  Priced'
  <2>1. tx' = [tx EXCEPT ![w] = Idle] /\ UNCHANGED <<netDue, gone, amountPaid>>
    BY <1>5 DEF ReceiptCommit, RefundRaises, Refused, Crash, End
  <2> QED BY <1>0, <2>1, PricedKept DEF Priced
<1>6. ASSUME NEW w \in Request, RefundCommit(w)
      PROVE  Priced'
  <2>1. tx' = [tx EXCEPT ![w] = Idle] /\ UNCHANGED <<netDue, gone>>
    BY <1>6 DEF RefundCommit, End
  <2>2. tx[w].step = "refund" /\ tx[w].amount \in Int
    BY <1>6, ConstantsAssumption DEF RefundCommit, Typed
  <2>3. amountPaid' \in [Member -> Int]
    <3>1. CASE UNCHANGED team
      BY <3>1 DEF Priced
    <3>2. CASE \E m \in Member : Unlink(w, m)
      <4>1. PICK m \in Member : Unlink(w, m)
        BY <3>2
      <4>2. \A n \in Int : Least0(n) \in Int
        BY DEF Least0
      <4> DEFINE was == IF tx[w].loaded THEN tx[w].paid ELSE amountPaid[m]
      <4>3. was \in Int
        BY <2>2 DEF Priced, ReadsFee
      <4>4. amountPaid' = [amountPaid EXCEPT ![m] = Least0(was - tx[w].amount)]
        BY <4>1 DEF Unlink
      <4> HIDE DEF was
      <4>5. was - tx[w].amount \in Int
        BY <2>2, <4>3
      <4>6. Least0(was - tx[w].amount) \in Int
        BY <4>2, <4>5
      <4> QED BY <4>4, <4>6 DEF Priced
    <3> QED BY <1>6, <3>1, <3>2 DEF RefundCommit
  <2> QED BY <1>0, <2>1, <2>3, PricedKept
<1>7. ASSUME NEW w \in Request, PayReceipt(w)
      PROVE  Priced'
  <2> DEFINE t == [tx[w] EXCEPT !.step = "record"]
  <2>1. tx' = [tx EXCEPT ![w] = t] /\ UNCHANGED <<netDue, gone, amountPaid>>
    BY <1>7 DEF PayReceipt
  <2>2. t.member = tx[w].member /\ t.amount = tx[w].amount /\ t.paid = tx[w].paid
        /\ t.step = "record"
    BY DEF Typed
  <2>3. ReadsFee(t)
    <3> HIDE DEF t
    <3> QED BY <1>7, <2>2 DEF ReadsFee, Priced, PayReceipt
  <2> HIDE DEF t
  <2> QED BY <2>1, <2>3, PricedKept DEF Priced
<1>8. ASSUME NEW w \in Request, PayRecord(w)
      PROVE  Priced'
  <2>1. tx' = [tx EXCEPT ![w] = Idle] /\ UNCHANGED <<netDue, gone>>
    BY <1>8 DEF PayRecord, End
  <2>2. tx[w].paid \in Int /\ tx[w].amount \in Amount
    BY <1>8 DEF PayRecord, Priced, ReadsFee
  <2>6. tx[w].amount \in Int
    BY <2>2, AmountsAreNaturals
  <2>4. tx[w].paid + tx[w].amount \in Int
    BY <2>2, <2>6
  <2>5. amountPaid' = [amountPaid EXCEPT ![tx[w].member] = tx[w].paid + tx[w].amount]
    BY <1>8 DEF PayRecord, Record
  <2>3. amountPaid' \in [Member -> Int]
    BY <2>4, <2>5 DEF Priced
  <2> QED BY <1>0, <2>1, <2>3, PricedKept
<1>9. CASE \/ \E m \in Member : RemoveMember(m)
           \/ \E ms \in SUBSET Member : RegisterTeam(ms)
  BY <1>9 DEF RegisterTeam, RemoveMember, Priced
<1>10. ASSUME NEW e \in Enrollment, NEW n \in Price, ChangePrice(e, n)
       PROVE  Priced'
  BY <1>10 DEF ChangePrice, Priced
<1>11. ASSUME NEW l \in Level, DeleteLevel(l)
       PROVE  Priced'
  BY <1>11, ConstantsAssumption DEF DeleteLevel, Priced
<1>12. CASE DeleteTeam \/ UNCHANGED vars
  BY <1>12 DEF DeleteTeam, vars, Priced
<1> QED BY <1>1, <1>2, <1>3, <1>4, <1>5, <1>6, <1>7, <1>8, <1>9, <1>10, <1>11, <1>12 DEF Next

(* Only the deletion of a level deletes enrollments and voids rows.        *)
LEMMA LevelsMove ==
  ASSUME [Next]_vars
  PROVE  UNCHANGED levels \/ \E l \in Level : DeleteLevel(l)
BY DEF Next, vars, levels, ReceiptCheck, RefundCheck, FeeRefundCheck, PayLoad, RefundRaises,
       ReceiptCommit, RefundCommit, PayReceipt,
       PayRecord, Refused, Crash, RegisterTeam, RemoveMember, DeleteTeam, ChangePrice

(* LateAreRefunds is kept by every step. *)
LEMMA LateStep ==
  ASSUME Typed, Priced, LateAreRefunds, [Next]_vars
  PROVE  LateAreRefunds'
<1>1. ASSUME NEW l \in Level, DeleteLevel(l) PROVE LateAreRefunds'
  BY <1>1 DEF DeleteLevel, LateAreRefunds, money
<1>2. CASE UNCHANGED money /\ UNCHANGED levels
  BY <1>2 DEF money, levels, LateAreRefunds
<1>3. ASSUME NEW w \in Request, ReceiptCommit(w) \/ PayReceipt(w) PROVE LateAreRefunds'
  <2>1. PICK lines \in Seq(Line) : AddPayments(lines)
    BY <1>3, PaysFor
  <2>2. Grown /\ \A i \in DOMAIN payments' \ DOMAIN payments : Referable(payments'[i].account)
    BY <2>1, AddPaymentsWrites
  <2>3. UNCHANGED levels
    BY <1>3 DEF ReceiptCommit, PayReceipt
  <2>4. ASSUME NEW i \in DOMAIN payments' \ DOMAIN payments
        PROVE  payments'[i].account \notin gone
    BY <2>2, ConstantsAssumption DEF Referable, Priced
  <2> QED BY <2>2, <2>3, <2>4 DEF LateAreRefunds, levels, Grown
<1>4. ASSUME NEW w \in Request, RefundCommit(w) PROVE LateAreRefunds'
  <2>1. tx[w].id \in DOMAIN payments /\ tx[w].amount \in Amount
        /\ AddRefund(tx[w].id, tx[w].amount) /\ UNCHANGED levels
    BY <1>4 DEF RefundCommit, Typed
  <2>2. Grown /\ DOMAIN payments' \ DOMAIN payments = {Len(payments) + 1}
        /\ payments'[Len(payments) + 1].kind = "refund"
    BY <2>1, AddRefundWrites
  <2> QED BY <2>1, <2>2 DEF LateAreRefunds, levels, Grown
<1> QED BY <1>1, <1>2, <1>3, <1>4, MoneyMoves, LevelsMove

(***************************************************************************)
(* What the tables hold, for the queries.                                  *)
(***************************************************************************)

(* The rows, the accounts and the enrollments, and how they hang together. *)
Ledger ==
  /\ Rows \subseteq PaymentId
  /\ \A p \in Rows : /\ payments[p].kind \in {"payment", "refund"}
                     /\ payments[p].account \in Account /\ payments[p].amount \in Nat
  /\ Counted
  /\ \A a \in Account : /\ received[a] = Amounts(RowsOf(a), {"payment"})
                        /\ returned[a] = Amounts(RowsOf(a), {"refund"})
  /\ netDue \in [Enrollment -> Price] /\ amountPaid \in [Member -> Int]
  /\ gone \subseteq Enrollment
  /\ VoidedAreGone /\ LateAreRefunds

(* The total of a column is the SUM over the rows of the account.          *)
LEMMA ColumnsAreAmounts ==
  ASSUME Typed, NEW a, NEW k
  PROVE  Total(Column(payments, a, k)) = Amounts(RowsOf(a), {k})
<1> DEFINE c == Column(payments, a, k)
           S == 1 .. Len(payments)
           T == {q \in RowsOf(a) : payments[q].kind \in {k}}
<1>1. payments \in Seq(Row)
  BY DEF Typed
<1>2. DOMAIN payments = 1 .. Len(payments) /\ Len(payments) \in Nat
  BY <1>1, RowsAre
<1>3. c \in Seq(Nat) /\ c \in [1 .. Len(payments) -> Nat]
  BY <1>1, ColumnIs
<1>4. /\ T \in SUBSET S
      /\ \A p \in T : c[p] = payments[p].amount
      /\ \A p \in S \ T : c[p] = 0
  BY <1>2 DEF RowsOf, Rows, Column
<1>5. Amounts(RowsOf(a), {k}) = Sum([p \in T |-> payments[p].amount])
  BY DEF Amounts
<1>6. IsFiniteSet(1 .. Len(payments))
  BY <1>2, FS_Interval
<1> HIDE DEF c, T, S
<1>7. c \in [S -> Int] /\ IsFiniteSet(S) /\ T \in SUBSET S
  BY <1>3, <1>4, <1>6 DEF S
<1>8. Sum(c) = Sum([p \in T |-> c[p]]) + Sum([p \in S \ T |-> c[p]])
  BY <1>7, SumOfParts
<1>9. [p \in T |-> c[p]] = [p \in T |-> payments[p].amount]
  BY <1>4
<1>10. Sum([p \in S \ T |-> c[p]]) = 0
  <2> DEFINE r == [p \in S \ T |-> c[p]]
  <2>0. \A p \in S \ T : c[p] = 0
    BY <1>4
  <2>1. r \in [S \ T -> Int] /\ \A p \in S \ T : r[p] = 0
    BY <2>0
  <2> HIDE DEF r
  <2>2. Sum(r) = 0
    BY <2>1, SumOfNone
  <2> QED BY <2>2 DEF r
<1>11. Sum(c) \in Int /\ Sum([p \in T |-> c[p]]) \in Int
  <2> DEFINE r == [p \in T |-> c[p]]
  <2>1. r \in [T -> Int] /\ IsFiniteSet(T)
    BY <1>7, FS_Subset
  <2> HIDE DEF r
  <2>2. Sum(r) \in Int
    BY <2>1, SumType
  <2>3. Sum(c) \in Int
    BY <1>7, SumType
  <2> QED BY <2>2, <2>3 DEF r
<1>12. Total(c) = Sum(c)
  BY <1>3, TotalIsSum
<1> QED BY <1>5, <1>8, <1>9, <1>10, <1>11, <1>12 DEF c

(* The inductive invariant behind the queries.                             *)
Books == Typed /\ Anchored /\ Counted /\ Kept /\ Priced /\ VoidedAreGone /\ LateAreRefunds

(* Books is an inductive invariant, whatever requests overlap. *)
LEMMA BooksInvariant ==
  /\ Init => Books
  /\ Books /\ [Next]_vars => Books'
<1>1. Init => Books
  <2> SUFFICES ASSUME Init PROVE Books
    OBVIOUS
  <2>1. Typed /\ Anchored /\ Counted
    BY InitTyped, InitBooks
  <2>2. payments = <<>> /\ DOMAIN payments = {} /\ voided = {} /\ gone = {}
    BY DEF Init
  <2>3. Priced
    BY DEF Init, Priced, ReadsFee, Idle
  <2>4. VoidedAreGone /\ LateAreRefunds
    BY <2>2 DEF VoidedAreGone, LateAreRefunds
  <2>5. Kept
    <3>1. ASSUME NEW a, NEW k PROVE Total(Column(payments, a, k)) = 0
      <4>1. payments \in Seq(Row)
        BY <2>2
      <4>2. \A i \in DOMAIN Column(payments, a, k) : Column(payments, a, k)[i] = 0
        BY <2>2 DEF Column
      <4> QED BY <4>1, <4>2, ColumnIs, TotalBounds
    <3>2. \A a \in Account : received[a] = 0 /\ returned[a] = 0
      BY DEF Init
    <3> QED BY <3>1, <3>2 DEF Kept
  <2> QED BY <2>1, <2>3, <2>4, <2>5 DEF Books
<1>2. Books /\ [Next]_vars => Books'
  <2> SUFFICES ASSUME Books, [Next]_vars PROVE Books'
    OBVIOUS
  <2>1. Typed' /\ Anchored' /\ Counted' /\ Kept'
    BY AnchoredStep, CountedStep, KeptStep DEF Books
  <2>2. Priced' /\ VoidedAreGone' /\ LateAreRefunds'
    BY PricedStep, VoidedStep, LateStep DEF Books
  <2> QED BY <2>1, <2>2 DEF Books
<1> QED BY <1>1, <1>2

(* Books says what the queries need to know of the tables. *)
LEMMA BooksAreLedger ==
  ASSUME Books
  PROVE  Ledger
<1>1. payments \in Seq(Row) /\ Len(payments) <= MaxPayments
  BY DEF Books, Typed
<1>2. Rows = 1 .. Len(payments) /\ Len(payments) \in Nat
      /\ \A p \in Rows : /\ payments[p].kind \in {"payment", "refund"}
                         /\ payments[p].account \in Account /\ payments[p].amount \in Nat
  BY <1>1, RowsAre DEF Rows
<1>3. Rows \subseteq PaymentId
  BY <1>1, <1>2, ConstantsAssumption DEF PaymentId
<1>4. \A a \in Account : /\ received[a] = Amounts(RowsOf(a), {"payment"})
                         /\ returned[a] = Amounts(RowsOf(a), {"refund"})
  BY ColumnsAreAmounts DEF Books, Kept
<1> QED BY <1>2, <1>3, <1>4 DEF Books, Ledger, Priced

(***************************************************************************)
(* Sums of amounts.                                                        *)
(***************************************************************************)

(* What a row counts for, by the kinds that are counted.                   *)
Worth(ks) == [p \in Rows |-> IF payments[p].kind \in ks THEN payments[p].amount ELSE 0]



(* Rows are finite in number. *)
LEMMA RowsFinite ==
  ASSUME Ledger, NEW rows \in SUBSET Rows
  PROVE  IsFiniteSet(rows)
<1>1. IsFiniteSet(PaymentId) /\ rows \subseteq PaymentId
  <2>1. 1 \in Int /\ MaxPayments \in Int
    BY ConstantsAssumption
  <2> QED BY <2>1, FS_Interval DEF PaymentId, Ledger
<1> QED BY <1>1, FS_Subset

(* What a row counts for is a number. *)
LEMMA WorthIs ==
  ASSUME Ledger, NEW ks
  PROVE  Worth(ks) \in [Rows -> Nat]
BY DEF Worth, Ledger

(* The sum of a part in which the rest counts for nothing.                 *)
LEMMA SumOfRest ==
  ASSUME NEW S, IsFiniteSet(S), NEW f \in [S -> Int], NEW T \in SUBSET S,
         \A x \in S \ T : f[x] = 0
  PROVE  Sum(f) = Sum([x \in T |-> f[x]])
<1> DEFINE t == [x \in T |-> f[x]]  r == [x \in S \ T |-> f[x]]
<1>1. t \in [T -> Int] /\ r \in [S \ T -> Int] /\ \A x \in S \ T : r[x] = 0
  OBVIOUS
<1>2. IsFiniteSet(T)
  BY FS_Subset
<1>3. Sum(f) = Sum(t) + Sum(r)
  BY SumOfParts
<1> HIDE DEF t, r
<1>4. Sum(t) \in Int /\ Sum(r) = 0
  BY <1>1, <1>2, SumType, SumOfNone
<1> QED BY <1>3, <1>4 DEF t

(* The SUM with a filter on kinds is that of what the rows count for.      *)
LEMMA AmountsAre ==
  ASSUME Ledger, NEW rows \in SUBSET Rows, NEW ks
  PROVE  /\ Amounts(rows, ks) = Sum([p \in rows |-> Worth(ks)[p]])
         /\ Amounts(rows, ks) \in Nat
<1> DEFINE f == [p \in rows |-> Worth(ks)[p]]
           T == {q \in rows : payments[q].kind \in ks}
<1>1. f \in [rows -> Nat] /\ f \in [rows -> Int] /\ T \in SUBSET rows /\ \A p \in rows \ T : f[p] = 0
  BY WorthIs DEF Worth
<1>2. [p \in T |-> f[p]] = [p \in T |-> payments[p].amount]
  BY DEF Worth
<1>3. IsFiniteSet(rows)
  BY RowsFinite
<1>4. Amounts(rows, ks) = Sum([p \in T |-> payments[p].amount])
  BY DEF Amounts
<1> DEFINE z == [p \in rows |-> 0]
<1>5. z \in [rows -> Int] /\ \A p \in rows : z[p] = 0 /\ z[p] <= f[p]
  <2>1. \A p \in rows : f[p] \in Nat
    BY <1>1
  <2> HIDE DEF f
  <2> QED BY <2>1
<1> HIDE DEF f, T, z
<1>6. Sum(f) = Sum([p \in T |-> f[p]])
  BY <1>1, <1>3, SumOfRest
<1>7. Sum(z) = 0 /\ Sum(z) <= Sum(f) /\ Sum(f) \in Int
  BY <1>1, <1>3, <1>5, SumOfNone, SumGrows, SumType
<1> QED BY <1>2, <1>4, <1>6, <1>7 DEF f

(* The net of rows is their payments less their refunds. *)
LEMMA NetIs ==
  ASSUME Ledger, NEW rows \in SUBSET Rows
  PROVE  /\ Net(rows) \in Int
         /\ Net(rows) = Amounts(rows, {"payment"}) - Amounts(rows, {"refund"})
         /\ Amounts(rows, {"payment", "refund"}) = Amounts(rows, {"payment"}) + Amounts(rows, {"refund"})
<1>1. /\ Amounts(rows, {"payment"}) \in Nat /\ Amounts(rows, {"refund"}) \in Nat
      /\ Net(rows) = Amounts(rows, {"payment"}) - Amounts(rows, {"refund"})
  BY AmountsAre DEF Net
<1> DEFINE both == [p \in rows |-> Worth({"payment", "refund"})[p]]
           pay  == [p \in rows |-> Worth({"payment"})[p]]
           ref  == [p \in rows |-> Worth({"refund"})[p]]
<1>2. both \in [rows -> Int] /\ pay \in [rows -> Int] /\ ref \in [rows -> Int]
  BY WorthIs
<1>3. \A p \in rows : both[p] = pay[p] + ref[p]
  <2>1. \A p \in rows : payments[p].kind \in {"payment", "refund"} /\ payments[p].amount \in Nat
    BY DEF Ledger
  <2>2. \A p \in rows : Worth({"payment", "refund"})[p] = Worth({"payment"})[p] + Worth({"refund"})[p]
    BY <2>1 DEF Worth
  <2> QED BY <2>2
<1>4. IsFiniteSet(rows)
  BY RowsFinite
<1> HIDE DEF both, pay, ref
<1>5. Sum(both) = Sum(pay) + Sum(ref)
  BY <1>2, <1>3, <1>4, SumAdds
<1>6. Sum(both) = Amounts(rows, {"payment", "refund"}) /\ Sum(pay) = Amounts(rows, {"payment"})
      /\ Sum(ref) = Amounts(rows, {"refund"})
  BY AmountsAre DEF both, pay, ref
<1> QED BY <1>1, <1>5, <1>6

(* Rows apart are summed apart. *)
LEMMA AmountsApart ==
  ASSUME Ledger, NEW rows \in SUBSET Rows, NEW T \in SUBSET rows
  PROVE  /\ \A ks : Amounts(rows, ks) = Amounts(T, ks) + Amounts(rows \ T, ks)
         /\ Net(rows) = Net(T) + Net(rows \ T)
<1>1. ASSUME NEW ks PROVE Amounts(rows, ks) = Amounts(T, ks) + Amounts(rows \ T, ks)
  <2> DEFINE f == [p \in rows |-> Worth(ks)[p]]
  <2>1. f \in [rows -> Int]
    BY WorthIs
  <2>2. /\ [p \in T |-> f[p]] = [p \in T |-> Worth(ks)[p]]
        /\ [p \in rows \ T |-> f[p]] = [p \in rows \ T |-> Worth(ks)[p]]
    OBVIOUS
  <2>3. IsFiniteSet(rows)
    BY RowsFinite
  <2>4. Amounts(rows, ks) = Sum(f)
    BY AmountsAre
  <2>5. /\ Amounts(T, ks) = Sum([p \in T |-> Worth(ks)[p]])
        /\ Amounts(rows \ T, ks) = Sum([p \in rows \ T |-> Worth(ks)[p]])
    <3>1. T \in SUBSET Rows /\ rows \ T \in SUBSET Rows
      OBVIOUS
    <3> QED BY <3>1, AmountsAre
  <2> HIDE DEF f
  <2>6. Sum(f) = Sum([p \in T |-> f[p]]) + Sum([p \in rows \ T |-> f[p]])
    BY <2>1, <2>3, SumOfParts
  <2> QED BY <2>2, <2>4, <2>5, <2>6
<1>2. T \in SUBSET Rows /\ rows \ T \in SUBSET Rows
  OBVIOUS
<1>3. /\ Amounts(T, {"payment"}) \in Nat /\ Amounts(T, {"refund"}) \in Nat
      /\ Amounts(rows \ T, {"payment"}) \in Nat /\ Amounts(rows \ T, {"refund"}) \in Nat
  BY <1>2, AmountsAre
<1>4. Net(rows) = Net(T) + Net(rows \ T)
  BY <1>1, <1>3 DEF Net
<1> QED BY <1>1, <1>4

(* Split by what v says of the rows. *)
LEMMA AmountsByValue ==
  ASSUME Ledger, NEW rows \in SUBSET Rows, NEW X, IsFiniteSet(X), NEW v \in [rows -> X], NEW ks
  PROVE  Sum([x \in X |-> Amounts({p \in rows : v[p] = x}, ks)]) = Amounts(rows, ks)
<1> DEFINE f == [p \in rows |-> Worth(ks)[p]]
<1>1. f \in [rows -> Int] /\ IsFiniteSet(rows) /\ Amounts(rows, ks) = Sum(f)
  BY WorthIs, RowsFinite, AmountsAre
<1>2. ASSUME NEW x \in X
      PROVE  Amounts({p \in rows : v[p] = x}, ks) = Sum([p \in {q \in rows : v[q] = x} |-> f[p]])
  <2> DEFINE T == {p \in rows : v[p] = x}
  <2>1. T \in SUBSET Rows
    OBVIOUS
  <2>2. [p \in T |-> f[p]] = [p \in T |-> Worth(ks)[p]]
    OBVIOUS
  <2>3. Amounts(T, ks) = Sum([p \in T |-> Worth(ks)[p]])
    <3> HIDE DEF T
    <3> QED BY <2>1, AmountsAre
  <2> HIDE DEF f
  <2> QED BY <2>2, <2>3
<1> HIDE DEF f
<1>3. Subtotals(rows, X, v, f) = [x \in X |-> Amounts({p \in rows : v[p] = x}, ks)]
  BY <1>2 DEF Subtotals
<1>4. Sum(Subtotals(rows, X, v, f)) = Sum(f)
  BY <1>1, SumByValue
<1> QED BY <1>1, <1>3, <1>4

(* The nets of the groups add up to the net, for any GROUP BY. *)
LEMMA NetByValue ==
  ASSUME Ledger, NEW rows \in SUBSET Rows, NEW X, IsFiniteSet(X), NEW v \in [rows -> X]
  PROVE  /\ [x \in X |-> Net({p \in rows : v[p] = x})] \in [X -> Int]
         /\ Sum([x \in X |-> Net({p \in rows : v[p] = x})]) = Net(rows)
<1> DEFINE a == [x \in X |-> Amounts({p \in rows : v[p] = x}, {"payment"})]
           b == [x \in X |-> Amounts({p \in rows : v[p] = x}, {"refund"})]
           c == [x \in X |-> Net({p \in rows : v[p] = x})]
<1>1. \A x \in X : a[x] \in Nat /\ b[x] \in Nat /\ c[x] = a[x] - b[x]
  <2> TAKE x \in X
  <2> DEFINE T == {p \in rows : v[p] = x}
  <2>1. T \in SUBSET Rows
    OBVIOUS
  <2>2. a[x] = Amounts(T, {"payment"}) /\ b[x] = Amounts(T, {"refund"}) /\ c[x] = Net(T)
    OBVIOUS
  <2> HIDE DEF a, b, c, T
  <2> QED BY <2>1, <2>2, AmountsAre, NetIs
<1>2. Sum(a) = Amounts(rows, {"payment"}) /\ Sum(b) = Amounts(rows, {"refund"})
  <2>1. \A ks : Sum([x \in X |-> Amounts({p \in rows : v[p] = x}, ks)]) = Amounts(rows, ks)
    BY AmountsByValue
  <2> QED BY <2>1
<1>3. a = [x \in X |-> a[x]] /\ b = [x \in X |-> b[x]] /\ c = [x \in X |-> c[x]]
  OBVIOUS
<1> HIDE DEF a, b, c
<1>4. a \in [X -> Int] /\ b \in [X -> Int] /\ c \in [X -> Int]
  <2>1. \A x \in X : a[x] \in Int /\ b[x] \in Int /\ c[x] \in Int
    BY <1>1
  <2> QED BY <1>3, <2>1
<1>5. \A x \in X : a[x] = c[x] + b[x]
  BY <1>1
<1>6. Sum(a) = Sum(c) + Sum(b)
  BY <1>4, <1>5, SumAdds
<1>7. Sum(c) \in Int /\ Sum(b) \in Int
  BY <1>4, SumType
<1>8. Net(rows) = Amounts(rows, {"payment"}) - Amounts(rows, {"refund"})
  BY DEF Net
<1> QED BY <1>2, <1>4, <1>6, <1>7, <1>8 DEF c

(* The constants are numbers and finite sets. *)
LEMMA NumbersAre ==
  /\ Price \subseteq Int /\ Level \subseteq SUBSET Enrollment
  /\ Enrollment \cap Member = {} /\ Enrollment \subseteq Account /\ Member \subseteq Account
  /\ IsFiniteSet(Enrollment) /\ IsFiniteSet(Member) /\ IsFiniteSet(Account) /\ IsFiniteSet(Level)
<1>1. Enrollment \subseteq Account /\ Member \subseteq Account
  BY DEF Account
<1>2. IsFiniteSet(Account)
  BY StatementsAssumption
<1>3. IsFiniteSet(Enrollment) /\ IsFiniteSet(Member)
  BY <1>1, <1>2, FS_Subset
<1>4. Price \subseteq Int /\ Level \subseteq SUBSET Enrollment /\ Enrollment \cap Member = {}
  BY ConstantsAssumption
<1>5. IsFiniteSet(SUBSET Enrollment)
  BY <1>3, FS_SUBSET
<1>6. IsFiniteSet(Level)
  BY <1>4, <1>5, FS_Subset
<1> QED BY <1>1, <1>2, <1>3, <1>4, <1>6

(***************************************************************************)
(* Accounts.                                                               *)
(***************************************************************************)

(* What the queries make of the rows of one enrollment that is there.      *)
LEMMA AccountIs ==
  ASSUME Ledger, NEW e \in Enrolled
  PROVE  /\ e \in Enrollment /\ e \in Account /\ e \notin gone /\ e \notin Member
         /\ RowsOf(e) \in SUBSET Rows /\ RowsOf(e) \cap Live = RowsOf(e)
         /\ received[e] \in Nat /\ returned[e] \in Nat /\ netDue[e] \in Int
         /\ Amounts(RowsOf(e), {"payment"}) = received[e]
         /\ Amounts(RowsOf(e), {"refund"}) = returned[e]
         /\ Net(RowsOf(e)) = received[e] - returned[e]
         /\ Balance(e) = received[e] - returned[e] - netDue[e] /\ Balance(e) \in Int
         /\ BalanceOwed(e) = - Balance(e)
         /\ TotalPaid(e) = received[e] + returned[e]
         /\ RosterBalance(e) = - Balance(e) - 2 * returned[e]
<1>1. e \in Enrollment /\ e \in Account /\ e \notin gone /\ e \notin Member
  BY NumbersAre DEF Enrolled
<1>2. RowsOf(e) \in SUBSET Rows
  BY DEF RowsOf
<1>3. RowsOf(e) \cap Live = RowsOf(e)
  BY <1>1 DEF Ledger, VoidedAreGone, RowsOf, Live, Rows
<1>4. received[e] \in Nat /\ returned[e] \in Nat
  BY <1>1 DEF Ledger, Counted
<1>5. netDue[e] \in Int
  BY <1>1, NumbersAre DEF Ledger
<1>6. Amounts(RowsOf(e), {"payment"}) = received[e] /\ Amounts(RowsOf(e), {"refund"}) = returned[e]
  BY <1>1 DEF Ledger
<1>7. Net(RowsOf(e)) = received[e] - returned[e]
  BY <1>6 DEF Net
<1>8. Amounts(RowsOf(e), {"payment", "refund"}) = received[e] + returned[e]
  BY <1>2, <1>6, NetIs
<1>9. TotalPaid(e) = received[e] + returned[e]
  BY <1>3, <1>8 DEF TotalPaid
<1>10. Balance(e) = received[e] - returned[e] - netDue[e] /\ Balance(e) \in Int
  BY <1>4, <1>5 DEF Balance
<1>11. BalanceOwed(e) = - Balance(e)
  <2>1. BalanceOwed(e) = netDue[e] - Net(RowsOf(e))
    BY <1>3 DEF BalanceOwed
  <2> QED BY <1>4, <1>5, <1>7, <1>10, <2>1
<1>12. RosterBalance(e) = - Balance(e) - 2 * returned[e]
  BY <1>4, <1>5, <1>9, <1>10 DEF RosterBalance
<1> QED BY <1>1, <1>2, <1>3, <1>4, <1>5, <1>6, <1>7, <1>9, <1>10, <1>11, <1>12

(* Enrollments are finite in number. *)
LEMMA EnrolledFinite ==
  ASSUME NEW es \in SUBSET Enrolled
  PROVE  IsFiniteSet(es)
<1>1. es \subseteq Enrollment
  BY DEF Enrolled
<1> QED BY <1>1, NumbersAre, FS_Subset

(* What each of the accounts owes, and how the balances come about.        *)
Owes(es)    == [e \in es |-> Positive(- Balance(e))]
Balances(es) == [e \in es |-> Balance(e)]
Prices(es)  == [e \in es |-> netDue[e]]
Nets(es)    == [e \in es |-> received[e] - returned[e]]
Returns(es) == [e \in es |-> returned[e]]

(* What is summed over enrollments, as functions of the enrollments.       *)
LEMMA AccountsAre ==
  ASSUME Ledger, NEW es \in SUBSET Enrolled
  PROVE  /\ IsFiniteSet(es)
         /\ Owes(es) \in [es -> Nat] /\ Owes(es) \in [es -> Int]
         /\ Balances(es) \in [es -> Int] /\ Prices(es) \in [es -> Int]
         /\ Nets(es) \in [es -> Int] /\ Returns(es) \in [es -> Nat] /\ Returns(es) \in [es -> Int]
         /\ \A e \in es : /\ Owes(es)[e] = Positive(- Balance(e)) /\ Balances(es)[e] = Balance(e)
                          /\ Prices(es)[e] = netDue[e] /\ Nets(es)[e] = received[e] - returned[e]
                          /\ Returns(es)[e] = returned[e]
<1>1. \A e \in es : Balance(e) \in Int /\ netDue[e] \in Int /\ received[e] \in Nat /\ returned[e] \in Nat
  BY AccountIs
<1>2. \A e \in es : Positive(- Balance(e)) \in Nat
  BY <1>1 DEF Positive
<1> QED BY <1>1, <1>2, EnrolledFinite DEF Owes, Balances, Prices, Nets, Returns

(* SUM(-balance) WHERE balance < 0 is the sum of what is owed.             *)
LEMMA DebtIs ==
  ASSUME Ledger, NEW es \in SUBSET Enrolled
  PROVE  /\ Debt(es) = Sum(Owes(es)) /\ Debt(es) \in Nat
         /\ \A T \in SUBSET es : /\ Debt(es) = Debt(T) + Debt(es \ T) /\ Debt(T) <= Debt(es)
                                 /\ Debt(T) \in Nat /\ Debt(es \ T) \in Nat
<1>1. ASSUME NEW T \in SUBSET Enrolled
      PROVE  Debt(T) = Sum(Owes(T)) /\ Debt(T) \in Nat
  <2> DEFINE D == {x \in T : Balance(x) < 0}
             f == Owes(T)
  <2>1. IsFiniteSet(T) /\ f \in [T -> Int] /\ f \in [T -> Nat] /\ \A e \in T : f[e] = Positive(- Balance(e))
    BY AccountsAre
  <2>2. \A e \in T : Balance(e) \in Int
    BY AccountIs
  <2> HIDE DEF f
  <2>3. \A e \in T \ D : f[e] = 0
    BY <2>1, <2>2 DEF Positive
  <2>4. \A e \in D : f[e] = - Balance(e)
    BY <2>1, <2>2 DEF Positive
  <2>5. [e \in D |-> f[e]] = [e \in D |-> - Balance(e)]
    BY <2>4
  <2>6. Debt(T) = Sum([e \in D |-> - Balance(e)])
    BY DEF Debt
  <2>7. D \in SUBSET T
    OBVIOUS
  <2> HIDE DEF D
  <2>8. Sum(f) = Sum([e \in D |-> f[e]])
    BY <2>1, <2>3, <2>7, SumOfRest
  <2> DEFINE z == [e \in T |-> 0]
  <2>9. z \in [T -> Int] /\ \A e \in T : z[e] = 0 /\ z[e] <= f[e]
    BY <2>1
  <2> HIDE DEF z
  <2>10. Sum(z) = 0 /\ Sum(z) <= Sum(f) /\ Sum(f) \in Int
    BY <2>1, <2>9, SumOfNone, SumGrows, SumType
  <2> QED BY <2>5, <2>6, <2>8, <2>10 DEF f
<1>2. ASSUME NEW T \in SUBSET es
      PROVE  /\ Debt(es) = Debt(T) + Debt(es \ T) /\ Debt(T) <= Debt(es)
             /\ Debt(T) \in Nat /\ Debt(es \ T) \in Nat
  <2>1. T \in SUBSET Enrolled /\ es \ T \in SUBSET Enrolled
    OBVIOUS
  <2>2. /\ Debt(T) = Sum(Owes(T)) /\ Debt(T) \in Nat
        /\ Debt(es \ T) = Sum(Owes(es \ T)) /\ Debt(es \ T) \in Nat
        /\ Debt(es) = Sum(Owes(es)) /\ Debt(es) \in Nat
    BY <1>1, <2>1
  <2>3. IsFiniteSet(es) /\ Owes(es) \in [es -> Int]
    BY AccountsAre
  <2>4. /\ Owes(T) = [e \in T |-> Owes(es)[e]]
        /\ Owes(es \ T) = [e \in es \ T |-> Owes(es)[e]]
    BY DEF Owes
  <2>5. Sum(Owes(es)) = Sum([e \in T |-> Owes(es)[e]]) + Sum([e \in es \ T |-> Owes(es)[e]])
    BY <2>3, SumOfParts
  <2> QED BY <2>2, <2>4, <2>5
<1> QED BY <1>1, <1>2

(* Debts split by what v says of the accounts. *)
LEMMA DebtByValue ==
  ASSUME Ledger, NEW es \in SUBSET Enrolled, NEW X, IsFiniteSet(X), NEW v \in [es -> X]
  PROVE  Sum([x \in X |-> Debt({e \in es : v[e] = x})]) = Debt(es)
<1> DEFINE f == Owes(es)
<1>1. f \in [es -> Int] /\ IsFiniteSet(es) /\ Debt(es) = Sum(f)
  BY AccountsAre, DebtIs
<1>2. ASSUME NEW x \in X
      PROVE  Debt({e \in es : v[e] = x}) = Sum([e \in {q \in es : v[q] = x} |-> f[e]])
  <2> DEFINE T == {e \in es : v[e] = x}
  <2>1. T \in SUBSET Enrolled
    OBVIOUS
  <2>2. [e \in T |-> f[e]] = Owes(T)
    BY DEF Owes
  <2>3. Debt(T) = Sum(Owes(T))
    <3> HIDE DEF T
    <3> QED BY <2>1, DebtIs
  <2> HIDE DEF f
  <2> QED BY <2>2, <2>3
<1> HIDE DEF f
<1>3. Subtotals(es, X, v, f) = [x \in X |-> Debt({e \in es : v[e] = x})]
  BY <1>2 DEF Subtotals
<1>4. Sum(Subtotals(es, X, v, f)) = Sum(f)
  BY <1>1, SumByValue
<1> QED BY <1>1, <1>3, <1>4

(* Debts less credits are prices less what was paid. *)
LEMMA SumsOfAccounts ==
  ASSUME Ledger, NEW es \in SUBSET Enrolled
  PROVE  /\ Sum(Balances(es)) = Sum(Nets(es)) - Sum(Prices(es))
         /\ Sum(Balances(es)) \in Int /\ Sum(Nets(es)) \in Int /\ Sum(Prices(es)) \in Int
         /\ Sum(Returns(es)) \in Int
         /\ \A T \in SUBSET es : /\ Sum(Balances(es)) = Sum(Balances(T)) + Sum(Balances(es \ T))
                                 /\ Sum(Balances(T)) \in Int /\ Sum(Balances(es \ T)) \in Int
<1> DEFINE b == Balances(es)  n == Nets(es)  p == Prices(es)
<1>1. IsFiniteSet(es) /\ b \in [es -> Int] /\ n \in [es -> Int] /\ p \in [es -> Int]
      /\ Returns(es) \in [es -> Int]
  BY AccountsAre
<1>2. \A e \in es : n[e] = b[e] + p[e]
  <2>1. \A e \in es : b[e] = Balance(e) /\ n[e] = received[e] - returned[e] /\ p[e] = netDue[e]
    BY AccountsAre
  <2>2. \A e \in es : /\ Balance(e) = received[e] - returned[e] - netDue[e]
                      /\ received[e] \in Nat /\ returned[e] \in Nat /\ netDue[e] \in Int
    BY AccountIs
  <2> HIDE DEF b, n, p
  <2> QED BY <2>1, <2>2
<1>3. \A T \in SUBSET es : Balances(T) = [e \in T |-> b[e]]
  BY DEF Balances
<1>4. \A T \in SUBSET es : IsFiniteSet(T) /\ Balances(T) \in [T -> Int]
  <2> TAKE T \in SUBSET es
  <2>1. T \in SUBSET Enrolled
    OBVIOUS
  <2> QED BY <2>1, AccountsAre
<1> HIDE DEF b, n, p
<1>5. Sum(n) = Sum(b) + Sum(p) /\ Sum(n) \in Int /\ Sum(b) \in Int /\ Sum(p) \in Int
      /\ Sum(Returns(es)) \in Int
  BY <1>1, <1>2, SumAdds, SumType
<1>6. ASSUME NEW T \in SUBSET es
      PROVE  /\ Sum(b) = Sum(Balances(T)) + Sum(Balances(es \ T))
             /\ Sum(Balances(T)) \in Int /\ Sum(Balances(es \ T)) \in Int
  <2>1. Sum(b) = Sum([e \in T |-> b[e]]) + Sum([e \in es \ T |-> b[e]])
    BY <1>1, SumOfParts
  <2>2. Balances(T) = [e \in T |-> b[e]] /\ Balances(es \ T) = [e \in es \ T |-> b[e]]
    BY <1>3
  <2>3. IsFiniteSet(T) /\ IsFiniteSet(es \ T) /\ Balances(T) \in [T -> Int]
        /\ Balances(es \ T) \in [es \ T -> Int]
    BY <1>4
  <2> QED BY <2>1, <2>2, <2>3, SumType
<1>7. Sum(b) = Sum(n) - Sum(p)
  BY <1>5
<1>8. \A T \in SUBSET es : /\ Sum(b) = Sum(Balances(T)) + Sum(Balances(es \ T))
                          /\ Sum(Balances(T)) \in Int /\ Sum(Balances(es \ T)) \in Int
  BY <1>6
<1> QED BY <1>5, <1>7, <1>8 DEF b, n, p

(* A debt less what is overpaid is what the balances add up to.            *)
LEMMA DebtLessCredit ==
  ASSUME Ledger, NEW es \in SUBSET Enrolled
  PROVE  LET C == {e \in es : Balance(e) > 0} IN
         /\ Debt(es) - Sum(Balances(C)) = - Sum(Balances(es))
         /\ Sum(Balances(C)) \in Nat /\ Sum(Balances(es)) \in Int
         /\ C = {} => Sum(Balances(C)) = 0
<1> DEFINE C == {e \in es : Balance(e) > 0}
           R == es \ C
           o == Owes(es)  b == Balances(R)  z == [e \in C |-> 0]  k == Balances(C)
<1>1. C \in SUBSET es /\ C \in SUBSET Enrolled /\ R \in SUBSET es /\ R \in SUBSET Enrolled
  OBVIOUS
<1>2. \A e \in es : Balance(e) \in Int
  BY AccountIs
<1>3. \A e \in C : Balance(e) > 0
  OBVIOUS
<1>4. \A e \in R : ~ (Balance(e) > 0)
  OBVIOUS
<1>5. z \in [C -> Int] /\ \A e \in C : z[e] = 0
  OBVIOUS
<1> HIDE DEF C, R
<1>6. /\ IsFiniteSet(es) /\ IsFiniteSet(C) /\ IsFiniteSet(R)
      /\ o \in [es -> Int] /\ \A e \in es : o[e] = Positive(- Balance(e))
      /\ b \in [R -> Int] /\ \A e \in R : b[e] = Balance(e)
      /\ k \in [C -> Int] /\ \A e \in C : k[e] = Balance(e)
  BY <1>1, AccountsAre
<1> HIDE DEF o, b, z, k
<1>7. \A e \in C : o[e] = 0 /\ z[e] <= k[e]
  BY <1>1, <1>2, <1>3, <1>5, <1>6 DEF Positive
<1>8. \A e \in R : o[e] = - b[e]
  BY <1>1, <1>2, <1>4, <1>6 DEF Positive
<1>9. es \ R = C
  BY <1>1 DEF R
<1>10. Sum(o) = Sum([e \in R |-> o[e]])
  BY <1>1, <1>6, <1>7, <1>9, SumOfRest
<1>11. Sum([e \in R |-> o[e]]) = - Sum(b)
  <2> DEFINE r == [e \in R |-> o[e]]
  <2>1. r \in [R -> Int] /\ \A e \in R : r[e] = - b[e]
    BY <1>1, <1>6, <1>8
  <2> HIDE DEF r
  <2>2. Sum(r) = - Sum(b)
    BY <1>6, <2>1, SumNegated
  <2> QED BY <2>2 DEF r
<1>12. Sum(z) = 0 /\ Sum(z) <= Sum(k) /\ Sum(k) \in Int
  BY <1>5, <1>6, <1>7, SumOfNone, SumGrows, SumType
<1>13. C = {} => Sum(k) = 0
  BY <1>6, SumOfNone
<1>14. Sum(Balances(es)) = Sum(k) + Sum(b) /\ Sum(b) \in Int /\ Sum(Balances(es)) \in Int
  BY <1>1, SumsOfAccounts DEF k, b, R
<1>15. Debt(es) = Sum(o)
  BY DebtIs DEF o
<1>16. /\ Debt(es) - Sum(k) = - Sum(Balances(es))
       /\ Sum(k) \in Nat /\ Sum(Balances(es)) \in Int
       /\ C = {} => Sum(k) = 0
  BY <1>10, <1>11, <1>12, <1>13, <1>14, <1>15
<1> QED BY <1>16 DEF k, C

(* The levels divide the enrollments. *)
LEMMA LevelsDivide ==
  ASSUME NEW ls \in SUBSET Level
  PROVE  /\ (UNION ls) \cap Enrolled \in SUBSET Enrolled /\ IsFiniteSet(ls)
         /\ Enrolled \ (UNION ls) = (UNION (Level \ ls)) \cap Enrolled
         /\ \E v \in [(UNION ls) \cap Enrolled -> ls] :
              \A l \in ls : {e \in (UNION ls) \cap Enrolled : v[e] = l} = l \cap Enrolled
<1> DEFINE v == [e \in (UNION ls) \cap Enrolled |-> CHOOSE l \in ls : e \in l]
<1>1. \A e \in Enrolled : \E l \in Level : e \in l
  BY StatementsAssumption DEF Enrolled
<1>2. \A l, k \in Level : l = k \/ l \cap k = {}
  BY StatementsAssumption
<1>3. Enrolled \ (UNION ls) = (UNION (Level \ ls)) \cap Enrolled
  <2>1. ASSUME NEW e \in Enrolled, e \notin UNION ls PROVE e \in UNION (Level \ ls)
    BY <1>1, <2>1
  <2>2. ASSUME NEW e \in UNION (Level \ ls) PROVE e \notin UNION ls
    <3>1. PICK l \in Level \ ls : e \in l
      OBVIOUS
    <3>2. \A k \in ls : e \notin k
      BY <1>2, <3>1
    <3> QED BY <3>2
  <2> QED BY <2>1, <2>2
<1>4. v \in [(UNION ls) \cap Enrolled -> ls] /\ \A e \in (UNION ls) \cap Enrolled : e \in v[e]
  OBVIOUS
<1>5. ASSUME NEW l \in ls, NEW e \in (UNION ls) \cap Enrolled PROVE v[e] = l <=> e \in l
  <2>1. e \in v[e] /\ v[e] \in ls
    BY <1>4
  <2> HIDE DEF v
  <2> QED BY <1>2, <2>1
<1>6. \A l \in ls : {e \in (UNION ls) \cap Enrolled : v[e] = l} = l \cap Enrolled
  <2> HIDE DEF v
  <2> QED BY <1>5
<1>7. IsFiniteSet(ls)
  BY NumbersAre, FS_Subset
<1> HIDE DEF v
<1> QED BY <1>3, <1>4, <1>6, <1>7

(* The debts of levels add up to the debt of their enrollments. *)
LEMMA DebtOfLevels ==
  ASSUME Ledger, NEW ls \in SUBSET Level
  PROVE  Sum([l \in ls |-> Debt(l \cap Enrolled)]) = Debt((UNION ls) \cap Enrolled)
<1>1. PICK v \in [(UNION ls) \cap Enrolled -> ls] :
        \A l \in ls : {e \in (UNION ls) \cap Enrolled : v[e] = l} = l \cap Enrolled
  BY LevelsDivide
<1> DEFINE es == (UNION ls) \cap Enrolled
<1>2. es \in SUBSET Enrolled /\ IsFiniteSet(ls)
  BY LevelsDivide
<1>3. [l \in ls |-> Debt({e \in es : v[e] = l})] = [l \in ls |-> Debt(l \cap Enrolled)]
  BY <1>1
<1> HIDE DEF es
<1>4. Sum([l \in ls |-> Debt({e \in es : v[e] = l})]) = Debt(es)
  <2>1. v \in [es -> ls]
    BY DEF es
  <2> QED BY <1>2, <2>1, DebtByValue
<1> QED BY <1>3, <1>4 DEF es

(***************************************************************************)
(* The lists of debts.                                                     *)
(***************************************************************************)
LEMMA OneList ==
  ASSUME Ledger
  PROVE  /\ UnpaidEnrollments = {e \in Having({"active"}) : Balance(e) < 0}
         /\ Outstanding = {e \in Having({"active"}) : Balance(e) < 0}
         /\ HighRisk \subseteq Outstanding
         /\ Overpaid = {e \in Enrolled : Balance(e) > 0}
<1>1. \A e \in Enrolled : /\ Balance(e) \in Int /\ BalanceOwed(e) = - Balance(e)
                          /\ Net(RowsOf(e) \cap Live) = Net(RowsOf(e))
                          /\ Net(RowsOf(e)) \in Int /\ netDue[e] \in Int
                          /\ Balance(e) = Net(RowsOf(e)) - netDue[e]
  <2> SUFFICES ASSUME NEW e \in Enrolled
               PROVE  /\ Balance(e) \in Int /\ BalanceOwed(e) = - Balance(e)
                      /\ Net(RowsOf(e) \cap Live) = Net(RowsOf(e))
                      /\ Net(RowsOf(e)) \in Int /\ netDue[e] \in Int
                      /\ Balance(e) = Net(RowsOf(e)) - netDue[e]
    OBVIOUS
  <2>1. /\ received[e] \in Nat /\ returned[e] \in Nat /\ netDue[e] \in Int
        /\ Net(RowsOf(e)) = received[e] - returned[e]
        /\ Balance(e) = received[e] - returned[e] - netDue[e] /\ Balance(e) \in Int
        /\ BalanceOwed(e) = - Balance(e) /\ RowsOf(e) \cap Live = RowsOf(e)
    BY AccountIs
  <2>2. Net(RowsOf(e)) \in Int
    BY <2>1
  <2>3. Net(RowsOf(e) \cap Live) = Net(RowsOf(e))
    BY <2>1
  <2> QED BY <2>1, <2>2, <2>3
<1>2. \A n \in Int : Positive(n) > 0 <=> n > 0
  BY DEF Positive
<1>3. Having({"active"}) \subseteq Enrolled
  BY DEF Having
<1>4. \A e \in Enrolled : Positive(netDue[e] - Net(RowsOf(e))) > 0 <=> Balance(e) < 0
  <2> SUFFICES ASSUME NEW e \in Enrolled
               PROVE  Positive(netDue[e] - Net(RowsOf(e))) > 0 <=> Balance(e) < 0
    OBVIOUS
  <2> DEFINE n == Net(RowsOf(e))
  <2>1. n \in Int /\ netDue[e] \in Int /\ Balance(e) = n - netDue[e]
    BY <1>1
  <2> HIDE DEF n
  <2>2. Positive(netDue[e] - n) > 0 <=> netDue[e] - n > 0
    BY <1>2, <2>1
  <2>3. Positive(netDue[e] - n) > 0 <=> Balance(e) < 0
    BY <2>1, <2>2
  <2> QED BY <2>3 DEF n
<1>5. UnpaidEnrollments = {e \in Having({"active"}) : Balance(e) < 0}
  BY <1>3, <1>4 DEF UnpaidEnrollments
<1>6. \A e \in Enrolled : BalanceOwed(e) > 0 <=> Balance(e) < 0
  <2> SUFFICES ASSUME NEW e \in Enrolled PROVE BalanceOwed(e) > 0 <=> Balance(e) < 0
    OBVIOUS
  <2>1. Balance(e) \in Int /\ BalanceOwed(e) = - Balance(e)
    BY <1>1
  <2> QED BY <2>1
<1>7. Outstanding = {e \in Having({"active"}) : Balance(e) < 0}
  BY <1>3, <1>6 DEF Outstanding
<1>8. HighRisk \subseteq Outstanding
  BY DEF HighRisk, Outstanding
<1>9. \A e \in Enrolled : Net(RowsOf(e) \cap Live) > netDue[e] <=> Balance(e) > 0
  BY <1>1
<1>10. Overpaid = {e \in Enrolled : Balance(e) > 0}
  BY <1>9 DEF Overpaid
<1> QED BY <1>5, <1>7, <1>8, <1>10

(* What the dashboard sums is the debt of the active enrollments.          *)
LEMMA SummaryOwed ==
  ASSUME Ledger
  PROVE  Summary.owed = Debt(Having({"active"}))
<1> DEFINE D == {x \in Having({"active"}) : Balance(x) < 0}
<1>1. Outstanding = D
  BY OneList
<1>2. \A e \in D : BalanceOwed(e) = - Balance(e)
  BY AccountIs DEF Having
<1>3. Summary.owed = Sum([e \in D |-> BalanceOwed(e)])
  BY <1>1 DEF Summary
<1>4. Debt(Having({"active"})) = Sum([e \in D |-> - Balance(e)])
  BY DEF Debt
<1> HIDE DEF D
<1>5. [e \in D |-> BalanceOwed(e)] = [e \in D |-> - Balance(e)]
  BY <1>2
<1> QED BY <1>3, <1>4, <1>5

(* The debts by student, and by group. *)
LEMMA DebtByStudent ==
  ASSUME Ledger
  PROVE  Sum(TopDebtors) = Debt(Enrolled)
<1> DEFINE v == [e \in Enrolled |-> StudentOf[e]]
<1>1. v \in [Enrolled -> Student] /\ IsFiniteSet(Student)
  BY StatementsAssumption, NumbersAre DEF Enrolled
<1>2. \A s : {e \in Enrolled : v[e] = s} = Of(s)
  BY DEF Of
<1> HIDE DEF v
<1>3. Sum([s \in Student |-> Debt({e \in Enrolled : v[e] = s})]) = Debt(Enrolled)
  BY <1>1, DebtByValue
<1>4. TopDebtors = [s \in Student |-> Debt({e \in Enrolled : v[e] = s})]
  BY <1>2 DEF TopDebtors
<1> QED BY <1>3, <1>4

(* The groups list all debts but those of groups that are not open.        *)
LEMMA DebtByGroup ==
  ASSUME Ledger
  PROVE  Debt(Enrolled) = Sum(OutstandingByGroup) + Debt((UNION (Level \ Open)) \cap Enrolled)
<1> DEFINE es == (UNION Open) \cap Enrolled
<1>1. Open \in SUBSET Level
  BY StatementsAssumption
<1>2. Sum(OutstandingByGroup) = Debt(es)
  BY <1>1, DebtOfLevels DEF OutstandingByGroup
<1>3. Enrolled \ es = (UNION (Level \ Open)) \cap Enrolled
  BY <1>1, LevelsDivide
<1>4. es \in SUBSET Enrolled
  OBVIOUS
<1> HIDE DEF es
<1>5. Debt(Enrolled) = Debt(es) + Debt(Enrolled \ es)
  BY <1>4, DebtIs
<1> QED BY <1>2, <1>3, <1>5

(* What is owed less what is overpaid is what was billed and not received. *)
LEMMA DebtsAndCredits ==
  ASSUME Ledger
  PROVE  Debt(Enrolled) - Sum([e \in Overpaid |-> Balance(e)])
           = Billed - Sum([e \in Enrolled |-> received[e] - returned[e]])
<1>1. Overpaid = {e \in Enrolled : Balance(e) > 0}
  BY OneList
<1>2. Debt(Enrolled) - Sum(Balances(Overpaid)) = - Sum(Balances(Enrolled))
  BY <1>1, DebtLessCredit
<1>3. /\ Sum(Balances(Enrolled)) = Sum(Nets(Enrolled)) - Sum(Prices(Enrolled))
      /\ Sum(Nets(Enrolled)) \in Int /\ Sum(Prices(Enrolled)) \in Int
  BY SumsOfAccounts
<1>4. /\ Balances(Overpaid) = [e \in Overpaid |-> Balance(e)] /\ Sum(Prices(Enrolled)) = Billed
      /\ Nets(Enrolled) = [e \in Enrolled |-> received[e] - returned[e]]
  BY DEF Balances, Prices, Nets, Billed
<1>5. Debt(Enrolled) - Sum(Balances(Overpaid)) = Billed - Sum(Nets(Enrolled))
  BY <1>2, <1>3, <1>4
<1> QED BY <1>4, <1>5

(* The note on a receipt. *)
LEMMA RemainingIs ==
  ASSUME Ledger, NEW s \in Student
  PROVE  /\ BalanceRemaining(s) <= TopDebtors[s] /\ BalanceRemaining(s) \in Nat
         /\ TopDebtors[s] = Debt(Of(s)) /\ Debt(Of(s)) \in Nat
         /\ Of(s) \cap Overpaid = {} => BalanceRemaining(s) = TopDebtors[s]
<1> DEFINE C == {e \in Of(s) : Balance(e) > 0}
<1>1. Of(s) \in SUBSET Enrolled
  BY DEF Of
<1>2. /\ Debt(Of(s)) - Sum(Balances(C)) = - Sum(Balances(Of(s)))
      /\ Sum(Balances(C)) \in Nat /\ Sum(Balances(Of(s))) \in Int
      /\ C = {} => Sum(Balances(C)) = 0
  BY <1>1, DebtLessCredit
<1>3. Debt(Of(s)) \in Nat /\ TopDebtors[s] = Debt(Of(s))
  BY <1>1, DebtIs DEF TopDebtors
<1>4. BalanceRemaining(s) = Positive(- Sum(Balances(Of(s))))
  BY DEF BalanceRemaining, Balances
<1>5. Of(s) \cap Overpaid = {} => C = {}
  BY <1>1, OneList
<1> HIDE DEF C
<1> QED BY <1>2, <1>3, <1>4, <1>5 DEF Positive

(* The joins of sessions with debts. *)
LEMMA LessonsAre ==
  ASSUME NEW es \in SUBSET Enrolled, NEW T \in SUBSET es
  PROVE  /\ Sum([e \in es |-> Lessons[e]]) \in Nat /\ Sum([e \in T |-> Lessons[e]]) \in Nat
         /\ Sum([e \in T |-> Lessons[e]]) <= Sum([e \in es |-> Lessons[e]])
<1>1. ASSUME NEW S \in SUBSET Enrolled
      PROVE  Sum([e \in S |-> Lessons[e]]) \in Nat
  <2> DEFINE f == [e \in S |-> Lessons[e]]  z == [e \in S |-> 0]
  <2>1. \A e \in S : Lessons[e] \in Nat
    BY StatementsAssumption DEF Enrolled
  <2>2. f \in [S -> Int] /\ z \in [S -> Int] /\ \A e \in S : z[e] = 0 /\ z[e] <= f[e]
    BY <2>1
  <2>3. IsFiniteSet(S)
    BY EnrolledFinite
  <2> HIDE DEF f, z
  <2>4. Sum(f) \in Int /\ Sum(z) = 0 /\ Sum(z) <= Sum(f)
    BY <2>2, <2>3, SumOfNone, SumGrows, SumType
  <2> QED BY <2>4 DEF f
<1>2. T \in SUBSET Enrolled /\ es \ T \in SUBSET Enrolled
  OBVIOUS
<1> DEFINE f == [e \in es |-> Lessons[e]]
<1>3. f \in [es -> Int]
  <2>1. \A e \in es : Lessons[e] \in Int
    BY StatementsAssumption DEF Enrolled
  <2> QED BY <2>1
<1>4. /\ [e \in T |-> f[e]] = [e \in T |-> Lessons[e]]
      /\ [e \in es \ T |-> f[e]] = [e \in es \ T |-> Lessons[e]]
  OBVIOUS
<1>5. IsFiniteSet(es)
  BY EnrolledFinite
<1> HIDE DEF f
<1>6. Sum(f) = Sum([e \in T |-> f[e]]) + Sum([e \in es \ T |-> f[e]])
  BY <1>3, <1>5, SumOfParts
<1>7. /\ Sum([e \in T |-> Lessons[e]]) \in Nat
      /\ Sum([e \in es \ T |-> Lessons[e]]) \in Nat
      /\ Sum([e \in es |-> Lessons[e]]) \in Nat
  BY <1>1, <1>2
<1>8. Sum(f) = Sum([e \in T |-> Lessons[e]]) + Sum([e \in es \ T |-> Lessons[e]])
  BY <1>4, <1>6
<1> QED BY <1>7, <1>8 DEF f

(* A product grows with its factor. *)
LEMMA TimesGrows ==
  ASSUME NEW a \in Nat, NEW b \in Nat, NEW d \in Nat, b <= a
  PROVE  b * d <= a * d /\ a * d \in Nat /\ b * d \in Nat /\ 1 * d = d
OBVIOUS

(* A debt shown once for every lesson is not less than the debt.           *)
LEMMA LessonsOwed ==
  ASSUME Ledger, NEW s \in Student
  PROVE  /\ OwedTomorrow(s) >= OwedAfterThird(s)
         /\ Sum([e \in Of(s) |-> Lessons[e]]) = 1 => OwedTomorrow(s) = TopDebtors[s]
<1> DEFINE a == Sum([e \in Of(s) |-> Lessons[e]])
           b == Sum([e \in Of(s) \cap Having({"active"}) |-> Lessons[e]])
           d == Debt(Of(s))
<1>1. Of(s) \in SUBSET Enrolled /\ Of(s) \cap Having({"active"}) \in SUBSET Of(s)
  BY DEF Of
<1>2. a \in Nat /\ b \in Nat /\ b <= a
  BY <1>1, LessonsAre
<1>3. d \in Nat /\ TopDebtors[s] = d
  BY RemainingIs
<1>4. OwedTomorrow(s) = a * d /\ OwedAfterThird(s) = b * d
  BY DEF OwedTomorrow, OwedAfterThird
<1> HIDE DEF a, b, d
<1>5. b * d <= a * d /\ a * d \in Nat /\ b * d \in Nat /\ 1 * d = d
  BY <1>2, <1>3, TimesGrows
<1>6. OwedTomorrow(s) >= OwedAfterThird(s) /\ (a = 1 => OwedTomorrow(s) = TopDebtors[s])
  BY <1>3, <1>4, <1>5
<1> QED BY <1>6 DEF a

(* The lists of debts are one list. *)
LEMMA ListsAreOne ==
  ASSUME Ledger
  PROVE  ListsAgree
<1>1. UnpaidEnrollments = Outstanding /\ HighRisk \subseteq Outstanding
  BY OneList
<1>2. ASSUME NEW e \in UnpaidEnrollments PROVE PaymentStatus(e) # "paid"
  <2>1. e \in Enrolled /\ Balance(e) < 0
    BY OneList DEF Having
  <2>2. /\ received[e] \in Nat /\ returned[e] \in Nat /\ netDue[e] \in Int
        /\ Net(RowsOf(e)) = received[e] - returned[e]
        /\ Balance(e) = received[e] - returned[e] - netDue[e]
    BY <2>1, AccountIs
  <2>3. ~ (netDue[e] <= Net(RowsOf(e)))
    BY <2>1, <2>2
  <2> QED BY <2>3 DEF PaymentStatus
<1>3. /\ WeeklyReport(Day).debt = Debt(Enrolled) /\ MonthlyReport(Day).debt = Debt(Enrolled)
  BY DEF WeeklyReport, MonthlyReport
<1>4. \A s \in Student :
       /\ BalanceRemaining(s) <= TopDebtors[s]
       /\ Of(s) \cap Overpaid = {} => BalanceRemaining(s) = TopDebtors[s]
       /\ OwedTomorrow(s) >= OwedAfterThird(s)
       /\ Sum([e \in Of(s) |-> Lessons[e]]) = 1 => OwedTomorrow(s) = TopDebtors[s]
  BY RemainingIs, LessonsOwed
<1> QED BY <1>1, <1>2, <1>3, <1>4, SummaryOwed, DebtByStudent, DebtByGroup, DebtsAndCredits
        DEF ListsAgree

(***************************************************************************)
(* The rosters.                                                            *)
(***************************************************************************)
LEMMA RosterIs ==
  ASSUME Ledger, NEW l \in Level, NEW e \in l \cap Enrolled
  PROVE  /\ RosterBalance(e) = - Balance(e) - 2 * returned[e]
         /\ returned[e] = 0 /\ received[e] > 0 /\ netDue[e] > 0 =>
              <<PaymentStatus(e), GroupEnrollments(l)[e], Completeness(e)>> \in
                {<<"paid", "paid", "fully_paid">>,
                 <<"partially_paid", "partial", "partially_paid">>}
<1> DEFINE r == received[e]  n == netDue[e]
<1>1. /\ r \in Nat /\ returned[e] \in Nat /\ n \in Int
      /\ Amounts(RowsOf(e), {"payment"}) = r /\ Net(RowsOf(e)) = r - returned[e]
      /\ RowsOf(e) \cap Live = RowsOf(e) /\ Balance(e) \in Int
      /\ Balance(e) = r - returned[e] - n
      /\ RosterBalance(e) = - Balance(e) - 2 * returned[e] /\ TotalPaid(e) = r + returned[e]
  BY AccountIs
<1>2. ASSUME returned[e] = 0, r > 0, n > 0
      PROVE  /\ n <= r => /\ PaymentStatus(e) = "paid" /\ GroupEnrollments(l)[e] = "paid"
                          /\ Completeness(e) = "fully_paid"
             /\ n > r => /\ PaymentStatus(e) = "partially_paid"
                         /\ GroupEnrollments(l)[e] = "partial" /\ Completeness(e) = "partially_paid"
  <2>1. RosterBalance(e) = n - r /\ TotalPaid(e) = r
    BY <1>1, <1>2
  <2>2. /\ n <= r => PaymentStatus(e) = "paid"
        /\ n > r => PaymentStatus(e) = "partially_paid"
    <3>1. Net(RowsOf(e)) = r /\ r # 0
      BY <1>1, <1>2
    <3> HIDE DEF r, n
    <3> QED BY <1>1, <3>1 DEF PaymentStatus, n
  <2>3. /\ n <= r => Completeness(e) = "fully_paid"
        /\ n > r => Completeness(e) = "partially_paid"
    <3>1. Amounts(RowsOf(e) \cap Live, {"payment"}) = r
      BY <1>1
    <3> HIDE DEF r
    <3> QED BY <1>1, <1>2, <3>1 DEF Completeness
  <2>4. /\ n <= r => GroupEnrollments(l)[e] = "paid"
        /\ n > r => GroupEnrollments(l)[e] = "partial"
    <3> HIDE DEF r, n
    <3> QED BY <1>1, <1>2, <2>1 DEF GroupEnrollments
  <2> HIDE DEF r, n
  <2> QED BY <2>2, <2>3, <2>4
<1>3. n <= r \/ n > r
  BY <1>1
<1> HIDE DEF r, n
<1>4. returned[e] = 0 /\ r > 0 /\ n > 0 =>
              <<PaymentStatus(e), GroupEnrollments(l)[e], Completeness(e)>> \in
                {<<"paid", "paid", "fully_paid">>,
                 <<"partially_paid", "partial", "partially_paid">>}
  BY <1>2, <1>3
<1> QED BY <1>1, <1>4 DEF r, n

(* What the rosters of a level ask for is owed. *)
LEMMA LevelIs ==
  ASSUME Ledger, NEW l \in Level
  PROVE  /\ \A e \in DOMAIN DashboardRoster(l) :
              /\ DashboardRoster(l)[e] = GroupRoster(l)[e]
              /\ DashboardRoster(l)[e] = "due" => e \in UnpaidEnrollments
         /\ LevelStats(l).due <= Debt(l \cap Enrolled)
         /\ LevelStats(l).unpaid
              = Cardinality({e \in DOMAIN GroupRoster(l) : GroupRoster(l)[e] = "due"})
<1> DEFINE es == l \cap Having({"active", "completed"})
           f  == [e \in es |-> Positive(RosterBalance(e))]
<1>1. es \in SUBSET Enrolled /\ l \cap Enrolled \in SUBSET Enrolled /\ es \in SUBSET (l \cap Enrolled)
  BY DEF Having
<1>2. \A e \in Enrolled : /\ RosterBalance(e) \in Int /\ Balance(e) \in Int
                          /\ RosterBalance(e) <= - Balance(e)
  <2> SUFFICES ASSUME NEW e \in Enrolled
               PROVE  RosterBalance(e) \in Int /\ Balance(e) \in Int /\ RosterBalance(e) <= - Balance(e)
    OBVIOUS
  <2>1. returned[e] \in Nat /\ Balance(e) \in Int /\ RosterBalance(e) = - Balance(e) - 2 * returned[e]
    BY AccountIs
  <2> QED BY <2>1
<1>3. ASSUME NEW e \in DOMAIN DashboardRoster(l)
      PROVE  /\ DashboardRoster(l)[e] = GroupRoster(l)[e]
             /\ DashboardRoster(l)[e] = "due" => e \in UnpaidEnrollments
  <2>1. e \in l \cap Having({"active"}) /\ e \in Having({"active"}) /\ e \in Enrolled
        /\ e \in l \cap Having({"active", "completed"})
    BY DEF DashboardRoster, Having
  <2>2. DashboardRoster(l)[e] = (IF RosterBalance(e) > 0 THEN "due" ELSE "paid")
    BY <2>1 DEF DashboardRoster
  <2>3. GroupRoster(l)[e] = (IF RosterBalance(e) > 0 THEN "due" ELSE "paid")
    BY <2>1 DEF GroupRoster
  <2>4. RosterBalance(e) > 0 => Balance(e) < 0
    BY <1>2, <2>1
  <2>5. Balance(e) < 0 => e \in UnpaidEnrollments
    BY <2>1, OneList
  <2> QED BY <2>2, <2>3, <2>4, <2>5
<1>4. LevelStats(l).due <= Debt(l \cap Enrolled)
  <2>1. LevelStats(l).due = Sum(f)
    BY DEF LevelStats
  <2>2. \A e \in es : /\ Positive(RosterBalance(e)) \in Int
                      /\ Positive(RosterBalance(e)) <= Positive(- Balance(e))
    BY <1>1, <1>2 DEF Positive
  <2>3. f \in [es -> Int] /\ \A e \in es : f[e] = Positive(RosterBalance(e))
    BY <2>2
  <2>4. IsFiniteSet(es) /\ Owes(es) \in [es -> Int] /\ \A e \in es : Owes(es)[e] = Positive(- Balance(e))
    BY <1>1, AccountsAre
  <2> HIDE DEF f, es
  <2>5. \A e \in es : f[e] <= Owes(es)[e]
    BY <2>2, <2>3, <2>4
  <2>6. Sum(f) <= Sum(Owes(es))
    BY <2>3, <2>4, <2>5, SumGrows
  <2>7. Sum(Owes(es)) = Debt(es) /\ Debt(es) \in Nat
    BY <1>1, DebtIs
  <2>8. Debt(es) <= Debt(l \cap Enrolled) /\ Debt(l \cap Enrolled) \in Nat
    BY <1>1, DebtIs
  <2>9. Sum(f) \in Int
    BY <2>3, <2>4, SumType
  <2> QED BY <2>1, <2>6, <2>7, <2>8, <2>9
<1>5. {e \in es : RosterBalance(e) > 0} = {e \in DOMAIN GroupRoster(l) : GroupRoster(l)[e] = "due"}
  BY DEF GroupRoster
<1>6. LevelStats(l).unpaid = Cardinality({e \in es : RosterBalance(e) > 0})
  BY DEF LevelStats
<1> HIDE DEF es, f
<1> QED BY <1>3, <1>4, <1>5, <1>6

(* The rosters tell the debt but for the refunds, which they add to it.    *)
LEMMA RostersTellDebts ==
  ASSUME Ledger
  PROVE  RostersAgree
<1> SUFFICES ASSUME NEW l \in Level
             PROVE  /\ \A e \in l \cap Enrolled :
                         /\ RosterBalance(e) = - Balance(e) - 2 * returned[e]
                         /\ returned[e] = 0 /\ received[e] > 0 /\ netDue[e] > 0 =>
                              <<PaymentStatus(e), GroupEnrollments(l)[e], Completeness(e)>> \in
                                {<<"paid", "paid", "fully_paid">>,
                                 <<"partially_paid", "partial", "partially_paid">>}
                    /\ \A e \in DOMAIN DashboardRoster(l) :
                         /\ DashboardRoster(l)[e] = GroupRoster(l)[e]
                         /\ DashboardRoster(l)[e] = "due" => e \in UnpaidEnrollments
                    /\ LevelStats(l).due <= Debt(l \cap Enrolled)
                    /\ LevelStats(l).unpaid
                         = Cardinality({e \in DOMAIN GroupRoster(l) : GroupRoster(l)[e] = "due"})
  BY DEF RostersAgree
<1> QED BY RosterIs, LevelIs

(***************************************************************************)
(* The statements of a student.                                            *)
(***************************************************************************)
LEMMA FeesAreNumbers ==
  ASSUME Ledger, NEW s \in Student
  PROVE  FeesBalance(s) \in Int
<1> DEFINE S == Memberships(s)  f == [m \in S |-> amountPaid[m] - FeeDue[m]]
<1>1. S \subseteq Member
  BY DEF Memberships
<1>2. f \in [S -> Int]
  <2>1. \A m \in Member : amountPaid[m] \in Int /\ FeeDue[m] \in Nat
    BY StatementsAssumption DEF Ledger
  <2> QED BY <1>1, <2>1
<1>3. IsFiniteSet(S)
  BY <1>1, NumbersAre, FS_Subset
<1> HIDE DEF S, f
<1>4. Sum(f) \in Int
  BY <1>2, <1>3, SumType
<1> QED BY <1>4 DEF FeesBalance, f, S

(* The two statements of a student, compared. *)
LEMMA StatementsDiffer ==
  ASSUME Ledger, NEW s \in Student
  PROVE  LET active == Of(s) \cap Having({"active"})
             done   == Of(s) \cap Having({"completed"}) IN
         /\ CrmSummary(s).unpaid \subseteq FinanceSummary(s).unpaid \cup done
         /\ CrmSummary(s).net - FinanceSummary(s).net
              = Sum([e \in done |-> Balance(e)]) + Sum([e \in active \cup done |-> returned[e]])
<1> DEFINE active == Of(s) \cap Having({"active"})
           done   == Of(s) \cap Having({"completed"})
           es     == Of(s) \cap Having({"active", "completed"})
           paid(e) == Amounts(RowsOf(e), {"payment"})
           f      == [e \in es |-> paid(e) - netDue[e]]
<1>1. /\ es \in SUBSET Enrolled /\ done \in SUBSET es /\ es \ done = active /\ es = active \cup done
      /\ active \in SUBSET Enrolled /\ done \in SUBSET Enrolled /\ active \in SUBSET es
  BY DEF Having
<1>2. \A e \in Enrolled : /\ received[e] \in Nat /\ returned[e] \in Nat /\ netDue[e] \in Int
                          /\ Balance(e) = received[e] - returned[e] - netDue[e]
                          /\ Balance(e) \in Int /\ paid(e) = received[e]
  BY AccountIs
<1>3. /\ FinanceSummary(s).net = Sum(Balances(active)) + FeesBalance(s)
      /\ FinanceSummary(s).unpaid = {e \in active : Balance(e) < 0} \cup FeesUnpaid(s)
      /\ CrmSummary(s).net = Sum(f) + FeesBalance(s)
      /\ CrmSummary(s).unpaid = {e \in es : netDue[e] - paid(e) > 0} \cup FeesUnpaid(s)
  BY DEF FinanceSummary, CrmSummary, Balances
<1>4. \A e \in es : f[e] = Balance(e) + returned[e] /\ f[e] \in Int
  BY <1>1, <1>2
<1>5. f \in [es -> Int]
  BY <1>4
<1>6. \A e \in es : netDue[e] - paid(e) > 0 => Balance(e) < 0
  BY <1>1, <1>2
<1> HIDE DEF active, done, es, f, paid
<1>7. /\ IsFiniteSet(es) /\ Balances(es) \in [es -> Int] /\ Returns(es) \in [es -> Int]
      /\ \A e \in es : Balances(es)[e] = Balance(e) /\ Returns(es)[e] = returned[e]
  BY <1>1, AccountsAre
<1>8. \A e \in es : f[e] = Balances(es)[e] + Returns(es)[e]
  BY <1>4, <1>7
<1>9. Sum(f) = Sum(Balances(es)) + Sum(Returns(es))
  BY <1>5, <1>7, <1>8, SumAdds
<1>10. /\ Sum(Balances(es)) = Sum(Balances(done)) + Sum(Balances(active))
       /\ Sum(Balances(done)) \in Int /\ Sum(Balances(active)) \in Int /\ Sum(Returns(es)) \in Int
  BY <1>1, SumsOfAccounts
<1>11. FeesBalance(s) \in Int
  BY FeesAreNumbers
<1>12. CrmSummary(s).net - FinanceSummary(s).net = Sum(Balances(done)) + Sum(Returns(es))
  BY <1>3, <1>9, <1>10, <1>11
<1>13. CrmSummary(s).unpaid \subseteq FinanceSummary(s).unpaid \cup done
  BY <1>1, <1>3, <1>6
<1>14. /\ Balances(done) = [e \in done |-> Balance(e)]
       /\ Returns(es) = [e \in active \cup done |-> returned[e]]
  BY <1>1 DEF Balances, Returns
<1> QED BY <1>12, <1>13, <1>14 DEF active, done

(* The statements differ by what StudentsAgree names, and by no more.      *)
LEMMA StatementsAreExplained ==
  ASSUME Ledger
  PROVE  StudentsAgree
BY StatementsDiffer DEF StudentsAgree

(***************************************************************************)
(* The revenue of the groups.                                              *)
(***************************************************************************)

(* What is due, counted as often as the joins count it. *)
Times(e)   == AtLeast1(Cardinality(RowsOf(e) \cap Live))
Bills(es)  == [e \in es |-> netDue[e] * Times(e)]
Collects(es) == [e \in es |-> Net(RowsOf(e) \cap Live)]
Opened(es) == [e \in es |-> netDue[e] * Times(e) - Net(RowsOf(e) \cap Live)]

(* A product with a number that is not negative. *)
LEMMA Multiplied ==
  ASSUME NEW n \in Nat, NEW t \in Nat
  PROVE  /\ n * t \in Nat /\ n * 1 = n
         /\ t >= 1 => n <= n * t
         /\ \A k \in Nat : k <= t => n * k <= n * t
OBVIOUS

(* How often a price is counted. *)
LEMMA TimesAre ==
  ASSUME Ledger, NEW e \in Enrolled
  PROVE  /\ Times(e) \in Nat /\ Times(e) >= 1
         /\ Cardinality(RowsOf(e) \cap Live) \in Nat /\ Cardinality(RowsOf(e) \cap Live) <= Times(e)
         /\ Cardinality(RowsOf(e)) <= 1 => Times(e) = 1
         /\ netDue[e] \in Int /\ netDue[e] * Times(e) \in Int
         /\ Net(RowsOf(e) \cap Live) = received[e] - returned[e]
         /\ received[e] \in Nat /\ returned[e] \in Nat
<1> DEFINE c == Cardinality(RowsOf(e))
<1>1. /\ RowsOf(e) \cap Live = RowsOf(e) /\ RowsOf(e) \in SUBSET Rows
      /\ received[e] \in Nat /\ returned[e] \in Nat /\ netDue[e] \in Int
      /\ Net(RowsOf(e)) = received[e] - returned[e]
  BY AccountIs
<1>2. c \in Nat
  BY <1>1, RowsFinite, FS_CardinalityType
<1>3. \A k \in Nat : /\ AtLeast1(k) \in Nat /\ AtLeast1(k) >= 1 /\ k <= AtLeast1(k)
                     /\ k <= 1 => AtLeast1(k) = 1
  BY DEF AtLeast1
<1>4. Times(e) = AtLeast1(c)
  BY <1>1 DEF Times
<1> HIDE DEF c
<1>5. Times(e) \in Nat /\ Times(e) >= 1 /\ c <= Times(e) /\ (c <= 1 => Times(e) = 1)
  BY <1>2, <1>3, <1>4
<1>6. netDue[e] * Times(e) \in Int
  BY <1>1, <1>5
<1>7. Cardinality(RowsOf(e) \cap Live) = c
  BY <1>1 DEF c
<1>8. Net(RowsOf(e) \cap Live) = received[e] - returned[e]
  BY <1>1
<1> QED BY <1>1, <1>2, <1>5, <1>6, <1>7, <1>8 DEF c

(* A price counted once for every row is not less than the price.          *)
LEMMA BilledIs ==
  ASSUME PricesArePositive, Ledger, NEW e \in Enrolled
  PROVE  /\ netDue[e] \in Nat /\ Times(e) \in Nat /\ netDue[e] * Times(e) \in Nat
         /\ netDue[e] <= netDue[e] * Times(e)
         /\ Cardinality(RowsOf(e)) <= 1 => netDue[e] * Times(e) = netDue[e]
         /\ Balance(e) = received[e] - returned[e] - netDue[e] /\ Balance(e) \in Int
<1> DEFINE n == netDue[e]
<1>1. /\ e \in Enrollment
      /\ Balance(e) = received[e] - returned[e] - netDue[e] /\ Balance(e) \in Int
  BY AccountIs
<1>2. n \in Nat
  BY <1>1 DEF Ledger, PricesArePositive
<1>3. Times(e) \in Nat /\ Times(e) >= 1 /\ (Cardinality(RowsOf(e)) <= 1 => Times(e) = 1)
  BY TimesAre
<1> HIDE DEF n
<1>4. n * Times(e) \in Nat /\ n <= n * Times(e) /\ n * 1 = n
  BY <1>2, <1>3, Multiplied
<1>5. Cardinality(RowsOf(e)) <= 1 => n * Times(e) = n
  BY <1>3, <1>4
<1> QED BY <1>1, <1>2, <1>3, <1>4, <1>5 DEF n

(* What is summed over the enrollments of groups. *)
LEMMA BillsAre ==
  ASSUME Ledger, NEW es \in SUBSET Enrolled
  PROVE  /\ IsFiniteSet(es)
         /\ Bills(es) \in [es -> Int] /\ Collects(es) \in [es -> Int] /\ Opened(es) \in [es -> Int]
         /\ BilledByRow(es) = Sum(Bills(es)) /\ CollectedOf(es) = Sum(Collects(es))
         /\ Collects(es) = Nets(es)
         /\ BilledByRow(es) - CollectedOf(es) = Sum(Opened(es))
         /\ BilledByRow(es) \in Int /\ CollectedOf(es) \in Int
<1>1. \A e \in es : /\ netDue[e] * Times(e) \in Int /\ Net(RowsOf(e) \cap Live) \in Int
                    /\ Net(RowsOf(e) \cap Live) = received[e] - returned[e]
  <2> SUFFICES ASSUME NEW e \in es
               PROVE  /\ netDue[e] * Times(e) \in Int /\ Net(RowsOf(e) \cap Live) \in Int
                      /\ Net(RowsOf(e) \cap Live) = received[e] - returned[e]
    OBVIOUS
  <2>1. /\ netDue[e] * Times(e) \in Int /\ received[e] \in Nat /\ returned[e] \in Nat
        /\ Net(RowsOf(e) \cap Live) = received[e] - returned[e]
    BY TimesAre
  <2>2. received[e] - returned[e] \in Int /\ netDue[e] * Times(e) \in Int
    BY <2>1
  <2> QED BY <2>1, <2>2
<1>2. IsFiniteSet(es)
  BY EnrolledFinite
<1>3. Bills(es) \in [es -> Int] /\ \A e \in es : Bills(es)[e] = netDue[e] * Times(e)
  BY <1>1 DEF Bills
<1>4. Collects(es) \in [es -> Int] /\ \A e \in es : Collects(es)[e] = Net(RowsOf(e) \cap Live)
  BY <1>1 DEF Collects
<1>5. \A e \in es : Opened(es)[e] = netDue[e] * Times(e) - Net(RowsOf(e) \cap Live)
  BY DEF Opened
<1>6. \A e \in es : Opened(es)[e] \in Int /\ Bills(es)[e] = Opened(es)[e] + Collects(es)[e]
  <2> SUFFICES ASSUME NEW e \in es
               PROVE  Opened(es)[e] \in Int /\ Bills(es)[e] = Opened(es)[e] + Collects(es)[e]
    OBVIOUS
  <2> DEFINE b == netDue[e] * Times(e)  n == Net(RowsOf(e) \cap Live)
  <2>1. b \in Int /\ n \in Int
    BY <1>1
  <2>2. Bills(es)[e] = b /\ Collects(es)[e] = n /\ Opened(es)[e] = b - n
    BY <1>3, <1>4, <1>5
  <2> HIDE DEF b, n
  <2> QED BY <2>1, <2>2
<1>7. Opened(es) \in [es -> Int]
  BY <1>6 DEF Opened
<1>8. Sum(Bills(es)) = Sum(Opened(es)) + Sum(Collects(es))
  BY <1>2, <1>3, <1>4, <1>6, <1>7, SumAdds
<1>9. Sum(Bills(es)) \in Int /\ Sum(Opened(es)) \in Int /\ Sum(Collects(es)) \in Int
  BY <1>2, <1>3, <1>4, <1>7, SumType
<1>10. BilledByRow(es) = Sum(Bills(es))
  BY DEF BilledByRow, Bills, Times
<1>11. CollectedOf(es) = Sum(Collects(es))
  BY DEF CollectedOf, Collects
<1>12. Collects(es) = Nets(es)
  BY <1>1 DEF Collects, Nets
<1> QED BY <1>2, <1>3, <1>4, <1>7, <1>8, <1>9, <1>10, <1>11, <1>12

(* Billed by row less collected is at least what is owed. *)
LEMMA OwedIs ==
  ASSUME PricesArePositive, Ledger, NEW es \in SUBSET Enrolled
  PROVE  LET owed == Sum([e \in es |-> - Balance(e)]) IN
         /\ BilledByRow(es) - CollectedOf(es) >= owed
         /\ (\A e \in es : Cardinality(RowsOf(e)) <= 1) => BilledByRow(es) - CollectedOf(es) = owed
         /\ owed <= Debt(es) /\ owed \in Int /\ Debt(es) \in Nat
<1> DEFINE f == [e \in es |-> - Balance(e)]
           C == {e \in es : Balance(e) > 0}
<1>1. IsFiniteSet(es) /\ Opened(es) \in [es -> Int]
      /\ BilledByRow(es) - CollectedOf(es) = Sum(Opened(es))
  BY BillsAre
<1>2. \A e \in es : /\ netDue[e] \in Nat /\ netDue[e] * Times(e) \in Nat
                    /\ netDue[e] <= netDue[e] * Times(e)
                    /\ Cardinality(RowsOf(e)) <= 1 => netDue[e] * Times(e) = netDue[e]
                    /\ Net(RowsOf(e) \cap Live) = received[e] - returned[e]
                    /\ received[e] \in Nat /\ returned[e] \in Nat
                    /\ Balance(e) = received[e] - returned[e] - netDue[e] /\ Balance(e) \in Int
  BY BilledIs, TimesAre
<1>3. f \in [es -> Int] /\ \A e \in es : f[e] = - Balance(e)
  <2>1. \A e \in es : Balance(e) \in Int
    BY <1>2
  <2>2. \A e \in es : - Balance(e) \in Int
    BY <2>1
  <2> QED BY <2>2
<1> HIDE DEF f
<1>4. ASSUME NEW e \in es
      PROVE  f[e] <= Opened(es)[e] /\ (Cardinality(RowsOf(e)) <= 1 => f[e] = Opened(es)[e])
  <2> DEFINE b == netDue[e] * Times(e)  n == Net(RowsOf(e) \cap Live)
  <2>1. Opened(es)[e] = b - n /\ f[e] = - Balance(e)
    BY <1>3 DEF Opened
  <2>2. /\ netDue[e] \in Nat /\ b \in Nat /\ netDue[e] <= b /\ n = received[e] - returned[e]
        /\ Cardinality(RowsOf(e)) <= 1 => b = netDue[e]
        /\ received[e] \in Nat /\ returned[e] \in Nat
        /\ Balance(e) = received[e] - returned[e] - netDue[e] /\ Balance(e) \in Int
    BY <1>2
  <2> HIDE DEF b, n
  <2> QED BY <2>1, <2>2
<1>5. Sum(f) <= Sum(Opened(es)) /\ Sum(f) \in Int /\ Sum(Opened(es)) \in Int
  BY <1>1, <1>3, <1>4, SumGrows, SumType
<1>6. ASSUME \A e \in es : Cardinality(RowsOf(e)) <= 1 PROVE Sum(f) = Sum(Opened(es))
  <2>1. f = Opened(es)
    BY <1>1, <1>3, <1>4, <1>6
  <2> QED BY <2>1
<1>7. /\ Debt(es) - Sum(Balances(C)) = - Sum(Balances(es))
      /\ Sum(Balances(C)) \in Nat /\ Sum(Balances(es)) \in Int
  BY DebtLessCredit
<1>8. Sum(f) = - Sum(Balances(es))
  <2>1. Balances(es) \in [es -> Int] /\ \A e \in es : Balances(es)[e] = Balance(e)
    BY AccountsAre
  <2>2. \A e \in es : f[e] = - Balances(es)[e]
    BY <1>3, <2>1
  <2> QED BY <1>1, <1>3, <2>1, <2>2, SumNegated
<1>9. Debt(es) \in Nat
  BY DebtIs
<1> HIDE DEF C
<1>10. Sum(f) <= Debt(es)
  BY <1>7, <1>8, <1>9
<1>11. /\ BilledByRow(es) - CollectedOf(es) >= Sum(f)
       /\ (\A e \in es : Cardinality(RowsOf(e)) <= 1) => BilledByRow(es) - CollectedOf(es) = Sum(f)
       /\ Sum(f) <= Debt(es) /\ Sum(f) \in Int /\ Debt(es) \in Nat
  BY <1>1, <1>5, <1>6, <1>9, <1>10
<1> QED BY <1>11 DEF f

(* The revenue of a course is that of its groups. *)
LEMMA CourseIsItsGroups ==
  ASSUME Ledger
  PROVE  RevenueByCourse(Level) = Sum([l \in Level |-> GroupRevenue(l)])
<1> DEFINE es == (UNION Level) \cap Enrolled  f == Opened(es)
<1>1. PICK v \in [es -> Level] : \A l \in Level : {e \in es : v[e] = l} = l \cap Enrolled
  BY LevelsDivide
<1>2. IsFiniteSet(Level) /\ es \in SUBSET Enrolled
  BY NumbersAre
<1> HIDE DEF es
<1>3. IsFiniteSet(es) /\ f \in [es -> Int] /\ BilledByRow(es) - CollectedOf(es) = Sum(f)
  BY <1>2, BillsAre
<1>4. RevenueByCourse(Level) = Sum(f)
  BY <1>3 DEF RevenueByCourse, es
<1>5. ASSUME NEW l \in Level
      PROVE  GroupRevenue(l) = Sum([e \in {q \in es : v[q] = l} |-> f[e]])
  <2> DEFINE T == {q \in es : v[q] = l}
  <2>1. T = l \cap Enrolled /\ T \in SUBSET Enrolled /\ T \in SUBSET es
    BY <1>1, <1>2
  <2>2. [e \in T |-> f[e]] = Opened(T)
    BY <2>1 DEF Opened
  <2>3. BilledByRow(T) - CollectedOf(T) = Sum(Opened(T))
    BY <2>1, BillsAre
  <2> QED BY <2>1, <2>2, <2>3 DEF GroupRevenue
<1> HIDE DEF f
<1>6. [l \in Level |-> GroupRevenue(l)] = Subtotals(es, Level, v, f)
  BY <1>5 DEF Subtotals
<1>7. Sum(Subtotals(es, Level, v, f)) = Sum(f)
  BY <1>1, <1>2, <1>3, SumByValue
<1> QED BY <1>4, <1>6, <1>7

(* The payments tab counts no enrollment more often than the group does.   *)
LEMMA TabIs ==
  ASSUME PricesArePositive, Ledger, NEW l \in Level
  PROVE  /\ PaymentsTab(l).expected <= GroupRevenue(l) + PaymentsTab(l).collected
         /\ PaymentsTab(l).due = Positive(PaymentsTab(l).expected - PaymentsTab(l).collected)
         /\ PaymentsTab(l).expected \in Int /\ PaymentsTab(l).collected \in Int
         /\ GroupRevenue(l) \in Int
<1> DEFINE es   == l \cap Enrolled
           rows == {p \in Live : payments[p].account \in es}
           v    == [p \in rows |-> payments[p].account]
           d    == [p \in rows |-> netDue[payments[p].account]]
           c(e) == Cardinality(RowsOf(e) \cap Live)
           k    == [e \in es |-> netDue[e] * c(e)]
<1>1. es \in SUBSET Enrolled /\ rows \in SUBSET Rows /\ v \in [rows -> es]
  BY DEF Live
<1>2. IsFiniteSet(es) /\ IsFiniteSet(rows)
  BY <1>1, EnrolledFinite, RowsFinite
<1>3. /\ BilledByRow(es) = Sum(Bills(es)) /\ Bills(es) \in [es -> Int]
      /\ CollectedOf(es) = Sum(Collects(es)) /\ BilledByRow(es) \in Int /\ CollectedOf(es) \in Int
  BY <1>1, BillsAre
<1>4. \A e \in es : /\ netDue[e] \in Nat /\ Times(e) \in Nat /\ c(e) \in Nat /\ c(e) <= Times(e)
  BY <1>1, BilledIs, TimesAre
<1>5. d \in [rows -> Int]
  <2>1. \A p \in rows : netDue[payments[p].account] \in Int
    <3>1. \A e \in es : netDue[e] \in Int
      <4> HIDE DEF es
      <4>1. \A e \in es : netDue[e] \in Nat
        BY <1>4
      <4> QED BY <4>1
    <3>2. \A p \in rows : payments[p].account \in es
      OBVIOUS
    <3> QED BY <3>1, <3>2
  <2> QED BY <2>1
<1>6. ASSUME NEW e \in es
      PROVE  {p \in rows : v[p] = e} = RowsOf(e) \cap Live
  BY DEF RowsOf, Live, Rows
<1>7. ASSUME NEW e \in es
      PROVE  Sum([p \in {q \in rows : v[q] = e} |-> d[p]]) = k[e]
  <2>1. [p \in {q \in rows : v[q] = e} |-> d[p]] = [p \in RowsOf(e) \cap Live |-> netDue[e]]
    BY <1>6 DEF RowsOf
  <2>2. IsFiniteSet(RowsOf(e) \cap Live)
    BY <1>2, <1>6, FS_Subset
  <2>3. netDue[e] \in Nat
    BY <1>4
  <2>4. Sum([p \in RowsOf(e) \cap Live |-> netDue[e]]) = netDue[e] * Cardinality(RowsOf(e) \cap Live)
    BY <2>2, <2>3, SumOfSame
  <2> QED BY <2>1, <2>4
<1>8. k \in [es -> Int] /\ \A e \in es : k[e] <= Bills(es)[e]
  <2> SUFFICES ASSUME NEW e \in es
               PROVE  netDue[e] * c(e) \in Int /\ netDue[e] * c(e) <= Bills(es)[e]
    OBVIOUS
  <2>1. netDue[e] \in Nat /\ Times(e) \in Nat /\ c(e) \in Nat /\ c(e) <= Times(e)
    BY <1>4
  <2>2. Bills(es)[e] = netDue[e] * Times(e)
    BY DEF Bills
  <2> HIDE DEF c
  <2>3. netDue[e] * c(e) <= netDue[e] * Times(e) /\ netDue[e] * c(e) \in Nat
    BY <2>1, Multiplied
  <2> QED BY <2>2, <2>3
<1>9. Sum(d) = Sum(k)
  <2>1. DOMAIN k = es
    OBVIOUS
  <2> HIDE DEF v, d, k, es, rows
  <2>2. k = Subtotals(rows, es, v, d)
    BY <1>7, <1>8, <2>1 DEF Subtotals
  <2>3. Sum(Subtotals(rows, es, v, d)) = Sum(d)
    BY <1>1, <1>2, <1>5, SumByValue
  <2> QED BY <2>2, <2>3
<1>10. Net(rows) = CollectedOf(es)
  <2>1. [e \in es |-> Net({p \in rows : v[p] = e})] = Collects(es)
    BY <1>6 DEF Collects
  <2> HIDE DEF v, es, rows
  <2>2. Sum([e \in es |-> Net({p \in rows : v[p] = e})]) = Net(rows)
    BY <1>1, <1>2, NetByValue
  <2> QED BY <1>3, <2>1, <2>2
<1>11. /\ PaymentsTab(l).expected = Sum(d) /\ PaymentsTab(l).collected = Net(rows)
       /\ PaymentsTab(l).due = Positive(Sum(d) - Net(rows))
  BY DEF PaymentsTab
<1>12. GroupRevenue(l) = BilledByRow(es) - CollectedOf(es)
  BY DEF GroupRevenue
<1> HIDE DEF es, rows, v, d, k
<1>13. Sum(k) <= Sum(Bills(es)) /\ Sum(k) \in Int
  BY <1>2, <1>3, <1>8, SumGrows, SumType
<1> QED BY <1>3, <1>9, <1>10, <1>11, <1>12, <1>13

(* Groups seem to owe more than their enrollments do, never less.          *)
LEMMA GroupsLookWorse ==
  ASSUME PricesArePositive, Ledger
  PROVE  GroupsAgree
<1>1. ASSUME NEW l \in Level
      PROVE  LET es   == l \cap Enrolled
                 owed == Sum([e \in es |-> - Balance(e)])
                 one  == \A e \in es : Cardinality(RowsOf(e)) <= 1 IN
             /\ GroupRevenue(l) >= owed
             /\ one => GroupRevenue(l) = owed
             /\ es \subseteq Having({"active"}) => CollectionByGroup(l) = GroupRevenue(l)
             /\ PaymentsTab(l).expected <= GroupRevenue(l) + PaymentsTab(l).collected
             /\ one => PaymentsTab(l).due <= Debt(es)
  <2> DEFINE es   == l \cap Enrolled
             owed == Sum([e \in es |-> - Balance(e)])
             one  == \A e \in es : Cardinality(RowsOf(e)) <= 1
  <2>1. GroupRevenue(l) = BilledByRow(es) - CollectedOf(es)
    BY DEF GroupRevenue
  <2>2. /\ GroupRevenue(l) >= owed /\ (one => GroupRevenue(l) = owed)
        /\ owed <= Debt(es) /\ owed \in Int /\ Debt(es) \in Nat
    <3>1. es \in SUBSET Enrolled
      OBVIOUS
    <3> HIDE DEF es
    <3> QED BY <2>1, <3>1, OwedIs
  <2>3. es \subseteq Having({"active"}) => CollectionByGroup(l) = GroupRevenue(l)
    <3> HAVE es \subseteq Having({"active"})
    <3>1. l \cap Having({"active"}) = es
      BY DEF Having
    <3> QED BY <2>1, <3>1 DEF CollectionByGroup
  <2> HIDE DEF es, owed, one
  <2>4. /\ PaymentsTab(l).expected <= GroupRevenue(l) + PaymentsTab(l).collected
        /\ PaymentsTab(l).due = Positive(PaymentsTab(l).expected - PaymentsTab(l).collected)
        /\ PaymentsTab(l).expected \in Int /\ PaymentsTab(l).collected \in Int
        /\ GroupRevenue(l) \in Int
    BY TabIs
  <2>5. one => PaymentsTab(l).due <= Debt(es)
    BY <2>2, <2>4 DEF Positive
  <2> QED BY <2>2, <2>3, <2>4, <2>5 DEF es, owed, one
<1> QED BY <1>1, CourseIsItsGroups DEF GroupsAgree

(* A payment is voided only together with its enrollment, so no row of an  *)
(* enrollment that is there is voided: the queries that filter deleted_at  *)
(* and those that do not say the same of every enrollment.  At every       *)
(* moment, with any requests under way, the lists of unpaid enrollments    *)
(* and of debtors are one list, and the rosters and the statements of a    *)
(* student differ from it by the refunds and the completed enrollments     *)
(* that RostersAgree and StudentsAgree name, whatever was paid, refunded,  *)
(* repriced or deleted.                                                    *)
THEOREM UnpaidListsAreOne == Spec => [](ListsAgree /\ RostersAgree /\ StudentsAgree)
<1>1. Books => ListsAgree /\ RostersAgree /\ StudentsAgree
  BY BooksAreLedger, ListsAreOne, RostersTellDebts, StatementsAreExplained
<1> QED BY <1>1, BooksInvariant, PTL DEF Spec

(* Whoever asks who owes what, in whichever list, roster or statement, is  *)
(* told the same but for the differences that the four parts of DebtsAgree *)
(* name.                                                                   *)
THEOREM DebtsAreOne ==
  ASSUME PricesArePositive
  PROVE  Spec => []DebtsAgree
<1>1. Init => Books
  BY BooksInvariant
<1>2. Books /\ [Next]_vars => Books'
  BY BooksInvariant
<1>3. Books => DebtsAgree
  BY BooksAreLedger, ListsAreOne, RostersTellDebts, StatementsAreExplained, GroupsLookWorse DEF DebtsAgree
<1> QED BY <1>1, <1>2, <1>3, PTL DEF Spec

(***************************************************************************)
(* The takings, split.                                                     *)
(***************************************************************************)
LEMMA RowsKept ==
  ASSUME Ledger
  PROVE  /\ Live \in SUBSET Rows /\ voided \in SUBSET Rows /\ Rows \ Live = voided
         /\ \A p \in Rows : DayOf[p] \in Day /\ MethodOf[p] \in Method /\ payments[p].account \in Account
         /\ \A p \in Live : payments[p].account \in gone => payments[p].kind = "refund"
         /\ \A p \in Rows : payments[p].account \in Enrolled => p \in Live
         /\ \A rows \in SUBSET Rows : On(rows, Day) = rows
<1>1. \A p \in Rows : p \in PaymentId /\ payments[p].account \in Account
  BY DEF Ledger
<1>2. Live \in SUBSET Rows /\ voided \in SUBSET Rows /\ Rows \ Live = voided
  BY DEF Ledger, VoidedAreGone, Live, Rows
<1>3. \A p \in Rows : DayOf[p] \in Day /\ MethodOf[p] \in Method
  BY <1>1, StatementsAssumption
<1>4. \A p \in Live : payments[p].account \in gone => payments[p].kind = "refund"
  BY DEF Ledger, LateAreRefunds, Live, Rows
<1>5. \A p \in Rows : payments[p].account \in Enrolled => p \in Live
  BY DEF Ledger, VoidedAreGone, Live, Rows, Enrolled
<1>6. \A rows \in SUBSET Rows : On(rows, Day) = rows
  BY <1>3 DEF On
<1> QED BY <1>1, <1>2, <1>3, <1>4, <1>5, <1>6

(* Day by day. *)
LEMMA ByDay ==
  ASSUME Ledger, NEW rows \in SUBSET Rows, NEW ds \in SUBSET Day
  PROVE  /\ Sum([d \in ds |-> Net(On(rows, {d}))]) = Net(On(rows, ds))
         /\ \A ks : Sum([d \in ds |-> Amounts(On(rows, {d}), ks)]) = Amounts(On(rows, ds), ks)
<1> DEFINE on == On(rows, ds)  v == [p \in on |-> DayOf[p]]
<1>1. on \in SUBSET Rows /\ v \in [on -> ds] /\ IsFiniteSet(ds)
  BY StatementsAssumption, FS_Subset DEF On
<1>2. \A d \in ds : {p \in on : v[p] = d} = On(rows, {d})
  BY DEF On
<1> HIDE DEF on, v
<1>3. [d \in ds |-> Net({p \in on : v[p] = d})] = [d \in ds |-> Net(On(rows, {d}))]
  BY <1>2
<1>4. Sum([d \in ds |-> Net({p \in on : v[p] = d})]) = Net(on)
  BY <1>1, NetByValue
<1>5. ASSUME NEW ks
      PROVE  Sum([d \in ds |-> Amounts(On(rows, {d}), ks)]) = Amounts(on, ks)
  <2>1. [d \in ds |-> Amounts({p \in on : v[p] = d}, ks)] = [d \in ds |-> Amounts(On(rows, {d}), ks)]
    BY <1>2
  <2>2. Sum([d \in ds |-> Amounts({p \in on : v[p] = d}, ks)]) = Amounts(on, ks)
    BY <1>1, AmountsByValue
  <2> QED BY <2>1, <2>2
<1> QED BY <1>3, <1>4, <1>5 DEF on

(* Method by method. *)
LEMMA ByMethod ==
  ASSUME Ledger, NEW rows \in SUBSET Rows
  PROVE  /\ Sum([c \in Method |-> Net({p \in rows : MethodOf[p] = c})]) = Net(rows)
         /\ \A ks : Sum([c \in Method |-> Amounts({p \in rows : MethodOf[p] = c}, ks)]) = Amounts(rows, ks)
<1> DEFINE v == [p \in rows |-> MethodOf[p]]
<1>1. v \in [rows -> Method] /\ IsFiniteSet(Method)
  <2>1. \A p \in rows : MethodOf[p] \in Method
    BY RowsKept
  <2> QED BY <2>1, StatementsAssumption
<1>2. \A c : {p \in rows : v[p] = c} = {p \in rows : MethodOf[p] = c}
  OBVIOUS
<1> HIDE DEF v
<1>3. [c \in Method |-> Net({p \in rows : v[p] = c})]
        = [c \in Method |-> Net({p \in rows : MethodOf[p] = c})]
  BY <1>2
<1>4. Sum([c \in Method |-> Net({p \in rows : v[p] = c})]) = Net(rows)
  BY <1>1, NetByValue
<1>5. ASSUME NEW ks
      PROVE  Sum([c \in Method |-> Amounts({p \in rows : MethodOf[p] = c}, ks)]) = Amounts(rows, ks)
  <2>1. [c \in Method |-> Amounts({p \in rows : v[p] = c}, ks)]
          = [c \in Method |-> Amounts({p \in rows : MethodOf[p] = c}, ks)]
    BY <1>2
  <2>2. Sum([c \in Method |-> Amounts({p \in rows : v[p] = c}, ks)]) = Amounts(rows, ks)
    BY <1>1, AmountsByValue
  <2> QED BY <2>1, <2>2
<1> QED BY <1>3, <1>4, <1>5

(* Type by type. *)
LEMMA ByType ==
  ASSUME Ledger, NEW rows \in SUBSET Rows, NEW ks
  PROVE  Sum([t \in Types |-> Amounts({p \in rows : Type(p) = t}, ks)]) = Amounts(rows, ks)
<1> DEFINE v == [p \in rows |-> Type(p)]
<1>1. v \in [rows -> Types]
  BY DEF Type, Types
<1>2. IsFiniteSet(Types)
  <2>1. IsFiniteSet({"competition"}) /\ IsFiniteSet({"course_level"})
    BY FS_Singleton
  <2>2. Types = {"competition"} \cup {"course_level"}
    BY DEF Types
  <2> QED BY <2>1, <2>2, FS_Union
<1>3. \A t : {p \in rows : v[p] = t} = {p \in rows : Type(p) = t}
  OBVIOUS
<1> HIDE DEF v
<1>4. [t \in Types |-> Amounts({p \in rows : v[p] = t}, ks)]
        = [t \in Types |-> Amounts({p \in rows : Type(p) = t}, ks)]
  BY <1>3
<1>5. Sum([t \in Types |-> Amounts({p \in rows : v[p] = t}, ks)]) = Amounts(rows, ks)
  BY <1>1, <1>2, AmountsByValue
<1> QED BY <1>4, <1>5

(* Account by account. *)
LEMMA ByAccount ==
  ASSUME Ledger, NEW A \in SUBSET Account
  PROVE  /\ Sum([a \in A |-> received[a] - returned[a]]) = Net({p \in Rows : payments[p].account \in A})
         /\ \A a \in A : received[a] - returned[a] = Net(RowsOf(a)) /\ RowsOf(a) \in SUBSET Rows
<1> DEFINE rows == {p \in Rows : payments[p].account \in A}
           v == [p \in rows |-> payments[p].account]
<1>1. rows \in SUBSET Rows /\ v \in [rows -> A]
  OBVIOUS
<1>2. IsFiniteSet(A)
  BY NumbersAre, FS_Subset
<1>3. \A a \in A : {p \in rows : v[p] = a} = RowsOf(a)
  BY DEF RowsOf
<1>4. \A a \in A : received[a] - returned[a] = Net(RowsOf(a)) /\ RowsOf(a) \in SUBSET Rows
  BY NetIs DEF Ledger, RowsOf
<1> HIDE DEF rows, v
<1>5. [a \in A |-> Net({p \in rows : v[p] = a})] = [a \in A |-> received[a] - returned[a]]
  BY <1>3, <1>4
<1>6. Sum([a \in A |-> Net({p \in rows : v[p] = a})]) = Net(rows)
  BY <1>1, <1>2, NetByValue
<1> QED BY <1>4, <1>5, <1>6 DEF rows

(* Level by level. *)
LEMMA ByLevel ==
  ASSUME Ledger, NEW rows \in SUBSET Rows, NEW ls \in SUBSET Level, NEW ks
  PROVE  Sum([l \in ls |-> Amounts({p \in rows : payments[p].account \in l \cap Enrolled}, ks)])
           = Amounts({p \in rows : payments[p].account \in (UNION ls) \cap Enrolled}, ks)
<1> DEFINE es == (UNION ls) \cap Enrolled
           ours == {p \in rows : payments[p].account \in es}
<1>1. PICK w \in [es -> ls] : \A l \in ls : {e \in es : w[e] = l} = l \cap Enrolled
  BY LevelsDivide
<1> DEFINE v == [p \in ours |-> w[payments[p].account]]
<1>2. IsFiniteSet(ls)
  BY LevelsDivide
<1>3. v \in [ours -> ls] /\ ours \in SUBSET Rows
  OBVIOUS
<1>4. ASSUME NEW l \in ls
      PROVE  {p \in ours : v[p] = l} = {p \in rows : payments[p].account \in l \cap Enrolled}
  <2>1. l \cap Enrolled \in SUBSET es /\ \A e \in es : w[e] = l <=> e \in l \cap Enrolled
    BY <1>1
  <2> HIDE DEF es
  <2> QED BY <2>1
<1> HIDE DEF v, ours, es
<1>5. [l \in ls |-> Amounts({p \in ours : v[p] = l}, ks)]
        = [l \in ls |-> Amounts({p \in rows : payments[p].account \in l \cap Enrolled}, ks)]
  BY <1>4
<1>6. Sum([l \in ls |-> Amounts({p \in ours : v[p] = l}, ks)]) = Amounts(ours, ks)
  BY <1>2, <1>3, AmountsByValue
<1> QED BY <1>5, <1>6 DEF ours, es

(* Rows of other kinds count for nothing. *)
LEMMA OtherKinds ==
  ASSUME NEW rows, NEW ks, \A p \in rows : payments[p].kind \notin ks
  PROVE  Amounts(rows, ks) = 0
<1> DEFINE S == {q \in rows : payments[q].kind \in ks}  f == [p \in S |-> payments[p].amount]
<1>1. S = {}
  OBVIOUS
<1>2. f \in [S -> Int] /\ \A x \in S : f[x] = 0
  BY <1>1
<1> HIDE DEF S, f
<1>3. Sum(f) = 0
  BY <1>2, SumOfNone
<1> QED BY <1>3 DEF Amounts, f, S

(* Every level together: the payments that are for courses. *)
LEMMA CoursesAre ==
  ASSUME Ledger
  PROVE  /\ (UNION Level) \cap Enrolled = Enrolled
         /\ Amounts({p \in Live : payments[p].account \in Enrolled}, {"payment"})
              = RevenueByType(Day)["course_level"]
<1> DEFINE ours == {p \in Live : payments[p].account \in Enrolled}
           all  == {p \in Live : Type(p) = "course_level"}
<1>1. (UNION Level) \cap Enrolled = Enrolled
  BY StatementsAssumption DEF Enrolled
<1>2. /\ Live \in SUBSET Rows /\ On(Live, Day) = Live
      /\ \A p \in Live : payments[p].account \in Account
      /\ \A p \in Live : payments[p].account \in gone => payments[p].kind = "refund"
  BY RowsKept
<1>3. RevenueByType(Day)["course_level"] = Amounts(all, {"payment"})
  BY <1>2 DEF RevenueByType, Types
<1>4. all \in SUBSET Rows /\ ours \in SUBSET all
  BY <1>2, NumbersAre DEF Type, Enrolled
<1>5. \A p \in all \ ours : payments[p].account \in gone
  BY <1>2 DEF Type, Enrolled, Account
<1>6. \A p \in all \ ours : payments[p].kind \notin {"payment"}
  BY <1>2, <1>5
<1> HIDE DEF all, ours
<1>7. Amounts(all \ ours, {"payment"}) = 0
  BY <1>6, OtherKinds
<1>8. Amounts(all, {"payment"}) = Amounts(ours, {"payment"}) + Amounts(all \ ours, {"payment"})
  BY <1>4, AmountsApart
<1>9. Amounts(ours, {"payment"}) \in Nat
  BY <1>4, AmountsAre
<1> QED BY <1>1, <1>3, <1>7, <1>8, <1>9 DEF ours

(***************************************************************************)
(* The takings agree.                                                      *)
(***************************************************************************)
LEMMA DaysAre ==
  ASSUME Ledger, NEW d \in Day
  PROVE  /\ RevenueMetrics(d).total = Net(On(Rows, {x \in Day : x >= d}))
         /\ RevenueMetrics(d).previous = Net(On(Rows, {x \in Day : x < d}))
         /\ RevenueMetrics(d).total \in Int /\ RevenueMetrics(d).previous \in Int
         /\ RevenueMetrics(d).total + RevenueMetrics(d).previous = Net(Rows)
         /\ DailyRevenue(d) - CollectionsOn(d).net = Net(On(voided, {d}))
         /\ Sum(DailySubtotals(d)) = CollectionsOn(d).net + 2 * CollectionsOn(d).refunded
         /\ Sum(DailyCollections(d)) = CollectionsOn(d).collected + Amounts(On(voided, {d}), {"payment"})
<1> DEFINE later == {x \in Day : x >= d}  sooner == {x \in Day : x < d}
           on(rows) == On(rows, {d})
<1>1. /\ Live \in SUBSET Rows /\ voided \in SUBSET Rows /\ Rows \ Live = voided
      /\ \A p \in Rows : DayOf[p] \in Day
      /\ Day \subseteq Nat
  BY RowsKept, StatementsAssumption
<1>2. later \in SUBSET Day /\ sooner \in SUBSET Day
  OBVIOUS
<1>3. RevenueMetrics(d).total = Net(On(Rows, later))
  <2>1. RevenueMetrics(d).total = Sum([x \in later |-> Net(On(Rows, {x}))])
    BY DEF RevenueMetrics, RevenueByDate
  <2> HIDE DEF later
  <2> QED BY <1>2, <2>1, ByDay
<1>4. RevenueMetrics(d).previous = Net(On(Rows, sooner))
  <2>1. RevenueMetrics(d).previous = Sum([x \in sooner |-> Net(On(Rows, {x}))])
    BY DEF RevenueMetrics, RevenueByDate
  <2> HIDE DEF sooner
  <2> QED BY <1>2, <2>1, ByDay
<1>5. On(Rows, later) \in SUBSET Rows /\ Rows \ On(Rows, later) = On(Rows, sooner)
  <2>1. \A p \in Rows : DayOf[p] \in later <=> DayOf[p] \notin sooner
    <3>1. \A x \in Day : x >= d <=> ~ (x < d)
      <4>1. \A x, y \in Nat : x >= y <=> ~ (x < y)
        OBVIOUS
      <4> QED BY <1>1, <4>1
    <3>2. \A x \in Day : x \in later <=> x \notin sooner
      BY <3>1
    <3> QED BY <1>1, <3>2
  <2> HIDE DEF later, sooner
  <2> QED BY <2>1 DEF On
<1>6. Net(On(Rows, later)) + Net(On(Rows, sooner)) = Net(Rows)
  BY <1>5, AmountsApart
<1>7. Net(On(Rows, later)) \in Int /\ Net(On(Rows, sooner)) \in Int
  <2>1. On(Rows, sooner) \in SUBSET Rows
    BY DEF On
  <2> QED BY <1>5, <2>1, NetIs
<1>8. /\ on(Rows) \in SUBSET Rows /\ on(Live) \in SUBSET on(Rows) /\ on(Live) \in SUBSET Rows
      /\ on(Rows) \ on(Live) = on(voided) /\ on(voided) \in SUBSET Rows
  BY <1>1 DEF On
<1>9. /\ Net(on(Rows)) = Net(on(Live)) + Net(on(voided))
      /\ Amounts(on(Rows), {"payment"}) = Amounts(on(Live), {"payment"}) + Amounts(on(voided), {"payment"})
      /\ Net(on(Live)) \in Int /\ Net(on(voided)) \in Int
  <2> HIDE DEF on
  <2>1. /\ \A ks : Amounts(on(Rows), ks) = Amounts(on(Live), ks) + Amounts(on(Rows) \ on(Live), ks)
        /\ Net(on(Rows)) = Net(on(Live)) + Net(on(Rows) \ on(Live))
    BY <1>8, AmountsApart
  <2>2. Net(on(Live)) \in Int /\ Net(on(voided)) \in Int
    BY <1>8, NetIs
  <2> QED BY <1>8, <2>1, <2>2
<1>10. DailyRevenue(d) - CollectionsOn(d).net = Net(on(voided))
  <2>1. DailyRevenue(d) = Net(on(Rows)) /\ CollectionsOn(d).net = Net(on(Live))
    BY DEF DailyRevenue, CollectionsOn
  <2> HIDE DEF on
  <2> QED BY <1>9, <2>1
<1>11. Sum(DailySubtotals(d)) = CollectionsOn(d).net + 2 * CollectionsOn(d).refunded
  <2>1. Sum(DailySubtotals(d)) = Amounts(on(Live), {"payment", "refund"})
    <3>1. DailySubtotals(d) = [t \in Types |-> Amounts({p \in on(Live) : Type(p) = t}, {"payment", "refund"})]
      BY DEF DailySubtotals
    <3> HIDE DEF on
    <3> QED BY <1>8, <3>1, ByType
  <2>2. CollectionsOn(d).net = Net(on(Live)) /\ CollectionsOn(d).refunded = Amounts(on(Live), {"refund"})
    BY DEF CollectionsOn
  <2> HIDE DEF on
  <2>3. /\ Net(on(Live)) = Amounts(on(Live), {"payment"}) - Amounts(on(Live), {"refund"})
        /\ Amounts(on(Live), {"payment", "refund"}) = Amounts(on(Live), {"payment"}) + Amounts(on(Live), {"refund"})
    BY <1>8, NetIs
  <2>4. Amounts(on(Live), {"payment"}) \in Nat /\ Amounts(on(Live), {"refund"}) \in Nat
    BY <1>8, AmountsAre
  <2> QED BY <2>1, <2>2, <2>3, <2>4
<1>12. Sum(DailyCollections(d)) = CollectionsOn(d).collected + Amounts(on(voided), {"payment"})
  <2>1. Sum(DailyCollections(d)) = Amounts(on(Rows), {"payment"})
    <3>1. DailyCollections(d) = [c \in Method |-> Amounts({p \in on(Rows) : MethodOf[p] = c}, {"payment"})]
      BY DEF DailyCollections
    <3> HIDE DEF on
    <3> QED BY <1>8, <3>1, ByMethod
  <2>2. CollectionsOn(d).collected = Amounts(on(Live), {"payment"})
    BY DEF CollectionsOn
  <2> HIDE DEF on
  <2> QED BY <1>9, <2>1, <2>2
<1> QED BY <1>3, <1>4, <1>6, <1>7, <1>10, <1>11, <1>12

(* Reports and dashboard tell the net of the rows that are not voided.     *)
LEMMA WeeklyIs ==
  ASSUME Ledger
  PROVE  /\ WeeklyReport(Day).revenue = Net(Live) /\ Summary.revenue = Net(Live)
         /\ MonthlyReport(Day).revenue = Net(Live) /\ MonthlyRevenue(Day).net = Net(Live)
         /\ MonthlyRevenue(Day).refunded = Amounts(Live, {"refund"})
         /\ RevenueAllTime = Amounts(Live, {"payment"}) /\ RevenueAllTime \in Nat
         /\ RevenueAllTime - MonthlyRevenue(Day).refunded = Net(Live)
         /\ WeeklyReport(Day).groups
              = [l \in Level |-> Amounts({p \in Live : payments[p].account \in l \cap Enrolled}, {"payment"})]
         /\ WeeklyReport(Day).groups = CourseMatrix(Day)
         /\ Sum(WeeklyReport(Day).groups) = RevenueByType(Day)["course_level"]
<1>1. /\ Live \in SUBSET Rows /\ On(Live, Day) = Live /\ On(Rows, Day) = Rows
      /\ \A p \in Rows : payments[p].account \in Enrolled => p \in Live
  BY RowsKept
<1> DEFINE groups == [l \in Level |-> Amounts({p \in Live : payments[p].account \in l \cap Enrolled}, {"payment"})]
<1>2. WeeklyReport(Day).groups = groups
  BY <1>1 DEF WeeklyReport
<1>3. CourseMatrix(Day) = groups
  <2>1. \A l : {p \in Live : payments[p].account \in l \cap Enrolled}
                 = {p \in On(Rows, Day) : payments[p].account \in l \cap Enrolled}
    BY <1>1
  <2> QED BY <2>1 DEF CourseMatrix
<1>4. Sum(groups) = RevenueByType(Day)["course_level"]
  <2>1. Sum(groups) = Amounts({p \in Live : payments[p].account \in (UNION Level) \cap Enrolled}, {"payment"})
    BY <1>1, ByLevel
  <2> HIDE DEF groups
  <2> QED BY <2>1, CoursesAre
<1>5. RevenueAllTime - MonthlyRevenue(Day).refunded = Net(Live)
  BY <1>1 DEF RevenueAllTime, MonthlyRevenue, Net
<1>6. RevenueAllTime = Amounts(Live, {"payment"}) /\ RevenueAllTime \in Nat
  BY <1>1, AmountsAre DEF RevenueAllTime
<1>7. /\ WeeklyReport(Day).revenue = Net(Live) /\ Summary.revenue = Net(Live)
      /\ MonthlyReport(Day).revenue = Net(Live) /\ MonthlyRevenue(Day).net = Net(Live)
      /\ MonthlyRevenue(Day).refunded = Amounts(Live, {"refund"})
  BY <1>1 DEF WeeklyReport, Summary, MonthlyReport, MonthlyRevenue
<1> HIDE DEF groups
<1>8. WeeklyReport(Day).groups = CourseMatrix(Day)
  BY <1>2, <1>3
<1>9. Sum(WeeklyReport(Day).groups) = RevenueByType(Day)["course_level"]
  BY <1>2, <1>4
<1> QED BY <1>2, <1>5, <1>6, <1>7, <1>8, <1>9 DEF groups

(* The takings, however they are split, are the same. *)
LEMMA TakingsAreOne ==
  ASSUME Ledger
  PROVE  TakingsAgree
<1> DEFINE late == {p \in Live : payments[p].account \in gone}
           kept == {p \in Rows : payments[p].account \in Account \ gone}
<1>1. /\ Live \in SUBSET Rows /\ On(Live, Day) = Live /\ On(Rows, Day) = Rows
      /\ \A p \in Rows : payments[p].account \in Account
      /\ \A p \in late : payments[p].kind = "refund"
  BY RowsKept
<1>2. Sum([a \in Account |-> received[a] - returned[a]]) = Net(Rows)
  <2>1. {p \in Rows : payments[p].account \in Account} = Rows
    BY <1>1
  <2> QED BY <2>1, ByAccount
<1>3. Sum(RevenueByDate(Day)) = Net(Rows)
  BY <1>1, ByDay DEF RevenueByDate
<1>4. Sum(RevenueByMethod(Day)) = Net(Rows)
  BY <1>1, ByMethod DEF RevenueByMethod
<1>5. Sum([d \in Day |-> CollectionsOn(d).net]) = Net(Live)
  <2>1. [d \in Day |-> CollectionsOn(d).net] = [d \in Day |-> Net(On(Live, {d}))]
    BY DEF CollectionsOn
  <2>2. Sum([d \in Day |-> Net(On(Live, {d}))]) = Net(Live)
    BY <1>1, ByDay
  <2> QED BY <2>1, <2>2
<1>6. Sum(MethodMix(Day)) = RevenueAllTime
  BY <1>1, ByMethod, WeeklyIs DEF MethodMix
<1>7. Sum(RevenueByType(Day)) = RevenueAllTime
  BY <1>1, ByType, WeeklyIs DEF RevenueByType
<1>8. Net(Live) = Sum([a \in Account \ gone |-> received[a] - returned[a]]) + Net(late)
  <2>1. Account \ gone \in SUBSET Account
    OBVIOUS
  <2>2. Sum([a \in Account \ gone |-> received[a] - returned[a]]) = Net(kept)
    BY <2>1, ByAccount
  <2>3. late \in SUBSET Live /\ Live \ late = kept
    BY <1>1 DEF Ledger, VoidedAreGone, Live, Rows
  <2>4. Net(Live) = Net(late) + Net(Live \ late)
    BY <1>1, <2>3, AmountsApart
  <2>5. late \in SUBSET Rows /\ kept \in SUBSET Rows
    BY <1>1
  <2>6. Net(late) \in Int /\ Net(kept) \in Int
    BY <2>5, NetIs
  <2> HIDE DEF late, kept
  <2>7. Net(Live) = Net(late) + Net(kept)
    BY <2>3, <2>4
  <2>8. Net(Live) = Net(kept) + Net(late)
    BY <2>6, <2>7
  <2> QED BY <2>2, <2>8
<1>9. \A d \in Day :
        /\ RevenueMetrics(d).total + RevenueMetrics(d).previous = Net(Rows)
        /\ DailyRevenue(d) - CollectionsOn(d).net = Net(On(voided, {d}))
        /\ Sum(DailySubtotals(d)) = CollectionsOn(d).net + 2 * CollectionsOn(d).refunded
        /\ Sum(DailyCollections(d)) = CollectionsOn(d).collected + Amounts(On(voided, {d}), {"payment"})
  BY DaysAre
<1> QED BY <1>1, <1>2, <1>3, <1>4, <1>5, <1>6, <1>7, <1>8, <1>9, WeeklyIs DEF TakingsAgree

(***************************************************************************)
(* Single rows.                                                            *)
(***************************************************************************)
LEMMA RowIs ==
  ASSUME Books, NEW p \in Rows
  PROVE  /\ p \in PaymentId /\ payments[p].account \in Account
         /\ payments[p].kind \in {"payment", "refund"}
         /\ payments[p].amount \in Nat /\ payments[p].amount > 0
         /\ StudentOfRow(p) \in Student /\ DayOf[p] \in Day
<1>1. payments \in Seq(Row)
  BY DEF Books, Typed
<1>2. payments[p] \in Row
  BY <1>1, ElementOfSeq, LenProperties DEF Rows
<1>3. payments[p].amount \in Nat /\ payments[p].amount > 0
  <2>1. payments[p].amount \in Amount
    BY <1>2 DEF Row
  <2>2. payments[p].amount \in Nat /\ payments[p].amount # 0
    BY <2>1, ConstantsAssumption
  <2> HIDE DEF Rows
  <2> QED BY <2>2
<1>4. p \in PaymentId /\ payments[p].account \in Account /\ payments[p].kind \in {"payment", "refund"}
  BY BooksAreLedger DEF Ledger
<1>5. StudentOfRow(p) \in Student
  BY <1>4, StatementsAssumption DEF StudentOfRow
<1>6. DayOf[p] \in Day
  BY BooksAreLedger, RowsKept
<1> QED BY <1>3, <1>4, <1>5, <1>6

(* The totals of one row. *)
LEMMA OneRow ==
  ASSUME Books, NEW p \in Rows
  PROVE  /\ \A ks : Amounts({p}, ks) = IF payments[p].kind \in ks THEN payments[p].amount ELSE 0
         /\ TextTotal(p) = payments[p].amount
         /\ ReceiptTotal(p) = IF payments[p].kind = "payment" THEN payments[p].amount
                              ELSE - payments[p].amount
<1> DEFINE n == payments[p].amount
<1>1. n \in Nat /\ n \in Int /\ payments[p].kind \in {"payment", "refund"}
  BY RowIs
<1>2. ASSUME NEW ks
      PROVE  Amounts({p}, ks) = IF payments[p].kind \in ks THEN n ELSE 0
  <2>1. CASE payments[p].kind \in ks
    <3>1. {q \in {p} : payments[q].kind \in ks} = {p}
      BY <2>1
    <3>2. Amounts({p}, ks) = Sum([q \in {p} |-> n])
      BY <3>1 DEF Amounts
    <3> HIDE DEF n
    <3>3. Sum([q \in {p} |-> n]) = n
      BY <1>1, SumOfOne
    <3> QED BY <2>1, <3>2, <3>3
  <2>2. CASE payments[p].kind \notin ks
    <3>1. Amounts({p}, ks) = 0
      BY <2>2, OtherKinds
    <3> QED BY <2>2, <3>1
  <2> QED BY <2>1, <2>2
<1> HIDE DEF n
<1>3. TextTotal(p) = n
  BY <1>1, <1>2 DEF TextTotal
<1>4. ReceiptTotal(p) = IF payments[p].kind = "payment" THEN n ELSE - n
  <2>1. /\ Amounts({p}, {"payment"}) = IF payments[p].kind = "payment" THEN n ELSE 0
        /\ Amounts({p}, {"refund"}) = IF payments[p].kind = "refund" THEN n ELSE 0
    BY <1>2
  <2> QED BY <1>1, <2>1 DEF ReceiptTotal, Net
<1> QED BY <1>2, <1>3, <1>4 DEF n

(* Whom a row is about. *)
LEMMA WhoseRow ==
  ASSUME Books, NEW p \in Rows
  PROVE  /\ payments[p].account \in Enrolled =>
              /\ EnrollmentOf(p) = payments[p].account /\ EnrollmentOf(p) # Nothing
              /\ payments[p].account \notin gone
         /\ payments[p].account \in Member =>
              EnrollmentOf(p) = Nothing /\ Type(p) = "competition" /\ payments[p].account \notin gone
         /\ payments[p].account \in gone => EnrollmentOf(p) = Nothing /\ Type(p) = "course_level"
         /\ payments[p].account \in Enrolled \cup Member \cup gone
<1>1. /\ Enrollment \cap Member = {} /\ gone \subseteq Enrollment /\ "none" \notin Account
      /\ payments[p].account \in Account /\ Enrollment \subseteq Account
  BY BooksAreLedger, RowIs, NumbersAre, PagesAssumption DEF Ledger
<1> QED BY <1>1 DEF EnrollmentOf, Type, Nothing, Enrolled, Account

(***************************************************************************)
(* The papers.                                                             *)
(***************************************************************************)
LEMMA DayAddsUp ==
  ASSUME Books, NEW d \in Day
  PROVE  Sum(DailyReceipts(d)) = DailyRevenue(d)
<1> DEFINE rows == On(Rows, {d})  v == [p \in rows |-> p]
<1>1. Ledger
  BY BooksAreLedger
<1>2. rows \in SUBSET Rows /\ v \in [rows -> rows]
  BY DEF On
<1>3. \A p \in rows : {q \in rows : v[q] = p} = {p}
  OBVIOUS
<1> HIDE DEF rows, v
<1>4. [p \in rows |-> Net({q \in rows : v[q] = p})] = [p \in rows |-> ReceiptTotal(p)]
  BY <1>3 DEF ReceiptTotal
<1>5. IsFiniteSet(rows)
  BY <1>1, <1>2, RowsFinite
<1>6. Sum([p \in rows |-> Net({q \in rows : v[q] = p})]) = Net(rows)
  BY <1>1, <1>2, <1>5, NetByValue
<1> QED BY <1>4, <1>6 DEF DailyReceipts, DailyRevenue, rows

(* What the papers of a row say. *)
LEMMA PaperIs ==
  ASSUME Books, NEW p \in Rows
  PROVE  /\ TextTotal(p) = Pdf(p).subtotal
         /\ payments[p].kind = "payment" <=> Pdf(p).subtotal = Pdf(p).total
         /\ ~ PdfLine(p).partial
         /\ Description(p) = "payment" <=> payments[p].account \in gone
         /\ LET paper == StandardPaper(p) IN
            /\ \A n \in paper.left : 0 < n /\ n <= TopDebtors[StudentOfRow(p)]
            /\ <<paper.total, paper.left>> = <<DetailedPaper(p).total, DetailedPaper(p).left>>
            /\ DetailedPaper(p).item.net = paper.line.amount
<1> DEFINE a == payments[p].amount
<1>1. a \in Nat /\ a > 0 /\ StudentOfRow(p) \in Student
  BY RowIs
<1>2. Pdf(p).subtotal = a
  <2>1. Pdf(p).subtotal = Sum([q \in {p} |-> PdfLine(q).amount])
    BY DEF Pdf, ReceiptDetail
  <2>2. [q \in {p} |-> PdfLine(q).amount] = [q \in {p} |-> a]
    BY DEF PdfLine
  <2> HIDE DEF a
  <2>3. a \in Int
    BY <1>1
  <2>4. Sum([q \in {p} |-> a]) = a
    BY <2>3, SumOfOne
  <2> QED BY <2>1, <2>2, <2>4
<1>3. Pdf(p).total = ReceiptTotal(p)
  BY DEF Pdf, ReceiptDetail
<1>4. TextTotal(p) = a /\ ReceiptTotal(p) = IF payments[p].kind = "payment" THEN a ELSE - a
  BY OneRow
<1>5. payments[p].kind = "payment" <=> Pdf(p).subtotal = Pdf(p).total
  <2> HIDE DEF a
  <2> QED BY <1>1, <1>2, <1>3, <1>4
<1>6. ~ PdfLine(p).partial
  <2>1. \A e : PaymentStatus(e) \notin {"partial", "unpaid"}
    BY DEF PaymentStatus
  <2> QED BY <2>1 DEF PdfLine
<1>7. Description(p) = "payment" <=> payments[p].account \in gone
  BY WhoseRow DEF Description
<1>8. \A n \in StandardPaper(p).left : 0 < n /\ n <= TopDebtors[StudentOfRow(p)]
  <2> DEFINE s == StudentOfRow(p)
  <2>1. BalanceRemaining(s) \in Nat /\ BalanceRemaining(s) <= TopDebtors[s]
    BY <1>1, BooksAreLedger, RemainingIs
  <2>2. StandardPaper(p).left = {BalanceRemaining(s)} \ {0}
    BY DEF StandardPaper, Note
  <2> HIDE DEF s
  <2>3. \A n \in StandardPaper(p).left : 0 < n /\ n <= TopDebtors[s]
    BY <2>1, <2>2
  <2> QED BY <2>3 DEF s
<1>9. /\ <<StandardPaper(p).total, StandardPaper(p).left>>
           = <<DetailedPaper(p).total, DetailedPaper(p).left>>
      /\ DetailedPaper(p).item.net = StandardPaper(p).line.amount
  BY DEF StandardPaper, DetailedPaper
<1> HIDE DEF a
<1> QED BY <1>2, <1>4, <1>5, <1>6, <1>7, <1>8, <1>9

(* The papers of a row agree with the row and with each other. *)
LEMMA PapersAreOne ==
  ASSUME Books
  PROVE  PapersAgree
<1>1. {p \in PaymentId : BatchReceipts(PaymentId)[p].success} = Rows
  <2>1. \A p \in PaymentId : BatchReceipts(PaymentId)[p].success <=> p \in Rows
    BY DEF BatchReceipts
  <2>2. Rows \subseteq PaymentId
    BY BooksAreLedger DEF Ledger
  <2> QED BY <2>1, <2>2
<1>2. UNION {DOMAIN DailyReceipts(d) : d \in Day} = Rows
  <2>1. \A d \in Day : DOMAIN DailyReceipts(d) = On(Rows, {d})
    BY DEF DailyReceipts
  <2>2. \A p \in Rows : DayOf[p] \in Day
    BY RowIs
  <2> QED BY <2>1, <2>2 DEF On
<1> QED BY <1>1, <1>2, DayAddsUp, PaperIs DEF PapersAgree

(***************************************************************************)
(* The payments that are found.                                            *)
(***************************************************************************)
LEMMA FoundIs ==
  ASSUME Books, NEW s \in Student
  PROVE  LET found == UNION {SearchReceipts(d, d, s) : d \in Day}
             shown == StudentPayments(s).rows IN
         /\ found = {p \in Rows : StudentOfRow(p) = s}
         /\ shown = {p \in Live : StudentOfRow(p) = s}
         /\ \A d, c \in Day : SearchReceipts(d, c, s) \subseteq found
<1> DEFINE found == UNION {SearchReceipts(d, d, s) : d \in Day}
           all   == {p \in Rows : StudentOfRow(p) = s}
<1>1. Day \subseteq Nat
  BY StatementsAssumption
<1>2. \A d \in Day : SearchReceipts(d, d, s) = {p \in Rows : DayOf[p] = d /\ StudentOfRow(p) = s}
  <2> SUFFICES ASSUME NEW d \in Day
               PROVE  SearchReceipts(d, d, s) = {p \in Rows : DayOf[p] = d /\ StudentOfRow(p) = s}
    OBVIOUS
  <2>1. d \in Nat /\ ~ (d < d)
    BY <1>1
  <2>2. \A x : x \in d .. d <=> x = d
    BY <2>1
  <2> QED BY <2>1, <2>2 DEF SearchReceipts, On
<1>3. \A p \in Rows : DayOf[p] \in Day
  BY RowIs
<1>4. found = all
  BY <1>2, <1>3
<1>5. \A d, c \in Day : SearchReceipts(d, c, s) \subseteq all
  BY DEF SearchReceipts, On
<1>6. StudentPayments(s).rows = {p \in Live : StudentOfRow(p) = s}
  BY DEF StudentPayments
<1> QED BY <1>4, <1>5, <1>6

(* The payments of a group are the rows of its enrollments. *)
LEMMA GroupPaymentsAre ==
  ASSUME Books, NEW l \in Level
  PROVE  /\ GroupPayments(l) = {p \in Live : payments[p].account \in l \cap Enrolled}
         /\ \A p \in Live : EnrollmentOf(p) \in l <=> payments[p].account \in l \cap Enrolled
<1>1. "none" \notin l /\ Live \subseteq Rows
  BY NumbersAre, PagesAssumption DEF Live
<1>2. \A p \in Live : EnrollmentOf(p) \in l <=> payments[p].account \in l \cap Enrolled
  BY <1>1 DEF EnrollmentOf, Nothing
<1> QED BY <1>2 DEF GroupPayments

(* Every row that is not voided is found on exactly its pages. *)
LEMMA PaymentsAreFound ==
  ASSUME Books
  PROVE  PaymentsFound
<1>1. \A p : PaymentDetails(p).found <=> p \in Live
  BY DEF PaymentDetails
<1>2. /\ Live \subseteq Rows
      /\ \A p \in Rows : p \notin Live => payments[p].account \in gone
      /\ \A p \in Live : payments[p].account \in gone => payments[p].kind = "refund"
  BY BooksAreLedger, RowsKept DEF Ledger, VoidedAreGone, Live, Rows
<1>3. ASSUME NEW s \in Student
      PROVE  LET found == UNION {SearchReceipts(d, d, s) : d \in Day}
                 shown == StudentPayments(s).rows IN
             /\ \A d, c \in Day : SearchReceipts(d, c, s) \subseteq found
             /\ shown = {p \in found : PaymentDetails(p).found}
             /\ \A p \in found \ shown : payments[p].account \in gone
             /\ \A p \in shown :
                  \/ \E l \in Level : p \in GroupPayments(l) /\ PaymentDetails(p).enrollment \in l
                  \/ Description(p) = "competition fee"
                  \/ p \in Orphaned /\ payments[p].kind = "refund"
  <2> DEFINE found == UNION {SearchReceipts(d, d, s) : d \in Day}
             shown == StudentPayments(s).rows
  <2>1. /\ found = {p \in Rows : StudentOfRow(p) = s} /\ shown = {p \in Live : StudentOfRow(p) = s}
        /\ \A d, c \in Day : SearchReceipts(d, c, s) \subseteq found
    BY FoundIs
  <2> HIDE DEF found, shown
  <2>2. shown = {p \in found : PaymentDetails(p).found}
    BY <1>1, <1>2, <2>1
  <2>3. \A p \in found \ shown : payments[p].account \in gone
    BY <1>2, <2>1
  <2>4. ASSUME NEW p \in shown
        PROVE  \/ \E l \in Level : p \in GroupPayments(l) /\ PaymentDetails(p).enrollment \in l
               \/ Description(p) = "competition fee"
               \/ p \in Orphaned /\ payments[p].kind = "refund"
    <3>1. p \in Live /\ p \in Rows
      BY <1>2, <2>1
    <3>2. CASE payments[p].account \in Enrolled
      <4>1. PICK l \in Level : payments[p].account \in l
        BY <3>2, StatementsAssumption DEF Enrolled
      <4>2. EnrollmentOf(p) = payments[p].account
        BY <3>1, <3>2, WhoseRow
      <4>3. PaymentDetails(p).enrollment = EnrollmentOf(p)
        BY <3>1 DEF PaymentDetails
      <4>4. p \in GroupPayments(l)
        BY <3>1, <4>1, <4>2 DEF GroupPayments
      <4> QED BY <4>1, <4>2, <4>3, <4>4
    <3>3. CASE payments[p].account \in Member
      BY <3>1, <3>3, WhoseRow DEF Description
    <3>4. CASE payments[p].account \in gone
      BY <1>2, <3>1, <3>4, WhoseRow DEF Orphaned
    <3> QED BY <3>1, <3>2, <3>3, <3>4, WhoseRow
  <2> QED BY <2>1, <2>2, <2>3, <2>4 DEF found, shown
<1>4. ASSUME NEW p \in PaymentId, NEW method \in {"whatsapp", "email", "sms"}, NEW par \in BOOLEAN,
             NEW ph \in BOOLEAN, p \in Rows
      PROVE  /\ SendReceipt(p, par, ph, method).success => SendReceipt(p, par, ph, method).queued
             /\ SendReceipt(p, par, ph, method).queued <=> p \in Live /\ par
             /\ SendAnswer(p, par, ph, method).code = PaymentAnswer(p).code
  <2> DEFINE sent == SendReceipt(p, par, ph, method)
  <2>1. /\ sent.found <=> p \in Live
        /\ sent.queued <=> p \in Live /\ par
        /\ sent.success => p \in Live /\ par
    BY <1>1 DEF SendReceipt
  <2>2. SendAnswer(p, par, ph, method).code = IF sent.found THEN 200 ELSE 404
    <3> HIDE DEF sent
    <3>1. SendAnswer(p, par, ph, method) =
            IF sent.found THEN [code |-> 200, success |-> sent.success] ELSE [code |-> 404]
      BY DEF SendAnswer, sent
    <3> QED BY <3>1
  <2>3. PaymentAnswer(p).code = IF p \in Live THEN 200 ELSE 404
    BY <1>1 DEF PaymentAnswer
  <2> HIDE DEF sent
  <2>4. SendAnswer(p, par, ph, method).code = PaymentAnswer(p).code
    BY <2>1, <2>2, <2>3
  <2>5. sent.success => sent.queued
    BY <2>1
  <2> QED BY <2>1, <2>4, <2>5 DEF sent
<1>5. ASSUME NEW l \in Level PROVE PaymentsTab(l).collected = Net(GroupPayments(l))
  BY GroupPaymentsAre DEF PaymentsTab
<1> QED BY <1>3, <1>4, <1>5 DEF PaymentsFound

(***************************************************************************)
(* The assessments.                                                        *)
(***************************************************************************)
LEMMA BalanceTold ==
  \A e : /\ EnrollmentBalance(e).paid = Net(RowsOf(e)) /\ EnrollmentBalance(e).balance = Balance(e)
BY DEF EnrollmentBalance

(* The page of unpaid enrollments adds up to their debt. *)
LEMMA PageIs ==
  ASSUME Books, NEW l \in Level
  PROVE  Sum([e \in UnpaidPage(l).items |-> UnpaidPage(l).remaining[e]])
           = Debt(l \cap Having({"active"}))
<1> DEFINE items == UnpaidEnrollments \cap l
<1>1. Ledger
  BY BooksAreLedger
<1>2. UnpaidEnrollments = {e \in Having({"active"}) : Balance(e) < 0}
  BY <1>1, OneList
<1>3. UnpaidPage(l).items = items
      /\ UnpaidPage(l).remaining = [e \in items |-> Positive(netDue[e] - Net(RowsOf(e)))]
  BY BalanceTold DEF UnpaidPage
<1>4. items = {x \in l \cap Having({"active"}) : Balance(x) < 0}
  BY <1>2
<1>5. \A e \in items : Positive(netDue[e] - Net(RowsOf(e))) = - Balance(e)
  <2> SUFFICES ASSUME NEW e \in items PROVE Positive(netDue[e] - Net(RowsOf(e))) = - Balance(e)
    OBVIOUS
  <2>1. e \in Enrolled /\ Balance(e) < 0
    BY <1>2 DEF Having
  <2>2. /\ Net(RowsOf(e)) = received[e] - returned[e] /\ netDue[e] \in Int
        /\ received[e] \in Nat /\ returned[e] \in Nat
        /\ Balance(e) = received[e] - returned[e] - netDue[e] /\ Balance(e) \in Int
    BY <1>1, <2>1, AccountIs
  <2> QED BY <2>1, <2>2 DEF Positive
<1> HIDE DEF items
<1>6. [e \in UnpaidPage(l).items |-> UnpaidPage(l).remaining[e]] = [e \in items |-> - Balance(e)]
  BY <1>3, <1>5
<1> QED BY <1>4, <1>6 DEF Debt

(* A sequence without members is the empty one. *)
LEMMA NoRows ==
  ASSUME NEW f, DOMAIN f = {}, f = [x \in DOMAIN f |-> f[x]]
  PROVE  f = <<>>
<1>1. <<>> \in Seq({}) /\ Len(<<>>) = 0
  OBVIOUS
<1>2. DOMAIN <<>> = 1 .. 0
  BY <1>1, LenProperties
<1>3. 1 .. 0 = {}
  OBVIOUS
<1>4. <<>> = [x \in {} |-> f[x]]
  BY <1>2, <1>3
<1> QED BY <1>4

(* The lines at risk are those that overpay, with the excess that a commit *)
(* adds.                                                                   *)
LEMMA RiskIs ==
  ASSUME Books, NEW lines \in Receipts
  PROVE  /\ Risk(lines) = <<>> <=> \A i \in DOMAIN lines :
              lines[i].account \in gone \/ ~ Overpays(lines[i])
         /\ \A i \in DOMAIN Risk(lines) :
              LET e == lines[i].account IN
              Risk(lines)[i].excess = Positive(Balance(e) + lines[i].amount) - Positive(Balance(e))
<1> DEFINE D == {j \in DOMAIN lines : /\ lines[j].account \in Enrolled
                                      /\ Balance(lines[j].account) + lines[j].amount > 0}
           debt(i) == Positive(- Balance(lines[i].account))
           risk == [i \in D |-> [debt |-> debt(i), projected |-> Balance(lines[i].account) + lines[i].amount,
                                 excess |-> Positive(lines[i].amount - debt(i))]]
<1>1. lines \in Seq(Line)
  BY ConstantsAssumption
<1>2. \A i \in DOMAIN lines : lines[i].account \in Account /\ lines[i].amount \in Amount
  <2>1. \A i \in DOMAIN lines : lines[i] \in Line
    BY <1>1, ElementOfSeq, LenProperties
  <2> QED BY <2>1 DEF Line
<1>3. \A n \in Amount : n \in Nat /\ n # 0
  BY ConstantsAssumption
<1>4. Risk(lines) = risk
  BY BalanceTold DEF Risk
<1>5. DOMAIN risk = D /\ risk = [x \in DOMAIN risk |-> risk[x]]
  OBVIOUS
<1>6. \A i \in DOMAIN lines :
        i \in D <=> ~ (lines[i].account \in gone \/ ~ Overpays(lines[i]))
  <2>1. gone \subseteq Enrollment
    BY BooksAreLedger DEF Ledger
  <2> QED BY <2>1 DEF Overpays, Enrolled
<1>7. ASSUME NEW i \in D
      PROVE  risk[i].excess = Positive(Balance(lines[i].account) + lines[i].amount)
                                - Positive(Balance(lines[i].account))
  <2> DEFINE b == Balance(lines[i].account)  n == lines[i].amount
  <2>1. risk[i].excess = Positive(n - Positive(- b))
    OBVIOUS
  <2>2. b + n > 0 /\ n \in Nat /\ lines[i].account \in Enrolled
    BY <1>2, <1>3
  <2>3. b \in Int
    BY <2>2, BooksAreLedger, AccountIs
  <2> HIDE DEF b, n, risk
  <2>4. Positive(n - Positive(- b)) = Positive(b + n) - Positive(b)
    BY <2>2, <2>3 DEF Positive
  <2> QED BY <2>1, <2>4 DEF b, n
<1> HIDE DEF D, risk, debt
<1>8. D = {} <=> \A i \in DOMAIN lines : lines[i].account \in gone \/ ~ Overpays(lines[i])
  <2>1. D \subseteq DOMAIN lines
    BY DEF D
  <2> QED BY <1>6, <2>1
<1>9. D = {} <=> risk = <<>>
  <2>1. D = {} => risk = <<>>
    BY <1>5, NoRows
  <2>2. DOMAIN <<>> = {}
    <3>1. <<>> \in Seq({}) /\ Len(<<>>) = 0 /\ 1 .. 0 = {}
      OBVIOUS
    <3> QED BY <3>1, LenProperties
  <2>3. risk = <<>> => D = {}
    BY <1>5, <2>2
  <2> QED BY <2>1, <2>3
<1> QED BY <1>4, <1>5, <1>7, <1>8, <1>9

(* The unpaid fees are not less than what the fees are short of.           *)
LEMMA FeesAdd ==
  ASSUME Books, NEW s \in Student
  PROVE  DOMAIN UnpaidFees(s) = FeesUnpaid(s) /\ Sum(UnpaidFees(s)) >= - FeesBalance(s)
<1> DEFINE M == Memberships(s)
           f == [m \in M |-> amountPaid[m] - FeeDue[m]]
           g == [m \in M |-> FeeDue[m] - amountPaid[m]]
           h == [m \in M |-> Positive(FeeDue[m] - amountPaid[m])]
           U == {n \in M : FeeDue[n] > amountPaid[n]}
<1>1. M \subseteq Member
  BY DEF Memberships
<1>2. IsFiniteSet(M)
  BY <1>1, NumbersAre, FS_Subset
<1>3. \A m \in M : amountPaid[m] \in Int /\ FeeDue[m] \in Nat
  BY <1>1, BooksAreLedger, StatementsAssumption DEF Ledger
<1>4. \A m \in M : /\ f[m] \in Int /\ g[m] \in Int /\ h[m] \in Int /\ g[m] = - f[m] /\ g[m] <= h[m]
                   /\ m \notin U => h[m] = 0
  <2> SUFFICES ASSUME NEW m \in M
               PROVE  /\ f[m] \in Int /\ g[m] \in Int /\ h[m] \in Int /\ g[m] = - f[m] /\ g[m] <= h[m]
                      /\ m \notin U => h[m] = 0
    OBVIOUS
  <2>1. amountPaid[m] \in Int /\ FeeDue[m] \in Int
    BY <1>3
  <2>2. f[m] = amountPaid[m] - FeeDue[m] /\ g[m] = FeeDue[m] - amountPaid[m]
        /\ h[m] = Positive(FeeDue[m] - amountPaid[m]) /\ (m \in U <=> FeeDue[m] > amountPaid[m])
    OBVIOUS
  <2> HIDE DEF f, g, h, U
  <2> QED BY <2>1, <2>2 DEF Positive
<1>5. f \in [M -> Int] /\ g \in [M -> Int] /\ h \in [M -> Int] /\ U \in SUBSET M
  BY <1>4
<1>6. [m \in U |-> h[m]] = UnpaidFees(s)
  BY DEF UnpaidFees
<1>7. DOMAIN UnpaidFees(s) = FeesUnpaid(s)
  BY DEF UnpaidFees, FeesUnpaid
<1>8. FeesBalance(s) = Sum(f)
  BY DEF FeesBalance
<1> HIDE DEF M, f, g, h, U
<1>9. Sum(h) = Sum([m \in U |-> h[m]])
  BY <1>2, <1>4, <1>5, SumOfRest
<1>10. Sum(g) <= Sum(h) /\ Sum(g) = - Sum(f)
  BY <1>2, <1>4, <1>5, SumGrows, SumNegated
<1>11. Sum(f) \in Int /\ Sum(g) \in Int /\ Sum(h) \in Int
  BY <1>2, <1>5, SumType
<1> QED BY <1>6, <1>7, <1>8, <1>9, <1>10, <1>11

(* The answer about the balance of a student. *)
LEMMA AnswerIs ==
  ASSUME Books, NEW s \in Student
  PROVE  LET told == BalanceAnswer(s) IN
         /\ {e \in DOMAIN told.isPaid : ~ told.isPaid[e]} = UnpaidPage(Of(s)).items
         /\ told.net = FeesBalance(s) + Sum([e \in DOMAIN told.isPaid |-> StudentBalances(s)[e].balance])
<1> DEFINE es == Of(s) \cap Having({"active"})
<1>1. Ledger
  BY BooksAreLedger
<1>2. /\ DOMAIN StudentBalances(s) = es
      /\ \A e \in es : StudentBalances(s)[e].balance = Balance(e)
  BY BalanceTold DEF StudentBalances
<1>3. /\ BalanceAnswer(s).net = FinanceSummary(s).net
      /\ BalanceAnswer(s).isPaid
           = [e \in DOMAIN StudentBalances(s) |-> StudentBalances(s)[e].balance >= 0]
  BY DEF BalanceAnswer
<1>4. FinanceSummary(s).net = Sum([e \in es |-> Balance(e)]) + FeesBalance(s)
  BY DEF FinanceSummary
<1>5. es \in SUBSET Enrolled
  BY DEF Having
<1>6. \A e \in es : Balance(e) \in Int
  BY <1>1, <1>5, AccountIs
<1>7. UnpaidPage(Of(s)).items = {e \in es : Balance(e) < 0}
  BY <1>1, OneList DEF UnpaidPage
<1>8. Sum([e \in es |-> Balance(e)]) \in Int
  <2>1. Sum(Balances(es)) \in Int
    BY <1>1, <1>5, SumsOfAccounts
  <2> QED BY <2>1 DEF Balances
<1>9. FeesBalance(s) \in Int
  BY <1>1, FeesAreNumbers
<1> HIDE DEF es
<1>10. DOMAIN BalanceAnswer(s).isPaid = es
       /\ \A e \in es : BalanceAnswer(s).isPaid[e] <=> Balance(e) >= 0
  BY <1>2, <1>3
<1>11. {e \in DOMAIN BalanceAnswer(s).isPaid : ~ BalanceAnswer(s).isPaid[e]} = {e \in es : Balance(e) < 0}
  BY <1>6, <1>10
<1>12. [e \in DOMAIN BalanceAnswer(s).isPaid |-> StudentBalances(s)[e].balance] = [e \in es |-> Balance(e)]
  BY <1>2, <1>10
<1> QED BY <1>3, <1>4, <1>7, <1>8, <1>9, <1>11, <1>12

(* What is told before a payment and about a student is right. *)
LEMMA AssessmentsAreRight ==
  ASSUME Books
  PROVE  AssessmentsAgree
<1>1. Ledger
  BY BooksAreLedger
<1>2. UnpaidEnrollments = {e \in Having({"active"}) : Balance(e) < 0} /\ UnpaidEnrollments = Outstanding
  BY <1>1, OneList
<1>3. Having({"active"}) \subseteq Enrolled /\ Enrolled \subseteq Enrollment
  BY DEF Having, Enrolled
<1>4. UnpaidPage(Enrollment).total = Cardinality(Outstanding)
  <2>1. UnpaidEnrollments \cap Enrollment = Outstanding
    BY <1>2, <1>3
  <2> QED BY <2>1 DEF UnpaidPage
<1>5. CumulativeUnpaid(Enrollment) = UnpaidEnrollments
  BY <1>2, <1>3, BalanceTold DEF CumulativeUnpaid
<1>6. ASSUME NEW p \in Rows, NewBalance(p) = {}
      PROVE  EnrollmentOf(p) \notin UnpaidEnrollments
  <2> SUFFICES ASSUME EnrollmentOf(p) \in UnpaidEnrollments PROVE FALSE
    OBVIOUS
  <2> DEFINE e == EnrollmentOf(p)
  <2>1. Balance(e) < 0 /\ e \in Enrolled
    BY <1>2, <1>3
  <2>2. e # Nothing
    BY <2>1, NumbersAre, PagesAssumption DEF Enrolled, Nothing
  <2>3. EnrollmentBalance(e).balance \in NewBalance(p) \/ Balance(e) = 0
    BY <2>2, BalanceTold DEF NewBalance
  <2> HIDE DEF e
  <2> QED BY <1>6, <2>1, <2>3
<1>7. AuditSummary = [B |-> Cardinality(Overpaid), C |-> Cardinality(Orphaned),
                      I |-> Cardinality(OverDiscounted)]
  BY DEF AuditSummary, Overpaid, Orphaned, OverDiscounted
<1>8. \A s \in Student :
       LET fees == UnpaidFees(s)
           told == BalanceAnswer(s) IN
       /\ {e \in DOMAIN told.isPaid : ~ told.isPaid[e]} = UnpaidPage(Of(s)).items
       /\ told.net = FeesBalance(s) + Sum([e \in DOMAIN told.isPaid |-> StudentBalances(s)[e].balance])
       /\ DOMAIN fees = FeesUnpaid(s)
       /\ Sum(fees) >= - FeesBalance(s)
  BY AnswerIs, FeesAdd
<1> QED BY <1>4, <1>5, <1>6, <1>7, <1>8, PageIs, RiskIs DEF AssessmentsAgree

(* Without any assumption on requests, days and prices: the takings are    *)
(* the same however they are split, the papers agree with their rows,      *)
(* every payment is found, and what is told before a payment is right.     *)
THEOREM TakingsStayOne ==
  Spec => [](TakingsAgree /\ PapersAgree /\ PaymentsFound /\ AssessmentsAgree)
<1>1. Books => TakingsAgree /\ PapersAgree /\ PaymentsFound /\ AssessmentsAgree
  BY BooksAreLedger, TakingsAreOne, PapersAreOne, PaymentsAreFound, AssessmentsAreRight
<1> QED BY <1>1, BooksInvariant, PTL DEF Spec

(***************************************************************************)
(* The rounds.                                                             *)
(***************************************************************************)
Rounds(ls) == [l \in ls |-> RoundRevenue(l)]

(* What the rounds brought in is what the courses did. *)
LEMMA RoundsAre ==
  ASSUME Books
  PROVE  /\ \A ls \in SUBSET Level : Rounds(ls) \in [ls -> Int] /\ IsFiniteSet(ls)
                                     /\ Sum(Rounds(ls)) \in Int
         /\ Sum(Rounds(Level)) = RevenueByType(Day)["course_level"]
         /\ \A l \in Level : /\ RoundRevenue(l)
                                  = Amounts({p \in Live : payments[p].account \in l \cap Enrolled}, {"payment"})
                             /\ RoundRevenue(l) \in Nat
<1>1. Ledger /\ Live \in SUBSET Rows
  BY BooksAreLedger DEF Live
<1>2. ASSUME NEW l \in Level
      PROVE  /\ RoundRevenue(l) = Amounts({p \in Live : payments[p].account \in l \cap Enrolled}, {"payment"})
             /\ RoundRevenue(l) \in Nat
  <2> DEFINE rows == {p \in Live : payments[p].account \in l \cap Enrolled}
  <2>1. {p \in Live : EnrollmentOf(p) \in l} = rows
    BY GroupPaymentsAre
  <2>2. rows \in SUBSET Rows
    BY <1>1
  <2>3. RoundRevenue(l) = Amounts(rows, {"payment"})
    BY <2>1 DEF RoundRevenue
  <2> HIDE DEF rows
  <2>4. Amounts(rows, {"payment"}) \in Nat
    BY <1>1, <2>2, AmountsAre
  <2> QED BY <2>3, <2>4 DEF rows
<1>3. ASSUME NEW ls \in SUBSET Level
      PROVE  Rounds(ls) \in [ls -> Int] /\ IsFiniteSet(ls) /\ Sum(Rounds(ls)) \in Int
  <2>1. \A l \in ls : RoundRevenue(l) \in Int
    <3>1. \A l \in Level : RoundRevenue(l) \in Nat
      BY <1>2
    <3> QED BY <3>1
  <2>2. Rounds(ls) \in [ls -> Int]
    BY <2>1 DEF Rounds
  <2>3. IsFiniteSet(ls)
    BY NumbersAre, FS_Subset
  <2> QED BY <2>2, <2>3, SumType
<1>4. Sum(Rounds(Level)) = RevenueByType(Day)["course_level"]
  <2>1. Rounds(Level)
          = [l \in Level |-> Amounts({p \in Live : payments[p].account \in l \cap Enrolled}, {"payment"})]
    BY <1>2 DEF Rounds
  <2>2. Sum([l \in Level |-> Amounts({p \in Live : payments[p].account \in l \cap Enrolled}, {"payment"})])
          = Amounts({p \in Live : payments[p].account \in (UNION Level) \cap Enrolled}, {"payment"})
    BY <1>1, ByLevel
  <2> QED BY <1>1, <2>1, <2>2, CoursesAre
<1> QED BY <1>2, <1>3, <1>4

(* The rounds in two parts. *)
LEMMA RoundsApart ==
  ASSUME Books, NEW ls \in SUBSET Level, NEW ks \in SUBSET ls
  PROVE  /\ Sum(Rounds(ls)) = Sum(Rounds(ks)) + Sum(Rounds(ls \ ks))
         /\ Sum(Rounds(ks)) \in Int /\ Sum(Rounds(ls \ ks)) \in Int
<1> DEFINE f == Rounds(ls)
<1>1. f \in [ls -> Int] /\ IsFiniteSet(ls)
  BY RoundsAre
<1>2. [l \in ks |-> f[l]] = Rounds(ks) /\ [l \in ls \ ks |-> f[l]] = Rounds(ls \ ks)
  BY DEF Rounds
<1>3. Sum(Rounds(ks)) \in Int /\ Sum(Rounds(ls \ ks)) \in Int
  <2>1. ks \in SUBSET Level /\ ls \ ks \in SUBSET Level
    OBVIOUS
  <2> QED BY <2>1, RoundsAre
<1> HIDE DEF f
<1>4. Sum(f) = Sum([l \in ks |-> f[l]]) + Sum([l \in ls \ ks |-> f[l]])
  BY <1>1, SumOfParts
<1> QED BY <1>2, <1>3, <1>4 DEF f

(* The months, and the rounds that start in them. *)
LEMMA MonthsAre ==
  ASSUME Books, NEW ls \in SUBSET Level
  PROVE  LET payroll == PayrollVsRevenue(ls) IN
         /\ Sum([d \in DOMAIN payroll |-> payroll[d].revenue]) = Net(Live)
         /\ Sum([d \in DOMAIN payroll |-> payroll[d].cost])
              = Sum(Rounds({l \in Own \cap ls : Started[l] \in DOMAIN payroll}))
<1> DEFINE payroll == PayrollVsRevenue(ls)
           D == {x \in Day : On(Live, {x}) # {}}
           f == [d \in Day |-> Net(On(Live, {d}))]
           S == {l \in Own \cap ls : Started[l] \in D}
           v == [l \in S |-> Started[l]]
           c == [d \in D |-> Sum([l \in {k \in Own \cap ls : Started[k] = d} |-> RoundRevenue(l)])]
<1>1. Ledger /\ Live \in SUBSET Rows /\ On(Live, Day) = Live /\ IsFiniteSet(Day)
  BY BooksAreLedger, RowsKept, StatementsAssumption
<1>2. /\ DOMAIN payroll = D
      /\ [d \in D |-> payroll[d].revenue] = [d \in D |-> f[d]]
      /\ [d \in D |-> payroll[d].cost] = c
  BY DEF PayrollVsRevenue
<1>3. f \in [Day -> Int] /\ D \in SUBSET Day /\ \A d \in Day \ D : f[d] = 0
  <2>1. \A d \in Day : Net(On(Live, {d})) \in Int
    <3>1. \A d \in Day : On(Live, {d}) \in SUBSET Rows
      BY <1>1 DEF On
    <3> QED BY <1>1, <3>1, NetIs
  <2>2. Net({}) = 0
    <3>1. Amounts({}, {"payment"}) = 0 /\ Amounts({}, {"refund"}) = 0
      BY OtherKinds
    <3> QED BY <3>1 DEF Net
  <2> QED BY <2>1, <2>2
<1>4. Sum(f) = Net(Live)
  BY <1>1, ByDay
<1>5. S \in SUBSET Level /\ v \in [S -> D]
  OBVIOUS
<1>6. ASSUME NEW d \in D
      PROVE  Sum([l \in {k \in Own \cap ls : Started[k] = d} |-> RoundRevenue(l)])
               = Sum([s \in {q \in S : v[q] = d} |-> Rounds(S)[s]])
  <2>1. {q \in S : v[q] = d} = {k \in Own \cap ls : Started[k] = d}
    OBVIOUS
  <2>2. \A s \in S : Rounds(S)[s] = RoundRevenue(s)
    BY DEF Rounds
  <2> DEFINE T == {q \in S : v[q] = d}
  <2>3. T \subseteq S
    OBVIOUS
  <2> HIDE DEF S, v
  <2>4. [s \in T |-> Rounds(S)[s]] = [s \in T |-> RoundRevenue(s)]
    BY <2>2, <2>3
  <2> QED BY <2>1, <2>4
<1>7. IsFiniteSet(D) /\ IsFiniteSet(S) /\ Rounds(S) \in [S -> Int]
  BY <1>1, <1>3, <1>5, FS_Subset, RoundsAre
<1> HIDE DEF payroll, D, f, S, v
<1>8. Sum(f) = Sum([d \in D |-> f[d]])
  BY <1>1, <1>3, SumOfRest
<1>9. c = Subtotals(S, D, v, Rounds(S))
  BY <1>6 DEF Subtotals
<1> HIDE DEF c
<1>10. Sum(Subtotals(S, D, v, Rounds(S))) = Sum(Rounds(S))
  BY <1>5, <1>7, SumByValue
<1>11. Sum([d \in DOMAIN payroll |-> payroll[d].revenue]) = Net(Live)
  BY <1>2, <1>4, <1>8
<1>12. Sum([d \in DOMAIN payroll |-> payroll[d].cost]) = Sum(Rounds(S))
  BY <1>2, <1>9, <1>10
<1>13. S = {l \in Own \cap ls : Started[l] \in DOMAIN payroll}
  BY <1>2 DEF S
<1> QED BY <1>11, <1>12, <1>13 DEF payroll

(* Payroll, contracts and part time split the rounds between them.         *)
LEMMA RoundsSplit ==
  ASSUME Books, NEW ls \in SUBSET Level
  PROVE  LET payroll  == PayrollVsRevenue(ls)
             contract == ContractRounds(ls)
             partTime == PartTimeRounds(ls)
             unseen   == {l \in Own \cap ls : Started[l] \notin DOMAIN payroll}
             courses  == RevenueByType(Day)["course_level"] IN
         /\ Sum(contract) + Sum([l \in Level \ ls |-> RoundRevenue(l)]) = courses
         /\ Sum([d \in DOMAIN payroll |-> payroll[d].revenue]) = Summary.revenue
         /\ Sum([d \in DOMAIN payroll |-> payroll[d].cost])
              + Sum([l \in DOMAIN partTime |-> partTime[l].revenue])
              + Sum([l \in (Level \ Own) \cup unseen |-> RoundRevenue(l)]) = courses
<1> DEFINE payroll == PayrollVsRevenue(ls)
           unseen  == {l \in Own \cap ls : Started[l] \notin DOMAIN payroll}
           seen    == {l \in Own \cap ls : Started[l] \in DOMAIN payroll}
           courses == RevenueByType(Day)["course_level"]
<1>1. Own \subseteq Level
  BY PagesAssumption
<1>2. Sum(Rounds(Level)) = courses
  BY RoundsAre
<1>3. ContractRounds(ls) = Rounds(ls) /\ [l \in Level \ ls |-> RoundRevenue(l)] = Rounds(Level \ ls)
  BY DEF ContractRounds, Rounds
<1>4. Sum(Rounds(Level)) = Sum(Rounds(ls)) + Sum(Rounds(Level \ ls))
  BY RoundsApart
<1>5. Sum([d \in DOMAIN payroll |-> payroll[d].revenue]) = Summary.revenue
  BY MonthsAre, BooksAreLedger, WeeklyIs
<1>6. Sum([d \in DOMAIN payroll |-> payroll[d].cost]) = Sum(Rounds(seen))
  BY MonthsAre
<1>7. /\ DOMAIN PartTimeRounds(ls) = Own \ ls
      /\ [l \in DOMAIN PartTimeRounds(ls) |-> PartTimeRounds(ls)[l].revenue] = Rounds(Own \ ls)
  BY DEF PartTimeRounds, Rounds
<1>8. /\ seen \in SUBSET Level /\ Own \ ls \in SUBSET (Level \ seen)
      /\ Level \ seen \in SUBSET Level
      /\ (Level \ seen) \ (Own \ ls) = (Level \ Own) \cup unseen
  BY <1>1
<1> HIDE DEF payroll, unseen, seen, courses
<1>9. /\ Sum(Rounds(Level)) = Sum(Rounds(seen)) + Sum(Rounds(Level \ seen))
      /\ Sum(Rounds(seen)) \in Int /\ Sum(Rounds(Level \ seen)) \in Int
  BY <1>8, RoundsApart
<1>10. /\ Sum(Rounds(Level \ seen))
            = Sum(Rounds(Own \ ls)) + Sum(Rounds((Level \ seen) \ (Own \ ls)))
       /\ Sum(Rounds(Own \ ls)) \in Int /\ Sum(Rounds((Level \ seen) \ (Own \ ls))) \in Int
  BY <1>8, RoundsApart
<1>11. Sum(Rounds(seen)) + Sum(Rounds(Own \ ls)) + Sum(Rounds((Level \ Own) \cup unseen)) = courses
  <2>1. Sum(Rounds((Level \ seen) \ (Own \ ls))) = Sum(Rounds((Level \ Own) \cup unseen))
    BY <1>8
  <2> QED BY <1>2, <1>9, <1>10, <2>1
<1>12. [l \in (Level \ Own) \cup unseen |-> RoundRevenue(l)] = Rounds((Level \ Own) \cup unseen)
  BY DEF Rounds
<1>13. /\ Sum(ContractRounds(ls)) + Sum([l \in Level \ ls |-> RoundRevenue(l)]) = courses
       /\ Sum([d \in DOMAIN payroll |-> payroll[d].cost])
            + Sum([l \in DOMAIN PartTimeRounds(ls) |-> PartTimeRounds(ls)[l].revenue])
            + Sum([l \in (Level \ Own) \cup unseen |-> RoundRevenue(l)]) = courses
  BY <1>2, <1>3, <1>4, <1>6, <1>7, <1>11, <1>12
<1> QED BY <1>5, <1>13 DEF payroll, unseen, courses

(* A round has taken what its enrollments have paid, refunded or not. *)
LEMMA RoundIs ==
  ASSUME Books, NEW l \in Level
  PROVE  /\ RoundRevenue(l) - CollectedOf(l \cap Enrolled) = Sum([e \in l \cap Enrolled |-> returned[e]])
         /\ CoursePerformance({l}).billed = GroupRevenue(l) + CollectedOf(l \cap Enrolled)
<1> DEFINE es   == l \cap Enrolled
           rows == {p \in Live : payments[p].account \in es}
           v    == [p \in rows |-> payments[p].account]
           r    == [e \in es |-> received[e]]
<1>1. Ledger /\ es \in SUBSET Enrolled /\ rows \in SUBSET Rows /\ v \in [rows -> es]
  BY BooksAreLedger DEF Live
<1>2. RoundRevenue(l) = Amounts(rows, {"payment"})
  BY RoundsAre
<1>3. \A e \in es : {p \in rows : v[p] = e} = RowsOf(e) \cap Live
  BY DEF RowsOf, Live, Rows
<1>4. \A e \in es : /\ RowsOf(e) \cap Live = RowsOf(e) /\ received[e] \in Nat /\ returned[e] \in Nat
                    /\ Amounts(RowsOf(e), {"payment"}) = received[e]
  BY <1>1, AccountIs
<1>5. r \in [es -> Int]
  BY <1>4
<1>6. GroupRevenue(l) = BilledByRow(es) - CollectedOf(es)
  BY DEF GroupRevenue
<1>7. CoursePerformance({l}).billed = BilledByRow(es)
  <2>1. (UNION {l}) \cap Enrolled = es
    OBVIOUS
  <2>2. CoursePerformance({l}).billed
          = Sum([e \in es |-> netDue[e] * AtLeast1(Cardinality(RowsOf(e)))])
    BY <2>1 DEF CoursePerformance
  <2>3. [e \in es |-> netDue[e] * AtLeast1(Cardinality(RowsOf(e)))]
          = [e \in es |-> netDue[e] * AtLeast1(Cardinality(RowsOf(e) \cap Live))]
    BY <1>4
  <2> QED BY <2>2, <2>3 DEF BilledByRow
<1> HIDE DEF es, rows, v, r
<1>8. /\ IsFiniteSet(es) /\ CollectedOf(es) = Sum(Collects(es)) /\ Collects(es) = Nets(es)
      /\ BilledByRow(es) \in Int /\ CollectedOf(es) \in Int
  BY <1>1, BillsAre
<1>9. Sum(r) = Amounts(rows, {"payment"})
  <2>1. [e \in es |-> Amounts({p \in rows : v[p] = e}, {"payment"})] = r
    BY <1>3, <1>4 DEF r
  <2>2. Ledger /\ rows \in SUBSET Rows /\ IsFiniteSet(es) /\ v \in [rows -> es]
    BY <1>1, <1>8
  <2>3. Sum([e \in es |-> Amounts({p \in rows : v[p] = e}, {"payment"})]) = Amounts(rows, {"payment"})
    BY <2>2, AmountsByValue
  <2> QED BY <2>1, <2>3
<1>10. Sum(r) = Sum(Nets(es)) + Sum(Returns(es))
  <2>1. Nets(es) \in [es -> Int] /\ Returns(es) \in [es -> Int]
    BY <1>1, AccountsAre
  <2>2. \A e \in es : r[e] = Nets(es)[e] + Returns(es)[e]
    BY <1>4 DEF r, Nets, Returns
  <2> QED BY <1>5, <1>8, <2>1, <2>2, SumAdds
<1>11. Sum(Nets(es)) \in Int /\ Sum(Returns(es)) \in Int
  BY <1>1, SumsOfAccounts
<1>12. /\ RoundRevenue(l) - CollectedOf(es) = Sum(Returns(es))
       /\ CoursePerformance({l}).billed = GroupRevenue(l) + CollectedOf(es)
  BY <1>2, <1>6, <1>7, <1>8, <1>9, <1>10, <1>11
<1> QED BY <1>12 DEF Returns, es

(* The trend points the way the money went. *)
LEMMA TrendIs ==
  ASSUME Books, NEW d \in Day
  PROVE  LET m == RevenueMetrics(d) IN
         /\ Trend(d) = "up" => m.total > m.previous
         /\ Trend(d) = "down" => m.total < m.previous
         /\ m.total = 0 /\ m.previous > 0 => Trend(d) = "down"
<1> DEFINE now == RevenueMetrics(d).total  before == RevenueMetrics(d).previous
           change == IF before > 0 THEN (now - before) * 100
                     ELSE IF now > 0 THEN 100 ELSE 0
           five   == IF before > 0 THEN 5 * before ELSE 5
<1>2. now \in Int /\ before \in Int
  BY BooksAreLedger, DaysAre
<1>4. Trend(d) = CASE change > five   -> "up"
                   [] change < - five -> "down"
                   [] OTHER           -> "stable"
  BY DEF Trend
<1>5. change \in Int /\ five \in Int /\ five >= 0
  <2> HIDE DEF now, before
  <2> QED BY <1>2
<1>6. /\ change > five => now > before
      /\ change < - five => now < before
      /\ now = 0 /\ before > 0 => change < - five
  <2> HIDE DEF now, before
  <2> QED BY <1>2
<1> HIDE DEF now, before, change, five
<1>7. /\ Trend(d) = "up" => now > before
      /\ Trend(d) = "down" => now < before
      /\ now = 0 /\ before > 0 => Trend(d) = "down"
  BY <1>4, <1>5, <1>6
<1> QED BY <1>7 DEF now, before

(* The costs and the trend are those of the takings. *)
LEMMA CostsAreSplit ==
  ASSUME Books
  PROVE  CostsAgree
<1>1. Ledger /\ Live \in SUBSET Rows /\ On(Live, Day) = Live
  BY BooksAreLedger, RowsKept
<1>2. BiMonthlyRevenue(Day) = RevenueAllTime /\ AvgRevenue.revenue = RevenueAllTime
  BY <1>1 DEF BiMonthlyRevenue, AvgRevenue, RevenueAllTime
<1>3. AvgRevenue.students <= Cardinality(Student)
  <2> DEFINE T == {StudentOfRow(p) : p \in {q \in Live : payments[q].kind = "payment"}}
  <2>1. T \subseteq Student
    BY <1>1, RowIs
  <2>2. AvgRevenue.students = Cardinality(T)
    BY DEF AvgRevenue
  <2> HIDE DEF T
  <2> QED BY <2>1, <2>2, StatementsAssumption, FS_Subset
<1>4. CoursePerformance(Level).revenue = RevenueByType(Day)["course_level"]
  <2>1. (UNION Level) \cap Enrolled = Enrolled
    BY <1>1, CoursesAre
  <2>2. {p \in Live : EnrollmentOf(p) \in Enrolled} = {p \in Live : payments[p].account \in Enrolled}
    <3>1. "none" \notin Enrolled
      BY NumbersAre, PagesAssumption DEF Enrolled
    <3> QED BY <3>1 DEF EnrollmentOf, Nothing
  <2> QED BY <1>1, <2>1, <2>2, CoursesAre DEF CoursePerformance
<1> QED BY <1>2, <1>3, <1>4, RoundsSplit, RoundIs, TrendIs DEF CostsAgree

(***************************************************************************)
(* Whatever is told of the money, row by row and account by account, adds  *)
(* up to the takings.                                                      *)
(***************************************************************************)
THEOREM MoneyAddsUp == Spec => []MoneyAgrees
<1>1. Books => MoneyAgrees
  <2> SUFFICES ASSUME Books PROVE MoneyAgrees
    OBVIOUS
  <2>1. TakingsAgree
    BY BooksAreLedger, TakingsAreOne
  <2>2. PapersAgree /\ PaymentsFound /\ AssessmentsAgree /\ CostsAgree
    BY PapersAreOne, PaymentsAreFound, AssessmentsAreRight, CostsAreSplit
  <2> QED BY <2>1, <2>2 DEF MoneyAgrees
<1> QED BY <1>1, BooksInvariant, PTL DEF Spec
=============================================================================
