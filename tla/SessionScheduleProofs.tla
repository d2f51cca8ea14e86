------------------------ MODULE SessionScheduleProofs ------------------------
(***************************************************************************)
(* Proofs about SessionSchedule with one numbering request at a time, for  *)
(* any number of sessions and any deletes, marks and patches in between.   *)
(***************************************************************************)
EXTENDS SessionPages, FiniteSetTheorems, WellFoundedInduction, TLAPS

OneAtATime  == \A v, w \in Request : v = w
HeldPatches == \A p \in StatusPatches : p[1] # "cancelled" /\ p[2] # "cancelled"

(***************************************************************************)
(* The numbers a request computes.                                         *)
(***************************************************************************)

(* A finite set of naturals has a largest one: of the finite sets that     *)
(* have none a minimal one would lose nothing with any of its elements.    *)
LEMMA LargestExists ==
  ASSUME NEW N \in SUBSET Nat, IsFiniteSet(N), N # {}
  PROVE  Largest(N) \in N /\ \A m \in N : m <= Largest(N)
<1> DEFINE Top(U) == \E n \in U : \A m \in U : m <= n
           Bad == {U \in FiniteSubsetsOf(Nat) : U # {} /\ ~ Top(U)}
<1>1. Bad = {}
  <2> SUFFICES ASSUME Bad # {} PROVE FALSE
    OBVIOUS
  <2>1. PICK U \in Bad : \A V \in Bad : <<V, U>> \notin StrictSubsetOrdering(Nat)
    <3>1. Bad \subseteq FiniteSubsetsOf(Nat)
      OBVIOUS
    <3> QED BY <3>1, FS_StrictSubsetOrderingWellFounded, WFMin
  <2>2. U \in SUBSET Nat /\ IsFiniteSet(U) /\ ~ Top(U)
    BY DEF FiniteSubsetsOf
  <2>3. PICK x \in U : TRUE
    OBVIOUS
  <2>4. U \ {x} \notin Bad
    BY <2>1, <2>2 DEF StrictSubsetOrdering
  <2>5. U \ {x} \in FiniteSubsetsOf(Nat)
    BY <2>2, FS_RemoveElement DEF FiniteSubsetsOf
  <2>6. CASE U \ {x} = {}
    <3>1. U = {x} /\ x \in Nat
      BY <2>2, <2>6
    <3> QED BY <2>2, <3>1
  <2>7. CASE Top(U \ {x})
    <3>1. PICK y \in U \ {x} : \A m \in U \ {x} : m <= y
      BY <2>7
    <3>2. x \in Nat /\ y \in Nat /\ U \subseteq Nat
      BY <2>2
    <3> QED BY <2>2, <3>1, <3>2
  <2> QED BY <2>4, <2>5, <2>6, <2>7
<1>2. Top(N)
  BY <1>1 DEF FiniteSubsetsOf
<1> QED BY <1>2 DEF Largest

LEMMA SessionsAreFinite == \A S \in SUBSET SessionId : IsFiniteSet(S)
<1>1. 1 \in Int /\ MaxSessions \in Int
  BY ConstantsAssumption
<1>2. IsFiniteSet(SessionId)
  BY <1>1, FS_Interval DEF SessionId
<1> QED BY <1>2, FS_Subset

(* The next number is larger than those there are, and by no more than 1. *)
LEMMA NextIsLarger ==
  ASSUME NEW num \in [SessionId -> Nat], NEW S \in SUBSET SessionId
  PROVE  /\ NextNumber(num, S) \in Nat /\ NextNumber(num, S) >= 1
         /\ \A s \in S : num[s] < NextNumber(num, S)
         /\ NextNumber(num, S) = 1 \/ \E s \in S : num[s] + 1 = NextNumber(num, S)
<1> DEFINE T == {num[s] : s \in S}
           f == [s \in S |-> num[s]]
<1>1. f \in Surjection(S, T)
  BY DEF Surjection
<1>2. IsFiniteSet(T)
  BY <1>1, SessionsAreFinite, FS_Surjection
<1>3. T \cup {0} \in SUBSET Nat /\ IsFiniteSet(T \cup {0}) /\ T \cup {0} # {}
  BY <1>2, FS_AddElement
<1>4. /\ Largest(T \cup {0}) \in Nat
      /\ \A m \in T \cup {0} : m <= Largest(T \cup {0})
  BY <1>3, LargestExists
<1>5. NextNumber(num, S) = Largest(T \cup {0}) + 1
  BY DEF NextNumber
<1>6. \A s \in S : num[s] \in Nat /\ num[s] \in T \cup {0}
  OBVIOUS
<1> DEFINE top == Largest(T \cup {0})
<1>7. /\ top \in Nat /\ \A s \in S : num[s] \in Nat /\ num[s] <= top
      /\ top = 0 \/ \E s \in S : num[s] = top
  <2>1. Largest(T \cup {0}) \in T \cup {0}
    BY <1>3, LargestExists
  <2> QED BY <1>4, <1>6, <2>1
<1> HIDE DEF T, top
<1>8. NextNumber(num, S) = top + 1
  BY <1>5 DEF top
<1> QED BY <1>7, <1>8

(* reactivate_session finds a gap: one past the number of sessions held    *)
(* there are fewer of them than it counts.                                 *)
LEMMA GapExists ==
  FirstGap \in Nat /\ FirstGap >= 1 /\ FirstGap <= Cardinality(Held) + 1
<1> DEFINE k == Cardinality(Held) + 1
           N == {e \in 1 .. k : Cardinality({s \in Held : number[s] <= e}) < e}
           Top(n) == k - n
           M == {Top(n) : n \in N}
<1>1. IsFiniteSet(Held) /\ Cardinality(Held) \in Nat
  BY SessionsAreFinite, FS_CardinalityType DEF Held
<1>2. k \in N
  <2>1. Cardinality({s \in Held : number[s] <= k}) <= Cardinality(Held)
    BY <1>1, FS_Subset
  <2>2. Cardinality({s \in Held : number[s] <= k}) \in Nat
    BY <1>1, FS_Subset, FS_CardinalityType
  <2>3. k \in 1 .. k /\ Cardinality({s \in Held : number[s] <= k}) < k
    BY <1>1, <2>1, <2>2
  <2> HIDE DEF k
  <2> QED BY <2>3
<1>3. N \subseteq 1 .. k /\ k \in Nat
  BY <1>1
<1> HIDE DEF k, N
<1>4. M \in SUBSET Nat /\ M # {} /\ IsFiniteSet(M)
  <2>1. M \subseteq 0 .. k /\ M # {}
    BY <1>2, <1>3
  <2>2. IsFiniteSet(0 .. k)
    BY <1>3, FS_Interval
  <2> QED BY <1>3, <2>1, <2>2, FS_Subset
<1>5. PICK n \in N : k - n = Largest(M)
  BY <1>4, LargestExists
<1>6. \A m \in N : n <= m
  <2> SUFFICES ASSUME NEW m \in N PROVE n <= m
    OBVIOUS
  <2>1. k - m <= k - n
    BY <1>4, <1>5, LargestExists
  <2> QED BY <1>3, <2>1
<1>7. FirstGap = Smallest(N)
  BY DEF FirstGap, N, k
<1>8. Smallest(N) \in N
  BY <1>6 DEF Smallest
<1>9. FirstGap \in 1 .. k
  BY <1>3, <1>7, <1>8
<1>10. FirstGap <= k
  BY <1>3, <1>9
<1> QED BY <1>3, <1>9, <1>10 DEF k

(***************************************************************************)
(* Type correctness.                                                       *)
(***************************************************************************)
Writes == UNION {[S -> Nat] : S \in SUBSET SessionId}

LEMMA ComputedWrites ==
  ASSUME NEW S \in SUBSET SessionId, NEW f, f = [t \in S |-> f[t]],
         \A t \in S : f[t] \in Nat
  PROVE  f \in Writes
<1>1. f \in [S -> Nat]
  OBVIOUS
<1> QED BY <1>1 DEF Writes

LEMMA WrittenNumbers ==
  ASSUME TypeOK, NEW w \in Request
  PROVE  /\ Written(w) \in [SessionId -> Nat]
         /\ \A t \in SessionId : Written(w)[t] =
              IF t \in DOMAIN tx[w].writes THEN tx[w].writes[t] ELSE number[t]
<1>1. PICK S \in SUBSET SessionId : tx[w].writes \in [S -> Nat]
  BY SMTT(60) DEF TypeOK, Transaction
<1> QED BY <1>1 DEF Written, TypeOK

(* A cancellation or a reactivation is about a session. *)
Subjects ==
  \A w \in Request : tx[w].step \notin {"idle", "extra"} => tx[w].id \in SessionId

LEMMA TypeStep == ASSUME TypeOK, Subjects, Next PROVE TypeOK'
<1> USE DEF TypeOK, rows
<1>0. NoTx \in Transaction /\ \A w \in Request : tx[w] \in Transaction
  <2>1. <<>> \in [{} -> Nat] /\ {} \in SUBSET SessionId
    OBVIOUS
  <2> QED BY <2>1 DEF NoTx, Transaction
<1>1. ASSUME NEW w \in Request, ExtraRead(w) PROVE TypeOK'
  <2>1. NextNumber(number, {s \in SessionId : Exists(s)}) \in Nat
    BY NextIsLarger
  <2>2. [NoTx EXCEPT !.step = "extra", !.slot = NextNumber(number, {s \in SessionId : Exists(s)})]
          \in Transaction
    BY <1>0, <2>1 DEF Transaction
  <2> QED BY <1>1, <2>2 DEF ExtraRead, Begin
<1>2. ASSUME NEW w \in Request, ExtraInsert(w) PROVE TypeOK'
  <2>1. tx[w].slot \in Nat
    BY DEF Transaction
  <2> QED BY <1>0, <1>2, <2>1 DEF ExtraInsert, End, Status
<1>3. ASSUME NEW w \in Request, NEW s \in SessionId, CancelLoad(w, s) PROVE TypeOK'
  <2>1. [NoTx EXCEPT !.step = "cancel_loaded", !.id = s, !.slot = number[s]] \in Transaction
    BY <1>0 DEF Transaction
  <2> QED BY <1>3, <2>1 DEF CancelLoad, Begin
<1>4. ASSUME NEW w \in Request, CancelLock(w) PROVE TypeOK'
  <2> DEFINE s == tx[w].id  f == CancelWrites(s, tx[w].slot)
  <2>1. s \in SessionId /\ tx[w].slot \in Nat
    BY <1>0, <1>4 DEF CancelLock, Subjects, Transaction
  <2>2. f \in Writes
    <3>1. Later(s, tx[w].slot) \cup {s} \in SUBSET SessionId
      BY <2>1 DEF Later, Held
    <3>2. \A t \in Later(s, tx[w].slot) : number[t] - 1 \in Nat
      BY <2>1 DEF Later, Held
    <3> QED BY <3>1, <3>2, ComputedWrites DEF CancelWrites
  <2>3. [tx[w] EXCEPT !.step = "cancel_locked", !.writes = f, !.marked = attendance[s] # "none"]
          \in Transaction
    BY <1>0, <2>2 DEF Transaction, Writes
  <2>4. tx' = [tx EXCEPT ![w] =
          [tx[w] EXCEPT !.step = "cancel_locked", !.writes = f, !.marked = attendance[s] # "none"]]
    BY <1>4 DEF CancelLock
  <2> QED BY <1>4, <2>3, <2>4 DEF CancelLock
<1>5. ASSUME NEW w \in Request, CancelCommit(w) PROVE TypeOK'
  <2>1. PICK r \in SessionId : Replacement(w, r)
    BY <1>5 DEF CancelCommit
  <2>2. NextNumber(Written(w), {t \in SessionId : Exists(t)}) \in Nat
    BY WrittenNumbers, NextIsLarger
  <2>3. number' \in [SessionId -> Nat]
    BY <2>1, <2>2, WrittenNumbers DEF Replacement
  <2>4. status' \in [SessionId -> Status \cup {"absent", "deleted"}]
    BY <2>1 DEF Replacement, Status
  <2> QED BY <1>0, <1>5, <2>3, <2>4 DEF CancelCommit, End
<1>6. ASSUME NEW w \in Request, NEW s \in SessionId, ReactivateLoad(w, s) PROVE TypeOK'
  <2>1. PICK drop \in SUBSET SessionId :
          tx' = [tx EXCEPT ![w] = [NoTx EXCEPT !.step = "reactivate", !.id = s,
                                     !.writes = ReactivateWrites(s), !.drop = drop]]
    <3>1. PICK drop \in IF Held = {} THEN {{}} ELSE {{t} : t \in LastHeld} :
            tx' = [tx EXCEPT ![w] = [NoTx EXCEPT !.step = "reactivate", !.id = s,
                                       !.writes = ReactivateWrites(s), !.drop = drop]]
      BY <1>6 DEF ReactivateLoad, Begin
    <3>2. drop \in SUBSET SessionId
      BY DEF LastHeld, Held
    <3> QED BY <3>1, <3>2
  <2>2. ReactivateWrites(s) \in Writes
    <3>1. {u \in Held : number[u] >= FirstGap} \cup {s} \in SUBSET SessionId
      BY DEF Held
    <3>2. \A t \in {u \in Held : number[u] >= FirstGap} : number[t] + 1 \in Nat
      BY DEF Held
    <3> QED BY <3>1, <3>2, ComputedWrites, GapExists DEF ReactivateWrites
  <2>3. [NoTx EXCEPT !.step = "reactivate", !.id = s, !.writes = ReactivateWrites(s), !.drop = drop]
          \in Transaction
    BY <1>0, <2>2 DEF Transaction, Writes
  <2> QED BY <1>6, <2>1, <2>3 DEF ReactivateLoad
<1>7. ASSUME NEW w \in Request, ReactivateCommit(w) PROVE TypeOK'
  <2>1. number' \in [SessionId -> Nat]
    BY <1>7, WrittenNumbers DEF ReactivateCommit
  <2>2. status' \in [SessionId -> Status \cup {"absent", "deleted"}]
    BY <1>7 DEF ReactivateCommit, Status
  <2>3. attendance' \in [SessionId -> {"none", "present", "absent", "cancelled"}]
    BY <1>7 DEF ReactivateCommit
  <2> QED BY <1>0, <1>7, <2>1, <2>2, <2>3 DEF ReactivateCommit, End
<1>8. ASSUME NEW w \in Request, Rollback(w) PROVE TypeOK'
  BY <1>0, <1>8 DEF Rollback, End
<1>9. ASSUME NEW s \in SessionId, Delete(s) PROVE TypeOK'
  BY <1>9 DEF Delete
<1>10. ASSUME NEW s \in SessionId, NEW to \in Status, PatchStatus(s, to) PROVE TypeOK'
  BY <1>10 DEF PatchStatus
<1>11. ASSUME NEW s \in SessionId, NEW st \in {"present", "absent", "cancelled"},
              MarkAttendance(s, st)
       PROVE  TypeOK'
  BY <1>11, ConstantsAssumption DEF MarkAttendance
<1> QED
  BY <1>1, <1>2, <1>3, <1>4, <1>5, <1>6, <1>7, <1>8, <1>9, <1>10, <1>11 DEF Next

(***************************************************************************)
(* The inductive invariant.                                                *)
(***************************************************************************)

(* What a request has read still holds when it writes, but for sessions    *)
(* that have been deleted since.                                           *)
ExtraFits(w) ==
  tx[w].slot >= 1 /\ \A u \in SessionId : Exists(u) => number[u] < tx[w].slot

LoadFits(w) ==
  LET s == tx[w].id IN Exists(s) => s \in Held /\ tx[w].slot = number[s]

CancelFits(w) ==
  LET s == tx[w].id  f == tx[w].writes IN
  /\ s \in Held /\ s \in DOMAIN f /\ f[s] = 0
  /\ \A u \in DOMAIN f \ {s} :
       Exists(u) => u \in Held /\ number[u] > number[s] /\ f[u] = number[u] - 1
  /\ \A u \in Held : number[u] > number[s] => u \in DOMAIN f

ReactivateFits(w) ==
  LET s == tx[w].id  f == tx[w].writes IN
  /\ s \in DOMAIN f /\ f[s] \in Nat /\ f[s] >= 1
  /\ Exists(s) => status[s] = "cancelled"
  /\ \A u \in DOMAIN f \ {s} :
       Exists(u) => u \in Held /\ number[u] >= f[s] /\ f[u] = number[u] + 1
  /\ \A u \in Held : number[u] >= f[s] => u \in DOMAIN f
  /\ \A t, u \in tx[w].drop : t = u

Pending ==
  \A w \in Request :
    /\ tx[w].step = "extra"         => ExtraFits(w)
    /\ tx[w].step = "cancel_loaded" => LoadFits(w)
    /\ tx[w].step = "cancel_locked" => CancelFits(w)
    /\ tx[w].step = "reactivate"    => ReactivateFits(w)

IInv == TypeOK /\ Subjects /\ Pending /\ CancelledIsZero /\ UniqueNumbers

LEMMA Initially == Init => IInv
<1> SUFFICES ASSUME Init PROVE IInv
  OBVIOUS
<1>1. NoTx \in Transaction /\ NoTx.step = "idle"
  <2>1. <<>> \in [{} -> Nat] /\ {} \in SUBSET SessionId
    OBVIOUS
  <2> QED BY <2>1 DEF NoTx, Transaction
<1>2. TypeOK
  BY <1>1, ConstantsAssumption DEF Init, TypeOK, SessionId, Status
<1>3. Subjects /\ Pending
  BY <1>1 DEF Init, Subjects, Pending
<1>4. CancelledIsZero /\ UniqueNumbers
  BY ConstantsAssumption DEF Init, CancelledIsZero, UniqueNumbers, Held, Exists, Status, SessionId
<1> QED BY <1>2, <1>3, <1>4 DEF IInv

(***************************************************************************)
(* What may happen between the steps of a request.                         *)
(***************************************************************************)

(* Sessions that take place are deleted or completed, and keep their       *)
(* numbers as long as they are there.                                      *)
Thinned ==
  /\ tx' = tx
  /\ \A u \in SessionId : /\ Exists(u)' => Exists(u) /\ number'[u] = number[u]
                          /\ u \in Held' <=> Exists(u)' /\ u \in Held
                          /\ Locked(u) => (Exists(u)' <=> Exists(u))

LEMMA BetweenThins ==
  ASSUME TypeOK, HeldPatches,
         \/ \E s \in SessionId : Delete(s)
         \/ \E s \in SessionId : \E to \in Status : PatchStatus(s, to)
         \/ \E s \in SessionId : \E st \in {"present", "absent", "cancelled"} : MarkAttendance(s, st)
         \/ UNCHANGED vars
  PROVE  Thinned
<1>1. ASSUME NEW s \in SessionId, Delete(s) PROVE Thinned
  BY <1>1 DEF Delete, Thinned, TypeOK, Exists, Held, Status
<1>2. ASSUME NEW s \in SessionId, NEW to \in Status, PatchStatus(s, to) PROVE Thinned
  <2>1. status[s] # "cancelled" /\ to # "cancelled" /\ status[s] \in Status
    BY <1>2, ConstantsAssumption DEF PatchStatus, HeldPatches
  <2> QED BY <1>2, <2>1 DEF PatchStatus, Thinned, TypeOK, Exists, Held, Status
<1>3. CASE UNCHANGED <<status, number, tx>>
  BY <1>3 DEF Thinned, Exists, Held
<1> QED BY <1>1, <1>2, <1>3 DEF MarkAttendance, vars

LEMMA ThinnedStep ==
  ASSUME TypeOK, TypeOK', Subjects, Pending, CancelledIsZero, UniqueNumbers, Thinned
  PROVE  Subjects' /\ Pending' /\ CancelledIsZero' /\ UniqueNumbers'
<1> USE DEF Thinned
<1>1. Subjects'
  BY DEF Subjects
<1>2. UniqueNumbers'
  BY DEF UniqueNumbers, Held
<1>3. CancelledIsZero'
  BY DEF CancelledIsZero, Held
<1>4. ASSUME NEW w \in Request, tx[w].step = "extra" PROVE ExtraFits(w)'
  BY <1>4 DEF Pending, ExtraFits
<1>5. ASSUME NEW w \in Request, tx[w].step = "cancel_loaded" PROVE LoadFits(w)'
  BY <1>5 DEF Pending, Subjects, LoadFits
<1>6. ASSUME NEW w \in Request, tx[w].step = "cancel_locked" PROVE CancelFits(w)'
  <2> DEFINE s == tx[w].id  f == tx[w].writes
  <2>1. CancelFits(w) /\ s \in SessionId /\ Locked(s) /\ DOMAIN f \subseteq SessionId
    BY <1>6 DEF Pending, Subjects, Locked, TypeOK, Transaction
  <2>2. s \in Held' /\ number'[s] = number[s]
    BY <2>1 DEF CancelFits, Held
  <2> QED BY <2>1, <2>2 DEF CancelFits, Held
<1>7. ASSUME NEW w \in Request, tx[w].step = "reactivate" PROVE ReactivateFits(w)'
  <2> DEFINE s == tx[w].id  f == tx[w].writes
  <2>1. ReactivateFits(w) /\ s \in SessionId /\ DOMAIN f \subseteq SessionId
    BY <1>7 DEF Pending, Subjects, TypeOK, Transaction
  <2>2. Exists(s)' => status'[s] = "cancelled"
    BY <2>1 DEF ReactivateFits, Held
  <2> QED BY <2>1, <2>2 DEF ReactivateFits, Held
<1> QED BY <1>1, <1>2, <1>3, <1>4, <1>5, <1>6, <1>7 DEF Pending

(***************************************************************************)
(* The steps of the one request.                                           *)
(***************************************************************************)
LEMMA RequestEnds ==
  ASSUME OneAtATime, TypeOK, NEW w \in Request, End(w)
  PROVE  Subjects' /\ Pending'
BY DEF OneAtATime, TypeOK, End, NoTx, Subjects, Pending

LEMMA ReadStep ==
  ASSUME OneAtATime, IInv, TypeOK', NEW w \in Request,
         \/ ExtraRead(w) \/ CancelLock(w)
         \/ \E s \in SessionId : CancelLoad(w, s) \/ ReactivateLoad(w, s)
  PROVE  IInv'
<1> USE DEF IInv, rows, OneAtATime
<1>1. UNCHANGED rows
  BY DEF ExtraRead, CancelLock, CancelLoad, ReactivateLoad
<1>2. CancelledIsZero' /\ UniqueNumbers'
  BY <1>1 DEF CancelledIsZero, UniqueNumbers, Held, Exists
<1>3. CASE ExtraRead(w)
  <2>1. tx'[w].step = "extra" /\ tx'[w].slot = NextNumber(number, {s \in SessionId : Exists(s)})
    BY <1>3 DEF ExtraRead, Begin, TypeOK, NoTx
  <2>2. ExtraFits(w)'
    <3>1. number \in [SessionId -> Nat] /\ {s \in SessionId : Exists(s)} \in SUBSET SessionId
      BY DEF TypeOK
    <3> QED BY <1>1, <2>1, <3>1, NextIsLarger DEF ExtraFits, Exists
  <2> QED BY <1>2, <2>1, <2>2 DEF Subjects, Pending
<1>4. ASSUME NEW s \in SessionId, CancelLoad(w, s) PROVE IInv'
  <2>1. tx'[w].step = "cancel_loaded" /\ tx'[w].id = s /\ tx'[w].slot = number[s]
    BY <1>4 DEF CancelLoad, Begin, TypeOK, NoTx
  <2>2. LoadFits(w)'
    BY <1>1, <1>4, <2>1 DEF CancelLoad, LoadFits, Exists, Held
  <2> QED BY <1>2, <2>1, <2>2 DEF Subjects, Pending
<1>5. CASE CancelLock(w)
  <2> DEFINE s == tx[w].id  f == CancelWrites(s, tx[w].slot)
  <2>1. s \in SessionId /\ s \in Held /\ tx[w].slot = number[s]
    BY <1>5 DEF CancelLock, Subjects, Pending, LoadFits
  <2>2. tx'[w].step = "cancel_locked" /\ tx'[w].id = s /\ tx'[w].writes = f
    <3>1. tx[w] \in Transaction
      BY DEF TypeOK
    <3> QED BY <1>5, <3>1 DEF CancelLock, TypeOK, Transaction
  <2>3. /\ DOMAIN f = Later(s, number[s]) \cup {s} /\ f[s] = 0
        /\ \A u \in Later(s, number[s]) : f[u] = number[u] - 1
    BY <2>1 DEF CancelWrites, Later
  <2>4. CancelFits(w)'
    <3> HIDE DEF f
    <3> QED BY <1>1, <2>1, <2>2, <2>3 DEF CancelFits, Later, Held, Exists
  <2> QED BY <1>2, <2>1, <2>2, <2>4 DEF Subjects, Pending
<1>6. ASSUME NEW s \in SessionId, ReactivateLoad(w, s) PROVE IInv'
  <2> DEFINE f == ReactivateWrites(s)  D == {u \in Held : number[u] >= FirstGap}
  <2>1. /\ tx'[w].step = "reactivate" /\ tx'[w].id = s /\ tx'[w].writes = f
        /\ \A t, u \in tx'[w].drop : t = u
    <3>1. PICK drop \in IF Held = {} THEN {{}} ELSE {{t} : t \in LastHeld} :
            tx' = [tx EXCEPT ![w] = [NoTx EXCEPT !.step = "reactivate", !.id = s,
                                       !.writes = f, !.drop = drop]]
      BY <1>6 DEF ReactivateLoad, Begin
    <3> HIDE DEF f
    <3> QED BY <3>1 DEF TypeOK, NoTx
  <2>2. status[s] = "cancelled"
    BY <1>6 DEF ReactivateLoad
  <2>3. /\ DOMAIN f = D \cup {s} /\ f[s] = FirstGap
        /\ \A u \in D : f[u] = number[u] + 1
    BY <2>2 DEF ReactivateWrites, Held
  <2>4. ReactivateFits(w)'
    <3> HIDE DEF f
    <3> QED BY <1>1, <2>1, <2>2, <2>3, GapExists DEF ReactivateFits, Held, Exists
  <2> QED BY <1>2, <2>1, <2>4 DEF Subjects, Pending
<1> QED BY <1>3, <1>4, <1>5, <1>6

LEMMA InsertStep ==
  ASSUME OneAtATime, IInv, TypeOK', NEW w \in Request, ExtraInsert(w)
  PROVE  IInv'
<1> USE DEF IInv
<1>1. PICK s \in SessionId : /\ status[s] = "absent"
                             /\ status' = [status EXCEPT ![s] = "scheduled"]
                             /\ number' = [number EXCEPT ![s] = tx[w].slot]
  BY DEF ExtraInsert, NewId
<1>2. ExtraFits(w) /\ tx[w].slot \in Nat
  BY DEF ExtraInsert, Pending, TypeOK, Transaction
<1>3. UniqueNumbers'
  BY <1>1, <1>2 DEF UniqueNumbers, Held, Exists, TypeOK, ExtraFits
<1>4. CancelledIsZero'
  BY <1>1, <1>2 DEF CancelledIsZero, Exists, TypeOK, ExtraFits
<1> QED BY <1>3, <1>4, RequestEnds DEF ExtraInsert

(* The numbers a cancellation writes: the cancelled session gets 0, those  *)
(* after it move up, and its replacement goes behind them all.             *)
Cancelled(s, r) ==
  /\ s \in Held /\ r \in SessionId /\ ~ Exists(r) /\ status[r] = "absent"
  /\ status' = [status EXCEPT ![s] = "cancelled", ![r] = "scheduled"]
  /\ number'[s] = 0 /\ number'[r] >= 1
  /\ number'[r] = 1 \/ \E u \in Held \ {s} : number'[u] + 1 = number'[r]
  /\ \A u \in Held \ {s} :
       /\ number'[u] = IF number[u] > number[s] THEN number[u] - 1 ELSE number[u]
       /\ number'[u] < number'[r]
  /\ \A u \in SessionId \ {r} : Exists(u) /\ u \notin Held /\ u # s => number'[u] = number[u]

LEMMA CancelWritten ==
  ASSUME IInv, NEW w \in Request, CancelCommit(w)
  PROVE  \E r \in SessionId : Cancelled(tx[w].id, r)
<1> USE DEF IInv
<1> DEFINE s == tx[w].id  f == tx[w].writes  E == {t \in SessionId : Exists(t)}
<1>1. PICK r \in SessionId : NewId(r) /\ Replacement(w, r)
  BY DEF CancelCommit, Replacement
<1>2. CancelFits(w) /\ s \in SessionId /\ DOMAIN f \subseteq SessionId
  BY DEF CancelCommit, Pending, Subjects, TypeOK, Transaction
<1>3. \A u \in DOMAIN f : Exists(u)
  BY DEF CancelCommit, CanWrite
<1>4. ~ Exists(r) /\ status[r] = "absent" /\ r \notin DOMAIN f /\ r # s
  BY <1>1, <1>2, <1>3 DEF NewId, Exists, Status, CancelFits
<1>5. /\ Written(w) \in [SessionId -> Nat]
      /\ \A t \in SessionId : Written(w)[t] = IF t \in DOMAIN f THEN f[t] ELSE number[t]
  BY WrittenNumbers
<1>6. /\ NextNumber(Written(w), E) \in Nat /\ NextNumber(Written(w), E) >= 1
      /\ \A u \in E : Written(w)[u] < NextNumber(Written(w), E)
  BY <1>5, NextIsLarger
<1>7. number' = [Written(w) EXCEPT ![r] = NextNumber(Written(w), E)]
  BY <1>1 DEF Replacement
<1>8. /\ number'[r] = NextNumber(Written(w), E)
      /\ \A u \in SessionId \ {r} : number'[u] = Written(w)[u]
  BY <1>5, <1>7
<1>9. status' = [status EXCEPT ![s] = "cancelled", ![r] = "scheduled"]
  BY <1>1 DEF Replacement
<1>10. s \in Held /\ number'[s] = 0
  BY <1>2, <1>4, <1>5, <1>8 DEF CancelFits
<1>11. ASSUME NEW u \in Held \ {s}
       PROVE  /\ number'[u] = IF number[u] > number[s] THEN number[u] - 1 ELSE number[u]
              /\ number'[u] < number'[r]
  <2>1. u \in E /\ u # r
    BY <1>4 DEF Held
  <2>2. Written(w)[u] = IF number[u] > number[s] THEN number[u] - 1 ELSE number[u]
    BY <1>2, <1>3, <1>5, <2>1 DEF CancelFits
  <2> QED BY <1>6, <1>8, <2>1, <2>2
<1>12. ASSUME NEW u \in SessionId \ {r}, Exists(u), u \notin Held, u # s
       PROVE  number'[u] = number[u]
  BY <1>2, <1>5, <1>8, <1>12 DEF CancelFits
<1>13. number'[r] = 1 \/ \E u \in Held \ {s} : number'[u] + 1 = number'[r]
  <2>1. CASE NextNumber(Written(w), E) = 1
    BY <1>8, <2>1
  <2>2. CASE \E u \in E : Written(w)[u] + 1 = NextNumber(Written(w), E)
    <3>1. PICK u \in E : Written(w)[u] + 1 = NextNumber(Written(w), E)
      BY <2>2
    <3>2. u # r /\ number'[u] = Written(w)[u] /\ number'[u] \in Nat
      BY <1>4, <1>5, <1>8, <3>1
    <3>3. CASE number'[u] = 0
      BY <1>8, <3>1, <3>2, <3>3
    <3>4. CASE number'[u] # 0
      <4>1. u # s
        BY <1>10, <3>4
      <4>2. u \in Held
        BY <1>12, <3>1, <3>2, <3>4, <4>1 DEF CancelledIsZero, Held
      <4> QED BY <1>8, <3>1, <3>2, <4>1, <4>2
    <3> QED BY <3>3, <3>4
  <2> QED BY <1>5, <2>1, <2>2, NextIsLarger
<1> QED BY <1>4, <1>6, <1>8, <1>9, <1>10, <1>11, <1>12, <1>13 DEF Cancelled

LEMMA CancelStep ==
  ASSUME OneAtATime, IInv, TypeOK', NEW w \in Request, CancelCommit(w)
  PROVE  IInv'
<1> USE DEF IInv
<1> DEFINE s == tx[w].id
<1>1. PICK r \in SessionId : Cancelled(s, r)
  BY CancelWritten
<1>2. Held' = (Held \ {s}) \cup {r} /\ r \notin Held
  BY <1>1 DEF Cancelled, Held, Exists, Status, TypeOK
<1>3. \A u \in Held : number[u] \in Nat /\ number[u] >= 1
  BY DEF CancelledIsZero, Held, TypeOK
<1>4. UniqueNumbers'
  <2> SUFFICES ASSUME NEW u \in Held', NEW v \in Held', u # v PROVE number'[u] # number'[v]
    BY DEF UniqueNumbers
  <2>1. CASE u = r \/ v = r
    <3>1. number'[u] \in Nat /\ number'[v] \in Nat
      BY DEF TypeOK, Held
    <3> QED BY <1>1, <1>2, <2>1, <3>1 DEF Cancelled
  <2>2. CASE u # r /\ v # r
    <3>1. u \in Held \ {s} /\ v \in Held \ {s} /\ s \in Held
      BY <1>1, <1>2, <2>2 DEF Cancelled
    <3>2. number[u] # number[v] /\ number[u] # number[s] /\ number[v] # number[s]
      BY <3>1 DEF UniqueNumbers
    <3> QED BY <1>1, <1>3, <3>1, <3>2 DEF Cancelled
  <2> QED BY <2>1, <2>2
<1>5. CancelledIsZero'
  <2> SUFFICES ASSUME NEW u \in SessionId, Exists(u)'
               PROVE  status'[u] = "cancelled" <=> number'[u] = 0
    BY DEF CancelledIsZero
  <2>1. CASE u = r \/ u = s
    BY <1>1, <2>1 DEF Cancelled, Exists, Held, Status, TypeOK
  <2>2. CASE u \in Held \ {s}
    BY <1>1, <1>3, <2>2 DEF Cancelled, Held, TypeOK
  <2>3. CASE u \notin Held /\ u # s /\ u # r
    BY <1>1, <2>3 DEF Cancelled, Held, Exists, TypeOK, CancelledIsZero
  <2> QED BY <2>1, <2>2, <2>3
<1> QED BY <1>4, <1>5, RequestEnds DEF CancelCommit

(* The numbers a reactivation writes: it moves the sessions from the gap   *)
(* on down by one, puts the session into the gap, and may delete some.     *)
Reactivated(s, g, gone) ==
  /\ s \in SessionId /\ status[s] = "cancelled" /\ g \in Nat /\ g >= 1
  /\ gone \subseteq SessionId /\ \A t, u \in gone : t = u
  /\ status' = [t \in SessionId |-> IF t \in gone THEN "deleted"
                                    ELSE IF t = s THEN "scheduled" ELSE status[t]]
  /\ s \notin gone => number'[s] = g
  /\ \A u \in SessionId \ ({s} \cup gone) :
       number'[u] = IF u \in Held /\ number[u] >= g THEN number[u] + 1
                    ELSE IF Exists(u) THEN number[u] ELSE number'[u]

LEMMA ReactivateWritten ==
  ASSUME IInv, NEW w \in Request, ReactivateCommit(w)
  PROVE  \E g, gone : Reactivated(tx[w].id, g, gone)
<1> USE DEF IInv
<1> DEFINE s == tx[w].id  f == tx[w].writes  gone == {t \in tx[w].drop : Exists(t)}
<1>1. /\ ReactivateFits(w) /\ s \in SessionId /\ DOMAIN f \subseteq SessionId
      /\ gone \subseteq SessionId /\ \A t, u \in gone : t = u
  BY DEF ReactivateCommit, Pending, Subjects, TypeOK, Transaction, ReactivateFits
<1>2. \A u \in DOMAIN f : Exists(u)
  BY DEF ReactivateCommit, CanWrite
<1>3. s \in DOMAIN f /\ f[s] \in Nat /\ f[s] >= 1 /\ status[s] = "cancelled"
  BY <1>1, <1>2 DEF ReactivateFits
<1>4. \A t \in SessionId : Written(w)[t] = IF t \in DOMAIN f THEN f[t] ELSE number[t]
  BY WrittenNumbers
<1>5. \A t \in SessionId : number'[t] = IF t \in gone THEN 0 ELSE Written(w)[t]
  BY DEF ReactivateCommit
<1>6. status' = [t \in SessionId |-> IF t \in gone THEN "deleted"
                                     ELSE IF t = s THEN "scheduled" ELSE status[t]]
  BY DEF ReactivateCommit
<1> HIDE DEF gone
<1>7. ASSUME NEW u \in SessionId \ ({s} \cup gone)
      PROVE  number'[u] = IF u \in Held /\ number[u] >= f[s] THEN number[u] + 1
                          ELSE IF Exists(u) THEN number[u] ELSE number'[u]
  <2>1. number'[u] = IF u \in DOMAIN f THEN f[u] ELSE number[u]
    BY <1>4, <1>5
  <2>2. CASE u \in DOMAIN f
    BY <1>1, <1>2, <2>1, <2>2 DEF ReactivateFits
  <2>3. CASE u \notin DOMAIN f
    BY <1>1, <2>1, <2>3 DEF ReactivateFits
  <2> QED BY <2>2, <2>3
<1>8. Reactivated(s, f[s], gone)
  BY <1>1, <1>3, <1>4, <1>5, <1>6, <1>7 DEF Reactivated
<1> QED BY <1>8

LEMMA ReactivateStep ==
  ASSUME OneAtATime, IInv, TypeOK', NEW w \in Request, ReactivateCommit(w)
  PROVE  IInv'
<1> USE DEF IInv
<1> DEFINE s == tx[w].id
<1>1. PICK g, gone : Reactivated(s, g, gone)
  BY ReactivateWritten
<1>2. \A u \in SessionId : Exists(u)' => u \notin gone /\ (u = s \/ Exists(u))
  BY <1>1 DEF Reactivated, Exists, Status
<1>3. \A u \in Held' : u \notin gone /\ (u = s \/ u \in Held)
  BY <1>1, <1>2 DEF Reactivated, Exists, Held, Status
<1>4. \A u \in Held : number[u] \in Nat /\ number[u] >= 1 /\ u # s
  BY <1>1 DEF CancelledIsZero, Held, TypeOK, Reactivated
<1>5. ASSUME NEW u \in Held', u # s
      PROVE  number'[u] = (IF number[u] >= g THEN number[u] + 1 ELSE number[u]) /\ u \in Held
  BY <1>1, <1>3, <1>5 DEF Reactivated, Held
<1>6. s \in Held' => number'[s] = g
  BY <1>1, <1>3 DEF Reactivated
<1>7. g \in Nat /\ g >= 1
  BY <1>1 DEF Reactivated
<1>8. UniqueNumbers'
  <2> SUFFICES ASSUME NEW u \in Held', NEW v \in Held', u # v PROVE number'[u] # number'[v]
    BY DEF UniqueNumbers
  <2>1. CASE u = s
    BY <1>4, <1>5, <1>6, <1>7, <2>1
  <2>2. CASE v = s
    BY <1>4, <1>5, <1>6, <1>7, <2>2
  <2>3. CASE u # s /\ v # s
    <3>1. u \in Held /\ v \in Held
      BY <1>5, <2>3
    <3>2. number[u] # number[v]
      BY <3>1 DEF UniqueNumbers
    <3> QED BY <1>4, <1>5, <1>7, <2>3, <3>1, <3>2
  <2> QED BY <2>1, <2>2, <2>3
<1>9. CancelledIsZero'
  <2> SUFFICES ASSUME NEW u \in SessionId, Exists(u)'
               PROVE  status'[u] = "cancelled" <=> number'[u] = 0
    BY DEF CancelledIsZero
  <2>1. u \notin gone /\ (u = s \/ Exists(u))
    BY <1>2
  <2>2. CASE u = s
    BY <1>1, <1>7, <2>1, <2>2 DEF Reactivated
  <2>3. CASE u # s /\ u \in Held
    BY <1>1, <1>4, <2>1, <2>3 DEF Reactivated, Held
  <2>4. CASE u # s /\ u \notin Held
    BY <1>1, <2>1, <2>4 DEF Reactivated, Held, CancelledIsZero
  <2> QED BY <2>2, <2>3, <2>4
<1> QED BY <1>8, <1>9, RequestEnds DEF ReactivateCommit

LEMMA Inductive ==
  ASSUME OneAtATime, HeldPatches, IInv, [Next]_vars
  PROVE  IInv'
<1>1. TypeOK'
  <2>1. CASE Next
    BY <2>1, TypeStep DEF IInv
  <2>2. CASE UNCHANGED vars
    BY <2>2 DEF IInv, TypeOK, vars
  <2> QED BY <2>1, <2>2
<1>2. ASSUME NEW w \in Request,
             \/ ExtraRead(w) \/ CancelLock(w)
             \/ \E s \in SessionId : CancelLoad(w, s) \/ ReactivateLoad(w, s)
      PROVE  IInv'
  BY <1>1, <1>2, ReadStep
<1>3. ASSUME NEW w \in Request, ExtraInsert(w) PROVE IInv'
  BY <1>1, <1>3, InsertStep
<1>4. ASSUME NEW w \in Request, CancelCommit(w) PROVE IInv'
  BY <1>1, <1>4, CancelStep
<1>5. ASSUME NEW w \in Request, ReactivateCommit(w) PROVE IInv'
  BY <1>1, <1>5, ReactivateStep
<1>6. ASSUME NEW w \in Request, Rollback(w) PROVE IInv'
  <2>1. CancelledIsZero' /\ UniqueNumbers'
    BY <1>6 DEF Rollback, rows, IInv, CancelledIsZero, UniqueNumbers, Held, Exists
  <2> QED BY <1>1, <1>6, <2>1, RequestEnds DEF Rollback, IInv
<1>7. CASE Thinned
  BY <1>1, <1>7, ThinnedStep DEF IInv
<1> QED
  BY <1>2, <1>3, <1>4, <1>5, <1>6, <1>7, BetweenThins DEF Next, IInv

(***************************************************************************)
(* The theorems.                                                           *)
(***************************************************************************)

(* Whatever is called, in whatever order, every column and everything a    *)
(* request carries has its type: no renumbering writes a number below 0.   *)
THEOREM TypeCorrect ==
  ASSUME OneAtATime, HeldPatches PROVE Spec => []TypeOK
<1>1. Init => IInv
  BY Initially
<1>2. IInv /\ [Next]_vars => IInv'
  BY Inductive
<1>3. IInv => TypeOK
  BY DEF IInv
<1> QED BY <1>1, <1>2, <1>3, PTL DEF Spec

(* With one numbering request at a time and no status patched into or out  *)
(* of cancelled, two sessions that take place never have the same number,  *)
(* however adding, cancelling, reactivating and deleting follow another.   *)
THEOREM NumbersAreUnique ==
  ASSUME OneAtATime, HeldPatches PROVE Spec => []UniqueNumbers
<1>1. Init => IInv
  BY Initially
<1>2. IInv /\ [Next]_vars => IInv'
  BY Inductive
<1>3. IInv => UniqueNumbers
  BY DEF IInv
<1> QED BY <1>1, <1>2, <1>3, PTL DEF Spec

(* Under the same conditions a session is numbered 0 exactly if it is      *)
(* cancelled.                                                              *)
THEOREM CancelledAreZero ==
  ASSUME OneAtATime, HeldPatches PROVE Spec => []CancelledIsZero
<1>1. Init => IInv
  BY Initially
<1>2. IInv /\ [Next]_vars => IInv'
  BY Inductive
<1>3. IInv => CancelledIsZero
  BY DEF IInv
<1> QED BY <1>1, <1>2, <1>3, PTL DEF Spec

(* A step keeps the order of the sessions that take place before and after. *)
OrderStep ==
  \A s, t \in Held \cap Held' : number[s] < number[t] => number'[s] < number'[t]

LEMMA OrderFollows ==
  ASSUME HeldPatches, IInv, [Next]_vars
  PROVE  OrderStep
<1> USE DEF IInv
<1>1. \A u \in Held : u \in SessionId /\ Exists(u) /\ number[u] \in Nat
  BY DEF Held, TypeOK
<1>2. CASE UNCHANGED number
  BY <1>2 DEF OrderStep
<1>3. ASSUME NEW w \in Request, ExtraInsert(w) PROVE OrderStep
  <2>1. PICK r \in SessionId : status[r] = "absent" /\ number' = [number EXCEPT ![r] = tx[w].slot]
    BY <1>3 DEF ExtraInsert, NewId
  <2>2. \A u \in Held : number'[u] = number[u]
    BY <2>1 DEF Held, Exists, Status, TypeOK
  <2> QED BY <2>2 DEF OrderStep
<1>4. ASSUME NEW w \in Request, CancelCommit(w) PROVE OrderStep
  <2> DEFINE s == tx[w].id
  <2>1. PICK r \in SessionId : Cancelled(s, r)
    BY <1>4, CancelWritten
  <2>2. s \in Held /\ s \notin Held'
    BY <2>1 DEF Cancelled, Held, TypeOK
  <2>3. \A u \in Held \ {s} : number[u] # number[s]
    BY <2>2 DEF UniqueNumbers
  <2> QED BY <1>1, <2>1, <2>2, <2>3 DEF OrderStep, Cancelled
<1>5. ASSUME NEW w \in Request, ReactivateCommit(w) PROVE OrderStep
  <2> DEFINE s == tx[w].id
  <2>1. PICK g, gone : Reactivated(s, g, gone)
    BY <1>5, ReactivateWritten
  <2>2. \A u \in Held \cap Held' : u \notin gone /\ u # s
    BY <2>1 DEF Reactivated, Held, Exists, Status
  <2>3. \A u \in Held \cap Held' :
          number'[u] = IF number[u] >= g THEN number[u] + 1 ELSE number[u]
    BY <1>1, <2>1, <2>2 DEF Reactivated
  <2>4. g \in Nat
    BY <2>1 DEF Reactivated
  <2> QED BY <1>1, <2>3, <2>4 DEF OrderStep
<1>6. CASE Thinned
  BY <1>1, <1>6 DEF Thinned, OrderStep, Held
<1>7. ASSUME NEW w \in Request,
             \/ ExtraRead(w) \/ CancelLock(w) \/ Rollback(w)
             \/ \E s \in SessionId : CancelLoad(w, s) \/ ReactivateLoad(w, s)
      PROVE  OrderStep
  BY <1>2, <1>7 DEF ExtraRead, CancelLock, Rollback, CancelLoad, ReactivateLoad, rows
<1> QED
  BY <1>3, <1>4, <1>5, <1>6, <1>7, BetweenThins DEF Next

(* Under the same conditions no step swaps two sessions that take place    *)
(* before and after it.                                                    *)
THEOREM OrderIsKept ==
  ASSUME OneAtATime, HeldPatches PROVE Spec => OrderKept
<1>1. Init => IInv
  BY Initially
<1>2. IInv /\ [Next]_vars => IInv'
  BY Inductive
<1>3. IInv /\ [Next]_vars
        => [\A s, t \in Held \cap Held' : number[s] < number[t] => number'[s] < number'[t]]_vars
  BY OrderFollows DEF OrderStep
<1> QED BY <1>1, <1>2, <1>3, PTL DEF Spec, OrderKept

(* No step leaves fewer sessions to take place, but a delete_session.      *)
LessonsStep ==
  Cardinality(Held') < Cardinality(Held)
    => UNCHANGED tx /\ \E s \in Held : status'[s] = "deleted"

LEMMA LessonsFollow ==
  ASSUME HeldPatches, IInv, [Next]_vars
  PROVE  LessonsStep
<1> USE DEF IInv
<1>1. IsFiniteSet(Held) /\ Cardinality(Held) \in Nat
  BY SessionsAreFinite, FS_CardinalityType DEF Held
<1>2. IsFiniteSet(Held') /\ Cardinality(Held') \in Nat
  BY SessionsAreFinite, FS_CardinalityType DEF Held
<1>3. CASE Held \subseteq Held'
  <2>1. Cardinality(Held) <= Cardinality(Held')
    BY <1>2, <1>3, FS_Subset
  <2> QED BY <1>1, <1>2, <2>1 DEF LessonsStep
<1>4. ASSUME NEW s \in SessionId, NEW r \in SessionId,
             r \notin Held, Held \ {s} \subseteq Held', r \in Held'
      PROVE  LessonsStep
  <2>1. /\ IsFiniteSet(Held \ {s})
        /\ Cardinality(Held \ {s}) = IF s \in Held THEN Cardinality(Held) - 1 ELSE Cardinality(Held)
    BY <1>1, FS_RemoveElement
  <2>2. Cardinality((Held \ {s}) \cup {r}) = Cardinality(Held \ {s}) + 1
    BY <1>4, <2>1, FS_AddElement
  <2>3. Cardinality((Held \ {s}) \cup {r}) <= Cardinality(Held')
    BY <1>2, <1>4, FS_Subset
  <2> QED BY <1>1, <1>2, <2>1, <2>2, <2>3 DEF LessonsStep
<1>5. ASSUME NEW s \in SessionId, Delete(s) PROVE LessonsStep
  <2>1. CASE s \in Held
    BY <1>5, <2>1 DEF Delete, LessonsStep, TypeOK
  <2>2. CASE s \notin Held
    <3>1. Held \subseteq Held'
      BY <1>5, <2>2 DEF Delete, Held, Exists, TypeOK
    <3> QED BY <1>3, <3>1
  <2> QED BY <2>1, <2>2
<1>6. ASSUME NEW s \in SessionId, NEW to \in Status, PatchStatus(s, to) PROVE LessonsStep
  <2>1. to # "cancelled"
    BY <1>6, ConstantsAssumption DEF PatchStatus, HeldPatches
  <2>2. Held \subseteq Held'
    BY <1>6, <2>1 DEF PatchStatus, Held, Exists, TypeOK
  <2> QED BY <1>3, <2>2
<1>7. ASSUME NEW w \in Request, ExtraInsert(w) PROVE LessonsStep
  <2>1. PICK r \in SessionId : status[r] = "absent" /\ status' = [status EXCEPT ![r] = "scheduled"]
    BY <1>7 DEF ExtraInsert, NewId
  <2>2. Held \subseteq Held'
    BY <2>1 DEF Held, Exists, Status, TypeOK
  <2> QED BY <1>3, <2>2
<1>8. ASSUME NEW w \in Request, CancelCommit(w) PROVE LessonsStep
  <2> DEFINE s == tx[w].id
  <2>1. PICK r \in SessionId : Cancelled(s, r)
    BY <1>8, CancelWritten
  <2>2. s \in SessionId /\ r \notin Held /\ Held \ {s} \subseteq Held' /\ r \in Held'
    BY <2>1 DEF Cancelled, Held, Exists, Status, TypeOK
  <2> QED BY <1>4, <2>1, <2>2 DEF Cancelled
<1>9. ASSUME NEW w \in Request, ReactivateCommit(w) PROVE LessonsStep
  <2> DEFINE s == tx[w].id
  <2>1. PICK g, gone : Reactivated(s, g, gone)
    BY <1>9, ReactivateWritten
  <2>2. s \notin Held /\ status[s] = "cancelled" /\ s \in SessionId
    BY <2>1 DEF Reactivated, Held
  <2>3. CASE s \in gone
    <3>1. Held \subseteq Held'
      BY <2>1, <2>2, <2>3 DEF Reactivated, Held, Exists, Status
    <3> QED BY <1>3, <3>1
  <2>4. CASE s \notin gone
    <3>1. PICK t \in SessionId : gone \subseteq {t}
      BY <2>1, <2>2 DEF Reactivated
    <3>2. Held \ {t} \subseteq Held' /\ s \in Held'
      BY <2>1, <2>2, <2>4, <3>1 DEF Reactivated, Held, Exists, Status
    <3> QED BY <1>4, <2>2, <3>2
  <2> QED BY <2>3, <2>4
<1>10. CASE UNCHANGED status
  <2>1. Held \subseteq Held'
    BY <1>10 DEF Held, Exists
  <2> QED BY <1>3, <2>1
<1> QED
  BY <1>5, <1>6, <1>7, <1>8, <1>9, <1>10
  DEF Next, vars, ExtraRead, CancelLock, Rollback, CancelLoad, ReactivateLoad, MarkAttendance, rows

(* Under the same conditions cancelling, reactivating and adding never     *)
(* lower the number of sessions that take place.                           *)
THEOREM NoLessonIsLost ==
  ASSUME OneAtATime, HeldPatches PROVE Spec => LessonsKept
<1>1. Init => IInv
  BY Initially
<1>2. IInv /\ [Next]_vars => IInv'
  BY Inductive
<1>3. IInv /\ [Next]_vars
        => [Cardinality(Held') < Cardinality(Held)
              => UNCHANGED tx /\ \E s \in Held : status'[s] = "deleted"]_vars
  BY LessonsFollow DEF LessonsStep
<1> QED BY <1>1, <1>2, <1>3, PTL DEF Spec, LessonsKept

(***************************************************************************)
(* Numbers without a gap.                                                  *)
(***************************************************************************)

(* Below the number of a session that takes place every number is used.    *)
Dense ==
  \A u \in Held : \A n \in Nat : 1 <= n /\ n <= number[u] => \E v \in Held : number[v] = n

(* The number an added session is going to get follows one that is used;   *)
(* a reactivation that deletes nothing found no session that takes place,  *)
(* and one that deletes a session still finds it.                          *)
PendingDense ==
  \A w \in Request :
    /\ tx[w].step = "extra" =>
         tx[w].slot = 1 \/ \E u \in Held : number[u] + 1 = tx[w].slot
    /\ tx[w].step = "reactivate" =>
         \/ \E t \in tx[w].drop : Exists(t)
         \/ Held = {} /\ tx[w].writes[tx[w].id] = 1

SomeDeleted == \E s \in SessionId : status[s] = "deleted"

DInv == IInv /\ (SomeDeleted \/ (Dense /\ PendingDense))

(* Without sessions the first gap is the number 1. *)
LEMMA NoneHeld == Held = {} => FirstGap = 1
<1> SUFFICES ASSUME Held = {} PROVE FirstGap = 1
  OBVIOUS
<1>1. Cardinality(Held) = 0 /\ \A e : {s \in Held : number[s] <= e} = {}
  BY FS_EmptySet
<1>2. {e \in 1 .. (Cardinality(Held) + 1) :
         Cardinality({s \in Held : number[s] <= e}) < e} = {1}
  BY <1>1, FS_EmptySet
<1> QED BY <1>2 DEF FirstGap, Smallest

(* What was deleted stays deleted. *)
LEMMA DeletedStays ==
  ASSUME IInv, [Next]_vars, SomeDeleted
  PROVE  SomeDeleted'
<1> USE DEF IInv
<1>1. PICK d \in SessionId : status[d] = "deleted"
  BY DEF SomeDeleted
<1>2. ~ Exists(d) /\ status[d] # "absent" /\ d \notin Held
  BY <1>1 DEF Exists, Status, Held
<1>3. status'[d] = "deleted"
  <2>1. ASSUME NEW w \in Request, ExtraInsert(w) PROVE status'[d] = "deleted"
    BY <1>1, <1>2, <2>1 DEF ExtraInsert, NewId, TypeOK
  <2>2. ASSUME NEW w \in Request, CancelCommit(w) PROVE status'[d] = "deleted"
    <3>1. CancelFits(w) /\ tx[w].id # d
      BY <1>2, <2>2 DEF CancelCommit, Pending, CancelFits
    <3> QED BY <1>1, <1>2, <2>2, <3>1 DEF CancelCommit, Replacement, NewId, TypeOK
  <2>3. ASSUME NEW w \in Request, ReactivateCommit(w) PROVE status'[d] = "deleted"
    <3>1. PICK g, gone : Reactivated(tx[w].id, g, gone)
      BY <2>3, ReactivateWritten
    <3> QED BY <1>1, <3>1 DEF Reactivated
  <2>4. ASSUME NEW s \in SessionId, Delete(s) PROVE status'[d] = "deleted"
    BY <1>1, <2>4 DEF Delete, TypeOK
  <2>5. ASSUME NEW s \in SessionId, NEW to \in Status, PatchStatus(s, to)
        PROVE  status'[d] = "deleted"
    <3>1. status[s] \in Status
      BY <2>5, ConstantsAssumption DEF PatchStatus
    <3> QED BY <1>1, <1>2, <2>5, <3>1 DEF PatchStatus, TypeOK, Exists
  <2>6. CASE UNCHANGED status
    BY <1>1, <2>6
  <2> QED
    BY <2>1, <2>2, <2>3, <2>4, <2>5, <2>6
    DEF Next, vars, ExtraRead, CancelLock, Rollback, CancelLoad, ReactivateLoad, MarkAttendance, rows
<1> QED BY <1>3 DEF SomeDeleted

LEMMA DenseInsert ==
  ASSUME OneAtATime, IInv, IInv', Dense, PendingDense, NEW w \in Request, ExtraInsert(w)
  PROVE  Dense' /\ PendingDense'
<1> USE DEF IInv
<1>1. PICK r \in SessionId : /\ status[r] = "absent"
                             /\ status' = [status EXCEPT ![r] = "scheduled"]
                             /\ number' = [number EXCEPT ![r] = tx[w].slot]
  BY DEF ExtraInsert, NewId
<1>2. /\ tx[w].slot \in Nat
      /\ tx[w].slot = 1 \/ \E u \in Held : number[u] + 1 = tx[w].slot
  BY DEF ExtraInsert, PendingDense, TypeOK, Transaction
<1>3. Held' = Held \cup {r} /\ r \notin Held
  BY <1>1 DEF Held, Exists, Status, TypeOK
<1>4. /\ number'[r] = tx[w].slot
      /\ \A u \in Held : number'[u] = number[u] /\ number[u] \in Nat
  BY <1>1, <1>3 DEF Held, TypeOK
<1>5. Dense'
  <2> SUFFICES ASSUME NEW u \in Held', NEW n \in Nat, 1 <= n, n <= number'[u]
               PROVE  \E v \in Held' : number'[v] = n
    BY DEF Dense
  <2>1. ASSUME NEW x \in Held, n <= number[x] PROVE \E v \in Held' : number'[v] = n
    <3>1. PICK v \in Held : number[v] = n
      BY <2>1 DEF Dense
    <3> QED BY <1>3, <1>4, <3>1
  <2>2. CASE u \in Held
    BY <1>4, <2>1, <2>2
  <2>3. CASE u = r /\ n = tx[w].slot
    BY <1>3, <1>4, <2>3
  <2>4. CASE u = r /\ n # tx[w].slot
    <3>1. n < tx[w].slot /\ tx[w].slot # 1
      BY <1>2, <1>4, <2>4
    <3>2. PICK x \in Held : number[x] + 1 = tx[w].slot
      BY <1>2, <3>1
    <3> QED BY <1>2, <1>4, <2>1, <3>1, <3>2
  <2> QED BY <1>3, <2>2, <2>3, <2>4
<1>6. PendingDense'
  BY DEF OneAtATime, TypeOK, ExtraInsert, End, NoTx, PendingDense
<1> QED BY <1>5, <1>6

LEMMA DenseCancel ==
  ASSUME OneAtATime, IInv, IInv', Dense, NEW w \in Request, CancelCommit(w)
  PROVE  Dense' /\ PendingDense'
<1> USE DEF IInv
<1> DEFINE s == tx[w].id
<1>1. PICK r \in SessionId : Cancelled(s, r)
  BY CancelWritten
<1>2. Held' = (Held \ {s}) \cup {r} /\ r \notin Held /\ s \in Held
  BY <1>1 DEF Cancelled, Held, Exists, Status, TypeOK
<1>3. \A u \in Held : number[u] \in Nat
  BY DEF Held, TypeOK
<1>4. \A u \in Held \ {s} :
        /\ number[u] # number[s]
        /\ number'[u] = IF number[u] > number[s] THEN number[u] - 1 ELSE number[u]
  BY <1>1, <1>2 DEF Cancelled, UniqueNumbers
<1>5. /\ number'[r] \in Nat
      /\ number'[r] = 1 \/ \E u \in Held \ {s} : number'[u] + 1 = number'[r]
  BY <1>1, <1>2 DEF Cancelled, TypeOK
<1>6. ASSUME NEW u \in Held \ {s}, NEW n \in Nat, 1 <= n, n <= number'[u]
      PROVE  \E v \in Held' : number'[v] = n
  <2>1. CASE n < number[s]
    <3>1. n <= number[u]
      BY <1>3, <1>4, <1>6
    <3>2. PICK v \in Held : number[v] = n
      BY <1>6, <3>1 DEF Dense
    <3>3. v \in Held \ {s} /\ ~ (number[v] > number[s])
      BY <1>2, <1>3, <2>1, <3>2
    <3> QED BY <1>2, <1>4, <3>2, <3>3
  <2>2. CASE ~ (n < number[s])
    <3>1. number[u] > number[s] /\ n + 1 <= number[u]
      BY <1>2, <1>3, <1>4, <1>6, <2>2
    <3>2. PICK v \in Held : number[v] = n + 1
      BY <1>6, <3>1 DEF Dense
    <3>3. v \in Held \ {s} /\ number[v] > number[s]
      BY <1>2, <1>3, <2>2, <3>2
    <3> QED BY <1>2, <1>4, <3>2, <3>3
  <2> QED BY <2>1, <2>2
<1>7. Dense'
  <2> SUFFICES ASSUME NEW u \in Held', NEW n \in Nat, 1 <= n, n <= number'[u]
               PROVE  \E v \in Held' : number'[v] = n
    BY DEF Dense
  <2>1. CASE u # r
    BY <1>2, <1>6, <2>1
  <2>2. CASE u = r /\ n = number'[r]
    BY <1>2, <2>2
  <2>3. CASE u = r /\ n # number'[r]
    <3>1. PICK x \in Held \ {s} : number'[x] + 1 = number'[r]
      BY <1>5, <2>3
    <3>2. number'[x] \in Nat
      BY <3>1, <1>2 DEF Held, TypeOK
    <3> QED BY <1>5, <1>6, <2>3, <3>1, <3>2
  <2> QED BY <2>1, <2>2, <2>3
<1>8. PendingDense'
  BY DEF OneAtATime, TypeOK, CancelCommit, End, NoTx, PendingDense
<1> QED BY <1>7, <1>8

(* A reactivation deletes a session, or finds the level empty.             *)
LEMMA DenseReactivate ==
  ASSUME OneAtATime, IInv, IInv', PendingDense, NEW w \in Request, ReactivateCommit(w)
  PROVE  SomeDeleted' \/ (Dense' /\ PendingDense')
<1> USE DEF IInv
<1> DEFINE s == tx[w].id
<1>1. s \in SessionId /\ tx[w].drop \subseteq SessionId /\ tx[w].step = "reactivate"
  BY DEF ReactivateCommit, Subjects, TypeOK, Transaction
<1>2. CASE \E t \in tx[w].drop : Exists(t)
  <2>1. PICK t \in tx[w].drop : Exists(t)
    BY <1>2
  <2>2. status'[t] = "deleted"
    BY <1>1, <2>1 DEF ReactivateCommit
  <2> QED BY <1>1, <2>1, <2>2 DEF SomeDeleted
<1>3. CASE ~ (\E t \in tx[w].drop : Exists(t))
  <2>1. Held = {} /\ tx[w].writes[s] = 1
    BY <1>1, <1>3 DEF PendingDense
  <2>2. s \in DOMAIN tx[w].writes
    BY <1>1 DEF Pending, ReactivateFits
  <2>3. number'[s] = 1
    <3>1. {t \in tx[w].drop : Exists(t)} = {}
      BY <1>3
    <3>2. number'[s] = Written(w)[s]
      BY <1>1, <3>1 DEF ReactivateCommit
    <3> QED BY <1>1, <2>1, <2>2, <3>2, WrittenNumbers
  <2>4. Held' \subseteq {s} /\ s \in Held'
    BY <1>1, <1>3, <2>1 DEF ReactivateCommit, Held, Exists, Status
  <2>5. Dense'
    BY <2>3, <2>4 DEF Dense
  <2>6. PendingDense'
    BY DEF OneAtATime, TypeOK, ReactivateCommit, End, NoTx, PendingDense
  <2> QED BY <2>5, <2>6
<1> QED BY <1>2, <1>3

LEMMA DenseRead ==
  ASSUME OneAtATime, IInv, IInv', Dense, NEW w \in Request,
         \/ ExtraRead(w) \/ CancelLock(w) \/ Rollback(w)
         \/ \E s \in SessionId : CancelLoad(w, s) \/ ReactivateLoad(w, s)
  PROVE  Dense' /\ PendingDense'
<1> USE DEF IInv, rows, OneAtATime
<1>1. Held' = Held /\ number' = number /\ \A u \in SessionId : Exists(u)' <=> Exists(u)
  BY DEF ExtraRead, CancelLock, CancelLoad, ReactivateLoad, Rollback, Held, Exists
<1>2. Dense'
  BY <1>1 DEF Dense
<1>3. CASE ExtraRead(w)
  <2> DEFINE E == {u \in SessionId : Exists(u)}
  <2>1. tx'[w].step = "extra" /\ tx'[w].slot = NextNumber(number, E)
    BY <1>3 DEF ExtraRead, Begin, TypeOK, NoTx
  <2>2. \/ NextNumber(number, E) = 1
        \/ \E u \in E : number[u] + 1 = NextNumber(number, E) /\ NextNumber(number, E) # 1
    BY NextIsLarger DEF TypeOK
  <2>3. \A u \in E : u \in Held \/ number[u] + 1 = 1
    BY DEF CancelledIsZero, Held
  <2>4. NextNumber(number, E) = 1 \/ \E u \in Held : number[u] + 1 = NextNumber(number, E)
    BY <2>2, <2>3
  <2> QED BY <1>1, <1>2, <2>1, <2>4 DEF PendingDense
<1>4. ASSUME NEW s \in SessionId, ReactivateLoad(w, s) PROVE PendingDense'
  <2> DEFINE f == ReactivateWrites(s)
  <2>1. PICK drop \in IF Held = {} THEN {{}} ELSE {{t} : t \in LastHeld} :
          tx' = [tx EXCEPT ![w] = [NoTx EXCEPT !.step = "reactivate", !.id = s,
                                     !.writes = f, !.drop = drop]]
    BY <1>4 DEF ReactivateLoad, Begin
  <2>2. f[s] = FirstGap
    BY DEF ReactivateWrites
  <2> HIDE DEF f
  <2>3. /\ tx'[w].step = "reactivate" /\ tx'[w].id = s /\ tx'[w].writes = f
        /\ tx'[w].drop = drop
    BY <2>1 DEF TypeOK, NoTx
  <2>4. CASE Held = {}
    <3>1. f[s] = 1
      BY <2>2, <2>4, NoneHeld
    <3> QED BY <1>1, <2>3, <2>4, <3>1 DEF PendingDense
  <2>5. CASE Held # {}
    <3>1. PICK t \in Held : drop = {t}
      BY <2>1, <2>5 DEF LastHeld
    <3>2. t \in SessionId /\ Exists(t)
      BY DEF Held
    <3> QED BY <1>1, <2>3, <3>1, <3>2 DEF PendingDense
  <2> QED BY <2>4, <2>5
<1>5. ASSUME NEW s \in SessionId, CancelLoad(w, s) PROVE PendingDense'
  BY <1>5 DEF CancelLoad, Begin, TypeOK, NoTx, PendingDense
<1>6. CASE CancelLock(w)
  <2>1. tx[w] \in Transaction
    BY DEF TypeOK
  <2>2. tx'[w].step = "cancel_locked"
    BY <1>6, <2>1 DEF CancelLock, TypeOK, Transaction
  <2> QED BY <1>2, <2>2 DEF PendingDense, OneAtATime
<1>7. CASE Rollback(w)
  BY <1>2, <1>7 DEF Rollback, End, TypeOK, NoTx, PendingDense
<1> QED BY <1>2, <1>3, <1>4, <1>5, <1>6, <1>7

LEMMA DenseInductive ==
  ASSUME OneAtATime, HeldPatches, DInv, [Next]_vars
  PROVE  DInv'
<1> USE DEF DInv
<1>1. IInv'
  BY Inductive
<1>2. CASE SomeDeleted
  BY <1>1, <1>2, DeletedStays
<1>3. CASE Dense /\ PendingDense
  <2>1. ASSUME NEW w \in Request,
               \/ ExtraRead(w) \/ CancelLock(w) \/ Rollback(w)
               \/ \E s \in SessionId : CancelLoad(w, s) \/ ReactivateLoad(w, s)
        PROVE  DInv'
    BY <1>1, <1>3, <2>1, DenseRead
  <2>2. ASSUME NEW w \in Request, ExtraInsert(w) PROVE DInv'
    BY <1>1, <1>3, <2>2, DenseInsert
  <2>3. ASSUME NEW w \in Request, CancelCommit(w) PROVE DInv'
    BY <1>1, <1>3, <2>3, DenseCancel
  <2>4. ASSUME NEW w \in Request, ReactivateCommit(w) PROVE DInv'
    BY <1>1, <1>3, <2>4, DenseReactivate
  <2>5. ASSUME NEW s \in SessionId, Delete(s) PROVE DInv'
    BY <1>1, <2>5 DEF Delete, IInv, TypeOK, SomeDeleted
  <2>6. CASE /\ Held' = Held /\ number' = number /\ tx' = tx
             /\ \A u \in SessionId : Exists(u)' <=> Exists(u)
    <3>1. Dense'
      BY <1>3, <2>6 DEF Dense
    <3>2. PendingDense'
      <4>1. \A w \in Request : tx[w].drop \subseteq SessionId
        BY DEF IInv, TypeOK, Transaction
      <4> QED BY <1>3, <2>6, <4>1 DEF PendingDense
    <3> QED BY <1>1, <3>1, <3>2
  <2>7. ASSUME NEW s \in SessionId, NEW to \in Status, PatchStatus(s, to) PROVE DInv'
    <3>1. status[s] # "cancelled" /\ to # "cancelled" /\ status[s] \in Status
      BY <2>7, ConstantsAssumption DEF PatchStatus, HeldPatches
    <3>2. \A u \in SessionId : Exists(u)' <=> Exists(u)
      BY <2>7, <3>1 DEF PatchStatus, IInv, TypeOK, Exists
    <3>3. Held' = Held /\ number' = number /\ tx' = tx
      BY <2>7, <3>1, <3>2 DEF PatchStatus, IInv, TypeOK, Held
    <3> QED BY <2>6, <3>2, <3>3
  <2>8. CASE UNCHANGED <<status, number, tx>>
    BY <2>6, <2>8 DEF Held, Exists
  <2> QED
    BY <2>1, <2>2, <2>3, <2>4, <2>5, <2>7, <2>8 DEF Next, vars, MarkAttendance
<1> QED BY <1>2, <1>3

LEMMA DenseAtFirst == Init => DInv
<1> SUFFICES ASSUME Init PROVE DInv
  OBVIOUS
<1>1. IInv
  BY Initially
<1>2. NoTx.step = "idle"
  BY DEF NoTx
<1>3. PendingDense
  BY <1>2 DEF Init, PendingDense
<1>4. PerLevel \in Nat /\ PerLevel <= MaxSessions /\ MaxSessions \in Nat
  BY ConstantsAssumption
<1>5. Held = 1 .. PerLevel /\ \A u \in Held : number[u] = u
  BY <1>4 DEF Init, Held, Exists, Status, SessionId
<1>6. Dense
  BY <1>4, <1>5 DEF Dense
<1> QED BY <1>1, <1>3, <1>6 DEF DInv

(* Distinct numbers with every smaller one among them are 1 to their count. *)
LEMMA DenseIsCounted ==
  ASSUME IInv, Dense
  PROVE  {number[s] : s \in Held} = 1 .. Cardinality(Held)
<1> USE DEF IInv
<1> DEFINE T == {number[s] : s \in Held}
           f == [s \in Held |-> number[s]]
<1>1. IsFiniteSet(Held)
  BY SessionsAreFinite DEF Held
<1>2. f \in Bijection(Held, T)
  <2>1. f \in [Held -> T] /\ \A u, v \in Held : f[u] = f[v] => u = v
    BY DEF UniqueNumbers
  <2>2. \A t \in T : \E u \in Held : f[u] = t
    OBVIOUS
  <2> HIDE DEF f, T
  <2> QED BY <2>1, <2>2 DEF Bijection, Injection, Surjection, IsInjective
<1>3. IsFiniteSet(T) /\ Cardinality(T) = Cardinality(Held)
  BY <1>1, <1>2, FS_Bijection DEF ExistsBijection
<1>4. T \in SUBSET Nat /\ \A t \in T : t >= 1
  BY DEF CancelledIsZero, Held, TypeOK
<1>5. \A t \in T : \A n \in Nat : 1 <= n /\ n <= t => n \in T
  BY DEF Dense
<1> HIDE DEF T, f
<1>6. CASE T = {}
  <2>1. Cardinality(T) = 0
    BY <1>6, FS_EmptySet
  <2> QED BY <1>3, <1>6, <2>1 DEF T
<1>7. CASE T # {}
  <2> DEFINE m == Largest(T)
  <2>1. m \in T /\ \A t \in T : t <= m
    BY <1>3, <1>4, <1>7, LargestExists
  <2> HIDE DEF m
  <2>2. m \in Nat /\ m >= 1
    BY <1>4, <2>1
  <2>3. T = 1 .. m
    <3>1. ASSUME NEW t \in T PROVE t \in 1 .. m
      BY <1>4, <2>1, <2>2
    <3>2. ASSUME NEW n \in 1 .. m PROVE n \in T
      <4>1. n \in Nat /\ 1 <= n /\ n <= m
        BY <2>2
      <4> QED BY <1>5, <2>1, <4>1
    <3> QED BY <3>1, <3>2
  <2>4. Cardinality(1 .. m) = m
    BY <2>2, FS_Interval
  <2> QED BY <1>3, <2>3, <2>4 DEF T
<1> QED BY <1>6, <1>7

(* Under the same conditions the sessions that take place are numbered 1   *)
(* to n without a gap, unless a session of the level has been deleted:     *)
(* cancelling, adding and reactivating alone never leave one.              *)
THEOREM NoGapWithoutDeletes ==
  ASSUME OneAtATime, HeldPatches PROVE Spec => []GapsNeedDeletes
<1>1. Init => DInv
  BY DenseAtFirst
<1>2. DInv /\ [Next]_vars => DInv'
  BY DenseInductive
<1>3. DInv => GapsNeedDeletes
  BY DenseIsCounted DEF DInv, SomeDeleted, GapsNeedDeletes
<1> QED BY <1>1, <1>2, <1>3, PTL DEF Spec

(***************************************************************************)
(* How large a number gets.                                                *)
(***************************************************************************)

(* The rows ever inserted: no number is larger than how many there are, nor *)
(* is any that a request is going to write.                                *)
Used == {s \in SessionId : status[s] # "absent"}

Bounded == \A u \in Held : number[u] <= Cardinality(Used)

PendingBounded ==
  \A w \in Request :
    /\ tx[w].step = "extra" => tx[w].slot <= Cardinality(Used) + 1
    /\ tx[w].step = "reactivate" =>
         \A u \in DOMAIN tx[w].writes \ tx[w].drop : tx[w].writes[u] <= Cardinality(Used)

(* The level has the sessions it was created with. *)
Enough == Cardinality(Held) >= PerLevel

BInv == DInv /\ Bounded /\ PendingBounded /\ (SomeDeleted \/ Enough)

LEMMA UsedStays ==
  ASSUME IInv, [Next]_vars
  PROVE  Used \subseteq Used'
<1> USE DEF IInv
<1> SUFFICES ASSUME NEW d \in SessionId, status[d] # "absent" PROVE status'[d] # "absent"
  BY DEF Used
<1>1. ASSUME NEW w \in Request, ExtraInsert(w) PROVE status'[d] # "absent"
  BY <1>1 DEF ExtraInsert, TypeOK
<1>2. ASSUME NEW w \in Request, CancelCommit(w) PROVE status'[d] # "absent"
  <2>1. PICK r \in SessionId : Cancelled(tx[w].id, r)
    BY <1>2, CancelWritten
  <2> QED BY <2>1 DEF Cancelled, TypeOK
<1>3. ASSUME NEW w \in Request, ReactivateCommit(w) PROVE status'[d] # "absent"
  <2>1. PICK g, gone : Reactivated(tx[w].id, g, gone)
    BY <1>3, ReactivateWritten
  <2> QED BY <2>1 DEF Reactivated
<1>4. ASSUME NEW s \in SessionId, Delete(s) PROVE status'[d] # "absent"
  BY <1>4 DEF Delete, TypeOK
<1>5. ASSUME NEW s \in SessionId, NEW to \in Status, PatchStatus(s, to)
      PROVE  status'[d] # "absent"
  BY <1>5 DEF PatchStatus, TypeOK, Status
<1>6. CASE UNCHANGED status
  BY <1>6
<1> QED
  BY <1>1, <1>2, <1>3, <1>4, <1>5, <1>6
  DEF Next, vars, ExtraRead, CancelLock, Rollback, CancelLoad, ReactivateLoad, MarkAttendance, rows

(* A row more when one is inserted. *)
LEMMA UsedCounts ==
  /\ Cardinality(Used) \in Nat
  /\ \A S \in SUBSET Used : Cardinality(S) <= Cardinality(Used)
<1>1. IsFiniteSet(Used)
  BY SessionsAreFinite DEF Used
<1> QED BY <1>1, FS_CardinalityType, FS_Subset

LEMMA UsedGrows ==
  ASSUME IInv, NEW r \in SessionId, status[r] = "absent", status'[r] = "scheduled",
         Used \subseteq Used'
  PROVE  Cardinality(Used') >= Cardinality(Used) + 1
<1>1. Used \cup {r} \subseteq Used' /\ r \notin Used
  BY DEF Used
<1>2. IsFiniteSet(Used) /\ IsFiniteSet(Used')
  BY SessionsAreFinite DEF Used
<1>3. Cardinality(Used \cup {r}) = Cardinality(Used) + 1
  BY <1>1, <1>2, FS_AddElement
<1> QED BY <1>1, <1>2, <1>3, FS_Subset

LEMMA BoundedRead ==
  ASSUME OneAtATime, IInv, Bounded, NEW w \in Request,
         \/ ExtraRead(w) \/ CancelLock(w) \/ Rollback(w)
         \/ \E s \in SessionId : CancelLoad(w, s) \/ ReactivateLoad(w, s)
  PROVE  Bounded' /\ PendingBounded'
<1> USE DEF IInv, rows, OneAtATime
<1>1. Held' = Held /\ number' = number /\ Used' = Used
  BY DEF ExtraRead, CancelLock, CancelLoad, ReactivateLoad, Rollback, Held, Exists, Used
<1>2. Bounded'
  BY <1>1 DEF Bounded
<1>3. CASE ExtraRead(w)
  <2> DEFINE E == {u \in SessionId : Exists(u)}
  <2>1. tx'[w].step = "extra" /\ tx'[w].slot = NextNumber(number, E)
    BY <1>3 DEF ExtraRead, Begin, TypeOK, NoTx
  <2>2. NextNumber(number, E) = 1 \/ \E u \in E : number[u] + 1 = NextNumber(number, E)
    BY NextIsLarger DEF TypeOK
  <2>3. \A u \in E : number[u] <= Cardinality(Used) /\ number[u] \in Nat
    BY UsedCounts DEF CancelledIsZero, Held, Bounded, TypeOK
  <2>4. NextNumber(number, E) <= Cardinality(Used) + 1
    BY <2>2, <2>3, UsedCounts
  <2> QED BY <1>1, <1>2, <2>1, <2>4 DEF PendingBounded
<1>4. ASSUME NEW s \in SessionId, ReactivateLoad(w, s) PROVE PendingBounded'
  <2> DEFINE f == ReactivateWrites(s)
  <2>1. PICK drop \in IF Held = {} THEN {{}} ELSE {{t} : t \in LastHeld} :
          tx' = [tx EXCEPT ![w] = [NoTx EXCEPT !.step = "reactivate", !.id = s,
                                     !.writes = f, !.drop = drop]]
    BY <1>4 DEF ReactivateLoad, Begin
  <2>2. s \notin Held /\ s \in Used
    BY <1>4 DEF ReactivateLoad, Held, Used
  <2>3. FirstGap <= Cardinality(Used) /\ FirstGap \in Nat
    <3>1. IsFiniteSet(Held) /\ Cardinality(Held) \in Nat
      BY SessionsAreFinite, FS_CardinalityType DEF Held
    <3>2. Cardinality(Held \cup {s}) = Cardinality(Held) + 1
      BY <2>2, <3>1, FS_AddElement
    <3>3. Held \cup {s} \subseteq Used
      BY <2>2 DEF Held, Used, Exists, Status
    <3>4. Cardinality(Held) + 1 <= Cardinality(Used)
      BY <3>2, <3>3, UsedCounts
    <3> QED BY <3>1, <3>4, GapExists, UsedCounts
  <2>4. ASSUME NEW u \in DOMAIN f \ drop PROVE f[u] <= Cardinality(Used)
    <3>1. DOMAIN f = {v \in Held : number[v] >= FirstGap} \cup {s}
      BY DEF ReactivateWrites
    <3>2. CASE u = s
      BY <2>3, <3>1, <3>2 DEF ReactivateWrites
    <3>3. CASE u # s
      <4>1. u \in Held /\ f[u] = number[u] + 1
        BY <3>1, <3>3 DEF ReactivateWrites
      <4>2. PICK t \in LastHeld : drop = {t}
        BY <2>1, <4>1
      <4>3. t \in Held /\ u # t /\ number[u] <= number[t] /\ number[u] # number[t]
        BY <2>4, <4>1, <4>2 DEF LastHeld, UniqueNumbers
      <4>4. number[u] \in Nat /\ number[t] \in Nat /\ number[t] <= Cardinality(Used)
        BY <4>1, <4>3 DEF Bounded, Held, TypeOK
      <4> QED BY <4>1, <4>3, <4>4, UsedCounts
    <3> QED BY <3>2, <3>3
  <2> HIDE DEF f
  <2>5. tx'[w].step = "reactivate" /\ tx'[w].writes = f /\ tx'[w].drop = drop
    BY <2>1 DEF TypeOK, NoTx
  <2> QED BY <1>1, <2>4, <2>5 DEF PendingBounded
<1>5. ASSUME NEW s \in SessionId, CancelLoad(w, s) PROVE PendingBounded'
  BY <1>5 DEF CancelLoad, Begin, TypeOK, NoTx, PendingBounded
<1>6. CASE CancelLock(w)
  <2>1. tx[w] \in Transaction
    BY DEF TypeOK
  <2>2. tx'[w].step = "cancel_locked"
    BY <1>6, <2>1 DEF CancelLock, TypeOK, Transaction
  <2> QED BY <1>2, <2>2 DEF PendingBounded
<1>7. CASE Rollback(w)
  BY <1>2, <1>7 DEF Rollback, End, TypeOK, NoTx, PendingBounded
<1> QED BY <1>2, <1>3, <1>4, <1>5, <1>6, <1>7

LEMMA BoundedWrite ==
  ASSUME OneAtATime, IInv, Bounded, PendingBounded, [Next]_vars, NEW w \in Request,
         ExtraInsert(w) \/ CancelCommit(w) \/ ReactivateCommit(w)
  PROVE  Bounded' /\ PendingBounded'
<1> USE DEF IInv
<1> DEFINE k == Cardinality(Used)  s == tx[w].id
<1>1. /\ k \in Nat /\ Cardinality(Used') \in Nat /\ k <= Cardinality(Used')
      /\ Used \subseteq Used'
  <2>1. IsFiniteSet(Used')
    BY SessionsAreFinite DEF Used
  <2> QED BY <2>1, UsedStays, UsedCounts, FS_Subset, FS_CardinalityType
<1>2. \A u \in Held : number[u] \in Nat /\ number[u] <= k
  BY DEF Bounded, Held, TypeOK
<1> HIDE DEF k
<1>3. CASE ExtraInsert(w)
  <2>1. PICK r \in SessionId : /\ status[r] = "absent"
                               /\ status' = [status EXCEPT ![r] = "scheduled"]
                               /\ number' = [number EXCEPT ![r] = tx[w].slot]
    BY <1>3 DEF ExtraInsert, NewId
  <2>2. Cardinality(Used') >= k + 1 /\ tx[w].slot <= k + 1 /\ tx[w].slot \in Nat
    BY <1>1, <1>3, <2>1, UsedGrows DEF ExtraInsert, PendingBounded, TypeOK, Transaction, k
  <2>3. \A u \in Held' \ {r} : u \in Held /\ number'[u] = number[u]
    BY <2>1 DEF Held, Exists, TypeOK
  <2>4. number'[r] = tx[w].slot
    BY <2>1 DEF TypeOK
  <2>5. Bounded'
    BY <1>1, <1>2, <2>2, <2>3, <2>4 DEF Bounded
  <2>6. PendingBounded'
    BY <1>3 DEF OneAtATime, TypeOK, ExtraInsert, End, NoTx, PendingBounded
  <2> QED BY <2>5, <2>6
<1>4. CASE CancelCommit(w)
  <2>1. PICK r \in SessionId : Cancelled(s, r)
    BY <1>4, CancelWritten
  <2>2. Cardinality(Used') >= k + 1
    <3>1. status'[r] = "scheduled" /\ status[r] = "absent"
      BY <2>1 DEF Cancelled, TypeOK
    <3> QED BY <1>1, <3>1, UsedGrows DEF k
  <2>3. \A u \in Held' : u = r \/ u \in Held \ {s}
    BY <2>1 DEF Cancelled, Held, Exists, Status, TypeOK
  <2>4. \A u \in Held \ {s} : number'[u] <= k
    BY <1>1, <1>2, <2>1 DEF Cancelled
  <2>5. number'[r] <= k + 1
    BY <1>1, <1>2, <2>1, <2>4 DEF Cancelled
  <2>6. Bounded'
    BY <1>1, <2>2, <2>3, <2>4, <2>5, <1>2, <2>1 DEF Bounded, Cancelled
  <2>7. PendingBounded'
    BY <1>4 DEF OneAtATime, TypeOK, CancelCommit, End, NoTx, PendingBounded
  <2> QED BY <2>6, <2>7
<1>5. CASE ReactivateCommit(w)
  <2> DEFINE f == tx[w].writes  gone == {t \in tx[w].drop : Exists(t)}
  <2>1. /\ \A u \in DOMAIN f : Exists(u)
        /\ s \in DOMAIN f /\ s \in SessionId /\ tx[w].step = "reactivate"
        /\ \A u \in DOMAIN f \ tx[w].drop : f[u] <= k
    BY <1>5 DEF ReactivateCommit, CanWrite, Pending, ReactivateFits, Subjects, PendingBounded, k
  <2>2. ASSUME NEW u \in Held' PROVE number'[u] <= k
    <3>1. u \in SessionId /\ u \notin gone
      BY <1>5 DEF Held, Exists, Status, ReactivateCommit
    <3>2. number'[u] = IF u \in DOMAIN f THEN f[u] ELSE number[u]
      BY <1>5, <3>1, WrittenNumbers DEF ReactivateCommit
    <3>3. CASE u \in DOMAIN f
      <4>1. u \notin tx[w].drop
        BY <2>1, <3>1, <3>3
      <4> QED BY <2>1, <3>2, <3>3, <4>1
    <3>4. CASE u \notin DOMAIN f
      <4>1. u \in Held
        BY <1>5, <2>1, <3>1, <3>4 DEF Held, Exists, ReactivateCommit
      <4> QED BY <1>2, <3>2, <3>4, <4>1
    <3> QED BY <3>3, <3>4
  <2>3. TypeOK'
    BY <1>5, TypeStep DEF Next
  <2>4. Bounded'
    <3>1. \A u \in Held' : number'[u] \in Nat
      BY <2>3 DEF Held, TypeOK
    <3> QED BY <1>1, <2>2, <3>1 DEF Bounded
  <2>5. PendingBounded'
    BY <1>5 DEF OneAtATime, TypeOK, ReactivateCommit, End, NoTx, PendingBounded
  <2> QED BY <2>4, <2>5
<1> QED BY <1>3, <1>4, <1>5

LEMMA BoundedBetween ==
  ASSUME IInv, Bounded, PendingBounded, [Next]_vars, Thinned
  PROVE  Bounded' /\ PendingBounded'
<1>1. /\ Cardinality(Used) \in Nat /\ Cardinality(Used') \in Nat
      /\ Cardinality(Used) <= Cardinality(Used')
  <2>1. IsFiniteSet(Used')
    BY SessionsAreFinite DEF Used
  <2> QED BY <2>1, UsedStays, UsedCounts, FS_Subset, FS_CardinalityType
<1>2. Bounded'
  <2>1. \A u \in Held' : u \in Held /\ number'[u] = number[u] /\ number[u] \in Nat
    BY DEF Thinned, Held, IInv, TypeOK
  <2> QED BY <1>1, <2>1 DEF Bounded
<1>3. PendingBounded'
  <2>1. tx' = tx
    BY DEF Thinned
  <2>2. \A w \in Request : /\ tx[w].slot \in Nat
                           /\ \A u \in DOMAIN tx[w].writes : tx[w].writes[u] \in Nat
    <3> SUFFICES ASSUME NEW w \in Request
                 PROVE  /\ tx[w].slot \in Nat
                        /\ \A u \in DOMAIN tx[w].writes : tx[w].writes[u] \in Nat
      OBVIOUS
    <3>1. tx[w].slot \in Nat
      BY DEF IInv, TypeOK, Transaction
    <3>2. PICK S \in SUBSET SessionId : tx[w].writes \in [S -> Nat]
      BY SMTT(60) DEF IInv, TypeOK, Transaction
    <3> QED BY <3>1, <3>2
  <2> QED BY <1>1, <2>1, <2>2 DEF PendingBounded
<1> QED BY <1>2, <1>3

LEMMA BoundedInductive ==
  ASSUME OneAtATime, HeldPatches, BInv, [Next]_vars
  PROVE  BInv'
<1>1. DInv' /\ IInv /\ IInv'
  BY DenseInductive DEF BInv, DInv
<1>2. Bounded' /\ PendingBounded'
  <2>1. CASE \/ \E s \in SessionId : Delete(s)
             \/ \E s \in SessionId : \E to \in Status : PatchStatus(s, to)
             \/ \E s \in SessionId : \E st \in {"present", "absent", "cancelled"} :
                  MarkAttendance(s, st)
             \/ UNCHANGED vars
    BY <1>1, <2>1, BetweenThins, BoundedBetween DEF BInv, IInv
  <2> QED BY <1>1, <2>1, BoundedRead, BoundedWrite DEF BInv, Next
<1>3. SomeDeleted' \/ Enough'
  <2>1. CASE SomeDeleted
    BY <1>1, <2>1, DeletedStays
  <2>2. CASE Enough
    <3>1. CASE Cardinality(Held') < Cardinality(Held)
      <4>1. \E s \in Held : status'[s] = "deleted"
        BY <1>1, <3>1, LessonsFollow DEF LessonsStep
      <4> QED BY <4>1 DEF SomeDeleted, Held
    <3>2. CASE ~ (Cardinality(Held') < Cardinality(Held))
      <4>1. Cardinality(Held) \in Nat /\ Cardinality(Held') \in Nat
        BY SessionsAreFinite, FS_CardinalityType DEF Held
      <4> QED BY <2>2, <3>2, <4>1, ConstantsAssumption DEF Enough
    <3> QED BY <3>1, <3>2
  <2> QED BY <2>1, <2>2 DEF BInv
<1> QED BY <1>1, <1>2, <1>3 DEF BInv

LEMMA BoundedAtFirst == Init => BInv
<1> SUFFICES ASSUME Init PROVE BInv
  OBVIOUS
<1>1. PerLevel \in Nat /\ PerLevel <= MaxSessions /\ MaxSessions \in Nat
  BY ConstantsAssumption
<1>2. Held = 1 .. PerLevel /\ Used = 1 .. PerLevel /\ \A u \in Held : number[u] = u
  BY <1>1 DEF Init, Held, Used, Exists, Status, SessionId
<1>3. Cardinality(1 .. PerLevel) = PerLevel
  BY <1>1, FS_Interval
<1>4. Bounded /\ Enough
  BY <1>1, <1>2, <1>3 DEF Bounded, Enough
<1>5. PendingBounded
  BY DEF Init, NoTx, PendingBounded
<1> QED BY <1>4, <1>5, DenseAtFirst DEF BInv

(***************************************************************************)
(* The pages: sets of sessions and how many there are.                     *)
(***************************************************************************)
LEMMA Counts ==
  /\ \A S \in SUBSET SessionId : Cardinality(S) \in Nat /\ (Cardinality(S) = 0 <=> S = {})
  /\ \A S, T \in SUBSET SessionId :
       S \cap T = {} => Cardinality(S \cup T) = Cardinality(S) + Cardinality(T)
  /\ \A S, T \in SUBSET SessionId : S \subseteq T => Cardinality(S) <= Cardinality(T)
<1>1. \A S \in SUBSET SessionId :
        IsFiniteSet(S) /\ Cardinality(S) \in Nat /\ (Cardinality(S) = 0 <=> S = {})
  BY SessionsAreFinite, FS_CardinalityType, FS_EmptySet
<1>2. ASSUME NEW S \in SUBSET SessionId, NEW T \in SUBSET SessionId, S \cap T = {}
      PROVE  Cardinality(S \cup T) = Cardinality(S) + Cardinality(T)
  <2>1. Cardinality(S \cup T) = Cardinality(S) + Cardinality(T) - Cardinality(S \cap T)
    BY SessionsAreFinite, FS_Union
  <2>2. Cardinality(S \cap T) = 0
    BY <1>2, FS_EmptySet
  <2> QED BY <1>1, <2>1, <2>2
<1>3. ASSUME NEW S \in SUBSET SessionId, NEW T \in SUBSET SessionId, S \subseteq T
      PROVE  Cardinality(S) <= Cardinality(T)
  BY <1>3, SessionsAreFinite, FS_Subset
<1> QED BY <1>1, <1>2, <1>3

LEMMA Pieces ==
  /\ Stored \in SUBSET SessionId /\ Held \in SUBSET SessionId /\ AnyMark \in SUBSET SessionId
  /\ \A x : In(x) \in SUBSET SessionId /\ Marked(x) \in SUBSET SessionId
BY DEF Stored, Held, AnyMark, In, Marked

LEMMA AtMostOne ==
  ASSUME NEW S \in SUBSET SessionId, \A s, t \in S : s = t
  PROVE  Cardinality(S) <= 1 /\ (S # {} => Cardinality(S) = 1)
<1>1. CASE S = {} BY <1>1, FS_EmptySet
<1>2. CASE S # {}
  <2>1. PICK x \in S : S = {x} BY <1>2
  <2>2. Cardinality(S) = 1 BY <2>1, FS_Singleton
  <2> QED BY <1>2, <2>2
<1> QED BY <1>1, <1>2

LEMMA NumberedOnce ==
  ASSUME IInv, Bounded
  PROVE  /\ \A n \in Nat : n # 0 => AtNumber(n) = {s \in Held : number[s] = n}
         /\ \A n \in Nat : n # 0 => Cardinality(AtNumber(n)) <= 1
         /\ \A n \in Nat : n # 0 /\ AtNumber(n) # {} => Cardinality(AtNumber(n)) = 1
         /\ \A s \in Held : number[s] \in 1 .. MaxSessions
<1> USE DEF IInv
<1>1. \A n \in Nat : n # 0 => AtNumber(n) = {s \in Held : number[s] = n}
  BY DEF AtNumber, Stored, Held, CancelledIsZero
<1>2. \A n \in Nat : n # 0 =>
        Cardinality(AtNumber(n)) <= 1 /\ (AtNumber(n) # {} => Cardinality(AtNumber(n)) = 1)
  <2> SUFFICES ASSUME NEW n \in Nat, n # 0
               PROVE  Cardinality(AtNumber(n)) <= 1
                        /\ (AtNumber(n) # {} => Cardinality(AtNumber(n)) = 1)
    OBVIOUS
  <2>1. AtNumber(n) \in SUBSET SessionId /\ \A s, t \in AtNumber(n) : s = t
    BY <1>1, Pieces DEF UniqueNumbers
  <2> QED BY <2>1, AtMostOne
<1>3. Cardinality(Used) <= MaxSessions
  <2>1. Cardinality(SessionId) = MaxSessions
    BY ConstantsAssumption, FS_Interval DEF SessionId
  <2> QED BY <2>1, Counts DEF Used
<1>4. ASSUME NEW s \in Held PROVE number[s] \in 1 .. MaxSessions
  <2>1. number[s] \in Nat /\ number[s] # 0 /\ number[s] <= Cardinality(Used)
    BY DEF TypeOK, Held, CancelledIsZero, Bounded
  <2>2. Cardinality(Used) \in Nat BY Counts DEF Used
  <2> QED BY <1>3, <2>1, <2>2, ConstantsAssumption
<1> QED BY <1>1, <1>2, <1>4

LEMMA NumbersAlwaysFind ==
  ASSUME IInv, Bounded
  PROVE  NumbersFind
<1> USE ConstantsAssumption DEF IInv
<1>1. ListByGroup(FALSE) = UNION {AtNumber(n) : n \in 1 .. MaxSessions}
  <2>1. ListByGroup(FALSE) = Held BY DEF ListByGroup, Held, Stored
  <2>2. ASSUME NEW s \in Held PROVE s \in AtNumber(number[s]) /\ number[s] \in 1 .. MaxSessions
    BY NumberedOnce
  <2>3. ASSUME NEW n \in 1 .. MaxSessions PROVE AtNumber(n) \subseteq Held
    BY NumberedOnce
  <2> QED BY <2>1, <2>2, <2>3
<1>2. \A n \in 1 .. MaxSessions : Cardinality(AtNumber(n)) <= 1
  BY NumberedOnce
<1>3. \A s \in In("cancelled"), t \in Held : ShownBefore(s, t) /\ ~ ShownBefore(t, s)
  BY DEF In, Stored, Held, ShownBefore, CancelledIsZero, TypeOK
<1>4. \A n \in 1 .. MaxSessions : AtNumber(n) # {} => BetweenNumbers(n, n)
  BY DEF AtNumber, BetweenNumbers
<1>5. \A s \in TodaySession(Today) : DashboardSessions[s] = "cancelled" <=> s \in AtNumber(0)
  BY DEF TodaySession, ScheduledOn, DashboardSessions, AtNumber, Stored, CancelledIsZero
<1>6. /\ Overview(Today, TRUE).groups = 1 <=> InstructorsOn(Today)
      /\ Overview(Today, TRUE).groups = 1 =>
           /\ Overview(Today, TRUE).shown = ListByGroup(TRUE)
           /\ Overview(Today, TRUE).today \subseteq Overview(Today, TRUE).shown
           /\ {s \in Overview(Today, TRUE).shown : Overview(Today, TRUE).marks[s] > 0} = AnyMark
      /\ Overview(Today, FALSE).shown = Overview(Today, TRUE).shown
  <2> DEFINE shown == IF TodaySession(Today) = {} THEN {} ELSE Stored
  <2>1. DOMAIN DashboardSessions = Stored BY DEF DashboardSessions
  <2>2. /\ Overview(Today, TRUE).shown = shown /\ Overview(Today, FALSE).shown = shown
        /\ Overview(Today, TRUE).groups = (IF shown = {} THEN 0 ELSE 1)
        /\ Overview(Today, TRUE).today = TodaySession(Today)
        /\ Overview(Today, TRUE).marks = [s \in shown |-> DashboardMarks[s]]
    BY <2>1 DEF Overview
  <2>3. TodaySession(Today) \subseteq Stored /\ (shown = {} <=> TodaySession(Today) = {})
    BY DEF TodaySession, ScheduledOn
  <2>4. \A s \in Stored : DashboardMarks[s] > 0 <=> s \in AnyMark
    BY <2>1, StudentsAssumption DEF DashboardMarks, AnyMark
  <2>5. AnyMark \subseteq Stored BY DEF AnyMark
  <2>6. shown # {} => {s \in shown : DashboardMarks[s] > 0} = AnyMark
    BY <2>4, <2>5
  <2>7. InstructorsOn(Today) <=> TodaySession(Today) # {}
    BY DEF InstructorsOn, TodaySession
  <2>8. shown # {} => shown = ListByGroup(TRUE)
    BY DEF ListByGroup
  <2> HIDE DEF shown
  <2>9. {s \in Overview(Today, TRUE).shown : Overview(Today, TRUE).marks[s] > 0}
          = {s \in shown : DashboardMarks[s] > 0}
    BY <2>2
  <2>10. Overview(Today, TRUE).groups = 1 <=> shown # {}
    <3> DEFINE g == Overview(Today, TRUE).groups
    <3>1. g = (IF shown = {} THEN 0 ELSE 1)
      BY <2>2
    <3> HIDE DEF g
    <3>2. g = 1 <=> shown # {}
      BY <3>1
    <3> QED BY <3>2 DEF g
  <2>11. shown # {} => /\ Overview(Today, TRUE).shown = ListByGroup(TRUE)
                       /\ Overview(Today, TRUE).today \subseteq Overview(Today, TRUE).shown
    BY <2>2, <2>3, <2>8 DEF ListByGroup
  <2> QED BY <2>2, <2>3, <2>6, <2>7, <2>9, <2>10, <2>11
<1> HIDE ConstantsAssumption
<1> QED BY <1>1, <1>2, <1>3, <1>4, <1>5, <1>6 DEF NumbersFind

LEMMA LevelIsAlwaysTold ==
  ASSUME IInv, Bounded,
         SomeDeleted \/ (Dense /\ Enough)
  PROVE  LevelIsTold
<1>1. ThirdSession(SessionId) = AtNumber(3)
  BY NumberedOnce DEF ThirdSession, Stored, Exists, Held, Status
<1>2. Cardinality(ThirdSession(SessionId)) <= 1
  BY <1>1, NumberedOnce
<1>3. Dense => Cardinality(ThirdSession(SessionId)) = (IF CountSessions >= 3 THEN 1 ELSE 0)
  <2> SUFFICES ASSUME Dense
               PROVE  Cardinality(AtNumber(3)) = (IF CountSessions >= 3 THEN 1 ELSE 0)
    BY <1>1
  <2>1. AtNumber(3) # {} <=> 3 \in 1 .. CountSessions
    <3>1. AtNumber(3) # {} <=> 3 \in {number[s] : s \in Held}
      BY NumberedOnce
    <3> QED BY <3>1, DenseIsCounted DEF CountSessions
  <2>2. CountSessions \in Nat BY Counts, Pieces DEF CountSessions
  <2>3. AtNumber(3) = {} => Cardinality(AtNumber(3)) = 0 BY FS_EmptySet
  <2>4. AtNumber(3) # {} => Cardinality(AtNumber(3)) = 1 BY NumberedOnce
  <2> QED BY <2>1, <2>2, <2>3, <2>4
<1>4. Enough => LevelComplete
  BY DEF Enough, LevelComplete, CountSessions
<1> QED BY <1>2, <1>3, <1>4 DEF LevelIsTold, AnyDeleted, SomeDeleted

LEMMA AttendanceAlwaysAgrees ==
  ASSUME TypeOK, SomeDeleted \/ Enough
  PROVE  AttendanceAgrees
<1> DEFINE P == Marked("present")  A == Marked("absent")  C == Marked("cancelled")
           X == In("cancelled")    U == {s \in Stored : attendance[s] = "none"}
<1>1. /\ {P, A, C, X, U, Stored, Held, AnyMark} \subseteq SUBSET SessionId
      /\ \A S \in {P, A, C, X, U, Stored, Held, AnyMark} : Cardinality(S) \in Nat
  BY Pieces, Counts
<1>2. Cardinality(AnyMark) = Cardinality(P) + Cardinality(A) + Cardinality(C)
  <2>1. AnyMark = (P \cup A) \cup C /\ P \cap A = {} /\ (P \cup A) \cap C = {}
    BY DEF AnyMark, Marked, Stored, TypeOK
  <2>2. Cardinality(P \cup A) = Cardinality(P) + Cardinality(A) BY <1>1, <2>1, Counts
  <2>3. Cardinality((P \cup A) \cup C) = Cardinality(P \cup A) + Cardinality(C)
    BY <1>1, <2>1, Counts
  <2> QED BY <2>1, <2>2, <2>3
<1>3. Cardinality(Stored) = Cardinality(AnyMark) + Cardinality(U)
  <2>1. Stored = AnyMark \cup U /\ AnyMark \cap U = {} BY DEF AnyMark
  <2> QED BY <1>1, <2>1, Counts
<1>4. Cardinality(Stored) = Cardinality(Held) + Cardinality(X)
  <2>1. Stored = Held \cup X /\ Held \cap X = {} BY DEF Held, In, Stored
  <2> QED BY <1>1, <2>1, Counts
<1>5. {s \in Stored : Heatmap[s] = "unmarked"} = U
  BY DEF Heatmap, TypeOK, Stored
<1>6. /\ \A s \in Stored : Grid[s] = Heatmap[s] \/ Heatmap[s] = "unmarked"
      /\ \A s \in Stored : DashboardMarks[s] = 0 <=> Heatmap[s] = "unmarked"
  BY StudentsAssumption
  DEF Grid, Heatmap, ListByLevel, DashboardMarks, DashboardSessions, TypeOK, Stored
<1>7. ASSUME Held \subseteq P, X = {} PROVE ProgressStatus = "on_track"
  <2>1. Cardinality(X) = 0 BY <1>7, FS_EmptySet
  <2>2. Cardinality(Held) <= Cardinality(P) BY <1>1, <1>7, Counts
  <2>3. Cardinality(P) * 10 >= Cardinality(Stored) * 8 BY <1>1, <1>4, <2>1, <2>2
  <2> QED BY <2>3 DEF ProgressStatus, Progress, View, TotalSessions
<1>8. ASSUME ~ SomeDeleted, \A s \in Stored : ~ (s > PerLevel) PROVE Cardinality(Held) = PerLevel
  <2>1. Held \subseteq 1 .. PerLevel /\ 1 .. PerLevel \in SUBSET SessionId
    BY <1>8, ConstantsAssumption DEF Held, Stored, SessionId
  <2>2. Cardinality(1 .. PerLevel) = PerLevel BY ConstantsAssumption, FS_Interval
  <2>3. Cardinality(Held) <= PerLevel BY <1>1, <2>1, <2>2, Counts
  <2> QED BY <1>1, <1>8, <2>3, ConstantsAssumption DEF Enough
<1> HIDE DEF P, A, C, X, U
<1>9. /\ View.total = View.attended + View.missed + View.cancelled
      /\ Stats.of = Profile.present + Profile.absent
      /\ GroupPage.of = Stats.of + View.cancelled
      /\ FlightRisk <=> Stats.attended # Stats.of
  BY <1>1, <1>2 DEF View, Stats, Profile, GroupPage, FlightRisk, P, A, C
<1>10. /\ Cardinality(Profile.listed) + Cardinality({s \in Stored : Heatmap[s] = "unmarked"})
            = Progress.of
       /\ Progress.of = CountSessions + Cardinality(In("cancelled"))
  BY <1>1, <1>3, <1>4, <1>5 DEF Profile, Progress, TotalSessions, CountSessions, X
<1>11. Held \subseteq Marked("present") /\ ProgressStatus # "on_track" => In("cancelled") # {}
  BY <1>7 DEF P, X
<1>12. Summary.of # CountSessions => AnyDeleted \/ \E s \in Stored : s > PerLevel
  BY <1>8 DEF Summary, CountSessions, AnyDeleted, SomeDeleted
<1> QED BY <1>6, <1>9, <1>10, <1>11, <1>12 DEF AttendanceAgrees

LEMMA ReportsAlwaysAgree ==
  ASSUME TypeOK
  PROVE  ReportsAgree
<1> DEFINE Day == Today  Rest == SessionId \ Today
           P == Marked("present")  A == Marked("absent")  C == Marked("cancelled")
           D == In("completed")    S == In("scheduled")   n == Students
<1>1. /\ n \in Nat /\ n >= 1 /\ Day \in SUBSET SessionId /\ Rest \in SUBSET SessionId
      /\ {P, A, C, D, S, AnyMark, Held} \subseteq SUBSET SessionId
  BY StudentsAssumption, Pieces
<1>2. ASSUME NEW T \in SUBSET SessionId
      PROVE  /\ Cardinality(Day \cap T) \in Nat /\ Cardinality(Rest \cap T) \in Nat
             /\ Cardinality(T) = Cardinality(Day \cap T) + Cardinality(Rest \cap T)
             /\ SessionId \cap T = T
  <2>1. T = (Day \cap T) \cup (Rest \cap T) /\ (Day \cap T) \cap (Rest \cap T) = {}
    BY <1>1
  <2> QED BY <1>1, <2>1, Counts
<1>3. \A a, b, c \in Nat : n * (a + b + c) = n * a + n * b + n * c
  BY <1>1
<1>4. Cardinality(AnyMark) = Cardinality(P) + Cardinality(A) + Cardinality(C)
  <2>1. AnyMark = (P \cup A) \cup C /\ P \cap A = {} /\ (P \cup A) \cap C = {}
    BY DEF AnyMark, Marked, Stored, TypeOK
  <2>2. Cardinality(P \cup A) = Cardinality(P) + Cardinality(A) BY <1>1, <2>1, Counts
  <2>3. Cardinality((P \cup A) \cup C) = Cardinality(P \cup A) + Cardinality(C)
    BY <1>1, <2>1, Counts
  <2> QED BY <2>1, <2>2, <2>3
<1>5. Cardinality(AnyMark) = Cardinality(D \cap AnyMark) + Cardinality(AnyMark \ D)
  <2>1. AnyMark = (D \cap AnyMark) \cup (AnyMark \ D)
    BY <1>1
  <2> QED BY <1>1, <2>1, Counts
<1>6. Cardinality(Held) = Cardinality(S) + Cardinality(D)
  <2>1. Held = S \cup D /\ S \cap D = {}
    BY DEF Held, In, Stored, Exists, Status
  <2> QED BY <1>1, <2>1, Counts
<1>7. \A T \in SUBSET SessionId : Cardinality(T) \in Nat
  BY Counts
<1> HIDE DEF Day, Rest, P, A, C, D, S, n
<1>8. Daily(Day).held + Daily(Rest).held = PeriodSessions(SessionId)
  <2>1. Cardinality(D) = Cardinality(Day \cap D) + Cardinality(Rest \cap D) /\ SessionId \cap D = D
    BY <1>1, <1>2
  <2> QED BY <2>1 DEF Daily, PeriodSessions, D
<1>9. DailyRate(Day).of + DailyRate(Rest).of
        = PeriodRate(SessionId).of + n * Cardinality(AnyMark \ D)
  <2>1. /\ DailyRate(Day).of = n * Cardinality(Day \cap P) + n * Cardinality(Day \cap A)
                                 + n * Cardinality(Day \cap C)
        /\ DailyRate(Rest).of = n * Cardinality(Rest \cap P) + n * Cardinality(Rest \cap A)
                                  + n * Cardinality(Rest \cap C)
    BY DEF DailyRate, Daily, P, A, C, n
  <2>2. PeriodRate(SessionId).of = n * Cardinality(D \cap AnyMark)
    BY <1>1, <1>2 DEF PeriodRate, D, n
  <2> DEFINE a == Cardinality(Day \cap P)   b == Cardinality(Day \cap A)   c == Cardinality(Day \cap C)
             d == Cardinality(Rest \cap P)  e == Cardinality(Rest \cap A)  f == Cardinality(Rest \cap C)
             x == Cardinality(D \cap AnyMark)  y == Cardinality(AnyMark \ D)
  <2>3. /\ a \in Nat /\ b \in Nat /\ c \in Nat /\ d \in Nat /\ e \in Nat /\ f \in Nat
        /\ x \in Nat /\ y \in Nat
    BY <1>1, <1>7
  <2>4. (a + b + c) + (d + e + f) = x + y
    <3>1. /\ Cardinality(P) = a + d /\ Cardinality(A) = b + e /\ Cardinality(C) = c + f
      BY <1>1, <1>2
    <3>2. Cardinality(AnyMark) = x + y
      BY <1>5
    <3> HIDE DEF a, b, c, d, e, f, x, y
    <3> QED BY <1>4, <2>3, <3>1, <3>2
  <2> HIDE DEF a, b, c, d, e, f, x, y
  <2>5. n * ((a + b + c) + (d + e + f)) = n * (x + y)
    BY <2>4
  <2>6. (n * a + n * b + n * c) + (n * d + n * e + n * f) = n * x + n * y
    BY <1>1, <2>3, <2>5
  <2> QED BY <2>1, <2>2, <2>6 DEF a, b, c, d, e, f, x, y
<1>10. n * Cardinality({s \in D : Details(SessionId)[s].present > 0}) = PeriodRate(SessionId).present
  <2>1. {s \in D : Details(SessionId)[s].present > 0} = D \cap P
    <3>1. \A s \in D : Details(SessionId)[s].present = IF attendance[s] = "present" THEN n ELSE 0
      BY <1>1 DEF Details, D, n
    <3>2. \A s \in D : s \in P <=> attendance[s] = "present"
      BY DEF D, P, In, Marked
    <3> QED BY <1>1, <3>1, <3>2
  <2>2. (SessionId \cap D) \cap P = D \cap P BY <1>1
  <2> QED BY <2>1, <2>2 DEF PeriodRate, D, P, n
<1>11. ASSUME NEW s \in D
       PROVE  /\ Cardinality(PeriodDetails(SessionId)[s].present) = Details(SessionId)[s].present
              /\ Cardinality(PeriodDetails(SessionId)[s].absent) = Details(SessionId)[s].absent
              /\ PeriodDetails(SessionId)[s].cancelled = Details(SessionId)[s].cancelled
  <2>1. Cardinality(1 .. n) = n /\ Cardinality({}) = 0
    BY <1>1, FS_Interval, FS_EmptySet
  <2>2. s \in SessionId \cap In("completed")
    BY <1>1 DEF D
  <2> QED BY <2>1, <2>2 DEF PeriodDetails, Details, n
<1>12. MonthTaught(SessionId) = Taught(Day) + Taught(Rest) + (n - 1) * Cardinality(D \cap P)
  <2> DEFINE K == (D \cap P) \X (1 .. n)
             Q == (D \ P) \X {0}
  <2>1. UNION {JoinPresent(s) : s \in SessionId \cap D} = K \cup Q
    <3>1. \A s \in D : JoinPresent(s) = {s} \X (IF s \in P THEN 1 .. n ELSE {0})
      BY DEF JoinPresent, D, P, In, Marked, n
    <3>2. SessionId \cap D = D BY <1>1
    <3>3. ASSUME NEW s \in D, NEW p \in JoinPresent(s) PROVE p \in K \cup Q
      BY <3>1, <3>3
    <3>4. ASSUME NEW p \in K PROVE \E s \in D : p \in JoinPresent(s)
      <4>1. p[1] \in D /\ p[1] \in P /\ p = <<p[1], p[2]>> /\ p[2] \in 1 .. n OBVIOUS
      <4> QED BY <3>1, <4>1
    <3>5. ASSUME NEW p \in Q PROVE \E s \in D : p \in JoinPresent(s)
      <4>1. p[1] \in D /\ p[1] \notin P /\ p = <<p[1], p[2]>> /\ p[2] = 0 OBVIOUS
      <4> QED BY <3>1, <4>1
    <3> HIDE DEF K, Q
    <3> QED BY <3>2, <3>3, <3>4, <3>5
  <2>2. /\ IsFiniteSet(K) /\ Cardinality(K) = Cardinality(D \cap P) * n
        /\ IsFiniteSet(Q) /\ Cardinality(Q) = Cardinality(D \ P)
    <3>1. IsFiniteSet(D \cap P) /\ IsFiniteSet(D \ P) BY <1>1, SessionsAreFinite
    <3>2. IsFiniteSet(1 .. n) /\ Cardinality(1 .. n) = n BY <1>1, FS_Interval
    <3>3. IsFiniteSet({0}) /\ Cardinality({0}) = 1 BY FS_Singleton
    <3>4. Cardinality(D \ P) \in Nat BY <1>1, <1>7
    <3>5. IsFiniteSet(K) /\ Cardinality(K) = Cardinality(D \cap P) * n
      BY <3>1, <3>2, FS_Product
    <3>6. IsFiniteSet(Q) /\ Cardinality(Q) = Cardinality(D \ P) * 1
      BY <3>1, <3>3, FS_Product
    <3> QED BY <3>4, <3>5, <3>6
  <2>3. K \cap Q = {} OBVIOUS
  <2> HIDE DEF K, Q
  <2>4. Cardinality(K \cup Q) = Cardinality(K) + Cardinality(Q) - 0
    BY <2>2, <2>3, FS_Union, FS_EmptySet
  <2>5. Cardinality(D) = Cardinality(D \cap P) + Cardinality(D \ P)
    <3>1. D = (D \cap P) \cup (D \ P) /\ (D \cap P) \cap (D \ P) = {} OBVIOUS
    <3> QED BY <1>1, <3>1, Counts
  <2>6. Taught(Day) + Taught(Rest) = Cardinality(D)
    BY <1>1, <1>2 DEF Taught, D
  <2>7. MonthTaught(SessionId) = Cardinality(K \cup Q)
    BY <2>1 DEF MonthTaught, D
  <2> DEFINE k == Cardinality(D \cap P)  q == Cardinality(D \ P)
  <2>8. k \in Nat /\ q \in Nat /\ k * n \in Nat BY <1>1, <1>7
  <2>9. (n - 1) * k = k * n - k BY <1>1, <2>8
  <2> QED BY <2>2, <2>4, <2>5, <2>6, <2>7, <2>8, <2>9
<1>13. Preview(SessionId).sessions + PeriodSessions(SessionId) = CountSessions
  BY <1>1, <1>2, <1>6, <1>7 DEF Preview, PeriodSessions, CountSessions, S, D
<1>14. Taught(Day) > 0 \/ Preview(Day).sessions > 0 => InstructorsOn(Day)
  <2>1. \A T \in SUBSET SessionId : Cardinality(T) > 0 => T # {}
    BY Counts
  <2>2. /\ Day \cap D \in SUBSET SessionId /\ Day \cap S \in SUBSET SessionId
        /\ Day \cap D \subseteq ScheduledOn(Day) /\ Day \cap S \subseteq ScheduledOn(Day)
    BY <1>1 DEF D, S, In, ScheduledOn
  <2>3. Taught(Day) = Cardinality(Day \cap D) /\ Preview(Day).sessions = Cardinality(Day \cap S)
    BY DEF Taught, Preview, D, S
  <2> QED BY <2>1, <2>2, <2>3 DEF InstructorsOn
<1>15. BIRows("present") = DailyRate(Day).present + DailyRate(Rest).present
  <2> DEFINE d == Cardinality(Day \cap P)  r == Cardinality(Rest \cap P)
  <2>1. Cardinality(P) = d + r /\ d \in Nat /\ r \in Nat BY <1>1, <1>2
  <2>2. n * (d + r) = n * d + n * r BY <1>1, <2>1
  <2> QED BY <2>1, <2>2 DEF BIRows, DailyRate, Daily, P, n
<1> QED
  BY <1>8, <1>9, <1>10, <1>11, <1>12, <1>13, <1>14, <1>15
  DEF ReportsAgree, Day, Rest, P, D, n

LEMMA PagesFollow ==
  ASSUME IInv, Bounded, SomeDeleted \/ (Dense /\ Enough)
  PROVE  SessionPagesAgree
BY NumbersAlwaysFind, LevelIsAlwaysTold, AttendanceAlwaysAgrees, ReportsAlwaysAgree
DEF SessionPagesAgree, IInv

(* Under the same conditions, between requests: the lists of sessions and  *)
(* the searches by number, the completeness of the level, the ways to tell *)
(* attendance and the reports of days and periods agree, for any number of *)
(* sessions and students and any days.                                     *)
THEOREM PagesStayInAgreement ==
  ASSUME OneAtATime, HeldPatches PROVE Spec => []SessionPagesAgree
<1>1. Init => BInv
  BY BoundedAtFirst
<1>2. BInv /\ [Next]_vars => BInv'
  BY BoundedInductive
<1>3. BInv => SessionPagesAgree
  BY PagesFollow DEF BInv, DInv
<1> QED BY <1>1, <1>2, <1>3, PTL DEF Spec
=============================================================================
