------------------------ MODULE GroupsAndTasksProofs ------------------------
(***************************************************************************)
(* Proofs about GroupLevels and GroupPages, for any number of students,    *)
(* groups, levels and enrollments, and about RecurringTasks, for any       *)
(* number of templates, any calendar, and any number of days, restarts and *)
(* failed spawners.  The two have no state in common: the names of the     *)
(* second are prefixed where the first has the same, and its part starts   *)
(* after PagesAreOne.                                                      *)
(***************************************************************************)
EXTENDS GroupPages, RecurringTasks, FiniteSetTheorems, FunctionTheorems,
        SequenceTheorems, WellFoundedInduction, TLAPS

(* What the theorems below assume of the requests, each saying which: that *)
(* they come one at a time, and that a progression goes to the next level. *)
OneAtATime == \A v, w \in Request : v = w
NoSkips    == Strides \subseteq {1}

(***************************************************************************)
(* The rows a request writes.                                              *)
(***************************************************************************)

Row == [student : Student, group : Group, level : Level, status : RowStatus,
        source : 0 .. MaxRows]

LevelStatus == {"none", "active", "completed", "cancelled"}

(* The tables and what is remembered of the groups. *)
Tables ==
  /\ open    \subseteq Group
  /\ current \in [Group -> Level]
  /\ level   \in [Group -> [Level -> LevelStatus]]
  /\ rows    \in Seq({Gone} \cup Row) /\ Len(rows) <= MaxRows
  /\ tx      = [w \in Request |-> tx[w]]
  /\ memo    = [g \in Group |-> memo[g]]

(* What a request holds between its steps. *)
Holds(w) ==
  LET t == tx[w] IN
  \/ t = Idle
  \/ /\ t.step = "enroll"
     /\ t.student \in Student /\ t.group \in Group /\ t.level \in Level
  \/ /\ t.step = "transfer"
     /\ t.id \in DOMAIN rows /\ t.group \in Group /\ t.level \in Level
  \/ /\ t.step = "progress"
     /\ t.group \in Group /\ t.from \in Level /\ t.to \in Level /\ t.complete \in BOOLEAN
  \/ /\ t.step = "migrate"
     /\ t.group \in Group /\ t.from \in Level /\ t.to \in Level /\ t.complete \in BOOLEAN
     /\ t.ids \subseteq DOMAIN rows

GInv == Tables /\ \A w \in Request : Holds(w)

(* The rows i are told from those that are gone by their status. *)
LEMMA RowFields ==
  /\ \A r \in Row : /\ r.student \in Student /\ r.group \in Group /\ r.level \in Level
                    /\ r.status \in RowStatus /\ r.source \in 0 .. MaxRows
                    /\ r.status # "deleted"
  /\ Gone.status = "deleted"
  /\ \A r \in {Gone} \cup Row : r.status # "deleted" => r \in Row
BY DEF Row, RowStatus, Gone

(* A row that is given a status stays a row, with its other fields. *)
LEMMA StatusGiven ==
  ASSUME NEW r \in Row, NEW st \in RowStatus
  PROVE  LET q == [r EXCEPT !.status = st] IN
         /\ q \in Row /\ q.status = st /\ q.student = r.student /\ q.group = r.group
         /\ q.level = r.level /\ q.source = r.source
BY DEF Row

(* What a new row holds.                                                   *)
LEMMA NewRowFields ==
  ASSUME NEW s, NEW g, NEW l, NEW k
  PROVE  LET q == NewRow(s, g, l, k) IN
         /\ q.student = s /\ q.group = g /\ q.level = l /\ q.status = "active" /\ q.source = k
         /\ s \in Student /\ g \in Group /\ l \in Level /\ k \in 0 .. MaxRows => q \in Row
BY DEF NewRow, Row, RowStatus

(* The enrollments that a progression moves, in whatever order. *)
LEMMA MovedAreRead ==
  ASSUME NEW S, IsFiniteSet(S)
  PROVE  /\ SetToSeq(S) \in Seq(S)
         /\ \A k \in DOMAIN SetToSeq(S) : SetToSeq(S)[k] \in S
<1> DEFINE n == Cardinality(S)
<1>1. n \in Nat /\ \E f : f \in Bijection(1 .. n, S)
  <2>1. n \in Nat /\ n = Cardinality(S)
    BY FS_CardinalityType
  <2>2. ExistsBijection(1 .. n, S)
    BY FS_CardinalityType
  <2> QED BY <2>1, <2>2, Fun_ExistsBij
<1>2. PICK f : f \in Bijection(1 .. n, S)
  BY <1>1
<1>3. f \in [1 .. n -> S] /\ IsInjective(f)
  <2>1. f \in [1 .. n -> S] /\ \A a, b \in 1 .. n : f[a] = f[b] => a = b
    <3> HIDE DEF n
    <3> QED BY <1>2, Fun_BijectionProperties
  <2> QED BY <2>1 DEF IsInjective
<1>4. SetToSeq(S) \in [1 .. n -> S]
  BY <1>3 DEF SetToSeq
<1> QED BY <1>1, <1>4

(* How enrollments, transfers, drops and progressions write: the rows in S *)
(* take a status, and whatever is inserted is active at level l of g.      *)
Fresh == DOMAIN rows' \ DOMAIN rows

Writing(S, st, g, l) ==
  /\ S \subseteq Listed /\ st \in RowStatus \ {"active"} /\ g \in Group /\ l \in Level
  /\ rows' \in Seq({Gone} \cup Row) /\ Len(rows') <= MaxRows
  /\ DOMAIN rows \subseteq DOMAIN rows'
  /\ \A i \in DOMAIN rows :
       rows'[i] = IF i \in S THEN [rows[i] EXCEPT !.status = st] ELSE rows[i]
  /\ \A i \in Fresh : \E s \in Student : \E k \in 0 .. MaxRows :
       /\ rows'[i] = NewRow(s, g, l, k)
       /\ k # 0 => k \in S /\ rows[k].student = s

(* A row is one of the table or a deleted one, and those listed are rows.  *)
LEMMA RowsInTables ==
  ASSUME Tables
  PROVE  /\ Len(rows) \in Nat /\ DOMAIN rows = 1 .. Len(rows) /\ MaxRows \in Nat
         /\ \A i \in DOMAIN rows : rows[i] \in {Gone} \cup Row /\ i \in 1 .. MaxRows
         /\ \A i \in DOMAIN rows : rows[i].status # "deleted" => rows[i] \in Row
         /\ Listed \subseteq DOMAIN rows /\ \A i \in Listed : rows[i] \in Row
<1>1. rows \in Seq({Gone} \cup Row) /\ Len(rows) <= MaxRows /\ MaxRows \in Nat
  BY ConstantsAssumption DEF Tables
<1>2. Len(rows) \in Nat /\ DOMAIN rows = 1 .. Len(rows)
  BY <1>1
<1>3. \A i \in DOMAIN rows : rows[i] \in {Gone} \cup Row /\ i \in 1 .. MaxRows
  BY <1>1, <1>2
<1> QED BY <1>1, <1>2, <1>3, RowFields DEF Listed

(* What each writing request does to the rows, in the terms of Writing.    *)
LEMMA EnrollWrites ==
  ASSUME GInv, NEW w \in Request, EnrollInsert(w)
  PROVE  Writing({}, "dropped", tx[w].group, tx[w].level)
<1> DEFINE t == tx[w]  q == NewRow(t.student, t.group, t.level, 0)
<1>1. t.student \in Student /\ t.group \in Group /\ t.level \in Level
  BY DEF GInv, Holds, EnrollInsert, Idle
<1>2. rows \in Seq({Gone} \cup Row) /\ MaxRows \in Nat
  BY ConstantsAssumption DEF GInv, Tables
<1>3. q \in Row
  BY <1>1, <1>2, NewRowFields
<1>4. rows' = Append(rows, q) /\ Len(rows') <= MaxRows
  BY DEF EnrollInsert, WriteRows
<1>5. /\ rows' \in Seq({Gone} \cup Row) /\ Len(rows') = Len(rows) + 1
      /\ DOMAIN rows' = 1 .. Len(rows) + 1 /\ DOMAIN rows = 1 .. Len(rows)
      /\ \A i \in 1 .. Len(rows) : rows'[i] = rows[i]
      /\ rows'[Len(rows) + 1] = q
  <2> HIDE DEF q
  <2> QED BY <1>2, <1>3, <1>4
<1>6. Fresh = {Len(rows) + 1}
  BY <1>2, <1>5 DEF Fresh
<1>7. \E s \in Student : \E k \in 0 .. MaxRows :
         q = NewRow(s, t.group, t.level, k) /\ (k # 0 => k \in {} /\ rows[k].student = s)
  BY <1>1, <1>2
<1>8. \A i \in DOMAIN rows : rows'[i] = IF i \in {} THEN [rows[i] EXCEPT !.status = "dropped"] ELSE rows[i]
  BY <1>5
<1> QED
  <2> HIDE DEF q
  <2> QED BY <1>1, <1>4, <1>5, <1>6, <1>7, <1>8 DEF Writing, RowStatus

(* A transfer gives its row up and adds one that comes from it.            *)
LEMMA TransferWrites ==
  ASSUME GInv, NEW w \in Request, TransferCommit(w)
  PROVE  /\ Writing({tx[w].id}, "transferred", tx[w].group, tx[w].level)
         /\ tx[w].id \in Listed
<1> DEFINE t == tx[w]  i == t.id  r == rows[i]  st == "transferred"
           q == NewRow(r.student, t.group, t.level, i)
           R == [rows EXCEPT ![i].status = st]
<1>1. i \in DOMAIN rows /\ t.group \in Group /\ t.level \in Level /\ r.status # "deleted"
  BY DEF GInv, Holds, TransferCommit, Idle
<1>2. rows \in Seq({Gone} \cup Row) /\ MaxRows \in Nat /\ r \in Row /\ i \in 1 .. MaxRows
  BY <1>1, ConstantsAssumption, RowsInTables DEF GInv, Tables
<1>3. q \in Row /\ r.student \in Student
  BY <1>1, <1>2, NewRowFields, RowFields
<1>4. [r EXCEPT !.status = st] \in Row
  BY <1>2, StatusGiven DEF RowStatus
<1>5. R = [rows EXCEPT ![i] = [r EXCEPT !.status = st]]
  OBVIOUS
<1>6. /\ R \in Seq({Gone} \cup Row) /\ Len(R) = Len(rows) /\ DOMAIN R = DOMAIN rows
      /\ \A j \in DOMAIN rows : R[j] = IF j \in {i} THEN [rows[j] EXCEPT !.status = st] ELSE rows[j]
  <2>1. /\ R \in Seq({Gone} \cup Row) /\ Len(R) = Len(rows) /\ DOMAIN R = DOMAIN rows
        /\ R[i] = [r EXCEPT !.status = st] /\ \A j \in DOMAIN rows : j # i => R[j] = rows[j]
    <3> DEFINE v == [r EXCEPT !.status = st]
    <3>1. v \in Row /\ R = [rows EXCEPT ![i] = v]
      BY <1>4, <1>5
    <3> HIDE DEF v, R, i
    <3>2. /\ R \in Seq({Gone} \cup Row) /\ Len(R) = Len(rows) /\ DOMAIN R = DOMAIN rows
          /\ R[i] = v /\ \A j \in DOMAIN rows : j # i => R[j] = rows[j]
      BY <1>1, <1>2, <3>1
    <3> QED BY <3>2 DEF v
  <2> QED BY <2>1
<1>7. rows' = Append(R, q) /\ Len(rows') <= MaxRows
  BY DEF TransferCommit, WriteRows
<1>8. /\ rows' \in Seq({Gone} \cup Row) /\ DOMAIN rows' = 1 .. Len(rows) + 1
      /\ DOMAIN rows = 1 .. Len(rows)
      /\ \A j \in 1 .. Len(rows) : rows'[j] = R[j]
      /\ rows'[Len(rows) + 1] = q
  <2> HIDE DEF q, R, r, i
  <2> QED BY <1>2, <1>3, <1>6, <1>7
<1>9. Fresh = {Len(rows) + 1}
  BY <1>2, <1>8 DEF Fresh
<1>10. \E s \in Student : \E k \in 0 .. MaxRows :
         q = NewRow(s, t.group, t.level, k) /\ (k # 0 => k \in {i} /\ rows[k].student = s)
  BY <1>2, <1>3
<1>11. i \in Listed
  BY <1>1 DEF Listed
<1>12. \A j \in DOMAIN rows : rows'[j] = IF j \in {i} THEN [rows[j] EXCEPT !.status = st] ELSE rows[j]
  <2> HIDE DEF R
  <2> QED BY <1>6, <1>8
<1>13. st \in RowStatus \ {"active"}
  BY DEF RowStatus
<1> HIDE DEF q, R, st, i
<1>14. Writing({i}, st, t.group, t.level)
  BY <1>1, <1>7, <1>8, <1>9, <1>10, <1>11, <1>12, <1>13 DEF Writing
<1> QED BY <1>11, <1>14 DEF st, i

(* A drop adds no row.                                                     *)
LEMMA DropWrites ==
  ASSUME GInv, NEW w \in Request, NEW i, Drop(w, i)
  PROVE  /\ i \in Listed /\ Fresh = {}
         /\ \A l \in Level : Writing({i}, "dropped", rows[i].group, l)
<1> DEFINE r == rows[i]  st == "dropped"  v == [r EXCEPT !.status = st]
<1>1. i \in DOMAIN rows /\ r.status # "deleted" /\ i \in Listed
  BY DEF Drop, Listed
<1>2. rows \in Seq({Gone} \cup Row) /\ MaxRows \in Nat /\ r \in Row
  BY <1>1, ConstantsAssumption, RowsInTables DEF GInv, Tables
<1>3. v \in Row /\ r.group \in Group /\ st \in RowStatus \ {"active"}
  BY <1>2, StatusGiven, RowFields DEF RowStatus
<1>4. rows' = [rows EXCEPT ![i] = v] /\ Len(rows') <= MaxRows
  BY DEF Drop, WriteRows
<1>5. /\ rows' \in Seq({Gone} \cup Row) /\ DOMAIN rows' = DOMAIN rows /\ rows'[i] = v
      /\ \A j \in DOMAIN rows : j # i => rows'[j] = rows[j]
  <2> HIDE DEF v
  <2> QED BY <1>1, <1>2, <1>3, <1>4
<1>6. \A j \in DOMAIN rows : rows'[j] = IF j \in {i} THEN [rows[j] EXCEPT !.status = st] ELSE rows[j]
  BY <1>5
<1>7. Fresh = {}
  BY <1>5 DEF Fresh
<1> HIDE DEF v, st
<1>8. \A l \in Level : Writing({i}, st, r.group, l)
  BY <1>1, <1>3, <1>4, <1>5, <1>6, <1>7 DEF Writing
<1> QED BY <1>1, <1>7, <1>8 DEF st

(* A progression completes the rows it loaded and adds as many.            *)
LEMMA ProgressWrites ==
  ASSUME GInv, NEW w \in Request, ProgressCommit(w)
  PROVE  Writing(tx[w].ids, "completed", tx[w].group, tx[w].to)
<1> DEFINE t == tx[w]  S == t.ids  g == t.group  l == t.to  st == "completed"  n == Len(rows)
           moved == SetToSeq(S)
           ended == [i \in DOMAIN rows |-> IF i \in S THEN [rows[i] EXCEPT !.status = st] ELSE rows[i]]
           added == [k \in DOMAIN moved |-> NewRow(rows[moved[k]].student, g, l, 0)]
<1>1. S \subseteq Listed /\ g \in Group /\ l \in Level
  BY DEF GInv, Holds, ProgressCommit, Idle, Listed
<1>2. /\ rows \in Seq({Gone} \cup Row) /\ MaxRows \in Nat /\ Len(rows) \in Nat
      /\ DOMAIN rows = 1 .. n /\ \A i \in Listed : i \in DOMAIN rows /\ rows[i] \in Row
  BY ConstantsAssumption, RowsInTables DEF GInv, Tables, Listed
<1>3. IsFiniteSet(S)
  <2>1. IsFiniteSet(1 .. n)
    BY <1>2, FS_Interval
  <2>2. S \subseteq 1 .. n
    BY <1>1, <1>2
  <2> QED BY <2>1, <2>2, FS_Subset
<1>4. moved \in Seq(S) /\ \A k \in DOMAIN moved : moved[k] \in S
  BY <1>3, MovedAreRead
<1>5. st \in RowStatus \ {"active"}
  BY DEF RowStatus
<1>6. \A i \in DOMAIN rows : ended[i] \in {Gone} \cup Row
  <2> SUFFICES ASSUME NEW i \in DOMAIN rows PROVE ended[i] \in {Gone} \cup Row
    OBVIOUS
  <2>1. CASE i \in S
    BY <1>1, <1>2, <1>5, <2>1, StatusGiven
  <2>2. CASE i \notin S
    BY <1>2, <2>2, RowsInTables DEF GInv
  <2> QED BY <2>1, <2>2
<1>7. ended \in Seq({Gone} \cup Row) /\ Len(ended) = n /\ DOMAIN ended = 1 .. n
  BY <1>2, <1>6
<1>8. ASSUME NEW k \in DOMAIN moved
      PROVE  /\ rows[moved[k]].student \in Student /\ 0 \in 0 .. MaxRows
             /\ added[k] = NewRow(rows[moved[k]].student, g, l, 0)
             /\ added[k] \in Row
  BY <1>1, <1>2, <1>4, RowFields, NewRowFields
<1>9. added \in Seq({Gone} \cup Row) /\ DOMAIN added = DOMAIN moved
  <2>1. moved \in Seq(S) /\ Len(moved) \in Nat /\ DOMAIN moved = 1 .. Len(moved)
    BY <1>4
  <2> HIDE DEF moved
  <2> QED BY <1>8, <2>1
<1>10. rows' = ended \o added /\ Len(rows') <= MaxRows
  BY DEF ProgressCommit, WriteRows
<1>11. /\ rows' \in Seq({Gone} \cup Row) /\ DOMAIN rows' = 1 .. n + Len(added)
       /\ n \in Nat /\ Len(added) \in Nat /\ DOMAIN added = 1 .. Len(added)
       /\ \A i \in 1 .. n : rows'[i] = ended[i]
       /\ \A i \in 1 .. n + Len(added) : i > n => rows'[i] = added[i - n]
  <2>1. n \in Nat
    BY <1>2
  <2> HIDE DEF ended, added, n
  <2>2. Len(added) \in Nat /\ DOMAIN added = 1 .. Len(added)
    BY <1>9
  <2>3. rows' \in Seq({Gone} \cup Row) /\ Len(rows') = n + Len(added)
    BY <1>7, <1>9, <1>10, ConcatProperties
  <2>4. DOMAIN rows' = 1 .. n + Len(added)
    BY <2>1, <2>2, <2>3
  <2>5. \A i \in 1 .. n + Len(added) : rows'[i] = IF i <= n THEN ended[i] ELSE added[i - n]
    BY <1>7, <1>9, <1>10, <2>1, <2>2
  <2> QED BY <2>1, <2>2, <2>3, <2>4, <2>5
<1>12. DOMAIN rows \subseteq DOMAIN rows'
       /\ \A i \in DOMAIN rows : rows'[i] = IF i \in S THEN [rows[i] EXCEPT !.status = st] ELSE rows[i]
  <2>1. DOMAIN rows = 1 .. n
    BY <1>2
  <2>2. \A i \in DOMAIN rows : ended[i] = IF i \in S THEN [rows[i] EXCEPT !.status = st] ELSE rows[i]
    OBVIOUS
  <2> HIDE DEF added, ended, n, S, st
  <2>3. DOMAIN rows \subseteq DOMAIN rows'
    BY <1>11, <2>1
  <2> QED BY <1>11, <2>1, <2>2, <2>3
<1>13. ASSUME NEW i \in Fresh
       PROVE  \E s \in Student : \E k \in 0 .. MaxRows :
                /\ rows'[i] = NewRow(s, g, l, k)
                /\ k # 0 => k \in S /\ rows[k].student = s
  <2>1. i \in 1 .. n + Len(added) /\ i > n /\ i - n \in DOMAIN added
    <3>1. DOMAIN rows = 1 .. n
      BY <1>2
    <3> HIDE DEF added, n
    <3> QED BY <1>11, <3>1 DEF Fresh
  <2>2. rows'[i] = added[i - n]
    BY <1>11, <2>1
  <2> HIDE DEF added
  <2> QED BY <1>8, <1>9, <2>1, <2>2
<1> HIDE DEF S, g, l, st, ended, added, moved, n
<1>14. Writing(S, st, g, l)
  BY <1>1, <1>5, <1>10, <1>11, <1>12, <1>13 DEF Writing
<1> QED BY <1>14 DEF S, g, l, st

(* What a deleted level does to the rows: those at it are gone, those that *)
(* were completed below it are active, and the rest keep what they say but *)
(* for a source that is gone.                                              *)
LEMMA DeleteWrites ==
  ASSUME GInv, NEW w \in Request, NEW g \in Group, NEW l \in Level, DeleteLevel(w, g, l)
  PROVE  /\ rows' \in Seq({Gone} \cup Row) /\ Len(rows') <= MaxRows /\ DOMAIN rows' = DOMAIN rows
         /\ \A i \in DOMAIN rows : i \notin Listed \/ i \in RowsAt(g, l) => rows'[i] = Gone
         /\ \A i \in Listed \ RowsAt(g, l) :
              /\ rows'[i] \in Row /\ rows'[i].student = rows[i].student
              /\ rows'[i].group = rows[i].group /\ rows'[i].level = rows[i].level
              /\ rows'[i].status = IF i \in Revived(g, l) THEN "active" ELSE rows[i].status
              /\ rows'[i].source = IF rows[i].source \in RowsAt(g, l) THEN 0 ELSE rows[i].source
<1> DEFINE gone == RowsAt(g, l)  back == Revived(g, l)
           at(i) == IF i \in gone THEN Gone
                    ELSE [rows[i] EXCEPT !.status = IF i \in back THEN "active" ELSE @,
                                         !.source = IF @ \in gone THEN 0 ELSE @]
<1>1. /\ Len(rows) \in Nat /\ DOMAIN rows = 1 .. Len(rows) /\ MaxRows \in Nat
      /\ gone \subseteq Listed /\ back \subseteq Listed /\ Listed \subseteq DOMAIN rows
      /\ \A i \in DOMAIN rows : rows[i] \in {Gone} \cup Row
      /\ \A i \in Listed : rows[i] \in Row
  BY RowsInTables DEF GInv, RowsAt, RowsOf, Revived, Listed
<1>2. rows' = [i \in DOMAIN rows |-> at(i)] /\ Len(rows') <= MaxRows
  BY DEF DeleteLevel, WriteRows, Cascade
<1>3. ASSUME NEW i \in DOMAIN rows, i \notin Listed
      PROVE  at(i) = Gone
  <2>1. rows[i] = Gone
    BY <1>1, <1>3, RowFields DEF Listed
  <2>2. i \notin gone /\ i \notin back /\ 0 \notin gone
    BY <1>1, <1>3
  <2>3. at(i) = [Gone EXCEPT !.status = Gone.status, !.source = 0]
    BY <2>1, <2>2 DEF Gone
  <2> QED BY <2>3 DEF Gone
<1>4. ASSUME NEW i \in Listed \ gone
      PROVE  /\ at(i) \in Row /\ at(i).student = rows[i].student
             /\ at(i).group = rows[i].group /\ at(i).level = rows[i].level
             /\ at(i).status = IF i \in back THEN "active" ELSE rows[i].status
             /\ at(i).source = IF rows[i].source \in gone THEN 0 ELSE rows[i].source
  <2> DEFINE r == rows[i]  st == IF i \in back THEN "active" ELSE r.status
             k == IF r.source \in gone THEN 0 ELSE r.source
  <2>1. r \in Row /\ st \in RowStatus /\ k \in 0 .. MaxRows
    BY <1>1, RowFields DEF RowStatus
  <2>2. at(i) = [r EXCEPT !.status = st, !.source = k]
    OBVIOUS
  <2>3. LET q == [r EXCEPT !.status = st, !.source = k] IN
        /\ q \in Row /\ q.student = r.student /\ q.group = r.group /\ q.level = r.level
        /\ q.status = st /\ q.source = k
    <3> HIDE DEF r, st, k
    <3> QED BY <2>1 DEF Row
  <2> HIDE DEF at
  <2> QED BY <2>2, <2>3
<1>5. \A i \in DOMAIN rows : at(i) \in {Gone} \cup Row
  <2> HIDE DEF at, back
  <2>1. \A i \in gone : at(i) = Gone
    BY DEF at
  <2> QED BY <1>3, <1>4, <2>1
<1>6. rows' \in Seq({Gone} \cup Row) /\ DOMAIN rows' = DOMAIN rows
  <2> HIDE DEF at
  <2> QED BY <1>1, <1>2, <1>5
<1>7. \A i \in DOMAIN rows : rows'[i] = at(i)
  BY <1>2
<1>8. \A i \in gone : at(i) = Gone
  OBVIOUS
<1> HIDE DEF at
<1> QED BY <1>1, <1>2, <1>3, <1>4, <1>6, <1>7, <1>8

(***************************************************************************)
(* The types.                                                              *)
(***************************************************************************)
LEMMA LevelFacts ==
  /\ MaxLevel \in Nat \ {0} /\ MaxRows \in Nat
  /\ Level = 1 .. MaxLevel /\ 1 \in Level /\ IsFiniteSet(Level) /\ Level \subseteq Nat
<1>1. MaxLevel \in Nat \ {0} /\ MaxRows \in Nat /\ Level = 1 .. MaxLevel
  BY ConstantsAssumption DEF Level
<1>2. IsFiniteSet(Level) /\ Level \subseteq Nat /\ 1 \in Level
  BY <1>1, FS_Interval
<1> QED BY <1>1, <1>2

(* A finite set of numbers that is not empty has a largest: a smallest set *)
(* without one would lose an element and still have none.                  *)
LEMMA LargestExists ==
  ASSUME NEW N \in SUBSET Nat, IsFiniteSet(N), N # {}
  PROVE  Largest(N) \in N /\ \A m \in N : m <= Largest(N)
<1> DEFINE Top(U) == \E n \in U : \A m \in U : m <= n
           Bad == {U \in FiniteSubsetsOf(Nat) : U # {} /\ ~ Top(U)}
<1>1. Bad = {}
  <2> SUFFICES ASSUME Bad # {} PROVE FALSE
    OBVIOUS
  <2>1. PICK U \in Bad : \A V \in Bad : <<V, U>> \notin StrictSubsetOrdering(Nat)
    <3>1. Bad \subseteq FiniteSubsetsOf(Nat)
      OBVIOUS
    <3> QED BY <3>1, FS_StrictSubsetOrderingWellFounded, WFMin
  <2>2. U \in SUBSET Nat /\ IsFiniteSet(U) /\ ~ Top(U)
    BY DEF FiniteSubsetsOf
  <2>3. PICK x \in U : TRUE
    OBVIOUS
  <2>4. U \ {x} \notin Bad
    BY <2>1, <2>2 DEF StrictSubsetOrdering
  <2>5. U \ {x} \in FiniteSubsetsOf(Nat)
    BY <2>2, FS_RemoveElement DEF FiniteSubsetsOf
  <2>6. CASE U \ {x} = {}
    <3>1. U = {x} /\ x \in Nat
      BY <2>2, <2>6
    <3> QED BY <2>2, <3>1
  <2>7. CASE Top(U \ {x})
    <3>1. PICK y \in U \ {x} : \A m \in U \ {x} : m <= y
      BY <2>7
    <3>2. x \in Nat /\ y \in Nat /\ U \subseteq Nat
      BY <2>2
    <3> QED BY <2>2, <3>1, <3>2
  <2> QED BY <2>4, <2>5, <2>6, <2>7
<1>2. Top(N)
  BY <1>1 DEF FiniteSubsetsOf
<1> QED BY <1>2 DEF Largest

(* So has a set of levels.                                                 *)
LEMMA LargestLevel ==
  ASSUME NEW N \in SUBSET Level, N # {}
  PROVE  Largest(N) \in N /\ \A m \in N : m <= Largest(N)
BY LevelFacts, LargestExists, FS_Subset

(* A cancelled level never leaves the group above it.                      *)
LEMMA FallBackIsBelow ==
  ASSUME NEW g \in Group, NEW l \in Level
  PROVE  FallBack(g, l) \in Level /\ FallBack(g, l) <= l
<1> DEFINE before == {m \in 1 .. (l - 1) : level[g][m] \in {"active", "completed"}}
<1>1. before \in SUBSET Level /\ \A m \in before : m <= l
  BY LevelFacts
<1>2. FallBack(g, l) = IF before = {} THEN l ELSE Largest(before)
  BY DEF FallBack
<1> HIDE DEF before
<1>3. l <= l
  BY LevelFacts
<1> QED BY <1>1, <1>2, <1>3, LargestLevel

(* The tables are empty at first and nothing is under way.                 *)
LEMMA InitTypes == Init => GInv
<1> SUFFICES ASSUME Init PROVE GInv
  OBVIOUS
<1>1. <<>> \in Seq({Gone} \cup Row) /\ Len(<<>>) = 0
  OBVIOUS
<1>2. Tables
  BY <1>1, LevelFacts DEF Init, Tables, LevelStatus
<1> QED BY <1>2 DEF Init, GInv, Holds

(* What a request holds depends on its own step and on the rows there are. *)
LEMMA HoldsOther ==
  ASSUME NEW v \in Request, Holds(v), DOMAIN rows \subseteq DOMAIN rows', tx'[v] = tx[v]
  PROVE  Holds(v)'
BY DEF Holds

(* One request moves, and no row goes away: the others hold what they did. *)
LEMMA OthersHold ==
  ASSUME GInv, NEW w \in Request, NEW x, tx' = [tx EXCEPT ![w] = x],
         DOMAIN rows \subseteq DOMAIN rows', Holds(w)'
  PROVE  tx' = [v \in Request |-> tx'[v]] /\ tx'[w] = x /\ \A v \in Request : Holds(v)'
<1>1. tx = [v \in Request |-> tx[v]]
  BY DEF GInv, Tables
<1>2. tx' = [v \in Request |-> IF v = w THEN x ELSE tx[v]]
  BY <1>1
<1>3. tx' = [v \in Request |-> tx'[v]] /\ tx'[w] = x /\ \A v \in Request \ {w} : tx'[v] = tx[v]
  BY <1>2
<1> QED BY <1>3, HoldsOther DEF GInv

(* One request moves and the others stay.                                  *)
LEMMA MovesTo ==
  ASSUME GInv, NEW w \in Request, NEW x, tx' = [tx EXCEPT ![w] = x]
  PROVE  tx'[w] = x /\ \A v \in Request \ {w} : tx'[v] = tx[v]
<1>1. tx = [v \in Request |-> tx[v]]
  BY DEF GInv, Tables
<1> QED BY <1>1

(* Tables that a step leaves as they are, and those it rewrites.           *)
LEMMA TablesStay ==
  ASSUME GInv, UNCHANGED <<open, current, level, rows>>,
         tx' = [v \in Request |-> tx'[v]], memo' = [h \in Group |-> memo'[h]],
         \A v \in Request : Holds(v)'
  PROVE  GInv'
BY DEF GInv, Tables, Row

(* A step that writes tables of their types keeps the types.               *)
LEMMA TablesWritten ==
  ASSUME GInv, UNCHANGED open, rows' \in Seq({Gone} \cup Row), Len(rows') <= MaxRows,
         current' \in [Group -> Level], level' \in [Group -> [Level -> LevelStatus]],
         tx' = [v \in Request |-> tx'[v]], memo' = [h \in Group |-> memo'[h]],
         \A v \in Request : Holds(v)'
  PROVE  GInv'
BY DEF GInv, Tables

(* The types over a step that only reads.                                  *)
LEMMA ReadsKeepTypes ==
  ASSUME GInv, NEW w \in Request, NEW x, tx' = [tx EXCEPT ![w] = x],
         UNCHANGED <<open, current, level, rows>>, memo' = [h \in Group |-> memo'[h]],
         Holds(w)'
  PROVE  GInv'
<1>1. tx' = [v \in Request |-> tx'[v]] /\ \A v \in Request : Holds(v)'
  BY OthersHold
<1> QED BY <1>1, TablesStay

(* The types over the step that commits a request.                         *)
LEMMA WritesKeepTypes ==
  ASSUME GInv, NEW w \in Request, tx' = [tx EXCEPT ![w] = Idle], UNCHANGED open,
         rows' \in Seq({Gone} \cup Row), Len(rows') <= MaxRows, DOMAIN rows \subseteq DOMAIN rows',
         current' \in [Group -> Level], level' \in [Group -> [Level -> LevelStatus]],
         memo' = [h \in Group |-> memo'[h]]
  PROVE  GInv'
<1>1. Holds(w)'
  BY MovesTo DEF Holds
<1>2. tx' = [v \in Request |-> tx'[v]] /\ \A v \in Request : Holds(v)'
  BY <1>1, OthersHold
<1> QED BY <1>2, TablesWritten

(* The types over a request that runs in one step.                         *)
LEMMA AtOnceKeepsTypes ==
  ASSUME GInv, UNCHANGED <<open, tx>>,
         rows' \in Seq({Gone} \cup Row), Len(rows') <= MaxRows, DOMAIN rows \subseteq DOMAIN rows',
         current' \in [Group -> Level], level' \in [Group -> [Level -> LevelStatus]],
         memo' = [h \in Group |-> memo'[h]]
  PROVE  GInv'
<1>1. tx' = [v \in Request |-> tx'[v]]
  BY DEF GInv, Tables
<1>2. \A v \in Request : Holds(v)'
  BY HoldsOther DEF GInv
<1> QED BY <1>1, <1>2, TablesWritten

(* Every step keeps the types.                                             *)
LEMMA NextTypes == GInv /\ [Next]_vars => GInv'
<1> SUFFICES ASSUME GInv, [Next]_vars PROVE GInv'
  OBVIOUS
<1> USE DEF Changed
<1>1. /\ open \subseteq Group /\ current \in [Group -> Level]
      /\ level \in [Group -> [Level -> LevelStatus]]
      /\ rows \in Seq({Gone} \cup Row) /\ Len(rows) <= MaxRows
      /\ tx = [v \in Request |-> tx[v]] /\ memo = [h \in Group |-> memo[h]]
  BY DEF GInv, Tables
<1>2. ASSUME NEW w \in Request, NEW s \in Student, NEW g \in Group, EnrollRead(w, s, g)
      PROVE  GInv'
  <2>1. tx'[w] = [step |-> "enroll", student |-> s, group |-> g, level |-> current[g]]
    BY <1>2, MovesTo DEF EnrollRead, Begin
  <2>2. Holds(w)'
    BY <1>1, <2>1 DEF Holds
  <2> QED BY <1>1, <1>2, <2>2, ReadsKeepTypes DEF EnrollRead, Begin
<1>3. ASSUME NEW w \in Request, NEW i, NEW g \in Group, TransferRead(w, i, g)
      PROVE  GInv'
  <2>1. tx'[w] = [step |-> "transfer", id |-> i, group |-> g, level |-> current[g]]
    BY <1>3, MovesTo DEF TransferRead, Begin
  <2>2. Holds(w)'
    BY <1>1, <1>3, <2>1 DEF Holds, TransferRead
  <2> QED BY <1>1, <1>3, <2>2, ReadsKeepTypes DEF TransferRead, Begin
<1>4. ASSUME NEW w \in Request, EnrollInsert(w)
      PROVE  GInv'
  <2>1. Writing({}, "dropped", tx[w].group, tx[w].level)
    BY <1>4, EnrollWrites
  <2> QED BY <1>1, <1>4, <2>1, WritesKeepTypes DEF EnrollInsert, End, Writing
<1>5. ASSUME NEW w \in Request, TransferCommit(w)
      PROVE  GInv'
  <2>1. Writing({tx[w].id}, "transferred", tx[w].group, tx[w].level)
    BY <1>5, TransferWrites
  <2>2. /\ tx' = [tx EXCEPT ![w] = Idle] /\ UNCHANGED <<open, current, level>>
        /\ memo' = [h \in Group |-> memo'[h]]
    BY <1>5 DEF TransferCommit, End
  <2>3. rows' \in Seq({Gone} \cup Row) /\ Len(rows') <= MaxRows /\ DOMAIN rows \subseteq DOMAIN rows'
    BY <2>1 DEF Writing
  <2> QED BY <1>1, <2>2, <2>3, WritesKeepTypes
<1>6. ASSUME NEW w \in Request, NEW i, Drop(w, i)
      PROVE  GInv'
  <2>1. Writing({i}, "dropped", rows[i].group, 1)
    BY <1>6, DropWrites, LevelFacts
  <2> QED BY <1>1, <1>6, <2>1, AtOnceKeepsTypes DEF Drop, AtOnce, Writing
<1>7. ASSUME NEW w \in Request, NEW g \in Group, NEW k \in Strides,
             NEW c \in BOOLEAN, NEW m \in BOOLEAN, ProgressRead(w, g, k, c, m)
      PROVE  GInv'
  <2> DEFINE held == {l \in Level : level[g][l] = "active"}
             from == Largest(held)
  <2>1. held # {} /\ from + k \in Level
    BY <1>7 DEF ProgressRead
  <2>2. from \in Level
    BY <2>1, LargestLevel
  <2>3. tx' = [tx EXCEPT ![w] = [step |-> "progress", group |-> g, from |-> from, to |-> from + k,
                                 complete |-> c, migrate |-> m]]
    BY <1>7 DEF ProgressRead, Begin
  <2>4. tx'[w] = [step |-> "progress", group |-> g, from |-> from, to |-> from + k,
                  complete |-> c, migrate |-> m]
    <3> HIDE DEF from
    <3> QED BY <2>3, MovesTo
  <2>5. Holds(w)'
    BY <2>1, <2>2, <2>4 DEF Holds
  <2>6. memo' = [h \in Group |-> memo'[h]] /\ UNCHANGED <<open, current, level, rows>>
    BY <1>1, <1>7 DEF ProgressRead
  <2> HIDE DEF from
  <2> QED BY <2>3, <2>5, <2>6, ReadsKeepTypes
<1>8. ASSUME NEW w \in Request, ProgressLoad(w)
      PROVE  GInv'
  <2> DEFINE t == tx[w]
             ids == IF t.migrate THEN RowsAt(t.group, t.from) \cap Enrolled(t.group) ELSE {}
             x == [step |-> "migrate", group |-> t.group, from |-> t.from, to |-> t.to,
                   complete |-> t.complete, ids |-> ids]
  <2>1. t.group \in Group /\ t.from \in Level /\ t.to \in Level /\ t.complete \in BOOLEAN
    BY <1>8 DEF GInv, Holds, ProgressLoad, Idle
  <2>2. tx' = [tx EXCEPT ![w] = x] /\ UNCHANGED <<open, current, level, rows, memo>>
    BY <1>8 DEF ProgressLoad
  <2>3. tx'[w] = x
    BY <2>2, MovesTo
  <2>4. ids \subseteq DOMAIN rows
    BY DEF RowsAt, RowsOf
  <2>5. Holds(w)'
    <3> HIDE DEF ids
    <3> QED BY <2>1, <2>2, <2>3, <2>4 DEF Holds
  <2> HIDE DEF x
  <2> QED BY <1>1, <2>2, <2>5, ReadsKeepTypes
<1>9. ASSUME NEW w \in Request, ProgressCommit(w)
      PROVE  GInv'
  <2>1. Writing(tx[w].ids, "completed", tx[w].group, tx[w].to)
    BY <1>9, ProgressWrites
  <2>2. tx[w].group \in Group /\ tx[w].to \in Level
    BY <2>1 DEF Writing
  <2>3. level' \in [Group -> [Level -> LevelStatus]]
    BY <1>1, <1>9, <2>2 DEF ProgressCommit, LevelStatus
  <2>4. current' \in [Group -> Level] /\ memo' = [h \in Group |-> memo'[h]]
    BY <1>1, <1>9, <2>2 DEF ProgressCommit
  <2> QED BY <1>9, <2>1, <2>3, <2>4, WritesKeepTypes DEF ProgressCommit, End, Writing
<1>10. ASSUME NEW w \in Request, NEW g \in Group, NEW l \in Level, CancelLevel(w, g, l)
       PROVE  GInv'
  <2>1. FallBack(g, l) \in Level
    BY FallBackIsBelow
  <2>2. /\ level' \in [Group -> [Level -> LevelStatus]] /\ current' \in [Group -> Level]
        /\ memo' = [h \in Group |-> memo'[h]] /\ UNCHANGED <<open, rows, tx>>
    BY <1>1, <1>10, <2>1 DEF CancelLevel, AtOnce, LevelStatus
  <2> QED BY <1>1, <2>2, AtOnceKeepsTypes
<1>11. ASSUME NEW w \in Request, NEW g \in Group, NEW l \in Level, DeleteLevel(w, g, l)
       PROVE  GInv'
  <2>1. rows' \in Seq({Gone} \cup Row) /\ Len(rows') <= MaxRows /\ DOMAIN rows' = DOMAIN rows
    BY <1>11, DeleteWrites
  <2>2. l - 1 \in Level
    <3>1. l # 1 /\ l \in 1 .. MaxLevel /\ MaxLevel \in Nat
      BY <1>11, LevelFacts DEF DeleteLevel
    <3> QED BY <3>1, LevelFacts
  <2>3. /\ level' \in [Group -> [Level -> LevelStatus]] /\ current' \in [Group -> Level]
        /\ memo' = [h \in Group |-> memo'[h]] /\ UNCHANGED <<open, tx>>
    BY <1>1, <1>11, <2>2 DEF DeleteLevel, AtOnce, LevelStatus
  <2> QED BY <2>1, <2>3, AtOnceKeepsTypes
<1>12. ASSUME NEW w \in Request, NEW g \in Group, SetStatus(w, g)
       PROVE  GInv'
  <2>1. open' \subseteq Group
    BY <1>1, <1>12 DEF SetStatus
  <2> QED BY <1>12, <2>1 DEF SetStatus, AtOnce, GInv, Tables, Holds
<1>13. ASSUME NEW w \in Request, Rollback(w)
       PROVE  GInv'
  <2>1. Holds(w)'
    BY <1>13, MovesTo DEF Holds, Rollback, End
  <2> QED BY <1>1, <1>13, <2>1, ReadsKeepTypes DEF Rollback, End
<1>14. CASE UNCHANGED vars
  BY <1>14 DEF vars, GInv, Tables, Holds
<1> QED BY <1>2, <1>3, <1>4, <1>5, <1>6, <1>7, <1>8, <1>9, <1>10, <1>11, <1>12, <1>13, <1>14 DEF Next

(* The invariant has the types of the model in it.                         *)
LEMMA GInvTypes == GInv => TypeOK
<1>1. ASSUME GInv PROVE TypeOK
  <2>1. Tables /\ \A w \in Request : Holds(w)
    BY <1>1 DEF GInv
  <2>2. \A w \in Request : tx[w].step \in {"idle", "enroll", "transfer", "progress", "migrate"}
    BY <2>1 DEF Holds, Idle
  <2>3. DOMAIN memo = Group
    BY <2>1 DEF Tables
  <2> QED BY <2>1, <2>2, <2>3 DEF Tables, TypeOK, Row, LevelStatus
<1> QED BY <1>1

(* Every variable has its type, for any number of requests, groups,        *)
(* students and levels and whatever they skip.                             *)
THEOREM GroupTypesCorrect == Spec => []TypeOK
<1>1. Spec => []GInv
  BY InitTypes, NextTypes, PTL DEF Spec
<1> QED BY <1>1, GInvTypes, PTL

(***************************************************************************)
(* Who has left stays out, when requests come one at a time.               *)
(***************************************************************************)
Loaded ==
  \A w \in Request :
    tx[w].step = "migrate" => \A i \in tx[w].ids : i \in Listed /\ rows[i].status = "active"

(* A request that writes is the only one, and is idle afterwards.          *)
LEMMA WritersAreAlone ==
  ASSUME GInv, OneAtATime, NEW w \in Request,
         (UNCHANGED tx /\ tx[w] = Idle) \/ tx' = [tx EXCEPT ![w] = Idle]
  PROVE  \A v \in Request : v = w /\ tx'[v] = Idle
BY MovesTo DEF OneAtATime

(* What a progression has loaded stays active until it commits: nobody     *)
(* else writes.                                                            *)
LEMMA NextLoaded ==
  ASSUME GInv, OneAtATime, Loaded, [Next]_vars
  PROVE  Loaded'
<1>1. ASSUME NEW w \in Request,
             (UNCHANGED tx /\ tx[w] = Idle) \/ tx' = [tx EXCEPT ![w] = Idle]
      PROVE  Loaded'
  BY <1>1, WritersAreAlone DEF Loaded, Idle
<1>2. ASSUME NEW w \in Request, NEW x, tx' = [tx EXCEPT ![w] = x],
             UNCHANGED rows, x.step # "migrate"
      PROVE  Loaded'
  BY <1>2, MovesTo DEF OneAtATime, Loaded
<1>3. ASSUME NEW w \in Request, ProgressLoad(w)
      PROVE  Loaded'
  <2> DEFINE t == tx[w]
             ids == IF t.migrate THEN RowsAt(t.group, t.from) \cap Enrolled(t.group) ELSE {}
             x == [step |-> "migrate", group |-> t.group, from |-> t.from, to |-> t.to,
                   complete |-> t.complete, ids |-> ids]
  <2>1. tx' = [tx EXCEPT ![w] = x] /\ UNCHANGED rows
    BY <1>3 DEF ProgressLoad
  <2>2. tx'[w] = x
    BY <2>1, MovesTo
  <2>3. \A i \in ids : i \in Listed /\ rows[i].status = "active"
    BY DEF RowsAt, RowsOf, Enrolled, Listed
  <2>4. x.ids = ids
    OBVIOUS
  <2> HIDE DEF ids, x
  <2> QED BY <2>1, <2>2, <2>3, <2>4 DEF OneAtATime, Loaded, Listed
<1>4. ASSUME NEW w \in Request, NEW s \in Student, NEW g \in Group, EnrollRead(w, s, g)
      PROVE  Loaded'
  <2> DEFINE x == [step |-> "enroll", student |-> s, group |-> g, level |-> current[g]]
  <2>1. tx' = [tx EXCEPT ![w] = x] /\ UNCHANGED rows /\ x.step # "migrate"
    BY <1>4 DEF EnrollRead, Begin
  <2> HIDE DEF x
  <2> QED BY <1>2, <2>1
<1>5. ASSUME NEW w \in Request, NEW i, NEW g \in Group, TransferRead(w, i, g)
      PROVE  Loaded'
  <2> DEFINE x == [step |-> "transfer", id |-> i, group |-> g, level |-> current[g]]
  <2>1. tx' = [tx EXCEPT ![w] = x] /\ UNCHANGED rows /\ x.step # "migrate"
    BY <1>5 DEF TransferRead, Begin
  <2> HIDE DEF x
  <2> QED BY <1>2, <2>1
<1>6. ASSUME NEW w \in Request, NEW g \in Group, NEW k \in Strides,
             NEW c \in BOOLEAN, NEW m \in BOOLEAN, ProgressRead(w, g, k, c, m)
      PROVE  Loaded'
  <2> DEFINE from == Largest({l \in Level : level[g][l] = "active"})
             x == [step |-> "progress", group |-> g, from |-> from, to |-> from + k,
                   complete |-> c, migrate |-> m]
  <2>1. tx' = [tx EXCEPT ![w] = x] /\ UNCHANGED rows
    BY <1>6 DEF ProgressRead, Begin
  <2>2. x.step # "migrate"
    OBVIOUS
  <2> HIDE DEF x
  <2> QED BY <1>2, <2>1, <2>2
<1>7. ASSUME NEW w \in Request,
             \/ EnrollInsert(w) \/ TransferCommit(w) \/ ProgressCommit(w) \/ Rollback(w)
             \/ \E i \in 1 .. MaxRows : Drop(w, i)
             \/ \E g \in Group : SetStatus(w, g)
             \/ \E g \in Group : \E l \in Level : CancelLevel(w, g, l) \/ DeleteLevel(w, g, l)
      PROVE  Loaded'
  <2>1. (UNCHANGED tx /\ tx[w] = Idle) \/ tx' = [tx EXCEPT ![w] = Idle]
    BY <1>7 DEF EnrollInsert, TransferCommit, ProgressCommit, Rollback, Drop, SetStatus,
         CancelLevel, DeleteLevel, AtOnce, End
  <2> QED BY <1>1, <2>1
<1>8. CASE UNCHANGED vars
  BY <1>8 DEF vars, Loaded, Listed
<1> QED BY <1>3, <1>4, <1>5, <1>6, <1>7, <1>8 DEF Next

(* A write that only completes active rows revives nobody who left.        *)
LEMMA WritingLeavers ==
  ASSUME GInv, NEW S, NEW st, NEW g, NEW l, Writing(S, st, g, l),
         st = "completed" => \A i \in S : rows[i].status = "active"
  PROVE  \A i \in DOMAIN rows :
           rows[i].status \in {"dropped", "transferred"}
             => rows'[i].status \notin {"active", "completed"}
<1> SUFFICES ASSUME NEW i \in DOMAIN rows, rows[i].status \in {"dropped", "transferred"}
             PROVE  rows'[i].status \notin {"active", "completed"}
  OBVIOUS
<1>1. CASE i \in S
  <2>1. st # "active" /\ rows'[i] = [rows[i] EXCEPT !.status = st] /\ st # "completed"
    BY <1>1 DEF Writing
  <2>2. rows'[i].status = st
    <3>1. "status" \in DOMAIN rows[i]
      BY <1>1, RowsInTables DEF Writing, GInv, Row
    <3> QED BY <2>1, <3>1
  <2> QED BY <2>1, <2>2
<1>2. CASE i \notin S
  BY <1>2 DEF Writing
<1> QED BY <1>1, <1>2

(* No step revives a student who left.                                     *)
LEMMA LeaversAreLeft ==
  ASSUME GInv, OneAtATime, Loaded, [Next]_vars
  PROVE  [\A i \in DOMAIN rows :
            rows[i].status \in {"dropped", "transferred"}
              => rows'[i].status \notin {"active", "completed"}]_vars
<1> DEFINE Left == \A i \in DOMAIN rows :
             rows[i].status \in {"dropped", "transferred"}
               => rows'[i].status \notin {"active", "completed"}
<1>1. ASSUME UNCHANGED rows PROVE Left
  BY <1>1
<1>2. ASSUME NEW w \in Request, EnrollInsert(w) PROVE Left
  BY <1>2, EnrollWrites, WritingLeavers
<1>3. ASSUME NEW w \in Request, TransferCommit(w) PROVE Left
  BY <1>3, TransferWrites, WritingLeavers
<1>4. ASSUME NEW w \in Request, NEW i, Drop(w, i) PROVE Left
  <2>1. Writing({i}, "dropped", rows[i].group, 1)
    BY <1>4, DropWrites, LevelFacts
  <2> HIDE DEF Left
  <2>2. ("dropped" = "completed" => \A j \in {i} : rows[j].status = "active") => Left
    BY <2>1, WritingLeavers DEF Left
  <2> QED BY <2>2
<1>5. ASSUME NEW w \in Request, ProgressCommit(w) PROVE Left
  <2>1. \A i \in tx[w].ids : rows[i].status = "active"
    BY <1>5 DEF Loaded, ProgressCommit
  <2> QED BY <1>5, <2>1, ProgressWrites, WritingLeavers
<1>6. ASSUME NEW w \in Request, NEW g \in Group, NEW l \in Level, DeleteLevel(w, g, l) PROVE Left
  <2> SUFFICES ASSUME NEW i \in DOMAIN rows, rows[i].status \in {"dropped", "transferred"}
               PROVE  rows'[i].status \notin {"active", "completed"}
    OBVIOUS
  <2>1. i \in Listed /\ i \notin Revived(g, l)
    BY DEF Listed, Revived
  <2>2. CASE i \in RowsAt(g, l)
    BY <1>6, <2>2, DeleteWrites, RowFields
  <2>3. CASE i \notin RowsAt(g, l)
    BY <1>6, <2>1, <2>3, DeleteWrites
  <2> QED BY <2>2, <2>3
<1>7. ASSUME NEW w \in Request,
             \/ ProgressLoad(w) \/ Rollback(w)
             \/ \E s \in Student : \E g \in Group : EnrollRead(w, s, g)
             \/ \E i \in 1 .. MaxRows : \E g \in Group : TransferRead(w, i, g)
             \/ \E g \in Group : \E k \in Strides : \E c, m \in BOOLEAN : ProgressRead(w, g, k, c, m)
             \/ \E g \in Group : \E l \in Level : CancelLevel(w, g, l)
             \/ \E g \in Group : SetStatus(w, g)
      PROVE  UNCHANGED rows
  BY <1>7 DEF ProgressLoad, Rollback, EnrollRead, TransferRead, ProgressRead, CancelLevel, SetStatus
<1> HIDE DEF Left
<1>8. ASSUME Next PROVE Left
  BY <1>1, <1>2, <1>3, <1>4, <1>5, <1>6, <1>7, <1>8 DEF Next
<1>9. Left \/ UNCHANGED vars
  BY <1>8
<1> QED BY <1>9 DEF Left

(* A student who was dropped or transferred away is not enrolled again by  *)
(* a progression or an undone one, when requests come one at a time,       *)
(* whatever levels they skip.                                              *)
THEOREM LeaversAreOut ==
  ASSUME OneAtATime PROVE Spec => LeaversStayOut
<1>1. Init => Loaded
  BY DEF Init, Loaded, Idle
<1>2. GInv /\ Loaded /\ [Next]_vars
        => GInv' /\ Loaded' /\ [\A i \in DOMAIN rows :
                                  rows[i].status \in {"dropped", "transferred"}
                                    => rows'[i].status \notin {"active", "completed"}]_vars
  BY NextTypes, NextLoaded, LeaversAreLeft
<1> QED BY <1>1, <1>2, InitTypes, PTL DEF Spec, LeaversStayOut

(***************************************************************************)
(* The inductive invariant, when requests come one at a time and levels    *)
(* are not skipped.                                                        *)
(***************************************************************************)

(* The levels of g are 1 .. n, the last one active or cancelled.  The      *)
(* group is at one of them, at the last one if it is active, and no        *)
(* enrollment has completed that one.                                      *)
Stands(g, n) ==
  /\ \A l \in Level : level[g][l] # "none" <=> l <= n
  /\ level[g][n] \in {"active", "cancelled"}
  /\ current[g] <= n /\ (level[g][n] = "active" => current[g] = n)
  /\ \A i \in RowsOf(g) : rows[i].level <= n /\ (rows[i].level = n => rows[i].status # "completed")

Contiguous == \A g \in Group : \E n \in Level : Stands(g, n)

(* A transferred enrollment is older than the one it became, and another   *)
(* of the same student.                                                    *)
Sourced ==
  \A i \in Listed : LET j == rows[i].source IN
    j # 0 => j < i /\ j \in Listed /\ rows[j].student = rows[i].student

(* What is true of the rows however many requests there are and whatever   *)
(* levels they skip.                                                       *)
RowsInv == GInv /\ Sourced /\ UniqueIndex(rows)

(* Between its steps, a progression still finds the group as it read it.   *)
Underway(w) ==
  LET t == tx[w]
      g == t.group IN
  /\ t.to = t.from + 1 /\ level[g][t.from] = "active" /\ level[g][t.to] = "none"
  /\ memo[g] = [done |-> FALSE, by |-> w, was |-> Snapshot(g)]

InHand(w) ==
  /\ tx[w].step \in {"enroll", "transfer"} => tx[w].level = current[tx[w].group]
  /\ tx[w].step \in {"progress", "migrate"} => Underway(w)
  /\ tx[w].step = "migrate"
       => tx[w].ids \subseteq RowsAt(tx[w].group, tx[w].from) \cap Enrolled(tx[w].group)

(* The group without its last level n.                                     *)
Undo(g, n) ==
  [level    |-> [level[g] EXCEPT ![n] = "none", ![n - 1] = IF @ = "completed" THEN "active" ELSE @],
   current  |-> n - 1,
   enrolled |-> (Enrolled(g) \ RowsAt(g, n)) \cup Revived(g, n)]

(* What is remembered of a group is what a progression under way found, or *)
(* what the undoing of the last one would leave.                           *)
Remembered(g) ==
  \/ memo[g] = Nothing
  \/ \E w \in Request : /\ memo[g] = [done |-> FALSE, by |-> w, was |-> Snapshot(g)]
                        /\ tx[w].step \in {"progress", "migrate"} /\ tx[w].group = g
  \/ \E w \in Request : \E n \in Level :
       n > 1 /\ Stands(g, n) /\ memo[g] = [done |-> TRUE, by |-> w, was |-> Undo(g, n)]

GroupsInv ==
  /\ GInv /\ Contiguous /\ Sourced /\ UniqueIndex(rows)
  /\ \A w \in Request : InHand(w)
  /\ \A g \in Group : Remembered(g)

(* Groups start at level one, which is active.                             *)
LEMMA InitGroupsInv == Init => GroupsInv
<1> SUFFICES ASSUME Init PROVE GroupsInv
  OBVIOUS
<1>1. GInv
  BY InitTypes
<1>2. rows = <<>> /\ DOMAIN rows = {} /\ \A g \in Group : RowsOf(g) = {}
  BY DEF Init, RowsOf
<1>3. Contiguous
  <2> SUFFICES ASSUME NEW g \in Group PROVE Stands(g, 1)
    BY LevelFacts DEF Contiguous
  <2> QED BY <1>2, LevelFacts DEF Init, Stands
<1>4. Sourced /\ UniqueIndex(rows)
  BY <1>2 DEF Sourced, UniqueIndex, Listed
<1>5. \A w \in Request : InHand(w)
  BY DEF Init, InHand, Idle
<1>6. \A g \in Group : Remembered(g)
  BY DEF Init, Remembered
<1> QED BY <1>1, <1>3, <1>4, <1>5, <1>6 DEF GroupsInv

(***************************************************************************)
(* A group that a step leaves alone.                                       *)
(***************************************************************************)
LeftAlone(g) ==
  /\ level'[g] = level[g] /\ current'[g] = current[g] /\ RowsOf(g)' = RowsOf(g)
  /\ \A i \in RowsOf(g) : rows'[i].level = rows[i].level /\ rows'[i].status = rows[i].status

(* What is said of a group that a step leaves alone is still true.         *)
LEMMA LeftAsItIs ==
  ASSUME NEW g \in Group, LeftAlone(g)
  PROVE  /\ \A n \in Level : Stands(g, n)' <=> Stands(g, n)
         /\ \A l \in Level : RowsAt(g, l)' = RowsAt(g, l)
         /\ Enrolled(g)' = Enrolled(g)
         /\ Snapshot(g)' = Snapshot(g)
         /\ \A n \in Level : n > 1 => Undo(g, n)' = Undo(g, n)
<1>1. \A l \in Level : RowsAt(g, l)' = RowsAt(g, l)
  BY DEF LeftAlone, RowsAt
<1>2. Enrolled(g)' = Enrolled(g)
  BY DEF LeftAlone, Enrolled
<1>3. Snapshot(g)' = Snapshot(g)
  BY <1>2 DEF LeftAlone, Snapshot
<1>4. \A n \in Level : Stands(g, n)' <=> Stands(g, n)
  BY DEF LeftAlone, Stands
<1>5. ASSUME NEW n \in Level, n > 1
      PROVE  Undo(g, n)' = Undo(g, n)
  <2>1. n - 1 \in Level
    BY <1>5, LevelFacts
  <2>2. \A i \in RowsAt(g, n - 1) : rows'[i].status = rows[i].status
    BY DEF LeftAlone, RowsAt
  <2>3. Revived(g, n)' = Revived(g, n)
    BY <1>1, <2>1, <2>2 DEF Revived
  <2> QED BY <1>1, <1>2, <2>3 DEF LeftAlone, Undo
<1> QED BY <1>1, <1>2, <1>3, <1>4, <1>5

(* What is remembered of it stays, unless a request was in the middle of   *)
(* it, or is forgotten.                                                    *)
LEMMA LeftRemembered ==
  ASSUME NEW g \in Group, LeftAlone(g), Remembered(g), memo'[g] = memo[g],
         \A w \in Request : tx[w].step \in {"progress", "migrate"} /\ tx[w].group = g
           => tx'[w].step \in {"progress", "migrate"} /\ tx'[w].group = g
  PROVE  Remembered(g)'
<1>1. CASE memo[g] = Nothing
  BY <1>1 DEF Remembered
<1>2. CASE \E w \in Request : /\ memo[g] = [done |-> FALSE, by |-> w, was |-> Snapshot(g)]
                              /\ tx[w].step \in {"progress", "migrate"} /\ tx[w].group = g
  <2>1. PICK w \in Request : /\ memo[g] = [done |-> FALSE, by |-> w, was |-> Snapshot(g)]
                             /\ tx[w].step \in {"progress", "migrate"} /\ tx[w].group = g
    BY <1>2
  <2>2. memo'[g] = [done |-> FALSE, by |-> w, was |-> Snapshot(g)']
    BY <2>1, LeftAsItIs
  <2> QED BY <2>1, <2>2 DEF Remembered
<1>3. CASE \E w \in Request : \E n \in Level :
             n > 1 /\ Stands(g, n) /\ memo[g] = [done |-> TRUE, by |-> w, was |-> Undo(g, n)]
  <2>1. PICK w \in Request, n \in Level :
             n > 1 /\ Stands(g, n) /\ memo[g] = [done |-> TRUE, by |-> w, was |-> Undo(g, n)]
    BY <1>3
  <2>2. memo'[g] = [done |-> TRUE, by |-> w, was |-> Undo(g, n)'] /\ Stands(g, n)'
    BY <2>1, LeftAsItIs
  <2> QED BY <2>1, <2>2 DEF Remembered
<1> QED BY <1>1, <1>2, <1>3 DEF Remembered

(* A step after which nothing of the tables has changed.                   *)
LEMMA AllLeftAlone ==
  ASSUME GroupsInv, UNCHANGED <<level, current, rows>>
  PROVE  /\ \A g \in Group : LeftAlone(g)
         /\ Contiguous' /\ Sourced' /\ UniqueIndex(rows)'
<1>1. \A g \in Group : LeftAlone(g)
  BY DEF LeftAlone, RowsOf
<1>2. Contiguous'
  BY <1>1, LeftAsItIs DEF GroupsInv, Contiguous
<1>3. Sourced' /\ UniqueIndex(rows)'
  BY DEF GroupsInv, Sourced, Listed, UniqueIndex
<1> QED BY <1>1, <1>2, <1>3

(***************************************************************************)
(* The steps that write no table.                                          *)
(***************************************************************************)
LEMMA EnrollReadInv ==
  ASSUME GroupsInv, GInv', OneAtATime, NEW w \in Request, NEW s \in Student, NEW g \in Group,
         EnrollRead(w, s, g)
  PROVE  GroupsInv'
<1> DEFINE x == [step |-> "enroll", student |-> s, group |-> g, level |-> current[g]]
<1>1. tx[w] = Idle /\ tx' = [tx EXCEPT ![w] = x] /\ UNCHANGED <<level, current, rows, memo>>
  BY DEF EnrollRead, Begin
<1>2. tx'[w] = x /\ \A v \in Request : v = w
  <2> HIDE DEF x
  <2> QED BY <1>1, MovesTo DEF OneAtATime, GroupsInv
<1>3. \A v \in Request : InHand(v)'
  BY <1>1, <1>2 DEF InHand
<1>4. \A h \in Group : Remembered(h)'
  <2> SUFFICES ASSUME NEW h \in Group PROVE Remembered(h)'
    OBVIOUS
  <2>1. \A v \in Request : tx[v].step \notin {"progress", "migrate"}
    BY <1>1, <1>2 DEF Idle
  <2> HIDE DEF x
  <2> QED BY <1>1, <2>1, AllLeftAlone, LeftRemembered DEF GroupsInv
<1> QED BY <1>1, <1>3, <1>4, AllLeftAlone DEF GroupsInv

(* A transfer reads the level it will write.                               *)
LEMMA TransferReadInv ==
  ASSUME GroupsInv, GInv', OneAtATime, NEW w \in Request, NEW i, NEW g \in Group,
         TransferRead(w, i, g)
  PROVE  GroupsInv'
<1> DEFINE x == [step |-> "transfer", id |-> i, group |-> g, level |-> current[g]]
<1>1. tx[w] = Idle /\ tx' = [tx EXCEPT ![w] = x] /\ UNCHANGED <<level, current, rows, memo>>
  BY DEF TransferRead, Begin
<1>2. tx'[w] = x /\ \A v \in Request : v = w
  <2> HIDE DEF x
  <2> QED BY <1>1, MovesTo DEF OneAtATime, GroupsInv
<1>3. \A v \in Request : InHand(v)'
  BY <1>1, <1>2 DEF InHand
<1>4. \A h \in Group : Remembered(h)'
  <2> SUFFICES ASSUME NEW h \in Group PROVE Remembered(h)'
    OBVIOUS
  <2>1. \A v \in Request : tx[v].step \notin {"progress", "migrate"}
    BY <1>1, <1>2 DEF Idle
  <2> HIDE DEF x
  <2> QED BY <1>1, <2>1, AllLeftAlone, LeftRemembered DEF GroupsInv
<1> QED BY <1>1, <1>3, <1>4, AllLeftAlone DEF GroupsInv

(* A progression starts at the last level of its group. *)
LEMMA ProgressReadInv ==
  ASSUME GroupsInv, GInv', OneAtATime, NoSkips, NEW w \in Request, NEW g \in Group,
         NEW k \in Strides, NEW c \in BOOLEAN, NEW m \in BOOLEAN, ProgressRead(w, g, k, c, m)
  PROVE  GroupsInv'
<1> DEFINE held == {l \in Level : level[g][l] = "active"}
           from == Largest(held)
           x == [step |-> "progress", group |-> g, from |-> from, to |-> from + k,
                 complete |-> c, migrate |-> m]
<1>1. /\ tx[w] = Idle /\ tx' = [tx EXCEPT ![w] = x] /\ UNCHANGED <<level, current, rows>>
      /\ held # {} /\ from + k \in Level /\ level[g][from + k] = "none"
      /\ memo' = [memo EXCEPT ![g] = [done |-> FALSE, by |-> w, was |-> Snapshot(g)]]
  BY DEF ProgressRead, Begin
<1>2. tx'[w] = x /\ \A v \in Request : v = w
  <2> HIDE DEF x
  <2> QED BY <1>1, MovesTo DEF OneAtATime, GroupsInv
<1>3. from \in Level /\ level[g][from] = "active" /\ k = 1
  <2>1. from \in held
    BY <1>1, LargestLevel
  <2> HIDE DEF from
  <2> QED BY <2>1 DEF NoSkips
<1>4. x.step = "progress" /\ x.group = g /\ x.from = from /\ x.to = from + 1
  <2> HIDE DEF from
  <2> QED BY <1>3
<1>5. memo = [h \in Group |-> memo[h]]
  BY DEF GroupsInv, GInv, Tables
<1>6. /\ memo'[g] = [done |-> FALSE, by |-> w, was |-> Snapshot(g)]
      /\ \A h \in Group \ {g} : memo'[h] = memo[h]
  BY <1>1, <1>5
<1>7. Snapshot(g)' = Snapshot(g)
  BY <1>1, AllLeftAlone, LeftAsItIs
<1> HIDE DEF x, held, from
<1>8. \A v \in Request : InHand(v)'
  <2>1. Underway(w)'
    BY <1>1, <1>2, <1>3, <1>4, <1>6, <1>7 DEF Underway
  <2> QED BY <1>2, <1>4, <2>1 DEF InHand
<1>9. \A h \in Group : Remembered(h)'
  <2> SUFFICES ASSUME NEW h \in Group PROVE Remembered(h)'
    OBVIOUS
  <2>1. CASE h = g
    BY <1>2, <1>4, <1>6, <1>7, <2>1 DEF Remembered
  <2>2. CASE h # g
    <3>1. \A v \in Request : tx[v].step \notin {"progress", "migrate"}
      BY <1>1, <1>2 DEF Idle
    <3> QED BY <1>1, <1>6, <2>2, <3>1, AllLeftAlone, LeftRemembered DEF GroupsInv
  <2> QED BY <2>1, <2>2
<1> QED BY <1>1, <1>8, <1>9, AllLeftAlone DEF GroupsInv

(* A progression loads the active enrollments of the level it leaves.      *)
LEMMA ProgressLoadInv ==
  ASSUME GroupsInv, GInv', OneAtATime, NEW w \in Request, ProgressLoad(w)
  PROVE  GroupsInv'
<1> DEFINE t == tx[w]
           ids == IF t.migrate THEN RowsAt(t.group, t.from) \cap Enrolled(t.group) ELSE {}
           x == [step |-> "migrate", group |-> t.group, from |-> t.from, to |-> t.to,
                 complete |-> t.complete, ids |-> ids]
<1>1. /\ t.step = "progress" /\ tx' = [tx EXCEPT ![w] = x]
      /\ UNCHANGED <<level, current, rows, memo>>
  BY DEF ProgressLoad
<1>2. tx'[w] = x /\ \A v \in Request : v = w
  <2> HIDE DEF x
  <2> QED BY <1>1, MovesTo DEF OneAtATime, GroupsInv
<1>3. /\ x.step = "migrate" /\ x.group = t.group /\ x.from = t.from /\ x.to = t.to /\ x.ids = ids
      /\ ids \subseteq RowsAt(t.group, t.from) \cap Enrolled(t.group)
  OBVIOUS
<1>4. t.group \in Group /\ t.from \in Level
  BY <1>1 DEF GroupsInv, GInv, Holds, Idle
<1>5. \A h \in Group : Snapshot(h)' = Snapshot(h)
  BY <1>1, AllLeftAlone, LeftAsItIs
<1> HIDE DEF x, ids
<1>6. \A v \in Request : InHand(v)'
  <2>1. Underway(w)
    BY <1>1 DEF GroupsInv, InHand
  <2>2. Underway(w)'
    BY <1>1, <1>2, <1>3, <1>4, <1>5, <2>1 DEF Underway
  <2>3. tx'[w].ids \subseteq (RowsAt(tx[w].group, tx[w].from) \cap Enrolled(tx[w].group))'
    BY <1>1, <1>2, <1>3 DEF RowsAt, RowsOf, Enrolled
  <2> QED BY <1>2, <1>3, <2>2, <2>3 DEF InHand
<1>7. \A h \in Group : Remembered(h)'
  <2> SUFFICES ASSUME NEW h \in Group PROVE Remembered(h)'
    OBVIOUS
  <2>1. \A v \in Request : tx[v].step \in {"progress", "migrate"} /\ tx[v].group = h
          => tx'[v].step \in {"progress", "migrate"} /\ tx'[v].group = h
    BY <1>2, <1>3
  <2> QED BY <1>1, <2>1, AllLeftAlone, LeftRemembered DEF GroupsInv
<1> QED BY <1>1, <1>6, <1>7, AllLeftAlone DEF GroupsInv

(* A progression that fails forgets what it found.                         *)
LEMMA RollbackInv ==
  ASSUME GroupsInv, GInv', OneAtATime, NEW w \in Request, Rollback(w)
  PROVE  GroupsInv'
<1>1. /\ tx' = [tx EXCEPT ![w] = Idle] /\ UNCHANGED <<level, current, rows>>
      /\ memo' = [g \in Group |-> IF "by" \in DOMAIN memo[g] /\ memo[g].by = w /\ ~ memo[g].done
                                  THEN Nothing ELSE memo[g]]
  BY DEF Rollback, End
<1>2. \A v \in Request : v = w /\ tx'[v] = Idle
  BY <1>1, WritersAreAlone DEF GroupsInv
<1>3. \A v \in Request : InHand(v)'
  BY <1>2 DEF InHand, Idle
<1>4. \A h \in Group : Remembered(h)'
  <2> SUFFICES ASSUME NEW h \in Group PROVE Remembered(h)'
    OBVIOUS
  <2>1. Remembered(h) /\ LeftAlone(h)
    BY <1>1, AllLeftAlone DEF GroupsInv
  <2>2. memo[h] = Nothing => memo'[h] = Nothing
    BY <1>1 DEF Nothing
  <2>3. (\E v \in Request : memo[h] = [done |-> FALSE, by |-> v, was |-> Snapshot(h)]) => memo'[h] = Nothing
    BY <1>1, <1>2
  <2>4. ASSUME NEW v \in Request, NEW n \in Level, n > 1, Stands(h, n),
               memo[h] = [done |-> TRUE, by |-> v, was |-> Undo(h, n)]
        PROVE  Remembered(h)'
    <3>1. memo'[h] = memo[h]
      BY <1>1, <2>4
    <3>2. memo'[h] = [done |-> TRUE, by |-> v, was |-> Undo(h, n)'] /\ Stands(h, n)'
      BY <2>1, <2>4, <3>1, LeftAsItIs
    <3> QED BY <2>4, <3>2 DEF Remembered
  <2> QED BY <2>1, <2>2, <2>3, <2>4 DEF Remembered
<1> QED BY <1>1, <1>3, <1>4, AllLeftAlone DEF GroupsInv

(* Also a change of the group's status, and no step at all. *)
LEMMA UntouchedInv ==
  ASSUME GroupsInv, GInv', UNCHANGED <<level, current, rows, tx, memo>>
  PROVE  GroupsInv'
<1>1. \A h \in Group : Snapshot(h)' = Snapshot(h)
  BY AllLeftAlone, LeftAsItIs
<1>2. \A v \in Request : InHand(v)'
  <2> SUFFICES ASSUME NEW v \in Request PROVE InHand(v)'
    OBVIOUS
  <2>1. InHand(v) /\ Holds(v)
    BY DEF GroupsInv, GInv
  <2>2. tx[v].step \in {"progress", "migrate"} => tx[v].group \in Group
    BY <2>1 DEF Holds, Idle
  <2>3. Underway(v) /\ tx[v].group \in Group => Underway(v)'
    BY <1>1 DEF Underway
  <2>4. RowsAt(tx[v].group, tx[v].from)' = RowsAt(tx[v].group, tx[v].from)
    BY DEF RowsAt, RowsOf
  <2>5. Enrolled(tx[v].group)' = Enrolled(tx[v].group)
    BY DEF Enrolled, RowsOf
  <2> QED BY <2>1, <2>2, <2>3, <2>4, <2>5 DEF InHand
<1>3. \A h \in Group : Remembered(h)'
  BY AllLeftAlone, LeftRemembered DEF GroupsInv
<1> QED BY <1>2, <1>3, AllLeftAlone DEF GroupsInv

(***************************************************************************)
(* The steps that write rows.                                              *)
(***************************************************************************)
LEMMA WritingViews ==
  ASSUME GInv, NEW S, NEW st, NEW g, NEW l, Writing(S, st, g, l)
  PROVE  /\ Listed' = Listed \cup Fresh /\ Listed \cap Fresh = {}
         /\ Listed \subseteq DOMAIN rows /\ S \subseteq Listed
         /\ \A i \in DOMAIN rows : \A j \in Fresh : i < j
         /\ \A i \in Listed :
              /\ rows'[i].student = rows[i].student /\ rows'[i].group = rows[i].group
              /\ rows'[i].level = rows[i].level /\ rows'[i].source = rows[i].source
              /\ rows'[i].status = IF i \in S THEN st ELSE rows[i].status
         /\ \A i \in Fresh :
              /\ rows'[i].group = g /\ rows'[i].level = l /\ rows'[i].status = "active"
              /\ rows'[i].source # 0
                   => rows'[i].source \in S /\ rows[rows'[i].source].student = rows'[i].student
         /\ \A h \in Group : RowsOf(h)' = RowsOf(h) \cup (IF h = g THEN Fresh ELSE {})
<1>1. /\ S \subseteq Listed /\ st \in RowStatus \ {"active"} /\ DOMAIN rows \subseteq DOMAIN rows'
      /\ \A i \in DOMAIN rows :
           rows'[i] = IF i \in S THEN [rows[i] EXCEPT !.status = st] ELSE rows[i]
      /\ \A i \in Listed : i \in DOMAIN rows /\ rows[i] \in Row
      /\ Listed \cap Fresh = {} /\ DOMAIN rows' = DOMAIN rows \cup Fresh
  BY RowsInTables DEF GInv, Writing, Listed, Fresh
<1>2. ASSUME NEW i \in Listed
      PROVE  /\ rows'[i].student = rows[i].student /\ rows'[i].group = rows[i].group
             /\ rows'[i].level = rows[i].level /\ rows'[i].source = rows[i].source
             /\ rows'[i].status = IF i \in S THEN st ELSE rows[i].status
             /\ rows'[i].status # "deleted"
  <2>1. CASE i \in S
    <3>1. rows'[i] = [rows[i] EXCEPT !.status = st] /\ rows[i] \in Row /\ st \in RowStatus
      BY <1>1, <2>1
    <3> DEFINE r == rows[i]  q == [r EXCEPT !.status = st]
    <3>2. /\ q \in Row /\ q.status = st /\ q.student = r.student /\ q.group = r.group
          /\ q.level = r.level /\ q.source = r.source
      BY <3>1, StatusGiven
    <3>3. q.status # "deleted"
      BY <3>2, RowFields
    <3> HIDE DEF q
    <3>4. rows'[i] = q
      BY <3>1 DEF q
    <3> QED BY <2>1, <3>2, <3>3, <3>4
  <2>2. CASE i \notin S
    BY <1>1, <2>2 DEF Listed
  <2> QED BY <2>1, <2>2
<1>3. \A i \in DOMAIN rows \ Listed : rows'[i].status = "deleted"
  BY <1>1 DEF Listed
<1>4. ASSUME NEW i \in Fresh
      PROVE  /\ rows'[i].group = g /\ rows'[i].level = l /\ rows'[i].status = "active"
             /\ rows'[i].source # 0
                  => rows'[i].source \in S /\ rows[rows'[i].source].student = rows'[i].student
  <2>1. PICK s \in Student, k \in 0 .. MaxRows :
           rows'[i] = NewRow(s, g, l, k) /\ (k # 0 => k \in S /\ rows[k].student = s)
    BY DEF Writing
  <2>2. /\ rows'[i].group = g /\ rows'[i].level = l /\ rows'[i].status = "active"
        /\ rows'[i].source = k /\ rows'[i].student = s
    BY <2>1, NewRowFields
  <2> QED BY <2>1, <2>2
<1>5. Listed' = Listed \cup Fresh
  BY <1>1, <1>2, <1>3, <1>4 DEF Listed
<1>6. ASSUME NEW h \in Group
      PROVE  RowsOf(h)' = RowsOf(h) \cup (IF h = g THEN Fresh ELSE {})
  <2>1. RowsOf(h) = {i \in Listed : rows[i].group = h}
    BY DEF RowsOf, Listed
  <2>2. RowsOf(h)' = {i \in Listed' : rows'[i].group = h}
    BY DEF RowsOf, Listed
  <2> QED BY <1>2, <1>4, <1>5, <2>1, <2>2
<1>7. \A i \in DOMAIN rows : \A j \in Fresh : i < j
  <2>1. rows \in Seq({Gone} \cup Row) /\ rows' \in Seq({Gone} \cup Row)
    BY DEF GInv, Tables, Writing
  <2>2. DOMAIN rows = 1 .. Len(rows) /\ DOMAIN rows' = 1 .. Len(rows') /\ Len(rows) \in Nat /\ Len(rows') \in Nat
    BY <2>1
  <2> QED BY <2>2 DEF Fresh
<1> QED BY <1>1, <1>2, <1>4, <1>5, <1>6, <1>7

(* Whatever is written this way has a source of its own.                   *)
LEMMA WritingSourced ==
  ASSUME GInv, Sourced, NEW S, NEW st, NEW g, NEW l, Writing(S, st, g, l)
  PROVE  Sourced'
<1> USE WritingViews
<1>1. Listed' = Listed \cup Fresh
  OBVIOUS
<1>2. ASSUME NEW i \in Listed, rows'[i].source # 0
      PROVE  LET j == rows'[i].source IN
             j < i /\ j \in Listed' /\ rows'[j].student = rows'[i].student
  <2> DEFINE j == rows[i].source
  <2>1. rows'[i].source = j /\ rows'[i].student = rows[i].student
    OBVIOUS
  <2>2. j < i /\ j \in Listed /\ rows[j].student = rows[i].student
    BY <1>2, <2>1 DEF Sourced
  <2>3. rows'[j].student = rows[j].student
    BY <2>2
  <2> HIDE DEF j
  <2> QED BY <1>1, <2>1, <2>2, <2>3
<1>3. ASSUME NEW i \in Fresh, rows'[i].source # 0
      PROVE  LET j == rows'[i].source IN
             j < i /\ j \in Listed' /\ rows'[j].student = rows'[i].student
  <2> DEFINE j == rows'[i].source
  <2>1. j \in S /\ rows[j].student = rows'[i].student
    BY <1>3
  <2>2. j \in Listed /\ j \in DOMAIN rows
    BY <2>1
  <2>3. j < i /\ rows'[j].student = rows[j].student
    BY <2>2
  <2> HIDE DEF j
  <2> QED BY <1>1, <2>1, <2>2, <2>3 DEF j
<1> QED
  <2>1. \A i \in Listed' : rows'[i].source # 0 =>
          LET j == rows'[i].source IN
          j < i /\ j \in Listed' /\ rows'[j].student = rows'[i].student
    BY <1>1, <1>2, <1>3
  <2> QED BY <2>1 DEF Sourced

(* The groups it does not write for are left alone. *)
LEMMA WritingLeaves ==
  ASSUME GInv, NEW S, NEW st, NEW g, NEW l, Writing(S, st, g, l),
         NEW h \in Group, level'[h] = level[h], current'[h] = current[h],
         h = g => Fresh = {}, \A i \in S : rows[i].group # h
  PROVE  LeftAlone(h)
<1>1. RowsOf(h)' = RowsOf(h)
  <2>1. RowsOf(h)' = RowsOf(h) \cup (IF h = g THEN Fresh ELSE {})
    BY WritingViews
  <2> QED BY <2>1
<1>2. \A i \in RowsOf(h) : i \in Listed /\ i \notin S
  BY DEF RowsOf, Listed
<1> QED BY <1>1, <1>2, WritingViews DEF LeftAlone

(* An enrollment, a transfer or a drop leaves the levels as they stand.    *)
LEMMA WritingStands ==
  ASSUME GInv, NEW S, NEW st, NEW g, NEW l, Writing(S, st, g, l), st # "completed",
         UNCHANGED <<level, current>>, Fresh # {} => l = current[g],
         NEW h \in Group, NEW n \in Level, Stands(h, n)
  PROVE  Stands(h, n)'
<1>1. /\ \A m \in Level : level'[h][m] # "none" <=> m <= n
      /\ level'[h][n] \in {"active", "cancelled"}
      /\ current'[h] <= n /\ (level'[h][n] = "active" => current'[h] = n)
  BY DEF Stands
<1>2. ASSUME NEW i \in RowsOf(h)
      PROVE  rows'[i].level <= n /\ (rows'[i].level = n => rows'[i].status # "completed")
  <2>1. i \in Listed
    BY DEF RowsOf, Listed
  <2>2. rows'[i].level = rows[i].level /\ rows'[i].status = IF i \in S THEN st ELSE rows[i].status
    BY <2>1, WritingViews
  <2> QED BY <2>2 DEF Stands
<1>3. ASSUME NEW i \in Fresh, h = g
      PROVE  rows'[i].level <= n /\ rows'[i].status # "completed"
  <2>1. rows'[i].level = l /\ l = current[h] /\ rows'[i].status = "active"
    BY <1>3, WritingViews
  <2> QED BY <2>1 DEF Stands
<1>4. RowsOf(h)' = RowsOf(h) \cup (IF h = g THEN Fresh ELSE {})
  BY WritingViews
<1> QED BY <1>1, <1>2, <1>3, <1>4 DEF Stands

(* Such a step of the only request leaves the invariant, when it forgets   *)
(* the groups it writes for.                                               *)
LEMMA WritingInv ==
  ASSUME GroupsInv, GInv', OneAtATime, NEW S, NEW st, NEW g, NEW l, Writing(S, st, g, l),
         st # "completed", UNCHANGED <<level, current>>, UniqueIndex(rows)',
         Fresh # {} => l = current[g],
         \A v \in Request : tx'[v] = Idle /\ tx[v].step \notin {"progress", "migrate"},
         \A h \in Group :
           \/ memo'[h] = Nothing
           \/ memo'[h] = memo[h] /\ (h = g => Fresh = {}) /\ \A i \in S : rows[i].group # h
  PROVE  GroupsInv'
<1>1. Sourced'
  BY WritingSourced DEF GroupsInv
<1>2. Contiguous'
  BY WritingStands DEF GroupsInv, Contiguous
<1>3. \A v \in Request : InHand(v)'
  BY DEF InHand, Idle
<1>4. ASSUME NEW h \in Group
      PROVE  Remembered(h)'
  <2>1. CASE memo'[h] = Nothing
    BY <2>1 DEF Remembered
  <2>2. CASE memo'[h] = memo[h] /\ (h = g => Fresh = {}) /\ \A i \in S : rows[i].group # h
    <3>1. LeftAlone(h)
      BY <2>2, WritingLeaves DEF GroupsInv
    <3> QED BY <2>2, <3>1, LeftRemembered DEF GroupsInv
  <2> QED BY <2>1, <2>2
<1> QED BY <1>1, <1>2, <1>3, <1>4 DEF GroupsInv

(* An enrollment adds a row at the level of its group, which exists.       *)
LEMMA EnrollInsertInv ==
  ASSUME GroupsInv, GInv', OneAtATime, NEW w \in Request, EnrollInsert(w)
  PROVE  GroupsInv'
<1> DEFINE g == tx[w].group  l == tx[w].level
<1>1. /\ tx[w].step = "enroll" /\ tx' = [tx EXCEPT ![w] = Idle] /\ UNCHANGED <<level, current>>
      /\ memo' = [h \in Group |-> IF h \in {g} THEN Nothing ELSE memo[h]]
      /\ UniqueIndex(rows)'
  BY DEF EnrollInsert, End, Changed, WriteRows
<1>2. Writing({}, "dropped", g, l)
  BY EnrollWrites DEF GroupsInv
<1>3. l = current[g]
  BY <1>1 DEF GroupsInv, InHand
<1>4. \A v \in Request : tx'[v] = Idle /\ tx[v].step \notin {"progress", "migrate"}
  BY <1>1, WritersAreAlone DEF GroupsInv
<1>5. \A h \in Group :
        \/ memo'[h] = Nothing
        \/ memo'[h] = memo[h] /\ (h = g => Fresh = {}) /\ \A i \in {} : rows[i].group # h
  BY <1>1
<1> HIDE DEF g, l
<1> QED BY <1>1, <1>2, <1>3, <1>4, <1>5, WritingInv

(* A transfer adds a row at the level of its group, which exists.          *)
LEMMA TransferCommitInv ==
  ASSUME GroupsInv, GInv', OneAtATime, NEW w \in Request, TransferCommit(w)
  PROVE  GroupsInv'
<1> DEFINE g == tx[w].group  l == tx[w].level  i == tx[w].id
<1>1. /\ tx[w].step = "transfer" /\ tx' = [tx EXCEPT ![w] = Idle] /\ UNCHANGED <<level, current>>
      /\ memo' = [h \in Group |-> IF h \in {rows[i].group, g} THEN Nothing ELSE memo[h]]
      /\ UniqueIndex(rows)'
  BY DEF TransferCommit, End, Changed, WriteRows
<1>2. Writing({i}, "transferred", g, l)
  BY TransferWrites DEF GroupsInv
<1>3. l = current[g]
  BY <1>1 DEF GroupsInv, InHand
<1>4. \A v \in Request : tx'[v] = Idle /\ tx[v].step \notin {"progress", "migrate"}
  BY <1>1, WritersAreAlone DEF GroupsInv
<1>5. \A h \in Group :
        \/ memo'[h] = Nothing
        \/ memo'[h] = memo[h] /\ (h = g => Fresh = {}) /\ \A j \in {i} : rows[j].group # h
  BY <1>1
<1> HIDE DEF g, l, i
<1> QED BY <1>1, <1>2, <1>3, <1>4, <1>5, WritingInv

(* A drop changes one status and no level.                                 *)
LEMMA DropInv ==
  ASSUME GroupsInv, GInv', OneAtATime, NEW w \in Request, NEW i, Drop(w, i)
  PROVE  GroupsInv'
<1> DEFINE g == rows[i].group
<1>1. /\ UNCHANGED tx /\ tx[w] = Idle /\ UNCHANGED <<level, current>>
      /\ memo' = [h \in Group |-> IF h \in {g} THEN Nothing ELSE memo[h]]
      /\ UniqueIndex(rows)'
  BY DEF Drop, AtOnce, Changed, WriteRows
<1>2. Writing({i}, "dropped", g, 1) /\ Fresh = {}
  BY DropWrites, LevelFacts DEF GroupsInv
<1>3. \A v \in Request : tx'[v] = Idle /\ tx[v].step \notin {"progress", "migrate"}
  BY <1>1, WritersAreAlone DEF GroupsInv, Idle
<1>4. \A h \in Group :
        \/ memo'[h] = Nothing
        \/ memo'[h] = memo[h] /\ (h = g => Fresh = {}) /\ \A j \in {i} : rows[j].group # h
  BY <1>1, <1>2
<1> HIDE DEF g
<1> QED BY <1>1, <1>2, <1>3, <1>4, WritingInv

(* A progression that commits says so. *)
LEMMA MemoDone ==
  ASSUME NEW w, NEW s
  PROVE  [[done |-> FALSE, by |-> w, was |-> s] EXCEPT !.done = TRUE]
           = [done |-> TRUE, by |-> w, was |-> s]
<1> DEFINE Memo == [done : BOOLEAN, by : {w}, was : {s}]
           r == [done |-> FALSE, by |-> w, was |-> s]
           p == [done |-> TRUE, by |-> w, was |-> s]
           q == [r EXCEPT !.done = TRUE]
<1>1. r \in Memo /\ p \in Memo
  OBVIOUS
<1> HIDE DEF r
<1>2. q \in Memo /\ q.done = TRUE
  BY <1>1
<1> HIDE DEF q
<1>3. q.done = p.done /\ q.by = p.by /\ q.was = p.was
  BY <1>2
<1> HIDE DEF p
<1>4. q = p
  BY <1>1, <1>2, <1>3
<1> QED BY <1>4 DEF q, p, r

(* The new level is the last one, and undoing it would leave what the      *)
(* progression found.                                                      *)
LEMMA ProgressCommitAt ==
  ASSUME GroupsInv, GInv', OneAtATime, NEW w \in Request, ProgressCommit(w),
         NEW g \in Group, NEW from \in Level, NEW to \in Level, NEW c \in BOOLEAN, NEW ids,
         tx[w].group = g, tx[w].from = from, tx[w].to = to, tx[w].complete = c, tx[w].ids = ids
  PROVE  GroupsInv'
<1> DEFINE made == [l \in Level |-> CASE l = to          -> "active"
                                     [] l = from /\ c   -> "completed"
                                     [] OTHER           -> level[g][l]]
<1>1. /\ tx[w].step = "migrate" /\ tx' = [tx EXCEPT ![w] = Idle] /\ UniqueIndex(rows)'
      /\ level' = [level EXCEPT ![g] = made]
      /\ current' = [current EXCEPT ![g] = to]
      /\ memo' = [memo EXCEPT ![g] = IF "by" \in DOMAIN @ /\ @.by = w
                                     THEN [@ EXCEPT !.done = TRUE] ELSE Nothing]
  BY DEF ProgressCommit, End, WriteRows
<1>2. /\ level \in [Group -> [Level -> LevelStatus]] /\ current \in [Group -> Level]
      /\ memo = [h \in Group |-> memo[h]]
  BY DEF GroupsInv, GInv, Tables
<1>3. /\ to = from + 1 /\ level[g][from] = "active" /\ level[g][to] = "none"
      /\ memo[g] = [done |-> FALSE, by |-> w, was |-> Snapshot(g)]
      /\ ids \subseteq RowsAt(g, from) \cap Enrolled(g)
  BY <1>1 DEF GroupsInv, InHand, Underway
<1>4. Writing(ids, "completed", g, to)
  BY ProgressWrites DEF GroupsInv
<1>5. \A v \in Request : v = w /\ tx'[v] = Idle
  BY <1>1, WritersAreAlone DEF GroupsInv
<1>6. from \in Nat /\ to \in Nat /\ from # to /\ to > 1 /\ to - 1 = from
  BY <1>3, LevelFacts
<1>7. /\ \A h \in Group \ {g} : level'[h] = level[h] /\ current'[h] = current[h] /\ memo'[h] = memo[h]
      /\ current'[g] = to /\ level'[g] \in [Level -> LevelStatus]
      /\ \A l \in Level :
           level'[g][l] = IF l = to THEN "active" ELSE IF l = from /\ c THEN "completed" ELSE level[g][l]
  <2>1. \A l \in Level :
          made[l] = IF l = to THEN "active" ELSE IF l = from /\ c THEN "completed" ELSE level[g][l]
    BY <1>6
  <2>2. DOMAIN made = Level /\ made = [l \in Level |-> made[l]]
    OBVIOUS
  <2> HIDE DEF made
  <2>3. made \in [Level -> LevelStatus]
    BY <1>2, <2>1, <2>2 DEF LevelStatus
  <2>4. level'[g] = made /\ current'[g] = to
    BY <1>1, <1>2
  <2>5. \A h \in Group \ {g} : level'[h] = level[h] /\ current'[h] = current[h]
    BY <1>1, <1>2
  <2>6. \A h \in Group \ {g} : memo'[h] = memo[h]
    BY <1>1, <1>2
  <2> QED BY <2>1, <2>3, <2>4, <2>5, <2>6
<1>8. memo'[g] = [done |-> TRUE, by |-> w, was |-> Snapshot(g)]
  <2> DEFINE m == [done |-> FALSE, by |-> w, was |-> Snapshot(g)]
  <2>1. "by" \in DOMAIN m /\ m.by = w /\ [m EXCEPT !.done = TRUE] = [done |-> TRUE, by |-> w, was |-> Snapshot(g)]
    <3> DEFINE was == Snapshot(g)
    <3> HIDE DEF was
    <3>1. [[done |-> FALSE, by |-> w, was |-> was] EXCEPT !.done = TRUE] = [done |-> TRUE, by |-> w, was |-> was]
      BY MemoDone
    <3>2. m = [done |-> FALSE, by |-> w, was |-> was]
      BY DEF was
    <3>3. "by" \in DOMAIN m /\ m.by = w
      OBVIOUS
    <3> QED BY <3>1, <3>2, <3>3 DEF was
  <2> HIDE DEF m
  <2>2. memo[g] = m
    BY <1>3 DEF m
  <2> QED BY <1>1, <1>2, <2>1, <2>2
<1> HIDE DEF made
<1>9. Stands(g, from)
  <2>1. PICK n \in Level : Stands(g, n)
    BY <1>2 DEF GroupsInv, Contiguous
  <2>2. n = from
    BY <1>2, <1>3, <1>6, <2>1, LevelFacts DEF Stands
  <2> QED BY <2>1, <2>2
<1>10. /\ Listed' = Listed \cup Fresh /\ Listed \cap Fresh = {}
       /\ RowsOf(g)' = RowsOf(g) \cup Fresh
       /\ \A i \in RowsOf(g) :
            /\ i \in Listed /\ rows'[i].level = rows[i].level
            /\ rows'[i].status = IF i \in ids THEN "completed" ELSE rows[i].status
       /\ \A i \in Fresh : rows'[i].level = to /\ rows'[i].status = "active"
  <2>1. RowsOf(g) \subseteq Listed
    BY DEF RowsOf, Listed
  <2> QED BY <1>4, <2>1, WritingViews DEF GroupsInv
<1>11. \A i \in RowsOf(g) : rows[i].level \in Nat /\ rows[i].level <= from
                            /\ (rows[i].level = from => rows[i].status # "completed")
  <2>1. \A i \in RowsOf(g) : rows[i].level \in Level
    BY RowsInTables, RowFields DEF GroupsInv, GInv, RowsOf, Listed
  <2> QED BY <1>9, <2>1, LevelFacts DEF Stands
<1>12. Stands(g, to)'
  <2>1. \A l \in Level : level'[g][l] # "none" <=> l <= to
    <3> SUFFICES ASSUME NEW l \in Level PROVE level'[g][l] # "none" <=> l <= to
      OBVIOUS
    <3>1. l \in Nat /\ (level[g][l] # "none" <=> l <= from)
      BY <1>9, LevelFacts DEF Stands
    <3>2. level'[g][l] = IF l = to THEN "active" ELSE IF l = from /\ c THEN "completed" ELSE level[g][l]
      BY <1>7
    <3> QED BY <1>3, <1>6, <3>1, <3>2
  <2>2. level'[g][to] = "active" /\ current'[g] = to
    BY <1>2, <1>7
  <2>3. \A i \in RowsOf(g)' : rows'[i].level <= to /\ (rows'[i].level = to => rows'[i].status # "completed")
    BY <1>3, <1>6, <1>10, <1>11
  <2> QED BY <1>2, <1>6, <2>1, <2>2, <2>3 DEF Stands
<1>13. Undo(g, to)' = Snapshot(g)
  <2>1. RowsAt(g, to)' = Fresh
    BY <1>6, <1>10, <1>11 DEF RowsAt
  <2>2. RowsAt(g, from)' = RowsAt(g, from)
    BY <1>6, <1>10 DEF RowsAt
  <2>3. Enrolled(g)' = (Enrolled(g) \ ids) \cup Fresh
    BY <1>10 DEF Enrolled
  <2>4. \A i \in RowsAt(g, from) : rows'[i].status = "completed" <=> i \in ids
    BY <1>10, <1>11 DEF RowsAt
  <2>5. {i \in RowsAt(g, from)' : rows'[i].status = "completed"} = ids
    BY <1>3, <2>2, <2>4
  <2>6. (Enrolled(g)' \ RowsAt(g, to)') \cup ids = Enrolled(g)
    BY <1>3, <1>10, <2>1, <2>3 DEF Enrolled, RowsOf, Listed
  <2>7. [level'[g] EXCEPT ![to] = "none", ![from] = IF @ = "completed" THEN "active" ELSE @] = level[g]
    <3> DEFINE undone == [level'[g] EXCEPT ![to] = "none", ![from] = IF @ = "completed" THEN "active" ELSE @]
    <3>1. \A l \in Level : undone[l] = level[g][l]
      BY <1>2, <1>3, <1>6, <1>7
    <3>2. undone = [l \in Level |-> undone[l]]
      BY <1>7
    <3>3. level[g] = [l \in Level |-> level[g][l]]
      BY <1>2
    <3> HIDE DEF undone
    <3>4. undone = level[g]
      BY <3>1, <3>2, <3>3
    <3> QED BY <3>4 DEF undone
  <2>8. current[g] = from
    BY <1>3, <1>9 DEF Stands
  <2> QED BY <1>6, <2>5, <2>6, <2>7, <2>8 DEF Undo, Revived, Snapshot
<1>14. ASSUME NEW h \in Group \ {g}
       PROVE  LeftAlone(h)
  <2>1. \A i \in ids : rows[i].group # h
    BY <1>3 DEF Enrolled, RowsOf
  <2> QED BY <1>4, <1>7, <2>1, WritingLeaves DEF GroupsInv
<1> QED
  <2>1. Sourced'
    BY <1>4, WritingSourced DEF GroupsInv
  <2>2. Contiguous'
    BY <1>2, <1>12, <1>14, LeftAsItIs DEF GroupsInv, Contiguous
  <2>3. \A v \in Request : InHand(v)'
    BY <1>5 DEF InHand, Idle
  <2>4. \A h \in Group : Remembered(h)'
    <3> SUFFICES ASSUME NEW h \in Group PROVE Remembered(h)'
      OBVIOUS
    <3>1. CASE h = g
      BY <1>2, <1>6, <1>8, <1>12, <1>13, <3>1 DEF Remembered
    <3>2. CASE h # g
      <4>1. \A v \in Request : ~ (tx[v].step \in {"progress", "migrate"} /\ tx[v].group = h)
        BY <1>5, <3>2
      <4> QED BY <1>7, <1>14, <3>2, <4>1, LeftRemembered DEF GroupsInv
    <3> QED BY <3>1, <3>2
  <2> QED BY <1>1, <2>1, <2>2, <2>3, <2>4 DEF GroupsInv

(* A progression adds the level after the last one and moves the group to  *)
(* it.                                                                     *)
LEMMA ProgressCommitInv ==
  ASSUME GroupsInv, GInv', OneAtATime, NEW w \in Request, ProgressCommit(w)
  PROVE  GroupsInv'
<1>1. tx[w].step = "migrate" /\ Holds(w)
  BY DEF GroupsInv, GInv, ProgressCommit
<1>2. tx[w].group \in Group /\ tx[w].from \in Level /\ tx[w].to \in Level /\ tx[w].complete \in BOOLEAN
  BY <1>1 DEF Holds, Idle
<1> QED BY <1>2, ProgressCommitAt

(* A cancelled level sends the group back to one that exists.              *)
LEMMA CancelLevelInv ==
  ASSUME GroupsInv, GInv', OneAtATime, NEW w \in Request, NEW g \in Group, NEW l \in Level,
         CancelLevel(w, g, l)
  PROVE  GroupsInv'
<1>1. /\ UNCHANGED <<tx, rows>> /\ tx[w] = Idle /\ level[g][l] = "active"
      /\ level' = [level EXCEPT ![g][l] = "cancelled"]
      /\ current' = [current EXCEPT ![g] = IF @ = l THEN FallBack(g, l) ELSE @]
      /\ memo' = [h \in Group |-> IF h \in {g} THEN Nothing ELSE memo[h]]
  BY DEF CancelLevel, AtOnce, Changed
<1>2. level \in [Group -> [Level -> LevelStatus]] /\ current \in [Group -> Level]
  BY DEF GroupsInv, GInv, Tables
<1>3. \A v \in Request : v = w /\ tx'[v] = Idle
  BY <1>1, WritersAreAlone DEF GroupsInv
<1>4. /\ \A h \in Group \ {g} : level'[h] = level[h] /\ current'[h] = current[h] /\ memo'[h] = memo[h]
      /\ memo'[g] = Nothing /\ level'[g] = [level[g] EXCEPT ![l] = "cancelled"]
      /\ current'[g] = IF current[g] = l THEN FallBack(g, l) ELSE current[g]
  BY <1>1, <1>2
<1>5. \A h \in Group \ {g} : LeftAlone(h)
  BY <1>1, <1>4 DEF LeftAlone, RowsOf
<1>6. PICK n \in Level : Stands(g, n)
  BY DEF GroupsInv, Contiguous
<1>7. Stands(g, n)'
  <2>1. l <= n
    BY <1>1, <1>6 DEF Stands
  <2>2. \A m \in Level : level'[g][m] # "none" <=> m <= n
    BY <1>1, <1>2, <1>4, <1>6 DEF Stands
  <2>3. level'[g][n] \in {"active", "cancelled"} /\ (level'[g][n] = "active" => l # n /\ level[g][n] = "active")
    BY <1>2, <1>4, <1>6 DEF Stands
  <2>4. current[g] <= n /\ (level[g][n] = "active" => current[g] = n) /\ current[g] \in Level
    BY <1>2, <1>6 DEF Stands
  <2>5. current'[g] <= n /\ (level'[g][n] = "active" => current'[g] = n)
    BY <1>4, <2>1, <2>3, <2>4, FallBackIsBelow, LevelFacts
  <2>6. \A i \in RowsOf(g)' : rows'[i].level <= n /\ (rows'[i].level = n => rows'[i].status # "completed")
    BY <1>1, <1>6 DEF Stands, RowsOf
  <2> QED BY <2>2, <2>3, <2>5, <2>6 DEF Stands
<1>8. Sourced' /\ UniqueIndex(rows)'
  BY <1>1 DEF GroupsInv, Sourced, Listed, UniqueIndex
<1>9. Contiguous'
  BY <1>5, <1>7, LeftAsItIs DEF GroupsInv, Contiguous
<1>10. \A v \in Request : InHand(v)'
  BY <1>3 DEF InHand, Idle
<1>11. \A h \in Group : Remembered(h)'
  <2> SUFFICES ASSUME NEW h \in Group PROVE Remembered(h)'
    OBVIOUS
  <2>1. \A v \in Request : tx[v].step \notin {"progress", "migrate"}
    BY <1>1, <1>3 DEF Idle
  <2>2. CASE h = g
    BY <1>4, <2>2 DEF Remembered
  <2>3. CASE h # g
    BY <1>4, <1>5, <2>1, <2>3, LeftRemembered DEF GroupsInv
  <2> QED BY <2>2, <2>3
<1> QED BY <1>8, <1>9, <1>10, <1>11 DEF GroupsInv

(* Deleting the last level leaves the group as Undo says, and the other    *)
(* groups as they were.                                                    *)
LEMMA DeleteViews ==
  ASSUME GroupsInv, NEW w \in Request, NEW g \in Group, NEW l \in Level, DeleteLevel(w, g, l)
  PROVE  /\ l > 1 /\ Stands(g, l) /\ Snapshot(g)' = Undo(g, l)
         /\ Stands(g, l - 1)' /\ \A h \in Group \ {g} : LeftAlone(h)
         /\ Listed' = Listed \ RowsAt(g, l)
<1> DEFINE gone == RowsAt(g, l)  back == Revived(g, l)  k == l - 1
<1>1. /\ Existing(g) # {} /\ l = Largest(Existing(g)) /\ l # 1
      /\ level' = [level EXCEPT ![g][l] = "none", ![g][k] = IF @ = "completed" THEN "active" ELSE @]
      /\ current' = [current EXCEPT ![g] = k]
  BY DEF DeleteLevel
<1>2. level \in [Group -> [Level -> LevelStatus]] /\ current \in [Group -> Level]
  BY DEF GroupsInv, GInv, Tables
<1>3. k \in Level /\ k \in Nat /\ l \in Nat /\ l = k + 1 /\ k # l /\ l > 1
  <2>1. l \in Nat /\ l >= 1 /\ l <= MaxLevel /\ MaxLevel \in Nat
    BY LevelFacts
  <2> QED BY <1>1, <2>1, LevelFacts
<1>4. Stands(g, l)
  <2>1. PICK n \in Level : Stands(g, n)
    BY DEF GroupsInv, Contiguous
  <2>2. Existing(g) \in SUBSET Level
    BY DEF Existing
  <2>3. l \in Existing(g) /\ \A m \in Existing(g) : m <= l
    BY <1>1, <2>2, LargestLevel
  <2>4. n \in Existing(g) /\ \A m \in Existing(g) : m <= n
    BY <2>1, LevelFacts DEF Stands, Existing
  <2>5. n = l
    BY <2>3, <2>4, LevelFacts
  <2> QED BY <2>1, <2>5
<1>5. /\ DOMAIN rows' = DOMAIN rows
      /\ \A i \in DOMAIN rows : i \notin Listed \/ i \in gone => rows'[i] = Gone
      /\ \A i \in Listed \ gone :
           /\ rows'[i] \in Row /\ rows'[i].student = rows[i].student
           /\ rows'[i].group = rows[i].group /\ rows'[i].level = rows[i].level
           /\ rows'[i].status = IF i \in back THEN "active" ELSE rows[i].status
  BY DeleteWrites DEF GroupsInv
<1>6. Listed' = Listed \ gone
  <2>1. Gone.status = "deleted" /\ \A r \in Row : r.status # "deleted"
    BY RowFields
  <2>2. Listed \subseteq DOMAIN rows
    BY DEF Listed
  <2> HIDE DEF gone, back
  <2> QED BY <1>5, <2>1, <2>2 DEF Listed
<1>7. \A h \in Group : RowsOf(h) = {i \in Listed : rows[i].group = h}
  BY DEF RowsOf, Listed
<1>8. \A h \in Group : RowsOf(h)' = {i \in Listed' : rows'[i].group = h}
  BY DEF RowsOf, Listed
<1>9. \A h \in Group : RowsOf(h)' = RowsOf(h) \ gone
  <2> HIDE DEF gone, back
  <2> QED BY <1>5, <1>6, <1>7, <1>8
<1>10. /\ \A h \in Group \ {g} : level'[h] = level[h] /\ current'[h] = current[h]
       /\ current'[g] = k /\ level'[g] \in [Level -> LevelStatus]
       /\ level'[g] = [level[g] EXCEPT ![l] = "none", ![k] = IF @ = "completed" THEN "active" ELSE @]
       /\ \A m \in Level : level'[g][m] = IF m = l THEN "none"
                             ELSE IF m = k /\ level[g][m] = "completed" THEN "active" ELSE level[g][m]
  <2>1. \A h \in Group \ {g} : level'[h] = level[h] /\ current'[h] = current[h]
    BY <1>1, <1>2
  <2>2. level'[g] = [level[g] EXCEPT ![l] = "none", ![k] = IF @ = "completed" THEN "active" ELSE @]
    BY <1>1, <1>2
  <2>3. level[g] \in [Level -> LevelStatus] /\ current'[g] = k
    BY <1>1, <1>2
  <2>4. \A m \in Level : level'[g][m] = IF m = l THEN "none"
                           ELSE IF m = k /\ level[g][m] = "completed" THEN "active" ELSE level[g][m]
    BY <1>3, <2>2, <2>3
  <2>5. level'[g] \in [Level -> LevelStatus]
    BY <2>2, <2>3, <2>4 DEF LevelStatus
  <2> QED BY <2>1, <2>2, <2>3, <2>4, <2>5
<1>11. ASSUME NEW h \in Group \ {g}
       PROVE  LeftAlone(h)
  <2>1. \A i \in RowsOf(h) : i \in Listed /\ i \notin gone /\ i \notin back
    BY DEF RowsOf, RowsAt, Revived, Listed
  <2>2. \A i \in RowsOf(h) : rows'[i].level = rows[i].level /\ rows'[i].status = rows[i].status
    <3> HIDE DEF gone, back
    <3> QED BY <1>5, <2>1
  <2>3. RowsOf(h)' = RowsOf(h)
    <3> HIDE DEF gone, back
    <3> QED BY <1>9, <2>1
  <2> QED BY <1>10, <2>2, <2>3 DEF LeftAlone
<1>12. /\ gone = {i \in RowsOf(g) : rows[i].level = l}
       /\ back = {i \in RowsOf(g) : rows[i].level = k /\ rows[i].status = "completed"}
       /\ RowsOf(g) \subseteq Listed
  BY DEF RowsAt, Revived, RowsOf, Listed
<1>13. \A i \in RowsOf(g) : rows[i].level \in Nat /\ rows[i].level <= l
  <2>1. \A i \in RowsOf(g) : rows[i].level \in Level
    BY <1>12, RowsInTables, RowFields DEF GroupsInv, GInv
  <2> QED BY <1>4, <2>1, LevelFacts DEF Stands
<1>14. Snapshot(g)' = Undo(g, l)
  <2>1. Enrolled(g)' = {i \in RowsOf(g)' : rows'[i].status = "active"}
    BY DEF Enrolled
  <2>2. Enrolled(g) = {i \in RowsOf(g) : rows[i].status = "active"}
    BY DEF Enrolled
  <2>3. Enrolled(g)' = (Enrolled(g) \ gone) \cup back
    <3> HIDE DEF gone, back
    <3> QED BY <1>3, <1>5, <1>9, <1>12, <2>1, <2>2
  <2> QED BY <1>10, <2>3 DEF Snapshot, Undo
<1>15. Stands(g, k)'
  <2>1. \A m \in Level : level'[g][m] # "none" <=> m <= k
    <3> SUFFICES ASSUME NEW m \in Level PROVE level'[g][m] # "none" <=> m <= k
      OBVIOUS
    <3>1. m \in Nat /\ (level[g][m] # "none" <=> m <= l)
      BY <1>4, LevelFacts DEF Stands
    <3> HIDE DEF k
    <3> QED BY <1>3, <1>10, <3>1
  <2>2. level'[g][k] \in {"active", "cancelled"}
    <3>1. level[g][k] # "none" /\ level[g][k] \in LevelStatus
      BY <1>2, <1>3, <1>4 DEF Stands
    <3> HIDE DEF k
    <3> QED BY <1>3, <1>10, <3>1 DEF LevelStatus
  <2>3. ASSUME NEW i \in RowsOf(g)'
        PROVE  rows'[i].level <= k /\ (rows'[i].level = k => rows'[i].status # "completed")
    <3>1. i \in RowsOf(g) /\ i \notin gone
      BY <1>9, <2>3
    <3>2. rows'[i].level = rows[i].level
          /\ rows'[i].status = IF i \in back THEN "active" ELSE rows[i].status
      BY <1>5, <1>12, <3>1
    <3>3. rows[i].level \in Nat /\ rows[i].level <= l /\ rows[i].level # l
      BY <1>12, <1>13, <3>1
    <3>4. rows[i].level = k /\ rows[i].status = "completed" => i \in back
      BY <1>12, <3>1
    <3> HIDE DEF gone, back, k
    <3> QED BY <1>3, <3>2, <3>3, <3>4
  <2> QED BY <1>3, <1>10, <2>1, <2>2, <2>3 DEF Stands
<1> QED BY <1>3, <1>4, <1>6, <1>11, <1>14, <1>15

(* The rows of the level are gone, and no other.                           *)
LEMMA DeleteLists ==
  ASSUME GInv, NEW w \in Request, NEW g \in Group, NEW l \in Level, DeleteLevel(w, g, l)
  PROVE  Listed' = Listed \ RowsAt(g, l)
<1>1. \A i \in DOMAIN rows : i \notin Listed \/ i \in RowsAt(g, l) => rows'[i] = Gone
  BY DeleteWrites
<1>2. \A i \in Listed \ RowsAt(g, l) : rows'[i] \in Row
  BY DeleteWrites
<1>3. DOMAIN rows' = DOMAIN rows
  BY DeleteWrites
<1> QED BY <1>1, <1>2, <1>3, RowFields DEF Listed

(* A row whose source is gone comes from nowhere.                          *)
LEMMA DeleteSourced ==
  ASSUME GInv, Sourced, NEW w \in Request, NEW g \in Group, NEW l \in Level, DeleteLevel(w, g, l)
  PROVE  Sourced'
<1> DEFINE gone == RowsAt(g, l)
<1>1. Listed' = Listed \ gone /\ Listed \subseteq DOMAIN rows
  BY DeleteLists DEF Listed
<1>2. \A i \in Listed \ gone :
        /\ rows'[i].student = rows[i].student
        /\ rows'[i].source = IF rows[i].source \in gone THEN 0 ELSE rows[i].source
  BY DeleteWrites
<1>3. \A i \in Listed : LET j == rows[i].source IN
        j # 0 => j < i /\ j \in Listed /\ rows[j].student = rows[i].student
  BY DEF Sourced
<1> HIDE DEF gone
<1>4. ASSUME NEW i \in Listed', rows'[i].source # 0
      PROVE  LET j == rows'[i].source IN
             j < i /\ j \in Listed' /\ rows'[j].student = rows'[i].student
  <2> DEFINE j == rows[i].source
  <2>1. i \in Listed \ gone /\ j \notin gone /\ rows'[i].source = j /\ j # 0
    BY <1>1, <1>2, <1>4
  <2>2. j < i /\ j \in Listed /\ rows[j].student = rows[i].student
    BY <1>3, <2>1
  <2>3. j \in Listed'
    BY <1>1, <2>1, <2>2
  <2>4. rows'[j].student = rows[j].student /\ rows'[i].student = rows[i].student
    BY <1>2, <2>1, <2>2
  <2> HIDE DEF j
  <2> QED BY <2>1, <2>2, <2>3, <2>4
<1> QED BY <1>4 DEF Sourced

(* Every step keeps the sources and the index, which it would have to      *)
(* violate to commit.                                                      *)
LEMMA NextRowsInv == RowsInv /\ [Next]_vars => RowsInv'
<1> SUFFICES ASSUME RowsInv, [Next]_vars PROVE RowsInv'
  OBVIOUS
<1>1. GInv /\ Sourced /\ UniqueIndex(rows) /\ GInv'
  BY NextTypes DEF RowsInv
<1>2. ASSUME UNCHANGED rows PROVE RowsInv'
  BY <1>1, <1>2 DEF RowsInv, Sourced, UniqueIndex, Listed
<1>3. ASSUME NEW w \in Request, EnrollInsert(w) PROVE RowsInv'
  BY <1>1, <1>3, EnrollWrites, WritingSourced DEF RowsInv, EnrollInsert, WriteRows
<1>4. ASSUME NEW w \in Request, TransferCommit(w) PROVE RowsInv'
  BY <1>1, <1>4, TransferWrites, WritingSourced DEF RowsInv, TransferCommit, WriteRows
<1>5. ASSUME NEW w \in Request, ProgressCommit(w) PROVE RowsInv'
  BY <1>1, <1>5, ProgressWrites, WritingSourced DEF RowsInv, ProgressCommit, WriteRows
<1>6. ASSUME NEW w \in Request, NEW i \in 1 .. MaxRows, Drop(w, i) PROVE RowsInv'
  <2>1. Writing({i}, "dropped", rows[i].group, 1)
    BY <1>1, <1>6, DropWrites, LevelFacts
  <2> QED BY <1>1, <1>6, <2>1, WritingSourced DEF RowsInv, Drop, WriteRows
<1>7. ASSUME NEW w \in Request, NEW g \in Group, NEW l \in Level, DeleteLevel(w, g, l)
      PROVE  RowsInv'
  BY <1>1, <1>7, DeleteSourced DEF RowsInv, DeleteLevel, WriteRows
<1>8. ASSUME NEW w \in Request,
             \/ ProgressLoad(w) \/ Rollback(w)
             \/ \E s \in Student : \E g \in Group : EnrollRead(w, s, g)
             \/ \E i \in 1 .. MaxRows : \E g \in Group : TransferRead(w, i, g)
             \/ \E g \in Group : \E k \in Strides : \E c, m \in BOOLEAN : ProgressRead(w, g, k, c, m)
             \/ \E g \in Group : \E l \in Level : CancelLevel(w, g, l)
             \/ \E g \in Group : SetStatus(w, g)
      PROVE  RowsInv'
  <2>1. UNCHANGED rows
    BY <1>8 DEF ProgressLoad, Rollback, EnrollRead, TransferRead, ProgressRead, CancelLevel, SetStatus
  <2> QED BY <1>2, <2>1
<1>9. CASE UNCHANGED vars
  BY <1>2, <1>9 DEF vars
<1> QED BY <1>3, <1>4, <1>5, <1>6, <1>7, <1>8, <1>9 DEF Next

(* Only the last level is deleted, and never the first: its rows go, and   *)
(* the rows completed below it are active again.                           *)
LEMMA DeleteLevelInv ==
  ASSUME GroupsInv, GInv', OneAtATime, NEW w \in Request, NEW g \in Group, NEW l \in Level,
         DeleteLevel(w, g, l)
  PROVE  GroupsInv'
<1> DEFINE gone == RowsAt(g, l)
           forgotten == {g} \cup {rows[i].group : i \in {j \in DOMAIN rows : rows[j].source \in gone}}
<1>1. /\ UNCHANGED tx /\ tx[w] = Idle /\ UniqueIndex(rows)'
      /\ memo' = [h \in Group |-> IF h \in forgotten THEN Nothing ELSE memo[h]]
  BY DEF DeleteLevel, AtOnce, Changed, WriteRows, Cascade
<1>2. \A v \in Request : v = w /\ tx'[v] = Idle
  BY <1>1, WritersAreAlone DEF GroupsInv
<1>3. l - 1 \in Level
  BY DeleteViews, LevelFacts
<1>4. Contiguous'
  <2> SUFFICES ASSUME NEW h \in Group PROVE \E n \in Level : Stands(h, n)'
    BY DEF Contiguous
  <2>1. CASE h = g
    BY <1>3, <2>1, DeleteViews
  <2>2. CASE h # g
    <3>1. PICK n \in Level : Stands(h, n)
      BY DEF GroupsInv, Contiguous
    <3> QED BY <2>2, <3>1, DeleteViews, LeftAsItIs
  <2> QED BY <2>1, <2>2
<1>5. Sourced'
  BY DeleteSourced DEF GroupsInv
<1>6. \A v \in Request : InHand(v)'
  BY <1>2 DEF InHand, Idle
<1>7. \A h \in Group : Remembered(h)'
  <2> SUFFICES ASSUME NEW h \in Group PROVE Remembered(h)'
    OBVIOUS
  <2>1. CASE h \in forgotten
    <3>1. memo'[h] = Nothing
      BY <1>1, <2>1
    <3> QED BY <3>1 DEF Remembered
  <2>2. CASE h \notin forgotten
    <3>1. memo'[h] = memo[h] /\ h # g
      BY <1>1, <2>2
    <3>2. \A v \in Request : tx[v].step \notin {"progress", "migrate"}
      BY <1>1, <1>2 DEF Idle
    <3>3. LeftAlone(h)
      BY <3>1, DeleteViews
    <3> QED BY <3>1, <3>2, <3>3, LeftRemembered DEF GroupsInv
  <2> QED BY <2>1, <2>2
<1> QED BY <1>1, <1>4, <1>5, <1>6, <1>7 DEF GroupsInv

(* Every step keeps the invariant.                                         *)
LEMMA NextGroupsInv ==
  ASSUME OneAtATime, NoSkips, GroupsInv, [Next]_vars
  PROVE  GroupsInv'
<1>1. GInv'
  BY NextTypes DEF GroupsInv
<1>2. ASSUME NEW w \in Request, EnrollInsert(w) PROVE GroupsInv'
  BY <1>1, <1>2, EnrollInsertInv
<1>3. ASSUME NEW w \in Request, TransferCommit(w) PROVE GroupsInv'
  BY <1>1, <1>3, TransferCommitInv
<1>4. ASSUME NEW w \in Request, ProgressLoad(w) PROVE GroupsInv'
  BY <1>1, <1>4, ProgressLoadInv
<1>5. ASSUME NEW w \in Request, ProgressCommit(w) PROVE GroupsInv'
  BY <1>1, <1>5, ProgressCommitInv
<1>6. ASSUME NEW w \in Request, Rollback(w) PROVE GroupsInv'
  BY <1>1, <1>6, RollbackInv
<1>7. ASSUME NEW w \in Request, NEW s \in Student, NEW g \in Group, EnrollRead(w, s, g) PROVE GroupsInv'
  BY <1>1, <1>7, EnrollReadInv
<1>8. ASSUME NEW w \in Request, NEW i \in 1 .. MaxRows, Drop(w, i) PROVE GroupsInv'
  BY <1>1, <1>8, DropInv
<1>9. ASSUME NEW w \in Request, NEW i \in 1 .. MaxRows, NEW g \in Group, TransferRead(w, i, g)
      PROVE  GroupsInv'
  BY <1>1, <1>9, TransferReadInv
<1>10. ASSUME NEW w \in Request, NEW g \in Group, NEW k \in Strides, NEW c \in BOOLEAN,
              NEW m \in BOOLEAN, ProgressRead(w, g, k, c, m)
       PROVE  GroupsInv'
  BY <1>1, <1>10, ProgressReadInv
<1>11. ASSUME NEW w \in Request, NEW g \in Group, NEW l \in Level, CancelLevel(w, g, l) PROVE GroupsInv'
  BY <1>1, <1>11, CancelLevelInv
<1>12. ASSUME NEW w \in Request, NEW g \in Group, NEW l \in Level, DeleteLevel(w, g, l) PROVE GroupsInv'
  BY <1>1, <1>12, DeleteLevelInv
<1>13. ASSUME NEW w \in Request, NEW g \in Group, SetStatus(w, g) PROVE GroupsInv'
  BY <1>1, <1>13, UntouchedInv DEF SetStatus, AtOnce
<1>14. CASE UNCHANGED vars
  BY <1>1, <1>14, UntouchedInv DEF vars
<1> QED BY <1>2, <1>3, <1>4, <1>5, <1>6, <1>7, <1>8, <1>9, <1>10, <1>11, <1>12, <1>13, <1>14 DEF Next

(* The levels 1 .. n exist, and the group and its rows are within them.    *)
LEMMA GroupsInvLevels == GroupsInv => LevelsExist
<1> SUFFICES ASSUME GroupsInv, NEW g \in Group
             PROVE  /\ current[g] \in Existing(g)
                    /\ \A i \in Enrolled(g) : rows[i].level \in Existing(g)
  BY DEF LevelsExist
<1>1. PICK n \in Level : Stands(g, n)
  BY DEF GroupsInv, Contiguous
<1>2. current[g] \in Level
  BY DEF GroupsInv, GInv, Tables
<1>3. \A i \in Enrolled(g) : i \in RowsOf(g) /\ rows[i].level \in Level
  BY RowsInTables, RowFields DEF GroupsInv, GInv, Enrolled, RowsOf, Listed
<1> QED BY <1>1, <1>2, <1>3 DEF Stands, Existing

(* The level a group is at, and the level of every active enrollment, has  *)
(* its row in group_levels.                                                *)
THEOREM LevelsAreThere ==
  ASSUME OneAtATime, NoSkips PROVE Spec => []LevelsExist
<1>1. GroupsInv /\ [Next]_vars => GroupsInv'
  BY NextGroupsInv
<1> QED BY <1>1, InitGroupsInv, GroupsInvLevels, PTL DEF Spec

(* Only a deleted level goes away. *)
LEMMA UndoneIsRestored ==
  ASSUME OneAtATime, NoSkips, GroupsInv, [Next]_vars, NEW g \in Group, NEW l \in Level,
         memo[g].done, level[g][l] # "none", level'[g][l] = "none"
  PROVE  Snapshot(g)' = memo[g].was
<1>1. level \in [Group -> [Level -> LevelStatus]]
  BY DEF GroupsInv, GInv, Tables
<1>2. ASSUME NEW w \in Request, NEW h \in Group, NEW m \in Level, DeleteLevel(w, h, m)
      PROVE  Snapshot(g)' = memo[g].was
  <2>1. h = g
    BY <1>2, DeleteViews DEF LeftAlone
  <2>2. Stands(g, m) /\ Snapshot(g)' = Undo(g, m)
    BY <1>2, <2>1, DeleteViews
  <2>3. Remembered(g)
    BY DEF GroupsInv
  <2>4. \E n \in Level : Stands(g, n) /\ memo[g].was = Undo(g, n)
    <3>1. memo[g] # Nothing
      BY DEF Nothing
    <3>2. \A v \in Request : memo[g] # [done |-> FALSE, by |-> v, was |-> Snapshot(g)]
      OBVIOUS
    <3>3. PICK v \in Request, n \in Level :
             Stands(g, n) /\ memo[g] = [done |-> TRUE, by |-> v, was |-> Undo(g, n)]
      BY <2>3, <3>1, <3>2 DEF Remembered
    <3>4. memo[g].was = Undo(g, n)
      BY <3>3
    <3> QED BY <3>3, <3>4
  <2>5. \A n \in Level : Stands(g, n) => n = m
    BY <2>2, LevelFacts DEF Stands
  <2> QED BY <2>2, <2>4, <2>5
<1>3. ASSUME NEW w \in Request, ProgressCommit(w)
      PROVE  FALSE
  <2>1. level' = [level EXCEPT ![tx[w].group] = [k \in Level |->
                    CASE k = tx[w].to                          -> "active"
                      [] k = tx[w].from /\ tx[w].complete -> "completed"
                      [] OTHER                                 -> level[tx[w].group][k]]]
    BY <1>3 DEF ProgressCommit
  <2> QED BY <1>1, <2>1
<1>4. ASSUME NEW w \in Request, NEW h \in Group, NEW m \in Level, CancelLevel(w, h, m)
      PROVE  FALSE
  <2>1. level' = [level EXCEPT ![h][m] = "cancelled"]
    BY <1>4 DEF CancelLevel
  <2> QED BY <1>1, <2>1
<1>5. ASSUME UNCHANGED level PROVE FALSE
  BY <1>5
<1>6. ASSUME NEW w \in Request,
             \/ EnrollInsert(w) \/ TransferCommit(w) \/ ProgressLoad(w) \/ Rollback(w)
             \/ \E s \in Student : \E h \in Group : EnrollRead(w, s, h)
             \/ \E i \in 1 .. MaxRows : Drop(w, i) \/ \E h \in Group : TransferRead(w, i, h)
             \/ \E h \in Group : \E k \in Strides : \E c, m \in BOOLEAN : ProgressRead(w, h, k, c, m)
             \/ \E h \in Group : SetStatus(w, h)
      PROVE  UNCHANGED level
  BY <1>6 DEF EnrollInsert, TransferCommit, ProgressLoad, Rollback, EnrollRead, Drop,
       TransferRead, ProgressRead, SetStatus
<1>7. CASE UNCHANGED vars
  BY <1>5, <1>7 DEF vars
<1> QED BY <1>2, <1>3, <1>4, <1>5, <1>6, <1>7 DEF Next

(* Deleting the level a progression has made puts the group back as the    *)
(* progression found it.                                                   *)
THEOREM UndoIsExact ==
  ASSUME OneAtATime, NoSkips PROVE Spec => UndoRestores
<1>1. GroupsInv /\ [Next]_vars => GroupsInv'
  BY NextGroupsInv
<1>2. GroupsInv /\ [Next]_vars
        => [\A g \in Group :
              memo[g].done /\ (\E l \in Level : level[g][l] # "none" /\ level'[g][l] = "none")
                => Snapshot(g)' = memo[g].was]_vars
  BY UndoneIsRestored
<1> QED BY <1>1, <1>2, InitGroupsInv, PTL DEF Spec, UndoRestores

(***************************************************************************)
(* Counting.                                                               *)
(***************************************************************************)
(* Counted by what f says of them, the elements of S are as many as S has. *)
LEMMA CountedByValue ==
  ASSUME NEW S, IsFiniteSet(S), NEW X, NEW f \in [S -> X], NEW count, DOMAIN count = X,
         \A x \in X : count[x] = Cardinality({s \in S : f[s] = x})
  PROVE  Sum(count) = Cardinality(S)
<1> DEFINE Of(x) == {s \in S : f[s] = x}
           P == UNION {{x} \X (1 .. count[x]) : x \in X}
           nth == [x \in X |-> CHOOSE g : g \in Bijection(1 .. count[x], Of(x))]
           all == [p \in P |-> nth[p[1]][p[2]]]
<1>1. ASSUME NEW x \in X
      PROVE  /\ nth[x] \in [1 .. count[x] -> Of(x)]
             /\ \A i, j \in 1 .. count[x] : nth[x][i] = nth[x][j] => i = j
             /\ \A s \in Of(x) : \E i \in 1 .. count[x] : nth[x][i] = s
  <2>1. IsFiniteSet(Of(x))
    BY FS_Subset
  <2>2. ExistsBijection(1 .. count[x], Of(x))
    BY <2>1, FS_CardinalityType
  <2>3. \E g : g \in Bijection(1 .. count[x], Of(x))
    BY <2>2, Fun_ExistsBij
  <2> DEFINE g == nth[x]  I == 1 .. count[x]  T == Of(x)
  <2>4. g \in Bijection(I, T)
    BY <2>3
  <2>5. /\ g \in [I -> T] /\ \A i, j \in I : g[i] = g[j] => i = j
        /\ \A s \in T : \E i \in I : g[i] = s
    <3> HIDE DEF g, I, T
    <3> QED BY <2>4, Fun_BijectionProperties
  <2> QED BY <2>5
<1>2. ASSUME NEW p \in P
      PROVE  /\ p[1] \in X /\ p[2] \in 1 .. count[p[1]] /\ p = <<p[1], p[2]>>
             /\ all[p] \in S /\ f[all[p]] = p[1]
  <2>1. p[1] \in X /\ p[2] \in 1 .. count[p[1]] /\ p = <<p[1], p[2]>>
    OBVIOUS
  <2>2. nth[p[1]] \in [1 .. count[p[1]] -> Of(p[1])]
    BY <1>1, <2>1
  <2>3. all[p] = nth[p[1]][p[2]]
    OBVIOUS
  <2> HIDE DEF P, nth, all
  <2> QED BY <2>1, <2>2, <2>3
<1>3. ASSUME NEW p \in P, NEW o \in P, all[p] = all[o]
      PROVE  p = o
  <2>1. p[1] = o[1]
    <3> HIDE DEF P, nth, all
    <3> QED BY <1>2, <1>3
  <2>2. nth[p[1]][p[2]] = nth[p[1]][o[2]]
    BY <1>3, <2>1
  <2>3. p[2] = o[2]
    <3>1. p[1] \in X /\ p[2] \in 1 .. count[p[1]] /\ o[2] \in 1 .. count[p[1]]
      <4> HIDE DEF P, nth, all
      <4> QED BY <1>2, <2>1
    <3> HIDE DEF nth
    <3> QED BY <1>1, <2>2, <3>1
  <2> HIDE DEF P, nth, all
  <2> QED BY <1>2, <2>1, <2>3
<1>4. ASSUME NEW s \in S
      PROVE  \E p \in P : all[p] = s
  <2>1. f[s] \in X /\ s \in Of(f[s])
    OBVIOUS
  <2>2. PICK i \in 1 .. count[f[s]] : nth[f[s]][i] = s
    <3> HIDE DEF nth, Of
    <3> QED BY <1>1, <2>1
  <2>3. <<f[s], i>> \in P
    BY <2>1
  <2>4. all[<<f[s], i>>] = s
    BY <2>2, <2>3
  <2> QED BY <2>3, <2>4
<1>5. all \in [P -> S]
  BY <1>2
<1>6. all \in Bijection(P, S)
  <2> HIDE DEF P, nth, all
  <2> QED BY <1>3, <1>4, <1>5, Fun_IsBij
<1>7. ExistsBijection(S, P)
  <2> HIDE DEF P, nth, all
  <2> QED BY <1>6, Fun_ExistsBij, Fun_ExistsBijSymmetric
<1>8. Cardinality(P) = Cardinality(S)
  <2> HIDE DEF P
  <2> QED BY <1>7, FS_Bijection
<1> QED BY <1>8 DEF Sum

(* A set is as large as one part and the rest.                             *)
LEMMA CountedApart ==
  ASSUME NEW S, IsFiniteSet(S), NEW T \in SUBSET S
  PROVE  /\ Cardinality(S) \in Nat /\ Cardinality(T) \in Nat /\ Cardinality(S \ T) \in Nat
         /\ Cardinality(S) = Cardinality(T) + Cardinality(S \ T)
<1>1. IsFiniteSet(T) /\ IsFiniteSet(S \ T)
  BY FS_Subset
<1>2. S = T \cup (S \ T) /\ T \cap (S \ T) = {}
  OBVIOUS
<1>3. Cardinality(S) \in Nat /\ Cardinality(T) \in Nat /\ Cardinality(S \ T) \in Nat
  BY <1>1, FS_CardinalityType
<1>4. Cardinality(T \cup (S \ T)) = Cardinality(T) + Cardinality(S \ T) - Cardinality(T \cap (S \ T))
  BY <1>1, FS_Union
<1>5. Cardinality({}) = 0
  BY FS_EmptySet
<1> QED BY <1>2, <1>3, <1>4, <1>5

(* As many pairs as a sum counts are finitely many.                        *)
Pairs(X, c) == UNION {{x} \X (1 .. c[x]) : x \in X}
LEMMA PairsAreFinite ==
  ASSUME NEW X, IsFiniteSet(X), NEW c \in [X -> Nat]
  PROVE  IsFiniteSet(Pairs(X, c)) /\ Sum(c) = Cardinality(Pairs(X, c)) /\ Sum(c) \in Nat
<1>1. ASSUME NEW x \in X
      PROVE  IsFiniteSet({x} \X (1 .. c[x]))
  <2>1. IsFiniteSet({x})
    BY FS_Singleton
  <2>2. 1 \in Int /\ c[x] \in Int
    OBVIOUS
  <2>3. IsFiniteSet(1 .. c[x])
    BY <2>2, FS_Interval
  <2> QED BY <2>1, <2>3, FS_Product
<1> DEFINE I == {{x} \X (1 .. c[x]) : x \in X}
           f == [x \in X |-> {x} \X (1 .. c[x])]
<1>2. f \in [X -> I] /\ \A T \in I : \E x \in X : f[x] = T
  OBVIOUS
<1>3. f \in Surjection(X, I)
  <2> HIDE DEF f, I
  <2> QED BY <1>2, Fun_IsSurj
<1>4. IsFiniteSet(I)
  <2> HIDE DEF f, I
  <2> QED BY <1>3, FS_Surjection
<1>5. IsFiniteSet(Pairs(X, c))
  BY <1>1, <1>4, FS_UNION DEF Pairs
<1>6. Sum(c) = Cardinality(Pairs(X, c))
  BY DEF Sum, Pairs
<1> QED BY <1>5, <1>6, FS_CardinalityType

(* What is counted higher everywhere sums up higher.                       *)
LEMMA SumsGrow ==
  ASSUME NEW X, IsFiniteSet(X), NEW a \in [X -> Nat], NEW b \in [X -> Nat],
         \A x \in X : a[x] <= b[x]
  PROVE  Sum(a) \in Nat /\ Sum(b) \in Nat /\ Sum(a) <= Sum(b)
<1>1. Pairs(X, a) \subseteq Pairs(X, b)
  <2> SUFFICES ASSUME NEW x \in X, NEW n \in 1 .. a[x]
               PROVE  n \in 1 .. b[x]
    BY DEF Pairs
  <2>1. a[x] \in Nat /\ b[x] \in Nat /\ a[x] <= b[x]
    OBVIOUS
  <2> QED BY <2>1
<1> QED BY <1>1, PairsAreFinite, FS_Subset

(* A sum over two sets that have nothing in common.                        *)
LEMMA SumsSplit ==
  ASSUME NEW X, NEW Y, IsFiniteSet(X), IsFiniteSet(Y), X \cap Y = {},
         NEW c \in [X \cup Y -> Nat], NEW a \in [X -> Nat], NEW b \in [Y -> Nat],
         \A x \in X : a[x] = c[x], \A y \in Y : b[y] = c[y]
  PROVE  Sum(c) = Sum(a) + Sum(b)
<1>1. /\ Pairs(X \cup Y, c) = Pairs(X, a) \cup Pairs(Y, b)
      /\ Pairs(X, a) \cap Pairs(Y, b) = {}
  BY DEF Pairs
<1>2. IsFiniteSet(X \cup Y)
  BY FS_Union
<1>3. /\ Sum(c) = Cardinality(Pairs(X \cup Y, c))
      /\ Sum(a) = Cardinality(Pairs(X, a)) /\ Sum(b) = Cardinality(Pairs(Y, b))
      /\ Sum(a) \in Nat /\ Sum(b) \in Nat
      /\ IsFiniteSet(Pairs(X, a)) /\ IsFiniteSet(Pairs(Y, b))
  BY <1>2, PairsAreFinite
<1>4. Cardinality(Pairs(X, a) \cup Pairs(Y, b))
        = Cardinality(Pairs(X, a)) + Cardinality(Pairs(Y, b)) - Cardinality(Pairs(X, a) \cap Pairs(Y, b))
  BY <1>3, FS_Union
<1>5. Cardinality(Pairs(X, a) \cap Pairs(Y, b)) = 0
  BY <1>1, FS_EmptySet
<1>6. Sum(c) = Cardinality(Pairs(X, a) \cup Pairs(Y, b))
  BY <1>1, <1>3
<1>7. Sum(c) = Sum(a) + Sum(b) - 0
  BY <1>3, <1>4, <1>5, <1>6
<1> QED BY <1>3, <1>7

(***************************************************************************)
(* Sets of rows.                                                           *)
(***************************************************************************)

(* The tables are finite.                                                  *)
LEMMA FiniteRows ==
  ASSUME GInv
  PROVE  /\ IsFiniteSet(Listed) /\ \A T \in SUBSET Listed : IsFiniteSet(T)
         /\ \A i \in Listed :
              /\ rows[i].student \in Student /\ rows[i].group \in Group
              /\ rows[i].level \in Level /\ rows[i].status \in RowStatus
         /\ \A g \in Group : RowsOf(g) = {i \in Listed : rows[i].group = g}
         /\ \A G \in SUBSET Group : RowsIn(G) = {i \in Listed : rows[i].group \in G}
<1>1. DOMAIN rows = 1 .. Len(rows) /\ Len(rows) \in Nat
  BY RowsInTables DEF GInv
<1>2. IsFiniteSet(DOMAIN rows)
  BY <1>1, FS_Interval
<1>3. IsFiniteSet(Listed) /\ \A T \in SUBSET Listed : IsFiniteSet(T)
  <2>1. Listed \subseteq DOMAIN rows
    BY DEF Listed
  <2> QED BY <1>2, <2>1, FS_Subset
<1>4. \A i \in Listed : /\ rows[i].student \in Student /\ rows[i].group \in Group
                        /\ rows[i].level \in Level /\ rows[i].status \in RowStatus
  BY RowsInTables, RowFields DEF GInv
<1>5. \A g \in Group : RowsOf(g) = {i \in Listed : rows[i].group = g}
  BY DEF RowsOf, Listed
<1>6. \A G \in SUBSET Group : RowsIn(G) = {i \in Listed : rows[i].group \in G}
  BY <1>5 DEF RowsIn
<1> QED BY <1>3, <1>4, <1>5, <1>6

(* No more students than enrollments, and as many when each has one.       *)
LEMMA StudentsCounted ==
  ASSUME GInv, NEW T \in SUBSET Listed
  PROVE  /\ IsFiniteSet(StudentsOf(T))
         /\ Cardinality(StudentsOf(T)) \in Nat /\ Cardinality(T) \in Nat
         /\ Cardinality(StudentsOf(T)) <= Cardinality(T)
         /\ (\A i, j \in T : rows[i].student = rows[j].student => i = j)
              => Cardinality(StudentsOf(T)) = Cardinality(T)
<1> DEFINE f == [i \in T |-> rows[i].student]
<1>1. IsFiniteSet(T)
  BY FiniteRows
<1>2. f \in [T -> StudentsOf(T)] /\ \A s \in StudentsOf(T) : \E i \in T : f[i] = s
  BY DEF StudentsOf
<1>3. f \in Surjection(T, StudentsOf(T))
  <2> HIDE DEF f
  <2> QED BY <1>2, Fun_IsSurj
<1>4. /\ IsFiniteSet(StudentsOf(T))
      /\ Cardinality(StudentsOf(T)) <= Cardinality(T)
  <2> HIDE DEF f
  <2> QED BY <1>1, <1>3, FS_Surjection
<1>5. ASSUME \A i, j \in T : rows[i].student = rows[j].student => i = j
      PROVE  Cardinality(StudentsOf(T)) = Cardinality(T)
  <2>1. \A i, j \in T : f[i] = f[j] => i = j
    BY <1>5
  <2>2. f \in Bijection(T, StudentsOf(T))
    <3> HIDE DEF f
    <3> QED BY <1>2, <2>1, Fun_IsBij
  <2>3. ExistsBijection(T, StudentsOf(T))
    <3> HIDE DEF f
    <3> QED BY <2>2, Fun_ExistsBij
  <2> QED BY <1>1, <2>3, FS_Bijection
<1> QED BY <1>1, <1>4, <1>5, FS_CardinalityType

(***************************************************************************)
(* The pages, part by part.                                                *)
(***************************************************************************)

(* What the levels of a group look like.                                   *)
LEMMA LevelsOf ==
  ASSUME GroupsInv, NEW g \in Group
  PROVE  \E n \in Level :
           /\ Existing(g) = 1 .. n /\ Existing(g) \subseteq Level /\ n = Largest(Existing(g))
           /\ current[g] \in 1 .. n
           /\ level[g] \in [Level -> LevelStatus]
           /\ \A l \in Level : level[g][l] # "none" <=> l <= n
           /\ \/ level[g][n] = "active" /\ current[g] = n /\ CurrentLevel(g) = n /\ ActiveLevels(g) # {}
              \/ level[g][n] = "cancelled"
           /\ \A i \in RowsOf(g) : rows[i].level \in 1 .. n
<1>1. PICK n \in Level : Stands(g, n)
  BY DEF GroupsInv, Contiguous
<1>2. level[g] \in [Level -> LevelStatus] /\ current[g] \in Level
  BY DEF GroupsInv, GInv, Tables
<1>3. n \in Nat /\ n >= 1 /\ n <= MaxLevel /\ MaxLevel \in Nat /\ Level = 1 .. MaxLevel
  BY LevelFacts
<1>4. Existing(g) = 1 .. n
  BY <1>1, <1>3 DEF Stands, Existing
<1>5. Existing(g) \in SUBSET Level /\ n \in Existing(g)
  BY <1>3, <1>4
<1>6. n = Largest(Existing(g))
  <2>1. Largest(Existing(g)) \in Existing(g) /\ n <= Largest(Existing(g))
    BY <1>5, LargestLevel
  <2> QED BY <1>3, <1>4, <2>1
<1>7. current[g] \in 1 .. n
  BY <1>1, <1>2, <1>3 DEF Stands
<1>8. \A i \in RowsOf(g) : rows[i].level \in 1 .. n
  BY <1>1, <1>3, FiniteRows DEF Stands, GroupsInv
<1>9. ASSUME level[g][n] = "active"
      PROVE  current[g] = n /\ CurrentLevel(g) = n /\ ActiveLevels(g) # {}
  <2>1. ActiveLevels(g) \in SUBSET Level /\ n \in ActiveLevels(g)
    BY <1>9 DEF ActiveLevels
  <2>2. \A l \in ActiveLevels(g) : l <= n
    BY <1>1 DEF ActiveLevels, Stands
  <2>3. Largest(ActiveLevels(g)) \in ActiveLevels(g) /\ n <= Largest(ActiveLevels(g))
    BY <2>1, LargestLevel
  <2>4. Largest(ActiveLevels(g)) = n
    BY <1>3, <2>1, <2>2, <2>3
  <2> QED BY <1>1, <1>9, <2>1, <2>4 DEF Stands, CurrentLevel
<1> QED BY <1>1, <1>2, <1>4, <1>5, <1>6, <1>7, <1>8, <1>9 DEF Stands

(* The level a page shows is the one of the group unless a level was       *)
(* cancelled.                                                              *)
LEMMA LevelsAreShown == GroupsInv => ShownLevels
<1> SUFFICES ASSUME GroupsInv, NEW g \in Group, current[g] # CurrentLevel(g)
             PROVE  /\ \E l \in Level : level[g][l] = "cancelled"
                    /\ level[g][current[g]] = "active" => current[g] < CurrentLevel(g)
  BY DEF ShownLevels
<1>1. PICK n \in Level : /\ level[g][n] = "cancelled" \/ (CurrentLevel(g) = n /\ current[g] = n)
                         /\ current[g] \in 1 .. n /\ Existing(g) = 1 .. n /\ Existing(g) \subseteq Level
  BY LevelsOf
<1>2. level[g][n] = "cancelled" /\ current[g] \in Level
  BY <1>1
<1>3. ASSUME level[g][current[g]] = "active" PROVE current[g] < CurrentLevel(g)
  <2>1. ActiveLevels(g) \in SUBSET Level /\ current[g] \in ActiveLevels(g)
    BY <1>2, <1>3 DEF ActiveLevels
  <2>2. CurrentLevel(g) \in Level /\ current[g] <= CurrentLevel(g)
    BY <2>1, LargestLevel DEF CurrentLevel
  <2> QED BY <1>2, <2>2, LevelFacts
<1> QED BY <1>2, <1>3

(* What a page offers of a group is answered as it says.                   *)
LEMMA RequestsAreAnswered == GroupsInv => RequestsAgree
<1> SUFFICES ASSUME GroupsInv, NEW g \in Group
             PROVE  LET cancelled == {l \in Level : level[g][l] = "cancelled"}
                        deletable == {l \in Level : DeleteAnswer(g, l) = "deleted"}
                        stuck     == \A k \in 0 .. MaxLevel + 1 : ProgressAnswer(g, k) = "refused" IN
                    /\ stuck <=> InstructorHistory(g).current = {}
                    /\ cancelled = {} =>
                         /\ EditAnswer(g, current[g]) = "updated"
                         /\ CancelAnswer(g, current[g]) = "cancelled"
                         /\ ProgressAnswer(g, 0) = "progressed"
                         /\ deletable = {current[g]} \ {1}
                    /\ stuck => 1 \in cancelled \/ deletable # {}
                    /\ \A l \in deletable : l > 1 /\ GetLevel(g, l - 1) # "not found"
  BY DEF RequestsAgree
<1> DEFINE cancelled == {l \in Level : level[g][l] = "cancelled"}
           deletable == {l \in Level : DeleteAnswer(g, l) = "deleted"}
           stuck     == \A k \in 0 .. MaxLevel + 1 : ProgressAnswer(g, k) = "refused"
<1>1. PICK n \in Level :
         /\ Existing(g) = 1 .. n /\ Existing(g) \subseteq Level /\ n = Largest(Existing(g))
         /\ current[g] \in 1 .. n /\ level[g] \in [Level -> LevelStatus]
         /\ \A l \in Level : level[g][l] # "none" <=> l <= n
         /\ \/ level[g][n] = "active" /\ current[g] = n /\ CurrentLevel(g) = n /\ ActiveLevels(g) # {}
            \/ level[g][n] = "cancelled"
  BY LevelsOf
<1>2. n \in Nat /\ n >= 1 /\ n <= MaxLevel /\ MaxLevel \in Nat /\ Level = 1 .. MaxLevel
  BY LevelFacts
<1>3. deletable = {n} \ {1}
  <2> SUFFICES ASSUME NEW l \in Level PROVE DeleteAnswer(g, l) = "deleted" <=> l = n /\ l # 1
    BY <1>1
  <2>1. level[g][l] = "none" \/ level[g][l] \in {"active", "completed", "cancelled"}
    BY <1>1 DEF LevelStatus
  <2>2. GetLevel(g, l) = "not found" <=> level[g][l] = "none"
    BY <2>1 DEF GetLevel
  <2>3. CASE level[g][l] = "none"
    <3>1. l # n
      BY <1>1, <1>2, <2>3
    <3> QED BY <2>2, <2>3, <3>1 DEF DeleteAnswer
  <2>4. CASE level[g][l] # "none"
    BY <1>1, <2>2, <2>4 DEF DeleteAnswer
  <2> QED BY <2>3, <2>4
<1>4. (ActiveLevels(g) = {}) <=> (InstructorHistory(g).current = {})
  BY DEF InstructorHistory, InstructorSummary
<1>5. ASSUME ActiveLevels(g) = {} PROVE stuck
  BY <1>5 DEF ProgressAnswer, CurrentLevel
<1>6. ASSUME ActiveLevels(g) # {} PROVE ~ stuck
  <2>1. CurrentLevel(g) \in Level
    <3>1. ActiveLevels(g) \in SUBSET Level
      BY DEF ActiveLevels
    <3> QED BY <1>6, <3>1, LargestLevel DEF CurrentLevel
  <2> DEFINE k == MaxLevel + 1
  <2>2. k \in 0 .. MaxLevel + 1 /\ k # 0 /\ CurrentLevel(g) # 0 /\ ~ (k <= CurrentLevel(g)) /\ k \notin Existing(g)
    BY <1>1, <1>2, <2>1
  <2>3. ProgressAnswer(g, k) = "progressed"
    <3> HIDE DEF k
    <3> QED BY <2>2 DEF ProgressAnswer
  <2> QED BY <2>2, <2>3
<1>7. ASSUME cancelled = {}
      PROVE  /\ EditAnswer(g, current[g]) = "updated"
             /\ CancelAnswer(g, current[g]) = "cancelled"
             /\ ProgressAnswer(g, 0) = "progressed"
             /\ deletable = {current[g]} \ {1}
  <2>1. level[g][n] = "active" /\ current[g] = n /\ CurrentLevel(g) = n
    BY <1>1, <1>7
  <2>2. EditAnswer(g, n) = "updated" /\ CancelAnswer(g, n) = "cancelled"
    BY <2>1 DEF EditAnswer, CancelAnswer, GetLevel
  <2>3. ProgressAnswer(g, 0) = "progressed"
    <3>1. n + 1 \notin Existing(g) /\ ~ (n + 1 <= n) /\ n # 0
      BY <1>1, <1>2
    <3> QED BY <2>1, <3>1 DEF ProgressAnswer
  <2> QED BY <1>3, <2>1, <2>2, <2>3
<1>8. ASSUME stuck PROVE 1 \in cancelled \/ deletable # {}
  <2>1. ActiveLevels(g) = {}
    BY <1>6, <1>8
  <2>2. level[g][n] = "cancelled"
    BY <1>1, <2>1
  <2> QED BY <1>3, <2>2
<1>9. \A l \in deletable : l > 1 /\ GetLevel(g, l - 1) # "not found"
  <2> SUFFICES ASSUME n # 1 PROVE n > 1 /\ GetLevel(g, n - 1) # "not found"
    BY <1>3
  <2>1. n > 1 /\ n - 1 \in Level /\ n - 1 <= n
    BY <1>2
  <2>2. level[g][n - 1] # "none" /\ level[g][n - 1] # "not found"
    BY <1>1, <2>1 DEF LevelStatus
  <2> QED BY <2>1, <2>2 DEF GetLevel
<1> HIDE DEF cancelled, deletable, stuck
<1>10. /\ stuck <=> InstructorHistory(g).current = {}
       /\ cancelled = {} =>
            /\ EditAnswer(g, current[g]) = "updated"
            /\ CancelAnswer(g, current[g]) = "cancelled"
            /\ ProgressAnswer(g, 0) = "progressed"
            /\ deletable = {current[g]} \ {1}
       /\ stuck => 1 \in cancelled \/ deletable # {}
       /\ \A l \in deletable : l > 1 /\ GetLevel(g, l - 1) # "not found"
  BY <1>4, <1>5, <1>6, <1>7, <1>8, <1>9
<1> QED BY <1>10 DEF cancelled, deletable, stuck

(* The rows of a set, told apart by their status.                          *)
LEMMA CountedByStatus ==
  ASSUME GInv, NEW R \in SUBSET Listed
  PROVE  /\ \A ss \in SUBSET RowStatus : Cardinality(Having(R, ss)) \in Nat
         /\ Cardinality(R) = Cardinality(Having(R, {"transferred"})) + Cardinality(Having(R, {"active"}))
                               + Cardinality(Having(R, {"completed"})) + Cardinality(Having(R, {"dropped"}))
         /\ Cardinality(Having(R, {"active", "completed"}))
              = Cardinality(Having(R, {"active"})) + Cardinality(Having(R, {"completed"}))
<1>1. IsFiniteSet(R) /\ \A T \in SUBSET R : IsFiniteSet(T)
  BY FiniteRows
<1>2. \A i \in R : rows[i].status \in RowStatus
  BY FiniteRows
<1>3. \A ss \in SUBSET RowStatus : Having(R, ss) \in SUBSET R
  BY DEF Having
<1> DEFINE AC == Having(R, {"active", "completed"})
           TD == Having(R, {"transferred", "dropped"})
           A  == Having(R, {"active"})
           T  == Having(R, {"transferred"})
<1>4. AC \in SUBSET R /\ TD \in SUBSET R /\ A \in SUBSET AC /\ T \in SUBSET TD
  BY DEF Having
<1>5. R \ AC = TD /\ AC \ A = Having(R, {"completed"}) /\ TD \ T = Having(R, {"dropped"})
  BY <1>2 DEF Having, RowStatus
<1>6. /\ Cardinality(R) = Cardinality(AC) + Cardinality(R \ AC)
      /\ Cardinality(AC) = Cardinality(A) + Cardinality(AC \ A)
      /\ Cardinality(TD) = Cardinality(T) + Cardinality(TD \ T)
      /\ Cardinality(A) \in Nat /\ Cardinality(AC \ A) \in Nat
      /\ Cardinality(T) \in Nat /\ Cardinality(TD \ T) \in Nat
  <2> HIDE DEF AC, TD, A, T
  <2> QED BY <1>1, <1>4, CountedApart
<1>7. \A ss \in SUBSET RowStatus : Cardinality(Having(R, ss)) \in Nat
  BY <1>1, <1>3, FS_CardinalityType
<1>8. /\ Cardinality(AC) = Cardinality(A) + Cardinality(AC \ A)
      /\ Cardinality(R) = Cardinality(T) + Cardinality(A) + Cardinality(AC \ A) + Cardinality(TD \ T)
  <2>1. Cardinality(R \ AC) = Cardinality(TD)
    BY <1>5
  <2> DEFINE r == Cardinality(R)  a == Cardinality(A)  t == Cardinality(T)
             c == Cardinality(AC \ A)  d == Cardinality(TD \ T)
  <2>2. a \in Nat /\ t \in Nat /\ c \in Nat /\ d \in Nat /\ Cardinality(AC) = a + c
        /\ r = (a + c) + (t + d)
    <3> HIDE DEF AC, TD, A, T
    <3> QED BY <1>6, <2>1
  <2>3. r = t + a + c + d
    <3> HIDE DEF r, a, t, c, d
    <3> QED BY <2>2
  <2> QED BY <2>2, <2>3
<1>9. /\ Cardinality(AC) = Cardinality(A) + Cardinality(Having(R, {"completed"}))
      /\ Cardinality(R) = Cardinality(T) + Cardinality(A) + Cardinality(Having(R, {"completed"}))
                            + Cardinality(Having(R, {"dropped"}))
  <2> HIDE DEF AC, TD, A, T
  <2> QED BY <1>5, <1>8
<1> QED BY <1>7, <1>9

(* The lists of enrollments, by student or by group, are of the same rows. *)
LEMMA ListsAreWhole == GInv => ListsAgree
<1> SUFFICES ASSUME GInv PROVE ListsAgree
  OBVIOUS
<1>1. GInv
  OBVIOUS
<1>2. Listed = UNION {StudentEnrollments(s) : s \in Student}
  BY <1>1, FiniteRows DEF StudentEnrollments
<1>3. ASSUME NEW g \in Group
      PROVE  LET page   == HistoryPage(g, {"transferred"})
                 counts == page.counts IN
             /\ counts.total = Cardinality(page.rows)
                                 + counts.active + counts.completed + counts.dropped
             /\ EnrichedGroup(g).count <= counts.active
             /\ g \in open => g \in FilterPage({EnrichedGroup(g).level}, TRUE).groups
  <2>1. RowsOf(g) \in SUBSET Listed
    BY <1>1, FiniteRows
  <2>2. /\ HistoryPage(g, {"transferred"}).counts = Counts(RowsOf(g))
        /\ HistoryPage(g, {"transferred"}).rows = Having(RowsOf(g), {"transferred"})
    BY DEF HistoryPage, EnrollmentHistory, EnrollmentRows
  <2>3. /\ Counts(RowsOf(g)).total = Cardinality(RowsOf(g))
        /\ Counts(RowsOf(g)).active = Cardinality(Having(RowsOf(g), {"active"}))
        /\ Counts(RowsOf(g)).completed = Cardinality(Having(RowsOf(g), {"completed"}))
        /\ Counts(RowsOf(g)).dropped = Cardinality(Having(RowsOf(g), {"dropped"}))
    BY DEF Counts
  <2>4. Cardinality(RowsOf(g)) = Cardinality(Having(RowsOf(g), {"transferred"}))
          + Cardinality(Having(RowsOf(g), {"active"})) + Cardinality(Having(RowsOf(g), {"completed"}))
          + Cardinality(Having(RowsOf(g), {"dropped"}))
    BY <1>1, <2>1, CountedByStatus
  <2>5. CurrentCount(g) <= Cardinality(Having(RowsOf(g), {"active"}))
    <3>1. RowsAt(g, current[g]) \cap Enrolled(g) \subseteq Having(RowsOf(g), {"active"})
      BY DEF Enrolled, Having
    <3>2. IsFiniteSet(Having(RowsOf(g), {"active"}))
      BY <1>1, <2>1, FiniteRows DEF Having
    <3> QED BY <3>1, <3>2, FS_Subset DEF CurrentCount
  <2>6. EnrichedGroup(g).count = CurrentCount(g) /\ EnrichedGroup(g).level = current[g]
    BY DEF EnrichedGroup
  <2>7. g \in open => g \in FilterPage({current[g]}, TRUE).groups
    BY DEF FilterPage, FilterGroups
  <2> QED BY <2>2, <2>3, <2>4, <2>5, <2>6, <2>7
<1>4. ASSUME NEW F, NEW P, P = GroupedBy(F)
      PROVE  /\ UNION {P[k] : k \in DOMAIN P} = open
             /\ \A j, k \in DOMAIN P : j # k => P[j] \cap P[k] = {}
  <2>1. DOMAIN P = {F[g] : g \in open}
    BY <1>4 DEF GroupedBy, EnrichedGroups
  <2>2. \A k \in DOMAIN P : P[k] = {g \in open : F[g] = k}
    BY <1>4 DEF GroupedBy, EnrichedGroups
  <2> QED BY <2>1, <2>2
<1>5. ASSUME NEW f \in {"course", "instructor", "day", "status"}
      PROVE  LET P == GroupedPage(f).groups IN
             /\ UNION {P[k] : k \in DOMAIN P} = open
             /\ \A j, k \in DOMAIN P : j # k => P[j] \cap P[k] = {}
  <2>1. \E F : GroupedPage(f).groups = GroupedBy(F)
    BY DEF GroupedPage, GroupedByCourse
  <2> QED BY <1>4, <2>1
<1> QED BY <1>2, <1>3, <1>5 DEF ListsAgree

(* A set of rows, summed up by level, by group, or by something of the     *)
(* group.                                                                  *)
LEMMA LevelsAddUp ==
  ASSUME GInv, NEW T \in SUBSET Listed, NEW X, \A i \in T : rows[i].level \in X,
         NEW count, DOMAIN count = X,
         \A l \in X : count[l] = Cardinality({i \in T : rows[i].level = l})
  PROVE  Sum(count) = Cardinality(T)
<1> DEFINE f == [i \in T |-> rows[i].level]
<1>1. f \in [T -> X] /\ \A i \in T : f[i] = rows[i].level
  OBVIOUS
<1>2. IsFiniteSet(T)
  BY FiniteRows
<1> HIDE DEF f
<1>3. \A l \in X : count[l] = Cardinality({i \in T : f[i] = l})
  <2> SUFFICES ASSUME NEW l \in X PROVE count[l] = Cardinality({i \in T : f[i] = l})
    OBVIOUS
  <2>1. {i \in T : f[i] = l} = {i \in T : rows[i].level = l}
    BY <1>1
  <2> QED BY <2>1
<1> QED BY <1>1, <1>2, <1>3, CountedByValue

(* Counts of rows by what F says of their group add up to the rows.        *)
LEMMA GroupsAddUp ==
  ASSUME GInv, NEW T \in SUBSET Listed, NEW Y, NEW F \in [Group -> Y], NEW X,
         \A i \in T : F[rows[i].group] \in X,
         NEW count, DOMAIN count = X,
         \A x \in X : count[x] = Cardinality({i \in T : F[rows[i].group] = x})
  PROVE  Sum(count) = Cardinality(T)
<1> DEFINE f == [i \in T |-> F[rows[i].group]]
<1>1. f \in [T -> X] /\ \A i \in T : f[i] = F[rows[i].group]
  OBVIOUS
<1>2. IsFiniteSet(T)
  BY FiniteRows
<1> HIDE DEF f
<1>3. \A x \in X : count[x] = Cardinality({i \in T : f[i] = x})
  <2> SUFFICES ASSUME NEW x \in X PROVE count[x] = Cardinality({i \in T : f[i] = x})
    OBVIOUS
  <2>1. {i \in T : f[i] = x} = {i \in T : F[rows[i].group] = x}
    BY <1>1
  <2> QED BY <2>1
<1> QED BY <1>1, <1>2, <1>3, CountedByValue

(* Counts of rows by their group add up to the rows.                       *)
LEMMA GroupCountsAddUp ==
  ASSUME GInv, NEW T \in SUBSET Listed, NEW G \in SUBSET Group,
         \A i \in T : rows[i].group \in G,
         NEW count, DOMAIN count = G,
         \A g \in G : count[g] = Cardinality({i \in T : rows[i].group = g})
  PROVE  Sum(count) = Cardinality(T)
<1> DEFINE f == [i \in T |-> rows[i].group]
<1>1. f \in [T -> G] /\ \A i \in T : f[i] = rows[i].group
  OBVIOUS
<1>2. IsFiniteSet(T)
  BY FiniteRows
<1> HIDE DEF f
<1>3. \A g \in G : count[g] = Cardinality({i \in T : f[i] = g})
  <2> SUFFICES ASSUME NEW g \in G PROVE count[g] = Cardinality({i \in T : f[i] = g})
    OBVIOUS
  <2>1. {i \in T : f[i] = g} = {i \in T : rows[i].group = g}
    BY <1>1
  <2> QED BY <2>1
<1> QED BY <1>1, <1>2, <1>3, CountedByValue

(* The tabs of one group.                                                  *)
LEMMA TabsOfGroup ==
  ASSUME GroupsInv, NEW g \in Group
  PROVE  LET tab      == EnrollmentsTab(g)
             detailed == LevelsDetailed(g)
             payments == PaymentsTab(g)
             history  == EnrollmentHistory(g) IN
         /\ \A f \in DOMAIN history : Sum([l \in DOMAIN tab |-> tab[l][f]]) = history[f]
         /\ DOMAIN detailed = DOMAIN tab
         /\ \A l \in DOMAIN tab :
              LET row == tab[l]
                  page == detailed[l] IN
              \A f \in DOMAIN page : page[f] = row[f]
         /\ Sum(payments) = history.active + history.completed
         /\ DashboardRoster(g) = Having(SummaryByGroup(g), {"active"})
         /\ tab[current[g]].active = CurrentCount(g)
<1> DEFINE tab      == EnrollmentsTab(g)
           detailed == LevelsDetailed(g)
           payments == PaymentsTab(g)
           history  == EnrollmentHistory(g)
           R        == RowsOf(g)
           X        == Existing(g)
<1>1. GInv /\ R \in SUBSET Listed
  BY FiniteRows DEF GroupsInv
<1>2. current[g] \in X /\ \A i \in R : rows[i].level \in X
  BY LevelsOf
<1>3. DOMAIN tab = X /\ DOMAIN detailed = X /\ DOMAIN payments = X
  BY DEF EnrollmentsTab, LevelsDetailed, PaymentsTab
<1>4. ASSUME NEW l \in X
      PROVE  /\ tab[l].total = Cardinality(RowsAt(g, l))
             /\ tab[l].active = Cardinality(Having(RowsAt(g, l), {"active"}))
             /\ tab[l].completed = Cardinality(Having(RowsAt(g, l), {"completed"}))
             /\ tab[l].dropped = Cardinality(Having(RowsAt(g, l), {"dropped"}))
             /\ detailed[l] = LevelPage(g, l)
             /\ payments[l] = Cardinality(Having(RowsAt(g, l), {"active", "completed"}))
  BY DEF EnrollmentsTab, Counts, LevelsDetailed, PaymentsTab, GridRoster
<1>5. /\ history.total = Cardinality(R)
      /\ history.active = Cardinality(Having(R, {"active"}))
      /\ history.completed = Cardinality(Having(R, {"completed"}))
      /\ history.dropped = Cardinality(Having(R, {"dropped"}))
      /\ DOMAIN history = {"total", "active", "completed", "dropped"}
  BY DEF EnrollmentHistory, Counts
<1> HIDE DEF tab, detailed, payments, history, X, R
<1>6. ASSUME NEW T \in SUBSET R, NEW count, DOMAIN count = X,
             \A l \in X : count[l] = Cardinality({i \in T : rows[i].level = l})
      PROVE  Sum(count) = Cardinality(T)
  <2>1. T \in SUBSET Listed /\ \A i \in T : rows[i].level \in X
    BY <1>1, <1>2
  <2> QED BY <1>1, <1>6, <2>1, LevelsAddUp
<1>7. ASSUME NEW ss, NEW count, DOMAIN count = X,
             \A l \in X : count[l] = Cardinality(Having(RowsAt(g, l), ss))
      PROVE  Sum(count) = Cardinality(Having(R, ss))
  <2>1. Having(R, ss) \in SUBSET R
    BY DEF Having
  <2>2. \A l \in X : Having(RowsAt(g, l), ss) = {i \in Having(R, ss) : rows[i].level = l}
    BY DEF Having, RowsAt, R
  <2> QED BY <1>6, <1>7, <2>1, <2>2
<1>8. ASSUME NEW f \in DOMAIN history
      PROVE  Sum([l \in DOMAIN tab |-> tab[l][f]]) = history[f]
  <2> DEFINE count == [l \in DOMAIN tab |-> tab[l][f]]
  <2>1. DOMAIN count = X /\ \A l \in X : count[l] = tab[l][f]
    BY <1>3
  <2> HIDE DEF count
  <2>2. CASE f = "total"
    <3>1. \A l \in X : RowsAt(g, l) = {i \in R : rows[i].level = l}
      BY DEF RowsAt, R
    <3>2. \A l \in X : count[l] = Cardinality({i \in R : rows[i].level = l})
      BY <1>4, <2>1, <2>2, <3>1
    <3>3. Sum(count) = Cardinality(R)
      BY <1>6, <2>1, <3>2
    <3> QED BY <1>5, <2>2, <3>3 DEF count
  <2>3. CASE f = "active"
    <3>1. Sum(count) = Cardinality(Having(R, {"active"}))
      BY <1>4, <1>7, <2>1, <2>3
    <3> QED BY <1>5, <2>3, <3>1 DEF count
  <2>4. CASE f = "completed"
    <3>1. Sum(count) = Cardinality(Having(R, {"completed"}))
      BY <1>4, <1>7, <2>1, <2>4
    <3> QED BY <1>5, <2>4, <3>1 DEF count
  <2>5. CASE f = "dropped"
    <3>1. Sum(count) = Cardinality(Having(R, {"dropped"}))
      BY <1>4, <1>7, <2>1, <2>5
    <3> QED BY <1>5, <2>5, <3>1 DEF count
  <2> QED BY <1>5, <2>2, <2>3, <2>4, <2>5
<1>9. ASSUME NEW l \in DOMAIN tab, NEW f \in DOMAIN detailed[l]
      PROVE  detailed[l][f] = tab[l][f]
  <2>1. l \in X
    BY <1>3
  <2> DEFINE page == LevelPage(g, l)
  <2>2. DOMAIN page = {"total", "completed", "dropped"}
    BY DEF LevelPage
  <2>3. /\ page.total = Cardinality(RowsAt(g, l))
        /\ page.completed = Cardinality(Having(RowsAt(g, l), {"completed"}))
        /\ page.dropped = Cardinality(Having(RowsAt(g, l), {"dropped"}))
    BY DEF LevelPage
  <2>4. detailed[l] = page
    BY <1>4, <2>1
  <2> HIDE DEF page
  <2> QED BY <1>4, <2>1, <2>2, <2>3, <2>4
<1>10. Sum(payments) = history.active + history.completed
  <2>1. Sum(payments) = Cardinality(Having(R, {"active", "completed"}))
    BY <1>3, <1>4, <1>7
  <2> QED BY <1>1, <1>5, <2>1, CountedByStatus
<1>11. DashboardRoster(g) = Having(SummaryByGroup(g), {"active"})
  BY DEF DashboardRoster, Having, SummaryByGroup, RowsAt, Enrolled
<1>12. tab[current[g]].active = CurrentCount(g)
  <2>1. RowsAt(g, current[g]) \cap Enrolled(g) = Having(RowsAt(g, current[g]), {"active"})
    BY DEF Having, RowsAt, Enrolled
  <2> QED BY <1>2, <1>4, <2>1 DEF CurrentCount
<1>13. DOMAIN detailed = DOMAIN tab
  BY <1>3
<1> QED BY <1>8, <1>9, <1>10, <1>11, <1>12, <1>13 DEF tab, detailed, payments, history

(* The index keeps a student from being enrolled twice.                    *)
LEMMA NobodyIsTwice ==
  ASSUME UniqueIndex(rows)
  PROVE  DuplicateEnrollments = {}
<1> SUFFICES ASSUME NEW p \in Student \X Group
             PROVE  ~ (Cardinality({i \in Enrolled(p[2]) : rows[i].student = p[1]}) > 1)
  BY DEF DuplicateEnrollments
<1> DEFINE T == {i \in Enrolled(p[2]) : rows[i].student = p[1]}
<1>1. \A i, j \in T : i = j
  BY DEF UniqueIndex, Enrolled, RowsOf
<1>2. CASE T = {}
  <2>1. Cardinality(T) = 0
    BY <1>2, FS_EmptySet
  <2> QED BY <2>1
<1>3. CASE T # {}
  <2>1. PICK i : T = {i}
    BY <1>1, <1>3
  <2>2. Cardinality(T) = 1
    BY <2>1, FS_Singleton
  <2> QED BY <2>2
<1> QED BY <1>2, <1>3

(* The tabs of a group hold all of its enrollments.                        *)
LEMMA TabsAreWhole == GroupsInv => TabsAreComplete
<1> SUFFICES ASSUME GroupsInv PROVE TabsAreComplete
  OBVIOUS
<1>1. GInv /\ UniqueIndex(rows)
  BY DEF GroupsInv
<1>2. LevelMismatch = {}
  <2> SUFFICES ASSUME NEW i \in Listed PROVE rows[i].level \in Existing(rows[i].group)
    BY DEF LevelMismatch
  <2>1. rows[i].group \in Group /\ i \in RowsOf(rows[i].group)
    BY <1>1, FiniteRows DEF RowsOf, Listed
  <2> QED BY <2>1, LevelsOf
<1>3. DuplicateEnrollments = {}
  BY <1>1, NobodyIsTwice
<1>4. \A g \in Group :
        LET tab      == EnrollmentsTab(g)
            detailed == LevelsDetailed(g)
            payments == PaymentsTab(g)
            history  == EnrollmentHistory(g) IN
        /\ \A f \in DOMAIN history : Sum([l \in DOMAIN tab |-> tab[l][f]]) = history[f]
        /\ DOMAIN detailed = DOMAIN tab
        /\ \A l \in DOMAIN tab :
             LET row == tab[l]
                 page == detailed[l] IN
             \A f \in DOMAIN page : page[f] = row[f]
        /\ Sum(payments) = history.active + history.completed
        /\ DashboardRoster(g) = Having(SummaryByGroup(g), {"active"})
        /\ tab[current[g]].active = CurrentCount(g)
  BY TabsOfGroup
<1> QED BY <1>2, <1>3, <1>4 DEF TabsAreComplete

(***************************************************************************)
(* The counts of groups, instructors and slots.                            *)
(***************************************************************************)
Actives == Having(Listed, {"active"})

(* The active enrollments, of one group and of several.                    *)
LEMMA ActiveRows ==
  ASSUME GInv
  PROVE  /\ Actives \in SUBSET Listed
         /\ \A g \in Group : Enrolled(g) = {i \in Actives : rows[i].group = g}
         /\ \A G \in SUBSET Group :
              Having(RowsIn(G), {"active"}) = {i \in Actives : rows[i].group \in G}
BY FiniteRows DEF Actives, Having, Enrolled

(* There are finitely many groups, each with a count and a capacity.       *)
LEMMA FiniteGroups ==
  ASSUME GInv
  PROVE  /\ open \in SUBSET Group /\ \A G \in SUBSET Group : IsFiniteSet(G)
         /\ \A g \in Group : StudentCount(g) \in Nat /\ Capacity[g] \in Nat \ {0}
<1>1. open \in SUBSET Group
  BY DEF GInv, Tables
<1>2. \A G \in SUBSET Group : IsFiniteSet(G)
  BY PagesAssumption, FS_Subset
<1>3. ASSUME NEW g \in Group PROVE StudentCount(g) \in Nat /\ Capacity[g] \in Nat \ {0}
  <2>1. Enrolled(g) \in SUBSET Listed
    BY ActiveRows
  <2>2. IsFiniteSet(Enrolled(g))
    BY <2>1, FiniteRows
  <2> QED BY <2>2, FS_CardinalityType, PagesAssumption DEF StudentCount
<1> QED BY <1>1, <1>2, <1>3

(* Who is enrolled, summed up over some groups.                            *)
LEMMA EnrolledAddUp ==
  ASSUME GInv, NEW G \in SUBSET Group
  PROVE  Sum([g \in G |-> StudentCount(g)]) = Cardinality(Having(RowsIn(G), {"active"}))
<1> DEFINE T == {i \in Actives : rows[i].group \in G}
           count == [g \in G |-> StudentCount(g)]
<1>1. T \in SUBSET Listed /\ \A i \in T : rows[i].group \in G
  BY ActiveRows
<1>2. \A g \in G : {i \in T : rows[i].group = g} = Enrolled(g)
  BY ActiveRows
<1>3. DOMAIN count = G /\ \A g \in G : count[g] = Cardinality({i \in T : rows[i].group = g})
  BY <1>2 DEF StudentCount
<1>4. T = Having(RowsIn(G), {"active"})
  BY ActiveRows
<1> HIDE DEF T, count
<1>5. Sum(count) = Cardinality(T)
  BY <1>1, <1>3, GroupCountsAddUp
<1> QED BY <1>4, <1>5 DEF count

(* The counts of one group differ by those it left behind.                 *)
LEMMA CountsOfGroup ==
  ASSUME GInv, NEW g \in Group
  PROVE  LET behind == {i \in Enrolled(g) : rows[i].level # current[g]} IN
         /\ StudentCount(g) - CurrentCount(g) = Cardinality(behind)
         /\ g \in OverCapacity /\ behind = {} => Places(g) = 0
         /\ \A h \in DOMAIN TransferOptions(g) :
              TransferOptions(g)[h] = 0 => StudentCount(h) >= Capacity[h]
<1> DEFINE behind == {i \in Enrolled(g) : rows[i].level # current[g]}
<1>1. GInv
  OBVIOUS
<1>2. ASSUME NEW h \in Group
      PROVE  LET late == {i \in Enrolled(h) : rows[i].level # current[h]} IN
             /\ StudentCount(h) \in Nat /\ CurrentCount(h) \in Nat /\ Cardinality(late) \in Nat
             /\ StudentCount(h) = CurrentCount(h) + Cardinality(late)
  <2> DEFINE late == {i \in Enrolled(h) : rows[i].level # current[h]}
             T == RowsAt(h, current[h]) \cap Enrolled(h)
  <2>1. IsFiniteSet(Enrolled(h))
    <3>1. Enrolled(h) \in SUBSET Listed
      BY <1>1, ActiveRows
    <3> QED BY <1>1, <3>1, FiniteRows
  <2>2. T \in SUBSET Enrolled(h) /\ Enrolled(h) \ T = late
    BY DEF RowsAt, Enrolled
  <2> HIDE DEF late, T
  <2>3. /\ Cardinality(Enrolled(h)) \in Nat /\ Cardinality(T) \in Nat /\ Cardinality(late) \in Nat
        /\ Cardinality(Enrolled(h)) = Cardinality(T) + Cardinality(late)
    <3>1. /\ Cardinality(Enrolled(h)) \in Nat /\ Cardinality(T) \in Nat
          /\ Cardinality(Enrolled(h) \ T) \in Nat
          /\ Cardinality(Enrolled(h)) = Cardinality(T) + Cardinality(Enrolled(h) \ T)
      BY <2>1, <2>2, CountedApart
    <3> QED BY <2>2, <3>1
  <2> QED BY <2>3 DEF StudentCount, CurrentCount, T, late
<1>3. StudentCount(g) - CurrentCount(g) = Cardinality(behind)
  <2>1. /\ StudentCount(g) \in Nat /\ CurrentCount(g) \in Nat /\ Cardinality(behind) \in Nat
        /\ StudentCount(g) = CurrentCount(g) + Cardinality(behind)
    BY <1>2
  <2> HIDE DEF behind
  <2> QED BY <2>1
<1>4. ASSUME g \in OverCapacity, behind = {}
      PROVE  Places(g) = 0
  <2>1. Cardinality(behind) = 0 /\ StudentCount(g) = CurrentCount(g) + Cardinality(behind)
        /\ StudentCount(g) \in Nat /\ CurrentCount(g) \in Nat
    BY <1>2, <1>4, FS_EmptySet
  <2>2. Cardinality(StudentsOf(Enrolled(g))) <= StudentCount(g)
        /\ Cardinality(StudentsOf(Enrolled(g))) \in Nat
    <3>1. Enrolled(g) \in SUBSET Listed
      BY <1>1, ActiveRows
    <3> QED BY <1>1, <3>1, StudentsCounted DEF StudentCount
  <2>3. Cardinality(StudentsOf(Enrolled(g))) > Capacity[g] /\ Capacity[g] \in Nat
    BY <1>4, PagesAssumption DEF OverCapacity
  <2>4. ~ (Capacity[g] - CurrentCount(g) > 0)
    <3> HIDE DEF behind
    <3> QED BY <2>1, <2>2, <2>3
  <2> QED BY <2>4 DEF Places, Positive
<1>5. ASSUME NEW h \in DOMAIN TransferOptions(g), TransferOptions(g)[h] = 0
      PROVE  StudentCount(h) >= Capacity[h]
  <2>1. h \in Group /\ TransferOptions(g)[h] = Places(h)
    BY <1>1, FiniteGroups DEF TransferOptions
  <2>2. Capacity[h] \in Nat
    BY <2>1, PagesAssumption
  <2> DEFINE late == {i \in Enrolled(h) : rows[i].level # current[h]}
  <2>3. /\ StudentCount(h) \in Nat /\ CurrentCount(h) \in Nat /\ Cardinality(late) \in Nat
        /\ StudentCount(h) = CurrentCount(h) + Cardinality(late)
    BY <1>2, <2>1
  <2>4. Positive(Capacity[h] - CurrentCount(h)) = 0
    BY <1>5, <2>1 DEF Places
  <2>5. ~ (Capacity[h] - CurrentCount(h) > 0)
    BY <2>2, <2>3, <2>4 DEF Positive
  <2> HIDE DEF late
  <2> QED BY <2>2, <2>3, <2>5
<1> QED BY <1>3, <1>4, <1>5

(* The open groups at their current level, by course and by level.         *)
LEMMA DirectoryAddsUp ==
  ASSUME GInv
  PROVE  LET listed == EnrichedGroups
             shelf  == GroupedByCourse IN
         Sum([c \in DOMAIN shelf |-> Sum([g \in shelf[c] |-> listed[g]])])
           = Sum([l \in Level |-> Sum(FilterGroups({l}))])
<1> DEFINE listed == EnrichedGroups
           shelf  == GroupedByCourse
           T == {i \in Actives : rows[i].group \in open /\ rows[i].level = current[rows[i].group]}
<1>1. GInv /\ open \in SUBSET Group /\ current \in [Group -> Level]
  BY FiniteGroups DEF GInv, Tables
<1>2. T \in SUBSET Listed /\ \A i \in T : rows[i].group \in open
  BY <1>1, ActiveRows
<1>3. ASSUME NEW G \in SUBSET open, NEW count, DOMAIN count = G,
             \A g \in G : count[g] = CurrentCount(g)
      PROVE  Sum(count) = Cardinality({i \in T : rows[i].group \in G})
  <2> DEFINE S == {i \in T : rows[i].group \in G}
  <2>1. \A g \in G : {i \in S : rows[i].group = g} = RowsAt(g, current[g]) \cap Enrolled(g)
    <3> SUFFICES ASSUME NEW g \in G
                 PROVE  {i \in S : rows[i].group = g} = RowsAt(g, current[g]) \cap Enrolled(g)
      OBVIOUS
    <3>1. g \in Group /\ g \in open
      BY <1>1
    <3>2. Enrolled(g) = {i \in Actives : rows[i].group = g}
      BY <1>1, <3>1, ActiveRows
    <3>3. RowsAt(g, current[g]) \cap Enrolled(g) = {i \in Enrolled(g) : rows[i].level = current[g]}
      BY DEF RowsAt, Enrolled
    <3> QED BY <3>1, <3>2, <3>3
  <2>2. S \in SUBSET Listed /\ \A i \in S : rows[i].group \in G
    BY <1>2
  <2>3. \A g \in G : count[g] = Cardinality({i \in S : rows[i].group = g})
    BY <1>3, <2>1 DEF CurrentCount
  <2>4. G \in SUBSET Group
    BY <1>1
  <2> HIDE DEF S
  <2>5. Sum(count) = Cardinality(S)
    BY <1>1, <1>3, <2>2, <2>3, <2>4, GroupCountsAddUp
  <2> QED BY <2>5 DEF S
<1>4. /\ DOMAIN listed = open /\ \A g \in open : listed[g] = CurrentCount(g)
      /\ DOMAIN shelf = {CourseOf[g] : g \in open}
      /\ \A c \in DOMAIN shelf : shelf[c] = {g \in open : CourseOf[g] = c}
  BY DEF EnrichedGroups, GroupedByCourse, GroupedBy
<1> HIDE DEF listed, shelf
<1>5. Sum([c \in DOMAIN shelf |-> Sum([g \in shelf[c] |-> listed[g]])]) = Cardinality(T)
  <2> DEFINE X == DOMAIN shelf
             count == [c \in X |-> Sum([g \in shelf[c] |-> listed[g]])]
  <2>1. ASSUME NEW c \in X
        PROVE  count[c] = Cardinality({i \in T : CourseOf[rows[i].group] = c})
    <3> DEFINE inner == [g \in shelf[c] |-> listed[g]]
    <3>1. shelf[c] \in SUBSET open /\ DOMAIN inner = shelf[c]
          /\ \A g \in shelf[c] : inner[g] = CurrentCount(g)
      BY <1>4
    <3> HIDE DEF inner
    <3>2. Sum(inner) = Cardinality({i \in T : rows[i].group \in shelf[c]})
      BY <1>3, <3>1
    <3>3. {i \in T : rows[i].group \in shelf[c]} = {i \in T : CourseOf[rows[i].group] = c}
      BY <1>2, <1>4
    <3>4. count[c] = Sum(inner)
      BY DEF inner
    <3> QED BY <3>2, <3>3, <3>4
  <2>2. DOMAIN count = X /\ (\A i \in T : CourseOf[rows[i].group] \in X) /\ CourseOf \in [Group -> Course]
    BY <1>2, <1>4, PagesAssumption
  <2>3. \A c \in X : count[c] = Cardinality({i \in T : CourseOf[rows[i].group] = c})
    BY <2>1
  <2>4. GInv /\ T \in SUBSET Listed
    BY <1>1, <1>2
  <2> HIDE DEF X, count, T
  <2>5. Sum(count) = Cardinality(T)
    <3> DEFINE f == [i \in T |-> CourseOf[rows[i].group]]
    <3>1. f \in [T -> X] /\ \A i \in T : f[i] = CourseOf[rows[i].group]
      BY <2>2
    <3> HIDE DEF f
    <3>2. \A c \in X : {i \in T : CourseOf[rows[i].group] = c} = {i \in T : f[i] = c}
      BY <3>1
    <3>3. \A c \in X : count[c] = Cardinality({i \in T : f[i] = c})
      BY <2>3, <3>2
    <3>4. IsFiniteSet(T)
      BY <2>4, FiniteRows
    <3> QED BY <2>2, <3>1, <3>3, <3>4, CountedByValue
  <2> QED BY <2>5 DEF count, X
<1>6. Sum([l \in Level |-> Sum(FilterGroups({l}))]) = Cardinality(T)
  <2> DEFINE count == [l \in Level |-> Sum(FilterGroups({l}))]
  <2>1. ASSUME NEW l \in Level
        PROVE  count[l] = Cardinality({i \in T : current[rows[i].group] = l})
    <3> DEFINE inner == FilterGroups({l})  G == {h \in open : current[h] = l}
    <3>1. G \in SUBSET open /\ DOMAIN inner = G /\ \A g \in G : inner[g] = CurrentCount(g)
      BY DEF FilterGroups
    <3>2. {i \in T : rows[i].group \in G} = {i \in T : current[rows[i].group] = l}
      BY <1>2
    <3> HIDE DEF inner, G
    <3>3. Sum(inner) = Cardinality({i \in T : rows[i].group \in G})
      BY <1>3, <3>1
    <3>4. count[l] = Sum(inner)
      BY DEF inner
    <3> QED BY <3>2, <3>3, <3>4
  <2>2. DOMAIN count = Level /\ \A i \in T : current[rows[i].group] \in Level
    BY <1>1, <1>2
  <2>3. \A l \in Level : count[l] = Cardinality({i \in T : current[rows[i].group] = l})
    BY <2>1
  <2> HIDE DEF count, T
  <2>4. Sum(count) = Cardinality(T)
    BY <1>1, <1>2, <2>2, <2>3, GroupsAddUp
  <2> QED BY <2>4 DEF count
<1> QED BY <1>5, <1>6 DEF listed, shelf

(* What the performance and the load of one instructor tell.               *)
LEMMA CountsOfInstructor ==
  ASSUME GInv, NEW t \in InstructorUser
  PROVE  LET perf == Performance
             load == InstructorLoad IN
         IF t \in DOMAIN load
         THEN load[t].groups = perf[t].groups /\ load[t].students <= perf[t].students
         ELSE perf[t].students = 0
<1> DEFINE R == Having(RowsIn(TaughtBy(t)), {"active"})
<1>1. /\ GInv /\ open \in SUBSET Group /\ TaughtBy(t) \in SUBSET Group
      /\ DOMAIN InstructorLoad = {TeacherOf[g] : g \in open}
  BY FiniteGroups DEF TaughtBy, InstructorLoad
<1>2. Performance[t].students = Cardinality(R) /\ Performance[t].groups = Cardinality(TaughtBy(t))
  BY DEF Performance
<1>3. R \in SUBSET Listed
  BY <1>1, ActiveRows
<1>4. CASE t \in DOMAIN InstructorLoad
  <2>1. /\ InstructorLoad[t].groups = Cardinality(TaughtBy(t))
        /\ InstructorLoad[t].students = Cardinality(StudentsOf(R))
    BY <1>4 DEF InstructorLoad
  <2> HIDE DEF R
  <2>2. Cardinality(StudentsOf(R)) <= Cardinality(R)
    BY <1>1, <1>3, StudentsCounted
  <2> QED BY <1>2, <1>4, <2>1, <2>2
<1>5. CASE t \notin DOMAIN InstructorLoad
  <2>1. TaughtBy(t) = {}
    BY <1>1, <1>5 DEF TaughtBy
  <2>2. R = {}
    BY <2>1 DEF RowsIn, Having
  <2> HIDE DEF R
  <2> QED BY <1>2, <1>5, <2>2, FS_EmptySet
<1> QED BY <1>4, <1>5

(* The active enrollments of the open groups, by instructor, but for the   *)
(* instructors who have no user.                                           *)
LEMMA InstructorsAddUp ==
  ASSUME GInv
  PROVE  LET perf   == Performance
             userless == {i \in Having(Listed, {"active"}) :
                          rows[i].group \in open /\ TeacherOf[rows[i].group] \notin InstructorUser} IN
         ActiveEnrollments - Cardinality(DeadGroupEnrollments)
           = Sum([t \in DOMAIN perf |-> perf[t].students]) + Cardinality(userless)
<1>1. GInv /\ open \in SUBSET Group
  BY FiniteGroups
<1> DEFINE userless == {i \in Having(Listed, {"active"}) :
                        rows[i].group \in open /\ TeacherOf[rows[i].group] \notin InstructorUser}
           T == {i \in Actives : rows[i].group \in open}
           S == {i \in T : TeacherOf[rows[i].group] \in InstructorUser}
           count == [t \in DOMAIN Performance |-> Performance[t].students]
<1>2. T \in SUBSET Listed /\ S \in SUBSET Listed /\ S \in SUBSET T
  BY <1>1, ActiveRows
<1>3. DOMAIN count = InstructorUser
  BY DEF Performance
<1>4. ASSUME NEW t \in InstructorUser
      PROVE  count[t] = Cardinality({i \in S : TeacherOf[rows[i].group] = t})
  <2>1. TaughtBy(t) \in SUBSET Group
    BY <1>1 DEF TaughtBy
  <2>2. Having(RowsIn(TaughtBy(t)), {"active"}) = {i \in Actives : rows[i].group \in TaughtBy(t)}
    BY <1>1, <2>1, ActiveRows
  <2>3. {i \in Actives : rows[i].group \in TaughtBy(t)} = {i \in S : TeacherOf[rows[i].group] = t}
    BY <1>4 DEF TaughtBy
  <2>4. count[t] = Cardinality(Having(RowsIn(TaughtBy(t)), {"active"}))
    BY DEF Performance
  <2> HIDE DEF count, S
  <2> QED BY <2>2, <2>3, <2>4
<1>5. Sum(count) = Cardinality(S)
  <2>1. TeacherOf \in [Group -> Teacher] /\ \A i \in S : TeacherOf[rows[i].group] \in InstructorUser
    BY PagesAssumption
  <2>2. \A t \in InstructorUser : count[t] = Cardinality({i \in S : TeacherOf[rows[i].group] = t})
    BY <1>4
  <2> HIDE DEF count, S, T
  <2> QED BY <1>1, <1>2, <1>3, <2>1, <2>2, GroupsAddUp
<1>6. ActiveEnrollments - Cardinality(DeadGroupEnrollments) = Cardinality(T)
  <2>1. T \in SUBSET Actives /\ Actives \ T = DeadGroupEnrollments
    BY DEF Actives, DeadGroupEnrollments
  <2>2. IsFiniteSet(Actives)
    BY <1>1, FiniteRows, ActiveRows
  <2> HIDE DEF T, S, userless, count
  <2>3. /\ Cardinality(Actives) \in Nat /\ Cardinality(T) \in Nat /\ Cardinality(Actives \ T) \in Nat
        /\ Cardinality(Actives) = Cardinality(T) + Cardinality(Actives \ T)
    BY <2>1, <2>2, CountedApart
  <2>4. Cardinality(Actives \ T) = Cardinality(DeadGroupEnrollments) /\ ActiveEnrollments = Cardinality(Actives)
    BY <2>1 DEF ActiveEnrollments, Actives
  <2> QED BY <2>3, <2>4
<1>7. Cardinality(T) = Cardinality(S) + Cardinality(userless)
  <2>1. T \ S = userless
    BY DEF Actives
  <2>2. IsFiniteSet(T)
    BY <1>1, <1>2, FiniteRows
  <2> HIDE DEF T, S, userless, count
  <2> QED BY <1>2, <2>1, <2>2, CountedApart
<1> QED BY <1>5, <1>6, <1>7 DEF count, userless

(* The enrollments of one group, and how often the schedule and the        *)
(* utilization count it.                                                   *)
LEMMA CountsInSchedule ==
  ASSUME GInv, NEW g \in Group
  PROVE  LET n == StudentCount(g)
             m == AtLeast1(StudentCount(g)) IN
         /\ n \in Nat /\ m \in Nat /\ Capacity[g] * m \in Nat
         /\ n <= m /\ n <= Capacity[g] * m
<1> DEFINE n == StudentCount(g)  k == Capacity[g]  m == AtLeast1(n)
<1>1. n \in Nat /\ k \in Nat \ {0}
  BY FiniteGroups
<1>2. m \in Nat /\ n <= m
  <2> HIDE DEF n
  <2> QED BY <1>1 DEF AtLeast1
<1>3. k * m \in Nat /\ m <= k * m
  <2> HIDE DEF n, k, m
  <2>1. k >= 1 /\ k * m \in Nat
    BY <1>1, <1>2
  <2>2. (k - 1) * m \in Nat
    <3>1. k - 1 \in Nat
      BY <1>1
    <3> QED BY <1>2, <3>1
  <2>3. k * m = m + (k - 1) * m
    BY <1>1, <1>2
  <2> QED BY <1>2, <2>1, <2>2, <2>3
<1>4. n <= k * m
  <2> HIDE DEF n, k, m
  <2> QED BY <1>1, <1>2, <1>3
<1> QED BY <1>1, <1>2, <1>3, <1>4

(* A slot never looks fuller than it is.                                   *)
LEMMA SlotsHold ==
  ASSUME GInv, NEW u \in DOMAIN Utilization
  PROVE  /\ Utilization[u].enrolled = Cardinality(Having(RowsIn(HeldAt(u)), {"active"}))
         /\ Utilization[u].enrolled <= Utilization[u].capacity
<1> DEFINE G == HeldAt(u)
           a == [g \in G |-> StudentCount(g)]
           b == [g \in G |-> Capacity[g] * AtLeast1(StudentCount(g))]
<1>1. GInv /\ G \in SUBSET Group /\ IsFiniteSet(G)
  BY FiniteGroups DEF HeldAt
<1>2. ASSUME NEW g \in G
      PROVE  a[g] \in Nat /\ b[g] \in Nat /\ a[g] <= b[g]
  <2>1. g \in Group /\ a[g] = StudentCount(g) /\ b[g] = Capacity[g] * AtLeast1(StudentCount(g))
    BY <1>1
  <2> HIDE DEF a, b, G
  <2> QED BY <1>1, <2>1, CountsInSchedule
<1>3. a \in [G -> Nat] /\ b \in [G -> Nat]
  <2>1. a = [g \in G |-> a[g]] /\ b = [g \in G |-> b[g]]
    OBVIOUS
  <2> HIDE DEF a, b, G
  <2> QED BY <1>2, <2>1
<1>4. Sum(a) = Cardinality(Having(RowsIn(G), {"active"}))
  BY <1>1, EnrolledAddUp
<1>5. /\ Utilization[u].enrolled = Cardinality(Having(RowsIn(G), {"active"}))
      /\ Utilization[u].capacity = Sum(b)
  BY DEF Utilization
<1> HIDE DEF G, a, b
<1>6. Sum(a) <= Sum(b)
  BY <1>1, <1>2, <1>3, SumsGrow
<1> QED BY <1>4, <1>5, <1>6 DEF G

(* What a day tells of its slots.                                          *)
LEMMA DaysHold ==
  ASSUME GInv, NEW d \in DOMAIN WeeklySchedule
  PROVE  LET use   == Utilization
             week  == WeeklySchedule
             slots == {u \in DOMAIN use : DayOf[u] = d} IN
         /\ week[d].students <= Sum([u \in slots |-> use[u].enrolled])
         /\ Sum([u \in slots |-> use[u].enrolled]) <= week[d].total
         /\ week[d].total = week[d].afternoon + week[d].evening
<1> DEFINE slots == {u \in DOMAIN Utilization : DayOf[u] = d}
           count == [u \in slots |-> Utilization[u].enrolled]
           G == HeldOn(d)
           E == {g \in G : SlotOf[g] \in Evening}
           A == {g \in G : SlotOf[g] \notin Evening}
           R == Having(RowsIn(G), {"active"})
           n == [g \in G |-> StudentCount(g)]
           c == [g \in G |-> AtLeast1(StudentCount(g))]
           e == [g \in E |-> AtLeast1(StudentCount(g))]
           a == [g \in A |-> AtLeast1(StudentCount(g))]
<1>1. /\ GInv /\ open \in SUBSET Group /\ G \in SUBSET Group
      /\ IsFiniteSet(G) /\ IsFiniteSet(E) /\ IsFiniteSet(A)
      /\ A \cap E = {} /\ A \cup E = G
  <2>1. GInv /\ open \in SUBSET Group /\ G \in SUBSET open
    BY FiniteGroups DEF HeldOn
  <2>2. E \in SUBSET Group /\ A \in SUBSET Group /\ G \in SUBSET Group
        /\ A \cap E = {} /\ A \cup E = G
    BY <2>1
  <2> HIDE DEF G, E, A
  <2> QED BY <2>1, <2>2, FiniteGroups
<1>2. ASSUME NEW g \in G
      PROVE  n[g] \in Nat /\ c[g] \in Nat /\ n[g] <= c[g]
  <2>1. g \in Group /\ n[g] = StudentCount(g) /\ c[g] = AtLeast1(StudentCount(g))
    BY <1>1
  <2> HIDE DEF n, c, G, E, A
  <2> QED BY <1>1, <2>1, CountsInSchedule
<1>3. /\ n \in [G -> Nat] /\ c \in [A \cup E -> Nat] /\ c \in [G -> Nat]
      /\ e \in [E -> Nat] /\ a \in [A -> Nat]
      /\ (\A g \in A : a[g] = c[g]) /\ (\A g \in E : e[g] = c[g])
  <2>1. /\ n = [g \in G |-> n[g]] /\ c = [g \in G |-> c[g]]
        /\ (\A g \in A : a[g] = c[g] /\ g \in G) /\ (\A g \in E : e[g] = c[g] /\ g \in G)
        /\ e = [g \in E |-> e[g]] /\ a = [g \in A |-> a[g]]
    OBVIOUS
  <2> HIDE DEF n, c, e, a, G, E, A
  <2> QED BY <1>1, <1>2, <2>1
<1>4. Sum(n) = Cardinality(R)
  BY <1>1, EnrolledAddUp
<1>5. R \in SUBSET Listed /\ R = {i \in Actives : rows[i].group \in G}
  <2> HIDE DEF G
  <2> QED BY <1>1, ActiveRows
<1>6. Sum(count) = Cardinality(R)
  <2>1. DOMAIN Utilization = {SlotOf[g] : g \in open} /\ DOMAIN count = slots
    BY DEF Utilization
  <2>2. \A i \in R : rows[i].group \in open /\ DayOf[SlotOf[rows[i].group]] = d
    BY <1>5 DEF HeldOn
  <2>3. \A i \in R : SlotOf[rows[i].group] \in slots
    BY <2>1, <2>2
  <2>4. ASSUME NEW u \in slots
        PROVE  count[u] = Cardinality({i \in R : SlotOf[rows[i].group] = u})
    <3>1. HeldAt(u) \in SUBSET Group
      BY <1>1 DEF HeldAt
    <3>2. Having(RowsIn(HeldAt(u)), {"active"}) = {i \in Actives : rows[i].group \in HeldAt(u)}
      BY <1>1, <3>1, ActiveRows
    <3>3. \A g \in open : g \in HeldAt(u) <=> g \in G /\ SlotOf[g] = u
      BY DEF HeldAt, HeldOn
    <3>4. HeldAt(u) \in SUBSET open /\ G \in SUBSET open
      BY DEF HeldAt, HeldOn
    <3> HIDE DEF R, G
    <3>5. {i \in Actives : rows[i].group \in HeldAt(u)} = {i \in R : SlotOf[rows[i].group] = u}
      BY <1>5, <3>3, <3>4
    <3>6. count[u] = Utilization[u].enrolled /\ u \in DOMAIN Utilization
      OBVIOUS
    <3> HIDE DEF count, slots
    <3> QED BY <1>1, <3>2, <3>5, <3>6, SlotsHold
  <2>5. SlotOf \in [Group -> Slot]
    BY PagesAssumption
  <2>6. \A u \in slots : count[u] = Cardinality({i \in R : SlotOf[rows[i].group] = u})
    BY <2>4
  <2> HIDE DEF count, slots, R, G
  <2> QED BY <1>1, <1>5, <2>1, <2>3, <2>5, <2>6, GroupsAddUp
<1>7. /\ WeeklySchedule[d].total = Sum(c) /\ WeeklySchedule[d].evening = Sum(e)
      /\ WeeklySchedule[d].afternoon = Sum(a)
      /\ WeeklySchedule[d].students = Cardinality(StudentsOf(R))
  BY DEF WeeklySchedule, CountedIn
<1> HIDE DEF slots, count, G, E, A, R, n, c, e, a
<1>8. Sum(n) <= Sum(c)
  BY <1>1, <1>2, <1>3, SumsGrow
<1>9. Sum(c) = Sum(a) + Sum(e)
  BY <1>1, <1>3, SumsSplit
<1>10. Cardinality(StudentsOf(R)) <= Cardinality(R)
  BY <1>1, <1>5, StudentsCounted
<1> QED BY <1>4, <1>6, <1>7, <1>8, <1>9, <1>10 DEF count, slots

(* The counts of groups, instructors and slots are of the same             *)
(* enrollments.                                                            *)
LEMMA CountsAreOne == GInv => CountsAgree
<1> SUFFICES ASSUME GInv PROVE CountsAgree
  OBVIOUS
<1>1. ActiveEnrollments = Sum([g \in Group |-> StudentCount(g)])
  <2>1. GInv /\ Group \in SUBSET Group
    OBVIOUS
  <2>2. Having(RowsIn(Group), {"active"}) = Actives
    BY <2>1, FiniteRows DEF Actives
  <2> QED BY <2>1, <2>2, EnrolledAddUp DEF ActiveEnrollments, Actives
<1>2. \A g \in Group :
        LET behind == {i \in Enrolled(g) : rows[i].level # current[g]} IN
        /\ StudentCount(g) - CurrentCount(g) = Cardinality(behind)
        /\ g \in OverCapacity /\ behind = {} => Places(g) = 0
        /\ \A h \in DOMAIN TransferOptions(g) :
             TransferOptions(g)[h] = 0 => StudentCount(h) >= Capacity[h]
  BY CountsOfGroup
<1>3. \A t \in DOMAIN Performance :
        LET perf == Performance
            load == InstructorLoad IN
        IF t \in DOMAIN load
        THEN load[t].groups = perf[t].groups /\ load[t].students <= perf[t].students
        ELSE perf[t].students = 0
  <2>1. DOMAIN Performance = InstructorUser
    BY DEF Performance
  <2> QED BY <2>1, CountsOfInstructor
<1>4. \A d \in DOMAIN WeeklySchedule :
        LET use   == Utilization
            week  == WeeklySchedule
            slots == {u \in DOMAIN use : DayOf[u] = d} IN
        /\ \A u \in slots : use[u].enrolled <= use[u].capacity
        /\ week[d].students <= Sum([u \in slots |-> use[u].enrolled])
        /\ Sum([u \in slots |-> use[u].enrolled]) <= week[d].total
        /\ week[d].total = week[d].afternoon + week[d].evening
  BY SlotsHold, DaysHold
<1> QED BY <1>1, <1>2, <1>3, <1>4, DirectoryAddsUp, InstructorsAddUp DEF CountsAgree

(***************************************************************************)
(* The counts of courses.                                                  *)
(***************************************************************************)

(* The rows of a course are those of its groups.                           *)
LEMMA RowsOfCourse ==
  ASSUME GInv, NEW c
  PROVE  /\ Taught(c) \in SUBSET Group /\ RowsIn(Taught(c)) \in SUBSET Listed
         /\ RowsIn(Taught(c)) = {i \in Listed : CourseOf[rows[i].group] = c}
<1>1. Taught(c) \in SUBSET Group
  BY DEF Taught
<1>2. RowsIn(Taught(c)) = {i \in Listed : rows[i].group \in Taught(c)}
  BY <1>1, FiniteRows
<1> QED BY <1>1, <1>2, FiniteRows DEF Taught

(* The enrollments of the courses are those of every status.               *)
LEMMA CoursesAddUp ==
  ASSUME GInv
  PROVE  Sum([c \in Course |-> Retention(c).total]) = Sum(StatusBreakdown)
<1> DEFINE count == [c \in Course |-> Retention(c).total]
<1>1. Sum(count) = Cardinality(Listed)
  <2>1. \A c \in Course : count[c] = Cardinality({i \in Listed : CourseOf[rows[i].group] = c})
    BY RowsOfCourse DEF Retention
  <2>2. /\ DOMAIN count = Course /\ CourseOf \in [Group -> Course]
        /\ \A i \in Listed : CourseOf[rows[i].group] \in Course
    BY PagesAssumption, FiniteRows
  <2>3. Listed \in SUBSET Listed
    OBVIOUS
  <2> HIDE DEF count
  <2> QED BY <2>1, <2>2, <2>3, GroupsAddUp
<1>2. Sum(StatusBreakdown) = Cardinality(Listed)
  <2> DEFINE f == [i \in Listed |-> rows[i].status]
  <2>1. f \in [Listed -> RowStatus] /\ \A i \in Listed : f[i] = rows[i].status
    BY FiniteRows
  <2>2. /\ DOMAIN StatusBreakdown = RowStatus
        /\ \A st \in RowStatus : StatusBreakdown[st] = Cardinality(Having(Listed, {st}))
    BY DEF StatusBreakdown
  <2> HIDE DEF f
  <2>3. \A st \in RowStatus : Having(Listed, {st}) = {i \in Listed : f[i] = st}
    BY <2>1 DEF Having
  <2>4. \A st \in RowStatus : StatusBreakdown[st] = Cardinality({i \in Listed : f[i] = st})
    BY <2>2, <2>3
  <2> QED BY <2>1, <2>2, <2>4, FiniteRows, CountedByValue
<1> QED BY <1>1, <1>2

(* The levels of a course lead to its enrollments.                         *)
LEMMA FunnelOfCourse ==
  ASSUME GroupsInv, NEW c \in Course
  PROVE  Sum([l \in UNION {Existing(g) : g \in Taught(c)} |-> Funnel(c, l)])
           = Completion(c).started + Cardinality(Having(RowsIn(Taught(c)), {"transferred"}))
<1> DEFINE R == RowsIn(Taught(c))
           X == UNION {Existing(g) : g \in Taught(c)}
           funnel == [l \in X |-> Funnel(c, l)]
           T == {i \in R : rows[i].status # "dropped"}
           N == Having(R, {"active", "completed"})
<1>1. /\ GInv /\ R \in SUBSET Listed /\ Taught(c) \in SUBSET Group
      /\ R = {i \in Listed : CourseOf[rows[i].group] = c}
  BY RowsOfCourse DEF GroupsInv
<1>2. T \in SUBSET Listed
  BY <1>1
<1>3. \A i \in T : rows[i].level \in X
  <2> SUFFICES ASSUME NEW i \in T PROVE rows[i].level \in X
    OBVIOUS
  <2>1. rows[i].group \in Group /\ CourseOf[rows[i].group] = c /\ i \in RowsOf(rows[i].group)
    BY <1>1, FiniteRows
  <2>2. rows[i].level \in Existing(rows[i].group) /\ rows[i].group \in Taught(c)
    BY <2>1, LevelsOf DEF Taught
  <2> QED BY <2>2
<1>4. DOMAIN funnel = X /\ \A l \in X : funnel[l] = Cardinality({i \in T : rows[i].level = l})
  <2>1. \A l \in X :
          {i \in R : rows[i].level = l /\ rows[i].status # "dropped"} = {i \in T : rows[i].level = l}
    OBVIOUS
  <2> QED BY <2>1 DEF Funnel
<1>5. N \in SUBSET T /\ T \ N = Having(R, {"transferred"})
  <2>1. \A i \in R : rows[i].status \in RowStatus
    BY <1>1, FiniteRows
  <2> QED BY <2>1 DEF Having, RowStatus
<1>6. IsFiniteSet(T)
  BY <1>1, <1>2, FiniteRows
<1>7. Completion(c).started = Cardinality(N)
  BY DEF Completion
<1>8. [l \in UNION {Existing(g) : g \in Taught(c)} |-> Funnel(c, l)] = funnel
  OBVIOUS
<1>9. Having(RowsIn(Taught(c)), {"transferred"}) = T \ N
  BY <1>5
<1> HIDE DEF funnel, X, T, N, R
<1>10. Sum(funnel) = Cardinality(T)
  BY <1>1, <1>2, <1>3, <1>4, LevelsAddUp
<1>11. Cardinality(T) = Cardinality(N) + Cardinality(T \ N)
  BY <1>5, <1>6, CountedApart
<1> QED BY <1>7, <1>8, <1>9, <1>10, <1>11

(* The counts of one course agree.                                         *)
LEMMA CountsOfCourse ==
  ASSUME RowsInv, NEW c \in DOMAIN CourseStats
  PROVE  LET stats == CourseStats[c] IN
         /\ stats.students \subseteq stats.ever
         /\ Cardinality(stats.students) <= Completion(c).active
         /\ Cardinality(stats.groups) = 1 => Cardinality(stats.students) = Completion(c).active
<1> DEFINE R == RowsIn(Taught(c))
           A == Having(R, {"active"})
<1>1. /\ GInv /\ UniqueIndex(rows) /\ R \in SUBSET Listed /\ Taught(c) \in SUBSET Group
      /\ R = {i \in Listed : CourseOf[rows[i].group] = c}
  BY RowsOfCourse DEF RowsInv
<1>2. /\ Completion(c).active = Cardinality(A)
      /\ CourseStats[c].groups = Taught(c)
      /\ CourseStats[c].students = StudentsOf(A)
      /\ CourseStats[c].ever = StudentsOf(Having(R, {"active", "completed", "dropped"}))
  BY DEF Completion, CourseStats
<1>3. CourseStats[c].students \subseteq CourseStats[c].ever
  BY <1>2 DEF StudentsOf, Having
<1>4. A \in SUBSET Listed
  BY <1>1 DEF Having
<1>5. Cardinality(StudentsOf(A)) <= Cardinality(A)
  <2> HIDE DEF A
  <2> QED BY <1>1, <1>4, StudentsCounted
<1>6. ASSUME Cardinality(Taught(c)) = 1
      PROVE  Cardinality(StudentsOf(A)) = Cardinality(A)
  <2>1. \E g : Taught(c) = {g}
    BY <1>1, <1>6, FiniteGroups, FS_Singleton
  <2>2. PICK g : Taught(c) = {g}
    BY <2>1
  <2>3. \A i \in A : rows[i].group = g /\ rows[i].status = "active" /\ i \in DOMAIN rows
    <3> SUFFICES ASSUME NEW i \in A
                 PROVE  rows[i].group = g /\ rows[i].status = "active" /\ i \in DOMAIN rows
      OBVIOUS
    <3>1. i \in R /\ rows[i].status = "active"
      BY DEF Having
    <3>2. rows[i].group \in Taught(c) /\ i \in DOMAIN rows
      BY <1>1, <3>1, FiniteRows DEF Taught, Listed
    <3> QED BY <2>2, <3>1, <3>2
  <2> HIDE DEF A, R
  <2>4. \A i, j \in A : rows[i].student = rows[j].student => i = j
    BY <1>1, <2>3 DEF UniqueIndex
  <2> QED BY <1>1, <1>4, <2>4, StudentsCounted
<1> HIDE DEF R, A
<1> QED BY <1>2, <1>3, <1>5, <1>6

(* The last enrollment of a student is told of by its course, unless that  *)
(* is not active, or it was transferred and what it became is gone.        *)
LEMMA NobodyIsLost ==
  ASSUME RowsInv, NEW s \in StudentsOf(Listed)
  PROVE  \/ \E c \in DOMAIN CourseStats : s \in CourseStats[c].ever
         \/ \E i \in Listed : rows[i].student = s /\ CourseOf[rows[i].group] \notin ActiveCourse
         \/ \E i \in Having(Listed, {"transferred"}) :
              rows[i].student = s /\ ~ \E j \in Listed : rows[j].source = i
<1> DEFINE T == {i \in Listed : rows[i].student = s}
<1>1. GInv /\ Sourced
  BY DEF RowsInv
<1>2. T \in SUBSET Nat /\ IsFiniteSet(T) /\ T # {}
  <2>1. IsFiniteSet(T)
    <3>1. T \in SUBSET Listed
      OBVIOUS
    <3> QED BY <1>1, <3>1, FiniteRows
  <2>2. Listed \in SUBSET Nat
    <3>1. DOMAIN rows = 1 .. Len(rows) /\ Len(rows) \in Nat /\ Listed \subseteq DOMAIN rows
      BY <1>1, RowsInTables DEF GInv
    <3> QED BY <3>1
  <2> QED BY <2>1, <2>2 DEF StudentsOf
<1> DEFINE i == Largest(T)
<1>3. i \in T /\ \A j \in T : j <= i
  <2> HIDE DEF T
  <2> QED BY <1>2, LargestExists
<1> HIDE DEF i
<1>4. i \in Listed /\ rows[i].student = s /\ rows[i].status \in RowStatus /\ rows[i].group \in Group
      /\ i \in Nat
  BY <1>1, <1>2, <1>3, FiniteRows
<1>5. CASE rows[i].status = "transferred"
  <2>1. ~ \E j \in Listed : rows[j].source = i
    <3> SUFFICES ASSUME NEW j \in Listed, rows[j].source = i PROVE FALSE
      OBVIOUS
    <3>1. i # 0
      <4>1. DOMAIN rows = 1 .. Len(rows) /\ Len(rows) \in Nat /\ Listed \subseteq DOMAIN rows
        BY <1>1, RowsInTables DEF GInv
      <4> QED BY <1>4, <4>1
    <3>2. i < j /\ rows[i].student = rows[j].student
      BY <1>1, <3>1 DEF Sourced
    <3>3. j \in T /\ j \in Nat
      BY <1>2, <1>4, <3>2
    <3> QED BY <1>3, <1>4, <3>2, <3>3
  <2>2. i \in Having(Listed, {"transferred"})
    BY <1>4, <1>5 DEF Having
  <2> QED BY <1>4, <2>1, <2>2
<1>6. CASE rows[i].status # "transferred"
  <2> DEFINE c == CourseOf[rows[i].group]
  <2>1. c \in Course
    BY <1>4, PagesAssumption
  <2>2. i \in RowsIn(Taught(c))
    BY <1>1, <1>4, RowsOfCourse
  <2>3. i \in Having(RowsIn(Taught(c)), {"active", "completed", "dropped"})
    BY <1>4, <1>6, <2>2 DEF Having, RowStatus
  <2> HIDE DEF c
  <2>4. s \in StudentsOf(Having(RowsIn(Taught(c)), {"active", "completed", "dropped"}))
    BY <1>4, <2>3 DEF StudentsOf
  <2>5. CASE c \in ActiveCourse
    <3>1. c \in DOMAIN CourseStats /\ s \in CourseStats[c].ever
      BY <2>4, <2>5 DEF CourseStats
    <3> QED BY <3>1
  <2>6. CASE c \notin ActiveCourse
    BY <1>4, <2>6 DEF c
  <2> QED BY <2>5, <2>6
<1> QED BY <1>5, <1>6

(* What the courses tell, but for their levels: no matter how many         *)
(* requests there are.                                                     *)
CourseCounts ==
  /\ Sum([c \in Course |-> Retention(c).total]) = Sum(StatusBreakdown)
  /\ \A c \in Course : Retention(c).active = Completion(c).active
  /\ \A c \in DOMAIN CourseStats :
       LET stats == CourseStats[c] IN
       /\ stats.students \subseteq stats.ever
       /\ Cardinality(stats.students) <= Completion(c).active
       /\ Cardinality(stats.groups) = 1 => Cardinality(stats.students) = Completion(c).active
  /\ \A s \in StudentsOf(Listed) :
       \/ \E c \in DOMAIN CourseStats : s \in CourseStats[c].ever
       \/ \E i \in Listed : rows[i].student = s /\ CourseOf[rows[i].group] \notin ActiveCourse
       \/ \E i \in Having(Listed, {"transferred"}) :
            rows[i].student = s /\ ~ \E j \in Listed : rows[j].source = i

(* They all follow from what is true of the rows.                          *)
LEMMA CoursesAreCounted == RowsInv => CourseCounts
<1> SUFFICES ASSUME RowsInv PROVE CourseCounts
  OBVIOUS
<1>1. Sum([c \in Course |-> Retention(c).total]) = Sum(StatusBreakdown)
  BY CoursesAddUp DEF RowsInv
<1>2. \A c \in Course : Retention(c).active = Completion(c).active
  BY DEF Retention, Completion
<1>3. \A c \in DOMAIN CourseStats :
        LET stats == CourseStats[c] IN
        /\ stats.students \subseteq stats.ever
        /\ Cardinality(stats.students) <= Completion(c).active
        /\ Cardinality(stats.groups) = 1 => Cardinality(stats.students) = Completion(c).active
  BY CountsOfCourse
<1> QED BY <1>1, <1>2, <1>3, NobodyIsLost DEF CourseCounts

(* The counts of courses and of their levels are of the same enrollments.  *)
LEMMA CoursesAreOne == GroupsInv => CoursesAgree
<1> SUFFICES ASSUME GroupsInv PROVE CoursesAgree
  OBVIOUS
<1>1. CourseCounts
  BY CoursesAreCounted DEF GroupsInv, RowsInv
<1>2. \A c \in Course :
        Sum([l \in UNION {Existing(g) : g \in Taught(c)} |-> Funnel(c, l)])
          = Completion(c).started + Cardinality(Having(RowsIn(Taught(c)), {"transferred"}))
  BY FunnelOfCourse
<1> QED BY <1>1, <1>2 DEF CourseCounts, CoursesAgree

(* However many requests overlap and whatever levels they skip: nobody is  *)
(* enrolled twice, lists hold every enrollment once, and groups, courses,  *)
(* instructors and slots are counted by the same enrollments.  It takes    *)
(* one request and no skipped level only to find everyone by level.        *)
THEOREM CountsStayOne ==
  Spec => [](CountsAgree /\ ListsAgree /\ CourseCounts /\ DuplicateEnrollments = {})
<1>1. Init => RowsInv
  BY InitGroupsInv DEF GroupsInv, RowsInv
<1>2. RowsInv => CountsAgree /\ ListsAgree /\ CourseCounts /\ DuplicateEnrollments = {}
  BY CountsAreOne, ListsAreWhole, CoursesAreCounted, NobodyIsTwice DEF RowsInv
<1> QED BY <1>1, <1>2, NextRowsInv, PTL DEF Spec

(* Whichever page, count or audit is asked, it tells of the same levels    *)
(* and enrollments but for the differences the property names, and what it *)
(* shows can be asked for.                                                 *)
THEOREM PagesAreOne ==
  ASSUME OneAtATime, NoSkips PROVE Spec => []PagesAgree
<1>1. GroupsInv /\ [Next]_vars => GroupsInv'
  BY NextGroupsInv
<1>2. GroupsInv => PagesAgree
  BY LevelsAreShown, TabsAreWhole, CountsAreOne, CoursesAreOne, RequestsAreAnswered, ListsAreWhole
     DEF PagesAgree, GroupsInv
<1> QED BY <1>1, <1>2, InitGroupsInv, PTL DEF Spec

(***************************************************************************)
(* RecurringTasks.  The types and what a spawner owes hold for any number  *)
(* of server processes, one child a day takes a single one.                *)
(***************************************************************************)

(***************************************************************************)
(* Types.                                                                  *)
(***************************************************************************)
Spawner == [spawning : {TRUE}, due : SUBSET Template, committed : BOOLEAN]

(* The window and whoever spawns in it belong to a day of the calendar:    *)
(* the clock waits for the spawners.                                       *)
WindowHasADate  == phase = "window" => day \in Day
SpawnerHasADate == \A p \in Process : run[p].spawning => day \in Day

TInv == TasksTypeOK /\ WindowHasADate /\ SpawnerHasADate

LEMMA InitTInv == TasksInit => TInv
BY TasksAssumption
DEF TasksInit, TInv, TasksTypeOK, WindowHasADate, SpawnerHasADate, NotSpawning, Day

LEMMA SpawnerType ==
  ASSUME TasksTypeOK, NEW p \in Process, run[p].spawning
  PROVE  run[p] \in Spawner
<1>1. run[p] # NotSpawning
  BY DEF NotSpawning
<1> QED
  BY <1>1 DEF TasksTypeOK, Spawner

LEMMA TypeOfClock == ASSUME TInv, NextDay \/ CloseWindow PROVE TInv'
<1>1. CASE NextDay
  <2>1. day' \in Day
    BY <1>1, TasksAssumption DEF NextDay, TInv, TasksTypeOK, Day
  <2>2. phase' \in {"window", "rest"} /\ unseen' \subseteq up'
    BY <1>1 DEF NextDay, TInv, TasksTypeOK
  <2> QED
    BY <1>1, <2>1, <2>2 DEF NextDay, TInv, TasksTypeOK, WindowHasADate, SpawnerHasADate
<1>2. CASE CloseWindow
  BY <1>2 DEF CloseWindow, TInv, TasksTypeOK, WindowHasADate, SpawnerHasADate, loops, templates
<1> QED
  BY <1>1, <1>2

LEMMA TypeOfSpawner ==
  ASSUME TInv, NEW p \in Process, Look(p) \/ Commit(p) \/ Note(p) \/ Raise(p)
  PROVE  TInv'
<1> USE DEF clock, templates
<1>0. ASSUME faults < MaxFaults, faults' = faults + 1 PROVE faults' \in 0 .. MaxFaults
  BY <1>0, TasksAssumption DEF TInv, TasksTypeOK
<1>1. [run EXCEPT ![p] = NotSpawning] \in [Process -> {NotSpawning} \cup Spawner]
  BY DEF TInv, TasksTypeOK, Spawner
<1>2. CASE Look(p)
  <2>1. day \in Day
    BY <1>2 DEF Look, TInv, WindowHasADate
  <2> QED
    BY <1>2, <2>1 DEF Look, TInv, TasksTypeOK, WindowHasADate, SpawnerHasADate
<1>3. CASE Commit(p)
  <2>1. day \in Day
    BY <1>3 DEF Commit, TInv, SpawnerHasADate
  <2>2. kids' \in [Template -> [Day -> Nat]]
    <3>1. \A t \in Template : [kids[t] EXCEPT ![day] = @ + 1] \in [Day -> Nat]
      BY <2>1 DEF TInv, TasksTypeOK
    <3> QED
      BY <1>3, <3>1 DEF Commit, TInv, TasksTypeOK
  <2>3. [run[p] EXCEPT !.committed = TRUE] \in Spawner
    BY <1>3, SpawnerType DEF Commit, TInv, Spawner
  <2>4. run' = [run EXCEPT ![p] = [run[p] EXCEPT !.committed = TRUE]]
    BY <1>3 DEF Commit
  <2>5. run' \in [Process -> {NotSpawning} \cup Spawner]
    BY <2>3, <2>4 DEF TInv, TasksTypeOK, Spawner
  <2>6. TasksTypeOK'
    BY <1>3, <2>2, <2>5 DEF Commit, TInv, TasksTypeOK, Spawner
  <2> QED
    BY <1>3, <2>1, <2>6 DEF Commit, TInv, WindowHasADate, SpawnerHasADate
<1>4. CASE Note(p)
  <2>1. day \in 0 .. LastDay
    BY TasksAssumption DEF TInv, TasksTypeOK, Day
  <2>2. TasksTypeOK'
    BY <1>1, <1>4, <2>1 DEF Note, TInv, TasksTypeOK, Spawner
  <2> QED
    BY <1>4, <2>2 DEF Note, TInv, TasksTypeOK, WindowHasADate, SpawnerHasADate, NotSpawning
<1>5. CASE Raise(p)
  <2>1. TasksTypeOK'
    BY <1>0, <1>1, <1>5 DEF Raise, TInv, TasksTypeOK, Spawner
  <2> QED
    BY <1>5, <2>1 DEF Raise, TInv, TasksTypeOK, WindowHasADate, SpawnerHasADate, NotSpawning
<1> QED
  BY <1>2, <1>3, <1>4, <1>5

LEMMA TypeOfProcess ==
  ASSUME TInv, NEW p \in Process, Start(p) \/ Crash(p)
  PROVE  TInv'
<1> USE DEF clock, templates
<1>1. CASE Start(p)
  <2>1. [last EXCEPT ![p] = 0] \in [Process -> 0 .. LastDay]
    BY TasksAssumption DEF TInv, TasksTypeOK
  <2>2. up' \subseteq Process /\ unseen' \subseteq up' /\ calm' \subseteq up'
    BY <1>1 DEF Start, TInv, TasksTypeOK
  <2> QED
    BY <1>1, <2>1, <2>2 DEF Start, TInv, TasksTypeOK, WindowHasADate, SpawnerHasADate
<1>2. CASE Crash(p)
  <2>1. up' \subseteq Process /\ unseen' \subseteq up' /\ calm' \subseteq up'
    BY <1>2 DEF Crash, TInv, TasksTypeOK
  <2>2. faults' \in 0 .. MaxFaults
    BY <1>2, TasksAssumption DEF Crash, TInv, TasksTypeOK
  <2>3. TasksTypeOK'
    BY <1>2, <2>1, <2>2 DEF Crash, TInv, TasksTypeOK
  <2> QED
    BY <1>2, <2>3 DEF Crash, TInv, TasksTypeOK, WindowHasADate, SpawnerHasADate, NotSpawning
<1> QED
  BY <1>1, <1>2

LEMMA TypeOfRequest ==
  ASSUME TInv, NEW t \in Template,
         CreateTemplate(t) \/ UpdateTemplate(t) \/ DeleteTemplate(t)
  PROVE  TInv'
<1> USE DEF clock, loops
<1>1. WindowHasADate' /\ SpawnerHasADate'
  BY DEF CreateTemplate, UpdateTemplate, DeleteTemplate, TInv, WindowHasADate, SpawnerHasADate
<1>2. day - 1 \in -1 .. LastDay /\ day \in -1 .. LastDay
  BY TasksAssumption DEF TInv, TasksTypeOK, Day
<1>3. CASE CreateTemplate(t)
  <2>1. pattern' \in [Template -> Kind \cup {"none"}]
    BY <1>3 DEF CreateTemplate, TInv, TasksTypeOK
  <2>2. created' \in [Template -> -1 .. LastDay]
    BY <1>2, <1>3 DEF CreateTemplate, TInv, TasksTypeOK
  <2> QED
    BY <1>1, <1>3, <2>1, <2>2 DEF CreateTemplate, TInv, TasksTypeOK
<1>4. CASE UpdateTemplate(t)
  <2>1. pattern' \in [Template -> Kind \cup {"none"}]
    BY <1>4 DEF UpdateTemplate, TInv, TasksTypeOK
  <2>2. updates' \in 0 .. MaxUpdates
    BY <1>4, TasksAssumption DEF UpdateTemplate, TInv, TasksTypeOK
  <2> QED
    BY <1>1, <1>4, <2>1, <2>2 DEF UpdateTemplate, TInv, TasksTypeOK
<1>5. CASE DeleteTemplate(t)
  BY <1>1, <1>5 DEF DeleteTemplate, TInv, TasksTypeOK
<1> QED
  BY <1>3, <1>4, <1>5

LEMMA NextTInv == ASSUME TInv, [TasksNext]_taskVars PROVE TInv'
<1>1. CASE UNCHANGED taskVars
  BY <1>1 DEF taskVars, TInv, TasksTypeOK, WindowHasADate, SpawnerHasADate
<1>2. CASE TasksNext
  BY <1>2, TypeOfClock, TypeOfSpawner, TypeOfProcess, TypeOfRequest DEF TasksNext
<1> QED
  BY <1>1, <1>2

(***************************************************************************)
(* One child a day, with one loop.                                         *)
(***************************************************************************)
OneLoop == \A p, q \in Process : p = q

(* What a spawner that has not committed is about to insert is not there.  *)
SpawnerIsFresh ==
  \A p \in Process :
    run[p].spawning /\ ~ run[p].committed => \A t \in run[p].due : kids[t][day] = 0

IInv == TInv /\ SpawnerIsFresh /\ SpawnedOnce

LEMMA InitIInv == TasksInit => IInv
BY InitTInv, TasksAssumption
DEF TasksInit, IInv, SpawnerIsFresh, SpawnedOnce, NotSpawning, Day

LEMMA FreshLook ==
  ASSUME IInv, NEW p \in Process, Look(p)
  PROVE  SpawnerIsFresh'
<1>1. day \in Day
  BY DEF Look, IInv, TInv, WindowHasADate
<1>2. \A t \in run'[p].due : kids[t][day] = 0
  <2>1. run'[p].due \subseteq {t \in Template : ~ AlreadySpawned(t)}
    BY DEF Look, IInv, TInv, TasksTypeOK, Due
  <2>2. \A t \in Template : kids[t][day] \in Nat
    BY <1>1 DEF IInv, TInv, TasksTypeOK
  <2> QED
    BY <2>1, <2>2 DEF AlreadySpawned
<1> QED
  BY <1>2 DEF Look, IInv, TInv, TasksTypeOK, SpawnerIsFresh, clock, templates

LEMMA FreshCommit ==
  ASSUME IInv, OneLoop, NEW p \in Process, Commit(p)
  PROVE  SpawnerIsFresh' /\ SpawnedOnce'
<1>1. day \in Day /\ \A t \in run[p].due : kids[t][day] = 0
  BY DEF Commit, IInv, TInv, SpawnerHasADate, SpawnerIsFresh
<1>2. SpawnedOnce'
  <2> SUFFICES ASSUME NEW t \in Template, NEW d \in Day PROVE kids'[t][d] <= 1
    BY DEF SpawnedOnce
  <2>1. kids[t] \in [Day -> Nat] /\ kids[t][d] <= 1
    BY DEF IInv, TInv, TasksTypeOK, SpawnedOnce
  <2>2. CASE t \in run[p].due /\ d = day
    BY <1>1, <2>1, <2>2 DEF Commit
  <2>3. CASE ~(t \in run[p].due /\ d = day)
    BY <1>1, <2>1, <2>3 DEF Commit
  <2> QED
    BY <2>2, <2>3
<1>3. SpawnerIsFresh'
  (* Here the single loop matters: no other spawner has read before.       *)
  BY <1>1 DEF Commit, IInv, TInv, TasksTypeOK, SpawnerIsFresh, OneLoop
<1> QED
  BY <1>2, <1>3

LEMMA NextIInv == ASSUME IInv, OneLoop, [TasksNext]_taskVars PROVE IInv'
<1>1. TInv'
  BY NextTInv DEF IInv
<1> SUFFICES SpawnerIsFresh' /\ SpawnedOnce'
  BY <1>1 DEF IInv
<1>2. ASSUME UNCHANGED <<day, kids>>,
             \A q \in Process : run'[q] = run[q] \/ ~ run'[q].spawning
      PROVE  SpawnerIsFresh' /\ SpawnedOnce'
  BY <1>2 DEF IInv, SpawnerIsFresh, SpawnedOnce
<1>3. CASE NextDay
  BY <1>3 DEF NextDay, IInv, SpawnerIsFresh, SpawnedOnce
<1>4. CASE CloseWindow
  BY <1>2, <1>4 DEF CloseWindow, loops
<1>5. ASSUME NEW p \in Process, Look(p) PROVE SpawnerIsFresh' /\ SpawnedOnce'
  <2>1. SpawnedOnce'
    BY <1>5 DEF Look, IInv, SpawnedOnce
  <2> QED
    BY <1>5, <2>1, FreshLook
<1>6. ASSUME NEW p \in Process, Commit(p) PROVE SpawnerIsFresh' /\ SpawnedOnce'
  BY <1>6, FreshCommit
<1>7. ASSUME NEW p \in Process, Note(p) \/ Raise(p) \/ Start(p) \/ Crash(p)
      PROVE  SpawnerIsFresh' /\ SpawnedOnce'
  <2>1. \A q \in Process : run'[q] = run[q] \/ ~ run'[q].spawning
    BY <1>7 DEF Note, Raise, Start, Crash, IInv, TInv, TasksTypeOK, NotSpawning
  <2>2. UNCHANGED <<day, kids>>
    BY <1>7 DEF Note, Raise, Start, Crash, clock
  <2> QED
    BY <1>2, <2>1, <2>2
<1>8. ASSUME NEW t \in Template,
             CreateTemplate(t) \/ UpdateTemplate(t) \/ DeleteTemplate(t)
      PROVE  SpawnerIsFresh' /\ SpawnedOnce'
  BY <1>2, <1>8 DEF CreateTemplate, UpdateTemplate, DeleteTemplate, clock, loops
<1>9. CASE UNCHANGED taskVars
  BY <1>2, <1>9 DEF taskVars
<1> QED
  BY <1>3, <1>4, <1>5, <1>6, <1>7, <1>8, <1>9 DEF TasksNext

(***************************************************************************)
(* The latest child.  A set of days has a maximum: it is the day nearest   *)
(* to the end among them, and the naturals are well-founded.               *)
(***************************************************************************)
LEMMA MaxIsReached ==
  ASSUME NEW n \in Nat, NEW S, S \subseteq 1 .. n, S # {}
  PROVE  Max(S) \in S /\ \A c \in S : c <= Max(S)
<1> DEFINE Less == {x \in Nat \X Nat : x[1] < x[2]}
           Gaps == {k \in Nat : \E c \in S : k = n - c}
<1>1. IsWellFoundedOn(Less, Nat)
  BY NatLessThanWellFounded DEF OpToRel
<1>2. Gaps \subseteq Nat /\ Gaps # {}
  <2>1. PICK c \in S : TRUE
    OBVIOUS
  <2>2. n - c \in Gaps
    BY <2>1
  <2> QED
    BY <2>2
<1>3. PICK k \in Gaps : \A j \in Gaps : ~ (<<j, k>> \in Less)
  <2> HIDE DEF Less, Gaps
  <2> QED
    BY <1>1, <1>2, WFMin
<1>4. PICK c \in S : k = n - c
  BY <1>3
<1>5. \A e \in S : c >= e
  <2> SUFFICES ASSUME NEW e \in S PROVE c >= e
    OBVIOUS
  <2>1. n - e \in Gaps
    OBVIOUS
  <2>2. ~ (<<n - e, k>> \in Less)
    BY <1>3, <2>1
  <2> QED
    BY <1>4, <2>1, <2>2
<1> QED
  BY <1>5 DEF Max

(***************************************************************************)
(* What a spawner owes, and the interval, for any number of processes.     *)
(***************************************************************************)
NoFutureChild == \A t \in Template : \A d \in Day : d > day => kids[t][d] = 0

(* Every owed template of today has its child. *)
OwedAll == \A t \in Template : Owed(t) => kids[t][day] > 0

(* No child of the template came within the interval before today.         *)
Late(t) == \A d \in 1 .. day - 1 : kids[t][d] > 0 => day - d >= Interval

(* A spawner is about to insert, or has inserted, whatever is owed; what   *)
(* it is about to insert by an interval nobody has touched is late enough. *)
Covers(p) ==
  IF run[p].committed THEN OwedAll
  ELSE /\ \A t \in Template : Owed(t) => t \in run[p].due \/ kids[t][day] > 0
       /\ \A t \in run[p].due :
            pattern[t] = "custom_interval" /\ t \notin touched => Late(t)

SpawnerPays == \A p \in Process : run[p].spawning => Covers(p)

(* A date that is noted is past, or paid for.                              *)
NotedIsPaid ==
  \A p \in Process : last[p] <= day /\ (last[p] = day /\ day \in Day => OwedAll)

(* A loop that has looked and runs without a fault is spawning, or has     *)
(* noted the day.                                                          *)
LookedIsNoted ==
  /\ phase = "rest" => unseen = {}
  /\ \A p \in calm : p \notin unseen /\ day \in Day \ NoMidnight =>
       run[p].spawning \/ last[p] = day

PInv == TInv /\ NoFutureChild /\ SpawnerPays /\ NotedIsPaid /\ LookedIsNoted

LEMMA InitPInv == TasksInit => PInv
BY InitTInv, TasksAssumption
DEF TasksInit, PInv, NoFutureChild, SpawnerPays, NotedIsPaid, LookedIsNoted, NotSpawning, Day

LEMMA PastDays ==
  ASSUME TInv
  PROVE  day \in 0 .. LastDay /\ 1 .. day - 1 \subseteq Day \ {day}
<1>1. day \in 0 .. LastDay
  BY TasksAssumption DEF TInv, TasksTypeOK, Day
<1> QED
  BY <1>1, TasksAssumption DEF Day

(* Only the past of a template decides whether it is due.                  *)
LEMMA OwedByPast ==
  ASSUME TInv, NEW t \in Template, day' = day,
         t \notin touched' => /\ t \notin touched /\ pattern'[t] = pattern[t]
                              /\ created'[t] = created[t]
                              /\ t \notin deleted' => t \notin deleted,
         \A d \in 1 .. day - 1 : kids'[t][d] = kids[t][d]
  PROVE  Owed(t)' => Owed(t)
<1> SUFFICES ASSUME Owed(t)' PROVE Owed(t)
  OBVIOUS
<1>1. Active(t) /\ t \notin touched /\ pattern'[t] = pattern[t] /\ created'[t] = created[t]
  BY DEF Owed, Active, Present
<1>2. ChildDates(t, 1 .. day - 1)' = ChildDates(t, 1 .. day - 1)
  BY DEF ChildDates
<1>3. BaseDate(t, 1 .. day - 1)' = BaseDate(t, 1 .. day - 1)
  BY <1>1, <1>2 DEF BaseDate
<1>4. ShouldSpawn(t, 1 .. day - 1)
  BY <1>1, <1>3 DEF Owed, ShouldSpawn
<1> QED
  BY <1>1, <1>4 DEF Owed

(* What is owed and has no child is due: there are no children ahead.      *)
LEMMA OwedIsDue ==
  ASSUME TInv, NoFutureChild, day \in Day, NEW t \in Template, Owed(t)
  PROVE  Due(t) \/ kids[t][day] > 0
<1> SUFFICES ASSUME kids[t][day] = 0 PROVE Due(t)
  BY DEF TInv, TasksTypeOK
<1>1. ChildDates(t, Day) = ChildDates(t, 1 .. day - 1)
  <2>1. ASSUME NEW c \in Day, kids[t][c] > 0 PROVE c \in 1 .. day - 1
    <3>1. ~ (c > day) /\ c # day
      BY <2>1 DEF NoFutureChild
    <3> QED
      BY <3>1, PastDays, TasksAssumption DEF Day
  <2> QED
    BY <2>1, PastDays DEF ChildDates
<1>2. BaseDate(t, Day) = BaseDate(t, 1 .. day - 1)
  BY <1>1 DEF BaseDate
<1>3. ShouldSpawn(t, Day)
  BY <1>2 DEF Owed, ShouldSpawn
<1> QED
  BY <1>3 DEF Owed, Due, AlreadySpawned

LEMMA DueIsLate ==
  ASSUME TInv, day \in Day, NEW t \in Template, Due(t), pattern[t] = "custom_interval"
  PROVE  Late(t)
<1> SUFFICES ASSUME NEW d \in 1 .. day - 1, kids[t][d] > 0 PROVE day - d >= Interval
  BY DEF Late
<1>1. d \in ChildDates(t, Day) /\ ChildDates(t, Day) \subseteq 1 .. LastDay
  BY TasksAssumption DEF ChildDates, Day
<1>2. Max(ChildDates(t, Day)) \in 1 .. LastDay /\ d <= Max(ChildDates(t, Day))
  BY <1>1, MaxIsReached, TasksAssumption
<1>3. day - Max(ChildDates(t, Day)) >= Interval
  BY <1>1 DEF Due, ShouldSpawn, BaseDate
<1> QED
  BY <1>2, <1>3, TasksAssumption DEF Day

(* Whoever has not been touched since the day began is as it was then.     *)
LEMMA TouchedStays ==
  ASSUME TInv, TasksNext, day' = day, NEW t \in Template, t \notin touched'
  PROVE  /\ t \notin touched /\ pattern'[t] = pattern[t]
         /\ created'[t] = created[t]
         /\ t \notin deleted' => t \notin deleted
<1>1. CASE NextDay
  BY <1>1 DEF NextDay, TInv, TasksTypeOK, Day
<1>2. CASE CloseWindow
  BY <1>2 DEF CloseWindow, templates
<1>3. CASE \E p \in Process :
             Look(p) \/ Commit(p) \/ Note(p) \/ Raise(p) \/ Start(p) \/ Crash(p)
  BY <1>3 DEF Look, Commit, Note, Raise, Start, Crash, templates
<1>4. CASE \E u \in Template : CreateTemplate(u) \/ UpdateTemplate(u) \/ DeleteTemplate(u)
  BY <1>4 DEF CreateTemplate, UpdateTemplate, DeleteTemplate, TInv, TasksTypeOK
<1> QED
  BY <1>1, <1>2, <1>3, <1>4 DEF TasksNext

(* Within a day nothing more becomes owed, and no child goes.              *)
LEMMA OwedKept ==
  ASSUME TInv, TasksNext, day' = day, NEW t \in Template
  PROVE  /\ Owed(t)' => Owed(t)
         /\ \A d \in Day \ {day} : kids'[t][d] = kids[t][d]
         /\ day \in Day => kids'[t][day] >= kids[t][day]
<1>1. /\ \A d \in Day \ {day} : kids'[t][d] = kids[t][d]
      /\ day \in Day => kids'[t][day] >= kids[t][day]
  <2>1. CASE \E p \in Process : Commit(p)
    <3>1. kids[t] \in [Day -> Nat]
      BY DEF TInv, TasksTypeOK
    <3> QED
      BY <2>1, <3>1 DEF Commit
  <2>2. CASE kids' = kids
    BY <2>2 DEF TInv, TasksTypeOK
  <2>3. (\E p \in Process : Commit(p)) \/ kids' = kids
    BY DEF TasksNext, NextDay, CloseWindow, Look, Note, Raise, Start, Crash, CreateTemplate,
           UpdateTemplate, DeleteTemplate
  <2> QED
    BY <2>1, <2>2, <2>3
<1>2. \A d \in 1 .. day - 1 : kids'[t][d] = kids[t][d]
  BY <1>1, PastDays
<1> QED
  BY <1>1, <1>2, TouchedStays, OwedByPast

(* So what was covered stays covered by the spawners that go on.           *)
LEMMA CoveredKept ==
  ASSUME PInv, TasksNext, UNCHANGED day
  PROVE  /\ day \in Day /\ OwedAll => OwedAll'
         /\ \A p \in Process :
              run[p].spawning /\ Covers(p) /\ run'[p] = run[p] => Covers(p)'
<1> USE DEF PInv
<1>1. \A t \in Template : kids[t] \in [Day -> Nat] /\ kids'[t] \in [Day -> Nat]
  BY NextTInv DEF TInv, TasksTypeOK
<1>2. ASSUME day \in Day, OwedAll PROVE OwedAll'
  BY <1>1, <1>2, OwedKept DEF OwedAll
<1>3. ASSUME NEW p \in Process, run[p].spawning, Covers(p), run'[p] = run[p]
      PROVE  Covers(p)'
  <2>1. day \in Day
    BY <1>3 DEF TInv, SpawnerHasADate
  <2>2. CASE run[p].committed
    BY <1>2, <1>3, <2>1, <2>2 DEF Covers
  <2>3. CASE ~ run[p].committed
    <3>1. ASSUME NEW t \in Template, Owed(t)' PROVE t \in run[p].due \/ kids'[t][day] > 0
      BY <1>1, <1>3, <2>1, <2>3, <3>1, OwedKept DEF Covers
    <3>2. ASSUME NEW t \in run[p].due, pattern'[t] = "custom_interval", t \notin touched'
          PROVE  Late(t)'
      <4>1. t \in Template
        BY <1>3, SpawnerType DEF TInv, Spawner
      <4>2. pattern[t] = "custom_interval" /\ t \notin touched
        BY <3>2, <4>1, TouchedStays
      <4>3. Late(t)
        BY <1>3, <2>3, <4>2 DEF Covers
      <4> QED
        BY <4>1, <4>3, OwedKept, PastDays DEF Late
    <3> QED
      BY <1>3, <2>3, <3>1, <3>2 DEF Covers
  <2> QED
    BY <2>2, <2>3
<1> QED
  BY <1>2, <1>3

LEMMA DayPays == ASSUME PInv, NextDay PROVE PInv'
<1> USE DEF NextDay, PInv
<1>1. TInv'
  BY NextTInv DEF TasksNext
<1>2. day \in Nat /\ day' = day + 1
  BY TasksAssumption DEF TInv, TasksTypeOK, Day
<1>3. NoFutureChild'
  BY <1>2 DEF NoFutureChild, Day
<1>4. SpawnerPays'
  BY DEF SpawnerPays
<1>5. NotedIsPaid'
  <2>1. \A p \in Process : last[p] \in Nat
    BY DEF TInv, TasksTypeOK
  <2> QED
    BY <1>2, <2>1 DEF NotedIsPaid
<1>6. LookedIsNoted'
  BY DEF LookedIsNoted, TInv, TasksTypeOK
<1> QED
  BY <1>1, <1>3, <1>4, <1>5, <1>6

LEMMA LookPays ==
  ASSUME PInv, NEW p \in Process, Look(p)
  PROVE  SpawnerPays' /\ NotedIsPaid' /\ LookedIsNoted'
<1> USE DEF PInv
<1>0. TasksNext /\ UNCHANGED day
  BY DEF Look, TasksNext, clock
<1>1. day \in Day
  BY DEF Look, TInv, WindowHasADate
<1>2. /\ run'[p] = [spawning |-> TRUE, due |-> {t \in Template : Due(t)}, committed |-> FALSE]
      /\ \A q \in Process \ {p} : run'[q] = run[q]
  BY DEF Look, TInv, TasksTypeOK
<1>3. Covers(p)'
  <2>1. ASSUME NEW t \in Template, Owed(t)' PROVE t \in run'[p].due \/ kids'[t][day] > 0
    BY <1>0, <1>1, <1>2, <2>1, OwedKept, OwedIsDue DEF Look
  <2>2. ASSUME NEW t \in run'[p].due, pattern'[t] = "custom_interval" PROVE Late(t)'
    BY <1>1, <1>2, <2>2, DueIsLate DEF Look, Late, clock, templates
  <2> QED
    BY <1>0, <1>2, <2>1, <2>2 DEF Covers
<1>4. SpawnerPays'
  BY <1>0, <1>2, <1>3, CoveredKept DEF SpawnerPays
<1>5. NotedIsPaid'
  BY <1>0, CoveredKept DEF Look, NotedIsPaid
<1>6. LookedIsNoted'
  BY <1>0, <1>2 DEF Look, LookedIsNoted, clock
<1> QED
  BY <1>4, <1>5, <1>6

LEMMA CommitPays ==
  ASSUME PInv, NEW p \in Process, Commit(p)
  PROVE  SpawnerPays' /\ NotedIsPaid' /\ LookedIsNoted'
<1> USE DEF PInv
<1>0. TasksNext /\ UNCHANGED day
  BY DEF Commit, TasksNext, clock
<1>1. day \in Day /\ Covers(p)
  BY DEF Commit, TInv, SpawnerHasADate, SpawnerPays
<1>2. /\ run'[p].spawning /\ run'[p].committed
      /\ \A q \in Process \ {p} : run'[q] = run[q]
  BY SpawnerType DEF Commit, TInv, TasksTypeOK, Spawner
<1>3. OwedAll'
  <2> SUFFICES ASSUME NEW t \in Template, Owed(t)' PROVE kids'[t][day] > 0
    BY <1>0 DEF OwedAll
  <2>1. t \in run[p].due \/ kids[t][day] > 0
    BY <1>0, <1>1, OwedKept DEF Covers, Commit
  <2>2. kids[t] \in [Day -> Nat]
    BY DEF TInv, TasksTypeOK
  <2> QED
    BY <1>1, <2>1, <2>2 DEF Commit
<1>4. SpawnerPays'
  BY <1>0, <1>2, <1>3, CoveredKept DEF SpawnerPays, Covers
<1>5. NotedIsPaid'
  BY <1>0, CoveredKept DEF Commit, NotedIsPaid
<1>6. LookedIsNoted'
  BY <1>0, <1>2 DEF Commit, LookedIsNoted, clock
<1> QED
  BY <1>4, <1>5, <1>6

LEMMA NotePays ==
  ASSUME PInv, NEW p \in Process, Note(p)
  PROVE  SpawnerPays' /\ NotedIsPaid' /\ LookedIsNoted'
<1> USE DEF PInv
<1>0. TasksNext /\ UNCHANGED day
  BY DEF Note, TasksNext, clock
<1>1. OwedAll /\ day \in Day
  BY DEF Note, TInv, SpawnerHasADate, SpawnerPays, Covers
<1>2. /\ ~ run'[p].spawning /\ last'[p] = day
      /\ \A q \in Process \ {p} : run'[q] = run[q] /\ last'[q] = last[q]
  BY DEF Note, TInv, TasksTypeOK, NotSpawning
<1>3. SpawnerPays'
  BY <1>0, <1>2, CoveredKept DEF SpawnerPays
<1>4. NotedIsPaid'
  BY <1>0, <1>1, <1>2, PastDays, CoveredKept DEF NotedIsPaid
<1>5. LookedIsNoted'
  BY <1>0, <1>2 DEF Note, LookedIsNoted, clock, TInv, TasksTypeOK
<1> QED
  BY <1>3, <1>4, <1>5

LEMMA FaultPays ==
  ASSUME PInv, NEW p \in Process, Raise(p) \/ Start(p) \/ Crash(p)
  PROVE  SpawnerPays' /\ NotedIsPaid' /\ LookedIsNoted'
<1> USE DEF PInv
<1>0. TasksNext /\ UNCHANGED <<day, phase>>
  BY DEF Raise, Start, Crash, TasksNext, clock
<1>1. /\ \A q \in Process \ {p} : run'[q] = run[q] /\ last'[q] = last[q]
      /\ ~ run'[p].spawning \/ run'[p] = run[p]
      /\ last'[p] \in {0, last[p]}
  BY DEF Raise, Start, Crash, TInv, TasksTypeOK, NotSpawning
<1>2. SpawnerPays'
  BY <1>0, <1>1, CoveredKept DEF SpawnerPays
<1>3. NotedIsPaid'
  <2>1. 0 <= day /\ (day \in Day => day # 0)
    BY PastDays DEF Day
  <2> QED
    BY <1>0, <1>1, <2>1, CoveredKept DEF NotedIsPaid
<1>4. LookedIsNoted'
  <2>1. p \notin calm'
    BY DEF Raise, Start, Crash, TInv, TasksTypeOK
  <2>2. calm' \subseteq calm /\ unseen' \subseteq unseen \cup {p} /\ unseen \subseteq unseen' \cup {p}
    BY DEF Raise, Start, Crash
  <2>3. phase' = "rest" => unseen' = {}
    BY <1>0 DEF Raise, Start, Crash, LookedIsNoted
  <2>4. \A q \in calm' : q \in Process \ {p} /\ (q \in unseen' <=> q \in unseen)
    BY <2>1, <2>2 DEF TInv, TasksTypeOK
  <2> QED
    BY <1>0, <1>1, <2>2, <2>3, <2>4 DEF LookedIsNoted
<1> QED
  BY <1>2, <1>3, <1>4

LEMMA OtherPays ==
  ASSUME PInv, CloseWindow \/ \E t \in Template :
                 CreateTemplate(t) \/ UpdateTemplate(t) \/ DeleteTemplate(t)
  PROVE  SpawnerPays' /\ NotedIsPaid' /\ LookedIsNoted'
<1> USE DEF PInv
<1>0. TasksNext /\ UNCHANGED <<day, loops>>
  BY DEF CloseWindow, CreateTemplate, UpdateTemplate, DeleteTemplate, TasksNext, clock
<1>1. SpawnerPays' /\ NotedIsPaid'
  BY <1>0, CoveredKept DEF SpawnerPays, NotedIsPaid, loops
<1>2. LookedIsNoted'
  BY <1>0 DEF CloseWindow, CreateTemplate, UpdateTemplate, DeleteTemplate, LookedIsNoted,
              clock, loops
<1> QED
  BY <1>1, <1>2

LEMMA NextPInv == ASSUME PInv, [TasksNext]_taskVars PROVE PInv'
<1>1. CASE UNCHANGED taskVars
  <2>1. \A t \in Template : Owed(t)' <=> Owed(t)
    BY <1>1 DEF taskVars, Owed, Active, Present, ShouldSpawn, BaseDate, ChildDates
  <2>2. OwedAll' <=> OwedAll
    BY <1>1, <2>1 DEF taskVars, OwedAll
  <2>3. \A p \in Process : Covers(p)' <=> Covers(p)
    BY <1>1, <2>1, <2>2 DEF taskVars, Covers, Late
  <2>4. TInv'
    BY <1>1, NextTInv DEF PInv
  <2> QED
    BY <1>1, <2>2, <2>3, <2>4
    DEF taskVars, PInv, NoFutureChild, SpawnerPays, NotedIsPaid, LookedIsNoted
<1>2. CASE TasksNext /\ ~ NextDay
  <2>1. UNCHANGED day
    BY <1>2 DEF TasksNext, CloseWindow, Look, Commit, Note, Raise, Start, Crash, CreateTemplate,
                UpdateTemplate, DeleteTemplate, clock
  <2>2. NoFutureChild'
    <3> SUFFICES ASSUME NEW t \in Template, NEW d \in Day, d > day PROVE kids'[t][d] = 0
      BY <2>1 DEF NoFutureChild
    <3>1. d # day /\ kids[t][d] = 0
      BY PastDays DEF PInv, NoFutureChild
    <3> QED
      BY <1>2, <2>1, <3>1, OwedKept DEF PInv
  <2>3. SpawnerPays' /\ NotedIsPaid' /\ LookedIsNoted'
    BY <1>2, LookPays, CommitPays, NotePays, FaultPays, OtherPays DEF TasksNext
  <2> QED
    BY <2>2, <2>3, NextTInv DEF PInv
<1> QED
  BY <1>1, <1>2, DayPays

LEMMA PInvOwed == ASSUME PInv PROVE OwedSpawned
<1> SUFFICES ASSUME day \in Day \ NoMidnight, NEW p \in Process, Served(p) PROVE OwedAll
  BY DEF OwedSpawned, OwedAll
<1>1. last[p] = day
  BY DEF Served, PInv, LookedIsNoted
<1> QED
  BY <1>1 DEF PInv, NotedIsPaid

(***************************************************************************)
(* Theorems                                                                *)
(***************************************************************************)

(* The clock, the templates, their children and what each loop and its     *)
(* spawner hold keep their types, whatever fails.                          *)
THEOREM TaskTypesCorrect == TasksSpec => []TasksTypeOK
<1>1. TasksInit => TInv
  BY InitTInv
<1>2. TInv /\ [TasksNext]_taskVars => TInv'
  BY NextTInv
<1>3. TInv => TasksTypeOK
  BY DEF TInv
<1> QED
  BY <1>1, <1>2, <1>3, PTL DEF TasksSpec

(* FR-004 for one process: whatever the crashes, restarts and retries, no  *)
(* template ever has two children of one date.                             *)
THEOREM OneChildPerDay ==
  ASSUME OneLoop
  PROVE  TasksSpec => []SpawnedOnce
<1>1. TasksInit => IInv
  BY InitIInv
<1>2. IInv /\ [TasksNext]_taskVars => IInv'
  BY NextIInv, OneLoop
<1>3. IInv => SpawnedOnce
  BY DEF IInv
<1> QED
  BY <1>1, <1>2, <1>3, PTL DEF TasksSpec

(* For any number of processes: when one of them has noted a day, or has   *)
(* run through its window without a fault, every template that was due     *)
(* and that nobody touched has its child.                                  *)
THEOREM NoChildIsLost == TasksSpec => []OwedSpawned
<1>1. TasksInit => PInv
  BY InitPInv
<1>2. PInv /\ [TasksNext]_taskVars => PInv'
  BY NextPInv
<1>3. PInv => OwedSpawned
  BY PInvOwed
<1> QED
  BY <1>1, <1>2, <1>3, PTL DEF TasksSpec

(* For any number of processes: a child of a template of the interval      *)
(* pattern comes no sooner than the interval after each one before.        *)
THEOREM IntervalIsKept == TasksSpec => IntervalKept
<1> DEFINE Kept ==
      \A t \in Template :
        kids'[t] # kids[t] /\ pattern[t] = "custom_interval" /\ t \notin touched =>
          \A d \in 1 .. day - 1 : kids[t][d] > 0 => day - d >= Interval
<1>1. TasksInit => PInv
  BY InitPInv
<1>2. PInv /\ [TasksNext]_taskVars => PInv'
  BY NextPInv
<1>3. PInv /\ [TasksNext]_taskVars => [Kept]_taskVars
  <2> SUFFICES ASSUME PInv, TasksNext, NEW t \in Template, kids'[t] # kids[t],
                      pattern[t] = "custom_interval", t \notin touched
               PROVE  \A d \in 1 .. day - 1 : kids[t][d] > 0 => day - d >= Interval
    OBVIOUS
  <2>1. PICK p \in Process : Commit(p)
    BY DEF TasksNext, NextDay, CloseWindow, Look, Note, Raise, Start, Crash, CreateTemplate,
           UpdateTemplate, DeleteTemplate
  <2>2. t \in run[p].due
    BY <2>1 DEF Commit
  <2>3. Late(t)
    BY <2>1, <2>2 DEF Commit, PInv, SpawnerPays, Covers
  <2> QED
    BY <2>3 DEF Late
<1> QED
  BY <1>1, <1>2, <1>3, PTL DEF TasksSpec, IntervalKept
=============================================================================
