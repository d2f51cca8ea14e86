--------------------------- MODULE StudentsProofs ---------------------------
(***************************************************************************)
(* The safety properties of Students for any number of students, parents,  *)
(* payments and overlapping requests, and the agreement of what            *)
(* StudentPages tells of them.                                             *)
(***************************************************************************)
EXTENDS StudentPages, FunctionTheorems, FiniteSetTheorems, TLAPS

(* What a request carries by the time it needs it. *)
Complete(r) ==
  /\ r.step = "register" => r.draft \in StudentRow
  /\ r.step \in {"update", "status", "toggle"} => r.draft \in StudentRow
  /\ r.step \in {"update", "enroll"} => r.seen \in StudentRow
  /\ r.step = "enroll" => ~r.seen.deleted
  /\ r.step = "toggle" => r.draft.status # "waiting"

WholeRequests ==
  \A q \in Request :
    /\ Complete(req[q])
    /\ req[q].step \notin {"idle", "register"} => req[q].id \in 1 .. ids
    /\ req[q].step \in {"delete", "restore"} /\ req[q].id \in There =>
         req[q].read \subseteq PaidBy(req[q].id)

(* A log that is still to come tells of the student it is kept for. *)
ToLog ==
  \A q \in Request :
    req[q].step = "log" =>
      req[q].entries \subseteq done /\ \A e \in req[q].entries : e[2] = req[q].id

(* Serial ids: what has not been given its id has no row. *)
SerialIds == There \subseteq 1 .. ids /\ Paid \subseteq 1 .. pays

(* Unless another request has written the student, a request holds what    *)
(* the tables still say.                                                   *)
FreshRequests ==
  \A q \in Request :
    LET r == req[q] IN
    r.step \notin {"idle", "register", "log"} /\ ~r.stale /\ r.id \in There =>
      /\ student[r.id] = r.seen
      /\ r.step = "delete" => r.read = PaidBy(r.id)
      /\ r.step = "restore" => r.read = VoidOf(PaidBy(r.id))

(* A registration in progress knows of every live student of its name and  *)
(* date of birth, but for those that are not as they were registered.      *)
RegistrationsKnow ==
  \A q \in Request, s \in Live :
    req[q].step = "register" /\ student[s].who = req[q].draft.who
      /\ student[s].who \notin Undated
    => s \in touched \/ s \in req[q].since

(* A student read as active waits only if put on the waiting list since. *)
ReadersKnow ==
  \A q \in Request :
    LET r == req[q] IN
    r.step = "enroll" /\ r.seen.status # "waiting" /\ r.id \in There =>
      (student[r.id].status = "waiting" => r.id \in rewaited)

(* A payment that went with its level has been taken off the enrollment. *)
UndoneAreUnlinked == \A p \in undone : p \in 1 .. pays /\ (p \in Paid => payment[p].for = {})

IInv ==
  /\ TypeOK /\ WholeRequests /\ ToLog /\ SerialIds /\ FreshRequests
  /\ RegistrationsKnow /\ ReadersKnow
  /\ NothingIsLeftBehind /\ DuplicatesAreExplained /\ EnrolledDoNotWait
  /\ PaymentsFollowStudents /\ LogIsTrue

(***************************************************************************)
(* Rows and requests.                                                      *)
(***************************************************************************)
LEMMA Numbers ==
  /\ MaxStudents \in Nat /\ MaxPayments \in Nat /\ MaxOps \in Nat
  /\ \A s \in StudentId : s \in 0 .. MaxStudents
  /\ 0 \in 0 .. MaxStudents
BY ConstantsAssumption DEF StudentId

LEMMA Rows ==
  ASSUME TypeOK
  PROVE  /\ \A s \in StudentId : s \in There <=> student[s] \in StudentRow
         /\ \A p \in PaymentId : p \in Paid <=> payment[p] \in PaymentRow
         /\ There \subseteq StudentId /\ Live \subseteq There /\ Paid \subseteq PaymentId
         /\ NoRow \notin StudentRow /\ NoRow \notin PaymentRow
BY ConstantsAssumption DEF TypeOK, There, Live, Paid

LEMMA NewRecords ==
  ASSUME TypeOK
  PROVE  /\ Idle \in Req
         /\ \A w \in Person, x \in Status, P \in SUBSET Parent :
              [Idle EXCEPT !.step = "register", !.parents = P,
                           !.draft = [who |-> w, status |-> x, deleted |-> FALSE]] \in Req
         /\ \A s \in StudentId, E \in SUBSET Entry :
              [Idle EXCEPT !.step = "log", !.id = s, !.entries = E] \in Req
         /\ \A s \in There, x \in Steps : Reads(x, s) \in Req
         /\ \A s \in There, x \in Steps, row \in StudentRow :
              [Reads(x, s) EXCEPT !.draft = row] \in Req
         /\ \A s \in There, x \in Steps, P \in SUBSET PaymentId :
              [Reads(x, s) EXCEPT !.read = P] \in Req
         /\ \A s \in There, x \in Steps, g \in Group :
              [Reads(x, s) EXCEPT !.groups = {g}] \in Req
<1>1. \A s \in There : s \in 0 .. MaxStudents /\ student[s] \in StudentRow
  BY Numbers, Rows
<1>2. Idle \in Req
  BY Numbers DEF Req, Idle, Steps
<1>3. \A s \in There, x \in Steps : Reads(x, s) \in Req
  BY <1>1, <1>2 DEF Reads, Idle, Req
<1>4. ASSUME NEW r \in Req
      PROVE  /\ \A row \in StudentRow : [r EXCEPT !.draft = row] \in Req
             /\ \A P \in SUBSET PaymentId : [r EXCEPT !.read = P] \in Req
             /\ \A g \in Group : [r EXCEPT !.groups = {g}] \in Req
             /\ \A s \in StudentId, E \in SUBSET Entry :
                  [r EXCEPT !.step = "log", !.id = s, !.entries = E] \in Req
             /\ \A row \in StudentRow, P \in SUBSET Parent :
                  [r EXCEPT !.step = "register", !.parents = P, !.draft = row] \in Req
  BY Numbers DEF Req, Steps
<1>5. \A w \in Person, x \in Status : [who |-> w, status |-> x, deleted |-> FALSE] \in StudentRow
  BY DEF StudentRow
<1> QED BY <1>2, <1>3, <1>4, <1>5

LEMMA Fields ==
  ASSUME TypeOK, NEW q \in Request
  PROVE  /\ req[q] \in Req
         /\ req[q].id \in 0 .. MaxStudents
         /\ req[q].parents \in SUBSET Parent /\ req[q].groups \in SUBSET Group
         /\ req[q].read \in SUBSET PaymentId /\ req[q].entries \in SUBSET Entry
         /\ req[q].since \in SUBSET StudentId /\ req[q].stale \in BOOLEAN
BY DEF TypeOK, Req

LEMMA BehindRecords ==
  ASSUME NEW r \in Req, NEW s
  PROVE  /\ Behind(r, s) \in Req
         /\ Behind(r, s).step = r.step /\ Behind(r, s).id = r.id /\ Behind(r, s).seen = r.seen
         /\ Behind(r, s).draft = r.draft /\ Behind(r, s).read = r.read
         /\ Behind(r, s).entries = r.entries /\ Behind(r, s).since = r.since
         /\ r.stale => Behind(r, s).stale
         /\ r.step # "idle" /\ r.id = s => Behind(r, s).stale
<1>1. CASE r.step # "idle" /\ r.id = s
  <2>1. Behind(r, s) = [r EXCEPT !.stale = TRUE]
    BY <1>1 DEF Behind
  <2> QED BY <2>1 DEF Req
<1>2. CASE ~(r.step # "idle" /\ r.id = s)
  <2>1. Behind(r, s) = r
    BY <1>2 DEF Behind
  <2> QED BY <2>1, <1>2
<1> QED BY <1>1, <1>2

LEMMA MissedRecords ==
  ASSUME NEW r \in Req, NEW s \in StudentId
  PROVE  /\ Missed(r, s) \in Req
         /\ Missed(r, s).step = r.step /\ Missed(r, s).id = r.id /\ Missed(r, s).seen = r.seen
         /\ Missed(r, s).draft = r.draft /\ Missed(r, s).read = r.read
         /\ Missed(r, s).entries = r.entries /\ Missed(r, s).stale = r.stale
         /\ r.since \subseteq Missed(r, s).since
         /\ r.step = "register" => s \in Missed(r, s).since
<1>1. CASE r.step = "register"
  <2>1. Missed(r, s) = [r EXCEPT !.since = @ \cup {s}]
    BY <1>1 DEF Missed
  <2> QED BY <2>1 DEF Req
<1>2. CASE r.step # "register"
  <2>1. Missed(r, s) = r
    BY <1>2 DEF Missed
  <2> QED BY <2>1, <1>2
<1> QED BY <1>1, <1>2

LEMMA Counted == ASSUME TypeOK, Op PROVE ops' \in 0 .. MaxOps
BY Numbers DEF TypeOK, Op

(***************************************************************************)
(* What a step does to the requests.                                       *)
(***************************************************************************)

(* A request goes on with what it carries. *)
Kept(p) ==
  /\ req'[p].step = req[p].step /\ req'[p].id = req[p].id /\ req'[p].seen = req[p].seen
  /\ req'[p].draft = req[p].draft /\ req'[p].read = req[p].read
  /\ req'[p].entries = req[p].entries /\ req[p].since \subseteq req'[p].since
  /\ req[p].stale => req'[p].stale

(* It ends, goes on to log what has been committed, or is kept and learns   *)
(* that one of the students of C was written.                               *)
Follows(p, C) ==
  \/ req'[p].step = "idle"
  \/ /\ req'[p].step = "log" /\ req[p].step \notin {"idle", "register"}
     /\ req'[p].id = req[p].id /\ req'[p].entries \subseteq done'
     /\ \A e \in req'[p].entries : e[2] = req'[p].id
  \/ Kept(p) /\ (req[p].step # "idle" /\ req[p].id \in C => req'[p].stale)

RequestsFollow(C) == /\ req' \in [Request -> Req]
                     /\ \A p \in Request : Follows(p, C)

LEMMA QuietFollows ==
  ASSUME TypeOK, (\E q \in Request : Ends(q)) \/ req' = req \/ Crash
  PROVE  RequestsFollow({})
<1>1. Idle \in Req /\ Idle.step = "idle"
  BY NewRecords DEF Idle
<1>2. CASE \E q \in Request : Ends(q)
  BY <1>1, <1>2 DEF Ends, TypeOK, RequestsFollow, Follows, Kept
<1>3. CASE req' = req
  BY <1>3 DEF TypeOK, RequestsFollow, Follows, Kept
<1>4. CASE Crash
  BY <1>1, <1>4 DEF Crash, RequestsFollow, Follows
<1> QED BY <1>2, <1>3, <1>4

(* Whether the log is in the transaction of the change or comes after. *)
Written(q, E) == Commits(q, E) \/ CommitsLogged(q, E)

LEMMA CommitFollows ==
  ASSUME TypeOK, NEW q \in Request, NEW E \in SUBSET Entry, Written(q, E),
         req[q].step \notin {"idle", "register"}, req[q].id \in StudentId,
         \A e \in E : e[2] = req[q].id
  PROVE  RequestsFollow({req[q].id})
<1> DEFINE s == req[q].id
<1>1. \A p \in Request : req[p] \in Req
  BY Fields
<1>2. Idle \in Req /\ Idle.step = "idle"
  BY NewRecords DEF Idle
<1>3. E \subseteq done'
  BY DEF Written, Commits, CommitsLogged
<1>4. CASE CommitsLogged(q, E)
  <2>1. req' = [p \in Request |-> IF p = q THEN Idle ELSE Behind(req[p], s)]
    BY <1>4 DEF CommitsLogged
  <2> HIDE DEF s
  <2>2. \A p \in Request : Behind(req[p], s) \in Req
    BY <1>1, BehindRecords
  <2>3. \A p \in Request : p # q => Kept(p) /\ (req[p].step # "idle" /\ req[p].id = s => req'[p].stale)
    BY <1>1, <2>1, BehindRecords DEF Kept
  <2>4. Follows(q, {s})
    BY <1>2, <2>1 DEF Follows
  <2>5. req' \in [Request -> Req]
    BY <1>2, <2>1, <2>2
  <2> QED BY <2>3, <2>4, <2>5 DEF RequestsFollow, Follows, s
<1>5. CASE Commits(q, E)
  <2> DEFINE l == IF E = {} THEN Idle ELSE [Idle EXCEPT !.step = "log", !.id = s, !.entries = E]
  <2>1. req' = [p \in Request |-> IF p # q THEN Behind(req[p], s) ELSE l]
    BY <1>5 DEF Commits
  <2>2. l \in Req
    BY NewRecords
  <2>3. l.step = "idle" \/ (l.step = "log" /\ l.id = s /\ l.entries = E)
    BY DEF Idle
  <2> HIDE DEF l, s
  <2>4. \A p \in Request : Behind(req[p], s) \in Req
    BY <1>1, BehindRecords
  <2>5. \A p \in Request : p # q => Kept(p) /\ (req[p].step # "idle" /\ req[p].id = s => req'[p].stale)
    BY <1>1, <2>1, BehindRecords DEF Kept
  <2>6. Follows(q, {s})
    BY <1>3, <2>1, <2>3 DEF Follows, s
  <2>7. req' \in [Request -> Req]
    BY <2>1, <2>2, <2>4
  <2> QED BY <2>5, <2>6, <2>7 DEF RequestsFollow, Follows, s
<1> QED BY <1>4, <1>5 DEF Written

(***************************************************************************)
(* What requests carry stays true.                                         *)
(***************************************************************************)

(* What a step that writes the students of C may do to the tables. *)
Moves(C) ==
  /\ RequestsFollow(C)
  /\ 1 .. ids \subseteq 1 .. ids' /\ done \subseteq done'
  /\ touched \subseteq touched' /\ rewaited \subseteq rewaited'
  /\ \A s \in 1 .. ids : s \in There' =>
       /\ s \in There /\ PaidBy(s) \subseteq PaidBy(s)'
       /\ s \notin C => /\ student'[s] = student[s] /\ PaidBy(s)' = PaidBy(s)
                       /\ VoidOf(PaidBy(s))' = VoidOf(PaidBy(s))
       /\ student'[s].status = "waiting" => student[s].status = "waiting" \/ s \in rewaited'
  /\ \A s \in Live' :
       \/ s \in touched'
       \/ s \in Live /\ student'[s].who = student[s].who
       \/ \A p \in Request : req'[p].step = "register" => s \in req'[p].since

Carried == WholeRequests /\ ToLog /\ FreshRequests /\ RegistrationsKnow /\ ReadersKnow

LEMMA CarriedOn ==
  ASSUME Carried, NEW C, Moves(C)
  PROVE  Carried'
<1>1. \A p \in Request : Follows(p, C)
  BY DEF Moves, RequestsFollow
<1>2. \A p \in Request : req[p].step \notin {"idle", "register"} => req[p].id \in 1 .. ids
  BY DEF Carried, WholeRequests
<1>3. \A s \in 1 .. ids : s \in 1 .. ids'
  BY DEF Moves
<1>4. WholeRequests'
  <2> SUFFICES ASSUME NEW p \in Request
               PROVE  /\ Complete(req'[p])
                      /\ req'[p].step \notin {"idle", "register"} => req'[p].id \in 1 .. ids'
                      /\ \A s : s = req'[p].id =>
                           (req'[p].step \in {"delete", "restore"} /\ s \in There' =>
                              req'[p].read \subseteq PaidBy(s)')
    BY DEF WholeRequests
  <2>1. CASE req'[p].step \in {"idle", "log"}
    BY <2>1, <1>1, <1>2, <1>3 DEF Complete, Follows, Kept
  <2>2. CASE Kept(p)
    <3>1. Complete(req'[p])
      BY <2>2 DEF Kept, Complete, Carried, WholeRequests
    <3>2. req'[p].step \notin {"idle", "register"} => req'[p].id \in 1 .. ids'
      BY <2>2, <1>2, <1>3 DEF Kept
    <3>3. ASSUME NEW s, s = req[p].id, req[p].step \in {"delete", "restore"}, s \in There'
          PROVE  req[p].read \subseteq PaidBy(s)'
      <4>1. s \in There /\ PaidBy(s) \subseteq PaidBy(s)'
        BY <3>3, <1>2 DEF Moves
      <4> QED BY <3>3, <4>1 DEF Carried, WholeRequests
    <3> QED BY <2>2, <3>1, <3>2, <3>3 DEF Kept
  <2> QED BY <1>1, <2>1, <2>2 DEF Follows
<1>5. ToLog'
  BY <1>1 DEF Follows, Kept, Carried, ToLog, Moves
<1>6. FreshRequests'
  <2> SUFFICES ASSUME NEW p \in Request, NEW s, s = req'[p].id,
                      req'[p].step \notin {"idle", "register", "log"}, ~req'[p].stale, s \in There'
               PROVE  /\ student'[s] = req'[p].seen
                      /\ req'[p].step = "delete" => req'[p].read = PaidBy(s)'
                      /\ req'[p].step = "restore" => req'[p].read = VoidOf(PaidBy(s))'
    BY DEF FreshRequests
  <2>1. Kept(p) /\ s = req[p].id /\ s \notin C /\ s \in 1 .. ids
    BY <1>1, <1>2 DEF Follows, Kept
  <2>2. /\ s \in There /\ student'[s] = student[s] /\ PaidBy(s)' = PaidBy(s)
        /\ VoidOf(PaidBy(s))' = VoidOf(PaidBy(s))
    BY <2>1 DEF Moves
  <2> QED BY <2>1, <2>2 DEF Kept, Carried, FreshRequests
<1>7. RegistrationsKnow'
  BY <1>1 DEF Follows, Kept, Carried, RegistrationsKnow, Moves
<1>8. ReadersKnow'
  BY <1>1, <1>2 DEF Follows, Kept, Carried, ReadersKnow, Moves
<1> QED BY <1>4, <1>5, <1>6, <1>7, <1>8 DEF Carried

(***************************************************************************)
(* A request begins.                                                       *)
(***************************************************************************)

(* What a request that begins has just read. *)
Fresh(r) ==
  /\ r \in Req /\ r.step \notin {"idle", "log"} /\ Complete(r) /\ r.entries = {}
  /\ r.step = "register" => ~Known(r.draft.who)
  /\ r.step # "register" => r.id \in There /\ r.seen = student[r.id]
  /\ r.step = "delete"   => r.read = PaidBy(r.id)
  /\ r.step = "restore"  => r.read = VoidOf(PaidBy(r.id))

LEMMA AsksBegin ==
  ASSUME TypeOK, NEW q \in Request, Asks(q)
  PROVE  \E r : Begins(q, r) /\ Fresh(r)
<1> USE NewRecords
<1>1. ASSUME NEW w \in Person, NEW x \in Status, NEW P \in SUBSET Parent, Register(q, w, x, P)
      PROVE  \E r : Begins(q, r) /\ Fresh(r)
  <2> DEFINE d == [who |-> w, status |-> x, deleted |-> FALSE]
             r == [Idle EXCEPT !.step = "register", !.parents = P, !.draft = d]
  <2>1. r \in Req /\ d \in StudentRow
    BY DEF StudentRow
  <2>2. r.step = "register" /\ r.draft = d /\ r.entries = {}
    BY DEF Idle
  <2>3. Begins(q, r) /\ ~Known(d.who)
    BY <1>1 DEF Register
  <2> HIDE DEF d, r
  <2> QED BY <2>1, <2>2, <2>3 DEF Fresh, Complete
<1>2. ASSUME NEW s \in There, NEW x \in Steps
      PROVE  /\ Reads(x, s).step = x /\ Reads(x, s).id = s /\ Reads(x, s).seen = student[s]
             /\ Reads(x, s).entries = {}
  BY DEF Reads, Idle
<1>3. \A s \in There : student[s] \in StudentRow
  BY Rows
<1>4. ASSUME NEW s \in There, NEW row \in StudentRow, NEW x \in {"update", "status", "toggle"},
             Begins(q, [Reads(x, s) EXCEPT !.draft = row]),
             x = "toggle" => row.status # "waiting"
      PROVE  \E r : Begins(q, r) /\ Fresh(r)
  <2> DEFINE r == [Reads(x, s) EXCEPT !.draft = row]
  <2>1. r \in Req
    BY DEF Steps
  <2>2. /\ r.step = x /\ r.id = s /\ r.seen = student[s] /\ r.entries = {} /\ r.draft = row
    BY DEF Reads, Idle
  <2>3. Begins(q, r)
    BY <1>4
  <2> HIDE DEF r
  <2> QED BY <1>3, <1>4, <2>1, <2>2, <2>3 DEF Fresh, Complete
<1>5. ASSUME NEW s \in There, NEW P \in SUBSET PaymentId, NEW x \in {"delete", "restore"},
             Begins(q, [Reads(x, s) EXCEPT !.read = P]),
             P = IF x = "delete" THEN PaidBy(s) ELSE VoidOf(PaidBy(s))
      PROVE  \E r : Begins(q, r) /\ Fresh(r)
  <2> DEFINE r == [Reads(x, s) EXCEPT !.read = P]
  <2>1. r \in Req
    BY DEF Steps
  <2>2. /\ r.step = x /\ r.id = s /\ r.seen = student[s] /\ r.entries = {} /\ r.read = P
    BY DEF Reads, Idle
  <2>3. Begins(q, r)
    BY <1>5
  <2> HIDE DEF r
  <2> QED BY <1>5, <2>1, <2>2, <2>3 DEF Fresh, Complete
<1>6. ASSUME NEW s \in StudentId, NEW row \in StudentRow, Update(q, s, row)
      PROVE  \E r : Begins(q, r) /\ Fresh(r)
  BY <1>4, <1>6 DEF Update, Live
<1>7. ASSUME NEW s \in There, NEW x \in Status
      PROVE  [student[s] EXCEPT !.status = x] \in StudentRow
  BY <1>3 DEF StudentRow
<1>8. ASSUME NEW s \in StudentId, NEW x \in Status, SetStatus(q, s, x)
      PROVE  \E r : Begins(q, r) /\ Fresh(r)
  BY <1>4, <1>7, <1>8 DEF SetStatus, Live
<1>9. ASSUME NEW s \in StudentId, Toggle(q, s)
      PROVE  \E r : Begins(q, r) /\ Fresh(r)
  <2> DEFINE row == [student[s] EXCEPT !.status = Toggled(@)]
  <2>1. s \in There
    BY <1>9 DEF Toggle, Live
  <2>2. Toggled(student[s].status) \in Status \ {"waiting"}
    BY DEF Toggled, Status
  <2>3. row \in StudentRow /\ row.status # "waiting"
    BY <2>1, <2>2, <1>3 DEF StudentRow
  <2>4. Begins(q, [Reads("toggle", s) EXCEPT !.draft = row])
    BY <1>9 DEF Toggle
  <2> HIDE DEF row
  <2> QED BY <2>1, <2>3, <2>4, <1>4
<1>10. ASSUME NEW s \in StudentId, SoftDelete(q, s) \/ Restore(q, s)
       PROVE  \E r : Begins(q, r) /\ Fresh(r)
  <2>1. PaidBy(s) \in SUBSET PaymentId /\ VoidOf(PaidBy(s)) \in SUBSET PaymentId
    BY DEF PaidBy, Paid, VoidOf
  <2>2. s \in There
    BY <1>10 DEF SoftDelete, Restore, Live
  <2> QED BY <1>5, <1>10, <2>1, <2>2 DEF SoftDelete, Restore
<1>11. ASSUME NEW s \in StudentId, HardDelete(q, s)
       PROVE  \E r : Begins(q, r) /\ Fresh(r)
  <2> DEFINE r == Reads("hard", s)
  <2>1. s \in There /\ Begins(q, r)
    BY <1>11 DEF HardDelete
  <2>2. r \in Req /\ r.step = "hard" /\ r.id = s /\ r.seen = student[s] /\ r.entries = {}
    BY <1>2, <2>1, ZenonT(60) DEF Steps
  <2> HIDE DEF r
  <2> QED BY <2>1, <2>2 DEF Fresh, Complete
<1>12. ASSUME NEW s \in StudentId, NEW g \in Group, Enroll(q, s, g)
       PROVE  \E r : Begins(q, r) /\ Fresh(r)
  <2> DEFINE r == [Reads("enroll", s) EXCEPT !.groups = {g}]
  <2>1. s \in There /\ ~student[s].deleted /\ Begins(q, r)
    BY <1>12 DEF Enroll, Live
  <2>2. r \in Req
    BY <2>1 DEF Steps
  <2>3. /\ r.step = "enroll" /\ r.id = s /\ r.seen = student[s] /\ r.entries = {}
    BY DEF Reads, Idle
  <2> HIDE DEF r
  <2> QED BY <1>3, <2>1, <2>2, <2>3 DEF Fresh, Complete
<1> QED BY <1>1, <1>6, <1>8, <1>9, <1>10, <1>11, <1>12 DEF Asks

LEMMA CarriedFromReads ==
  ASSUME TypeOK, Carried, SerialIds, NEW q \in Request, NEW r, Begins(q, r), Fresh(r)
  PROVE  Carried'
<1>1. req'[q] = r /\ \A p \in Request \ {q} : req'[p] = req[p]
  BY DEF Begins, TypeOK
<1>2. UNCHANGED <<rows, ghost>>
  BY DEF Begins
<1>3. /\ There' = There /\ Live' = Live
      /\ \A s : PaidBy(s)' = PaidBy(s) /\ VoidOf(PaidBy(s))' = VoidOf(PaidBy(s))
  BY <1>2 DEF rows, There, Live, PaidBy, Paid, VoidOf
<1>4. WholeRequests'
  <2>1. r.step # "register" => r.id \in 1 .. ids
    BY DEF Fresh, SerialIds
  <2>2. r.step \in {"delete", "restore"} => r.read \subseteq PaidBy(r.id)
    BY DEF Fresh, VoidOf
  <2>3. Complete(r)
    BY DEF Fresh
  <2>4. ids' = ids
    BY <1>2 DEF rows
  <2> QED BY <1>1, <1>3, <2>1, <2>2, <2>3, <2>4 DEF Carried, WholeRequests
<1>5. ToLog'
  BY <1>1, <1>2 DEF Fresh, Carried, ToLog, ghost
<1>6. FreshRequests'
  BY <1>1, <1>2, <1>3 DEF Fresh, Carried, FreshRequests, rows
<1>7. RegistrationsKnow'
  <2>1. r.step = "register" =>
          \A s \in Live : student[s].who = r.draft.who => student[s].who \in Undated
    BY DEF Fresh, Known
  <2> QED BY <1>1, <1>2, <1>3, <2>1 DEF Carried, RegistrationsKnow, rows, ghost
<1>8. ReadersKnow'
  BY <1>1, <1>2, <1>3 DEF Fresh, Carried, ReadersKnow, rows, ghost
<1> QED BY <1>4, <1>5, <1>6, <1>7, <1>8 DEF Carried

(***************************************************************************)
(* A request writes the row of its student.                                *)
(***************************************************************************)

(* The payments of student s agree with its row, or overlapping requests   *)
(* wrote the student.                                                      *)
Agrees(s, row) ==
  \/ s \in torn'
  \/ \A p \in PaymentId :
       payment[p] # NoRow /\ payment[p].by = s =>
         IF row.deleted THEN ~payment'[p].void => p \in late
                        ELSE payment'[p].void => p \in undone

RowStep(q, row, E) ==
  LET s == req[q].id IN
  /\ req[q].step \notin {"idle", "register", "log"} /\ s \in There
  /\ row \in StudentRow /\ student' = [student EXCEPT ![s] = row]
  /\ E \subseteq Entry /\ (\A e \in E : e[2] = s) /\ Written(q, E)
  /\ log' \in {log, log \cup E}
  /\ touched' \in {touched, touched \cup {s}} /\ rewaited' \in {rewaited, rewaited \cup {s}}
  /\ row.who # student[s].who \/ (student[s].deleted /\ ~row.deleted) => s \in touched'
  /\ row.status = "waiting" => student[s].status = "waiting" \/ s \in rewaited'
  /\ enrolled \subseteq enrolled' /\ enrolled' \subseteq enrolled \cup ({s} \X Group)
  /\ enrolled' # enrolled /\ row.status = "waiting" => s \in rewaited'
  /\ payment' \in [PaymentId -> PaymentRow \cup {NoRow}]
  /\ \A p \in PaymentId :
       IF payment[p] # NoRow /\ payment[p].by = s
       THEN payment'[p] # NoRow /\ payment'[p].by = s
       ELSE payment'[p] = payment[p]
  /\ Agrees(s, row)
  /\ UNCHANGED <<ids, parent, link, pays, raced, late, undone, ops>>

LEMMA SameEntries ==
  ASSUME NEW s \in StudentId,
         NEW E \in {{<<"deleted", s>>}, {<<"registered", s>>}} \cup {{<<x, s>>} : x \in Status}
  PROVE  E \subseteq Entry /\ \A e \in E : e[2] = s
BY DEF Entry, Status

(* If neither the payments nor whether the student is deleted change, they *)
(* agree as they did.                                                      *)
LEMMA AgreesAsBefore ==
  ASSUME TypeOK, PaymentsFollowStudents, NEW s \in There, NEW row \in StudentRow,
         payment' = payment, torn \subseteq torn',
         s \in torn' \/ row.deleted = student[s].deleted
  PROVE  Agrees(s, row)
BY Rows DEF Agrees, PaymentsFollowStudents, Live, Paid, StudentRow

LEMMA RowSteps ==
  ASSUME TypeOK, Carried, PaymentsFollowStudents, EnrolledDoNotWait,
         NEW q \in Request, req[q].id \in There,
         \/ UpdateCommit(q) \/ SetStatusCommit(q) \/ ToggleCommit(q)
         \/ SoftDeleteCommit(q) \/ RestoreCommit(q) \/ (EnrollCommit(q) /\ ~Fails(q))
  PROVE  \E row, E : RowStep(q, row, E)
<1> DEFINE r == req[q]
           s == r.id
           old == student[s]
<1>1. s \in There /\ s \in StudentId /\ old \in StudentRow
  BY Rows
<1>2. old.who \in Person /\ old.status \in Status /\ old.deleted \in BOOLEAN
  BY <1>1 DEF StudentRow
<1>3. r \in Req /\ Complete(r)
  BY Fields DEF Carried, WholeRequests
<1>4. \A p \in PaymentId : payment[p] \in PaymentRow \cup {NoRow}
  BY DEF TypeOK
<1>5. student \in [StudentId -> StudentRow \cup {NoRow}]
  BY DEF TypeOK
<1>6. ASSUME NEW E, Commits(q, E) \/ CommitsLogged(q, E)
      PROVE  Written(q, E) /\ torn \subseteq torn' /\ (r.stale => s \in torn')
  BY <1>6 DEF Written, Commits, CommitsLogged
<1>7. ASSUME UpdateCommit(q) PROVE \E row, E : RowStep(q, row, E)
  <2> DEFINE row == [old EXCEPT !.who    = IF r.draft.who # r.seen.who THEN r.draft.who ELSE @,
                                !.status = IF r.draft.status # r.seen.status THEN r.draft.status ELSE @]
  <2>1. /\ r.step = "update" /\ Commits(q, {})
        /\ touched' = IF r.draft.who # r.seen.who THEN touched \cup {s} ELSE touched
        /\ rewaited' = IF r.draft.status = "waiting" THEN rewaited \cup {s} ELSE rewaited
        /\ UNCHANGED <<ids, parent, link, enrolled, payment, pays, log, raced, late, undone, ops>>
    BY <1>1, <1>7 DEF UpdateCommit
  <2>2. student' = [student EXCEPT ![s] = row]
    BY <1>1, <1>5, <1>7 DEF UpdateCommit
  <2>3. r.draft.who \in Person /\ r.draft.status \in Status
    BY <1>3, <2>1 DEF Complete, StudentRow
  <2>4. row \in StudentRow
    BY <1>1, <2>3 DEF StudentRow
  <2>5. /\ row.deleted = old.deleted
        /\ row.who # old.who => r.draft.who # r.seen.who
        /\ row.status # old.status => row.status = r.draft.status
    BY <1>1 DEF StudentRow
  <2> HIDE DEF row
  <2>6. Written(q, {}) /\ Agrees(s, row)
    BY <1>1, <1>6, <2>1, <2>4, <2>5, AgreesAsBefore
  <2> QED BY <1>1, <2>1, <2>2, <2>4, <2>5, <2>6 DEF RowStep, TypeOK
<1>8. ASSUME SetStatusCommit(q) \/ ToggleCommit(q) PROVE \E row, E : RowStep(q, row, E)
  <2> DEFINE row == [old EXCEPT !.status = r.draft.status]
             E == {<<r.draft.status, s>>}
  <2>1. /\ r.step \in {"status", "toggle"} /\ (Commits(q, E) \/ CommitsLogged(q, E))
        /\ UNCHANGED <<ids, parent, link, enrolled, payment, pays, touched, raced, late, undone, ops>>
    BY <1>1, <1>8 DEF SetStatusCommit, ToggleCommit
  <2>2. student' = [student EXCEPT ![s] = row] /\ log' \in {log, log \cup E}
    BY <1>1, <1>5, <1>8 DEF SetStatusCommit, ToggleCommit, CommitsLogged
  <2>3. r.draft.status \in Status /\ (r.step = "toggle" => r.draft.status # "waiting")
    <3>1. r.draft \in StudentRow
      BY <1>3, <2>1 DEF Complete
    <3> QED BY <1>3, <3>1 DEF Complete, StudentRow
  <2>4. /\ rewaited' \in {rewaited, rewaited \cup {s}}
        /\ r.draft.status = "waiting" => s \in rewaited'
    BY <1>1, <1>8, <2>3 DEF SetStatusCommit, ToggleCommit
  <2>5. row \in StudentRow
    BY <1>1, <2>3 DEF StudentRow
  <2>6. row.deleted = old.deleted /\ row.who = old.who /\ row.status = r.draft.status
    BY <1>1 DEF StudentRow
  <2>7. E \subseteq Entry /\ \A e \in E : e[2] = s
    <3>1. E \in {{<<x, s>>} : x \in Status}
      BY <2>3
    <3> HIDE DEF E
    <3> QED BY <1>1, <3>1, SameEntries
  <2> HIDE DEF row, E
  <2>8. Written(q, E) /\ Agrees(s, row)
    BY <1>1, <1>6, <2>1, <2>5, <2>6, AgreesAsBefore
  <2> QED BY <1>1, <2>1, <2>2, <2>4, <2>5, <2>6, <2>7, <2>8 DEF RowStep, TypeOK
<1>9. ASSUME NEW void \in BOOLEAN,
             r.read \subseteq PaidBy(s), payment' = Voided(r.read, void)
      PROVE  /\ payment' \in [PaymentId -> PaymentRow \cup {NoRow}]
             /\ \A p \in PaymentId :
                  IF payment[p] # NoRow /\ payment[p].by = s
                  THEN payment'[p] # NoRow /\ payment'[p].by = s
                  ELSE payment'[p] = payment[p]
             /\ \A p \in r.read : payment'[p].void = void
             /\ \A p \in PaymentId \ r.read : payment'[p] = payment[p]
  <2>1. \A p \in r.read : payment[p] \in PaymentRow /\ payment[p].by = s /\ payment[p] # NoRow
    BY <1>4, <1>9 DEF PaidBy, Paid
  <2>2. \A row \in PaymentRow :
          /\ [row EXCEPT !.void = void] \in PaymentRow
          /\ [row EXCEPT !.void = void].by = row.by /\ [row EXCEPT !.void = void].void = void
    BY DEF PaymentRow
  <2>3. \A p \in PaymentId :
          payment'[p] = IF p \in r.read THEN [payment[p] EXCEPT !.void = void] ELSE payment[p]
    BY <1>9 DEF Voided
  <2>4. NoRow \notin PaymentRow
    BY Rows
  <2>5. r.read \subseteq PaymentId
    BY <1>9 DEF PaidBy, Paid
  <2>6. payment' = [p \in PaymentId |-> payment'[p]]
    BY <1>9 DEF Voided
  <2>7. ASSUME NEW p \in r.read
        PROVE  payment'[p] \in PaymentRow /\ payment'[p].by = s /\ payment'[p].void = void
    <3>1. payment[p] \in PaymentRow /\ payment[p].by = s /\ p \in PaymentId
      BY <2>1, <2>5
    <3>2. payment'[p] = [payment[p] EXCEPT !.void = void]
      BY <3>1, <2>3
    <3> QED BY <2>2, <3>1, <3>2
  <2>8. \A p \in PaymentId : payment'[p] \in PaymentRow \cup {NoRow}
    BY <1>4, <2>3, <2>7
  <2> QED BY <2>1, <2>3, <2>4, <2>5, <2>6, <2>7, <2>8
<1>10. ~r.stale /\ r.step \in {"delete", "restore", "enroll"} => old = r.seen
  BY <1>1 DEF Carried, FreshRequests
<1>11. ASSUME SoftDeleteCommit(q) PROVE \E row, E : RowStep(q, row, E)
  <2> DEFINE row == [old EXCEPT !.deleted = TRUE]
             E == {<<"deleted", s>>}
  <2>1. /\ r.step = "delete" /\ Commits(q, E) /\ payment' = Voided(r.read, TRUE)
        /\ UNCHANGED <<ids, parent, link, enrolled, pays, log, touched, raced, rewaited, late, undone, ops>>
    BY <1>1, <1>11 DEF SoftDeleteCommit
  <2>2. student' = [student EXCEPT ![s] = row]
    BY <1>1, <1>5, <1>11 DEF SoftDeleteCommit
  <2>3. r.read \subseteq PaidBy(s)
    BY <1>1, <2>1 DEF Carried, WholeRequests
  <2>4. row \in StudentRow /\ row.deleted /\ row.who = old.who /\ row.status = old.status
    BY <1>1 DEF StudentRow
  <2>5. E \subseteq Entry /\ \A e \in E : e[2] = s
    BY <1>1, SameEntries
  <2>6. Written(q, E) /\ (r.stale => s \in torn')
    BY <1>6, <2>1
  <2> HIDE DEF row, E
  <2>7. Agrees(s, row)
    <3>1. r.stale \/ r.read = PaidBy(s)
      BY <1>1, <2>1 DEF Carried, FreshRequests
    <3>2. CASE r.read = PaidBy(s)
      BY <1>9, <2>1, <2>3, <2>4, <3>2 DEF Agrees, PaidBy, Paid
    <3> QED BY <2>6, <3>1, <3>2 DEF Agrees
  <2> QED BY <1>1, <1>9, <2>1, <2>2, <2>3, <2>4, <2>5, <2>6, <2>7 DEF RowStep
<1>12. ASSUME RestoreCommit(q) PROVE \E row, E : RowStep(q, row, E)
  <2> DEFINE row == [old EXCEPT !.deleted = FALSE]
             E == {<<"registered", s>>}
  <2>1. /\ r.step = "restore" /\ Commits(q, E) /\ payment' = Voided(r.read, FALSE)
        /\ touched' = touched \cup {s}
        /\ UNCHANGED <<ids, parent, link, enrolled, pays, log, raced, rewaited, late, undone, ops>>
    BY <1>1, <1>12 DEF RestoreCommit
  <2>2. student' = [student EXCEPT ![s] = row]
    BY <1>1, <1>5, <1>12 DEF RestoreCommit
  <2>3. r.read \subseteq PaidBy(s)
    BY <1>1, <2>1 DEF Carried, WholeRequests
  <2>4. row \in StudentRow /\ ~row.deleted /\ row.who = old.who /\ row.status = old.status
    BY <1>1 DEF StudentRow
  <2>5. E \subseteq Entry /\ \A e \in E : e[2] = s
    BY <1>1, SameEntries
  <2>6. Written(q, E) /\ (r.stale => s \in torn')
    BY <1>6, <2>1
  <2> HIDE DEF row, E
  <2>7. Agrees(s, row)
    <3>1. r.stale \/ r.read = VoidOf(PaidBy(s))
      BY <1>1, <2>1 DEF Carried, FreshRequests
    <3>2. CASE r.read = VoidOf(PaidBy(s))
      <4>1. \A p \in PaymentId : payment[p] # NoRow /\ payment[p].by = s => ~payment'[p].void
        BY <1>9, <2>1, <2>3, <3>2 DEF PaidBy, Paid, VoidOf
      <4> QED BY <2>4, <4>1 DEF Agrees
    <3> QED BY <2>6, <3>1, <3>2 DEF Agrees
  <2> QED BY <1>1, <1>9, <2>1, <2>2, <2>3, <2>4, <2>5, <2>6, <2>7 DEF RowStep
<1>13. ASSUME EnrollCommit(q), ~Fails(q) PROVE \E row, E : RowStep(q, row, E)
  <2> DEFINE row == Merged(r)
             E == {<<"enrolled", s>>} \cup IF r.seen.status = "waiting" THEN {<<"active", s>>} ELSE {}
  <2>1. /\ r.step = "enroll" /\ Commits(q, E) /\ student' = [student EXCEPT ![s] = row]
        /\ enrolled' = enrolled \cup ({s} \X r.groups)
        /\ touched' = IF row.who # old.who \/ row.deleted # old.deleted THEN touched \cup {s} ELSE touched
        /\ UNCHANGED <<ids, parent, link, payment, pays, log, raced, rewaited, late, undone, ops>>
    BY <1>1, <1>13 DEF EnrollCommit
  <2>2. r.seen \in StudentRow /\ r.groups \subseteq Group
    BY <1>3, <2>1, Fields DEF Complete
  <2>3. [r.seen EXCEPT !.status = "active"] \in StudentRow
    BY <2>2 DEF StudentRow, Status
  <2>4. row \in StudentRow
    BY <1>1, <2>3 DEF Merged
  <2>5. row.status = "waiting" => old.status = "waiting" /\ s \in rewaited
    <3>1. CASE r.seen.status = "waiting"
      BY <2>2, <3>1 DEF Merged, StudentRow
    <3>2. CASE r.seen.status # "waiting"
      BY <1>1, <2>1, <3>2 DEF Merged, Carried, ReadersKnow
    <3> QED BY <3>1, <3>2
  <2>6. E \subseteq Entry /\ \A e \in E : e[2] = s
    <3> DEFINE F == {<<"enrolled", s>>, <<"active", s>>}
    <3>1. F \subseteq Entry /\ \A e \in F : e[2] = s
      BY <1>1 DEF Entry
    <3>2. E \subseteq F
      OBVIOUS
    <3> HIDE DEF E, F
    <3> QED BY <3>1, <3>2
  <2>7. r.stale \/ row.deleted = old.deleted
    BY <1>1, <1>10, <2>1, <2>2 DEF Merged, StudentRow
  <2> HIDE DEF row, E
  <2>8. Written(q, E) /\ Agrees(s, row)
    BY <1>1, <1>6, <2>1, <2>4, <2>7, AgreesAsBefore
  <2> QED BY <1>1, <2>1, <2>2, <2>4, <2>5, <2>6, <2>8 DEF RowStep, TypeOK
<1> QED BY <1>7, <1>8, <1>11, <1>12, <1>13

(***************************************************************************)
(* Every step keeps the invariant: first the steps that write the row of   *)
(* one student, then those that leave students and payments alone.         *)
(***************************************************************************)
Safe == /\ NothingIsLeftBehind /\ DuplicatesAreExplained /\ EnrolledDoNotWait
        /\ PaymentsFollowStudents /\ LogIsTrue

LEMMA RowKept ==
  ASSUME TypeOK, SerialIds, Carried, Safe,
         NEW q \in Request, NEW row, NEW E, RowStep(q, row, E)
  PROVE  TypeOK' /\ SerialIds' /\ Carried' /\ Safe'
<1> DEFINE s == req[q].id
<1>1. /\ s \in There /\ s \in StudentId /\ row \in StudentRow
      /\ student' = [student EXCEPT ![s] = row]
      /\ E \subseteq Entry /\ (\A e \in E : e[2] = s) /\ Written(q, E)
      /\ log' \in {log, log \cup E}
      /\ touched' \in {touched, touched \cup {s}} /\ rewaited' \in {rewaited, rewaited \cup {s}}
      /\ row.who # student[s].who \/ (student[s].deleted /\ ~row.deleted) => s \in touched'
      /\ row.status = "waiting" => student[s].status = "waiting" \/ s \in rewaited'
      /\ enrolled \subseteq enrolled' /\ enrolled' \subseteq enrolled \cup ({s} \X Group)
      /\ enrolled' # enrolled /\ row.status = "waiting" => s \in rewaited'
      /\ UNCHANGED <<ids, parent, link, pays, raced, late, undone, ops>>
  BY Rows DEF RowStep
<1>2. /\ payment' \in [PaymentId -> PaymentRow \cup {NoRow}]
      /\ \A p \in PaymentId :
           IF payment[p] # NoRow /\ payment[p].by = s
           THEN payment'[p] # NoRow /\ payment'[p].by = s
           ELSE payment'[p] = payment[p]
      /\ Agrees(s, row)
  BY DEF RowStep
<1>3. RequestsFollow({s})
  <2>1. req[q].step \notin {"idle", "register"}
    BY DEF RowStep
  <2> QED BY <1>1, <2>1, CommitFollows
<1>4. /\ done' = done \cup E /\ torn \subseteq torn' /\ torn' \subseteq torn \cup {s}
  BY <1>1 DEF Written, Commits, CommitsLogged
<1> HIDE DEF s
<1>5. NoRow \notin StudentRow
  BY Rows
<1>6. student'[s] = row /\ \A t \in StudentId \ {s} : student'[t] = student[t]
  BY <1>1 DEF TypeOK
<1>7. There' = There
  BY <1>1, <1>5, <1>6 DEF There
<1>8. /\ Paid' = Paid /\ \A p \in Paid : payment'[p].by = payment[p].by
      /\ \A p \in Paid : payment[p].by # s => payment'[p] = payment[p]
  BY <1>2 DEF Paid
<1>9. \A t : PaidBy(t)' = PaidBy(t)
  BY <1>8 DEF PaidBy
<1>10. \A t : t # s => VoidOf(PaidBy(t))' = VoidOf(PaidBy(t))
  <2> SUFFICES ASSUME NEW t, t # s PROVE VoidOf(PaidBy(t))' = VoidOf(PaidBy(t))
    OBVIOUS
  <2>1. \A p \in PaidBy(t) : payment'[p] = payment[p]
    BY <1>8 DEF PaidBy
  <2> QED BY <1>9, <2>1 DEF VoidOf
<1>11. TypeOK'
  <2>1. student' \in [StudentId -> StudentRow \cup {NoRow}]
    BY <1>1 DEF TypeOK
  <2>2. log' \subseteq Entry /\ done' \subseteq Entry
    BY <1>1, <1>4 DEF TypeOK
  <2>3. enrolled' \subseteq StudentId \X Group
    BY <1>1 DEF TypeOK
  <2>4. touched' \subseteq StudentId /\ rewaited' \subseteq StudentId /\ torn' \subseteq StudentId
    BY <1>1, <1>4 DEF TypeOK
  <2>5. req' \in [Request -> Req]
    BY <1>3 DEF RequestsFollow
  <2> QED BY <1>1, <1>2, <2>1, <2>2, <2>3, <2>4, <2>5 DEF TypeOK
<1>12. SerialIds'
  BY <1>1, <1>7, <1>8 DEF SerialIds
<1>13. Live' \subseteq StudentId
       /\ \A t \in Live' : t \in touched' \/ (t \in Live /\ student'[t].who = student[t].who)
  BY <1>1, <1>6, <1>7 DEF Live, There
<1>14. Carried'
  <2>1. \A t \in There : student'[t].status = "waiting" => student[t].status = "waiting" \/ t \in rewaited'
    BY <1>1, <1>6 DEF There
  <2>2. \A t \in There \ {s} : student'[t] = student[t]
    BY <1>6 DEF There
  <2>3. /\ ids' = ids /\ done \subseteq done' /\ touched \subseteq touched' /\ rewaited \subseteq rewaited'
    BY <1>1, <1>4
  <2>4. Moves({s})
    BY <1>3, <1>7, <1>9, <1>10, <1>13, <2>1, <2>2, <2>3 DEF Moves
  <2> QED BY <2>4, CarriedOn
<1>15. NothingIsLeftBehind'
  BY <1>1, <1>7, <1>8 DEF Safe, NothingIsLeftBehind
<1>16. DuplicatesAreExplained'
  <2>1. touched \subseteq touched' /\ raced' = raced
    BY <1>1
  <2> QED BY <1>13, <2>1 DEF Safe, DuplicatesAreExplained
<1>17. EnrolledDoNotWait'
  <2> SUFFICES ASSUME NEW x \in enrolled', student'[x[1]].status = "waiting"
               PROVE  x[1] \in rewaited'
    BY DEF EnrolledDoNotWait
  <2>1. x[1] \in StudentId
    BY <1>11 DEF TypeOK
  <2>2. CASE x[1] = s
    <3>1. row.status = "waiting"
      BY <1>6, <2>2
    <3>2. CASE x \in enrolled
      BY <1>1, <2>2, <3>1, <3>2 DEF Safe, EnrolledDoNotWait
    <3>3. CASE x \notin enrolled
      BY <1>1, <2>2, <3>1, <3>3
    <3> QED BY <3>2, <3>3
  <2>3. CASE x[1] # s
    BY <1>1, <1>6, <2>1, <2>3 DEF Safe, EnrolledDoNotWait
  <2> QED BY <2>2, <2>3
<1>18. PaymentsFollowStudents'
  <2> SUFFICES ASSUME NEW p \in Paid', NEW t, t = payment'[p].by, t \notin torn'
               PROVE  IF t \in Live' THEN payment'[p].void => p \in undone'
                                     ELSE ~payment'[p].void => p \in late'
    BY DEF PaymentsFollowStudents
  <2>1. p \in Paid /\ p \in PaymentId /\ payment[p] # NoRow /\ payment[p].by = t /\ t \in There
    BY <1>8 DEF Paid, Safe, NothingIsLeftBehind
  <2>2. CASE t = s
    <3>1. t \in Live' <=> ~row.deleted
      BY <1>6, <1>7, <2>1, <2>2 DEF Live
    <3> QED BY <1>1, <1>2, <2>1, <2>2, <3>1 DEF Agrees
  <2>3. CASE t # s
    <3>1. t \in Live' <=> t \in Live
      BY <1>6, <1>7, <2>1, <2>3 DEF Live, There
    <3> QED BY <1>1, <1>4, <1>8, <2>1, <2>3, <3>1 DEF Safe, PaymentsFollowStudents
  <2> QED BY <2>2, <2>3
<1>19. LogIsTrue'
  BY <1>1, <1>4 DEF Safe, LogIsTrue
<1> QED BY <1>11, <1>12, <1>14, <1>15, <1>16, <1>17, <1>18, <1>19 DEF Safe

LEMMA StillKept ==
  ASSUME TypeOK, SerialIds, Carried, Safe, RequestsFollow({}),
         UNCHANGED <<student, ids, payment, pays, ghost>>,
         ops' \in 0 .. MaxOps, enrolled' \subseteq enrolled, parent' \subseteq Parent,
         link' \subseteq link, \A l \in link' : l[2] \in parent',
         log' \subseteq done, log' \subseteq Entry, \A e \in log' : e[2] \in There
  PROVE  TypeOK' /\ SerialIds' /\ Carried' /\ Safe'
<1>1. /\ There' = There /\ Live' = Live /\ Paid' = Paid
      /\ \A s : PaidBy(s)' = PaidBy(s) /\ VoidOf(PaidBy(s))' = VoidOf(PaidBy(s))
  BY DEF There, Live, PaidBy, Paid, VoidOf
<1>2. TypeOK'
  BY DEF RequestsFollow, TypeOK, ghost
<1>3. SerialIds'
  BY <1>1 DEF SerialIds
<1>4. Moves({})
  BY <1>1 DEF Moves, ghost, Live
<1>5. Carried'
  BY <1>4, CarriedOn
<1>6. Safe'
  <2>1. NothingIsLeftBehind'
    BY <1>1 DEF Safe, NothingIsLeftBehind
  <2>2. DuplicatesAreExplained' /\ EnrolledDoNotWait' /\ PaymentsFollowStudents' /\ LogIsTrue'
    BY <1>1 DEF Safe, DuplicatesAreExplained, EnrolledDoNotWait, PaymentsFollowStudents,
                LogIsTrue, ghost
  <2> QED BY <2>1, <2>2 DEF Safe
<1> QED BY <1>2, <1>3, <1>5, <1>6

(***************************************************************************)
(* Students that appear and go, and payments.                              *)
(***************************************************************************)
LEMMA Inserted ==
  ASSUME TypeOK
  PROVE  /\ ids \in 0 .. MaxStudents /\ pays \in 0 .. MaxPayments
         /\ ids + 1 \notin 1 .. ids /\ pays + 1 \notin 1 .. pays
         /\ 1 .. ids \subseteq 1 .. (ids + 1) /\ 1 .. pays \subseteq 1 .. (pays + 1)
         /\ ids + 1 \in 1 .. (ids + 1) /\ pays + 1 \in 1 .. (pays + 1)
         /\ ids < MaxStudents => ids + 1 \in StudentId /\ ids + 1 \in 0 .. MaxStudents
         /\ pays + 1 \in PaymentId => pays + 1 \in 0 .. MaxPayments
BY Numbers DEF TypeOK, StudentId, PaymentId

LEMMA RegisterKept ==
  ASSUME TypeOK, SerialIds, Carried, Safe,
         NEW q \in Request, RegisterCommit(q), req[q].parents \subseteq parent
  PROVE  TypeOK' /\ SerialIds' /\ Carried' /\ Safe'
<1> DEFINE r == req[q]
           s == ids + 1
<1>1. /\ r.step = "register" /\ ids < MaxStudents
      /\ student' = [student EXCEPT ![s] = r.draft] /\ ids' = s
      /\ link' = link \cup ({s} \X r.parents)
      /\ log' = log \cup {<<"registered", s>>} /\ done' = done \cup {<<"registered", s>>}
      /\ raced' = raced \cup ({s} \X r.since)
      /\ req' = [p \in Request |-> IF p = q THEN Idle ELSE Missed(req[p], s)]
      /\ UNCHANGED <<parent, enrolled, payment, pays, touched, rewaited, torn, late, undone, ops>>
  BY DEF RegisterCommit
<1>2. /\ s \in StudentId /\ s \in 0 .. MaxStudents /\ s \notin There
      /\ 1 .. ids \subseteq 1 .. ids' /\ s \in 1 .. ids' /\ s \notin 1 .. ids
  BY <1>1, Inserted DEF SerialIds
<1>3. r \in Req /\ r.draft \in StudentRow /\ r.parents \subseteq Parent /\ r.since \subseteq StudentId
  BY <1>1, Fields DEF Carried, WholeRequests, Complete
<1>4. /\ <<"registered", s>> \in Entry
  BY <1>2 DEF Entry
<1>5. \A p \in Request : req[p] \in Req
  BY Fields
<1>6. Idle \in Req /\ Idle.step = "idle"
  BY NewRecords DEF Idle
<1> HIDE DEF r, s
<1>7. RequestsFollow({}) /\ \A p \in Request : req'[p].step = "register" => s \in req'[p].since
  <2>1. \A p \in Request : Missed(req[p], s) \in Req
    BY <1>2, <1>5, MissedRecords
  <2>2. req' \in [Request -> Req]
    BY <1>1, <1>6, <2>1
  <2>3. \A p \in Request : p # q => Kept(p) /\ (req[p].step = "register" => s \in req'[p].since)
    BY <1>1, <1>2, <1>5, MissedRecords DEF Kept
  <2>4. req'[q].step = "idle"
    BY <1>1, <1>6
  <2> QED BY <2>2, <2>3, <2>4 DEF RequestsFollow, Follows, Kept
<1>8. /\ student'[s] = r.draft /\ \A t \in StudentId \ {s} : student'[t] = student[t]
  BY <1>1, <1>2 DEF TypeOK
<1>9. /\ There' = There \cup {s} /\ NoRow \notin StudentRow
      /\ \A t \in There : t # s /\ t \in StudentId /\ student'[t] = student[t]
  BY <1>2, <1>3, <1>8, Rows DEF There
<1>10. /\ Paid' = Paid
       /\ \A t : PaidBy(t)' = PaidBy(t) /\ VoidOf(PaidBy(t))' = VoidOf(PaidBy(t))
  BY <1>1 DEF Paid, PaidBy, VoidOf
<1>11. Live' \subseteq Live \cup {s} /\ Live \subseteq Live' /\ Live \subseteq There
  BY <1>9 DEF Live
<1>12. TypeOK'
  <2>1. student' \in [StudentId -> StudentRow \cup {NoRow}]
    BY <1>1, <1>3 DEF TypeOK
  <2>2. /\ link' \subseteq StudentId \X Parent /\ raced' \subseteq StudentId \X StudentId
        /\ log' \subseteq Entry /\ done' \subseteq Entry
    BY <1>1, <1>2, <1>3, <1>4 DEF TypeOK
  <2> QED BY <1>1, <1>2, <1>7, <2>1, <2>2 DEF TypeOK, RequestsFollow
<1>13. SerialIds'
  BY <1>1, <1>2, <1>9, <1>10 DEF SerialIds
<1>14. Carried'
  <2>1. Moves({})
    <3>1. \A t \in 1 .. ids : t \in There' => t \in There
      BY <1>2, <1>9
    <3>2. /\ done \subseteq done' /\ touched \subseteq touched' /\ rewaited \subseteq rewaited'
      BY <1>1
    <3>3. \A t \in Live' : \/ t \in Live /\ student'[t].who = student[t].who
                           \/ \A p \in Request : req'[p].step = "register" => t \in req'[p].since
      BY <1>7, <1>9, <1>11
    <3> QED BY <1>2, <1>7, <1>9, <1>10, <3>1, <3>2, <3>3 DEF Moves
  <2> QED BY <2>1, CarriedOn
<1>15. NothingIsLeftBehind'
  BY <1>1, <1>9, <1>10 DEF Safe, NothingIsLeftBehind, r
<1>16. DuplicatesAreExplained'
  <2>1. \A t \in Live : student[t].who = r.draft.who /\ student[t].who \notin Undated
          => t \in touched \/ t \in r.since
    BY <1>1 DEF Carried, RegistrationsKnow, r
  <2>2. \A t \in Live : student'[t].who = r.draft.who /\ student'[t].who \notin Undated
          => t \in touched' \/ <<s, t>> \in raced'
    BY <1>1, <1>9, <1>11, <2>1
  <2>3. ASSUME NEW t \in Live, NEW u \in Live, t # u, student'[t].who = student'[u].who,
               student'[t].who \notin Undated
        PROVE  {t, u} \cap touched' # {} \/ <<t, u>> \in raced' \/ <<u, t>> \in raced'
    BY <1>1, <1>9, <1>11, <2>3 DEF Safe, DuplicatesAreExplained
  <2> QED BY <1>8, <1>11, <2>2, <2>3 DEF DuplicatesAreExplained
<1>17. EnrolledDoNotWait' /\ PaymentsFollowStudents'
  <2>1. EnrolledDoNotWait'
    BY <1>1, <1>9 DEF Safe, NothingIsLeftBehind, EnrolledDoNotWait
  <2>2. \A t \in There : t \in Live' <=> t \in Live
    BY <1>9 DEF Live
  <2>3. PaymentsFollowStudents'
    BY <1>1, <1>10, <2>2 DEF Safe, NothingIsLeftBehind, PaymentsFollowStudents
  <2> QED BY <2>1, <2>3
<1>18. LogIsTrue'
  BY <1>1 DEF Safe, LogIsTrue
<1> QED BY <1>12, <1>13, <1>14, <1>15, <1>16, <1>17, <1>18 DEF Safe

LEMMA HardKept ==
  ASSUME TypeOK, SerialIds, Carried, Safe,
         NEW q \in Request, HardDeleteCommit(q), req[q].id \in There
  PROVE  TypeOK' /\ SerialIds' /\ Carried' /\ Safe'
<1> DEFINE s == req[q].id
<1>1. /\ req[q].step = "hard" /\ student' = [student EXCEPT ![s] = NoRow]
      /\ link' = Others(link, s) /\ enrolled' = Others(enrolled, s)
      /\ payment' = [p \in PaymentId |-> IF p \in PaidBy(s) THEN NoRow ELSE payment[p]]
      /\ log' = {e \in log : e[2] # s}
      /\ Commits(q, {})
      /\ UNCHANGED <<ids, parent, pays, ops, touched, raced, rewaited, late, undone>>
  BY DEF HardDeleteCommit
<1>2. s \in StudentId
  BY Rows
<1>3. RequestsFollow({s})
  <2>1. Written(q, {})
    BY <1>1 DEF Written
  <2> QED BY <1>1, <1>2, <2>1, CommitFollows
<1>4. done' = done /\ torn \subseteq torn' /\ torn' \subseteq torn \cup {s}
  BY <1>1 DEF Commits
<1> HIDE DEF s
<1>5. student'[s] = NoRow /\ \A t \in StudentId \ {s} : student'[t] = student[t]
  BY <1>1, <1>2 DEF TypeOK
<1>6. /\ There' = There \ {s} /\ Live' = Live \ {s}
  BY <1>2, <1>5 DEF There, Live
<1>7. /\ Paid' = Paid \ PaidBy(s) /\ \A p \in Paid' : payment'[p] = payment[p] /\ payment[p].by # s
  BY <1>1 DEF Paid, PaidBy
<1>8. \A t : t # s => PaidBy(t)' = PaidBy(t) /\ VoidOf(PaidBy(t))' = VoidOf(PaidBy(t))
  <2> SUFFICES ASSUME NEW t, t # s
               PROVE  PaidBy(t)' = PaidBy(t) /\ VoidOf(PaidBy(t))' = VoidOf(PaidBy(t))
    OBVIOUS
  <2>1. PaidBy(t)' = PaidBy(t) /\ PaidBy(t)' \subseteq Paid'
    BY <1>7 DEF PaidBy
  <2> QED BY <1>7, <2>1 DEF VoidOf
<1>9. TypeOK'
  <2>1. student' \in [StudentId -> StudentRow \cup {NoRow}]
    BY <1>1 DEF TypeOK
  <2>2. payment' \in [PaymentId -> PaymentRow \cup {NoRow}]
    BY <1>1 DEF TypeOK
  <2>3. /\ link' \subseteq StudentId \X Parent /\ enrolled' \subseteq StudentId \X Group
        /\ log' \subseteq Entry
    BY <1>1 DEF TypeOK, Others
  <2>4. torn' \subseteq StudentId
    BY <1>2, <1>4 DEF TypeOK
  <2> QED BY <1>1, <1>3, <1>4, <2>1, <2>2, <2>3, <2>4 DEF TypeOK, RequestsFollow
<1>10. SerialIds'
  BY <1>1, <1>6, <1>7 DEF SerialIds
<1>11. Carried'
  <2>1. \A t \in There' : t \in There /\ t # s /\ student'[t] = student[t]
    BY <1>5, <1>6 DEF There
  <2>2. \A t \in Live' : t \in Live /\ student'[t] = student[t]
    BY <1>6, <2>1 DEF Live
  <2>3. /\ ids' = ids /\ touched' = touched /\ rewaited' = rewaited
    BY <1>1
  <2>4. Moves({s})
    BY <1>3, <1>4, <1>8, <2>1, <2>2, <2>3 DEF Moves
  <2> QED BY <2>4, CarriedOn
<1>12. NothingIsLeftBehind'
  BY <1>1, <1>6, <1>7 DEF Safe, NothingIsLeftBehind, Others
<1>13. DuplicatesAreExplained'
  <2>1. \A t \in Live' : t \in Live /\ student'[t] = student[t]
    BY <1>5, <1>6 DEF Live, There
  <2> QED BY <1>1, <2>1 DEF Safe, DuplicatesAreExplained
<1>14. EnrolledDoNotWait'
  <2>1. \A x \in enrolled' : x \in enrolled /\ student'[x[1]] = student[x[1]]
    BY <1>1, <1>5 DEF Others, TypeOK
  <2> QED BY <1>1, <2>1 DEF Safe, EnrolledDoNotWait
<1>15. PaymentsFollowStudents'
  BY <1>1, <1>4, <1>6, <1>7 DEF Safe, PaymentsFollowStudents
<1>16. LogIsTrue'
  BY <1>1, <1>4 DEF Safe, LogIsTrue
<1> QED BY <1>9, <1>10, <1>11, <1>12, <1>13, <1>14, <1>15, <1>16 DEF Safe

(* All that a step learns that is about the students of C alone. *)
LEMMA BehindFollows ==
  ASSUME TypeOK, NEW C,
         req' = [p \in Request |-> IF req[p].id \in C THEN Behind(req[p], req[p].id) ELSE req[p]]
  PROVE  RequestsFollow(C)
<1>1. \A p \in Request : req[p] \in Req
  BY Fields
<1>2. \A p \in Request : Behind(req[p], req[p].id) \in Req
  BY <1>1, BehindRecords
<1>3. \A p \in Request : Kept(p) /\ (req[p].step # "idle" /\ req[p].id \in C => req'[p].stale)
  BY <1>1, BehindRecords DEF Kept
<1> QED BY <1>1, <1>2, <1>3 DEF RequestsFollow, Follows

(* The students stay as they are, and the payments of those in C change. *)
LEMMA PaymentsKept ==
  ASSUME TypeOK, SerialIds, Carried, Safe, NEW C, RequestsFollow(C),
         UNCHANGED <<student, ids, parent, link, log, done, touched, raced, rewaited, torn>>,
         ops' \in 0 .. MaxOps, enrolled' \subseteq enrolled,
         payment' \in [PaymentId -> PaymentRow \cup {NoRow}], pays' \in 0 .. MaxPayments,
         late \subseteq late', undone \subseteq undone',
         late' \subseteq PaymentId, undone' \subseteq PaymentId,
         Paid \subseteq Paid', Paid' \subseteq 1 .. pays',
         \A p \in Paid : payment'[p].by = payment[p].by,
         \A p \in Paid : payment[p].by \notin C => payment'[p] = payment[p],
         \A p \in Paid' \ Paid : payment'[p].by \in C,
         \A p \in Paid' : payment'[p].by \in C =>
           /\ payment'[p].by \in There
           /\ payment'[p].by \in torn \/ IF payment'[p].by \in Live
                                         THEN payment'[p].void => p \in undone'
                                         ELSE ~payment'[p].void => p \in late'
  PROVE  TypeOK' /\ SerialIds' /\ Carried' /\ Safe'
<1>1. There' = There /\ Live' = Live
  BY DEF There, Live
<1>2. \A s : PaidBy(s) \subseteq PaidBy(s)'
  BY DEF PaidBy
<1>3. \A s : s \notin C => PaidBy(s)' = PaidBy(s) /\ VoidOf(PaidBy(s))' = VoidOf(PaidBy(s))
  <2> SUFFICES ASSUME NEW s, s \notin C
               PROVE  PaidBy(s)' = PaidBy(s) /\ VoidOf(PaidBy(s))' = VoidOf(PaidBy(s))
    OBVIOUS
  <2>1. PaidBy(s)' = PaidBy(s)
    BY DEF PaidBy
  <2>2. \A p \in PaidBy(s) : payment'[p] = payment[p]
    BY DEF PaidBy
  <2> QED BY <2>1, <2>2 DEF VoidOf
<1>4. TypeOK'
  BY DEF TypeOK, RequestsFollow
<1>5. SerialIds'
  BY <1>1 DEF SerialIds
<1>6. Moves(C)
  BY <1>1, <1>2, <1>3 DEF Moves
<1>7. Carried'
  BY <1>6, CarriedOn
<1>8. NothingIsLeftBehind'
  BY <1>1 DEF Safe, NothingIsLeftBehind
<1>9. DuplicatesAreExplained' /\ EnrolledDoNotWait' /\ LogIsTrue'
  BY <1>1 DEF Safe, DuplicatesAreExplained, EnrolledDoNotWait, LogIsTrue
<1>10. PaymentsFollowStudents'
  <2> SUFFICES ASSUME NEW p \in Paid', NEW t, t = payment'[p].by, t \notin torn
               PROVE  IF t \in Live THEN payment'[p].void => p \in undone'
                                    ELSE ~payment'[p].void => p \in late'
    BY <1>1 DEF PaymentsFollowStudents
  <2>1. CASE t \in C
    BY <2>1
  <2>2. CASE t \notin C
    <3>1. p \in Paid /\ payment'[p] = payment[p]
      BY <2>2
    <3> QED BY <3>1 DEF Safe, PaymentsFollowStudents
  <2> QED BY <2>1, <2>2
<1> QED BY <1>4, <1>5, <1>7, <1>8, <1>9, <1>10 DEF Safe

LEMMA DeleteLevelKept ==
  ASSUME TypeOK, SerialIds, Carried, Safe,
         NEW g \in Group, NEW S \in SUBSET StudentId, DeleteLevel(g, S)
  PROVE  TypeOK' /\ SerialIds' /\ Carried' /\ Safe'
<1> DEFINE P == {p \in Paid : payment[p].by \in S /\ payment[p].for = {g}}
           new(p) == [payment[p] EXCEPT !.void = TRUE, !.for = {}]
<1>1. /\ Op /\ undone' = undone \cup {p \in P : ~payment[p].void}
      /\ payment' = [p \in PaymentId |-> IF p \in P THEN new(p) ELSE payment[p]]
      /\ enrolled' \subseteq enrolled
      /\ req' = [q \in Request |-> IF req[q].id \in S THEN Behind(req[q], req[q].id) ELSE req[q]]
      /\ UNCHANGED <<student, ids, parent, link, pays, log, done, touched, raced, rewaited, torn, late>>
  BY DEF DeleteLevel
<1>2. ops' \in 0 .. MaxOps /\ RequestsFollow(S)
  BY <1>1, Counted, BehindFollows
<1>3. ASSUME NEW p \in P
      PROVE  new(p) \in PaymentRow /\ new(p).by = payment[p].by /\ new(p).void
  <2>1. payment[p] \in PaymentRow
    BY Rows
  <2> QED BY <2>1 DEF PaymentRow
<1>4. NoRow \notin PaymentRow /\ P \subseteq Paid /\ Paid \subseteq PaymentId
      /\ \A p \in P : payment[p].by \in S
  BY Rows
<1> HIDE DEF P, new
<1>5. /\ \A p \in P : payment'[p] \in PaymentRow /\ payment'[p].by = payment[p].by /\ payment'[p].void
      /\ \A p \in PaymentId \ P : payment'[p] = payment[p]
  BY <1>1, <1>3, <1>4
<1>6. Paid' = Paid
  BY <1>4, <1>5 DEF Paid
<1>7. \A p \in Paid : payment'[p].by = payment[p].by
  BY <1>4, <1>5
<1>8. \A p \in Paid : payment[p].by \notin S => payment'[p] = payment[p]
  BY <1>4, <1>5
<1>9. ASSUME NEW p \in Paid', NEW t, t = payment'[p].by
      PROVE  /\ t \in There
             /\ t \in torn \/ IF t \in Live THEN payment'[p].void => p \in undone'
                                            ELSE ~payment'[p].void => p \in late'
  <2>1. p \in Paid /\ payment[p].by = t /\ t \in There
    BY <1>6, <1>7, <1>9 DEF Safe, NothingIsLeftBehind
  <2>2. t \in torn \/ IF t \in Live THEN payment[p].void => p \in undone
                                    ELSE ~payment[p].void => p \in late
    BY <2>1 DEF Safe, PaymentsFollowStudents
  <2> QED BY <1>1, <1>4, <1>5, <2>1, <2>2
<1>10. payment' \in [PaymentId -> PaymentRow \cup {NoRow}]
  BY <1>1, <1>3 DEF TypeOK
<1>11. undone' \subseteq PaymentId /\ undone \subseteq undone' /\ late' \subseteq PaymentId
  BY <1>1, <1>4 DEF TypeOK
<1>12. pays' \in 0 .. MaxPayments /\ Paid' \subseteq 1 .. pays'
  BY <1>1, <1>6 DEF TypeOK, SerialIds
<1> QED BY <1>1, <1>2, <1>6, <1>7, <1>8, <1>9, <1>10, <1>11, <1>12, PaymentsKept

LEMMA PayKept ==
  ASSUME TypeOK, SerialIds, Carried, Safe,
         NEW s \in StudentId, NEW F \in SUBSET Group, Pay(s, F)
  PROVE  TypeOK' /\ SerialIds' /\ Carried' /\ Safe'
<1> DEFINE p == pays + 1
           row == [by |-> s, for |-> F, void |-> FALSE]
<1>1. /\ Op /\ s \in There /\ p \in PaymentId
      /\ payment' = [payment EXCEPT ![p] = row] /\ pays' = p
      /\ late' = IF s \in Live THEN late ELSE late \cup {p}
      /\ req' = [q \in Request |-> Behind(req[q], s)]
      /\ UNCHANGED <<student, ids, parent, link, enrolled, log, done, touched, raced, rewaited, torn, undone>>
  BY DEF Pay
<1>2. row \in PaymentRow /\ row.by = s /\ ~row.void
  BY DEF PaymentRow
<1>3. /\ p \notin Paid /\ p \in 1 .. pays' /\ 1 .. pays \subseteq 1 .. pays' /\ pays' \in 0 .. MaxPayments
  BY <1>1, Inserted DEF SerialIds
<1>4. NoRow \notin PaymentRow
  BY Rows
<1> HIDE DEF p, row
<1>5. payment'[p] = row /\ \A x \in PaymentId \ {p} : payment'[x] = payment[x]
  BY <1>1 DEF TypeOK
<1>6. Paid' = Paid \cup {p} /\ \A x \in Paid : payment'[x] = payment[x]
  BY <1>1, <1>2, <1>3, <1>4, <1>5 DEF Paid
<1>7. RequestsFollow({s})
  <2>1. \A q \in Request : req[q].id # s => Behind(req[q], s) = req[q]
    BY DEF Behind
  <2>2. req' = [q \in Request |-> IF req[q].id \in {s} THEN Behind(req[q], req[q].id) ELSE req[q]]
    BY <1>1, <2>1
  <2> QED BY <2>2, BehindFollows
<1>8. payment' \in [PaymentId -> PaymentRow \cup {NoRow}]
  BY <1>1, <1>2 DEF TypeOK
<1>9. ASSUME NEW x \in Paid', NEW t, t = payment'[x].by
      PROVE  /\ t \in There
             /\ t \in torn \/ IF t \in Live THEN payment'[x].void => x \in undone'
                                            ELSE ~payment'[x].void => x \in late'
  <2>1. CASE x = p
    BY <1>1, <1>2, <1>5, <1>9, <2>1
  <2>2. CASE x # p
    <3>1. x \in Paid /\ payment'[x] = payment[x]
      BY <1>6, <2>2
    <3>2. t \in There
      BY <1>9, <3>1 DEF Safe, NothingIsLeftBehind
    <3>3. t \in torn \/ IF t \in Live THEN payment[x].void => x \in undone
                                      ELSE ~payment[x].void => x \in late
      BY <1>9, <3>1 DEF Safe, PaymentsFollowStudents
    <3> QED BY <1>1, <3>1, <3>2, <3>3
  <2> QED BY <2>1, <2>2
<1>10. /\ late \subseteq late' /\ late' \subseteq PaymentId /\ undone' \subseteq PaymentId
  BY <1>1 DEF TypeOK
<1>11. Paid' \subseteq 1 .. pays'
  BY <1>3, <1>6 DEF SerialIds
<1>12. ops' \in 0 .. MaxOps
  BY <1>1, Counted
<1>13. \A x \in Paid' \ Paid : payment'[x].by \in {s}
  BY <1>2, <1>5, <1>6
<1> QED BY <1>1, <1>3, <1>6, <1>7, <1>8, <1>9, <1>10, <1>11, <1>12, <1>13, PaymentsKept

(***************************************************************************)
(* The invariant is inductive.                                             *)
(***************************************************************************)
THEOREM Initially == Init => IInv
<1> SUFFICES ASSUME Init PROVE IInv
  OBVIOUS
<1>1. Idle \in Req /\ Idle.step = "idle"
  <2>1. Idle.step = "idle"
    BY DEF Idle
  <2> QED BY <2>1, Numbers DEF Req, Idle, Steps
<1>2. There = {} /\ Live = {} /\ Paid = {}
  BY DEF Init, There, Live, Paid
<1>3. \A q \in Request : req[q] = Idle
  BY DEF Init
<1>4. 0 \in 0 .. MaxPayments /\ 0 \in 0 .. MaxOps
  BY ConstantsAssumption
<1>5. TypeOK
  BY <1>1, <1>4, Numbers DEF Init, TypeOK
<1>6. WholeRequests /\ ToLog /\ SerialIds /\ FreshRequests /\ RegistrationsKnow /\ ReadersKnow
  BY <1>1, <1>2, <1>3 DEF WholeRequests, Complete, ToLog, SerialIds, FreshRequests,
                          RegistrationsKnow, ReadersKnow
<1>7. NothingIsLeftBehind /\ DuplicatesAreExplained /\ EnrolledDoNotWait
      /\ PaymentsFollowStudents /\ LogIsTrue
  BY <1>2 DEF Init, NothingIsLeftBehind, DuplicatesAreExplained, EnrolledDoNotWait,
              PaymentsFollowStudents, LogIsTrue
<1> QED BY <1>5, <1>6, <1>7 DEF IInv

THEOREM Inductive == IInv /\ [Next]_vars => IInv'
<1> SUFFICES ASSUME IInv, [Next]_vars PROVE IInv'
  OBVIOUS
<1>1. TypeOK /\ SerialIds /\ Carried /\ Safe
  BY DEF IInv, Carried, Safe
<1>2. SUFFICES TypeOK' /\ SerialIds' /\ Carried' /\ Safe'
  BY DEF IInv, Carried, Safe
<1>3. ops \in 0 .. MaxOps /\ parent \subseteq Parent /\ log \subseteq Entry
  BY <1>1 DEF TypeOK
<1>4. /\ \A l \in link : l[2] \in parent
      /\ log \subseteq done /\ \A e \in log : e[2] \in There
  BY <1>1 DEF Safe, NothingIsLeftBehind, LogIsTrue
<1>5. ASSUME RequestsFollow({}), UNCHANGED <<rows, ops, ghost>>
      PROVE  TypeOK' /\ SerialIds' /\ Carried' /\ Safe'
  BY <1>1, <1>3, <1>4, <1>5, StillKept DEF rows
<1>6. ASSUME NEW q \in Request, Fails(q), UNCHANGED ops
      PROVE  TypeOK' /\ SerialIds' /\ Carried' /\ Safe'
  BY <1>1, <1>5, <1>6, QuietFollows DEF Fails
<1>7. ASSUME NEW q \in Request, Asks(q)
      PROVE  TypeOK' /\ SerialIds' /\ Carried' /\ Safe'
  <2>1. PICK r : Begins(q, r) /\ Fresh(r)
    BY <1>1, <1>7, AsksBegin
  <2>2. Carried'
    BY <1>1, <2>1, CarriedFromReads
  <2>3. UNCHANGED <<rows, ghost>> /\ ops' \in 0 .. MaxOps /\ req' \in [Request -> Req]
    BY <1>1, <2>1, Counted DEF Begins, Fresh, TypeOK
  <2>4. TypeOK'
    BY <1>1, <2>3 DEF TypeOK, rows, ghost
  <2>5. /\ There' = There /\ Live' = Live /\ Paid' = Paid
    BY <2>3 DEF rows, There, Live, Paid
  <2>6. SerialIds'
    BY <1>1, <2>3, <2>5 DEF SerialIds, rows
  <2>7. Safe'
    BY <1>1, <2>3, <2>5 DEF Safe, NothingIsLeftBehind, DuplicatesAreExplained,
         EnrolledDoNotWait, PaymentsFollowStudents, LogIsTrue, rows, ghost
  <2> QED BY <2>2, <2>4, <2>6, <2>7
<1>8. ASSUME NEW q \in Request,
             \/ UpdateCommit(q) \/ SetStatusCommit(q) \/ ToggleCommit(q)
             \/ SoftDeleteCommit(q) \/ RestoreCommit(q) \/ EnrollCommit(q)
      PROVE  TypeOK' /\ SerialIds' /\ Carried' /\ Safe'
  <2>1. UNCHANGED ops
    BY <1>8 DEF UpdateCommit, SetStatusCommit, ToggleCommit, SoftDeleteCommit, RestoreCommit,
                EnrollCommit
  <2>2. CASE Fails(q)
    BY <1>6, <2>1, <2>2
  <2>3. CASE ~Fails(q)
    <3>1. req[q].id \in There
      BY <1>8, <2>3 DEF UpdateCommit, SetStatusCommit, ToggleCommit, SoftDeleteCommit,
                        RestoreCommit, EnrollCommit
    <3>2. \E row, E : RowStep(q, row, E)
      BY <1>1, <1>8, <2>3, <3>1, RowSteps DEF Safe
    <3> QED BY <1>1, <3>2, RowKept
  <2> QED BY <2>2, <2>3
<1>9. ASSUME NEW q \in Request, RegisterCommit(q)
      PROVE  TypeOK' /\ SerialIds' /\ Carried' /\ Safe'
  <2>1. CASE req[q].parents \subseteq parent
    BY <1>1, <1>9, <2>1, RegisterKept
  <2>2. CASE ~(req[q].parents \subseteq parent)
    BY <1>6, <1>9, <2>2 DEF RegisterCommit
  <2> QED BY <2>1, <2>2
<1>10. ASSUME NEW q \in Request, HardDeleteCommit(q) \/ HardDeleteRefused(q)
       PROVE  TypeOK' /\ SerialIds' /\ Carried' /\ Safe'
  <2>1. CASE HardDeleteCommit(q) /\ req[q].id \in There
    BY <1>1, <2>1, HardKept
  <2>2. CASE ~(HardDeleteCommit(q) /\ req[q].id \in There)
    BY <1>6, <1>10, <2>2 DEF HardDeleteCommit, HardDeleteRefused
  <2> QED BY <2>1, <2>2
<1>11. ASSUME NEW q \in Request, Log(q)
       PROVE  TypeOK' /\ SerialIds' /\ Carried' /\ Safe'
  <2>1. RequestsFollow({})
    BY <1>1, <1>11, QuietFollows DEF Log
  <2>2. req[q].entries \subseteq Entry /\ req[q].entries \subseteq done
        /\ \A e \in req[q].entries : e[2] = req[q].id
    BY <1>1, <1>11, Fields DEF Log, Carried, ToLog
  <2>3. log' \subseteq done /\ log' \subseteq Entry /\ \A e \in log' : e[2] \in There
    BY <1>3, <1>4, <1>11, <2>2 DEF Log
  <2>4. UNCHANGED <<student, ids, parent, link, enrolled, payment, pays, ops, ghost>>
    BY <1>11 DEF Log
  <2> QED BY <1>1, <1>3, <1>4, <2>1, <2>3, <2>4, StillKept
<1>12. ASSUME NEW s \in StudentId, NEW g \in Group, Leave(s, g)
       PROVE  TypeOK' /\ SerialIds' /\ Carried' /\ Safe'
  <2>1. RequestsFollow({}) /\ ops' \in 0 .. MaxOps
    BY <1>1, <1>12, QuietFollows, Counted DEF Leave
  <2> QED BY <1>1, <1>3, <1>4, <1>12, <2>1, StillKept DEF Leave
<1>13. ASSUME NEW m \in Parent, CreateParent(m) \/ DeleteParent(m)
       PROVE  TypeOK' /\ SerialIds' /\ Carried' /\ Safe'
  <2>1. RequestsFollow({}) /\ ops' \in 0 .. MaxOps
    BY <1>1, <1>13, QuietFollows, Counted DEF CreateParent, DeleteParent
  <2>2. parent' \subseteq Parent /\ link' \subseteq link /\ \A l \in link' : l[2] \in parent'
    BY <1>3, <1>4, <1>13 DEF CreateParent, DeleteParent
  <2>3. UNCHANGED <<student, ids, enrolled, payment, pays, log, req, ghost>>
    BY <1>13 DEF CreateParent, DeleteParent
  <2> QED BY <1>1, <1>3, <1>4, <2>1, <2>2, <2>3, StillKept
<1>14. ASSUME AtOnce
       PROVE  TypeOK' /\ SerialIds' /\ Carried' /\ Safe'
  BY <1>1, <1>12, <1>13, <1>14, DeleteLevelKept, PayKept DEF AtOnce
<1>15. CASE Crash \/ UNCHANGED vars
  <2>1. RequestsFollow({}) /\ UNCHANGED <<rows, ops, ghost>>
    BY <1>1, <1>15, QuietFollows DEF Crash, vars
  <2> QED BY <1>5, <2>1
<1> QED BY <1>7, <1>8, <1>9, <1>10, <1>11, <1>14, <1>15 DEF Next, Goes

THEOREM Invariance == Spec => []IInv
BY Initially, Inductive, PTL DEF Spec

(***************************************************************************)
(* Payments that went with their level.                                    *)
(***************************************************************************)
LEMMA UnlinkedInitially == Init => UndoneAreUnlinked
BY DEF Init, UndoneAreUnlinked

LEMMA UnlinkedKept == IInv /\ UndoneAreUnlinked /\ [Next]_vars => UndoneAreUnlinked'
<1> SUFFICES ASSUME IInv, UndoneAreUnlinked, [Next]_vars PROVE UndoneAreUnlinked'
  OBVIOUS
<1>1. TypeOK /\ WholeRequests /\ SerialIds
  BY DEF IInv
<1>2. ASSUME UNCHANGED <<payment, pays, undone>>
      PROVE  UndoneAreUnlinked'
  BY <1>2 DEF UndoneAreUnlinked, Paid
<1>3. ASSUME NEW q \in Request, Fails(q)
      PROVE  UndoneAreUnlinked'
  BY <1>2, <1>3 DEF Fails, rows, ghost
<1>4. ASSUME NEW q \in Request, Asks(q)
      PROVE  UndoneAreUnlinked'
  <2>1. PICK r : Begins(q, r)
    BY <1>1, <1>4, AsksBegin
  <2> QED BY <1>2, <2>1 DEF Begins, rows, ghost
<1>5. ASSUME NEW q \in Request, SoftDeleteCommit(q) \/ RestoreCommit(q), ~Fails(q)
      PROVE  UndoneAreUnlinked'
  <2>1. req[q].id \in There /\ req[q].step \in {"delete", "restore"}
        /\ UNCHANGED <<pays, undone>>
    BY <1>5 DEF SoftDeleteCommit, RestoreCommit
  <2>2. req[q].read \subseteq Paid
    BY <1>1, <2>1 DEF WholeRequests, PaidBy
  <2>3. PICK void : payment' = Voided(req[q].read, void)
    BY <1>5 DEF SoftDeleteCommit, RestoreCommit
  <2>4. \A p \in Paid' : p \in Paid /\ payment'[p].for = payment[p].for
    <3>1. \A p \in Paid : payment[p] \in PaymentRow
      BY <1>1, Rows
    <3>2. \A p \in PaymentId : payment'[p] = IF p \in req[q].read
                                             THEN [payment[p] EXCEPT !.void = void]
                                             ELSE payment[p]
      BY <2>3 DEF Voided
    <3>3. \A p \in Paid' : p \in PaymentId /\ p \in Paid
      BY <2>2, <3>2 DEF Paid
    <3> QED BY <3>1, <3>2, <3>3 DEF PaymentRow
  <2> QED BY <2>1, <2>4 DEF UndoneAreUnlinked
<1>6. ASSUME NEW q \in Request, HardDeleteCommit(q), ~Fails(q)
      PROVE  UndoneAreUnlinked'
  <2>1. UNCHANGED <<pays, undone>>
        /\ payment' = [p \in PaymentId |-> IF p \in PaidBy(req[q].id) THEN NoRow ELSE payment[p]]
    BY <1>6 DEF HardDeleteCommit
  <2>2. \A p \in Paid' : p \in Paid /\ payment'[p] = payment[p]
    BY <2>1 DEF Paid
  <2> QED BY <2>1, <2>2 DEF UndoneAreUnlinked
<1>7. ASSUME NEW q \in Request, Goes(q)
      PROVE  UndoneAreUnlinked'
  <2>1. CASE SoftDeleteCommit(q) \/ RestoreCommit(q)
    BY <1>3, <1>5, <2>1
  <2>2. CASE HardDeleteCommit(q)
    BY <1>3, <1>6, <2>2
  <2>3. CASE RegisterCommit(q) \/ UpdateCommit(q) \/ SetStatusCommit(q) \/ ToggleCommit(q)
    BY <1>2, <1>3, <2>3 DEF RegisterCommit, UpdateCommit, SetStatusCommit, ToggleCommit
  <2>4. CASE Log(q) \/ HardDeleteRefused(q) \/ EnrollCommit(q)
    BY <1>2, <1>3, <2>4 DEF Log, HardDeleteRefused, EnrollCommit, ghost
  <2> QED BY <1>7, <2>1, <2>2, <2>3, <2>4 DEF Goes
<1>8. ASSUME NEW g \in Group, NEW S \in SUBSET StudentId, DeleteLevel(g, S)
      PROVE  UndoneAreUnlinked'
  <2> DEFINE P == {p \in Paid : payment[p].by \in S /\ payment[p].for = {g}}
  <2>1. /\ undone' = undone \cup {p \in P : ~payment[p].void} /\ UNCHANGED pays
        /\ payment' = [p \in PaymentId |-> IF p \in P
                                           THEN [payment[p] EXCEPT !.void = TRUE, !.for = {}]
                                           ELSE payment[p]]
    BY <1>8 DEF DeleteLevel
  <2>2. \A p \in P : payment[p] \in PaymentRow
    BY <1>1, Rows
  <2>3. \A p \in Paid' : p \in Paid /\ payment'[p].for = IF p \in P THEN {} ELSE payment[p].for
    <3> HIDE DEF P
    <3>1. \A p \in PaymentId : payment'[p] = IF p \in P
                                             THEN [payment[p] EXCEPT !.void = TRUE, !.for = {}]
                                             ELSE payment[p]
      BY <2>1
    <3>2. \A p \in P : payment'[p].for = {}
      BY <2>2, <3>1 DEF PaymentRow, P, Paid
    <3>3. \A p \in P : p \in Paid
      BY DEF P
    <3> QED BY <3>1, <3>2, <3>3 DEF Paid
  <2>4. \A p \in P : p \in 1 .. pays
    BY <1>1 DEF SerialIds
  <2> HIDE DEF P
  <2> QED BY <2>1, <2>3, <2>4 DEF UndoneAreUnlinked
<1>9. ASSUME NEW s \in StudentId, NEW F \in SUBSET Group, Pay(s, F)
      PROVE  UndoneAreUnlinked'
  <2>1. UNCHANGED undone /\ pays' = pays + 1 /\ pays \in Nat
        /\ \A p \in PaymentId : p # pays + 1 => payment'[p] = payment[p]
    BY <1>1, <1>9, Numbers DEF Pay, TypeOK
  <2>2. \A p \in undone : p \in 1 .. pays' /\ p # pays + 1
    BY <2>1 DEF UndoneAreUnlinked
  <2>3. \A p \in undone : p \in Paid' => p \in Paid /\ payment'[p] = payment[p]
    BY <2>1, <2>2 DEF Paid
  <2> QED BY <2>1, <2>2, <2>3 DEF UndoneAreUnlinked
<1>10. ASSUME AtOnce
       PROVE  UndoneAreUnlinked'
  <2>1. ASSUME NEW s \in StudentId, NEW g \in Group, Leave(s, g) PROVE UndoneAreUnlinked'
    BY <1>2, <2>1 DEF Leave, ghost
  <2>2. ASSUME NEW m \in Parent, CreateParent(m) \/ DeleteParent(m) PROVE UndoneAreUnlinked'
    BY <1>2, <2>2 DEF CreateParent, DeleteParent, ghost
  <2> QED BY <1>8, <1>9, <1>10, <2>1, <2>2 DEF AtOnce
<1>11. CASE Crash \/ UNCHANGED vars
  BY <1>2, <1>11 DEF Crash, vars, rows, ghost
<1> QED BY <1>4, <1>7, <1>10, <1>11 DEF Next

(***************************************************************************)
(* Counting.                                                               *)
(***************************************************************************)

(* Counted by what f says of them, the elements of S are as many as S has. *)
LEMMA CountedByValue ==
  ASSUME NEW S, IsFiniteSet(S), NEW X, NEW f \in [S -> X], NEW count, DOMAIN count = X,
         \A x \in X : count[x] = Cardinality({s \in S : f[s] = x})
  PROVE  Sum(count) = Cardinality(S)
<1> DEFINE Of(x) == {s \in S : f[s] = x}
           P == UNION {{x} \X (1 .. count[x]) : x \in X}
           nth == [x \in X |-> CHOOSE g : g \in Bijection(1 .. count[x], Of(x))]
           all == [p \in P |-> nth[p[1]][p[2]]]
<1>1. ASSUME NEW x \in X
      PROVE  /\ nth[x] \in [1 .. count[x] -> Of(x)]
             /\ \A i, j \in 1 .. count[x] : nth[x][i] = nth[x][j] => i = j
             /\ \A s \in Of(x) : \E i \in 1 .. count[x] : nth[x][i] = s
  <2>1. IsFiniteSet(Of(x))
    BY FS_Subset
  <2>2. ExistsBijection(1 .. count[x], Of(x))
    BY <2>1, FS_CardinalityType
  <2>3. \E g : g \in Bijection(1 .. count[x], Of(x))
    BY <2>2, Fun_ExistsBij
  <2> DEFINE g == nth[x]  I == 1 .. count[x]  T == Of(x)
  <2>4. g \in Bijection(I, T)
    BY <2>3
  <2>5. /\ g \in [I -> T] /\ \A i, j \in I : g[i] = g[j] => i = j
        /\ \A s \in T : \E i \in I : g[i] = s
    <3> HIDE DEF g, I, T
    <3> QED BY <2>4, Fun_BijectionProperties
  <2> QED BY <2>5
<1>2. ASSUME NEW p \in P
      PROVE  /\ p[1] \in X /\ p[2] \in 1 .. count[p[1]] /\ p = <<p[1], p[2]>>
             /\ all[p] \in S /\ f[all[p]] = p[1]
  <2>1. p[1] \in X /\ p[2] \in 1 .. count[p[1]] /\ p = <<p[1], p[2]>>
    OBVIOUS
  <2>2. nth[p[1]] \in [1 .. count[p[1]] -> Of(p[1])]
    BY <1>1, <2>1
  <2>3. all[p] = nth[p[1]][p[2]]
    OBVIOUS
  <2> HIDE DEF P, nth, all
  <2> QED BY <2>1, <2>2, <2>3
<1>3. ASSUME NEW p \in P, NEW o \in P, all[p] = all[o]
      PROVE  p = o
  <2>1. p[1] = o[1]
    <3> HIDE DEF P, nth, all
    <3> QED BY <1>2, <1>3
  <2>2. nth[p[1]][p[2]] = nth[p[1]][o[2]]
    BY <1>3, <2>1
  <2>3. p[2] = o[2]
    <3>1. p[1] \in X /\ p[2] \in 1 .. count[p[1]] /\ o[2] \in 1 .. count[p[1]]
      <4> HIDE DEF P, nth, all
      <4> QED BY <1>2, <2>1
    <3> HIDE DEF nth
    <3> QED BY <1>1, <2>2, <3>1
  <2> HIDE DEF P, nth, all
  <2> QED BY <1>2, <2>1, <2>3
<1>4. ASSUME NEW s \in S
      PROVE  \E p \in P : all[p] = s
  <2>1. f[s] \in X /\ s \in Of(f[s])
    OBVIOUS
  <2>2. PICK i \in 1 .. count[f[s]] : nth[f[s]][i] = s
    <3> HIDE DEF nth, Of
    <3> QED BY <1>1, <2>1
  <2>3. <<f[s], i>> \in P
    BY <2>1
  <2>4. all[<<f[s], i>>] = s
    BY <2>2, <2>3
  <2> QED BY <2>3, <2>4
<1>5. all \in [P -> S]
  BY <1>2
<1>6. all \in Bijection(P, S)
  <2> HIDE DEF P, nth, all
  <2> QED BY <1>3, <1>4, <1>5, Fun_IsBij
<1>7. ExistsBijection(S, P)
  <2> HIDE DEF P, nth, all
  <2> QED BY <1>6, Fun_ExistsBij, Fun_ExistsBijSymmetric
<1>8. Cardinality(P) = Cardinality(S)
  <2> HIDE DEF P
  <2> QED BY <1>7, FS_Bijection
<1> QED BY <1>8 DEF Sum

LEMMA CountedApart ==
  ASSUME NEW S, IsFiniteSet(S), NEW T \in SUBSET S
  PROVE  /\ Cardinality(S) \in Nat /\ Cardinality(T) \in Nat /\ Cardinality(S \ T) \in Nat
         /\ Cardinality(S) = Cardinality(T) + Cardinality(S \ T)
<1>1. IsFiniteSet(T) /\ IsFiniteSet(S \ T)
  BY FS_Subset
<1>2. S = T \cup (S \ T) /\ T \cap (S \ T) = {}
  OBVIOUS
<1>3. Cardinality(S) \in Nat /\ Cardinality(T) \in Nat /\ Cardinality(S \ T) \in Nat
  BY <1>1, FS_CardinalityType
<1>4. Cardinality(T \cup (S \ T)) = Cardinality(T) + Cardinality(S \ T) - Cardinality(T \cap (S \ T))
  BY <1>1, FS_Union
<1>5. Cardinality({}) = 0
  BY FS_EmptySet
<1> QED BY <1>2, <1>3, <1>4, <1>5

LEMMA FiniteTables ==
  ASSUME TypeOK
  PROVE  /\ IsFiniteSet(There) /\ IsFiniteSet(Live) /\ IsFiniteSet(log)
         /\ IsFiniteSet(enrolled)
<1>1. IsFiniteSet(StudentId)
  BY ConstantsAssumption, FS_Interval DEF StudentId
<1>2. IsFiniteSet(There) /\ IsFiniteSet(Live)
  BY <1>1, FS_Subset, Rows
<1>3. IsFiniteSet({"registered", "deleted", "enrolled", "active", "waiting", "inactive"})
  <2>1. /\ IsFiniteSet({"registered"} \cup {"deleted"})
        /\ \A S : IsFiniteSet(S) => \A x : IsFiniteSet(S \cup {x})
    BY FS_Singleton, FS_AddElement
  <2>2. IsFiniteSet(({"registered"} \cup {"deleted"}) \cup {"enrolled"})
    BY <2>1
  <2>3. IsFiniteSet((({"registered"} \cup {"deleted"}) \cup {"enrolled"}) \cup {"active"})
    BY <2>1, <2>2
  <2>4. IsFiniteSet(((({"registered"} \cup {"deleted"}) \cup {"enrolled"}) \cup {"active"})
                    \cup {"waiting"})
    BY <2>1, <2>3
  <2>5. IsFiniteSet((((({"registered"} \cup {"deleted"}) \cup {"enrolled"}) \cup {"active"})
                    \cup {"waiting"}) \cup {"inactive"})
    BY <2>1, <2>4
  <2>6. (((({"registered"} \cup {"deleted"}) \cup {"enrolled"}) \cup {"active"})
                    \cup {"waiting"}) \cup {"inactive"}
        = {"registered", "deleted", "enrolled", "active", "waiting", "inactive"}
    OBVIOUS
  <2> QED BY <2>5, <2>6
<1>4. IsFiniteSet(Entry)
  BY <1>1, <1>3, FS_Product DEF Entry
<1>5. IsFiniteSet(log)
  BY <1>4, FS_Subset DEF TypeOK
<1>6. IsFiniteSet(enrolled)
  BY <1>1, PagesAssumption, FS_Product, FS_Subset DEF TypeOK
<1> QED BY <1>2, <1>5, <1>6

LEMMA StatusesDivide ==
  ASSUME TypeOK
  PROVE  /\ \A s \in Live : student[s].status \in Status /\ student[s].who \in Person
         /\ With("active") \subseteq Live /\ With("waiting") \subseteq Live \ With("active")
         /\ (Live \ With("active")) \ With("waiting") = With("inactive")
<1>1. \A s \in Live : student[s] \in StudentRow
  BY Rows
<1>2. \A s \in Live : student[s].status \in Status /\ student[s].who \in Person
  BY <1>1 DEF StudentRow
<1> QED BY <1>2 DEF With, Status

LEMMA ListsTold == ASSUME TypeOK PROVE ListsAgree
<1> DEFINE n(S) == Cardinality(S)
<1>1. IsFiniteSet(Live) /\ IsFiniteSet(log) /\ There \subseteq StudentId /\ Live \subseteq There
  BY FiniteTables, Rows
<1>2. /\ n(Live) \in Nat /\ n(With("active")) \in Nat /\ n(Live \ With("active")) \in Nat
      /\ n(Live) = n(With("active")) + n(Live \ With("active"))
  BY <1>1, StatusesDivide, CountedApart
<1>3. /\ n(With("waiting")) \in Nat /\ n(With("inactive")) \in Nat
      /\ n(Live \ With("active")) = n(With("waiting")) + n(With("inactive"))
  <2>1. IsFiniteSet(Live \ With("active"))
    BY <1>1, FS_Subset
  <2> QED BY <2>1, StatusesDivide, CountedApart
<1>4. There = DOMAIN ListAll \cup ListDeleted
  BY <1>1 DEF ListAll, ListDeleted
<1>5. /\ Cardinality(DOMAIN ListAll) - ListTotal = StatusSummary.inactive
      /\ StatusSummary.inactive = CountByStatus("inactive") + StatusSummary.waiting
      /\ StatusSummary.total = n(Live)
  <2>1. DOMAIN ListAll = Live
    BY DEF ListAll
  <2> HIDE DEF n
  <2> QED BY <1>2, <1>3, <2>1 DEF n, ListTotal, StatusSummary, Count, CountByStatus
<1>6. Sum(Sizes(Grouped(TRUE))) = n(Live)
  <2> DEFINE f == [s \in Live |-> student[s].status]
             X == {f[s] : s \in Live}
  <2>1. DOMAIN Enriched(TRUE) = Live /\ \A s \in Live : Enriched(TRUE)[s].status = f[s]
    BY DEF Enriched, Row
  <2>2. DOMAIN Grouped(TRUE) = X
    BY <2>1 DEF Grouped
  <2>3. \A x \in X : Grouped(TRUE)[x] = {s \in Live : f[s] = x}
    BY <2>1, <2>2 DEF Grouped
  <2>4. DOMAIN Sizes(Grouped(TRUE)) = X
        /\ \A x \in X : Sizes(Grouped(TRUE))[x] = Cardinality({s \in Live : f[s] = x})
    BY <2>2, <2>3 DEF Sizes
  <2>5. f \in [Live -> X]
    OBVIOUS
  <2> DEFINE count == Sizes(Grouped(TRUE))
  <2>6. Sum(count) = Cardinality(Live)
    <3>1. DOMAIN count = X /\ \A x \in X : count[x] = Cardinality({s \in Live : f[s] = x})
      BY <2>4
    <3> HIDE DEF f, X, count
    <3> QED BY <1>1, <2>5, <3>1, CountedByValue
  <2> QED BY <2>6
<1>7. DOMAIN Grouped(FALSE) \subseteq {"active"} /\ WaitingSummary = CountByStatus("waiting")
  <2>1. \A s \in DOMAIN Enriched(FALSE) : Enriched(FALSE)[s].status = "active"
    BY DEF Enriched, Row
  <2>2. DOMAIN Grouped(FALSE) \subseteq {"active"}
    BY <2>1 DEF Grouped
  <2> QED BY <2>2 DEF WaitingSummary, CountByStatus
<1>8. ASSUME NEW w \in Person \ Undated
      PROVE  Known(w) <=> DOMAIN Search({w}) # {}
  <2>1. DOMAIN Search({w}) = {t \in Live : student[t].who = w}
    BY DEF Search
  <2> QED BY <2>1 DEF Known
<1>9. NewStudents - MissingBirthDates = Cardinality(DOMAIN Search(Person \ Undated))
  <2>1. DOMAIN Search(Person \ Undated) = {t \in Live : student[t].who \in Person \ Undated}
    BY DEF Search
  <2>2. Live \ {s \in Live : student[s].who \in Undated} = DOMAIN Search(Person \ Undated)
    BY <2>1, StatusesDivide
  <2>3. {s \in Live : student[s].who \in Undated} \in SUBSET Live
    OBVIOUS
  <2> QED BY <1>1, <2>2, <2>3, CountedApart DEF NewStudents, MissingBirthDates
<1>10. ASSUME NEW C \in SUBSET StudentId
       PROVE  Sum(FoundingCohort(C))
                = Cardinality(DOMAIN FilterStudents([AllPass EXCEPT !.meets = C]))
  <2> DEFINE S == Live \cap C
             f == [s \in S |-> student[s].status]
  <2>1. ASSUME NEW t \in Live
        PROVE  ActivityCount(t, {}) >= 0
    <3>1. IsFiniteSet({e \in log : e[2] = t /\ ({} # {} => TypeOf[e[1]] \in {})})
      BY <1>1, FS_Subset
    <3>2. ActivityCount(t, {}) \in Nat
      BY <3>1, FS_CardinalityType DEF ActivityCount
    <3> QED BY <3>2
  <2>2. DOMAIN FilterStudents([AllPass EXCEPT !.meets = C]) = S
    <3>1. [AllPass EXCEPT !.meets = C] = [statuses |-> {}, types |-> {}, atLeast |-> 0, meets |-> C]
      BY DEF AllPass
    <3> QED BY <2>1, <3>1 DEF FilterStudents
  <2>3. f \in [S -> Status] /\ IsFiniteSet(S)
    BY <1>1, StatusesDivide, FS_Subset
  <2>4. DOMAIN FoundingCohort(C) = Status
        /\ \A x \in Status : FoundingCohort(C)[x] = Cardinality({s \in S : f[s] = x})
    <3>1. \A x \in Status : With(x) \cap C = {s \in S : f[s] = x}
      BY DEF With
    <3> QED BY <3>1 DEF FoundingCohort
  <2>5. Sum(FoundingCohort(C)) = Cardinality(S)
    <3> HIDE DEF S, f
    <3> QED BY <2>3, <2>4, CountedByValue
  <2> QED BY <2>2, <2>5
<1> QED BY <1>4, <1>5, <1>6, <1>7, <1>8, <1>9, <1>10 DEF ListsAgree

(***************************************************************************)
(* Groups, siblings and payments.                                          *)
(***************************************************************************)
LEMMA GroupsCounted ==
  ASSUME IsFiniteSet(enrolled), enrolled \subseteq StudentId \X Group, NEW S
  PROVE  Sum([s \in S |-> Cardinality(Groups(s))]) = Cardinality({x \in enrolled : x[1] \in S})
<1> DEFINE E == {x \in enrolled : x[1] \in S}
           f == [x \in E |-> x[1]]
           count == [s \in S |-> Cardinality(Groups(s))]
<1>1. IsFiniteSet(E) /\ f \in [E -> S]
  BY FS_Subset
<1>2. ASSUME NEW s \in S
      PROVE  Cardinality(Groups(s)) = Cardinality({x \in E : f[x] = s})
  <2> DEFINE F == {x \in E : f[x] = s}
             g == [x \in F |-> x[2]]
  <2>1. IsFiniteSet(F)
    BY <1>1, FS_Subset
  <2>2. \A x \in F : x = <<s, x[2]>> /\ x[2] \in Groups(s)
    BY DEF Groups
  <2>3. \A h \in Groups(s) : <<s, h>> \in F
    BY DEF Groups
  <2>4. g \in [F -> Groups(s)]
    BY <2>2
  <2>5. \A x, y \in F : g[x] = g[y] => x = y
    BY <2>2
  <2>6. \A h \in Groups(s) : \E x \in F : g[x] = h
    BY <2>3
  <2>7. ExistsBijection(F, Groups(s))
    <3> HIDE DEF F, g
    <3> QED BY <2>4, <2>5, <2>6, Fun_IsBij, Fun_ExistsBij
  <2> HIDE DEF F
  <2>8. Cardinality(Groups(s)) = Cardinality(F)
    BY <2>1, <2>7, FS_Bijection
  <2> QED BY <2>8 DEF F
<1>3. DOMAIN count = S /\ \A s \in S : count[s] = Cardinality({x \in E : f[x] = s})
  <2> HIDE DEF E, f
  <2> QED BY <1>2
<1>4. Sum(count) = Cardinality(E)
  <2> HIDE DEF E, f, count
  <2> QED BY <1>1, <1>3, CountedByValue
<1> QED BY <1>4

LEMMA GroupsTold ==
  ASSUME TypeOK, NothingIsLeftBehind, EnrolledDoNotWait
  PROVE  GroupsAgree
<1> DEFINE of(S) == {x \in enrolled : x[1] \in S}
<1>1. IsFiniteSet(enrolled) /\ enrolled \subseteq StudentId \X Group
  BY FiniteTables DEF TypeOK
<1>2. ASSUME NEW s \in WaitingList, Row(s).groups # {}
      PROVE  s \in rewaited
  <2>1. student[s].status = "waiting" /\ Groups(s) # {}
    BY <1>2 DEF WaitingList, With, Row
  <2>2. PICK g \in Group : <<s, g>> \in enrolled
    BY <2>1 DEF Groups
  <2> QED BY <2>1, <2>2 DEF EnrolledDoNotWait
<1>3. Sum([s \in ListDeleted |-> Cardinality(Groups(s))]) = Cardinality(of(There \ Live))
  BY <1>1, GroupsCounted DEF ListDeleted
<1>4. Sum([s \in DOMAIN Enriched(TRUE) |-> Cardinality(ListAll[s].groups)])
        = Cardinality(of(Live))
  <2>1. DOMAIN Enriched(TRUE) = Live /\ \A s \in Live : ListAll[s].groups = Groups(s)
    BY DEF Enriched, ListAll, Row
  <2>2. [s \in DOMAIN Enriched(TRUE) |-> Cardinality(ListAll[s].groups)]
          = [s \in Live |-> Cardinality(Groups(s))]
    BY <2>1
  <2> QED BY <1>1, <2>2, GroupsCounted
<1>5. enrolled \ of(Live) = of(There \ Live) /\ of(Live) \in SUBSET enrolled
  BY DEF NothingIsLeftBehind
<1>6. /\ Cardinality(enrolled) \in Nat /\ Cardinality(of(Live)) \in Nat
      /\ Cardinality(of(There \ Live)) \in Nat
      /\ Cardinality(enrolled) = Cardinality(of(Live)) + Cardinality(of(There \ Live))
  <2> HIDE DEF of
  <2> QED BY <1>1, <1>5, CountedApart
<1> HIDE DEF of
<1> QED BY <1>2, <1>3, <1>4, <1>6 DEF GroupsAgree, ReportActive

LEMMA SiblingsTold == ASSUME TypeOK PROVE SiblingsAgree
<1>1. /\ \A s, m : m \in ParentsOf(s) <=> m \in Parent /\ <<s, m>> \in link
      /\ Live \subseteq There
  BY Rows DEF ParentsOf
<1>2. ASSUME NEW s \in Live
      PROVE  /\ Details(s).siblings \ FindSiblings(s) = Details(s).siblings \cap ListDeleted
             /\ FindSiblings(s) = {t \in Live : <<s, t>> \in SiblingPairs}
  <2>1. Details(s).siblings = Siblings(s)
    BY DEF Details
  <2>2. \A t : t \in Siblings(s) <=> /\ t \in There /\ t # s
                                     /\ \E m \in Parent : <<t, m>> \in link /\ <<s, m>> \in link
    BY <1>1 DEF Siblings
  <2>3. \A t : t \in FindSiblings(s) <=> /\ t \in Live /\ t # s
                                  /\ \E m \in Parent : <<t, m>> \in link /\ <<s, m>> \in link
    BY <1>1 DEF FindSiblings
  <2>4. \A t \in Live : <<s, t>> \in SiblingPairs
           <=> t # s /\ \E m \in Parent : <<t, m>> \in link /\ <<s, m>> \in link
    BY <1>1 DEF SiblingPairs
  <2>5. Siblings(s) \ FindSiblings(s) = Siblings(s) \cap (There \ Live)
    BY <1>1, <2>2, <2>3
  <2>6. FindSiblings(s) = {t \in Live : <<s, t>> \in SiblingPairs}
    BY <2>3, <2>4
  <2> QED BY <2>1, <2>5, <2>6 DEF ListDeleted
<1>3. ASSUME NEW x \in SiblingPairs
      PROVE  <<x[2], x[1]>> \in SiblingPairs
  BY DEF SiblingPairs
<1> QED BY <1>2, <1>3 DEF SiblingsAgree

LEMMA PaymentsTold ==
  ASSUME TypeOK, NothingIsLeftBehind, PaymentsFollowStudents, UndoneAreUnlinked
  PROVE  PaymentsAgree
<1> SUFFICES ASSUME NEW s \in There
             PROVE  /\ PaymentsPage(s) \cup (DeletedPayments \cap PaidBy(s)) = PaidBy(s)
                    /\ s \in Live => PaymentsPage(s) \cap undone \subseteq OrphanedPayments(undone)
                    /\ s \in torn \/ IF s \in Live THEN PaidBy(s) \ PaymentsPage(s) \subseteq undone
                                      ELSE PaymentsPage(s) \subseteq late \cap GhostPayments
  BY DEF PaymentsAgree
<1>1. /\ \A p : p \in PaidBy(s) <=> p \in Paid /\ payment[p].by = s
      /\ \A p : p \in PaymentsPage(s) <=> p \in Paid /\ payment[p].by = s /\ ~payment[p].void
      /\ \A p : p \in DeletedPayments <=> p \in Paid /\ payment[p].void
      /\ \A p : p \in ActivePayments <=> p \in Paid /\ ~payment[p].void
  BY DEF PaidBy, PaymentsPage, VoidOf, DeletedPayments, ActivePayments
<1>2. PaymentsPage(s) \cup (DeletedPayments \cap PaidBy(s)) = PaidBy(s)
  BY <1>1
<1>3. ASSUME s \in Live PROVE PaymentsPage(s) \cap undone \subseteq OrphanedPayments(undone)
  BY <1>1, <1>3 DEF OrphanedPayments, UndoneAreUnlinked
<1>4. ASSUME s \notin torn, s \in Live PROVE PaidBy(s) \ PaymentsPage(s) \subseteq undone
  BY <1>1, <1>4 DEF PaymentsFollowStudents
<1>5. ASSUME s \notin torn, s \notin Live PROVE PaymentsPage(s) \subseteq late \cap GhostPayments
  BY <1>1, <1>5 DEF PaymentsFollowStudents, GhostPayments
<1> QED BY <1>2, <1>3, <1>4, <1>5

(***************************************************************************)
(* Histories and answers.                                                  *)
(***************************************************************************)
LEMMA LogTypes ==
  ASSUME TypeOK, NEW e \in log
  PROVE  TypeOf[e[1]] \in {"registration", "deletion", "enrollment", "status_change"}
<1>1. e[1] \in Words
  BY DEF TypeOK, Entry, Words, Status
<1> QED BY <1>1 DEF TypeOf

LEMMA HistoriesTold ==
  ASSUME TypeOK, NothingIsLeftBehind
  PROVE  HistoriesAgree
<1>1. /\ IsFiniteSet(log) /\ There \subseteq StudentId /\ Live \subseteq There
      /\ \A s \in StudentId : s # 0
      /\ \A e \in log : e[2] \in There
  BY FiniteTables, Rows, ConstantsAssumption DEF StudentId, NothingIsLeftBehind
<1>2. TimelineView = RecentActivities
  BY <1>1 DEF TimelineView, RecentActivities
<1>3. ASSUME NEW s \in There
      PROVE  Sum(ActivitySummary(s)) = Cardinality(HistoryPage(s, {}))
  <2> DEFINE f == [e \in Timeline(s) |-> TypeOf[e[1]]]
             X == {TypeOf[e[1]] : e \in Timeline(s)}
  <2>1. IsFiniteSet(Timeline(s)) /\ f \in [Timeline(s) -> X]
    BY <1>1, FS_Subset DEF Timeline
  <2>2. \A x : OfType(s, {x}) = {e \in Timeline(s) : f[e] = x}
    BY DEF OfType
  <2>3. DOMAIN ActivitySummary(s) = X
        /\ \A x \in X : ActivitySummary(s)[x] = Cardinality({e \in Timeline(s) : f[e] = x})
    <3> HIDE DEF f
    <3> QED BY <2>2 DEF ActivitySummary
  <2> HIDE DEF f, X
  <2> QED BY <2>1, <2>3, CountedByValue DEF HistoryPage
<1>4. ASSUME NEW s \in There, NEW x \in SummaryPage(s), x[1] = "enrollment"
      PROVE  x[2] = EnrollmentPage(s).total
  <2>1. x[2] = Cardinality(OfType(s, {"enrollment"}))
    <3>1. PICK type \in DOMAIN ActivitySummary(s) : x = <<type, ActivitySummary(s)[type]>>
      BY <1>4 DEF SummaryPage
    <3>2. ActivitySummary(s)[type] = Cardinality(OfType(s, {type}))
      BY <3>1 DEF ActivitySummary
    <3> QED BY <1>4, <3>1, <3>2
  <2>2. EnrollmentHistory(s) = OfType(s, {"enrollment"})
    BY LogTypes DEF EnrollmentHistory, OfType, Timeline
  <2> QED BY <2>1, <2>2 DEF EnrollmentPage
<1>5. ASSUME NEW s \in There
      PROVE  /\ StatusPage(s).data \cup EnrollmentPage(s).data
                  = SearchActivities({"status_change", "enrollment"}, s)
             /\ \A types \in SUBSET Types : SearchActivities(types, s) \subseteq HistoryPage(s, types)
  <2>1. \A types : SearchActivities(types, s)
                     = {e \in Timeline(s) : types # {} => TypeOf[e[1]] \in types}
    BY <1>1 DEF SearchActivities, Timeline
  <2>2. StatusPage(s).data \cup EnrollmentPage(s).data
          = {e \in Timeline(s) : TypeOf[e[1]] \in {"status_change", "enrollment"}}
    BY LogTypes DEF StatusPage, EnrollmentPage, StatusHistory, EnrollmentHistory, OfType, Timeline
  <2> QED BY <2>1, <2>2 DEF HistoryPage
<1>6. SearchActivities({}, 0) = UNION {HistoryPage(s, {}) : s \in DOMAIN ListAll \cup ListDeleted}
  <2>1. SearchActivities({}, 0) = log
    BY DEF SearchActivities
  <2>2. DOMAIN ListAll \cup ListDeleted = There
    BY <1>1 DEF ListAll, ListDeleted
  <2>3. \A s : HistoryPage(s, {}) = {e \in log : e[2] = s}
    BY DEF HistoryPage, Timeline
  <2> QED BY <1>1, <2>1, <2>2, <2>3
<1>7. ASSUME NEW types \in {{}, {"enrollment"}}, NEW least \in 0 .. 1
      PROVE  DOMAIN FilterStudents([AllPass EXCEPT !.types = types, !.atLeast = least])
               = {s \in Live : least = 1 => SearchActivities(types, s) # {}}
  <2> DEFINE n(s) == Cardinality(SearchActivities(types, s))
  <2>1. \A s \in Live : n(s) \in Nat /\ (n(s) = 0 <=> SearchActivities(types, s) = {})
    <3>1. \A s \in Live : IsFiniteSet(SearchActivities(types, s))
      BY <1>1, FS_Subset DEF SearchActivities
    <3> QED BY <3>1, FS_CardinalityType, FS_EmptySet
  <2>2. \A s \in Live : ActivityCount(s, types) = n(s)
    <3>1. \A s \in Live : SearchActivities(types, s)
                            = {e \in log : e[2] = s /\ (types # {} => TypeOf[e[1]] \in types)}
      BY <1>1 DEF SearchActivities
    <3> QED BY <3>1 DEF ActivityCount
  <2> DEFINE asked == [AllPass EXCEPT !.types = types, !.atLeast = least]
  <2>3. /\ asked.statuses = {} /\ asked.types = types /\ asked.atLeast = least
        /\ asked.meets = StudentId
    BY DEF AllPass
  <2>4. DOMAIN FilterStudents(asked) = {t \in Live : n(t) >= least}
    <3> HIDE DEF n, asked
    <3> QED BY <1>1, <2>2, <2>3 DEF FilterStudents
  <2>5. \A s \in Live : n(s) >= least <=> (least = 1 => SearchActivities(types, s) # {})
    <3> HIDE DEF n
    <3> QED BY <2>1
  <2> HIDE DEF n
  <2> QED BY <2>4, <2>5
<1> QED BY <1>2, <1>3, <1>4, <1>5, <1>6, <1>7 DEF HistoriesAgree

LEMMA AnswersTold ==
  ASSUME TypeOK, NothingIsLeftBehind
  PROVE  AnswersAgree
<1>1. /\ There \subseteq StudentId /\ Live \subseteq There
      /\ \A s \in Live : student[s] # NoRow /\ student[s].status \in Status
  BY Rows, StatusesDivide DEF There
<1>2. /\ NoRow \notin {"set", "error", "deleted", "restored", "soft_deleted", "permanently_deleted"}
      /\ \A m \in Parent : m # NoRow
      /\ \A st \in Status : st # NoRow
      /\ \A S \in SUBSET StudentId : S # NoRow
  BY PagesAssumption
<1>3. ASSUME NEW s \in StudentId
      PROVE  GetStudent(s) # NoRow <=> s \in Live
  BY <1>1 DEF GetStudent, IfLive
<1>4. ASSUME NEW s \in StudentId
      PROVE  s \in UNION {ByStatus(st) : st \in Status} <=> s \in Live
  <2>1. \A st \in Status : ByStatus(st) = {t \in Live : student[t].status = st}
    BY DEF ByStatus, With
  <2> QED BY <1>1, <2>1
<1>5. ASSUME NEW s \in StudentId
      PROVE  GetDetails(s) # NoRow <=> s \in Live
  <2>1. ASSUME s \in Live PROVE Details(s) # NoRow
    <3>1. /\ Row(s) \in [status : Status, groups : SUBSET Group]
          /\ ParentsOf(s) \in SUBSET Parent /\ Siblings(s) \in SUBSET StudentId
      BY <1>1, <2>1 DEF Row, Groups, ParentsOf, Siblings
    <3>2. Details(s) \in [row : [status : Status, groups : SUBSET Group],
                          parents : SUBSET Parent, siblings : SUBSET StudentId]
      BY <3>1 DEF Details
    <3> QED BY <3>2, PagesAssumption
  <2> QED BY <2>1 DEF GetDetails, IfLive
<1>6. ASSUME NEW s \in StudentId, GetSiblings(s) # NoRow, NEW t \in GetSiblings(s)
      PROVE  t \in ListDeleted \/ GetStudent(t) # NoRow
  <2>1. t \in There
    BY <1>6 DEF GetSiblings, IfLive, Siblings
  <2> QED BY <1>1, <1>3, <2>1 DEF ListDeleted
<1>7. ASSUME NEW s \in StudentId
      PROVE  /\ SoftDeleteAnswer(s) # NoRow <=> s \in Live
             /\ DeleteAnswer(s) = "error" <=> s \in Live
             /\ RestoreAnswer(s) # NoRow <=> s \in There \ Live
             /\ HardDeleteAnswer(s) # NoRow <=> s \in There
  BY <1>2 DEF SoftDeleteAnswer, DeleteAnswer, RestoreAnswer, HardDeleteAnswer, IfLive, ListDeleted
<1>8. ASSUME NEW s \in StudentId, NEW st \in Status
      PROVE  StatusAnswer(s, st) = NoRow <=> PriorityAnswer(s) = NoRow
  BY <1>2 DEF StatusAnswer, PriorityAnswer, IfLive
<1>9. ASSUME NEW s \in StudentId, ToggleAnswer(s) # NoRow
      PROVE  ToggleAnswer(s) # GetStudent(s).status
  BY <1>9 DEF ToggleAnswer, GetStudent, IfLive
<1>10. ASSUME NEW s \in StudentId, s \notin There
       PROVE  GetParents(s) = {} /\ GetPayments(s).total = 0 /\ HistoryPage(s, {}) = {}
  <2>1. ParentsOf(s) = {}
    BY <1>10 DEF ParentsOf, NothingIsLeftBehind
  <2>2. PaymentsPage(s) = {}
    BY <1>10 DEF PaymentsPage, PaidBy, VoidOf, NothingIsLeftBehind
  <2>3. Timeline(s) = {}
    BY <1>10 DEF Timeline, NothingIsLeftBehind
  <2> QED BY <2>1, <2>2, <2>3, FS_EmptySet DEF GetParents, GetPayments, HistoryPage
<1>11. ASSUME NEW s \in StudentId
       PROVE  GetParents(s) = ParentsOf(s) /\ \A m \in GetParents(s) : GetParent(m) # NoRow
  BY <1>2 DEF GetParents, GetParent, ParentsOf, NothingIsLeftBehind
<1> QED BY <1>1, <1>3, <1>4, <1>5, <1>6, <1>7, <1>8, <1>9, <1>10, <1>11 DEF AnswersAgree

LEMMA PagesAgreeNow == IInv /\ UndoneAreUnlinked => StudentPagesAgree
BY ListsTold, GroupsTold, SiblingsTold, PaymentsTold, HistoriesTold, AnswersTold
   DEF IInv, StudentPagesAgree

(***************************************************************************)
(* The properties that the run checks.                                     *)
(***************************************************************************)

(* Every variable of Students keeps its type, however many requests of      *)
(* whatever kind overlap.                                                   *)
THEOREM TypeCorrect == Spec => []TypeOK
BY Invariance, PTL DEF IInv

(* hard_delete, whatever it overlaps with, leaves no row that refers to the *)
(* student, and deleting a parent leaves no link to it.                     *)
THEOREM NothingLeft == Spec => []NothingIsLeftBehind
BY Invariance, PTL DEF IInv

(* register_student lets a second live student of a name and date of birth  *)
(* in only when registrations overlap, a student was renamed or restored, or *)
(* an enrollment wrote back a stale row.                                    *)
THEOREM Duplicates == Spec => []DuplicatesAreExplained
BY Invariance, PTL DEF IInv

(* enroll_student takes a waiting student off the waiting list, and nothing *)
(* but an administrator puts an enrolled one back on it.                    *)
THEOREM EnrolledActive == Spec => []EnrolledDoNotWait
BY Invariance, PTL DEF IInv

(* The void flags of payments follow soft_delete and restore of their       *)
(* student, but for students that overlapping requests wrote.               *)
THEOREM PaymentsFollow == Spec => []PaymentsFollowStudents
BY Invariance, PTL DEF IInv

(* An entry of the activity log tells of a change that was committed.       *)
THEOREM TrueLog == Spec => []LogIsTrue
BY Invariance, PTL DEF IInv

(* Whichever list, profile, history, report or audit is asked, the students, *)
(* groups, siblings, payments and log entries it tells of agree with those of*)
(* every other one, but for the differences StudentPages names.              *)
THEOREM PagesStayInAgreement == Spec => []StudentPagesAgree
BY Invariance, UnlinkedInitially, UnlinkedKept, PagesAgreeNow, PTL DEF Spec
=============================================================================
