------------------------------ MODULE Students ------------------------------
(***************************************************************************)
(* Students, their parents and what hangs on them (app/modules/crm): the   *)
(* status, the soft delete that voids payments, the restore, the hard      *)
(* delete, and the enrollment that makes a waiting student active          *)
(* (enrollments/core/service.py).                                          *)
(*                                                                         *)
(* A request reads rows into objects and writes back the columns it has    *)
(* changed when it commits; nothing is locked in between, and some log     *)
(* what they did in a transaction that commits only after that.            *)
(*                                                                         *)
(* delete_student has no action: the repository it calls has no delete, so *)
(* it raises and is rolled back.  Nor have waiting priorities and notes.   *)
(***************************************************************************)
EXTENDS Naturals, FiniteSets

CONSTANTS
  Person,       \* a name, compared without case, and a date of birth
  Undated,      \* those whose date of birth is unknown
  Parent, Group,
  Request,      \* requests in progress at the same time
  NoRow,
  MaxStudents,  \* bound: students ever registered
  MaxPayments,  \* bound: payment rows ever inserted
  MaxOps        \* bound: requests that change something

StudentId  == 1 .. MaxStudents
PaymentId  == 1 .. MaxPayments
Status     == {"active", "waiting", "inactive"}
StudentRow == [who : Person, status : Status, deleted : BOOLEAN]
PaymentRow == [by : StudentId, for : SUBSET Group, void : BOOLEAN]

ASSUME ConstantsAssumption ==
  /\ MaxStudents \in Nat /\ MaxPayments \in Nat /\ MaxOps \in Nat
  /\ Undated \subseteq Person
  /\ NoRow \notin StudentRow /\ NoRow \notin PaymentRow

VARIABLES
  student,   \* the rows of students, by serial id
  ids,       \* the last id given
  parent,    \* the rows of parents
  link,      \* student_parents
  enrolled,  \* the active rows of enrollments
  payment,   \* payments, by serial id; void is deleted_at, for its enrollment
  pays,      \* the last of those ids
  log,       \* student_activity_log
  req,       \* requests between their reads and their commits
  ops,
  done,      \* history: what was committed, in the words of the log
  touched,   \* history: students that are not as they were registered
  raced,     \* history: pairs registered by overlapping requests
  rewaited,  \* history: students an administrator put on the waiting list
  torn,      \* history: students two overlapping requests wrote
  late,      \* history: payments of students deleted at the time
  undone     \* history: payments voided with their level

rows  == <<student, ids, parent, link, enrolled, payment, pays, log>>
ghost == <<done, touched, raced, rewaited, torn, late, undone>>
vars  == <<rows, req, ops, ghost>>

Entry == {"registered", "deleted", "enrolled", "active", "waiting", "inactive"} \X StudentId
Steps == {"idle", "register", "update", "status", "toggle", "delete", "restore", "hard",
          "enroll", "log"}

(* What a request carries: the row it read and the one it means to write,   *)
(* the payments it read, what it has to log, the students registered since, *)
(* and whether another request has committed a change of the student since. *)
Req == [step : Steps, id : 0 .. MaxStudents, seen : StudentRow \cup {NoRow},
        draft : StudentRow \cup {NoRow}, parents : SUBSET Parent, groups : SUBSET Group,
        read : SUBSET PaymentId, entries : SUBSET Entry, since : SUBSET StudentId,
        stale : BOOLEAN]

Idle == [step |-> "idle", id |-> 0, seen |-> NoRow, draft |-> NoRow, parents |-> {},
         groups |-> {}, read |-> {}, entries |-> {}, since |-> {}, stale |-> FALSE]

TypeOK ==
  /\ student \in [StudentId -> StudentRow \cup {NoRow}] /\ ids \in 0 .. MaxStudents
  /\ parent \subseteq Parent /\ link \subseteq StudentId \X Parent
  /\ enrolled \subseteq StudentId \X Group
  /\ payment \in [PaymentId -> PaymentRow \cup {NoRow}] /\ pays \in 0 .. MaxPayments
  /\ log \subseteq Entry /\ done \subseteq Entry
  /\ req \in [Request -> Req] /\ ops \in 0 .. MaxOps
  /\ touched \subseteq StudentId /\ raced \subseteq StudentId \X StudentId
  /\ rewaited \subseteq StudentId /\ torn \subseteq StudentId
  /\ late \subseteq PaymentId /\ undone \subseteq PaymentId

Init ==
  /\ student = [s \in StudentId |-> NoRow] /\ ids = 0
  /\ parent \in SUBSET Parent /\ link = {} /\ enrolled = {}
  /\ payment = [p \in PaymentId |-> NoRow] /\ pays = 0 /\ log = {}
  /\ req = [q \in Request |-> Idle] /\ ops = 0
  /\ done = {} /\ touched = {} /\ raced = {} /\ rewaited = {} /\ torn = {}
  /\ late = {} /\ undone = {}

There      == {s \in StudentId : student[s] # NoRow}
Live       == {s \in There : ~student[s].deleted}
Paid       == {p \in PaymentId : payment[p] # NoRow}
PaidBy(s)  == {p \in Paid : payment[p].by = s}
VoidOf(P)  == {p \in P : payment[p].void}

Op         == ops < MaxOps /\ ops' = ops + 1
Ends(q)    == req' = [req EXCEPT ![q] = Idle]

(* A request begins with its reads. *)
Begins(q, r) ==
  /\ req[q].step = "idle" /\ Op
  /\ req' = [req EXCEPT ![q] = r]
  /\ UNCHANGED <<rows, ghost>>

Reads(step, s) == [Idle EXCEPT !.step = step, !.id = s, !.seen = student[s]]

(* What the others in progress miss when student s is changed or, being     *)
(* registered, appears.                                                     *)
Behind(r, s) == IF r.step # "idle" /\ r.id = s THEN [r EXCEPT !.stale = TRUE] ELSE r
Missed(r, s) == IF r.step = "register" THEN [r EXCEPT !.since = @ \cup {s}] ELSE r

(* The request ends with its commit, or goes on to log what it has done. *)
Commits(q, entries) ==
  LET r == req[q] IN
  /\ done' = done \cup entries
  /\ torn' = IF r.stale THEN torn \cup {r.id} ELSE torn
  /\ req' = [p \in Request |-> IF p # q THEN Behind(req[p], r.id)
                               ELSE IF entries = {} THEN Idle
                               ELSE [Idle EXCEPT !.step = "log", !.id = r.id, !.entries = entries]]

(* The same with the log in the transaction of the change. *)
CommitsLogged(q, entries) ==
  LET r == req[q] IN
  /\ log' = log \cup entries /\ done' = done \cup entries
  /\ torn' = IF r.stale THEN torn \cup {r.id} ELSE torn
  /\ req' = [p \in Request |-> IF p = q THEN Idle ELSE Behind(req[p], r.id)]

(* The row went with a hard delete: the update matches none, and fails. *)
Fails(q) == Ends(q) /\ UNCHANGED <<rows, ghost>>

(***************************************************************************)
(* register_student.                                                       *)
(***************************************************************************)

(* Faulty variant: only active students are compared. *)
KnownActive(w) == w \notin Undated /\ \E s \in Live : student[s].who = w /\ student[s].status = "active"

(* get_by_name_and_dob, asked only if the date of birth is known. *)
Known(w) == w \notin Undated /\ \E s \in Live : student[s].who = w

Register(q, w, status, P) ==
  /\ P \subseteq parent /\ ~Known(w)
  /\ Begins(q, [Idle EXCEPT !.step = "register", !.parents = P,
                            !.draft = [who |-> w, status |-> status, deleted |-> FALSE]])

(* Student, link and log in one transaction; the foreign key of the link *)
(* refuses a parent that is gone.                                        *)
RegisterCommit(q) ==
  LET r == req[q]  s == ids + 1 IN
  /\ r.step = "register" /\ ids < MaxStudents
  /\ IF r.parents \subseteq parent
     THEN /\ student' = [student EXCEPT ![s] = r.draft] /\ ids' = s
          /\ link' = link \cup ({s} \X r.parents)
          /\ log' = log \cup {<<"registered", s>>} /\ done' = done \cup {<<"registered", s>>}
          /\ raced' = raced \cup ({s} \X r.since)
          /\ req' = [p \in Request |-> IF p = q THEN Idle ELSE Missed(req[p], s)]
          /\ UNCHANGED <<parent, enrolled, payment, pays, touched, rewaited, torn, late, undone>>
     ELSE Fails(q)
  /\ UNCHANGED ops

(***************************************************************************)
(* update_student, update_status and toggle_status.                        *)
(***************************************************************************)

(* Any of the columns; those that keep the value that was read are not    *)
(* written.  No duplicate is looked for and nothing is logged.            *)
Update(q, s, row) ==
  /\ s \in Live /\ row # student[s] /\ ~row.deleted
  /\ Begins(q, [Reads("update", s) EXCEPT !.draft = row])

UpdateCommit(q) ==
  LET r == req[q]  s == r.id IN
  /\ r.step = "update"
  /\ IF s \in There
     THEN /\ student' = [student EXCEPT
               ![s].who    = IF r.draft.who # r.seen.who THEN r.draft.who ELSE @,
               ![s].status = IF r.draft.status # r.seen.status THEN r.draft.status ELSE @]
          /\ touched' = IF r.draft.who # r.seen.who THEN touched \cup {s} ELSE touched
          /\ rewaited' = IF r.draft.status = "waiting" THEN rewaited \cup {s} ELSE rewaited
          /\ Commits(q, {})
          /\ UNCHANGED <<ids, parent, link, enrolled, payment, pays, log, raced, late, undone>>
     ELSE Fails(q)
  /\ UNCHANGED ops

SetStatus(q, s, status) ==
  /\ s \in Live /\ status # student[s].status
  /\ Begins(q, [Reads("status", s) EXCEPT !.draft = [student[s] EXCEPT !.status = status]])

(* Change and log are committed together, by get_db. *)
SetStatusCommit(q) ==
  LET r == req[q]  s == r.id IN
  /\ r.step = "status"
  /\ IF s \in There
     THEN /\ student' = [student EXCEPT ![s].status = r.draft.status]
          /\ rewaited' = IF r.draft.status = "waiting" THEN rewaited \cup {s} ELSE rewaited
          /\ CommitsLogged(q, {<<r.draft.status, s>>})
          /\ UNCHANGED <<ids, parent, link, enrolled, payment, pays, touched, raced, late, undone>>
     ELSE Fails(q)
  /\ UNCHANGED ops

Toggled(status) == IF status = "active" THEN "inactive" ELSE "active"

(* Faulty variant: the log comes first, and is committed. *)
ToggleLogged(q, s) ==
  /\ s \in Live /\ req[q].step = "idle" /\ Op
  /\ req' = [req EXCEPT ![q] = [Reads("toggle", s) EXCEPT
                                  !.draft = [student[s] EXCEPT !.status = Toggled(@)]]]
  /\ log' = log \cup {<<Toggled(student[s].status), s>>}
  /\ UNCHANGED <<student, ids, parent, link, enrolled, payment, pays, ghost>>

Toggle(q, s) ==
  /\ s \in Live
  /\ Begins(q, [Reads("toggle", s) EXCEPT
                  !.draft = [student[s] EXCEPT !.status = Toggled(@)]])

(* The change is committed, and logged after that. *)
ToggleCommit(q) ==
  LET r == req[q]  s == r.id IN
  /\ r.step = "toggle"
  /\ IF s \in There
     THEN /\ student' = [student EXCEPT ![s].status = r.draft.status]
          /\ Commits(q, {<<r.draft.status, s>>})
          /\ UNCHANGED <<ids, parent, link, enrolled, payment, pays, log,
                         touched, raced, rewaited, late, undone>>
     ELSE Fails(q)
  /\ UNCHANGED ops

(* The log of a committed change, unless the student is gone by then. *)
Log(q) ==
  LET r == req[q] IN
  /\ r.step = "log"
  /\ log' = IF r.id \in There THEN log \cup r.entries ELSE log
  /\ Ends(q)
  /\ UNCHANGED <<student, ids, parent, link, enrolled, payment, pays, ops, ghost>>

(***************************************************************************)
(* soft_delete_student, restore_student and hard_delete_student.           *)
(***************************************************************************)
SoftDelete(q, s) ==
  /\ s \in Live
  /\ Begins(q, [Reads("delete", s) EXCEPT !.read = PaidBy(s)])

Voided(P, void) == [p \in PaymentId |-> IF p \in P THEN [payment[p] EXCEPT !.void = void]
                                        ELSE payment[p]]

(* Faulty variant: the payments stay. *)
SoftDeleteCommitAlone(q) ==
  LET r == req[q]  s == r.id IN
  /\ r.step = "delete" /\ s \in There
  /\ student' = [student EXCEPT ![s].deleted = TRUE]
  /\ Commits(q, {<<"deleted", s>>})
  /\ UNCHANGED <<ids, parent, link, enrolled, payment, pays, log, ops,
                 touched, raced, rewaited, late, undone>>

(* Every payment that was read goes with the student. *)
SoftDeleteCommit(q) ==
  LET r == req[q]  s == r.id IN
  /\ r.step = "delete"
  /\ IF s \in There
     THEN /\ student' = [student EXCEPT ![s].deleted = TRUE]
          /\ payment' = Voided(r.read, TRUE)
          /\ Commits(q, {<<"deleted", s>>})
          /\ UNCHANGED <<ids, parent, link, enrolled, pays, log,
                         touched, raced, rewaited, late, undone>>
     ELSE Fails(q)
  /\ UNCHANGED ops

(* A payment that is not void when it is read is not written. *)
Restore(q, s) ==
  /\ s \in There \ Live
  /\ Begins(q, [Reads("restore", s) EXCEPT !.read = VoidOf(PaidBy(s))])

(* All of them come back, also those that were voided for another reason, *)
(* and no duplicate is looked for.                                        *)
RestoreCommit(q) ==
  LET r == req[q]  s == r.id IN
  /\ r.step = "restore"
  /\ IF s \in There
     THEN /\ student' = [student EXCEPT ![s].deleted = FALSE]
          /\ payment' = Voided(r.read, FALSE)
          /\ touched' = touched \cup {s}
          /\ Commits(q, {<<"registered", s>>})
          /\ UNCHANGED <<ids, parent, link, enrolled, pays, log, raced, rewaited, late, undone>>
     ELSE Fails(q)
  /\ UNCHANGED ops

HardDelete(q, s) == s \in There /\ Begins(q, Reads("hard", s))

Others(R, s) == {x \in R : x[1] # s}

(* Faulty variant: the payments are not deleted, and nothing refuses that. *)
HardDeleteCommitKeepsPayments(q) ==
  LET r == req[q]  s == r.id IN
  /\ r.step = "hard" /\ s \in There
  /\ student' = [student EXCEPT ![s] = NoRow]
  /\ link' = Others(link, s) /\ enrolled' = Others(enrolled, s)
  /\ log' = {e \in log : e[2] # s}
  /\ Commits(q, {})
  /\ UNCHANGED <<ids, parent, payment, pays, ops, touched, raced, rewaited, late, undone>>

(* Everything of the student goes, in an order its foreign keys allow. *)
HardDeleteCommit(q) ==
  LET r == req[q]  s == r.id IN
  /\ r.step = "hard"
  /\ IF s \in There
     THEN /\ student' = [student EXCEPT ![s] = NoRow]
          /\ link' = Others(link, s) /\ enrolled' = Others(enrolled, s)
          /\ payment' = [p \in PaymentId |-> IF p \in PaidBy(s) THEN NoRow ELSE payment[p]]
          /\ log' = {e \in log : e[2] # s}
          /\ Commits(q, {})
          /\ UNCHANGED <<ids, parent, pays, touched, raced, rewaited, late, undone>>
     ELSE Fails(q)
  /\ UNCHANGED ops

(* The payment of a competition refers to a member, and the members go     *)
(* first: with one the whole fails.  So do rows inserted in the meantime.  *)
HardDeleteRefused(q) == req[q].step = "hard" /\ Fails(q) /\ UNCHANGED ops

(***************************************************************************)
(* enroll_student, drop_enrollment and delete_level.                       *)
(***************************************************************************)

(* The student is read in a session of its own, which then ends. *)
Enroll(q, s, g) ==
  /\ s \in Live /\ student[s].status # "inactive"
  /\ Begins(q, [Reads("enroll", s) EXCEPT !.groups = {g}])

(* Faulty variant: the student stays on the waiting list. *)
MergedNever(r) == student[r.id]

(* A waiting student is written back as read, now active: the merge brings *)
(* back every column of the row.                                           *)
Merged(r) == IF r.seen.status = "waiting" THEN [r.seen EXCEPT !.status = "active"]
             ELSE student[r.id]

(* The foreign key refuses a student that is gone, the unique index one     *)
(* that is enrolled by now.                                                 *)
EnrollCommit(q) ==
  LET r == req[q]  s == r.id IN
  /\ r.step = "enroll"
  /\ IF s \in There /\ {s} \X r.groups \cap enrolled = {}
     THEN /\ enrolled' = enrolled \cup ({s} \X r.groups)
          /\ student' = [student EXCEPT ![s] = Merged(r)]
          /\ touched' = IF Merged(r).who # student[s].who \/ Merged(r).deleted # student[s].deleted
                        THEN touched \cup {s} ELSE touched
          /\ Commits(q, {<<"enrolled", s>>}
                        \cup IF r.seen.status = "waiting" THEN {<<"active", s>>} ELSE {})
          /\ UNCHANGED <<ids, parent, link, payment, pays, log, raced, rewaited, late, undone>>
     ELSE Fails(q)
  /\ UNCHANGED ops

(* An enrollment that ends, whatever ends it; the payments keep it. *)
Leave(s, g) ==
  /\ Op /\ <<s, g>> \in enrolled /\ enrolled' = enrolled \ {<<s, g>>}
  /\ UNCHANGED <<student, ids, parent, link, payment, pays, log, req, ghost>>

(* delete_level voids the payments of the enrollments at the level, those   *)
(* of the students S, and deletes these enrollments; a student with one at  *)
(* the level below is back in it.                                           *)
DeleteLevel(g, S) ==
  LET P == {p \in Paid : payment[p].by \in S /\ payment[p].for = {g}} IN
  /\ Op /\ S # {} /\ S \X {g} \subseteq enrolled
  /\ undone' = undone \cup {p \in P : ~payment[p].void}
  /\ payment' = [p \in PaymentId |-> IF p \in P THEN [payment[p] EXCEPT !.void = TRUE, !.for = {}]
                                     ELSE payment[p]]
  /\ \E gone \in SUBSET S : enrolled' = enrolled \ (gone \X {g})
  /\ req' = [q \in Request |-> IF req[q].id \in S THEN Behind(req[q], req[q].id) ELSE req[q]]
  /\ UNCHANGED <<student, ids, parent, link, pays, log,
                 done, touched, raced, rewaited, torn, late>>

(***************************************************************************)
(* Receipts and parents.                                                   *)
(***************************************************************************)

(* create_receipt, with or without an enrollment: whether the student is   *)
(* deleted is not asked.                                                   *)
Pay(s, F) ==
  LET p == pays + 1 IN
  /\ Op /\ s \in There /\ p \in PaymentId /\ {s} \X F \subseteq enrolled
  /\ payment' = [payment EXCEPT ![p] = [by |-> s, for |-> F, void |-> FALSE]]
  /\ pays' = p
  /\ late' = IF s \in Live THEN late ELSE late \cup {p}
  /\ req' = [q \in Request |-> Behind(req[q], s)]
  /\ UNCHANGED <<student, ids, parent, link, enrolled, log,
                 done, touched, raced, rewaited, torn, undone>>

CreateParent(m) ==
  /\ Op /\ m \notin parent /\ parent' = parent \cup {m}
  /\ UNCHANGED <<student, ids, link, enrolled, payment, pays, log, req, ghost>>

(* The links go with their parent. *)
DeleteParent(m) ==
  /\ Op /\ m \in parent /\ parent' = parent \ {m}
  /\ link' = {l \in link : l[2] # m}
  /\ UNCHANGED <<student, ids, enrolled, payment, pays, log, req, ghost>>

(* The process ends with the requests it serves. *)
Crash ==
  /\ req' = [q \in Request |-> Idle] /\ req' # req
  /\ UNCHANGED <<rows, ops, ghost>>

(***************************************************************************)
(* The specification.                                                      *)
(***************************************************************************)
Asks(q) ==
  \/ \E w \in Person, x \in Status, P \in SUBSET Parent : Register(q, w, x, P)
  \/ \E s \in StudentId :
       \/ \E row \in StudentRow : Update(q, s, row)
       \/ \E x \in Status : SetStatus(q, s, x)
       \/ Toggle(q, s) \/ SoftDelete(q, s) \/ Restore(q, s) \/ HardDelete(q, s)
       \/ \E g \in Group : Enroll(q, s, g)

Goes(q) ==
  \/ RegisterCommit(q) \/ UpdateCommit(q) \/ SetStatusCommit(q) \/ ToggleCommit(q) \/ Log(q)
  \/ SoftDeleteCommit(q) \/ RestoreCommit(q) \/ HardDeleteCommit(q) \/ HardDeleteRefused(q)
  \/ EnrollCommit(q)

AtOnce ==
  \/ \E g \in Group : \/ \E S \in SUBSET StudentId : DeleteLevel(g, S)
                      \/ \E s \in StudentId : Leave(s, g) \/ Pay(s, {g})
  \/ \E s \in StudentId : Pay(s, {})
  \/ \E m \in Parent : CreateParent(m) \/ DeleteParent(m)

Next == (\E q \in Request : Asks(q) \/ Goes(q)) \/ AtOnce \/ Crash

Spec == Init /\ [][Next]_vars

(***************************************************************************)
(* Properties.                                                             *)
(***************************************************************************)

(* No enrollment, payment, link or log outlives its student, and no link its *)
(* parent, whatever deletions overlap with whatever inserts.                 *)
NothingIsLeftBehind ==
  /\ \A x \in enrolled : x[1] \in There
  /\ \A x \in link : x[1] \in There /\ x[2] \in parent
  /\ \A e \in log : e[2] \in There
  /\ \A p \in Paid : payment[p].by \in There

(* Two live students share a name and a date of birth only if one of them    *)
(* was renamed, restored or brought back, or if overlapping requests         *)
(* registered them.                                                          *)
DuplicatesAreExplained ==
  \A s, t \in Live :
    /\ s # t /\ student[s].who = student[t].who /\ student[s].who \notin Undated
    => {s, t} \cap touched # {} \/ <<s, t>> \in raced \/ <<t, s>> \in raced

(* Whoever is enrolled has left the waiting list, unless an administrator    *)
(* put the student back on it.                                               *)
EnrolledDoNotWait ==
  \A x \in enrolled : student[x[1]].status = "waiting" => x[1] \in rewaited

(* The payments of a deleted student are void, but for those made since, and *)
(* those of a live one are not, but for those of a deleted level, unless     *)
(* overlapping requests wrote the student.                                   *)
PaymentsFollowStudents ==
  \A p \in Paid :
    LET s == payment[p].by IN
    s \in torn \/ IF s \in Live THEN payment[p].void => p \in undone
                  ELSE ~payment[p].void => p \in late

(* The log tells of nothing that was not committed. *)
LogIsTrue == log \subseteq done
=============================================================================
