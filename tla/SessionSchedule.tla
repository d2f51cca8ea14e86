-------------------------- MODULE SessionSchedule --------------------------
(***************************************************************************)
(* The sessions of one level of one group (session/service.py): their      *)
(* numbering under add_extra_session, update_session, delete_session,      *)
(* cancel_session and reactivate_session, with the attendance rows that    *)
(* refer to them (attendance_service.py).                                  *)
(*                                                                         *)
(* A request is one PostgreSQL transaction at READ COMMITTED.  It reads    *)
(* rows into Python objects, computes, and writes back absolute numbers;   *)
(* a step of the model is what happens between two waits of a request:     *)
(* reads that are not separated by a write are taken at one moment, and    *)
(* the final flush and its commit are one step.                            *)
(***************************************************************************)
EXTENDS Naturals, FiniteSets

CONSTANTS
  Request,        \* requests that can run at the same time
  PerLevel,       \* sessions created with the level
  MaxSessions,    \* bound: rows ever inserted in sessions
  MaxMarks,       \* bound: attendance marked by hand
  Operations,     \* the operations requests call
  StatusPatches   \* the <<from, to>> changes of status sent to update_session

Operation == {"extra", "delete", "cancel", "reactivate"}
Status    == {"scheduled", "completed", "cancelled"}

ASSUME ConstantsAssumption ==
  /\ PerLevel \in Nat /\ MaxSessions \in Nat /\ MaxMarks \in Nat
  /\ PerLevel <= MaxSessions
  /\ Operations \subseteq Operation
  /\ StatusPatches \subseteq Status \X Status

SessionId == 1 .. MaxSessions

VARIABLES
  status,      \* status column; "absent" before the insert, "deleted" after a delete
  number,      \* session_number
  attendance,  \* status of the attendance rows of a session, "none" without any
  marks,       \* attendance marked so far
  tx           \* the transaction of each request

vars == <<status, number, attendance, marks, tx>>
rows == <<status, number, attendance>>

Exists(s) == status[s] \in Status
Held      == {s \in SessionId : Exists(s) /\ status[s] # "cancelled"}

Largest(N)  == CHOOSE n \in N : \A m \in N : m <= n
Smallest(N) == CHOOSE n \in N : \A m \in N : n <= m

(* Faulty variant: the largest number itself. *)
NextNumberTaken(num, S) == Largest({num[s] : s \in S} \cup {1})

(* get_next_session_number over the rows S: cancelled ones count too. *)
NextNumber(num, S) == Largest({num[s] : s \in S} \cup {0}) + 1

(* The loop of reactivate_session over the sessions in the order of their  *)
(* numbers: it stops at the first one whose number is larger than its rank.*)
FirstGap ==
  Smallest({e \in 1 .. (Cardinality(Held) + 1) :
              Cardinality({s \in Held : number[s] <= e}) < e})

(* What a request carries: the session it is about, a number it has read,  *)
(* the numbers it is going to write, and what a reactivation deletes.      *)
Transaction ==
  [step : {"idle", "extra", "cancel_loaded", "cancel_locked", "reactivate"},
   id : SessionId \cup {0}, slot : Nat, writes : UNION {[S -> Nat] : S \in SUBSET SessionId},
   drop : SUBSET SessionId, marked : BOOLEAN]

NoTx == [step |-> "idle", id |-> 0, slot |-> 0, writes |-> <<>>, drop |-> {},
         marked |-> FALSE]

(* The row lock an UPDATE takes until its transaction ends. *)
LockedByOther(w, s) == \E v \in Request \ {w} : tx[v].step = "cancel_locked" /\ tx[v].id = s
Locked(s)           == \E v \in Request : tx[v].step = "cancel_locked" /\ tx[v].id = s

(* The id the next INSERT gets. *)
NewId(s) == status[s] = "absent" /\ \A t \in 1 .. (s - 1) : status[t] # "absent"

(* Levels are created with their sessions (create_sessions_in_session).    *)
Init ==
  /\ status     = [s \in SessionId |-> IF s <= PerLevel THEN "scheduled" ELSE "absent"]
  /\ number     = [s \in SessionId |-> IF s <= PerLevel THEN s ELSE 0]
  /\ attendance = [s \in SessionId |-> "none"]
  /\ marks      = 0
  /\ tx         = [w \in Request |-> NoTx]

Begin(w, t) == tx[w].step = "idle" /\ tx' = [tx EXCEPT ![w] = t]
End(w)      == tx' = [tx EXCEPT ![w] = NoTx]

(* The numbers once a request has written the ones it computed. *)
Written(w) == [t \in SessionId |->
                 IF t \in DOMAIN tx[w].writes THEN tx[w].writes[t] ELSE number[t]]
CanWrite(w) == \A t \in DOMAIN tx[w].writes : Exists(t) /\ ~ LockedByOther(w, t)

(***************************************************************************)
(* add_extra_session: SELECT max(session_number), then INSERT.             *)
(***************************************************************************)
ExtraRead(w) ==
  /\ "extra" \in Operations
  /\ Begin(w, [NoTx EXCEPT !.step = "extra",
                           !.slot = NextNumber(number, {s \in SessionId : Exists(s)})])
  /\ UNCHANGED <<rows, marks>>

ExtraInsert(w) ==
  /\ tx[w].step = "extra"
  /\ \E s \in SessionId :
       /\ NewId(s)
       /\ status' = [status EXCEPT ![s] = "scheduled"]
       /\ number' = [number EXCEPT ![s] = tx[w].slot]
  /\ End(w)
  /\ UNCHANGED <<attendance, marks>>

(***************************************************************************)
(* delete_session.  attendance.session_id is ON DELETE RESTRICT; the       *)
(* numbers of the others are left alone.                                   *)
(***************************************************************************)
Delete(s) ==
  /\ "delete" \in Operations
  /\ Exists(s)
  /\ ~ Locked(s)
  /\ attendance[s] = "none"
  /\ status' = [status EXCEPT ![s] = "deleted"]
  /\ number' = [number EXCEPT ![s] = 0]
  /\ UNCHANGED <<attendance, marks, tx>>

(* update_session with a status: the number is left alone. *)
PatchStatus(s, to) ==
  /\ <<status[s], to>> \in StatusPatches
  /\ ~ Locked(s)
  /\ status' = [status EXCEPT ![s] = to]
  /\ UNCHANGED <<number, attendance, marks, tx>>

(* mark_session_attendance: the status of the session is not looked at.    *)
(* The upsert waits for a transaction that has updated the row.            *)
MarkAttendance(s, st) ==
  /\ marks < MaxMarks
  /\ Exists(s)
  /\ \A v \in Request : ~ (tx[v].step = "cancel_locked" /\ tx[v].id = s /\ tx[v].marked)
  /\ attendance' = [attendance EXCEPT ![s] = st]
  /\ marks' = marks + 1
  /\ UNCHANGED <<status, number, tx>>

(***************************************************************************)
(* cancel_session: it returns at once on a cancelled session.              *)
(***************************************************************************)
CancelLoad(w, s) ==
  /\ "cancel" \in Operations
  /\ s \in Held
  /\ Begin(w, [NoTx EXCEPT !.step = "cancel_loaded", !.id = s, !.slot = number[s]])
  /\ UNCHANGED <<rows, marks>>

(* Faulty variants of the filter on the sessions to renumber. *)
LaterScheduled(s, n) == {t \in Held \ {s} : number[t] > n /\ status[t] = "scheduled"}
LaterNone(s, n)      == {}

(* stmt_future: the sessions numbered after the cancelled one. *)
Later(s, n) == {t \in Held \ {s} : number[t] > n}

(* Faulty variant: the number of the cancelled session is not reset. *)
CancelWritesKeepingOwn(s, n) == [t \in Later(s, n) |-> number[t] - 1]

CancelWrites(s, n) ==
  [t \in Later(s, n) \cup {s} |-> IF t = s THEN 0 ELSE number[t] - 1]

(* The first flush writes the session itself and so locks its row; the     *)
(* later sessions are read after it.                                       *)
CancelLock(w) ==
  LET s == tx[w].id IN
  /\ tx[w].step = "cancel_loaded"
  /\ Exists(s)
  /\ ~ LockedByOther(w, s)
  /\ tx' = [tx EXCEPT ![w].step   = "cancel_locked",
                      ![w].writes = CancelWrites(s, tx[w].slot),
                      ![w].marked = attendance[s] # "none"]
  /\ UNCHANGED <<rows, marks>>

(* Faulty variant: cancelled without a replacement. *)
NoReplacement(w, r) ==
  /\ NewId(r)
  /\ status' = [status EXCEPT ![tx[w].id] = "cancelled"]
  /\ number' = Written(w)

(* The replacement goes after the last number. *)
Replacement(w, r) ==
  /\ NewId(r)
  /\ status'    = [status EXCEPT ![tx[w].id] = "cancelled", ![r] = "scheduled"]
  /\ number'    = [Written(w) EXCEPT
                     ![r] = NextNumber(Written(w), {t \in SessionId : Exists(t)})]

CancelCommit(w) ==
  /\ tx[w].step = "cancel_locked"
  /\ CanWrite(w)
  /\ \E r \in SessionId : Replacement(w, r)
  /\ attendance' = [attendance EXCEPT ![tx[w].id] =
                      IF tx[w].marked THEN "cancelled" ELSE @]
  /\ End(w)
  /\ UNCHANGED marks

(***************************************************************************)
(* reactivate_session.                                                     *)
(***************************************************************************)

(* stmt_replacement: the session with the largest number, if there is one. *)
LastHeld == {t \in Held : \A u \in Held : number[u] <= number[t]}

ReactivateWrites(s) ==
  [t \in {u \in Held : number[u] >= FirstGap} \cup {s} |->
     IF t = s THEN FirstGap ELSE number[t] + 1]

ReactivateLoad(w, s) ==
  /\ "reactivate" \in Operations
  /\ status[s] = "cancelled"
  /\ \E drop \in IF Held = {} THEN {{}} ELSE {{t} : t \in LastHeld} :
       Begin(w, [NoTx EXCEPT !.step   = "reactivate",
                             !.id     = s,
                             !.writes = ReactivateWrites(s),
                             !.drop   = drop])
  /\ UNCHANGED <<rows, marks>>

(* One flush writes the numbers and deletes; a session with attendance     *)
(* cannot be deleted.  Every attendance row of the session becomes         *)
(* "present", whatever it said before the cancellation.                    *)
ReactivateCommit(w) ==
  LET gone == {t \in tx[w].drop : Exists(t)} IN
  /\ tx[w].step = "reactivate"
  /\ CanWrite(w)
  /\ \A t \in gone : attendance[t] = "none" /\ ~ LockedByOther(w, t)
  /\ status' = [t \in SessionId |-> IF t \in gone THEN "deleted"
                                    ELSE IF t = tx[w].id THEN "scheduled"
                                    ELSE status[t]]
  /\ number' = [t \in SessionId |-> IF t \in gone THEN 0 ELSE Written(w)[t]]
  /\ attendance' = [attendance EXCEPT ![tx[w].id] =
                      IF @ = "none" THEN "none" ELSE "present"]
  /\ End(w)
  /\ UNCHANGED marks

(* A request that cannot go on (a row it must write is gone, a delete is   *)
(* refused, the database breaks a deadlock, the connection drops) rolls    *)
(* back.                                                                   *)
Rollback(w) ==
  /\ tx[w].step # "idle"
  /\ End(w)
  /\ UNCHANGED <<rows, marks>>

Next ==
  \/ \E w \in Request :
       \/ ExtraRead(w) \/ ExtraInsert(w)
       \/ CancelLock(w) \/ CancelCommit(w)
       \/ ReactivateCommit(w) \/ Rollback(w)
       \/ \E s \in SessionId : CancelLoad(w, s) \/ ReactivateLoad(w, s)
  \/ \E s \in SessionId : Delete(s)
  \/ \E s \in SessionId : \E to \in Status : PatchStatus(s, to)
  \/ \E s \in SessionId : \E st \in {"present", "absent", "cancelled"} :
       MarkAttendance(s, st)

Spec == Init /\ [][Next]_vars

(***************************************************************************)
(* Properties.                                                             *)
(***************************************************************************)

(* Every variable has its type.                                            *)
TypeOK ==
  /\ status     \in [SessionId -> Status \cup {"absent", "deleted"}]
  /\ number     \in [SessionId -> Nat]
  /\ attendance \in [SessionId -> {"none", "present", "absent", "cancelled"}]
  /\ marks      \in 0 .. MaxMarks
  /\ tx         \in [Request -> Transaction]

(* Requests one at a time, and no status patched into or out of            *)
(* "cancelled": sessions that take place have distinct numbers.  The       *)
(* sessions table has no constraint for it; cancel_session and             *)
(* reactivate_session keep it by renumbering.                              *)
UniqueNumbers ==
  \A s, t \in Held : s # t => number[s] # number[t]

(* Under the same conditions the number says whether a session takes       *)
(* place: 0 for the cancelled ones, at least 1 for the others.             *)
CancelledIsZero ==
  \A s \in SessionId : Exists(s) => (status[s] = "cancelled" <=> number[s] = 0)

(* Under the same conditions renumbering never swaps two sessions that     *)
(* take place before and after a step.                                     *)
OrderKept ==
  [][\A s, t \in Held \cap Held' : number[s] < number[t] => number'[s] < number'[t]]_vars

(* Under the same conditions cancelling, reactivating and adding keep the  *)
(* number of sessions students get; only delete_session lowers it.         *)
LessonsKept ==
  [][Cardinality(Held') < Cardinality(Held)
       => UNCHANGED tx /\ \E s \in Held : status'[s] = "deleted"]_vars

(* Under the same conditions the sessions of a level are numbered 1 to n   *)
(* without a gap (what the report of the third session relies on), unless  *)
(* one was deleted, by delete_session or for a reactivation.               *)
GapsNeedDeletes ==
  \/ {number[s] : s \in Held} = 1 .. Cardinality(Held)
  \/ \E s \in SessionId : status[s] = "deleted"
=============================================================================
