----------------------------- MODULE GroupLevels -----------------------------
(***************************************************************************)
(* The levels of the groups (group/lifecycle/service.py, group/level/      *)
(* service.py) and the enrollments of the students in them (enrollments/   *)
(* core/service.py, enrollments/lifecycle/service.py), over the tables     *)
(* groups, group_levels and enrollments.                                   *)
(*                                                                         *)
(* A request is one PostgreSQL session at READ COMMITTED.  A step of the   *)
(* model is what a request reads before its first write, or its writes up  *)
(* to their commit; operations whose reads only guard their writes are one *)
(* step.  Sessions, attendance, prices and logs that follow a level are    *)
(* left out, and so is the state of a student.                             *)
(***************************************************************************)
EXTENDS Integers, Sequences, FiniteSets, SequencesExt

CONSTANTS
  Request,    \* requests that can run at the same time
  Student,    \* students that may be enrolled
  Group,      \* groups
  Strides,    \* how far a client's target_level is from the current one
  MaxLevel,   \* bound: level numbers
  MaxRows     \* bound: rows ever inserted in enrollments

ASSUME ConstantsAssumption ==
  /\ Strides \subseteq Nat \ {0}
  /\ MaxLevel \in Nat \ {0}
  /\ MaxRows \in Nat

Level == 1 .. MaxLevel

VARIABLES
  open,     \* the groups whose status is active
  current,  \* groups.level_number
  level,    \* status of the rows of group_levels, "none" without a row
  rows,     \* the rows of enrollments; a deleted one keeps its place
  tx,       \* where each request is and what it has read
  memo      \* the group as the last progression found it, until it changes otherwise

vars == <<open, current, level, rows, tx, memo>>

Idle    == [step |-> "idle"]
Nothing == [done |-> FALSE]

Largest(N) == CHOOSE n \in N : \A m \in N : m <= n

RowsOf(g)     == {i \in DOMAIN rows : rows[i].status # "deleted" /\ rows[i].group = g}
RowsAt(g, l)  == {i \in RowsOf(g) : rows[i].level = l}
Enrolled(g)   == {i \in RowsOf(g) : rows[i].status = "active"}
Existing(g)   == {l \in Level : level[g][l] # "none"}
Snapshot(g)   == [level |-> level[g], current |-> current[g], enrolled |-> Enrolled(g)]

(* idx_enrollments_active_unique: one active row per student and group. *)
UniqueIndex(R) ==
  LET active == {i \in DOMAIN R : R[i].status = "active"} IN
  \A i, j \in active :
    R[i].student = R[j].student /\ R[i].group = R[j].group => i = j

(* What is left of a row once it is deleted: no query finds it. *)
Gone == [status |-> "deleted", group |-> 0, source |-> 0]

NewRow(s, g, l, source) ==
  [student |-> s, group |-> g, level |-> l, status |-> "active", source |-> source]

(* create_group_with_first_level: a group, its first level, and no one in. *)
Init ==
  /\ open    = Group
  /\ current = [g \in Group |-> 1]
  /\ level   = [g \in Group |-> [l \in Level |-> IF l = 1 THEN "active" ELSE "none"]]
  /\ rows    = <<>>
  /\ tx      = [w \in Request |-> Idle]
  /\ memo    = [g \in Group |-> Nothing]

Begin(w, t) == tx[w] = Idle /\ tx' = [tx EXCEPT ![w] = t]
AtOnce(w)   == tx[w] = Idle /\ UNCHANGED tx
End(w)      == tx' = [tx EXCEPT ![w] = Idle]
Changed(G)  == memo' = [g \in Group |-> IF g \in G THEN Nothing ELSE memo[g]]

WriteRows(R) == Len(R) <= MaxRows /\ UniqueIndex(R) /\ rows' = R

(***************************************************************************)
(* Enrollments: enroll_student, transfer_student, drop_enrollment.         *)
(***************************************************************************)

(* The group is read in a session of its own. *)
EnrollRead(w, s, g) ==
  /\ g \in open
  /\ Len(rows) < MaxRows
  /\ Begin(w, [step |-> "enroll", student |-> s, group |-> g, level |-> current[g]])
  /\ UNCHANGED <<open, current, level, rows, memo>>

EnrollInsert(w) ==
  /\ tx[w].step = "enroll"
  /\ WriteRows(Append(rows, NewRow(tx[w].student, tx[w].group, tx[w].level, 0)))
  /\ End(w)
  /\ Changed({tx[w].group})
  /\ UNCHANGED <<open, current, level>>

Transferable(i) == rows[i].status = "active"

TransferRead(w, i, g) ==
  /\ Len(rows) < MaxRows
  /\ i \in DOMAIN rows
  /\ g \in open
  /\ Transferable(i)
  /\ Begin(w, [step |-> "transfer", id |-> i, group |-> g, level |-> current[g]])
  /\ UNCHANGED <<open, current, level, rows, memo>>

(* The UPDATE of the source names its id only. *)
TransferCommit(w) ==
  LET i == tx[w].id IN
  /\ tx[w].step = "transfer"
  /\ rows[i].status # "deleted"
  /\ WriteRows(Append([rows EXCEPT ![i].status = "transferred"],
                      NewRow(rows[i].student, tx[w].group, tx[w].level, i)))
  /\ End(w)
  /\ Changed({rows[i].group, tx[w].group})
  /\ UNCHANGED <<open, current, level>>

(* drop_enrollment: whatever the status is. *)
Drop(w, i) ==
  /\ AtOnce(w)
  /\ i \in DOMAIN rows
  /\ rows[i].status # "deleted"
  /\ WriteRows([rows EXCEPT ![i].status = "dropped"])
  /\ Changed({rows[i].group})
  /\ UNCHANGED <<open, current, level>>

(***************************************************************************)
(* progress_to_next_level.                                                 *)
(***************************************************************************)

(* The largest active level, and the checks on the new one. *)
ProgressRead(w, g, stride, complete, migrate) ==
  LET held == {l \in Level : level[g][l] = "active"}
      from == Largest(held)
      to   == from + stride IN
  /\ held # {}
  /\ to \in Level
  /\ level[g][to] = "none"
  /\ Begin(w, [step |-> "progress", group |-> g, from |-> from, to |-> to,
               complete |-> complete, migrate |-> migrate])
  /\ memo' = [memo EXCEPT ![g] = [done |-> FALSE, by |-> w, was |-> Snapshot(g)]]
  /\ UNCHANGED <<open, current, level, rows>>

(* The rows a progression that has flushed its level keeps from others. *)
Migrating(v, g)     == tx[v].step = "migrate" /\ tx[v].group = g
LevelLocked(g, l)   == \E v \in Request : Migrating(v, g) /\ tx[v].complete /\ tx[v].from = l
LevelInserted(g, l) == \E v \in Request : Migrating(v, g) /\ tx[v].to = l

(* The old level is completed and the new one inserted, both flushed; then *)
(* migrate_enrollments_to_next_level reads the active enrollments.         *)
ProgressLoad(w) ==
  LET t == tx[w] IN
  /\ t.step = "progress"
  /\ level[t.group][t.to] = "none"
  /\ ~ LevelInserted(t.group, t.to)
  /\ t.complete => level[t.group][t.from] # "none" /\ ~ LevelLocked(t.group, t.from)
  /\ tx' = [tx EXCEPT ![w] =
       [step |-> "migrate", group |-> t.group, from |-> t.from, to |-> t.to,
        complete |-> t.complete,
        ids |-> IF t.migrate THEN RowsAt(t.group, t.from) \cap Enrolled(t.group)
                ELSE {}]]
  /\ UNCHANGED <<open, current, level, rows, memo>>

(* Every enrollment that was read is completed, whatever it is by now, and *)
(* gets a successor at the new level; they were read in no order.          *)
ProgressCommit(w) ==
  LET t     == tx[w]
      g     == t.group
      moved == SetToSeq(t.ids)
      ended == [i \in DOMAIN rows |->
                  IF i \in t.ids THEN [rows[i] EXCEPT !.status = "completed"]
                  ELSE rows[i]] IN
  /\ t.step = "migrate"
  /\ \A i \in t.ids : rows[i].status # "deleted"
  /\ WriteRows(ended \o [k \in DOMAIN moved |-> NewRow(rows[moved[k]].student, g, t.to, 0)])
  /\ level' = [level EXCEPT ![g] = [l \in Level |->
                 CASE l = t.to               -> "active"
                   [] l = t.from /\ t.complete -> "completed"
                   [] OTHER                  -> level[g][l]]]
  /\ current' = [current EXCEPT ![g] = t.to]
  /\ memo' = [memo EXCEPT ![g] = IF "by" \in DOMAIN @ /\ @.by = w
                                 THEN [@ EXCEPT !.done = TRUE] ELSE Nothing]
  /\ End(w)
  /\ UNCHANGED open

(***************************************************************************)
(* cancel_level: the enrollments stay where they are.                      *)
(***************************************************************************)

(* Faulty variant: the number before, whether it is a level or not. *)
FallBackBlind(g, l) == l - 1

(* The level a group returns to: an earlier one that is active or          *)
(* completed, itself when there is none.                                   *)
FallBack(g, l) ==
  LET before == {m \in 1 .. (l - 1) : level[g][m] \in {"active", "completed"}} IN
  IF before = {} THEN l ELSE Largest(before)

CancelLevel(w, g, l) ==
  /\ AtOnce(w)
  /\ level[g][l] = "active"
  /\ ~ LevelLocked(g, l)
  /\ level' = [level EXCEPT ![g][l] = "cancelled"]
  /\ current' = [current EXCEPT ![g] = IF @ = l THEN FallBack(g, l) ELSE @]
  /\ Changed({g})
  /\ UNCHANGED <<open, rows>>

(***************************************************************************)
(* delete_level, "undo progression".                                       *)
(***************************************************************************)

(* Faulty variants: dropped students come back too; nobody comes back; the *)
(* enrollments of the deleted level are left.                              *)
RevivedAll(g, l)  == {i \in RowsAt(g, l - 1) : rows[i].status \in {"completed", "dropped"}}
RevivedNone(g, l) == {}
CascadeNone(g, l) == {}

(* The enrollments that are deleted with the level, and those that are     *)
(* active again.                                                           *)
Cascade(g, l) == RowsAt(g, l)
Revived(g, l) == {i \in RowsAt(g, l - 1) : rows[i].status = "completed"}

(* transferred_from is ON DELETE SET NULL. *)
DeleteLevel(w, g, l) ==
  LET gone == Cascade(g, l)
      back == Revived(g, l) IN
  /\ AtOnce(w)
  /\ Existing(g) # {} /\ l = Largest(Existing(g))
  /\ l # 1
  /\ ~ LevelLocked(g, l)
  /\ WriteRows([i \in DOMAIN rows |->
       IF i \in gone THEN Gone
       ELSE [rows[i] EXCEPT !.status = IF i \in back THEN "active" ELSE @,
                            !.source = IF @ \in gone THEN 0 ELSE @]])
  /\ level' = [level EXCEPT ![g][l] = "none",
                            ![g][l - 1] = IF @ = "completed" THEN "active" ELSE @]
  /\ current' = [current EXCEPT ![g] = l - 1]
  /\ Changed({g} \cup {rows[i].group : i \in {j \in DOMAIN rows : rows[j].source \in gone}})
  /\ UNCHANGED open

(* archive_group, deactivate_group, update_group. *)
SetStatus(w, g) ==
  /\ AtOnce(w)
  /\ open' = IF g \in open THEN open \ {g} ELSE open \cup {g}
  /\ UNCHANGED <<current, level, rows, memo>>

(* A request that meets a conflict or a missing row, or is cut off, rolls  *)
(* back.                                                                   *)
Rollback(w) ==
  /\ tx[w] # Idle
  /\ End(w)
  /\ memo' = [g \in Group |-> IF "by" \in DOMAIN memo[g] /\ memo[g].by = w /\ ~ memo[g].done
                              THEN Nothing ELSE memo[g]]
  /\ UNCHANGED <<open, current, level, rows>>

Next ==
  \E w \in Request :
    \/ EnrollInsert(w) \/ TransferCommit(w) \/ ProgressLoad(w) \/ ProgressCommit(w)
    \/ Rollback(w)
    \/ \E s \in Student : \E g \in Group : EnrollRead(w, s, g)
    \/ \E i \in 1 .. MaxRows : Drop(w, i) \/ \E g \in Group : TransferRead(w, i, g)
    \/ \E g \in Group : \E k \in Strides : \E c, m \in BOOLEAN : ProgressRead(w, g, k, c, m)
    \/ \E g \in Group : \E l \in Level : CancelLevel(w, g, l) \/ DeleteLevel(w, g, l)
    \/ \E g \in Group : SetStatus(w, g)

Spec == Init /\ [][Next]_vars

(***************************************************************************)
(* Properties.                                                             *)
(***************************************************************************)

RowStatus == {"active", "completed", "transferred", "dropped"}

(* Every variable has its type. *)
TypeOK ==
  /\ open    \subseteq Group
  /\ current \in [Group -> Level]
  /\ level   \in [Group -> [Level -> {"none", "active", "completed", "cancelled"}]]
  /\ rows    \in Seq({Gone} \cup [student : Student, group : Group, level : Level,
                                 status : RowStatus, source : 0 .. MaxRows])
  /\ Len(rows) <= MaxRows
  /\ \A w \in Request :
       tx[w].step \in {"idle", "enroll", "transfer", "progress", "migrate"}
  /\ DOMAIN memo = Group

(* When requests come one at a time and levels are not skipped, the level  *)
(* a group is at, and the level of every active enrollment, has its row in *)
(* group_levels: nothing but the code relates them, there is no foreign    *)
(* key.                                                                    *)
LevelsExist ==
  \A g \in Group :
    /\ current[g] \in Existing(g)
    /\ \A i \in Enrolled(g) : rows[i].level \in Existing(g)

(* When requests come one at a time, a student who was dropped or          *)
(* transferred away is never enrolled again by the progressions and undone *)
(* progressions that complete and revive the enrollments of the others     *)
(* (delete_level, "Reactivate old enrollments at the previous level").     *)
LeaversStayOut ==
  [][\A i \in DOMAIN rows :
       rows[i].status \in {"dropped", "transferred"}
         => rows'[i].status \notin {"active", "completed"}]_vars

(* Deleting the level a progression has made puts the group back as it     *)
(* was: "the group goes back to Level 2 with all students restored to      *)
(* their original enrollments" (specs/037-group-level-management).         *)
UndoRestores ==
  [][\A g \in Group :
       memo[g].done /\ (\E l \in Level : level[g][l] # "none" /\ level'[g][l] = "none")
         => Snapshot(g)' = memo[g].was]_vars
=============================================================================
