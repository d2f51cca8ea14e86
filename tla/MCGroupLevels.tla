---------------------------- MODULE MCGroupLevels ----------------------------
(* Values of the constants of GroupLevels and GroupPages for TLC: two      *)
(* groups that meet on one day.  The first has a course that is active, an *)
(* instructor with a user and an afternoon; the other has an inactive      *)
(* course, an instructor without a user and an evening.                    *)
EXTENDS GroupPages

CONSTANTS s1, s2, g1, g2

Students == {s1, s2}
Groups   == {g1, g2}
Either(x, y) == [g \in Groups |-> IF g = g1 THEN x ELSE y]

CourseOfGroup   == Either("robotics", "coding")
TeacherOfGroup  == Either("with user", "without")
SlotOfGroup     == Either("sunday 15:00", "sunday 18:00")
DayOfSlot       == [u \in {"sunday 15:00", "sunday 18:00"} |-> "sunday"]
CapacityOfGroup == Either(1, 2)

(* Bound: the second group stays open and at its first level, which is    *)
(* not cancelled, and the first gets a third one only while nobody is in   *)
(* the second.                                                             *)
OneLevel ==
  /\ g2 \in open /\ Existing(g2) = {1} /\ level[g2][1] = "active"
  /\ 3 \in Existing(g1) => RowsOf(g2) = {}

(* Nothing tells two students apart. *)
Symmetric == Permutations(Students)
=============================================================================
