CONSTANTS
  s1 = s1
  s2 = s2
  g1 = g1
  g2 = g2
  Request = {w1}
  Student <- Students
  Group <- Groups
  Strides = {1}
  MaxLevel = 3
  MaxRows = 3
  Course = {"robotics", "coding"}
  CourseOf <- CourseOfGroup
  ActiveCourse = {"robotics"}
  Teacher = {"with user", "without"}
  TeacherOf <- TeacherOfGroup
  InstructorUser = {"with user"}
  Slot = {"sunday 15:00", "sunday 18:00"}
  SlotOf <- SlotOfGroup
  Weekday = {"sunday"}
  DayOf <- DayOfSlot
  Evening = {"sunday 18:00"}
  Capacity <- CapacityOfGroup
SPECIFICATION Spec
CONSTRAINT OneLevel
SYMMETRY Symmetric
INVARIANTS
  LevelsExist
  PagesAgree
PROPERTIES
  LeaversStayOut
  UndoRestores
CHECK_DEADLOCK FALSE
