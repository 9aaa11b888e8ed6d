---------------------------- MODULE MCCoursesPage ----------------------------
EXTENDS CoursesPage, TLC
CONSTANTS c1
MCCourses == {c1}
FairSpec == CoursesSpec /\ CoursesFairness
=============================================================================
