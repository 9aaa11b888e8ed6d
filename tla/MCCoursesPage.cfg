SPECIFICATION FairSpec
CONSTANTS
 c1 = c1
 Courses <- MCCourses
 NoCourse = NoCourse
 MaxId = 2
 MaxMounts = 1
 MaxPoll = 2
 CacheSize = 1
 MaxJobs = 1
 MaxPosts = 1
INVARIANTS CoursesTypeOK SpinnerHasPoller
PROPERTIES CacheKeeps SpinnerEnds
CHECK_DEADLOCK FALSE
