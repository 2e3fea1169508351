\* A thread whose posts may contain a digit followed by a slash.
\* Each behaviour serves one request and ends there.
CONSTANTS
    MaxDays = 2
    TaskLists <- MCTaskLists
    PostChars <- MCPostCharsWithSlash
    MaxPosts = 2
    MaxPostLen = 3
SPECIFICATION Spec
INVARIANT ThreadPartsArePosts
CHECK_DEADLOCK FALSE
