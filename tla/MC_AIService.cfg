\* The AI service's handlers over every abstract completion.
\* Each behaviour serves one request (the handlers share no state), and ends there.
CONSTANTS
    MaxDays = 2
    TaskLists <- MCTaskLists
    PostChars <- MCPostChars
    MaxPosts = 2
    MaxPostLen = 3
SPECIFICATION Spec
INVARIANTS
    TypeOK
    ValidAnswerUsed
    ThreadPartsArePosts
CHECK_DEADLOCK FALSE
