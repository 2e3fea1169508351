---------------------------- MODULE MC_AIService ----------------------------
(* Bounds for AIService: plans of up to two days, so that each day's      *)
(* random sample is checked independently, and a negative day count;      *)
(* an empty task list and one of two tasks.                               *)
EXTENDS AIService

MCTaskLists == {<<>>, <<"follow", "retweet">>}

(* Posts of letters, spaces and digits, but no '/' or '.'. *)
MCPostChars == {"x", "s", "d"}

(* Posts that may also hold '/', as in "24/7". *)
MCPostCharsWithSlash == {"x", "d", "/"}

=============================================================================
