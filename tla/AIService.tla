------------------------------ MODULE AIService ------------------------------
(***************************************************************************)
(* The AI content service (src/ai-service/main.py): a FastAPI app whose     *)
(* endpoints each build a prompt, call the completion API once, and turn   *)
(* its text into the endpoint's response model. The service keeps no state *)
(* between requests, so the model's state is the last request, the         *)
(* completion text it got, and the response it returned.                   *)
(*                                                                         *)
(* A completion is abstracted to how the parse chain sees it: the call     *)
(* raised, or its text is prose, a bare JSON document, or a ```json fenced  *)
(* block, whose JSON value has one of a few shapes. Prompts, wording and    *)
(* the random engagement metrics are left out.                              *)
(***************************************************************************)
EXTENDS Integers, Sequences, SequencesExt, Functions

CONSTANTS
    MaxDays,    \* bound on EngagementPlanRequest.days (which may be <= 0)
    TaskLists,  \* the CampaignSummaryRequest.tasks values tried
    PostChars,  \* characters a thread post may contain (see Chars)
    MaxPosts,   \* bound on the posts of a generated thread
    MaxPostLen  \* bound on the characters of one post

VARIABLES
    request,    \* the last request: its endpoint and the fields that matter
    answer,     \* the completion the handler got for it
    response    \* the response it returned

vars == <<request, answer, response>>

----------------------------------------------------------------------------
(* The JSON value in a completion: a list of option objects as /generate   *)
(* asks for, a list of plain strings, an object with the engagement-plan   *)
(* schema, one with the campaign-summary schema; a fenced block may also   *)
(* hold text json.loads rejects.                                            *)
JsonShapes == {"options", "strings", "plan", "summary"}

Answers ==
    {[wrap |-> w, shape |-> "none"] : w \in {"raise", "prose"}}
    \cup [wrap : {"bare"}, shape : JsonShapes]
    \cup [wrap : {"fenced"}, shape : JsonShapes \cup {"invalid"}]

(* Fault variant: the regex search for a fenced block is not tried. *)
ParsedSkippingFence(a) ==
    CASE a.wrap = "bare" -> [st |-> "value", v |-> a.shape]
      [] OTHER           -> [st |-> "prose", v |-> "none"]

(* json.loads of the whole text; on JSONDecodeError the first ``` block is *)
(* parsed, and a JSONDecodeError there escapes to the handler's outer      *)
(* except; text with no block is prose, for the handler's own fallback.    *)
Parsed(a) ==
    CASE a.wrap = "bare"                         -> [st |-> "value", v |-> a.shape]
      [] a.wrap = "fenced" /\ a.shape # "invalid" -> [st |-> "value", v |-> a.shape]
      [] a.wrap = "fenced"                       -> [st |-> "raises", v |-> "none"]
      [] OTHER                                   -> [st |-> "prose", v |-> "none"]

(* The call or the parse raised: the outer except runs. *)
Raised(a) == a.wrap = "raise" \/ Parsed(a).st = "raises"

----------------------------------------------------------------------------
(* generate_fallback_plan (lines 310-336). For each of range(days) a date  *)
(* i days after today, and random.sample(times, 4): four distinct slots in *)
(* random order, given here as indices into Times. The j-th action's type  *)
(* is action_types[j % 4]; only a post carries content.                    *)
ActionTypes == <<"post", "reply", "like", "recast">>
Times == <<"09:00", "12:00", "15:00", "18:00", "21:00">>

Samples == {s \in [1 .. 4 -> DOMAIN Times] : IsInjective(s)}

ActionType(j) == ActionTypes[((j - 1) % 4) + 1]

FallbackAction(j, s) ==
    [time    |-> Times[s[j]],
     type    |-> ActionType(j),
     content |-> IF ActionType(j) = "post" THEN "Scheduled post" ELSE "null"]

FallbackPlan(days, ss) ==
    [i \in 1 .. days |->
        [date |-> i - 1, actions |-> [j \in 1 .. 4 |-> FallbackAction(j, ss[i])]]]

----------------------------------------------------------------------------
(* The response each handler returns, as a function of its answer. *)

(* /generate (lines 205-240): a prose text becomes the one option; each   *)
(* parsed item needs item.get, which raises on a string (a list of strings *)
(* or the keys of an object), and the outer except returns contents=[]    *)
(* with the error.                                                         *)
GenerateResult(a) ==
    CASE Raised(a)                 -> [contents |-> 0, error |-> TRUE]
      [] Parsed(a).st = "prose"    -> [contents |-> 1, error |-> FALSE]
      [] Parsed(a).v = "options"   -> [contents |-> 2, error |-> FALSE]
      [] OTHER                     -> [contents |-> 0, error |-> TRUE]

(* Fault variant: the fenced block is parsed outside the try, so its      *)
(* JSONDecodeError escapes the handler and FastAPI answers 500.           *)
PlanResultUncaught(a, days, ss) ==
    IF a.wrap = "fenced" /\ a.shape = "invalid" THEN [from |-> "status500"]
    ELSE IF ~Raised(a) /\ Parsed(a).v = "plan" THEN [from |-> "answer"]
    ELSE [from |-> "fallback", days |-> FallbackPlan(days, ss)]

(* /engagement-plan (lines 286-307): the EngagementPlan model accepts only   *)
(* an object of the plan schema; prose, any other value, and every        *)
(* exception give generate_fallback_plan(request.days).                    *)
PlanResult(a, days, ss) ==
    IF ~Raised(a) /\ Parsed(a).v = "plan" THEN [from |-> "answer"]
    ELSE [from |-> "fallback", days |-> FallbackPlan(days, ss)]

(* /campaign-summary (lines 376-403): prose becomes the summary text with *)
(* the request's tasks as priority_order; an answer of another schema     *)
(* fails the CampaignSummary model and, like a failed call, gets the      *)
(* generic summary, again ordered as the request's tasks.                  *)
SummaryResult(a, tasks) ==
    CASE Raised(a)                 -> [from |-> "generic", priority |-> tasks]
      [] Parsed(a).st = "prose"    -> [from |-> "prose", priority |-> tasks]
      [] Parsed(a).v = "summary"   -> [from |-> "answer"]
      [] OTHER                     -> [from |-> "generic", priority |-> tasks]

----------------------------------------------------------------------------
(* The thread split of generate_thread (lines 490-502):                   *)
(*   re.findall(r'\d+[/\.]\s*(.+?)(?=\d+[/\.]|$)', content, re.DOTALL)      *)
(* then strip() of each match. A text is a sequence of character classes: *)
(* "d" a digit, "/" and "." the separators, "s" a space, "n" a newline,   *)
(* "x" any other character. Positions are 1-based; position Len(t) + 1 is *)
(* the end of the text.                                                    *)
Chars == {"d", "/", ".", "s", "n", "x"}
IsSpace(c) == c \in {"s", "n"}

(* The first position at or after i whose character is not in class C. *)
RunEnd(t, i, C) ==
    CHOOSE k \in i .. Len(t) + 1 :
        /\ k > Len(t) \/ t[k] \notin C
        /\ \A j \in i .. k - 1 : t[j] \in C

(* \d+[/\.] matches at p: the digit run from p is followed by a separator;*)
(* greedy \d+ can only succeed with the whole run.                        *)
MarkerAt(t, p) ==
    /\ p <= Len(t) /\ t[p] = "d"
    /\ LET k == RunEnd(t, p, {"d"}) IN k <= Len(t) /\ t[k] \in {"/", "."}

(* $ without MULTILINE: the end, or just before a final newline. *)
EndAt(t, p) == p = Len(t) + 1 \/ (p = Len(t) /\ t[p] = "n")

Lookahead(t, p) == MarkerAt(t, p) \/ EndAt(t, p)

(* Where the group starts for a match at i: greedy \s* after the          *)
(* separator, giving back one space when nothing is left for .+?; 0 when  *)
(* the match fails (a marker at the very end).                            *)
GroupStart(t, i) ==
    LET g0 == RunEnd(t, i, {"d"}) + 1
        w  == RunEnd(t, g0, {"s", "n"})
    IN  IF w <= Len(t) THEN w ELSE IF w - 1 >= g0 THEN w - 1 ELSE 0

(* Fault variant: a greedy .+ that runs to the last place the lookahead   *)
(* holds.                                                                  *)
GroupEndGreedy(t, gs) == Len(t) + 1

(* Lazy .+?: the first position after at least one character where the   *)
(* lookahead holds (the end always does).                                  *)
GroupEnd(t, gs) ==
    CHOOSE e \in gs + 1 .. Len(t) + 1 :
        /\ Lookahead(t, e)
        /\ \A f \in gs + 1 .. e - 1 : ~Lookahead(t, f)

MatchesAt(t, i) == MarkerAt(t, i) /\ GroupStart(t, i) > 0

(* findall: the leftmost match from pos, then on from where it ended. *)
RECURSIVE ThreadMatches(_, _)
ThreadMatches(t, pos) ==
    LET starts == {i \in pos .. Len(t) : MatchesAt(t, i)}
    IN  IF starts = {} THEN <<>>
        ELSE LET i  == CHOOSE j \in starts : \A k \in starts : j <= k
                 gs == GroupStart(t, i)
                 e  == GroupEnd(t, gs)
             IN  <<SubSeq(t, gs, e - 1)>> \o ThreadMatches(t, e)

(* str.strip(): leading and trailing whitespace removed. *)
Strip(t) ==
    LET body == {i \in DOMAIN t : ~IsSpace(t[i])}
    IN  IF body = {} THEN <<>>
        ELSE SubSeq(t, CHOOSE i \in body : \A j \in body : i <= j,
                       CHOOSE i \in body : \A j \in body : i >= j)

ThreadParts(t) == [i \in 1 .. Len(ThreadMatches(t, 1)) |-> Strip(ThreadMatches(t, 1)[i])]

(* A completion in the format the prompt asks for (lines 468-473): each   *)
(* post on its own line after its number and "/ ".                         *)
Posts == SeqOf(SeqOf(PostChars, MaxPostLen), MaxPosts)

Rendered(ps) ==
    FlattenSeq([i \in DOMAIN ps |->
                   <<"d", "/", "s">> \o ps[i] \o (IF i < Len(ps) THEN <<"n">> ELSE <<>>)])

----------------------------------------------------------------------------
PlanAction ==
    [time : {Times[t] : t \in DOMAIN Times},
     type : {ActionTypes[t] : t \in DOMAIN ActionTypes},
     content : {"Scheduled post", "null"}]

PlanDay == [date : 0 .. MaxDays, actions : [1 .. 4 -> PlanAction]]

PlanResponse ==
    {[from |-> "answer"]} \cup [from : {"fallback"}, days : Seq(PlanDay)]

SummaryResponse ==
    {[from |-> "answer"]} \cup [from : {"prose", "generic"}, priority : TaskLists]

(* Every response is an instance of its endpoint's response model: no    *)
(* request ends in an unhandled exception.                                 *)
TypeOK ==
    /\ request \in [endpoint : {"none", "generate", "plan", "summary", "reply", "thread"},
                    days : -1 .. MaxDays, tasks : TaskLists \cup {<<>>}]
    /\ answer \in Answers \cup {[wrap |-> "none", shape |-> "none"]}
                  \cup [wrap : {"thread"}, posts : Posts]
    /\ CASE request.endpoint = "generate" -> response \in [contents : 0 .. 2, error : BOOLEAN]
         [] request.endpoint = "plan"     -> response \in PlanResponse
         [] request.endpoint = "summary"  -> response \in SummaryResponse
         [] request.endpoint = "reply"    -> response \in {[from |-> "replies"], [from |-> "error"]}
         [] request.endpoint = "thread"   -> response \in {[from |-> "error"]}
                                               \cup [from : {"thread"}, parts : Seq(Seq(Chars))]
         [] OTHER                         -> response = [from |-> "none"]

Init ==
    /\ request = [endpoint |-> "none", days |-> 0, tasks |-> <<>>]
    /\ answer = [wrap |-> "none", shape |-> "none"]
    /\ response = [from |-> "none"]

----------------------------------------------------------------------------
(* One action per endpoint: the whole handler, from the completion call to *)
(* the returned model. Handlers share no state, so a behaviour serving one *)
(* request shows every response the service can give; Served makes each   *)
(* behaviour one request long.                                             *)
Served == request.endpoint # "none"

GenerateContent ==
    /\ ~Served
    /\ \E a \in Answers :
           /\ request' = [endpoint |-> "generate", days |-> 0, tasks |-> <<>>]
           /\ answer' = a
           /\ response' = GenerateResult(a)

GenerateEngagementPlan ==
    /\ ~Served
    /\ \E a \in Answers, d \in -1 .. MaxDays :
           \E ss \in [1 .. d -> Samples] :
               /\ request' = [endpoint |-> "plan", days |-> d, tasks |-> <<>>]
               /\ answer' = a
               /\ response' = PlanResult(a, d, ss)

SummarizeCampaign ==
    /\ ~Served
    /\ \E a \in Answers, ts \in TaskLists :
           /\ request' = [endpoint |-> "summary", days |-> 0, tasks |-> ts]
           /\ answer' = a
           /\ response' = SummaryResult(a, ts)

(* /generate-reply (lines 432-447) splits the text on blank lines, and   *)
(* /generate-thread (lines 483-505) into numbered parts; both return      *)
(* {"error": ...} when the call raises.                                    *)
GenerateReply ==
    /\ ~Served
    /\ \E a \in {[wrap |-> w, shape |-> "none"] : w \in {"raise", "prose"}} :
           /\ request' = [endpoint |-> "reply", days |-> 0, tasks |-> <<>>]
           /\ answer' = a
           /\ response' = [from |-> IF a.wrap = "raise" THEN "error" ELSE "replies"]

GenerateThread ==
    /\ ~Served
    /\ request' = [endpoint |-> "thread", days |-> 0, tasks |-> <<>>]
    /\ \/ /\ answer' = [wrap |-> "raise", shape |-> "none"]
          /\ response' = [from |-> "error"]
       \/ \E ps \in Posts :
             /\ answer' = [wrap |-> "thread", posts |-> ps]
             /\ response' = [from |-> "thread", parts |-> ThreadParts(Rendered(ps))]

Next ==
    \/ GenerateContent
    \/ GenerateEngagementPlan
    \/ SummarizeCampaign
    \/ GenerateReply
    \/ GenerateThread

Spec == Init /\ [][Next]_vars

----------------------------------------------------------------------------
(* Properties *)

(* The model's plan or summary is returned exactly when the completion is *)
(* a JSON document of the endpoint's schema, whether the whole text or the *)
(* first fenced block; every other completion, and a failed call, gets the *)
(* fallback.                                                               *)
SchemaOf == [plan |-> "plan", summary |-> "summary"]

ValidAnswerUsed ==
    request.endpoint \in {"plan", "summary"} =>
        ((response.from = "answer") <=>
            /\ answer.wrap \in {"bare", "fenced"}
            /\ answer.shape = SchemaOf[request.endpoint])

(* generate_thread returns one part per post of a thread written in the   *)
(* format its prompt asks for, each the post's text, in order: total_parts *)
(* is the thread's length. Blank posts are excluded; .+? cannot match     *)
(* an empty post.                                                          *)
ThreadPartsArePosts ==
    request.endpoint = "thread" /\ answer.wrap = "thread"
        /\ (\A i \in DOMAIN answer.posts : Strip(answer.posts[i]) # <<>>)
        => response.parts = [i \in DOMAIN answer.posts |-> Strip(answer.posts[i])]

=============================================================================
