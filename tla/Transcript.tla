----------------------------- MODULE Transcript -----------------------------
(***************************************************************************)
(* What a hook reads out of a transcript: the status of the turn that has  *)
(* ended (package analyzer) and the text its notification shows (package   *)
(* summary), both by scans of pkg/jsonl.  A transcript is a sequence of    *)
(* messages; a scan yields positions in it.  Times increase along it, so   *)
(* "after the user's last message" compares positions.                     *)
(***************************************************************************)
EXTENDS Integers, FiniteSets, FiniteSetsExt, Sequences

CONSTANTS
    Message,          \* the messages that occur
    Window,           \* assistant messages looked at for tools, 15
    LimitWindow,      \* and for the notice of a session limit, 3
    TextWindow,       \* and for text: 5 for a review's length and the summaries, 8 for questions
    LongText,         \* length above which reading is a review, 200 characters
    NotifyOnText,     \* notifyOnTextResponse
    None

\* A message has at most one tool and one text.  A user message without a text
\* is the result of a tool; error is the kind of an API error message.
MessageType ==
    [who : {"user", "assistant"}, tool : STRING \cup {None}, words : Nat, asks : BOOLEAN,
     limit : BOOLEAN, error : {"none", "auth", "other"}]

ASSUME TranscriptAssumption ==
    /\ \A m \in Message : m.who \in {"user", "assistant"} /\ m.words \in Nat
    /\ {Window, LimitWindow, TextWindow} \subseteq Nat \ {0} /\ LongText \in Nat /\ NotifyOnText \in BOOLEAN

Active == {"Write", "Edit", "Bash", "NotebookEdit", "SlashCommand", "KillShell"}
ReadLike == {"Read", "Grep", "Glob"}

Statuses == {"task_complete", "review_complete", "question", "plan_ready",
             "session_limit_reached", "api_error", "api_error_overloaded", "unknown"}

-----------------------------------------------------------------------------
\* The greatest position of a set, 0 if there is none; the n greatest ones.
Latest(S) == IF S = {} THEN 0 ELSE Max(S)
LastN(S, n) == {i \in S : Cardinality({j \in S : j > i}) < n}

Assistant(t) == {i \in DOMAIN t : t[i].who = "assistant"}
Errors(t) == {i \in DOMAIN t : t[i].error # "none"}
Texts(t, S) == {i \in S : t[i].words > 0}
ToolUses(t, S) == {i \in S : t[i].tool # None}
Uses(t, name) == {i \in Assistant(t) : t[i].tool = name}

\* GetLastUserTimestamp: results of tools do not count.
GetLastUser(t) == Latest({i \in DOMAIN t : t[i].who = "user" /\ t[i].words > 0})

MutantCurrent(t) == Assistant(t)

\* FilterMessagesAfterTimestamp: the assistant's messages of this turn.
Current(t) == {i \in Assistant(t) : i > GetLastUser(t)}

RecentWords(t, S) == MapThenSumSet(LAMBDA i : t[i].words, LastN(S, TextWindow))

-----------------------------------------------------------------------------
SessionLimit(t) == \E i \in LastN(Assistant(t), LimitWindow) : t[i].limit
RecentError(t) == \E i \in Errors(t) : i >= GetLastUser(t)
ErrorStatus(t) == IF t[Latest(Errors(t))].error = "auth" THEN "api_error" ELSE "api_error_overloaded"

ToolStatus(t, recent) ==
    LET tools == ToolUses(t, recent)
        last == t[Latest(tools)].tool
        Used(names) == \E i \in tools : t[i].tool \in names
    IN CASE last = "ExitPlanMode" -> "plan_ready"
         [] last = "AskUserQuestion" -> "question"
         [] /\ last \notin {"ExitPlanMode", "AskUserQuestion"} /\ ~Used({"ExitPlanMode"})
            /\ Used(ReadLike) /\ ~Used(Active) /\ RecentWords(t, recent) > LongText -> "review_complete"
         [] OTHER -> "task_complete"

\* AnalyzeTranscriptWithMessages
Analyze(t) ==
    LET recent == LastN(Current(t), Window)
    IN IF SessionLimit(t) THEN "session_limit_reached"
       ELSE IF RecentError(t) THEN ErrorStatus(t)
       ELSE IF recent = {} THEN "unknown"
       ELSE IF ToolUses(t, recent) # {} THEN ToolStatus(t, recent)
       ELSE IF NotifyOnText THEN "task_complete" ELSE "unknown"

-----------------------------------------------------------------------------
MutantRecentAssistant(t) == LastN(Assistant(t), TextWindow)

\* getRecentAssistantMessages
RecentAssistant(t) ==
    IF Current(t) # {} THEN LastN(Current(t), TextWindow) ELSE LastN(Assistant(t), TextWindow)

\* The last question asked with the tool counts within 60 s of the assistant's
\* last message.
RecentQuestion(t, aged) ==
    LET q == Latest(Uses(t, "AskUserQuestion"))
    IN IF q = Max(Assistant(t) \cup {0}) \/ ~aged THEN q ELSE 0

\* The messages the body may be taken from; 0 stands for a wording of its own.
QuestionBody(t, aged) ==
    LET texts == Texts(t, RecentAssistant(t))
        asking == {i \in texts : t[i].asks}
    IN IF RecentQuestion(t, aged) # 0 THEN {RecentQuestion(t, aged)}
       ELSE IF asking # {} THEN asking ELSE {0, Latest(texts)}

PlanBody(t) == {Latest(Uses(t, "ExitPlanMode"))}
ReviewBody(t) == {0} \cup Texts(t, RecentAssistant(t))
TaskBody(t) == {Latest(Texts(t, RecentAssistant(t)))}
ErrorBody(t) == {Latest(Errors(t))}

\* GenerateFromMessagesStructured
Body(t, status, aged) ==
    CASE status \in {"api_error", "session_limit_reached"} -> {0}
      [] status = "api_error_overloaded" -> ErrorBody(t)
      [] status = "question" -> QuestionBody(t, aged)
      [] status = "plan_ready" -> PlanBody(t)
      [] status = "review_complete" -> ReviewBody(t)
      [] OTHER -> TaskBody(t)

\* countToolsByType: the tools the line of actions counts.
Actions(t, status) ==
    IF status \in {"api_error", "api_error_overloaded"} THEN {}
    ELSE {i \in Assistant(t) : i >= GetLastUser(t) /\ t[i].tool \in {"Write", "Edit", "Bash"}}

\* lastAssistantText: the webhook's text, wherever in the transcript it is; 0 when
\* the webhook gets the body.
WebhookBody(t, status) ==
    IF status \in {"session_limit_reached", "api_error", "api_error_overloaded"} THEN 0
    ELSE Latest(Texts(t, Assistant(t)))
=============================================================================
