------------------------------- MODULE Session -------------------------------
(***************************************************************************)
(* From the end of a turn to the click on its notification.  The assistant *)
(* writes the transcript; a hook of Claude Code, or of Codex, decides what *)
(* there is to say, the filters and the settings of the channels decide    *)
(* whether it is shown, and a click on it raises the window.               *)
(***************************************************************************)
EXTENDS Transcript, Focus

CONSTANTS
    MaxMessages,     \* bound on the transcript
    Rules,           \* suppress filters: records of a status and a folder, Every for one left out
    Every,
    Folder,          \* the folder the session runs in
    Muted            \* the statuses without a desktop notification

ASSUME SessionAssumption == MaxMessages \in Nat

VARIABLES
    transcript,
    phase,           \* "turn", "noted", "shown", "focusing" or "ended"
    note             \* what the hook has decided

sessionVars == <<transcript, phase, note, focusVars>>

NoteType ==
    [from : {"Stop", "PreToolUse", "Notification", "Codex"}, read : 0..MaxMessages,
     status : Statuses \ {"unknown"}, body : 0..MaxMessages, webhook : 0..MaxMessages,
     actions : SUBSET (1..MaxMessages)]

SessionInit ==
    /\ transcript = <<>> /\ phase = "turn" /\ note = None
    /\ FocusInit

Append1(m) ==
    /\ phase = "turn" /\ Len(transcript) < MaxMessages
    /\ transcript' = Append(transcript, m)
    /\ UNCHANGED <<phase, note, focusVars>>

Note(from, t, status, aged) ==
    /\ phase' = "noted"
    /\ \E b \in IF t = <<>> THEN {0} ELSE Body(t, status, aged) :
        note' = [from |-> from, read |-> Len(t), status |-> status, body |-> b,
                 webhook |-> IF from = "Stop" THEN WebhookBody(t, status) ELSE 0,
                 actions |-> IF t = <<>> THEN {} ELSE Actions(t, status)]
    /\ UNCHANGED <<transcript, focusVars>>

\* The file as a hook reads it: the last line may not be complete yet, and is
\* skipped.
Read(n) == n \in {Len(transcript), Len(transcript) - 1} \cap Nat

MutantStop ==
    /\ phase = "turn"
    /\ \E n \in 0..MaxMessages, aged \in BOOLEAN :
        LET t == SubSeq(transcript, 1, n) IN Read(n) /\ Note("Stop", t, Analyze(t), aged)

\* A Stop or SubagentStop hook: an unknown status ends it.
Stop ==
    /\ phase = "turn"
    /\ \E n \in 0..MaxMessages, aged \in BOOLEAN :
        LET t == SubSeq(transcript, 1, n) IN
        Read(n) /\ Analyze(t) # "unknown" /\ Note("Stop", t, Analyze(t), aged)

\* A PreToolUse hook knows the tool and a Notification is a question; both take
\* their body from the transcript as it is by then.
Ask ==
    /\ phase = "turn"
    /\ \E n \in 0..MaxMessages, aged \in BOOLEAN :
        /\ Read(n)
        /\ \E e \in {<<"PreToolUse", "plan_ready">>, <<"PreToolUse", "question">>,
                    <<"Notification", "question">>} :
            Note(e[1], SubSeq(transcript, 1, n), e[2], aged)

\* A Codex hook goes by the event and the assistant's last message, which it gets
\* along with it: StatusForHook and statusFromAssistantMessage.
Codex ==
    /\ phase = "turn" /\ transcript = <<>>
    /\ \E status \in {"task_complete", "session_limit_reached", "api_error",
                     "api_error_overloaded", "question"} :
        Note("Codex", <<>>, status, FALSE)

Matches(r) == r.status \in {Every, note.status} /\ r.folder \in {Every, Folder}
HasConditions(r) == r.status # Every \/ r.folder # Every

\* Codex hooks do not ask the filters.
ShouldFilter == note.from # "Codex" /\ \E r \in Rules : HasConditions(r) /\ Matches(r)

IsStatusDesktopEnabled == note.status \notin Muted

\* The notification is shown unless a filter or the settings say otherwise; the
\* process ends.
Deliver ==
    /\ phase = "noted"
    /\ phase' = IF ~ShouldFilter /\ IsStatusDesktopEnabled THEN "shown" ELSE "ended"
    /\ transcript' = <<>> /\ note' = None
    /\ UNCHANGED focusVars

Click ==
    /\ phase = "shown" /\ phase' = "focusing"
    /\ StartFocus
    /\ UNCHANGED <<transcript, note>>

Focusing ==
    /\ phase = "focusing"
    /\ FocusStep
    /\ phase' = IF outcome' # "pending" THEN "ended" ELSE phase
    /\ UNCHANGED <<transcript, note>>

Closing == phase = "focusing" /\ Vanish /\ UNCHANGED <<transcript, phase, note>>

SessionNext ==
    \/ \E m \in Message : Append1(m)
    \/ Stop \/ Ask \/ Codex \/ Deliver \/ Click \/ Focusing \/ Closing

SessionSpec ==
    /\ SessionInit /\ [][SessionNext]_sessionVars
    /\ WF_sessionVars(Deliver) /\ WF_sessionVars(Focusing)

-----------------------------------------------------------------------------
SessionTypeOK ==
    /\ transcript \in Seq(Message) /\ Len(transcript) <= MaxMessages
    /\ phase \in {"turn", "noted", "shown", "focusing", "ended"}
    /\ note \in NoteType \cup {None}
    /\ FocusTypeOK

\* The turn that has ended: the messages from the user's last text on.
Prompts(t) == {i \in DOMAIN t : t[i].who = "user" /\ t[i].words > 0}
Turn(t) == SubSeq(t, Max(Prompts(t) \cup {1}), Len(t))

Reported == SubSeq(transcript, 1, note.read)

\* What a Stop hook reports is what it would report had there been no turn before:
\* no plan, tool or error of an earlier turn comes back.  Only the notice of a
\* session limit does, while it is among the last answers.
StatusOfThisTurn ==
    note # None /\ note.from = "Stop" /\ note.status # "session_limit_reached"
        => note.status = Analyze(Turn(Reported))

\* The text and the actions it shows with the status are of that turn too, found
\* though they are by other scans of the whole transcript.
TextOfThisTurn ==
    note # None /\ note.from = "Stop" =>
        /\ note.body # 0 => note.body >= Max(Prompts(Reported) \cup {0})
        /\ \A i \in note.actions : i >= Max(Prompts(Reported) \cup {0})

\* A notification that is due is delivered or dropped, and a click on it comes to an
\* end, whatever windows are closed meanwhile.
SessionEnds == phase \in {"noted", "focusing"} ~> phase \in {"shown", "ended"}

\* The text the webhook gets is of that turn.  It need not be, see WebhookBody.
WebhookOfThisTurn ==
    note # None /\ note.from = "Stop" =>
        \/ note.webhook = 0
        \/ note.webhook >= Max(Prompts(Reported) \cup {0})
=============================================================================
