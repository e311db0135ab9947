-------------------------------- MODULE Focus --------------------------------
(***************************************************************************)
(* Raising the window a notification came from (TryFocusWithHints): first  *)
(* by the id and the title the hook has noted, then with one tool of the   *)
(* desktop after another, for WezTerm at last by the pane.  Windows may    *)
(* close at any step, between a search and an activation too.              *)
(***************************************************************************)
EXTENDS Integers, Sequences, FiniteSets, FiniteSetsExt

CONSTANTS
    Win,       \* the windows on the desktop when a notification is clicked
    Own,       \* the one the hook ran in
    Scenes,    \* the desktops and notifications to consider
    Nothing

New == "new"

ASSUME OwnAssumption == Own \in Win /\ Nothing \notin Win \cup {New}

VARIABLES
    scene,     \* Nothing before the click
    height,    \* the place of each window in the stack, the top-most one's the greatest
    open,      \* the windows that have been open ever since: none is opened
    rung,      \* the attempt under way, 0 before and Len(Ladder) + 1 after all
    cands,     \* what its search has found and is still to be tried
    seen,      \* what the xdotool searches have tried
    focused,   \* windowFocused: an attempt has succeeded
    raised,    \* the window activated last; New for an application started
    outcome    \* "pending", "ok" or "error"

focusVars == <<scene, height, open, rung, cands, seen, focused, raised, outcome>>

\* A desktop: its tools, the windows of the terminal's class, those whose title has
\* the folder's name in it, the terminal's, or is the hook's own, and the hidden
\* ones; whether the terminal is VS Code, the folder is known, the application is
\* installed; and the hints.
SceneType ==
    [tools : SUBSET {"xdotool", "wmctrl", "extension", "eval", "focusapp", "wlrctl", "kdotool",
                     "wezterm"},
     class : SUBSET Win, project : SUBSET Win, named : SUBSET Win, same : SUBSET Win,
     hidden : SUBSET Win, vscode : BOOLEAN, folder : BOOLEAN, installed : BOOLEAN,
     id : BOOLEAN, title : BOOLEAN, pane : BOOLEAN]

\* The attempts in order.  A "call" picks a window and activates it in one, an "app"
\* may be started; a "search" yields windows to activate one by one, "visible" ones
\* only, or the "first" one.
Ladder == <<
    [tool |-> "xdotool",   by |-> "id",     how |-> "call"],
    [tool |-> "wmctrl",    by |-> "id",     how |-> "call"],
    [tool |-> "wmctrl",    by |-> "title",  how |-> "call"],
    [tool |-> "xdotool",   by |-> "title",  how |-> "search"],
    [tool |-> "extension", by |-> "folder", how |-> "call"],
    [tool |-> "extension", by |-> "class",  how |-> "call"],
    [tool |-> "extension", by |-> "name",   how |-> "call"],
    [tool |-> "eval",      by |-> "term",   how |-> "top"],
    [tool |-> "eval",      by |-> "class",  how |-> "app"],
    [tool |-> "focusapp",  by |-> "class",  how |-> "app"],
    [tool |-> "wlrctl",    by |-> "class",  how |-> "call"],
    [tool |-> "wlrctl",    by |-> "term",   how |-> "call"],
    [tool |-> "kdotool",   by |-> "class",  how |-> "first"],
    [tool |-> "xdotool",   by |-> "class",  how |-> "visible"],
    [tool |-> "xdotool",   by |-> "class",  how |-> "search"],
    [tool |-> "xdotool",   by |-> "term",   how |-> "visible"],
    [tool |-> "xdotool",   by |-> "term",   how |-> "search"] >>

XdotoolMethod == 14    \* the first attempt of TryXdotool

Before == rung = 0
Over == outcome # "pending"

InFolder(s) == s.vscode /\ s.folder

\* The windows an attempt looks for, and whether it is made at all.
Match(s, by) ==
    CASE by = "id" -> {Own}
      [] by = "title" -> s.same
      [] by = "class" -> s.class
      [] by = "folder" \/ (by = "term" /\ InFolder(s)) -> s.project
      [] OTHER -> s.named

MutantMade(s, i) ==
    /\ Ladder[i].tool \in s.tools
    /\ Ladder[i].by = "id" => s.id /\ Ladder[i].tool = "xdotool"
    /\ Ladder[i].by = "title" => s.title
    /\ Ladder[i].by = "folder" => InFolder(s)

Made(s, i) ==
    /\ Ladder[i].tool \in s.tools
    /\ Ladder[i].by = "id" => s.id
    /\ Ladder[i].by = "title" => s.title
    /\ Ladder[i].by = "folder" => InFolder(s)

\* The attempt made after attempt i.
Following(s, i) == Min({j \in DOMAIN Ladder : j > i /\ Made(s, j)} \cup {Len(Ladder) + 1})

Targets(i) ==
    IF Ladder[i].how = "visible" THEN Match(scene, Ladder[i].by) \ scene.hidden
    ELSE Match(scene, Ladder[i].by)
Found(i) == Targets(i) \cap open

FocusInit ==
    /\ scene = Nothing /\ open = Win /\ rung = 0 /\ cands = {} /\ seen = {}
    /\ focused = FALSE /\ raised = Nothing /\ outcome = "pending" /\ height = [w \in Win |-> 0]

\* A click: TryFocusWithHints is called.
StartFocus ==
    /\ Before
    /\ \E s \in Scenes : scene' = s /\ rung' = Following(s, 0)
    /\ height' \in {h \in [Win -> 1..Cardinality(Win)] : \A v, w \in Win : v # w => h[v] # h[w]}
    /\ UNCHANGED <<open, cands, seen, focused, raised, outcome>>

-----------------------------------------------------------------------------
Trying(i) == rung = i /\ i \in DOMAIN Ladder /\ cands = {}

MutantFail == rung' = Following(scene, rung - 1) /\ UNCHANGED <<focused, raised>>

\* The next attempt.
Fail == rung' = Following(scene, rung) /\ UNCHANGED <<focused, raised>>

\* A window is raised: no other attempt is made.
Raise(w) == raised' = w /\ focused' = TRUE /\ rung' = Len(Ladder) + 1

\* One call finds a window and activates it; Eval by title activates all it finds,
\* the top-most one last.
Call ==
    /\ \E i \in DOMAIN Ladder :
        /\ Trying(i) /\ Ladder[i].how \in {"call", "top"}
        /\ \/ Found(i) = {} /\ Fail
           \/ \E w \in Found(i) :
                /\ Raise(w)
                /\ Ladder[i].how = "top" => \A v \in Found(i) : height[v] <= height[w]
    /\ UNCHANGED <<scene, height, open, cands, seen, outcome>>

\* The application is activated, or started when it has no window.
Application ==
    /\ \E i \in DOMAIN Ladder :
        /\ Trying(i) /\ Ladder[i].how = "app"
        /\ IF scene.installed
           THEN \E w \in IF Found(i) = {} THEN {New} ELSE Found(i) : Raise(w)
           ELSE Fail
    /\ UNCHANGED <<scene, height, open, cands, seen, outcome>>

\* prioritizeXdotoolCandidates: the windows of the project come first, in a list
\* that is gone through from its end, where the top-most ones are.
Postponed(w) ==
    rung >= XdotoolMethod /\ Ladder[rung].by = "class" /\ scene.folder /\ w \in scene.project

Prioritize(v, w) ==
    \/ ~Postponed(v) /\ Postponed(w)
    \/ (Postponed(v) <=> Postponed(w)) /\ height[v] > height[w]

Search ==
    /\ \E i \in DOMAIN Ladder :
        /\ Trying(i) /\ Ladder[i].how \in {"search", "visible", "first"}
        /\ LET ids == IF i >= XdotoolMethod THEN Found(i) \ seen ELSE Found(i)
           IN IF ids = {} THEN Fail /\ UNCHANGED <<cands, seen>>
              ELSE /\ UNCHANGED <<rung, focused, raised>>
                   /\ cands' \in IF Ladder[i].how = "first" THEN {{w} : w \in ids} ELSE {ids}
                   /\ seen' = IF i >= XdotoolMethod THEN seen \cup ids ELSE seen
    /\ UNCHANGED <<scene, height, open, outcome>>

\* The candidate whose turn it is.
Due(w) == w \in cands /\ \A v \in cands \ {w} : Prioritize(w, v)

MutantActivate ==
    /\ \E w \in cands : Due(w) /\ cands' = {} /\ IF w \in open THEN Raise(w) ELSE Fail
    /\ UNCHANGED <<scene, height, open, seen, outcome>>

\* windowactivate fails on a window that has been closed since; the next one is tried.
Activate ==
    /\ \E w \in cands :
        /\ Due(w)
        /\ IF w \in open THEN Raise(w) /\ cands' = {}
           ELSE /\ cands' = cands \ {w}
                /\ IF cands = {w} THEN Fail ELSE UNCHANGED <<rung, focused, raised>>
    /\ UNCHANGED <<scene, height, open, seen, outcome>>

-----------------------------------------------------------------------------
\* All attempts have been made, or a window has been raised.
Finish ==
    /\ rung = Len(Ladder) + 1 /\ ~Over /\ ~scene.pane
    /\ outcome' = IF focused THEN "ok" ELSE "error"
    /\ UNCHANGED <<scene, height, open, rung, cands, seen, focused, raised>>

\* wezTermWindowTitle: the title of the pane's window, for the extension to raise;
\* a window with the same title may be raised in its place.
PaneTitle ==
    /\ rung = Len(Ladder) + 1 /\ scene.pane
    /\ rung' = rung + 1
    /\ IF {"wezterm", "extension"} \subseteq scene.tools /\ Own \in open
       THEN raised' \in (scene.same \cup {Own}) \cap open
       ELSE UNCHANGED raised
    /\ UNCHANGED <<scene, height, open, cands, seen, focused, outcome>>

Switched == "wezterm" \in scene.tools /\ Own \in open

MutantPane ==
    /\ rung = Len(Ladder) + 2 /\ ~Over
    /\ raised' = IF Switched THEN Own ELSE raised
    /\ outcome' = IF Switched THEN "ok" ELSE "error"
    /\ UNCHANGED <<scene, height, open, rung, cands, seen, focused>>

\* TryWezTermPane; its error counts when nothing has been raised before.
Pane ==
    /\ rung = Len(Ladder) + 2 /\ ~Over
    /\ raised' = IF Switched THEN Own ELSE raised
    /\ outcome' = IF Switched \/ focused THEN "ok" ELSE "error"
    /\ UNCHANGED <<scene, height, open, rung, cands, seen, focused>>

FocusStep == Call \/ Application \/ Search \/ Activate \/ Finish \/ PaneTitle \/ Pane

\* A window is closed.
Vanish ==
    /\ rung > 0 /\ ~Over
    /\ \E w \in open : open' = open \ {w}
    /\ UNCHANGED <<scene, height, rung, cands, seen, focused, raised, outcome>>

-----------------------------------------------------------------------------
FocusTypeOK ==
    /\ scene \in Scenes \cup {Nothing} /\ open \subseteq Win /\ rung \in 0..(Len(Ladder) + 2)
    /\ cands \subseteq Win /\ seen \subseteq Win /\ focused \in BOOLEAN
    /\ raised \in Win \cup {Nothing, New} /\ outcome \in {"pending", "ok", "error"}
    /\ height \in [Win -> Nat]

\* The error of TryFocusWithHints, all the daemon logs, is true: a window has been
\* raised, or the application started, just when there is none.
ReportsTruth == Over => (outcome = "ok" <=> raised # Nothing)

\* kdotool tries a single window, which may have been closed since, and the desktop
\* none of an application that it does not know.
Thorough(i) ==
    /\ Made(scene, i) /\ Ladder[i].how # "first"
    /\ Ladder[i].how = "app" => scene.installed

\* No other attempt gives up on a window that it could have raised all the time: after
\* an error every window that was open throughout is one none of them looks for.
NotMissed == outcome = "error" => \A i \in DOMAIN Ladder : Thorough(i) => Found(i) = {}

\* The hook's own window, when it stays open, is the one on top in the end if the
\* hook noted its id and X11 tools are there, or for WezTerm its pane.
OwnRaised ==
    /\ Over /\ Own \in open
    /\ IF scene.pane THEN "wezterm" \in scene.tools
       ELSE scene.id /\ scene.tools \cap {"xdotool", "wmctrl"} # {}
    => raised = Own

\* CHANGELOG.md: a click focuses the exact project window.  Not so with xdotool,
\* see Prioritize.
ProjectRaised ==
    Over /\ scene.vscode /\ scene.folder /\ scene.tools = {"xdotool"} /\ ~scene.id
         /\ open \cap scene.project \cap scene.class # {} => raised \in scene.project
=============================================================================
