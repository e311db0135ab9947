------------------------------ MODULE MCSession ------------------------------
(***************************************************************************)
(* An instance of Session for TLC.  The windows into the transcript are    *)
(* scaled down; their order is the code's: notices of a limit are looked   *)
(* for among fewer messages than tools are.                                *)
(***************************************************************************)
EXTENDS Session

CONSTANTS w1, w2, w3

Said(words) == [who |-> "assistant", tool |-> None, words |-> words, asks |-> FALSE,
                limit |-> FALSE, error |-> "none"]
Did(name, words) == [Said(words) EXCEPT !.tool = name]

MCMessage ==
    { [Said(1) EXCEPT !.who = "user"], [Said(0) EXCEPT !.who = "user"], Said(1), Did("Write", 0),
      Did("Read", 2), Did("ExitPlanMode", 0), Did("AskUserQuestion", 1),
      [Said(1) EXCEPT !.limit = TRUE], [Said(1) EXCEPT !.error = "other"] }

MCRules == {[status |-> "plan_ready", folder |-> Every], [status |-> Every, folder |-> Every],
            [status |-> Every, folder |-> "elsewhere"]}

\* Two windows of the terminal, one of them the hook's, and a window of another
\* application with the folder in its title.
X11 == [tools |-> {"xdotool", "wmctrl"}, class |-> {w1, w2}, project |-> {w1, w3}, named |-> {w1, w2},
        same |-> {w1}, hidden |-> {w2}, vscode |-> FALSE, folder |-> TRUE, installed |-> TRUE,
        id |-> FALSE, title |-> FALSE, pane |-> FALSE]

MCScenes ==
    { [X11 EXCEPT !.id = TRUE], [X11 EXCEPT !.id = TRUE, !.tools = {"wmctrl"}],
      [X11 EXCEPT !.title = TRUE, !.same = {w1, w2}],
      [X11 EXCEPT !.tools = {"xdotool"}, !.vscode = TRUE, !.hidden = {}],
      [X11 EXCEPT !.tools = {"extension"}, !.vscode = TRUE],
      [X11 EXCEPT !.tools = {"eval", "focusapp"}, !.installed = FALSE],
      [X11 EXCEPT !.tools = {"eval", "focusapp"}, !.named = {}],
      [X11 EXCEPT !.tools = {"eval", "focusapp"}, !.named = {}, !.installed = FALSE],
      [X11 EXCEPT !.tools = {"wlrctl", "kdotool"}, !.class = {w1}],
      [X11 EXCEPT !.tools = {"kdotool"}],
      [X11 EXCEPT !.tools = {"extension", "wezterm"}, !.same = {w1, w2}, !.pane = TRUE],
      [X11 EXCEPT !.pane = TRUE, !.named = {}], [X11 EXCEPT !.tools = {}] }
=============================================================================
