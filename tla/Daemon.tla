------------------------------- MODULE Daemon -------------------------------
(***************************************************************************)
(* The Linux notification daemon and its clients: daemons started on       *)
(* demand, the socket path they share, one handler per connection, the     *)
(* table of what to focus, the D-Bus signals of the notification server,   *)
(* and the ways a daemon ends: idle, a stop request, a signal, a kill.     *)
(* A step is one system call, one message or one critical section.         *)
(***************************************************************************)
EXTENDS Naturals, Sequences, FiniteSets

CONSTANTS
    Hooks,     \* hook processes: each sends one notification through a daemon
    Daemons,   \* daemon processes that can be started
    Early,     \* the daemons that other hooks have started just before
    MaxPolls,  \* how often a client looks for the daemon it has started (50 in the code)
    MaxKills,  \* how many daemons may be killed
    None       \* no daemon

ASSUME DaemonAssumption ==
    /\ None \notin Daemons /\ Early \subseteq Daemons
    /\ MaxPolls \in Nat \ {0} /\ MaxKills \in Nat

VARIABLES
    phase,     \* where each daemon process is
    sock,      \* the daemon the socket path leads to, None if there is no such path
    open,      \* whether its listener is open
    flag,      \* Server.shutdown
    closes,    \* how often the channel done has been closed: a second time panics
    checker,   \* the idleChecker: "watching", "expired" (found the daemon idle), "over"
    ctx,       \* focusCtx: the notifications whose focus target is stored
    signals,   \* D-Bus signals not handled yet, oldest first
    focusing,  \* the notification whose click is being handled
    cpc,       \* where each client is
    polls,     \* looks left for the daemon it has started
    conn,      \* its latest connection: the daemon and how far the handler is
    note,      \* the notification on the screen: "none", "open", "closed"
    click      \* what became of a click on it

server == <<phase, sock, open, flag, closes, checker>>
table == <<ctx, signals, focusing>>
client == <<cpc, polls>>
screen == <<note, click>>
vars == <<server, table, client, conn, screen>>

Phases == {"unused", "starting", "binding", "listening", "serving", "draining", "cleaning", "gone", "killed"}
Answered == {"ok", "error"}
Handling == {"sending", "sent"}
Asking == {"pinging", "polling", "asking"}

TypeOK ==
    /\ phase \in [Daemons -> Phases] /\ sock \in Daemons \cup {None}
    /\ open \in [Daemons -> BOOLEAN] /\ flag \in [Daemons -> BOOLEAN]
    /\ closes \in [Daemons -> Nat]
    /\ checker \in [Daemons -> {"watching", "expired", "over"}]
    /\ ctx \in [Daemons -> SUBSET Hooks]
    /\ signals \in [Daemons -> Seq({"action", "closed"} \X Hooks)]
    /\ focusing \in [Daemons -> SUBSET Hooks]
    /\ cpc \in [Hooks -> {"off", "probe", "poll", "ready", "shown", "failed", "late"} \cup Asking]
    /\ polls \in [Hooks -> 0 .. MaxPolls]
    /\ conn \in [Hooks -> [at : Daemons \cup {None},
                             st : {"none", "queued", "reset"} \cup Handling \cup Answered]]
    /\ note \in [Hooks -> {"none", "open", "closed"}]
    /\ click \in [Hooks -> {"none", "pending", "focused", "failed", "early"}]

Gone(d) == phase[d] \in {"gone", "killed"}
Running(d) == phase[d] \in {"starting", "binding", "listening", "serving", "draining", "cleaning"}
Connections(d, states) == {c \in Hooks : conn[c].at = d /\ conn[c].st \in states}
Become(c, label) == cpc' = [cpc EXCEPT ![c] = label]
Handler(c, st) == conn' = [conn EXCEPT ![c].st = st]
Phase(d, label) == phase' = [phase EXCEPT ![d] = label]

\* The early daemons have just been started by hooks that are not modelled.
Init ==
    /\ phase = [d \in Daemons |-> IF d \in Early THEN "starting" ELSE "unused"]
    /\ sock = None
    /\ open = [d \in Daemons |-> FALSE] /\ flag = [d \in Daemons |-> FALSE]
    /\ closes = [d \in Daemons |-> 0] /\ checker = [d \in Daemons |-> "watching"]
    /\ ctx = [d \in Daemons |-> {}] /\ signals = [d \in Daemons |-> <<>>]
    /\ focusing = [d \in Daemons |-> {}]
    /\ cpc = [c \in Hooks |-> "off"] /\ polls = [c \in Hooks |-> MaxPolls]
    /\ conn = [c \in Hooks |-> [at |-> None, st |-> "none"]]
    /\ note = [h \in Hooks |-> "none"] /\ click = [h \in Hooks |-> "none"]

\* The process ends and its memory with it.
Die(d, label) ==
    /\ Phase(d, label) /\ open' = [open EXCEPT ![d] = FALSE]
    /\ flag' = [flag EXCEPT ![d] = FALSE] /\ closes' = [closes EXCEPT ![d] = 0]
    /\ checker' = [checker EXCEPT ![d] = "over"]
    /\ ctx' = [ctx EXCEPT ![d] = {}] /\ focusing' = [focusing EXCEPT ![d] = {}]
    /\ signals' = [signals EXCEPT ![d] = <<>>]

-----------------------------------------------------------------------------
\* The client: NewClient, send, IsDaemonRunning, StartDaemonOnDemand.

\* A hook enters sendViaDaemon.
Begin(c) ==
    /\ cpc[c] = "off"
    /\ Become(c, "probe")
    /\ UNCHANGED <<server, table, polls, conn, screen>>

Reachable == sock # None /\ open[sock]
Awaiting == [probe |-> "pinging", poll |-> "polling", ready |-> "asking"]

\* The socket path exists and somebody listens: the request waits to be accepted.
Dial(c) ==
    /\ cpc[c] \in DOMAIN Awaiting /\ Reachable
    /\ conn' = [conn EXCEPT ![c] = [at |-> sock, st |-> "queued"]]
    /\ Become(c, Awaiting[cpc[c]])
    /\ UNCHANGED <<server, table, polls, screen>>

MutantNoAnswer(c) ==
    /\ \/ \E d \in Daemons :
             /\ cpc[c] \in {"probe", "pinging"} /\ phase[d] = "unused"
             /\ Phase(d, "starting") /\ Become(c, "poll") /\ UNCHANGED polls
       \/ /\ cpc[c] \in {"poll", "polling"} /\ polls' = [polls EXCEPT ![c] = @ - 1]
          /\ Become(c, IF polls[c] = 0 THEN "failed" ELSE "poll") /\ UNCHANGED phase
       \/ /\ cpc[c] \notin {"poll", "polling"}
          /\ Become(c, "failed") /\ UNCHANGED <<phase, polls>>
    /\ UNCHANGED <<sock, open, flag, closes, checker, table, conn, screen>>

\* What a client does without an answer: start a daemon, look again, or give up.
NoAnswer(c) ==
    LET Start(d) == /\ phase[d] = "unused" /\ Phase(d, "starting")
                    /\ Become(c, "poll") /\ UNCHANGED polls
        LookAgain == /\ cpc[c] \in {"poll", "polling"}
                     /\ polls' = [polls EXCEPT ![c] = @ - 1]
                     /\ Become(c, IF polls[c] = 1 THEN "failed" ELSE "poll")
                     /\ UNCHANGED phase
        GiveUp == Become(c, "failed") /\ UNCHANGED <<phase, polls>>
    IN /\ \/ cpc[c] \in {"probe", "pinging"} /\ \E d \in Daemons : Start(d)
          \/ LookAgain
          \/ cpc[c] \notin {"poll", "polling"} /\ GiveUp
       /\ UNCHANGED <<sock, open, flag, closes, checker, table, conn, screen>>

\* No socket path, or nobody behind it.
Refused(c) ==
    /\ cpc[c] \in DOMAIN Awaiting /\ ~Reachable
    /\ NoAnswer(c)

MutantDropped(c) == conn[c].st = "reset" \/ Gone(conn[c].at)

\* The connection was reset or its daemon is gone before it answered.
Dropped(c) == conn[c].st \notin Answered /\ (conn[c].st = "reset" \/ Gone(conn[c].at))
Cut(c) ==
    /\ cpc[c] \in Asking /\ Dropped(c)
    /\ NoAnswer(c)

MutantTimeOut(c) ==
    /\ cpc[c] = "asking" /\ conn[c].st = "sent" /\ ~Dropped(c)
    /\ Become(c, "late")
    /\ UNCHANGED <<server, table, polls, conn, screen>>

\* The 30 seconds of the deadline pass while the notification server does not answer.
TimeOut(c) ==
    /\ cpc[c] = "asking" /\ conn[c].st = "sending" /\ ~Dropped(c)
    /\ Become(c, "late")
    /\ UNCHANGED <<server, table, polls, conn, screen>>

Answer(c) ==
    /\ cpc[c] \in Asking /\ conn[c].st \in Answered
    /\ Become(c, CASE cpc[c] \in {"pinging", "polling"} -> "ready"
                   [] conn[c].st = "error" -> "failed"
                   [] OTHER -> "shown")
    /\ UNCHANGED <<server, table, polls, conn, screen>>

-----------------------------------------------------------------------------
\* Server.Run: the daemon takes the socket path over and serves.

\* NewServer fails without a session bus; then the old path is removed.
Remove(d) ==
    /\ phase[d] = "starting"
    /\ \/ Phase(d, "binding") /\ sock' = None /\ UNCHANGED <<open, flag, closes, checker, table>>
       \/ Die(d, "gone") /\ UNCHANGED sock
    /\ UNCHANGED <<client, conn, screen>>

\* Listen creates the path, or fails when another daemon has just created it.
Bind(d) ==
    /\ phase[d] = "binding"
    /\ \/ /\ sock = None
          /\ sock' = d /\ open' = [open EXCEPT ![d] = TRUE] /\ Phase(d, "listening")
          /\ UNCHANGED <<flag, closes, checker, table>>
       \/ sock # None /\ Die(d, "gone") /\ UNCHANGED sock
    /\ UNCHANGED <<client, conn, screen>>

\* Chmod of the path, whoever's it is by now.  If another daemon has removed it since,
\* Run fails, and closing the listener unlinks a path bound in between; otherwise
\* connections are accepted from here on.
Chmod(d) ==
    /\ phase[d] = "listening"
    /\ Phase(d, IF sock = None THEN "cleaning" ELSE "serving")
    /\ UNCHANGED <<sock, open, flag, closes, checker, table, client, conn, screen>>

Alive(c) == conn[c].at # None /\ Running(conn[c].at)

\* acceptLoop and handleConnection: the connection joins the wait group,
\* activity is noted, the request decoded; a ping is answered at once.
Handle(c) ==
    /\ conn[c].st = "queued" /\ phase[conn[c].at] = "serving"
    /\ Handler(c, IF cpc[c] \in {"pinging", "polling"} THEN "ok" ELSE "sending")
    /\ UNCHANGED <<server, table, client, screen>>

\* close(s.done) under s.mu, at most once.
RequestShutdown(d) ==
    /\ flag' = [flag EXCEPT ![d] = TRUE]
    /\ closes' = [closes EXCEPT ![d] = IF flag[d] THEN @ ELSE @ + 1]

MutantStop(d) ==
    /\ phase[d] \in {"serving", "draining"}
    /\ flag' = [flag EXCEPT ![d] = TRUE]
    /\ closes' = [closes EXCEPT ![d] = @ + 1]
    /\ UNCHANGED <<phase, sock, open, checker, table, client, conn, screen>>

\* The handler of a stop request asks for the shutdown once it has answered.
Stop(d) ==
    /\ phase[d] \in {"serving", "draining"}
    /\ RequestShutdown(d)
    /\ UNCHANGED <<phase, sock, open, checker, table, client, conn, screen>>

MutantSend(h) ==
    /\ conn[h].st = "sending" /\ Alive(h)
    /\ \/ Handler(h, "sent") /\ note' = [note EXCEPT ![h] = "open"]
       \/ Handler(h, "ok") /\ UNCHANGED note
    /\ UNCHANGED <<server, table, client, click>>

\* SendNotification over D-Bus returns an id, or fails.
Send(h) ==
    /\ conn[h].st = "sending" /\ Alive(h)
    /\ \/ Handler(h, "sent") /\ note' = [note EXCEPT ![h] = "open"]
       \/ Handler(h, "error") /\ UNCHANGED note
    /\ UNCHANGED <<server, table, client, click>>

\* The focus target is stored under the lock, and the client answered.
Store(h) ==
    /\ conn[h].st = "sent" /\ Alive(h)
    /\ Handler(h, "ok")
    /\ ctx' = [ctx EXCEPT ![conn[h].at] = @ \cup {h}]
    /\ UNCHANGED <<server, signals, focusing, client, screen>>

-----------------------------------------------------------------------------
\* Signals of the notification server reach every daemon on the session bus;
\* all but the one that showed the notification find nothing to do.

Signal(h, sigs) ==
    LET d == conn[h].at IN
    /\ note[h] = "open" /\ note' = [note EXCEPT ![h] = "closed"]
    /\ signals' = IF Running(d) THEN [signals EXCEPT ![d] = @ \o sigs] ELSE signals
    /\ UNCHANGED <<server, ctx, focusing, client, conn>>

\* A click invokes the action and closes the notification.
Click(h) ==
    /\ Signal(h, <<<<"action", h>>, <<"closed", h>>>>)
    /\ click' = [click EXCEPT ![h] = "pending"]

\* It expires or is dismissed.
Expire(h) == Signal(h, <<<<"closed", h>>>>) /\ UNCHANGED click

Listening(d) == Running(d) /\ signals[d] # <<>> /\ focusing[d] = {}

\* onNotificationClosed forgets the focus target.
Closed(d) ==
    /\ Listening(d) /\ Head(signals[d])[1] = "closed"
    /\ ctx' = [ctx EXCEPT ![d] = @ \ {Head(signals[d])[2]}]
    /\ signals' = [signals EXCEPT ![d] = Tail(@)]
    /\ UNCHANGED <<server, focusing, client, conn, screen>>

MutantActionInvoked(d) ==
    LET h == Head(signals[d])[2] IN
    /\ Listening(d) /\ Head(signals[d])[1] = "action"
    /\ signals' = [signals EXCEPT ![d] = Tail(@)]
    /\ ctx' = [ctx EXCEPT ![d] = @ \ {h}]
    /\ UNCHANGED <<server, focusing, client, conn, screen>>

\* onActionInvoked: without a stored target the click is dropped; it comes
\* "early" when the handler that showed the notification has not stored it yet.
ActionInvoked(d) ==
    LET h == Head(signals[d])[2] IN
    /\ Listening(d) /\ Head(signals[d])[1] = "action"
    /\ signals' = [signals EXCEPT ![d] = Tail(@)]
    /\ \/ h \in ctx[d] /\ focusing' = [focusing EXCEPT ![d] = {h}] /\ UNCHANGED click
       \/ /\ h \notin ctx[d] /\ UNCHANGED focusing
          /\ click' = IF conn[h] = [at |-> d, st |-> "sent"]
                      THEN [click EXCEPT ![h] = "early"] ELSE click
    /\ UNCHANGED <<server, ctx, client, conn, note>>

\* TryFocusWithHints returns, and the target is forgotten.
Focused(d) ==
    \E h \in focusing[d] :
        /\ Running(d)
        /\ click' \in {[click EXCEPT ![h] = r] : r \in {"focused", "failed"}}
        /\ focusing' = [focusing EXCEPT ![d] = {}]
        /\ ctx' = [ctx EXCEPT ![d] = @ \ {h}]
        /\ UNCHANGED <<server, signals, client, conn, note>>

-----------------------------------------------------------------------------
\* The ends of a daemon.

MutantIdleFound(d) ==
    /\ phase[d] = "serving" /\ checker[d] = "watching" /\ closes[d] = 0
    /\ {c \in Connections(d, Handling) : cpc[c] \in Asking} = {}
    /\ sock \in {d, None}
    /\ checker' = [checker EXCEPT ![d] = "expired"]
    /\ UNCHANGED <<phase, sock, open, flag, closes, table, client, conn, screen>>

\* The ticker finds that the last activity is five minutes old: no handler that
\* has begun since then still has a client waiting, whose deadline is 30 seconds.
Recent(d) == {c \in Connections(d, Handling) : cpc[c] \in Asking}
IdleFound(d) ==
    /\ phase[d] = "serving" /\ checker[d] = "watching" /\ closes[d] = 0 /\ Recent(d) = {}
    /\ checker' = [checker EXCEPT ![d] = "expired"]
    /\ UNCHANGED <<phase, sock, open, flag, closes, table, client, conn, screen>>

IdleClose(d) ==
    /\ Running(d) /\ checker[d] = "expired"
    /\ checker' = [checker EXCEPT ![d] = "over"]
    /\ RequestShutdown(d)
    /\ UNCHANGED <<phase, sock, open, table, client, conn, screen>>

\* Run sees done closed; Shutdown finds the flag set and returns: the process
\* ends without closing, waiting or removing anything.
Exit(d) ==
    /\ phase[d] = "serving" /\ closes[d] > 0
    /\ Die(d, "gone")
    /\ UNCHANGED <<sock, client, conn, screen>>

\* SIGTERM or SIGINT reaches Run: Shutdown takes the flag and closes the
\* listener, which resets what nobody accepted and unlinks the path, whoever has
\* bound it by now.
Terminate(d) ==
    /\ phase[d] = "serving" /\ ~flag[d]
    /\ Phase(d, "draining") /\ RequestShutdown(d)
    /\ open' = [open EXCEPT ![d] = FALSE] /\ sock' = None
    /\ conn' = [c \in Hooks |-> IF c \in Connections(d, {"queued"})
                                  THEN [conn[c] EXCEPT !.st = "reset"] ELSE conn[c]]
    /\ UNCHANGED <<checker, table, client, screen>>

\* The wait group is empty.
Drained(d) ==
    /\ phase[d] = "draining" /\ Connections(d, Handling) = {} /\ checker[d] # "expired"
    /\ Phase(d, "cleaning")
    /\ UNCHANGED <<sock, open, flag, closes, checker, table, client, conn, screen>>

\* It is not empty after five seconds: the notification server holds a handler.
DrainTimeout(d) ==
    /\ phase[d] = "draining" /\ Connections(d, {"sending"}) # {}
    /\ Phase(d, "cleaning")
    /\ UNCHANGED <<sock, open, flag, closes, checker, table, client, conn, screen>>

Cleanup(d) ==
    /\ phase[d] = "cleaning"
    /\ Die(d, "gone") /\ sock' = None
    /\ UNCHANGED <<client, conn, screen>>

\* The daemon is killed: its path stays.
Kill(d) ==
    /\ Running(d) /\ Cardinality({e \in Daemons : phase[e] = "killed"}) < MaxKills
    /\ Die(d, "killed")
    /\ UNCHANGED <<sock, client, conn, screen>>

-----------------------------------------------------------------------------
ClientStep(c) == Dial(c) \/ Refused(c) \/ Cut(c) \/ TimeOut(c) \/ Answer(c)
HandlerStep(h) == Send(h) \/ Store(h)
UserStep(h) == Click(h) \/ Expire(h)
SignalStep(d) == Closed(d) \/ ActionInvoked(d) \/ Focused(d)
StartStep(d) == Remove(d) \/ Bind(d) \/ Chmod(d)
IdleStep(d) == IdleFound(d) \/ IdleClose(d)
EndStep(d) == Exit(d) \/ Drained(d) \/ DrainTimeout(d) \/ Cleanup(d)

DaemonNext ==
    \/ \E c \in Hooks : ClientStep(c) \/ Handle(c)
    \/ \E h \in Hooks : HandlerStep(h) \/ UserStep(h)
    \/ \E d \in Daemons : SignalStep(d) \/ StartStep(d) \/ IdleStep(d) \/ EndStep(d)
    \/ \E d \in Daemons : Stop(d) \/ Terminate(d) \/ Kill(d)

Next == DaemonNext \/ \E c \in Hooks : Begin(c)
=============================================================================
