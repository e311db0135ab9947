--------------------------- MODULE DesktopProofs ---------------------------
(***************************************************************************)
(* Proofs about the safety of Desktop and Daemon, for any number of hooks, *)
(* daemons, looks for the daemon and kills: a notification is shown unless *)
(* an error is reported, appears twice only when the daemon's answer was   *)
(* lost, no daemon closes its channel done twice, and no click is lost.    *)
(* That hooks and daemons end is liveness and is left to TLC.              *)
(***************************************************************************)
EXTENDS Desktop, SequenceTheorems, TLAPS

USE DaemonAssumption

\* The actions grouped by who acts: a client or its handler, and a daemon.
Talk(c) == ClientStep(c) \/ Handle(c) \/ HandlerStep(c)
Life(d) == StartStep(d) \/ IdleStep(d) \/ EndStep(d) \/ Stop(d) \/ Terminate(d) \/ Kill(d)

\* Every step belongs to one of five groups; what each group leaves alone follows.
LEMMA Steps ==
  ASSUME DesktopNext
  PROVE  \/ \E h \in Hooks : NotifierStep(h)
         \/ UNCHANGED dvars
         \/ /\ UNCHANGED desktop
            /\ \/ \E c \in Hooks : Talk(c) \/ UserStep(c)
               \/ \E d \in Daemons : SignalStep(d) \/ Life(d)
  BY Zenon DEF DesktopNext, DaemonNext, Over, Talk, Life

LEMMA TalkKeeps ==
  ASSUME NEW c \in Hooks, Talk(c)
  PROVE  UNCHANGED <<sock, open, flag, closes, checker, signals, focusing, click>>
  BY DEF Talk, ClientStep, HandlerStep, Dial, Refused, Cut, TimeOut, Answer, NoAnswer, Handle,
         Send, Store, server, table, client, screen

LEMMA UserKeeps ==
  ASSUME NEW h \in Hooks, UserStep(h)
  PROVE  UNCHANGED <<server, ctx, focusing, client, conn>>
  BY DEF UserStep, Click, Expire, Signal

LEMMA SignalKeeps ==
  ASSUME NEW d \in Daemons, SignalStep(d)
  PROVE  UNCHANGED <<server, client, conn, note>>
  BY DEF SignalStep, Closed, ActionInvoked, Focused, screen

LEMMA LifeKeeps ==
  ASSUME NEW d \in Daemons, Life(d)
  PROVE  UNCHANGED <<client, screen>>
  BY DEF Life, StartStep, IdleStep, EndStep, Remove, Bind, Chmod, IdleFound, IdleClose, Exit,
         Drained, DrainTimeout, Cleanup, Stop, Terminate, Kill, Die

LEMMA NotifierKeeps ==
  ASSUME NEW h \in Hooks, NotifierStep(h)
  PROVE  UNCHANGED <<server, table, polls, conn, screen>>
  BY DEF NotifierStep, Delegate, DaemonResult, App, FirstBeeep, Beeep, Played, Close, Begin,
         vars, client

-----------------------------------------------------------------------------
\* Type correctness, one group of variables at a time: the daemons.
ServerOK ==
    /\ phase \in [Daemons -> Phases] /\ sock \in Daemons \cup {None}
    /\ open \in [Daemons -> BOOLEAN] /\ flag \in [Daemons -> BOOLEAN]
    /\ closes \in [Daemons -> Nat]
    /\ checker \in [Daemons -> {"watching", "expired", "over"}]

\* What a shutdown request, the death of a daemon and a client do to the daemons.
LEMMA Closing ==
  ASSUME ServerOK, NEW d \in Daemons, RequestShutdown(d)
  PROVE  flag' \in [Daemons -> BOOLEAN] /\ closes' \in [Daemons -> Nat]
  BY DEF ServerOK, RequestShutdown

LEMMA Dying ==
  ASSUME ServerOK, NEW d \in Daemons, NEW l \in {"gone", "killed"}, Die(d, l)
  PROVE  /\ phase' \in [Daemons -> Phases] /\ phase' = [phase EXCEPT ![d] = l]
         /\ open' \in [Daemons -> BOOLEAN] /\ flag' \in [Daemons -> BOOLEAN]
         /\ closes' \in [Daemons -> Nat]
         /\ checker' \in [Daemons -> {"watching", "expired", "over"}]
  BY DEF ServerOK, Die, Phase, Phases

LEMMA TalkPhase ==
  ASSUME ServerOK, NEW c \in Hooks, Talk(c)
  PROVE  \/ phase' = phase
         \/ \E d \in Daemons : phase[d] = "unused" /\ phase' = [phase EXCEPT ![d] = "starting"]
  BY DEF Talk, ClientStep, HandlerStep, Dial, Refused, Cut, TimeOut, Answer, NoAnswer, Handle,
         Send, Store, server, Phase

LEMMA ServerStep == ServerOK /\ [DesktopNext]_dvars => ServerOK'
<1> SUFFICES ASSUME ServerOK, [DesktopNext]_dvars PROVE ServerOK'
  OBVIOUS
<1>1. ASSUME NEW h \in Hooks, NotifierStep(h) PROVE ServerOK'
  BY <1>1, NotifierKeeps DEF server, ServerOK
<1>2. ASSUME NEW c \in Hooks, Talk(c) PROVE ServerOK'
  BY <1>2, TalkKeeps, TalkPhase DEF ServerOK, Phases
<1>3. ASSUME NEW h \in Hooks, UserStep(h) PROVE ServerOK'
  BY <1>3, UserKeeps DEF server, ServerOK
<1>4. ASSUME NEW d \in Daemons, SignalStep(d) PROVE ServerOK'
  BY <1>4, SignalKeeps DEF server, ServerOK
<1>5. ASSUME NEW d \in Daemons, Life(d) PROVE ServerOK'
  <2>1. CASE Die(d, "gone") /\ UNCHANGED sock
    BY <2>1, Dying DEF ServerOK
  <2>5. ASSUME Phase(d, "binding"), sock' = None, UNCHANGED <<open, flag, closes, checker>>
        PROVE  ServerOK'
    BY <2>5 DEF ServerOK, Phase, Phases
  <2>7. ASSUME sock' = d, open' = [open EXCEPT ![d] = TRUE], Phase(d, "listening"),
               UNCHANGED <<flag, closes, checker>>
        PROVE  ServerOK'
    BY <2>7 DEF ServerOK, Phase, Phases
  <2>2. CASE IdleFound(d) \/ IdleClose(d) \/ Stop(d)
    BY <2>2, Closing DEF IdleFound, IdleClose, Stop, ServerOK
  <2>3. CASE Exit(d) \/ Cleanup(d) \/ Kill(d)
    BY <2>3, Dying DEF Exit, Cleanup, Kill, ServerOK
  <2>4. CASE Chmod(d) \/ Drained(d) \/ DrainTimeout(d)
    BY <2>4 DEF Chmod, Drained, DrainTimeout, ServerOK, Phase, Phases
  <2>6. CASE Terminate(d)
    BY <2>6, Closing DEF Terminate, ServerOK, Phase, Phases
  <2> QED
    BY <1>5, <2>1, <2>2, <2>3, <2>4, <2>5, <2>6, <2>7
       DEF Life, StartStep, IdleStep, EndStep, Remove, Bind
<1>6. CASE UNCHANGED dvars
  BY <1>6 DEF dvars, vars, server, ServerOK
<1> QED
  BY <1>1, <1>2, <1>3, <1>4, <1>5, <1>6, Steps

-----------------------------------------------------------------------------
\* The focus tables and the queues of signals.
TableOK ==
    /\ ctx \in [Daemons -> SUBSET Hooks]
    /\ signals \in [Daemons -> Seq({"action", "closed"} \X Hooks)]
    /\ focusing \in [Daemons -> SUBSET Hooks]

\* The clients: one that still looks for its daemon has a look left.
Waiting(c) == cpc[c] \in {"off", "probe", "pinging", "poll", "polling"}
ClientOK ==
    /\ cpc \in [Hooks -> {"off", "probe", "poll", "ready", "shown", "failed", "late"} \cup Asking]
    /\ polls \in [Hooks -> 0 .. MaxPolls]
    /\ \A c \in Hooks : Waiting(c) => polls[c] > 0

\* The connections, and the screen.
ConnOK ==
    conn \in [Hooks -> [at : Daemons \cup {None},
                        st : {"none", "queued", "reset"} \cup Handling \cup Answered]]
ScreenOK ==
    /\ note \in [Hooks -> {"none", "open", "closed"}]
    /\ click \in [Hooks -> {"none", "pending", "focused", "failed", "early"}]

LEMMA ClientMoves ==
  ASSUME ClientOK, NEW c \in Hooks, ClientStep(c)
  PROVE  ClientOK'
<1>1. CASE Dial(c)
  BY <1>1 DEF Dial, Become, Awaiting, ClientOK, Asking, Waiting
<1>2. CASE TimeOut(c) \/ Answer(c)
  BY <1>2 DEF TimeOut, Answer, Become, ClientOK, Asking, Waiting, client
<1>3. CASE Refused(c) \/ Cut(c)
  <2>1. NoAnswer(c) /\ cpc[c] \in DOMAIN Awaiting \cup Asking
    BY <1>3 DEF Refused, Cut
  <2>2. \/ cpc[c] \in {"probe", "pinging"} /\ Become(c, "poll") /\ polls' = polls
        \/ /\ cpc[c] \in {"poll", "polling"} /\ polls' = [polls EXCEPT ![c] = @ - 1]
           /\ Become(c, IF polls[c] = 1 THEN "failed" ELSE "poll")
        \/ Become(c, "failed") /\ polls' = polls
    BY <2>1 DEF NoAnswer
  <2> QED
    BY <2>2 DEF ClientOK, Become, Asking, Waiting
<1> QED
  BY <1>1, <1>2, <1>3 DEF ClientStep

LEMMA TalkStores ==
  ASSUME ConnOK, TableOK, NEW c \in Hooks, Talk(c)
  PROVE  ctx' \in [Daemons -> SUBSET Hooks] /\ \A d \in Daemons : ctx[d] \subseteq ctx'[d]
<1>1. \/ ctx' = ctx
      \/ Store(c) /\ conn[c].at \in Daemons /\ ctx' = [ctx EXCEPT ![conn[c].at] = @ \cup {c}]
  BY DEF ConnOK, Talk, ClientStep, HandlerStep, Dial, Refused, Cut, TimeOut, Answer, NoAnswer,
         Handle, Send, Store, Alive, table
<1>2. CASE ctx' = ctx
  BY <1>2 DEF TableOK
<1>3. ASSUME NEW d \in Daemons, ctx' = [ctx EXCEPT ![d] = @ \cup {c}] PROVE
         ctx' \in [Daemons -> SUBSET Hooks] /\ \A e \in Daemons : ctx[e] \subseteq ctx'[e]
  BY <1>3 DEF TableOK
<1> QED
  BY <1>1, <1>2, <1>3

LEMMA TableStep == TableOK /\ ConnOK /\ [DesktopNext]_dvars => TableOK'
<1> SUFFICES ASSUME TableOK, ConnOK, [DesktopNext]_dvars PROVE TableOK'
  OBVIOUS
<1>1. ASSUME NEW h \in Hooks, NotifierStep(h) PROVE TableOK'
  BY <1>1, NotifierKeeps DEF table, TableOK
<1>2. ASSUME NEW c \in Hooks, Talk(c) PROVE TableOK'
  BY <1>2, TalkStores, TalkKeeps DEF TableOK
<1>3. ASSUME NEW h \in Hooks, UserStep(h) PROVE TableOK'
  <2> DEFINE Sig == {"action", "closed"} \X Hooks
  <2>1. PICK sigs \in Seq(Sig) : Signal(h, sigs)
    <3>1. <<"action", h>> \in Sig /\ <<"closed", h>> \in Sig
      OBVIOUS
    <3>2. <<<<"action", h>>, <<"closed", h>>>> \in Seq(Sig) /\ <<<<"closed", h>>>> \in Seq(Sig)
      BY <3>1
    <3> QED
      BY <1>3, <3>2 DEF UserStep, Click, Expire
  <2>2. ASSUME NEW d \in Daemons PROVE signals[d] \o sigs \in Seq(Sig)
    BY ConcatProperties DEF TableOK
  <2> QED
    BY <1>3, <2>1, <2>2, UserKeeps DEF TableOK, Signal
<1>4. ASSUME NEW d \in Daemons, SignalStep(d) PROVE TableOK'
  <2>1. CASE Focused(d)
    BY <2>1 DEF TableOK, Focused
  <2>2. CASE Closed(d) \/ ActionInvoked(d)
    <3>1. /\ Head(signals[d]) \in {"action", "closed"} \X Hooks
          /\ Tail(signals[d]) \in Seq({"action", "closed"} \X Hooks)
      BY <2>2, HeadTailProperties DEF Closed, ActionInvoked, Listening, TableOK
    <3>2. signals' = [signals EXCEPT ![d] = Tail(@)]
      BY <2>2 DEF Closed, ActionInvoked
    <3>3. \/ UNCHANGED <<ctx, focusing>>
          \/ ctx' = [ctx EXCEPT ![d] = @ \ {Head(signals[d])[2]}] /\ UNCHANGED focusing
          \/ focusing' = [focusing EXCEPT ![d] = {Head(signals[d])[2]}] /\ UNCHANGED ctx
      BY <2>2 DEF Closed, ActionInvoked
    <3>4. {Head(signals[d])[2]} \in SUBSET Hooks
      BY <3>1
    <3>5. ctx' \in [Daemons -> SUBSET Hooks]
      BY <3>3 DEF TableOK
    <3>6. focusing' \in [Daemons -> SUBSET Hooks]
      BY <3>3, <3>4 DEF TableOK
    <3>7. signals' \in [Daemons -> Seq({"action", "closed"} \X Hooks)]
      BY <3>1, <3>2 DEF TableOK
    <3> QED
      BY <3>5, <3>6, <3>7 DEF TableOK
  <2> QED
    BY <1>4, <2>1, <2>2 DEF SignalStep
<1>5. ASSUME NEW d \in Daemons, Life(d) PROVE TableOK'
  <2>1. \/ UNCHANGED table
        \/ /\ ctx' = [ctx EXCEPT ![d] = {}] /\ focusing' = [focusing EXCEPT ![d] = {}]
           /\ signals' = [signals EXCEPT ![d] = <<>>]
    BY <1>5
       DEF Life, StartStep, IdleStep, EndStep, Remove, Bind, Chmod, IdleFound, IdleClose, Exit,
           Drained, DrainTimeout, Cleanup, Stop, Terminate, Kill, Die, table
  <2> QED
    <3>1. <<>> \in Seq({"action", "closed"} \X Hooks) /\ {} \in SUBSET Hooks
      BY EmptySeq
    <3> QED
      BY <2>1, <3>1 DEF TableOK, table
<1>6. CASE UNCHANGED dvars
  BY <1>6 DEF dvars, vars, table, TableOK
<1> QED
  BY <1>1, <1>2, <1>3, <1>4, <1>5, <1>6, Steps

LEMMA ClientsStep == ClientOK /\ [DesktopNext]_dvars => ClientOK'
<1> SUFFICES ASSUME ClientOK, [DesktopNext]_dvars PROVE ClientOK'
  OBVIOUS
<1>1. ASSUME NEW h \in Hooks, NotifierStep(h) PROVE ClientOK'
  BY <1>1, NotifierKeeps
     DEF ClientOK, NotifierStep, Delegate, DaemonResult, App, FirstBeeep, Beeep, Played,
         Close, Begin, vars, client, Become, Waiting
<1>2. ASSUME NEW c \in Hooks, Talk(c) PROVE ClientOK'
  BY <1>2, ClientMoves DEF ClientOK, Talk, HandlerStep, Handle, Send, Store, client, Waiting
<1>3. ASSUME NEW h \in Hooks, UserStep(h) PROVE ClientOK'
  BY <1>3, UserKeeps DEF ClientOK, client, Waiting
<1>4. ASSUME NEW d \in Daemons, SignalStep(d) PROVE ClientOK'
  BY <1>4, SignalKeeps DEF ClientOK, client, Waiting
<1>5. ASSUME NEW d \in Daemons, Life(d) PROVE ClientOK'
  BY <1>5, LifeKeeps DEF ClientOK, client, Waiting
<1>6. CASE UNCHANGED dvars
  BY <1>6 DEF dvars, vars, client, ClientOK, Waiting
<1> QED
  BY <1>1, <1>2, <1>3, <1>4, <1>5, <1>6, Steps

LEMMA ConnStep == ServerOK /\ ConnOK /\ [DesktopNext]_dvars => ConnOK'
<1> SUFFICES ASSUME ServerOK, ConnOK, [DesktopNext]_dvars PROVE ConnOK'
  OBVIOUS
<1>1. ASSUME NEW h \in Hooks, NotifierStep(h) PROVE ConnOK'
  BY <1>1, NotifierKeeps DEF ConnOK
<1>2. ASSUME NEW c \in Hooks, Talk(c) PROVE ConnOK'
  BY <1>2
     DEF ConnOK, Talk, ClientStep, HandlerStep, Dial, Refused, Cut, TimeOut, Answer, NoAnswer,
         Handle, Send, Store, Handler, Reachable, Handling, Answered, ServerOK
<1>3. ASSUME NEW h \in Hooks, UserStep(h) PROVE ConnOK'
  BY <1>3, UserKeeps DEF ConnOK
<1>4. ASSUME NEW d \in Daemons, SignalStep(d) PROVE ConnOK'
  BY <1>4, SignalKeeps DEF ConnOK
<1>5. ASSUME NEW d \in Daemons, Life(d) PROVE ConnOK'
  BY <1>5
     DEF ConnOK, Life, StartStep, IdleStep, EndStep, Remove, Bind, Chmod, IdleFound, IdleClose, Exit,
         Drained, DrainTimeout, Cleanup, Stop, Terminate, Kill, Connections
<1>6. CASE UNCHANGED dvars
  BY <1>6 DEF dvars, vars, ConnOK
<1> QED
  BY <1>1, <1>2, <1>3, <1>4, <1>5, <1>6, Steps

LEMMA ScreenStep == ScreenOK /\ [DesktopNext]_dvars => ScreenOK'
<1> SUFFICES ASSUME ScreenOK, [DesktopNext]_dvars PROVE ScreenOK'
  OBVIOUS
<1>1. ASSUME NEW h \in Hooks, NotifierStep(h) PROVE ScreenOK'
  BY <1>1, NotifierKeeps DEF ScreenOK, screen
<1>2. ASSUME NEW c \in Hooks, Talk(c) PROVE ScreenOK'
  BY <1>2
     DEF ScreenOK, Talk, ClientStep, HandlerStep, Dial, Refused, Cut, TimeOut, Answer,
         NoAnswer, Handle, Send, Store, screen
<1>3. ASSUME NEW h \in Hooks, UserStep(h) PROVE ScreenOK'
  BY <1>3 DEF ScreenOK, UserStep, Click, Expire, Signal
<1>4. ASSUME NEW d \in Daemons, SignalStep(d) PROVE ScreenOK'
  BY <1>4 DEF ScreenOK, SignalStep, Closed, ActionInvoked, Focused, screen
<1>5. ASSUME NEW d \in Daemons, Life(d) PROVE ScreenOK'
  BY <1>5, LifeKeeps DEF ScreenOK, screen
<1>6. CASE UNCHANGED dvars
  BY <1>6 DEF dvars, vars, screen, ScreenOK
<1> QED
  BY <1>1, <1>2, <1>3, <1>4, <1>5, <1>6, Steps

\* The notifiers of the hooks.
NotifierOK ==
    /\ npc \in [Hooks -> Notifying \cup {"exited"}]
    /\ shown \in [Hooks -> SUBSET {"app", "beeep"}]
    /\ failed \in [Hooks -> BOOLEAN]

LEMMA NotifierSteps == NotifierOK /\ [DesktopNext]_dvars => NotifierOK'
<1> SUFFICES ASSUME NotifierOK, [DesktopNext]_dvars PROVE NotifierOK'
  OBVIOUS
<1>1. ASSUME NEW h \in Hooks, NotifierStep(h) PROVE NotifierOK'
  BY <1>1
     DEF NotifierOK, NotifierStep, Delegate, DaemonResult, App, FirstBeeep, Beeep, Played,
         Close, Proceed, Ring, Show, Notifying
<1>2. CASE UNCHANGED desktop
  BY <1>2 DEF desktop, NotifierOK
<1>3. CASE UNCHANGED dvars
  BY <1>3 DEF dvars, desktop, NotifierOK
<1> QED
  BY <1>1, <1>2, <1>3, Steps

-----------------------------------------------------------------------------
\* The channel is closed exactly when the flag is set; a daemon that is gone listens no more.
OneClose == \A d \in Daemons : closes[d] = IF flag[d] THEN 1 ELSE 0
Shut == \A d \in Daemons : Gone(d) => ~open[d]

LEMMA OneCloseStep == ServerOK /\ OneClose /\ [DesktopNext]_dvars => OneClose'
<1> SUFFICES ASSUME ServerOK, OneClose, [DesktopNext]_dvars, NEW e \in Daemons
             PROVE  closes'[e] = IF flag'[e] THEN 1 ELSE 0
  BY DEF OneClose
<1>1. ASSUME UNCHANGED <<flag, closes>> PROVE closes'[e] = IF flag'[e] THEN 1 ELSE 0
  BY <1>1 DEF OneClose
<1>2. ASSUME NEW d \in Daemons, RequestShutdown(d) PROVE closes'[e] = IF flag'[e] THEN 1 ELSE 0
  BY <1>2 DEF RequestShutdown, OneClose, ServerOK
<1>3. ASSUME NEW d \in Daemons, NEW l, Die(d, l) PROVE closes'[e] = IF flag'[e] THEN 1 ELSE 0
  BY <1>3 DEF Die, OneClose, ServerOK
<1>4. ASSUME NEW d \in Daemons, Life(d)
      PROVE  UNCHANGED <<flag, closes>> \/ RequestShutdown(d) \/ Die(d, "gone") \/ Die(d, "killed")
  BY <1>4
     DEF Life, StartStep, IdleStep, EndStep, Remove, Bind, Chmod, IdleFound, IdleClose, Exit,
         Drained, DrainTimeout, Cleanup, Stop, Terminate, Kill
<1>5. UNCHANGED <<flag, closes>> \/ \E d \in Daemons : Life(d)
  BY Steps, NotifierKeeps, TalkKeeps, UserKeeps, SignalKeeps DEF server, dvars, vars
<1> QED
  BY <1>1, <1>2, <1>3, <1>4, <1>5

\* A daemon that is gone stays gone.
LEMMA PhaseMoves ==
  ASSUME ServerOK, [DesktopNext]_dvars, NEW d \in Daemons
  PROVE  /\ Gone(d) => Gone(d)'
         /\ open'[d] => open[d] \/ phase'[d] = "listening"
         /\ Gone(d)' => Gone(d) \/ ~open'[d]
<1> DEFINE Claim == /\ Gone(d) => Gone(d)'
                    /\ open'[d] => open[d] \/ phase'[d] = "listening"
                    /\ Gone(d)' => Gone(d) \/ ~open'[d]
<1>1. ASSUME UNCHANGED <<phase, open>> PROVE Claim
  BY <1>1 DEF Gone
<1>2. ASSUME NEW c \in Hooks, Talk(c) PROVE Claim
  BY <1>2, TalkKeeps, TalkPhase DEF Gone, ServerOK
<1>3. ASSUME NEW e \in Daemons, NEW l \in {"gone", "killed"}, Die(e, l) PROVE Claim
  <2>1. phase' = [phase EXCEPT ![e] = l] /\ l \in {"gone", "killed"}
    BY <1>3, Dying
  <2>2. open' = [open EXCEPT ![e] = FALSE]
    BY <1>3 DEF Die
  <2> QED
    BY <2>1, <2>2 DEF Gone, ServerOK
<1>4. ASSUME NEW e \in Daemons, Life(e) PROVE Claim
  <2>1. CASE Remove(e)
    <3>1. ASSUME phase[e] = "starting", Phase(e, "binding"), UNCHANGED open PROVE Claim
      BY <3>1 DEF Gone, ServerOK, Phase
    <3> QED
      BY <2>1, <3>1, <1>3 DEF Remove
  <2>2. CASE Bind(e)
    <3>1. ASSUME phase[e] = "binding", Phase(e, "listening"), open' = [open EXCEPT ![e] = TRUE]
          PROVE  Claim
      BY <3>1 DEF Gone, ServerOK, Phase
    <3> QED
      BY <2>2, <3>1, <1>3 DEF Bind
  <2>3. CASE IdleFound(e) \/ IdleClose(e) \/ Stop(e)
    BY <2>3, <1>1 DEF IdleFound, IdleClose, Stop
  <2>4. CASE Exit(e) \/ Cleanup(e) \/ Kill(e)
    BY <2>4, <1>3 DEF Exit, Cleanup, Kill
  <2>5. CASE Chmod(e) \/ Drained(e) \/ DrainTimeout(e) \/ Terminate(e)
    BY <2>5 DEF Chmod, Drained, DrainTimeout, Terminate, Gone, ServerOK, Phase
  <2> QED
    BY <1>4, <2>1, <2>2, <2>3, <2>4, <2>5 DEF Life, StartStep, IdleStep, EndStep
<1> QED
  BY <1>1, <1>2, <1>4, Steps, NotifierKeeps, UserKeeps, SignalKeeps DEF server, dvars, vars

LEMMA ShutStep == ServerOK /\ Shut /\ [DesktopNext]_dvars => Shut'
  BY PhaseMoves DEF Shut, Gone

-----------------------------------------------------------------------------
\* The client gave up on a daemon that is gone.
Lost(h) == cpc[h] = "failed" /\ Gone(conn[h].at)

\* A request waits for its daemon, is being handled, or its client has stopped waiting.
Connected(h) ==
    /\ conn[h].st # "none" => conn[h].at \in Daemons
    /\ conn[h].st = "queued" => cpc[h] \in Asking \/ Gone(conn[h].at)
    /\ conn[h].st \in Handling => cpc[h] \in {"asking", "late"} \/ Lost(h)

\* A notification is on the screen, or was, exactly when D-Bus has returned its id, and then
\* the client knows it, waits for the answer, or will never get one.
Noted(h) ==
    /\ \/ conn[h].st = "sent"
       \/ cpc[h] = "shown"
       \/ cpc[h] = "asking" /\ conn[h].st = "ok"
       => note[h] # "none"
    /\ note[h] # "none" =>
       /\ conn[h].st \in {"sent", "ok"}
       /\ cpc[h] \in {"asking", "shown", "late"} \/ (Lost(h) /\ conn[h].st = "sent")

Talking(h) == Connected(h) /\ Noted(h)

Typed == ServerOK /\ TableOK /\ ClientOK /\ ConnOK /\ ScreenOK /\ NotifierOK

\* A client and its handler keep this for their own hook, and leave the others alone.
LEMMA OwnStep ==
  ASSUME Typed, Shut, NEW c \in Hooks, Talking(c), Talk(c), \A d \in Daemons : Gone(d) => Gone(d)'
  PROVE  Talking(c)'
<1> USE DEF Talking, Connected, Noted, Lost, Handling
<1> USE DEF Typed, ConnOK, ClientOK, ScreenOK
<1>1. CASE Dial(c)
  BY <1>1 DEF Dial, Become, Awaiting, Asking, Reachable, ServerOK, screen
<1>2. CASE Refused(c)
  <2>1. /\ cpc'[c] \in {"poll", "failed"} /\ cpc[c] \in {"probe", "poll", "ready"}
        /\ UNCHANGED <<conn, note>>
    BY <1>2 DEF Refused, NoAnswer, Become, Awaiting, screen
  <2> QED
    BY <2>1 DEF Asking
<1>3. CASE Cut(c)
  <2>1. /\ cpc[c] \in Asking /\ Dropped(c) /\ UNCHANGED <<conn, note>>
        /\ cpc'[c] \in {"poll", "failed"}
        /\ cpc[c] = "asking" => cpc'[c] = "failed"
    BY <1>3 DEF Cut, NoAnswer, Become, Asking, screen
  <2> QED
    BY <2>1 DEF Asking, Dropped, Answered
<1>4. CASE TimeOut(c)
  BY <1>4 DEF TimeOut, Become, screen
<1>5. CASE Answer(c)
  BY <1>5 DEF Answer, Become, Asking, Answered, screen
<1>6. CASE Handle(c)
  BY <1>6 DEF Handle, Handler, Asking, screen, client, Gone
<1>7. CASE Send(c)
  BY <1>7 DEF Send, Handler, Alive, Running, Gone, client
<1>8. CASE Store(c)
  BY <1>8 DEF Store, Handler, Alive, Running, Gone, client, screen
<1> QED
  BY <1>1, <1>2, <1>3, <1>4, <1>5, <1>6, <1>7, <1>8 DEF Talk, ClientStep, HandlerStep

LEMMA OthersKeep ==
  ASSUME Typed, NEW c \in Hooks, Talk(c), NEW h \in Hooks, h # c
  PROVE  conn'[h] = conn[h] /\ cpc'[h] = cpc[h] /\ note'[h] = note[h]
<1> USE DEF Typed, ConnOK, ClientOK, ScreenOK
<1>1. CASE ClientStep(c)
  BY <1>1 DEF ClientStep, Dial, Refused, Cut, TimeOut, Answer, NoAnswer, Become, screen
<1>2. CASE Handle(c) \/ HandlerStep(c)
  BY <1>2 DEF HandlerStep, Handle, Send, Store, Handler, screen, client
<1> QED
  BY <1>1, <1>2 DEF Talk

LEMMA TalkingStep ==
  ASSUME Typed, Shut, [DesktopNext]_dvars, \A h \in Hooks : Talking(h)
  PROVE  \A h \in Hooks : Talking(h)'
<1> SUFFICES ASSUME NEW h \in Hooks PROVE Talking(h)'
  OBVIOUS
<1> USE DEF Talking, Connected, Noted, Lost
<1>0. \A d \in Daemons : Gone(d) => Gone(d)'
  BY PhaseMoves DEF Typed
<1>1. ASSUME cpc'[h] = cpc[h], conn'[h] = conn[h], note'[h] = note[h] PROVE Talking(h)'
  BY <1>0, <1>1 DEF Handling
<1>2. ASSUME NEW c \in Hooks, Talk(c) PROVE Talking(h)'
  <2>1. CASE h = c
    BY <1>0, <1>2, <2>1, OwnStep
  <2> QED
    BY <1>1, <1>2, <2>1, OthersKeep
<1>3. ASSUME NEW g \in Hooks, NotifierStep(g) PROVE Talking(h)'
  <2>1. UNCHANGED <<conn, note>>
    BY <1>3, NotifierKeeps DEF screen
  <2>2. cpc'[h] = cpc[h] \/ (cpc[h] = "off" /\ cpc'[h] = "probe")
    BY <1>3
       DEF NotifierStep, Delegate, DaemonResult, App, FirstBeeep, Beeep, Played, Close, Begin,
           vars, client, Become, Typed, ClientOK
  <2> QED
    BY <1>0, <2>1, <2>2 DEF Handling, Asking
<1>4. ASSUME NEW g \in Hooks, UserStep(g) PROVE Talking(h)'
  <2>1. UNCHANGED <<conn, cpc>>
    BY <1>4, UserKeeps DEF client
  <2>2. note'[h] = note[h] \/ (note[h] = "open" /\ note'[h] = "closed")
    BY <1>4 DEF UserStep, Click, Expire, Signal, Typed, ScreenOK
  <2> QED
    BY <1>0, <2>1, <2>2 DEF Handling
<1>5. ASSUME NEW d \in Daemons, SignalStep(d) PROVE Talking(h)'
  BY <1>5, <1>1, SignalKeeps DEF client
<1>6. ASSUME NEW d \in Daemons, Life(d) PROVE Talking(h)'
  <2>1. UNCHANGED <<cpc, note>>
    BY <1>6, LifeKeeps DEF client, screen
  <2>2. conn'[h] = conn[h] \/ (conn[h].st = "queued" /\ conn'[h] = [conn[h] EXCEPT !.st = "reset"])
    BY <1>6
       DEF Life, StartStep, IdleStep, EndStep, Remove, Bind, Chmod, IdleFound, IdleClose, Exit,
           Drained, DrainTimeout, Cleanup, Stop, Terminate, Kill, Connections, Typed, ConnOK
  <2> QED
    BY <1>0, <2>1, <2>2 DEF Handling, Typed, ConnOK
<1>7. CASE UNCHANGED dvars
  BY <1>7, <1>1 DEF dvars, vars, client, screen
<1> QED
  BY <1>2, <1>3, <1>4, <1>5, <1>6, <1>7, Steps

-----------------------------------------------------------------------------
\* The chain of senders: beeep is tried only when the daemon has failed or is late, and the
\* chain ends with a sender that worked or with an error.
Delivered(h) ==
    /\ npc[h] \in {"start", "app"} => cpc[h] = "off" /\ shown[h] = {}
    /\ npc[h] = "wait" => cpc[h] # "off" /\ shown[h] = {}
    /\ npc[h] = "first beeep" => cpc[h] \in {"failed", "late"}
    /\ npc[h] = "beeep" => cpc[h] \in {"off", "failed", "late"}
    /\ npc[h] \in {"playing", "close", "exited"} => failed[h] \/ shown[h] # {} \/ cpc[h] = "shown"
    /\ shown[h] # {} => cpc[h] \in {"off", "failed", "late"}

\* A client begins with its notifier and stops at a result.
LEMMA ClientAdvance ==
  ASSUME Typed, [DesktopNext]_dvars, NEW h \in Hooks
  PROVE  \/ cpc'[h] = cpc[h]
         \/ /\ cpc[h] = "off" /\ npc[h] = "start" /\ cpc'[h] # "off"
            /\ npc'[h] = "wait" /\ shown'[h] = shown[h]
         \/ cpc[h] \notin {"off", "shown", "failed", "late"} /\ cpc'[h] # "off" /\ UNCHANGED desktop
<1> USE DEF Typed, ClientOK, NotifierOK
<1>1. ASSUME NEW c \in Hooks, ClientStep(c)
      PROVE  \/ cpc'[h] = cpc[h]
             \/ cpc[h] \notin {"off", "shown", "failed", "late"} /\ cpc'[h] # "off"
  BY <1>1
     DEF ClientStep, Dial, Refused, Cut, TimeOut, Answer, NoAnswer, Become, Awaiting, Asking
<1>2. ASSUME NEW c \in Hooks, Handle(c) \/ HandlerStep(c) PROVE cpc' = cpc
  BY <1>2 DEF HandlerStep, Handle, Send, Store, client
<1>3. ASSUME NEW g \in Hooks, NotifierStep(g)
      PROVE  \/ cpc'[h] = cpc[h]
             \/ /\ cpc[h] = "off" /\ npc[h] = "start" /\ cpc'[h] # "off"
                /\ npc'[h] = "wait" /\ shown'[h] = shown[h]
  BY <1>3
     DEF NotifierStep, Delegate, DaemonResult, App, FirstBeeep, Beeep, Played, Close, Begin,
         vars, client, Become, Proceed
<1> QED
  BY <1>1, <1>2, <1>3, Steps, UserKeeps, SignalKeeps, LifeKeeps DEF Talk, client, dvars, vars

LEMMA DeliveredStep ==
  ASSUME Typed, [DesktopNext]_dvars, \A h \in Hooks : Delivered(h)
  PROVE  \A h \in Hooks : Delivered(h)'
<1> SUFFICES ASSUME NEW h \in Hooks PROVE Delivered(h)'
  OBVIOUS
<1> USE DEF Delivered
<1>1. CASE npc'[h] = npc[h] /\ shown'[h] = shown[h] /\ failed'[h] = failed[h]
  BY <1>1, ClientAdvance
<1>2. ASSUME NotifierStep(h) PROVE Delivered(h)'
  <2> USE DEF Typed, ClientOK, NotifierOK, Proceed, Ring, Show
  <2>1. CASE Delegate(h)
    BY <2>1, ClientAdvance DEF Delegate, Begin, Become
  <2>2. CASE DaemonResult(h) \/ Played(h) \/ Close(h)
    BY <2>2 DEF DaemonResult, Played, Close, vars, client
  <2>3. CASE App(h)
    <3>1. cpc'[h] = cpc[h] /\ npc[h] = "app"
      BY <2>3 DEF App, vars, client
    <3>2. \/ shown'[h] = shown[h] \cup {"app"} /\ npc'[h] \in {"playing", "close"}
          \/ failed'[h] /\ npc'[h] \in {"playing", "close"} /\ shown'[h] = shown[h]
          \/ npc'[h] = "beeep" /\ shown'[h] = shown[h]
      BY <2>3 DEF App
    <3>3. shown[h] \cup {"app"} # {}
      OBVIOUS
    <3> QED
      BY <3>1, <3>2, <3>3
  <2>4. CASE FirstBeeep(h)
    <3>1. cpc'[h] = cpc[h] /\ npc[h] = "first beeep"
      BY <2>4 DEF FirstBeeep, vars, client
    <3>2. \/ shown'[h] = shown[h] \cup {"beeep"} /\ npc'[h] \in {"playing", "close"}
          \/ failed'[h] /\ npc'[h] \in {"playing", "close"} /\ shown'[h] = shown[h]
          \/ npc'[h] = "beeep" /\ shown'[h] = shown[h]
      BY <2>4 DEF FirstBeeep
    <3>3. shown[h] \cup {"beeep"} # {}
      OBVIOUS
    <3> QED
      BY <3>1, <3>2, <3>3
  <2>5. CASE Beeep(h)
    <3>1. cpc'[h] = cpc[h] /\ npc[h] = "beeep"
      BY <2>5 DEF Beeep, vars, client
    <3>2. \/ shown'[h] = shown[h] \cup {"beeep"} /\ npc'[h] \in {"playing", "close"}
          \/ failed'[h] /\ npc'[h] \in {"playing", "close"} /\ shown'[h] = shown[h]
          \/ npc'[h] = "beeep" /\ shown'[h] = shown[h]
      BY <2>5 DEF Beeep
    <3>3. shown[h] \cup {"beeep"} # {}
      OBVIOUS
    <3> QED
      BY <3>1, <3>2, <3>3
  <2> QED
    BY <1>2, <2>1, <2>2, <2>3, <2>4, <2>5 DEF NotifierStep
<1>3. ASSUME NEW g \in Hooks, NotifierStep(g), g # h
      PROVE  npc'[h] = npc[h] /\ shown'[h] = shown[h] /\ failed'[h] = failed[h]
  BY <1>3
     DEF NotifierStep, Delegate, DaemonResult, App, FirstBeeep, Beeep, Played, Close, Proceed,
         Ring, Show, Typed, NotifierOK
<1> QED
  BY <1>1, <1>2, <1>3, Steps DEF desktop, dvars

-----------------------------------------------------------------------------
\* The signal of kind k about h is the i-th in the queue of d.
Queued(d, k, h, i) == i \in DOMAIN signals[d] /\ signals[d][i] = <<k, h>>

\* Handling a signal shifts the queue by one.
LEMMA Popped ==
  ASSUME TableOK, NEW d \in Daemons, Listening(d), signals' = [signals EXCEPT ![d] = Tail(@)],
         NEW k, NEW h
  PROVE  /\ \A e \in Daemons \ {d}, i \in Nat : Queued(e, k, h, i)' <=> Queued(e, k, h, i)
         /\ \A i \in Nat : Queued(d, k, h, i)' => i # 0 /\ Queued(d, k, h, i + 1)
         /\ \A i \in Nat : Queued(d, k, h, i) /\ i # 1 => i - 1 \in Nat /\ Queued(d, k, h, i - 1)'
         /\ Queued(d, k, h, 1) <=> Head(signals[d]) = <<k, h>>
<1> DEFINE Sig == {"action", "closed"} \X Hooks
<1>1. signals[d] \in Seq(Sig) /\ signals[d] # <<>> /\ signals'[d] = Tail(signals[d])
  BY DEF TableOK, Listening
<1>2. /\ Len(Tail(signals[d])) = Len(signals[d]) - 1 /\ Tail(signals[d]) \in Seq(Sig)
      /\ \A i \in 1 .. Len(Tail(signals[d])) : Tail(signals[d])[i] = signals[d][i + 1]
  BY <1>1, HeadTailProperties
<1>3. DOMAIN signals[d] = 1 .. Len(signals[d]) /\ Len(signals[d]) \in Nat \ {0}
  BY <1>1, EmptySeq, LenProperties
<1>4. DOMAIN signals'[d] = 1 .. Len(signals[d]) - 1
  BY <1>1, <1>2, <1>3, LenProperties
<1>5. \A e \in Daemons \ {d}, i \in Nat : Queued(e, k, h, i)' <=> Queued(e, k, h, i)
  BY DEF Queued, TableOK
<1>6. \A i \in Nat : Queued(d, k, h, i)' => i # 0 /\ Queued(d, k, h, i + 1)
  BY <1>1, <1>2, <1>3, <1>4 DEF Queued
<1>7. \A i \in Nat : Queued(d, k, h, i) /\ i # 1 => i - 1 \in Nat /\ Queued(d, k, h, i - 1)'
  BY <1>1, <1>2, <1>3, <1>4 DEF Queued
<1>8. Queued(d, k, h, 1) <=> Head(signals[d]) = <<k, h>>
  BY <1>1, <1>3 DEF Queued
<1> QED
  BY <1>5, <1>6, <1>7, <1>8

\* Appending one signal or two.
LEMMA Extended ==
  ASSUME NEW S, NEW s \in Seq(S), NEW a \in S, NEW b \in S
  PROVE  /\ DOMAIN s = 1 .. Len(s) /\ Len(s) \in Nat
         /\ DOMAIN (s \o <<a>>) = 1 .. Len(s) + 1
         /\ DOMAIN (s \o <<a, b>>) = 1 .. Len(s) + 2
         /\ \A j \in 1 .. Len(s) : (s \o <<a>>)[j] = s[j] /\ (s \o <<a, b>>)[j] = s[j]
         /\ (s \o <<a>>)[Len(s) + 1] = a
         /\ (s \o <<a, b>>)[Len(s) + 1] = a
         /\ (s \o <<a, b>>)[Len(s) + 2] = b
<1>1. <<a>> \in Seq(S) /\ <<a, b>> \in Seq(S) /\ Len(<<a>>) = 1 /\ Len(<<a, b>>) = 2
  OBVIOUS
<1>2. DOMAIN s = 1 .. Len(s) /\ Len(s) \in Nat
  BY LenProperties
<1> QED
  BY <1>1, <1>2, ConcatProperties, LenProperties

\* A click or the end of a notification appends its signals.
LEMMA Pushed ==
  ASSUME Typed, NEW g \in Hooks, UserStep(g), NEW d \in Daemons, d = conn[g].at,
         NEW e \in Daemons, NEW k, NEW h, NEW i \in Nat
  PROVE  LET n == Len(signals[d]) IN
         /\ n \in Nat
         /\ Click(g) =>
              (Queued(e, k, h, i)' <=>
                 \/ Queued(e, k, h, i)
                 \/ e = d /\ Running(d) /\ i = n + 1 /\ k = "action" /\ h = g
                 \/ e = d /\ Running(d) /\ i = n + 2 /\ k = "closed" /\ h = g)
         /\ Expire(g) =>
              (Queued(e, k, h, i)' <=>
                 \/ Queued(e, k, h, i)
                 \/ e = d /\ Running(d) /\ i = n + 1 /\ k = "closed" /\ h = g)
<1> DEFINE Sig == {"action", "closed"} \X Hooks
           n == Len(signals[d])
           Act == <<"action", g>>
           Cls == <<"closed", g>>
<1>1. Act \in Sig /\ Cls \in Sig /\ Act # Cls
  OBVIOUS
<1>2. signals \in [Daemons -> Seq(Sig)] /\ signals[d] \in Seq(Sig)
  BY DEF Typed, TableOK
<1>3. /\ DOMAIN signals[d] = 1 .. n /\ n \in Nat
      /\ DOMAIN (signals[d] \o <<Cls>>) = 1 .. n + 1
      /\ DOMAIN (signals[d] \o <<Act, Cls>>) = 1 .. n + 2
      /\ \A j \in 1 .. n : (signals[d] \o <<Cls>>)[j] = signals[d][j]
                            /\ (signals[d] \o <<Act, Cls>>)[j] = signals[d][j]
      /\ (signals[d] \o <<Cls>>)[n + 1] = Cls
      /\ (signals[d] \o <<Act, Cls>>)[n + 1] = Act
      /\ (signals[d] \o <<Act, Cls>>)[n + 2] = Cls
  <2> HIDE DEF Sig, Act, Cls
  <2> QED
    BY <1>1, <1>2, Extended
<1>4. CASE ~(e = d /\ Running(d))
  BY <1>2, <1>3, <1>4 DEF Signal, Click, Expire, Queued
<1>5. CASE e = d /\ Running(d)
  <2>1. /\ Click(g) => signals'[d] = signals[d] \o <<Act, Cls>>
        /\ Expire(g) => signals'[d] = signals[d] \o <<Cls>>
    BY <1>2, <1>5 DEF Signal, Click, Expire
  <2>2. (Act = <<k, h>> <=> k = "action" /\ h = g) /\ (Cls = <<k, h>> <=> k = "closed" /\ h = g)
    OBVIOUS
  <2>3. Queued(d, k, h, i) <=> i \in 1 .. n /\ signals[d][i] = <<k, h>>
    BY <1>3 DEF Queued
  <2> HIDE DEF Sig, Act, Cls, n
  <2>4. ASSUME Click(g)
        PROVE  Queued(d, k, h, i)' <=>
                 \/ Queued(d, k, h, i)
                 \/ i = n + 1 /\ k = "action" /\ h = g
                 \/ i = n + 2 /\ k = "closed" /\ h = g
    <3>1. Queued(d, k, h, i)' <=>
            i \in 1 .. n + 2 /\ (signals[d] \o <<Act, Cls>>)[i] = <<k, h>>
      BY <1>3, <2>1, <2>4 DEF Queued
    <3>2. i \in 1 .. n + 2 <=> i \in 1 .. n \/ i = n + 1 \/ i = n + 2
      BY <1>3
    <3>3. n + 1 \notin 1 .. n /\ n + 2 \notin 1 .. n
      BY <1>3
    <3> QED
      BY <1>3, <2>2, <2>3, <3>1, <3>2, <3>3
  <2>5. ASSUME Expire(g)
        PROVE  Queued(d, k, h, i)' <=>
                 \/ Queued(d, k, h, i)
                 \/ i = n + 1 /\ k = "closed" /\ h = g
    <3>1. Queued(d, k, h, i)' <=>
            i \in 1 .. n + 1 /\ (signals[d] \o <<Cls>>)[i] = <<k, h>>
      BY <1>3, <2>1, <2>5 DEF Queued
    <3>2. i \in 1 .. n + 1 <=> i \in 1 .. n \/ i = n + 1
      BY <1>3
    <3>3. n + 1 \notin 1 .. n
      BY <1>3
    <3> QED
      BY <1>3, <2>2, <2>3, <3>1, <3>2, <3>3
  <2> QED
    BY <1>3, <1>5, <2>4, <2>5 DEF n
<1> QED
  BY <1>3, <1>4, <1>5

-----------------------------------------------------------------------------
\* The socket path and the connections lead to daemons that have been started.
Started ==
    /\ sock # None => phase[sock] # "unused"
    /\ \A h \in Hooks : conn[h].st # "none" => phase[conn[h].at] # "unused"

\* While the notification is open no signal about it exists.
Untouched(h) ==
    \A e \in Daemons :
        /\ h \notin focusing[e]
        /\ \A k \in {"action", "closed"}, i \in Nat : ~Queued(e, k, h, i)

\* There is one action signal at most, with the daemon that showed the notification, and no
\* closed signal precedes it.
InOrder(h) ==
    \A e \in Daemons, i \in Nat :
        Queued(e, "action", h, i) =>
            /\ e = conn[h].at /\ h \notin focusing[e]
            /\ \A k \in {"action", "closed"}, j \in Nat : Queued(e, k, h, j) => i <= j

\* A daemon handles one click at a time.
Alone(h) == \A e \in Daemons : h \in focusing[e] => focusing[e] = {h}

\* A click can still be handled, so its focus target must not be forgotten.
Awaited(h) == note[h] = "open" \/ \E i \in Nat : Queued(conn[h].at, "action", h, i)

Clicked(h) ==
    /\ note[h] # "closed" => Untouched(h) /\ click[h] # "pending"
    /\ InOrder(h) /\ Alone(h)
    /\ note[h] # "none" /\ conn[h].st = "ok" /\ Awaited(h) =>
          Gone(conn[h].at) \/ h \in ctx[conn[h].at]
    /\ click[h] = "pending" =>
          \/ Gone(conn[h].at)
          \/ h \in focusing[conn[h].at]
          \/ \E i \in Nat : Queued(conn[h].at, "action", h, i)

LEMMA StartedStep ==
  ASSUME Typed, [DesktopNext]_dvars, Started, \A h \in Hooks : Connected(h)
  PROVE  Started'
<1> USE DEF Typed, ServerOK, ConnOK
<1>1. \A d \in Daemons : phase[d] # "unused" => phase'[d] # "unused"
  <2>1. ASSUME NEW d \in Daemons, NEW e \in Daemons, Life(e), phase[d] # "unused"
        PROVE  phase'[d] # "unused"
    BY <2>1
       DEF Life, StartStep, IdleStep, EndStep, Remove, Bind, Chmod, IdleFound, IdleClose, Exit,
           Drained, DrainTimeout, Cleanup, Stop, Terminate, Kill, Die, Phase
  <2> QED
    BY <2>1, Steps, NotifierKeeps, UserKeeps, SignalKeeps, TalkPhase DEF server, dvars, vars
<1>2. sock' \in {sock, None} \/ (sock' \in Daemons /\ phase'[sock'] = "listening")
  <2>1. ASSUME NEW e \in Daemons, Life(e)
        PROVE  sock' \in {sock, None} \/ (sock' = e /\ phase'[e] = "listening")
    BY <2>1
       DEF Life, StartStep, IdleStep, EndStep, Remove, Bind, Chmod, IdleFound, IdleClose, Exit,
           Drained, DrainTimeout, Cleanup, Stop, Terminate, Kill, Die, Phase
  <2> QED
    BY <2>1, Steps, NotifierKeeps, UserKeeps, SignalKeeps, TalkKeeps DEF server, dvars, vars
<1>3. ASSUME NEW h \in Hooks
      PROVE  \/ conn'[h] = conn[h]
             \/ conn[h].st # "none" /\ conn'[h].at = conn[h].at
             \/ conn'[h].at = sock /\ sock # None
  <2>1. ASSUME NEW c \in Hooks, Talk(c)
        PROVE  \/ conn'[h] = conn[h]
               \/ conn[h].st # "none" /\ conn'[h].at = conn[h].at
               \/ conn'[h].at = sock /\ sock # None
    <3>1. CASE Dial(c)
      BY <3>1 DEF Dial, Reachable
    <3>2. CASE Refused(c) \/ Cut(c) \/ TimeOut(c) \/ Answer(c)
      BY <3>2 DEF Refused, Cut, TimeOut, Answer, NoAnswer
    <3>3. CASE Handle(c) \/ HandlerStep(c)
      BY <3>3 DEF Handle, HandlerStep, Send, Store, Handler, Handling, Answered
    <3> QED
      BY <2>1, <3>1, <3>2, <3>3 DEF Talk, ClientStep
  <2>2. ASSUME NEW d \in Daemons, Life(d)
        PROVE  conn'[h] = conn[h] \/ (conn[h].st # "none" /\ conn'[h].at = conn[h].at)
    BY <2>2
       DEF Life, StartStep, IdleStep, EndStep, Remove, Bind, Chmod, IdleFound, IdleClose, Exit,
           Drained, DrainTimeout, Cleanup, Stop, Terminate, Kill, Connections
  <2> QED
    BY <2>1, <2>2, Steps, NotifierKeeps, UserKeeps, SignalKeeps DEF dvars, vars
<1>4. sock' # None => phase'[sock'] # "unused"
  BY <1>1, <1>2 DEF Started
<1>5. ASSUME NEW h \in Hooks, conn'[h].st # "none" PROVE phase'[conn'[h].at] # "unused"
  BY <1>1, <1>3, <1>5 DEF Started, Connected
<1> QED
  BY <1>4, <1>5 DEF Started

\* Each group of steps preserves it.
LEMMA ClickedTalk ==
  ASSUME Typed, Shut, NEW c \in Hooks, Talk(c), NEW h \in Hooks, Talking(h), Clicked(h),
         \A d \in Daemons : Gone(d) => Gone(d)'
  PROVE  Clicked(h)'
<1> USE DEF Clicked, Untouched, InOrder, Alone, Awaited
<1>1. UNCHANGED <<signals, focusing, click>>
  BY TalkKeeps
<1>2. \A d \in Daemons : ctx[d] \subseteq ctx'[d]
  BY TalkStores DEF Typed, TableOK
<1>3. \A e, k, i : Queued(e, k, h, i)' <=> Queued(e, k, h, i)
  BY <1>1 DEF Queued
<1>4. CASE conn'[h] = conn[h] /\ note'[h] = note[h]
  <2>1. note[h] # "none" => conn[h].at \in Daemons
    BY DEF Talking, Connected, Noted
  <2>2. click[h] = "pending" => conn[h].at \in Daemons
    BY <2>1
  <2> QED
    BY <1>1, <1>2, <1>3, <1>4, <2>1, <2>2
<1>5. CASE note[h] = "none" /\ conn'[h].st # "ok"
  <2>1. note'[h] # "closed"
    BY <1>5
       DEF Talk, ClientStep, HandlerStep, Dial, Refused, Cut, TimeOut, Answer, NoAnswer,
           Handle, Send, Store, screen, Typed, ScreenOK
  <2> QED
    BY <1>1, <1>3, <1>5, <2>1
<1>6. CASE note[h] = "none" /\ note'[h] = "none"
  BY <1>1, <1>3, <1>6
<1>7. CASE h = c /\ Store(h)
  <2>1. /\ conn'[h].at = conn[h].at /\ conn[h].at \in Daemons /\ note'[h] = note[h]
        /\ h \in ctx'[conn[h].at]
    BY <1>7 DEF Store, Handler, Alive, screen, Typed, ConnOK, TableOK
  <2> QED
    BY <1>1, <1>2, <1>3, <2>1 DEF Talking, Connected, Noted
<1>8. CASE h = c /\ Send(h)
  <2>1. note[h] = "none" /\ (conn'[h].st # "ok" \/ note'[h] = "none")
    BY <1>8 DEF Send, Handler, Alive, Talking, Noted, Typed, ConnOK
  <2> QED
    BY <1>5, <1>6, <2>1
<1>9. CASE h = c /\ (ClientStep(h) \/ Handle(h))
  <2>1. /\ note'[h] = note[h]
        /\ conn'[h] = conn[h] \/ conn[h].st = "queued" \/ cpc[h] \in {"probe", "poll", "ready"}
    BY <1>9
       DEF ClientStep, Dial, Refused, Cut, TimeOut, Answer, NoAnswer, Handle, screen, Awaiting
  <2> QED
    BY <1>4, <1>6, <2>1 DEF Talking, Noted, Lost
<1> QED
  BY <1>4, <1>7, <1>8, <1>9, OthersKeep DEF Talk, HandlerStep

LEMMA ClickedUser ==
  ASSUME Typed, Started, NEW g \in Hooks, UserStep(g), NEW h \in Hooks,
         Talking(g), Talking(h), Clicked(h)
  PROVE  Clicked(h)'
<1> DEFINE d == conn[g].at
           n == Len(signals[d])
<1>1. UNCHANGED <<phase, ctx, focusing, conn>> /\ \A e : Gone(e)' <=> Gone(e)
  BY UserKeeps DEF server, Gone
<1>2. note[g] = "open" /\ note' = [note EXCEPT ![g] = "closed"]
  BY DEF UserStep, Click, Expire, Signal
<1>3. d \in Daemons /\ (Running(d) \/ Gone(d))
  <2>1. d \in Daemons /\ conn[g].st # "none"
    BY <1>2 DEF Talking, Connected, Noted
  <2> QED
    BY <2>1 DEF Started, Running, Gone, Typed, ServerOK, Phases
<1>4. \/ Click(g) /\ click' = [click EXCEPT ![g] = "pending"]
      \/ Expire(g) /\ UNCHANGED click
  BY DEF UserStep, Click, Expire
<1>5. CASE h # g
  <2>1. note'[h] = note[h] /\ click'[h] = click[h]
    BY <1>2, <1>4, <1>5 DEF Typed, ScreenOK
  <2>2. ASSUME NEW e \in Daemons, NEW k, NEW i \in Nat
        PROVE  Queued(e, k, h, i)' <=> Queued(e, k, h, i)
    BY <1>3, <1>4, <1>5, Pushed
  <2>3. note[h] # "none" => conn[h].at \in Daemons
    BY DEF Talking, Connected, Noted
  <2> QED
    BY <1>1, <2>1, <2>2, <2>3 DEF Clicked, Untouched, InOrder, Alone, Awaited
<1>6. CASE h = g
  <2>1. Untouched(h) /\ note'[h] = "closed"
    BY <1>2, <1>6 DEF Clicked, Typed, ScreenOK
  <2>2. CASE Click(g)
    <3>1. ASSUME NEW e \in Daemons, NEW k \in {"action", "closed"}, NEW i \in Nat
          PROVE  /\ n \in Nat
                 /\ Queued(e, k, h, i)' <=>
                      \/ e = d /\ Running(d) /\ i = n + 1 /\ k = "action"
                      \/ e = d /\ Running(d) /\ i = n + 2 /\ k = "closed"
      BY <1>3, <1>6, <2>1, <2>2, Pushed DEF Untouched
    <3>2. n \in Nat /\ n + 1 \in Nat
      BY <1>3, Pushed
    <3> HIDE DEF n
    <3>3. InOrder(h)'
      BY <1>1, <1>6, <2>1, <3>1, <3>2 DEF InOrder, Untouched
    <3>4. Running(d) => \E e \in Daemons, i \in Nat : e = d /\ Queued(e, "action", h, i)'
      <4>1. "action" \in {"action", "closed"} /\ d \in Daemons
        BY <1>3
      <4> HIDE DEF d
      <4> QED
        BY <3>1, <3>2, <4>1
    <3>5. note[h] = "open"
      BY <1>2, <1>6
    <3>6. Gone(conn[h].at)' \/ \E i \in Nat : Queued(conn[h].at, "action", h, i)'
      BY <1>1, <1>3, <1>6, <3>4
    <3>7. conn[h].st = "ok" => Gone(conn[h].at) \/ h \in ctx[conn[h].at]
      BY <3>5 DEF Clicked, Awaited
    <3> QED
      BY <1>1, <2>1, <3>3, <3>6, <3>7 DEF Clicked, Alone
  <2>3. CASE Expire(g) /\ UNCHANGED click
    <3>1. ASSUME NEW e \in Daemons, NEW i \in Nat PROVE ~Queued(e, "action", h, i)'
      BY <1>3, <1>6, <2>1, <2>3, Pushed DEF Untouched
    <3>2. InOrder(h)'
      BY <3>1 DEF InOrder
    <3>3. note[h] = "open" /\ click'[h] # "pending"
      BY <1>2, <1>6, <2>3 DEF Clicked
    <3> QED
      BY <1>1, <2>1, <3>2, <3>3 DEF Clicked, Alone, Awaited
  <2> QED
    BY <1>4, <2>2, <2>3
<1> QED
  BY <1>5, <1>6

LEMMA ClickedSignal ==
  ASSUME Typed, NEW d \in Daemons, SignalStep(d), NEW h \in Hooks, Talking(h), Clicked(h)
  PROVE  Clicked(h)'
<1> USE DEF Clicked, Untouched, InOrder, Alone, Awaited
<1>1. UNCHANGED <<phase, conn, note>> /\ \A e : Gone(e)' <=> Gone(e)
  BY SignalKeeps DEF server, Gone
<1>2. note[h] # "none" => conn[h].at \in Daemons /\ conn[h].st \in {"sent", "ok"}
  BY DEF Talking, Connected, Noted
<1>3. CASE Focused(d)
  <2>1. PICK g \in focusing[d] :
          /\ Running(d) /\ UNCHANGED signals
          /\ click' \in {[click EXCEPT ![g] = r] : r \in {"focused", "failed"}}
          /\ focusing' = [focusing EXCEPT ![d] = {}]
          /\ ctx' = [ctx EXCEPT ![d] = @ \ {g}]
    BY <1>3 DEF Focused
  <2>2. \A e, k, i : Queued(e, k, h, i)' <=> Queued(e, k, h, i)
    BY <2>1 DEF Queued
  <2>3. /\ g \in Hooks /\ focusing'[d] = {} /\ ctx'[d] = ctx[d] \ {g}
        /\ \A e \in Daemons \ {d} : focusing'[e] = focusing[e] /\ ctx'[e] = ctx[e]
    BY <2>1 DEF Typed, TableOK
  <2>4. CASE g # h
    <3>1. click'[h] = click[h] /\ h \notin focusing[d]
      BY <2>1, <2>3, <2>4 DEF Typed, ScreenOK
    <3> QED
      BY <1>1, <1>2, <2>2, <2>3, <2>4, <3>1
  <2>5. CASE g = h
    <3>1. click'[h] # "pending"
      BY <2>1, <2>3, <2>5 DEF Typed, ScreenOK
    <3>2. note[h] = "closed" /\ \A i \in Nat : ~Queued(d, "action", h, i)
      BY <2>1, <2>5 DEF Typed, ScreenOK
    <3> QED
      BY <1>1, <1>2, <2>2, <2>3, <3>1, <3>2
  <2> QED
    BY <2>4, <2>5
<1>4. CASE Closed(d) \/ ActionInvoked(d)
  <2>1. signals' = [signals EXCEPT ![d] = Tail(@)] /\ Listening(d) /\ Running(d) /\ focusing[d] = {}
    BY <1>4 DEF Closed, ActionInvoked, Listening
  <2>2. PICK k \in {"action", "closed"}, g \in Hooks : Head(signals[d]) = <<k, g>>
    BY <2>1, HeadTailProperties DEF Listening, Typed, TableOK
  <2>3. ASSUME NEW e \in Daemons, NEW l, NEW i \in Nat, Queued(e, l, h, i)'
        PROVE  IF e = d THEN i # 0 /\ Queued(e, l, h, i + 1) ELSE Queued(e, l, h, i)
    BY <2>1, <2>3, Popped DEF Typed
  <2>4. ASSUME NEW e \in Daemons, NEW l, NEW i \in Nat, Queued(e, l, h, i),
               e # d \/ l # k \/ h # g
        PROVE  \E j \in Nat : Queued(e, l, h, j)'
    <3>1. Queued(d, l, h, 1) <=> Head(signals[d]) = <<l, h>>
      BY <2>1, Popped DEF Typed
    <3>2. e = d => i # 1
      BY <2>2, <2>4, <3>1
    <3>3. CASE e = d
      <4>1. i - 1 \in Nat /\ Queued(d, l, h, i - 1)'
        BY <2>1, <2>4, <3>2, <3>3, Popped DEF Typed
      <4> QED
        BY <3>3, <4>1
    <3>4. CASE e # d
      BY <2>1, <2>4, <3>4, Popped DEF Typed
    <3> QED
      BY <3>3, <3>4
  <2>5. h = g => Queued(d, k, h, 1)
    BY <2>1, <2>2, Popped DEF Typed
  <2>6. ASSUME NEW e \in Daemons, NEW i \in Nat, Queued(e, "action", h, i)'
        PROVE  /\ e = conn[h].at /\ h \notin focusing[e] /\ (e = d => h # g)
               /\ \A l \in {"action", "closed"}, j \in Nat : Queued(e, l, h, j)' => i <= j
               /\ \E j \in Nat : Queued(e, "action", h, j)
    <3>1. CASE e = d
      <4>1. i # 0 /\ Queued(d, "action", h, i + 1) /\ i + 1 \in Nat
        BY <2>3, <2>6, <3>1
      <4>2. h # g
        BY <2>5, <4>1
      <4>3. ASSUME NEW l \in {"action", "closed"}, NEW j \in Nat, Queued(d, l, h, j)' PROVE i <= j
        <5>1. Queued(d, l, h, j + 1) /\ j + 1 \in Nat
          BY <2>3, <4>3
        <5> QED
          BY <4>1, <5>1
      <4> QED
        BY <3>1, <4>1, <4>2, <4>3
    <3>2. CASE e # d
      BY <2>3, <2>6, <3>2
    <3> QED
      BY <3>1, <3>2
  <2>7. Awaited(h)' => Awaited(h) \/ note[h] = "none"
    BY <1>1, <1>2, <2>6
  <2>8. CASE Closed(d)
    <3>1. k = "closed" /\ ctx' = [ctx EXCEPT ![d] = @ \ {g}] /\ UNCHANGED <<focusing, click>>
      <4>1. Head(signals[d])[1] = k /\ Head(signals[d])[2] = g
        BY <2>2
      <4> QED
        BY <2>8, <4>1 DEF Closed, screen
    <3>2. Untouched(h) => Untouched(h)'
      BY <2>3, <3>1
    <3>3. InOrder(h)' /\ Alone(h)'
      BY <1>1, <2>6, <3>1
    <3>4. note[h] # "none" /\ Awaited(h)' /\ h \in ctx[conn[h].at] => h \in ctx'[conn[h].at]
      <4>1. h = g => note[h] = "closed"
        BY <2>5
      <4> QED
        BY <1>1, <1>2, <2>6, <3>1, <4>1 DEF Typed, TableOK
    <3>5. click[h] = "pending" =>
            \/ Gone(conn[h].at)
            \/ h \in focusing[conn[h].at]
            \/ \E i \in Nat : Queued(conn[h].at, "action", h, i)'
      BY <1>1, <1>2, <2>4, <3>1
    <3> QED
      BY <1>1, <1>2, <2>7, <3>1, <3>2, <3>3, <3>4, <3>5
  <2>9. CASE ActionInvoked(d)
    <3>1. k = "action" /\ UNCHANGED ctx
      BY <2>2, <2>9 DEF ActionInvoked
    <3>2. \/ g \in ctx[d] /\ focusing' = [focusing EXCEPT ![d] = {g}] /\ UNCHANGED click
          \/ /\ g \notin ctx[d] /\ UNCHANGED focusing
             /\ click' = IF conn[g] = [at |-> d, st |-> "sent"]
                         THEN [click EXCEPT ![g] = "early"] ELSE click
      BY <2>2, <2>9 DEF ActionInvoked
    <3>6. \A e \in Daemons :
            \/ focusing'[e] = focusing[e]
            \/ e = d /\ focusing'[e] = {g} /\ focusing[e] = {}
      BY <2>1, <3>2 DEF Typed, TableOK
    <3>3. InOrder(h)' /\ Alone(h)'
      <4>1. InOrder(h)'
        BY <1>1, <2>6, <3>6
      <4>2. Alone(h)'
        BY <3>6
      <4> QED
        BY <4>1, <4>2
    <3>4. CASE h # g
      <4>0. \A e \in Daemons : h \in focusing'[e] <=> h \in focusing[e]
        BY <3>4, <3>6
      <4>1. click'[h] = click[h] /\ \A e \in Daemons : h \in focusing'[e] <=> h \in focusing[e]
        BY <3>2, <3>4, <4>0 DEF Typed, ScreenOK
      <4>2. Untouched(h) => Untouched(h)'
        BY <2>3, <4>1
      <4>3. click[h] = "pending" =>
              \/ Gone(conn[h].at)
              \/ h \in focusing[conn[h].at]
              \/ \E i \in Nat : Queued(conn[h].at, "action", h, i)'
        BY <1>1, <1>2, <2>4, <3>4
      <4> QED
        BY <1>1, <1>2, <2>7, <3>1, <3>3, <4>1, <4>2, <4>3
    <3>5. CASE h = g
      <4>1. Queued(d, "action", h, 1) /\ note[h] = "closed" /\ d = conn[h].at
        BY <2>5, <3>1, <3>5 DEF Typed, ScreenOK
      <4>2. ~Awaited(h)'
        BY <1>1, <2>6, <3>5, <4>1
      <4>3. click'[h] = "pending" => h \in focusing'[d]
        <5>1. CASE h \in ctx[d]
          BY <3>2, <3>5, <5>1 DEF Typed, TableOK
        <5>2. CASE h \notin ctx[d]
          <6>1. ~Gone(d)
            BY <2>1 DEF Running, Gone
          <6>2. conn[h].st = "sent" /\ conn[h].at = d
            BY <1>2, <4>1, <5>2, <6>1
          <6>3. conn[h] = [at |-> d, st |-> "sent"]
            BY <6>2 DEF Typed, ConnOK
          <6> QED
            BY <3>2, <3>5, <5>2, <6>3 DEF Typed, ScreenOK
        <5> QED
          BY <5>1, <5>2
      <4> QED
        BY <1>1, <3>3, <4>1, <4>2, <4>3
    <3> QED
      BY <3>4, <3>5
  <2> QED
    BY <1>4, <2>8, <2>9
<1> QED
  BY <1>3, <1>4 DEF SignalStep

LEMMA ClickedLife ==
  ASSUME Typed, NEW d \in Daemons, Life(d), NEW h \in Hooks, Talking(h), Clicked(h),
         \A e \in Daemons : Gone(e) => Gone(e)'
  PROVE  Clicked(h)'
<1> USE DEF Clicked, Untouched, InOrder, Alone, Awaited
<1>1. UNCHANGED <<note, click, cpc>>
  BY LifeKeeps DEF screen, client
<1>2. note[h] # "none" => conn'[h] = conn[h] /\ conn[h].at \in Daemons
  <2>1. conn'[h] = conn[h] \/ conn[h].st = "queued"
    BY DEF Life, StartStep, IdleStep, EndStep, Remove, Bind, Chmod, IdleFound, IdleClose, Exit,
           Drained, DrainTimeout, Cleanup, Stop, Terminate, Kill, Connections, Typed, ConnOK
  <2> QED
    BY <2>1 DEF Talking, Connected, Noted
<1>3. CASE UNCHANGED table
  <2>1. /\ UNCHANGED <<ctx, focusing, signals>>
        /\ \A e, k, i : Queued(e, k, h, i)' <=> Queued(e, k, h, i)
    BY <1>3 DEF table, Queued
  <2> QED
    BY <1>1, <1>2, <2>1
<1>4. ASSUME NEW l \in {"gone", "killed"}, Die(d, l) PROVE Clicked(h)'
  <2>1. /\ \A e \in Daemons \ {d} :
              focusing'[e] = focusing[e] /\ ctx'[e] = ctx[e] /\ signals'[e] = signals[e]
        /\ focusing'[d] = {} /\ signals'[d] = <<>>
    BY <1>4 DEF Die, Typed, TableOK
  <2>2. Gone(d)'
    BY <1>4 DEF Die, Phase, Gone, Typed, ServerOK
  <2>3. \A e \in Daemons : \A k, i : Queued(e, k, h, i)' <=> e # d /\ Queued(e, k, h, i)
    BY <2>1 DEF Queued
  <2> QED
    BY <1>1, <1>2, <2>1, <2>2, <2>3
<1>5. UNCHANGED table \/ \E l \in {"gone", "killed"} : Die(d, l)
  BY DEF Life, StartStep, IdleStep, EndStep, Remove, Bind, Chmod, IdleFound, IdleClose, Exit,
         Drained, DrainTimeout, Cleanup, Stop, Terminate, Kill, table
<1> QED
  BY <1>3, <1>4, <1>5

-----------------------------------------------------------------------------
\* The inductive invariant.
Inductive ==
    /\ Typed /\ OneClose /\ Shut /\ Started
    /\ \A h \in Hooks : Talking(h) /\ Delivered(h) /\ Clicked(h)

LEMMA ClickedStep ==
  ASSUME Inductive, [DesktopNext]_dvars
  PROVE  \A h \in Hooks : Clicked(h)'
<1> SUFFICES ASSUME NEW h \in Hooks PROVE Clicked(h)'
  OBVIOUS
<1> USE DEF Inductive
<1>1. \A d \in Daemons : Gone(d) => Gone(d)'
  BY PhaseMoves DEF Typed
<1>2. ASSUME UNCHANGED <<phase, conn, note, click, ctx, focusing, signals>> PROVE Clicked(h)'
  <2>1. (\A d : Gone(d)' <=> Gone(d)) /\ (\A e, k, i : Queued(e, k, h, i)' <=> Queued(e, k, h, i))
    BY <1>2 DEF Gone, Queued
  <2> QED
    BY <1>2, <2>1 DEF Clicked, Untouched, InOrder, Alone, Awaited
<1>3. ASSUME NEW g \in Hooks, NotifierStep(g) PROVE Clicked(h)'
  BY <1>2, <1>3, NotifierKeeps DEF server, table, screen
<1>4. ASSUME NEW c \in Hooks, Talk(c) PROVE Clicked(h)'
  BY <1>1, <1>4, ClickedTalk
<1>5. ASSUME NEW g \in Hooks, UserStep(g) PROVE Clicked(h)'
  BY <1>5, ClickedUser
<1>6. ASSUME NEW d \in Daemons, SignalStep(d) PROVE Clicked(h)'
  BY <1>6, ClickedSignal
<1>7. ASSUME NEW d \in Daemons, Life(d) PROVE Clicked(h)'
  BY <1>1, <1>7, ClickedLife
<1>8. CASE UNCHANGED dvars
  BY <1>2, <1>8 DEF dvars, vars, server, table, screen
<1> QED
  BY <1>3, <1>4, <1>5, <1>6, <1>7, <1>8, Steps

LEMMA InitInductive == DesktopInit => Inductive
<1> SUFFICES ASSUME DesktopInit PROVE Inductive
  OBVIOUS
<1> USE DEF DesktopInit, Init
<1>1. ServerOK /\ OneClose /\ Shut
  BY DEF ServerOK, OneClose, Shut, Gone, Phases
<1>2. TableOK /\ ClientOK /\ ConnOK /\ ScreenOK
  <2>1. TableOK
    BY EmptySeq DEF TableOK
  <2>2. ClientOK
    BY DEF ClientOK, Waiting
  <2> QED
    BY <2>1, <2>2 DEF ConnOK, ScreenOK
<1>3. NotifierOK
  BY DEF NotifierOK, Notifying
<1>4. Started
  BY DEF Started
<1>5. ASSUME NEW h \in Hooks PROVE Talking(h) /\ Delivered(h) /\ Clicked(h)
  <2>1. \A e \in Daemons : signals[e] = <<>> /\ focusing[e] = {}
    OBVIOUS
  <2>2. \A e \in Daemons : \A k, i : ~Queued(e, k, h, i)
    BY <2>1 DEF Queued
  <2>3. Talking(h) /\ Delivered(h)
    BY DEF Talking, Connected, Noted, Handling, Delivered
  <2>4. Clicked(h)
    BY <2>1, <2>2 DEF Clicked, Untouched, InOrder, Alone, Awaited
  <2> QED
    BY <2>3, <2>4
<1> QED
  BY <1>1, <1>2, <1>3, <1>4, <1>5 DEF Inductive, Typed

LEMMA NextInductive == Inductive /\ [DesktopNext]_dvars => Inductive'
<1> SUFFICES ASSUME Inductive, [DesktopNext]_dvars PROVE Inductive'
  OBVIOUS
<1> USE DEF Inductive
<1>1. Typed'
  BY ServerStep, TableStep, ClientsStep, ConnStep, ScreenStep, NotifierSteps DEF Typed
<1>2. OneClose' /\ Shut'
  BY OneCloseStep, ShutStep DEF Typed
<1>3. Started'
  BY StartedStep DEF Talking
<1>4. \A h \in Hooks : Talking(h)' /\ Delivered(h)' /\ Clicked(h)'
  BY TalkingStep, DeliveredStep, ClickedStep
<1> QED
  BY <1>1, <1>2, <1>3, <1>4

LEMMA AlwaysInductive == DesktopSpec => []Inductive
  BY InitInductive, NextInductive, PTL DEF DesktopSpec

\* Type correctness: daemons, tables, clients, connections, screen and notifiers keep their
\* types, and a client that looks for its daemon never counts its looks below zero.
THEOREM TypeCorrect == DesktopSpec => []DesktopTypeOK
<1>1. Inductive => DesktopTypeOK
  BY DEF Inductive, Typed, ServerOK, TableOK, ClientOK, ConnOK, ScreenOK, NotifierOK,
         DesktopTypeOK, TypeOK
<1> QED
  BY <1>1, AlwaysInductive, PTL

\* A hook that ends without an error has shown its notification, whatever the daemons did
\* meanwhile: SendDesktop falls back to beeep whenever the daemon did not confirm.
THEOREM NotificationNeverSilent == DesktopSpec => []NeverSilent
<1>1. Inductive => NeverSilent
  BY DEF Inductive, Talking, Noted, Delivered, NeverSilent
<1> QED
  BY <1>1, AlwaysInductive, PTL

\* A notification appears twice only when the daemon that showed it ended before it answered,
\* or the client stopped waiting at its deadline.
THEOREM ShownTwiceOnlyIfLost == DesktopSpec => []TwiceOnlyIfLost
<1>1. Inductive => TwiceOnlyIfLost
  BY DEF Inductive, Talking, Noted, Delivered, Lost, TwiceOnlyIfLost
<1> QED
  BY <1>1, AlwaysInductive, PTL

\* The idle checker, stop requests and Shutdown close the channel done at most once: they all
\* test and set the flag under the same lock.
THEOREM DoneClosedOnce == DesktopSpec => []ClosedOnce
<1>1. Inductive => ClosedOnce
  BY DEF Inductive, Typed, ServerOK, OneClose, ClosedOnce
<1> QED
  BY <1>1, AlwaysInductive, PTL

\* A click on a notification waits in the queue of the daemon that showed it, is being handled,
\* or has been handled, as long as that daemon runs; it is dropped only when it came before
\* the focus target was stored.
THEOREM ClickNeverLost == DesktopSpec => []ClickHandled
<1>1. Inductive => ClickHandled
  BY DEF Inductive, Clicked, Queued, ClickHandled
<1> QED
  BY <1>1, AlwaysInductive, PTL
=============================================================================
