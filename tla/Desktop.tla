------------------------------- MODULE Desktop -------------------------------
(***************************************************************************)
(* The desktop notifier of each hook process over the daemon: SendDesktop  *)
(* with its chain of senders, the sound, and Close before the hook exits.  *)
(***************************************************************************)
EXTENDS Daemon

VARIABLES
    npc,     \* where the notifier of each hook is
    shown,   \* history: the senders of its own that have shown the notification
    failed   \* what SendDesktop returns is an error

desktop == <<npc, shown, failed>>
dvars == <<vars, desktop>>

Notifying == {"start", "wait", "app", "first beeep", "beeep", "playing", "close"}

DesktopTypeOK ==
    /\ TypeOK
    /\ npc \in [Hooks -> Notifying \cup {"exited"}]
    /\ shown \in [Hooks -> SUBSET {"app", "beeep"}]
    /\ failed \in [Hooks -> BOOLEAN]

\* The platform and the settings choose the first sender: the daemon on Linux
\* with clickToFocus, ClaudeNotifier on macOS, beeep otherwise.
DesktopInit ==
    /\ Init
    /\ npc \in [Hooks -> {"start", "app", "beeep"}]
    /\ shown = [h \in Hooks |-> {}]
    /\ failed = [h \in Hooks |-> FALSE]

Proceed(h, label) == npc' = [npc EXCEPT ![h] = label]
\* playSoundDetached: no sound or a detached child process, or, when none can be
\* started, a goroutine of this one, which Close waits for.
Ring(h) == Proceed(h, "close") \/ Proceed(h, "playing")
Show(h, sender) == shown' = [shown EXCEPT ![h] = @ \cup {sender}]

\* sendViaDaemon: the hook becomes a client of the daemon.
Delegate(h) ==
    /\ npc[h] = "start" /\ Proceed(h, "wait")
    /\ Begin(h)
    /\ UNCHANGED <<shown, failed>>

\* sendLinuxNotification: the daemon's answer, or its own fallback.
DaemonResult(h) ==
    /\ npc[h] = "wait"
    /\ \/ cpc[h] = "shown" /\ Ring(h)
       \/ cpc[h] \in {"failed", "late"} /\ Proceed(h, "first beeep")
    /\ UNCHANGED <<vars, shown, failed>>

\* ClaudeNotifier: shown, refused for want of permission (an error, and no
\* fallback), or any other failure.
App(h) ==
    /\ npc[h] = "app"
    /\ \/ Show(h, "app") /\ Ring(h) /\ UNCHANGED failed
       \/ failed' = [failed EXCEPT ![h] = TRUE] /\ Proceed(h, "close") /\ UNCHANGED shown
       \/ Proceed(h, "beeep") /\ UNCHANGED <<shown, failed>>
    /\ UNCHANGED <<vars>>

\* beeep inside sendLinuxNotification: when it fails too, SendDesktop calls it again.
FirstBeeep(h) ==
    /\ npc[h] = "first beeep"
    /\ \/ Show(h, "beeep") /\ Ring(h)
       \/ Proceed(h, "beeep") /\ UNCHANGED shown
    /\ UNCHANGED <<vars, failed>>

\* sendWithBeeep: the sound follows whatever the outcome.
Beeep(h) ==
    /\ npc[h] = "beeep"
    /\ \/ Show(h, "beeep") /\ UNCHANGED failed
       \/ failed' = [failed EXCEPT ![h] = TRUE] /\ UNCHANGED shown
    /\ Ring(h)
    /\ UNCHANGED <<vars>>

\* The goroutine has played the sound, or given up after 30 seconds.
Played(h) ==
    /\ npc[h] = "playing" /\ Proceed(h, "close")
    /\ UNCHANGED <<vars, shown, failed>>

\* Close has nothing to wait for; the hook process ends.
Close(h) ==
    /\ npc[h] = "close" /\ Proceed(h, "exited")
    /\ UNCHANGED <<vars, shown, failed>>

NotifierStep(h) ==
    Delegate(h) \/ DaemonResult(h) \/ App(h) \/ FirstBeeep(h) \/ Beeep(h)
        \/ Played(h) \/ Close(h)

\* Nothing is left to do: every hook has exited and every daemon is gone.
Over ==
    /\ \A h \in Hooks : npc[h] = "exited" /\ note[h] # "open"
    /\ \A d \in Daemons : phase[d] = "unused" \/ Gone(d)
    /\ UNCHANGED dvars

DesktopNext ==
    \/ \E h \in Hooks : NotifierStep(h)
    \/ DaemonNext /\ UNCHANGED desktop
    \/ Over

\* The processes run: as long as one of them can take a step, one does.  The
\* user, signals and kills, and the notification server's answers are left to
\* chance.
Progress ==
    \/ \E h \in Hooks : NotifierStep(h)
    \/ /\ \/ \E c \in Hooks : ClientStep(c) \/ Handle(c)
          \/ \E h \in Hooks : Store(h)
          \/ \E d \in Daemons : SignalStep(d) \/ StartStep(d) \/ IdleStep(d) \/ EndStep(d)
       /\ UNCHANGED desktop

-----------------------------------------------------------------------------
\* A hook that ends without an error has shown its notification, through the
\* daemon, ClaudeNotifier or beeep, whatever the daemons did meanwhile
\* (notifier.go: "fall back to beeep as a delivery safety net rather than
\* dropping the notification").
NeverSilent ==
    \A h \in Hooks : npc[h] = "exited" /\ ~failed[h] => shown[h] # {} \/ note[h] # "none"

\* A notification appears twice, through the daemon and through beeep, only when
\* the daemon ended between showing it and answering, or the notification
\* server kept the client waiting past its deadline.
TwiceOnlyIfLost ==
    \A h \in Hooks :
        note[h] # "none" /\ shown[h] # {} =>
            \/ cpc[h] = "late"
            \/ Gone(conn[h].at) /\ conn[h].st = "sent"

\* The idle checker, stop requests and Shutdown never close the channel done
\* twice, which would panic the daemon.
ClosedOnce == \A d \in Daemons : closes[d] <= 1

\* Every hook ends, whatever happens to the daemons it talks to.
HooksEnd == \A h \in Hooks : <>(npc[h] = "exited")

\* Every daemon ends after the last request, those included whose socket path
\* another daemon has taken over and no client can reach any more.
DaemonsEnd == \A d \in Daemons : phase[d] = "serving" ~> Gone(d)

\* A click is never dropped while the daemon that showed the notification lives:
\* its signal waits, is being handled, or was handled before the focus target was
\* stored ("early"), the one case in which the code drops it.
ClickHandled ==
    \A h \in Hooks :
        click[h] = "pending" =>
            LET d == conn[h].at IN
            Gone(d) \/ h \in focusing[d] \/ \E i \in DOMAIN signals[d] : signals[d][i] = <<"action", h>>

DesktopSpec == DesktopInit /\ [][DesktopNext]_dvars /\ WF_dvars(Progress)
=============================================================================
