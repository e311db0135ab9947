------------------------------ MODULE TeamMode ------------------------------
(***************************************************************************)
(* Team mode "wait-all": the Stop hooks of the team lead and the           *)
(* TeammateIdle hooks of its members, over the team's state file.  Each    *)
(* operation of internal/teamstate is one critical section under flock,    *)
(* hence one step; a hook performs several.  The early check of            *)
(* handleTeammateIdle looks for a lock file that no code ever creates, so  *)
(* it never stops a hook and has no action here.                           *)
(* Definitions named Mutant... are faulty variants used to show that a     *)
(* property can fail.                                                      *)
(***************************************************************************)
EXTENDS Integers

CONSTANTS
    Lead,       \* the lead's session
    Member,     \* the other members of the team
    Slot,       \* hook processes one actor may have running at once
    Fires,      \* how often one event may be delivered
    LockTTL,    \* age from which the Stop event lock is stale, 2 s
    Rounds,     \* bound: rounds of work
    MaxTime     \* bound: the clock stops here

ASSUME ActorAssumption == Lead \notin Member
ASSUME CountAssumption ==
    /\ Fires \in Nat \ {0} /\ LockTTL \in Nat \ {0} /\ Rounds \in Nat \ {0} /\ MaxTime \in Nat \ {0}

Actor == Member \cup {Lead}

VARIABLES
    now,        \* the wall clock, in whole seconds
    file,       \* teamstate.State on disk; 0 for a time that is not set
    stopLock,   \* modification time of the lead's Stop event lock, 0 for none
    pc,         \* where each hook process is
    acted,      \* how often each actor's event has been delivered this round
    recorded,   \* history: the actors whose report of this round is on disk
    round,      \* the round of work the team is in
    sentHere,   \* history: a notification has been sent this round
    dropped     \* history: the lead's Stop of this round did not notify for a reason of its own

vars == <<now, file, stopLock, pc, acted, recorded, round, sentHere, dropped>>
env == <<acted, recorded, round, sentHere, dropped>>

MutantFresh == [leadStopped |-> FALSE, leadStopAt |-> 0, idle |-> {}, notifiedAt |-> -1]
\* What loadStateUnlocked returns for a missing or unreadable file.
Fresh == [leadStopped |-> FALSE, leadStopAt |-> 0, idle |-> {}, notifiedAt |-> 0]

Goto(a, h, label) == pc' = [pc EXCEPT ![a][h] = label]
Quiet == \A a \in Actor, h \in Slot : pc[a][h] = "ended"
AllActed == \A a \in Actor : acted[a] > 0

Init ==
    /\ now = 1
    /\ file = Fresh
    /\ stopLock = 0
    /\ pc = [a \in Actor |-> [h \in Slot |-> "ended"]]
    /\ acted = [a \in Actor |-> 0]
    /\ recorded = {}
    /\ round = 1
    /\ sentHere = FALSE
    /\ dropped = FALSE

-----------------------------------------------------------------------------
\* The lead stops, or a member goes idle: Claude Code runs a hook.
Fire(a, h) ==
    /\ pc[a][h] = "ended"
    /\ acted[a] < Fires
    /\ acted' = [acted EXCEPT ![a] = @ + 1]
    /\ Goto(a, h, IF a = Lead THEN "early" ELSE "record")
    /\ UNCHANGED <<now, file, stopLock, recorded, round, sentHere, dropped>>

\* The lead's Stop event lock exists and is not stale.
StopFresh == stopLock # 0 /\ now - stopLock < LockTTL

\* Phase 1 of the lead's Stop.
EarlyCheck(h) ==
    /\ pc[Lead][h] = "early"
    /\ Goto(Lead, h, IF StopFresh THEN "ended" ELSE "record")
    /\ UNCHANGED <<now, file, stopLock, env>>

RecordLeadStopped(h) ==
    /\ pc[Lead][h] = "record"
    /\ file' = [file EXCEPT !.leadStopped = TRUE, !.leadStopAt = now]
    /\ recorded' = recorded \cup {Lead}
    /\ Goto(Lead, h, "check")
    /\ UNCHANGED <<now, stopLock, acted, round, sentHere, dropped>>

RecordTeammateIdle(m, h) ==
    /\ pc[m][h] = "record"
    /\ file' = [file EXCEPT !.idle = @ \cup {m}]
    /\ recorded' = recorded \cup {m}
    /\ Goto(m, h, "check")
    /\ UNCHANGED <<now, stopLock, acted, round, sentHere, dropped>>

MutantAllIdle == Member \subseteq file.idle
MutantAllIdleOnce ==
    file.leadStopped /\ Member \subseteq file.idle /\ file.notifiedAt = 0

\* The three conditions of CheckAllIdle.
AllIdle ==
    /\ file.leadStopped
    /\ Member \subseteq file.idle
    /\ ~(file.notifiedAt > 0 /\ file.notifiedAt >= file.leadStopAt)

CheckAllIdle(a, h) ==
    /\ pc[a][h] = "check"
    /\ Goto(a, h, IF AllIdle THEN "mark" ELSE "ended")
    /\ UNCHANGED <<now, file, stopLock, env>>

MutantMarked == [file EXCEPT !.notifiedAt = now, !.leadStopped = FALSE]

\* The state after MarkNotified, ready for the next round.
Marked == [file EXCEPT !.notifiedAt = now, !.leadStopped = FALSE, !.idle = {}]

MarkNotified(a, h) ==
    /\ pc[a][h] = "mark"
    /\ file' = Marked
    /\ Goto(a, h, "send")
    /\ UNCHANGED <<now, stopLock, env>>

\* handleTeammateIdle sends at once; the lead's Stop takes its event lock first,
\* and ends without a notification if another Stop holds it.
Send(a, h) ==
    /\ pc[a][h] = "send"
    /\ Goto(a, h, "ended")
    /\ IF a = Lead /\ StopFresh
       THEN UNCHANGED <<sentHere, stopLock>>
       ELSE /\ sentHere' = TRUE
            /\ stopLock' = IF a = Lead THEN now ELSE stopLock
    /\ UNCHANGED <<now, file, acted, recorded, round, dropped>>

\* The lead's Stop ends after MarkNotified without notifying: its status is unknown,
\* a suppress-filter matches, or, with the event lock taken, its message is a duplicate.
Drop(h) ==
    /\ pc[Lead][h] = "send"
    /\ stopLock' \in {stopLock, IF StopFresh THEN stopLock ELSE now}
    /\ Goto(Lead, h, "ended")
    /\ dropped' = TRUE
    /\ UNCHANGED <<now, file, acted, recorded, round, sentHere>>

-----------------------------------------------------------------------------
\* The team takes up work again, with no hook still running and the Stop event lock
\* past its TTL.
NewRound ==
    /\ AllActed /\ Quiet
    /\ round < Rounds /\ now + LockTTL <= MaxTime
    /\ now' = now + LockTTL
    /\ round' = round + 1
    /\ acted' = [a \in Actor |-> 0]
    /\ recorded' = {}
    /\ sentHere' = FALSE
    /\ dropped' = FALSE
    /\ UNCHANGED <<file, stopLock, pc>>

Tick ==
    /\ now < MaxTime
    /\ now' = now + 1
    /\ UNCHANGED <<file, stopLock, pc, env>>

Next ==
    \/ \E h \in Slot :
          \/ EarlyCheck(h) \/ RecordLeadStopped(h) \/ Drop(h)
          \/ \E m \in Member : RecordTeammateIdle(m, h)
          \/ \E a \in Actor :
                Fire(a, h) \/ CheckAllIdle(a, h) \/ MarkNotified(a, h) \/ Send(a, h)
    \/ NewRound
    \/ Tick

Spec == Init /\ [][Next]_vars

-----------------------------------------------------------------------------
Labels == {"ended", "early", "record", "check", "mark", "send"}

\* Types; no time in the state file or of the lock lies in the future.
TypeOK ==
    /\ now \in 1..MaxTime
    /\ file \in [leadStopped : BOOLEAN, leadStopAt : 0..now,
                 idle : SUBSET Member, notifiedAt : 0..now]
    /\ stopLock \in 0..now
    /\ pc \in [Actor -> [Slot -> Labels]]
    /\ acted \in [Actor -> 0..Fires]
    /\ recorded \subseteq Actor
    /\ round \in 1..Rounds
    /\ sentHere \in BOOLEAN /\ dropped \in BOOLEAN

\* A team that has finished a round, with all its hooks ended, has been announced in
\* that round, or the lead's Stop that was to announce it ended for a reason of its own:
\* however often each event is delivered, the reports of a round are never consumed
\* without a notification or lost to the one of the round before.
RoundSettled == AllActed /\ Quiet => sentHere \/ dropped

\* The notification goes out only when the lead and every member are done with the
\* current round.  False where an event is delivered more than once: a repeated report
\* is taken for one of the next round.
NotPremature ==
    [][\A a \in Actor, h \in Slot : pc[a][h] = "check" /\ pc'[a][h] = "mark" => AllActed]_vars

\* A round is announced by a single notification.  False: check and mark are two
\* critical sections, and two hooks of one round may pass the check.
SingleNotification ==
    [][\A a \in Actor, h \in Slot : Send(a, h) /\ ~(a = Lead /\ StopFresh) => ~sentHere]_vars

\* A team that has finished a round, with all its hooks ended, has been announced.
\* False: the lead's Stop marks the team as notified before it knows that it will notify.
RoundAnnounced == AllActed /\ Quiet => sentHere

\* The reports the file holds.
Reported == file.idle \cup (IF file.leadStopped THEN {Lead} ELSE {})

\* The current round was announced or dropped, or a hook is about to do one of them.
Sending == \E a \in Actor, h \in Slot : pc[a][h] = "send"
Settled == sentHere \/ dropped \/ Sending

\* The hooks keep the promise of TeamPromise: the team is marked as notified only on the
\* report of everyone since the last time or in a round settled already, the mark
\* consumes the reports, and no round ends unsettled.
Promise == INSTANCE TeamPromise WITH reported <- Reported, settled <- Settled
ImplementsPromise == Promise!Spec

=============================================================================
