--------------------------- MODULE TeamModeProofs ---------------------------
(***************************************************************************)
(* Proofs about TeamMode, for any team, any number of deliveries of each   *)
(* event and of hook processes per actor, any TTL of the Stop event lock   *)
(* and any number of rounds.                                               *)
(***************************************************************************)
EXTENDS TeamMode, TLAPS

USE ActorAssumption, CountAssumption

\* A hook moves alone.
LEMMA Moves ==
  ASSUME TypeOK, NEW a \in Actor, NEW h \in Slot, NEW l \in Labels, Goto(a, h, l)
  PROVE  /\ pc' \in [Actor -> [Slot -> Labels]]
         /\ pc'[a][h] = l
         /\ \A b \in Actor, g \in Slot : b # a \/ g # h => pc'[b][g] = pc[b][g]
  BY DEF TypeOK, Goto

LEMMA AllLabels == {"ended", "early", "record", "check", "mark", "send"} \subseteq Labels
  BY DEF Labels

LEMMA Actors == Lead \in Actor /\ Member \subseteq Actor
  BY DEF Actor

Files == [leadStopped : BOOLEAN, leadStopAt : 0..now, idle : SUBSET Member, notifiedAt : 0..now]

\* What the record and mark operations write.
LEMMA Written ==
  ASSUME TypeOK
  PROVE  /\ [file EXCEPT !.leadStopped = TRUE, !.leadStopAt = now] \in Files
         /\ \A m \in Member : [file EXCEPT !.idle = @ \cup {m}] \in Files
         /\ Marked \in Files
<1>1. file \in Files /\ now \in 0..now
  BY DEF TypeOK, Files
<1>2. \A m \in Member : file.idle \cup {m} \in SUBSET Member
  BY <1>1 DEF Files
<1>3. {} \in SUBSET Member
  OBVIOUS
<1>4. [file EXCEPT !.leadStopped = TRUE, !.leadStopAt = now] \in Files
  BY <1>1 DEF Files
<1>5. \A m \in Member : [file EXCEPT !.idle = @ \cup {m}] \in Files
  BY <1>1, <1>2 DEF Files
<1>6. Marked \in Files
  BY <1>1, <1>3 DEF Files, Marked
<1> QED
  BY <1>4, <1>5, <1>6

\* Type correctness: the state file and the history keep their types, and no recorded
\* time lies in the future.
THEOREM TypeCorrect == Spec => []TypeOK
<1>1. Init => TypeOK
  <2> SUFFICES ASSUME Init PROVE TypeOK
    OBVIOUS
  <2>1. pc \in [Actor -> [Slot -> Labels]] /\ acted \in [Actor -> 0..Fires]
    BY DEF Init, Labels
  <2>2. file \in Files
    BY DEF Init, Fresh, Files
  <2> QED
    <3>1. now \in 1..MaxTime /\ stopLock \in 0..now /\ round \in 1..Rounds
      BY DEF Init
    <3>2. recorded \subseteq Actor /\ sentHere \in BOOLEAN /\ dropped \in BOOLEAN
      BY DEF Init
    <3> QED
      BY <2>1, <2>2, <3>1, <3>2 DEF TypeOK, Files
<1>2. TypeOK /\ [Next]_vars => TypeOK'
  <2> SUFFICES ASSUME TypeOK, [Next]_vars PROVE TypeOK'
    OBVIOUS
  <2> USE DEF env
  <2>1. ASSUME NEW a \in Actor, NEW h \in Slot, Fire(a, h) PROVE TypeOK'
    <3>1. pc' \in [Actor -> [Slot -> Labels]]
      BY <2>1, Moves, AllLabels DEF Fire
    <3>2. acted' \in [Actor -> 0..Fires]
      BY <2>1 DEF Fire, TypeOK
    <3> QED
      BY <2>1, <3>1, <3>2 DEF Fire, TypeOK
  <2>2. ASSUME NEW h \in Slot, EarlyCheck(h) PROVE TypeOK'
    <3>1. pc' \in [Actor -> [Slot -> Labels]]
      BY <2>2, Moves, AllLabels, Actors DEF EarlyCheck
    <3> QED
      BY <2>2, <3>1 DEF EarlyCheck, TypeOK
  <2>3. ASSUME NEW h \in Slot, RecordLeadStopped(h) PROVE TypeOK'
    <3>1. pc' \in [Actor -> [Slot -> Labels]]
      BY <2>3, Moves, AllLabels, Actors DEF RecordLeadStopped
    <3>2. file' \in Files /\ now' = now
      BY <2>3, Written DEF RecordLeadStopped
    <3> QED
      BY <2>3, <3>1, <3>2, Actors DEF RecordLeadStopped, TypeOK, Files
  <2>4. ASSUME NEW h \in Slot, NEW m \in Member, RecordTeammateIdle(m, h) PROVE TypeOK'
    <3>1. pc' \in [Actor -> [Slot -> Labels]]
      BY <2>4, Moves, AllLabels, Actors DEF RecordTeammateIdle
    <3>2. file' \in Files /\ now' = now
      BY <2>4, Written DEF RecordTeammateIdle
    <3> QED
      BY <2>4, <3>1, <3>2, Actors DEF RecordTeammateIdle, TypeOK, Files
  <2>5. ASSUME NEW a \in Actor, NEW h \in Slot, CheckAllIdle(a, h) PROVE TypeOK'
    <3>1. pc' \in [Actor -> [Slot -> Labels]]
      BY <2>5, Moves, AllLabels DEF CheckAllIdle
    <3> QED
      BY <2>5, <3>1 DEF CheckAllIdle, TypeOK
  <2>6. ASSUME NEW a \in Actor, NEW h \in Slot, MarkNotified(a, h) PROVE TypeOK'
    <3>1. pc' \in [Actor -> [Slot -> Labels]]
      BY <2>6, Moves, AllLabels DEF MarkNotified
    <3>2. file' \in Files /\ now' = now
      BY <2>6, Written DEF MarkNotified
    <3> QED
      BY <2>6, <3>1, <3>2 DEF MarkNotified, TypeOK, Files
  <2>7. ASSUME NEW a \in Actor, NEW h \in Slot, Send(a, h) PROVE TypeOK'
    <3>1. pc' \in [Actor -> [Slot -> Labels]]
      BY <2>7, Moves, AllLabels DEF Send
    <3>2. stopLock' \in 0..now /\ sentHere' \in BOOLEAN
      <4>1. CASE a = Lead /\ StopFresh
        BY <2>7, <4>1 DEF Send, TypeOK
      <4>2. CASE ~(a = Lead /\ StopFresh)
        <5>1. sentHere' = TRUE /\ now' = now /\ stopLock' \in {now, stopLock}
          BY <2>7, <4>2 DEF Send
        <5> QED
          BY <5>1 DEF TypeOK
      <4> QED
        BY <4>1, <4>2
    <3> QED
      BY <2>7, <3>1, <3>2 DEF Send, TypeOK
  <2>8. ASSUME NEW h \in Slot, Drop(h) PROVE TypeOK'
    <3>1. pc' \in [Actor -> [Slot -> Labels]]
      BY <2>8, Moves, AllLabels, Actors DEF Drop
    <3> QED
      BY <2>8, <3>1 DEF Drop, TypeOK
  <2>9. CASE NewRound \/ Tick
    <3>1. now' \in 1..MaxTime /\ now <= now'
      BY <2>9 DEF NewRound, Tick, TypeOK
    <3>2. file' \in [leadStopped : BOOLEAN, leadStopAt : 0..now', idle : SUBSET Member,
                     notifiedAt : 0..now']
      BY <2>9, <3>1 DEF NewRound, Tick, TypeOK
    <3>3. acted' \in [Actor -> 0..Fires] /\ round' \in 1..Rounds
      BY <2>9 DEF NewRound, Tick, TypeOK
    <3>4. stopLock' \in 0..now' /\ pc' \in [Actor -> [Slot -> Labels]]
      BY <2>9, <3>1 DEF NewRound, Tick, TypeOK
    <3>5. recorded' \subseteq Actor /\ sentHere' \in BOOLEAN /\ dropped' \in BOOLEAN
      BY <2>9 DEF NewRound, Tick, TypeOK
    <3> QED
      BY <3>1, <3>2, <3>3, <3>4, <3>5 DEF TypeOK
  <2>10. CASE UNCHANGED vars
    BY <2>10 DEF vars, TypeOK
  <2> QED
    BY <2>1, <2>2, <2>3, <2>4, <2>5, <2>6, <2>7, <2>8, <2>9, <2>10 DEF Next
<1> QED
  BY <1>1, <1>2, PTL DEF Spec

-----------------------------------------------------------------------------
\* The inductive invariant.  While nothing of the current round has been announced or
\* dropped, the file loses none of its reports, whatever the rounds before have left in
\* it, and a hook that has still to check comes after the last of them.

\* A fresh Stop event lock was taken in this round.
LockSettles == StopFresh => sentHere \/ dropped

\* The reports of this round are in the file, and the mark in it is of another round.
FileHolds ==
    ~Settled =>
        /\ file.notifiedAt < now
        /\ \A m \in Member : m \in recorded => m \in file.idle
        /\ Lead \in recorded => file.leadStopped /\ file.notifiedAt < file.leadStopAt

\* An actor whose event was delivered has reported, or has a hook that will.
WillReport ==
    ~Settled =>
        \A a \in Actor :
            acted[a] > 0 => a \in recorded \/ \E h \in Slot : pc[a][h] \in {"early", "record"}

\* When all have reported, a hook has still to find that out.
WillCheck ==
    ~Settled /\ recorded = Actor =>
        \E a \in Actor, h \in Slot : pc[a][h] \in {"check", "mark"}

\* The hook that marks the team found all reports in the file, and only a mark takes
\* them out of it.
MarkEarned ==
    \A a \in Actor, h \in Slot : pc[a][h] = "mark" => Reported = Actor \/ Settled

RoundInv == LockSettles /\ FileHolds /\ WillReport /\ WillCheck /\ MarkEarned

LEMMA RoundInvInit == Init => RoundInv
<1> SUFFICES ASSUME Init PROVE RoundInv
  OBVIOUS
<1>1. /\ \A a \in Actor, h \in Slot : pc[a][h] = "ended"
      /\ \A a \in Actor : acted[a] = 0
      /\ recorded = {} /\ file.notifiedAt < now /\ stopLock = 0
  BY DEF Init, Fresh
<1>2. LockSettles /\ FileHolds /\ WillReport
  BY <1>1 DEF LockSettles, StopFresh, FileHolds, WillReport
<1>3. WillCheck /\ MarkEarned
  BY <1>1, Actors DEF WillCheck, MarkEarned
<1> QED
  BY <1>2, <1>3 DEF RoundInv

\* A hook that sends, is turned away by the event lock or drops the notification leaves
\* the round settled.
LEMMA SendSettles ==
  ASSUME LockSettles, NEW a \in Actor, NEW h \in Slot, Send(a, h) \/ (a = Lead /\ Drop(h))
  PROVE  sentHere' \/ dropped'
<1>1. CASE Send(a, h) /\ a = Lead /\ StopFresh
  BY <1>1 DEF Send, LockSettles
<1>2. CASE Send(a, h) /\ ~(a = Lead /\ StopFresh)
  BY <1>2 DEF Send
<1>3. CASE Drop(h)
  BY <1>3 DEF Drop
<1> QED
  BY <1>1, <1>2, <1>3

\* What CheckAllIdle looks for.
LEMMA AllIdleReported ==
  ASSUME TypeOK
  PROVE  /\ AllIdle => Reported = Actor
         /\ FileHolds /\ ~Settled /\ recorded = Actor => AllIdle
<1>1. AllIdle => Reported = Actor
  BY DEF AllIdle, Reported, Actor, TypeOK
<1>2. ASSUME FileHolds, ~Settled, recorded = Actor PROVE AllIdle
  <2>1. file.leadStopped /\ Member \subseteq file.idle /\ file.notifiedAt < file.leadStopAt
    BY <1>2, Actors DEF FileHolds
  <2>2. file.notifiedAt \in Nat /\ file.leadStopAt \in Nat
    BY DEF TypeOK
  <2> QED
    BY <2>1, <2>2 DEF AllIdle
<1> QED
  BY <1>1, <1>2

LEMMA RoundInvStep ==
  ASSUME TypeOK, TypeOK', RoundInv, [Next]_vars
  PROVE  RoundInv'
<1> USE DEF RoundInv, env
<1>1. ASSUME NEW a \in Actor, NEW h \in Slot, Fire(a, h) PROVE RoundInv'
  <2> DEFINE first == IF a = Lead THEN "early" ELSE "record"
  <2>1. first \in Labels /\ Goto(a, h, first)
    BY <1>1, AllLabels DEF Fire
  <2>2. /\ pc[a][h] = "ended" /\ pc'[a][h] \in {"early", "record"}
        /\ \A b \in Actor, g \in Slot : b # a \/ g # h => pc'[b][g] = pc[b][g]
        /\ acted' = [acted EXCEPT ![a] = @ + 1]
        /\ UNCHANGED <<now, file, stopLock, recorded, sentHere, dropped>>
    BY <1>1, <2>1, Moves DEF Fire
  <2>3. Settled' <=> Settled
    BY <2>2 DEF Settled, Sending
  <2>4. LockSettles' /\ FileHolds'
    BY <2>2, <2>3 DEF LockSettles, StopFresh, FileHolds
  <2>5. WillReport'
    <3> SUFFICES ASSUME ~Settled, NEW b \in Actor, acted'[b] > 0
                 PROVE  b \in recorded \/ \E g \in Slot : pc'[b][g] \in {"early", "record"}
      BY <2>2, <2>3 DEF WillReport
    <3>1. CASE b = a
      BY <2>2, <3>1
    <3>2. CASE b # a
      <4>1. acted[b] > 0
        BY <2>2, <3>2 DEF TypeOK
      <4> QED
        BY <2>2, <3>2, <4>1 DEF WillReport
    <3> QED
      BY <3>1, <3>2
  <2>6. WillCheck'
    BY <2>2, <2>3 DEF WillCheck
  <2>7. MarkEarned'
    BY <2>2, <2>3 DEF MarkEarned, Reported
  <2> QED
    BY <2>4, <2>5, <2>6, <2>7
<1>2. ASSUME NEW h \in Slot, EarlyCheck(h) PROVE RoundInv'
  <2> DEFINE next == IF StopFresh THEN "ended" ELSE "record"
  <2>1. next \in Labels /\ Goto(Lead, h, next)
    BY <1>2, AllLabels DEF EarlyCheck
  <2>2. /\ pc[Lead][h] = "early" /\ pc'[Lead][h] = next
        /\ \A b \in Actor, g \in Slot : b # Lead \/ g # h => pc'[b][g] = pc[b][g]
        /\ UNCHANGED <<now, file, stopLock, acted, recorded, sentHere, dropped>>
    BY <1>2, <2>1, Moves, Actors DEF EarlyCheck
  <2>3. Settled' <=> Settled
    BY <2>2, Actors DEF Settled, Sending
  <2>4. ~Settled => pc'[Lead][h] = "record"
    BY <2>2 DEF LockSettles, Settled
  <2>5. LockSettles' /\ FileHolds'
    BY <2>2, <2>3 DEF LockSettles, StopFresh, FileHolds
  <2>6. WillReport'
    BY <2>2, <2>3, <2>4 DEF WillReport
  <2>7. WillCheck'
    BY <2>2, <2>3, <2>4 DEF WillCheck
  <2>8. MarkEarned'
    BY <2>2, <2>3 DEF MarkEarned, Reported
  <2> QED
    BY <2>5, <2>6, <2>7, <2>8
<1>3. ASSUME NEW h \in Slot, RecordLeadStopped(h) PROVE RoundInv'
  <2>1. /\ pc[Lead][h] = "record" /\ pc'[Lead][h] = "check" /\ recorded' = recorded \cup {Lead}
        /\ \A b \in Actor, g \in Slot : b # Lead \/ g # h => pc'[b][g] = pc[b][g]
        /\ UNCHANGED <<now, stopLock, acted, sentHere, dropped>>
    BY <1>3, Moves, AllLabels, Actors DEF RecordLeadStopped
  <2>2. /\ file'.leadStopped /\ file'.leadStopAt = now
        /\ file'.idle = file.idle /\ file'.notifiedAt = file.notifiedAt
    BY <1>3 DEF RecordLeadStopped, TypeOK
  <2>3. Settled' <=> Settled
    BY <2>1, Actors DEF Settled, Sending
  <2>4. LockSettles' /\ FileHolds'
    BY <2>1, <2>2, <2>3, Actors DEF LockSettles, StopFresh, FileHolds
  <2>5. WillReport'
    BY <2>1, <2>3 DEF WillReport
  <2>6. WillCheck'
    BY <2>1, Actors DEF WillCheck
  <2>7. Reported = Actor => Reported' = Actor
    BY <2>2, Actors DEF Reported
  <2>8. MarkEarned'
    BY <2>1, <2>3, <2>7 DEF MarkEarned
  <2> QED
    BY <2>4, <2>5, <2>6, <2>8
<1>4. ASSUME NEW m \in Member, NEW h \in Slot, RecordTeammateIdle(m, h) PROVE RoundInv'
  <2>1. /\ pc[m][h] = "record" /\ pc'[m][h] = "check" /\ m \in Actor
        /\ recorded' = recorded \cup {m} /\ m # Lead
        /\ \A b \in Actor, g \in Slot : b # m \/ g # h => pc'[b][g] = pc[b][g]
        /\ UNCHANGED <<now, stopLock, acted, sentHere, dropped>>
    BY <1>4, Moves, AllLabels, Actors DEF RecordTeammateIdle
  <2>2. /\ file'.leadStopped = file.leadStopped /\ file'.leadStopAt = file.leadStopAt
        /\ file'.idle = file.idle \cup {m} /\ file'.notifiedAt = file.notifiedAt
    BY <1>4 DEF RecordTeammateIdle, TypeOK
  <2>3. Settled' <=> Settled
    BY <2>1 DEF Settled, Sending
  <2>4. LockSettles' /\ FileHolds'
    BY <2>1, <2>2, <2>3 DEF LockSettles, StopFresh, FileHolds
  <2>5. WillReport'
    BY <2>1, <2>3 DEF WillReport
  <2>6. WillCheck'
    BY <2>1 DEF WillCheck
  <2>7. Reported = Actor => Reported' = Actor
    BY <2>1, <2>2 DEF Reported
  <2>8. MarkEarned'
    BY <2>1, <2>3, <2>7 DEF MarkEarned
  <2> QED
    BY <2>4, <2>5, <2>6, <2>8
<1>5. ASSUME NEW a \in Actor, NEW h \in Slot, CheckAllIdle(a, h) PROVE RoundInv'
  <2> DEFINE next == IF AllIdle THEN "mark" ELSE "ended"
  <2>1. next \in Labels /\ Goto(a, h, next)
    BY <1>5, AllLabels DEF CheckAllIdle
  <2>2. /\ pc[a][h] = "check" /\ pc'[a][h] = next
        /\ \A b \in Actor, g \in Slot : b # a \/ g # h => pc'[b][g] = pc[b][g]
        /\ UNCHANGED <<now, file, stopLock, acted, recorded, sentHere, dropped>>
    BY <1>5, <2>1, Moves DEF CheckAllIdle
  <2>3. Settled' <=> Settled
    BY <2>2 DEF Settled, Sending
  <2>4. LockSettles' /\ FileHolds'
    BY <2>2, <2>3 DEF LockSettles, StopFresh, FileHolds
  <2>5. WillReport'
    BY <2>2, <2>3 DEF WillReport
  <2>6. WillCheck'
    BY <2>2, <2>3, AllIdleReported DEF WillCheck
  <2>7. MarkEarned'
    BY <2>2, <2>3, AllIdleReported DEF MarkEarned, Reported
  <2> QED
    BY <2>4, <2>5, <2>6, <2>7
<1>6. ASSUME NEW a \in Actor, NEW h \in Slot, MarkNotified(a, h) PROVE RoundInv'
  <2>1. pc'[a][h] = "send" /\ UNCHANGED <<now, stopLock, sentHere, dropped>>
    BY <1>6, Moves, AllLabels DEF MarkNotified
  <2>2. Settled'
    BY <2>1 DEF Settled, Sending
  <2> QED
    BY <2>1, <2>2 DEF LockSettles, StopFresh, FileHolds, WillReport, WillCheck, MarkEarned
<1>7. ASSUME NEW a \in Actor, NEW h \in Slot, Send(a, h) \/ (a = Lead /\ Drop(h)) PROVE RoundInv'
  <2>1. sentHere' \/ dropped'
    BY <1>7, SendSettles
  <2> QED
    BY <2>1 DEF Settled, LockSettles, FileHolds, WillReport, WillCheck, MarkEarned
<1>8. CASE NewRound
  <2>1. /\ \A a \in Actor : acted'[a] = 0
        /\ \A a \in Actor, h \in Slot : pc'[a][h] = "ended"
        /\ recorded' = {} /\ now' = now + LockTTL
        /\ file' = file /\ stopLock' = stopLock
    BY <1>8 DEF NewRound, Quiet
  <2>2. ~StopFresh' /\ file.notifiedAt < now + LockTTL
    BY <2>1 DEF StopFresh, TypeOK
  <2>3. LockSettles' /\ FileHolds'
    BY <2>1, <2>2 DEF LockSettles, FileHolds
  <2>4. WillReport' /\ WillCheck' /\ MarkEarned'
    BY <2>1, Actors DEF WillReport, WillCheck, MarkEarned
  <2> QED
    BY <2>3, <2>4
<1>9. CASE Tick
  <2>1. now' = now + 1 /\ UNCHANGED <<file, stopLock, pc, acted, recorded, sentHere, dropped>>
    BY <1>9 DEF Tick
  <2>2. Settled' <=> Settled
    BY <2>1 DEF Settled, Sending
  <2>3. LockSettles'
    BY <2>1 DEF LockSettles, StopFresh, TypeOK
  <2>4. FileHolds'
    BY <2>1, <2>2 DEF FileHolds, TypeOK
  <2>5. WillReport' /\ WillCheck' /\ MarkEarned'
    BY <2>1, <2>2 DEF WillReport, WillCheck, MarkEarned, Reported
  <2> QED
    BY <2>3, <2>4, <2>5
<1>10. CASE UNCHANGED vars
  BY <1>10 DEF vars, LockSettles, StopFresh, FileHolds, WillReport, WillCheck, MarkEarned,
               Settled, Sending, Reported
<1> QED
  BY <1>1, <1>2, <1>3, <1>4, <1>5, <1>6, <1>7, <1>8, <1>9, <1>10, Actors DEF Next

\* A round whose hooks have all ended is settled.
LEMMA QuietIsSettled == TypeOK /\ RoundInv => RoundSettled
<1> SUFFICES ASSUME TypeOK, RoundInv, AllActed, Quiet, ~(sentHere \/ dropped) PROVE FALSE
  BY DEF RoundSettled
<1>1. ~Settled
  BY DEF Settled, Sending, Quiet
<1>2. \A a \in Actor : a \in recorded
  BY <1>1 DEF RoundInv, WillReport, AllActed, Quiet
<1>3. recorded = Actor
  BY <1>2 DEF TypeOK
<1> QED
  BY <1>1, <1>3 DEF RoundInv, WillCheck, Quiet

\* A team whose actors have all finished a round and whose hooks have all ended has been
\* announced in that round, or the lead's own Stop ended it: however often each event is
\* delivered, however the hooks interleave and whatever the rounds before have left in the
\* file.
THEOREM EveryRoundSettled == Spec => []RoundSettled
  BY QuietIsSettled, RoundInvInit, RoundInvStep, TypeCorrect, PTL DEF Spec

-----------------------------------------------------------------------------
\* The hooks keep the promise of TeamPromise: every step of TeamMode is a step of the
\* promise or leaves it as it is, for any number of deliveries of each event.
THEOREM TeamModeKeepsPromise == Spec => ImplementsPromise
<1>1. Init => Promise!Init
  BY DEF Init, Fresh, Reported, Settled, Sending, Promise!Init
<1>2. TypeOK /\ TypeOK' /\ RoundInv /\ [Next]_vars => [Promise!Next]_Promise!vars
  <2> SUFFICES ASSUME TypeOK, TypeOK', RoundInv, [Next]_vars
               PROVE  [Promise!Next]_Promise!vars
    OBVIOUS
  <2> USE DEF env, Promise!vars
  <2>1. ASSUME NEW a \in Actor, NEW h \in Slot, NEW l \in Labels \ {"send"},
               pc[a][h] # "send", Goto(a, h, l), UNCHANGED <<sentHere, dropped>>
        PROVE  Settled' = Settled
    BY <2>1, Moves DEF Settled, Sending
  <2>2. ASSUME NEW a \in Actor, NEW h \in Slot, Fire(a, h) \/ CheckAllIdle(a, h)
        PROVE  UNCHANGED Promise!vars
    <3>1. UNCHANGED file /\ UNCHANGED <<sentHere, dropped>> /\ pc[a][h] # "send"
      BY <2>2 DEF Fire, CheckAllIdle
    <3>2. \E l \in Labels \ {"send"} : Goto(a, h, l)
      BY <2>2 DEF Fire, CheckAllIdle, Labels
    <3> QED
      BY <2>1, <3>1, <3>2 DEF Reported
  <2>3. ASSUME NEW h \in Slot, EarlyCheck(h) PROVE UNCHANGED Promise!vars
    <3>1. UNCHANGED file /\ UNCHANGED <<sentHere, dropped>> /\ pc[Lead][h] # "send"
      BY <2>3 DEF EarlyCheck
    <3>2. \E l \in Labels \ {"send"} : Goto(Lead, h, l)
      BY <2>3 DEF EarlyCheck, Labels
    <3> QED
      BY <2>1, <3>1, <3>2, Actors DEF Reported
  <2>4. ASSUME NEW h \in Slot, RecordLeadStopped(h) PROVE Promise!Report(Lead)
    <3>1. Settled' = Settled
      BY <2>1, <2>4, Actors DEF RecordLeadStopped, Labels
    <3>2. file'.leadStopped /\ file'.idle = file.idle
      BY <2>4 DEF RecordLeadStopped, TypeOK
    <3> QED
      BY <3>1, <3>2 DEF Promise!Report, Reported
  <2>5. ASSUME NEW h \in Slot, NEW m \in Member, RecordTeammateIdle(m, h)
        PROVE Promise!Report(m)
    <3>1. Settled' = Settled
      BY <2>1, <2>5, Actors DEF RecordTeammateIdle, Labels
    <3>2. file'.leadStopped = file.leadStopped /\ file'.idle = file.idle \cup {m}
      BY <2>5 DEF RecordTeammateIdle, TypeOK
    <3> QED
      BY <3>1, <3>2 DEF Promise!Report, Reported
  <2>6. ASSUME NEW a \in Actor, NEW h \in Slot, MarkNotified(a, h) PROVE Promise!Settle
    <3>1. Reported = Actor \/ Settled
      BY <2>6 DEF MarkNotified, RoundInv, MarkEarned
    <3>2. Reported' = {}
      BY <2>6 DEF MarkNotified, Marked, Reported, TypeOK
    <3>3. pc'[a][h] = "send"
      BY <2>6, Moves, AllLabels DEF MarkNotified
    <3>4. Settled' = TRUE
      BY <3>3 DEF Settled, Sending
    <3> QED
      BY <3>1, <3>2, <3>4 DEF Promise!Settle
  <2>7. ASSUME NEW a \in Actor, NEW h \in Slot, Send(a, h) \/ (a = Lead /\ Drop(h))
        PROVE UNCHANGED Promise!vars
    <3>1. Settled
      BY <2>7 DEF Send, Drop, Settled, Sending
    <3>2. sentHere' \/ dropped'
      BY <2>7, SendSettles DEF RoundInv
    <3>3. Settled' /\ file' = file
      BY <2>7, <3>2 DEF Send, Drop, Settled
    <3> QED
      BY <3>1, <3>3 DEF Reported, Settled, Sending
  <2>8. CASE NewRound
    <3>1. Settled
      BY <2>8, QuietIsSettled DEF NewRound, RoundSettled, Settled
    <3>2. ~Settled' /\ file' = file
      BY <2>8 DEF NewRound, Quiet, Settled, Sending
    <3> QED
      BY <3>1, <3>2 DEF Promise!Next, Promise!NewRound, Reported, Settled, Sending
  <2>9. CASE Tick \/ UNCHANGED vars
    BY <2>9 DEF Tick, vars, Reported, Settled, Sending
  <2> QED
    BY <2>2, <2>3, <2>4, <2>5, <2>6, <2>7, <2>8, <2>9, Actors DEF Next, Promise!Next
<1> QED
  BY <1>1, <1>2, RoundInvInit, RoundInvStep, TypeCorrect, PTL
     DEF Spec, ImplementsPromise, Promise!Spec
=============================================================================
