------------------------- MODULE HookHandlerProofs -------------------------
(***************************************************************************)
(* Proofs about HookHandler, for any number of hook processes, messages    *)
(* and events and any TTLs and cooldowns.                                  *)
(***************************************************************************)
EXTENDS HookHandler, TLAPS

USE EventAssumption, TimesAssumption, CrashAssumption

\* Every state a hook computes in memory is one the file can hold.
LEMMA StateFacts ==
  /\ Blank \in ValidState /\ Missing \in State /\ Corrupt \in State
  /\ Blank.msg = None /\ Blank.time = 0
  BY DEF ValidState, Blank, Missing, Corrupt, State

LEMMA UpdatedState ==
  ASSUME TypeOK, NEW p \in Proc, NEW s \in ValidState
  PROVE  Updated(p, s) \in ValidState
<1>1. job[p].msg \in Msg \cup {None} /\ now \in 0..MaxTime
  BY DEF TypeOK
<1>2. [s EXCEPT !.task = now] \in ValidState
  BY <1>1 DEF ValidState
<1>3. [s EXCEPT !.time = now, !.msg = job[p].msg] \in ValidState
  BY <1>1 DEF ValidState
<1> QED
  BY <1>2, <1>3 DEF Updated

LEMMA DropTypes ==
  ASSUME TypeOK, NEW p \in Proc, Drop(p)
  PROVE  op' \in [Proc -> {None, "tool", "task", "notify"}] /\ copy' \in [Proc -> ValidState]
  BY StateFacts DEF TypeOK, Drop

LEMMA CurrentValid ==
  ASSUME TypeOK, file # Corrupt
  PROVE  Current \in ValidState
  BY StateFacts DEF Current, TypeOK, State

\* A process moves between the labels of the handler and ends with one of its outcomes.
LEMMA MoveTypes ==
  ASSUME TypeOK, NEW p \in Proc
  PROVE  /\ \A l \in Labels : Goto(p, l) => pc' \in [Proc -> Labels]
         /\ \A o \in Outcomes : Exit(p, o) =>
              pc' \in [Proc -> Labels] /\ outcome' \in [Proc -> Outcomes]
<1>1. \A l \in Labels : Goto(p, l) => pc' \in [Proc -> Labels]
  BY DEF TypeOK, Goto
<1>2. "ended" \in Labels /\ "cleanLocks" \in Labels
  BY DEF Labels
<1>3. \A o \in Outcomes : [outcome EXCEPT ![p] = o] \in [Proc -> Outcomes]
  BY DEF TypeOK
<1> QED
  BY <1>1, <1>2, <1>3 DEF Exit

\* A hook that is running has been given an event and a message.
HasJob == \A p \in Proc :
    pc[p] \notin {"idle", "ended"} => job[p].msg \in Msg /\ job[p].event \in Event

LEMMA TypesHold == Spec => [](TypeOK /\ HasJob)
<1>1. Init => TypeOK /\ HasJob
  <2> SUFFICES ASSUME Init PROVE TypeOK /\ HasJob
    OBVIOUS
  <2>1. job \in [Proc -> [event : Event \cup {None}, msg : Msg \cup {None},
                          status : {None, "question", "plan_ready", "task_complete",
                                    "review_complete"},
                          began : 0..MaxTime]]
    BY DEF Init
  <2>2. lastSend \in [msg : Msg \cup {None}, time : 0..MaxTime, at : 0..MaxTime]
    BY DEF Init
  <2>3. copy \in [Proc -> ValidState]
    BY StateFacts DEF Init
  <2>4. pc \in [Proc -> Labels] /\ outcome \in [Proc -> Outcomes]
    BY DEF Init, Labels, Outcomes
  <2>5. op \in [Proc -> {None, "tool", "task", "notify"}] /\ owns \in [Proc -> BOOLEAN]
    BY DEF Init
  <2>6. now \in 1..MaxTime /\ content \in 0..MaxTime /\ stamp \in 0..MaxTime
          /\ lock \in [Event -> 0..MaxTime]
    BY DEF Init
  <2>7. overtaken \subseteq Proc /\ interfered \in BOOLEAN
          /\ file \in State /\ HasJob
    BY StateFacts DEF Init, HasJob
  <2> QED
    BY <2>1, <2>2, <2>3, <2>4, <2>5, <2>6, <2>7 DEF TypeOK
<1>2. TypeOK /\ HasJob /\ [Next]_vars => HasJob'
  <2> SUFFICES ASSUME TypeOK, HasJob, [Next]_vars PROVE HasJob'
    OBVIOUS
  <2>1. ASSUME NEW p \in Proc, Begin(p) PROVE HasJob'
    <3>1. PICK e \in Event, m \in Msg : \E s \in Statuses(e) \cap Status :
             job' = [job EXCEPT ![p] = [event |-> e, status |-> s, msg |-> m, began |-> now]]
      BY <2>1 DEF Begin
    <3>2. /\ job'[p].msg = m /\ job'[p].event = e
          /\ \A q \in Proc \ {p} : job'[q] = job[q] /\ pc'[q] = pc[q]
      BY <2>1, <3>1 DEF Begin, TypeOK, Goto
    <3> QED
      BY <3>2 DEF HasJob
  <2>2. ASSUME NEW p \in Proc, Step(p) PROVE HasJob'
    <3>1. job' = job /\ pc[p] \notin {"idle", "ended"} /\ \A q \in Proc \ {p} : pc'[q] = pc[q]
      BY <2>2 DEF Step, locals, Exit, Goto, TypeOK, EarlyExists, EarlyDuplicate, Classify,
         Filtered, Unfiltered, LockCreated, LockFails, LockRefused, LockExists, LockStale,
         LockRemove, Suppressed, NotSuppressed, CooldownFails, Load, LoadFails, Truncate, Write,
         SaveFails, ContentCreated, ContentError, ContentBusy, ContentExists, ContentStale,
         ContentRemove, Duplicate, NotDuplicate, CheckFails, Send, SendFails, Release, CleanLocks,
         CleanState
    <3> QED
      BY <3>1 DEF HasJob
  <2>3. ASSUME NEW p \in Proc, Crash(p) PROVE HasJob'
    BY <2>3 DEF Crash, HasJob, Goto, TypeOK
  <2>4. CASE Tick \/ UNCHANGED vars
    BY <2>4 DEF Tick, vars, locals, HasJob
  <2> QED
    BY <2>1, <2>2, <2>3, <2>4 DEF Next
<1>3. TypeOK /\ HasJob /\ [Next]_vars => TypeOK'
  <2> SUFFICES ASSUME TypeOK, HasJob, [Next]_vars PROVE TypeOK'
    OBVIOUS
  <2> USE DEF TypeOK, files, locals, history
  <2>1. CASE Tick
    BY <2>1 DEF Tick
  <2>2. ASSUME NEW p \in Proc, Begin(p) PROVE TypeOK'
    <3>1. PICK e \in Event, m \in Msg : \E s \in Statuses(e) \cap Status :
             job' = [job EXCEPT ![p] = [event |-> e, status |-> s, msg |-> m, began |-> now]]
      BY <2>2 DEF Begin
    <3>2. Statuses(e) \subseteq {"question", "plan_ready", "task_complete", "review_complete"}
      BY DEF Statuses
    <3>3. job' \in [Proc -> [event : Event \cup {None}, msg : Msg \cup {None},
             status : {None, "question", "plan_ready", "task_complete", "review_complete"},
             began : 0..MaxTime]]
      BY <3>1, <3>2
    <3> QED
      BY <2>2, <3>3 DEF Begin, Labels, Outcomes, Goto
  <2>3. ASSUME NEW p \in Proc, Step(p) PROVE TypeOK'
    <3>0. /\ {"ended", "earlyAge", "load", "filter", "create", "inspect", "unlink", "recreate", "cooldownAny",
              "cooldownTask", "truncate", "write", "ccreate", "cinspect", "cunlink", "crecreate",
              "check", "send", "release", "cleanLocks", "cleanState"} \subseteq Labels
          /\ {"early", "gone", "filtered", "failed", "locked", "cooldown", "busy", "duplicate",
              "sent", "unsent"} \subseteq Outcomes
      BY DEF Labels, Outcomes, Refusals
    <3>1. CASE EarlyExists(p) \/ EarlyDuplicate(p)
      BY <3>1, <3>0, MoveTypes DEF EarlyExists, EarlyDuplicate
    <3>2. CASE Classify(p)
      BY <3>2, <3>0, MoveTypes DEF Classify
    <3>3. CASE Filtered(p)
      BY <3>3, <3>0, MoveTypes DEF Filtered
    <3>4. CASE Unfiltered(p)
      BY <3>4, <3>0, MoveTypes DEF Unfiltered
    <3>a. \A t \in 0..MaxTime : [lock EXCEPT ![job[p].event] = t] \in [Event -> 0..MaxTime]
      OBVIOUS
    <3>5. CASE LockCreated(p)
      <4>1. AfterLock(p) \in Labels
        BY <3>0 DEF AfterLock
      <4>2. pc' \in [Proc -> Labels]
        BY <3>5, <4>1, MoveTypes DEF LockCreated
      <4>3. op' \in [Proc -> {None, "tool", "task", "notify"}] /\ lock' \in [Event -> 0..MaxTime]
        BY <3>5, <3>a DEF LockCreated
      <4> QED
        BY <3>5, <4>2, <4>3 DEF LockCreated
    <3>6. CASE LockFails(p) \/ LockRefused(p)
      BY <3>6, <3>0, MoveTypes DEF LockFails, LockRefused
    <3>7. CASE LockExists(p)
      BY <3>7, <3>0, MoveTypes DEF LockExists
    <3>8. CASE LockStale(p)
      BY <3>8, <3>0, MoveTypes DEF LockStale
    <3>9. CASE LockRemove(p)
      <4>1. lock' \in [Event -> 0..MaxTime]
        BY <3>9, <3>a DEF LockRemove
      <4> QED
        BY <3>9, <3>0, <4>1, MoveTypes DEF LockRemove
    <3>10. CASE Suppressed(p)
      BY <3>10, <3>0, MoveTypes DEF Suppressed
    <3>11. CASE NotSuppressed(p) \/ CooldownFails(p)
      BY <3>11, <3>0, MoveTypes DEF NotSuppressed, CooldownFails
    <3>12. CASE Load(p)
      <4>1. Current \in ValidState
        BY <3>12, CurrentValid DEF Load
      <4>2. copy' \in [Proc -> ValidState]
        BY <3>12, <4>1, UpdatedState DEF Load
      <4> QED
        BY <3>12, <3>0, <4>2, MoveTypes DEF Load
    <3>13. CASE LoadFails(p)
      <4>1. Updated(p, Blank) \in ValidState
        BY StateFacts, UpdatedState
      <4>2. [copy EXCEPT ![p] = Updated(p, Blank)] \in [Proc -> ValidState]
        BY <4>1
      <4>3. copy' \in [Proc -> ValidState]
               /\ op' \in [Proc -> {None, "tool", "task", "notify"}]
        BY <3>13, <4>2, DropTypes DEF LoadFails
      <4>4. AfterUpdate(p) \in Labels
        BY <3>0 DEF AfterUpdate
      <4> QED
        BY <3>13, <4>3, <4>4, MoveTypes DEF LoadFails
    <3>14. CASE Truncate(p)
      BY <3>14, <3>0, StateFacts, MoveTypes DEF Truncate
    <3>15. CASE Write(p) \/ SaveFails(p)
      <4>1. copy[p] \in State
        BY DEF State
      <4>2. file' \in State /\ stamp' \in 0..MaxTime
        BY <3>15, <4>1, StateFacts DEF Write, SaveFails
      <4>3. copy' \in [Proc -> ValidState]
               /\ op' \in [Proc -> {None, "tool", "task", "notify"}]
        BY <3>15, DropTypes DEF Write, SaveFails, AfterSave
      <4>4. AfterUpdate(p) \in Labels
        BY <3>0 DEF AfterUpdate
      <4>5. overtaken' \subseteq Proc
        BY <3>15 DEF Write, SaveFails, PastCooldown
      <4> QED
        BY <3>15, <4>2, <4>3, <4>4, <4>5, MoveTypes DEF Write, SaveFails
    <3>16. CASE ContentCreated(p)
      BY <3>16, <3>0, MoveTypes DEF ContentCreated
    <3>17. CASE ContentError(p)
      BY <3>17, <3>0, MoveTypes DEF ContentError
    <3>18. CASE ContentBusy(p)
      BY <3>18, <3>0, MoveTypes DEF ContentBusy
    <3>19. CASE ContentExists(p) \/ ContentStale(p)
      BY <3>19, <3>0, MoveTypes DEF ContentExists, ContentStale
    <3>20. CASE ContentRemove(p)
      BY <3>20, <3>0, MoveTypes DEF ContentRemove
    <3>21. CASE Duplicate(p)
      BY <3>21, <3>0, MoveTypes DEF Duplicate
    <3>22. CASE NotDuplicate(p) \/ CheckFails(p)
      BY <3>22, <3>0, MoveTypes DEF NotDuplicate, CheckFails
    <3>23. CASE Send(p) \/ SendFails(p)
      <4>1. copy' \in [Proc -> ValidState]
               /\ op' \in [Proc -> {None, "tool", "task", "notify"}]
        BY <3>23, DropTypes DEF Send, SendFails
      <4>2. copy[p].time \in 0..MaxTime
        BY DEF ValidState
      <4>3. job[p].msg \in Msg
        BY <3>23 DEF Send, SendFails, HasJob
      <4>4. [msg |-> job[p].msg, time |-> copy[p].time, at |-> now]
              \in [msg : Msg \cup {None}, time : 0..MaxTime, at : 0..MaxTime]
        BY <4>2, <4>3
      <4>5. lastSend' \in [msg : Msg \cup {None}, time : 0..MaxTime, at : 0..MaxTime]
        BY <3>23, <4>4 DEF Send, SendFails
      <4>6. pc' \in [Proc -> Labels]
        BY <3>23, <3>0, MoveTypes DEF Send, SendFails
      <4>7. outcome' \in [Proc -> Outcomes]
        <5>1. \A o \in Outcomes : [outcome EXCEPT ![p] = o] \in [Proc -> Outcomes]
          OBVIOUS
        <5> QED  BY <3>23, <3>0, <5>1 DEF Send, SendFails
      <4> QED
        BY <3>23, <4>1, <4>5, <4>6, <4>7 DEF Send, SendFails
    <3>24. CASE Release(p)
      BY <3>24, <3>0, MoveTypes DEF Release
    <3>25. CASE CleanLocks(p)
      <4>1. lock' \in [Event -> 0..MaxTime] /\ content' \in 0..MaxTime
        BY <3>25 DEF CleanLocks
      <4> QED
        BY <3>25, <3>0, <4>1, MoveTypes DEF CleanLocks
    <3>26. CASE CleanState(p)
      BY <3>26, <3>0, StateFacts, MoveTypes DEF CleanState
    <3> QED
      BY <2>3, <3>1, <3>2, <3>3, <3>4, <3>5, <3>6, <3>7, <3>8, <3>9, <3>10, <3>11, <3>12,
         <3>13, <3>14, <3>15, <3>16, <3>17, <3>18, <3>19, <3>20, <3>21, <3>22, <3>23, <3>24,
         <3>25, <3>26 DEF Step
  <2>4. ASSUME NEW p \in Proc, Crash(p) PROVE TypeOK'
    <3>1. copy' \in [Proc -> ValidState]
             /\ op' \in [Proc -> {None, "tool", "task", "notify"}]
      BY <2>4, DropTypes DEF Crash
    <3> QED
      BY <2>4, <3>1 DEF Crash, Labels, Outcomes, Goto
  <2>5. CASE UNCHANGED vars
    BY <2>5 DEF vars
  <2> QED
    BY <2>1, <2>2, <2>3, <2>4, <2>5 DEF Next
<1> QED
  BY <1>1, <1>2, <1>3, PTL DEF Spec

\* Type correctness: files, processes and history keep their types, and a state file
\* that can be neither read nor found is the empty one a cut-off write leaves.
THEOREM TypeCorrect == Spec => []TypeOK
  BY TypesHold, PTL

-----------------------------------------------------------------------------
\* What makes DuplicateWasSent inductive: the message in the state file, and in a copy
\* of it about to be saved, is that of a hook that has recorded it and is about to send
\* it or has been through that, unless the copy is that of a hook recording its own.
Ending == {"release", "cleanLocks", "cleanState", "ended"}
Decided == \A q \in Proc : outcome[q] # None => pc[q] \in Ending
Recorder(q, m) == job[q].msg = m /\ (pc[q] = "send" \/ outcome[q] \in {"sent", "unsent"})
Known(m) == \E q \in Proc : Recorder(q, m)
KnownNext(m) ==
    \E q \in Proc : job'[q].msg = m /\ (pc'[q] = "send" \/ outcome'[q] \in {"sent", "unsent"})
FileKnown == file.kind = "valid" /\ file.time # 0 => Known(file.msg)
CopyKnown == \A q \in Proc : pc[q] \in {"truncate", "write"} =>
    IF op[q] \in {"tool", "task"}
    THEN copy[q].time # 0 => Known(copy[q].msg)
    ELSE copy[q].msg = job[q].msg
DuplicatesKnown == \A q \in Proc : outcome[q] = "duplicate" => Known(job[q].msg)
DuplicateInv == Decided /\ FileKnown /\ CopyKnown /\ DuplicatesKnown

\* A process's step leaves the others where they are.
LEMMA OthersStay ==
  ASSUME TypeOK, NEW p \in Proc, Begin(p) \/ Step(p) \/ Crash(p), NEW q \in Proc \ {p}
  PROVE  /\ pc'[q] = pc[q] /\ job'[q] = job[q] /\ op'[q] = op[q]
         /\ copy'[q] = copy[q] /\ outcome'[q] = outcome[q]
<1> USE DEF TypeOK, Goto, Exit, locals
<1>1. CASE Begin(p) \/ Crash(p)
  BY <1>1 DEF Begin, Crash, Drop
<1>2. CASE EarlyExists(p) \/ EarlyDuplicate(p) \/ Classify(p) \/ Filtered(p) \/ Unfiltered(p)
  BY <1>2 DEF EarlyExists, EarlyDuplicate, Classify, Filtered, Unfiltered
<1>3. CASE LockCreated(p) \/ LockFails(p) \/ LockRefused(p) \/ LockExists(p) \/ LockStale(p)
           \/ LockRemove(p)
  BY <1>3 DEF LockCreated, LockFails, LockRefused, LockExists, LockStale, LockRemove
<1>4. CASE Suppressed(p) \/ NotSuppressed(p) \/ CooldownFails(p)
  BY <1>4 DEF Suppressed, NotSuppressed, CooldownFails
<1>5. CASE Load(p) \/ LoadFails(p) \/ Truncate(p) \/ Write(p) \/ SaveFails(p)
  BY <1>5 DEF Load, LoadFails, Truncate, Write, SaveFails, AfterSave, Drop
<1>6. CASE ContentCreated(p) \/ ContentError(p) \/ ContentBusy(p) \/ ContentExists(p)
           \/ ContentStale(p) \/ ContentRemove(p)
  BY <1>6 DEF ContentCreated, ContentError, ContentBusy, ContentExists, ContentStale,
     ContentRemove
<1>7. CASE Duplicate(p) \/ NotDuplicate(p) \/ CheckFails(p) \/ Send(p) \/ SendFails(p)
           \/ Release(p)
  BY <1>7 DEF Duplicate, NotDuplicate, CheckFails, Send, SendFails, Release, Drop
<1>8. CASE CleanLocks(p) \/ CleanState(p)
  BY <1>8 DEF CleanLocks, CleanState
<1> QED
  BY <1>1, <1>2, <1>3, <1>4, <1>5, <1>6, <1>7, <1>8 DEF Step

\* What a process's step does to the state file, to its copy and to its outcome.
LEMMA OwnStep ==
  ASSUME TypeOK, Decided, NEW p \in Proc, Step(p)
  PROVE  /\ job' = job
         /\ file' = file \/ Truncate(p) \/ Write(p) \/ SaveFails(p) \/ CleanState(p)
         /\ pc'[p] \in {"truncate", "write"} => Load(p) \/ Truncate(p)
         /\ outcome'[p] = "duplicate" => outcome[p] = "duplicate" \/ Duplicate(p)
         /\ outcome[p] # None => outcome'[p] = outcome[p]
         /\ outcome'[p] # None => pc'[p] \in Ending
         /\ pc[p] = "send" => outcome'[p] \in {"sent", "unsent"}
<1> USE DEF TypeOK, Decided, Ending, Goto, Exit, locals, files, history, None
<1>1. CASE EarlyExists(p) \/ EarlyDuplicate(p) \/ Classify(p) \/ Filtered(p) \/ Unfiltered(p)
  BY <1>1 DEF EarlyExists, EarlyDuplicate, Classify, Filtered, Unfiltered
<1>2. CASE LockCreated(p)
  BY <1>2 DEF LockCreated, AfterLock
<1>3. CASE LockFails(p) \/ LockRefused(p) \/ LockExists(p) \/ LockStale(p) \/ LockRemove(p)
  BY <1>3 DEF LockFails, LockRefused, LockExists, LockStale, LockRemove
<1>4. CASE Suppressed(p) \/ NotSuppressed(p) \/ CooldownFails(p)
  BY <1>4 DEF Suppressed, NotSuppressed, CooldownFails
<1>5. CASE Load(p)
  BY <1>5 DEF Load
<1>6. CASE LoadFails(p)
  BY <1>6 DEF LoadFails, AfterUpdate
<1>7. CASE Truncate(p)
  BY <1>7 DEF Truncate
<1>8. CASE Write(p) \/ SaveFails(p)
  BY <1>8 DEF Write, SaveFails, AfterUpdate
<1>9. CASE ContentCreated(p) \/ ContentError(p) \/ ContentBusy(p)
  BY <1>9 DEF ContentCreated, ContentError, ContentBusy
<1>10. CASE ContentExists(p) \/ ContentStale(p) \/ ContentRemove(p)
  BY <1>10 DEF ContentExists, ContentStale, ContentRemove
<1>11. CASE Duplicate(p) \/ NotDuplicate(p) \/ CheckFails(p)
  BY <1>11 DEF Duplicate, NotDuplicate, CheckFails
<1>12. CASE Send(p) \/ SendFails(p) \/ Release(p)
  BY <1>12 DEF Send, SendFails, Release
<1>13. CASE CleanLocks(p) \/ CleanState(p)
  BY <1>13 DEF CleanLocks, CleanState
<1> QED
  BY <1>1, <1>2, <1>3, <1>4, <1>5, <1>6, <1>7, <1>8, <1>9, <1>10, <1>11, <1>12, <1>13
     DEF Step

\* A killed hook keeps an outcome it had; killed at its send, it has failed to send.
LEMMA CrashStep ==
  ASSUME TypeOK, Decided, NEW p \in Proc, Crash(p)
  PROVE  /\ UNCHANGED <<now, files, job, history>> /\ pc'[p] = "ended" /\ op'[p] = None
         /\ copy'[p] = Blank
         /\ outcome'[p] = IF outcome[p] # None THEN outcome[p]
                          ELSE IF pc[p] = "send" THEN "unsent" ELSE "crashed"
         /\ pc[p] = "send" => outcome'[p] = "unsent"
  BY DEF Crash, Decided, Ending, Goto, Drop, TypeOK

LEMMA DecidedStep ==
  ASSUME TypeOK, Decided, NEW p \in Proc, Begin(p) \/ Step(p) \/ Crash(p)
  PROVE  Decided'
<1>1. \A q \in Proc \ {p} : pc'[q] = pc[q] /\ outcome'[q] = outcome[q]
  BY OthersStay
<1>2. outcome'[p] # None => pc'[p] \in Ending
  BY OwnStep, CrashStep DEF Begin, Decided, Ending
<1> QED  BY <1>1, <1>2 DEF Decided

LEMMA KnownStays ==
  ASSUME TypeOK, Decided, NEW p \in Proc, Begin(p) \/ Step(p) \/ Crash(p)
  PROVE  \A m : Known(m) => KnownNext(m)
<1> SUFFICES ASSUME NEW m, NEW q \in Proc, Recorder(q, m) PROVE KnownNext(m)
  BY DEF Known
<1>1. CASE q # p
  BY <1>1, OthersStay DEF KnownNext, Recorder
<1>2. CASE q = p /\ Begin(p)
  BY <1>2 DEF Begin, Recorder, Decided, Ending, None
<1>3. CASE q = p /\ (Step(p) \/ Crash(p))
  <2>1. outcome'[p] \in {"sent", "unsent"} /\ job' = job
    BY <1>3, OwnStep, CrashStep DEF Recorder, None
  <2> QED  BY <2>1, <1>3 DEF KnownNext, Recorder
<1> QED  BY <1>1, <1>2, <1>3

LEMMA FileKnownStep ==
  ASSUME TypeOK, DuplicateInv, NEW p \in Proc, Step(p)
  PROVE  FileKnown'
<1> SUFFICES ASSUME file'.kind = "valid", file'.time # 0
             PROVE  KnownNext(file'.msg)
  BY DEF FileKnown, Known, KnownNext, Recorder
<1>k. \A m : Known(m) => KnownNext(m)
  BY KnownStays DEF DuplicateInv
<1>2. CASE file' = file
  BY <1>2, <1>k DEF DuplicateInv, FileKnown
<1>3. CASE Truncate(p) \/ CleanState(p) \/ (SaveFails(p) /\ file' # file)
  BY <1>3 DEF Truncate, CleanState, SaveFails, Corrupt, Missing, Blank
<1>4. CASE Write(p) /\ file' = copy[p]
  <2>1. CASE op[p] \in {"tool", "task"}
    <3>1. Known(copy[p].msg)
      BY <1>4, <2>1 DEF DuplicateInv, CopyKnown, Write
    <3> QED
      BY <1>4, <3>1, <1>k
  <2>2. CASE op[p] \notin {"tool", "task"}
    <3>1. copy[p].msg = job[p].msg
      BY <1>4, <2>2 DEF DuplicateInv, CopyKnown, Write
    <3>2. pc'[p] = "send" /\ job' = job
      BY <1>4, <2>2, OwnStep DEF Write, AfterUpdate, Goto, TypeOK, DuplicateInv
    <3> QED
      BY <1>4, <3>1, <3>2 DEF KnownNext
  <2> QED
    BY <2>1, <2>2
<1>5. CASE Write(p) /\ file' # copy[p] /\ file' # file
  BY <1>5 DEF Write, Corrupt, Blank
<1> QED
  BY <1>2, <1>3, <1>4, <1>5, OwnStep DEF DuplicateInv

LEMMA CopyKnownStep ==
  ASSUME TypeOK, DuplicateInv, NEW p \in Proc, Step(p)
  PROVE  CopyKnown'
<1> SUFFICES ASSUME NEW q \in Proc, pc'[q] \in {"truncate", "write"}
             PROVE  IF op'[q] \in {"tool", "task"}
                    THEN copy'[q].time # 0 => KnownNext(copy'[q].msg)
                    ELSE copy'[q].msg = job'[q].msg
  BY DEF CopyKnown, Known, KnownNext, Recorder
<1>1. job' = job /\ \A m : Known(m) => KnownNext(m)
  BY OwnStep, KnownStays DEF DuplicateInv
<1>2. CASE q # p
  BY <1>1, <1>2, OthersStay DEF DuplicateInv, CopyKnown
<1>3. CASE q = p /\ Truncate(p)
  <2>1. pc[p] = "truncate" /\ op' = op /\ copy' = copy
    BY <1>3 DEF Truncate, locals
  <2> QED
    BY <1>1, <1>3, <2>1 DEF DuplicateInv, CopyKnown
<1>4. CASE q = p /\ Load(p)
  <2>1. op' = op /\ copy'[p] = Updated(p, Current) /\ file # Corrupt
    BY <1>4 DEF Load, TypeOK
  <2>2. Current \in ValidState
    BY <2>1, CurrentValid
  <2>3. CASE op[p] \in {"tool", "task"}
    <3>1. copy'[p].msg = Current.msg /\ copy'[p].time = Current.time
      BY <2>1, <2>2, <2>3 DEF Updated, ValidState
    <3>2. Current.time # 0 => Known(Current.msg)
      BY <2>2, StateFacts DEF Current, DuplicateInv, FileKnown, ValidState
    <3> QED
      BY <1>1, <1>4, <2>1, <2>3, <3>1, <3>2
  <2>4. CASE op[p] \notin {"tool", "task"}
    <3>1. copy'[p].msg = job[p].msg
      BY <2>1, <2>2, <2>4 DEF Updated, ValidState
    <3> QED
      BY <1>1, <1>4, <2>1, <2>4, <3>1
  <2> QED
    BY <2>3, <2>4
<1> QED
  BY <1>2, <1>3, <1>4, OwnStep DEF DuplicateInv

LEMMA DuplicateStep ==
  ASSUME TypeOK, DuplicateInv, NEW p \in Proc, Begin(p) \/ Step(p) \/ Crash(p)
  PROVE  DuplicatesKnown'
<1> SUFFICES ASSUME NEW q \in Proc, outcome'[q] = "duplicate"
             PROVE  KnownNext(job'[q].msg)
  BY DEF DuplicatesKnown, Known, KnownNext, Recorder
<1>k. \A m : Known(m) => KnownNext(m)
  BY KnownStays DEF DuplicateInv
<1>1. CASE outcome[q] = "duplicate" /\ job'[q] = job[q]
  BY <1>1, <1>k DEF DuplicateInv, DuplicatesKnown
<1>2. CASE q = p /\ Step(p) /\ Duplicate(p)
  <2>1. Known(job[p].msg) /\ job' = job
    BY <1>2, OwnStep DEF Duplicate, IsDuplicate, DuplicateInv, FileKnown
  <2> QED
    BY <1>2, <2>1, <1>k
<1>3. CASE q = p /\ Begin(p)
  BY <1>3 DEF Begin, DuplicateInv, Decided, Ending, None
<1>4. CASE q = p /\ (Step(p) \/ Crash(p))
  BY <1>4, <1>1, <1>2, OwnStep, CrashStep DEF DuplicateInv
<1> QED
  BY <1>1, <1>3, <1>4, OthersStay

LEMMA DuplicateInvStep ==
  ASSUME TypeOK, DuplicateInv, [Next]_vars
  PROVE  DuplicateInv'
<1>1. ASSUME NEW p \in Proc, Begin(p) \/ Step(p) \/ Crash(p) PROVE Decided' /\ DuplicatesKnown'
  BY <1>1, DecidedStep, DuplicateStep DEF DuplicateInv
<1>2. ASSUME NEW p \in Proc, Step(p) PROVE FileKnown' /\ CopyKnown'
  BY <1>2, FileKnownStep, CopyKnownStep DEF DuplicateInv
<1>3. ASSUME NEW p \in Proc, Begin(p) \/ Crash(p) PROVE FileKnown' /\ CopyKnown'
  <2>1. file' = file /\ pc'[p] \notin {"truncate", "write"}
    BY <1>3, CrashStep DEF Begin, files, TypeOK, Goto, DuplicateInv
  <2>2. \A m : Known(m) => KnownNext(m)
    BY <1>3, KnownStays DEF DuplicateInv
  <2>3. FileKnown'
    <3> SUFFICES ASSUME file'.kind = "valid", file'.time # 0 PROVE KnownNext(file'.msg)
      BY DEF FileKnown, Known, KnownNext, Recorder
    <3> QED
      BY <2>1, <2>2 DEF DuplicateInv, FileKnown
  <2>4. CopyKnown'
    <3> SUFFICES ASSUME NEW q \in Proc, pc'[q] \in {"truncate", "write"}
                 PROVE  IF op'[q] \in {"tool", "task"}
                        THEN copy'[q].time # 0 => KnownNext(copy'[q].msg)
                        ELSE copy'[q].msg = job'[q].msg
      BY DEF CopyKnown, Known, KnownNext, Recorder
    <3>1. q # p
      BY <2>1
    <3> QED
      BY <1>3, <2>2, <3>1, OthersStay DEF DuplicateInv, CopyKnown
  <2> QED
    BY <2>3, <2>4
<1>4. CASE Tick \/ UNCHANGED vars
  BY <1>4 DEF Tick, vars, files, locals, history, DuplicateInv, Decided, FileKnown, CopyKnown,
     DuplicatesKnown, Known, Recorder
<1> QED
  BY <1>1, <1>2, <1>3, <1>4 DEF Next, DuplicateInv

\* The message record is written before the notification is sent, by unlocked
\* read-modify-write cycles that overlap, fail and lose each other's updates.  Even so,
\* a hook drops its message as a duplicate only of one that another hook recorded and
\* is about to send, has sent, or could not send.
THEOREM DuplicateIsCovered == Spec => []DuplicateWasSent
<1>1. Init => DuplicateInv
  BY DEF Init, DuplicateInv, Decided, FileKnown, CopyKnown, DuplicatesKnown, Missing, Blank, None
<1>2. TypeOK /\ DuplicateInv /\ [Next]_vars => DuplicateInv'
  BY DuplicateInvStep
<1>3. DuplicateInv => DuplicateWasSent
  <2> SUFFICES ASSUME DuplicateInv, NEW p \in Proc, outcome[p] = "duplicate"
               PROVE  \E q \in Proc \ {p} : Recorder(q, job[p].msg)
    BY DEF DuplicateWasSent, Recorder
  <2>1. PICK q \in Proc : Recorder(q, job[p].msg)
    BY DEF DuplicateInv, DuplicatesKnown, Known
  <2>2. q # p
    BY <2>1 DEF Recorder, DuplicateInv, Decided, Ending, None
  <2> QED  BY <2>1, <2>2
<1> QED
  BY <1>1, <1>2, <1>3, TypeCorrect, PTL DEF Spec


-----------------------------------------------------------------------------
\* The clock orders what the files and the hooks say: no time that was written down is
\* in the future, a lock that a hook finds in the place of the one it removed is younger
\* than the hook, and a state update is one of the three.
TimesPast ==
    /\ content <= now /\ \A e \in Event : lock[e] <= now
    /\ file.time <= now /\ file.task <= now /\ lastSend.time <= now
    /\ \A q \in Proc : copy[q].time <= now /\ copy[q].task <= now /\ job[q].began <= now
RetriesLater == \A q \in Proc :
    /\ pc[q] = "recreate" /\ lock[job[q].event] # 0 => lock[job[q].event] >= job[q].began
    /\ pc[q] = "crecreate" /\ content # 0 => content >= job[q].began
Writer(q) == pc[q] \in {"truncate", "write"}
HasOp == \A q \in Proc : pc[q] = "load" \/ Writer(q) => op[q] # None
ClockInv == TimesPast /\ RetriesLater /\ HasOp

LEMMA Times ==
  ASSUME TypeOK
  PROVE  /\ now \in Nat /\ now # 0 /\ stamp \in Nat /\ MaxAge \in Nat /\ Window \in Nat
         /\ LockTTL \in Nat /\ ContentTTL \in Nat /\ CooldownAny \in Nat /\ CooldownTask \in Nat
         /\ Horizon \in Nat /\ Horizon <= MaxAge /\ Horizon <= Window
         /\ file.time \in Nat /\ file.task \in Nat /\ lastSend.time \in Nat /\ lastSend.at \in Nat
         /\ content \in Nat /\ \A e \in Event : lock[e] \in Nat
         /\ \A q \in Proc : copy[q].time \in Nat /\ copy[q].task \in Nat /\ job[q].began \in Nat
<1>1. now \in Nat /\ now # 0 /\ stamp \in Nat /\ MaxTime \in Nat /\ content \in Nat
  BY DEF TypeOK
<1>a. /\ MaxAge \in Nat /\ Window \in Nat /\ LockTTL \in Nat
      /\ ContentTTL \in Nat /\ CooldownAny \in Nat /\ CooldownTask \in Nat
  BY TimesAssumption
<1>2. Horizon \in Nat /\ Horizon <= MaxAge /\ Horizon <= Window
  BY <1>a DEF Horizon
<1>3. file.time \in Nat /\ file.task \in Nat
  BY <1>1 DEF TypeOK, State, ValidState, Missing, Corrupt, Blank
<1>4. lastSend.time \in Nat /\ lastSend.at \in Nat
  BY <1>1 DEF TypeOK
<1>5. \A q \in Proc : copy[q].time \in Nat /\ copy[q].task \in Nat
  BY <1>1 DEF TypeOK, ValidState
<1>6. \A q \in Proc : job[q].began \in Nat
  BY <1>1 DEF TypeOK
<1>7. \A e \in Event : lock[e] \in Nat
  BY <1>1 DEF TypeOK
<1> QED  BY <1>1, <1>a, <1>2, <1>3, <1>4, <1>5, <1>6, <1>7

\* What a process's step does to the clock, to the locks and to its retries.
LEMMA LockMoves ==
  ASSUME TypeOK, HasJob, NEW p \in Proc, Step(p)
  PROVE  /\ now' = now /\ job' = job /\ (interfered => interfered')
         /\ \A e \in Event : lock'[e] \in {lock[e], 0, now}
         /\ content' \in {content, 0, now}
         /\ pc'[p] = "recreate" => lock'[job[p].event] = 0
         /\ pc'[p] = "crecreate" => content' = 0
         /\ pc'[p] = "load" => op'[p] # None
<1> USE DEF TypeOK, HasJob, Goto, Exit, locals, files, history, None
<1>1. CASE EarlyExists(p) \/ EarlyDuplicate(p) \/ Classify(p) \/ Filtered(p) \/ Unfiltered(p)
  BY <1>1 DEF EarlyExists, EarlyDuplicate, Classify, Filtered, Unfiltered
<1>2. CASE LockCreated(p)
  BY <1>2 DEF LockCreated, AfterLock
<1>3. CASE LockFails(p) \/ LockRefused(p) \/ LockExists(p) \/ LockStale(p) \/ LockRemove(p)
  BY <1>3 DEF LockFails, LockRefused, LockExists, LockStale, LockRemove
<1>4. CASE Suppressed(p) \/ NotSuppressed(p) \/ CooldownFails(p)
  BY <1>4 DEF Suppressed, NotSuppressed, CooldownFails
<1>5. CASE Load(p) \/ LoadFails(p)
  BY <1>5 DEF Load, LoadFails, AfterUpdate
<1>7. CASE Truncate(p)
  BY <1>7 DEF Truncate
<1>8. CASE Write(p) \/ SaveFails(p)
  BY <1>8 DEF Write, SaveFails, AfterUpdate
<1>9. CASE ContentCreated(p) \/ ContentError(p) \/ ContentBusy(p)
  BY <1>9 DEF ContentCreated, ContentError, ContentBusy
<1>10. CASE ContentExists(p) \/ ContentStale(p) \/ ContentRemove(p)
  BY <1>10 DEF ContentExists, ContentStale, ContentRemove
<1>11. CASE Duplicate(p) \/ NotDuplicate(p) \/ CheckFails(p)
  BY <1>11 DEF Duplicate, NotDuplicate, CheckFails
<1>12. CASE Send(p) \/ SendFails(p) \/ Release(p)
  BY <1>12 DEF Send, SendFails, Release
<1>13. CASE CleanLocks(p) \/ CleanState(p)
  BY <1>13 DEF CleanLocks, CleanState
<1> QED
  BY <1>1, <1>2, <1>3, <1>4, <1>5, <1>7, <1>8, <1>9, <1>10, <1>11, <1>12, <1>13 DEF Step

LEMMA StateMoves ==
  ASSUME TypeOK, HasJob, Decided, NEW p \in Proc, Step(p)
  PROVE  /\ file' \in {file, Corrupt, Missing, copy[p]}
         /\ \/ copy'[p] \in {copy[p], Blank, Updated(p, Blank)}
            \/ file # Corrupt /\ copy'[p] = Updated(p, Current)
         /\ lastSend' = lastSend \/ (lastSend'.time = copy[p].time /\ lastSend'.at = now)
         /\ pc'[p] \in {"truncate", "write"} => op'[p] = op[p] /\ pc[p] \in {"load", "truncate"}
<1>1. file' \in {file, Corrupt, Missing, copy[p]}
  BY OwnStep DEF Truncate, Write, SaveFails, CleanState
<1>2. pc'[p] \in {"truncate", "write"} => op'[p] = op[p] /\ pc[p] \in {"load", "truncate"}
  BY OwnStep DEF Load, Truncate, locals
<1> USE DEF TypeOK, Goto, Exit, locals, files, history
<1>3. CASE Load(p) \/ LoadFails(p) \/ Write(p) \/ SaveFails(p) \/ Send(p) \/ SendFails(p)
  BY <1>1, <1>2, <1>3 DEF Load, LoadFails, Write, SaveFails, AfterSave, Send, SendFails, Drop
<1>4. CASE UNCHANGED <<copy, lastSend>>
  BY <1>1, <1>2, <1>4
<1>5. CASE EarlyExists(p) \/ EarlyDuplicate(p) \/ Classify(p) \/ Filtered(p) \/ Unfiltered(p)
           \/ LockCreated(p) \/ LockFails(p) \/ LockRefused(p) \/ LockExists(p) \/ LockStale(p)
           \/ LockRemove(p)
  BY <1>5, <1>4 DEF EarlyExists, EarlyDuplicate, Classify, Filtered, Unfiltered, LockCreated,
     LockFails, LockRefused, LockExists, LockStale, LockRemove
<1>6. CASE Suppressed(p) \/ NotSuppressed(p) \/ CooldownFails(p) \/ Truncate(p)
           \/ ContentCreated(p) \/ ContentError(p) \/ ContentBusy(p) \/ ContentExists(p)
           \/ ContentStale(p) \/ ContentRemove(p)
  BY <1>6, <1>4 DEF Suppressed, NotSuppressed, CooldownFails, Truncate, ContentCreated,
     ContentError, ContentBusy, ContentExists, ContentStale, ContentRemove
<1>7. CASE Duplicate(p) \/ NotDuplicate(p) \/ CheckFails(p) \/ Release(p) \/ CleanLocks(p)
           \/ CleanState(p)
  BY <1>7, <1>4 DEF Duplicate, NotDuplicate, CheckFails, Release, CleanLocks, CleanState
<1> QED  BY <1>3, <1>5, <1>6, <1>7 DEF Step

LEMMA TimesStep ==
  ASSUME TypeOK, HasJob, Decided, TimesPast, NEW p \in Proc, Step(p)
  PROVE  TimesPast'
<1>1. now' = now /\ now \in Nat /\ job' = job
  BY LockMoves, Times
<1>2. /\ Blank.time = 0 /\ Missing.time = 0 /\ Corrupt.time = 0
      /\ Blank.task = 0 /\ Missing.task = 0 /\ Corrupt.task = 0
  BY DEF Blank, Missing, Corrupt
<1>3. \A x \in ValidState : x.time <= now /\ x.task <= now =>
         Updated(p, x).time <= now /\ Updated(p, x).task <= now
  BY <1>1 DEF Updated, ValidState
<1>4. /\ Blank \in ValidState
      /\ file # Corrupt => Current \in ValidState /\ Current.time <= now /\ Current.task <= now
  BY StateFacts, CurrentValid, <1>1, <1>2 DEF Current, TimesPast
<1>5. /\ copy'[p].time <= now /\ copy'[p].task <= now /\ file'.time <= now /\ file'.task <= now
      /\ lastSend'.time <= now
  BY <1>1, <1>2, <1>3, <1>4, StateMoves DEF TimesPast
<1>6. \A q \in Proc \ {p} : copy'[q] = copy[q]
  BY OthersStay
<1>7. content' <= now /\ \A e \in Event : lock'[e] <= now
  BY <1>1, LockMoves DEF TimesPast
<1> QED  BY <1>1, <1>5, <1>6, <1>7 DEF TimesPast

LEMMA RetriesStep ==
  ASSUME TypeOK, HasJob, TimesPast, RetriesLater, NEW p \in Proc, Step(p)
  PROVE  RetriesLater'
<1> SUFFICES ASSUME NEW q \in Proc
             PROVE  /\ pc'[q] = "recreate" /\ lock'[job[q].event] # 0
                         => lock'[job[q].event] >= job[q].began
                    /\ pc'[q] = "crecreate" /\ content' # 0 => content' >= job[q].began
  BY LockMoves DEF RetriesLater
<1>1. CASE q = p
  BY <1>1, LockMoves
<1>2. CASE q # p
  <2>1. pc'[q] = pc[q] /\ now \in Nat /\ job[q].began <= now
    BY <1>2, OthersStay, Times DEF TimesPast
  <2>2. content' \in {content, 0, now}
    BY LockMoves
  <2>3. ASSUME pc[q] = "recreate" PROVE lock'[job[q].event] \in {lock[job[q].event], 0, now}
    <3>1. job[q].event \in Event
      BY <2>3 DEF HasJob
    <3> QED  BY <3>1, LockMoves
  <2> QED  BY <2>1, <2>2, <2>3 DEF RetriesLater
<1> QED  BY <1>1, <1>2

LEMMA ClockInvStep ==
  ASSUME TypeOK, HasJob, Decided, ClockInv, [Next]_vars
  PROVE  ClockInv'
<1>1. ASSUME NEW p \in Proc, Step(p) PROVE ClockInv'
  <2>1. TimesPast' /\ RetriesLater'
    BY <1>1, TimesStep, RetriesStep DEF ClockInv
  <2>2. HasOp'
    BY <1>1, OthersStay, LockMoves, StateMoves DEF ClockInv, HasOp, Writer
  <2> QED  BY <2>1, <2>2 DEF ClockInv
<1>2. ASSUME NEW p \in Proc, Begin(p) PROVE ClockInv'
  <2>1. /\ UNCHANGED <<now, files, op, copy, lastSend>> /\ pc'[p] = "early"
        /\ job'[p].began = now /\ \A q \in Proc \ {p} : pc'[q] = pc[q] /\ job'[q] = job[q]
    BY <1>2 DEF Begin, Goto, TypeOK, history
  <2> QED  BY <2>1, Times DEF ClockInv, TimesPast, RetriesLater, HasOp, Writer, files
<1>3. ASSUME NEW p \in Proc, Crash(p) PROVE ClockInv'
  <2>1. /\ UNCHANGED <<now, files, job, lastSend>> /\ pc'[p] = "ended" /\ copy'[p] = Blank
        /\ \A q \in Proc \ {p} : pc'[q] = pc[q] /\ copy'[q] = copy[q] /\ op'[q] = op[q]
    BY <1>3, CrashStep, OthersStay DEF history
  <2> QED  BY <2>1, Times DEF ClockInv, TimesPast, RetriesLater, HasOp, Writer, files, Blank
<1>4. CASE Tick
  <2>1. now' = now + 1 /\ UNCHANGED <<files, pc, locals, lastSend>>
    BY <1>4 DEF Tick, history
  <2> QED  BY <2>1, Times DEF ClockInv, TimesPast, RetriesLater, HasOp, Writer, files, locals
<1>5. CASE UNCHANGED vars
  BY <1>5 DEF vars, files, locals, history, ClockInv, TimesPast, RetriesLater, HasOp, Writer
<1> QED  BY <1>1, <1>2, <1>3, <1>4, <1>5 DEF Next

-----------------------------------------------------------------------------
\* What makes RefusalsAnswered inductive: the way of a hook behind the event lock, from
\* its end, and how far back it lies.  A hook past the duplicate check sends; one in the
\* check sends, or drops its message for one sent up to Window before; one that contends
\* for the content lock goes on, or loses it to one that was in the check up to
\* ContentTTL before; one in the cooldowns goes on, or is suppressed by the record of a
\* notification or of a task.
Sender(q) == \/ pc[q] = "send"
             \/ pc[q] \in {"load", "truncate", "write"} /\ op[q] \notin {"tool", "task"}
Contending(q) == \/ pc[q] \in {"ccreate", "cinspect", "cunlink", "crecreate"}
                 \/ pc[q] \in {"load", "truncate", "write"} /\ op[q] = "task"
Cooling(q) == pc[q] \in {"cooldownAny", "cooldownTask"}
\* Contending, and not about to lose to a lock of before t.
Waits(q, t) == Contending(q) /\ (pc[q] = "crecreate" /\ content # 0 => content >= t)

\* A notification is sent at t or later, or is under way; the same from further back.
WillSend(t) == (lastSend.at # 0 /\ lastSend.at >= t) \/ \E q \in Proc : Sender(q)
WillCheck(t) == (\E q \in Proc : pc[q] = "check") \/ WillSend(t - Window)
WillContend(t) == (\E q \in Proc : Waits(q, t)) \/ WillCheck(t - ContentTTL)
WillCool(t) == \/ \E q \in Proc : Cooling(q)
               \/ WillContend(t) \/ WillContend(t - CooldownTask) \/ WillSend(t - CooldownAny)

Lost == \E q \in Proc : outcome[q] \in {"unsent", "crashed"}

\* What a lock, a record or an outcome says of that way.
ContentMeans == \A t \in Nat : t # 0 /\ content = t => WillCheck(t)
LockMeans == \A e \in Event : \A t \in Nat : t # 0 /\ lock[e] = t => WillCool(t)
FileMeans == file.kind = "valid" => \A t \in Nat : t # 0 =>
    (file.time = t => WillSend(t)) /\ (file.task = t => WillContend(t))
CopyMeans(q) == Writer(q) => \A t \in Nat : t # 0 =>
    (copy[q].time = t => WillSend(t)) /\ (copy[q].task = t => WillContend(t))
RefusalMeans(q) == outcome[q] \in Refusals =>
    \A t \in Int : t = job[q].began - LockTTL + 1 => WillCool(t)

AnswerInv ==
    ~Lost => /\ ContentMeans /\ LockMeans /\ FileMeans
             /\ \A q \in Proc : CopyMeans(q) /\ RefusalMeans(q)

\* What was sent later was sent since.
LEMMA WayEarlier ==
  ASSUME TypeOK, NEW s \in Int, NEW t \in Int, s <= t
  PROVE  /\ WillSend(t) => WillSend(s)
         /\ WillCheck(t) => WillCheck(s)
         /\ WillContend(t) => WillContend(s)
         /\ WillCool(t) => WillCool(s)
<1>1. /\ lastSend.at \in Nat /\ Window \in Nat /\ ContentTTL \in Nat /\ content \in Nat
  BY Times
<1>2. \A x, y \in Int : x <= y /\ WillSend(y) => WillSend(x)
  BY <1>1 DEF WillSend
<1>3. \A x, y \in Int : x <= y /\ WillCheck(y) => WillCheck(x)
  BY <1>1, <1>2 DEF WillCheck
<1>4. \A x, y \in Int : x <= y /\ WillContend(y) => WillContend(x)
  BY <1>1, <1>3 DEF WillContend, Waits
<1>5. /\ CooldownAny \in Nat /\ s - CooldownAny \in Int /\ t - CooldownAny \in Int
      /\ CooldownTask \in Nat /\ s - CooldownTask \in Int /\ t - CooldownTask \in Int
      /\ s - CooldownAny <= t - CooldownAny /\ s - CooldownTask <= t - CooldownTask
  BY Times
<1> QED  BY <1>2, <1>3, <1>4, <1>5 DEF WillCool

LEMMA WaySooner ==
  ASSUME TypeOK, NEW t \in Int
  PROVE  /\ WillSend(t) => WillCheck(t)
         /\ WillCheck(t) => WillContend(t)
         /\ WillContend(t) => WillCool(t)
<1>1. Window \in Nat /\ ContentTTL \in Nat
  BY Times
<1>2. t - Window \in Int /\ t - ContentTTL \in Int /\ t - Window <= t /\ t - ContentTTL <= t
  BY <1>1
<1> QED  BY <1>2, WayEarlier DEF WillCheck, WillContend, WillCool

\* Where a hook on its way gets by a step of its own, unless its message is lost.
LEMMA WayMoves ==
  ASSUME TypeOK, Decided, ~Lost', NEW p \in Proc, Begin(p) \/ Step(p) \/ Crash(p)
  PROVE  /\ Sender(p) => Sender(p)' \/ Send(p)
         /\ pc[p] = "check" => Sender(p)' \/ Duplicate(p)
         /\ Contending(p) => \/ Contending(p)' /\ (pc'[p] = "crecreate" => content' = 0)
                             \/ pc'[p] = "check" \/ ContentBusy(p)
         /\ Cooling(p) => \/ Cooling(p)' \/ (Contending(p)' /\ pc'[p] # "crecreate")
                          \/ Suppressed(p)
<1> USE DEF TypeOK, Goto, Exit, Sender, Contending, Cooling, locals, files, history
<1>1. CASE Begin(p) \/ Crash(p)
  BY <1>1, CrashStep DEF Begin, Lost, Decided, Ending, None
<1>2. CASE EarlyExists(p) \/ EarlyDuplicate(p) \/ Classify(p) \/ Filtered(p) \/ Unfiltered(p)
  BY <1>2 DEF EarlyExists, EarlyDuplicate, Classify, Filtered, Unfiltered
<1>3. CASE LockCreated(p) \/ LockFails(p) \/ LockRefused(p) \/ LockExists(p) \/ LockStale(p)
           \/ LockRemove(p)
  BY <1>3 DEF LockCreated, LockFails, LockRefused, LockExists, LockStale, LockRemove
<1>4. CASE Suppressed(p) \/ NotSuppressed(p) \/ CooldownFails(p)
  BY <1>4 DEF Suppressed, NotSuppressed, CooldownFails
<1>5. CASE Load(p) \/ Truncate(p)
  BY <1>5 DEF Load, Truncate
<1>6. CASE LoadFails(p)
  BY <1>6 DEF LoadFails, AfterUpdate, Drop
<1>7. CASE Write(p) \/ SaveFails(p)
  BY <1>7 DEF Write, SaveFails, AfterUpdate, AfterSave, Drop
<1>8. CASE ContentCreated(p) \/ ContentError(p) \/ ContentBusy(p)
  BY <1>8 DEF ContentCreated, ContentError, ContentBusy
<1>9. CASE ContentExists(p) \/ ContentStale(p) \/ ContentRemove(p)
  BY <1>9 DEF ContentExists, ContentStale, ContentRemove
<1>10. CASE Duplicate(p) \/ NotDuplicate(p) \/ CheckFails(p)
  BY <1>10 DEF Duplicate, NotDuplicate, CheckFails
<1>11. CASE Send(p) \/ Release(p) \/ CleanLocks(p) \/ CleanState(p)
  BY <1>11 DEF Send, Release, CleanLocks, CleanState
<1>12. CASE SendFails(p)
  BY <1>12 DEF SendFails, Lost
<1> QED
  BY <1>1, <1>2, <1>3, <1>4, <1>5, <1>6, <1>7, <1>8, <1>9, <1>10, <1>11, <1>12 DEF Step

\* Whatever one process does, somebody goes on the way: what will happen still will.
LEMMA SendStays ==
  ASSUME TypeOK, HasJob, DuplicateInv, ~Lost', NEW p \in Proc, Begin(p) \/ Step(p) \/ Crash(p),
         NEW t \in Int, t <= now, WillSend(t)
  PROVE  WillSend(t)'
<1>1. now \in Nat /\ now # 0 /\ lastSend.at \in Nat
  BY Times
<1>2. lastSend' = lastSend \/ (lastSend'.at = now /\ now # 0)
  BY <1>1, StateMoves, CrashStep DEF Begin, history, DuplicateInv
<1>3. CASE lastSend.at # 0 /\ lastSend.at >= t
  BY <1>1, <1>2, <1>3 DEF WillSend
<1>4. CASE Sender(p)
  BY <1>1, <1>4, WayMoves DEF Send, WillSend, DuplicateInv
<1>5. ASSUME NEW q \in Proc \ {p}, Sender(q) PROVE WillSend(t)'
  <2>1. Sender(q)'
    BY <1>5, OthersStay DEF Sender
  <2> QED  BY <2>1 DEF WillSend
<1> QED  BY <1>3, <1>4, <1>5 DEF WillSend

LEMMA CheckStays ==
  ASSUME TypeOK, HasJob, DuplicateInv, AnswerInv, ~Lost, ~Lost', NEW p \in Proc,
         Begin(p) \/ Step(p) \/ Crash(p), NEW t \in Int, t <= now, WillCheck(t)
  PROVE  WillCheck(t)'
<1>1. /\ now \in Nat /\ Window \in Nat /\ t - Window \in Int /\ t - Window <= now
      /\ file.time \in Nat
  BY Times
<1>2. WillSend(t - Window) => WillCheck(t)'
  BY <1>1, SendStays DEF WillCheck
<1>3. CASE pc[p] = "check" /\ Duplicate(p)
  <2>1. file.kind = "valid" /\ file.time # 0 /\ now - file.time <= Window
    BY <1>3 DEF Duplicate, IsDuplicate
  <2>2. WillSend(file.time)
    BY <1>1, <2>1 DEF AnswerInv, FileMeans
  <2> QED  BY <1>1, <1>2, <2>1, <2>2, WayEarlier
<1>4. CASE Sender(p)'
  BY <1>4 DEF WillCheck, WillSend
<1>5. ASSUME NEW q \in Proc \ {p}, pc[q] = "check" PROVE WillCheck(t)'
  BY <1>5, OthersStay DEF WillCheck
<1> QED  BY <1>2, <1>3, <1>4, <1>5, WayMoves DEF WillCheck, DuplicateInv

LEMMA ContendStays ==
  ASSUME TypeOK, HasJob, DuplicateInv, AnswerInv, ~Lost, ~Lost', NEW p \in Proc,
         Begin(p) \/ Step(p) \/ Crash(p), NEW t \in Int, t <= now, WillContend(t)
  PROVE  WillContend(t)'
<1>1. /\ now \in Nat /\ ContentTTL \in Nat /\ t - ContentTTL \in Int /\ t - ContentTTL <= now
      /\ content \in Nat
  BY Times
<1>2. WillCheck(t - ContentTTL) => WillContend(t)'
  BY <1>1, CheckStays DEF WillContend
<1>3. CASE Waits(p, t) /\ ContentBusy(p)
  <2>1. content # 0 /\ content >= t - ContentTTL
    BY <1>1, <1>3 DEF ContentBusy, Waits, Within
  <2>2. WillCheck(content)
    BY <1>1, <2>1 DEF AnswerInv, ContentMeans
  <2> QED  BY <1>1, <1>2, <2>1, <2>2, WayEarlier
<1>4. CASE Contending(p)' /\ (pc'[p] = "crecreate" => content' = 0)
  BY <1>4 DEF WillContend, Waits
<1>5. CASE pc'[p] = "check"
  BY <1>5 DEF WillContend, WillCheck
<1>6. ASSUME NEW q \in Proc \ {p}, Waits(q, t) PROVE WillContend(t)'
  <2>1. content' \in {content, 0, now}
    BY LockMoves, CrashStep DEF Begin, files, DuplicateInv
  <2>2. Waits(q, t)'
    BY <1>1, <1>6, <2>1, OthersStay DEF Waits, Contending
  <2> QED  BY <2>2 DEF WillContend
<1> QED  BY <1>2, <1>3, <1>4, <1>5, <1>6, WayMoves DEF WillContend, Waits, DuplicateInv

LEMMA CoolStays ==
  ASSUME TypeOK, HasJob, DuplicateInv, AnswerInv, ~Lost, ~Lost', NEW p \in Proc,
         Begin(p) \/ Step(p) \/ Crash(p), NEW t \in Int, t <= now, WillCool(t)
  PROVE  WillCool(t)'
<1>1. /\ now \in Nat /\ CooldownAny \in Nat /\ CooldownTask \in Nat
      /\ t - CooldownAny \in Int /\ t - CooldownAny <= now
      /\ t - CooldownTask \in Int /\ t - CooldownTask <= now
      /\ file.time \in Nat /\ file.task \in Nat
  BY Times
<1>2. \/ WillContend(t) \/ WillContend(t - CooldownTask) \/ WillSend(t - CooldownAny)
      => WillCool(t)'
  BY <1>1, SendStays, ContendStays DEF WillCool
<1>3. CASE Cooling(p) /\ Suppressed(p)
  <2>1. /\ file.kind = "valid"
        /\ \/ file.time # 0 /\ now - file.time < CooldownAny
           \/ file.task # 0 /\ now - file.task < CooldownTask
    BY <1>1, <1>3 DEF Suppressed, CooldownOver
  <2>2. CASE file.time # 0 /\ now - file.time < CooldownAny
    <3>1. WillSend(file.time) /\ t - CooldownAny <= file.time
      BY <1>1, <2>1, <2>2 DEF AnswerInv, FileMeans
    <3> QED  BY <1>1, <1>2, <3>1, WayEarlier
  <2>3. CASE file.task # 0 /\ now - file.task < CooldownTask
    <3>1. WillContend(file.task) /\ t - CooldownTask <= file.task
      BY <1>1, <2>1, <2>3 DEF AnswerInv, FileMeans
    <3> QED  BY <1>1, <1>2, <3>1, WayEarlier
  <2> QED  BY <2>1, <2>2, <2>3
<1>4. CASE Cooling(p)'
  BY <1>4 DEF WillCool
<1>5. CASE Contending(p)' /\ pc'[p] # "crecreate"
  BY <1>5 DEF WillCool, WillContend, Waits
<1>6. ASSUME NEW q \in Proc \ {p}, Cooling(q) PROVE WillCool(t)'
  BY <1>6, OthersStay DEF WillCool, Cooling
<1> QED  BY <1>2, <1>3, <1>4, <1>5, <1>6, WayMoves DEF WillCool, DuplicateInv

LEMMA WayStays ==
  ASSUME TypeOK, HasJob, DuplicateInv, AnswerInv, ~Lost, ~Lost', NEW p \in Proc,
         Begin(p) \/ Step(p) \/ Crash(p), NEW t \in Int, t <= now
  PROVE  /\ WillSend(t) => WillSend(t)'
         /\ WillCheck(t) => WillCheck(t)'
         /\ WillContend(t) => WillContend(t)'
         /\ WillCool(t) => WillCool(t)'
  BY SendStays, CheckStays, ContendStays, CoolStays

\* What a step that changes a lock leaves its process to do.
LEMMA ContentMoves ==
  ASSUME TypeOK, HasJob, NEW p \in Proc, Step(p)
  PROVE  /\ content' # content => content' = 0 \/ pc'[p] = "check"
         /\ \A e \in Event : lock'[e] # lock[e] =>
               \/ lock'[e] = 0 \/ Cooling(p)' \/ (Contending(p)' /\ pc'[p] # "crecreate")
         /\ outcome'[p] \in Refusals =>
               outcome'[p] = outcome[p] \/ EarlyDuplicate(p) \/ LockRefused(p) \/ Suppressed(p)
               \/ ContentBusy(p) \/ Duplicate(p)
<1> USE DEF TypeOK, HasJob, Goto, Exit, Contending, Cooling, locals, files, history, Refusals
<1>1. CASE EarlyExists(p) \/ EarlyDuplicate(p) \/ Classify(p) \/ Filtered(p) \/ Unfiltered(p)
  BY <1>1 DEF EarlyExists, EarlyDuplicate, Classify, Filtered, Unfiltered
<1>2. CASE LockCreated(p)
  BY <1>2 DEF LockCreated, AfterLock
<1>3. CASE LockFails(p) \/ LockRefused(p) \/ LockExists(p) \/ LockStale(p) \/ LockRemove(p)
  BY <1>3 DEF LockFails, LockRefused, LockExists, LockStale, LockRemove
<1>4. CASE Suppressed(p) \/ NotSuppressed(p) \/ CooldownFails(p)
  BY <1>4 DEF Suppressed, NotSuppressed, CooldownFails
<1>5. CASE Load(p) \/ LoadFails(p) \/ Truncate(p) \/ Write(p) \/ SaveFails(p)
  BY <1>5 DEF Load, LoadFails, Truncate, Write, SaveFails
<1>9. CASE ContentCreated(p) \/ ContentError(p) \/ ContentBusy(p)
  BY <1>9 DEF ContentCreated, ContentError, ContentBusy
<1>10. CASE ContentExists(p) \/ ContentStale(p) \/ ContentRemove(p)
  BY <1>10 DEF ContentExists, ContentStale, ContentRemove
<1>11. CASE Duplicate(p) \/ NotDuplicate(p) \/ CheckFails(p)
  BY <1>11 DEF Duplicate, NotDuplicate, CheckFails
<1>12. CASE Send(p) \/ SendFails(p) \/ Release(p)
  BY <1>12 DEF Send, SendFails, Release
<1>13. CASE CleanLocks(p) \/ CleanState(p)
  BY <1>13 DEF CleanLocks, CleanState
<1> QED
  BY <1>1, <1>2, <1>3, <1>4, <1>5, <1>9, <1>10, <1>11, <1>12, <1>13 DEF Step

\* What a step makes of the locks and the records.
LEMMA LocksMean ==
  ASSUME TypeOK, HasJob, DuplicateInv, ClockInv, AnswerInv, ~Lost, ~Lost', NEW p \in Proc,
         Step(p)
  PROVE  ContentMeans' /\ LockMeans'
<1>1. now \in Nat /\ content \in Nat
  BY Times
<1>2. ContentMeans'
  <2> SUFFICES ASSUME NEW t \in Nat, t # 0, content' = t PROVE WillCheck(t)'
    BY DEF ContentMeans
  <2>1. CASE content' = content
    <3>1. WillCheck(t) /\ t <= now
      BY <2>1 DEF AnswerInv, ContentMeans, ClockInv, TimesPast
    <3> QED  BY <3>1, WayStays
  <2>2. CASE content' # content
    <3>1. pc'[p] = "check"
      BY <2>2, ContentMoves
    <3> QED  BY <3>1 DEF WillCheck
  <2> QED  BY <2>1, <2>2
<1>3. LockMeans'
  <2> SUFFICES ASSUME NEW e \in Event, NEW t \in Nat, t # 0, lock'[e] = t PROVE WillCool(t)'
    BY DEF LockMeans
  <2>1. CASE lock'[e] = lock[e]
    <3>1. WillCool(t) /\ t <= now
      BY <2>1 DEF AnswerInv, LockMeans, ClockInv, TimesPast
    <3> QED  BY <3>1, WayStays
  <2>2. CASE lock'[e] # lock[e]
    <3>1. Cooling(p)' \/ (Contending(p)' /\ pc'[p] # "crecreate")
      BY <2>2, ContentMoves
    <3> QED  BY <3>1 DEF WillCool, WillContend, Waits
  <2> QED  BY <2>1, <2>2
<1> QED  BY <1>2, <1>3

LEMMA RecordsMean ==
  ASSUME TypeOK, HasJob, DuplicateInv, ClockInv, AnswerInv, ~Lost, ~Lost', NEW p \in Proc,
         Step(p)
  PROVE  FileMeans' /\ CopyMeans(p)'
<1>1. /\ now \in Nat /\ file.time \in Nat /\ file.task \in Nat
      /\ copy[p].time \in Nat /\ copy[p].task \in Nat
  BY Times
<1>2. /\ Corrupt.kind # "valid" /\ Missing.kind # "valid" /\ Blank.time = 0 /\ Blank.task = 0
  BY DEF Corrupt, Missing, Blank
<1>3. FileMeans'
  <2> SUFFICES ASSUME file'.kind = "valid", NEW t \in Nat, t # 0
               PROVE  (file'.time = t => WillSend(t)') /\ (file'.task = t => WillContend(t)')
    BY DEF FileMeans
  <2>1. CASE file' = file
    <3>1. /\ file'.time = t => WillSend(t) /\ t <= now
          /\ file'.task = t => WillContend(t) /\ t <= now
      BY <2>1 DEF AnswerInv, FileMeans, ClockInv, TimesPast
    <3> QED  BY <3>1, WayStays
  <2>2. CASE file' # file
    <3>1. file' = copy[p] /\ Writer(p)
      BY <1>2, <2>2, OwnStep DEF Truncate, Write, SaveFails, CleanState, DuplicateInv, Writer
    <3>2. /\ file'.time = t => WillSend(t) /\ t <= now
          /\ file'.task = t => WillContend(t) /\ t <= now
      BY <3>1 DEF AnswerInv, CopyMeans, ClockInv, TimesPast
    <3> QED  BY <3>2, WayStays
  <2> QED  BY <2>1, <2>2
<1>4. CopyMeans(p)'
  <2> SUFFICES ASSUME Writer(p)', NEW t \in Nat, t # 0
               PROVE  (copy'[p].time = t => WillSend(t)') /\ (copy'[p].task = t => WillContend(t)')
    BY DEF CopyMeans
  <2>0. op'[p] = op[p] /\ (Load(p) \/ Truncate(p))
    BY OwnStep, StateMoves DEF Writer, DuplicateInv
  <2>1. CASE Truncate(p)
    <3>1. copy' = copy /\ Writer(p)
      BY <2>1 DEF Truncate, locals, Writer
    <3>2. /\ copy'[p].time = t => WillSend(t) /\ t <= now
          /\ copy'[p].task = t => WillContend(t) /\ t <= now
      BY <3>1 DEF AnswerInv, CopyMeans, ClockInv, TimesPast
    <3> QED  BY <3>2, WayStays
  <2>2. CASE Load(p)
    <3>1. /\ pc'[p] = "truncate" /\ copy'[p] = Updated(p, Current) /\ file # Corrupt
      BY <2>2 DEF Load, Goto, TypeOK
    <3>2. /\ Current \in ValidState
          /\ Current.time = t => WillSend(t) /\ t <= now
          /\ Current.task = t => WillContend(t) /\ t <= now
      BY <3>1, <1>2, StateFacts, CurrentValid
         DEF Current, State, ValidState, TypeOK, AnswerInv, FileMeans, ClockInv, TimesPast
    <3>3. CASE op[p] = "tool"
      BY <3>1, <3>2, <3>3, WayStays DEF Updated
    <3>4. CASE op[p] = "task"
      <4>1. Waits(p, t)'
        BY <3>1, <3>4, <2>0 DEF Waits, Contending
      <4>2. copy'[p].time = Current.time
        BY <3>1, <3>2, <3>4 DEF Updated, ValidState
      <4> QED  BY <4>1, <4>2, <3>2, WayStays DEF WillContend
    <3>5. CASE op[p] \notin {"tool", "task"}
      <4>1. Sender(p)'
        BY <3>1, <3>5, <2>0 DEF Sender
      <4>2. copy'[p].task = Current.task
        BY <3>1, <3>2, <3>5 DEF Updated, ValidState
      <4> QED  BY <4>1, <4>2, <3>2, WayStays DEF WillSend
    <3> QED  BY <3>3, <3>4, <3>5
  <2> QED  BY <2>0, <2>1, <2>2
<1> QED  BY <1>3, <1>4

\* A lock that turns a hook away is younger than the hook, less the lock's lifetime.
LEMMA RefusalsMean ==
  ASSUME TypeOK, HasJob, DuplicateInv, ClockInv, AnswerInv, ~Lost, ~Lost', NEW p \in Proc,
         Step(p)
  PROVE  RefusalMeans(p)'
<1>1. /\ now \in Nat /\ LockTTL \in Nat /\ LockTTL > 0 /\ job[p].began \in Nat
      /\ job[p].began <= now /\ content \in Nat /\ job' = job
  BY Times, LockMoves DEF ClockInv, TimesPast
<1> SUFFICES ASSUME outcome'[p] \in Refusals, NEW t \in Int, t = job[p].began - LockTTL + 1
             PROVE  WillCool(t)'
  BY <1>1 DEF RefusalMeans
<1>2. t <= now
  BY <1>1
<1> SUFFICES WillCool(t)
  BY <1>2, WayStays
<1>3. CASE outcome'[p] = outcome[p]
  BY <1>3 DEF AnswerInv, RefusalMeans
<1>4. CASE EarlyDuplicate(p) \/ LockRefused(p)
  <2> DEFINE e == job[p].event
  <2>1. e \in Event
    BY <1>4 DEF EarlyDuplicate, LockRefused, HasJob
  <2>2. lock[e] \in Nat /\ lock[e] # 0
    BY <1>4, <2>1, Times DEF EarlyDuplicate, LockRefused, Within, TypeOK, Refusals
  <2>3. now - lock[e] < LockTTL \/ lock[e] >= job[p].began
    BY <1>4, <2>2 DEF EarlyDuplicate, LockRefused, Within, ClockInv, RetriesLater
  <2>4. t <= lock[e]
    BY <1>1, <2>2, <2>3
  <2>5. WillCool(lock[e])
    BY <2>1, <2>2 DEF AnswerInv, LockMeans
  <2> QED  BY <2>2, <2>4, <2>5, WayEarlier
<1>5. CASE Suppressed(p)
  BY <1>5 DEF Suppressed, WillCool, Cooling
<1>6. CASE ContentBusy(p)
  <2>1. Waits(p, t)
    BY <1>1, <1>6 DEF ContentBusy, Waits, Contending, ClockInv, RetriesLater
  <2> QED  BY <2>1 DEF WillCool, WillContend
<1>7. CASE Duplicate(p)
  <2>1. WillCheck(t)
    BY <1>7 DEF Duplicate, WillCheck
  <2> QED  BY <2>1, WaySooner
<1> QED  BY <1>3, <1>4, <1>5, <1>6, <1>7, ContentMoves

LEMMA AnswerInvStep ==
  ASSUME TypeOK, HasJob, DuplicateInv, ClockInv, AnswerInv, [Next]_vars
  PROVE  AnswerInv'
<1> SUFFICES ASSUME ~Lost' PROVE AnswerInv'
  BY DEF AnswerInv
<1>1. ASSUME NEW p \in Proc, Begin(p) \/ Step(p) \/ Crash(p) PROVE AnswerInv'
  <2>1. ~Lost
    <3>1. \A q \in Proc : outcome[q] # None => outcome'[q] = outcome[q]
      BY <1>1, OthersStay, OwnStep, CrashStep DEF Begin, DuplicateInv
    <3> QED  BY <3>1 DEF Lost, None
  <2>2. ASSUME NEW q \in Proc \ {p} PROVE CopyMeans(q)' /\ RefusalMeans(q)'
    <3>1. /\ pc'[q] = pc[q] /\ copy'[q] = copy[q] /\ job'[q] = job[q] /\ outcome'[q] = outcome[q]
      BY <1>1, OthersStay
    <3>2. CopyMeans(q)'
      <4> SUFFICES ASSUME Writer(q)', NEW t \in Nat, t # 0
                   PROVE  /\ copy'[q].time = t => WillSend(t)'
                          /\ copy'[q].task = t => WillContend(t)'
        BY DEF CopyMeans
      <4>1. /\ copy[q].time = t => WillSend(t) /\ t <= now
            /\ copy[q].task = t => WillContend(t) /\ t <= now
        BY <2>1, <3>1 DEF AnswerInv, CopyMeans, Writer, ClockInv, TimesPast
      <4> QED  BY <1>1, <2>1, <3>1, <4>1, WayStays
    <3>3. RefusalMeans(q)'
      <4> SUFFICES ASSUME outcome[q] \in Refusals, NEW t \in Int, t = job[q].began - LockTTL + 1
                   PROVE  WillCool(t)'
        BY <3>1 DEF RefusalMeans
      <4>1. t <= now
        BY Times DEF ClockInv, TimesPast
      <4>2. WillCool(t)
        BY <2>1 DEF AnswerInv, RefusalMeans
      <4> QED  BY <1>1, <2>1, <4>1, <4>2, WayStays
    <3> QED  BY <3>2, <3>3
  <2>3. CASE Step(p)
    <3>1. ContentMeans' /\ LockMeans' /\ FileMeans' /\ CopyMeans(p)' /\ RefusalMeans(p)'
      BY <2>1, <2>3, LocksMean, RecordsMean, RefusalsMean
    <3> QED  BY <2>2, <3>1 DEF AnswerInv
  <2>4. CASE Begin(p) \/ Crash(p)
    <3>1. UNCHANGED <<now, files>> /\ ~Writer(p)'
      BY <2>4, CrashStep DEF Begin, Goto, TypeOK, Writer, DuplicateInv
    <3>2. ContentMeans'
      <4> SUFFICES ASSUME NEW t \in Nat, t # 0, content = t PROVE WillCheck(t)'
        BY <3>1 DEF ContentMeans, files
      <4>1. WillCheck(t) /\ t <= now
        BY <2>1 DEF AnswerInv, ContentMeans, ClockInv, TimesPast
      <4> QED  BY <1>1, <2>1, <4>1, WayStays
    <3>3. LockMeans'
      <4> SUFFICES ASSUME NEW e \in Event, NEW t \in Nat, t # 0, lock[e] = t PROVE WillCool(t)'
        BY <3>1 DEF LockMeans, files
      <4>1. WillCool(t) /\ t <= now
        BY <2>1 DEF AnswerInv, LockMeans, ClockInv, TimesPast
      <4> QED  BY <1>1, <2>1, <4>1, WayStays
    <3>4. FileMeans'
      <4> SUFFICES ASSUME file.kind = "valid", NEW t \in Nat, t # 0
                   PROVE  (file.time = t => WillSend(t)') /\ (file.task = t => WillContend(t)')
        BY <3>1 DEF FileMeans, files
      <4>1. /\ file.time = t => WillSend(t) /\ t <= now
            /\ file.task = t => WillContend(t) /\ t <= now
        BY <2>1 DEF AnswerInv, FileMeans, ClockInv, TimesPast
      <4> QED  BY <1>1, <2>1, <4>1, WayStays
    <3>5. CopyMeans(p)' /\ RefusalMeans(p)'
      <4>1. CopyMeans(p)'
        BY <3>1 DEF CopyMeans
      <4>2. CASE Begin(p)
        <5>1. outcome'[p] = None
          BY <4>2 DEF Begin, DuplicateInv, Decided, Ending
        <5> QED  BY <4>1, <5>1 DEF RefusalMeans, Refusals, None
      <4>3. CASE Crash(p)
        <5>1. job' = job /\ outcome'[p] \in {outcome[p], "unsent", "crashed"}
          BY <4>3, CrashStep DEF DuplicateInv
        <5>2. /\ job[p].began \in Nat /\ now \in Nat /\ job[p].began <= now
              /\ LockTTL \in Nat /\ LockTTL > 0
          BY Times DEF ClockInv, TimesPast
        <5> SUFFICES ASSUME outcome[p] \in Refusals, NEW t \in Int, t = job[p].began - LockTTL + 1
                     PROVE  WillCool(t)'
          BY <4>1, <5>1 DEF RefusalMeans, Refusals
        <5>3. t <= now
          BY <5>2
        <5>4. WillCool(t)
          BY <2>1 DEF AnswerInv, RefusalMeans
        <5> QED  BY <1>1, <2>1, <5>3, <5>4, WayStays
      <4> QED  BY <2>4, <4>2, <4>3
    <3> QED  BY <2>2, <3>2, <3>3, <3>4, <3>5 DEF AnswerInv
  <2> QED  BY <1>1, <2>3, <2>4
<1>2. CASE Tick \/ UNCHANGED vars
  <2>1. UNCHANGED <<files, pc, locals, outcome, history>>
    BY <1>2 DEF Tick, vars
  <2> QED
    BY <2>1 DEF AnswerInv, Lost, ContentMeans, LockMeans, FileMeans, CopyMeans, RefusalMeans,
       WillSend, WillCheck, WillContend, WillCool, Waits, Sender, Contending, Cooling, Writer,
       files, locals, history
<1> QED  BY <1>1, <1>2 DEF Next

\* Locks, cooldowns and the duplicate check may each turn a hook away on account of
\* another one, which may have been turned away on account of a third.  As long as every
\* hook that recorded its message has sent it, no chain of these swallows a burst: each
\* hook turned away has a notification, sent after it began or at most Reach before.
THEOREM RefusalsAreAnswered == Spec => []RefusalsAnswered
<1>1. Init => DuplicateInv /\ ClockInv /\ AnswerInv
  BY Times DEF Init, DuplicateInv, Decided, FileKnown, CopyKnown, DuplicatesKnown, Missing, Blank,
     None, ClockInv, TimesPast, RetriesLater, HasOp, Writer, AnswerInv, ContentMeans, LockMeans,
     FileMeans, CopyMeans, RefusalMeans, Refusals
<1>2. TypeOK /\ HasJob /\ DuplicateInv /\ ClockInv /\ AnswerInv /\ [Next]_vars
        => DuplicateInv' /\ ClockInv' /\ AnswerInv'
  BY DuplicateInvStep, ClockInvStep, AnswerInvStep DEF DuplicateInv
<1>3. TypeOK /\ AnswerInv => RefusalsAnswered
  <2> SUFFICES ASSUME TypeOK, AnswerInv, AtRest,
                      \A q \in Proc : outcome[q] \notin {"unsent", "crashed"},
                      NEW p \in Proc, outcome[p] \in Refusals
               PROVE  lastSend.at # 0 /\ lastSend.at + Reach > job[p].began
    BY DEF RefusalsAnswered
  <2>1. \A q \in Proc : /\ ~Sender(q) /\ ~Contending(q) /\ ~Cooling(q) /\ pc[q] # "check"
    BY DEF AtRest, Sender, Contending, Cooling
  <2>2. /\ LockTTL \in Nat /\ ContentTTL \in Nat /\ Window \in Nat /\ CooldownAny \in Nat
        /\ CooldownTask \in Nat /\ job[p].began \in Nat /\ lastSend.at \in Nat
    BY Times
  <2>3. PICK t \in Int : t = job[p].began - LockTTL + 1
    BY <2>2
  <2>4. WillCool(t)
    BY <2>3 DEF AnswerInv, Lost, RefusalMeans
  <2>5. /\ lastSend.at # 0
        /\ lastSend.at >= t - CooldownTask - ContentTTL - Window \/ lastSend.at >= t - CooldownAny
    BY <2>1, <2>2, <2>4 DEF WillCool, WillContend, WillCheck, WillSend, Waits
  <2> QED  BY <2>2, <2>3, <2>5 DEF Reach
<1> QED
  BY <1>1, <1>2, <1>3, TypesHold, PTL DEF Spec

-----------------------------------------------------------------------------
\* What makes NoRepeatUnlessInterfered hold as long as nothing interferes: one process
\* at a time is behind the content lock, one rewrites the state file, and no rewriting
\* loses the record of the notification sent last, or about to be sent, before it is
\* older than the age at which clean-up forgets it.
Section(q) == Sender(q) \/ pc[q] \in {"check", "release"}
Composed(q) == pc[q] = "send" \/ (Writer(q) /\ op[q] = "notify")

OneHolder ==
    /\ \A q \in Proc : owns[q] => content # 0
    /\ \A q \in Proc : Section(q) => owns[q]
    /\ \A q, r \in Proc : owns[q] /\ owns[r] => q = r
OneWriter == \A q, r \in Proc : Writer(q) /\ Writer(r) => q = r

\* The record (t, m) is in the file, or the file is torn, and it is in every copy that
\* is about to replace the file; or it may be forgotten.
Aged(t) == now - t > MaxAge
Saved(t) == file # Missing /\ stamp >= t
Records(s, t, m) == s.time = t /\ s.msg = m
Copies(q, t, m) == Writer(q) /\ op[q] # "notify" => Records(copy[q], t, m)
Held(t, m) ==
    \/ Aged(t)
    \/ /\ Saved(t) /\ (file = Corrupt \/ Records(file, t, m))
       /\ \A q \in Proc : Copies(q, t, m)

LastHeld ==
    lastSend.msg # None /\ (\A q \in Proc : pc[q] # "send") => Held(lastSend.time, lastSend.msg)
LastReal == lastSend.msg # None => lastSend.time # 0

WriteSaved(q) == pc[q] = "write" => Aged(copy[q].time) \/ Saved(copy[q].time)
OwnMessage(q) == Composed(q) => copy[q].msg = job[q].msg /\ copy[q].time # 0
SendHeld(q) == pc[q] = "send" => Held(copy[q].time, copy[q].msg)
Apart(q) ==
    lastSend.msg = job[q].msg =>
       /\ pc[q] = "load" /\ op[q] = "notify" => now - lastSend.time > Horizon
       /\ Composed(q) => copy[q].time - lastSend.time > Horizon
RecordKept(q) == WriteSaved(q) /\ OwnMessage(q) /\ SendHeld(q) /\ Apart(q)

RecordInv ==
    ~interfered => /\ OneHolder /\ OneWriter /\ LastHeld /\ LastReal
                   /\ \A q \in Proc : RecordKept(q)

\* What a process's step does to the content lock, to its copy, and to the history.
LEMMA OwnMoves ==
  ASSUME TypeOK, ClockInv, NEW p \in Proc, Step(p)
  PROVE  /\ \/ content' = content \/ ContentCreated(p) \/ ContentRemove(p) \/ Release(p)
            \/ CleanLocks(p)
         /\ owns' = owns \/ ContentCreated(p) \/ Release(p)
         /\ Section(p)' => Section(p) \/ ContentCreated(p) \/ interfered'
         /\ UNCHANGED <<file, stamp>> \/ Truncate(p) \/ Write(p) \/ CleanState(p) \/ interfered'
         /\ Composed(p)' => Load(p) \/ (Composed(p) /\ UNCHANGED copy) \/ interfered'
         /\ UNCHANGED lastSend \/ Send(p)
         /\ pc[p] = "send" => Send(p) \/ interfered'
         /\ pc'[p] = "send" => Write(p) \/ interfered'
         /\ Writer(p)' => op'[p] = op[p] /\ (Load(p) \/ (Truncate(p) /\ UNCHANGED copy))
         /\ pc'[p] = "load" /\ op'[p] = "notify" => NotDuplicate(p) \/ interfered'
<1> USE DEF TypeOK, Goto, Exit, Section, Sender, Composed, Writer, locals, files, history,
        ClockInv, HasOp
<1>1. CASE EarlyExists(p) \/ EarlyDuplicate(p) \/ Classify(p) \/ Filtered(p) \/ Unfiltered(p)
  BY <1>1 DEF EarlyExists, EarlyDuplicate, Classify, Filtered, Unfiltered
<1>2. CASE LockCreated(p)
  BY <1>2 DEF LockCreated, AfterLock
<1>3. CASE LockFails(p) \/ LockRefused(p) \/ LockExists(p) \/ LockStale(p) \/ LockRemove(p)
  BY <1>3 DEF LockFails, LockRefused, LockExists, LockStale, LockRemove
<1>4. CASE Suppressed(p) \/ NotSuppressed(p) \/ CooldownFails(p)
  BY <1>4 DEF Suppressed, NotSuppressed, CooldownFails
<1>5. CASE Load(p)
  BY <1>5 DEF Load
<1>6. CASE LoadFails(p)
  BY <1>6 DEF LoadFails, AfterUpdate, Drop
<1>7. CASE Truncate(p)
  BY <1>7 DEF Truncate
<1>6a. CASE SaveFails(p)
  BY <1>6a DEF SaveFails, AfterUpdate
<1>8. CASE Write(p)
  <2>1. op[p] \in {"tool", "task", "notify"}
    BY <1>8 DEF Write
  <2>2. CASE op[p] = "notify"
    BY <2>2, <1>8 DEF Write, AfterUpdate, AfterSave
  <2>3. CASE op[p] # "notify"
    BY <2>1, <2>3, <1>8 DEF Write, AfterUpdate, AfterSave, Drop
  <2> QED  BY <2>2, <2>3
<1>9. CASE ContentCreated(p) \/ ContentError(p) \/ ContentBusy(p)
  BY <1>9 DEF ContentCreated, ContentError, ContentBusy
<1>10. CASE ContentExists(p) \/ ContentStale(p) \/ ContentRemove(p)
  BY <1>10 DEF ContentExists, ContentStale, ContentRemove
<1>11. CASE Duplicate(p) \/ NotDuplicate(p) \/ CheckFails(p)
  BY <1>11 DEF Duplicate, NotDuplicate, CheckFails
<1>12. CASE Send(p) \/ SendFails(p) \/ Release(p)
  BY <1>12 DEF Send, SendFails, Release, Drop
<1>13. CASE CleanLocks(p) \/ CleanState(p)
  BY <1>13 DEF CleanLocks, CleanState
<1> QED
  BY <1>1, <1>2, <1>3, <1>4, <1>5, <1>6, <1>6a, <1>7, <1>8, <1>9, <1>10, <1>11, <1>12,
     <1>13 DEF Step

\* The content lock keeps the processes apart.
LEMMA HolderStep ==
  ASSUME TypeOK, HasJob, ClockInv, OneHolder, ~interfered', NEW p \in Proc, Step(p)
  PROVE  OneHolder'
<1>1. \A q \in Proc \ {p} : Section(q)' => Section(q)
  BY OthersStay DEF Section, Sender
<1>2. CASE ContentCreated(p)
  <2>1. \A q \in Proc : ~owns[q]
    BY <1>2 DEF ContentCreated, OneHolder
  <2>2. content' # 0 /\ owns' = [owns EXCEPT ![p] = TRUE]
    BY <1>2, Times DEF ContentCreated
  <2> QED  BY <2>1, <2>2, <1>1 DEF OneHolder, TypeOK
<1>3. CASE Release(p)
  <2>1. owns[p] /\ owns' = [owns EXCEPT ![p] = FALSE] /\ ~Section(p)'
    BY <1>3 DEF Release, OneHolder, Section, Sender, Exit, Goto, TypeOK
  <2> QED  BY <2>1, <1>1 DEF OneHolder, TypeOK
<1>4. CASE ~ContentCreated(p) /\ ~Release(p)
  <2>1. owns' = owns /\ (Section(p)' => Section(p))
    BY <1>4, OwnMoves
  <2>2. \A q \in Proc : owns[q] => content' # 0
    BY <1>4, OwnMoves DEF OneHolder, ContentRemove, CleanLocks, TypeOK
  <2> QED  BY <2>1, <2>2, <1>1 DEF OneHolder
<1> QED  BY <1>2, <1>3, <1>4

LEMMA WriterStep ==
  ASSUME TypeOK, ClockInv, OneWriter, ~interfered', NEW p \in Proc, Step(p)
  PROVE  OneWriter'
<1>1. \A q \in Proc \ {p} : Writer(q)' => Writer(q)
  BY OthersStay DEF Writer
<1>2. Writer(p)' => Writer(p) \/ \A q \in Proc \ {p} : ~Writer(q)
  BY OwnMoves DEF Writer, Load, Overlap, Truncate
<1> QED  BY <1>1, <1>2 DEF OneWriter

\* A record that is held stays held, except that a hook may write its own over it.
LEMMA HeldStep ==
  ASSUME TypeOK, HasJob, ClockInv, ~interfered', NEW p \in Proc, Step(p),
         NEW t \in Nat, NEW m, t <= now, Held(t, m), ~(Write(p) /\ op[p] = "notify")
  PROVE  Held(t, m)'
<1>1. now' = now /\ now \in Nat /\ stamp \in Nat /\ MaxAge \in Nat
  BY LockMoves, Times
<1> SUFFICES ASSUME ~Aged(t) PROVE Held(t, m)'
  BY <1>1 DEF Held, Aged
<1>2. /\ Saved(t) /\ (file = Corrupt \/ Records(file, t, m))
      /\ \A q \in Proc : Copies(q, t, m)
  BY DEF Held
<1>3. Saved(t)' /\ (file' = Corrupt \/ Records(file, t, m)')
  <2>1. CASE UNCHANGED <<file, stamp>>
    BY <2>1, <1>2 DEF Saved, Records
  <2>2. CASE Truncate(p)
    BY <2>2, <1>1 DEF Truncate, Saved, Missing, Corrupt, Blank
  <2>3. CASE Write(p)
    <3>1. Records(copy[p], t, m)
      BY <2>3, <1>2 DEF Copies, Writer, Write
    <3>2. copy[p] # Missing
      BY DEF TypeOK, ValidState, Missing, Blank
    <3> QED  BY <3>1, <3>2, <2>3, <1>1, <1>2 DEF Write, Saved, Records, Missing, Corrupt, Blank
  <2>4. CASE CleanState(p)
    <3>1. now - stamp > MaxAge
      BY <2>4 DEF CleanState, Old
    <3> QED  BY <3>1, <1>1, <1>2 DEF Saved, Aged
  <2> QED  BY <2>1, <2>2, <2>3, <2>4, OwnMoves
<1>4. ASSUME NEW q \in Proc PROVE Copies(q, t, m)'
  <2>1. CASE q # p
    BY <2>1, <1>2, OthersStay DEF Copies, Writer, Records
  <2>2. CASE q = p
    <3> SUFFICES ASSUME Writer(p)', op'[p] # "notify" PROVE Records(copy[p], t, m)'
      BY <2>2 DEF Copies
    <3>1. CASE Load(p)
      <4>1. file # Corrupt /\ file # Missing
        BY <3>1, <1>2 DEF Load, Saved
      <4>2. Records(file, t, m) /\ Current = file /\ file \in ValidState
        BY <4>1, <1>2 DEF Current, TypeOK, State
      <4>3. op[p] \in {"tool", "task"} /\ copy'[p] = Updated(p, Current)
        BY <3>1, OwnMoves DEF Load, TypeOK, ClockInv, HasOp
      <4> QED  BY <4>2, <4>3 DEF Updated, Records, ValidState
    <3>2. CASE Truncate(p) /\ UNCHANGED copy
      BY <3>2, <1>2, OwnMoves DEF Copies, Records, Writer, Truncate
    <3> QED  BY <3>1, <3>2, OwnMoves
  <2> QED  BY <2>1, <2>2
<1> QED  BY <1>3, <1>4 DEF Held

\* The record of the notification about to be sent is the hook's own, and held.
LEMMA OwnRecordStep ==
  ASSUME TypeOK, HasJob, DuplicateInv, ClockInv, RecordInv, ~interfered, ~interfered', NEW p \in Proc, Step(p)
  PROVE  WriteSaved(p)' /\ OwnMessage(p)' /\ SendHeld(p)'
<1>t. now' = now /\ now \in Nat /\ now # 0 /\ stamp \in Nat /\ MaxAge \in Nat /\ job' = job
  BY LockMoves, Times
<1>1. WriteSaved(p)'
  <2> SUFFICES ASSUME pc'[p] = "write" PROVE Saved(copy[p].time)'
    BY DEF WriteSaved
  <2>1. Truncate(p) /\ UNCHANGED copy
    BY OwnMoves DEF RecordInv, Writer, Load, Goto, TypeOK
  <2>2. copy[p].time \in Nat /\ copy[p].time <= now
    BY Times DEF ClockInv, TimesPast
  <2> QED  BY <2>1, <2>2, <1>t DEF Truncate, Saved, Corrupt, Missing, Blank
<1>2. OwnMessage(p)'
  <2> SUFFICES ASSUME Composed(p)' PROVE copy'[p].msg = job[p].msg /\ copy'[p].time # 0
    BY <1>t DEF OwnMessage
  <2>1. CASE Load(p)
    <3>1. op[p] = "notify" /\ file # Corrupt /\ copy'[p] = Updated(p, Current)
      BY <2>1 DEF Load, Composed, Writer, Goto, TypeOK
    <3>2. Current \in ValidState
      BY <3>1, CurrentValid
    <3> QED  BY <3>1, <3>2, <1>t DEF Updated, ValidState
  <2>2. CASE Composed(p) /\ UNCHANGED copy
    BY <2>2 DEF RecordInv, RecordKept, OwnMessage
  <2> QED  BY <2>1, <2>2, OwnMoves DEF RecordInv
<1>3. SendHeld(p)'
  <2> SUFFICES ASSUME pc'[p] = "send" PROVE Held(copy[p].time, copy[p].msg)'
    BY DEF SendHeld
  <2>1. Write(p) /\ op[p] = "notify" /\ UNCHANGED copy
    <3>1. Write(p)
      BY OwnMoves DEF RecordInv
    <3>2. op[p] = "notify"
      BY <3>1 DEF Write, AfterUpdate, Goto, TypeOK, ClockInv, HasOp, Writer
    <3> QED  BY <3>1, <3>2 DEF Write, AfterSave
  <2> SUFFICES ASSUME NEW t, t = copy[p].time, NEW m, m = copy[p].msg PROVE Held(t, m)'
    BY <2>1 DEF Held, Aged, Saved, Records, Copies
  <2>2. t \in Nat /\ t <= now
    BY Times DEF ClockInv, TimesPast
  <2>3. \A q \in Proc : ~Writer(q)'
    BY <2>1, OthersStay DEF RecordInv, OneWriter, Writer, Write
  <2>4. CASE Aged(t)
    BY <2>4, <2>1, <1>t DEF Held, Aged
  <2>5. CASE ~Aged(t)
    <3>1. Saved(t)
      BY <2>5, <2>1 DEF RecordInv, RecordKept, WriteSaved, Write
    <3>2. copy[p] # Missing /\ Corrupt # Missing
      BY DEF TypeOK, ValidState, Missing, Blank, Corrupt
    <3>3. Saved(t)' /\ (file' = Corrupt \/ file' = copy[p])
      BY <3>1, <3>2, <2>1, <2>2, <1>t DEF Write, Saved
    <3>4. file' = Corrupt \/ Records(file, t, m)'
      BY <3>3 DEF Records
    <3>5. \A q \in Proc : Copies(q, t, m)'
      BY <2>3 DEF Copies
    <3> QED  BY <3>3, <3>4, <3>5 DEF Held
  <2> QED  BY <2>1, <2>4, <2>5
<1> QED  BY <1>1, <1>2, <1>3

\* A hook that has composed its notification keeps its distance from the last one.
LEMMA ApartStep ==
  ASSUME TypeOK, HasJob, DuplicateInv, ClockInv, RecordInv, ~interfered, ~interfered', NEW p \in Proc, Step(p)
  PROVE  Apart(p)'
<1>t. /\ now' = now /\ now \in Nat /\ job' = job /\ lastSend.time \in Nat /\ Horizon \in Nat
      /\ copy[p].time \in Nat /\ MaxAge \in Nat /\ Window \in Nat
      /\ Horizon <= MaxAge /\ Horizon <= Window
  BY LockMoves, Times
<1>h. pc'[p] = "load" /\ op'[p] = "notify" => NotDuplicate(p)
  BY OwnMoves DEF RecordInv
<1>c. Composed(p)' => Load(p) \/ (Composed(p) /\ UNCHANGED copy)
  BY OwnMoves DEF RecordInv
<1>1. CASE Send(p)
  <2>1. pc'[p] = "release"
    BY <1>1 DEF Send, Goto, TypeOK
  <2> QED  BY <2>1 DEF Apart, Composed, Writer
<1>2. CASE ~Send(p)
  <2> SUFFICES ASSUME lastSend.msg = job[p].msg
               PROVE  /\ pc'[p] = "load" /\ op'[p] = "notify" => now - lastSend.time > Horizon
                      /\ Composed(p)' => copy'[p].time - lastSend.time > Horizon
    BY <1>2, <1>t, OwnMoves DEF Apart, RecordInv
  <2>1. ASSUME NotDuplicate(p) PROVE now - lastSend.time > Horizon
    <3>1. pc[p] = "check" /\ ~IsDuplicate(p) /\ file # Corrupt
      BY <2>1 DEF NotDuplicate
    <3>2. lastSend.msg # None /\ lastSend.time # 0
      BY <3>1, MsgAssumption DEF HasJob, RecordInv, LastReal
    <3>3. \A q \in Proc : pc[q] # "send"
      BY <3>1 DEF RecordInv, OneHolder, Section, Sender
    <3>4. Held(lastSend.time, lastSend.msg)
      BY <3>2, <3>3 DEF RecordInv, LastHeld
    <3>5. CASE Aged(lastSend.time)
      BY <3>5, <1>t DEF Aged
    <3>6. CASE file # Missing /\ file.time = lastSend.time /\ file.msg = lastSend.msg
      <4>1. file.kind = "valid"
        BY <3>1, <3>6 DEF TypeOK, State, ValidState
      <4>2. ~(now - lastSend.time <= Window)
        BY <4>1, <3>1, <3>2, <3>6 DEF IsDuplicate
      <4> QED  BY <4>2, <1>t
    <3> QED  BY <3>1, <3>4, <3>5, <3>6 DEF Held, Saved, Records
  <2>2. ASSUME Load(p), Composed(p)' PROVE copy'[p].time - lastSend.time > Horizon
    <3>1. op[p] = "notify" /\ file # Corrupt /\ copy'[p] = Updated(p, Current) /\ pc[p] = "load"
      BY <2>2 DEF Load, Composed, Writer, Goto, TypeOK
    <3>2. Current \in ValidState
      BY <3>1, CurrentValid
    <3>3. copy'[p].time = now
      BY <3>1, <3>2 DEF Updated, ValidState
    <3> QED  BY <3>1, <3>3 DEF RecordInv, RecordKept, Apart
  <2>3. ASSUME Composed(p), UNCHANGED copy PROVE copy'[p].time - lastSend.time > Horizon
    BY <2>3 DEF RecordInv, RecordKept, Apart
  <2> QED  BY <1>h, <1>c, <2>1, <2>2, <2>3
<1> QED  BY <1>1, <1>2

\* The others keep theirs, and so does the notification sent last.
LEMMA OthersKept ==
  ASSUME TypeOK, HasJob, DuplicateInv, ClockInv, RecordInv, ~interfered, ~interfered', NEW p \in Proc, Step(p),
         NEW q \in Proc \ {p}
  PROVE  RecordKept(q)'
<1>t. /\ now' = now /\ now \in Nat /\ stamp \in Nat /\ MaxAge \in Nat
      /\ copy[q].time \in Nat /\ copy[q].time <= now
  BY LockMoves, Times DEF ClockInv, TimesPast
<1>q. /\ pc'[q] = pc[q] /\ op'[q] = op[q] /\ copy'[q] = copy[q] /\ job'[q] = job[q]
      /\ Composed(q)' = Composed(q)
  BY OthersStay DEF Composed, Writer
<1>k. RecordKept(q)
  BY DEF RecordInv
<1>1. WriteSaved(q)'
  <2> SUFFICES ASSUME pc[q] = "write", ~Aged(copy[q].time) PROVE Saved(copy[q].time)'
    BY <1>q, <1>t DEF WriteSaved, Aged
  <2>1. Saved(copy[q].time)
    BY <1>k DEF RecordKept, WriteSaved
  <2>2. ~Write(p) /\ ~Truncate(p)
    BY DEF RecordInv, OneWriter, Writer, Write, Truncate
  <2>3. CASE CleanState(p)
    <3>1. now - stamp > MaxAge
      BY <2>3 DEF CleanState, Old
    <3> QED  BY <3>1, <2>1, <1>t DEF Saved, Aged
  <2> QED  BY <2>1, <2>2, <2>3, <1>q, OwnMoves DEF Saved, RecordInv
<1>2. OwnMessage(q)'
  BY <1>k, <1>q DEF RecordKept, OwnMessage
<1>3. SendHeld(q)'
  <2> SUFFICES ASSUME pc[q] = "send", NEW t, t = copy[q].time, NEW m, m = copy[q].msg
               PROVE  Held(t, m)'
    BY <1>q DEF SendHeld, Held, Aged, Saved, Records, Copies
  <2>1. Held(t, m)
    BY <1>k DEF RecordKept, SendHeld
  <2>2. ~(Write(p) /\ op[p] = "notify")
    BY DEF RecordInv, OneHolder, Section, Sender, Write
  <2> QED  BY <2>1, <2>2, <1>t, HeldStep DEF RecordInv
<1>4. Apart(q)'
  <2>1. CASE Send(p)
    <3>1. ~Section(q)
      BY <2>1 DEF RecordInv, OneHolder, Section, Sender, Send
    <3> QED  BY <3>1, <1>q DEF Apart, Composed, Section, Sender, Writer
  <2>2. CASE ~Send(p)
    BY <2>2, <1>k, <1>q, <1>t, OwnMoves DEF RecordKept, Apart, RecordInv
  <2> QED  BY <2>1, <2>2
<1> QED  BY <1>1, <1>2, <1>3, <1>4 DEF RecordKept

LEMMA LastStep ==
  ASSUME TypeOK, HasJob, DuplicateInv, ClockInv, RecordInv, ~interfered, ~interfered', NEW p \in Proc, Step(p)
  PROVE  LastHeld' /\ LastReal'
<1>1. CASE Send(p)
  <2> SUFFICES ASSUME NEW t, t = copy[p].time, NEW m, m = copy[p].msg
               PROVE  LastHeld' /\ LastReal'
    OBVIOUS
  <2>1. lastSend'.msg = m /\ lastSend'.time = t /\ t # 0 /\ Held(t, m)
    BY <1>1 DEF Send, RecordInv, RecordKept, OwnMessage, Composed, SendHeld
  <2>2. t \in Nat /\ t <= now
    BY Times DEF ClockInv, TimesPast
  <2>3. ~(Write(p) /\ op[p] = "notify")
    BY <1>1 DEF Send, Write
  <2>4. Held(t, m)'
    BY <2>1, <2>2, <2>3, HeldStep DEF RecordInv
  <2> QED  BY <2>1, <2>4 DEF LastHeld, LastReal, Held, Aged, Saved, Records, Copies
<1>2. CASE ~Send(p)
  <2>1. lastSend' = lastSend /\ pc[p] # "send"
    BY <1>2, OwnMoves DEF RecordInv
  <2> SUFFICES ASSUME lastSend.msg # None, \A q \in Proc : pc'[q] # "send",
                      NEW t, t = lastSend.time, NEW m, m = lastSend.msg
               PROVE  Held(t, m)'
    BY <2>1 DEF LastHeld, LastReal, RecordInv, Held, Aged, Saved, Records, Copies
  <2>2. Held(t, m)
    BY <2>1, OthersStay DEF RecordInv, LastHeld
  <2>3. ~(Write(p) /\ op[p] = "notify")
    BY DEF Write, AfterUpdate, Goto, TypeOK
  <2>4. t \in Nat /\ t <= now
    BY Times DEF ClockInv, TimesPast
  <2> QED  BY <2>2, <2>3, <2>4, HeldStep DEF RecordInv
<1> QED  BY <1>1, <1>2

LEMMA RecordInvStep ==
  ASSUME TypeOK, HasJob, DuplicateInv, ClockInv, RecordInv, [Next]_vars
  PROVE  RecordInv'
<1>1. ASSUME NEW p \in Proc, Step(p) PROVE RecordInv'
  <2> SUFFICES ASSUME ~interfered'
               PROVE  /\ OneHolder' /\ OneWriter' /\ LastHeld' /\ LastReal'
                      /\ \A q \in Proc : RecordKept(q)'
    BY DEF RecordInv
  <2>2. ~interfered
    BY <1>1, LockMoves
  <2>3. OneHolder' /\ OneWriter'
    BY <1>1, <2>2, HolderStep, WriterStep DEF RecordInv
  <2>4. LastHeld' /\ LastReal'
    BY <1>1, <2>2, LastStep
  <2>5. ASSUME NEW q \in Proc PROVE RecordKept(q)'
    <3>1. CASE q # p
      BY <3>1, <1>1, <2>2, OthersKept
    <3>2. WriteSaved(p)' /\ OwnMessage(p)' /\ SendHeld(p)' /\ Apart(p)'
      BY <1>1, <2>2, OwnRecordStep, ApartStep
    <3>3. RecordKept(p)'
      BY <3>2 DEF RecordKept
    <3> QED  BY <3>1, <3>3
  <2> QED  BY <2>3, <2>4, <2>5
<1>2. ASSUME NEW p \in Proc, Begin(p) PROVE RecordInv'
  <2>1. /\ UNCHANGED <<now, files, op, copy, owns, history, interfered>>
        /\ pc[p] = "idle" /\ pc'[p] = "early"
        /\ \A q \in Proc \ {p} : pc'[q] = pc[q] /\ job'[q] = job[q]
    BY <1>2, OthersStay DEF Begin, Goto, TypeOK
  <2>2. \A q \in Proc : /\ Writer(q)' = Writer(q) /\ Section(q)' = Section(q)
                        /\ Composed(q)' = Composed(q) /\ (pc[q] = "send" <=> pc'[q] = "send")
    BY <2>1 DEF Writer, Section, Sender, Composed
  <2>3. \A t \in Nat : \A m : Held(t, m) => Held(t, m)'
    BY <2>1, <2>2 DEF Held, Aged, Saved, Records, Copies, files
  <2>5. OneHolder /\ OneWriter => OneHolder' /\ OneWriter'
    BY <2>1, <2>2 DEF OneHolder, OneWriter, files
  <2>6. LastHeld /\ LastReal => LastHeld' /\ LastReal'
    BY <2>1, <2>2 DEF LastHeld, LastReal, Held, Aged, Saved, Records, Copies, files, history
  <2>7. ASSUME NEW q \in Proc, RecordKept(q) PROVE RecordKept(q)'
    <3>1. WriteSaved(q)' /\ OwnMessage(q)'
      <4>1. CASE q = p
        BY <4>1, <2>1 DEF WriteSaved, OwnMessage, Composed, Writer
      <4>2. CASE q # p
        BY <4>2, <2>1, <2>2, <2>7 DEF RecordKept, WriteSaved, OwnMessage, Aged, Saved, files
      <4> QED  BY <4>1, <4>2
    <3>2. SendHeld(q)'
      BY <2>1, <2>2, <2>7 DEF RecordKept, SendHeld, Held, Aged, Saved, Records, Copies, files
    <3>3. Apart(q)'
      <4>1. CASE q = p
        BY <4>1, <2>1 DEF Apart, Composed, Writer
      <4>2. CASE q # p
        BY <4>2, <2>1, <2>2, <2>7 DEF RecordKept, Apart, history
      <4> QED  BY <4>1, <4>2
    <3> QED  BY <3>1, <3>2, <3>3 DEF RecordKept
  <2> QED  BY <2>1, <2>5, <2>6, <2>7 DEF RecordInv
<1>3. ASSUME NEW p \in Proc, Crash(p) PROVE RecordInv'
  <2>1. /\ UNCHANGED <<now, files, job, lastSend>> /\ (interfered => interfered')
        /\ pc'[p] = "ended" /\ ~owns'[p] /\ copy'[p] = Blank
        /\ pc[p] = "send" => interfered'
        /\ \A q \in Proc \ {p} : /\ pc'[q] = pc[q] /\ op'[q] = op[q] /\ copy'[q] = copy[q]
                                 /\ owns'[q] = owns[q]
    BY <1>3 DEF Crash, Goto, Drop, TypeOK, history
  <2>2. /\ \A q \in Proc \ {p} : /\ Writer(q)' = Writer(q) /\ Section(q)' = Section(q)
                                 /\ Composed(q)' = Composed(q)
        /\ ~Writer(p)' /\ ~Section(p)' /\ ~Composed(p)'
    BY <2>1 DEF Writer, Section, Sender, Composed
  <2> SUFFICES ASSUME ~interfered'
               PROVE  /\ OneHolder' /\ OneWriter' /\ LastHeld' /\ LastReal'
                      /\ \A q \in Proc : RecordKept(q)'
    BY DEF RecordInv
  <2>4. OneHolder' /\ OneWriter'
    BY <2>1, <2>2 DEF RecordInv, OneHolder, OneWriter, files
  <2>5. LastHeld' /\ LastReal'
    BY <2>1, <2>2 DEF RecordInv, LastHeld, LastReal, Held, Aged, Saved, Records, Copies, files
  <2>6. RecordKept(p)'
    BY <2>1, <2>2 DEF RecordKept, WriteSaved, OwnMessage, SendHeld, Apart
  <2>7. ASSUME NEW q \in Proc \ {p} PROVE RecordKept(q)'
    <3>1. RecordKept(q)
      BY <2>1 DEF RecordInv
    <3>2. WriteSaved(q)' /\ OwnMessage(q)' /\ Apart(q)'
      BY <2>1, <2>2, <3>1 DEF RecordKept, WriteSaved, OwnMessage, Apart, Aged, Saved, files
    <3>3. SendHeld(q)'
      BY <2>1, <2>2, <3>1 DEF RecordKept, SendHeld, Held, Aged, Saved, Records, Copies, files
    <3> QED  BY <3>2, <3>3 DEF RecordKept
  <2> QED  BY <2>4, <2>5, <2>6, <2>7
<1>4. CASE Tick
  <2>1. /\ now' = now + 1 /\ now \in Nat /\ MaxAge \in Nat /\ lastSend.time \in Nat
        /\ file.time \in Nat /\ Horizon \in Nat /\ \A q \in Proc : copy[q].time \in Nat
        /\ UNCHANGED <<files, pc, locals, history, interfered>>
    BY <1>4, Times DEF Tick
  <2>2. \A t \in Nat : Aged(t) => now + 1 - t > MaxAge
    BY <2>1 DEF Aged
  <2>4. OneHolder /\ OneWriter => OneHolder' /\ OneWriter'
    BY <2>1 DEF OneHolder, OneWriter, Section, Sender, Writer, files, locals
  <2>5. LastHeld /\ LastReal => LastHeld' /\ LastReal'
    BY <2>1, <2>2 DEF LastHeld, LastReal, Held, Aged, Saved, Records, Copies, Writer, files,
       locals, history
  <2>6. ASSUME NEW q \in Proc, RecordKept(q) PROVE RecordKept(q)'
    <3>1. WriteSaved(q)' /\ OwnMessage(q)'
      BY <2>1, <2>2, <2>6 DEF RecordKept, WriteSaved, OwnMessage, Composed, Writer, Aged, Saved,
         files, locals
    <3>2. SendHeld(q)'
      BY <2>1, <2>2, <2>6 DEF RecordKept, SendHeld, Held, Aged, Saved, Records, Copies, Writer,
         files, locals
    <3>3. Apart(q)'
      BY <2>1, <2>6 DEF RecordKept, Apart, Composed, Writer, locals, history
    <3> QED  BY <3>1, <3>2, <3>3 DEF RecordKept
  <2> QED  BY <2>1, <2>4, <2>5, <2>6 DEF RecordInv
<1>5. CASE UNCHANGED vars
  BY <1>5 DEF vars, files, locals, history, RecordInv, OneHolder, OneWriter,
     LastHeld, LastReal, RecordKept, WriteSaved, OwnMessage, SendHeld, Apart, Held, Aged, Saved,
     Records, Copies, Section, Sender, Composed, Writer
<1> QED  BY <1>1, <1>2, <1>3, <1>4, <1>5 DEF Next

\* The unlocked state file is record enough: as long as no update of it overlaps
\* another or meets a torn file, no lock is lost or taken from a live process and no
\* hook is killed over a record, the same message is not sent twice in a row within the
\* duplicate window or the clean-up age, for any number of hooks and any timing.
THEOREM NoRepeat == Spec => NoRepeatUnlessInterfered
<1> DEFINE KeepsApart ==
      \A p \in Proc : Sends(p) /\ lastSend.msg = job[p].msg /\ ~interfered =>
          copy[p].time - lastSend.time > Horizon
<1>1. Init => DuplicateInv /\ ClockInv /\ RecordInv
  BY DEF Init, RecordInv, OneHolder, OneWriter, LastHeld, LastReal, RecordKept,
     WriteSaved, OwnMessage, SendHeld, Apart, Section, Sender, Composed, Writer, Missing, Blank,
     DuplicateInv, Decided, FileKnown, CopyKnown, DuplicatesKnown, None, ClockInv, TimesPast,
     RetriesLater, HasOp
<1>2. TypeOK /\ HasJob /\ DuplicateInv /\ ClockInv /\ RecordInv /\ [Next]_vars
        => DuplicateInv' /\ ClockInv' /\ RecordInv'
  BY DuplicateInvStep, ClockInvStep, RecordInvStep DEF DuplicateInv
<1>3. RecordInv => KeepsApart
  BY DEF RecordInv, RecordKept, Apart, Composed, Sends
<1> QED
  BY <1>1, <1>2, <1>3, TypesHold, PTL DEF Spec, NoRepeatUnlessInterfered

-----------------------------------------------------------------------------
-----------------------------------------------------------------------------
\* What makes QuestionKeepsDistance hold: a question that has passed the cooldown, and
\* was not overtaken since, is that far from the notification about to be sent, or else
\* from the one sent last, whose record the file keeps; once it has the content lock no
\* other can come between.
Far(x, y) == x - y >= CooldownAny \/ x - y > MaxAge
Asking(q) ==
    \/ pc[q] \in {"cooldownTask", "ccreate", "cinspect", "cunlink", "crecreate", "check"}
    \/ pc[q] = "load" /\ op[q] = "notify"
Clear ==
    /\ \A q \in Proc : pc[q] = "send" => Far(now, copy[q].time)
    /\ (\A q \in Proc : pc[q] # "send") /\ lastSend.time # 0 => Far(now, lastSend.time)

Distance(q) ==
    job[q].status = "question" /\ q \notin overtaken =>
        /\ Asking(q) => Clear
        /\ Composed(q) /\ lastSend.time # 0 => Far(copy[q].time, lastSend.time)

DistanceInv ==
    /\ lastSend.msg = None => lastSend.time = 0
    /\ \A q \in Proc : op[q] = "task" => /\ pc[q] \in {"load", "truncate", "write"}
                                         /\ job[q].status # "question"
    /\ ~interfered => \A q \in Proc : Distance(q)

\* How a hook gets behind the cooldown.
LEMMA AskingMoves ==
  ASSUME TypeOK, ClockInv, NEW p \in Proc, Step(p), job[p].status = "question",
         op[p] # "task", Asking(p)'
  PROVE  Asking(p) \/ (NotSuppressed(p) /\ pc[p] = "cooldownAny") \/ interfered'
<1> USE DEF TypeOK, Goto, Exit, Asking, locals, None
<1>1. CASE EarlyExists(p) \/ EarlyDuplicate(p) \/ Classify(p) \/ Filtered(p) \/ Unfiltered(p)
  BY <1>1 DEF EarlyExists, EarlyDuplicate, Classify, Filtered, Unfiltered
<1>2. CASE LockCreated(p)
  BY <1>2 DEF LockCreated, AfterLock
<1>3. CASE LockFails(p) \/ LockRefused(p) \/ LockExists(p) \/ LockStale(p) \/ LockRemove(p)
  BY <1>3 DEF LockFails, LockRefused, LockExists, LockStale, LockRemove
<1>4. CASE Suppressed(p) \/ NotSuppressed(p) \/ CooldownFails(p)
  BY <1>4 DEF Suppressed, NotSuppressed, CooldownFails
<1>5. CASE Load(p)
  BY <1>5 DEF Load
<1>6. CASE LoadFails(p)
  BY <1>6 DEF LoadFails, AfterUpdate, ClockInv, HasOp
<1>7. CASE Truncate(p)
  BY <1>7 DEF Truncate
<1>8. CASE Write(p) \/ SaveFails(p)
  BY <1>8 DEF Write, SaveFails, AfterUpdate, ClockInv, HasOp, Writer
<1>9. CASE ContentCreated(p) \/ ContentError(p) \/ ContentBusy(p)
  BY <1>9 DEF ContentCreated, ContentError, ContentBusy
<1>10. CASE ContentExists(p) \/ ContentStale(p) \/ ContentRemove(p)
  BY <1>10 DEF ContentExists, ContentStale, ContentRemove
<1>11. CASE Duplicate(p) \/ NotDuplicate(p) \/ CheckFails(p)
  BY <1>11 DEF Duplicate, NotDuplicate, CheckFails
<1>12. CASE Send(p) \/ SendFails(p) \/ Release(p)
  BY <1>12 DEF Send, SendFails, Release
<1>13. CASE CleanLocks(p) \/ CleanState(p)
  BY <1>13 DEF CleanLocks, CleanState
<1> QED
  BY <1>1, <1>2, <1>3, <1>4, <1>5, <1>6, <1>7, <1>8, <1>9, <1>10, <1>11, <1>12, <1>13
     DEF Step

\* A question never records a completed task.
LEMMA TaskMoves ==
  ASSUME TypeOK, ClockInv, NEW p \in Proc, Step(p),
         op[p] = "task" => pc[p] \in {"load", "truncate", "write"} /\ job[p].status # "question",
         op'[p] = "task"
  PROVE  pc'[p] \in {"load", "truncate", "write"} /\ job[p].status # "question"
<1> USE DEF TypeOK, Goto, Exit, locals, None
<1>1. CASE EarlyExists(p) \/ EarlyDuplicate(p) \/ Classify(p) \/ Filtered(p) \/ Unfiltered(p)
  BY <1>1 DEF EarlyExists, EarlyDuplicate, Classify, Filtered, Unfiltered
<1>2. CASE LockCreated(p)
  BY <1>2 DEF LockCreated, AfterLock
<1>3. CASE LockFails(p) \/ LockRefused(p) \/ LockExists(p) \/ LockStale(p) \/ LockRemove(p)
  BY <1>3 DEF LockFails, LockRefused, LockExists, LockStale, LockRemove
<1>4. CASE Suppressed(p) \/ NotSuppressed(p) \/ CooldownFails(p)
  BY <1>4 DEF Suppressed, NotSuppressed, CooldownFails
<1>5. CASE Load(p)
  BY <1>5 DEF Load
<1>6. CASE LoadFails(p)
  BY <1>6 DEF LoadFails, AfterUpdate, Drop
<1>7. CASE Truncate(p)
  BY <1>7 DEF Truncate
<1>8. CASE Write(p) \/ SaveFails(p)
  BY <1>8 DEF Write, SaveFails, AfterSave, Drop
<1>9. CASE ContentCreated(p) \/ ContentError(p) \/ ContentBusy(p)
  BY <1>9 DEF ContentCreated, ContentError, ContentBusy
<1>10. CASE ContentExists(p) \/ ContentStale(p) \/ ContentRemove(p)
  BY <1>10 DEF ContentExists, ContentStale, ContentRemove
<1>11. CASE Duplicate(p) \/ NotDuplicate(p) \/ CheckFails(p)
  BY <1>11 DEF Duplicate, NotDuplicate, CheckFails
<1>12. CASE Send(p) \/ SendFails(p) \/ Release(p)
  BY <1>12 DEF Send, SendFails, Release, Drop
<1>13. CASE CleanLocks(p) \/ CleanState(p)
  BY <1>13 DEF CleanLocks, CleanState
<1> QED
  BY <1>1, <1>2, <1>3, <1>4, <1>5, <1>6, <1>7, <1>8, <1>9, <1>10, <1>11, <1>12, <1>13
     DEF Step

\* Once overtaken, a question stays so; a record of another overtakes it.
LEMMA OvertakenGrows ==
  ASSUME TypeOK, NEW p \in Proc, Step(p)
  PROVE  overtaken \subseteq overtaken'
<1>1. CASE Write(p)
  BY <1>1 DEF Write
<1>2. CASE Send(p)
  BY <1>2 DEF Send
<1>3. CASE ~Write(p) /\ ~Send(p)
  BY <1>3 DEF Step, history, EarlyExists, EarlyDuplicate, Classify, Filtered, Unfiltered,
     LockCreated, LockFails, LockRefused, LockExists, LockStale, LockRemove, Suppressed,
     NotSuppressed, CooldownFails, Load, LoadFails, Truncate, SaveFails, ContentCreated,
     ContentError, ContentBusy, ContentExists, ContentStale, ContentRemove, Duplicate,
     NotDuplicate, CheckFails, SendFails, Release, CleanLocks, CleanState
<1> QED  BY <1>1, <1>2, <1>3

\* A question passes the cooldown when every record before it is far enough back.
LEMMA PassedClear ==
  ASSUME TypeOK, HasJob, DuplicateInv, ClockInv, RecordInv, DistanceInv, ~interfered,
         ~interfered', NEW p \in Proc, NotSuppressed(p), pc[p] = "cooldownAny"
  PROVE  Clear
<1>t. /\ now \in Nat /\ MaxAge \in Nat /\ CooldownAny \in Nat /\ lastSend.time \in Nat
      /\ file.time \in Nat /\ \A q \in Proc : copy[q].time \in Nat
  BY Times
<1>1. CooldownOver("time", CooldownAny) /\ file # Corrupt
  BY DEF NotSuppressed
<1>2. \A t \in Nat : \A m : t # 0 /\ Held(t, m) => Far(now, t)
  <2> SUFFICES ASSUME NEW t \in Nat, NEW m, t # 0, Held(t, m) PROVE Far(now, t)
    OBVIOUS
  <2>1. CASE Aged(t)
    BY <2>1 DEF Aged, Far
  <2>2. CASE file # Missing /\ file.time = t
    <3>1. file.kind = "valid"
      BY <1>1, <2>2 DEF TypeOK, State, ValidState
    <3> QED  BY <1>1, <2>2, <3>1 DEF CooldownOver, Far
  <2> QED  BY <1>1, <2>1, <2>2 DEF Held, Saved, Records
<1>3. ASSUME NEW q \in Proc, pc[q] = "send" PROVE Far(now, copy[q].time)
  <2>1. Held(copy[q].time, copy[q].msg) /\ copy[q].time # 0
    BY <1>3 DEF RecordInv, RecordKept, SendHeld, OwnMessage, Composed
  <2> QED  BY <1>t, <1>2, <2>1
<1>4. ASSUME \A q \in Proc : pc[q] # "send", lastSend.time # 0 PROVE Far(now, lastSend.time)
  <2>1. Held(lastSend.time, lastSend.msg)
    BY <1>4 DEF DistanceInv, RecordInv, LastHeld
  <2> QED  BY <1>t, <1>2, <1>4, <2>1
<1> QED  BY <1>3, <1>4 DEF Clear

\* What is far enough back for a question stays so, unless a record is made meanwhile.
LEMMA ClearStep ==
  ASSUME TypeOK, HasJob, DuplicateInv, ClockInv, RecordInv, ~interfered', NEW p \in Proc, Step(p),
         ~(Write(p) /\ op[p] = "notify"), Clear
  PROVE  Clear'
<1>1. now' = now /\ now \in Nat
  BY LockMoves, Times
<1>2. \A q \in Proc \ {p} : pc'[q] = pc[q] /\ copy'[q] = copy[q]
  BY OthersStay
<1>3. pc'[p] # "send"
  BY OwnMoves DEF Write, AfterUpdate, Goto, TypeOK, ClockInv, HasOp, Writer
<1>4. CASE Send(p)
  <2>1. lastSend'.time = copy[p].time /\ pc[p] = "send"
    BY <1>4 DEF Send
  <2> QED  BY <1>1, <1>2, <1>3, <2>1 DEF Clear, Far
<1>5. CASE ~Send(p)
  <2>1. lastSend' = lastSend /\ pc[p] # "send"
    BY <1>5, OwnMoves
  <2> QED  BY <1>1, <1>2, <1>3, <2>1 DEF Clear, Far
<1> QED  BY <1>4, <1>5

\* The step of a hook keeps every question's distance.
LEMMA DistanceStep ==
  ASSUME TypeOK, HasJob, DuplicateInv, ClockInv, RecordInv, DistanceInv, ~interfered',
         NEW p \in Proc, Step(p), NEW q \in Proc
  PROVE  Distance(q)'
<1>t. /\ now' = now /\ now \in Nat /\ job' = job /\ ~interfered /\ lastSend.time \in Nat
      /\ \A r \in Proc : copy[r].time \in Nat
  BY LockMoves, Times
<1>d. Distance(q)
  BY <1>t DEF DistanceInv
<1>o. overtaken \subseteq overtaken' /\ OneHolder /\ \A r \in Proc \ {p} :
         pc'[r] = pc[r] /\ copy'[r] = copy[r] /\ op'[r] = op[r]
  BY <1>t, OthersStay, OvertakenGrows DEF RecordInv
<1> SUFFICES ASSUME job[q].status = "question", q \notin overtaken'
             PROVE  /\ Asking(q)' => Clear'
                    /\ Composed(q)' /\ lastSend'.time # 0 => Far(copy'[q].time, lastSend'.time)
  BY <1>t DEF Distance, Far
<1>1. CASE Write(p) /\ op[p] = "notify"
  <2>1. lastSend' = lastSend /\ copy' = copy /\ pc'[p] = "send"
    BY <1>1 DEF Write, AfterSave, AfterUpdate, Goto, TypeOK
  <2>2. CASE q = p
    <3>1. Composed(p)
      BY <1>1 DEF Composed, Writer, Write
    <3>2. Far(copy[p].time, lastSend.time) \/ lastSend.time = 0
      BY <1>d, <1>o, <2>2, <3>1 DEF Distance
    <3> QED  BY <2>1, <2>2, <3>2 DEF Asking
  <2>3. CASE q # p
    <3>1. ~Asking(q) /\ ~Composed(q)
      BY <1>1, <1>o, <2>3 DEF Write, PastCooldown, Asking, Composed, Writer, OneHolder, Section,
         Sender
    <3> QED  BY <1>o, <2>3, <3>1 DEF Asking, Composed, Writer
  <2> QED  BY <2>2, <2>3
<1>2. CASE ~(Write(p) /\ op[p] = "notify")
  <2>1. ASSUME Asking(q)' PROVE Clear'
    <3>1. CASE Asking(q)
      <4>1. Clear
        BY <1>d, <1>o, <3>1 DEF Distance
      <4> QED  BY <1>2, <4>1, ClearStep
    <3>2. CASE q = p /\ ~Asking(p)
      <4>1. NotSuppressed(p) /\ pc[p] = "cooldownAny"
        BY <2>1, <3>2, AskingMoves DEF DistanceInv
      <4> QED  BY <1>2, <1>t, <4>1, PassedClear, ClearStep
    <3> QED  BY <1>o, <2>1, <3>1, <3>2 DEF Asking
  <2>2. ASSUME Composed(q)', lastSend'.time # 0 PROVE Far(copy'[q].time, lastSend'.time)
    <3>1. CASE q # p
      <4>1. Composed(q) /\ ~Send(p)
        BY <1>o, <2>2, <3>1 DEF Composed, Writer, Send, OneHolder, Section, Sender
      <4>2. lastSend' = lastSend
        BY <4>1, OwnMoves
      <4> QED  BY <1>d, <1>o, <2>2, <3>1, <4>1, <4>2 DEF Distance
    <3>2. CASE q = p
      <4>0. ~Send(p)
        BY <2>2, <3>2 DEF Send, Composed, Writer, Goto, TypeOK
      <4>1. lastSend' = lastSend
        BY <4>0, OwnMoves
      <4>2. CASE Load(p)
        <5>1. op[p] = "notify" /\ file # Corrupt /\ copy'[p] = Updated(p, Current) /\ pc[p] = "load"
          BY <2>2, <3>2, <4>2 DEF Load, Composed, Writer, Goto, TypeOK
        <5>2. Current \in ValidState
          BY <5>1, CurrentValid
        <5>3. copy'[p].time = now
          BY <5>1, <5>2 DEF Updated, ValidState
        <5>4. \A r \in Proc : pc[r] # "send"
          BY <1>o, <5>1 DEF OneHolder, Section, Sender
        <5>5. Clear
          BY <1>d, <1>o, <3>2, <5>1 DEF Distance, Asking
        <5> QED  BY <2>2, <3>2, <4>1, <5>3, <5>4, <5>5 DEF Clear
      <4>3. CASE Composed(p) /\ UNCHANGED copy
        BY <1>d, <1>o, <2>2, <3>2, <4>1, <4>3 DEF Distance
      <4> QED  BY <2>2, <3>2, <4>2, <4>3, OwnMoves
    <3> QED  BY <3>1, <3>2
  <2> QED  BY <2>1, <2>2
<1> QED  BY <1>1, <1>2

LEMMA DistanceInvStep ==
  ASSUME TypeOK, HasJob, DuplicateInv, ClockInv, RecordInv, DistanceInv, [Next]_vars
  PROVE  DistanceInv'
<1>t. /\ now \in Nat /\ MaxAge \in Nat /\ CooldownAny \in Nat /\ lastSend.time \in Nat
      /\ \A q \in Proc : copy[q].time \in Nat
  BY Times
<1>1. ASSUME NEW p \in Proc, Step(p) PROVE DistanceInv'
  <2>1. lastSend'.msg = None => lastSend'.time = 0
    BY <1>1, OwnMoves, MsgAssumption DEF DistanceInv, Send, HasJob
  <2>2. ASSUME NEW q \in Proc, op'[q] = "task"
        PROVE  pc'[q] \in {"load", "truncate", "write"} /\ job'[q].status # "question"
    <3>1. job' = job
      BY <1>1, LockMoves
    <3>2. CASE q = p
      BY <1>1, <2>2, <3>1, <3>2, TaskMoves DEF DistanceInv
    <3>3. CASE q # p
      BY <1>1, <2>2, <3>1, <3>3, OthersStay DEF DistanceInv
    <3> QED  BY <3>2, <3>3
  <2>3. ASSUME ~interfered', NEW q \in Proc PROVE Distance(q)'
    BY <1>1, <2>3, DistanceStep
  <2> QED  BY <2>1, <2>2, <2>3 DEF DistanceInv
<1>2. ASSUME NEW p \in Proc, Begin(p) PROVE DistanceInv'
  <2>1. /\ UNCHANGED <<now, files, op, copy, owns, history, interfered>>
        /\ pc[p] = "idle" /\ pc'[p] = "early"
        /\ \A q \in Proc \ {p} : pc'[q] = pc[q] /\ job'[q] = job[q]
    BY <1>2, OthersStay DEF Begin, Goto, TypeOK
  <2>2. op'[p] # "task"
    BY <2>1 DEF DistanceInv
  <2>3. Clear => Clear'
    BY <2>1 DEF Clear, Far, history
  <2>4. ASSUME NEW q \in Proc, Distance(q) PROVE Distance(q)'
    BY <2>1, <2>3, <2>4 DEF Distance, Asking, Composed, Writer, Far, history
  <2> QED  BY <2>1, <2>2, <2>4 DEF DistanceInv, history
<1>3. ASSUME NEW p \in Proc, Crash(p) PROVE DistanceInv'
  <2>1. /\ UNCHANGED <<now, job, lastSend, overtaken>> /\ pc'[p] = "ended" /\ op'[p] = None
        /\ interfered' = (interfered \/ pc[p] = "send")
        /\ \A q \in Proc \ {p} : pc'[q] = pc[q] /\ op'[q] = op[q] /\ copy'[q] = copy[q]
    BY <1>3 DEF Crash, Goto, Drop, TypeOK, history
  <2>2. ASSUME ~interfered', NEW q \in Proc PROVE Distance(q)'
    <3>1. Distance(q) /\ pc[p] # "send"
      BY <2>1, <2>2 DEF DistanceInv
    <3>2. Clear => Clear'
      BY <2>1, <3>1 DEF Clear, Far
    <3> QED  BY <2>1, <3>1, <3>2 DEF Distance, Asking, Composed, Writer, Far
  <2> QED  BY <2>1, <2>2 DEF DistanceInv, None
<1>4. CASE Tick
  <2>1. now' = now + 1 /\ UNCHANGED <<files, pc, locals, history, interfered>>
    BY <1>4 DEF Tick
  <2>2. Clear => Clear'
    BY <1>t, <2>1 DEF Clear, Far, locals, history
  <2>3. ASSUME NEW q \in Proc, Distance(q) PROVE Distance(q)'
    BY <2>1, <2>2, <2>3 DEF Distance, Asking, Composed, Writer, Far, locals, history
  <2> QED  BY <2>1, <2>3 DEF DistanceInv, locals, history
<1>5. CASE UNCHANGED vars
  BY <1>5 DEF vars, files, locals, history, DistanceInv, Distance, Clear, Far, Asking, Composed,
     Writer
<1> QED  BY <1>1, <1>2, <1>3, <1>4, <1>5 DEF Next

\* The cooldown of a question is checked long before the content lock is taken, on a file
\* that other hooks keep rewriting.  A question still comes no sooner than the cooldown
\* after the notification before it (or the clean-up age, at which the record may be
\* gone), for any number of hooks at once, except when that one's record was made
\* between the check and the lock, or a record was lost.
THEOREM QuestionsKeepDistance == Spec => QuestionKeepsDistance
<1> DEFINE KeepsDistance ==
      \A p \in Proc : Sends(p) /\ job[p].status = "question" /\ lastSend.time # 0
                        /\ p \notin overtaken /\ ~interfered =>
          \/ copy[p].time - lastSend.time >= CooldownAny
          \/ copy[p].time - lastSend.time > MaxAge
<1>1. Init => DuplicateInv /\ ClockInv /\ RecordInv /\ DistanceInv
  BY DEF Init, RecordInv, OneHolder, OneWriter, LastHeld, LastReal, RecordKept,
     WriteSaved, OwnMessage, SendHeld, Apart, Section, Sender, Composed, Writer, Missing, Blank,
     DuplicateInv, Decided, FileKnown, CopyKnown, DuplicatesKnown, None, ClockInv, TimesPast,
     RetriesLater, HasOp, DistanceInv, Distance, Asking
<1>2. TypeOK /\ HasJob /\ DuplicateInv /\ ClockInv /\ RecordInv /\ DistanceInv /\ [Next]_vars
        => DuplicateInv' /\ ClockInv' /\ RecordInv' /\ DistanceInv'
  BY DuplicateInvStep, ClockInvStep, RecordInvStep, DistanceInvStep DEF DuplicateInv
<1>3. DistanceInv => KeepsDistance
  BY DEF DistanceInv, Distance, Composed, Sends, Far
<1> QED
  BY <1>1, <1>2, <1>3, TypesHold, PTL DEF Spec, QuestionKeepsDistance
=============================================================================
