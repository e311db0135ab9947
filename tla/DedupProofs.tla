---------------------------- MODULE DedupProofs ----------------------------
(***************************************************************************)
(* Proofs about the lock files of Dedup, for every number of processes and *)
(* cleaners and every TTL, clean-up age and clock bound.                   *)
(***************************************************************************)
EXTENDS Dedup, TLAPS

USE TTLAssumption, MaxAgeAssumption, KindAssumption, TimeAssumption
    DEF Ended, Active

\* Type correctness: the lock file, the processes and the history keep their
\* types, and no timestamp ever lies in the future.
THEOREM TypeCorrect == Spec => []TypeOK
<1>1. Init => TypeOK
  <2> SUFFICES ASSUME Init PROVE TypeOK
    OBVIOUS
  <2>1. now \in 1..MaxTime /\ mtime \in 0..now /\ firstWin \in 0..now /\ lastWin \in 0..now
    BY DEF Init
  <2>2. pc \in [Call -> Ended \cup Active] /\ cpc \in [Cleaner -> {"rest", "unlink"}]
    BY DEF Init
  <2>3. 0 \in 0..now
    BY DEF Init
  <2>4. began \in [Call -> 0..now]
    BY <2>3 DEF Init
  <2>5. kind \in Kinds /\ takeover \in BOOLEAN /\ orphaned \in BOOLEAN /\ swept \subseteq Call
    BY DEF Init
  <2> QED
    BY <2>1, <2>2, <2>4, <2>5 DEF TypeOK
<1>2. TypeOK /\ [Next]_vars => TypeOK'
  <2> SUFFICES ASSUME TypeOK, [Next]_vars PROVE TypeOK'
    OBVIOUS
  <2> USE DEF TypeOK, Goto
  <2>1. ASSUME NEW c \in Call, Start(c) PROVE TypeOK'
    BY <2>1 DEF Start
  <2>2. ASSUME NEW c \in Call, EarlyExists(c) PROVE TypeOK'
    BY <2>2 DEF EarlyExists
  <2>3. ASSUME NEW c \in Call, EarlyAge(c) PROVE TypeOK'
    BY <2>3 DEF EarlyAge
  <2>4. ASSUME NEW c \in Call, Skip(c) PROVE TypeOK'
    BY <2>4 DEF Skip
  <2>5. ASSUME NEW c \in Call, Win(c) PROVE TypeOK'
    BY <2>5 DEF Win
  <2>6. ASSUME NEW c \in Call, Create(c) PROVE TypeOK'
    BY <2>5, <2>6 DEF Create, FindsFile
  <2>7. ASSUME NEW c \in Call, Inspect(c) PROVE TypeOK'
    BY <2>7 DEF Inspect
  <2>8. ASSUME NEW c \in Call, Unlink(c) PROVE TypeOK'
    BY <2>8 DEF Unlink
  <2>9. ASSUME NEW c \in Call, Recreate(c) PROVE TypeOK'
    BY <2>5, <2>9 DEF Recreate, FindsFile
  <2>10. ASSUME NEW c \in Call, Fail(c) \/ Crash(c) PROVE TypeOK'
    BY <2>10 DEF Fail, Crash
  <2>11. ASSUME NEW c \in Call, Release(c) \/ Finish(c) PROVE TypeOK'
    BY <2>11 DEF Release, Finish
  <2>12. ASSUME NEW k \in Cleaner, CleanupInspect(k) \/ CleanupUnlink(k) PROVE TypeOK'
    <3>1. CASE CleanupInspect(k)
      BY <3>1 DEF CleanupInspect
    <3>2. CASE CleanupUnlink(k)
      BY <3>2 DEF CleanupUnlink
    <3> QED
      BY <2>12, <3>1, <3>2
  <2>13. CASE Tick
    <3>1. 0..now \subseteq 0..now' /\ now' \in 1..MaxTime
      BY <2>13 DEF Tick
    <3>2. began' \in [Call -> 0..now']
      BY <2>13, <3>1 DEF Tick
    <3> QED
      BY <2>13, <3>1, <3>2 DEF Tick
  <2>14. CASE UNCHANGED vars
    BY <2>14 DEF vars
  <2> QED
    BY <2>1, <2>2, <2>3, <2>4, <2>6, <2>7, <2>8, <2>9, <2>10, <2>11, <2>12, <2>13, <2>14
       DEF Next
<1> QED
  BY <1>1, <1>2, PTL DEF Spec

-----------------------------------------------------------------------------
\* What makes RefusedHasWinner inductive: the file was created by a winner, and a
\* process that has just removed a file can only meet one created since.
FileHasWinner == mtime <= lastWin
RecreatedSince == \A c \in Call : pc[c] = "recreate" /\ mtime # 0 => began[c] <= mtime
WinnerInv == FileHasWinner /\ RecreatedSince /\ RefusedHasWinner

LEMMA WinnerInvInit == Init => WinnerInv
  BY DEF Init, WinnerInv, FileHasWinner, RecreatedSince, RefusedHasWinner

\* Winning moves the last win to the present, which is no earlier than any call.
LEMMA WinKeepsWinnerInv ==
  ASSUME TypeOK, WinnerInv, NEW c \in Call, Win(c) PROVE WinnerInv'
  BY DEF TypeOK, WinnerInv, Win, Goto, FileHasWinner, RecreatedSince, RefusedHasWinner, HasWinner

LEMMA WinnerInvStep ==
  ASSUME TypeOK, WinnerInv, [Next]_vars PROVE WinnerInv'
<1> USE DEF TypeOK, WinnerInv, FileHasWinner, RecreatedSince, RefusedHasWinner, HasWinner, Goto
<1>1. ASSUME NEW c \in Call, Start(c) PROVE WinnerInv'
  BY <1>1 DEF Start
<1>2. ASSUME NEW c \in Call, EarlyExists(c) \/ EarlyAge(c) \/ Skip(c) PROVE WinnerInv'
  BY <1>2 DEF EarlyExists, EarlyAge, Skip
<1>3. ASSUME NEW c \in Call, Create(c) PROVE WinnerInv'
  BY <1>3, WinKeepsWinnerInv DEF Create, FindsFile
<1>4. ASSUME NEW c \in Call, Inspect(c) PROVE WinnerInv'
  <2>1. Fresh(FileAge) => mtime # 0 /\ now - mtime < TTL
    BY DEF Fresh, FileAge, Missing
  <2>2. Fresh(FileAge) => HasWinner(c)
    BY <2>1
  <2> QED
    BY <1>4, <2>2 DEF Inspect
<1>5. ASSUME NEW c \in Call, Unlink(c) PROVE WinnerInv'
  BY <1>5 DEF Unlink
<1>6. ASSUME NEW c \in Call, Recreate(c) PROVE WinnerInv'
  BY <1>6, WinKeepsWinnerInv DEF Recreate, FindsFile
<1>7. ASSUME NEW c \in Call, Fail(c) \/ Crash(c) PROVE WinnerInv'
  BY <1>7 DEF Fail, Crash
<1>8. ASSUME NEW c \in Call, Release(c) \/ Finish(c) PROVE WinnerInv'
  BY <1>8 DEF Release, Finish
<1>9. ASSUME NEW k \in Cleaner, CleanupInspect(k) \/ CleanupUnlink(k) PROVE WinnerInv'
  BY <1>9 DEF CleanupInspect, CleanupUnlink
<1>10. CASE Tick
  BY <1>10 DEF Tick
<1>11. CASE UNCHANGED vars
  BY <1>11 DEF vars
<1> QED
  BY <1>1, <1>2, <1>3, <1>4, <1>5, <1>6, <1>7, <1>8, <1>9, <1>10, <1>11 DEF Next

\* Of the hooks that reach AcquireLock or AcquireContentLock, none is turned away
\* unless another acquired the lock during its call or less than TTL before.
THEOREM RefusalJustified == Spec => []RefusedHasWinner
<1>1. TypeOK /\ WinnerInv /\ [Next]_vars => WinnerInv'
  BY WinnerInvStep
<1>2. WinnerInv => RefusedHasWinner
  BY DEF WinnerInv
<1> QED
  BY WinnerInvInit, TypeCorrect, <1>1, <1>2, PTL DEF Spec

-----------------------------------------------------------------------------
\* What makes ExclusiveUntilTakeover inductive: until a takeover, whoever holds
\* the lock holds it by the file.
HolderHasFile == ~takeover => \A c \in Call : pc[c] = "held" => mtime # 0
ExclusiveInv == HolderHasFile /\ ExclusiveUntilTakeover

LEMMA ExclusiveInvStep ==
  ASSUME TypeOK, ExclusiveInv, [Next]_vars PROVE ExclusiveInv'
<1> USE DEF TypeOK, ExclusiveInv, HolderHasFile, ExclusiveUntilTakeover, Goto
<1>1. ASSUME NEW c \in Call, Start(c) \/ EarlyExists(c) \/ EarlyAge(c) \/ Skip(c)
      PROVE ExclusiveInv'
  BY <1>1 DEF Start, EarlyExists, EarlyAge, Skip
<1>2. ASSUME NEW c \in Call, Win(c) PROVE ExclusiveInv'
  BY <1>2 DEF Win
<1>3. ASSUME NEW c \in Call, Create(c) \/ Recreate(c) PROVE ExclusiveInv'
  BY <1>2, <1>3 DEF Create, Recreate, FindsFile
<1>4. ASSUME NEW c \in Call, Inspect(c) PROVE ExclusiveInv'
  BY <1>4 DEF Inspect
<1>5. ASSUME NEW c \in Call, Unlink(c) PROVE ExclusiveInv'
  BY <1>5 DEF Unlink
<1>6. ASSUME NEW c \in Call, Fail(c) \/ Crash(c) PROVE ExclusiveInv'
  BY <1>6 DEF Fail, Crash
<1>7. ASSUME NEW c \in Call, Release(c) \/ Finish(c) PROVE ExclusiveInv'
  BY <1>7 DEF Release, Finish, Releases
<1>8. ASSUME NEW k \in Cleaner, CleanupInspect(k) \/ CleanupUnlink(k) PROVE ExclusiveInv'
  BY <1>8 DEF CleanupInspect, CleanupUnlink
<1>9. CASE Tick
  BY <1>9 DEF Tick
<1>10. CASE UNCHANGED vars
  BY <1>10 DEF vars
<1> QED
  BY <1>1, <1>3, <1>4, <1>5, <1>6, <1>7, <1>8, <1>9, <1>10 DEF Next

\* Two processes hold the content lock at once only after one has removed a file by
\* age.
THEOREM ExclusionUntilTakeover == Spec => []ExclusiveUntilTakeover
<1>1. Init => ExclusiveInv
  BY DEF Init, ExclusiveInv, HolderHasFile, ExclusiveUntilTakeover
<1>2. TypeOK /\ ExclusiveInv /\ [Next]_vars => ExclusiveInv'
  BY ExclusiveInvStep
<1>3. ExclusiveInv => ExclusiveUntilTakeover
  BY DEF ExclusiveInv
<1> QED
  BY <1>1, <1>2, <1>3, TypeCorrect, PTL DEF Spec

-----------------------------------------------------------------------------
\* What makes FirstBurstExclusive hold: once the event lock has been acquired, the
\* file is there until the first burst is over, and whoever goes on to remove a file
\* knows that it is over.
FirstBurstOver == firstWin # 0 /\ now - firstWin >= TTL
BurstInv ==
    kind = "event" =>
        /\ firstWin # 0 /\ mtime = 0 => FirstBurstOver
        /\ mtime # 0 => firstWin # 0 /\ firstWin <= mtime
        /\ \A c \in Call : pc[c] = "exists" => firstWin # 0
        /\ \A c \in Call : pc[c] = "stale" => FirstBurstOver
        /\ \A k \in Cleaner : cpc[k] = "unlink" => FirstBurstOver

LEMMA BurstInvStep ==
  ASSUME TypeOK, BurstInv, [Next]_vars PROVE BurstInv'
<1> USE DEF TypeOK, BurstInv, FirstBurstOver, Goto
<1>1. ASSUME NEW c \in Call, Start(c) \/ EarlyExists(c) \/ EarlyAge(c) \/ Skip(c)
      PROVE BurstInv'
  BY <1>1 DEF Start, EarlyExists, EarlyAge, Skip
<1>2. ASSUME NEW c \in Call, Win(c) PROVE BurstInv'
  BY <1>2 DEF Win
<1>3. ASSUME NEW c \in Call, Create(c) \/ Recreate(c) PROVE BurstInv'
  BY <1>2, <1>3 DEF Create, Recreate, FindsFile
<1>4. ASSUME NEW c \in Call, Inspect(c) PROVE BurstInv'
  <2>1. kind = "event" /\ pc[c] = "exists" /\ ~Fresh(FileAge) => FirstBurstOver
    BY <1>4 DEF Fresh, FileAge, Missing
  <2> QED
    BY <1>4, <2>1 DEF Inspect
<1>5. ASSUME NEW c \in Call, Unlink(c) PROVE BurstInv'
  BY <1>5 DEF Unlink
<1>6. ASSUME NEW c \in Call, Fail(c) \/ Crash(c) PROVE BurstInv'
  BY <1>6 DEF Fail, Crash
<1>7. ASSUME NEW c \in Call, Release(c) \/ Finish(c) PROVE BurstInv'
  BY <1>7 DEF Release, Finish, Releases
<1>8. ASSUME NEW k \in Cleaner, CleanupInspect(k) PROVE BurstInv'
  <2>1. kind = "event" => FirstBurstOver
    BY <1>8 DEF CleanupInspect, FileAge, Missing
  <2> QED
    BY <1>8, <2>1 DEF CleanupInspect
<1>9. ASSUME NEW k \in Cleaner, CleanupUnlink(k) PROVE BurstInv'
  BY <1>9 DEF CleanupUnlink
<1>10. CASE Tick
  BY <1>10 DEF Tick
<1>11. CASE UNCHANGED vars
  BY <1>11 DEF vars
<1> QED
  BY <1>1, <1>3, <1>4, <1>5, <1>6, <1>7, <1>8, <1>9, <1>10, <1>11 DEF Next

\* No second process acquires the event lock within TTL of its first acquisition,
\* whatever stale locks are taken over and whatever clean-ups run beside.
THEOREM FirstBurstHasOneWinner == Spec => FirstBurstExclusive
<1> DEFINE WinsLate == \A c \in Call : kind = "event" /\ pc[c] # "held" /\ pc'[c] = "held" =>
                          firstWin = 0 \/ now - firstWin >= TTL
<1>1. Init => BurstInv
  BY DEF Init, BurstInv, FirstBurstOver
<1>2. TypeOK /\ BurstInv /\ [Next]_vars => BurstInv'
  BY BurstInvStep
<1>3. TypeOK /\ BurstInv /\ [Next]_vars => [WinsLate]_vars
  <2> SUFFICES ASSUME TypeOK, BurstInv, Next, kind = "event",
                      NEW c \in Call, pc[c] # "held", pc'[c] = "held"
               PROVE  mtime = 0
    BY DEF BurstInv, FirstBurstOver
  <2> QED
    BY DEF TypeOK, Next, Start, EarlyExists, EarlyAge, Skip, Create, Win, FindsFile, Inspect,
           Unlink, Recreate, Fail, Release, Finish, Crash, CleanupInspect, CleanupUnlink, Tick, Goto
<1> QED
  BY <1>1, <1>2, <1>3, TypeCorrect, PTL DEF Spec, FirstBurstExclusive

-----------------------------------------------------------------------------
\* What makes DuplicateHasWinner inductive: a hook between the two stats of its early
\* check saw a file.  If that is gone, a clean-up took it, or a process that is about
\* to create its own did; and a hook that took a missing lock for a fresh one will
\* have a winner that comes after it, as long as that process does not give up.
Recreating == \E d \in Call : pc[d] = "recreate"
DuplicateInv ==
    /\ mtime # 0 => mtime = lastWin
    /\ \A c \in Call : pc[c] \in {"early", "earlyAge", "duplicate"} => HasEarlyCheck
    /\ ~orphaned => \A c \in Call \ swept :
          /\ pc[c] = "earlyAge" /\ mtime = 0 => HasWinner(c) \/ Recreating
          /\ pc[c] = "duplicate" => HasWinner(c) \/ (mtime = 0 /\ Recreating)

LEMMA WinKeepsDuplicateInv ==
  ASSUME TypeOK, DuplicateInv, NEW c \in Call, pc[c] \in {"checked", "recreate"}, Win(c)
  PROVE  DuplicateInv'
<1>1. mtime' = now /\ lastWin' = now /\ now # 0 /\ UNCHANGED <<kind, began, orphaned, swept>>
  BY DEF Win, TypeOK
<1>2. \A d \in Call : began[d] \in Nat /\ now > began[d] - TTL
  BY TTLAssumption DEF TypeOK
<1>3. \A d \in Call : HasWinner(d)'
  BY <1>1, <1>2 DEF HasWinner
<1>4. \A d \in Call : pc'[d] \in {"early", "earlyAge", "duplicate"} => pc'[d] = pc[d]
  BY DEF Win, Goto, TypeOK
<1> QED  BY <1>1, <1>3, <1>4 DEF DuplicateInv, HasEarlyCheck

LEMMA DuplicateInvStep ==
  ASSUME TypeOK, DuplicateInv, [Next]_vars PROVE DuplicateInv'
<1> USE DEF DuplicateInv, Recreating, Goto
<1>t. pc \in [Call -> Ended \cup Active]
  BY DEF TypeOK
<1>1. ASSUME NEW c \in Call, Start(c) PROVE DuplicateInv'
  BY <1>1, <1>t DEF Start, HasWinner, Ended, HasEarlyCheck
<1>2. ASSUME NEW c \in Call, EarlyExists(c) PROVE DuplicateInv'
  BY <1>2, <1>t DEF EarlyExists, HasWinner, TypeOK, HasEarlyCheck
<1>3. ASSUME NEW c \in Call, EarlyAge(c) PROVE DuplicateInv'
  <2>1. Fresh(FileAge) => mtime # 0 /\ HasWinner(c)
    BY <1>3, TTLAssumption DEF Fresh, FileAge, Missing, HasWinner, TypeOK
  <2>2. FileAge = Missing => mtime = 0
    BY DEF FileAge, Missing, TypeOK
  <2> QED  BY <1>3, <1>t, <2>1, <2>2 DEF EarlyAge, HasWinner, HasEarlyCheck
<1>4. ASSUME NEW c \in Call, Skip(c) \/ Inspect(c) \/ Finish(c) PROVE DuplicateInv'
  BY <1>4, <1>t DEF Skip, Inspect, Finish, HasWinner, HasEarlyCheck
<1>9. ASSUME NEW c \in Call, Release(c) PROVE DuplicateInv'
  <2>1. \A d \in Call : pc'[d] \notin {"early", "earlyAge", "duplicate"}
    BY <1>9, <1>t DEF Release, Releases, HasEarlyCheck
  <2> QED  BY <1>9, <2>1 DEF Release
<1>5. ASSUME NEW c \in Call, Create(c) \/ Recreate(c) PROVE DuplicateInv'
  <2>1. CASE Win(c)
    BY <2>1, <1>5, WinKeepsDuplicateInv DEF Create, Recreate
  <2>2. CASE ~Win(c)
    BY <2>2, <1>5, <1>t DEF Create, Recreate, FindsFile, HasWinner, HasEarlyCheck
  <2> QED  BY <2>1, <2>2
<1>6. ASSUME NEW c \in Call, Unlink(c) PROVE DuplicateInv'
  BY <1>6, <1>t DEF Unlink, HasWinner, HasEarlyCheck
<1>7. ASSUME NEW c \in Call, Fail(c) \/ Crash(c) PROVE DuplicateInv'
  BY <1>7, <1>t DEF Fail, Crash, HasWinner, HasEarlyCheck, TypeOK
<1>10. ASSUME NEW k \in Cleaner, CleanupInspect(k) PROVE DuplicateInv'
  BY <1>10 DEF CleanupInspect, HasWinner, HasEarlyCheck
<1>11. ASSUME NEW k \in Cleaner, CleanupUnlink(k) PROVE DuplicateInv'
  BY <1>11 DEF CleanupUnlink, HasWinner, HasEarlyCheck
<1>8. CASE Tick \/ UNCHANGED vars
  BY <1>8 DEF Tick, vars, HasWinner, HasEarlyCheck
<1> QED
  BY <1>1, <1>2, <1>3, <1>4, <1>5, <1>6, <1>7, <1>8, <1>9, <1>10, <1>11 DEF Next

\* A hook CheckEarlyDuplicate stops has a winner once all are through, unless a
\* clean-up removed the lock between its two stats or a process that removed a stale
\* lock ended before creating its own.
THEOREM DuplicateJustified == Spec => []DuplicateHasWinner
<1>1. Init => DuplicateInv
  BY DEF Init, DuplicateInv
<1>2. TypeOK /\ DuplicateInv /\ [Next]_vars => DuplicateInv'
  BY DuplicateInvStep
<1>3. DuplicateInv => DuplicateHasWinner
  BY DEF DuplicateInv, DuplicateHasWinner, Recreating, Ended
<1> QED
  BY <1>1, <1>2, <1>3, TypeCorrect, PTL DEF Spec

=============================================================================
