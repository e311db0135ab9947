------------------------------- MODULE Dedup -------------------------------
(***************************************************************************)
(* The lock files of internal/dedup: one file, used by hook processes that *)
(* share nothing but the file system.  The same algorithm is run on two    *)
(* files; a behaviour of this module is about one of them:                 *)
(*   - the event lock  (session, hook event): two-phase, TTL 2 s, never    *)
(*     released, left to age out;                                          *)
(*   - the content lock (session): one phase, TTL 5 s, released on exit.   *)
(* Clean-up runs beside both, in hooks of any session.                     *)
(* A step is one system call on the file, with the clock read that goes    *)
(* with it.  A file is its modification time; time 0 stands for "no file", *)
(* which is what platform.FileMTime returns for one.  Definitions named    *)
(* Mutant... are faulty variants used to show that a property can fail.    *)
(***************************************************************************)
EXTENDS Integers

CONSTANTS
    Call,           \* hook processes that want the lock
    Cleaner,        \* hook processes (of any session) that run Cleanup
    TTL,            \* age in seconds from which a lock is stale
    MaxAge,         \* age in seconds above which Cleanup removes a lock
    Kinds,          \* which of the two locks are looked at
    MaxTime         \* bound: the clock stops here

ASSUME TTLAssumption    == TTL \in Nat \ {0}
ASSUME MaxAgeAssumption == MaxAge \in Nat /\ MaxAge >= TTL
ASSUME KindAssumption   == Kinds \subseteq {"event", "content"}
ASSUME TimeAssumption   == MaxTime \in Nat \ {0}

VARIABLES
    kind,       \* the lock this behaviour is about
    now,        \* the wall clock, in whole seconds
    mtime,      \* modification time of the lock file, 0 when it does not exist
    pc,         \* where each hook process is
    cpc,        \* where each cleaner is
    began,      \* history: when the current call of each process began
    firstWin,   \* history: when the lock was first acquired, 0 if never
    lastWin,    \* history: when the lock was last acquired, 0 if never
    takeover,   \* history: a lock has been removed by a process not its releaser
    orphaned,   \* history: a process removed a lock and ended without another try
    swept       \* history: the hooks whose early check lost the file to a clean-up

vars == <<kind, now, mtime, pc, cpc, began, firstWin, lastWin, takeover, orphaned, swept>>

\* Phase 1 is for the event lock, the release for the content lock.
HasEarlyCheck == kind = "event"
Releases      == kind = "content"

Ended  == {"idle", "duplicate", "skipped", "refused", "failed", "done", "crashed"}
Active == {"early", "earlyAge", "checked", "exists", "stale", "recreate", "held"}

Missing  == -1
FileAge  == IF mtime = 0 THEN Missing ELSE now - mtime

MutantFreshAtTTL(age)  == age >= 0 /\ age <= TTL
MutantFreshIfMissing(age) == age < TTL
MutantFreshShort(age)  == age >= 0 /\ age < TTL - 1
Fresh(age) == age >= 0 /\ age < TTL

Goto(c, label) == pc' = [pc EXCEPT ![c] = label]

Init ==
    /\ kind \in Kinds
    /\ now = 1
    /\ mtime = 0
    /\ pc = [c \in Call |-> "idle"]
    /\ cpc = [k \in Cleaner |-> "rest"]
    /\ began = [c \in Call |-> 0]
    /\ firstWin = 0
    /\ lastWin = 0
    /\ takeover = FALSE
    /\ orphaned = FALSE
    /\ swept = {}

-----------------------------------------------------------------------------
\* The hook runs again for the same session and event, as a new process.
Start(c) ==
    /\ pc[c] \in Ended
    /\ Goto(c, IF HasEarlyCheck THEN "early" ELSE "checked")
    /\ swept' = swept \ {c}
    /\ began' = [began EXCEPT ![c] = now]
    /\ UNCHANGED <<kind, now, mtime, cpc, firstWin, lastWin, takeover, orphaned>>

\* CheckEarlyDuplicate, first stat: no file, no duplicate.
EarlyExists(c) ==
    /\ pc[c] = "early"
    /\ Goto(c, IF mtime = 0 THEN "checked" ELSE "earlyAge")
    /\ UNCHANGED <<kind, now, mtime, cpc, began, firstWin, lastWin, takeover, orphaned, swept>>

\* CheckEarlyDuplicate, second stat: a file that has gone since counts as fresh.
EarlyAge(c) ==
    /\ pc[c] = "earlyAge"
    /\ Goto(c, IF FileAge = Missing \/ Fresh(FileAge) THEN "duplicate" ELSE "checked")
    /\ UNCHANGED <<kind, now, mtime, cpc, began, firstWin, lastWin, takeover, orphaned, swept>>

\* The validation between the phases ends the hook before it takes the lock.
Skip(c) ==
    /\ HasEarlyCheck
    /\ pc[c] = "checked"
    /\ Goto(c, "skipped")
    /\ UNCHANGED <<kind, now, mtime, cpc, began, firstWin, lastWin, takeover, orphaned, swept>>

MutantWinWithoutExcl(c) ==
    /\ mtime' = now
    /\ lastWin' = now
    /\ firstWin' = IF firstWin = 0 THEN now ELSE firstWin
    /\ Goto(c, "held")
    /\ UNCHANGED <<kind, now, cpc, began, takeover, orphaned, swept>>

\* AtomicCreateFile succeeded: the file is c's.
Win(c) ==
    /\ mtime = 0
    /\ mtime' = now
    /\ lastWin' = now
    /\ firstWin' = IF firstWin = 0 THEN now ELSE firstWin
    /\ Goto(c, "held")
    /\ UNCHANGED <<kind, now, cpc, began, takeover, orphaned, swept>>

\* AtomicCreateFile found a file.
FindsFile(c, label) ==
    /\ mtime # 0
    /\ Goto(c, label)
    /\ UNCHANGED <<kind, now, mtime, cpc, began, firstWin, lastWin, takeover, orphaned, swept>>

\* AcquireLock / AcquireContentLock: first O_EXCL create.
Create(c) ==
    /\ pc[c] = "checked"
    /\ Win(c) \/ FindsFile(c, "exists")

\* The age of the file that was in the way; a file that has gone counts as stale.
Inspect(c) ==
    /\ pc[c] = "exists"
    /\ Goto(c, IF Fresh(FileAge) THEN "refused" ELSE "stale")
    /\ UNCHANGED <<kind, now, mtime, cpc, began, firstWin, lastWin, takeover, orphaned, swept>>

MutantUnlinkLeavesMissing(c) ==
    /\ pc[c] = "stale"
    /\ mtime' = Missing
    /\ takeover' = (takeover \/ mtime # 0)
    /\ Goto(c, "recreate")
    /\ UNCHANGED <<kind, now, cpc, began, firstWin, lastWin, orphaned, swept>>

\* os.Remove of whatever file is there by now.
Unlink(c) ==
    /\ pc[c] = "stale"
    /\ mtime' = 0
    /\ takeover' = (takeover \/ mtime # 0)
    /\ Goto(c, "recreate")
    /\ UNCHANGED <<kind, now, cpc, began, firstWin, lastWin, orphaned, swept>>

\* Second O_EXCL create; a file that appeared meanwhile ends the call.
Recreate(c) ==
    /\ pc[c] = "recreate"
    /\ Win(c) \/ FindsFile(c, "refused")

\* The create failed for another reason (permissions, full disk).
Fail(c) ==
    /\ pc[c] \in {"checked", "recreate"}
    /\ Goto(c, "failed")
    /\ orphaned' = (orphaned \/ pc[c] = "recreate")
    /\ UNCHANGED <<kind, now, mtime, cpc, began, firstWin, lastWin, takeover, swept>>

\* ReleaseContentLock: the stat before the remove adds no behaviour, a missing
\* file is left alone either way.
Release(c) ==
    /\ Releases
    /\ pc[c] = "held"
    /\ mtime' = 0
    /\ Goto(c, "done")
    /\ UNCHANGED <<kind, now, cpc, began, firstWin, lastWin, takeover, orphaned, swept>>

\* The event lock stays behind when the hook ends.
Finish(c) ==
    /\ ~Releases
    /\ pc[c] = "held"
    /\ Goto(c, "done")
    /\ UNCHANGED <<kind, now, mtime, cpc, began, firstWin, lastWin, takeover, orphaned, swept>>

\* Claude Code kills a hook that exceeds its timeout, or it dies by itself.
Crash(c) ==
    /\ pc[c] \in Active
    /\ Goto(c, "crashed")
    /\ orphaned' = (orphaned \/ pc[c] = "recreate")
    /\ UNCHANGED <<kind, now, mtime, cpc, began, firstWin, lastWin, takeover, swept>>

-----------------------------------------------------------------------------
\* CleanupOldFiles: the age is read in one step, the file removed in another.
CleanupInspect(k) ==
    /\ cpc[k] = "rest"
    /\ FileAge > MaxAge
    /\ cpc' = [cpc EXCEPT ![k] = "unlink"]
    /\ UNCHANGED <<kind, now, mtime, pc, began, firstWin, lastWin, takeover, orphaned, swept>>

CleanupUnlink(k) ==
    /\ cpc[k] = "unlink"
    /\ cpc' = [cpc EXCEPT ![k] = "rest"]
    /\ mtime' = 0
    /\ swept' = IF mtime = 0 THEN swept ELSE swept \cup {c \in Call : pc[c] = "earlyAge"}
    /\ takeover' = (takeover \/ mtime # 0)
    /\ UNCHANGED <<kind, now, pc, began, firstWin, lastWin, orphaned>>

Tick ==
    /\ now < MaxTime
    /\ now' = now + 1
    /\ UNCHANGED <<kind, mtime, pc, cpc, began, firstWin, lastWin, takeover, orphaned, swept>>

Next ==
    \/ \E c \in Call :
          \/ Start(c) \/ EarlyExists(c) \/ EarlyAge(c) \/ Skip(c)
          \/ Create(c) \/ Inspect(c) \/ Unlink(c) \/ Recreate(c)
          \/ Fail(c) \/ Release(c) \/ Finish(c) \/ Crash(c)
    \/ \E k \in Cleaner : CleanupInspect(k) \/ CleanupUnlink(k)
    \/ Tick

Spec == Init /\ [][Next]_vars

-----------------------------------------------------------------------------
\* Types; no timestamp is later than the clock.
TypeOK ==
    /\ kind \in Kinds
    /\ now \in 1..MaxTime
    /\ mtime \in 0..now
    /\ pc \in [Call -> Ended \cup Active]
    /\ cpc \in [Cleaner -> {"rest", "unlink"}]
    /\ began \in [Call -> 0..now]
    /\ firstWin \in 0..now
    /\ lastWin \in 0..now
    /\ takeover \in BOOLEAN
    /\ orphaned \in BOOLEAN
    /\ swept \subseteq Call

\* The lock was acquired during c's current call, or so shortly before it that
\* the notification it stands for covers c.
HasWinner(c) == lastWin # 0 /\ lastWin > began[c] - TTL

\* AcquireLock and AcquireContentLock turn a hook away only when another one
\* acquired the lock during the call or less than TTL before it began: of the
\* hooks that reach phase 2 at least one goes on to notify.
RefusedHasWinner == \A c \in Call : pc[c] = "refused" => HasWinner(c)

\* The same for phase 1: once every process has ended, and none died between
\* removing a stale lock and creating its own, a hook that CheckEarlyDuplicate
\* called a duplicate has a winner, unless a clean-up removed the lock between its
\* two stats: that hook is a duplicate of nothing.
DuplicateHasWinner ==
    ~orphaned /\ (\A c \in Call : pc[c] \in Ended) =>
        \A c \in Call : pc[c] = "duplicate" /\ c \notin swept => HasWinner(c)

\* The event lock, which nobody releases, keeps a whole first burst of hooks to one
\* winner: no second process acquires it within TTL of the first.
FirstBurstExclusive ==
    [][\A c \in Call : kind = "event" /\ pc[c] # "held" /\ pc'[c] = "held" =>
          firstWin = 0 \/ now - firstWin >= TTL]_vars

\* As long as no process has removed a file on the grounds of its age, at most
\* one process is between acquiring the content lock and releasing it.
ExclusiveUntilTakeover ==
    kind = "content" /\ ~takeover => \A c, d \in Call : pc[c] = "held" /\ pc[d] = "held" => c = d

\* At most one process at a time holds the lock.
Exclusive == \A c, d \in Call : pc[c] = "held" /\ pc[d] = "held" => c = d

=============================================================================
