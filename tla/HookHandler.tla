---------------------------- MODULE HookHandler ----------------------------
(***************************************************************************)
(* Handler.HandleHook for one session: hook processes, each running one    *)
(* event from the early duplicate check to the deferred clean-up, over the *)
(* files they share: an event lock per hook event, the content lock and    *)
(* the session state file.  Dedup looks at one lock file alone; here the   *)
(* locks meet the read-modify-write cycles of internal/state.  Every run   *)
(* of the program is a process of its own: each starts once and ends.      *)
(* A time of 0 means never, and for a file that it does not exist.         *)
(* Definitions named Mutant... are faulty variants used to show that a     *)
(* property can fail.                                                      *)
(***************************************************************************)
EXTENDS Integers

CONSTANTS
    Proc,          \* hook processes, one for each time a hook is run
    Msg,           \* message contents, up to normalizeMessage
    Event, Status, \* the hook events and the statuses that occur
    LockTTL,       \* event lock, 2 s
    ContentTTL,    \* content lock, 5 s
    CooldownAny,   \* suppressQuestionAfterAnyNotificationSeconds
    CooldownTask,  \* suppressQuestionAfterTaskCompleteSeconds
    Window,        \* duplicate message window, 180 s
    MaxAge,        \* age above which locks and state files are removed, 60 s
    Crashes,       \* whether hook processes may be killed
    RaceUntil,     \* bound: after this time hooks run one by one, in no time
    MaxTime        \* bound: the clock stops here

ASSUME EventAssumption == Event \subseteq {"PreToolUse", "Notification", "Stop", "SubagentStop"}
ASSUME TimesAssumption ==
    /\ {LockTTL, ContentTTL, CooldownAny, CooldownTask, Window, MaxAge} \subseteq Nat
    /\ LockTTL > 0 /\ RaceUntil \in Nat /\ MaxTime \in Nat \ {0}
ASSUME CrashAssumption == Crashes \in BOOLEAN

VARIABLES
    now,        \* the wall clock, in whole seconds
    lock,       \* modification time of each event lock
    content,    \* modification time of the content lock
    file,       \* the session state file
    stamp,      \* its modification time
    pc, job,    \* where each process is; its event, status, message and start
    op, copy,   \* the state update it is in, and the state it has in memory
    owns,       \* whether it holds the content lock
    outcome,    \* history: how each process ended
    lastSend,   \* history: the last notification sent, when recorded, when sent
    overtaken,  \* history: questions that another record passed after their check
    interfered  \* history: something happened that may cost the state file a record

files == <<lock, content, file, stamp>>
locals == <<job, op, copy, owns>>
history == <<lastSend, overtaken>>
vars == <<now, files, pc, locals, outcome, history, interfered>>

None == "none"
ASSUME MsgAssumption == None \notin Msg

\* The state file: whether it can be read, LastNotificationTime,
\* LastNotificationMessage, LastTaskCompleteTime.  The handler reads no other field.
ValidState == [kind : {"valid"}, time : 0..MaxTime, msg : Msg \cup {None}, task : 0..MaxTime]
Blank   == [kind |-> "valid", time |-> 0, msg |-> None, task |-> 0]
Missing == [Blank EXCEPT !.kind = "missing"]
Corrupt == [Blank EXCEPT !.kind = "corrupt"]
State   == ValidState \cup {Missing, Corrupt}

StopEvents == {"Stop", "SubagentStop"}
Statuses(e) == CASE e = "PreToolUse"   -> {"question", "plan_ready"}
                 [] e = "Notification" -> {"question"}
                 [] OTHER              -> {"question", "task_complete", "review_complete"}

\* FileAge < ttl, with FileAge = -1 for a missing file.
Within(mtime, ttl) == mtime # 0 /\ now - mtime < ttl
Old(mtime) == mtime # 0 /\ now - mtime > MaxAge

Goto(p, label) == pc' = [pc EXCEPT ![p] = label]

\* The hook returns: a Stop still has its deferred clean-up to run.
Exit(p, how) ==
    /\ Goto(p, IF job[p].event \in StopEvents THEN "cleanLocks" ELSE "ended")
    /\ outcome' = [outcome EXCEPT ![p] = how]

Init ==
    /\ now = 1
    /\ lock = [e \in Event |-> 0] /\ content = 0
    /\ file = Missing /\ stamp = 0
    /\ pc = [p \in Proc |-> "idle"]
    /\ job = [p \in Proc |-> [event |-> None, status |-> None, msg |-> None, began |-> 0]]
    /\ op = [p \in Proc |-> None] /\ copy = [p \in Proc |-> Blank]
    /\ owns = [p \in Proc |-> FALSE]
    /\ outcome = [p \in Proc |-> None]
    /\ lastSend = [msg |-> None, time |-> 0, at |-> 0]
    /\ overtaken = {} /\ interfered = FALSE

-----------------------------------------------------------------------------
AtRest == \A p \in Proc : pc[p] \in {"idle", "ended"}

\* Claude Code runs a hook.
Begin(p) ==
    /\ pc[p] = "idle" /\ (now <= RaceUntil \/ AtRest)
    /\ \E e \in Event, m \in Msg : \E s \in Statuses(e) \cap Status :
          job' = [job EXCEPT ![p] = [event |-> e, status |-> s, msg |-> m, began |-> now]]
    /\ Goto(p, "early")
    /\ UNCHANGED <<now, files, op, copy, owns, outcome, history, interfered>>

\* Phase 1, CheckEarlyDuplicate: a lock file there is looked at again for its age.
EarlyExists(p) ==
    /\ pc[p] = "early" /\ lock[job[p].event] # 0
    /\ Goto(p, "earlyAge")
    /\ UNCHANGED <<now, files, locals, outcome, history, interfered>>

\* A file that has gone since counts as fresh.
EarlyDuplicate(p) ==
    /\ pc[p] = "earlyAge"
    /\ \/ Within(lock[job[p].event], LockTTL) /\ outcome' = [outcome EXCEPT ![p] = "early"]
       \/ lock[job[p].event] = 0 /\ outcome' = [outcome EXCEPT ![p] = "gone"]
    /\ Goto(p, "ended")
    /\ UNCHANGED <<now, files, locals, history, interfered>>

\* The event is classified; PreToolUse records its tool before anything else.
Classify(p) ==
    /\ \/ pc[p] = "early" /\ lock[job[p].event] = 0
       \/ /\ pc[p] = "earlyAge" /\ lock[job[p].event] # 0
          /\ ~Within(lock[job[p].event], LockTTL)
    /\ IF job[p].event = "PreToolUse"
       THEN Goto(p, "load") /\ op' = [op EXCEPT ![p] = "tool"]
       ELSE Goto(p, "filter") /\ UNCHANGED op
    /\ UNCHANGED <<now, files, job, copy, owns, outcome, history, interfered>>

\* Unknown status or suppress-filter: the hook ends before it takes the lock.
Filtered(p) ==
    /\ pc[p] = "filter"
    /\ Exit(p, "filtered")
    /\ UNCHANGED <<now, files, locals, history, interfered>>

Unfiltered(p) ==
    /\ pc[p] = "filter"
    /\ Goto(p, "create")
    /\ UNCHANGED <<now, files, locals, outcome, history, interfered>>

-----------------------------------------------------------------------------
\* Phase 2: AcquireLock on the lock of the event.
AfterLock(p) ==
    CASE job[p].status = "question"      -> "cooldownAny"
      [] job[p].status = "task_complete" -> "load"
      [] OTHER                           -> "ccreate"

LockCreated(p) ==
    /\ pc[p] \in {"create", "recreate"} /\ lock[job[p].event] = 0
    /\ lock' = [lock EXCEPT ![job[p].event] = now]
    /\ Goto(p, AfterLock(p))
    /\ op' = [op EXCEPT ![p] = IF AfterLock(p) = "load" THEN "task" ELSE None]
    /\ UNCHANGED <<now, content, file, stamp, job, copy, owns, outcome, history, interfered>>

\* Any other error of the create ends the hook.
LockFails(p) ==
    /\ pc[p] \in {"create", "recreate"}
    /\ Exit(p, "failed")
    /\ UNCHANGED <<now, files, locals, history, interfered>>

LockRefused(p) ==
    /\ \/ pc[p] = "recreate" /\ lock[job[p].event] # 0
       \/ pc[p] = "inspect" /\ Within(lock[job[p].event], LockTTL)
    /\ Exit(p, "locked")
    /\ UNCHANGED <<now, files, locals, history, interfered>>

LockExists(p) ==
    /\ pc[p] = "create" /\ lock[job[p].event] # 0
    /\ Goto(p, "inspect")
    /\ UNCHANGED <<now, files, locals, outcome, history, interfered>>

LockStale(p) ==
    /\ pc[p] = "inspect" /\ ~Within(lock[job[p].event], LockTTL)
    /\ Goto(p, "unlink")
    /\ UNCHANGED <<now, files, locals, outcome, history, interfered>>

LockRemove(p) ==
    /\ pc[p] = "unlink"
    /\ lock' = [lock EXCEPT ![job[p].event] = 0]
    /\ Goto(p, "recreate")
    /\ UNCHANGED <<now, content, file, stamp, locals, outcome, history, interfered>>

-----------------------------------------------------------------------------
MutantCooldownOver(field, cooldown) == file.kind # "valid" \/ now - file[field] > 0

\* Load returns an error: the file is there but cannot be read, or has gone by the
\* time it is read (which is as if that had failed before it went), or cannot be
\* parsed.
CanFail == file # Missing

\* The two question cooldowns, each with its own Load; a file that cannot be
\* parsed suppresses nothing.
CooldownOver(field, cooldown) ==
    \/ file.kind # "valid"
    \/ file[field] = 0
    \/ now - file[field] >= cooldown

Suppressed(p) ==
    /\ \/ pc[p] = "cooldownAny" /\ ~CooldownOver("time", CooldownAny)
       \/ pc[p] = "cooldownTask" /\ ~CooldownOver("task", CooldownTask)
    /\ Exit(p, "cooldown")
    /\ UNCHANGED <<now, files, locals, history, interfered>>

NotSuppressed(p) ==
    /\ \/ /\ pc[p] = "cooldownAny" /\ CooldownOver("time", CooldownAny)
          /\ Goto(p, "cooldownTask")
       \/ /\ pc[p] = "cooldownTask" /\ CooldownOver("task", CooldownTask)
          /\ Goto(p, "ccreate")
    /\ interfered' = (interfered \/ file = Corrupt)
    /\ UNCHANGED <<now, files, locals, outcome, history>>

\* A cooldown whose state cannot be read is logged and does not suppress.
CooldownFails(p) ==
    /\ CanFail
    /\ \/ pc[p] = "cooldownAny" /\ Goto(p, "cooldownTask")
       \/ pc[p] = "cooldownTask" /\ Goto(p, "ccreate")
    /\ interfered' = TRUE
    /\ UNCHANGED <<now, files, locals, outcome, history>>

-----------------------------------------------------------------------------
\* UpdateInteractiveTool, UpdateTaskComplete, UpdateLastNotification: Load, change
\* a field, Save.  os.WriteFile truncates the file before it writes it.
AfterUpdate(p) ==
    CASE op[p] = "tool" -> "filter" [] op[p] = "task" -> "ccreate" [] OTHER -> "send"

Updated(p, s) ==
    CASE op[p] = "tool" -> s
      [] op[p] = "task" -> [s EXCEPT !.task = now]
      [] OTHER          -> [s EXCEPT !.time = now, !.msg = job[p].msg]

\* The copy is dropped after the update; the one of a notification only once it
\* has been sent, for the history to record its time.
Drop(p) ==
    /\ op' = [op EXCEPT ![p] = None]
    /\ copy' = [copy EXCEPT ![p] = Blank]

AfterSave(p) == IF op[p] = "notify" THEN UNCHANGED <<op, copy>> ELSE Drop(p)

\* Another process has loaded the file and not yet saved it.
Overlap(p) == \E q \in Proc \ {p} : pc[q] \in {"truncate", "write"}

MutantCurrent == file
\* Load returns nil for a missing file, and the update starts from scratch.
Current == IF file = Missing THEN Blank ELSE file

\* The copy is changed, and its time read, right after the load.
Load(p) ==
    /\ pc[p] = "load" /\ file # Corrupt
    /\ copy' = [copy EXCEPT ![p] = Updated(p, Current)]
    /\ Goto(p, "truncate")
    /\ interfered' = (interfered \/ Overlap(p))
    /\ UNCHANGED <<now, files, job, op, owns, outcome, history>>

\* The update returns its error, the handler logs it and goes on.
LoadFails(p) ==
    /\ pc[p] = "load" /\ CanFail
    /\ Goto(p, AfterUpdate(p))
    /\ IF op[p] = "notify"
       THEN copy' = [copy EXCEPT ![p] = Updated(p, Blank)] /\ UNCHANGED op
       ELSE Drop(p)
    /\ interfered' = TRUE
    /\ UNCHANGED <<now, files, job, owns, outcome, history>>

Truncate(p) ==
    /\ pc[p] = "truncate"
    /\ file' = Corrupt /\ stamp' = now
    /\ Goto(p, "write")
    /\ UNCHANGED <<now, lock, content, locals, outcome, history, interfered>>

\* The questions that passed the first cooldown and do not hold the content lock
\* yet: a record made now is one they have not seen.
PastCooldown(p) ==
    {q \in Proc \ {p} :
        /\ job[q].status = "question"
        /\ pc[q] \in {"cooldownTask", "ccreate", "cinspect", "cunlink", "crecreate"}}

\* A write over another process's longer content leaves its tail behind; a write
\* to a file that was removed meanwhile reaches no one.
Write(p) ==
    /\ pc[p] = "write"
    /\ \/ file # Missing /\ file' = copy[p] /\ stamp' = now
       \/ file.kind = "valid" /\ file' = Corrupt /\ stamp' = now
       \/ file = Missing /\ UNCHANGED <<file, stamp>>
    /\ Goto(p, AfterUpdate(p))
    /\ AfterSave(p)
    /\ overtaken' = IF op[p] = "notify" THEN overtaken \cup PastCooldown(p) ELSE overtaken
    /\ UNCHANGED <<now, lock, content, job, owns, outcome, lastSend, interfered>>

\* os.WriteFile fails, at its open or after truncating the file; the handler logs it
\* and goes on as if the state had been saved.
SaveFails(p) ==
    /\ \/ pc[p] = "truncate" /\ UNCHANGED <<file, stamp>>
       \/ pc[p] = "write" /\ file # Missing /\ file' = Corrupt /\ stamp' = now
       \/ pc[p] = "write" /\ file = Missing /\ UNCHANGED <<file, stamp>>
    /\ Goto(p, AfterUpdate(p))
    /\ AfterSave(p)
    /\ interfered' = TRUE
    /\ UNCHANGED <<now, lock, content, job, owns, outcome, history>>

-----------------------------------------------------------------------------
MutantContentCreated(p) ==
    /\ pc[p] \in {"ccreate", "crecreate"}
    /\ content' = now
    /\ owns' = [owns EXCEPT ![p] = TRUE]
    /\ Goto(p, "check")
    /\ UNCHANGED <<now, lock, file, stamp, job, op, copy, outcome, history, interfered>>

\* AcquireContentLock; an error of the create means going on without the lock.
ContentCreated(p) ==
    /\ pc[p] \in {"ccreate", "crecreate"} /\ content = 0
    /\ content' = now
    /\ owns' = [owns EXCEPT ![p] = TRUE]
    /\ Goto(p, "check")
    /\ UNCHANGED <<now, lock, file, stamp, job, op, copy, outcome, history, interfered>>

ContentError(p) ==
    /\ pc[p] \in {"ccreate", "crecreate"}
    /\ Goto(p, "check")
    /\ interfered' = TRUE
    /\ UNCHANGED <<now, files, locals, outcome, history>>

ContentBusy(p) ==
    /\ content # 0
    /\ \/ pc[p] = "crecreate"
       \/ pc[p] = "cinspect" /\ Within(content, ContentTTL)
    /\ Exit(p, "busy")
    /\ UNCHANGED <<now, files, locals, history, interfered>>

ContentExists(p) ==
    /\ pc[p] = "ccreate" /\ content # 0
    /\ Goto(p, "cinspect")
    /\ UNCHANGED <<now, files, locals, outcome, history, interfered>>

ContentStale(p) ==
    /\ pc[p] = "cinspect" /\ ~Within(content, ContentTTL)
    /\ Goto(p, "cunlink")
    /\ UNCHANGED <<now, files, locals, outcome, history, interfered>>

\* The file removed may belong to a process that is still at work.
ContentRemove(p) ==
    /\ pc[p] = "cunlink"
    /\ content' = 0
    /\ Goto(p, "crecreate")
    /\ interfered' = (interfered \/ \E q \in Proc : owns[q])
    /\ UNCHANGED <<now, lock, file, stamp, locals, outcome, history>>

-----------------------------------------------------------------------------
MutantDuplicateForever(p) == file.kind = "valid" /\ file.msg = job[p].msg
MutantDuplicateAnyMessage(p) == file.kind = "valid" /\ now - file.time <= Window

\* IsDuplicateMessage: only the last message is remembered.
IsDuplicate(p) ==
    /\ file.kind = "valid"
    /\ file.time # 0 /\ now - file.time <= Window
    /\ file.msg = job[p].msg

Duplicate(p) ==
    /\ pc[p] = "check" /\ IsDuplicate(p)
    /\ Goto(p, "release")
    /\ outcome' = [outcome EXCEPT ![p] = "duplicate"]
    /\ UNCHANGED <<now, files, locals, history, interfered>>

NotDuplicate(p) ==
    /\ pc[p] = "check" /\ ~IsDuplicate(p)
    /\ op' = [op EXCEPT ![p] = "notify"]
    /\ Goto(p, "load")
    /\ interfered' = (interfered \/ file = Corrupt)
    /\ UNCHANGED <<now, files, job, copy, owns, outcome, history>>

\* The check fails: the message is taken for a new one.
CheckFails(p) ==
    /\ pc[p] = "check" /\ CanFail
    /\ op' = [op EXCEPT ![p] = "notify"]
    /\ Goto(p, "load")
    /\ interfered' = TRUE
    /\ UNCHANGED <<now, files, job, copy, owns, outcome, history>>

\* The notification goes out after it has been recorded.
Send(p) ==
    /\ pc[p] = "send"
    /\ lastSend' = [msg |-> job[p].msg, time |-> copy[p].time, at |-> now]
    /\ outcome' = [outcome EXCEPT ![p] = "sent"]
    /\ Goto(p, "release")
    /\ Drop(p)
    /\ UNCHANGED <<now, files, job, owns, overtaken, interfered>>

\* No notification reaches the user: its delivery fails and that is logged.  The
\* record stays.
SendFails(p) ==
    /\ pc[p] = "send"
    /\ outcome' = [outcome EXCEPT ![p] = "unsent"]
    /\ Goto(p, "release")
    /\ Drop(p)
    /\ interfered' = TRUE
    /\ UNCHANGED <<now, files, job, owns, history>>

\* ReleaseContentLock removes the file whoever created it.
Release(p) ==
    /\ pc[p] = "release"
    /\ content' = IF owns[p] THEN 0 ELSE content
    /\ owns' = [owns EXCEPT ![p] = FALSE]
    /\ Exit(p, outcome[p])
    /\ UNCHANGED <<now, lock, file, stamp, job, op, copy, history, interfered>>

-----------------------------------------------------------------------------
\* cleanupOldLocks: first the locks, then the state files.
CleanLocks(p) ==
    /\ pc[p] = "cleanLocks"
    /\ lock' = [e \in Event |-> IF Old(lock[e]) THEN 0 ELSE lock[e]]
    /\ content' = IF Old(content) THEN 0 ELSE content
    /\ Goto(p, IF Old(stamp) THEN "cleanState" ELSE "ended")
    /\ interfered' = (interfered \/ (Old(content) /\ \E q \in Proc : owns[q]))
    /\ UNCHANGED <<now, file, stamp, locals, outcome, history>>

\* The state file is removed though it may have been saved since it was inspected.
CleanState(p) ==
    /\ pc[p] = "cleanState"
    /\ file' = Missing /\ stamp' = 0
    /\ Goto(p, "ended")
    /\ interfered' = (interfered \/ ~Old(stamp))
    /\ UNCHANGED <<now, lock, content, locals, outcome, history>>

\* The process is killed; its files stay as they are.  Killed between recording a
\* message and sending it, it leaves the record of a message nobody has seen.
Crash(p) ==
    /\ Crashes /\ pc[p] \notin {"idle", "ended"}
    /\ Goto(p, "ended")
    /\ owns' = [owns EXCEPT ![p] = FALSE]
    /\ outcome' = [outcome EXCEPT ![p] = IF outcome[p] # None THEN outcome[p]
                                        ELSE IF pc[p] = "send" THEN "unsent" ELSE "crashed"]
    /\ interfered' = (interfered \/ pc[p] = "send")
    /\ Drop(p)
    /\ UNCHANGED <<now, files, job, history>>

Tick ==
    /\ now < MaxTime /\ (now < RaceUntil \/ AtRest)
    /\ now' = now + 1
    /\ UNCHANGED <<files, pc, locals, outcome, history, interfered>>

Step(p) ==
    \/ EarlyExists(p) \/ EarlyDuplicate(p) \/ Classify(p) \/ Filtered(p) \/ Unfiltered(p)
    \/ LockCreated(p) \/ LockFails(p) \/ LockRefused(p) \/ LockExists(p) \/ LockStale(p)
    \/ LockRemove(p)
    \/ Suppressed(p) \/ NotSuppressed(p) \/ CooldownFails(p)
    \/ Load(p) \/ LoadFails(p) \/ Truncate(p) \/ Write(p) \/ SaveFails(p)
    \/ ContentCreated(p) \/ ContentError(p) \/ ContentBusy(p) \/ ContentExists(p)
    \/ ContentStale(p) \/ ContentRemove(p)
    \/ Duplicate(p) \/ NotDuplicate(p) \/ CheckFails(p) \/ Send(p) \/ SendFails(p)
    \/ Release(p) \/ CleanLocks(p) \/ CleanState(p)

Next == Tick \/ \E p \in Proc : Begin(p) \/ Step(p) \/ Crash(p)

Spec == Init /\ [][Next]_vars

-----------------------------------------------------------------------------
Labels == {"idle", "early", "earlyAge", "filter", "create", "inspect", "unlink", "recreate",
           "cooldownAny", "cooldownTask", "load", "truncate", "write",
           "ccreate", "cinspect", "cunlink", "crecreate", "check", "send", "release",
           "cleanLocks", "cleanState", "ended"}
\* How a hook is turned away on account of another notification.
Refusals == {"early", "locked", "cooldown", "busy", "duplicate"}
Outcomes == Refusals \cup {None, "gone", "filtered", "failed", "sent", "unsent", "crashed"}

\* Types.
TypeOK ==
    /\ now \in 1..MaxTime
    /\ lock \in [Event -> 0..MaxTime] /\ content \in 0..MaxTime
    /\ file \in State /\ stamp \in 0..MaxTime
    /\ pc \in [Proc -> Labels] /\ outcome \in [Proc -> Outcomes]
    /\ job \in [Proc -> [event : Event \cup {None}, msg : Msg \cup {None},
                         status : {None, "question", "plan_ready", "task_complete",
                                   "review_complete"},
                         began : 0..MaxTime]]
    /\ op \in [Proc -> {None, "tool", "task", "notify"}] /\ copy \in [Proc -> ValidState]
    /\ owns \in [Proc -> BOOLEAN]
    /\ lastSend \in [msg : Msg \cup {None}, time : 0..MaxTime, at : 0..MaxTime]
    /\ overtaken \subseteq Proc
    /\ interfered \in BOOLEAN

Sends(p) == pc[p] = "send" /\ outcome'[p] = "sent"
Horizon == IF Window < MaxAge THEN Window ELSE MaxAge

\* The same message is not sent twice in a row within the duplicate window, or the
\* age at which clean-up forgets it, unless an update of the state file overlapped
\* another one, failed or met a torn file, a lock was lost or taken from a live
\* process, or a record displaced that of the message and was never sent.
NoRepeatUnlessInterfered ==
    [][\A p \in Proc : Sends(p) /\ lastSend.msg = job[p].msg /\ ~interfered =>
          copy[p].time - lastSend.time > Horizon]_vars

\* A question keeps the cooldown's distance from the notification before it, unless
\* that was recorded between the question's cooldown check and its content lock, or
\* something interfered with the state file as above.
QuestionKeepsDistance ==
    [][\A p \in Proc : Sends(p) /\ job[p].status = "question" /\ lastSend.time # 0
                         /\ p \notin overtaken /\ ~interfered =>
          \/ copy[p].time - lastSend.time >= CooldownAny
          \/ copy[p].time - lastSend.time > MaxAge]_vars

\* A message is dropped as a duplicate only when another hook recorded that very
\* message, and has sent it, failed to, or is about to.
DuplicateWasSent ==
    \A p \in Proc : outcome[p] = "duplicate" =>
        \E q \in Proc \ {p} :
            /\ job[q].msg = job[p].msg
            /\ pc[q] = "send" \/ outcome[q] \in {"sent", "unsent"}

\* The furthest back a notification can lie that still turns a hook away: by way of
\* the event lock of a hook that met a cooldown, which another hook set whose content
\* lock was taken by a third, whose message was a duplicate.
Reach == LockTTL + (IF CooldownAny > CooldownTask + ContentTTL + Window
                    THEN CooldownAny ELSE CooldownTask + ContentTTL + Window)

\* When no hook is at work and each one that recorded its message also sent it, every
\* hook that was turned away has a notification, sent after it began or at most Reach
\* before: no chain of refusals swallows a burst of hooks.
RefusalsAnswered ==
    AtRest /\ (\A p \in Proc : outcome[p] \notin {"unsent", "crashed"}) =>
        \A p \in Proc : outcome[p] \in Refusals =>
            lastSend.at # 0 /\ lastSend.at + Reach > job[p].began

\* A hook turned away by the content lock loses nothing: its message has been sent.
BusyWasHandled ==
    AtRest =>
        \A p \in Proc : outcome[p] = "busy" =>
            \E q \in Proc : job[q].msg = job[p].msg /\ outcome[q] \in {"sent", "unsent", "crashed"}

=============================================================================
