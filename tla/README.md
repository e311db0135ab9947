# agent-notify-connect in TLA+

agent-notify-connect turns the hook events of Claude Code and Codex into desktop and
webhook notifications. Every event starts a short-lived process; the processes of one
session meet only in files (locks, a JSON state file, a team file) and nobody schedules
them. What is hard about the program is there: several processes deliver the same event at
once, a process can be killed anywhere, files are read, changed and written without a lock,
and a clean-up removes them while others use them. Inside one process, webhook sends run on
goroutines that share a rate limiter, a circuit breaker and a shutdown. On Linux the hooks
start a daemon on demand, which shows the notifications and, on a click, raises the window
they came from. Setting the plugin up rewrites files that the hooks read meanwhile.

This directory holds the models of those parts, the TLC runs that check them on small
instances, and TLAPS proofs of what matters most for every value of the constants.

- [Inventory](#inventory): the components, their state, operations, hazards, correctness
- [Modules](#modules): which module models what, and how it corresponds to the code
- [Runs](#runs): what each run checks, with which bounds, and what it shows
- [Divergences](#divergences): where the code and its documentation disagree
- [Proofs](#proofs): what is proved and along which argument
- [Limits](#limits): what is only model-checked, and what is not modelled
- [Plan](#plan): what comes next

To check: `tlc -config MCLocks.cfg MCDedup` and likewise for the other configurations;
`tlapm DedupProofs.tla` and likewise for the other `...Proofs` modules.

## Inventory

Paths are relative to `src/`.

### File locks: `internal/dedup/dedup.go`, `internal/platform/platform.go`

- State: one lock file per session and hook event (event lock), one per session (content
  lock); existence and modification time are all that counts.
- Operations: `CheckEarlyDuplicate` (phase 1: two stats), `AcquireLock` (phase 2:
  `O_EXCL` create, stat, and for a stale lock remove and create again),
  `AcquireContentLock` (the same with a longer TTL), `ReleaseContentLock`, clean-up of old
  lock files. The event lock is never released; it ages.
- Hard: another process acts between any two of these system calls. A lock removed between
  create and stat has age -1, which `AcquireLock` takes for stale and
  `CheckEarlyDuplicate` for fresh. The remove hits whatever file is there by then.
- Correct when: nobody is turned away without a winner that accounts for it; a burst has one
  winner; two holders are possible only after a take-over by age.

### Hook handler: `internal/hooks/hooks.go`

- State: none of its own; session state, the locks, the team state.
- Operations: `HandleHook` for PreToolUse, Notification, Stop, SubagentStop, TeammateIdle.
  Early check, classification, filters, event lock, question cooldowns, update of the
  state, content lock, duplicate check, record of the message, send, release, deferred
  clean-up.
- Hard: hooks of different events interleave; checks are made before the lock under which
  they would be safe (cooldown) or on state that another process is about to replace; the
  message is recorded before it is sent; a lock error means going on without the lock; the
  clean-up deletes the state others rely on.
- Correct when: a message dropped as a duplicate has been sent by someone; a message is not
  sent twice within the window; a question keeps its distance from the last notification; a
  hook turned away has a notification near it.

### Session state: `internal/state/state.go`

- State: one JSON file per session.
- Operations: `Load`, `Save`, and four updates that load, change a field and save, without a
  lock; `ShouldSuppressQuestion...`, `IsDuplicateMessage`.
- Hard: overlapping updates lose a record; `os.WriteFile` truncates before it writes, so
  readers and crashes meet an empty file, and two writers leave a mixture of both.
- Correct when: what is lost never costs a notification (`DuplicateWasSent`,
  `RefusalsAnswered`), and nothing is lost unless updates overlap or fail, or a process is
  killed (`NoRepeatUnlessInterfered`).

### Team state: `internal/teamstate`

- State: a JSON file per team (lead stopped and when, idle members, when notified), under
  `flock`.
- Operations: `RecordLeadStopped`, `RecordTeammateIdle`, `CheckAllIdle`, `MarkNotified`, each
  one critical section; a hook performs three of them in turn.
- Hard: the order of the critical sections of several hooks; records that survive a round;
  timestamps of whole seconds; the lead's Stop marks the team before it knows whether it
  will notify.
- Correct when: each finished round is announced, by one notification, and not before, though
  Claude Code delivers an event several times. The code keeps the first of these only, see
  the divergences.

### Webhook sender: `internal/webhook`

- State: token bucket, circuit breaker, metrics, wait group, context; each with its mutex.
- Operations: `SendAsyncWithContext`, `Allow`, `GetState`, `Execute` (with `getState`,
  `recordSuccess`, `recordFailure`), `Retryer.Do`, `Shutdown`.
- Hard: sends admitted in one state of the breaker report in another; two reads of the
  breaker with different rules; retries and backoff against cancellation; `Shutdown` racing
  the sends it waits for.
- Correct when: every send ends and is counted once; the breaker opens and closes for the
  reasons it documents and recovers from being open.

### Linux daemon and desktop notifier: `internal/daemon/server.go`, `client.go`, `internal/notifier`

- State: the socket path (shared by all daemons), and in each daemon its listener, the
  shutdown flag, the channel `done`, the table of focus targets, the D-Bus signals waiting;
  in each hook the notifier's place in its chain of senders.
- Operations: `StartDaemonOnDemand`, `send`; `Run`, `handleConnection`,
  `handleNotification`, `onActionInvoked`, `onNotificationClosed`, `idleChecker`,
  `Shutdown`; `SendDesktop`, `sendLinuxNotification`, `sendWithBeeep`, `Close`.
- Hard: two hooks start a daemon each, and the second takes the path from the first; a
  daemon ends between showing a notification and answering; a click is signalled before its
  focus target is stored; a stop request, the idle checker and a signal end the daemon at
  once, along two different paths.
- Correct when: a hook without an error has shown its notification; it appears twice only if
  the answer was lost; `done` is closed once; hooks and daemons come to an end; a click is
  dropped only in the one case the code accepts.

### Configuration, Feishu binding, installer: `internal/config`, `internal/feishu`, `internal/installer`, `cmd/notification-installer`

- State: the stable and the legacy configuration file, the settings files of Claude Code and
  Codex; in a binder the registration server and the polls left.
- Operations: `LoadFromPluginRoot` with its chain of sources and the migration,
  `ApplyDefaults`, `Validate`; `Bind` with `Begin`, `Poll`, `SaveBinding`; the installer's
  profile, webhook check and `WriteConfigFile`; `MergeHookSettings`, `install-hooks`.
- Hard: nothing is locked; the binder renames, the installer truncates and writes in place,
  and a hook may copy the legacy file over either; the installer keeps what it loaded while
  the user answers questions; the server is switched in the middle of the polling.
- Correct when: a saved binding stays, unless a process that loaded before it or met a torn
  file writes after it; the user's own hooks survive; the platform named is the one the
  credentials came from; every command ends.

### Transcript, summary, Codex hooks, channels, focus: `internal/analyzer`, `pkg/jsonl`, `internal/summary`, `internal/codexhooks`, `internal/notification`, `internal/daemon/focus.go`

- State: the transcript, written by Claude Code; what a hook decides to say; the windows of
  the desktop.
- Operations: the status of a turn (`AnalyzeTranscriptWithMessages`), the body and the
  actions of a notification (`GenerateFromMessagesStructured`), the webhook's text; status
  of a Codex event; suppress filters and channels; `TryFocusWithHints` with seven tools in
  order, hints before and WezTerm's pane after them.
- Hard: the scans find the turn by different rules, and what an earlier turn left (a plan, a
  tool, an error, a question) is still there; the last line may be torn; a window closes
  between the search that found it and its activation, and one tool's failure leads to the
  next.
- Correct when: status, body and actions are of the turn that ended; the outcome reported is
  true; a window that could be raised is; the hook's own window is the one raised when the
  hints name it.

### Components without a module

| Component | Why |
| --- | --- |
| Webhook payloads, `internal/webhook/formatters.go`, `runtime.go` | layout and template expansion |
| Terminal focus helpers, `internal/notifier/*.go`, macOS | OS scripting, no state of their own |
| Windows lazy update, `cmd/claude-notifications/main.go:501` | a stamp file and a PowerShell child; touches nothing else |
| Sounds, session names, git metadata, logging, error handling | look-ups and wording |
| Shell installers, Swift helper | outside the Go program |

### How they interact

Claude Code runs `claude-notifications handle-hook <event>`; `main.go` creates a handler,
runs `HandleHook` once and exits. The handler calls dedup, state and teamstate, which share
files with the handlers of other processes, then the notifier (on Linux through the daemon's
socket) and the webhook sender, whose `Shutdown` the handler waits for, up to a timeout,
before it exits. `handle-codex-hook` does the same with `codexhooks`, without locks, state
or filters. `feishu bind`, `install-hooks` and the separate installer change the files that
every hook loads when it starts. A click comes back to the daemon as a D-Bus signal and ends
in `TryFocusWithHints`. A sender and its breaker therefore live as long as one process: nothing of
the breaker's state survives a hook.

## Modules

| Module | Models | Composes |
| --- | --- | --- |
| `Dedup` | one lock file, each system call a step | |
| `HookHandler` | `HandleHook` for a session: event locks, content lock, state file | locks and state |
| `TeamPromise` | abstract: a team is settled on the reports of all, which that consumes | |
| `TeamMode` | hooks of a team in mode wait-all over the team file | implements `TeamPromise` |
| `CircuitBreaker` | the breaker as a value and its operations | |
| `WebhookSender` | sends through limiter, breaker, retryer; `Shutdown` | extends `CircuitBreaker` |
| `Daemon` | daemons, the socket path, clients, handlers, signals, shutdown | |
| `Desktop` | the hook's notifier: senders, sound, `Close` | extends `Daemon` |
| `ConfigFile` | the configuration file and the chain it is loaded from | |
| `FeishuBinding` | registration, polling, saving a binding | extends `ConfigFile` |
| `Setup` | hooks, binder, installer, install-hooks on the same files | extends `FeishuBinding` |
| `Transcript` | what is read out of a transcript: operators | |
| `Focus` | raising a window: attempts over windows that close | |
| `Session` | turn, notification, click | extends `Transcript`, `Focus` |
| `MC...` | symmetry and instances for TLC | |
| `...Proofs` | theorems and the invariants they need | |

Definitions named `Mutant...` are faulty variants of the definition that follows them, for
showing that a property is able to fail. They are used nowhere.

**Dedup.** `kind` says which lock a behaviour is about: the event lock, with the early check
and never released, or the content lock. `mtime` is the file (0 when missing); `pc[c]` is where a call of
`AcquireLock`/`AcquireContentLock` is. `Start` covers both entries: a hook with the early
check (`EarlyExists`, `EarlyAge` are its two stats) and one without. `Win` is a successful
create, from `Create` or `Recreate`; `Inspect` is the stat and its comparison (`Fresh`),
`Unlink` the remove. `Fail` is an error of the create other than existence. `CleanupInspect`
and `CleanupUnlink` are the two halves of `CleanupOldFiles`, with the gap in between, in a
hook of any session. History variables remember when the lock was first and last won,
whether one was removed by its age, and which hooks lost the file of their early check to a
clean-up (`swept`).

**HookHandler.** `lock[e]`, `content`, `file` and `stamp` are the files; `pc[p]` is the
position in `HandleHook`. Message text is a model value, up to the normalisation the
duplicate check applies; of the session state only the fields that decide something are
kept. `Load`, `Truncate`, `Write` are the read and the two effects of `os.WriteFile`. Saving
over another writer's longer text may leave a file that cannot be parsed (`Corrupt`), as an
interrupted write does. The existence test before a read is not a step of its own: a file
that goes in between is one that could not be read. Every I/O error has its action:
`LockFails` ends the hook, `CooldownFails`, `LoadFails`, `SaveFails`, `CheckFails` and
`ContentError` are logged and passed over, and after `SendFails` the record stays although
nobody saw the notification. `interfered` records that something happened that can cost the
state file a record: overlapping updates, an update or a check that failed or met a torn
file, a content lock lost or taken from a live process, a record never sent. `overtaken` are
the questions past their cooldown check when another hook records a notification. A process
runs one hook and ends, with its `outcome`. `copy[p].time` is the time a hook recorded for
its notification, which is what the code compares later.

**TeamMode.** Each event is delivered up to `Fires` times, to hooks that may interleave
(`Slot`). The early check of `handleTeammateIdle` stops nobody and has no action. One action
per critical section of teamstate, so a hook is a sequence
`record`, `check`, `mark`, `send`. `Send` of the lead includes its event lock; `Drop` is its
Stop ending after the mark because of an unknown status, a filter, or a duplicate message.
A round starts when every actor has acted, no hook runs any more and the Stop event lock has
passed its TTL: rounds of work take longer than two seconds. A round is "settled" when it
has been announced or the lead's own Stop was dropped. `TeamPromise` says what holds for any
number of deliveries: the team is marked as notified on the report of everyone since the
last time (or again in a round settled already), the mark consumes the reports, and no round
ends unsettled.

**CircuitBreaker, WebhookSender.** A step is a critical section or an HTTP attempt.
`Execute` is `getState` under the read lock, `Upgrade` its part under the write lock, where a
send that comes late keeps the state it read before. `Gate` is the sender's own check, with
`GetState`. Time is the age of the breaker's state, up to its timeout; `Tick` also gives a
token back. Limiter, breaker and retryer are all enabled; without them the model has fewer
steps and no new ones. The counts of the metrics are the sequence `tally[r]` of what a send
recorded; latencies are left out.

**Daemon, Desktop.** `sock` is the path, and `open[d]` whether daemon `d` still listens
behind it; a client that dials reaches the daemon the path leads to by then. `conn[c]` is the
latest connection of client `c` and how far its handler is: accepted by nobody yet
(`queued`), waiting for the notification server (`sending`), shown (`sent`), answered.
`Remove`, `Bind` and `Chmod` are the steps by which a starting daemon takes the path over; the
last fails when another daemon has removed the path since, and the daemon ends.
`Terminate`, `Drained`, `DrainTimeout`, `Cleanup` are `Shutdown` on a signal, `Exit` the end
after a stop request or idle time, on which `Shutdown` returns at once because the flag is
set. `signals[d]` holds the D-Bus signals in the order sent; `ActionInvoked` and `Focused` are
the two halves of handling a click. `click[h]` remembers what became of it; "early" is a click
handled before `Store`. The desktop notifier of a hook enters the daemon by `Delegate`, and
goes on by the outcome.

**ConfigFile, FeishuBinding, Setup.** A configuration is a record of the fields that
decide whether it validates and where the sender posts; `valid` stands for the others.
`Torn` is a file between truncate and write, or one a killed process has left that way.
`at[p]`, `bind[p]`, `step[p]` are the positions in `LoadFromPluginRoot`, `Bind` and the
command. `opened` are the processes whose file descriptor is still that of the file at the
path: a rename or a removal leaves the others writing to a file nobody can open. `behind[p]`
says that what `p` has loaded comes from before the last save of a
binding, or by way of a torn file; `saved` is the binding saved last, and `spoiled` the
settings files that somebody read or left torn. A settings file is a set of hook groups, a
group a set of hooks (order and repetition decide nothing): at the start a group with a
user's hook, one with a hook of more fields than `HookCommand` names ("rich"), and one in
which a user's hook is "beside" one of the plugin. `Decoded` is what unmarshalling into
`HookSettings` keeps. The type of the receive id is the user's to choose; one that `Validate`
does not know makes `SaveBinding` fail after the scan.

**Transcript, Focus, Session.** A message has a sender, at most one tool, a length of text,
and what the scans look for in it; positions stand for timestamps, which increase. The
operators keep the names of the functions, and yield the position of the message a text is
taken from instead of the text. `Stop`, `Ask` and `Codex` are hooks that decide, `Deliver` the
filters and channels. In `Focus` a desktop (`SceneType`) says which tools there are and which
windows each way of searching would find; `Ladder` is the order of the attempts, a "call"
finds and activates in one, a "search" yields candidates (`cands`), of which `Activate` tries
one after the other. The stack is `height`: xdotool lists the lowest window first and the
list is gone through from its end, so the next to try (`Due`) is the top-most one, but for
those `prioritizeXdotoolCandidates` has moved to the front (`Postponed`). `Vanish` closes a
window at any step; `open` are the windows open ever since the click.

## Runs

Expected to pass:

| Run | Question | Bounds and why they are enough |
| --- | --- | --- |
| `locks` | Does each hook turned away have a winner? One winner in a burst? One holder of the content lock? | Both locks. Three hooks: one to win, one to take over, one to interleave with both; a clean-up beside them, kills and errors anywhere. TTL 2, so that fresh, boundary and stale all occur; clean-up age 3; the clock passes both. |
| `hooks` | What do refusals and repeats cost, over event locks, cooldowns, content lock and state file? | Two hooks of PreToolUse, Notification or Stop, with a question or a finished task and one of two messages. While the clock reads 1 or 2 (`RaceUntil`) they interleave at every step with one tick anywhere among them; after that each hook runs by itself and in no time, up to time 5 (`MaxTime`), past every threshold. Every threshold is one second, the longer cooldown two, so one tick makes a lock stale under its holder, as the 30 s that `hooks.json` allows a hook do to locks of 2 and 5 s. Kills and I/O errors anywhere. A file old enough to be cleaned up meets no other hook at work in this run; the theorems have no such bound. |
| `team_rounds` | Every round settled; refinement of `TeamPromise` | A lead and two members, each event delivered up to twice, in two hooks that may overlap; two rounds: one to leave something behind and one to be misled by it; lock TTL 2, the clock up to 4. |
| `webhook` | Outcome counted once, transitions earned, every send ends | Two goroutines, thresholds 2, two attempts, `Shutdown` at any time. |
| `desktop` | Nothing lost, doubled or stuck between notifier and daemon | One hook and two daemons, one of which another hook has just started: enough for the path to be taken over, and for a start, a ping and a request to meet the end of either. One look for the started daemon (the code's 50 differ in time only), one kill. No deadlock: the end of everything is a step of its own (`Over`). |
| `setup` | What is lost of bindings and hooks, and only when | Four casts: hook and installer, binder and installer, two hooks and a binder, two runs of `install-hooks`. A configuration by hand in the legacy place, and one already bound. Two polls: one to be pending or switch servers, one to finish or pass the deadline. |
| `session` | Status and text of this turn; the click raises a window | Transcripts of up to four messages of nine kinds, so that an earlier turn, the user's text, a tool and an answer fit; windows scaled to 2 messages for tools and text and 1 for notices, in the order of the code's 15, 5 and 3. Thirteen desktops that between them use each attempt, three windows: the hook's, another of the terminal, a foreign one with the folder in its title. |

Expected to find a violation (see [Divergences](#divergences)): `content_lock_shared`,
`team_repeated`, `hooks_preserved`, `breaker_recovery`, `binding_host`.

`CHECK_DEADLOCK FALSE` is set where the system may stop: the team after its last round, the
commands of `setup` when all have ended, a session after its click. The other models can
always take a step (a hook can begin, or the clock or the breaker's age goes on).

What the properties say:

- `RefusedHasWinner`: a hook `AcquireLock` refuses has a winner during its call, or less than
  the TTL before it. `DuplicateHasWinner`: the same for the early check, but for a hook whose
  lock file a clean-up removed between its two stats (`swept`), and a process that ends
  between removing a stale lock and creating its own. `FirstBurstExclusive`: no second winner
  of the event lock in the TTL after the first, takeovers and clean-up notwithstanding.
  `ExclusiveUntilTakeover`: one holder of the content lock until somebody removes a file by
  age.
- `DuplicateWasSent`: a message is dropped as a duplicate only of one that another hook
  recorded and has sent, failed to send, or is about to. `RefusalsAnswered`: when no hook is at
  work and each that recorded its message sent it, every hook turned away (early, by a lock,
  by a cooldown, as a duplicate) has a notification, sent after it began or at most `Reach`
  before: the sum of the times for which one refusal can rest on another.
- `NoRepeatUnlessInterfered`: no repeat in a row within the window or the clean-up age,
  whichever is shorter, but for `interfered`. `QuestionKeepsDistance`: a question comes no
  sooner than the cooldown after the notification before it, unless that one was recorded
  between the question's cooldown check and its content lock (`overtaken`: the check is made
  without a lock and not repeated), or but for `interfered`.
- `RoundSettled`, `ImplementsPromise`: no round ends unsettled, however often each event is
  delivered; what `TeamPromise` says.
- `CountedOnce`, `SendsEnd`: see the inventory. `TransitionsEarned`: the breaker opens and
  closes on its counts, and becomes half-open from open only, once its timeout has passed. That
  two sends meet in that transition takes a third, which the theorem has and the run has not.
- `NeverSilent`, `TwiceOnlyIfLost`: a hook that ends without an error has shown its
  notification, and the fall-back doubles it only if the daemon ended between showing and
  answering, or the deadline passed. `ClosedOnce`: the channel `done` is closed once however
  the ways to end a daemon meet. `HooksEnd`, `DaemonsEnd`: also for a daemon whose path another
  has taken. `ClickHandled`: a click is on its way, being handled, or was early.
- `BindingKept`, `LarkMeansLark`, `SetupEnds`: see the inventory. `UserHooksKept`: groups that
  hold nothing but hooks of the user stay, with the fields the program names; others do not
  (`UserHooksPreserved`). Exceptions are named by the history variables `behind` and
  `spoiled`.
- `StatusOfThisTurn`: a Stop hook reports what it would report had there been no earlier
  turn. `TextOfThisTurn`: body and actions are of that turn, too.
- `ReportsTruth`: an error means that nothing was raised, and only that. `NotMissed`: after an
  error, no window that was open throughout is one that an attempt looks for and could have
  raised (`Thorough`; kdotool tries one window, the desktop raises none of an application it
  does not know). `OwnRaised`: with
  an exact hint, the hook's own window is raised. `SessionEnds`: delivery and focus end.

Fairness: in `WebhookSender`, a send that has started goes on (goroutines are
scheduled, an HTTP request has a ten-second timeout, a backoff a limit), time passes, and
`Shutdown` returns by its timeout. That sends keep being started is assumed too, for the
one property that a breaker comes back: without it an idle sender would refute it for
nothing. In `Desktop`, as long as some process can take a step one does (`Progress`); what
the user does, signals, kills and the notification server's answers are left to chance, so
`HooksEnd` leans on the deadline of a client and `DaemonsEnd` on the idle checker. In `Setup`,
a command that runs goes on, the user's answers included; `Crash` needs no fairness. In
`Session`, delivery and the attempts to focus go on: both are sequential code without waits.
The models of hooks, locks and teams state safety only: a hook may stop anywhere.

## Divergences

Found while modelling, each shown by a run:

- `content_lock_shared`: `AcquireContentLock` takes a lock released between its create and
  its stat for a stale one and may remove the next owner's file; two hooks hold it at once
  (`dedup.go:137`, against `hooks.go:357`).
- `team_repeated`: a repeated TeammateIdle, recorded after the mark, counts for the next round,
  and the team is announced while that member is at work. The early check of
  `handleTeammateIdle` would stop it, but looks for a lock file that no code creates
  (`hooks.go:444`, against the comment at `hooks.go:442`).
- `hooks_preserved`: `install-hooks` drops a group that mixes a user's hook with one of the
  plugin, and every field of a hook that `HookCommand` does not name (`installer.go:341` and
  `34`, against `docs/installer.md:77`).
- `breaker_recovery`: the sender's gate never looks at the timeout, and an open breaker is
  never tried again (`webhook.go:115`, against `docs/webhooks/configuration.md:204`). Since
  a process makes one sender and sends little, a hook seldom opens it.
- `binding_host`: a binding is saved with the address of the registration server, which the
  sender prefers to that of the Open API (`binding.go:131`, `sender.go:180`, against
  `docs/codex.md:25`).

Known from these models, without a run of their own (a name in parentheses is a property
stated in the module, to be checked with the configuration named):

- The clean-up deletes state files after 60 s, so the duplicate window is 60 s (`Horizon`) and
  not the 180 s of `hooks.go:377`.
- A hook turned away by the content lock gives up a message that the holder is not sending,
  against `hooks.go:363` (`BusyWasHandled`, `MCHooks`). `RefusalsAnswered` is what remains of
  the "at least 1 notification" of `docs/ARCHITECTURE.md:167`: some notification, near in
  time.
- That guarantee has a second hole: a hook whose early check finds a lock that a clean-up
  removes before the second stat is a duplicate of nothing (`dedup.go:47`; the exception
  `swept` of `DuplicateHasWinner`).
- Two hooks at once may both ask: the cooldown is checked before the content lock and not
  again under it (`hooks.go:314`; the exception `overtaken` of `QuestionKeepsDistance`).
- Check and mark of a team are separate critical sections; two hooks of one round both
  notify (`hooks.go:464`, against `CHANGELOG.md:110`; `SingleNotification`, `MCTeamMode`).
- The lead's Stop marks the team as notified and may then not notify (`hooks.go:218`;
  `RoundAnnounced`, `MCTeamMode`).
- The webhook's text is the last one in the transcript, of whatever turn
  (`hooks.go:557`; `WebhookOfThisTurn`, `MCSession`).
- `prioritizeXdotoolCandidates` puts the project's windows first in a list that is gone
  through from its end, so with xdotool they are raised last (`focus.go:559,670`, against
  `CHANGELOG.md:288`; `ProjectRaised`, `MCSession`).
- A notice of a session limit that is among the last three answers is reported again after
  the user has gone on; a body for PreToolUse or a Notification may show an older plan, or
  a question of an earlier turn if that is less than a minute old: they read the transcript as
  it is, possibly without the newest message.
- Hooks of Codex do not ask the suppress filters. kdotool tries one window only.
- A volume of 0 becomes 1 by the defaults. The rewrite of a settings file keeps the key
  `hooks` only. A Codex hook of a renamed executable is not recognised and installed again.
- A hook that found no stable file, or a torn one, may migrate the legacy file over a
  binding just saved; an installer killed between truncate and write leaves a torn file; a
  settings file read in that moment counts as empty, and the user's hooks are lost. These are
  the exceptions of `BindingKept` and `UserHooksKept`.
- The token bucket starts full and refills at the nominal rate, so the first minute may see
  about twice the "maximum requests allowed per minute" of `ratelimiter.go:24`.

## Proofs

All are for every value of the constants that the named `ASSUME`s allow: any number of
processes, members or sends, any TTL, threshold or bound of the clock.

**DedupProofs.** `TypeCorrect`; `RefusalJustified`, `ExclusionUntilTakeover`,
`FirstBurstHasOneWinner`, `DuplicateJustified`, for any number of hooks and clean-ups. A
refusal compares a file's time with the clock, so what is needed beyond types is whose file
it is. `WinnerInv` adds that a file is never younger than the last win, and that what a
process meets when it creates again was created after it began. `ExclusiveInv` adds who owns
the file while nobody has removed one by age; `BurstInv` that inside the first TTL nobody,
clean-up included, can be on the way to removing the winner's file. `DuplicateInv` covers the
early check: once seen, the lock goes missing under a hook only by a clean-up, which makes
the hook `swept`, or by somebody about to create it again, so a hook that took a missing lock
for a fresh one will have a winner. It needs the exception the property names, a process that
ends between its remove and its create.

**HookHandlerProofs.** For any number of hooks, messages and events and any times, with kills
and I/O errors. `DuplicateIsCovered` (`DuplicateWasSent`): a hook drops a message because the
state file names it. `DuplicateInv` therefore says where a name in the file can come from:
the message in the file, and in every copy of it on its way back to the file, is that of a
hook that recorded it and is about to send, or has been through that; the only exception is
the copy of a hook recording its own message, and writing that copy takes the hook to its
send. `KnownStays` carries this across the steps of all others. Lost updates, torn files and
failed saves restore older records or none, which the invariant survives.

`RefusalsAreAnswered` (`RefusalsAnswered`) follows the way of a hook from its end, with the
times: `AnswerInv` says what a lock, a record or a refusal of time t means. `WillSend(t)`: a
notification was sent at t or later, or a hook is past the duplicate check. `WillCheck`,
`WillContend`, `WillCool` put the check, the content lock and the cooldowns before it, each
further back by its window or TTL, which adds up to `Reach`. `WayStays` says that a step takes
a hook off this way only on account of another one on it, or of one killed or unable to
send.

`NoRepeat` (`NoRepeatUnlessInterfered`) needs that the record of the last notification
survives (`RecordInv`): it is in the file and in every copy that will replace the file, or
older than the clean-up age; one process is behind the content lock and one rewrites the
file. What could break a conjunct is what `interfered` records. `MsgAssumption` says that no
message is the value for "no message". `QuestionsKeepDistance` builds on it: a question that
has passed the cooldown and was not overtaken is far enough from the notification about to be
sent, or else from the last one (`DistanceInv`); any later record is made either before it
has the content lock, which overtakes it, or by a hook that holds that lock, which keeps it
out.

**TeamModeProofs.** `TypeCorrect`, `EveryRoundSettled` and `TeamModeKeepsPromise`, for any team
and any number of deliveries. As long as nothing of a round has been announced or dropped,
`RoundInv` holds: the file has all reports of the round, whatever else earlier rounds left in
it (`FileHolds`); an actor whose event was delivered has reported or has a hook that will
(`WillReport`); with all reports in, some hook is yet to check, mark or send (`WillCheck`); a
hook marks only on reports that are all in the file (`MarkEarned`); a fresh Stop event lock
is of this round (`LockSettles`). The refinement maps each step to `Report`, `Settle`,
`NewRound` or a stutter.

**WebhookSenderProofs.** `TypeCorrect` (attempts, tokens and counts within their limits,
which needs `AttemptLeft`: a send waits only with an attempt to go), `OutcomeCountedOnce`
(from `CountInv`, the tally at each point of a send), `BreakerTransitionsEarned` (from
`StreakInv`: the breaker's counts never exceed the outcomes in a row).

**DesktopProofs.** `TypeCorrect`, `NotificationNeverSilent`, `ShownTwiceOnlyIfLost`,
`DoneClosedOnce`, `ClickNeverLost`: every safety property of run `desktop`, for any number of
hooks, daemons and kills. None of them is inductive alone; `Inductive` joins them from these
parts. `OneClose`: the channel is closed exactly when the flag is set. `Connected` and
`Noted` follow one request: it waits, is being handled, or its client has stopped waiting,
and the notification was shown exactly when D-Bus returned its id, so a client that gives up
on a shown notification has lost its daemon. `Delivered` adds the chain of senders. `Clicked`
follows a click: while the notification is open no signal about it exists; then one action
signal is queued with the daemon that showed it, ahead of the closed signal that would forget
the focus target, and until it is handled the target stays (`Awaited`). The actions are
grouped by who acts; `Steps` names the groups and the `...Keeps` lemmas what each leaves alone.

**SetupProofs.** `TypeCorrect`, `BindingIsKept`, `UserHooksAreKept`, `LarkIsLark`, for any
number of hooks, binders and installers: also for several installers at once, which `setup`
does not run (the states are too many with liveness). `StagesAgree` ties the positions of a process
together (a binder that saves has loaded, a file is open only to a process about to write).
`BindingInv` says of every process what it knows of the saved binding (`Knows`): unless it is
`behind`, it has left the legacy file alone and its configuration holds the binding, and only
such processes have the file open. `HooksInv` says that a draft written to a settings file
holds the groups that are the user's alone, as decoded, unless the file was read torn. `LarkInv` carries "lark only with
Lark's server" through every source of a configuration; `LarkIsLark` assumes it of the files
found at the start. The pure lemmas say what `ApplyDefaults`, the profiles and `SaveBinding`
make of each field.

**FocusProofs, SessionProofs.** For transcripts of any length, any widths of the windows into
them, any desktop and any number of windows. `StatusIsOfTheTurn` compares two transcripts,
the whole one and its last turn: `EndOf` relates them, every scan of the one yields the
positions of the other moved by the length of what came before (`ScansMoved`, `LastMoved`),
and so does each decision (`ToolStatusMoved`, `AnalyzeMoved`). The length of recent texts is
a fold that takes its elements in an order of its own; `SumShift` shows that it does not
matter. `TextIsOfTheTurn` shows that the status found by one scan guarantees what the other
scan finds (`BodyOfThisTurn`): a plan reported has its tool after the user's last message,
so the last plan is that one. `Noted` ties a note to the transcript as it was read. For the
click, `FocusInv` says what the attempts made so far have left (`Tried`): of the windows an
attempt looked for, none is still open, but for the candidates still to be tried. From it
follow `GivesUpOnNone` and `OwnOnTopInTheEnd`. `ErrorsAreTrue` needs `Shown` and the
hypothesis `PanesBelong`: WezTerm's windows are known by their class or name, as
`mappings.go:114` says they are. Without it a pane's window could be raised by its title
alone, close before its pane is switched to, and an error be reported for a window raised.

Induction enters twice: greatest positions and sums over sets. The library's induction
theorems take an operator as a parameter, which the provers cannot instantiate; `SetInduction`
states the principle for a set of numbers, which they can.

## Limits

Only model-checked: liveness (`SendsEnd`, `HooksEnd`, `DaemonsEnd`, `SetupEnds`,
`SessionEnds`), which is out of the prover's reach, as is anything about `ENABLED`. Every
other property of a passing run is a theorem, under the hypotheses named above. No
module declares a RECURSIVE operator.

Abstractions to keep in mind:

- The wall clock moves forward, in whole seconds, as the code's timestamps do. A clock set
  back makes ages negative.
- Judge mode, the capture of focus hints and logging do not change what is modelled and are
  left out.
- The daemon's PID file has no reader, and nothing in `cmd` sends a stop request; the model
  has stop requests all the same. The deadlines of pings are not modelled: a ping is answered
  by a daemon that accepts. The five idle minutes are longer than any client's 30 seconds.
- D-Bus delivers the signals of one notification in order, to the daemon that showed it.
- Timestamps of a transcript strictly increase; a message holds one tool and one text.
- A file is replaced by a rename in one step; a truncated file is read as torn.
- Rounds of a team do not overlap and hooks of a team are not killed. A late `MarkNotified`
  that wipes the reports of the next round is outside the model.
- `HookHandler` takes the clean-up of the locks as one step; `Dedup` splits it.
- A panic inside a send and the Feishu application path, which uses the same breaker and
  retryer, have no steps of their own.

## Plan

Order: what decides whether a user sees a notification first, then what runs concurrently,
then pure decisions.

1. Done: `Dedup`, `HookHandler`, `TeamPromise`/`TeamMode`, `CircuitBreaker`/`WebhookSender`,
   `Daemon`/`Desktop`, with their proofs; `ConfigFile`/`FeishuBinding`/`Setup`,
   `Transcript`/`Focus`/`Session`, with their runs.
2. Done: theorems for every safety property of the passing runs.
3. Left: team rounds that overlap, and hooks of a team that are killed.
4. Left: the rate limiter in fixed point; the Windows lazy update.
