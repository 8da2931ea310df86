# A TLA+ model of cc-connect

cc-connect connects chat platforms (Feishu, Telegram, Discord, ...) with AI coding
agents (Claude Code, Codex, ACP agents, ...).  A message of a chat becomes a turn
of an agent process; the events of that process become replies.  This directory
holds TLA+ specifications of the parts of it in which concurrency, failure and
order make the program hard to get right, the TLC models that check them, and
proofs for every size of the constants that the TLA+ proof system checks.

    Mailbox.tla              what a conversation promises its users
    TurnQueue.tla            the turns of one conversation: lock, queue, workers
    TurnQueueRefinement.tla  TurnQueue implements Mailbox
    TurnQueueProofs.tla      theorems about TurnQueue: types, lock, entry, race guard,
                             what becomes of a message
    TurnQueueMailboxProofs.tla  ... every step is one of Mailbox
    EventHandoff.tla         the event channel between turns and background readers
    AgentLife.tla            agent processes under commands, the reaper, shutdown
    WorkspacePool.tla        the count of a workspace's turns, and the reaper that reads it
    StreamPreview.tla        what the chat shows of a turn
    CronScheduler.tla        jobs: store, file, entries, timer library
    SessionStore.tla         sessions in memory and in their file
    *Proofs.tla              theorems about the module of that name
    MC*.tla                  the instances that TLC checks
    *.cfg                    one TLC model for each question

Run `tlc -config TurnQueueSafety.cfg MCTurnQueue.tla` to check a model and
`tlapm TurnQueueProofs.tla` to check the proofs of a module.  `PROJECT.json` says which lines
of the source each definition stands for, which hazard each property is for, and
with which fault in the model each property fails.

## 1. The system

Line numbers are those of `src/core/engine.go` unless a file is named.

| component | state it keeps | operations | what is hard |
|---|---|---|---|
| turn scheduling (`engine.go`, `Session` of `session.go`) | `Session.busy`; `interactiveStates[key]`; in each `interactiveState`: agent, `pendingMessages`, stop signal, message times | `handleMessage`, `queueMessageForBusySession`, `processInteractiveMessageWith`, `processInteractiveEvents`, `drainPendingMessages`, `drainOrphanedQueue`, `cleanupInteractiveState`, `/stop`, compress | one goroutine per message, three mutexes, entries replaced while others hold them, agents that die or hang |
| event hand-off (3409-3683) | `unsolicitedCancel`, `unsolicitedDone`, `eventsNeedResync`, the event channel | start, run, stop the background reader | two readers of one channel, a bounded wait for the one to stop |
| permissions (2588-2699, 4330-4412) | `state.pending` | request, answer, cancel | a turn blocked on a human |
| session store (`session.go`) | sessions, the active one per user, names, a JSON file | create, switch, delete, prune, save, load | saves in parallel, restart, what is not saved |
| stream preview (`streaming.go`) | text so far, preview handle, a timer | append, flush, freeze, discard, finish | a timer that fires against the end of the turn |
| cron (`cron.go`) | jobs in a file, timer entries | add, remove, enable, disable, update, run | the flag in the store against the entry in the timer |
| heartbeat (`heartbeat.go`) | an entry per project, a file | start, pause, resume, execute | idle probe against new turns |
| relay (`relay.go`, 13697-13900) | bindings, a session per pair of bots | bind, send, time out, drain | a late answer of a run that timed out |
| bridge (`bridge.go`) | adapters, pending preview requests | register, replace, acknowledge | reconnects, late acknowledgements |
| workspace pool (`workspace_state.go`) | for each workspace an object with the turn counter, the last activity and the session manager | get, create, begin, end, reap | reaping what has just become busy; counting on an object that has gone |
| rate limits, deduplication (`ratelimit.go`, `outgoing_ratelimit.go`, `dedup.go`) | windows, buckets | allow, wait | boundaries of the windows |
| management, API, webhook, hooks, speech, TTS, observer | none of their own | HTTP handlers, external calls | failure of the callee |
| agents, platforms, command line, configuration, daemon | processes, connections, files | I/O | the outside world |

How they meet: a platform calls `handleMessage` on a goroutine of its own.  Cron,
heartbeat, relay and the management API start turns in the same way.  A turn
locks the `Session`, owns the entry of its key in `interactiveStates`, sends the
prompt to the agent on one goroutine and reads the agent's event channel on
another, writes to the platform through the stream preview, and saves the session
store.  Between turns the background reader owns the event channel.

What makes each correct, in the order of importance:

1. *Turn scheduling*: one turn of a conversation at a time; the lock is released
   exactly once per lock; a message is answered, refused or dropped once; a
   queued message is not forgotten; a worker never cleans up the state of
   another turn.
2. *Event hand-off*: an event is consumed by the turn that caused it; the result
   of a turn ends that turn.
3. *Stream preview*: what the chat shows last is the final answer, once.
4. *Cron*: an enabled job has one timer entry, with its present expression;
   a disabled or removed job does not run.
5. *Session store*: a restart gives the sessions of the last change; an active
   session belongs to its user.
6. *Workspace pool*: the reaper drops no workspace, and no session manager, in the
   middle of a turn; and an idle workspace does not stay for ever.
7. *Relay, heartbeat, bridge*: a late answer or a late decision does not hit a
   successor.

`PROJECT.json` lists these as hazards, at the lines where they bite.

## 2. What is modelled

### TurnQueue

One conversation: one `Session`, one key of `interactiveStates`.

*State.*  `busy` is `Session.busy`.  `cur` is the entry of the map.  A Go
`interactiveState` is a member of `States`, with its `agent` (nil, live or dead),
its `stopped` flag, its `queue` and the two message times of the watermark.  It
stays in use by whoever looked it up: `href` is the state a handler holds, `wref`
the one a worker holds, `stopRef` the one `/stop` holds.  An identity returns to
use only when nothing refers to it and its queue is empty (`Unreferenced`).
`fate` is a history variable: what became of each message, as its sender sees it.

*Steps.*  An action is what happens between two points where another goroutine can
run: a critical section, or a stretch of code that touches only its own data.

| actor | pc | code |
|---|---|---|
| handler of a message | `new` -> `trylock` -> `accept` | `handleMessage`: stale check, `TryLock`, placeholder and start of the worker |
| | `trylock` -> `lookup` -> `enqueue` -> `recheck` | `queueMessageForBusySession`, its two critical sections, then the second `TryLock` |
| worker | `open` -> `begin` -> `wait` | `processInteractiveMessageWith`: reuse or start the agent, send |
| | `wait` | `processInteractiveEvents`: stop, result, error, failed send, closed channel, timeouts |
| | `ask` | a permission request has gone to the user (4408) |
| | `next` -> `resend` or `settle` | the next queued message in the same loop, or its end; either way the worker first waits for the `Send` of the turn that ended (4787, 4879) |
| | `command` -> `compress`, `abandon`, `purge` | the inline `runCompress` after a result: the wait for that `Send` (4722), then its own `Send` (9007) |
| | `closing` | the agent is being closed in `cleanupInteractiveState`, for up to 130 s |
| | `drain` | `drainPendingMessages` |
| | `orphan` | `drainOrphanedQueue` |
| | `unlock` | the deferred `Unlock` of the early returns |
| /stop | `Stop`, `StopNotify` | `stopInteractiveSessionWithOptions` |
| agent | `AgentDies` | the process exits, at any time |

`again` counts the drains that callers of a worker's loop still have to run: the
inline compress drains and returns into a turn that drains again.

*Waits without a limit.*  While a worker waits for the agent's `Send` to return or for an
answer to a permission request, no timer, stop signal or context ends its wait, and the
session stays locked (`HeldUp`); so it does while the agent starts.  Comments in the code
(2915) say of some agents that they block in `Send` until the turn is over.

*Abstractions.*  A message is an identity with a create time; texts, replies,
cards, the progress display and hooks are left out.  A failed or refused reply is
an outcome like the others.  Events other than the last one of a turn are left
out, as they change none of this state.  The two phases of the turn deadline are
one step with the cleanup they end in, and the mutexes are the atomicity of the
actions.

*Left out.*  Message recall, `/new` and `/switch` (which recycle an agent whose
session changed), how a permission is answered, and shutdown, which are in `AgentLife`;
the background reader, which is in `EventHandoff`; auto-reset on idle, and compress by
command.  Of a `cleanup` without an expected state this model has the one of a compress
whose `Send` fails (9012), and nothing of two `Session` objects behind one key.  If that
cleanup takes the agent from another worker that is about to compress, the code calls
`Send` on nil; the model's worker stays where it is.

*What it implements.*  `Mailbox` is the conversation as its users see it: `serving`, the
message being served, `waiting`, those that wait in order, and `fate`.
`TurnQueueRefinement` maps `TurnQueue` to it: a message is served while it is the
current one of a worker and its fate is open, and those that wait are the queue of the
state a worker runs on, or of the entry.  `Forget` is what is left of the promise when a
state leaves the map with a queue; `Serve` says that a new message may overtake the
queue, if it locks the session before the race guard does.

### EventHandoff

One `interactiveState` and its agent, until the agent is closed.  `TurnQueue` shows
that turns do not overlap; this module shows what happens to the channel of events
between them, and has only as much of a turn as touches it.

*State.*  `channel` holds the events nobody has taken, each with the job it is from: a
turn's prompt, or a task of the agent's own.  `registered` stands for
`unsolicitedCancel` and `unsolicitedDone`, which are set and taken together; a reader
is named after the turn that started it, as a turn starts one at most.  `cancelled` is
the reader's context, `held` the event it took, `needResync` is `eventsNeedResync`.
`agent` tells the process apart from the field that points to it: a cleanup sets the
field to nil (`closing`) before the process is gone (`closed`).
`late` and `outlived` are history variables: a turn locked before the turn before it
was through with its reader; a reader outlived the five seconds.

| actor | pc | code |
|---|---|---|
| turn | `stop`, `wait` | `stopUnsolicitedReader`: take the handle and cancel, then wait |
| | `sync` -> `drain` -> `send` | read the flag, `drainEvents`, `Send` |
| | `read` | `processInteractiveEvents`: text, result, error, closed channel, idle timer |
| | `ask`, `settle` | its two waits without a limit: for a permission, and after a result for the `Send` (`Returns`) |
| | `cleanup`, `cleanwait` | `cleanupInteractiveState`, which stops a reader too |
| | `unlock`, `after` | `drainPendingMessages`, and the test for a new reader |
| | `restop`, `rewait`, `capture`, `start` | `startUnsolicitedReader` |
| reader | `select` -> `check` -> `relay` | the select, the second look at the context, the event |
| agent | `AgentStart`, `AgentText`, `AgentEnds`, `AgentExits` | external |

`Cancel` and `Waited` are `stopUnsolicitedReader` for its three callers.  A cancelled
reader in `select` may still take an event, as Go's select chooses among ready cases.
Only a reader in `relay`, which calls the platform, can outlive the wait.

*Left out.*  How a permission request is answered, queued turns within one lock (they
read on and touch no reader), the turn deadline and /stop (they end in the same cleanup), a failed `Send`
(the agent is gone, and the channel closes as well), and workspace counters.

### AgentLife

The processes of one conversation and everything that takes them down.  `TurnQueue` has
turns that come one after another on one `Session`; here the active session of the key
changes, entries are recycled, and clean-ups run beside turns.

*State.*  `entry` is `interactiveStates[key]`; `agent`, `stopped` and `pend` are the fields
of each `interactiveState`; `opened` says that a turn has noted its workspace in the
entry.  A process is unborn, live, or over, which is ended or told to: nothing looks at
the difference but `Close`, whose wait the separate steps of a clean-up stand for.
`conv` is `CurrentSessionID` of a process, `bound` the `AgentSessionID` of a session.
`clean` holds, for each worker, the command and the reaper, the
`cleanupInteractiveState` it is in, with the expected state.

| actor | steps | code |
|---|---|---|
| worker | `TryLock`, `Skip` | 2298-2337, 2818: lock, placeholder, give up after shutdown |
| | `Reuse`, `Restart` | `getOrCreateInteractiveStateWith`: reuse, or recycle and start, resume, fall back to a fresh process, fail |
| | `Guard`, `Start`, `UsesNil` | 2851, 2898-2922: the check for an agent, and its use |
| | `TakeEvent`, `Bind` | 3894, then 4323-4335 or 4418-4435: an event is taken and the stop flag read; the session is bound to the id, when it may have been stopped |
| | `TurnEnds`, `TurnFails`, `Request`, `Ask` | the rest of `processInteractiveEvents` |
| any clean-up | `Capture`, `StopAndClose`, `Delete` | 3276-3332, between which others run |
| command | `CommandCleans`, `CommandClears`, `CommandEnds` | `cmdNew`; `/switch`, `/dir`, `/model` and the like are its parts |
| reaper | `ReapTargets` | `reapIdleWorkspaces`, once `ReapIdle` has said that the workspace is idle |
| others | `StopInteractiveSession`, `Answer`, `SwitchSession`, `Cancel`, `Sweep` | /stop or recall, permission answer, management API, `Engine.Stop` |

*Abstractions.*  A turn is the events that change this state; its queue and its reader are
the other modules'.  `getOrCreateInteractiveStateWith` holds `interactiveMu` from its
look at the entry to the new one, over the close and the start, and is one step;
`TryLock` and the placeholder are one step too, as no step both depends on the lock and
changes the entry.  An answer to a permission request is one step.  `Panic` ends the
daemon; its restart is not modelled.

The reaper may come at any time, also in the middle of a turn: when it may is a matter of
the count of turns, which `WorkspacePool` models and which can miss one.

*Left out.*  Auto-approval and questions with several parts, ids that change when a
process is resumed, auto-reset on idle.

### WorkspacePool

One workspace of multi-workspace mode (`workspace_state.go`).  `AgentLife` says what the
reaper does to agents; this module says when it comes.

*State.*  `pool` is the `workspaceState` that the pool has for the workspace, `active` its
`activeTurns`, and `idle` whether its `lastActivity` is before the reaper's cutoff.  An
object lives on in whoever looked it up: `home` is the one whose session manager a turn
uses, `on` the one it counts on, `got` the one a reader has just looked up.  `locked` has,
for each object, the conversations whose `Session` is locked in its manager.

| actor | steps | code |
|---|---|---|
| turn | `Resolve` | 2218-2232, `getOrCreateWorkspaceAgent`: touch, look up, the session manager |
| | `TryLock`, `Busy`, `NoAgent` | 2298, 2851 |
| | `Find`, `BeginTurn` | 2857-2858: look up once more, then count |
| | `Unlock`, `StartReader`, `EndTurn`, `DeferredUnlock` | 2933-2945, then the deferred calls, last one first |
| | `DrainOrphaned`, `DrainEnds` | `drainOrphanedQueue`, whose turns are not counted |
| reader | `FirstEvent`, `ReaderBegins` | 3550-3556: count what the agent does by itself, if the pool has the workspace |
| | `ReaderResult`, `ReaderLeaves`, `ReaderEnds` | 3493-3501, 3615-3619: look up once more, and lower the count of what is found |
| reaper | `ReapLooks`, `ReapCompares`, `ReapDrops` | `ReapIdle`: its look at the count, its look at the time, and the deletion, under the mutex of the pool but not under the object's |
| time | `TimePasses` | the timeout has passed since the last activity |

*Histories.*  `counted` is the object a reader has counted on.  `robbed` says that a
reader which had counted nothing on the object of the pool has lowered its count.
`exposed` are the turns that the reaper may therefore miss: those whose count may have
been taken, and those that began on an object the reaper was dropping or had dropped.

*Abstractions.*  A message and a cron job are one turn each; what a turn does between
`BeginTurn` and `EndTurn` is the other modules'.  The count of a dropped object is not
kept, as nobody reads it.  Which turns the Session lets in side by side is left to the
lock, one per conversation and manager.

*Left out.*  The paths and their bindings, `/dir` and the switch of a channel's directory,
the agent that the object caches, and the timeout 0, which switches the reaper off.

### StreamPreview

One turn and its `streamPreview`.  A text is a number of equal units, so that "the text
is shown" is a count: `posted` counts, for each unit, the messages of its own that show
it, and `message` is the preview in the chat with the units, the cut and the footer it
has.  The turn (`Text`, `AppendText`, `Tool`, `Result`, `Finish`, `Fail`, ...) and the
callbacks of the flush timer (`Fire`, `Callback`) share the fields of `streamPreview`
under its mutex; every call to the platform may fail.  Platforms are of three kinds, by
`PreviewCleaner` and `PreviewFinishPreference`.

`damage` notes what the code has no answer for, and the properties except it: a callback
that fired before the end and gets the mutex after it (*late*; `timerStop` is closed, but
the callback never reads it); a freeze that cuts the text at `MaxChars` (*cut*), although
`finish` says of that limit that it only throttles intermediate updates; a freeze whose edit
fails (*frozen*); a preview that cannot be deleted (*undeleted*).

*Left out.*  Quiet and compact display, rich cards, silent replies, permission prompts
in the middle of the text, `suppressDuplicate`, `setStatus` and `appendSeparator`.

### CronScheduler

A job is in the store (`job`) and its file (`disk`), in `cs.entries`, and in the timer
library (`lib`).  A request is a sequence of critical sections (`Steps`), of which two
requests and the start-up interleave: `main.go:902` starts the scheduler after the
platforms that deliver commands (`main.go:890`).  A crash loses all but the file; a save
fails at will.

*Fields.*  `cron_expr` and `enabled` reschedule.  Of other fields that `updateJobField`
knows (`SetField`) the model sees the save.  A field it does not know it sets by reflection
(379): `CronExpr` changes the expression, which is then neither parsed nor scheduled
(`SetExprRaw`), and `ID` the id (`Rename`), as the list of what cannot be updated has it
in lower case only (284).  The entry stays under the old id and fires for a job that no
store has; requests, the start-up and runs that have the job in hand go on with the new
id.  An expression that does not parse (it is in `Exprs` and not in `Valid`) makes
`scheduleJob` return (647) when it has removed the old entry from the library and
`cs.entries` still names it.

*Runs.*  `Fire` is the timer; `ExecuteJob` looks the job up under the store's mutex (655);
`RunJob` reads its flag without (684), from a job that may have been removed since.
`RunJobNow` runs a copy whatever the flag says.  `MarkRun` ends a run when the engine has
returned or the timeout is over, and need not come: with `timeout_mins` 0 there is no
timeout.

*Histories.*  `unsettled` notes that requests on one job overlapped, that an add was not
saved, that a job could not be scheduled, or that its id changed: then the schedule may
differ from the store until a request that runs alone repairs it, an enabled job without
an entry, or a disabled or removed job with one, which the checks of `executeJob` and
`runJob` make harmless (`OffStaysOff`).  `raw` are the jobs whose expression was set by
reflection since they were last scheduled.

*Left out.*  A project that is not found, an id that is given to two jobs, `last_error`
set by reflection, what expressions mean.

### SessionStore

The manager is one record, in memory (`mem`) and in the file (`file`): sessions with
their agent id, past ids and history, the list and the active session of each key, and
the counter.  What changes the maps saves under the same lock (`Commit`); what changes a
session's fields is saved later by a `Save`, which copies under a read lock and then
writes (`SaveCopies`, `SaveWrites`): two may overlap.  `Crash` and `Start`, possibly with
another agent (`InvalidateForAgent`), come at any time, and so does `cc-connect sessions
prune`, a process of its own with a manager of its own on the same file.

The list of a key counts how often each id occurs in it: ids are handed out in growing
order and appended, so their order is the order of the list, and `deleteByIDLocked` takes
one occurrence away.  The deletion of several sessions under one lock (`Removed`) is one
function of the set.  What the file holds at the very first start (`Files`) is assumed to
have been written by an earlier run, that is, to be sound in the sense of `Owned`,
`AtHome` and `Counted`, which is what `SessionStoreProofs` shows of every file written.

Histories: `behind`, the file was written by the prune command, or a write failed;
`durable`, the sessions unchanged since a Save that returned; `overtaken`, a Save that
another one overtook.

*Left out.*  Names, the legacy flag, the `ContinueSession` sentinel,
`PruneEmptySessions` (it has no caller), an unreadable file, and `LastUserActivity`.
The last is not in the copy that is saved: after a restart the idle reset falls back to
`UpdatedAt`.

## 3. What the models check

| model | properties | what it shows |
|---|---|---|
| `TurnQueueSafety` | `MutualExclusion`, `BusyIsHeld`, `EntryIsServed`, `OneHome`, `FateSettledOnce`, `ServesAsMailbox` | with auto-compress off, one /stop at any moment, agents that die or fail to start: every interleaving keeps lock, entry and queue consistent |
| `TurnQueueLiveness` | `TypeOK`, `NoOrphanQueue`, `LockReleased`, `QueuedIsDealtWith` | with auto-compress on and fair goroutines, turns end and queued messages are dealt with, unless the agent or the user holds the worker up, and somebody always comes to the queue of a live agent |
| `TurnQueueSuperseded` | `SupersededOnlyByServed` | violated |
| `TurnQueueCompress` | `MutualExclusion` | violated |
| `TurnQueueStartup` | `NothingLeftBehind` | violated |
| `EventHandoff` | `TypeOK`, `HandoffExclusive`, `ReaderCanBeStopped`, `TurnEnds` | outside the two windows the channel has one reader, no reader is lost, and turns end whatever becomes of their events, unless the agent or the user holds them up |
| `EventHandoffTheft` | `NoTheft` | violated |
| `AgentLife` | `TypeOK`, `LiveIsEntry`, `NothingStartsAfterStop`, `IdsNotShared`, `ReplacementSurvives`, `StoppedTurnEnds` | processes, sessions and turns stay together while commands, /stop, the reaper and shutdown take entries down |
| `WorkspacePool` | `TypeOK`, `ReaperSeesTurns` | the reaper may go by the count: it is the turns, and a counted turn keeps its workspace |
| `StreamPreview` | `TypeOK`, `EveryUnitShown`, `NoUnitTwice`, `GoneStaysGone`, `CatchesUp` | the chat ends with the answer, each part once |
| `CronScheduler` | `TypeOK`, `OneEntryPerJob`, `ScheduleFollowsStore`, `FiresByStoredExpr`, `FileIsCurrent`, `OffStaysOff` | the library does what the store says |
| `SessionStore` | `TypeOK`, `StructureIsCurrent`, `DurableIsSaved`, `OneOwner`, `ActiveInChat`, `KnownStaysKnown` | a restart finds what was saved, and sessions stay with their users |

*MutualExclusion*: no two goroutines start, run or drain turns at once.
*BusyIsHeld*: the flag is up exactly while a goroutine holds the session; no path
forgets the unlock or unlocks for someone else.  *EntryIsServed*: the entry of the
map is the state of the running worker, unless /stop deleted it, so a cleanup never
meets a successor's entry.  *NoOrphanQueue*: the race guard of `handleMessage` works:
a message queued on a live agent always has a goroutine that is at this very queue,
about to open its entry, or about to try the lock; a turn that runs elsewhere would not
do.  It holds with auto-compress, too.  *OneHome*: a
message is in one queue, once, and not also with a worker.  *FateSettledOnce*: no
message is both answered and reported dropped.  *LockReleased*, *QueuedIsDealtWith*:
turns end, and a message that was told it will be processed is dealt with, unless a worker
is held up for good (`HeldUp`), or again and again by permission requests.  The code has
no way out of these waits; the two properties say that it needs one nowhere else: from
every state in which nobody is held up the engine gets on by itself, so no unlock is
forgotten, and no message passed over, through stops, timeouts, exits and handovers of the
queue.

`QueuedIsDealtWith` also excepts messages that are `Stranded`, in the queue of a state
whose agent is gone or that /stop removed from the map.  Such messages exist: the
handler looks the state up before /stop deletes it and appends afterwards, or the
start of the agent fails.  The next message that opens the entry adopts the queue
in the second case; in the first the message is lost with the state.

*HandoffExclusive*: if each turn is through with starting its reader before the next
one locks, and no reader outlives its wait, then one reader runs at most, and none
beside a turn that owns the channel.  Each condition is needed: without the first, the
late turn's `stopUnsolicitedReader` may also take the handle of a reader that the next
turn then does not wait for.  *ReaderCanBeStopped*: a reader that runs uncancelled is
the registered one, even where a reader outlived its wait.  *TurnEnds*: a hung call to
the platform, a stolen result and a silent agent delay a turn but do not hold it.  An
unanswered permission does, and so does a prompt that the agent does not take: a turn that
has read the result of a background job waits for its own `Send` without the idle timer.

*ServesAsMailbox*: `TurnQueue` implements `Mailbox`.  One message is served at a time,
none twice, and those that wait are served in order or settled; each of `Mailbox`'s
actions is needed for it.

`AgentLife`.  *LiveIsEntry*: a live process is the entry's, or a clean-up has it in its
hands; the exception are processes whose entry an unguarded clean-up deleted (`lost`, see
below).  *NothingStartsAfterStop*: once `Engine.Stop` has emptied the map, workers on
their way to a turn start nothing that nobody would close.  *IdsNotShared*: two
sessions are not bound to one agent session, unless one was let on to a process that had
not told its id (`joined`).  *ReplacementSurvives*: no step of a clean-up with an expected
state takes another state out of the map, takes its process or its pending request away,
stops it, or closes its process, though the entry may be replaced between any two of its
steps.  *StoppedTurnEnds*: a stopped turn leaves its loop and gets to the unlocking, even
if it waits for a permission; the exceptions (`deaf`) are listed below.  It does not say
that the session is unlocked then, as a turn that took its result may still wait for the
agent's `Send` (`TurnQueue`).

`WorkspacePool`.  *ReaperSeesTurns* has two parts.  *CountFollowsTurns*: the count is
never more than the turns and readers that are to lower it again, so that an idle
workspace goes in the end, and it is exactly these until a reader takes one.
*ActiveStaysPooled*: a turn that is not `exposed` is in a workspace of the pool, however
long it takes; and while it holds its Session, the next message of the conversation finds
the same manager, and in it the Session locked.

`StreamPreview`.  *EveryUnitShown*, *NoUnitTwice*: whichever calls fail, an answered turn
shows each unit of its text, once.  *GoneStaysGone*: a late callback revives no deleted
preview.  *CatchesUp*: text that was held back by the throttle is flushed by the timer.

`CronScheduler`.  *OneEntryPerJob*: an entry that fires for an id is the one the scheduler
has for it, so none fires twice or out of reach.  *ScheduleFollowsStore*: after a request
that ran alone and got through, a job has an entry that fires exactly if it is enabled; a
change of the id counts as a request that did not get through, for the old id and the new
one.  *FiresByStoredExpr*: even after overlapping requests the entry has the stored
expression, unless that was set by reflection since.  *FileIsCurrent*: a restart finds what
the program knew.  *OffStaysOff*: after a disable that ran alone no scheduled run begins,
even if it had fired and found the job; after a removal one that had found it may, as the
flag of the removed job is still up.

`SessionStore`.  *StructureIsCurrent*: no overlapping save undoes a creation, a switch
or a deletion.  *DurableIsSaved*: what a Save returned for is in the file.  *OneOwner*:
every session is in one list; no id is handed out twice, over restarts and prunes.
*ActiveInChat*, *KnownStaysKnown*: active sessions stay in their chat, and ids a session
once had stay known to the filter of foreign sessions.  (*BoundToAgent*, that sessions of
another agent are unbound at the start, is proved only; see section 4.)

### What the code does otherwise than its words

* *A queued message dropped by the one behind it* (`TurnQueueSuperseded`).  The
  loops that drop stale heads (4749, 5071) compare a head with a watermark that
  includes the queue (364).  Where the platform gives create times, only Feishu
  does, the older of two queued messages is dropped, although its sender read that
  it will be processed.
* *Auto-compress unlocks the turn it runs in* (`TurnQueueCompress`).  "Run compress
  inline while the session is still locked" (4739), but `runCompress` always
  unlocks, and the caller goes on to drain and unlock again (2933).  Two turns of a
  conversation then overlap.  `OneTurnAtATime`, `LockIsNeverLeaked` and
  `TurnOwnsItsEntry` therefore assume that auto-compress is off, which is the default;
  `RaceGuard` and `BusyHasHolder` say what is left of the lock when it is on.
* *A failed start leaves the queue* (`TurnQueueStartup`).  Messages queued on the
  placeholder "instead of dropped" (2334) stay in the queue when the agent does not
  start (2853), until another message comes.
* *A reader takes the next turn's events* (`EventHandoffTheft`).  "Concurrent consumers
  cannot silently steal foreground events" (3445), but the reader is started after the
  unlock (2944), so the next turn may already have found no reader to stop.  Nothing
  cancels the reader, and it reads beside that turn.  If it takes the result, the turn
  waits for its idle timer, which closes the agent.

Met while modelling, and made exceptions of the properties above rather than findings of
their own, as no line of the repository says the opposite, or a violation would show no
more than the code does:

* A clean-up without an expected state deletes whatever entry it finds at its end
  (3331).  If a turn has opened a new one meanwhile, its process goes on without an
  entry, and the next message starts a second one (`lost`).
* The check for an agent (2851) and its uses (2905, 2919, 3793) are separate, and a
  clean-up sets the field to nil between them (3287): a nil dereference in a goroutine
  that does not recover (`UsesNil`).  The answer to a permission request has the same
  window (`AnswerOnNil`).  A test (`engine_test.go:8648`) asks for no panic when the
  field is nil beforehand.
* A permission request that is made after its state was stopped or left the map, or that
  is pending when the entry is recycled (3108, which unlike 3302 does not resolve it) or
  deleted in passing, can be resolved by nobody, and the session stays busy (`deaf`).
  Two answers to one request at once can wipe the next request as well; an answer is one
  step here.
* A turn waits for `<-pendingSend` (4722, 4788, 4880), and a compress for its own `Send`
  (9007), without a timer, the stop signal or the context.  An agent that does not take a
  prompt after the turn has read a result keeps the session locked, and /stop does not
  free it.
* An update of the job's field `ID` leaves an entry behind that fires for the old id, and
  the job under its new id without one, by a request that runs alone; one of `CronExpr`
  stores what may not parse, and the job keeps its old entry.  The comment at
  `cron.go:282` says that the id cannot be modified; the list next to it has `id` only.
* `scheduleJob` removes the old entry before it knows that the new expression parses; the
  id of the entry removed stays in `cs.entries` (640, 646).
* A job that is removed between the look-up of a run that fired and its look at the flag
  runs once more (`cron.go:655`, 684).
* A process that has not told its id is used for whatever session is active, although
  another session may be bound to it later (`joined`).
* /new clears the id of the session that is active by then; a turn that started between
  its clean-up and the clear binds it again.
* A reader that finds the workspace dropped at its first event counts nothing (3553), but
  lowers the count of whatever object is there when it ends (3496, 3616).  If a turn has
  begun on a new object meanwhile, the reaper takes the workspace for idle and closes the
  agent in the middle of the turn (`robbed`).  A test (`engine_test.go:7906`) asks that
  the reaper leaves a session with an active turn alone, and drives one turn alone.
* A turn looks the object up and then counts on it (2857-2858).  If `ReapIdle` has read the
  count in between, it drops the object that the turn then counts on, and nothing keeps
  the agent of the turn from the clean-up.  The turns of `drainOrphanedQueue` are not
  counted at all, so the reaper may come at any time during one.
* When the reaper drops a workspace, its session manager goes too, and the next message
  makes another one on the same file.  A goroutine that still has the old one locks
  and saves sessions that the new one does not share.
* Custom commands and skills in multi-workspace mode lock the active session of the
  interactive key (12562, 12790), not of the session key as messages do (2297), so that
  their turns do not wait for a message's turn.  `TurnQueue` models the messages.
* After a prune without merging, the active session of a key may belong to another key
  of the chat, where /switch does not find it; `ClearHistory` after /switch is not saved.

### Bounds

Three messages: one in a turn, one queued, one that arrives, locks or queues in
between; each can be the one that starts a worker, so three workers exist.  Four
states: one in the map, one being closed, one held by a handler, one held by /stop;
`Unreferenced` keeps the model from waiting for a fifth, and TLC reaches no state in
which none is free and one is needed.  A queue of two (safety) lets the two
messages of a queue meet; a queue of one (liveness) reaches the limit.  One /stop:
the command changes an entry once, and a second finds a new entry.  Create times 1,
2 and none, as Feishu mixes with cron; untimed elsewhere.  Auto-compress is off
in the safety model, because the second finding breaks the lock there, and on in the
liveness model.  Deadlock is not checked: the conversation may fall silent when all
messages are handled.

Two turns of `EventHandoff`, one that starts its reader and one that stops it; each of the
safety properties fails with two where its fault is put in, and is proved for any number.
Three turns for the theft: a late one, the one whose reader's handle it takes, and the one
that then finds no reader to stop.  One background job, with a text and a
result or an error, so that a reader can be at any of its steps when it is stopped.

`AgentLife`: two messages, so that one worker holds a state while another opens or recycles
the entry; two processes and two sessions; four states, for the entry, the two workers'
and the one a clean-up holds; a step that makes a state waits for a free identity
(`HasFree`).  `MaxEvents` is 2: of commands, reaps, stops, switches,
shutdowns and permission requests any two happen beside the turns.
Processes exit and report their id where somebody sees it.  The first message begins before
the second (`FirstComesFirst`), as the two are the same up to their names, which symmetry
could not say under a liveness property.

`WorkspacePool`: two turns of one conversation, each with its reader, so that a reader can
outlive its workspace while the other turn runs on the next; two objects, the dropped one
and its successor, which are interchangeable (symmetry).  A third object, or turns of two
conversations, show the same in several times the states.

`StreamPreview`: four units of text and a limit of three, so that a preview is cut off in
the middle of an answer and after tools; three timers, one pending, one fired, one new.

`CronScheduler`: one job, as jobs share only the mutexes, with a second id it may take;
two requests beside the start-up, which are interchangeable, two expressions that parse
and one that does not, two entry ids, one run; crashes and failing saves without bound.
`Bounds` of `MCCronScheduler` keeps the combinations apart: requests overlap only while no
save has failed and neither the expression nor the id was set by reflection; then one at a
time goes on.  The proofs have no such bounds.

`SessionStore`: two users of one chat and one of another, three sessions of which two
are in the file from the start, two types of agent; two Saves, which are
interchangeable (symmetry); one change of a field or switch, and two of failing write,
restart and prune.

An entry id of `CronScheduler` returns to use when it is free, and a request waits for a
free one; the proofs allow any number of ids, also fewer than jobs.

### Fairness

In `TurnQueue` a goroutine that was started runs on: weak fairness of each handler after
it arrived, of the steps a worker takes by itself (`Goes`), of the notifying half of /stop.
Nothing is assumed of users, of /stop, or of the agent.  A worker that waits for a silent
agent in the event loop is woken by its idle timer, on by default (3775; 2 hours), and so
`TurnTimeout` is always enabled in `wait`.  Where it is configured to 0, turns can hang,
and the liveness properties do not apply.  The steps that end a wait outside that loop
(`Returns`) have no fairness: the start of the agent, the return of a `Send`, the answer
to a permission request.  An agent's `Close` ends by its own timeout (3342).

In `EventHandoff`, turns and readers run on, but a reader's call to the platform
(`ReaderRelayed`) need not return, and the agent need not do anything, not even take a
prompt (`Returns`).  `TurnEnds` rests on the idle timer and on the limit of the wait.

In `AgentLife` the goroutine of a turn runs on in its event loop (`Goes`), with its own
clean-up; nothing is assumed of users, processes, commands, the reaper, a turn's start, or
the unlocking (`Unlock`), which may be behind a wait for the agent's `Send`.  In
`StreamPreview` armed timers fire and their callbacks get the mutex; the agent need not
go on.  `CronScheduler`, `SessionStore` and `WorkspacePool` have safety properties only
and no fairness.

## 4. What is proved

The invariants and action properties of the passing models hold for every value of the
constants: any number of messages, states, turns, timers, jobs, sessions, overlapping
saves and events.  The constants' own assumptions are the named `ASSUME`s of the modules
(names that differ, bounds that are numbers, a file that was written by an earlier run);
TLC evaluates them.  Each proof has the same outline: an inductive invariant, found and
checked with TLC first, then one lemma for each action, then `Init`, `Next` and PTL.

| module | theorem | states |
|---|---|---|
| `TurnQueueProofs` | `TypeCorrect` | `TypeOK`, with the queue limit |
| | `OneTurnAtATime`, `LockIsNeverLeaked`, `TurnOwnsItsEntry` | `MutualExclusion`, `BusyIsHeld`, `EntryIsServed`, without auto-compress |
| | `RaceGuard`, `BusyHasHolder` | `NoOrphanQueue`, and that a busy session has a holder that is still at work, with auto-compress on or off |
| | `OneHomeAlways`, `SettledOnce` | `OneHome`, `FateSettledOnce`, with auto-compress on or off |
| `TurnQueueMailboxProofs` | `TurnQueueIsAMailbox` | `ServesAsMailbox`, without auto-compress |
| `EventHandoffProofs` | `HandoffTypeCorrect`, `HandoffIsExclusive`, `RunnersCanBeStopped` | `TypeOK`, `HandoffExclusive`, `ReaderCanBeStopped` |
| `AgentLifeProofs` | `LifeTypeCorrect`, `NoStrayProcess`, `StopIsFinal`, `SessionsKeepTheirIds`, `CleanupSparesOthers` | `TypeOK`, `LiveIsEntry`, `NothingStartsAfterStop`, `IdsNotShared`, `ReplacementSurvives` |
| `WorkspacePoolProofs` | `PoolTypeCorrect`, `ReaperSeesEveryTurn` | `TypeOK`, `ReaperSeesTurns` |
| `StreamPreviewProofs` | `PreviewTypeCorrect`, `AnswersAreComplete`, `AnswersShowOnce`, `DeletedStaysDeleted` | `TypeOK`, `EveryUnitShown`, `NoUnitTwice`, `GoneStaysGone` |
| `CronSchedulerProofs` | `CronTypeCorrect`, `EntriesAreUnique`, `StoreIsScheduled`, `ExprIsCurrent`, `FileFollowsStore`, `OffIsFinal` | `TypeOK`, `OneEntryPerJob`, `ScheduleFollowsStore`, `FiresByStoredExpr`, `FileIsCurrent`, `OffStaysOff` |
| `SessionStoreProofs` | `StoreTypeCorrect`, `MapsAreCurrent`, `SavedIsDurable`, `SessionsHaveOneOwner`, `ActiveStaysInChat`, `SessionsFitTheAgent`, `IdsStayKnown` | `TypeOK`, `StructureIsCurrent`, `DurableIsSaved`, `OneOwner`, `ActiveInChat`, `BoundToAgent`, `KnownStaysKnown` |

### The inductive invariants

*`TypeInv`, `LockInv`* (`TurnQueueProofs`).  `TypeOK` is not inductive: that a worker's
state is a state, and its message a message, depends on where it is; `TypeInv` adds these
places.  The three lock properties are proved together, because each needs the others: a
worker may unlock only because it is the only holder, and the entry changes only under
the lock.  What makes it inductive is that no worker is in a compress
(`NeverCompresses`).

*`GuardInv`* (`TurnQueueProofs`) carries the race guard without any of them, since a
compress breaks all three.  A worker that unlocks by its deferred `Unlock` alone leaves
no live agent in the entry (`UnlockIsAgentless`): that is why the early returns may leave
a queue behind.  And a lock that is held has a holder, who is at the entry if its agent
lives (`LockIsAttended`).  The last survives the second unlock of a compressed turn: it
can only free the session, and whoever locks it afterwards is a holder of its own.

*`FateInv`* (`TurnQueueProofs`).  No message is at two positions of the queues
(`OnePlace`), what is queued has the fate "queued" and no worker, and a worker serves a
message that is not settled.  None of it mentions the session lock, so what happens to a
message is right even where auto-compress breaks the lock.

*`MapInv`* (`TurnQueueMailboxProofs`) is `LockInv` and `FateInv`, and that a worker has a
state only while it runs on it (`RunInv`).  With it the waiting messages of `Mailbox` are
the queue of the one worker's state (`WhatWaits`), and each action is one of `Mailbox`, or
a stutter.

*`HandoffInv`* (`EventHandoffProofs`).  `HandoffExclusive` says nothing of the turns that
have not got past their `stopUnsolicitedReader`.  What carries it is `RunnerKnown`: a
reader that runs is the registered one or its exit is waited for; with `OneAtATime`, which
fails exactly when a turn locks before the one before has started its reader (`late`).

*`LifeInv`* (`AgentLifeProofs`).  A clean-up that has taken the process out of a state
leaves that state without one for good (`TakenInv`); after shutdown has emptied the map
an entry has no process (`SweptInv`); and a worker that is in a turn, or about to be in
one, is attached to a process of its own session, or of a conversation several sessions
were let on to (`OwnInv`).  The last carries `IdsNotShared` over the windows in which the
session has no id and the process already has an owner.  `ReplacementSurvives` needs that
a clean-up which was meant for a state has captured that one, and that the process in its
hands is no other state's (`CleanInv`), for which no two states may have one process.

*`PoolInv`* (`WorkspacePoolProofs`).  The count is a number and its holders are a set, so
each `BeginTurn` and `EndTurn` is a step of a cardinality (`CountComes`, `CountGoes`).
For a reader this needs that one which ends and has counted on the object of the pool has
found that very object (`ReaderRefs`), since the pool never takes an object back.  That a
counted turn keeps its workspace is inductive only with `Unseen`: whenever the count has
been robbed, or the reaper has read count and time and goes on to drop the object, all
turns on it are exposed ones.  The Session part rests on `LockInv`: of two turns of one
conversation that hold their Session, each has a manager of its own.

*`ChatInv`* (`StreamPreviewProofs`) follows the preview through a turn: before the answer
is sent, what is settled is in a message of its own or in the detached preview, never
both (`PostedInv`, `SettledShown`); when it is sent, the chat shows none of it
(`SendInv`); and afterwards only a preview that shows the answer alone can still be edited
by a late callback (`DoneInv`).

*`CronInv`* (`CronSchedulerProofs`).  `LeftOK` says which steps a request may have left;
an entry with an old expression is about to be replaced by some request, or the expression
was set by reflection (`StaleInv`); a request that ran alone so far has achieved what its
place says (`AloneInv`); a job that nobody handles and no overlap has unsettled is
scheduled as stored (`SettledInv`).  A job that is still being added is nowhere
(`AddInv`): ids are new.  `EntryInv` adds to `OneEntryPerJob` that no two jobs have the
same entry, not even one that is gone from the library: the dead entry which a failed
`scheduleJob` leaves behind must not come to life as another's.

*`StoreInv`* (`SessionStoreProofs`).  A manager is in four places: memory, file, the copy
of each Save under way and what the prune command has read.  Each of them is sound
(`StoredInv`), so that any of them may become the file; a copy has the maps of the memory
while it is there, because changes of the maps wait for it, and the fields of the sessions
not changed since; and a copy that no other overtook has all that is durable (`SaveInv`).

### What the proofs changed in the models

* `CronScheduler` and `AgentLife` took a free entry id or identity with `CHOOSE` without
  saying that there is one; the bound is now a guard (`Schedule`, `HasFree`).
* `AgentLife` let the reaper come only while no turn ran, and noted the turns that ran when
  it came: that set was then always empty, as an attempt to prove something about it
  showed.  The guard is gone, since the code can miss a turn, and all properties hold
  without it; the count has a module of its own.
* `NoOrphanQueue` said that the session is busy or a handler about to try the lock.  With
  auto-compress that is false for a moment in which nothing is lost, since a compressed
  turn still drains its queue; and without it, a busy session says too little, because
  the holder might work on another state.  It names the goroutine that comes to the
  queue now (`Attends`), and is proved with auto-compress on or off.
* `SessionStore` had its lists as sequences, filtered by recursive operators, about which
  nothing can be proved here; the lists count their ids now (section 2).

### Only model-checked

* The liveness properties (`LockReleased`, `QueuedIsDealtWith`, `TurnEnds`,
  `StoppedTurnEnds`, `CatchesUp`): fairness and ENABLED are outside this
  prover's reach.
* `MutualExclusion` is false with auto-compress on (`TurnQueueCompress`); with it go
  `EntryIsServed` and the half of `BusyIsHeld` that says a holder has the flag up.  The
  other three properties that are checked to be violated are no theorems either.

## 5. Plan

Relay and heartbeat: the drain of a relay that timed out, and the heartbeat's probe of a
session it does not keep locked; then the bridge's acknowledgements.

### Not modelled

Text formatting, cards, speech, translations, the HTTP interfaces, the adapters of
agents and platforms, installation and configuration: sequential code or I/O, with
nothing a model of this kind would show.  They are most of the lines of the repository:
the modules cover the concurrent core of `engine.go`, `session.go`, `streaming.go` and
`cron.go`, and a small part of the whole.  Rate limits and deduplication are short
sequential code over the clock, with tests of their own.
