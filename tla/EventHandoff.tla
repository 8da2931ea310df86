----------------------------- MODULE EventHandoff -----------------------------
(***************************************************************************)
(* Who reads the event channel of an agent (src/core/engine.go).  During a *)
(* turn the turn's own goroutine does, in processInteractiveEvents; between *)
(* turns a background goroutine does, runUnsolicitedReader, which relays    *)
(* what the agent reports by itself.  A turn stops the reader of before it, *)
(* and starts a new one after it has unlocked the session.                  *)
(*                                                                         *)
(* One interactiveState and its agent, from the first turn to the end of   *)
(* the agent.  A reader has the name of the turn that started it.          *)
(***************************************************************************)
EXTENDS Integers, Sequences

CONSTANTS
    Turns,          \* user turns of this agent
    Background,     \* the source of events the agent reports by itself
    NoTurn,         \* no reader registered, no job, nothing to wait for
    MaxBackground   \* bound: jobs the agent starts by itself

ASSUME NamesAssumption ==
    Background \notin Turns /\ NoTurn \notin Turns /\ Background # NoTurn
ASSUME MaxBackgroundAssumption == MaxBackground \in Nat

VARIABLES
    busy,       \* Session.busy
    tpc,        \* turn -> where its worker is
    waits,      \* turn -> the reader whose exit it waits for
    registered, \* unsolicitedCancel and unsolicitedDone: the reader they belong to
    needResync, \* eventsNeedResync
    rpc,        \* reader -> where it is
    cancelled,  \* reader -> whether its context is cancelled
    held,       \* reader -> the event it took
    channel,    \* the events nobody has taken yet
    agent,      \* "live", "exited"; set to nil: "closing" until it exits, "closed"
    inbox,      \* turns whose prompt is on its way to the agent
    job,        \* the source of the events the agent is producing
    spoke,      \* whether the job has produced a text
    jobs,       \* background jobs so far
    late,       \* some turn locked before the one before it was through
    outlived    \* some reader outlived the wait for its exit

turnVars    == <<busy, tpc, waits>>
readerVars  == <<rpc, cancelled, held>>
agentVars   == <<inbox, job, spoke, jobs>>
historyVars == <<late, outlived>>
vars == <<turnVars, registered, needResync, readerVars, channel, agent, agentVars,
          historyVars>>

Sources == Turns \cup {Background}
Kinds   == {"text", "result", "error"}
Events  == [src : Sources, kind : Kinds]
Nothing == [src |-> Background, kind |-> "text"]

(* The agent process runs, so the channel is open. *)
Running == agent \in {"live", "closing"}

WaitPcs  == {"wait", "cleanwait", "rewait"}
TurnPcs  == WaitPcs \cup {"new", "stop", "sync", "drain", "send", "read", "cleanup",
                "ask", "settle", "unlock", "after", "restop", "capture", "start", "end"}
OwnerPcs == {"sync", "drain", "send", "read", "ask"}
StartPcs == {"after", "restop", "rewait", "capture", "start"}
RunPcs   == {"select", "check", "relay"}
ReaderPcs == {"none", "exited"} \cup RunPcs

TypeOK ==
    /\ busy \in BOOLEAN
    /\ tpc \in [Turns -> TurnPcs]
    /\ waits \in [Turns -> Turns \cup {NoTurn}]
    /\ \A t \in Turns : tpc[t] \in WaitPcs => waits[t] \in Turns
    /\ registered \in Turns \cup {NoTurn}
    /\ needResync \in BOOLEAN
    /\ rpc \in [Turns -> ReaderPcs]
    /\ cancelled \in [Turns -> BOOLEAN]
    /\ held \in [Turns -> Events]
    /\ channel \in Seq(Events)
    /\ agent \in {"live", "exited", "closing", "closed"}
    /\ inbox \in SUBSET Turns
    /\ job \in Sources \cup {NoTurn}
    /\ spoke \in BOOLEAN
    /\ jobs \in 0 .. MaxBackground
    /\ late \in BOOLEAN
    /\ outlived \in BOOLEAN

Init ==
    /\ busy = FALSE
    /\ tpc = [t \in Turns |-> "new"]
    /\ waits = [t \in Turns |-> NoTurn]
    /\ registered = NoTurn
    /\ needResync = TRUE
    /\ rpc = [r \in Turns |-> "none"]
    /\ cancelled = [r \in Turns |-> FALSE]
    /\ held = [r \in Turns |-> Nothing]
    /\ channel = <<>>
    /\ agent = "live"
    /\ inbox = {}
    /\ job = NoTurn
    /\ spoke = FALSE
    /\ jobs = 0
    /\ late = FALSE
    /\ outlived = FALSE

-----------------------------------------------------------------------------
(***************************************************************************)
(* stopUnsolicitedReader, called by turn t: the handle is taken and the     *)
(* context cancelled; then t waits for the exit, for five seconds.          *)
(***************************************************************************)

(* Variants with a fault: the caller does not wait; the context is not      *)
(* cancelled; the handle is not tested.                                     *)
CancelWithoutWait(t, wait, go) ==
    /\ registered' = NoTurn
    /\ cancelled' = IF registered = NoTurn THEN cancelled
                    ELSE [cancelled EXCEPT ![registered] = TRUE]
    /\ tpc' = [tpc EXCEPT ![t] = go]
    /\ UNCHANGED waits

CancelForgotten(t, wait, go) ==
    /\ registered' = NoTurn
    /\ waits' = [waits EXCEPT ![t] = registered]
    /\ tpc' = [tpc EXCEPT ![t] = IF registered = NoTurn THEN go ELSE wait]
    /\ UNCHANGED cancelled

CancelUntested(t, wait, go) ==
    /\ registered' = NoTurn
    /\ cancelled' = [r \in Turns |-> cancelled[r] \/ r = registered]
    /\ waits' = [waits EXCEPT ![t] = registered]
    /\ tpc' = [tpc EXCEPT ![t] = wait]

(* With a reader to wait for t goes to wait, else straight on to go. *)
Cancel(t, wait, go) ==
    /\ registered' = NoTurn
    /\ IF registered = NoTurn
       THEN /\ tpc' = [tpc EXCEPT ![t] = go]
            /\ UNCHANGED <<cancelled, waits>>
       ELSE /\ cancelled' = [cancelled EXCEPT ![registered] = TRUE]
            /\ waits' = [waits EXCEPT ![t] = registered]
            /\ tpc' = [tpc EXCEPT ![t] = wait]

(* Variant with a fault: the wait has no limit. *)
WaitedUnbounded(t, go) ==
    /\ rpc[waits[t]] = "exited"
    /\ waits' = [waits EXCEPT ![t] = NoTurn]
    /\ tpc' = [tpc EXCEPT ![t] = go]
    /\ UNCHANGED <<needResync, outlived>>

(* The end of the wait.  Only a reader that is in a call to the platform    *)
(* takes longer than the five seconds.                                      *)
Waited(t, go) ==
    /\ \/ /\ rpc[waits[t]] = "exited"
          /\ UNCHANGED <<needResync, outlived>>
       \/ /\ rpc[waits[t]] = "relay"
          /\ needResync' = TRUE
          /\ outlived' = TRUE
    /\ waits' = [waits EXCEPT ![t] = NoTurn]
    /\ tpc' = [tpc EXCEPT ![t] = go]

-----------------------------------------------------------------------------
(***************************************************************************)
(* A turn: processInteractiveMessageWith, on the state with the agent.      *)
(***************************************************************************)

Lock(t) ==
    /\ tpc[t] = "new" /\ ~busy /\ agent = "live"
    /\ busy' = TRUE
    /\ tpc' = [tpc EXCEPT ![t] = "stop"]
    /\ late' = (late \/ \E u \in Turns : tpc[u] \in StartPcs)
    /\ UNCHANGED <<waits, registered, needResync, readerVars, channel, agent, agentVars,
                   outlived>>

StopReader(t) ==
    /\ tpc[t] = "stop"
    /\ Cancel(t, "wait", "sync")
    /\ UNCHANGED <<busy, needResync, rpc, held, channel, agent, agentVars,
                   historyVars>>

StopWaited(t) ==
    /\ tpc[t] = "wait"
    /\ Waited(t, "sync")
    /\ UNCHANGED <<busy, registered, readerVars, channel, agent, agentVars, late>>

(* eventsNeedResync is read under the mutex; the channel is drained after. *)
Sync(t) ==
    /\ tpc[t] = "sync"
    /\ tpc' = [tpc EXCEPT ![t] = IF needResync THEN "drain" ELSE "send"]
    /\ UNCHANGED <<busy, waits, registered, needResync, readerVars, channel,
                   agent, agentVars, historyVars>>

(* drainEvents. *)
Drain(t) ==
    /\ tpc[t] = "drain"
    /\ channel' = <<>>
    /\ tpc' = [tpc EXCEPT ![t] = "send"]
    /\ UNCHANGED <<busy, waits, registered, needResync, readerVars, agent,
                   agentVars, historyVars>>

(* Send runs on a goroutine of its own, beside the event loop. *)
Send(t) ==
    /\ tpc[t] = "send"
    /\ inbox' = IF agent = "live" THEN inbox \cup {t} ELSE inbox
    /\ tpc' = [tpc EXCEPT ![t] = "read"]
    /\ UNCHANGED <<busy, waits, registered, needResync, readerVars, channel,
                   agent, job, spoke, jobs, historyVars>>

(* processInteractiveEvents.  The loop does not tell whose events it takes. *)
(* An event that ends nothing ("text") may be a permission request.  After  *)
(* a result the loop looks at the Send of its own prompt.                   *)
Read(t) ==
    /\ tpc[t] = "read" /\ channel # <<>>
    /\ channel' = Tail(channel)
    /\ \/ /\ Head(channel).kind = "text"
          /\ tpc' \in {tpc, [tpc EXCEPT ![t] = "ask"]}
          /\ UNCHANGED needResync
       \/ /\ Head(channel).kind = "result"
          /\ needResync' = FALSE
          /\ tpc' = [tpc EXCEPT ![t] = "settle"]
       \/ /\ Head(channel).kind = "error"
          /\ needResync' = TRUE
          /\ tpc' = [tpc EXCEPT ![t] = "unlock"]
    /\ UNCHANGED <<busy, waits, registered, readerVars, agent, agentVars,
                   historyVars>>

(* The two waits of a turn that no timer limits: for the answer to a        *)
(* permission request, and after the result for the Send to return.         *)
Returns(t) ==
    /\ \/ tpc[t] = "ask" /\ tpc' = [tpc EXCEPT ![t] = "read"]
       \/ tpc[t] = "settle" /\ tpc' = [tpc EXCEPT ![t] = "unlock"]
    /\ UNCHANGED <<busy, waits, registered, needResync, readerVars, channel, agent,
                   agentVars, historyVars>>

(* The channel is closed, the agent has exited. *)
ReadClosed(t) ==
    /\ tpc[t] = "read" /\ channel = <<>> /\ ~Running
    /\ needResync' = TRUE
    /\ tpc' = [tpc EXCEPT ![t] = "cleanup"]
    /\ UNCHANGED <<busy, waits, registered, readerVars, channel, agent, agentVars,
                   historyVars>>

(* No event for the length of the idle timer: the agent is given up. *)
TurnTimeout(t) ==
    /\ tpc[t] = "read"
    /\ needResync' = TRUE
    /\ tpc' = [tpc EXCEPT ![t] = "cleanup"]
    /\ UNCHANGED <<busy, waits, registered, readerVars, channel, agent, agentVars,
                   historyVars>>

(* cleanupInteractiveState: the agent is set to nil, the reader stopped,    *)
(* the agent closed.                                                        *)
Cleanup(t) ==
    /\ tpc[t] = "cleanup"
    /\ agent' = IF Running THEN "closing" ELSE "closed"
    /\ Cancel(t, "cleanwait", "unlock")
    /\ UNCHANGED <<busy, needResync, rpc, held, channel, agentVars, historyVars>>

CleanupWaited(t) ==
    /\ tpc[t] = "cleanwait"
    /\ Waited(t, "unlock")
    /\ UNCHANGED <<busy, registered, readerVars, channel, agent, agentVars, late>>

(* drainPendingMessages finds the queue empty, and unlocks the session. *)
Unlock(t) ==
    /\ tpc[t] = "unlock"
    /\ busy' = FALSE
    /\ tpc' = [tpc EXCEPT ![t] = "after"]
    /\ UNCHANGED <<waits, registered, needResync, readerVars, channel, agent,
                   agentVars, historyVars>>

(* The end of processInteractiveMessageWith, without the session lock. *)
AfterTurn(t) ==
    /\ tpc[t] = "after"
    /\ tpc' = [tpc EXCEPT ![t] =
                    IF agent = "live" /\ ~needResync THEN "restop" ELSE "end"]
    /\ UNCHANGED <<busy, waits, registered, needResync, readerVars, channel, agent,
                   agentVars, historyVars>>

-----------------------------------------------------------------------------
(***************************************************************************)
(* startUnsolicitedReader: the reader of before is stopped, the agent       *)
(* session captured, the new reader registered.                             *)
(***************************************************************************)

Restop(t) ==
    /\ tpc[t] = "restop"
    /\ Cancel(t, "rewait", "capture")
    /\ UNCHANGED <<busy, needResync, rpc, held, channel, agent, agentVars,
                   historyVars>>

RestopWaited(t) ==
    /\ tpc[t] = "rewait"
    /\ Waited(t, "capture")
    /\ UNCHANGED <<busy, registered, readerVars, channel, agent, agentVars, late>>

Capture(t) ==
    /\ tpc[t] = "capture"
    /\ tpc' = [tpc EXCEPT ![t] = IF agent \in {"live", "exited"} THEN "start" ELSE "end"]
    /\ UNCHANGED <<busy, waits, registered, needResync, readerVars, channel, agent,
                   agentVars, historyVars>>

Start(t) ==
    /\ tpc[t] = "start"
    /\ registered' = t
    /\ rpc' = [rpc EXCEPT ![t] = "select"]
    /\ tpc' = [tpc EXCEPT ![t] = "end"]
    /\ UNCHANGED <<busy, waits, needResync, cancelled, held, channel, agent, agentVars,
                   historyVars>>

-----------------------------------------------------------------------------
(***************************************************************************)
(* A reader: runUnsolicitedReader.                                          *)
(***************************************************************************)

ReaderStop(r) ==
    /\ rpc[r] = "select" /\ cancelled[r]
    /\ rpc' = [rpc EXCEPT ![r] = "exited"]
    /\ UNCHANGED <<turnVars, registered, needResync, cancelled, held, channel, agent,
                   agentVars, historyVars>>

(* The select chooses either case when both are ready, so a cancelled       *)
(* reader may still take an event.                                          *)
ReaderTake(r) ==
    /\ rpc[r] = "select" /\ channel # <<>>
    /\ held' = [held EXCEPT ![r] = Head(channel)]
    /\ channel' = Tail(channel)
    /\ rpc' = [rpc EXCEPT ![r] = "check"]
    /\ UNCHANGED <<turnVars, registered, needResync, cancelled, agent, agentVars,
                   historyVars>>

ReaderClosed(r) ==
    /\ rpc[r] = "select" /\ channel = <<>> /\ ~Running
    /\ needResync' = TRUE
    /\ rpc' = [rpc EXCEPT ![r] = "exited"]
    /\ UNCHANGED <<turnVars, registered, cancelled, held, channel, agent, agentVars,
                   historyVars>>

(* The second look at the context: the event is dropped. *)
ReaderDrop(r) ==
    /\ rpc[r] = "check" /\ cancelled[r]
    /\ needResync' = TRUE
    /\ rpc' = [rpc EXCEPT ![r] = "exited"]
    /\ held' = [held EXCEPT ![r] = Nothing]
    /\ UNCHANGED <<turnVars, registered, cancelled, channel, agent, agentVars, historyVars>>

(* A text is kept for later, a result or an error sent to the platform. *)
ReaderKeep(r) ==
    /\ rpc[r] = "check" /\ ~cancelled[r]
    /\ \/ /\ held[r].kind = "text"
          /\ rpc' = [rpc EXCEPT ![r] = "select"]
          /\ held' = [held EXCEPT ![r] = Nothing]
       \/ /\ held[r].kind # "text"
          /\ rpc' = [rpc EXCEPT ![r] = "relay"]
          /\ UNCHANGED held
    /\ UNCHANGED <<turnVars, registered, needResync, cancelled, channel, agent, agentVars,
                   historyVars>>

ReaderRelayed(r) ==
    /\ rpc[r] = "relay"
    /\ needResync' = (held[r].kind = "error")
    /\ rpc' = [rpc EXCEPT ![r] = IF held[r].kind = "error" THEN "exited" ELSE "select"]
    /\ held' = [held EXCEPT ![r] = Nothing]
    /\ UNCHANGED <<turnVars, registered, cancelled, channel, agent, agentVars, historyVars>>

-----------------------------------------------------------------------------
(***************************************************************************)
(* The agent (external).  It works off the prompts one at a time, and may   *)
(* start a job by itself between them.                                      *)
(***************************************************************************)
Emit(kind) == channel' = Append(channel, [src |-> job, kind |-> kind])

AgentStart ==
    /\ Running /\ job = NoTurn
    /\ \/ \E t \in inbox :
            /\ job' = t
            /\ inbox' = inbox \ {t}
            /\ UNCHANGED jobs
       \/ /\ jobs < MaxBackground
          /\ job' = Background
          /\ jobs' = jobs + 1
          /\ UNCHANGED inbox
    /\ spoke' = FALSE
    /\ UNCHANGED <<turnVars, registered, needResync, readerVars, channel, agent, historyVars>>

AgentText ==
    /\ Running /\ job # NoTurn /\ ~spoke
    /\ Emit("text")
    /\ spoke' = TRUE
    /\ UNCHANGED <<turnVars, registered, needResync, readerVars, agent, inbox, job, jobs,
                   historyVars>>

AgentEnds ==
    /\ Running /\ job # NoTurn
    /\ \E kind \in {"result", "error"} : Emit(kind)
    /\ job' = NoTurn
    /\ UNCHANGED <<turnVars, registered, needResync, readerVars, agent, inbox, spoke, jobs,
                   historyVars>>

AgentExits ==
    /\ Running
    /\ agent' = IF agent = "live" THEN "exited" ELSE "closed"
    /\ job' = NoTurn
    /\ inbox' = {}
    /\ UNCHANGED <<turnVars, registered, needResync, readerVars, channel, spoke, jobs,
                   historyVars>>

-----------------------------------------------------------------------------
Turn(t) ==
    \/ StopReader(t) \/ StopWaited(t) \/ Sync(t) \/ Drain(t) \/ Send(t)
    \/ Read(t) \/ ReadClosed(t) \/ TurnTimeout(t) \/ Cleanup(t) \/ CleanupWaited(t)
    \/ Unlock(t) \/ AfterTurn(t)
    \/ Restop(t) \/ RestopWaited(t) \/ Capture(t) \/ Start(t)

Reader(r) ==
    \/ ReaderStop(r) \/ ReaderTake(r) \/ ReaderClosed(r) \/ ReaderDrop(r) \/ ReaderKeep(r)

Next ==
    \/ \E t \in Turns :
            Lock(t) \/ Turn(t) \/ Returns(t) \/ Reader(t) \/ ReaderRelayed(t)
    \/ AgentStart \/ AgentText \/ AgentEnds \/ AgentExits

(***************************************************************************)
(* Goroutines run on, and a turn that waits for events has its idle timer.  *)
(* The platform need not return from a call, the agent need not answer nor  *)
(* take a prompt, and a permission request need not be answered.            *)
(***************************************************************************)
Fairness == \A t \in Turns : WF_vars(Turn(t)) /\ WF_vars(Reader(t))

Spec == Init /\ [][Next]_vars
FairSpec == Spec /\ Fairness

-----------------------------------------------------------------------------
(* While every turn was through with starting its reader before the next    *)
(* one locked, and every reader exited within the five seconds: at most one *)
(* reader runs, and none beside a turn that has taken over the channel.     *)
HandoffExclusive ==
    ~late /\ ~outlived =>
        /\ \A q, r \in Turns : rpc[q] \in RunPcs /\ rpc[r] \in RunPcs => q = r
        /\ \A t, r \in Turns : tpc[t] \in OwnerPcs => rpc[r] \notin RunPcs

(* While no reader is started late, a reader that nobody has cancelled is   *)
(* the registered one, so that the next turn or a cleanup can stop it.      *)
ReaderCanBeStopped ==
    ~late => \A r \in Turns : rpc[r] \in RunPcs /\ ~cancelled[r] => registered = r

(* A turn gets to its end whatever the readers and their platform calls do, *)
(* even when a reader has taken its result, unless a permission request is  *)
(* not answered or the agent does not take the turn's prompt: a turn that   *)
(* has taken the result of another job waits for that without limit.        *)
TurnEnds ==
    \A t \in Turns : tpc[t] = "stop" ~> tpc[t] \in {"end", "ask", "settle"}

-----------------------------------------------------------------------------
(***************************************************************************)
(* What the code's words promise and the code does not do.                 *)
(***************************************************************************)

(* No reader takes an event of the turn that is reading: "concurrent        *)
(* consumers cannot silently steal foreground events".                      *)
NoTheft ==
    \A r \in Turns : rpc[r] \in {"check", "relay"} /\ held[r].src \in Turns =>
        tpc[held[r].src] # "read"
=============================================================================
