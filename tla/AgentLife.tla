------------------------------ MODULE AgentLife ------------------------------
(***************************************************************************)
(* The life of the agent processes of one conversation: the                *)
(* interactiveStates entry of its key, the processes that entries hold,    *)
(* the sessions that are resumed in them, and everything that takes an     *)
(* entry down (src/core/engine.go, workspace_state.go).                    *)
(*                                                                         *)
(*   worker    the turn of a message: handleMessage from TryLock on, and   *)
(*             processInteractiveMessageWith                               *)
(*   command   a command that resets the conversation: it cleans the entry *)
(*             up, unbinds the active session, and may create a new one    *)
(*   reaper    closes the agents of a workspace that has been idle         *)
(*   others    /stop or a recalled message, a switch of the active session *)
(*             by the management API, the user's answer to a permission    *)
(*             request, shutdown                                           *)
(*                                                                         *)
(* cleanupInteractiveState runs in four steps that others come between.    *)
(* The queue of an entry is TurnQueue's, its event channel EventHandoff's. *)
(***************************************************************************)
EXTENDS Integers, FiniteSets

CONSTANTS
    Msgs,       \* messages; each that finds the session free starts a worker
    Cmd,        \* the command
    Reaper,     \* the idle reaper
    NStates,    \* identities of interactiveState objects
    NProcs,     \* processes ever started
    NSessions,  \* sessions of the conversation
    MaxEvents   \* bound: commands, reaps, stops, switches, shutdowns and requests together

States   == 1 .. NStates
Procs    == 1 .. NProcs
Sessions == 1 .. NSessions
Cleaners == Msgs \cup {Cmd, Reaper}

ASSUME CountAssumption == {NStates, NProcs, NSessions} \subseteq Nat \ {0}
ASSUME EventsAssumption == MaxEvents \in Nat
ASSUME ActorAssumption == Cmd \notin Msgs /\ Reaper \notin Msgs /\ Cmd # Reaper

VARIABLES
    entry,      \* interactiveStates[key], 0 when there is none
    agent,      \* state -> the process of its agentSession, 0 when nil
    stopped,    \* state -> interactiveState.stopped
    pend,       \* state -> the worker whose permission request is pending, or none
    opened,     \* the entry, once a turn has marked it with its workspace
    life,       \* process -> "unborn", "live", or "over": ended or told to
    conv,       \* process -> CurrentSessionID, 0 until it reports one
    active,     \* the active session of the key
    created,    \* sessions created so far
    bound,      \* session -> its AgentSessionID, 0 when empty
    busy,       \* session -> Session.busy
    pc,         \* message -> where its worker is
    sess,       \* message -> the session it locked
    ref,        \* message -> the state its worker uses
    uses,       \* message -> the process whose events its turn reads
    clean,      \* cleaner -> its cleanupInteractiveState
    cmd,        \* where the command is
    reap,       \* where the reaper is
    shut,       \* "no", Engine.Stop: "cancelled", "swept", or "panicked"
    left,       \* what is left of the bound
    lost,       \* history: processes whose entry another's cleanup deleted
    joined,     \* history: processes a second session used before they had an id
    starter,    \* history: process -> the session it was started for
    deaf        \* history: workers whose permission request nobody can resolve

stateVars   == <<entry, agent, stopped, pend, opened>>
procVars    == <<life, conv, starter>>
sessionVars == <<active, created, bound, busy>>
workerVars  == <<pc, sess, ref, uses>>
ghostVars   == <<lost, joined, deaf>>
vars == <<stateVars, procVars, sessionVars, workerVars, clean, cmd, reap,
          shut, left, ghostVars>>

TurnPcs   == {"start", "turn", "bind", "result", "posting", "ask", "clean"}
WorkerPcs == TurnPcs \cup {"new", "open", "guard", "unlock", "done"}
NoMsg     == 0
NoClean   == [pc |-> "off", exp |-> 0, ref |-> 0, proc |-> 0]

(* The types of the variables; two turns never hold one session.           *)
TypeOK ==
    /\ entry \in States \cup {0}
    /\ agent \in [States -> Procs \cup {0}]
    /\ stopped \in [States -> BOOLEAN]
    /\ pend \in [States -> Msgs \cup {NoMsg}]
    /\ opened \subseteq States
    /\ life \in [Procs -> {"unborn", "live", "over"}]
    /\ conv \in [Procs -> Procs \cup {0}]
    /\ active \in Sessions /\ created \in Sessions /\ active <= created
    /\ bound \in [Sessions -> Procs \cup {0}]
    /\ busy \in [Sessions -> BOOLEAN]
    /\ pc \in [Msgs -> WorkerPcs]
    /\ sess \in [Msgs -> Sessions \cup {0}]
    /\ ref \in [Msgs -> States \cup {0}]
    /\ uses \in [Msgs -> Procs \cup {0}]
    /\ clean \in [Cleaners -> [pc : {"off", "capture", "stop", "delete"},
                               exp : States \cup {0}, ref : States \cup {0},
                               proc : Procs \cup {0}]]
    /\ cmd \in {"new", "clean", "clear", "create", "done"}
    /\ reap \in {"new", "clean", "done"}
    /\ shut \in {"no", "cancelled", "swept", "panicked"}
    /\ \A v, w \in Msgs :
          (v # w /\ pc[v] \notin {"new", "done"} /\ pc[w] \notin {"new", "done"})
              => sess[v] # sess[w]

Init ==
    /\ entry = 0
    /\ agent = [s \in States |-> 0]
    /\ stopped = [s \in States |-> FALSE]
    /\ pend = [s \in States |-> NoMsg]
    /\ opened = {}
    /\ life = [p \in Procs |-> "unborn"]
    /\ conv = [p \in Procs |-> 0]
    /\ active = 1 /\ created = 1
    /\ bound = [x \in Sessions |-> 0]
    /\ busy = [x \in Sessions |-> FALSE]
    /\ pc = [m \in Msgs |-> "new"]
    /\ sess = [m \in Msgs |-> 0]
    /\ ref = [m \in Msgs |-> 0]
    /\ uses = [m \in Msgs |-> 0]
    /\ clean = [a \in Cleaners |-> NoClean]
    /\ cmd = "new" /\ reap = "new"
    /\ shut = "no"
    /\ left = MaxEvents
    /\ lost = {} /\ joined = {} /\ deaf = {}
    /\ starter = [p \in Procs |-> 0]

-----------------------------------------------------------------------------
(***************************************************************************)
(* Entries and processes.                                                  *)
(***************************************************************************)

Live(s) == s # 0 /\ agent[s] # 0 /\ life[agent[s]] = "live"

(* Nobody has a pointer to s any more. *)
Free(s) ==
    /\ s # entry
    /\ \A m \in Msgs : ref[m] # s
    /\ \A a \in Cleaners : clean[a].ref # s /\ clean[a].exp # s

(* The bound on the identities: a step that makes a state finds a free one. *)
HasFree == \E s \in States : Free(s)

NewState == CHOOSE s \in States : Free(s)

(* A fresh interactiveState without a process becomes the entry. *)
Placeholder(s) ==
    /\ HasFree
    /\ entry' = s
    /\ agent' = [agent EXCEPT ![s] = 0]
    /\ stopped' = [stopped EXCEPT ![s] = FALSE]
    /\ pend' = [pend EXCEPT ![s] = NoMsg]
    /\ opened' = {}

(* Close: the process is told to end, and does so in its own time. *)
Closing(l, P) == [p \in Procs |-> IF p \in P /\ l[p] = "live" THEN "over" ELSE l[p]]

(* Variant with a fault, for StoppedTurnEnds: requests stay pending. *)
ResolvedNever(s) == pc

(* pending.resolve: the worker whose request is pending in s goes on. *)
Resolved(s) == [m \in Msgs |-> IF pend[s] = m /\ pc[m] = "ask" THEN "turn" ELSE pc[m]]

(* One of the events that are bounded. *)
Happens == left > 0 /\ left' = left - 1

Goto(m, l) == pc' = [pc EXCEPT ![m] = l]

-----------------------------------------------------------------------------
(***************************************************************************)
(* A message up to its turn.                                               *)
(***************************************************************************)

(* Variant with a fault, for TypeOK: the busy flag is set unseen.          *)
LockableAlways(x) == TRUE

(* TryLock fails on a session that is busy.                                *)
Lockable(x) == ~busy[x]

(* handleMessage locks the active session, and                             *)
(* ensureInteractiveStateForQueueing makes a placeholder without a process *)
(* when there is no entry.  No other step both depends on the first and    *)
(* changes the entry, so that nothing is lost by taking them together.     *)
TryLock(m) ==
    /\ pc[m] = "new" /\ Lockable(active)
    /\ busy' = [busy EXCEPT ![active] = TRUE]
    /\ sess' = [sess EXCEPT ![m] = active]
    /\ IF entry # 0 THEN UNCHANGED stateVars ELSE Placeholder(NewState)
    /\ Goto(m, "open")
    /\ UNCHANGED <<procVars, active, created, bound, ref, uses, clean, cmd, reap, shut,
                   left, ghostVars>>

(* processInteractiveMessageWith returns at once after shutdown. *)
Skip(m) ==
    /\ pc[m] = "open" /\ shut # "no"
    /\ Goto(m, "unlock")
    /\ UNCHANGED <<stateVars, procVars, sessionVars, sess, ref, uses, clean, cmd, reap,
                   shut, left, ghostVars>>

(* Variant with a fault, for IdsNotShared: a session that is bound to      *)
(* nothing goes on in whatever process there is.                           *)
MismatchIfBound(x) ==
    LET have == conv[agent[entry]] IN have # 0 /\ bound[x] \notin {0, have}

(* The entry's process is not the one session x wants to go on with. *)
Mismatch(x) ==
    LET have == conv[agent[entry]] IN have # 0 /\ bound[x] # have

Opened(m, s) ==
    /\ ref' = [ref EXCEPT ![m] = s]
    /\ Goto(m, "guard")

(* getOrCreateInteractiveStateWith, the entry fits: its process is used. *)
Reuse(m) ==
    /\ pc[m] = "open" /\ Live(entry) /\ ~Mismatch(sess[m])
    /\ Opened(m, entry)
    /\ opened' = {entry}
    /\ joined' = joined \cup
           {p \in {agent[entry]} : conv[p] = 0 /\ starter[p] # sess[m]}
    /\ UNCHANGED <<entry, agent, stopped, pend, procVars, sessionVars, sess, uses, clean, cmd,
                   reap, shut, left, lost, deaf>>

(* Variant with a fault, for LiveIsEntry: the old process is left running. *)
RecycledLifeKept == life

(* Recycling stops the entry and closes its process; a permission request  *)
(* that is pending in it is not resolved.                                  *)
RecycledLife == IF Live(entry) THEN Closing(life, {agent[entry]}) ELSE life

Unheard == IF Live(entry) THEN {v \in Msgs : pend[entry] = v /\ pc[v] = "ask"} ELSE {}

(* A new state with process p, or none for p = 0, becomes the entry, and   *)
(* session x is left bound to b.                                           *)
Replace(m, p, b) ==
    LET s == NewState IN
    /\ HasFree
    /\ entry' = s
    /\ agent' = [agent EXCEPT ![s] = p]
    /\ stopped' = [i \in States |-> (i = entry /\ Live(entry)) \/ (i # s /\ stopped[i])]
    /\ pend' = [pend EXCEPT ![s] = NoMsg]
    /\ opened' = {s}
    /\ deaf' = deaf \cup Unheard
    /\ life' = [q \in Procs |-> IF q = p THEN "live" ELSE RecycledLife[q]]
    /\ conv' = [q \in Procs |-> IF q = p THEN b ELSE conv[q]]
    /\ starter' = [q \in Procs |-> IF q = p THEN sess[m] ELSE starter[q]]
    /\ bound' = [bound EXCEPT ![sess[m]] = b]
    /\ Opened(m, s)
    /\ UNCHANGED <<active, created, busy, sess, uses, clean, cmd, reap, shut,
                   left, lost, joined>>

Unborn == {q \in Procs : life[q] = "unborn"}

(* Variant with a fault, for NothingStartsAfterStop: the context is not    *)
(* looked at.                                                              *)
CanStartAlways == Unborn # {}

(* No process is started once the context is cancelled. *)
CanStart == shut = "no" /\ Unborn # {}

(* The entry does not fit, or its process is gone: another is started, and *)
(* resumed if the session is bound.  If it cannot be resumed, the session  *)
(* is unbound and a fresh one is started; if that fails too, the new state *)
(* has no process.  interactiveMu is held from the look at the entry to    *)
(* the new one, over the closing (at most 130 s) and the start.            *)
Restart(m) ==
    /\ pc[m] = "open"
    /\ Live(entry) => Mismatch(sess[m])
    /\ \/ /\ CanStart
          /\ \E p \in Unborn, b \in {bound[sess[m]], 0} :
                (\A q \in Unborn : p <= q) /\ Replace(m, p, b)
       \/ shut = "no" /\ Replace(m, 0, 0)
       \/ shut # "no" /\ Replace(m, 0, bound[sess[m]])

(* The state has no process: the message fails.  Otherwise the turn begins *)
(* and counts as one of the workspace.                                     *)
Guard(m) ==
    /\ pc[m] = "guard"
    /\ Goto(m, IF agent[ref[m]] = 0 THEN "unlock" ELSE "start")
    /\ UNCHANGED <<stateVars, procVars, sessionVars, sess, ref, uses, clean, cmd, reap,
                   shut, left, ghostVars>>

(* A nil dereference, which nothing recovers from: the daemon is gone.     *)
Panic ==
    /\ shut' = "panicked" /\ left' = 0
    /\ entry' = 0
    /\ life' = [p \in Procs |-> "over"]
    /\ pc' = [m \in Msgs |-> "done"]
    /\ sess' = [m \in Msgs |-> 0]
    /\ ref' = [m \in Msgs |-> 0]
    /\ uses' = [m \in Msgs |-> 0]
    /\ clean' = [a \in Cleaners |-> NoClean]
    /\ cmd' = "done" /\ reap' = "done"
    /\ UNCHANGED <<agent, stopped, pend, opened, conv, starter, sessionVars, ghostVars>>

(* The turn takes agentSession from the state once more, for its events    *)
(* and to send the prompt ...                                              *)
Start(m) ==
    /\ pc[m] = "start" /\ agent[ref[m]] # 0
    /\ uses' = [uses EXCEPT ![m] = agent[ref[m]]]
    /\ Goto(m, "turn")
    /\ UNCHANGED <<stateVars, procVars, sessionVars, sess, ref, clean, cmd, reap, shut,
                   left, ghostVars>>

(* ... and a clean-up may have taken it away since the guard, as it may    *)
(* between the look at a result's agentSession and the call.               *)
UsesNil(m) == pc[m] \in {"start", "result"} /\ agent[ref[m]] = 0 /\ Panic

-----------------------------------------------------------------------------
(***************************************************************************)
(* The turn.                                                               *)
(***************************************************************************)

(* An event is taken, and the turn has not been stopped: a text with the   *)
(* id of the process, or a result.                                         *)
TakeEvent(m) ==
    /\ pc[m] = "turn" /\ ~stopped[ref[m]]
    /\ \/ conv[uses[m]] # 0 /\ Goto(m, "bind")
       \/ Goto(m, "result")
    /\ UNCHANGED <<stateVars, procVars, sessionVars, sess, ref, uses, clean, cmd, reap,
                   shut, left, ghostVars>>

(* By then it may have been.  The session is bound to the id: at a text,   *)
(* after which the turn goes on, and at a result, if the state still has   *)
(* the process and the process an id.                                      *)
Bind(m) ==
    /\ \/ pc[m] = "bind" /\ Goto(m, "turn")
       \/ pc[m] = "result" /\ Goto(m, "unlock")
    /\ bound' = IF conv[uses[m]] = 0 \/ (pc[m] = "result" /\ agent[ref[m]] = 0)
                THEN bound
                ELSE [bound EXCEPT ![sess[m]] = conv[uses[m]]]
    /\ UNCHANGED <<stateVars, procVars, active, created, busy, sess, ref, uses, clean, cmd,
                   reap, shut, left, ghostVars>>

(* The state was stopped, or the engine is. *)
TurnEnds(m) ==
    /\ pc[m] = "turn"
    /\ stopped[ref[m]] \/ shut # "no"
    /\ Goto(m, "unlock")
    /\ UNCHANGED <<stateVars, procVars, sessionVars, sess, ref, uses, clean, cmd, reap,
                   shut, left, ghostVars>>

(* The process exits, or is silent for too long: the turn cleans up its    *)
(* own state.                                                              *)
TurnFails(m) ==
    /\ pc[m] = "turn"
    /\ Goto(m, "clean")
    /\ clean' = [clean EXCEPT ![m] = [NoClean EXCEPT !.pc = "capture", !.exp = ref[m]]]
    /\ UNCHANGED <<stateVars, procVars, sessionVars, sess, ref, uses, cmd, reap, shut,
                   left, ghostVars>>

(* A permission request arrives at a turn that is not stopped; the preview *)
(* is settled first, by calls to the platform.                             *)
Request(m) ==
    /\ pc[m] = "turn" /\ ~stopped[ref[m]] /\ Happens
    /\ Goto(m, "posting")
    /\ UNCHANGED <<stateVars, procVars, sessionVars, sess, ref, uses, clean, cmd, reap,
                   shut, ghostVars>>

(* It becomes the pending one of the state, and the turn waits for nothing *)
(* but its resolution.                                                     *)
Ask(m) ==
    LET s == ref[m] IN
    /\ pc[m] = "posting"
    /\ pend' = [pend EXCEPT ![s] = m]
    /\ Goto(m, "ask")
    /\ deaf' = deaf \cup (IF pend[s] # NoMsg THEN {pend[s]} ELSE {})
                    \cup (IF stopped[s] \/ s # entry THEN {m} ELSE {})
    /\ UNCHANGED <<entry, agent, stopped, opened, procVars, sessionVars, sess, ref, uses,
                   clean, cmd, reap, shut, left, lost, joined>>

(* The session is unlocked: the queue is empty, or the worker returns.     *)
(* After a result that may be late or never: the worker first waits, with  *)
(* no limit, until the agent has taken the prompt (see TurnQueue).         *)
Unlock(m) ==
    /\ pc[m] = "unlock"
    /\ busy' = [busy EXCEPT ![sess[m]] = FALSE]
    /\ pc' = [pc EXCEPT ![m] = "done"]
    /\ ref' = [ref EXCEPT ![m] = 0]
    /\ uses' = [uses EXCEPT ![m] = 0]
    /\ sess' = [sess EXCEPT ![m] = 0]
    /\ UNCHANGED <<stateVars, procVars, active, created, bound, clean, cmd,
                   reap, shut, left, ghostVars>>

-----------------------------------------------------------------------------
(***************************************************************************)
(* cleanupInteractiveState.                                                *)
(***************************************************************************)

(* The caller goes on. *)
After(a, l) ==
    /\ pc' = [m \in Msgs |-> IF m = a THEN "unlock" ELSE l[m]]
    /\ cmd' = (IF a = Cmd THEN "clear" ELSE cmd)
    /\ reap' = (IF a = Reaper THEN "done" ELSE reap)
    /\ clean' = [clean EXCEPT ![a] = NoClean]

(* The caller meant a state, and the entry is another one, or none. *)
Superseded(a) == clean[a].exp # 0 /\ entry # clean[a].exp

(* Variant with a fault, for ReplacementSurvives: the first look at the    *)
(* entry is left out, the one before the deletion is not.                  *)
CaptureUnchecked(a) ==
    /\ clean[a].pc = "capture"
    /\ clean' = [clean EXCEPT
            ![a] = [pc   |-> IF entry = 0 THEN "delete" ELSE "stop",
                    exp  |-> clean[a].exp,
                    ref  |-> entry,
                    proc |-> IF entry = 0 THEN 0 ELSE agent[entry]]]
    /\ agent' = (IF entry = 0 THEN agent ELSE [agent EXCEPT ![entry] = 0])
    /\ UNCHANGED <<pc, cmd, reap>>
    /\ UNCHANGED <<entry, stopped, pend, opened, procVars, sessionVars, sess, ref, uses,
                   shut, left, ghostVars>>

(* Under interactiveMu the process is taken out of the entry. *)
Capture(a) ==
    /\ clean[a].pc = "capture"
    /\ IF Superseded(a)
       THEN After(a, pc) /\ UNCHANGED agent
       ELSE /\ clean' = [clean EXCEPT
                  ![a] = [pc   |-> IF entry = 0 THEN "delete" ELSE "stop",
                          exp  |-> clean[a].exp,
                          ref  |-> entry,
                          proc |-> IF entry = 0 THEN 0 ELSE agent[entry]]]
            /\ agent' = (IF entry = 0 THEN agent ELSE [agent EXCEPT ![entry] = 0])
            /\ UNCHANGED <<pc, cmd, reap>>
    /\ UNCHANGED <<entry, stopped, pend, opened, procVars, sessionVars, sess, ref, uses,
                   shut, left, ghostVars>>

(* The state is stopped, a pending permission request resolved, and the    *)
(* process closed.                                                         *)
StopAndClose(a) ==
    LET s == clean[a].ref IN
    /\ clean[a].pc = "stop"
    /\ stopped' = [stopped EXCEPT ![s] = TRUE]
    /\ pend' = [pend EXCEPT ![s] = NoMsg]
    /\ pc' = Resolved(s)
    /\ life' = Closing(life, {clean[a].proc})
    /\ clean' = [clean EXCEPT ![a].pc = "delete"]
    /\ UNCHANGED <<entry, agent, opened, conv, starter, sessionVars, sess, ref, uses, cmd,
                   reap, shut, left, ghostVars>>

(* The process has ended, or 130 s are over, and the entry is deleted.  A  *)
(* caller that meant a state leaves another one alone; the others do not   *)
(* look.                                                                   *)
Delete(a) ==
    LET keep  == entry # 0 /\ Superseded(a)
        other == ~keep /\ entry \notin {0, clean[a].ref} IN
    /\ clean[a].pc = "delete"
    /\ entry' = (IF keep THEN entry ELSE 0)
    /\ lost' = (IF other /\ Live(entry) THEN lost \cup {agent[entry]} ELSE lost)
    /\ deaf' = (IF other THEN deaf \cup ({pend[entry]} \ {NoMsg}) ELSE deaf)
    /\ After(a, pc)
    /\ UNCHANGED <<agent, stopped, pend, opened, procVars, sessionVars, sess, ref, uses,
                   shut, left, joined>>

Cleanup(a) == Capture(a) \/ StopAndClose(a) \/ Delete(a)

-----------------------------------------------------------------------------
(***************************************************************************)
(* What else takes an entry down.                                          *)
(***************************************************************************)

(* /new, /switch, /dir, /reasoning, ... begin with a clean-up. *)
CommandCleans ==
    /\ cmd = "new" /\ cmd' = "clean" /\ Happens
    /\ clean' = [clean EXCEPT ![Cmd] = [NoClean EXCEPT !.pc = "capture"]]
    /\ UNCHANGED <<stateVars, procVars, sessionVars, workerVars, reap, shut,
                   ghostVars>>

(* The session that is active now loses its id. *)
CommandClears ==
    /\ cmd = "clear" /\ cmd' = "create"
    /\ bound' = [bound EXCEPT ![active] = 0]
    /\ UNCHANGED <<stateVars, procVars, active, created, busy, workerVars, clean, reap,
                   shut, left, ghostVars>>

(* /new creates a session; the other commands leave it at that. *)
CommandEnds ==
    /\ cmd = "create" /\ cmd' = "done"
    /\ \/ UNCHANGED <<active, created>>
       \/ created < NSessions /\ created' = created + 1 /\ active' = created + 1
    /\ UNCHANGED <<stateVars, procVars, bound, busy, workerVars, clean, reap, shut,
                   left, ghostVars>>

(* The management API switches the active session, and cleans nothing up. *)
SwitchSession ==
    /\ Happens
    /\ \E x \in 1 .. created : x # active /\ active' = x
    /\ UNCHANGED <<stateVars, procVars, created, bound, busy, workerVars, clean, cmd, reap,
                   shut, ghostVars>>

(* The workspace has been idle for long, and no turn of it is counted.     *)
(* WorkspacePool models the count, which may miss a turn, and the time     *)
(* between that look and this one: the reaper may come at any time.  The   *)
(* entries of the workspace are looked up, and each is cleaned up unless   *)
(* it has been replaced.                                                   *)
ReapTargets ==
    /\ reap = "new" /\ Happens
    /\ IF entry \in opened
       THEN /\ reap' = "clean"
            /\ clean' = [clean EXCEPT ![Reaper] = [NoClean EXCEPT !.pc = "capture", !.exp = entry]]
       ELSE reap' = "done" /\ UNCHANGED clean
    /\ UNCHANGED <<stateVars, procVars, sessionVars, workerVars, cmd, shut, ghostVars>>

(* /stop, or a recalled message that was found to be the current one: the  *)
(* entry that the key has now is taken down.                               *)
StopInteractiveSession ==
    /\ Happens
    /\ entry # 0 /\ entry' = 0
    /\ stopped' = [stopped EXCEPT ![entry] = TRUE]
    /\ pend' = [pend EXCEPT ![entry] = NoMsg]
    /\ pc' = Resolved(entry)
    /\ life' = Closing(life, {agent[entry]})
    /\ UNCHANGED <<agent, opened, conv, starter, sessionVars, sess, ref, uses, clean, cmd,
                   reap, shut, ghostVars>>

(* The user answers the permission request of the entry, by way of its     *)
(* agentSession ...                                                        *)
Answer ==
    /\ entry # 0 /\ pend[entry] # NoMsg /\ agent[entry] # 0
    /\ pend' = [pend EXCEPT ![entry] = NoMsg]
    /\ pc' = Resolved(entry)
    /\ UNCHANGED <<entry, agent, stopped, opened, procVars, sessionVars, sess, ref, uses,
                   clean, cmd, reap, shut, left, ghostVars>>

(* ... which a clean-up takes away before it resolves the request.         *)
AnswerOnNil == entry # 0 /\ pend[entry] # NoMsg /\ agent[entry] = 0 /\ Panic

(* Engine.Stop cancels the context first ... *)
Cancel ==
    /\ shut = "no" /\ shut' = "cancelled" /\ Happens
    /\ UNCHANGED <<stateVars, procVars, sessionVars, workerVars, clean, cmd, reap,
                   ghostVars>>

(* ... and then empties the map and closes what it held. *)
Sweep ==
    /\ shut = "cancelled" /\ shut' = "swept"
    /\ entry' = 0
    /\ life' = (IF entry = 0 THEN life ELSE Closing(life, {agent[entry]}))
    /\ UNCHANGED <<agent, stopped, pend, opened, conv, starter, sessionVars, workerVars,
                   clean, cmd, reap, left, ghostVars>>

Held(p) == entry # 0 /\ agent[entry] = p

(* A process reports the id of its conversation; one that has ended may    *)
(* have said so before, in an event that is read now.  Nobody sees it but  *)
(* the turns that read its events and who looks at the entry.              *)
Report(p) ==
    /\ life[p] # "unborn" /\ conv[p] = 0
    /\ Held(p) \/ \E m \in Msgs : uses[m] = p
    /\ conv' = [conv EXCEPT ![p] = p]
    /\ UNCHANGED <<stateVars, life, starter, sessionVars, workerVars, clean, cmd, reap, shut,
                   left, ghostVars>>

(* A process ends by itself; no step depends on it but for the entry's.    *)
Exit(p) ==
    /\ life[p] = "live" /\ Held(p)
    /\ life' = [life EXCEPT ![p] = "over"]
    /\ UNCHANGED <<stateVars, conv, starter, sessionVars, workerVars, clean, cmd, reap, shut,
                   left, ghostVars>>

-----------------------------------------------------------------------------
Open(m) == Reuse(m) \/ Restart(m)

Turn(m) ==
    TakeEvent(m) \/ Bind(m) \/ TurnEnds(m) \/ TurnFails(m) \/ Request(m) \/ Ask(m)

Worker(m) ==
    TryLock(m) \/ Skip(m) \/ Open(m) \/ Guard(m) \/ Start(m) \/ UsesNil(m)
    \/ Turn(m) \/ Unlock(m)

Command == CommandCleans \/ CommandClears \/ CommandEnds

Next ==
    \/ \E m \in Msgs : Worker(m)
    \/ \E a \in Cleaners : Cleanup(a)
    \/ Command \/ SwitchSession
    \/ ReapTargets
    \/ StopInteractiveSession \/ Answer \/ AnswerOnNil
    \/ Cancel \/ Sweep
    \/ \E p \in Procs : Report(p) \/ Exit(p)

(* The goroutine of a turn is scheduled, and its calls return; no user,    *)
(* agent, process or clean-up of another has to do anything.  Nothing is   *)
(* assumed of Unlock, which may wait for the agent's Send.                 *)
Goes(m) ==
    Bind(m) \/ Ask(m) \/ TurnEnds(m) \/ TurnFails(m) \/ Cleanup(m)

Fairness == \A m \in Msgs : WF_vars(Goes(m))

Spec == Init /\ [][Next]_vars
FairSpec == Spec /\ Fairness

-----------------------------------------------------------------------------
Captured == {clean[a].proc : a \in {b \in Cleaners : clean[b].pc = "stop"}}

(* A live process is the entry's, or a clean-up is about to close it: none *)
(* is left running beside the one the next turn starts.  The exception is  *)
(* the process of an entry that was installed while a clean-up of its      *)
(* predecessor ran, and that this clean-up deleted.                        *)
LiveIsEntry ==
    \A p \in Procs : life[p] = "live" =>
        p \in lost \cup Captured \/ Held(p)

(* Once Stop has emptied the map no process is live but one that a         *)
(* clean-up is about to close, or has lost: workers that are still on      *)
(* their way to a turn start none.                                         *)
NothingStartsAfterStop ==
    shut = "swept" => \A p \in Procs : life[p] = "live" => p \in lost \cup Captured

(* No two sessions are bound to one agent session, so that neither goes on *)
(* in the conversation of the other.  The exception is a process a second  *)
(* session was let on to before it had reported its id.                    *)
IdsNotShared ==
    \A x, y \in Sessions : (x # y /\ bound[x] = bound[y]) => bound[x] \in joined \cup {0}

(* A clean-up of a turn or of the reaper never touches the state that has  *)
(* replaced the one it was meant for, however long it takes: at none of    *)
(* its steps does another state lose its place in the map, its process or  *)
(* a pending request, nor is it stopped or its process closed.             *)
ReplacementSurvives ==
    [][\A a \in Cleaners : \A s \in States \ {clean[a].exp} :
          (clean[a].exp # 0 /\ clean'[a] # clean[a] /\ shut' # "panicked") =>
             /\ entry = s => entry' = s
             /\ agent'[s] = agent[s] /\ stopped'[s] = stopped[s] /\ pend'[s] = pend[s]
             /\ agent[s] # 0 => life'[agent[s]] = life[agent[s]]]_vars

(* A turn whose state is stopped ends: it leaves its event loop and gets   *)
(* to the unlocking, although it waits for the user's permission.  The     *)
(* exceptions are requests that no clean-up can see: made after the state  *)
(* was stopped or left the map, replaced by another, or pending when the   *)
(* entry was recycled or deleted in passing.                               *)
StoppedTurnEnds ==
    \A m \in Msgs :
        (pc[m] \in {"turn", "bind", "posting", "ask"} /\ stopped[ref[m]])
            ~> (pc[m] \in {"unlock", "done"} \/ m \in deaf)
=============================================================================
