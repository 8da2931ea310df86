---------------------------- MODULE WorkspacePool ----------------------------
(***************************************************************************)
(* One workspace of multi-workspace mode: its workspaceState in the pool,  *)
(* the count of active turns that keeps the idle reaper away from it, and  *)
(* the session manager that goes when the reaper drops it                  *)
(* (src/core/workspace_state.go, engine.go).                               *)
(*                                                                         *)
(*   turn     a message or a cron job of the workspace, from the look-up   *)
(*            of its session manager to the EndTurn of its turn            *)
(*   reader   the unsolicited reader a turn starts: what the agent does by *)
(*            itself counts as a turn too                                  *)
(*   reaper   ReapIdle, which looks at the count and at the time apart     *)
(*                                                                         *)
(* Turns are in conversations, each with a Session of the manager to lock. *)
(* A reader has the name of the turn that started it.  What the reaper     *)
(* then does to the agents of the workspace is AgentLife's; here a turn or *)
(* a reader may end at any time.                                           *)
(***************************************************************************)
EXTENDS Integers, FiniteSets

CONSTANTS
    Turns,      \* turns of the workspace, and their readers
    ConvOf,     \* turn -> its conversation
    Objects,    \* identities of workspaceState objects
    NoObject    \* none

ASSUME TurnsAssumption == IsFiniteSet(Turns)
ASSUME NoObjectAssumption == NoObject \notin Objects

VARIABLES
    pool,       \* workspacePool.states[workspace]
    active,     \* its activeTurns
    idle,       \* its lastActivity is before the cutoff
    locked,     \* object -> the conversations whose Session is locked in its manager
    pc,         \* turn -> where it is
    home,       \* turn -> the object whose manager it uses
    on,         \* turn -> the object it counts on
    rpc,        \* reader -> where it is
    got,        \* reader -> the object it has just looked up
    reaper,     \* where the reaper is
    counted,    \* history: reader -> the object it counts on
    robbed,     \* history: the pool's count was lowered by a reader it had not counted
    exposed     \* history: turns that began on a dropped or robbed object, or were robbed

poolVars   == <<pool, active, idle>>
turnVars   == <<locked, pc, home, on>>
readerVars == <<rpc, got, counted>>
vars == <<poolVars, turnVars, readerVars, reaper, robbed, exposed>>

Conversations == {ConvOf[t] : t \in Turns}
Refs          == Objects \cup {NoObject}

CountedPcs == {"run", "unlocked", "end"}
LockedPcs  == {"locked", "found", "run", "drain", "release"}
TurnPcs    == CountedPcs \cup LockedPcs \cup {"new", "resolved"}
ReaderPcs  == {"off", "select", "found", "active", "ending", "leaving"}

TypeOK ==
    /\ pool \in Refs
    /\ active \in Nat
    /\ idle \in BOOLEAN
    /\ locked \in [Objects -> SUBSET Conversations]
    /\ pc \in [Turns -> TurnPcs]
    /\ home \in [Turns -> Refs]
    /\ on \in [Turns -> Refs]
    /\ rpc \in [Turns -> ReaderPcs]
    /\ got \in [Turns -> Refs]
    /\ counted \in [Turns -> Refs]
    /\ reaper \in {"off", "quiet", "old"}
    /\ robbed \in BOOLEAN
    /\ exposed \subseteq Turns

Init ==
    /\ pool = NoObject /\ active = 0 /\ idle = FALSE
    /\ locked = [w \in Objects |-> {}]
    /\ pc = [t \in Turns |-> "new"]
    /\ home = [t \in Turns |-> NoObject]
    /\ on = [t \in Turns |-> NoObject]
    /\ rpc = [r \in Turns |-> "off"]
    /\ got = [r \in Turns |-> NoObject]
    /\ counted = [r \in Turns |-> NoObject]
    /\ reaper = "off"
    /\ robbed = FALSE
    /\ exposed = {}

-----------------------------------------------------------------------------
(***************************************************************************)
(* The pool.  ReapIdle holds its mutex, so that Get and GetOrCreate wait.  *)
(***************************************************************************)

PoolFree == reaper = "off"

(* Nobody has a pointer to w any more. *)
Unused(w) ==
    /\ w # pool
    /\ \A t \in Turns : w \notin {home[t], on[t], got[t], counted[t]}

(* GetOrCreate returns w: the object of the pool, or a new one.  A new one *)
(* is not idle; what the caller does to idle is the caller's.              *)
GetOrCreate(w) ==
    /\ PoolFree
    /\ \/ /\ w = pool /\ pool # NoObject
          /\ UNCHANGED <<pool, active, robbed, locked>>
       \/ /\ pool = NoObject
          /\ w \in Objects /\ Unused(w)
          /\ pool' = w /\ active' = 0 /\ robbed' = FALSE
          /\ locked' = [locked EXCEPT ![w] = {}]

(* BeginTurn and EndTurn on object w.  The count of an object that the     *)
(* pool has dropped is read by nobody.                                     *)
Begun(w) ==
    /\ active' = IF w = pool THEN active + 1 ELSE active
    /\ idle' = (w # pool /\ idle)

(* Variant with a fault: EndTurn goes below zero. *)
EndedBelow(w) ==
    /\ active' = IF w = pool THEN active - 1 ELSE active
    /\ idle' = (w # pool /\ idle)

Ended(w) ==
    /\ active' = IF w = pool /\ active > 0 THEN active - 1 ELSE active
    /\ idle' = (w # pool /\ idle)

Goto(t, l) == pc' = [pc EXCEPT ![t] = l]

-----------------------------------------------------------------------------
(***************************************************************************)
(* A turn.                                                                 *)
(***************************************************************************)

(* getOrCreateWorkspaceAgent: the session manager of the workspace.  A     *)
(* message touches the workspace first, a cron job does not.               *)
Resolve(t) ==
    /\ pc[t] = "new"
    /\ \E w \in Objects : GetOrCreate(w) /\ home' = [home EXCEPT ![t] = w]
    /\ idle' \in {idle, FALSE} /\ (pool' # pool => idle' = FALSE)
    /\ Goto(t, "resolved")
    /\ UNCHANGED <<on, readerVars, reaper, exposed>>

(* The Session of the conversation is free. *)
SessionFree(t) == ConvOf[t] \notin locked[home[t]]

TryLock(t) ==
    /\ pc[t] = "resolved" /\ SessionFree(t)
    /\ locked' = [locked EXCEPT ![home[t]] = @ \cup {ConvOf[t]}]
    /\ Goto(t, "locked")
    /\ UNCHANGED <<poolVars, home, on, readerVars, reaper, robbed, exposed>>

(* The session is busy: the message is queued or rejected. *)
Busy(t) ==
    /\ pc[t] = "resolved" /\ ~SessionFree(t)
    /\ Goto(t, "new")
    /\ home' = [home EXCEPT ![t] = NoObject]
    /\ UNCHANGED <<poolVars, locked, on, readerVars, reaper, robbed, exposed>>

(* The agent does not start. *)
NoAgent(t) ==
    /\ pc[t] = "locked"
    /\ Goto(t, "release")
    /\ UNCHANGED <<poolVars, locked, home, on, readerVars, reaper, robbed, exposed>>

(* drainOrphanedQueue works off the queue without BeginTurn. *)
DrainOrphaned(t) ==
    /\ pc[t] = "locked"
    /\ Goto(t, "drain")
    /\ UNCHANGED <<poolVars, locked, home, on, readerVars, reaper, robbed, exposed>>

DrainEnds(t) ==
    /\ pc[t] = "drain"
    /\ Goto(t, "release")
    /\ UNCHANGED <<poolVars, locked, home, on, readerVars, reaper, robbed, exposed>>

(* processInteractiveMessageWith, after the agent has started: the object  *)
(* is looked up once more ...                                              *)
Find(t) ==
    /\ pc[t] = "locked"
    /\ \E w \in Objects : GetOrCreate(w) /\ on' = [on EXCEPT ![t] = w]
    /\ idle' = (pool' = pool /\ idle)
    /\ Goto(t, "found")
    /\ UNCHANGED <<home, readerVars, reaper, exposed>>

(* ... and the turn counted on it.                                         *)
BeginTurn(t) ==
    /\ pc[t] = "found"
    /\ Begun(on[t])
    /\ exposed' = IF on[t] # pool \/ reaper = "old" \/ robbed THEN exposed \cup {t} ELSE exposed
    /\ Goto(t, "run")
    /\ UNCHANGED <<pool, locked, home, on, readerVars, reaper, robbed>>

(* The queue is empty: the session is unlocked, and a reader may start. *)
Unlock(t) ==
    /\ pc[t] = "run"
    /\ locked' = [locked EXCEPT ![home[t]] = @ \ {ConvOf[t]}]
    /\ Goto(t, "unlocked")
    /\ UNCHANGED <<poolVars, home, on, readerVars, reaper, robbed, exposed>>

StartReader(t) ==
    /\ pc[t] = "unlocked"
    /\ \/ rpc[t] = "off" /\ rpc' = [rpc EXCEPT ![t] = "select"]
       \/ UNCHANGED rpc
    /\ Goto(t, "end")
    /\ UNCHANGED <<poolVars, locked, home, on, got, counted, reaper, robbed, exposed>>

(* The deferred EndTurn.  On an early return it comes before the deferred  *)
(* Unlock.                                                                 *)
EndTurn(t) ==
    /\ pc[t] \in {"end", "run"}
    /\ Ended(on[t])
    /\ on' = [on EXCEPT ![t] = NoObject]
    /\ exposed' = exposed \ {t}
    /\ IF pc[t] = "run"
       THEN Goto(t, "release") /\ UNCHANGED home
       ELSE Goto(t, "new") /\ home' = [home EXCEPT ![t] = NoObject]
    /\ UNCHANGED <<pool, locked, readerVars, reaper, robbed>>

DeferredUnlock(t) ==
    /\ pc[t] = "release"
    /\ locked' = [locked EXCEPT ![home[t]] = @ \ {ConvOf[t]}]
    /\ Goto(t, "new")
    /\ home' = [home EXCEPT ![t] = NoObject]
    /\ UNCHANGED <<poolVars, on, readerVars, reaper, robbed, exposed>>

-----------------------------------------------------------------------------
(***************************************************************************)
(* The unsolicited reader.  It looks the object up at the first event of   *)
(* what the agent does by itself, and again at its end.                    *)
(***************************************************************************)

ReaderGets(r, l) ==
    /\ PoolFree
    /\ got' = [got EXCEPT ![r] = pool]
    /\ rpc' = [rpc EXCEPT ![r] = l]
    /\ UNCHANGED <<poolVars, turnVars, counted, reaper, robbed, exposed>>

FirstEvent(r) == rpc[r] = "select" /\ ReaderGets(r, "found")

ReaderBegins(r) ==
    /\ rpc[r] = "found"
    /\ IF got[r] = NoObject THEN UNCHANGED <<active, idle>> ELSE Begun(got[r])
    /\ counted' = [counted EXCEPT ![r] = got[r]]
    /\ got' = [got EXCEPT ![r] = NoObject]
    /\ rpc' = [rpc EXCEPT ![r] = "active"]
    /\ UNCHANGED <<pool, turnVars, reaper, robbed, exposed>>

(* A result ends it; an error, the end of the agent or whoever stops the   *)
(* reader end the reader as well.                                          *)
ReaderResult(r) == rpc[r] = "active" /\ ReaderGets(r, "ending")
ReaderLeaves(r) == rpc[r] = "active" /\ ReaderGets(r, "leaving")

OnPool == {t \in Turns : pc[t] \in CountedPcs /\ on[t] = pool}

(* The object got is not the one counted on, and somebody else's count is  *)
(* taken.                                                                  *)
Robs(r) == got[r] = pool /\ got[r] # counted[r] /\ active > 0

ReaderEnds(r) ==
    /\ rpc[r] \in {"ending", "leaving"}
    /\ IF got[r] = NoObject
       THEN UNCHANGED <<active, idle, robbed, exposed>>
       ELSE /\ Ended(got[r])
            /\ robbed' = (robbed \/ Robs(r))
            /\ exposed' = IF Robs(r) THEN exposed \cup OnPool ELSE exposed
    /\ counted' = [counted EXCEPT ![r] = NoObject]
    /\ got' = [got EXCEPT ![r] = NoObject]
    /\ rpc' = [rpc EXCEPT ![r] = IF rpc[r] = "ending" THEN "select" ELSE "off"]
    /\ UNCHANGED <<pool, turnVars, reaper>>

(* Stopped between two jobs of the agent. *)
ReaderStops(r) ==
    /\ rpc[r] = "select"
    /\ rpc' = [rpc EXCEPT ![r] = "off"]
    /\ UNCHANGED <<poolVars, turnVars, got, counted, reaper, robbed, exposed>>

-----------------------------------------------------------------------------
(***************************************************************************)
(* Time, and the reaper.  Its cutoff is computed before it looks.          *)
(***************************************************************************)

TimePasses ==
    /\ reaper = "off" /\ pool # NoObject
    /\ idle' = TRUE
    /\ UNCHANGED <<pool, active, turnVars, readerVars, reaper, robbed, exposed>>

(* Variant with a fault: turns are not asked for. *)
HasActiveTurnNever == FALSE

HasActiveTurn == active > 0

(* The object of the workspace has no active turn ... *)
ReapLooks ==
    /\ reaper = "off" /\ pool # NoObject /\ ~HasActiveTurn
    /\ reaper' = "quiet"
    /\ UNCHANGED <<poolVars, turnVars, readerVars, robbed, exposed>>

(* ... and nothing has happened in it for the timeout ... *)
ReapCompares ==
    /\ reaper = "quiet"
    /\ reaper' = IF idle THEN "old" ELSE "off"
    /\ UNCHANGED <<poolVars, turnVars, readerVars, robbed, exposed>>

(* ... so it leaves the pool, with its session manager. *)
ReapDrops ==
    /\ reaper = "old"
    /\ pool' = NoObject /\ active' = 0 /\ idle' = FALSE /\ robbed' = FALSE
    /\ reaper' = "off"
    /\ UNCHANGED <<turnVars, readerVars, exposed>>

-----------------------------------------------------------------------------
Turn(t) ==
    \/ Resolve(t) \/ TryLock(t) \/ Busy(t) \/ NoAgent(t) \/ DrainOrphaned(t) \/ DrainEnds(t)
    \/ Find(t) \/ BeginTurn(t) \/ Unlock(t) \/ StartReader(t) \/ EndTurn(t) \/ DeferredUnlock(t)

Reader(r) ==
    \/ FirstEvent(r) \/ ReaderBegins(r) \/ ReaderResult(r) \/ ReaderLeaves(r)
    \/ ReaderEnds(r) \/ ReaderStops(r)

Next ==
    \/ \E t \in Turns : Turn(t) \/ Reader(t)
    \/ TimePasses \/ ReapLooks \/ ReapCompares \/ ReapDrops

Spec == Init /\ [][Next]_vars

-----------------------------------------------------------------------------
(* Who counts on the object of the pool. *)
Holders ==
    {<<t, "turn">> : t \in OnPool}
    \cup {<<r, "reader">> : r \in {q \in Turns : counted[q] = pool}}

(* The count of the workspace is never more than the turns and readers     *)
(* that are to lower it again, so that an idle workspace is reaped in the  *)
(* end; and it is exactly these, unless a reader has taken somebody's.     *)
CountFollowsTurns ==
    pool # NoObject =>
        /\ active <= Cardinality(Holders)
        /\ ~robbed => active = Cardinality(Holders)

(* A workspace stays in the pool while a turn of it runs, however long the *)
(* turn takes; and while the turn holds its Session, the next message of   *)
(* the conversation finds that Session, and finds it locked: no second     *)
(* manager lets a second turn in.  The exceptions are turns that began as  *)
(* the reaper dropped the object, and turns whose count a reader took.     *)
ActiveStaysPooled ==
    \A t \in Turns \ exposed :
        /\ pc[t] \in CountedPcs => pool = on[t]
        /\ pc[t] = "run" /\ home[t] = on[t] => ConvOf[t] \in locked[pool]

(* The two together are what lets the reaper look at a count instead of    *)
(* at the turns themselves: it drops no workspace in the middle of a turn, *)
(* and no count is left over that would keep a workspace for ever.         *)
ReaperSeesTurns ==
    /\ CountFollowsTurns
    /\ ActiveStaysPooled
=============================================================================
