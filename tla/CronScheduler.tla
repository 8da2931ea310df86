---------------------------- MODULE CronScheduler ----------------------------
(***************************************************************************)
(* Scheduled jobs (src/core/cron.go).  A job lives in three places: in the  *)
(* store, under the store's mutex, and in its file; in the scheduler's map  *)
(* of entries, under another mutex; and in the timer library, which fires.  *)
(* Chat commands, the management API and the start-up change them in        *)
(* several steps each, at the same time.                                    *)
(***************************************************************************)
EXTENDS Integers, Sequences

CONSTANTS
    Jobs,           \* bound: job ids that are ever generated
    Exprs,          \* cron expressions
    Valid,          \* those that parse
    Requesters,     \* goroutines that serve a command or an API call
    Main,           \* the goroutine that starts the program
    EntryIds,       \* cron.EntryID, one of which returns to use when it is free
    NoEntry,        \* no entry, and no job in an entry
    Runs            \* bound: runs in progress at a time

ASSUME MainAssumption == Main \notin Requesters
ASSUME NoEntryAssumption == NoEntry \notin EntryIds /\ NoEntry \notin Jobs
ASSUME BoundsAssumption == Jobs # {} /\ Exprs # {} /\ Valid \subseteq Exprs

Clients == Requesters \cup {Main}

VARIABLES
    job,        \* id -> the CronJob in memory; a removed one may still be in use
    disk,       \* id -> the CronJob in jobs.json
    used,       \* ids that jobs had or have
    entries,    \* cs.entries: id -> entry
    lib,        \* the library: entry -> the job and the expression it fires for
    todo,       \* client -> the steps of its request that are left
    request,    \* client -> its request
    alone,      \* client -> no other request on its job since it began
    boot,       \* "loaded", "scheduling", "started"
    list,       \* jobs that Start has yet to look at
    rpc,        \* run -> where it is
    rjob,       \* run -> its job
    unsaved,    \* history: the last save failed
    unsettled,  \* history: requests on these jobs overlapped or failed half-way
    off,        \* history: the last request switched these jobs off
    raw         \* history: expression set by its Go name since the last entry

storeVars    == <<job, disk, used, unsaved>>
scheduleVars == <<entries, lib, raw>>
requestVars  == <<todo, request, alone, unsettled, off>>
bootVars     == <<boot, list>>
runVars      == <<rpc, rjob>>
vars == <<storeVars, scheduleVars, requestVars, bootVars, runVars>>

Ops == {"add", "enable", "disable", "remove", "setExpr", "setEnabled", "start"}

(* The critical sections of a request, in the order of the code.            *)
Steps(op) ==
    CASE op = "add"     -> <<"store", "get", "schedule">>
      [] op = "enable"  -> <<"store", "get", "schedule">>
      [] op = "disable" -> <<"store", "unschedule">>
      [] op = "remove"  -> <<"unschedule", "store">>
      [] op = "setExpr" \/ op = "setEnabled"
                        -> <<"unschedule", "store", "get", "schedule">>
      [] op = "start"   -> <<"get", "schedule">>

CronJobs == [there : BOOLEAN, enabled : BOOLEAN, expr : Exprs]
NoJob    == [there |-> FALSE, enabled |-> FALSE, expr |-> CHOOSE x \in Exprs : TRUE]
Requests == [op : Ops, job : Jobs, enabled : BOOLEAN, expr : Exprs]
Unused   == [job |-> NoEntry, expr |-> NoEntry]

TypeOK ==
    /\ job \in [Jobs -> CronJobs]
    /\ disk \in [Jobs -> CronJobs]
    /\ used \in SUBSET Jobs
    /\ entries \in [Jobs -> EntryIds \cup {NoEntry}]
    /\ lib \in [EntryIds -> [job : Jobs, expr : Exprs] \cup {Unused}]
    /\ todo \in [Clients -> Seq({"store", "get", "schedule", "unschedule"})]
    /\ request \in [Clients -> Requests]
    /\ alone \in [Clients -> BOOLEAN]
    /\ boot \in {"loaded", "scheduling", "started"}
    /\ list \in SUBSET Jobs
    /\ boot # "scheduling" => list = {}
    /\ rpc \in [Runs -> {"idle", "fired", "found", "running", "manual"}]
    /\ rjob \in [Runs -> Jobs]
    /\ unsaved \in BOOLEAN
    /\ unsettled \in SUBSET Jobs
    /\ off \in SUBSET Jobs
    /\ raw \in SUBSET Jobs

NoRequest == [op |-> "start", job |-> CHOOSE j \in Jobs : TRUE,
              enabled |-> TRUE, expr |-> NoJob.expr]
Idle == [c \in Clients |-> <<>>]

Init ==
    /\ job = [j \in Jobs |-> NoJob]
    /\ disk = [j \in Jobs |-> NoJob]
    /\ used = {}
    /\ entries = [j \in Jobs |-> NoEntry]
    /\ lib = [e \in EntryIds |-> Unused]
    /\ todo = Idle
    /\ request = [c \in Clients |-> NoRequest]
    /\ alone = [c \in Clients |-> FALSE]
    /\ boot = "loaded"
    /\ list = {}
    /\ rpc = [r \in Runs |-> "idle"]
    /\ rjob = [r \in Runs |-> NoRequest.job]
    /\ unsaved = FALSE
    /\ unsettled = {}
    /\ off = {}
    /\ raw = {}

Busy(c)  == todo[c] # <<>>
Of(c)    == request[c].job
Next1(c) == Head(todo[c])
At(c, step) == Busy(c) /\ Next1(c) = step

-----------------------------------------------------------------------------
(***************************************************************************)
(* The store.                                                              *)
(***************************************************************************)

(* CronStore.save, which writes all jobs; its error is only logged, but in  *)
(* an add.                                                                  *)
Saves ==
    /\ disk' = [j \in Jobs |-> IF job'[j].there THEN job'[j] ELSE NoJob]
    /\ unsaved' = FALSE
SaveFails == unsaved' = TRUE /\ UNCHANGED disk

(* What the request changes in the store. *)
Stored(q, j) ==
    CASE q.op = "add"        -> [there |-> TRUE, enabled |-> TRUE, expr |-> q.expr]
      [] q.op = "enable"     -> [j EXCEPT !.enabled = TRUE]
      [] q.op = "disable"    -> [j EXCEPT !.enabled = FALSE]
      [] q.op = "remove"     -> [j EXCEPT !.there = FALSE]
      [] q.op = "setExpr"    -> [j EXCEPT !.expr = q.expr]
      [] q.op = "setEnabled" -> [j EXCEPT !.enabled = q.enabled]

(***************************************************************************)
(* Requests.  One that no other overlapped leaves its job settled.          *)
(***************************************************************************)
Handling(c, j) == Busy(c) /\ Of(c) = j

SwitchesOff(q) == q.op \in {"disable", "remove"} \/ (q.op = "setEnabled" /\ ~q.enabled)

(* c goes on with what is left of its request, nothing if that is over. *)
Goes(c, left, fine) ==
    /\ todo' = [todo EXCEPT ![c] = left]
    /\ unsettled' = IF ~fine THEN unsettled \cup {Of(c)}
                    ELSE IF left = <<>> /\ alone[c] THEN unsettled \ {Of(c)}
                    ELSE unsettled
    /\ off' = IF left = <<>> /\ alone[c] /\ SwitchesOff(request[c])
              THEN off \cup {Of(c)} ELSE off
    /\ request' = IF left = <<>> THEN [request EXCEPT ![c] = NoRequest] ELSE request
    /\ alone' = [alone EXCEPT ![c] = @ /\ left # <<>>]

(* c begins with request q. *)
Begins(c, q) ==
    LET others == {d \in Clients : Handling(d, q.job)}
        solo   == /\ others = {}
                  /\ q.job \notin IF c = Main THEN unsettled ELSE list
    IN  /\ todo' = [todo EXCEPT ![c] = Steps(q.op)]
        /\ request' = [request EXCEPT ![c] = q]
        /\ alone' = [d \in Clients |->
                        IF d = c THEN solo ELSE alone[d] /\ d \notin others]
        /\ unsettled' = IF solo THEN unsettled ELSE unsettled \cup {q.job}
        /\ off' = off \ {q.job}

Request(c) ==
    /\ c \in Requesters /\ ~Busy(c)
    /\ \E op \in Ops \ {"start"}, j \in Jobs :
        /\ op = "add" <=> j \notin used
        /\ op \notin {"add", "remove"} => job[j].there
        /\ used' = used \cup {j}
        /\ \E on \in IF op = "setEnabled" THEN BOOLEAN ELSE {TRUE} :
           \E x \in IF op \in {"add", "setExpr"} THEN Valid ELSE {NoJob.expr} :
             Begins(c, [op |-> op, job |-> j, enabled |-> on, expr |-> x])
    /\ UNCHANGED <<job, disk, unsaved, scheduleVars, bootVars, runVars>>

(* Variant with a fault: the file is written before the change. *)
StoreLate(c) ==
    /\ At(c, "store")
    /\ LET j == Of(c) IN
       /\ request[c].op = "add" \/ job[j].there
       /\ job' = [job EXCEPT ![j] = Stored(request[c], job[j])]
       /\ disk' = [i \in Jobs |-> IF job[i].there THEN job[i] ELSE NoJob]
       /\ unsaved' = FALSE
       /\ Goes(c, Tail(todo[c]), TRUE)
    /\ UNCHANGED <<used, scheduleVars, bootVars, runVars>>

(* Add, SetEnabled, Remove and Update of CronStore.  An add that could not  *)
(* be saved returns with an error, and its job stays in memory.             *)
Store(c) ==
    /\ At(c, "store")
    /\ LET j == Of(c)
           q == request[c]
       IN \/ /\ q.op # "add" /\ ~job[j].there
             /\ Goes(c, <<>>, TRUE)
             /\ UNCHANGED <<job, disk, unsaved>>
          \/ /\ q.op = "add" \/ job[j].there
             /\ job' = [job EXCEPT ![j] = Stored(q, job[j])]
             /\ \/ Saves /\ Goes(c, Tail(todo[c]), TRUE)
                \/ SaveFails /\ IF q.op = "add" THEN Goes(c, <<>>, FALSE)
                                                ELSE Goes(c, Tail(todo[c]), TRUE)
    /\ UNCHANGED <<used, scheduleVars, bootVars, runVars>>

(* A field that does not reschedule (prompt, mute, mode, ...) is set in one *)
(* critical section; what the model sees of it is the save of all jobs.     *)
SetField(j) ==
    /\ job[j].there
    /\ UNCHANGED job
    /\ Saves \/ SaveFails
    /\ UNCHANGED <<used, scheduleVars, requestVars, bootVars, runVars>>

(* A field that updateJobField does not know is set by reflection: with     *)
(* "CronExpr" the expression, not parsed, and the entry stays as it is.     *)
SetExprRaw(j) ==
    /\ job[j].there
    /\ \E x \in Exprs : job' = [job EXCEPT ![j].expr = x]
    /\ Saves \/ SaveFails
    /\ raw' = raw \cup {j}
    /\ UNCHANGED <<used, entries, lib, requestVars, bootVars, runVars>>

(* c works on the job it has, and no longer by its id. *)
HasJob(c) == At(c, "schedule") \/ (At(c, "get") /\ request[c].op \in {"add", "start"})

(* With "ID" it is the id, which the list of read-only fields has in lower  *)
(* case only.  The entry stays under the old id; who has the job goes on    *)
(* with the new one.  bound: no id is taken twice.                          *)
Rename(j, k) ==
    /\ job[j].there /\ k \notin used
    /\ job' = [job EXCEPT ![j] = NoJob, ![k] = job[j]]
    /\ Saves \/ SaveFails
    /\ used' = used \cup {k}
    /\ request' = [c \in Clients |-> IF Of(c) = j /\ HasJob(c)
                                     THEN [request[c] EXCEPT !.job = k] ELSE request[c]]
    /\ alone' = [c \in Clients |-> alone[c] /\ ~Handling(c, j)]
    /\ unsettled' = unsettled \cup {j, k}
    /\ off' = off \ {j, k}
    /\ list' = IF j \in list THEN (list \ {j}) \cup {k} ELSE list
    /\ rjob' = [r \in Runs |-> IF rjob[r] = j /\ rpc[r] \in {"found", "running"}
                               THEN k ELSE rjob[r]]
    /\ UNCHANGED <<scheduleVars, todo, boot, rpc>>

(* Variant with a fault: an update does not look for the job again. *)
GetOmitted(c) ==
    /\ At(c, "get")
    /\ Goes(c, Tail(todo[c]), TRUE)
    /\ UNCHANGED <<storeVars, scheduleVars, bootVars, runVars>>

(* The job is looked up once more, and scheduled if it is enabled.  Enable  *)
(* does not look at the flag, and add and start have the job already.       *)
Get(c) ==
    /\ At(c, "get")
    /\ LET j == job[Of(c)]
           schedules == CASE request[c].op \in {"add", "start"} -> j.enabled
                          [] request[c].op = "enable" -> j.there
                          [] request[c].op \in {"setExpr", "setEnabled"} ->
                                j.there /\ j.enabled
       IN  Goes(c, IF schedules THEN Tail(todo[c]) ELSE <<>>, TRUE)
    /\ UNCHANGED <<storeVars, scheduleVars, bootVars, runVars>>

(* The library when the entry of job j was removed, if it had one. *)
Freed(j) == [e \in EntryIds |-> IF e = entries[j] THEN Unused ELSE lib[e]]

(* Ids that AddFunc may give out: the library never gives one out again.    *)
FreeFor(j) ==
    {e \in EntryIds : Freed(j)[e] = Unused /\ \A k \in Jobs \ {j} : entries[k] # e}

(* Job j has an entry that fires. *)
Scheduled(j) == entries[j] # NoEntry /\ lib[entries[j]] # Unused

(* Variant with a fault: the job's old entry stays in the library. *)
ScheduleTwice(c) ==
    /\ At(c, "schedule")
    /\ \E e \in EntryIds :
        /\ lib[e] = Unused
        /\ lib' = [lib EXCEPT ![e] = [job |-> Of(c), expr |-> job[Of(c)].expr]]
        /\ entries' = [entries EXCEPT ![Of(c)] = e]
    /\ raw' = raw \ {Of(c)}
    /\ Goes(c, Tail(todo[c]), TRUE)
    /\ UNCHANGED <<storeVars, bootVars, runVars>>

(* Variant with a fault: the entry keeps the expression it had. *)
ScheduleStale(c) ==
    /\ At(c, "schedule")
    /\ LET j == Of(c) IN
       /\ job[j].expr \in Valid
       /\ IF Scheduled(j) THEN UNCHANGED <<entries, lib>>
          ELSE \E e \in FreeFor(j) :
                 /\ lib' = [lib EXCEPT ![e] = [job |-> j, expr |-> job[j].expr]]
                 /\ entries' = [entries EXCEPT ![j] = e]
       /\ raw' = raw
    /\ Goes(c, Tail(todo[c]), TRUE)
    /\ UNCHANGED <<storeVars, bootVars, runVars>>

(* scheduleJob.  The job may have changed since, and may be gone; if its    *)
(* expression is not valid, cs.entries keeps the entry just removed.        *)
Schedule(c) ==
    /\ At(c, "schedule")
    /\ LET j == Of(c) IN
       \/ /\ job[j].expr \in Valid
          /\ \E e \in FreeFor(j) :
                /\ lib' = [Freed(j) EXCEPT ![e] = [job |-> j, expr |-> job[j].expr]]
                /\ entries' = [entries EXCEPT ![j] = e]
          /\ raw' = raw \ {j}
          /\ Goes(c, Tail(todo[c]), TRUE)
       \/ /\ job[j].expr \notin Valid
          /\ lib' = Freed(j)
          /\ Goes(c, <<>>, FALSE)
          /\ UNCHANGED <<entries, raw>>
    /\ UNCHANGED <<storeVars, bootVars, runVars>>

(* RemoveJob, DisableJob and UpdateJob under cs.mu. *)
Unschedule(c) ==
    /\ At(c, "unschedule")
    /\ lib' = Freed(Of(c))
    /\ entries' = [entries EXCEPT ![Of(c)] = NoEntry]
    /\ raw' = raw \ {Of(c)}
    /\ Goes(c, Tail(todo[c]), TRUE)
    /\ UNCHANGED <<storeVars, bootVars, runVars>>

-----------------------------------------------------------------------------
(***************************************************************************)
(* Start-up, beside the requests of platforms that are connected already.  *)
(***************************************************************************)
StartList ==
    /\ boot = "loaded"
    /\ boot' = "scheduling"
    /\ list' = {j \in Jobs : job[j].there}
    /\ LET both == {c \in Clients : Busy(c) /\ Of(c) \in list'}
       IN  /\ alone' = [c \in Clients |-> alone[c] /\ c \notin both]
           /\ unsettled' = unsettled \cup {Of(c) : c \in both}
    /\ UNCHANGED <<storeVars, scheduleVars, todo, request, off, runVars>>

StartNext ==
    /\ boot = "scheduling" /\ ~Busy(Main)
    /\ \E j \in list :
        /\ Begins(Main, [NoRequest EXCEPT !.job = j])
        /\ list' = list \ {j}
    /\ UNCHANGED <<storeVars, scheduleVars, boot, runVars>>

(* Variant with a fault: the library is started while jobs are left. *)
StartedEarly ==
    /\ boot = "scheduling" /\ ~Busy(Main)
    /\ boot' = "started"
    /\ UNCHANGED <<storeVars, scheduleVars, requestVars, list, runVars>>

Started ==
    /\ boot = "scheduling" /\ list = {} /\ ~Busy(Main)
    /\ boot' = "started"
    /\ UNCHANGED <<storeVars, scheduleVars, requestVars, list, runVars>>

(* The program ends at any moment, and is started again. *)
Crash ==
    /\ job' = disk
    /\ unsaved' = FALSE
    /\ entries' = [j \in Jobs |-> NoEntry]
    /\ lib' = [e \in EntryIds |-> Unused]
    /\ raw' = {}
    /\ todo' = Idle
    /\ request' = [c \in Clients |-> NoRequest]
    /\ alone' = [c \in Clients |-> FALSE]
    /\ unsettled' = {}
    /\ off' = IF unsaved THEN {} ELSE off
    /\ boot' = "loaded"
    /\ list' = {}
    /\ rpc' = [r \in Runs |-> "idle"]
    /\ rjob' = [r \in Runs |-> NoRequest.job]
    /\ UNCHANGED <<disk, used>>

-----------------------------------------------------------------------------
(***************************************************************************)
(* Runs.                                                                   *)
(***************************************************************************)
Fire(r) ==
    /\ boot = "started" /\ rpc[r] = "idle"
    /\ \E e \in EntryIds :
        /\ lib[e] # Unused
        /\ rjob' = [rjob EXCEPT ![r] = lib[e].job]
    /\ rpc' = [rpc EXCEPT ![r] = "fired"]
    /\ UNCHANGED <<storeVars, scheduleVars, requestVars, bootVars>>

(* executeJob looks the job up under the store's mutex. *)
ExecuteJob(r) ==
    /\ rpc[r] = "fired"
    /\ rpc' = [rpc EXCEPT ![r] = IF job[rjob[r]].there THEN "found" ELSE "idle"]
    /\ UNCHANGED <<storeVars, scheduleVars, requestVars, bootVars, rjob>>

(* Variant with a fault: the entry decides, not the flag. *)
RunUnchecked(r) ==
    /\ rpc[r] = "found"
    /\ rpc' = [rpc EXCEPT ![r] = "running"]
    /\ UNCHANGED <<storeVars, scheduleVars, requestVars, bootVars, rjob>>

(* runJob then reads its flag without the mutex; a job that was removed     *)
(* since has it as it was.                                                  *)
RunJob(r) ==
    /\ rpc[r] = "found"
    /\ rpc' = [rpc EXCEPT ![r] = IF job[rjob[r]].enabled THEN "running" ELSE "idle"]
    /\ UNCHANGED <<storeVars, scheduleVars, requestVars, bootVars, rjob>>

(* RunJobNow, for enabled and disabled jobs, with a copy of the job. *)
RunJobNow(r) ==
    /\ rpc[r] = "idle"
    /\ \E j \in Jobs :
        /\ job[j].there
        /\ rjob' = [rjob EXCEPT ![r] = j]
    /\ rpc' = [rpc EXCEPT ![r] = "manual"]
    /\ UNCHANGED <<storeVars, scheduleVars, requestVars, bootVars>>

(* The end of runJob, when the engine returned or the job's timeout is over *)
(* (it has none with timeout_mins 0: then perhaps never).  MarkRun saves,   *)
(* if the job is there.                                                     *)
MarkRun(r) ==
    /\ rpc[r] \in {"running", "manual"}
    /\ UNCHANGED job
    /\ IF job[rjob[r]].there THEN Saves \/ SaveFails ELSE UNCHANGED <<disk, unsaved>>
    /\ rpc' = [rpc EXCEPT ![r] = "idle"]
    /\ UNCHANGED <<used, scheduleVars, requestVars, bootVars, rjob>>

-----------------------------------------------------------------------------
Client(c) == Store(c) \/ Get(c) \/ Schedule(c) \/ Unschedule(c)

Next ==
    \/ \E c \in Clients : Request(c) \/ Client(c)
    \/ \E j \in Jobs : SetField(j) \/ SetExprRaw(j) \/ \E k \in Jobs : Rename(j, k)
    \/ StartList \/ StartNext \/ Started \/ Crash
    \/ \E r \in Runs :
        Fire(r) \/ ExecuteJob(r) \/ RunJob(r) \/ RunJobNow(r) \/ MarkRun(r)

Spec == Init /\ [][Next]_vars

-----------------------------------------------------------------------------
(* An entry that fires for an id is the one the scheduler knows for that id *)
(* and no other, however requests, updates and the start-up interleave: no  *)
(* id fires twice, and no entry is beyond the reach of a disable.           *)
OneEntryPerJob ==
    \A e \in EntryIds : lib[e] # Unused =>
        \A j \in Jobs : entries[j] = e <=> lib[e].job = j

Settled(j) ==
    /\ boot # "loaded" /\ j \notin list
    /\ \A c \in Clients : ~Handling(c, j)
    /\ j \notin unsettled

(* When no request on a job is under way, and the last one was alone and    *)
(* got through, it has an entry that fires if it is enabled, and none if it *)
(* is disabled or removed.  An update of the field "ID" is one that the     *)
(* code does not get through: it counts as one that failed half-way, for    *)
(* the old id and the new one.                                              *)
ScheduleFollowsStore ==
    \A j \in Jobs : Settled(j) =>
        (Scheduled(j) <=> job[j].there /\ job[j].enabled)

(* An enabled job that is scheduled and that nobody is changing fires by    *)
(* the expression that is stored, even if its changes overlapped, unless    *)
(* that was set by its Go name since the entry was made.                    *)
FiresByStoredExpr ==
    \A j \in Jobs \ raw :
        /\ \A c \in Clients : ~Handling(c, j)
        /\ job[j].there /\ job[j].enabled /\ Scheduled(j)
        => lib[entries[j]].expr = job[j].expr

(* Unless the last save failed, a restart finds what the program knew.      *)
FileIsCurrent ==
    ~unsaved => \A j \in Jobs : disk[j] = (IF job[j].there THEN job[j] ELSE NoJob)

(* When a disable or an update was the last request on a job, and is over,  *)
(* no scheduled run of it begins, not even one that had fired and had found *)
(* the job.  When it was a removal, only a run that had found the job       *)
(* before may still begin.                                                  *)
OffStaysOff ==
    [][\A r \in Runs : rjob[r] \in off =>
        IF job[rjob[r]].there THEN rpc[r] = "found" => rpc'[r] # "running"
                              ELSE rpc[r] = "fired" => rpc'[r] \notin {"found", "running"}]_vars
=============================================================================
