--------------------------- MODULE ScheduleService ---------------------------
(***************************************************************************)
(* Scheduled tasks: createScheduleServiceCore (schedule-service-core.ts),  *)
(* with what it calls of schedule-store.ts and schedule-execution.ts.      *)
(*                                                                         *)
(* A step is what runs between two awaits.  The awaits are: a task's       *)
(* lifecycle lock, the end of cancelled runs, a write of the store, and    *)
(* the read that dispatch() makes.  The other reads are served from the    *)
(* store's cache, so what follows them runs in the microtasks after them   *)
(* and they are part of the step that makes them.                          *)
(***************************************************************************)
EXTENDS Integers, FiniteSets, Sequences

CONSTANTS
    Task,         \* ids of tasks
    Workspace,
    Stored,       \* what schedules.json may hold when the application starts
    Call,         \* calls of the service's methods, one use each
    Boot,         \* the call of start()
    None,         \* no task, no workspace, or no job
    Faulty        \* whether a write of the store may fail (once)

TaskRecord == [st : {"absent", "present", "removed"},
               enabled : BOOLEAN, ws : Workspace \cup {None}]

ASSUME ScheduleServiceAssumption ==
    /\ Stored \subseteq [Task -> TaskRecord]
    /\ Boot \notin Call
    /\ None \notin Task \cup Workspace \cup Call \cup {Boot}
    /\ Faulty \in BOOLEAN

Caller == Call \cup {Boot}

TaskKinds == {"save", "pause", "resume", "remove"}
LoopKinds == {"start", "enable", "resumeWorkspace"}
Kinds == TaskKinds \cup LoopKinds
            \cup {"create", "runNow", "disable", "cancelWorkspace", "stop"}

\* Where a call waits: for its task's lock, for cancelled runs to end, for
\* the workspaces of running tasks to be known, for a write of the store,
\* the write of schedule() (when it puts a job back, the call ends there), or
\* the write that disables a task.
Points == {"idle", "loop", "lock", "settle", "ready", "commit", "restore",
           "rollback", "arm", "rearm", "disable", "done"}

Phases == {"none", "get", "claim", "exec", "record"}

VARIABLES
    store,           \* schedules.json
    moved,           \* tasks written since a save that is undone read their revision
    jobs,            \* the jobs map: the call that created a task's current job
    armed,           \* jobs of a task that were resumed and not stopped
    run,             \* runningTasks, with each run's execution
    tails,           \* lifecycleTails: who holds a task's lock, and who waits
    blocked,         \* blockedWorkspaces
    started, globallyEnabled,
    setting,         \* settings.scheduledTasksEnabled
    op,              \* the calls
    refused          \* a schedule's write threw, or a rollback met a later revision

vars == <<store, moved, jobs, armed, run, tails, blocked, started,
          globallyEnabled, setting, op, refused>>

NoRun == [phase |-> "none", auto |-> FALSE, cancel |-> FALSE, ws |-> None,
          task |-> [st |-> "absent", enabled |-> FALSE, ws |-> None]]
Idle == [kind |-> "stop", task |-> None, ws |-> None, aborted |-> FALSE,
         pc |-> "idle", cur |-> NoRun.task, next |-> NoRun.task,
         todo |-> {}, waits |-> {}]

TypeOK ==
    /\ store \in [Task -> TaskRecord]
    /\ moved \subseteq Task
    /\ jobs \in [Task -> Caller \cup {None}]
    /\ armed \in [Task -> SUBSET Caller]
    /\ run \in [Task -> [phase : Phases, auto : BOOLEAN, cancel : BOOLEAN,
                         ws : Workspace \cup {None}, task : TaskRecord]]
    /\ tails \in [Task -> Seq(Caller)]
    /\ blocked \subseteq Workspace
    /\ {started, globallyEnabled, setting} \subseteq BOOLEAN
    /\ op \in [Caller -> [kind : Kinds, task : Task \cup {None},
                          ws : Workspace \cup {None}, aborted : BOOLEAN,
                          pc : Points, cur : TaskRecord, next : TaskRecord,
                          todo : SUBSET Task, waits : SUBSET Task]]
    /\ refused \in BOOLEAN

Init ==
    /\ store \in Stored
    /\ moved = {}
    /\ jobs = [t \in Task |-> None]
    /\ armed = [t \in Task |-> {}]
    /\ run = [t \in Task |-> NoRun]
    /\ tails = [t \in Task |-> <<>>]
    /\ blocked = {}
    /\ started = FALSE
    /\ globallyEnabled = TRUE
    /\ setting \in BOOLEAN
    /\ op = [c \in Caller |-> Idle]
    /\ refused = FALSE

----------------------------------------------------------------------------
(* Helpers *)

Present(record) == record.st = "present"
Enabled(record) == Present(record) /\ record.enabled
Running == {t \in Task : run[t].phase # "none"}
InFlight(c) == op[c].pc \notin {"idle", "done"}
Holds(c) == tails[op[c].task] # <<>> /\ Head(tails[op[c].task]) = c

\* schedule()'s guard
Eligible(record) ==
    /\ started /\ globallyEnabled /\ Enabled(record)
    /\ record.ws \notin blocked

StopJobs(ts) ==
    /\ armed' = [t \in Task |-> IF t \in ts THEN armed[t] \ {jobs[t]}
                                            ELSE armed[t]]
    /\ jobs' = [t \in Task |-> IF t \in ts THEN None ELSE jobs[t]]

\* cancelRequested and execution.cancel on the runs of ts
Cancelled(ts) == [t \in Task |-> IF t \in ts \cap Running
                                   THEN [run[t] EXCEPT !.cancel = TRUE]
                                   ELSE run[t]]

\* dispatch() up to its first await
Dispatched(t, auto) == [run EXCEPT ![t] =
    [NoRun EXCEPT !.phase = "get", !.auto = auto, !.task = store[t]]]

\* The revision of t moves while a save of t is about to be undone.
Moved(t) == moved \cup
    {u \in {t} : \E c \in Caller : op[c].task = u /\ op[c].pc = "rollback"}

\* A write of the store throws.
WriteFails == Faulty /\ ~refused /\ refused' = TRUE

\* As if the lock were not released in a `finally`.
Mutant_Release(c) == UNCHANGED tails

Release(c) == tails' =
    IF op[c].task \in Task /\ Holds(c)
    THEN [tails EXCEPT ![op[c].task] = Tail(@)] ELSE tails

At(c, pc) == op' = [op EXCEPT ![c].pc = pc]
Done(c) == op' = [op EXCEPT ![c] = [Idle EXCEPT !.pc = "done"]]
Finish(c) == Done(c) /\ Release(c)

\* start()'s catch: it throws, and every job is stopped.
GiveUp(c) ==
    /\ op' = [op EXCEPT ![c] = [Idle EXCEPT !.pc = "done", !.aborted = TRUE]]
    /\ Release(c)
    /\ started' = FALSE
    /\ jobs' = [t \in Task |-> None]
    /\ armed' = [t \in Task |-> armed[t] \ {jobs[t]}]

\* What follows schedule() in the microtasks after it, given the jobs it leaves:
\* an aborted call undoes itself, a loop releases the lock and goes on.  start()
\* dispatches a missed run at once; dispatch() throws if the task is running.
Scheduled(c, pc, newJobs, newArmed) ==
    LET t == op[c].task
        undone == pc = "arm" /\ op[c].aborted
        keeps == jobs' = newJobs /\ armed' = newArmed /\ UNCHANGED started IN
    \/ /\ op[c].kind \notin LoopKinds /\ ~undone
       /\ keeps /\ Finish(c) /\ UNCHANGED run
    \/ /\ op[c].kind \notin LoopKinds /\ undone
       /\ jobs' = [newJobs EXCEPT ![t] = None]
       /\ armed' = [newArmed EXCEPT ![t] = @ \ {newJobs[t]}]
       /\ At(c, IF op[c].kind = "resume" THEN "restore" ELSE "rollback")
       /\ UNCHANGED <<tails, run, started>>
    \/ /\ op[c].kind \in LoopKinds
       /\ keeps /\ At(c, "loop") /\ Release(c)
       /\ \/ UNCHANGED run
          \/ op[c].kind = "start" /\ t \notin Running /\ run' = Dispatched(t, TRUE)
    \/ /\ op[c].kind = "start" /\ t \in Running
       /\ GiveUp(c) /\ UNCHANGED run

\* schedule(task) up to its write: the job is created paused.
Schedule(c, record, pc) ==
    LET t == op[c].task
        stopped == [armed EXCEPT ![t] = @ \ {jobs[t]}] IN
    IF Eligible(record)
    THEN /\ jobs' = [jobs EXCEPT ![t] = c]
         /\ armed' = stopped
         /\ At(c, pc)
         /\ UNCHANGED <<tails, run, started>>
    ELSE Scheduled(c, pc, [jobs EXCEPT ![t] = None], stopped)

\* As if a refused edit did not put the job back.
Mutant_RescheduleCurrent(c) ==
    Finish(c) /\ UNCHANGED <<jobs, armed, run, started>>

\* rescheduleCurrent
RescheduleCurrent(c) ==
    IF op[c].kind = "save" /\ Present(store[op[c].task])
    THEN Schedule(c, store[op[c].task], "rearm")
    ELSE Finish(c) /\ UNCHANGED <<jobs, armed, run, started>>

----------------------------------------------------------------------------
(* Calls *)

Service == <<started, globallyEnabled, setting, blocked>>
Schedules == <<jobs, armed>>
Store == <<store, moved, refused>>

\* Calls are interchangeable and used once, so they are used in one order.
NextCall(c) == /\ op[c].pc = "idle" /\ c # Boot
               /\ c = CHOOSE d \in Call : op[d].pc = "idle"

\* withTaskLifecycle(id, perform): save with an id, pause, resume, remove.
CallTask(c, kind, t, next) ==
    /\ NextCall(c)
    /\ store[t].st # "absent"
    /\ op' = [op EXCEPT ![c] = [Idle EXCEPT !.kind = kind, !.task = t,
                                !.next = next, !.pc = "lock"]]
    /\ tails' = [tails EXCEPT ![t] = Append(@, c)]
    /\ UNCHANGED <<Store, Schedules, Service, run>>

\* save() without an id takes no lock.
Create(c, t, next) ==
    /\ NextCall(c)
    /\ store[t].st = "absent" /\ \A d \in Call : op[d].task # t
    /\ op' = [op EXCEPT ![c] = [Idle EXCEPT !.kind = "create", !.task = t,
                                !.next = next, !.pc = "commit"]]
    /\ UNCHANGED <<Store, Schedules, Service, run, tails>>

RunNow(c, t) ==
    /\ NextCall(c)
    /\ store[t].st # "absent"
    /\ op' = [op EXCEPT ![c] = [Idle EXCEPT !.kind = "runNow", !.task = t,
              !.pc = IF t \in Running THEN "done" ELSE "settle",
              !.waits = {t}]]
    /\ run' = IF t \in Running THEN run ELSE Dispatched(t, FALSE)
    /\ UNCHANGED <<Store, Schedules, Service, tails>>

\* setGlobalEnabled(enabled), called once the setting is saved.
SetGlobalEnabled(c, enabled) ==
    /\ NextCall(c)
    /\ enabled # setting
    /\ setting' = enabled
    /\ globallyEnabled' = enabled
    /\ StopJobs(Task)
    /\ IF enabled
       THEN /\ op' = [op EXCEPT ![c] = [Idle EXCEPT !.kind = "enable",
                !.pc = IF started THEN "loop" ELSE "done",
                !.todo = {t \in Task : Enabled(store[t])}]]
            /\ UNCHANGED run
       ELSE /\ op' = [op EXCEPT ![c] = [Idle EXCEPT !.kind = "disable",
                !.pc = "settle", !.waits = Running]]
            /\ run' = Cancelled(Task)
    /\ UNCHANGED <<Store, started, blocked, tails>>

\* workspaceMutationGate: one change of a workspace at a time.
Mutating(w) == \E c \in Call :
    InFlight(c) /\ op[c].kind \in {"cancelWorkspace", "resumeWorkspace"} /\ op[c].ws = w

CancelWorkspace(c, w) ==
    /\ NextCall(c) /\ ~Mutating(w)
    /\ blocked' = blocked \cup {w}
    /\ StopJobs({t \in Task : Present(store[t]) /\ store[t].ws = w})
    /\ op' = [op EXCEPT ![c] = [Idle EXCEPT !.kind = "cancelWorkspace",
              !.ws = w, !.pc = "ready", !.waits = Running]]
    /\ UNCHANGED <<Store, started, globallyEnabled, setting, run, tails>>

ResumeWorkspace(c, w) ==
    /\ NextCall(c) /\ ~Mutating(w)
    /\ w \in blocked
    /\ blocked' = blocked \ {w}
    /\ op' = [op EXCEPT ![c] = [Idle EXCEPT !.kind = "resumeWorkspace",
              !.ws = w,
              !.pc = IF started /\ globallyEnabled THEN "loop" ELSE "done",
              !.todo = {t \in Task : Enabled(store[t]) /\ store[t].ws = w}]]
    /\ UNCHANGED <<Store, Schedules, started, globallyEnabled, setting, run, tails>>

\* stop() and stopAndSettle()
Stop(c) ==
    /\ NextCall(c)
    /\ started' = FALSE
    /\ StopJobs(Task)
    /\ run' = Cancelled(Task)
    /\ op' = [op EXCEPT ![c] = [Idle EXCEPT !.kind = "stop", !.pc = "settle",
                                !.waits = Running]]
    /\ UNCHANGED <<Store, globallyEnabled, setting, blocked, tails>>

\* start(): the windows exist already, so every other call may come before.
Start ==
    /\ op[Boot].pc = "idle" /\ ~started
    /\ started' = TRUE
    /\ globallyEnabled' = setting
    /\ op' = [op EXCEPT ![Boot] = [Idle EXCEPT !.kind = "start",
              !.pc = IF setting THEN "loop" ELSE "done",
              !.todo = {t \in Task : Enabled(store[t])}]]
    /\ UNCHANGED <<Store, Schedules, setting, blocked, run, tails>>

\* The caller's AbortSignal.  runNow's listener cancels the task's run.
Abort(c) ==
    /\ InFlight(c) /\ ~op[c].aborted
    /\ op[c].kind \in TaskKinds \cup {"create", "runNow"}
    /\ op' = [op EXCEPT ![c].aborted = TRUE]
    /\ run' = IF op[c].kind = "runNow" THEN Cancelled({op[c].task}) ELSE run
    /\ UNCHANGED <<Store, Schedules, Service, tails>>

----------------------------------------------------------------------------
(* The loops of start, rescheduleAll and resumeWorkspace *)

NextTask(c) ==
    /\ op[c].pc = "loop"
    /\ \/ /\ op[c].todo = {} /\ Done(c) /\ UNCHANGED tails
       \/ \E t \in op[c].todo :
             /\ op' = [op EXCEPT ![c].task = t, ![c].todo = @ \ {t},
                                 ![c].pc = "lock"]
             /\ tails' = [tails EXCEPT ![t] = Append(@, c)]
    /\ UNCHANGED <<Store, Schedules, Service, run>>

ScheduleLatest(c) ==
    /\ op[c].pc = "lock" /\ Holds(c) /\ op[c].kind \in LoopKinds
    /\ LET latest == store[op[c].task] IN
       IF Enabled(latest) /\ (op[c].kind = "resumeWorkspace" => latest.ws = op[c].ws)
       THEN Schedule(c, latest, "arm")
       ELSE At(c, "loop") /\ Release(c) /\ UNCHANGED <<Schedules, run, started>>
    /\ UNCHANGED <<Store, globallyEnabled, setting, blocked>>

\* As if the job were armed whatever happened during the write, or whichever
\* job the map holds by then.
Mutant_Resumed(c, t) == {c}
Mutant_ResumedOther(c, t) == {jobs[t]}

\* The job that schedule() resumes after its write
Resumed(c, t) ==
    IF jobs[t] = c /\ started /\ globallyEnabled THEN {c} ELSE {}

\* schedule() after its write, which throws for a task that is gone.
Arm(c) ==
    LET t == op[c].task IN
    /\ op[c].pc \in {"arm", "rearm"}
    /\ \/ /\ Present(store[t])
          /\ moved' = Moved(t)
          /\ Scheduled(c, op[c].pc, jobs, [armed EXCEPT ![t] = @ \cup Resumed(c, t)])
          /\ UNCHANGED <<store, refused>>
       \/ /\ \/ Present(store[t]) /\ WriteFails
             \/ ~Present(store[t]) /\ refused' = TRUE
          /\ \/ /\ op[c].kind = "start" /\ StopJobs({t})
                /\ At(c, "disable") /\ UNCHANGED tails
             \/ /\ op[c].kind # "start" /\ Finish(c) /\ UNCHANGED Schedules
          /\ UNCHANGED <<store, moved, run, started>>
    /\ UNCHANGED <<globallyEnabled, setting, blocked>>

\* start() disables a task it could not schedule.
Disable(c) ==
    LET t == op[c].task IN
    /\ op[c].pc = "disable"
    /\ \/ /\ Present(store[t])
          /\ store' = [store EXCEPT ![t].enabled = FALSE]
          /\ moved' = Moved(t)
          /\ At(c, "loop") /\ Release(c)
          /\ UNCHANGED <<refused, started, Schedules>>
       \/ /\ \/ Present(store[t]) /\ WriteFails
             \/ ~Present(store[t]) /\ UNCHANGED refused
          /\ GiveUp(c)
          /\ UNCHANGED <<store, moved>>
    /\ UNCHANGED <<globallyEnabled, setting, blocked, run>>

----------------------------------------------------------------------------
(* save, pause, resume and remove, under the task's lock *)

\* stopJob(id), cancelAndSettle(id)
Quiesce(c, cur) ==
    LET t == op[c].task IN
    /\ StopJobs({t})
    /\ run' = Cancelled({t})
    /\ op' = [op EXCEPT ![c].cur = cur, ![c].pc = "settle",
                        ![c].waits = {t} \cap Running]
    /\ UNCHANGED tails

Acquire(c) ==
    /\ op[c].pc = "lock" /\ Holds(c) /\ op[c].kind \in TaskKinds
    /\ \/ /\ op[c].aborted
          /\ Finish(c) /\ UNCHANGED <<Schedules, run>>
       \/ /\ ~op[c].aborted /\ op[c].kind # "resume"
          /\ Quiesce(c, store[op[c].task])
       \/ /\ ~op[c].aborted /\ op[c].kind = "resume"
          /\ op' = [op EXCEPT ![c].cur = store[op[c].task], ![c].pc = "commit"]
          /\ UNCHANGED <<Schedules, run, tails>>
    /\ UNCHANGED <<Store, Service>>

\* The cancelled runs are over.  stopAndSettle() waits five seconds at most.
Settled(c) ==
    /\ op[c].pc = "settle" /\ (op[c].waits = {} \/ op[c].kind = "stop")
    /\ \/ /\ op[c].kind \in TaskKinds /\ ~op[c].aborted
          /\ At(c, "commit") /\ UNCHANGED <<tails, Schedules, run, started>>
       \/ /\ op[c].kind = "save" /\ op[c].aborted
          /\ RescheduleCurrent(c)
       \/ /\ op[c].kind \in {"pause", "remove"} /\ op[c].aborted
          /\ IF Enabled(op[c].cur)
             THEN Schedule(c, op[c].cur, "rearm")
             ELSE Finish(c) /\ UNCHANGED <<Schedules, run, started>>
       \/ /\ op[c].kind \notin TaskKinds
          /\ Done(c) /\ UNCHANGED <<tails, Schedules, run, started>>
    /\ UNCHANGED <<Store, globallyEnabled, setting, blocked>>

\* saveWithRollback(): refused (invalid, a stale revision, aborted before
\* the file is published, a failed write), or committed.
Save(c) ==
    LET t == op[c].task IN
    /\ op[c].pc = "commit" /\ op[c].kind \in {"save", "create"}
    /\ \/ UNCHANGED store /\ RescheduleCurrent(c)
       \/ /\ op[c].kind = "save" => Present(store[t])
          /\ store' = [store EXCEPT ![t] = op[c].next]
          /\ IF op[c].aborted
             THEN At(c, "rollback") /\ UNCHANGED <<tails, Schedules, run, started>>
             ELSE Schedule(c, op[c].next, "arm")
    /\ UNCHANGED <<moved, refused, globallyEnabled, setting, blocked>>

\* restoreIfRevision(): nothing is restored over a later revision.  What was
\* there before the save is what the call read under the lock.
Rollback(c) ==
    LET t == op[c].task
        previous == IF Present(op[c].cur) THEN op[c].cur
                    ELSE [op[c].cur EXCEPT !.st = "removed"] IN
    /\ op[c].pc = "rollback"
    /\ \/ /\ WriteFails
          /\ Finish(c)
          /\ UNCHANGED <<store, Schedules, run, started>>
       \/ /\ store' = IF Present(store[t]) /\ t \notin moved
                      THEN [store EXCEPT ![t] = previous] ELSE store
          /\ IF op[c].kind = "save" /\ Present(store'[t])
             THEN Schedule(c, store'[t], "rearm")
             ELSE Finish(c) /\ UNCHANGED <<Schedules, run, started>>
          /\ refused' = (refused \/ t \in moved)
    /\ moved' = moved \ {t}
    /\ UNCHANGED <<globallyEnabled, setting, blocked>>

\* store.setEnabled(id, enabled), which throws for a task that is gone
SetEnabled(c, enabled) ==
    /\ Present(store[op[c].task])
    /\ store' = [store EXCEPT ![op[c].task].enabled = enabled]
    /\ UNCHANGED refused

WriteRefused(c) ==
    /\ \/ Present(store[op[c].task]) /\ WriteFails
       \/ ~Present(store[op[c].task]) /\ UNCHANGED refused
    /\ Finish(c)
    /\ UNCHANGED <<store, Schedules, run, started>>

Pause(c) ==
    /\ op[c].pc = "commit" /\ op[c].kind = "pause"
    /\ \/ /\ SetEnabled(c, FALSE)
          /\ IF op[c].aborted THEN At(c, "restore") /\ UNCHANGED tails
                              ELSE Finish(c)
          /\ UNCHANGED <<Schedules, run, started>>
       \/ WriteRefused(c)
    /\ UNCHANGED <<moved, globallyEnabled, setting, blocked>>

Resume(c) ==
    /\ op[c].pc = "commit" /\ op[c].kind = "resume"
    /\ \/ /\ SetEnabled(c, TRUE)
          /\ IF op[c].aborted
             THEN At(c, "restore") /\ UNCHANGED <<tails, Schedules, run, started>>
             ELSE Schedule(c, store'[op[c].task], "arm")
       \/ WriteRefused(c)
    /\ UNCHANGED <<moved, globallyEnabled, setting, blocked>>

\* An aborted pause or resume puts the previous `enabled` back.
Restore(c) ==
    /\ op[c].pc = "restore"
    /\ \/ /\ SetEnabled(c, op[c].cur.enabled)
          /\ IF op[c].cur.enabled
             THEN Schedule(c, store'[op[c].task], "rearm")
             ELSE /\ StopJobs({op[c].task}) /\ Finish(c)
                  /\ UNCHANGED <<run, started>>
       \/ WriteRefused(c)
    /\ UNCHANGED <<moved, globallyEnabled, setting, blocked>>

Remove(c) ==
    /\ op[c].pc = "commit" /\ op[c].kind = "remove"
    /\ \/ /\ Present(store[op[c].task])
          /\ store' = [store EXCEPT ![op[c].task].st = "removed"]
          /\ Finish(c)
          /\ UNCHANGED <<refused, Schedules, run, started>>
       \/ WriteRefused(c)
    /\ UNCHANGED <<moved, globallyEnabled, setting, blocked>>

\* cancelWorkspaceAndSettle() once every run it saw knows its workspace
CancelSelected(c) ==
    LET selected == {t \in op[c].waits : run[t].ws = op[c].ws} IN
    /\ op[c].pc = "ready"
    /\ \A t \in op[c].waits : run[t].phase # "get"
    /\ run' = Cancelled(selected)
    /\ op' = [op EXCEPT ![c].waits = selected, ![c].pc = "settle"]
    /\ UNCHANGED <<Store, Schedules, Service, tails>>

----------------------------------------------------------------------------
(* Runs *)

\* The promise of a run settles: it leaves runningTasks.
EndRun(t) ==
    /\ run' = [run EXCEPT ![t] = NoRun]
    /\ op' = [c \in Caller |-> [op[c] EXCEPT !.waits = @ \ {t}]]

\* A job that runs does not start again; another job of the task finds it
\* running, and only records the failure.
CronFires(t) ==
    /\ armed[t] # {} /\ t \notin Running
    /\ run' = Dispatched(t, TRUE)
    /\ UNCHANGED <<Store, Schedules, Service, op, tails>>

\* As if a run that was cancelled before it executes went on.
Mutant_CancelRequested(t) == FALSE

\* state.cancelRequested, before execution.run() makes a controller of its own
CancelRequested(t) == run[t].cancel

\* As if a blocked workspace were not checked again after the read.
Mutant_Rejected(t) ==
    \/ ~Present(run[t].task)
    \/ run[t].auto /\ ~(started /\ globallyEnabled /\ run[t].task.enabled)
    \/ ~run[t].auto /\ CancelRequested(t)

\* dispatch()'s checks on the task it read
Rejected(t) ==
    \/ ~Present(run[t].task) \/ run[t].task.ws \in blocked
    \/ run[t].auto /\ ~(started /\ globallyEnabled /\ run[t].task.enabled)
    \/ ~run[t].auto /\ CancelRequested(t)

RunGot(t) ==
    /\ run[t].phase = "get"
    /\ \/ Rejected(t) /\ EndRun(t)
       \/ /\ ~Rejected(t)
          /\ run' = [run EXCEPT ![t].ws = run[t].task.ws,
                       ![t].phase = IF run[t].auto THEN "claim" ELSE "exec"]
          /\ UNCHANGED op
    /\ UNCHANGED <<Store, Schedules, Service, tails>>

\* advanceBeforeRun()
RunClaim(t) ==
    /\ run[t].phase = "claim"
    /\ \/ /\ Present(store[t])
          /\ moved' = Moved(t)
          /\ IF CancelRequested(t) THEN EndRun(t)
             ELSE /\ run' = [run EXCEPT ![t].phase = "exec", ![t].cancel = FALSE,
                                       ![t].task = store[t]]
                  /\ UNCHANGED op
          /\ UNCHANGED refused
       \/ /\ \/ Present(store[t]) /\ WriteFails
             \/ ~Present(store[t]) /\ UNCHANGED refused
          /\ EndRun(t)
          /\ UNCHANGED moved
    /\ UNCHANGED <<store, Schedules, Service, tails>>

\* The script or the generation ends, by itself or cancelled.
RunFinishes(t) ==
    /\ run[t].phase = "exec"
    /\ run' = [run EXCEPT ![t].phase = "record"]
    /\ UNCHANGED <<Store, Schedules, Service, op, tails>>

\* recordRun(), whatever its result
RunRecorded(t) ==
    /\ run[t].phase = "record"
    /\ moved' = IF Present(store[t]) THEN Moved(t) ELSE moved
    /\ EndRun(t)
    /\ UNCHANGED <<store, refused, Schedules, Service, tails>>

----------------------------------------------------------------------------
CallBegins(c) ==
    \/ \E t \in Task :
          \/ \E kind \in {"pause", "resume", "remove"} :
                CallTask(c, kind, t, NoRun.task)
          \/ \E e \in BOOLEAN, w \in Workspace \cup {None} :
                LET next == [st |-> "present", enabled |-> e, ws |-> w] IN
                CallTask(c, "save", t, next) \/ Create(c, t, next)
          \/ RunNow(c, t)
    \/ \E e \in BOOLEAN : SetGlobalEnabled(c, e)
    \/ \E w \in Workspace : CancelWorkspace(c, w) \/ ResumeWorkspace(c, w)
    \/ Stop(c)

CallStep(c) ==
    \/ NextTask(c) \/ ScheduleLatest(c) \/ Arm(c) \/ Disable(c)
    \/ Acquire(c) \/ Settled(c) \/ CancelSelected(c)
    \/ Save(c) \/ Rollback(c) \/ Pause(c) \/ Resume(c) \/ Restore(c) \/ Remove(c)

RunStep(t) == RunGot(t) \/ RunClaim(t) \/ RunRecorded(t)

Next ==
    \/ Start
    \/ \E c \in Call : CallBegins(c) \/ Abort(c)
    \/ \E c \in Caller : CallStep(c)
    \/ \E t \in Task : CronFires(t) \/ RunStep(t) \/ RunFinishes(t)

Spec == Init /\ [][Next]_vars

\* Writes complete and locks are granted; a cancelled run comes to its end
\* (its script is killed, its stream is aborted), any other may take forever.
Fairness ==
    /\ WF_vars(\E c \in Caller : CallStep(c))
    /\ \A t \in Task : WF_vars(RunStep(t) \/ (run[t].cancel /\ RunFinishes(t)))

FairSpec == Spec /\ Fairness

----------------------------------------------------------------------------
(* Properties *)

Armed(t) == armed[t] # {}

\* Nothing is scheduled that cannot be stopped: a cron job that may fire is the
\* one the jobs map holds for its task (stopJob() knows no other), although
\* schedule() arms it after a write during which it may have been replaced; and
\* with the service stopped or switched off there is none at all.
ArmedIsCurrent ==
    /\ \A t \in Task : armed[t] \subseteq {jobs[t]}
    /\ ~(started /\ globallyEnabled) => \A t \in Task : ~Armed(t)

\* When no call is under way, exactly the tasks that should be are armed: what
\* saves, pauses, resumes, removals, aborts with their rollbacks, the switch and
\* the workspaces leave behind is the schedule of the store, in any order they
\* came.  (A write that is refused may leave tasks without their jobs.)
ScheduleAgrees ==
    (~refused /\ \A c \in Caller : InFlight(c) => op[c].kind = "runNow") =>
        \A t \in Task : Armed(t) <=> Eligible(store[t])

\* Once cancelWorkspace() has returned, and until resumeWorkspace() is called,
\* nothing runs in the workspace and nothing is armed for it: no run that read
\* its task before the workspace was blocked starts afterwards.
RevokedWorkspaceIsIdle ==
    \A w \in blocked : ~Mutating(w) =>
        \A t \in Task :
            /\ run[t].phase \in {"exec", "record"} => run[t].task.ws # w
            /\ Armed(t) => store[t].ws # w

Undone == [NoRun.task EXCEPT !.st = "removed"]
StartGaveUp == op[Boot].aborted

\* An automatic run executes only while its task is wanted: each call that makes
\* it unwanted (pause, edit, remove, the switch, stop, a revoked workspace) has
\* cancelled it by the time the change is visible, also when the run was between
\* its checks and its execution.
AutomaticRunIsWanted ==
    \A t \in Task : run[t].phase = "exec" /\ run[t].auto /\ ~run[t].cancel =>
        /\ (started \/ StartGaveUp) /\ globallyEnabled
        /\ Enabled(store[t]) \/ refused \/ store[t] = Undone
        /\ run[t].task.ws \in blocked => Mutating(run[t].task.ws)

\* Every call returns, except runNow(), which waits for its run: calls that wait
\* for runs have cancelled them, and no call waits for a lock for ever.
CallsReturn ==
    <>[](\A c \in Caller : InFlight(c) => op[c].kind = "runNow")

\* start() leaves the service started: a missed run of a task that is running
\* already is refused, and the others are scheduled
\* (docs/plans/completed/scheduled-tasks-plan.md:131-132).
StartSurvives == ~refused => ~StartGaveUp
==============================================================================
