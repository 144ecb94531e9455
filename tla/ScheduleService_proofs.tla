----------------------- MODULE ScheduleService_proofs -----------------------
(***************************************************************************)
(* Proofs about ScheduleService, for any tasks, workspaces and calls: its  *)
(* types, and IInv, from which the safety properties of jobs, revoked      *)
(* workspaces and automatic runs follow.  IInv has a part for the calls    *)
(* and the locks, one for the jobs, and one for the runs.  DebtInv, on top *)
(* of it, says who still owes a task its place in the schedule; from it    *)
(* follows that schedule and store agree.                                  *)
(***************************************************************************)
EXTENDS ScheduleService, SequenceTheorems, TLAPS

----------------------------------------------------------------------------
(* Calls and locks.                                                        *)

\* Where a call of each kind can be.
Positioned(c) ==
    /\ op[c].kind = "save" =>
          op[c].pc \in {"lock", "settle", "commit", "rollback", "arm", "rearm"}
    /\ op[c].kind = "pause" =>
          op[c].pc \in {"lock", "settle", "commit", "restore", "rearm"}
    /\ op[c].kind = "remove" => op[c].pc \in {"lock", "settle", "commit", "rearm"}
    /\ op[c].kind = "resume" =>
          op[c].pc \in {"lock", "commit", "restore", "arm", "rearm"}
    /\ op[c].kind = "create" => op[c].pc \in {"commit", "rollback", "arm"}
    /\ op[c].kind \in {"enable", "resumeWorkspace"} =>
          op[c].pc \in {"loop", "lock", "arm", "done"}
    /\ op[c].kind = "start" =>
          op[c].pc \in {"loop", "lock", "arm", "disable", "done"}
    /\ op[c].kind = "cancelWorkspace" => op[c].pc \in {"ready", "settle"}
    /\ op[c].kind \in {"runNow", "disable"} => op[c].pc \in {"settle", "done"}
    /\ op[c].kind = "stop" => op[c].pc \in {"idle", "settle", "done"}

\* Points of a call that is about its task.
AtTask == {"lock", "commit", "restore", "rollback", "arm", "rearm", "disable"}

\* A call is at a point of its kind, with a task where it needs one.
CallInv ==
    \A c \in Caller :
        /\ Positioned(c)
        /\ op[c].pc \in AtTask \/ op[c].kind \in TaskKinds => op[c].task \in Task
        /\ op[c].kind = "start" => c = Boot
        /\ c = Boot => \/ op[c].kind = "start" /\ ~op[c].aborted
                       \/ op[c].kind = "stop" /\ op[c].pc \in {"idle", "done"}
        /\ op[c].pc = "idle" => op[c] = Idle
        /\ op[c].kind = "create" => op[c].cur = NoRun.task
        /\ op[c].pc = "disable" => refused
        /\ op[c].kind \in {"save", "create"} => Present(op[c].next)

\* A call past its lock holds it.
Locked(c) ==
    op[c].kind \in TaskKinds \cup LoopKinds
        /\ op[c].pc \notin {"idle", "loop", "lock", "done"}
LockInv == \A c \in Caller : Locked(c) => Holds(c)

\* A task that was never there has no job and no run, and no call but the one
\* that creates it.
AbsentInv ==
    /\ \A t \in Task : store[t].st = "absent" =>
          /\ jobs[t] = None /\ run[t].phase = "none"
          /\ \A c \in Caller : /\ t \notin op[c].todo
                               /\ op[c].task = t => op[c].kind = "create"
    /\ \A c, d \in Caller :
          op[c].kind = "create" /\ op[c].pc = "commit" =>
              /\ store[op[c].task].st = "absent"
              /\ op[d].task = op[c].task => d = c
    /\ \A c \in Caller :
          op[c].kind = "create" /\ op[c].pc \in {"arm", "rollback"} =>
              store[op[c].task].st # "absent"

\* Only the rollback of a creation changes a task that a call settles.
FreshInv ==
    \A c \in Caller :
        op[c].kind \in TaskKinds /\ op[c].pc \in {"settle", "commit"} =>
            store[op[c].task] \in {op[c].cur, Undone}

----------------------------------------------------------------------------
(* Jobs.                                                                   *)

\* A job is of a task that is wanted, in a workspace that is not blocked.
JobInv ==
    \A t \in Task : jobs[t] # None =>
        /\ store[t].ws \notin blocked
        /\ Present(store[t]) \/ store[t] = Undone
        /\ Enabled(store[t]) \/ refused \/ store[t] = Undone

----------------------------------------------------------------------------
(* Runs.                                                                   *)

\* An automatic run that nobody cancelled and that will execute.
Wanted(t) ==
    /\ run[t].auto /\ ~run[t].cancel
    /\ \/ run[t].phase = "get" /\ Enabled(run[t].task)
       \/ run[t].phase \in {"claim", "exec"}

\* A call that took its task out of the schedule, and has not put it back.
Undoing(c) ==
    \/ /\ op[c].kind \in {"save", "pause", "remove"}
       /\ op[c].pc \in {"settle", "commit", "arm", "rollback", "restore"}
    \/ /\ op[c].kind = "resume" /\ ~op[c].cur.enabled
       /\ op[c].pc \in {"commit", "arm", "restore"}
       /\ ~refused /\ Present(store[op[c].task])

\* Until then there is no job and no automatic run of the task.
QuietInv ==
    \A c \in Caller : Undoing(c) =>
        /\ armed[op[c].task] = {} /\ ~Wanted(op[c].task)
        /\ jobs[op[c].task] \in IF op[c].pc = "arm" THEN {None, c} ELSE {None}

\* An automatic run is of the task as it is in the store.
RunInv ==
    \A t \in Task :
        /\ run[t].phase = "claim" => run[t].auto
        /\ run[t].phase \in {"claim", "exec", "record"} => run[t].ws = run[t].task.ws
        /\ Wanted(t) =>
              /\ Enabled(store[t]) \/ refused \/ store[t] = Undone
              /\ run[t].phase \in {"get", "claim"} /\ Present(store[t]) =>
                    store[t].ws = run[t].task.ws
              /\ run[t].phase \in {"claim", "exec"} =>
                    (started \/ StartGaveUp) /\ globallyEnabled

\* A run in a workspace that is blocked is one that cancelWorkspace() waits for.
WaitInv ==
    \A t \in Task :
        run[t].phase \in {"claim", "exec", "record"} /\ run[t].task.ws \in blocked =>
            \E c \in Call : /\ op[c].kind = "cancelWorkspace"
                            /\ op[c].ws = run[t].task.ws /\ t \in op[c].waits

IInv ==
    /\ TypeOK
    /\ CallInv
    /\ LockInv
    /\ AbsentInv
    /\ FreshInv
    /\ ArmedIsCurrent
    /\ JobInv
    /\ QuietInv
    /\ RunInv
    /\ WaitInv

CallRecord == [kind : Kinds, task : Task \cup {None},
               ws : Workspace \cup {None}, aborted : BOOLEAN,
               pc : Points, cur : TaskRecord, next : TaskRecord,
               todo : SUBSET Task, waits : SUBSET Task]
RunRecord == [phase : Phases, auto : BOOLEAN, cancel : BOOLEAN,
              ws : Workspace \cup {None}, task : TaskRecord]

----------------------------------------------------------------------------
(* What the helpers do, field by field.                                    *)

\* Only c moves, and only its point changes, or it is over.
Only(c) ==
    op' \in [Caller -> CallRecord] /\ \A d \in Caller : d # c => op'[d] = op[d]
Same(c) ==
    /\ op'[c].kind = op[c].kind /\ op'[c].task = op[c].task
    /\ op'[c].ws = op[c].ws /\ op'[c].aborted = op[c].aborted
    /\ op'[c].cur = op[c].cur /\ op'[c].next = op[c].next
    /\ op'[c].todo = op[c].todo /\ op'[c].waits = op[c].waits
Over(c) ==
    /\ op'[c].kind = "stop" /\ op'[c].task = None /\ op'[c].pc = "done"
    /\ op'[c].cur = NoRun.task /\ op'[c].todo = {} /\ op'[c].waits = {}

\* Nobody but the holder of a lock loses it.
Unlocks(c) ==
    /\ tails' \in [Task -> Seq(Caller)]
    /\ \A t \in Task : tails'[t] = tails[t] \/ (t = op[c].task /\ Holds(c))

\* The fields of a call that did not begin, and of a run that is over.
LEMMA IdleFields ==
    /\ Idle \in CallRecord
    /\ Idle.kind = "stop" /\ Idle.task = None /\ Idle.ws = None
    /\ Idle.aborted = FALSE /\ Idle.pc = "idle" /\ Idle.cur = NoRun.task
    /\ Idle.todo = {} /\ Idle.waits = {}
    /\ NoRun \in RunRecord
    /\ NoRun.phase = "none" /\ NoRun.auto = FALSE /\ NoRun.cancel = FALSE
    /\ NoRun.task.st = "absent" /\ NoRun.task \in TaskRecord
BY DEF Idle, NoRun, CallRecord, RunRecord, TaskRecord, Kinds, TaskKinds, LoopKinds,
       Points, Phases

\* At moves the point of a call.
LEMMA AtFields ==
    ASSUME TypeOK, NEW c \in Caller, NEW pc \in Points, At(c, pc)
    PROVE  Only(c) /\ Same(c) /\ op'[c].pc = pc
BY DEF At, TypeOK, Only, Same, CallRecord

\* A call that is done leaves nothing behind.
LEMMA DoneFields ==
    ASSUME TypeOK, NEW c \in Caller, Done(c)
    PROVE  Only(c) /\ Over(c) /\ op'[c].aborted = FALSE
<1>1. op' = [op EXCEPT ![c] = [Idle EXCEPT !.pc = "done"]]
  BY DEF Done
<1>2. Idle \in CallRecord /\ "done" \in Points
  BY IdleFields DEF Points
<1>3. [Idle EXCEPT !.pc = "done"] \in CallRecord
  BY <1>2 DEF CallRecord
<1>4. /\ op'[c] = [Idle EXCEPT !.pc = "done"]
      /\ Only(c)
  BY <1>1, <1>3 DEF TypeOK, Only, CallRecord
<1>5. QED
  BY <1>2, <1>4, IdleFields DEF Over, CallRecord

\* withTaskLifecycle releases its lock in a `finally`.
LEMMA ReleaseFields ==
    ASSUME TypeOK, NEW c \in Caller, Release(c)
    PROVE  Unlocks(c)
<1>1. CASE op[c].task \in Task /\ Holds(c)
  <2> DEFINE t == op[c].task
  <2>1. tails[t] \in Seq(Caller) /\ tails[t] # <<>>
    BY <1>1 DEF TypeOK, Holds
  <2>2. Tail(tails[t]) \in Seq(Caller)
    BY <2>1, HeadTailProperties
  <2>3. tails' = [tails EXCEPT ![t] = Tail(tails[t])]
    BY <1>1 DEF Release
  <2>4. QED
    BY <1>1, <2>2, <2>3 DEF TypeOK, Unlocks
<1>2. CASE ~(op[c].task \in Task /\ Holds(c))
  BY <1>2 DEF Release, TypeOK, Unlocks
<1>3. QED
  BY <1>1, <1>2

\* stopJob clears the map and stops the job it held.
LEMMA StopFields ==
    ASSUME TypeOK, ArmedIsCurrent, NEW ts, StopJobs(ts)
    PROVE  /\ jobs' \in [Task -> Caller \cup {None}]
           /\ armed' \in [Task -> SUBSET Caller]
           /\ \A t \in Task :
                 /\ jobs'[t] = IF t \in ts THEN None ELSE jobs[t]
                 /\ armed'[t] = IF t \in ts THEN {} ELSE armed[t]
BY DEF StopJobs, TypeOK, ArmedIsCurrent

\* Cancelling runs only sets their flag.
LEMMA CancelFields ==
    ASSUME TypeOK, NEW ts
    PROVE  /\ Cancelled(ts) \in [Task -> RunRecord]
           /\ \A t \in Task :
                 LET old == run[t]
                     new == Cancelled(ts)[t]
                 IN  /\ new.phase = old.phase /\ new.auto = old.auto
                     /\ new.ws = old.ws /\ new.task = old.task
                     /\ old.cancel => new.cancel
                     /\ t \in ts /\ old.phase # "none" => new.cancel
<1>1. \A t \in Task : run[t] \in RunRecord
  BY DEF TypeOK, RunRecord
<1>2. \A t \in Task :
         Cancelled(ts)[t] = IF t \in ts /\ run[t].phase # "none"
                            THEN [run[t] EXCEPT !.cancel = TRUE] ELSE run[t]
  BY DEF Cancelled, Running
<1>3. ASSUME NEW record \in RunRecord
      PROVE  LET new == [record EXCEPT !.cancel = TRUE]
             IN  /\ new \in RunRecord
                 /\ new.phase = record.phase /\ new.auto = record.auto
                 /\ new.ws = record.ws /\ new.task = record.task /\ new.cancel
  BY DEF RunRecord
<1>4. Cancelled(ts) = [t \in Task |-> Cancelled(ts)[t]]
  BY DEF Cancelled
<1>5. \A t \in Task : Cancelled(ts)[t] \in RunRecord
  BY <1>1, <1>2, <1>3
<1>6. Cancelled(ts) \in [Task -> RunRecord]
  BY <1>4, <1>5
<1>7. QED
  BY <1>1, <1>2, <1>3, <1>6

\* dispatch() begins a run of the task as it is in the store.
LEMMA DispatchFields ==
    ASSUME TypeOK, NEW t \in Task, NEW auto \in BOOLEAN
    PROVE  /\ Dispatched(t, auto) \in [Task -> RunRecord]
           /\ \A u \in Task : u # t => Dispatched(t, auto)[u] = run[u]
           /\ Dispatched(t, auto)[t].phase = "get"
           /\ Dispatched(t, auto)[t].auto = auto
           /\ Dispatched(t, auto)[t].task = store[t]
<1> DEFINE begun == [NoRun EXCEPT !.phase = "get", !.auto = auto, !.task = store[t]]
<1>1. store[t] \in TaskRecord /\ "get" \in Phases
  BY DEF TypeOK, Phases
<1>2. /\ begun \in RunRecord /\ begun.phase = "get" /\ begun.auto = auto
      /\ begun.task = store[t]
  BY <1>1, IdleFields DEF RunRecord
<1> HIDE DEF begun
<1>3. /\ [run EXCEPT ![t] = begun] \in [Task -> RunRecord]
      /\ [run EXCEPT ![t] = begun][t] = begun
      /\ \A u \in Task : u # t => [run EXCEPT ![t] = begun][u] = run[u]
  BY <1>2 DEF TypeOK, RunRecord
<1>4. QED
  BY <1>2, <1>3 DEF Dispatched, begun

\* A run that ends is forgotten, also by the calls that wait for it.
LEMMA EndFields ==
    ASSUME TypeOK, NEW t \in Task, EndRun(t)
    PROVE  /\ run' \in [Task -> RunRecord] /\ run'[t].phase = "none"
           /\ ~run'[t].auto
           /\ \A u \in Task : u # t => run'[u] = run[u]
           /\ op' \in [Caller -> CallRecord]
           /\ \A c \in Caller :
                 /\ op'[c] = [op[c] EXCEPT !.waits = op[c].waits \ {t}]
                 /\ op'[c].kind = op[c].kind /\ op'[c].task = op[c].task
                 /\ op'[c].ws = op[c].ws /\ op'[c].aborted = op[c].aborted
                 /\ op'[c].cur = op[c].cur /\ op'[c].pc = op[c].pc
                 /\ op'[c].next = op[c].next
                 /\ op'[c].todo = op[c].todo
                 /\ op'[c].waits = op[c].waits \ {t}
<1>1. run' \in [Task -> RunRecord] /\ run'[t] = NoRun
      /\ \A u \in Task : u # t => run'[u] = run[u]
  BY IdleFields DEF EndRun, TypeOK, RunRecord
<1>2. \A c \in Caller : op[c] \in CallRecord
  BY DEF TypeOK, CallRecord
<1>3. /\ op' = [c \in Caller |-> [op[c] EXCEPT !.waits = op[c].waits \ {t}]]
      /\ \A c \in Caller : [op[c] EXCEPT !.waits = op[c].waits \ {t}] \in CallRecord
  BY <1>2 DEF EndRun, CallRecord
<1>4. QED
  BY <1>1, <1>2, <1>3, IdleFields DEF CallRecord

\* start() that gives up has stopped every job.
LEMMA GiveUpFields ==
    ASSUME TypeOK, ArmedIsCurrent, NEW c \in Caller, GiveUp(c)
    PROVE  /\ Only(c) /\ Over(c) /\ op'[c].aborted = TRUE /\ Unlocks(c)
           /\ started' = FALSE
           /\ jobs' \in [Task -> Caller \cup {None}]
           /\ armed' \in [Task -> SUBSET Caller]
           /\ \A t \in Task : jobs'[t] = None /\ armed'[t] = {}
<1> DEFINE gone == [Idle EXCEPT !.pc = "done", !.aborted = TRUE]
<1>1. gone \in CallRecord
  BY IdleFields DEF CallRecord, Points
<1>2. /\ gone.pc = "done" /\ gone.aborted = TRUE /\ gone.kind = "stop"
      /\ gone.task = None /\ gone.todo = {} /\ gone.waits = {}
      /\ gone.cur = NoRun.task
  BY IdleFields DEF CallRecord
<1>3. op' = [op EXCEPT ![c] = gone]
  BY DEF GiveUp
<1> HIDE DEF gone
<1>4. Only(c) /\ op'[c] = gone
  BY <1>1, <1>3 DEF TypeOK, Only, CallRecord
<1>5. Over(c) /\ op'[c].aborted = TRUE
  BY <1>2, <1>4 DEF Over
<1>6. Unlocks(c)
  BY ReleaseFields DEF GiveUp
<1>7. /\ started' = FALSE
      /\ jobs' = [t \in Task |-> None]
      /\ armed' = [t \in Task |-> armed[t] \ {jobs[t]}]
  BY DEF GiveUp
<1>8. \A t \in Task : armed[t] \subseteq {jobs[t]} /\ armed[t] \subseteq Caller
  BY DEF TypeOK, ArmedIsCurrent
<1>9. QED
  BY <1>4, <1>5, <1>6, <1>7, <1>8

\* Where a call goes after schedule().
Continues(c, pc) ==
    \/ /\ op[c].kind \notin LoopKinds
       /\ Over(c) /\ op'[c].aborted = FALSE /\ Unlocks(c)
       /\ run' = run /\ started' = started
    \/ /\ op[c].kind \notin LoopKinds /\ pc = "arm" /\ op[c].aborted
       /\ Same(c)
       /\ op'[c].pc = IF op[c].kind = "resume" THEN "restore" ELSE "rollback"
       /\ jobs'[op[c].task] = None
       /\ tails' = tails /\ run' = run /\ started' = started
    \/ /\ op[c].kind \in LoopKinds
       /\ Same(c) /\ op'[c].pc = "loop" /\ Unlocks(c) /\ started' = started
       /\ \/ run' = run
          \/ /\ op[c].kind = "start" /\ run[op[c].task].phase = "none"
             /\ run' = Dispatched(op[c].task, TRUE)
    \/ /\ op[c].kind = "start"
       /\ Over(c) /\ op'[c].aborted = TRUE /\ Unlocks(c)
       /\ started' = FALSE /\ run' = run
       /\ \A t \in Task : jobs'[t] = None /\ armed'[t] = {}

\* What follows schedule() keeps the jobs it is given, or stops them.
LEMMA ScheduledFields ==
    ASSUME TypeOK, ArmedIsCurrent, NEW c \in Caller, op[c].task \in Task,
           NEW pc \in {"arm", "rearm"},
           NEW newJobs \in [Task -> Caller \cup {None}],
           NEW newArmed \in [Task -> SUBSET Caller],
           \A t \in Task : newArmed[t] \subseteq {newJobs[t]},
           Scheduled(c, pc, newJobs, newArmed)
    PROVE  /\ Only(c) /\ Continues(c, pc)
           /\ jobs' \in [Task -> Caller \cup {None}]
           /\ armed' \in [Task -> SUBSET Caller]
           /\ \A t \in Task : /\ jobs'[t] \in {newJobs[t], None}
                              /\ armed'[t] \subseteq newArmed[t]
                              /\ armed'[t] \subseteq {jobs'[t]}
<1> DEFINE t == op[c].task
<1>1. CASE /\ op[c].kind \notin LoopKinds /\ ~(pc = "arm" /\ op[c].aborted)
           /\ jobs' = newJobs /\ armed' = newArmed /\ UNCHANGED started
           /\ Finish(c) /\ UNCHANGED run
  <2>1. /\ Only(c) /\ Over(c) /\ op'[c].aborted = FALSE /\ Unlocks(c)
    BY <1>1, DoneFields, ReleaseFields DEF Finish
  <2>2. Continues(c, pc)
    BY <1>1, <2>1 DEF Continues
  <2>3. QED
    BY <1>1, <2>1, <2>2
<1>2. CASE /\ op[c].kind \notin LoopKinds /\ pc = "arm" /\ op[c].aborted
           /\ jobs' = [newJobs EXCEPT ![t] = None]
           /\ armed' = [newArmed EXCEPT ![t] = @ \ {newJobs[t]}]
           /\ At(c, IF op[c].kind = "resume" THEN "restore" ELSE "rollback")
           /\ UNCHANGED <<tails, run, started>>
  <2>1. (IF op[c].kind = "resume" THEN "restore" ELSE "rollback") \in Points
    BY DEF Points
  <2>2. /\ Only(c) /\ Same(c)
        /\ op'[c].pc = IF op[c].kind = "resume" THEN "restore" ELSE "rollback"
    BY <1>2, <2>1, AtFields
  <2>3. /\ jobs' \in [Task -> Caller \cup {None}]
        /\ armed' \in [Task -> SUBSET Caller]
        /\ jobs'[t] = None /\ armed'[t] = {}
        /\ \A u \in Task : u # t => jobs'[u] = newJobs[u] /\ armed'[u] = newArmed[u]
    BY <1>2
  <2>4. Continues(c, pc)
    BY <1>2, <2>2, <2>3 DEF Continues
  <2>5. QED
    BY <1>2, <2>2, <2>3, <2>4
<1>3. CASE /\ op[c].kind \in LoopKinds
           /\ jobs' = newJobs /\ armed' = newArmed /\ UNCHANGED started
           /\ At(c, "loop") /\ Release(c)
           /\ \/ UNCHANGED run
              \/ /\ op[c].kind = "start" /\ t \notin Running
                 /\ run' = Dispatched(t, TRUE)
  <2>1. /\ Only(c) /\ Same(c) /\ op'[c].pc = "loop" /\ Unlocks(c)
    BY <1>3, AtFields, ReleaseFields DEF Points
  <2>2. t \notin Running => run[t].phase = "none"
    BY DEF Running
  <2>3. Continues(c, pc)
    BY <1>3, <2>1, <2>2 DEF Continues
  <2>4. QED
    BY <1>3, <2>1, <2>3
<1>4. CASE op[c].kind = "start" /\ GiveUp(c) /\ UNCHANGED run
  <2>1. /\ Only(c) /\ Over(c) /\ op'[c].aborted = TRUE /\ Unlocks(c)
        /\ started' = FALSE
        /\ jobs' \in [Task -> Caller \cup {None}]
        /\ armed' \in [Task -> SUBSET Caller]
        /\ \A u \in Task : jobs'[u] = None /\ armed'[u] = {}
    BY <1>4, GiveUpFields
  <2>2. Continues(c, pc)
    BY <1>4, <2>1 DEF Continues
  <2>3. QED
    BY <2>1, <2>2
<1>5. QED
  BY <1>1, <1>2, <1>3, <1>4 DEF Scheduled

\* schedule() makes a paused job of an eligible task, and no job of another.
LEMMA ScheduleFields ==
    ASSUME TypeOK, ArmedIsCurrent, NEW c \in Caller, op[c].task \in Task,
           NEW record, NEW pc \in {"arm", "rearm"}, Schedule(c, record, pc)
    PROVE  /\ Only(c)
           /\ jobs' \in [Task -> Caller \cup {None}]
           /\ armed' \in [Task -> SUBSET Caller]
           /\ armed'[op[c].task] = {}
           /\ \A t \in Task : /\ jobs'[t] \in {jobs[t], None} \/ t = op[c].task
                              /\ armed'[t] \subseteq armed[t]
                              /\ armed'[t] \subseteq {jobs'[t]}
           /\ \/ /\ Eligible(record) /\ jobs'[op[c].task] = c
                 /\ Same(c) /\ op'[c].pc = pc
                 /\ tails' = tails /\ run' = run /\ started' = started
              \/ jobs'[op[c].task] = None /\ Continues(c, pc)
<1> DEFINE t == op[c].task
           stopped == [armed EXCEPT ![t] = @ \ {jobs[t]}]
<1>1. /\ stopped \in [Task -> SUBSET Caller] /\ stopped[t] = {}
      /\ \A u \in Task : u # t => stopped[u] = armed[u]
  BY DEF TypeOK, ArmedIsCurrent
<1>2. CASE Eligible(record)
  <2>1. /\ jobs' = [jobs EXCEPT ![t] = c] /\ armed' = stopped
        /\ At(c, pc) /\ UNCHANGED <<tails, run, started>>
    BY <1>2 DEF Schedule
  <2>2. Only(c) /\ Same(c) /\ op'[c].pc = pc
    BY <2>1, AtFields DEF Points
  <2>3. QED
    BY <1>1, <1>2, <2>1, <2>2 DEF TypeOK, ArmedIsCurrent
<1>3. CASE ~Eligible(record)
  <2> DEFINE left == [jobs EXCEPT ![t] = None]
  <2>1. Scheduled(c, pc, left, stopped)
    BY <1>3 DEF Schedule
  <2>2. left \in [Task -> Caller \cup {None}] /\ left[t] = None
        /\ \A u \in Task : u # t => left[u] = jobs[u]
    BY DEF TypeOK
  <2>3. \A u \in Task : stopped[u] \subseteq {left[u]}
    BY <1>1, <2>2 DEF ArmedIsCurrent
  <2> HIDE DEF left, stopped
  <2>4. /\ Only(c) /\ Continues(c, pc)
        /\ jobs' \in [Task -> Caller \cup {None}]
        /\ armed' \in [Task -> SUBSET Caller]
        /\ \A u \in Task : /\ jobs'[u] \in {left[u], None}
                           /\ armed'[u] \subseteq stopped[u]
                           /\ armed'[u] \subseteq {jobs'[u]}
    BY <1>1, <2>1, <2>2, <2>3, ScheduledFields
  <2>5. QED
    BY <1>1, <2>2, <2>4
<1>4. QED
  BY <1>2, <1>3

\* A call that takes its place in a queue, or lets go of a lock, or goes on
\* under the one it holds, leaves the other locks with their holders.
LEMMA LockKept ==
    ASSUME IInv, NEW c \in Caller, Only(c),
           \/ tails' = tails /\ (Locked(c)' => Holds(c) /\ op'[c].task = op[c].task)
           \/ Unlocks(c) /\ ~Locked(c)'
           \/ /\ ~Locked(c)'
              /\ \E t \in Task : tails' = [tails EXCEPT ![t] = Append(tails[t], c)]
    PROVE  LockInv' /\ tails' \in [Task -> Seq(Caller)]
<1>1. /\ tails \in [Task -> Seq(Caller)] /\ LockInv
      /\ \A d \in Caller : Locked(d) => op[d].task \in Task
  BY DEF IInv, TypeOK, CallInv, Positioned, Locked, TaskKinds, LoopKinds, AtTask
<1>2. \A d \in Caller : d # c => (Locked(d)' <=> Locked(d)) /\ op'[d].task = op[d].task
  BY DEF Only, Locked
<1>3. CASE tails' = tails /\ (Locked(c)' => Holds(c) /\ op'[c].task = op[c].task)
  BY <1>1, <1>2, <1>3 DEF LockInv, Holds
<1>4. CASE Unlocks(c) /\ ~Locked(c)'
  <2>1. ASSUME NEW d \in Caller, d # c, Locked(d)
        PROVE  tails'[op[d].task] = tails[op[d].task]
    BY <1>1, <1>4, <2>1 DEF Unlocks, LockInv, Holds
  <2>2. QED
    BY <1>1, <1>2, <1>4, <2>1 DEF LockInv, Holds, Unlocks
<1>5. CASE /\ ~Locked(c)'
           /\ \E t \in Task : tails' = [tails EXCEPT ![t] = Append(tails[t], c)]
  <2>1. PICK t \in Task : tails' = [tails EXCEPT ![t] = Append(tails[t], c)]
    BY <1>5
  <2>2. Append(tails[t], c) \in Seq(Caller)
    BY <1>1
  <2>3. tails[t] # <<>> => /\ Append(tails[t], c) # <<>>
                           /\ Head(Append(tails[t], c)) = Head(tails[t])
    <3>1. ASSUME NEW s \in Seq(Caller), s # <<>>
          PROVE  Append(s, c) # <<>> /\ Head(Append(s, c)) = Head(s)
      <4>1. Len(s) \in Nat \ {0} /\ 1 \in 1 .. Len(s)
        BY <3>1, EmptySeq
      <4>2. Len(Append(s, c)) = Len(s) + 1 /\ Append(s, c)[1] = s[1]
        BY <4>1
      <4>3. QED
        BY <4>1, <4>2
    <3>2. QED
      BY <1>1, <3>1
  <2>4. QED
    BY <1>1, <1>2, <1>5, <2>1, <2>2, <2>3 DEF LockInv, Holds
<1>6. QED
  BY <1>3, <1>4, <1>5

\* Two calls do not hold the lock of one task.
LEMMA OneHolder ==
    ASSUME IInv, NEW c \in Caller, NEW d \in Caller, c # d,
           op[c].task = op[d].task, Holds(c)
    PROVE  ~Locked(d)
BY DEF IInv, LockInv, Holds

\* The fields of a call that begins.
LEMMA BeginFields ==
    ASSUME TypeOK, NEW c \in Caller, NEW record \in CallRecord,
           op' = [op EXCEPT ![c] = record]
    PROVE  Only(c) /\ op'[c] = record
BY DEF TypeOK, Only, CallRecord

----------------------------------------------------------------------------
(* A step of a call, in general.                                          *)

\* No other call is past the lock of t.
Alone(t, c) == \A d \in Caller : d # c /\ op[d].task = t => ~Locked(d)

\* The holder of a lock is alone, and so is the call that creates a task.
LEMMA HolderIsAlone ==
    ASSUME IInv, NEW c \in Caller,
           Holds(c) \/ (op[c].kind = "create" /\ op[c].pc = "commit")
    PROVE  Alone(op[c].task, c)
<1>1. CASE Holds(c)
  BY <1>1, OneHolder DEF Alone
<1>2. CASE op[c].kind = "create" /\ op[c].pc = "commit"
  BY <1>2 DEF Alone, IInv, AbsentInv
<1>3. QED
  BY <1>1, <1>2

\* A step of a call past its queue, in the terms of the invariant: what it does
\* to its own task t keeps the invariant there, and where it is not alone it
\* takes nothing but its own job, and changes nothing but by undoing a creation.
TypedStep(c) ==
    /\ Only(c)
    /\ store' \in [Task -> TaskRecord] /\ moved' \subseteq Task
    /\ refused' \in BOOLEAN /\ (refused => refused')
    /\ jobs' \in [Task -> Caller \cup {None}]
    /\ armed' \in [Task -> SUBSET Caller]
    /\ run' \in [Task -> RunRecord]
    /\ started' \in BOOLEAN
    /\ UNCHANGED <<globallyEnabled, setting, blocked>>
LockStep(c) ==
    \/ tails' = tails /\ (Locked(c)' => Holds(c) /\ op'[c].task = op[c].task)
    \/ Unlocks(c) /\ ~Locked(c)'
CallStepInv(c) ==
    /\ Positioned(c)'
    /\ op'[c].pc \in AtTask \/ op'[c].kind \in TaskKinds => op'[c].task \in Task
    /\ op'[c].kind \in {op[c].kind, "stop"} /\ op'[c].pc # "idle"
    /\ op'[c].kind = "create" => op'[c].cur = NoRun.task /\ op'[c].pc # "commit"
    /\ op'[c].pc = "disable" => refused'
    /\ op'[c].kind \in {"save", "create"} => Present(op'[c].next)
    /\ op'[c].todo \subseteq op[c].todo
    /\ op'[c].task \in {op[c].task, None}
    /\ op[c].aborted => op'[c].aborted \/ c # Boot
    /\ c = Boot => \/ op'[c].kind = "start" /\ ~op'[c].aborted
                   \/ op'[c].kind = "stop" /\ op'[c].pc = "done"
ElsewhereStays(c, t) ==
    /\ \A u \in Task : u # t =>
          /\ store'[u] = store[u] /\ run'[u] = run[u]
          /\ jobs'[u] \in {jobs[u], None} /\ armed'[u] \subseteq armed[u]
    /\ \A u \in Task : armed'[u] \subseteq {jobs'[u]}
    /\ \/ started' = started
       \/ started' = FALSE /\ c = Boot /\ op'[c].aborted
          /\ \A u \in Task : armed'[u] = {}
    /\ \/ Alone(t, c)
       \/ /\ store'[t] \in {store[t], Undone} /\ run'[t] = run[t]
          /\ jobs'[t] \in {jobs[t], None}
          /\ armed'[t] \subseteq armed[t] \cup ({c} \cap {jobs[t]})
TaskStays(c, t) ==
    /\ t \in Task /\ store'[t].st # "absent"
    /\ armed'[t] = {} \/ (started' /\ globallyEnabled)
    /\ jobs'[t] # None =>
          /\ store'[t].ws \notin blocked
          /\ Present(store'[t]) \/ store'[t] = Undone
          /\ Enabled(store'[t]) \/ refused' \/ store'[t] = Undone
    /\ Undoing(c)' =>
          /\ op'[c].task = t /\ armed'[t] = {} /\ ~Wanted(t)'
          /\ jobs'[t] \in IF op'[c].pc = "arm" THEN {None, c} ELSE {None}
    /\ op'[c].kind \in TaskKinds /\ op'[c].pc \in {"settle", "commit"} =>
          store'[t] \in {op'[c].cur, Undone}
    /\ \/ run'[t].phase = "get"
       \/ /\ run'[t].phase = run[t].phase /\ run'[t].auto = run[t].auto
          /\ run'[t].ws = run[t].ws /\ run'[t].task = run[t].task
          /\ run[t].cancel => run'[t].cancel
    /\ Wanted(t)' =>
          /\ Enabled(store'[t]) \/ refused' \/ store'[t] = Undone
          /\ run'[t].phase \in {"get", "claim"} /\ Present(store'[t]) =>
                store'[t].ws = run'[t].task.ws

\* Such a step keeps IInv.
LEMMA CallStepKeeps ==
    ASSUME IInv, NEW c \in Caller, NEW t, op[c].task = t,
           op[c].kind # "cancelWorkspace",
           TypedStep(c), LockStep(c), CallStepInv(c), ElsewhereStays(c, t),
           TaskStays(c, t)
    PROVE  IInv'
<1> USE ScheduleServiceAssumption
<1>1. LockInv' /\ tails' \in [Task -> Seq(Caller)]
  BY LockKept DEF TypedStep, LockStep
<1>2. TypeOK'
  BY <1>1 DEF IInv, TypeOK, TypedStep, Only, CallRecord, RunRecord
<1>3. \A d \in Caller : d # c => op'[d] = op[d]
  BY DEF TypedStep, Only
<1>4. CallInv'
  BY <1>3 DEF IInv, CallInv, CallStepInv, Positioned, TypedStep
<1>5. AbsentInv'
  <2>1. \A u \in Task : store'[u].st = "absent" => u # t /\ store[u].st = "absent"
    BY DEF TaskStays, ElsewhereStays
  <2>2. \A u \in Task : store'[u].st = "absent" =>
           /\ jobs'[u] = None /\ run'[u].phase = "none"
           /\ \A d \in Caller : /\ u \notin op'[d].todo
                                /\ op'[d].task = u => op'[d].kind = "create"
    BY <1>3, <2>1 DEF IInv, AbsentInv, ElsewhereStays, CallStepInv
  <2>3. \A a, d \in Caller :
           op'[a].kind = "create" /\ op'[a].pc = "commit" =>
              /\ store'[op'[a].task].st = "absent"
              /\ op'[d].task = op'[a].task => d = a
    <3>1. ASSUME NEW a \in Caller, NEW d \in Caller,
                 op'[a].kind = "create", op'[a].pc = "commit"
          PROVE  /\ store'[op'[a].task].st = "absent"
                 /\ op'[d].task = op'[a].task => d = a
      <4>1. a # c /\ op'[a] = op[a] /\ op[a].task \in Task
        BY <1>3, <3>1 DEF CallStepInv, IInv, CallInv, AtTask
      <4>2. op[a].task # t
        BY <3>1, <4>1 DEF IInv, AbsentInv
      <4>3. store'[op'[a].task].st = "absent"
        BY <3>1, <4>1, <4>2 DEF IInv, AbsentInv, ElsewhereStays
      <4>4. op'[d].task = op'[a].task => d = a
        <5>1. CASE d = c
          BY <4>1, <4>2, <5>1 DEF CallStepInv, IInv, TypeOK, TaskStays
        <5>2. CASE d # c
          BY <1>3, <3>1, <4>1, <5>2 DEF IInv, AbsentInv
        <5>3. QED
          BY <5>1, <5>2
      <4>5. QED
        BY <4>3, <4>4
    <3>2. QED
      BY <3>1
  <2>4. ASSUME NEW a \in Caller, op'[a].kind = "create", op'[a].pc \in {"arm", "rollback"}
        PROVE  store'[op'[a].task].st # "absent"
    <3>1. CASE a = c
      BY <2>4, <3>1 DEF CallStepInv, TaskStays, AtTask, TypedStep, IInv, TypeOK
    <3>2. CASE a # c
      <4>1. op[a].task \in Task /\ op'[a] = op[a]
        BY <1>3, <2>4, <3>2 DEF IInv, CallInv, AtTask
      <4>2. QED
        BY <2>1, <2>4, <4>1 DEF IInv, AbsentInv
    <3>3. QED
      BY <3>1, <3>2
  <2>5. QED
    BY <2>2, <2>3, <2>4 DEF AbsentInv
<1>6. \A d \in Caller : d # c /\ op[d].task = t /\ Locked(d) => ~Alone(t, c)
  BY DEF Alone
<1>7. FreshInv'
  <2>1. \A d \in Caller : op[d].kind \in TaskKinds /\ op[d].pc \in {"settle", "commit"} =>
           Locked(d) /\ op[d].task \in Task
    BY DEF Locked, IInv, CallInv
  <2>2. \A d \in Caller : op'[d].kind \in TaskKinds /\ op'[d].pc \in {"settle", "commit"} =>
           store'[op'[d].task] \in {op'[d].cur, Undone}
    <3>1. ASSUME NEW d \in Caller, op'[d].kind \in TaskKinds,
                 op'[d].pc \in {"settle", "commit"}
          PROVE  store'[op'[d].task] \in {op'[d].cur, Undone}
      <4>1. CASE d = c
        BY <3>1, <4>1 DEF TaskStays, CallStepInv, TaskKinds
      <4>2. CASE d # c /\ op[d].task = t
        BY <1>3, <1>6, <2>1, <3>1, <4>2 DEF ElsewhereStays, IInv, FreshInv
      <4>3. CASE d # c /\ op[d].task # t
        BY <1>3, <2>1, <3>1, <4>3 DEF ElsewhereStays, IInv, FreshInv
      <4>4. QED
        BY <4>1, <4>2, <4>3
    <3>2. QED
      BY <3>1
  <2>3. QED
    BY <2>2 DEF FreshInv
<1>8. ArmedIsCurrent'
  BY DEF IInv, ArmedIsCurrent, Armed, ElsewhereStays, TaskStays, TypedStep
<1>9. JobInv'
  BY DEF IInv, JobInv, ElsewhereStays, TaskStays, TypedStep
<1>10. QuietInv'
  <2>1. ASSUME NEW d \in Caller, d # c, Undoing(d)'
        PROVE  /\ op'[d] = op[d] /\ op[d].task \in Task /\ Locked(d)
               /\ op[d].task # t \/ ~Alone(t, c)
               /\ Undoing(d)
    <3>1. op'[d] = op[d] /\ op[d].task \in Task /\ Locked(d)
      BY <1>3, <2>1 DEF Undoing, Locked, IInv, CallInv, TaskKinds
    <3>2. op[d].task # t \/ ~Alone(t, c)
      BY <1>6, <2>1, <3>1
    <3>3. Present(store'[op[d].task]) => Present(store[op[d].task])
      BY <3>1, <3>2 DEF ElsewhereStays, Present, Undone, NoRun, TaskStays
    <3>4. Undoing(d)
      BY <2>1, <3>1, <3>3 DEF Undoing, TypedStep
    <3>5. QED
      BY <3>1, <3>2, <3>4
  <2>2. ASSUME NEW d \in Caller, d # c, Undoing(d)'
        PROVE  /\ armed'[op'[d].task] = {} /\ ~Wanted(op[d].task)'
               /\ jobs'[op'[d].task] \in IF op'[d].pc = "arm" THEN {None, d}
                                                              ELSE {None}
    <3>1. /\ armed[op[d].task] = {} /\ ~Wanted(op[d].task)
          /\ jobs[op[d].task] \in IF op[d].pc = "arm" THEN {None, d} ELSE {None}
          /\ op'[d] = op[d] /\ op[d].task \in Task
          /\ op[d].task # t \/ ~Alone(t, c)
      BY <2>1, <2>2 DEF IInv, QuietInv
    <3>2. /\ armed'[op[d].task] = {} /\ run'[op[d].task] = run[op[d].task]
          /\ jobs'[op[d].task] \in {jobs[op[d].task], None}
      BY <2>2, <3>1 DEF ElsewhereStays
    <3>3. QED
      BY <3>1, <3>2 DEF Wanted
  <2>3. QED
    BY <2>2 DEF QuietInv, TaskStays
<1>11. RunInv'
  <2>1. \A u \in Task : u # t => (Wanted(u)' <=> Wanted(u))
    BY DEF ElsewhereStays, Wanted
  <2>2. started \/ StartGaveUp => started' \/ StartGaveUp'
    BY <1>3 DEF ElsewhereStays, StartGaveUp, CallStepInv, Caller
  <2>3. Wanted(t)' /\ run'[t].phase \in {"claim", "exec"} => Wanted(t)
    BY DEF TaskStays, Wanted
  <2>4. \A u \in Task :
           Wanted(u)' =>
              /\ Enabled(store'[u]) \/ refused' \/ store'[u] = Undone
              /\ run'[u].phase \in {"get", "claim"} /\ Present(store'[u]) =>
                    store'[u].ws = run'[u].task.ws
              /\ run'[u].phase \in {"claim", "exec"} =>
                    (started' \/ StartGaveUp') /\ globallyEnabled'
    BY <2>1, <2>2, <2>3 DEF IInv, RunInv, ElsewhereStays, TaskStays, TypedStep
  <2>5. \A u \in Task :
           /\ run'[u].phase = "claim" => run'[u].auto
           /\ run'[u].phase \in {"claim", "exec", "record"} =>
                 run'[u].ws = run'[u].task.ws
    BY DEF IInv, RunInv, ElsewhereStays, TaskStays
  <2>6. QED
    BY <2>4, <2>5 DEF RunInv
<1>12. WaitInv'
  BY <1>3 DEF IInv, WaitInv, ElsewhereStays, TaskStays, TypedStep, Caller
<1>13. QED
  BY <1>1, <1>2, <1>4, <1>5, <1>7, <1>8, <1>9, <1>10, <1>11, <1>12 DEF IInv

\* A step that ends in schedule(), under the task's lock or in its creation,
\* with the task as the step leaves it.
LEMMA ScheduleKeeps ==
    ASSUME IInv, NEW c \in Caller, NEW t \in Task, op[c].task = t,
           Holds(c) \/ (op[c].kind = "create" /\ op[c].pc = "commit"),
           op[c].pc # "idle",
           NEW record, NEW pc \in {"arm", "rearm"}, Schedule(c, record, pc),
           op[c].kind \in IF pc = "arm" THEN {"save", "resume", "create"} \cup LoopKinds
                                        ELSE TaskKinds,
           store' \in [Task -> TaskRecord], moved' \subseteq Task,
           refused' \in BOOLEAN, refused => refused',
           UNCHANGED <<globallyEnabled, setting, blocked>>,
           \A u \in Task : u # t => store'[u] = store[u],
           store'[t].st # "absent",
           op[c].kind \in LoopKinds => store'[t] = store[t],
           record = store'[t] \/ store'[t] = Undone,
           Wanted(t) =>
              /\ Enabled(store'[t]) \/ refused' \/ store'[t] = Undone
              /\ Present(store'[t]) =>
                    Present(store[t]) /\ store'[t].ws = store[t].ws,
           pc = "arm" /\ (\/ op[c].kind = "save"
                          \/ /\ op[c].kind = "resume" /\ ~op[c].cur.enabled
                             /\ ~refused' /\ Present(store'[t])) => ~Wanted(t)
    PROVE  IInv'
<1> USE ScheduleServiceAssumption
<1>1. /\ TypeOK /\ ArmedIsCurrent /\ CallInv /\ RunInv
  BY DEF IInv
<1>2. /\ Only(c)
      /\ jobs' \in [Task -> Caller \cup {None}]
      /\ armed' \in [Task -> SUBSET Caller]
      /\ armed'[t] = {}
      /\ \A u \in Task : /\ jobs'[u] \in {jobs[u], None} \/ u = t
                         /\ armed'[u] \subseteq armed[u]
                         /\ armed'[u] \subseteq {jobs'[u]}
      /\ \/ /\ Eligible(record) /\ jobs'[t] = c
            /\ Same(c) /\ op'[c].pc = pc
            /\ tails' = tails /\ run' = run /\ started' = started
         \/ jobs'[t] = None /\ Continues(c, pc)
  BY <1>1, ScheduleFields
<1>3. /\ Positioned(c)
      /\ op[c].kind = "start" => c = Boot
      /\ c = Boot => \/ op[c].kind = "start" /\ ~op[c].aborted
                     \/ op[c].kind = "stop" /\ op[c].pc \in {"idle", "done"}
      /\ op[c].kind = "create" => op[c].cur = NoRun.task
  BY <1>1 DEF CallInv
<1>4. op[c].kind # "cancelWorkspace"
  BY DEF TaskKinds, LoopKinds
<1>5. \/ /\ Eligible(record) /\ jobs'[t] = c
         /\ Same(c) /\ op'[c].pc = pc
         /\ tails' = tails /\ run' = run /\ started' = started
      \/ /\ jobs'[t] = None /\ Over(c) /\ Unlocks(c) /\ run' = run
         /\ \/ started' = started /\ (op[c].kind \notin LoopKinds)
            \/ op[c].kind = "start" /\ op'[c].aborted /\ started' = FALSE
               /\ \A u \in Task : armed'[u] = {}
      \/ /\ jobs'[t] = None /\ op[c].kind \notin LoopKinds /\ pc = "arm"
         /\ Same(c) /\ op'[c].pc = IF op[c].kind = "resume" THEN "restore" ELSE "rollback"
         /\ tails' = tails /\ run' = run /\ started' = started
      \/ /\ jobs'[t] = None /\ op[c].kind \in LoopKinds
         /\ Same(c) /\ op'[c].pc = "loop" /\ Unlocks(c) /\ started' = started
         /\ \/ run' = run
            \/ run[t].phase = "none" /\ run' = Dispatched(t, TRUE)
  BY <1>2 DEF Continues
<1>6. run' = run \/ (op[c].kind \in LoopKinds /\ run' = Dispatched(t, TRUE)
                        /\ run[t].phase = "none")
  BY <1>5
<1>7. /\ run' \in [Task -> RunRecord]
      /\ \A u \in Task : u # t => run'[u] = run[u]
      /\ \/ run'[t] = run[t]
         \/ /\ op[c].kind \in LoopKinds
            /\ run'[t].phase = "get" /\ run'[t].task = store[t]
  <2>1. run \in [Task -> RunRecord]
    BY <1>1 DEF TypeOK, RunRecord
  <2>2. CASE run' = run
    BY <2>1, <2>2
  <2>3. CASE op[c].kind \in LoopKinds /\ run' = Dispatched(t, TRUE)
    <3>1. TRUE \in BOOLEAN
      OBVIOUS
    <3>2. /\ Dispatched(t, TRUE) \in [Task -> RunRecord]
          /\ \A u \in Task : u # t => Dispatched(t, TRUE)[u] = run[u]
          /\ Dispatched(t, TRUE)[t].phase = "get"
          /\ Dispatched(t, TRUE)[t].task = store[t]
      BY <1>1, <3>1, DispatchFields
    <3>3. QED
      BY <2>3, <3>2
  <2>4. QED
    BY <1>6, <2>2, <2>3
<1>8. started' \in BOOLEAN
  BY <1>1, <1>5 DEF TypeOK
<1>9. TypedStep(c)
  BY <1>2, <1>7, <1>8 DEF TypedStep
<1>10. op'[c].kind \in TaskKinds \cup LoopKinds \cup {"create", "stop"}
  BY <1>5 DEF Same, Over, TaskKinds, LoopKinds
<1>11. LockStep(c)
  <2>1. CASE Same(c) /\ tails' = tails
    BY <1>5, <2>1 DEF LockStep, Locked, Same, TaskKinds, LoopKinds
  <2>2. CASE Unlocks(c) /\ (Over(c) \/ op'[c].pc = "loop")
    BY <2>2 DEF LockStep, Locked, Over
  <2>3. QED
    BY <1>5, <2>1, <2>2
<1>12. CallStepInv(c)
  <2>1. Positioned(c)'
    BY <1>3, <1>5 DEF Positioned, Same, Over, TaskKinds, LoopKinds
  <2>2. op'[c].task \in {t, None} /\ op'[c].todo \subseteq op[c].todo
    BY <1>5 DEF Same, Over
  <2>3. op'[c].pc \in AtTask \/ op'[c].kind \in TaskKinds => op'[c].task \in Task
    BY <1>5 DEF Same, Over, AtTask, TaskKinds
  <2>4. /\ op'[c].kind \in {op[c].kind, "stop"}
        /\ op'[c].pc \notin {"idle", "disable", "commit"}
        /\ op'[c].kind = "create" => op'[c].cur = NoRun.task
    BY <1>3, <1>5 DEF Same, Over
  <2>5. op[c].aborted => op'[c].aborted \/ c # Boot
    <3>1. c = Boot => op[c].kind \in LoopKinds
      BY <1>3 DEF TaskKinds, LoopKinds
    <3>2. QED
      BY <1>5, <3>1 DEF Same
  <2>6. c = Boot => \/ op'[c].kind = "start" /\ ~op'[c].aborted
                    \/ op'[c].kind = "stop" /\ op'[c].pc = "done"
    <3>1. c = Boot => op[c].kind = "start" /\ ~op[c].aborted
      BY <1>3 DEF TaskKinds, LoopKinds
    <3>2. QED
      BY <1>5, <3>1 DEF Same, Over, LoopKinds
  <2>7. op'[c].kind \in {"save", "create"} => Present(op'[c].next)
    BY <1>1, <1>5 DEF CallInv, Same, Over
  <2>8. QED
    BY <2>1, <2>2, <2>3, <2>4, <2>5, <2>6, <2>7 DEF CallStepInv
<1>13. Alone(t, c)
  BY HolderIsAlone
<1>14. ElsewhereStays(c, t)
  <2>1. /\ \A u \in Task : u # t =>
               /\ store'[u] = store[u] /\ run'[u] = run[u]
               /\ jobs'[u] \in {jobs[u], None} /\ armed'[u] \subseteq armed[u]
        /\ \A u \in Task : armed'[u] \subseteq {jobs'[u]}
    BY <1>2, <1>7
  <2>2. \/ started' = started
        \/ started' = FALSE /\ c = Boot /\ op'[c].aborted
           /\ \A u \in Task : armed'[u] = {}
    BY <1>3, <1>5
  <2>3. QED
    BY <1>13, <2>1, <2>2 DEF ElsewhereStays
<1>15. TaskStays(c, t)
  <2>1. jobs'[t] # None =>
           /\ store'[t].ws \notin blocked
           /\ Present(store'[t]) \/ store'[t] = Undone
           /\ Enabled(store'[t]) \/ refused' \/ store'[t] = Undone
    <3>1. Undone.ws = None /\ blocked \subseteq Workspace
      BY <1>1 DEF Undone, NoRun, TypeOK
    <3>2. QED
      BY <1>5, <3>1 DEF Eligible, Enabled
  <2>2. /\ Wanted(t)' =>
              /\ Enabled(store'[t]) \/ refused' \/ store'[t] = Undone
              /\ run'[t].phase \in {"get", "claim"} /\ Present(store'[t]) =>
                    store'[t].ws = run'[t].task.ws
        /\ run'[t] = run[t] => (Wanted(t)' <=> Wanted(t))
    <3>1. run'[t] = run[t] => (Wanted(t)' <=> Wanted(t))
      BY DEF Wanted
    <3>2. CASE run'[t] = run[t]
      <4>1. Wanted(t)' => Wanted(t)
        BY <3>1, <3>2
      <4>2. Wanted(t) /\ run[t].phase \in {"get", "claim"} /\ Present(store[t]) =>
               store[t].ws = run[t].task.ws
        BY <1>1 DEF RunInv
      <4>3. QED
        BY <3>1, <3>2, <4>1, <4>2
    <3>3. CASE /\ op[c].kind \in LoopKinds
               /\ run'[t].phase = "get" /\ run'[t].task = store[t]
      <4>1. store'[t] = store[t]
        BY <3>3
      <4>2. Wanted(t)' => Enabled(store'[t])
        BY <3>3, <4>1 DEF Wanted
      <4>3. QED
        BY <3>1, <3>3, <4>1, <4>2
    <3>4. QED
      BY <1>7, <3>2, <3>3
  <2>3. Undoing(c)' =>
           /\ op'[c].task = t /\ armed'[t] = {} /\ ~Wanted(t)'
           /\ jobs'[t] \in IF op'[c].pc = "arm" THEN {None, c} ELSE {None}
    <3>1. Undoing(c)' =>
             /\ op[c].kind \notin LoopKinds /\ pc = "arm" /\ Same(c)
             /\ op'[c].kind \in {"save", "resume"}
      BY <1>5, <1>10 DEF Undoing, Over, Same, TaskKinds, LoopKinds
    <3>2. Undoing(c)' => ~Wanted(t)'
      BY <1>7, <2>2, <3>1 DEF Undoing, Same
    <3>3. QED
      BY <1>2, <1>5, <3>1, <3>2 DEF Same
  <2>4. op'[c].kind \in TaskKinds => op'[c].pc \notin {"settle", "commit"}
    BY <1>5 DEF Over, TaskKinds
  <2>5. \/ run'[t].phase = "get"
        \/ /\ run'[t].phase = run[t].phase /\ run'[t].auto = run[t].auto
           /\ run'[t].ws = run[t].ws /\ run'[t].task = run[t].task
           /\ run[t].cancel => run'[t].cancel
    BY <1>7
  <2>6. QED
    BY <1>2, <2>1, <2>2, <2>3, <2>4, <2>5 DEF TaskStays
<1>16. QED
  BY <1>4, <1>9, <1>11, <1>12, <1>14, <1>15, CallStepKeeps

\* What a step of a call about its task t may leave there: the job, if any, is
\* of the task as it is then, and so is the automatic run.
JobFits(t) ==
    jobs'[t] # None =>
        /\ store'[t].ws \notin blocked
        /\ Present(store'[t]) \/ store'[t] = Undone
        /\ Enabled(store'[t]) \/ refused' \/ store'[t] = Undone
RunFits(t) ==
    Wanted(t) =>
        /\ Enabled(store'[t]) \/ refused' \/ store'[t] = Undone
        /\ Present(store'[t]) =>
              Present(store[t]) /\ store'[t].ws = store[t].ws

\* It writes no other task, and does not change the service.
WritesOnly(t) ==
    /\ store' \in [Task -> TaskRecord] /\ moved' \subseteq Task
    /\ refused' \in BOOLEAN /\ (refused => refused')
    /\ \A u \in Task : u # t => store'[u] = store[u]
    /\ store'[t].st # "absent"
    /\ UNCHANGED <<globallyEnabled, setting, blocked>>

\* It may stop the task's job, and cancel its run.
MayStop(t) ==
    /\ UNCHANGED Schedules \/ StopJobs({t})
    /\ run' = run \/ run' = Cancelled({t})

\* Such a step changes nothing of the other tasks.
LEMMA MayStopFields ==
    ASSUME TypeOK, ArmedIsCurrent, NEW t \in Task, MayStop(t)
    PROVE  /\ jobs' \in [Task -> Caller \cup {None}]
           /\ armed' \in [Task -> SUBSET Caller]
           /\ run' \in [Task -> RunRecord]
           /\ \A u \in Task : /\ u # t => jobs'[u] = jobs[u] /\ armed'[u] = armed[u]
                                          /\ run'[u] = run[u]
                              /\ armed'[u] \subseteq {jobs'[u]}
           /\ jobs'[t] \in {jobs[t], None} /\ armed'[t] \subseteq armed[t]
           /\ run'[t].phase = run[t].phase /\ run'[t].auto = run[t].auto
           /\ run'[t].ws = run[t].ws /\ run'[t].task = run[t].task
           /\ run[t].cancel => run'[t].cancel
<1>1. /\ jobs' \in [Task -> Caller \cup {None}] /\ armed' \in [Task -> SUBSET Caller]
      /\ \A u \in Task : /\ u # t => jobs'[u] = jobs[u] /\ armed'[u] = armed[u]
                         /\ armed'[u] \subseteq {jobs'[u]}
      /\ jobs'[t] \in {jobs[t], None} /\ armed'[t] \subseteq armed[t]
  <2>1. CASE UNCHANGED Schedules
    BY <2>1 DEF Schedules, TypeOK, ArmedIsCurrent
  <2>2. CASE StopJobs({t})
    BY <2>2, StopFields DEF TypeOK, ArmedIsCurrent
  <2>3. QED
    BY <2>1, <2>2 DEF MayStop
<1>2. run \in [Task -> RunRecord]
  BY DEF TypeOK, RunRecord
<1>3. /\ run' \in [Task -> RunRecord]
      /\ \A u \in Task : u # t => run'[u] = run[u]
      /\ run'[t].phase = run[t].phase /\ run'[t].auto = run[t].auto
      /\ run'[t].ws = run[t].ws /\ run'[t].task = run[t].task
      /\ run[t].cancel => run'[t].cancel
  <2>1. CASE run' = run
    BY <1>2, <2>1
  <2>2. CASE run' = Cancelled({t})
    <3>1. \A u \in Task : u # t => Cancelled({t})[u] = run[u]
      BY DEF Cancelled
    <3>2. QED
      BY <2>2, <3>1, CancelFields
  <2>3. QED
    BY <2>1, <2>2 DEF MayStop
<1>4. QED
  BY <1>1, <1>3

\* A step after which the call is over, or its loop goes on.
LEMMA EndKeeps ==
    ASSUME IInv, NEW c \in Caller, NEW t \in Task, op[c].task = t,
           op[c].kind \in TaskKinds \cup LoopKinds \cup {"create"},
           Only(c), Unlocks(c),
           \/ Over(c) /\ op[c].kind # "start"
           \/ Same(c) /\ op'[c].pc = "loop" /\ op[c].kind \in LoopKinds,
           run' = run, UNCHANGED Schedules \/ StopJobs({t}), started' = started,
           WritesOnly(t), JobFits(t), RunFits(t),
           Alone(t, c) \/ store'[t] \in {store[t], Undone}
    PROVE  IInv'
<1> USE ScheduleServiceAssumption
<1>1. /\ TypeOK /\ ArmedIsCurrent /\ CallInv /\ RunInv
  BY DEF IInv
<1>2. /\ jobs' \in [Task -> Caller \cup {None}]
      /\ armed' \in [Task -> SUBSET Caller]
      /\ \A u \in Task : /\ u # t => jobs'[u] = jobs[u] /\ armed'[u] = armed[u]
                         /\ armed'[u] \subseteq {jobs'[u]}
      /\ jobs'[t] \in {jobs[t], None} /\ armed'[t] \subseteq armed[t]
  <2>1. MayStop(t)
    BY DEF MayStop
  <2>2. QED
    BY <1>1, <2>1, MayStopFields
<1>3. /\ Positioned(c)
      /\ c = Boot => \/ op[c].kind = "start" /\ ~op[c].aborted
                     \/ op[c].kind = "stop" /\ op[c].pc \in {"idle", "done"}
  BY <1>1 DEF CallInv
<1>4. /\ op[c].kind \notin {"cancelWorkspace", "stop"}
      /\ c = Boot => op[c].kind = "start" /\ ~op[c].aborted
  BY <1>3 DEF TaskKinds, LoopKinds
<1>5. TypedStep(c)
  BY <1>1, <1>2 DEF TypedStep, WritesOnly, TypeOK, RunRecord
<1>6. LockStep(c)
  BY DEF LockStep, Locked, Over
<1>7. CallStepInv(c)
  <2>1. Positioned(c)'
    BY <1>3 DEF Positioned, Same, Over, LoopKinds
  <2>2. QED
    BY <1>1, <1>4, <2>1 DEF CallStepInv, Same, Over, LoopKinds, TaskKinds, AtTask
<1>8. ElsewhereStays(c, t)
  BY <1>2 DEF ElsewhereStays, WritesOnly
<1>9. TaskStays(c, t)
  <2>1. armed'[t] = {} \/ (started' /\ globallyEnabled)
    BY <1>1, <1>2 DEF ArmedIsCurrent, Armed
  <2>2. Wanted(t)' <=> Wanted(t)
    BY DEF Wanted
  <2>3. /\ ~Undoing(c)'
        /\ ~(op'[c].kind \in TaskKinds /\ op'[c].pc \in {"settle", "commit"})
    BY DEF Undoing, Over, Same, TaskKinds, LoopKinds
  <2>4. Wanted(t) /\ run[t].phase \in {"get", "claim"} /\ Present(store[t]) =>
           store[t].ws = run[t].task.ws
    BY <1>1 DEF RunInv
  <2>5. /\ Wanted(t)' =>
             /\ Enabled(store'[t]) \/ refused' \/ store'[t] = Undone
             /\ run'[t].phase \in {"get", "claim"} /\ Present(store'[t]) =>
                   store'[t].ws = run'[t].task.ws
    BY <2>2, <2>4 DEF RunFits
  <2>6. store'[t].st # "absent"
    BY DEF WritesOnly
  <2>7. QED
    BY <2>1, <2>3, <2>5, <2>6 DEF TaskStays, JobFits
<1>10. QED
  BY <1>4, <1>5, <1>6, <1>7, <1>8, <1>9, CallStepKeeps

\* A step after which the call waits for something else under its lock.
LEMMA MoveKeeps ==
    ASSUME IInv, NEW c \in Caller, NEW t \in Task, op[c].task = t,
           op[c].kind \in TaskKinds \cup LoopKinds \cup {"create"},
           op[c].pc # "idle",
           Holds(c) \/ (op[c].kind = "create" /\ op[c].pc = "commit"),
           Only(c), tails' = tails, started' = started,
           op'[c].kind = op[c].kind, op'[c].task = t, op'[c].todo = op[c].todo,
           op'[c].aborted = op[c].aborted, op'[c].next = op[c].next, Positioned(c)',
           op'[c].pc \in {"settle", "commit", "rollback", "restore", "disable"},
           op[c].kind = "create" => op'[c].cur = op[c].cur /\ op'[c].pc # "commit",
           op'[c].pc = "disable" => refused',
           op[c].kind \in TaskKinds /\ op'[c].pc \in {"settle", "commit"} =>
              store'[t] \in {op'[c].cur, Undone},
           MayStop(t), WritesOnly(t), JobFits(t), RunFits(t),
           Undoing(c)' => armed'[t] = {} /\ jobs'[t] = None /\ ~Wanted(t)'
    PROVE  IInv'
<1> USE ScheduleServiceAssumption
<1>1. /\ TypeOK /\ ArmedIsCurrent /\ CallInv /\ RunInv
  BY DEF IInv
<1>2. /\ jobs' \in [Task -> Caller \cup {None}]
      /\ armed' \in [Task -> SUBSET Caller]
      /\ run' \in [Task -> RunRecord]
      /\ \A u \in Task : /\ u # t => jobs'[u] = jobs[u] /\ armed'[u] = armed[u]
                                     /\ run'[u] = run[u]
                         /\ armed'[u] \subseteq {jobs'[u]}
      /\ jobs'[t] \in {jobs[t], None} /\ armed'[t] \subseteq armed[t]
      /\ run'[t].phase = run[t].phase /\ run'[t].auto = run[t].auto
      /\ run'[t].ws = run[t].ws /\ run'[t].task = run[t].task
      /\ run[t].cancel => run'[t].cancel
  BY <1>1, MayStopFields
<1>3. op[c].kind # "cancelWorkspace"
  BY DEF TaskKinds, LoopKinds
<1>4. TypedStep(c)
  BY <1>1, <1>2 DEF TypedStep, WritesOnly, TypeOK
<1>5. LockStep(c)
  BY DEF LockStep, Locked, TaskKinds, LoopKinds
<1>6. CallStepInv(c)
  <2>1. c = Boot => op[c].kind = "start" /\ ~op[c].aborted
    BY <1>1 DEF CallInv, TaskKinds, LoopKinds
  <2>2. op[c].kind = "create" => op[c].cur = NoRun.task
    BY <1>1 DEF CallInv
  <2>3. QED
    BY <1>1, <2>1, <2>2 DEF CallStepInv, CallInv
<1>7. Alone(t, c)
  BY HolderIsAlone
<1>8. ElsewhereStays(c, t)
  BY <1>2, <1>7 DEF ElsewhereStays, WritesOnly
<1>9. TaskStays(c, t)
  <2>1. armed'[t] = {} \/ (started' /\ globallyEnabled)
    BY <1>1, <1>2 DEF ArmedIsCurrent, Armed
  <2>2. Wanted(t)' => Wanted(t)
    BY <1>1, <1>2 DEF Wanted, TypeOK
  <2>3. Wanted(t) /\ run[t].phase \in {"get", "claim"} /\ Present(store[t]) =>
           store[t].ws = run[t].task.ws
    BY <1>1 DEF RunInv
  <2>4. Wanted(t)' =>
           /\ Enabled(store'[t]) \/ refused' \/ store'[t] = Undone
           /\ run'[t].phase \in {"get", "claim"} /\ Present(store'[t]) =>
                 store'[t].ws = run'[t].task.ws
    BY <1>2, <2>2, <2>3 DEF RunFits
  <2>5. store'[t].st # "absent"
    BY DEF WritesOnly
  <2>6. QED
    BY <1>2, <2>1, <2>4, <2>5 DEF TaskStays, JobFits
<1>10. QED
  BY <1>3, <1>4, <1>5, <1>6, <1>8, <1>9, CallStepKeeps

\* schedule() after its write arms the job it made if the map still holds it.
LEMMA ArmedKeeps ==
    ASSUME IInv, NEW c \in Caller, NEW t \in Task, op[c].task = t,
           op[c].pc \in {"arm", "rearm"}, Present(store[t]), moved' \subseteq Task,
           Scheduled(c, op[c].pc, jobs, [armed EXCEPT ![t] = @ \cup Resumed(c, t)]),
           UNCHANGED <<store, refused, globallyEnabled, setting, blocked>>
    PROVE  IInv'
<1> USE ScheduleServiceAssumption
<1> DEFINE more == [armed EXCEPT ![t] = @ \cup Resumed(c, t)]
           pc == op[c].pc
<1>1. /\ TypeOK /\ ArmedIsCurrent /\ CallInv /\ RunInv /\ JobInv /\ QuietInv /\ LockInv
  BY DEF IInv
<1>2. /\ more \in [Task -> SUBSET Caller]
      /\ more[t] \subseteq armed[t] \cup ({c} \cap {jobs[t]})
      /\ \A u \in Task : u # t => more[u] = armed[u]
      /\ more[t] # {} => started /\ globallyEnabled
  <2>1. /\ Resumed(c, t) \subseteq {c} \cap {jobs[t]}
        /\ Resumed(c, t) # {} => started /\ globallyEnabled
    BY DEF Resumed
  <2>2. /\ armed \in [Task -> SUBSET Caller]
        /\ armed[t] # {} => started /\ globallyEnabled
    BY <1>1 DEF TypeOK, ArmedIsCurrent, Armed
  <2>3. /\ more[t] = armed[t] \cup Resumed(c, t)
        /\ \A u \in Task : u # t => more[u] = armed[u]
    BY <2>2
  <2>4. more \in [Task -> SUBSET Caller]
    BY <2>1, <2>2
  <2>5. QED
    BY <2>1, <2>2, <2>3, <2>4
<1>3. /\ \A u \in Task : more[u] \subseteq {jobs[u]}
      /\ jobs \in [Task -> Caller \cup {None}]
      /\ op[c].task \in Task /\ pc \in {"arm", "rearm"}
      /\ Scheduled(c, pc, jobs, more)
  BY <1>1, <1>2 DEF ArmedIsCurrent, TypeOK
<1> HIDE DEF more
<1>4. /\ Only(c) /\ Continues(c, pc)
      /\ jobs' \in [Task -> Caller \cup {None}]
      /\ armed' \in [Task -> SUBSET Caller]
      /\ \A u \in Task : /\ jobs'[u] \in {jobs[u], None}
                         /\ armed'[u] \subseteq more[u]
                         /\ armed'[u] \subseteq {jobs'[u]}
  BY <1>1, <1>2, <1>3, ScheduledFields
<1>5. /\ Positioned(c)
      /\ op[c].kind = "start" => c = Boot
      /\ c = Boot => \/ op[c].kind = "start" /\ ~op[c].aborted
                     \/ op[c].kind = "stop" /\ op[c].pc \in {"idle", "done"}
      /\ op[c].kind = "create" => op[c].cur = NoRun.task
  BY <1>1 DEF CallInv
<1>6. /\ op[c].kind \in {"save", "pause", "remove", "resume", "create"} \cup LoopKinds
      /\ op[c].kind # "cancelWorkspace"
      /\ pc = "arm" => op[c].kind \in {"save", "resume", "create"} \cup LoopKinds
  BY <1>1, <1>5 DEF Positioned, TypeOK, Kinds, TaskKinds, LoopKinds
<1>7. \/ /\ op[c].kind \notin LoopKinds
         /\ Over(c) /\ Unlocks(c) /\ run' = run /\ started' = started
      \/ /\ op[c].kind = "start" /\ op'[c].aborted /\ started' = FALSE
         /\ Over(c) /\ Unlocks(c) /\ run' = run
         /\ \A u \in Task : armed'[u] = {}
      \/ /\ jobs'[t] = None /\ op[c].kind \notin LoopKinds /\ pc = "arm"
         /\ Same(c) /\ op'[c].pc = IF op[c].kind = "resume" THEN "restore" ELSE "rollback"
         /\ tails' = tails /\ run' = run /\ started' = started
      \/ /\ op[c].kind \in LoopKinds
         /\ Same(c) /\ op'[c].pc = "loop" /\ Unlocks(c) /\ started' = started
         /\ \/ run' = run
            \/ run[t].phase = "none" /\ run' = Dispatched(t, TRUE)
  BY <1>4 DEF Continues
<1>8. run' = run \/ (op[c].kind \in LoopKinds /\ run' = Dispatched(t, TRUE))
  BY <1>7
<1>9. /\ run' \in [Task -> RunRecord]
      /\ \A u \in Task : u # t => run'[u] = run[u]
      /\ \/ run'[t] = run[t]
         \/ /\ op[c].kind \in LoopKinds
            /\ run'[t].phase = "get" /\ run'[t].task = store[t]
  <2>1. run \in [Task -> RunRecord]
    BY <1>1 DEF TypeOK, RunRecord
  <2>2. CASE run' = run
    BY <2>1, <2>2
  <2>3. CASE op[c].kind \in LoopKinds /\ run' = Dispatched(t, TRUE)
    <3>1. TRUE \in BOOLEAN
      OBVIOUS
    <3>2. /\ Dispatched(t, TRUE) \in [Task -> RunRecord]
          /\ \A u \in Task : u # t => Dispatched(t, TRUE)[u] = run[u]
          /\ Dispatched(t, TRUE)[t].phase = "get"
          /\ Dispatched(t, TRUE)[t].task = store[t]
      BY <1>1, <3>1, DispatchFields
    <3>3. QED
      BY <2>3, <3>2
  <2>4. QED
    BY <1>8, <2>2, <2>3
<1>10. started' \in BOOLEAN
  BY <1>1, <1>7 DEF TypeOK
<1>11. TypedStep(c)
  BY <1>1, <1>4, <1>9, <1>10 DEF TypedStep, TypeOK
<1>12. Holds(c) \/ op[c].kind = "create"
  BY <1>1, <1>6 DEF LockInv, Locked, TaskKinds
<1>13. LockStep(c)
  <2>1. CASE Same(c) /\ tails' = tails
    BY <1>7, <1>12, <2>1 DEF LockStep, Locked, Same, TaskKinds, LoopKinds
  <2>2. CASE Unlocks(c) /\ (Over(c) \/ op'[c].pc = "loop")
    BY <2>2 DEF LockStep, Locked, Over
  <2>3. QED
    BY <1>7, <2>1, <2>2
<1>14. CallStepInv(c)
  <2>1. Positioned(c)'
    BY <1>5, <1>6, <1>7 DEF Positioned, Same, Over, TaskKinds, LoopKinds
  <2>2. op'[c].task \in {t, None} /\ op'[c].todo \subseteq op[c].todo
    BY <1>7 DEF Same, Over
  <2>3. op'[c].pc \in AtTask \/ op'[c].kind \in TaskKinds => op'[c].task \in Task
    BY <1>7 DEF Same, Over, AtTask, TaskKinds
  <2>4. /\ op'[c].kind \in {op[c].kind, "stop"}
        /\ op'[c].pc \notin {"idle", "disable", "commit"}
        /\ op'[c].kind = "create" => op'[c].cur = NoRun.task
    BY <1>5, <1>7 DEF Same, Over
  <2>5. op[c].aborted => op'[c].aborted \/ c # Boot
    <3>1. c = Boot => op[c].kind \in LoopKinds
      BY <1>5, <1>6 DEF TaskKinds, LoopKinds
    <3>2. QED
      BY <1>7, <3>1 DEF Same
  <2>6. c = Boot => \/ op'[c].kind = "start" /\ ~op'[c].aborted
                    \/ op'[c].kind = "stop" /\ op'[c].pc = "done"
    <3>1. c = Boot => op[c].kind = "start" /\ ~op[c].aborted
      BY <1>5 DEF TaskKinds, LoopKinds
    <3>2. QED
      BY <1>7, <3>1 DEF Same, Over, LoopKinds
  <2>7. op'[c].kind \in {"save", "create"} => Present(op'[c].next)
    BY <1>1, <1>7 DEF CallInv, Same, Over
  <2>8. QED
    BY <2>1, <2>2, <2>3, <2>4, <2>5, <2>6, <2>7 DEF CallStepInv
<1>15. ElsewhereStays(c, t)
  <2>1. /\ \A u \in Task : u # t =>
               /\ store'[u] = store[u] /\ run'[u] = run[u]
               /\ jobs'[u] \in {jobs[u], None} /\ armed'[u] \subseteq armed[u]
        /\ \A u \in Task : armed'[u] \subseteq {jobs'[u]}
    BY <1>2, <1>4, <1>9
  <2>2. \/ started' = started
        \/ started' = FALSE /\ c = Boot /\ op'[c].aborted
           /\ \A u \in Task : armed'[u] = {}
    BY <1>5, <1>7
  <2>3. \/ Alone(t, c)
        \/ /\ store'[t] \in {store[t], Undone} /\ run'[t] = run[t]
           /\ jobs'[t] \in {jobs[t], None}
           /\ armed'[t] \subseteq armed[t] \cup ({c} \cap {jobs[t]})
    <3>1. CASE Holds(c)
      BY <3>1, HolderIsAlone
    <3>2. CASE op[c].kind = "create"
      BY <1>2, <1>4, <1>9, <3>2 DEF LoopKinds
    <3>3. QED
      BY <1>12, <3>1, <3>2
  <2>4. QED
    BY <2>1, <2>2, <2>3 DEF ElsewhereStays
<1>16. TaskStays(c, t)
  <2>1. jobs'[t] # None =>
           /\ store'[t].ws \notin blocked
           /\ Present(store'[t]) \/ store'[t] = Undone
           /\ Enabled(store'[t]) \/ refused' \/ store'[t] = Undone
    BY <1>1, <1>4 DEF JobInv
  <2>2. /\ run'[t] = run[t] => (Wanted(t)' <=> Wanted(t))
        /\ Wanted(t)' =>
              /\ Enabled(store'[t]) \/ refused' \/ store'[t] = Undone
              /\ run'[t].phase \in {"get", "claim"} /\ Present(store'[t]) =>
                    store'[t].ws = run'[t].task.ws
    <3>1. run'[t] = run[t] => (Wanted(t)' <=> Wanted(t))
      BY DEF Wanted
    <3>2. CASE run'[t] = run[t]
      BY <1>1, <3>1, <3>2 DEF RunInv
    <3>3. CASE run'[t].phase = "get" /\ run'[t].task = store[t]
      <4>1. Wanted(t)' => Enabled(store[t])
        BY <3>3 DEF Wanted
      <4>2. QED
        BY <3>1, <3>3, <4>1
    <3>4. QED
      BY <1>9, <3>2, <3>3
  <2>3. Undoing(c)' =>
           /\ op'[c].task = t /\ armed'[t] = {} /\ ~Wanted(t)'
           /\ jobs'[t] \in IF op'[c].pc = "arm" THEN {None, c} ELSE {None}
    <3>1. Undoing(c)' =>
             /\ op[c].kind \notin LoopKinds /\ pc = "arm" /\ Same(c)
             /\ jobs'[t] = None /\ op'[c].pc \in {"rollback", "restore"}
             /\ Undoing(c)
      BY <1>6, <1>7 DEF Undoing, Over, Same, TaskKinds, LoopKinds
    <3>2. Undoing(c)' => armed'[t] = {}
      BY <1>4, <3>1 DEF Caller
    <3>3. Undoing(c)' => ~Wanted(t)'
      BY <1>1, <1>9, <2>2, <3>1 DEF QuietInv
    <3>4. QED
      BY <3>1, <3>2, <3>3 DEF Same
  <2>4. op'[c].kind \in TaskKinds => op'[c].pc \notin {"settle", "commit"}
    BY <1>7 DEF Over, TaskKinds
  <2>5. armed'[t] = {} \/ (started' /\ globallyEnabled)
    BY <1>2, <1>4, <1>7
  <2>6. store'[t].st # "absent"
    BY DEF Present
  <2>7. \/ run'[t].phase = "get"
        \/ /\ run'[t].phase = run[t].phase /\ run'[t].auto = run[t].auto
           /\ run'[t].ws = run[t].ws /\ run'[t].task = run[t].task
           /\ run[t].cancel => run'[t].cancel
    BY <1>9
  <2>8. QED
    BY <2>1, <2>2, <2>3, <2>4, <2>5, <2>6, <2>7 DEF TaskStays
<1>17. QED
  BY <1>6, <1>11, <1>13, <1>14, <1>15, <1>16, CallStepKeeps

----------------------------------------------------------------------------
(* The steps of the calls.                                                 *)

\* The end of a call.
LEMMA FinishFields ==
    ASSUME TypeOK, NEW c \in Caller, Finish(c)
    PROVE  Only(c) /\ Over(c) /\ Unlocks(c)
BY DoneFields, ReleaseFields DEF Finish

\* A loop that passes over its task releases the lock.
LEMMA LoopFields ==
    ASSUME TypeOK, NEW c \in Caller, At(c, "loop"), Release(c)
    PROVE  Only(c) /\ Same(c) /\ op'[c].pc = "loop" /\ Unlocks(c)
BY AtFields, ReleaseFields DEF Points

\* A call at a point that is about its task: the task exists, except for the
\* call that is about to create it.
LEMMA TaskOfCall ==
    ASSUME IInv, NEW c \in Caller,
           op[c].pc \in AtTask \/ (op[c].pc = "settle" /\ op[c].kind \in TaskKinds)
    PROVE  /\ op[c].task \in Task
           /\ op[c].kind \in TaskKinds \cup LoopKinds \cup {"create"}
           /\ op[c].pc # "commit" \/ op[c].kind # "create" =>
                 store[op[c].task].st # "absent"
           /\ op[c].pc = "commit" /\ op[c].kind = "create" =>
                 store[op[c].task].st = "absent"
           /\ op[c].kind # "create" /\ op[c].pc # "lock" => Holds(c)
           /\ Holds(c) \/ (op[c].kind = "create" /\ op[c].pc = "commit") =>
                 Alone(op[c].task, c)
<1>1. op[c].task \in Task /\ Positioned(c) /\ op[c].kind \in Kinds
  BY DEF IInv, CallInv, TypeOK
<1>2. op[c].kind \in TaskKinds \cup LoopKinds \cup {"create"}
  BY <1>1 DEF Kinds, Positioned, AtTask, TaskKinds, LoopKinds
<1>3. op[c].kind = "create" => op[c].pc \in {"commit", "rollback", "arm"}
  BY <1>1 DEF Positioned
<1>4. /\ op[c].pc # "commit" \/ op[c].kind # "create" =>
            store[op[c].task].st # "absent"
      /\ op[c].pc = "commit" /\ op[c].kind = "create" =>
            store[op[c].task].st = "absent"
  BY <1>1, <1>3 DEF IInv, AbsentInv
<1>5. op[c].kind # "create" /\ op[c].pc # "lock" => Holds(c)
  BY <1>2 DEF IInv, LockInv, Locked, AtTask
<1>6. QED
  BY <1>1, <1>2, <1>4, <1>5, HolderIsAlone

\* A step that writes nothing leaves jobs and runs that fit.
LEMMA Unwritten ==
    ASSUME IInv, NEW t \in Task, store' = store, store[t].st # "absent",
           moved' \subseteq Task, refused' \in BOOLEAN, refused => refused',
           UNCHANGED <<globallyEnabled, setting, blocked>>
    PROVE  /\ WritesOnly(t) /\ RunFits(t)
           /\ jobs'[t] \in {jobs[t], None} => JobFits(t)
<1>1. WritesOnly(t)
  BY DEF WritesOnly, IInv, TypeOK
<1>2. RunFits(t)
  BY DEF RunFits, IInv, RunInv
<1>3. jobs'[t] \in {jobs[t], None} => JobFits(t)
  BY DEF JobFits, IInv, JobInv
<1>4. QED
  BY <1>1, <1>2, <1>3

\* Only tasks move.
LEMMA MovedFields ==
    ASSUME TypeOK, NEW t \in Task
    PROVE  Moved(t) \subseteq Task
BY DEF Moved, TypeOK

\* A call that is over without having done anything.
LEMMA PlainEnd ==
    ASSUME IInv, NEW c \in Caller, NEW t \in Task, op[c].task = t,
           op[c].kind \in TaskKinds \cup LoopKinds \cup {"create"},
           op[c].kind # "start", Finish(c),
           store[t].st # "absent", UNCHANGED <<store, Schedules, run, started>>,
           moved' \subseteq Task, refused' \in BOOLEAN, refused => refused',
           UNCHANGED <<globallyEnabled, setting, blocked>>
    PROVE  IInv'
<1>1. TypeOK
  BY DEF IInv
<1>2. jobs'[t] \in {jobs[t], None}
  BY DEF Schedules
<1>3. WritesOnly(t) /\ RunFits(t) /\ JobFits(t)
  BY <1>2, Unwritten
<1>4. Only(c) /\ Over(c) /\ Unlocks(c)
  BY <1>1, FinishFields
<1>5. store'[t] \in {store[t], Undone}
  OBVIOUS
<1>6. QED
  BY <1>3, <1>4, <1>5, EndKeeps

\* The loop schedules its task as it is now, or passes over it.
LEMMA ScheduleLatestKeeps ==
    ASSUME IInv, NEW c \in Caller, ScheduleLatest(c)
    PROVE  IInv'
<1> DEFINE t == op[c].task
<1>1. TypeOK
  BY DEF IInv
<1>2. /\ op[c].pc = "lock" /\ Holds(c) /\ op[c].kind \in LoopKinds
      /\ UNCHANGED <<store, moved, refused, globallyEnabled, setting, blocked>>
  BY DEF ScheduleLatest, Store
<1>3. t \in Task /\ store[t].st # "absent" /\ Alone(t, c)
  BY <1>2, TaskOfCall DEF AtTask
<1>4. /\ moved' \subseteq Task /\ refused' \in BOOLEAN /\ (refused => refused')
      /\ store' \in [Task -> TaskRecord]
  BY <1>1, <1>2 DEF TypeOK
<1>5. WritesOnly(t) /\ RunFits(t)
  BY <1>2, <1>3, <1>4, Unwritten
<1>6. CASE Schedule(c, store[t], "arm")
  <2>1. /\ op[c].pc # "idle" /\ "arm" \in {"arm", "rearm"}
        /\ op[c].kind \notin {"save", "resume"}
    BY <1>2 DEF LoopKinds
  <2>2. /\ store'[t] = store[t] /\ \A u \in Task : u # t => store'[u] = store[u]
        /\ store'[t].st # "absent"
    BY <1>2, <1>3
  <2>3. /\ Wanted(t) =>
             /\ Enabled(store'[t]) \/ refused' \/ store'[t] = Undone
             /\ Present(store'[t]) =>
                   Present(store[t]) /\ store'[t].ws = store[t].ws
    BY <1>5 DEF RunFits
  <2>4. QED
    BY <1>2, <1>3, <1>4, <1>6, <2>1, <2>2, <2>3, ScheduleKeeps
<1>7. CASE At(c, "loop") /\ Release(c) /\ UNCHANGED <<Schedules, run, started>>
  <2>1. Only(c) /\ Same(c) /\ op'[c].pc = "loop" /\ Unlocks(c)
    BY <1>1, <1>7, LoopFields
  <2>2. JobFits(t)
    BY <1>2, <1>3, <1>4, <1>7, Unwritten DEF Schedules
  <2>3. QED
    BY <1>2, <1>3, <1>5, <1>7, <2>1, <2>2, EndKeeps
<1>8. QED
  BY <1>6, <1>7 DEF ScheduleLatest

\* schedule() after its write.
LEMMA ArmKeeps ==
    ASSUME IInv, NEW c \in Caller, Arm(c)
    PROVE  IInv'
<1> USE ScheduleServiceAssumption
<1> DEFINE t == op[c].task
<1>1. TypeOK
  BY DEF IInv
<1>2. /\ op[c].pc \in {"arm", "rearm"}
      /\ UNCHANGED <<globallyEnabled, setting, blocked>>
  BY DEF Arm
<1>3. /\ t \in Task /\ store[t].st # "absent"
      /\ Holds(c) \/ op[c].kind = "create"
      /\ op[c].kind \in TaskKinds \cup LoopKinds \cup {"create"}
  BY <1>2, TaskOfCall DEF AtTask
<1>4. CASE /\ Present(store[t]) /\ moved' = Moved(t)
           /\ Scheduled(c, op[c].pc, jobs, [armed EXCEPT ![t] = @ \cup Resumed(c, t)])
           /\ UNCHANGED <<store, refused>>
  <2>1. moved' \subseteq Task
    BY <1>1, <1>3, <1>4, MovedFields
  <2>2. QED
    BY <1>2, <1>3, <1>4, <2>1, ArmedKeeps
<1>5. CASE /\ \/ Present(store[t]) /\ WriteFails
              \/ ~Present(store[t]) /\ refused' = TRUE
           /\ op[c].kind = "start" /\ StopJobs({t}) /\ At(c, "disable")
           /\ UNCHANGED <<tails, store, moved, run, started>>
  <2>1. Only(c) /\ Same(c) /\ op'[c].pc = "disable"
    BY <1>1, <1>5, AtFields DEF Points
  <2>2. MayStop(t)
    BY <1>5 DEF MayStop
  <2>3. jobs'[t] \in {jobs[t], None}
    BY <1>3, <1>5 DEF StopJobs
  <2>4. refused' = TRUE /\ moved' \subseteq Task
    BY <1>1, <1>5 DEF WriteFails, TypeOK
  <2>5. WritesOnly(t) /\ RunFits(t) /\ JobFits(t)
    BY <1>2, <1>3, <1>5, <2>3, <2>4, Unwritten
  <2>6. Positioned(c)'
    BY <1>5, <2>1 DEF Positioned, Same
  <2>7. ~Undoing(c)' /\ op[c].kind \notin TaskKinds \cup {"create"}
    BY <1>5, <2>1 DEF Undoing, Same, TaskKinds
  <2>8. Holds(c)
    BY <1>3, <1>5
  <2>9. op[c].pc # "idle"
    BY <1>2
  <2>10. QED
    BY <1>3, <1>5, <2>1, <2>2, <2>4, <2>5, <2>6, <2>7, <2>8, <2>9, MoveKeeps DEF Same
<1>6. CASE /\ \/ Present(store[t]) /\ WriteFails
              \/ ~Present(store[t]) /\ refused' = TRUE
           /\ op[c].kind # "start" /\ Finish(c) /\ UNCHANGED Schedules
           /\ UNCHANGED <<store, moved, run, started>>
  <2>1. refused' \in BOOLEAN /\ (refused => refused') /\ moved' \subseteq Task
    BY <1>1, <1>6 DEF WriteFails, TypeOK
  <2>2. QED
    BY <1>2, <1>3, <1>6, <2>1, PlainEnd
<1>7. QED
  BY <1>4, <1>5, <1>6 DEF Arm

\* A write that throws is remembered.
LEMMA RefusedFields ==
    ASSUME TypeOK, WriteFails \/ UNCHANGED refused
    PROVE  refused' \in BOOLEAN /\ (refused => refused')
<1>1. CASE WriteFails
  <2>1. refused' = TRUE
    BY <1>1 DEF WriteFails
  <2>2. QED
    BY <2>1
<1>2. CASE UNCHANGED refused
  BY <1>2 DEF TypeOK
<1>3. QED
  BY <1>1, <1>2

\* What a write of a task's `enabled` changes.
LEMMA EnabledFields ==
    ASSUME TypeOK, NEW t \in Task, NEW e \in BOOLEAN,
           store' = [store EXCEPT ![t].enabled = e]
    PROVE  /\ store' \in [Task -> TaskRecord]
           /\ store'[t].st = store[t].st /\ store'[t].ws = store[t].ws
           /\ store'[t].enabled = e
           /\ \A u \in Task : u # t => store'[u] = store[u]
<1>1. store[t] \in TaskRecord /\ store \in [Task -> TaskRecord]
  BY DEF TypeOK
<1>2. ASSUME NEW record \in TaskRecord
      PROVE  /\ [record EXCEPT !.enabled = e] \in TaskRecord
             /\ [record EXCEPT !.enabled = e].st = record.st
             /\ [record EXCEPT !.enabled = e].ws = record.ws
             /\ [record EXCEPT !.enabled = e].enabled = e
  BY DEF TaskRecord
<1>3. store' = [store EXCEPT ![t] = [store[t] EXCEPT !.enabled = e]]
  OBVIOUS
<1> DEFINE after == [store[t] EXCEPT !.enabled = e]
<1>4. after \in TaskRecord /\ after.st = store[t].st /\ after.ws = store[t].ws
      /\ after.enabled = e
  BY <1>1, <1>2
<1> HIDE DEF after
<1>5. store' = [store EXCEPT ![t] = after]
  BY <1>3 DEF after
<1>6. QED
  BY <1>1, <1>4, <1>5

\* What a removal changes.
LEMMA RemovedFields ==
    ASSUME TypeOK, NEW t \in Task,
           store' = [store EXCEPT ![t].st = "removed"]
    PROVE  /\ store' \in [Task -> TaskRecord]
           /\ store'[t].st = "removed"
           /\ \A u \in Task : u # t => store'[u] = store[u]
<1>1. store[t] \in TaskRecord /\ store \in [Task -> TaskRecord]
  BY DEF TypeOK
<1> DEFINE after == [store[t] EXCEPT !.st = "removed"]
<1>2. after \in TaskRecord /\ after.st = "removed"
  BY <1>1 DEF TaskRecord
<1>3. store' = [store EXCEPT ![t] = after]
  OBVIOUS
<1> HIDE DEF after
<1>4. QED
  BY <1>1, <1>2, <1>3

\* start() disables the task it could not schedule, or gives up.
LEMMA DisableKeeps ==
    ASSUME IInv, NEW c \in Caller, NEW t \in Task, op[c].task = t, Disable(c)
    PROVE  IInv'
<1> USE ScheduleServiceAssumption
<1>1. TypeOK /\ ArmedIsCurrent /\ CallInv
  BY DEF IInv
<1>2. /\ op[c].pc = "disable"
      /\ UNCHANGED <<globallyEnabled, setting, blocked, run>>
  BY DEF Disable
<1>3. /\ store[t].st # "absent" /\ Alone(t, c) /\ Holds(c)
      /\ op[c].kind = "start" /\ c = Boot /\ refused
  <2>1. Positioned(c) /\ op[c].kind \in Kinds
    BY <1>1 DEF CallInv, TypeOK
  <2>2. op[c].kind = "start" /\ c = Boot /\ refused
    BY <1>1, <1>2, <2>1 DEF Positioned, Kinds, TaskKinds, LoopKinds, CallInv
  <2>3. QED
    BY <1>2, <2>2, TaskOfCall DEF AtTask
<1>4. CASE /\ Present(store[t]) /\ store' = [store EXCEPT ![t].enabled = FALSE]
           /\ moved' = Moved(t) /\ At(c, "loop") /\ Release(c)
           /\ UNCHANGED <<refused, started, Schedules>>
  <2>1. Only(c) /\ Same(c) /\ op'[c].pc = "loop" /\ Unlocks(c)
    BY <1>1, <1>4, LoopFields
  <2>2. moved' \subseteq Task
    BY <1>1, <1>3, <1>4, MovedFields
  <2>3. /\ store' \in [Task -> TaskRecord]
        /\ store'[t].st = store[t].st /\ store'[t].ws = store[t].ws
        /\ \A u \in Task : u # t => store'[u] = store[u]
    BY <1>1, <1>4, EnabledFields
  <2>4. WritesOnly(t)
    BY <1>1, <1>2, <1>3, <1>4, <2>2, <2>3 DEF WritesOnly, TypeOK
  <2>5. JobFits(t)
    BY <1>2, <1>3, <1>4, <2>3 DEF JobFits, Schedules, Present, IInv, JobInv
  <2>6. RunFits(t)
    BY <1>3, <1>4, <2>3 DEF RunFits
  <2>7. op[c].kind \in LoopKinds
    BY <1>3 DEF LoopKinds
  <2>8. QED
    BY <1>2, <1>3, <1>4, <2>1, <2>4, <2>5, <2>6, <2>7, EndKeeps
<1>5. CASE /\ \/ Present(store[t]) /\ WriteFails
              \/ ~Present(store[t]) /\ UNCHANGED refused
           /\ GiveUp(c) /\ UNCHANGED <<store, moved>>
  <2>1. /\ Only(c) /\ Over(c) /\ op'[c].aborted = TRUE /\ Unlocks(c)
        /\ started' = FALSE
        /\ jobs' \in [Task -> Caller \cup {None}]
        /\ armed' \in [Task -> SUBSET Caller]
        /\ \A u \in Task : jobs'[u] = None /\ armed'[u] = {}
    BY <1>1, <1>5, GiveUpFields
  <2>2. /\ refused' \in BOOLEAN /\ (refused => refused') /\ moved' \subseteq Task
    BY <1>1, <1>5, RefusedFields DEF TypeOK
  <2>3. TypedStep(c)
    BY <1>1, <1>2, <1>5, <2>1, <2>2 DEF TypedStep, TypeOK, RunRecord
  <2>4. LockStep(c)
    BY <2>1 DEF LockStep, Locked, Over
  <2>5. CallStepInv(c)
    BY <2>1 DEF CallStepInv, Over, Positioned, TaskKinds, AtTask
  <2>6. ElsewhereStays(c, t)
    BY <1>2, <1>3, <1>5, <2>1 DEF ElsewhereStays
  <2>7. TaskStays(c, t)
    <3>1. Wanted(t)' <=> Wanted(t)
      BY <1>2 DEF Wanted
    <3>2. RunInv
      BY DEF IInv
    <3>3. ~Undoing(c)'
      BY <2>1 DEF Undoing, Over
    <3>4. Wanted(t)' =>
             /\ Enabled(store'[t]) \/ refused' \/ store'[t] = Undone
             /\ run'[t].phase \in {"get", "claim"} /\ Present(store'[t]) =>
                   store'[t].ws = run'[t].task.ws
      BY <1>2, <1>3, <1>5, <2>2, <3>1, <3>2 DEF RunInv
    <3>5. QED
      BY <1>2, <1>3, <1>5, <2>1, <3>3, <3>4 DEF TaskStays, Over
  <2>8. op[c].kind # "cancelWorkspace"
    BY <1>3
  <2>9. QED
    BY <2>3, <2>4, <2>5, <2>6, <2>7, <2>8, CallStepKeeps
<1>6. QED
  BY <1>4, <1>5 DEF Disable

\* The call has the lock: it ends if it is aborted, or quiesces its task.
LEMMA AcquireKeeps ==
    ASSUME IInv, NEW c \in Caller, NEW t \in Task, op[c].task = t, Acquire(c)
    PROVE  IInv'
<1> USE ScheduleServiceAssumption
<1>1. TypeOK /\ ArmedIsCurrent /\ CallInv /\ JobInv /\ RunInv
  BY DEF IInv
<1>2. /\ op[c].pc = "lock" /\ Holds(c) /\ op[c].kind \in TaskKinds
      /\ UNCHANGED <<store, moved, refused, started, globallyEnabled, setting, blocked>>
  BY DEF Acquire, Store, Service
<1>3. store[t].st # "absent" /\ Alone(t, c)
  BY <1>2, TaskOfCall DEF AtTask
<1>4. /\ moved' \subseteq Task /\ refused' \in BOOLEAN /\ (refused => refused')
      /\ op[c].kind \in TaskKinds \cup LoopKinds \cup {"create"}
      /\ op[c].kind # "start" /\ op[c].kind \notin {"create"}
      /\ op[c] \in CallRecord
  BY <1>1, <1>2 DEF TypeOK, TaskKinds, CallRecord
<1>5. WritesOnly(t) /\ RunFits(t) /\ (jobs'[t] \in {jobs[t], None} => JobFits(t))
  BY <1>2, <1>3, <1>4, Unwritten
<1>6. CASE Finish(c) /\ UNCHANGED <<Schedules, run>>
  BY <1>2, <1>3, <1>4, <1>6, PlainEnd
<1>7. CASE op[c].kind # "resume" /\ Quiesce(c, store[t])
  <2> DEFINE record == [op[c] EXCEPT !.cur = store[t], !.pc = "settle",
                                     !.waits = {t} \cap Running]
  <2>1. store[t] \in TaskRecord /\ "settle" \in Points /\ {t} \cap Running \subseteq Task
    BY <1>1, <1>3 DEF TypeOK, Points
  <2>2. /\ record \in CallRecord
        /\ record.kind = op[c].kind /\ record.task = t /\ record.pc = "settle"
        /\ record.cur = store[t] /\ record.todo = op[c].todo
        /\ record.aborted = op[c].aborted /\ record.next = op[c].next
    BY <1>4, <2>1 DEF CallRecord
  <2>3. op' = [op EXCEPT ![c] = record]
    BY <1>7 DEF Quiesce
  <2> HIDE DEF record
  <2>4. Only(c) /\ op'[c] = record
    BY <1>1, <2>2, <2>3, BeginFields
  <2>5. MayStop(t) /\ StopJobs({t}) /\ tails' = tails /\ run' = Cancelled({t})
    BY <1>7 DEF MayStop, Quiesce
  <2>6. jobs'[t] = None /\ armed'[t] = {}
    BY <1>1, <1>3, <2>5, StopFields
  <2>7. JobFits(t)
    BY <1>5, <2>6
  <2>8. Positioned(c)'
    BY <1>2, <1>7, <2>2, <2>4 DEF Positioned, TaskKinds
  <2>9. ~Wanted(t)'
    <3>1. t \in {t} /\ (run[t].phase # "none" => run'[t].cancel)
          /\ run'[t].phase = run[t].phase
      BY <1>1, <2>5, CancelFields
    <3>2. QED
      BY <3>1 DEF Wanted
  <2>10. QED
    BY <1>2, <1>3, <1>4, <1>5, <2>2, <2>4, <2>5, <2>6, <2>7, <2>8, <2>9, MoveKeeps
<1>8. CASE /\ op[c].kind = "resume"
           /\ op' = [op EXCEPT ![c].cur = store[t], ![c].pc = "commit"]
           /\ UNCHANGED <<Schedules, run, tails>>
  <2> DEFINE record == [op[c] EXCEPT !.cur = store[t], !.pc = "commit"]
  <2>1. store[t] \in TaskRecord /\ "commit" \in Points
    BY <1>1, <1>3 DEF TypeOK, Points
  <2>2. /\ record \in CallRecord
        /\ record.kind = op[c].kind /\ record.task = t /\ record.pc = "commit"
        /\ record.cur = store[t] /\ record.todo = op[c].todo
        /\ record.aborted = op[c].aborted /\ record.next = op[c].next
    BY <1>4, <2>1 DEF CallRecord
  <2>3. op' = [op EXCEPT ![c] = record]
    BY <1>8
  <2> HIDE DEF record
  <2>4. Only(c) /\ op'[c] = record
    BY <1>1, <2>2, <2>3, BeginFields
  <2>5. MayStop(t) /\ jobs' = jobs /\ armed' = armed /\ run' = run
    BY <1>8 DEF MayStop, Schedules
  <2>6. JobFits(t)
    BY <1>5, <2>5
  <2>7. Positioned(c)'
    BY <1>8, <2>2, <2>4 DEF Positioned
  <2>8. Undoing(c)' => ~store[t].enabled /\ ~refused /\ Present(store[t])
    BY <1>2, <1>8, <2>2, <2>4 DEF Undoing
  <2>9. Undoing(c)' => store[t] # Undone /\ ~Enabled(store[t])
    <3>1. Undone.st # "present"
      BY DEF Undone, NoRun
    <3>2. QED
      BY <2>8, <3>1 DEF Present, Enabled
  <2>10. Undoing(c)' => jobs'[t] = None /\ armed'[t] = {}
    BY <1>1, <1>3, <2>5, <2>8, <2>9 DEF JobInv, ArmedIsCurrent, TypeOK, Caller
  <2>11. Undoing(c)' => ~Wanted(t)'
    <3>1. Wanted(t)' <=> Wanted(t)
      BY <2>5 DEF Wanted
    <3>2. QED
      BY <1>1, <1>3, <2>8, <2>9, <3>1 DEF RunInv
  <2>12. QED
    BY <1>2, <1>3, <1>4, <1>5, <1>8, <2>2, <2>4, <2>5, <2>6, <2>7, <2>10, <2>11, MoveKeeps
<1>9. QED
  BY <1>6, <1>7, <1>8 DEF Acquire

\* A call that undoes, or is about to do, leaves no job and no automatic run.
LEMMA QuietTask ==
    ASSUME IInv, NEW c \in Caller, NEW t \in Task, op[c].task = t,
           Undoing(c), op[c].pc # "arm"
    PROVE  armed[t] = {} /\ jobs[t] = None /\ ~Wanted(t)
BY DEF IInv, QuietInv

\* A call that is over with nothing done, and none waiting through it.
LEMMA OverKeeps ==
    ASSUME IInv, NEW c \in Caller, op[c].pc \notin {"idle", "done"},
           Only(c), Over(c), Unlocks(c),
           op[c].kind = "cancelWorkspace" => op[c].waits = {},
           UNCHANGED <<store, moved, refused, jobs, armed, run, started,
                       globallyEnabled, setting, blocked>>
    PROVE  IInv'
<1> USE ScheduleServiceAssumption
<1>1. /\ \A d \in Caller : d # c => op'[d] = op[d]
      /\ op'[c].kind = "stop" /\ op'[c].task = None /\ op'[c].pc = "done"
      /\ op'[c].cur = NoRun.task /\ op'[c].todo = {} /\ op'[c].waits = {}
  BY DEF Only, Over
<1>2. c = Boot => ~op[c].aborted
  BY DEF IInv, CallInv
<1>3. LockInv' /\ tails' \in [Task -> Seq(Caller)]
  <2>1. ~Locked(c)'
    BY <1>1 DEF Locked
  <2>2. QED
    BY <2>1, LockKept
<1>4. TypeOK'
  BY <1>3 DEF IInv, TypeOK, Only, CallRecord
<1>5. CallInv'
  BY <1>1 DEF IInv, CallInv, Positioned, AtTask, TaskKinds
<1>6. AbsentInv'
  <2>1. \A u \in Task : u # None
    OBVIOUS
  <2>2. AbsentInv
    BY DEF IInv
  <2>3. \A d \in Caller : op'[d].kind = "create" => d # c
    BY <1>1
  <2>4. \A u \in Task, d \in Caller : /\ u \in op'[d].todo => u \in op[d].todo /\ d # c
                                     /\ op'[d].task = u => d # c
    BY <1>1, <2>1
  <2>5. \A u \in Task : store'[u].st = "absent" =>
           /\ jobs'[u] = None /\ run'[u].phase = "none"
           /\ \A d \in Caller : /\ u \notin op'[d].todo
                                /\ op'[d].task = u => op'[d].kind = "create"
    BY <1>1, <2>2, <2>4 DEF AbsentInv
  <2>6. ASSUME NEW a \in Caller, op'[a].kind = "create"
        PROVE  /\ op'[a].pc = "commit" =>
                     /\ store'[op'[a].task].st = "absent"
                     /\ \A d \in Caller : op'[d].task = op'[a].task => d = a
               /\ op'[a].pc \in {"arm", "rollback"} =>
                     store'[op'[a].task].st # "absent"
    <3>1. a # c /\ op'[a] = op[a]
      BY <1>1, <2>3, <2>6
    <3>2. op[a].pc = "commit" => op[a].task \in Task
      BY <2>6 DEF IInv, CallInv, AtTask
    <3>3. op[a].pc = "commit" => \A d \in Caller : op'[d].task = op[a].task => d = a
      BY <1>1, <2>1, <2>2, <2>6, <3>1, <3>2 DEF AbsentInv
    <3>4. QED
      BY <2>2, <2>6, <3>1, <3>3 DEF AbsentInv
  <2>7. QED
    BY <2>5, <2>6 DEF AbsentInv
<1>7. FreshInv'
  BY <1>1 DEF IInv, FreshInv, TaskKinds
<1>8. ArmedIsCurrent'
  BY DEF IInv, ArmedIsCurrent, Armed
<1>9. JobInv'
  BY DEF IInv, JobInv
<1>10. \A u : Wanted(u)' <=> Wanted(u)
  BY DEF Wanted
<1>11. QuietInv'
  <2>1. \A d \in Caller : Undoing(d)' => Undoing(d) /\ d # c
    BY <1>1 DEF Undoing
  <2>2. QED
    BY <1>1, <1>10, <2>1 DEF IInv, QuietInv
<1>12. RunInv'
  <2>1. started \/ StartGaveUp => started' \/ StartGaveUp'
    BY <1>1, <1>2 DEF StartGaveUp, Caller
  <2>2. QED
    BY <1>10, <2>1 DEF IInv, RunInv
<1>13. WaitInv'
  <2>1. \A d \in Call : \A u : op[d].kind = "cancelWorkspace" /\ u \in op[d].waits => d # c
    OBVIOUS
  <2>2. QED
    BY <1>1, <2>1 DEF IInv, WaitInv, Caller
<1>14. QED
  BY <1>3, <1>4, <1>5, <1>6, <1>7, <1>8, <1>9, <1>11, <1>12, <1>13 DEF IInv

\* An edit that is refused puts the job back.
LEMMA RescheduleKeeps ==
    ASSUME IInv, NEW c \in Caller, NEW t \in Task, op[c].task = t,
           op[c].pc \in {"settle", "commit"}, op[c].kind \in {"save", "create"},
           RescheduleCurrent(c),
           UNCHANGED <<store, moved, refused, globallyEnabled, setting, blocked>>
    PROVE  IInv'
<1>1. TypeOK /\ CallInv
  BY DEF IInv
<1>2. /\ op[c].kind = "create" => op[c].pc = "commit"
      /\ op[c].kind = "save" => op[c].kind \in TaskKinds
      /\ op[c].pc \notin {"idle", "done"} /\ op[c].kind # "cancelWorkspace"
  BY <1>1 DEF CallInv, Positioned, TaskKinds
<1>3. op[c].kind = "save" => Holds(c) /\ store[t].st # "absent"
  BY <1>2, TaskOfCall DEF AtTask
<1>4. CASE op[c].kind = "save" /\ Present(store[t]) /\ Schedule(c, store[t], "rearm")
  <2>1. /\ store' \in [Task -> TaskRecord] /\ moved' \subseteq Task
        /\ refused' \in BOOLEAN /\ (refused => refused')
        /\ \A u \in Task : u # t => store'[u] = store[u]
        /\ store'[t].st # "absent" /\ store'[t] = store[t]
    BY <1>1, <1>3, <1>4 DEF TypeOK
  <2>2. ~Wanted(t)
    BY <1>4, QuietTask DEF Undoing
  <2>3. Holds(c) /\ "rearm" \in {"arm", "rearm"} /\ op[c].kind \in TaskKinds
        /\ op[c].kind \notin LoopKinds /\ op[c].pc # "idle"
    BY <1>2, <1>3, <1>4 DEF LoopKinds
  <2>4. QED
    BY <1>4, <2>1, <2>2, <2>3, ScheduleKeeps
<1>5. CASE Finish(c) /\ UNCHANGED <<jobs, armed, run, started>>
  <2>1. Only(c) /\ Over(c) /\ Unlocks(c)
    BY <1>1, <1>5, FinishFields
  <2>2. QED
    BY <1>2, <1>5, <2>1, OverKeeps
<1>6. QED
  BY <1>4, <1>5 DEF RescheduleCurrent

\* The cancelled runs are over.
LEMMA SettledKeeps ==
    ASSUME IInv, NEW c \in Caller, Settled(c)
    PROVE  IInv'
<1> USE ScheduleServiceAssumption
<1>1. TypeOK /\ CallInv
  BY DEF IInv
<1>2. /\ op[c].pc = "settle" /\ (op[c].waits = {} \/ op[c].kind = "stop")
      /\ UNCHANGED <<store, moved, refused, globallyEnabled, setting, blocked>>
  BY DEF Settled, Store
<1>3. CASE /\ op[c].kind \notin TaskKinds
            /\ Done(c) /\ UNCHANGED <<tails, Schedules, run, started>>
  <2>1. Only(c) /\ Over(c) /\ Unlocks(c)
    BY <1>1, <1>3, DoneFields DEF Unlocks, TypeOK
  <2>2. QED
    BY <1>2, <1>3, <2>1, OverKeeps DEF Schedules
<1>4. CASE op[c].kind \in TaskKinds
  <2>1. PICK t \in Task : op[c].task = t
    BY <1>2, <1>4, TaskOfCall
  <2>2. /\ Holds(c) /\ store[t].st # "absent"
        /\ op[c].kind \in {"save", "pause", "remove"}
        /\ op[c].kind \notin LoopKinds /\ op[c].kind # "start"
        /\ op[c].pc # "idle"
    BY <1>1, <1>2, <1>4, <2>1, TaskOfCall DEF CallInv, Positioned, TaskKinds, LoopKinds
  <2>3. armed[t] = {} /\ jobs[t] = None /\ ~Wanted(t)
    BY <1>2, <2>1, <2>2, QuietTask DEF Undoing
  <2>4. store[t] \in {op[c].cur, Undone}
    BY <1>2, <1>4, <2>1 DEF IInv, FreshInv
  <2>5. /\ store' \in [Task -> TaskRecord] /\ moved' \subseteq Task
        /\ refused' \in BOOLEAN /\ (refused => refused')
        /\ \A u \in Task : u # t => store'[u] = store[u]
        /\ store'[t].st # "absent" /\ store'[t] = store[t]
    BY <1>1, <1>2, <2>2 DEF TypeOK
  <2>6. CASE At(c, "commit") /\ UNCHANGED <<tails, Schedules, run, started>>
    <3>1. Only(c) /\ Same(c) /\ op'[c].pc = "commit"
      BY <1>1, <2>6, AtFields DEF Points
    <3>2. MayStop(t) /\ jobs' = jobs /\ armed' = armed /\ run' = run
      BY <2>6 DEF MayStop, Schedules
    <3>3. WritesOnly(t) /\ RunFits(t) /\ JobFits(t)
      BY <1>2, <2>2, <2>5, <3>2, Unwritten
    <3>4. Positioned(c)'
      BY <2>2, <3>1 DEF Positioned, Same
    <3>5. ~Wanted(t)'
      BY <2>3, <3>2 DEF Wanted
    <3>6. op[c].kind # "create"
      BY <2>2
    <3>7. QED
      BY <1>2, <1>4, <2>1, <2>2, <2>3, <2>4, <2>5, <2>6, <3>1, <3>2, <3>3, <3>4, <3>5,
         <3>6, MoveKeeps DEF Same
  <2>7. CASE op[c].kind = "save" /\ RescheduleCurrent(c)
    BY <1>2, <2>1, <2>7, RescheduleKeeps
  <2>8. CASE Schedule(c, op[c].cur, "rearm")
    <3>1. "rearm" \in {"arm", "rearm"} /\ (op[c].cur = store'[t] \/ store'[t] = Undone)
      BY <2>4, <2>5
    <3>2. QED
      BY <1>2, <1>4, <2>1, <2>2, <2>3, <2>5, <2>8, <3>1, ScheduleKeeps
  <2>9. CASE Finish(c) /\ UNCHANGED <<Schedules, run, started>>
    BY <1>2, <1>4, <2>1, <2>2, <2>5, <2>9, PlainEnd
  <2>10. QED
    BY <1>4, <2>6, <2>7, <2>8, <2>9 DEF Settled
<1>5. QED
  BY <1>3, <1>4 DEF Settled, TaskKinds

\* saveWithRollback().
LEMMA SaveKeeps ==
    ASSUME IInv, NEW c \in Caller, NEW t \in Task, op[c].task = t, Save(c)
    PROVE  IInv'
<1> USE ScheduleServiceAssumption
<1>1. TypeOK /\ CallInv
  BY DEF IInv
<1>2. /\ op[c].pc = "commit" /\ op[c].kind \in {"save", "create"}
      /\ UNCHANGED <<moved, refused, globallyEnabled, setting, blocked>>
  BY DEF Save
<1>3. CASE UNCHANGED store /\ RescheduleCurrent(c)
  BY <1>2, <1>3, RescheduleKeeps
<1>4. CASE /\ store' = [store EXCEPT ![t] = op[c].next]
           /\ IF op[c].aborted
              THEN At(c, "rollback") /\ UNCHANGED <<tails, Schedules, run, started>>
              ELSE Schedule(c, op[c].next, "arm")
  <2>1. Holds(c) \/ (op[c].kind = "create" /\ op[c].pc = "commit")
    BY <1>2, TaskOfCall DEF AtTask
  <2>2. armed[t] = {} /\ jobs[t] = None /\ ~Wanted(t)
    <3>1. CASE op[c].kind = "save"
      BY <1>2, <3>1, QuietTask DEF Undoing
    <3>2. CASE op[c].kind = "create"
      BY <1>2, <3>2 DEF IInv, AbsentInv, ArmedIsCurrent, TypeOK, Wanted, Caller
    <3>3. QED
      BY <1>2, <3>1, <3>2
  <2>3. Present(op[c].next) /\ op[c].next \in TaskRecord
    BY <1>1, <1>2 DEF CallInv, TypeOK
  <2>4. /\ store' \in [Task -> TaskRecord] /\ store'[t] = op[c].next
        /\ \A u \in Task : u # t => store'[u] = store[u]
        /\ store'[t].st # "absent" /\ Present(store'[t])
    BY <1>1, <1>4, <2>3 DEF TypeOK, Present
  <2>5. moved' \subseteq Task /\ refused' \in BOOLEAN /\ (refused => refused')
    BY <1>1, <1>2 DEF TypeOK
  <2>6. op[c].kind \in TaskKinds \cup {"create"} /\ op[c].kind \notin LoopKinds
        /\ op[c].pc # "idle"
    BY <1>2 DEF TaskKinds, LoopKinds
  <2>7. CASE At(c, "rollback") /\ UNCHANGED <<tails, Schedules, run, started>>
    <3>1. Only(c) /\ Same(c) /\ op'[c].pc = "rollback"
      BY <1>1, <2>7, AtFields DEF Points
    <3>2. MayStop(t) /\ jobs' = jobs /\ armed' = armed /\ run' = run
      BY <2>7 DEF MayStop, Schedules
    <3>3. WritesOnly(t) /\ RunFits(t) /\ JobFits(t)
      BY <1>2, <2>2, <2>4, <2>5, <3>2 DEF WritesOnly, RunFits, JobFits
    <3>4. Positioned(c)'
      BY <1>2, <3>1 DEF Positioned, Same
    <3>5. ~Wanted(t)'
      BY <2>2, <3>2 DEF Wanted
    <3>6. QED
      BY <2>1, <2>2, <2>6, <2>7, <3>1, <3>2, <3>3, <3>4, <3>5, MoveKeeps DEF Same
  <2>8. CASE Schedule(c, op[c].next, "arm")
    <3>1. "arm" \in {"arm", "rearm"} /\ op[c].kind \in {"save", "resume", "create"}
      BY <1>2
    <3>2. QED
      BY <1>2, <2>1, <2>2, <2>4, <2>5, <2>6, <2>8, <3>1, ScheduleKeeps
  <2>9. QED
    BY <1>4, <2>7, <2>8
<1>5. QED
  BY <1>3, <1>4 DEF Save

\* What a rolled back save puts in the store: the task it read, or its removal.
Previous(c) == IF Present(op[c].cur) THEN op[c].cur
               ELSE [op[c].cur EXCEPT !.st = "removed"]

\* restoreIfRevision().
LEMMA RollbackKeeps ==
    ASSUME IInv, NEW c \in Caller, NEW t \in Task, op[c].task = t, Rollback(c)
    PROVE  IInv'
<1> USE ScheduleServiceAssumption
<1>1. TypeOK /\ CallInv
  BY DEF IInv
<1>2. /\ op[c].pc = "rollback" /\ moved' = moved \ {t}
      /\ UNCHANGED <<globallyEnabled, setting, blocked>>
  BY DEF Rollback
<1>3. /\ op[c].kind \in {"save", "create"} /\ store[t].st # "absent"
      /\ op[c].kind # "create" => Holds(c) /\ Alone(t, c)
  <2>1. Positioned(c) /\ op[c].kind \in Kinds
    BY <1>1 DEF CallInv, TypeOK
  <2>2. op[c].kind \in {"save", "create"}
    BY <1>2, <2>1, TaskOfCall DEF Positioned, TaskKinds, LoopKinds, AtTask
  <2>3. QED
    BY <1>2, <2>2, TaskOfCall DEF AtTask
<1>4. /\ moved' \subseteq Task /\ op[c].kind \in TaskKinds \cup LoopKinds \cup {"create"}
      /\ op[c].kind # "start" /\ op[c].kind \notin LoopKinds
      /\ op[c].pc \notin {"idle", "arm"}
  BY <1>1, <1>2, <1>3 DEF TypeOK, TaskKinds, LoopKinds
<1>5. CASE WriteFails /\ Finish(c) /\ UNCHANGED <<store, Schedules, run, started>>
  <2>1. refused' \in BOOLEAN /\ (refused => refused')
    BY <1>1, <1>5, RefusedFields
  <2>2. QED
    BY <1>2, <1>3, <1>4, <1>5, <2>1, PlainEnd
<1>6. CASE /\ store' = IF Present(store[t]) /\ t \notin moved
                       THEN [store EXCEPT ![t] = Previous(c)] ELSE store
           /\ IF op[c].kind = "save" /\ Present(store'[t])
              THEN Schedule(c, store'[t], "rearm")
              ELSE Finish(c) /\ UNCHANGED <<Schedules, run, started>>
           /\ refused' = (refused \/ t \in moved)
  <2>1. refused' \in BOOLEAN /\ (refused => refused')
    BY <1>6
  <2>2. op[c].cur \in TaskRecord
    BY <1>1 DEF TypeOK
  <2>3. /\ Previous(c) \in TaskRecord /\ Previous(c).st # "absent"
        /\ op[c].kind = "create" => Previous(c) = Undone
    <3>1. Previous(c) \in TaskRecord /\ Previous(c).st # "absent"
      BY <2>2 DEF Previous, Present, TaskRecord
    <3>2. op[c].kind = "create" => op[c].cur = NoRun.task
      BY <1>1 DEF CallInv
    <3>3. op[c].kind = "create" => Previous(c) = Undone
      BY <3>2, IdleFields DEF Previous, Undone, Present
    <3>4. QED
      BY <3>1, <3>3
  <2>4. /\ store' \in [Task -> TaskRecord] /\ store'[t].st # "absent"
        /\ \A u \in Task : u # t => store'[u] = store[u]
        /\ store'[t] \in {store[t], Previous(c)}
    BY <1>1, <1>3, <1>6, <2>3 DEF TypeOK
  <2>5. WritesOnly(t)
    BY <1>2, <1>4, <2>1, <2>4 DEF WritesOnly
  <2>6. op[c].kind = "save" => armed[t] = {} /\ jobs[t] = None /\ ~Wanted(t)
    BY <1>2, QuietTask DEF Undoing
  <2>7. CASE op[c].kind = "save" /\ Schedule(c, store'[t], "rearm")
    <3>1. "rearm" \in {"arm", "rearm"} /\ op[c].kind \in TaskKinds
      BY <2>7 DEF TaskKinds
    <3>2. QED
      BY <1>2, <1>3, <1>4, <2>1, <2>4, <2>6, <2>7, <3>1, ScheduleKeeps
  <2>8. CASE Finish(c) /\ UNCHANGED <<Schedules, run, started>>
    <3>1. Only(c) /\ Over(c) /\ Unlocks(c)
      BY <1>1, <2>8, FinishFields
    <3>2. Undone.ws = None /\ Undone.st # "present" /\ blocked \subseteq Workspace
      BY <1>1 DEF Undone, NoRun, TypeOK
    <3>3. op[c].kind = "create" => store'[t] \in {store[t], Undone}
      BY <2>3, <2>4
    <3>4. JobFits(t)
      <4>1. JobInv
        BY DEF IInv
      <4>2. CASE op[c].kind = "save"
        BY <2>6, <2>8, <4>2 DEF JobFits, Schedules
      <4>3. CASE op[c].kind = "create"
        BY <2>1, <2>8, <3>2, <3>3, <4>1, <4>3 DEF JobFits, Schedules, JobInv
      <4>4. QED
        BY <1>3, <4>2, <4>3
    <3>5. RunFits(t)
      <4>1. RunInv
        BY DEF IInv
      <4>2. QED
        BY <1>3, <2>1, <2>6, <3>2, <3>3, <4>1 DEF RunFits, RunInv, Present
    <3>6. Alone(t, c) \/ store'[t] \in {store[t], Undone}
      BY <1>3, <3>3
    <3>7. QED
      BY <1>2, <1>4, <2>5, <2>8, <3>1, <3>4, <3>5, <3>6, EndKeeps
  <2>9. QED
    BY <1>6, <2>7, <2>8
<1>7. QED
  BY <1>5, <1>6 DEF Rollback, Previous

\* A write that throws ends the call.
LEMMA WriteRefusedKeeps ==
    ASSUME IInv, NEW c \in Caller, NEW t \in Task, op[c].task = t,
           op[c].pc \in {"commit", "restore"}, op[c].kind \in TaskKinds,
           WriteRefused(c), UNCHANGED <<moved, globallyEnabled, setting, blocked>>
    PROVE  IInv'
<1>1. TypeOK
  BY DEF IInv
<1>2. refused' \in BOOLEAN /\ (refused => refused') /\ moved' \subseteq Task
  <2>1. WriteFails \/ UNCHANGED refused
    BY DEF WriteRefused
  <2>2. QED
    BY <1>1, <2>1, RefusedFields DEF TypeOK
<1>3. op[c].kind \notin {"create", "start"}
  BY DEF TaskKinds
<1>4. store[t].st # "absent"
  BY <1>3, TaskOfCall DEF AtTask
<1>5. QED
  BY <1>2, <1>3, <1>4, PlainEnd DEF WriteRefused

\* What pause, resume and remove know when they write.
LEMMA Writing ==
    ASSUME IInv, NEW c \in Caller, NEW t \in Task, op[c].task = t,
           op[c].pc \in {"commit", "restore"}, op[c].kind \in {"pause", "resume", "remove"}
    PROVE  /\ TypeOK /\ store[t].st # "absent" /\ Holds(c) /\ Alone(t, c)
           /\ op[c].kind \in TaskKinds /\ op[c].kind \notin LoopKinds
           /\ op[c].kind \notin {"start", "create"} /\ op[c].pc # "idle"
           /\ op[c].kind # "resume" => armed[t] = {} /\ jobs[t] = None /\ ~Wanted(t)
           /\ Undoing(c) => armed[t] = {} /\ jobs[t] = None /\ ~Wanted(t)
<1>1. /\ op[c].kind \in TaskKinds /\ op[c].kind \notin LoopKinds
      /\ op[c].kind \notin {"start", "create"} /\ op[c].pc # "idle"
  BY DEF TaskKinds, LoopKinds
<1>2. store[t].st # "absent" /\ Holds(c) /\ Alone(t, c)
  BY <1>1, TaskOfCall DEF AtTask
<1>3. Undoing(c) => armed[t] = {} /\ jobs[t] = None /\ ~Wanted(t)
  BY QuietTask
<1>4. op[c].kind # "resume" => Undoing(c)
  BY DEF Undoing
<1>5. QED
  BY <1>1, <1>2, <1>3, <1>4 DEF IInv

\* pause.
LEMMA PauseKeeps ==
    ASSUME IInv, NEW c \in Caller, NEW t \in Task, op[c].task = t, Pause(c)
    PROVE  IInv'
<1>1. /\ op[c].pc = "commit" /\ op[c].kind = "pause"
      /\ UNCHANGED <<moved, globallyEnabled, setting, blocked>>
  BY DEF Pause
<1>2. /\ TypeOK /\ store[t].st # "absent" /\ Holds(c) /\ Alone(t, c)
      /\ op[c].kind \in TaskKinds /\ op[c].kind \notin LoopKinds
      /\ op[c].kind \notin {"start", "create"} /\ op[c].pc # "idle"
      /\ armed[t] = {} /\ jobs[t] = None /\ ~Wanted(t)
  BY <1>1, Writing
<1>3. CASE SetEnabled(c, FALSE) /\ UNCHANGED <<Schedules, run, started>>
           /\ IF op[c].aborted THEN At(c, "restore") /\ UNCHANGED tails ELSE Finish(c)
  <2>1. /\ store' = [store EXCEPT ![t].enabled = FALSE] /\ refused' = refused
        /\ FALSE \in BOOLEAN
    BY <1>3 DEF SetEnabled
  <2>2. /\ store' \in [Task -> TaskRecord] /\ store'[t].st = store[t].st
        /\ \A u \in Task : u # t => store'[u] = store[u]
    BY <1>2, <2>1, EnabledFields
  <2>3. WritesOnly(t) /\ JobFits(t) /\ RunFits(t)
    BY <1>1, <1>2, <1>3, <2>1, <2>2 DEF WritesOnly, JobFits, RunFits, Schedules, TypeOK
  <2>4. CASE At(c, "restore") /\ UNCHANGED tails
    <3>1. Only(c) /\ Same(c) /\ op'[c].pc = "restore"
      BY <1>2, <2>4, AtFields DEF Points
    <3>2. MayStop(t) /\ jobs' = jobs /\ armed' = armed /\ run' = run
      BY <1>3 DEF MayStop, Schedules
    <3>3. Positioned(c)'
      BY <1>1, <3>1 DEF Positioned, Same
    <3>4. ~Wanted(t)'
      BY <1>2, <3>2 DEF Wanted
    <3>5. QED
      BY <1>1, <1>2, <1>3, <2>3, <2>4, <3>1, <3>2, <3>3, <3>4, MoveKeeps DEF Same
  <2>5. CASE Finish(c)
    <3>1. Only(c) /\ Over(c) /\ Unlocks(c)
      BY <1>2, <2>5, FinishFields
    <3>2. QED
      BY <1>2, <1>3, <2>3, <3>1, EndKeeps
  <2>6. QED
    BY <1>3, <2>4, <2>5
<1>4. CASE WriteRefused(c)
  BY <1>1, <1>2, <1>4, WriteRefusedKeeps
<1>5. QED
  BY <1>3, <1>4 DEF Pause

\* resume.
LEMMA ResumeKeeps ==
    ASSUME IInv, NEW c \in Caller, NEW t \in Task, op[c].task = t, Resume(c)
    PROVE  IInv'
<1>1. /\ op[c].pc = "commit" /\ op[c].kind = "resume"
      /\ UNCHANGED <<moved, globallyEnabled, setting, blocked>>
  BY DEF Resume
<1>2. /\ TypeOK /\ store[t].st # "absent" /\ Holds(c) /\ Alone(t, c)
      /\ op[c].kind \in TaskKinds /\ op[c].kind \notin LoopKinds
      /\ op[c].kind \notin {"start", "create"} /\ op[c].pc # "idle"
      /\ Undoing(c) => armed[t] = {} /\ jobs[t] = None /\ ~Wanted(t)
  BY <1>1, Writing
<1>3. CASE SetEnabled(c, TRUE) /\ IF op[c].aborted
             THEN At(c, "restore") /\ UNCHANGED <<tails, Schedules, run, started>>
             ELSE Schedule(c, store'[t], "arm")
  <2>1. /\ store' = [store EXCEPT ![t].enabled = TRUE] /\ refused' = refused
        /\ Present(store[t]) /\ TRUE \in BOOLEAN
    BY <1>3 DEF SetEnabled
  <2>2. /\ store' \in [Task -> TaskRecord] /\ store'[t].st = store[t].st
        /\ store'[t].ws = store[t].ws /\ store'[t].enabled = TRUE
        /\ \A u \in Task : u # t => store'[u] = store[u]
    BY <1>2, <2>1, EnabledFields
  <2>3. WritesOnly(t)
    BY <1>1, <1>2, <2>1, <2>2 DEF WritesOnly, TypeOK
  <2>4. Present(store'[t]) /\ Enabled(store'[t]) /\ RunFits(t)
    BY <2>1, <2>2 DEF Present, Enabled, RunFits
  <2>5. op[c].kind = "resume" /\ ~op[c].cur.enabled /\ ~refused' => Undoing(c)
    BY <1>1, <2>1 DEF Undoing
  <2>6. CASE At(c, "restore") /\ UNCHANGED <<tails, Schedules, run, started>>
    <3>1. Only(c) /\ Same(c) /\ op'[c].pc = "restore"
      BY <1>2, <2>6, AtFields DEF Points
    <3>2. MayStop(t) /\ jobs' = jobs /\ armed' = armed /\ run' = run
      BY <2>6 DEF MayStop, Schedules
    <3>3. Positioned(c)'
      BY <1>1, <3>1 DEF Positioned, Same
    <3>4. Wanted(t)' <=> Wanted(t)
      BY <3>2 DEF Wanted
    <3>5. Undoing(c)' => Undoing(c)
      BY <1>1, <2>5, <3>1 DEF Undoing, Same
    <3>6. JobFits(t)
      BY <1>1, <2>2, <2>4, <3>2 DEF JobFits, IInv, JobInv
    <3>7. QED
      BY <1>1, <1>2, <2>3, <2>4, <2>6, <3>1, <3>2, <3>3, <3>4, <3>5, <3>6, MoveKeeps
      DEF Same
  <2>7. CASE Schedule(c, store'[t], "arm")
    <3>1. "arm" \in {"arm", "rearm"} /\ op[c].kind \in {"save", "resume", "create"}
          /\ op[c].kind # "save"
      BY <1>1
    <3>2. /\ moved' \subseteq Task /\ refused' \in BOOLEAN /\ (refused => refused')
          /\ store'[t].st # "absent"
      BY <2>3 DEF WritesOnly
    <3>3. /\ store'[t] = store'[t] \/ store'[t] = Undone
          /\ op[c].kind \in LoopKinds => store'[t] = store[t]
          /\ Holds(c) \/ (op[c].kind = "create" /\ op[c].pc = "commit")
      BY <1>2
    <3>4. Wanted(t) =>
             /\ Enabled(store'[t]) \/ refused' \/ store'[t] = Undone
             /\ Present(store'[t]) => Present(store[t]) /\ store'[t].ws = store[t].ws
      BY <2>1, <2>2, <2>4
    <3>5. "arm" = "arm" /\ (\/ op[c].kind = "save"
                           \/ /\ op[c].kind = "resume" /\ ~op[c].cur.enabled
                              /\ ~refused' /\ Present(store'[t])) => ~Wanted(t)
      BY <1>2, <2>5, <3>1
    <3>6. QED
      BY <1>1, <1>2, <2>2, <2>7, <3>1, <3>2, <3>3, <3>4, <3>5, ScheduleKeeps
  <2>8. QED
    BY <1>3, <2>6, <2>7
<1>4. CASE WriteRefused(c)
  BY <1>1, <1>2, <1>4, WriteRefusedKeeps
<1>5. QED
  BY <1>3, <1>4 DEF Resume

\* An aborted pause or resume.
LEMMA RestoreKeeps ==
    ASSUME IInv, NEW c \in Caller, NEW t \in Task, op[c].task = t, Restore(c)
    PROVE  IInv'
<1>1. /\ op[c].pc = "restore" /\ op[c].kind \in {"pause", "resume"}
      /\ UNCHANGED <<moved, globallyEnabled, setting, blocked>>
  <2>1. op[c].pc = "restore" /\ Positioned(c)
    BY DEF Restore, IInv, CallInv
  <2>2. op[c].kind \in {"pause", "resume"}
    BY <2>1, TaskOfCall DEF Positioned, TaskKinds, LoopKinds, AtTask
  <2>3. QED
    BY <2>1, <2>2 DEF Restore
<1>2. /\ TypeOK /\ store[t].st # "absent" /\ Holds(c) /\ Alone(t, c)
      /\ op[c].kind \in TaskKinds /\ op[c].kind \notin LoopKinds
      /\ op[c].kind \notin {"start", "create"} /\ op[c].pc # "idle"
      /\ op[c].kind # "resume" => armed[t] = {} /\ jobs[t] = None /\ ~Wanted(t)
      /\ Undoing(c) => armed[t] = {} /\ jobs[t] = None /\ ~Wanted(t)
  BY <1>1, Writing
<1>3. CASE SetEnabled(c, op[c].cur.enabled) /\ IF op[c].cur.enabled
             THEN Schedule(c, store'[t], "rearm")
             ELSE /\ StopJobs({t}) /\ Finish(c) /\ UNCHANGED <<run, started>>
  <2>1. /\ store' = [store EXCEPT ![t].enabled = op[c].cur.enabled]
        /\ refused' = refused /\ Present(store[t]) /\ op[c].cur.enabled \in BOOLEAN
    BY <1>2, <1>3 DEF SetEnabled, TypeOK, TaskRecord
  <2>2. /\ store' \in [Task -> TaskRecord] /\ store'[t].st = store[t].st
        /\ store'[t].ws = store[t].ws /\ store'[t].enabled = op[c].cur.enabled
        /\ \A u \in Task : u # t => store'[u] = store[u]
    BY <1>2, <2>1, EnabledFields
  <2>3. WritesOnly(t)
    BY <1>1, <1>2, <2>1, <2>2 DEF WritesOnly, TypeOK
  <2>4. ~op[c].cur.enabled => ~Wanted(t) \/ refused'
    BY <1>1, <1>2, <2>1 DEF Undoing
  <2>5. Present(store'[t]) /\ RunFits(t)
    BY <2>1, <2>2, <2>4 DEF Present, Enabled, RunFits
  <2>6. CASE Schedule(c, store'[t], "rearm")
    <3>1. "rearm" \in {"arm", "rearm"}
      OBVIOUS
    <3>2. /\ moved' \subseteq Task /\ refused' \in BOOLEAN /\ (refused => refused')
          /\ store'[t].st # "absent"
      BY <2>3 DEF WritesOnly
    <3>3. /\ Wanted(t) =>
               /\ Enabled(store'[t]) \/ refused' \/ store'[t] = Undone
               /\ Present(store'[t]) =>
                     Present(store[t]) /\ store'[t].ws = store[t].ws
      BY <2>5 DEF RunFits
    <3>4. QED
      BY <1>1, <1>2, <2>2, <2>6, <3>1, <3>2, <3>3, ScheduleKeeps
  <2>7. CASE StopJobs({t}) /\ Finish(c) /\ UNCHANGED <<run, started>>
    <3>1. Only(c) /\ Over(c) /\ Unlocks(c)
      BY <1>2, <2>7, FinishFields
    <3>2. jobs'[t] = None
      BY <2>7 DEF StopJobs
    <3>3. JobFits(t)
      BY <3>2 DEF JobFits
    <3>4. QED
      BY <1>2, <2>3, <2>5, <2>7, <3>1, <3>3, EndKeeps
  <2>8. QED
    BY <1>3, <2>6, <2>7
<1>4. CASE WriteRefused(c)
  BY <1>1, <1>2, <1>4, WriteRefusedKeeps
<1>5. QED
  BY <1>3, <1>4 DEF Restore

\* remove.
LEMMA RemoveKeeps ==
    ASSUME IInv, NEW c \in Caller, NEW t \in Task, op[c].task = t, Remove(c)
    PROVE  IInv'
<1>1. /\ op[c].pc = "commit" /\ op[c].kind = "remove"
      /\ UNCHANGED <<moved, globallyEnabled, setting, blocked>>
  BY DEF Remove
<1>2. /\ TypeOK /\ store[t].st # "absent" /\ Holds(c) /\ Alone(t, c)
      /\ op[c].kind \in TaskKinds /\ op[c].kind \notin LoopKinds
      /\ op[c].kind \notin {"start", "create"} /\ op[c].pc # "idle"
      /\ armed[t] = {} /\ jobs[t] = None /\ ~Wanted(t)
  BY <1>1, Writing
<1>3. CASE /\ store' = [store EXCEPT ![t].st = "removed"] /\ Finish(c)
           /\ UNCHANGED <<refused, Schedules, run, started>>
  <2>1. /\ store' \in [Task -> TaskRecord] /\ store'[t].st = "removed"
        /\ \A u \in Task : u # t => store'[u] = store[u]
    BY <1>2, <1>3, RemovedFields
  <2>2. WritesOnly(t) /\ JobFits(t) /\ RunFits(t)
    BY <1>1, <1>2, <1>3, <2>1 DEF WritesOnly, JobFits, RunFits, Schedules, TypeOK
  <2>3. Only(c) /\ Over(c) /\ Unlocks(c)
    BY <1>2, <1>3, FinishFields
  <2>4. QED
    BY <1>2, <1>3, <2>2, <2>3, EndKeeps
<1>4. CASE WriteRefused(c)
  BY <1>1, <1>2, <1>4, WriteRefusedKeeps
<1>5. QED
  BY <1>3, <1>4 DEF Remove

----------------------------------------------------------------------------
(* Calls that begin, and loops.                                            *)

\* A call that begins, or comes to wait somewhere else than under a lock, keeps
\* the parts of the invariant that are about calls.
LEMMA BeginKeeps ==
    ASSUME IInv, NEW c \in Caller, Only(c),
           Positioned(c)', ~Locked(c)',
           op'[c].pc \in {"lock", "loop", "settle", "commit", "ready", "done"},
           op'[c].kind \in TaskKinds => op'[c].pc = "lock",
           op'[c].pc \in AtTask \/ op'[c].kind \in TaskKinds => op'[c].task \in Task,
           op'[c].kind = "start" => c = Boot,
           c = Boot => op'[c].kind = "start" /\ ~op'[c].aborted,
           op'[c].kind = "create" =>
               /\ op'[c].cur = NoRun.task /\ store[op'[c].task].st = "absent"
               /\ \A d \in Caller : op[d].task # op'[c].task,
           op'[c].task \in Task /\ op'[c].kind # "create" =>
               store[op'[c].task].st # "absent",
           op'[c].kind \in {"save", "create"} => Present(op'[c].next),
           \A u \in op'[c].todo : store[u].st # "absent",
           UNCHANGED <<store, moved, refused>>,
           \/ tails' = tails
           \/ \E t \in Task : tails' = [tails EXCEPT ![t] = Append(tails[t], c)],
           \A t \in Task : /\ jobs'[t] \in {jobs[t], None} /\ armed'[t] \subseteq armed[t]
                           /\ Wanted(t)' => Wanted(t)
                           /\ store[t].st = "absent" => run'[t].phase = run[t].phase
    PROVE  /\ tails' \in [Task -> Seq(Caller)]
           /\ CallInv' /\ LockInv' /\ AbsentInv' /\ FreshInv' /\ QuietInv'
<1> USE ScheduleServiceAssumption
<1>1. /\ \A d \in Caller : d # c => op'[d] = op[d]
      /\ CallInv /\ AbsentInv /\ FreshInv /\ QuietInv
  BY DEF Only, IInv
<1>2. LockInv' /\ tails' \in [Task -> Seq(Caller)]
  BY LockKept
<1>3. CallInv'
  BY <1>1 DEF CallInv, Positioned
<1>4. AbsentInv'
  <2>1. \A a \in Caller :
           (a # c /\ op[a].kind = "create" /\ op[a].pc \in {"commit", "arm", "rollback"}) =>
              op[a].task \in Task
    BY <1>1 DEF CallInv, AtTask
  <2>2. \A u \in Task : store'[u].st = "absent" =>
           /\ jobs'[u] = None /\ run'[u].phase = "none"
           /\ \A d \in Caller : /\ u \notin op'[d].todo
                                /\ op'[d].task = u => op'[d].kind = "create"
    BY <1>1 DEF AbsentInv
  <2>3. ASSUME NEW a \in Caller, op'[a].kind = "create"
        PROVE  /\ op'[a].pc = "commit" =>
                     /\ store'[op'[a].task].st = "absent"
                     /\ \A d \in Caller : op'[d].task = op'[a].task => d = a
               /\ op'[a].pc \in {"arm", "rollback"} =>
                     store'[op'[a].task].st # "absent"
    <3>1. CASE a = c
      <4>1. \A d \in Caller : d # c => op'[d].task # op'[c].task
        BY <1>1, <2>3, <3>1
      <4>2. QED
        BY <2>3, <3>1, <4>1
    <3>2. CASE a # c
      <4>1. op'[a] = op[a]
        BY <1>1, <3>2
      <4>2. op[a].pc = "commit" => op[a].task \in Task /\ store[op[a].task].st = "absent"
        BY <1>1, <2>1, <2>3, <3>2, <4>1 DEF AbsentInv
      <4>3. op[a].pc = "commit" => op'[c].task # op[a].task
        BY <2>3, <3>2, <4>1, <4>2
      <4>4. op[a].pc = "commit" => \A d \in Caller : op'[d].task = op[a].task => d = a
        BY <1>1, <2>3, <4>1, <4>3 DEF AbsentInv
      <4>5. QED
        BY <1>1, <2>3, <4>1, <4>2, <4>4 DEF AbsentInv
    <3>3. QED
      BY <3>1, <3>2
  <2>4. QED
    BY <2>2, <2>3 DEF AbsentInv
<1>5. FreshInv'
  BY <1>1 DEF FreshInv
<1>6. QuietInv'
  <2>1. \A d \in Caller : Undoing(d)' => Undoing(d) /\ d # c /\ op[d].task \in Task
    BY <1>1 DEF Undoing, TaskKinds, CallInv
  <2>2. ASSUME NEW d \in Caller, Undoing(d)'
        PROVE  /\ armed'[op'[d].task] = {} /\ ~Wanted(op[d].task)'
               /\ jobs'[op'[d].task] \in IF op'[d].pc = "arm" THEN {None, d} ELSE {None}
    <3>1. Undoing(d) /\ op'[d] = op[d] /\ op[d].task \in Task
      BY <1>1, <2>1, <2>2
    <3>2. PICK t \in Task : t = op[d].task
      BY <3>1
    <3>3. /\ armed[t] = {} /\ ~Wanted(t)
          /\ jobs[t] \in IF op[d].pc = "arm" THEN {None, d} ELSE {None}
      BY <1>1, <3>1, <3>2 DEF QuietInv
    <3>4. armed'[t] = {} /\ ~Wanted(t)'
          /\ jobs'[t] \in IF op[d].pc = "arm" THEN {None, d} ELSE {None}
      BY <3>3
    <3>5. ~Wanted(op[d].task)'
      BY <3>1, <3>2, <3>4 DEF Wanted
    <3>6. QED
      BY <3>1, <3>2, <3>4, <3>5
  <2>3. QED
    BY <2>2 DEF QuietInv, Wanted
<1>7. QED
  BY <1>2, <1>3, <1>4, <1>5, <1>6

\* So does a step of a run, or an abort: no call moves.
LEMMA RunKeeps ==
    ASSUME IInv, op' \in [Caller -> CallRecord],
           \A d \in Caller :
               /\ op'[d].kind = op[d].kind /\ op'[d].task = op[d].task
               /\ op'[d].ws = op[d].ws /\ op'[d].pc = op[d].pc
               /\ op'[d].cur = op[d].cur /\ op'[d].next = op[d].next
               /\ op'[d].todo = op[d].todo
               /\ op[d].pc = "idle" => op'[d] = op[d]
               /\ d = Boot => op'[d].aborted = op[d].aborted,
           run' \in [Task -> RunRecord],
           moved' \subseteq Task, refused' \in BOOLEAN, refused => refused',
           UNCHANGED <<store, jobs, armed, tails, started, globallyEnabled, setting, blocked>>,
           \A t \in Task : /\ Wanted(t)' => Wanted(t) \/ armed[t] # {}
                           /\ store[t].st = "absent" => run'[t].phase = run[t].phase
    PROVE  /\ TypeOK' /\ CallInv' /\ LockInv' /\ AbsentInv' /\ FreshInv'
           /\ ArmedIsCurrent' /\ JobInv' /\ QuietInv'
<1> USE ScheduleServiceAssumption
<1>1. /\ CallInv /\ AbsentInv /\ FreshInv /\ QuietInv /\ TypeOK /\ LockInv
      /\ ArmedIsCurrent /\ JobInv
  BY DEF IInv
<1>2. TypeOK'
  BY <1>1 DEF TypeOK, CallRecord, RunRecord
<1>3. CallInv'
  BY <1>1 DEF CallInv, Positioned
<1>4. LockInv'
  BY <1>1 DEF LockInv, Locked, Holds
<1>5. AbsentInv'
  <2>1. \A u \in Task : store'[u].st = "absent" =>
           /\ jobs'[u] = None /\ run'[u].phase = "none"
           /\ \A d \in Caller : /\ u \notin op'[d].todo
                                /\ op'[d].task = u => op'[d].kind = "create"
    BY <1>1 DEF AbsentInv
  <2>2. ASSUME NEW a \in Caller, op'[a].kind = "create"
        PROVE  /\ op'[a].pc = "commit" =>
                     /\ store'[op'[a].task].st = "absent"
                     /\ \A d \in Caller : op'[d].task = op'[a].task => d = a
               /\ op'[a].pc \in {"arm", "rollback"} =>
                     store'[op'[a].task].st # "absent"
    BY <1>1, <2>2 DEF AbsentInv
  <2>3. QED
    BY <2>1, <2>2 DEF AbsentInv
<1>6. FreshInv'
  BY <1>1 DEF FreshInv
<1>7. ArmedIsCurrent'
  BY <1>1 DEF ArmedIsCurrent, Armed
<1>8. JobInv'
  BY <1>1 DEF JobInv
<1>9. QuietInv'
  <2>1. \A d \in Caller : Undoing(d)' => Undoing(d) /\ op[d].task \in Task
    BY <1>1 DEF Undoing, TaskKinds, CallInv
  <2>2. ASSUME NEW d \in Caller, Undoing(d)'
        PROVE  /\ armed'[op'[d].task] = {} /\ ~Wanted(op[d].task)'
               /\ jobs'[op'[d].task] \in IF op'[d].pc = "arm" THEN {None, d} ELSE {None}
    <3>1. PICK t \in Task : t = op[d].task /\ t = op'[d].task
      BY <2>1, <2>2
    <3>2. /\ armed[t] = {} /\ ~Wanted(t)
          /\ jobs[t] \in IF op[d].pc = "arm" THEN {None, d} ELSE {None}
      <4>1. Undoing(d) /\ QuietInv
        BY <1>1, <2>1, <2>2
      <4>2. /\ armed[op[d].task] = {} /\ ~Wanted(op[d].task)
            /\ jobs[op[d].task] \in IF op[d].pc = "arm" THEN {None, d} ELSE {None}
        BY <4>1 DEF QuietInv
      <4>3. QED
        BY <3>1, <4>2
    <3>3. ~Wanted(t)'
      BY <3>2
    <3>4. ~Wanted(op[d].task)'
      BY <3>1, <3>3 DEF Wanted
    <3>5. QED
      BY <3>1, <3>2, <3>4
  <2>3. QED
    BY <2>2 DEF QuietInv, Wanted
<1>10. QED
  BY <1>2, <1>3, <1>4, <1>5, <1>6, <1>7, <1>8, <1>9

\* Runs that go on, or are cancelled, stay runs of the tasks in the store.
LEMMA RunsStay ==
    ASSUME IInv, UNCHANGED store, refused => refused',
           \A t \in Task :
               /\ run'[t].phase = run[t].phase /\ run'[t].auto = run[t].auto
               /\ run'[t].ws = run[t].ws /\ run'[t].task = run[t].task
               /\ Wanted(t)' => Wanted(t)
               /\ Wanted(t)' /\ run[t].phase \in {"claim", "exec"}
                     /\ (started \/ StartGaveUp) /\ globallyEnabled =>
                        (started' \/ StartGaveUp') /\ globallyEnabled'
    PROVE  RunInv'
BY DEF IInv, RunInv

\* Cancelling keeps or ends what is wanted.
LEMMA CancelWanted ==
    ASSUME TypeOK, NEW ts, run' = Cancelled(ts)
    PROVE  /\ run' \in [Task -> RunRecord]
           /\ \A t \in Task :
                 /\ run'[t].phase = run[t].phase /\ run'[t].auto = run[t].auto
                 /\ run'[t].ws = run[t].ws /\ run'[t].task = run[t].task
                 /\ Wanted(t)' => Wanted(t)
                 /\ t \in ts => ~Wanted(t)'
<1>1. /\ run' \in [Task -> RunRecord]
      /\ \A t \in Task :
            /\ run'[t].phase = run[t].phase /\ run'[t].auto = run[t].auto
            /\ run'[t].ws = run[t].ws /\ run'[t].task = run[t].task
            /\ run[t].cancel => run'[t].cancel
            /\ t \in ts /\ run[t].phase # "none" => run'[t].cancel
  BY CancelFields
<1>2. QED
  BY <1>1 DEF Wanted

\* The fields of a call that begins.
LEMMA IdleCall ==
    ASSUME IInv, NEW c \in Caller, op[c].pc = "idle"
    PROVE  /\ op[c].task = None /\ op[c].kind = "stop" /\ ~op[c].aborted
           /\ op[c].waits = {} /\ op[c] = Idle
BY IdleFields DEF IInv, CallInv

\* A task call queues for its lock.
LEMMA CallTaskKeeps ==
    ASSUME IInv, NEW c \in Call, NEW kind \in TaskKinds, NEW t \in Task,
           NEW next \in TaskRecord, kind = "save" => Present(next),
           CallTask(c, kind, t, next)
    PROVE  IInv'
<1> USE ScheduleServiceAssumption
<1>1. /\ op[c].pc = "idle" /\ c # Boot /\ c \in Caller /\ store[t].st # "absent"
      /\ tails' = [tails EXCEPT ![t] = Append(tails[t], c)]
      /\ UNCHANGED <<store, moved, refused, jobs, armed, run, started,
                     globallyEnabled, setting, blocked>>
  BY DEF CallTask, NextCall, Store, Schedules, Service, Caller
<1> DEFINE record == [Idle EXCEPT !.kind = kind, !.task = t, !.next = next, !.pc = "lock"]
<1>2. /\ record \in CallRecord
      /\ record.kind = kind /\ record.task = t /\ record.pc = "lock"
      /\ record.next = next /\ record.todo = {}
  BY IdleFields DEF CallRecord, Kinds, Points
<1>3. op' = [op EXCEPT ![c] = record]
  BY DEF CallTask
<1> HIDE DEF record
<1>4. Only(c) /\ op'[c] = record
  BY <1>1, <1>2, <1>3, BeginFields DEF IInv
<1>5. Positioned(c)' /\ ~Locked(c)'
  BY <1>2, <1>4 DEF Positioned, Locked, TaskKinds
<1>6. \A u \in Task : Wanted(u)' <=> Wanted(u)
  BY <1>1 DEF Wanted
<1>7. kind # "start" /\ kind # "create"
  BY DEF TaskKinds
<1>8. /\ tails' \in [Task -> Seq(Caller)]
      /\ CallInv' /\ LockInv' /\ AbsentInv' /\ FreshInv' /\ QuietInv'
  BY <1>1, <1>2, <1>4, <1>5, <1>6, <1>7, BeginKeeps
<1>9. TypeOK'
  BY <1>1, <1>4, <1>8 DEF IInv, TypeOK, Only, CallRecord
<1>10. ArmedIsCurrent' /\ JobInv'
  BY <1>1 DEF IInv, ArmedIsCurrent, Armed, JobInv
<1>11. StartGaveUp' <=> StartGaveUp
  BY <1>1, <1>4 DEF StartGaveUp, Only, Caller
<1>12. RunInv'
  BY <1>1, <1>6, <1>11, RunsStay
<1>13. WaitInv'
  <2>1. \A d \in Call : op[d].kind = "cancelWorkspace" => op'[d] = op[d]
    BY <1>1, <1>4, IdleCall DEF Only, Caller
  <2>2. QED
    BY <1>1, <2>1 DEF IInv, WaitInv
<1>14. QED
  BY <1>8, <1>9, <1>10, <1>12, <1>13 DEF IInv

\* A new task's save takes no lock.
LEMMA CreateKeeps ==
    ASSUME IInv, NEW c \in Call, NEW t \in Task, NEW next \in TaskRecord,
           Present(next), Create(c, t, next)
    PROVE  IInv'
<1> USE ScheduleServiceAssumption
<1>1. /\ op[c].pc = "idle" /\ c # Boot /\ c \in Caller /\ store[t].st = "absent"
      /\ \A d \in Call : op[d].task # t
      /\ tails' = tails
      /\ UNCHANGED <<store, moved, refused, jobs, armed, run, started,
                     globallyEnabled, setting, blocked>>
  BY DEF Create, NextCall, Store, Schedules, Service, Caller
<1> DEFINE record == [Idle EXCEPT !.kind = "create", !.task = t, !.next = next,
                                  !.pc = "commit"]
<1>2. /\ record \in CallRecord
      /\ record.kind = "create" /\ record.task = t /\ record.pc = "commit"
      /\ record.next = next /\ record.todo = {} /\ record.cur = NoRun.task
  BY IdleFields DEF CallRecord, Kinds, Points
<1>3. op' = [op EXCEPT ![c] = record]
  BY DEF Create
<1> HIDE DEF record
<1>4. Only(c) /\ op'[c] = record
  BY <1>1, <1>2, <1>3, BeginFields DEF IInv
<1>5. Positioned(c)' /\ ~Locked(c)'
  BY <1>2, <1>4 DEF Positioned, Locked, TaskKinds, LoopKinds
<1>6. \A u \in Task : Wanted(u)' <=> Wanted(u)
  BY <1>1 DEF Wanted
<1>7. \A d \in Caller : op[d].task # t
  <2>1. op[Boot].kind # "create"
    BY DEF IInv, CallInv, Caller
  <2>2. op[Boot].task # t
    BY <1>1, <2>1 DEF IInv, AbsentInv, Caller
  <2>3. QED
    BY <1>1, <2>2 DEF Caller
<1>8. /\ "create" \notin TaskKinds /\ op'[c].pc \in AtTask
  BY <1>2, <1>4 DEF TaskKinds, AtTask
<1>9. /\ tails' \in [Task -> Seq(Caller)]
      /\ CallInv' /\ LockInv' /\ AbsentInv' /\ FreshInv' /\ QuietInv'
  BY <1>1, <1>2, <1>4, <1>5, <1>6, <1>7, <1>8, BeginKeeps
<1>10. TypeOK'
  BY <1>1, <1>4, <1>9 DEF IInv, TypeOK, Only, CallRecord
<1>11. ArmedIsCurrent' /\ JobInv'
  BY <1>1 DEF IInv, ArmedIsCurrent, Armed, JobInv
<1>12. StartGaveUp' <=> StartGaveUp
  BY <1>1, <1>4 DEF StartGaveUp, Only, Caller
<1>13. RunInv'
  BY <1>1, <1>6, <1>12, RunsStay
<1>14. WaitInv'
  <2>1. \A d \in Call : op[d].kind = "cancelWorkspace" => op'[d] = op[d]
    BY <1>1, <1>4, IdleCall DEF Only, Caller
  <2>2. QED
    BY <1>1, <2>1 DEF IInv, WaitInv
<1>15. QED
  BY <1>9, <1>10, <1>11, <1>13, <1>14 DEF IInv

\* runNow.
LEMMA RunNowKeeps ==
    ASSUME IInv, NEW c \in Call, NEW t \in Task, RunNow(c, t)
    PROVE  IInv'
<1> USE ScheduleServiceAssumption
<1>1. /\ op[c].pc = "idle" /\ c # Boot /\ c \in Caller /\ store[t].st # "absent"
      /\ tails' = tails
      /\ UNCHANGED <<store, moved, refused, jobs, armed, started,
                     globallyEnabled, setting, blocked>>
  BY DEF RunNow, NextCall, Store, Schedules, Service, Caller
<1> DEFINE pc == IF t \in Running THEN "done" ELSE "settle"
           record == [Idle EXCEPT !.kind = "runNow", !.task = t, !.pc = pc, !.waits = {t}]
<1>2. /\ record \in CallRecord
      /\ record.kind = "runNow" /\ record.task = t /\ record.pc \in {"done", "settle"}
      /\ record.todo = {}
  <2>1. pc \in Points /\ pc \in {"done", "settle"}
    BY DEF Points
  <2>2. QED
    BY <2>1, IdleFields DEF CallRecord, Kinds
<1>3. op' = [op EXCEPT ![c] = record]
  BY DEF RunNow
<1> HIDE DEF record
<1>4. Only(c) /\ op'[c] = record
  BY <1>1, <1>2, <1>3, BeginFields DEF IInv
<1>5. Positioned(c)' /\ ~Locked(c)'
  BY <1>2, <1>4 DEF Positioned, Locked, TaskKinds, LoopKinds
<1>6. /\ run' \in [Task -> RunRecord]
      /\ \A u \in Task : u # t => run'[u] = run[u]
      /\ \/ run'[t] = run[t]
         \/ run'[t].phase = "get" /\ ~run'[t].auto
  <2>1. FALSE \in BOOLEAN /\ run \in [Task -> RunRecord]
    BY DEF IInv, TypeOK, RunRecord
  <2>2. CASE run' = run
    BY <2>1, <2>2
  <2>3. CASE run' = Dispatched(t, FALSE)
    <3>1. /\ Dispatched(t, FALSE) \in [Task -> RunRecord]
          /\ \A u \in Task : u # t => Dispatched(t, FALSE)[u] = run[u]
          /\ Dispatched(t, FALSE)[t].phase = "get"
          /\ Dispatched(t, FALSE)[t].auto = FALSE
      BY <2>1, DispatchFields DEF IInv
    <3>2. QED
      BY <2>3, <3>1
  <2>4. QED
    BY <2>2, <2>3 DEF RunNow
<1>7. \A u \in Task : /\ u # t => (Wanted(u)' <=> Wanted(u))
                      /\ Wanted(u)' => run'[u] = run[u] /\ Wanted(u)
  BY <1>6 DEF Wanted
<1>8. "runNow" \notin TaskKinds /\ op'[c].pc \notin AtTask
  BY <1>2, <1>4 DEF TaskKinds, AtTask
<1>9. /\ tails' \in [Task -> Seq(Caller)]
      /\ CallInv' /\ LockInv' /\ AbsentInv' /\ FreshInv' /\ QuietInv'
  <2>1. \A u \in Task : /\ jobs'[u] \in {jobs[u], None} /\ armed'[u] \subseteq armed[u]
                        /\ Wanted(u)' => Wanted(u)
                        /\ store[u].st = "absent" => run'[u].phase = run[u].phase
    BY <1>1, <1>6, <1>7
  <2>2. QED
    BY <1>1, <1>2, <1>4, <1>5, <1>8, <2>1, BeginKeeps
<1>10. TypeOK'
  BY <1>1, <1>4, <1>6, <1>9 DEF IInv, TypeOK, Only, CallRecord, RunRecord
<1>11. ArmedIsCurrent' /\ JobInv'
  BY <1>1 DEF IInv, ArmedIsCurrent, Armed, JobInv
<1>12. StartGaveUp' <=> StartGaveUp
  BY <1>1, <1>4 DEF StartGaveUp, Only, Caller
<1>13. RunInv'
  <2>1. RunInv
    BY DEF IInv
  <2>2. \A u \in Task :
           /\ run'[u].phase = "claim" => run'[u].auto
           /\ run'[u].phase \in {"claim", "exec", "record"} => run'[u].ws = run'[u].task.ws
    BY <1>6, <2>1 DEF RunInv
  <2>3. QED
    BY <1>1, <1>7, <1>12, <2>1, <2>2 DEF RunInv
<1>14. WaitInv'
  <2>1. \A d \in Call : op[d].kind = "cancelWorkspace" => op'[d] = op[d]
    BY <1>1, <1>4, IdleCall DEF Only, Caller
  <2>2. \A u \in Task : run'[u].phase \in {"claim", "exec", "record"} => run'[u] = run[u]
    BY <1>6
  <2>3. QED
    BY <1>1, <2>1, <2>2 DEF IInv, WaitInv
<1>15. QED
  BY <1>9, <1>10, <1>11, <1>13, <1>14 DEF IInv

\* The switch stops every job, and every run when it is turned off.
LEMMA SetGlobalEnabledKeeps ==
    ASSUME IInv, NEW c \in Call, NEW enabled \in BOOLEAN, SetGlobalEnabled(c, enabled)
    PROVE  IInv'
<1> USE ScheduleServiceAssumption
<1>1. /\ op[c].pc = "idle" /\ c # Boot /\ c \in Caller
      /\ tails' = tails /\ setting' = enabled /\ globallyEnabled' = enabled
      /\ StopJobs(Task)
      /\ UNCHANGED <<store, moved, refused, started, blocked>>
  BY DEF SetGlobalEnabled, NextCall, Store, Caller
<1>2. PICK record \in CallRecord :
         /\ op' = [op EXCEPT ![c] = record]
         /\ record.kind \in {"enable", "disable"} /\ record.task = None
         /\ record.kind = "enable" => record.pc \in {"loop", "done"} /\ enabled
         /\ record.kind = "disable" => record.pc = "settle"
         /\ \A u \in record.todo : Enabled(store[u])
  <2> DEFINE todo == {t \in Task : Enabled(store[t])}
             on == [Idle EXCEPT !.kind = "enable", !.todo = todo,
                                !.pc = IF started THEN "loop" ELSE "done"]
             off == [Idle EXCEPT !.kind = "disable", !.pc = "settle", !.waits = Running]
  <2>1. /\ on \in CallRecord /\ on.kind = "enable" /\ on.pc \in {"loop", "done"}
        /\ on.todo = todo /\ on.task = None
    BY IdleFields DEF CallRecord, Kinds, LoopKinds, Points
  <2>2. /\ off \in CallRecord /\ off.kind = "disable" /\ off.pc = "settle"
        /\ off.todo = {} /\ off.task = None
    BY IdleFields DEF CallRecord, Kinds, Points, Running
  <2>3. enabled => op' = [op EXCEPT ![c] = on]
    BY DEF SetGlobalEnabled
  <2>4. ~enabled => op' = [op EXCEPT ![c] = off]
    BY DEF SetGlobalEnabled
  <2> HIDE DEF on, off
  <2>5. CASE enabled
    BY <2>1, <2>3, <2>5
  <2>6. CASE ~enabled
    BY <2>2, <2>4, <2>6
  <2>7. QED
    BY <2>5, <2>6
<1>3. Only(c) /\ op'[c] = record
  BY <1>1, <1>2, BeginFields DEF IInv
<1>4. Positioned(c)' /\ ~Locked(c)'
  BY <1>2, <1>3 DEF Positioned, Locked, TaskKinds, LoopKinds
<1>5. /\ jobs' \in [Task -> Caller \cup {None}] /\ armed' \in [Task -> SUBSET Caller]
      /\ \A u \in Task : jobs'[u] = None /\ armed'[u] = {}
  BY <1>1, StopFields DEF IInv
<1>6. /\ run' \in [Task -> RunRecord]
      /\ \A u \in Task :
            /\ run'[u].phase = run[u].phase /\ run'[u].auto = run[u].auto
            /\ run'[u].ws = run[u].ws /\ run'[u].task = run[u].task
            /\ Wanted(u)' => Wanted(u) /\ enabled
  <2>1. CASE enabled
    <3>1. run' = run
      BY <2>1 DEF SetGlobalEnabled
    <3>2. \A u \in Task : Wanted(u)' <=> Wanted(u)
      BY <3>1 DEF Wanted
    <3>3. QED
      BY <2>1, <3>1, <3>2 DEF IInv, TypeOK, RunRecord
  <2>2. CASE ~enabled
    <3>1. run' = Cancelled(Task)
      BY <2>2 DEF SetGlobalEnabled
    <3>2. QED
      BY <3>1, CancelWanted DEF IInv
  <2>3. QED
    BY <2>1, <2>2
<1>7. /\ record.kind \notin TaskKinds \cup {"start", "create", "save"}
      /\ record.pc \notin AtTask /\ None \notin Task
  BY <1>2 DEF TaskKinds, AtTask
<1>8. \A u \in record.todo : store[u].st # "absent"
  BY <1>2 DEF Enabled, Present
<1>9. /\ tails' \in [Task -> Seq(Caller)]
      /\ CallInv' /\ LockInv' /\ AbsentInv' /\ FreshInv' /\ QuietInv'
  <2>1. \A u \in Task : /\ jobs'[u] \in {jobs[u], None} /\ armed'[u] \subseteq armed[u]
                        /\ Wanted(u)' => Wanted(u)
                        /\ store[u].st = "absent" => run'[u].phase = run[u].phase
    BY <1>5, <1>6
  <2>2. op'[c].pc \in {"lock", "loop", "settle", "commit", "ready", "done"}
    BY <1>2, <1>3
  <2>3. QED
    BY <1>1, <1>2, <1>3, <1>4, <1>7, <1>8, <2>1, <2>2, BeginKeeps
<1>10. TypeOK'
  BY <1>1, <1>3, <1>5, <1>6, <1>9 DEF IInv, TypeOK, Only, CallRecord, RunRecord
<1>11. ArmedIsCurrent' /\ JobInv'
  BY <1>5 DEF ArmedIsCurrent, Armed, JobInv
<1>12. StartGaveUp' <=> StartGaveUp
  BY <1>1, <1>3 DEF StartGaveUp, Only, Caller
<1>13. RunInv'
  BY <1>1, <1>6, <1>12, RunsStay
<1>14. WaitInv'
  <2>1. \A d \in Call : op[d].kind = "cancelWorkspace" => op'[d] = op[d]
    BY <1>1, <1>3, IdleCall DEF Only, Caller
  <2>2. QED
    BY <1>1, <1>6, <2>1 DEF IInv, WaitInv
<1>15. QED
  BY <1>9, <1>10, <1>11, <1>13, <1>14 DEF IInv

\* stop().
LEMMA StopKeeps ==
    ASSUME IInv, NEW c \in Call, Stop(c)
    PROVE  IInv'
<1> USE ScheduleServiceAssumption
<1>1. /\ op[c].pc = "idle" /\ c # Boot /\ c \in Caller
      /\ tails' = tails /\ started' = FALSE
      /\ StopJobs(Task) /\ run' = Cancelled(Task)
      /\ UNCHANGED <<store, moved, refused, globallyEnabled, setting, blocked>>
  BY DEF Stop, NextCall, Store, Caller
<1> DEFINE record == [Idle EXCEPT !.kind = "stop", !.pc = "settle", !.waits = Running]
<1>2. /\ record \in CallRecord /\ record.kind = "stop" /\ record.pc = "settle"
      /\ record.todo = {} /\ record.task = None
  BY IdleFields DEF CallRecord, Kinds, Points, Running
<1>3. op' = [op EXCEPT ![c] = record]
  BY DEF Stop
<1> HIDE DEF record
<1>4. Only(c) /\ op'[c] = record
  BY <1>1, <1>2, <1>3, BeginFields DEF IInv
<1>5. Positioned(c)' /\ ~Locked(c)'
  BY <1>2, <1>4 DEF Positioned, Locked, TaskKinds, LoopKinds
<1>6. /\ jobs' \in [Task -> Caller \cup {None}] /\ armed' \in [Task -> SUBSET Caller]
      /\ \A u \in Task : jobs'[u] = None /\ armed'[u] = {}
  BY <1>1, StopFields DEF IInv
<1>7. /\ run' \in [Task -> RunRecord]
      /\ \A u \in Task :
            /\ run'[u].phase = run[u].phase /\ run'[u].auto = run[u].auto
            /\ run'[u].ws = run[u].ws /\ run'[u].task = run[u].task
            /\ ~Wanted(u)'
  BY <1>1, CancelWanted DEF IInv
<1>8. "stop" \notin TaskKinds /\ "settle" \notin AtTask /\ None \notin Task
  BY DEF TaskKinds, AtTask
<1>9. /\ tails' \in [Task -> Seq(Caller)]
      /\ CallInv' /\ LockInv' /\ AbsentInv' /\ FreshInv' /\ QuietInv'
  BY <1>1, <1>2, <1>4, <1>5, <1>6, <1>7, <1>8, BeginKeeps
<1>10. TypeOK'
  BY <1>1, <1>4, <1>6, <1>7, <1>9 DEF IInv, TypeOK, Only, CallRecord, RunRecord
<1>11. ArmedIsCurrent' /\ JobInv'
  BY <1>6 DEF ArmedIsCurrent, Armed, JobInv
<1>12. RunInv'
  BY <1>1, <1>7, RunsStay
<1>13. WaitInv'
  <2>1. \A d \in Call : op[d].kind = "cancelWorkspace" => op'[d] = op[d]
    BY <1>1, <1>4, IdleCall DEF Only, Caller
  <2>2. QED
    BY <1>1, <1>7, <2>1 DEF IInv, WaitInv
<1>14. QED
  BY <1>9, <1>10, <1>11, <1>12, <1>13 DEF IInv

\* start().
LEMMA StartKeeps ==
    ASSUME IInv, Start
    PROVE  IInv'
<1> USE ScheduleServiceAssumption
<1> DEFINE c == Boot
<1>1. /\ op[c].pc = "idle" /\ c \in Caller /\ tails' = tails
      /\ ~started /\ started' = TRUE /\ globallyEnabled' = setting
      /\ UNCHANGED <<store, moved, refused, jobs, armed, setting, blocked, run>>
  BY DEF Start, Store, Schedules, Caller
<1> DEFINE todo == {t \in Task : Enabled(store[t])}
           pc == IF setting THEN "loop" ELSE "done"
           record == [Idle EXCEPT !.kind = "start", !.pc = pc, !.todo = todo]
<1>2. /\ record \in CallRecord /\ record.kind = "start" /\ record.pc \in {"loop", "done"}
      /\ record.todo = todo /\ record.task = None /\ ~record.aborted
  <2>1. pc \in Points /\ pc \in {"loop", "done"}
    BY DEF Points
  <2>2. QED
    BY <2>1, IdleFields DEF CallRecord, Kinds, LoopKinds
<1>3. op' = [op EXCEPT ![c] = record]
  BY DEF Start
<1> HIDE DEF record
<1>4. Only(c) /\ op'[c] = record
  BY <1>1, <1>2, <1>3, BeginFields DEF IInv
<1>5. Positioned(c)' /\ ~Locked(c)'
  BY <1>2, <1>4 DEF Positioned, Locked, TaskKinds
<1>6. \A u \in Task : Wanted(u)' <=> Wanted(u)
  BY <1>1 DEF Wanted
<1>7. "start" \notin TaskKinds /\ record.pc \notin AtTask /\ None \notin Task
  BY <1>2 DEF TaskKinds, AtTask
<1>8. \A u \in todo : store[u].st # "absent"
  BY DEF Enabled, Present
<1>9. /\ tails' \in [Task -> Seq(Caller)]
      /\ CallInv' /\ LockInv' /\ AbsentInv' /\ FreshInv' /\ QuietInv'
  <2>1. \A u \in op'[c].todo : store[u].st # "absent"
    BY <1>2, <1>4, <1>8
  <2>2. op'[c].pc \in {"lock", "loop", "settle", "commit", "ready", "done"}
    BY <1>2, <1>4
  <2>3. QED
    BY <1>1, <1>2, <1>4, <1>5, <1>6, <1>7, <2>1, <2>2, BeginKeeps
<1>10. TypeOK'
  BY <1>1, <1>4, <1>9 DEF IInv, TypeOK, Only, CallRecord
<1>11. ArmedIsCurrent' /\ JobInv'
  BY <1>1 DEF IInv, ArmedIsCurrent, Armed, JobInv
<1>12. RunInv'
  <2>1. ~StartGaveUp
    BY <1>1, IdleCall DEF StartGaveUp
  <2>2. QED
    BY <1>1, <1>6, <2>1, RunsStay
<1>13. WaitInv'
  <2>1. \A d \in Call : op'[d] = op[d]
    BY <1>4 DEF Only, Caller
  <2>2. QED
    BY <1>1, <2>1 DEF IInv, WaitInv
<1>14. QED
  BY <1>9, <1>10, <1>11, <1>12, <1>13 DEF IInv

\* cancelWorkspace: it waits for every run, until it knows their workspaces.
LEMMA CancelWorkspaceKeeps ==
    ASSUME IInv, NEW c \in Call, NEW w \in Workspace, CancelWorkspace(c, w)
    PROVE  IInv'
<1> USE ScheduleServiceAssumption
<1> DEFINE ts == {t \in Task : Present(store[t]) /\ store[t].ws = w}
<1>1. /\ op[c].pc = "idle" /\ c # Boot /\ c \in Caller
      /\ tails' = tails /\ blocked' = blocked \cup {w} /\ StopJobs(ts)
      /\ UNCHANGED <<store, moved, refused, started, globallyEnabled, setting, run>>
  BY DEF CancelWorkspace, NextCall, Store, Caller
<1> HIDE DEF ts
<1> DEFINE record == [Idle EXCEPT !.kind = "cancelWorkspace", !.ws = w, !.pc = "ready",
                                  !.waits = Running]
<1>2. /\ record \in CallRecord /\ record.kind = "cancelWorkspace" /\ record.pc = "ready"
      /\ record.todo = {} /\ record.task = None /\ record.ws = w /\ record.waits = Running
  BY IdleFields DEF CallRecord, Kinds, Points, Running
<1>3. op' = [op EXCEPT ![c] = record]
  BY DEF CancelWorkspace
<1> HIDE DEF record
<1>4. Only(c) /\ op'[c] = record
  BY <1>1, <1>2, <1>3, BeginFields DEF IInv
<1>5. Positioned(c)' /\ ~Locked(c)'
  BY <1>2, <1>4 DEF Positioned, Locked, TaskKinds, LoopKinds
<1>6. /\ jobs' \in [Task -> Caller \cup {None}] /\ armed' \in [Task -> SUBSET Caller]
      /\ \A u \in Task : /\ jobs'[u] = IF u \in ts THEN None ELSE jobs[u]
                         /\ armed'[u] = IF u \in ts THEN {} ELSE armed[u]
  BY <1>1, StopFields DEF IInv
<1>7. \A u \in Task : Wanted(u)' <=> Wanted(u)
  BY <1>1 DEF Wanted
<1>8. /\ "cancelWorkspace" \notin TaskKinds /\ "ready" \notin AtTask /\ None \notin Task
  BY DEF TaskKinds, AtTask
<1>9. /\ tails' \in [Task -> Seq(Caller)]
      /\ CallInv' /\ LockInv' /\ AbsentInv' /\ FreshInv' /\ QuietInv'
  <2>1. \A u \in Task : /\ jobs'[u] \in {jobs[u], None} /\ armed'[u] \subseteq armed[u]
                        /\ Wanted(u)' => Wanted(u)
                        /\ store[u].st = "absent" => run'[u].phase = run[u].phase
    BY <1>1, <1>6, <1>7
  <2>2. QED
    BY <1>1, <1>2, <1>4, <1>5, <1>8, <2>1, BeginKeeps
<1>10. TypeOK'
  BY <1>1, <1>4, <1>6, <1>9 DEF IInv, TypeOK, Only, CallRecord
<1>11. ArmedIsCurrent'
  BY <1>1, <1>6 DEF IInv, ArmedIsCurrent, Armed
<1>12. JobInv'
  <2>1. Undone.ws = None /\ JobInv
    BY DEF Undone, NoRun, IInv
  <2>2. \A u \in Task : jobs'[u] # None => jobs'[u] = jobs[u] /\ store[u].ws # w
    BY <1>6, <2>1 DEF JobInv, ts
  <2>3. QED
    BY <1>1, <2>1, <2>2 DEF JobInv
<1>13. StartGaveUp' <=> StartGaveUp
  BY <1>1, <1>4 DEF StartGaveUp, Only, Caller
<1>14. RunInv'
  BY <1>1, <1>7, <1>13, RunsStay
<1>15. WaitInv'
  <2>1. \A d \in Call : op[d].kind = "cancelWorkspace" => op'[d] = op[d]
    BY <1>1, <1>4, IdleCall DEF Only, Caller
  <2>2. \A u \in Task : run[u].phase \in {"claim", "exec", "record"} => u \in op'[c].waits
    BY <1>2, <1>4 DEF Running
  <2>3. QED
    BY <1>1, <1>2, <1>4, <2>1, <2>2 DEF IInv, WaitInv
<1>16. QED
  BY <1>9, <1>10, <1>11, <1>12, <1>14, <1>15 DEF IInv

\* resumeWorkspace.
LEMMA ResumeWorkspaceKeeps ==
    ASSUME IInv, NEW c \in Call, NEW w \in Workspace, ResumeWorkspace(c, w)
    PROVE  IInv'
<1> USE ScheduleServiceAssumption
<1>1. /\ op[c].pc = "idle" /\ c # Boot /\ c \in Caller
      /\ tails' = tails /\ blocked' = blocked \ {w}
      /\ UNCHANGED <<store, moved, refused, jobs, armed, started, globallyEnabled,
                     setting, run>>
  BY DEF ResumeWorkspace, NextCall, Store, Schedules, Caller
<1> DEFINE todo == {t \in Task : Enabled(store[t]) /\ store[t].ws = w}
           pc == IF started /\ globallyEnabled THEN "loop" ELSE "done"
           record == [Idle EXCEPT !.kind = "resumeWorkspace", !.ws = w, !.pc = pc,
                                  !.todo = todo]
<1>2. /\ record \in CallRecord /\ record.kind = "resumeWorkspace"
      /\ record.pc \in {"loop", "done"} /\ record.todo = todo /\ record.task = None
  <2>1. pc \in Points /\ pc \in {"loop", "done"}
    BY DEF Points
  <2>2. QED
    BY <2>1, IdleFields DEF CallRecord, Kinds, LoopKinds
<1>3. op' = [op EXCEPT ![c] = record]
  BY DEF ResumeWorkspace
<1> HIDE DEF record
<1>4. Only(c) /\ op'[c] = record
  BY <1>1, <1>2, <1>3, BeginFields DEF IInv
<1>5. Positioned(c)' /\ ~Locked(c)'
  BY <1>2, <1>4 DEF Positioned, Locked, TaskKinds
<1>6. \A u \in Task : Wanted(u)' <=> Wanted(u)
  BY <1>1 DEF Wanted
<1>7. "resumeWorkspace" \notin TaskKinds /\ record.pc \notin AtTask /\ None \notin Task
  BY <1>2 DEF TaskKinds, AtTask
<1>8. /\ tails' \in [Task -> Seq(Caller)]
      /\ CallInv' /\ LockInv' /\ AbsentInv' /\ FreshInv' /\ QuietInv'
  <2>1. \A u \in op'[c].todo : store[u].st # "absent"
    BY <1>2, <1>4 DEF Enabled, Present
  <2>2. op'[c].pc \in {"lock", "loop", "settle", "commit", "ready", "done"}
    BY <1>2, <1>4
  <2>3. QED
    BY <1>1, <1>2, <1>4, <1>5, <1>6, <1>7, <2>1, <2>2, BeginKeeps
<1>9. TypeOK'
  BY <1>1, <1>4, <1>8 DEF IInv, TypeOK, Only, CallRecord
<1>10. ArmedIsCurrent' /\ JobInv'
  BY <1>1 DEF IInv, ArmedIsCurrent, Armed, JobInv
<1>11. StartGaveUp' <=> StartGaveUp
  BY <1>1, <1>4 DEF StartGaveUp, Only, Caller
<1>12. RunInv'
  BY <1>1, <1>6, <1>11, RunsStay
<1>13. WaitInv'
  <2>1. \A d \in Call : op[d].kind = "cancelWorkspace" => op'[d] = op[d]
    BY <1>1, <1>4, IdleCall DEF Only, Caller
  <2>2. QED
    BY <1>1, <2>1 DEF IInv, WaitInv
<1>14. QED
  BY <1>8, <1>9, <1>10, <1>12, <1>13 DEF IInv

\* The loop takes its next task, or is over.
LEMMA NextTaskKeeps ==
    ASSUME IInv, NEW c \in Caller, NextTask(c)
    PROVE  IInv'
<1> USE ScheduleServiceAssumption
<1>1. /\ op[c].pc = "loop" /\ op[c] \in CallRecord
      /\ op[c].kind \in LoopKinds /\ op[c].kind # "cancelWorkspace"
      /\ UNCHANGED <<store, moved, refused, jobs, armed, run, started,
                     globallyEnabled, setting, blocked>>
  <2>1. op[c].pc = "loop" /\ Positioned(c) /\ op[c] \in CallRecord
    BY DEF NextTask, IInv, CallInv, TypeOK, CallRecord
  <2>2. op[c].kind \in LoopKinds
    BY <2>1 DEF Positioned, CallRecord, Kinds, TaskKinds, LoopKinds
  <2>3. QED
    BY <2>1, <2>2 DEF NextTask, Store, Schedules, Service, LoopKinds
<1>2. CASE Done(c) /\ UNCHANGED tails
  <2>1. Only(c) /\ Over(c) /\ Unlocks(c)
    BY <1>2, DoneFields DEF Unlocks, IInv, TypeOK
  <2>2. QED
    BY <1>1, <2>1, OverKeeps
<1>3. ASSUME NEW t \in op[c].todo,
             op' = [op EXCEPT ![c].task = t, ![c].todo = @ \ {t}, ![c].pc = "lock"],
             tails' = [tails EXCEPT ![t] = Append(@, c)]
      PROVE  IInv'
  <2> DEFINE record == [op[c] EXCEPT !.task = t, !.todo = @ \ {t}, !.pc = "lock"]
  <2>1. t \in Task /\ "lock" \in Points
    BY <1>1 DEF CallRecord, Points
  <2>2. /\ record \in CallRecord /\ record.kind = op[c].kind /\ record.task = t
        /\ record.pc = "lock" /\ record.todo \subseteq op[c].todo
        /\ record.aborted = op[c].aborted
    BY <1>1, <2>1 DEF CallRecord
  <2>3. op' = [op EXCEPT ![c] = record]
    BY <1>3
  <2> HIDE DEF record
  <2>4. Only(c) /\ op'[c] = record
    BY <2>2, <2>3, BeginFields DEF IInv
  <2>5. Positioned(c)' /\ ~Locked(c)'
    BY <1>1, <2>2, <2>4 DEF Positioned, Locked, LoopKinds
  <2>6. \A u \in Task : Wanted(u)' <=> Wanted(u)
    BY <1>1 DEF Wanted
  <2>7. /\ op[c].kind \notin TaskKinds \cup {"create", "save"}
        /\ op[c].kind = "start" => c = Boot
        /\ c = Boot => op[c].kind = "start" /\ ~op[c].aborted
    BY <1>1 DEF IInv, CallInv, TaskKinds, LoopKinds
  <2>8. \A u \in op[c].todo : u \in Task /\ store[u].st # "absent"
    BY <1>1 DEF IInv, AbsentInv, CallRecord
  <2>9. /\ tails' \in [Task -> Seq(Caller)]
        /\ CallInv' /\ LockInv' /\ AbsentInv' /\ FreshInv' /\ QuietInv'
    <3>1. tails' = [tails EXCEPT ![t] = Append(tails[t], c)]
      BY <1>3
    <3>2. \A u \in op'[c].todo : store[u].st # "absent"
      BY <2>2, <2>4, <2>8
    <3>3. store[t].st # "absent"
      BY <2>8
    <3>4. QED
      BY <1>1, <2>1, <2>2, <2>4, <2>5, <2>6, <2>7, <3>1, <3>2, <3>3, BeginKeeps
  <2>10. TypeOK'
    BY <1>1, <2>4, <2>9 DEF IInv, TypeOK, Only, CallRecord
  <2>11. ArmedIsCurrent' /\ JobInv'
    BY <1>1 DEF IInv, ArmedIsCurrent, Armed, JobInv
  <2>12. StartGaveUp' <=> StartGaveUp
    BY <2>2, <2>4 DEF StartGaveUp, Only, Caller
  <2>13. RunInv'
    BY <1>1, <2>6, <2>12, RunsStay
  <2>14. WaitInv'
    <3>1. \A d \in Call : op[d].kind = "cancelWorkspace" => op'[d] = op[d]
      BY <1>1, <2>4 DEF Only, Caller
    <3>2. QED
      BY <1>1, <3>1 DEF IInv, WaitInv
  <2>15. QED
    BY <2>9, <2>10, <2>11, <2>13, <2>14 DEF IInv
<1>4. QED
  BY <1>2, <1>3 DEF NextTask

\* cancelWorkspace knows the workspaces: it cancels its own, and waits for them.
LEMMA CancelSelectedKeeps ==
    ASSUME IInv, NEW c \in Caller, CancelSelected(c)
    PROVE  IInv'
<1> USE ScheduleServiceAssumption
<1> DEFINE selected == {t \in op[c].waits : run[t].ws = op[c].ws}
           record == [op[c] EXCEPT !.waits = selected, !.pc = "settle"]
<1>1. /\ op[c].pc = "ready" /\ op[c] \in CallRecord /\ op[c].kind = "cancelWorkspace"
      /\ c # Boot /\ tails' = tails /\ run' = Cancelled(selected)
      /\ op' = [op EXCEPT ![c] = record]
      /\ UNCHANGED <<store, moved, refused, jobs, armed, started,
                     globallyEnabled, setting, blocked>>
  <2>1. op[c].pc = "ready" /\ Positioned(c) /\ op[c] \in CallRecord
    BY DEF CancelSelected, IInv, CallInv, TypeOK, CallRecord
  <2>2. op[c].kind = "cancelWorkspace"
    BY <2>1 DEF Positioned, CallRecord, Kinds, TaskKinds, LoopKinds
  <2>3. c # Boot
    BY <2>2 DEF IInv, CallInv
  <2>4. QED
    BY <2>1, <2>2, <2>3 DEF CancelSelected, Store, Schedules, Service
<1>2. /\ record \in CallRecord /\ record.kind = "cancelWorkspace" /\ record.pc = "settle"
      /\ record.task = op[c].task /\ record.todo = op[c].todo /\ record.ws = op[c].ws
      /\ record.waits = selected
  BY <1>1 DEF CallRecord, Points
<1> HIDE DEF record
<1>3. Only(c) /\ op'[c] = record
  BY <1>1, <1>2, BeginFields DEF IInv
<1>4. Positioned(c)' /\ ~Locked(c)'
  BY <1>2, <1>3 DEF Positioned, Locked, TaskKinds, LoopKinds
<1>5. /\ run' \in [Task -> RunRecord]
      /\ \A u \in Task :
            /\ run'[u].phase = run[u].phase /\ run'[u].auto = run[u].auto
            /\ run'[u].ws = run[u].ws /\ run'[u].task = run[u].task
            /\ Wanted(u)' => Wanted(u)
  BY <1>1, CancelWanted DEF IInv
<1>6. "cancelWorkspace" \notin TaskKinds /\ "settle" \notin AtTask
  BY DEF TaskKinds, AtTask
<1>7. /\ \A u \in op[c].todo : store[u].st # "absent"
      /\ op[c].task \in Task => store[op[c].task].st # "absent"
  BY <1>1 DEF IInv, AbsentInv, CallRecord
<1>8. /\ tails' \in [Task -> Seq(Caller)]
      /\ CallInv' /\ LockInv' /\ AbsentInv' /\ FreshInv' /\ QuietInv'
  <2>1. \A u \in Task : /\ jobs'[u] \in {jobs[u], None} /\ armed'[u] \subseteq armed[u]
                        /\ Wanted(u)' => Wanted(u)
                        /\ store[u].st = "absent" => run'[u].phase = run[u].phase
    BY <1>1, <1>5
  <2>2. QED
    BY <1>1, <1>2, <1>3, <1>4, <1>6, <1>7, <2>1, BeginKeeps
<1>9. TypeOK'
  BY <1>1, <1>3, <1>5, <1>8 DEF IInv, TypeOK, Only, CallRecord, RunRecord
<1>10. ArmedIsCurrent' /\ JobInv'
  BY <1>1 DEF IInv, ArmedIsCurrent, Armed, JobInv
<1>11. StartGaveUp' <=> StartGaveUp
  BY <1>1, <1>3 DEF StartGaveUp, Only, Caller
<1>12. RunInv'
  BY <1>1, <1>5, <1>11, RunsStay
<1>13. WaitInv'
  <2>1. ASSUME NEW u \in Task, run'[u].phase \in {"claim", "exec", "record"},
               run'[u].task.ws \in blocked'
        PROVE  \E d \in Call : /\ op'[d].kind = "cancelWorkspace"
                               /\ op'[d].ws = run'[u].task.ws /\ u \in op'[d].waits
    <3>1. PICK d \in Call : /\ op[d].kind = "cancelWorkspace"
                            /\ op[d].ws = run[u].task.ws /\ u \in op[d].waits
      BY <1>1, <1>5, <2>1 DEF IInv, WaitInv
    <3>2. run[u].ws = run[u].task.ws
      BY <1>5, <2>1 DEF IInv, RunInv
    <3>3. CASE d = c
      BY <1>2, <1>3, <1>5, <3>1, <3>2, <3>3
    <3>4. CASE d # c
      BY <1>3, <1>5, <3>1, <3>4 DEF Only, Caller
    <3>5. QED
      BY <3>3, <3>4
  <2>2. QED
    BY <2>1 DEF WaitInv
<1>14. QED
  BY <1>8, <1>9, <1>10, <1>12, <1>13 DEF IInv

\* An abort marks its call, and cancels the run that runNow waits for.
LEMMA AbortKeeps ==
    ASSUME IInv, NEW c \in Call, Abort(c)
    PROVE  IInv'
<1> USE ScheduleServiceAssumption
<1> DEFINE record == [op[c] EXCEPT !.aborted = TRUE]
<1>1. /\ op[c].pc # "idle" /\ c \in Caller /\ c # Boot
      /\ op' = [op EXCEPT ![c] = record] /\ tails' = tails
      /\ run' = Cancelled({op[c].task}) \/ run' = run
      /\ UNCHANGED <<store, moved, refused, jobs, armed, started,
                     globallyEnabled, setting, blocked>>
  BY DEF Abort, InFlight, Store, Schedules, Service, Caller
<1>2. op[c] \in CallRecord
  BY <1>1 DEF IInv, TypeOK, CallRecord
<1>3. /\ record \in CallRecord
      /\ record.kind = op[c].kind /\ record.task = op[c].task /\ record.ws = op[c].ws
      /\ record.pc = op[c].pc /\ record.cur = op[c].cur /\ record.next = op[c].next
      /\ record.todo = op[c].todo /\ record.waits = op[c].waits
  BY <1>2 DEF CallRecord
<1> HIDE DEF record
<1>4. Only(c) /\ op'[c] = record
  BY <1>1, <1>3, BeginFields DEF IInv
<1>5. op' \in [Caller -> CallRecord] /\ \A d \in Caller : d # c => op'[d] = op[d]
  BY <1>4 DEF Only
<1>6. \A d \in Caller :
         /\ op'[d].kind = op[d].kind /\ op'[d].task = op[d].task
         /\ op'[d].ws = op[d].ws /\ op'[d].pc = op[d].pc
         /\ op'[d].cur = op[d].cur /\ op'[d].next = op[d].next
         /\ op'[d].todo = op[d].todo /\ op'[d].waits = op[d].waits
         /\ op[d].pc = "idle" => op'[d] = op[d]
         /\ d = Boot => op'[d].aborted = op[d].aborted
  BY <1>1, <1>3, <1>4, <1>5
<1>7. /\ run' \in [Task -> RunRecord]
      /\ \A u \in Task :
            /\ run'[u].phase = run[u].phase /\ run'[u].auto = run[u].auto
            /\ run'[u].ws = run[u].ws /\ run'[u].task = run[u].task
            /\ Wanted(u)' => Wanted(u)
  <2>1. CASE run' = Cancelled({op[c].task})
    BY <2>1, CancelWanted DEF IInv
  <2>2. CASE run' = run
    BY <2>2 DEF IInv, TypeOK, RunRecord, Wanted
  <2>3. QED
    BY <1>1, <2>1, <2>2
<1>8. /\ TypeOK' /\ CallInv' /\ LockInv' /\ AbsentInv' /\ FreshInv'
      /\ ArmedIsCurrent' /\ JobInv' /\ QuietInv'
  <2>1. moved' \subseteq Task /\ refused' \in BOOLEAN
    BY <1>1 DEF IInv, TypeOK
  <2>2. QED
    BY <1>1, <1>5, <1>6, <1>7, <2>1, RunKeeps
<1>9. StartGaveUp' <=> StartGaveUp
  BY <1>6 DEF StartGaveUp, Caller
<1>10. RunInv'
  BY <1>1, <1>7, <1>9, RunsStay
<1>11. WaitInv'
  BY <1>1, <1>6, <1>7 DEF IInv, WaitInv, Caller
<1>12. QED
  BY <1>8, <1>10, <1>11 DEF IInv

----------------------------------------------------------------------------
(* Runs.                                                                   *)

\* The cron job fires: it was armed, so its task is scheduled.
LEMMA CronFiresKeeps ==
    ASSUME IInv, NEW t \in Task, CronFires(t)
    PROVE  IInv'
<1> USE ScheduleServiceAssumption
<1>1. /\ armed[t] # {} /\ run[t].phase = "none" /\ run' = Dispatched(t, TRUE)
      /\ UNCHANGED <<store, moved, refused, jobs, armed, tails, op, started,
                     globallyEnabled, setting, blocked>>
  BY DEF CronFires, Running, Store, Schedules, Service
<1>2. /\ run' \in [Task -> RunRecord]
      /\ \A u \in Task : u # t => run'[u] = run[u]
      /\ run'[t].phase = "get" /\ run'[t].task = store[t]
  <2>1. TRUE \in BOOLEAN
    OBVIOUS
  <2>2. QED
    BY <1>1, <2>1, DispatchFields DEF IInv
<1>3. jobs[t] # None /\ store[t].st # "absent"
  BY <1>1 DEF IInv, ArmedIsCurrent, TypeOK, AbsentInv, Caller
<1>4. \A u \in Task : u # t => (Wanted(u)' <=> Wanted(u))
  BY <1>2 DEF Wanted
<1>5. /\ TypeOK' /\ CallInv' /\ LockInv' /\ AbsentInv' /\ FreshInv'
      /\ ArmedIsCurrent' /\ JobInv' /\ QuietInv'
  <2>1. /\ moved' \subseteq Task /\ refused' \in BOOLEAN
        /\ op' \in [Caller -> CallRecord]
    BY <1>1 DEF IInv, TypeOK, CallRecord
  <2>2. \A u \in Task : /\ Wanted(u)' => Wanted(u) \/ armed[u] # {}
                        /\ store[u].st = "absent" => run'[u].phase = run[u].phase
    BY <1>1, <1>2, <1>3, <1>4
  <2>3. QED
    BY <1>1, <1>2, <2>1, <2>2, RunKeeps
<1>6. RunInv'
  <2>1. Wanted(t)' => Enabled(store[t])
    BY <1>2 DEF Wanted
  <2>2. RunInv /\ (StartGaveUp' <=> StartGaveUp)
    BY <1>1 DEF IInv, StartGaveUp
  <2>3. ASSUME NEW u \in Task
        PROVE  /\ run'[u].phase = "claim" => run'[u].auto
               /\ run'[u].phase \in {"claim", "exec", "record"} => run'[u].ws = run'[u].task.ws
               /\ Wanted(u)' =>
                     /\ Enabled(store'[u]) \/ refused' \/ store'[u] = Undone
                     /\ run'[u].phase \in {"get", "claim"} /\ Present(store'[u]) =>
                           store'[u].ws = run'[u].task.ws
                     /\ run'[u].phase \in {"claim", "exec"} =>
                           (started' \/ StartGaveUp') /\ globallyEnabled'
    <3>1. CASE u = t
      BY <1>1, <1>2, <2>1, <3>1
    <3>2. CASE u # t
      <4>1. /\ run'[u] = run[u] /\ (Wanted(u)' <=> Wanted(u))
            /\ store' = store /\ refused' = refused
            /\ started' = started /\ globallyEnabled' = globallyEnabled
        BY <1>1, <1>2, <1>4, <3>2
      <4>2. QED
        BY <2>2, <4>1 DEF RunInv
    <3>3. QED
      BY <3>1, <3>2
  <2>4. QED
    BY <2>3 DEF RunInv
<1>7. WaitInv'
  BY <1>1, <1>2 DEF IInv, WaitInv
<1>8. QED
  BY <1>5, <1>6, <1>7 DEF IInv

\* A run that ends is forgotten by the calls that wait for it.
LEMMA EndRunKeeps ==
    ASSUME IInv, NEW t \in Task, run[t].phase # "none", EndRun(t),
           moved' \subseteq Task, refused' \in BOOLEAN, refused => refused',
           UNCHANGED <<store, jobs, armed, tails, started, globallyEnabled,
                       setting, blocked>>
    PROVE  IInv'
<1> USE ScheduleServiceAssumption
<1>1. /\ run' \in [Task -> RunRecord] /\ run'[t].phase = "none"
      /\ ~run'[t].auto
      /\ \A u \in Task : u # t => run'[u] = run[u]
      /\ op' \in [Caller -> CallRecord]
      /\ \A d \in Caller :
            /\ op'[d] = [op[d] EXCEPT !.waits = op[d].waits \ {t}]
            /\ op'[d].kind = op[d].kind /\ op'[d].task = op[d].task
            /\ op'[d].ws = op[d].ws /\ op'[d].aborted = op[d].aborted
            /\ op'[d].cur = op[d].cur /\ op'[d].pc = op[d].pc
            /\ op'[d].next = op[d].next /\ op'[d].todo = op[d].todo
            /\ op'[d].waits = op[d].waits \ {t}
  BY EndFields DEF IInv
<1>2. \A d \in Caller : op[d].pc = "idle" => op'[d] = op[d]
  <2>1. ASSUME NEW d \in Caller, op[d].pc = "idle"
        PROVE  op'[d] = op[d]
    <3>1. op[d] = Idle /\ Idle.waits = {} \ {t} /\ Idle \in CallRecord
      BY <2>1, IdleCall, IdleFields
    <3>2. op'[d] = [Idle EXCEPT !.waits = {} \ {t}]
      BY <1>1, <3>1
    <3>3. [Idle EXCEPT !.waits = {} \ {t}] = Idle
      BY <3>1 DEF CallRecord
    <3>4. QED
      BY <3>1, <3>2, <3>3
  <2>2. QED
    BY <2>1
<1>3. \A u \in Task : /\ u # t => (Wanted(u)' <=> Wanted(u))
                      /\ ~Wanted(t)'
  BY <1>1 DEF Wanted
<1>4. store[t].st # "absent"
  BY DEF IInv, AbsentInv
<1>5. /\ TypeOK' /\ CallInv' /\ LockInv' /\ AbsentInv' /\ FreshInv'
      /\ ArmedIsCurrent' /\ JobInv' /\ QuietInv'
  <2>1. \A u \in Task : /\ Wanted(u)' => Wanted(u) \/ armed[u] # {}
                        /\ store[u].st = "absent" => run'[u].phase = run[u].phase
    BY <1>1, <1>3, <1>4
  <2>2. QED
    BY <1>1, <1>2, <2>1, RunKeeps
<1>6. RunInv'
  <2>1. RunInv /\ (StartGaveUp' <=> StartGaveUp)
    BY <1>1 DEF IInv, StartGaveUp, Caller
  <2>2. ASSUME NEW u \in Task
        PROVE  /\ run'[u].phase = "claim" => run'[u].auto
               /\ run'[u].phase \in {"claim", "exec", "record"} => run'[u].ws = run'[u].task.ws
               /\ Wanted(u)' =>
                     /\ Enabled(store'[u]) \/ refused' \/ store'[u] = Undone
                     /\ run'[u].phase \in {"get", "claim"} /\ Present(store'[u]) =>
                           store'[u].ws = run'[u].task.ws
                     /\ run'[u].phase \in {"claim", "exec"} =>
                           (started' \/ StartGaveUp') /\ globallyEnabled'
    <3>1. CASE u = t
      BY <1>1, <1>3, <3>1
    <3>2. CASE u # t
      BY <1>1, <1>3, <2>1, <3>2 DEF RunInv
    <3>3. QED
      BY <3>1, <3>2
  <2>3. QED
    BY <2>2 DEF RunInv
<1>7. WaitInv'
  <2>1. \A u \in Task : run'[u].phase \in {"claim", "exec", "record"} =>
           u # t /\ run'[u] = run[u]
    BY <1>1
  <2>2. \A d \in Call : /\ op'[d].kind = op[d].kind /\ op'[d].ws = op[d].ws
                       /\ op'[d].waits = op[d].waits \ {t}
    BY <1>1 DEF Caller
  <2>3. WaitInv
    BY DEF IInv
  <2>4. ASSUME NEW u \in Task, run'[u].phase \in {"claim", "exec", "record"},
               run'[u].task.ws \in blocked'
        PROVE  \E d \in Call : /\ op'[d].kind = "cancelWorkspace"
                               /\ op'[d].ws = run'[u].task.ws /\ u \in op'[d].waits
    <3>1. u # t /\ run'[u] = run[u] /\ run[u].task.ws \in blocked
      BY <2>1, <2>4
    <3>2. PICK d \in Call : /\ op[d].kind = "cancelWorkspace"
                            /\ op[d].ws = run[u].task.ws /\ u \in op[d].waits
      BY <2>1, <2>3, <2>4, <3>1 DEF WaitInv
    <3>3. QED
      BY <2>2, <3>1, <3>2
  <2>5. QED
    BY <2>4 DEF WaitInv
<1>8. QED
  BY <1>5, <1>6, <1>7 DEF IInv

\* A run that goes on: no call moves, and no other run.
LEMMA RunGoesOn ==
    ASSUME IInv, NEW t \in Task, store[t].st # "absent",
           run' \in [Task -> RunRecord],
           \A u \in Task : u # t => run'[u] = run[u],
           moved' \subseteq Task,
           UNCHANGED <<store, refused, jobs, armed, tails, op, started, globallyEnabled,
                       setting, blocked>>,
           run'[t].phase \in {"claim", "exec", "record"},
           run'[t].phase = "claim" => run'[t].auto,
           run'[t].ws = run'[t].task.ws,
           Wanted(t)' =>
               /\ Wanted(t)
               /\ Present(store[t]) => store[t].ws = run'[t].task.ws
               /\ (started \/ StartGaveUp) /\ globallyEnabled,
           \/ run'[t].task.ws \notin blocked
           \/ /\ run[t].phase \in {"claim", "exec", "record"}
              /\ run'[t].task.ws = run[t].task.ws
    PROVE  IInv'
<1> USE ScheduleServiceAssumption
<1>1. \A u \in Task : u # t => (Wanted(u)' <=> Wanted(u))
  BY DEF Wanted
<1>2. /\ TypeOK' /\ CallInv' /\ LockInv' /\ AbsentInv' /\ FreshInv'
      /\ ArmedIsCurrent' /\ JobInv' /\ QuietInv'
  <2>1. \A u \in Task : /\ Wanted(u)' => Wanted(u) \/ armed[u] # {}
                        /\ store[u].st = "absent" => run'[u].phase = run[u].phase
    BY <1>1
  <2>2. refused' \in BOOLEAN /\ (refused => refused') /\ op' \in [Caller -> CallRecord]
    BY DEF IInv, TypeOK, CallRecord
  <2>3. QED
    BY <2>1, <2>2, RunKeeps
<1>3. RunInv'
  <2>1. RunInv /\ (StartGaveUp' <=> StartGaveUp)
    BY DEF IInv, StartGaveUp
  <2>2. ASSUME NEW u \in Task
        PROVE  /\ run'[u].phase = "claim" => run'[u].auto
               /\ run'[u].phase \in {"claim", "exec", "record"} => run'[u].ws = run'[u].task.ws
               /\ Wanted(u)' =>
                     /\ Enabled(store'[u]) \/ refused' \/ store'[u] = Undone
                     /\ run'[u].phase \in {"get", "claim"} /\ Present(store'[u]) =>
                           store'[u].ws = run'[u].task.ws
                     /\ run'[u].phase \in {"claim", "exec"} =>
                           (started' \/ StartGaveUp') /\ globallyEnabled'
    <3>1. CASE u = t
      BY <2>1, <3>1 DEF RunInv
    <3>2. CASE u # t
      BY <1>1, <2>1, <3>2 DEF RunInv
    <3>3. QED
      BY <3>1, <3>2
  <2>3. QED
    BY <2>2 DEF RunInv
<1>4. WaitInv'
  BY DEF IInv, WaitInv
<1>5. QED
  BY <1>2, <1>3, <1>4 DEF IInv

\* dispatch() after its read.
LEMMA RunGotKeeps ==
    ASSUME IInv, NEW t \in Task, RunGot(t)
    PROVE  IInv'
<1>1. /\ run[t].phase = "get" /\ run[t] \in RunRecord /\ moved' = moved
      /\ UNCHANGED <<store, refused, jobs, armed, tails, started, globallyEnabled,
                     setting, blocked>>
  BY DEF RunGot, Store, Schedules, Service, IInv, TypeOK, RunRecord
<1>2. moved' \subseteq Task /\ refused' \in BOOLEAN /\ (refused => refused')
  BY <1>1 DEF IInv, TypeOK
<1>3. CASE EndRun(t)
  BY <1>1, <1>2, <1>3, EndRunKeeps
<1>4. CASE /\ ~Rejected(t)
           /\ run' = [run EXCEPT ![t].ws = run[t].task.ws,
                                 ![t].phase = IF run[t].auto THEN "claim" ELSE "exec"]
           /\ UNCHANGED op
  <2> DEFINE phase == IF run[t].auto THEN "claim" ELSE "exec"
             record == [run[t] EXCEPT !.ws = run[t].task.ws, !.phase = phase]
  <2>1. run[t].task \in TaskRecord /\ phase \in Phases
    BY <1>1 DEF RunRecord, Phases
  <2>2. /\ record \in RunRecord /\ record.ws = run[t].task.ws /\ record.phase = phase
        /\ record.auto = run[t].auto /\ record.cancel = run[t].cancel
        /\ record.task = run[t].task
    BY <1>1, <2>1 DEF RunRecord, TaskRecord
  <2>3. run' = [run EXCEPT ![t] = record]
    BY <1>4
  <2> HIDE DEF record
  <2>4. /\ run' \in [Task -> RunRecord] /\ run'[t] = record
        /\ \A u \in Task : u # t => run'[u] = run[u]
    BY <2>2, <2>3 DEF IInv, TypeOK, RunRecord
  <2>5. /\ Present(run[t].task) /\ run[t].task.ws \notin blocked
        /\ run[t].auto => started /\ globallyEnabled /\ run[t].task.enabled
    BY <1>4 DEF Rejected
  <2>6. Wanted(t)' =>
           /\ Wanted(t)
           /\ Present(store[t]) => store[t].ws = run'[t].task.ws
           /\ (started \/ StartGaveUp) /\ globallyEnabled
    <3>1. Wanted(t)' => run[t].auto /\ Wanted(t)
      BY <1>1, <2>2, <2>4, <2>5 DEF Wanted, Enabled
    <3>2. Wanted(t) /\ Present(store[t]) => store[t].ws = run'[t].task.ws
      BY <1>1, <2>2, <2>4 DEF IInv, RunInv
    <3>3. QED
      BY <2>5, <3>1, <3>2
  <2>7. store[t].st # "absent"
    BY <1>1 DEF IInv, AbsentInv
  <2>8. /\ run'[t].phase \in {"claim", "exec", "record"}
        /\ run'[t].phase = "claim" => run'[t].auto
        /\ run'[t].ws = run'[t].task.ws /\ run'[t].task.ws \notin blocked
    BY <2>2, <2>4, <2>5
  <2>9. QED
    BY <1>1, <1>2, <1>4, <2>4, <2>6, <2>7, <2>8, RunGoesOn
<1>5. QED
  BY <1>3, <1>4 DEF RunGot

\* advanceBeforeRun(): the run is of the task as it is by then.
LEMMA RunClaimKeeps ==
    ASSUME IInv, NEW t \in Task, RunClaim(t)
    PROVE  IInv'
<1>1. /\ run[t].phase = "claim" /\ run[t] \in RunRecord
      /\ UNCHANGED <<store, jobs, armed, tails, started, globallyEnabled,
                     setting, blocked>>
  BY DEF RunClaim, Schedules, Service, IInv, TypeOK, RunRecord
<1>2. CASE /\ Present(store[t]) /\ moved' = Moved(t) /\ UNCHANGED refused
           /\ IF CancelRequested(t) THEN EndRun(t)
              ELSE /\ run' = [run EXCEPT ![t].phase = "exec", ![t].cancel = FALSE,
                                         ![t].task = store[t]]
                   /\ UNCHANGED op
  <2>1. moved' \subseteq Task /\ refused' \in BOOLEAN /\ (refused => refused')
    BY <1>2, MovedFields DEF IInv, TypeOK
  <2>2. CASE EndRun(t)
    BY <1>1, <2>1, <2>2, EndRunKeeps
  <2>3. CASE /\ ~CancelRequested(t)
             /\ run' = [run EXCEPT ![t].phase = "exec", ![t].cancel = FALSE,
                                   ![t].task = store[t]]
             /\ UNCHANGED op
    <3> DEFINE record == [run[t] EXCEPT !.phase = "exec", !.cancel = FALSE,
                                        !.task = store[t]]
    <3>1. store[t] \in TaskRecord /\ "exec" \in Phases
      BY DEF IInv, TypeOK, Phases
    <3>2. /\ record \in RunRecord /\ record.ws = run[t].ws /\ record.phase = "exec"
          /\ record.auto = run[t].auto /\ record.task = store[t]
      BY <1>1, <3>1 DEF RunRecord
    <3>3. run' = [run EXCEPT ![t] = record]
      BY <2>3
    <3> HIDE DEF record
    <3>4. /\ run' \in [Task -> RunRecord] /\ run'[t] = record
          /\ \A u \in Task : u # t => run'[u] = run[u]
      BY <3>2, <3>3 DEF IInv, TypeOK, RunRecord
    <3>5. Wanted(t)
      BY <1>1, <2>3 DEF Wanted, CancelRequested, IInv, RunInv
    <3>6. /\ store[t].ws = run[t].task.ws /\ run[t].ws = run[t].task.ws
          /\ (started \/ StartGaveUp) /\ globallyEnabled
      BY <1>1, <1>2, <3>5 DEF IInv, RunInv
    <3>7. /\ run'[t].phase = "exec" /\ run'[t].ws = run'[t].task.ws
          /\ run'[t].task.ws = run[t].task.ws /\ store[t].ws = run'[t].task.ws
          /\ store[t].st # "absent"
      BY <1>2, <3>2, <3>4, <3>6 DEF Present
    <3>8. QED
      BY <1>1, <1>2, <2>1, <2>3, <3>4, <3>5, <3>6, <3>7, RunGoesOn
  <2>4. QED
    BY <1>2, <2>2, <2>3
<1>3. CASE /\ \/ Present(store[t]) /\ WriteFails
              \/ ~Present(store[t]) /\ UNCHANGED refused
           /\ EndRun(t) /\ UNCHANGED moved
  <2>1. refused' \in BOOLEAN /\ (refused => refused')
    <3>1. WriteFails \/ UNCHANGED refused
      BY <1>3
    <3>2. QED
      BY <3>1, RefusedFields DEF IInv
  <2>2. moved' \subseteq Task
    BY <1>3 DEF IInv, TypeOK
  <2>3. QED
    BY <1>1, <1>3, <2>1, <2>2, EndRunKeeps
<1>4. QED
  BY <1>2, <1>3 DEF RunClaim

\* The execution ends.
LEMMA RunFinishesKeeps ==
    ASSUME IInv, NEW t \in Task, RunFinishes(t)
    PROVE  IInv'
<1>1. /\ run[t].phase = "exec" /\ run[t] \in RunRecord
      /\ run' = [run EXCEPT ![t] = [run[t] EXCEPT !.phase = "record"]]
      /\ UNCHANGED <<store, moved, refused, jobs, armed, tails, op, started,
                     globallyEnabled, setting, blocked>>
  BY DEF RunFinishes, Store, Schedules, Service, IInv, TypeOK, RunRecord
<1> DEFINE record == [run[t] EXCEPT !.phase = "record"]
<1>2. /\ record \in RunRecord /\ record.ws = run[t].ws /\ record.phase = "record"
      /\ record.task = run[t].task
  BY <1>1 DEF RunRecord, Phases
<1>3. run' = [run EXCEPT ![t] = record]
  BY <1>1
<1> HIDE DEF record
<1>4. /\ run' \in [Task -> RunRecord] /\ run'[t] = record
      /\ \A u \in Task : u # t => run'[u] = run[u]
  BY <1>2, <1>3 DEF IInv, TypeOK, RunRecord
<1>5. ~Wanted(t)'
  BY <1>2, <1>4 DEF Wanted
<1>6. /\ run'[t].phase = "record" /\ run'[t].ws = run'[t].task.ws
      /\ run'[t].task.ws = run[t].task.ws
  BY <1>1, <1>2, <1>4 DEF IInv, RunInv
<1>7. store[t].st # "absent" /\ moved' \subseteq Task
  BY <1>1 DEF IInv, AbsentInv, TypeOK
<1>8. QED
  BY <1>1, <1>4, <1>5, <1>6, <1>7, RunGoesOn

\* recordRun(): the run is over.
LEMMA RunRecordedKeeps ==
    ASSUME IInv, NEW t \in Task, RunRecorded(t)
    PROVE  IInv'
<1>1. /\ run[t].phase = "record" /\ EndRun(t)
      /\ moved' = Moved(t) \/ moved' = moved
      /\ UNCHANGED <<store, refused, jobs, armed, tails, started, globallyEnabled,
                     setting, blocked>>
  BY DEF RunRecorded, Schedules, Service
<1>2. moved' \subseteq Task /\ refused' \in BOOLEAN /\ (refused => refused')
  BY <1>1, MovedFields DEF IInv, TypeOK
<1>3. QED
  BY <1>1, <1>2, EndRunKeeps

----------------------------------------------------------------------------
(* The theorems.                                                           *)

\* Nothing is scheduled, under way or running when the application starts.
LEMMA InitIInv == Init => IInv
<1> USE ScheduleServiceAssumption, IdleFields
<1> SUFFICES ASSUME Init PROVE IInv
  OBVIOUS
<1>1. TypeOK
  <2>1. store \in [Task -> TaskRecord]
    BY DEF Init
  <2>2. jobs \in [Task -> Caller \cup {None}] /\ armed \in [Task -> SUBSET Caller]
    BY DEF Init
  <2>3. run \in [Task -> RunRecord]
    BY DEF Init
  <2>4. op \in [Caller -> CallRecord]
    BY DEF Init
  <2>5. tails \in [Task -> Seq(Caller)]
    BY DEF Init
  <2>6. /\ moved \subseteq Task /\ blocked \subseteq Workspace /\ refused \in BOOLEAN
        /\ {started, globallyEnabled, setting} \subseteq BOOLEAN
    BY DEF Init
  <2>7. QED
    BY <2>1, <2>2, <2>3, <2>4, <2>5, <2>6 DEF TypeOK, CallRecord, RunRecord
<1>2. /\ \A c \in Caller : op[c] = Idle
      /\ \A t \in Task : jobs[t] = None /\ armed[t] = {} /\ run[t] = NoRun
      /\ blocked = {} /\ \A t \in Task : None # t
  BY DEF Init
<1>3. \A c \in Caller :
         /\ op[c].kind = "stop" /\ op[c].task = None /\ op[c].pc = "idle"
         /\ op[c].todo = {} /\ op[c].waits = {} /\ op[c].cur = NoRun.task
         /\ op[c] = Idle
  BY <1>2
<1>4. CallInv
  BY <1>3 DEF CallInv, Positioned, AtTask, TaskKinds
<1>5. LockInv /\ FreshInv
  BY <1>3 DEF LockInv, Locked, FreshInv
<1>6. AbsentInv
  BY <1>2, <1>3 DEF AbsentInv
<1>7. ArmedIsCurrent /\ JobInv
  BY <1>2 DEF ArmedIsCurrent, Armed, JobInv
<1>8. QuietInv
  BY <1>3 DEF QuietInv, Undoing
<1>9. RunInv /\ WaitInv
  <2>1. \A t \in Task : run[t].phase = "none"
    BY <1>2
  <2>2. QED
    BY <2>1 DEF RunInv, WaitInv, Wanted
<1>10. QED
  BY <1>1, <1>4, <1>5, <1>6, <1>7, <1>8, <1>9 DEF IInv

\* Calls that begin keep the invariant.
LEMMA CallBeginsKeeps ==
    ASSUME IInv, NEW c \in Call, CallBegins(c)
    PROVE  IInv'
<1>1. ASSUME NEW t \in Task, NEW kind \in {"pause", "resume", "remove"},
             CallTask(c, kind, t, NoRun.task)
      PROVE  IInv'
  <2>1. kind \in TaskKinds /\ kind # "save" /\ NoRun.task \in TaskRecord
    BY IdleFields DEF TaskKinds
  <2>2. QED
    BY <1>1, <2>1, CallTaskKeeps
<1>2. ASSUME NEW t \in Task, NEW e \in BOOLEAN, NEW w \in Workspace \cup {None},
             LET next == [st |-> "present", enabled |-> e, ws |-> w]
             IN  CallTask(c, "save", t, next) \/ Create(c, t, next)
      PROVE  IInv'
  <2> DEFINE next == [st |-> "present", enabled |-> e, ws |-> w]
  <2>1. next \in TaskRecord /\ Present(next) /\ "save" \in TaskKinds
    BY DEF TaskRecord, Present, TaskKinds
  <2>2. CallTask(c, "save", t, next) \/ Create(c, t, next)
    BY <1>2
  <2> HIDE DEF next
  <2>3. QED
    BY <2>1, <2>2, CallTaskKeeps, CreateKeeps
<1>3. ASSUME NEW t \in Task, RunNow(c, t)
      PROVE  IInv'
  BY <1>3, RunNowKeeps
<1>4. ASSUME NEW e \in BOOLEAN, SetGlobalEnabled(c, e)
      PROVE  IInv'
  BY <1>4, SetGlobalEnabledKeeps
<1>5. ASSUME NEW w \in Workspace, CancelWorkspace(c, w) \/ ResumeWorkspace(c, w)
      PROVE  IInv'
  BY <1>5, CancelWorkspaceKeeps, ResumeWorkspaceKeeps
<1>6. CASE Stop(c)
  BY <1>6, StopKeeps
<1>7. QED
  BY <1>1, <1>2, <1>3, <1>4, <1>5, <1>6 DEF CallBegins

\* So do the steps of a call.
LEMMA CallStepsKeep ==
    ASSUME IInv, NEW c \in Caller, CallStep(c)
    PROVE  IInv'
<1>1. CASE NextTask(c)
  BY <1>1, NextTaskKeeps
<1>2. CASE ScheduleLatest(c)
  BY <1>2, ScheduleLatestKeeps
<1>3. CASE Arm(c)
  BY <1>3, ArmKeeps
<1>4. CASE Settled(c)
  BY <1>4, SettledKeeps
<1>5. CASE CancelSelected(c)
  BY <1>5, CancelSelectedKeeps
<1>6. CASE \/ Disable(c) \/ Acquire(c) \/ Save(c) \/ Rollback(c) \/ Pause(c)
           \/ Resume(c) \/ Restore(c) \/ Remove(c)
  <2>1. op[c].pc \in AtTask
    BY <1>6 DEF Disable, Acquire, Save, Rollback, Pause, Resume, Restore, Remove, AtTask
  <2>2. PICK t \in Task : op[c].task = t
    BY <2>1, TaskOfCall
  <2>3. QED
    BY <1>6, <2>2, DisableKeeps, AcquireKeeps, SaveKeeps, RollbackKeeps, PauseKeeps,
       ResumeKeeps, RestoreKeeps, RemoveKeeps
<1>7. QED
  BY <1>1, <1>2, <1>3, <1>4, <1>5, <1>6 DEF CallStep

\* IInv is inductive.
LEMMA StepKeeps == IInv /\ [Next]_vars => IInv'
<1> SUFFICES ASSUME IInv, [Next]_vars PROVE IInv'
  OBVIOUS
<1>1. CASE Start
  BY <1>1, StartKeeps
<1>2. ASSUME NEW c \in Call, CallBegins(c) \/ Abort(c)
      PROVE  IInv'
  BY <1>2, CallBeginsKeeps, AbortKeeps
<1>3. ASSUME NEW c \in Caller, CallStep(c)
      PROVE  IInv'
  BY <1>3, CallStepsKeep
<1>4. ASSUME NEW t \in Task, CronFires(t) \/ RunStep(t) \/ RunFinishes(t)
      PROVE  IInv'
  BY <1>4, CronFiresKeeps, RunGotKeeps, RunClaimKeeps, RunFinishesKeeps,
     RunRecordedKeeps DEF RunStep
<1>5. CASE UNCHANGED vars
  <2> USE DEF vars
  <2>1. TypeOK' /\ CallInv'
    BY <1>5 DEF IInv, TypeOK, CallInv, Positioned
  <2>2. LockInv' /\ AbsentInv' /\ FreshInv'
    BY <1>5 DEF IInv, LockInv, Locked, Holds, AbsentInv, FreshInv
  <2>3. ArmedIsCurrent' /\ JobInv'
    BY <1>5 DEF IInv, ArmedIsCurrent, Armed, JobInv
  <2>4. QuietInv'
    BY <1>5 DEF IInv, QuietInv, Undoing, Wanted
  <2>5. RunInv' /\ WaitInv'
    BY <1>5 DEF IInv, RunInv, Wanted, StartGaveUp, WaitInv
  <2>6. QED
    BY <2>1, <2>2, <2>3, <2>4, <2>5 DEF IInv
<1>6. QED
  BY <1>1, <1>2, <1>3, <1>4, <1>5 DEF Next

\* The inductive invariant of the service.
THEOREM Invariant == Spec => []IInv
BY InitIInv, StepKeeps, PTL DEF Spec

\* The types of the service's state.
THEOREM TypeCorrect == Spec => []TypeOK
<1>1. IInv => TypeOK
  BY DEF IInv
<1>2. QED
  BY <1>1, Invariant, PTL

\* A cron job that may fire is the one stopJob() would stop, and there is none
\* with the service stopped or switched off.
THEOREM Armed_is_current == Spec => []ArmedIsCurrent
<1>1. IInv => ArmedIsCurrent
  BY DEF IInv
<1>2. QED
  BY <1>1, Invariant, PTL

\* Once cancelWorkspace() has returned, nothing runs in the workspace and
\* nothing is armed for it.
THEOREM Revoked_workspace_is_idle == Spec => []RevokedWorkspaceIsIdle
<1>1. IInv => RevokedWorkspaceIsIdle
  <2> SUFFICES ASSUME IInv PROVE RevokedWorkspaceIsIdle
    OBVIOUS
  <2>1. ASSUME NEW c \in Call, op[c].kind = "cancelWorkspace"
        PROVE  Mutating(op[c].ws)
    BY <2>1 DEF IInv, CallInv, Positioned, Mutating, InFlight, Caller
  <2>2. ASSUME NEW w \in blocked, ~Mutating(w), NEW t \in Task,
               run[t].phase \in {"exec", "record"}
        PROVE  run[t].task.ws # w
    BY <2>1, <2>2 DEF IInv, WaitInv
  <2>3. ASSUME NEW w \in blocked, NEW t \in Task, Armed(t)
        PROVE  store[t].ws # w
    <3>1. jobs[t] # None
      BY <2>3, ScheduleServiceAssumption
      DEF IInv, ArmedIsCurrent, TypeOK, Armed, Caller
    <3>2. QED
      BY <2>3, <3>1 DEF IInv, JobInv
  <2>4. QED
    BY <2>2, <2>3 DEF RevokedWorkspaceIsIdle
<1>2. QED
  BY <1>1, Invariant, PTL

\* An automatic run executes only while its task is wanted.
THEOREM Automatic_run_is_wanted == Spec => []AutomaticRunIsWanted
<1>1. IInv => AutomaticRunIsWanted
  <2> SUFFICES ASSUME IInv, NEW t \in Task,
                      run[t].phase = "exec" /\ run[t].auto /\ ~run[t].cancel
               PROVE  /\ (started \/ StartGaveUp) /\ globallyEnabled
                      /\ Enabled(store[t]) \/ refused \/ store[t] = Undone
                      /\ run[t].task.ws \in blocked => Mutating(run[t].task.ws)
    BY DEF AutomaticRunIsWanted
  <2>1. Wanted(t)
    BY DEF Wanted
  <2>2. /\ (started \/ StartGaveUp) /\ globallyEnabled
        /\ Enabled(store[t]) \/ refused \/ store[t] = Undone
    BY <2>1 DEF IInv, RunInv
  <2>3. ASSUME NEW c \in Call, op[c].kind = "cancelWorkspace"
        PROVE  Mutating(op[c].ws)
    BY <2>3 DEF IInv, CallInv, Positioned, Mutating, InFlight, Caller
  <2>4. run[t].task.ws \in blocked => Mutating(run[t].task.ws)
    BY <2>3 DEF IInv, WaitInv
  <2>5. QED
    BY <2>2, <2>4
<1>2. QED
  BY <1>1, Invariant, PTL

----------------------------------------------------------------------------
(* The schedule and the store.                                             *)

\* The loop of resumeWorkspace() is about the tasks of its workspace.
InWorkspace(o, w) == o.kind = "resumeWorkspace" => w = o.ws

\* A call, with the record o, that is still to schedule the task t as it is in
\* the store, in the workspace w, or to take it out of the schedule there.
OwesAt(o, c, t, job, w) ==
    \/ /\ o.task = t
       /\ \/ /\ o.kind \in {"save", "pause", "remove"}
             /\ o.pc \in {"settle", "commit", "rollback", "restore"}
          \/ o.kind = "create" /\ o.pc = "rollback"
          \/ o.kind = "resume" /\ o.pc = "restore"
          \/ o.pc \in {"arm", "rearm"} /\ job = c
          \/ o.kind \in LoopKinds /\ o.pc = "lock" /\ InWorkspace(o, w)
    \/ /\ o.kind \in LoopKinds /\ o.pc # "done"
       /\ t \in o.todo /\ InWorkspace(o, w)
Owes(c, t) == OwesAt(op[c], c, t, jobs[t], store[t].ws)

\* A task that should be armed is, or a call is still to see to it; a task that
\* is armed is in the store.
Owed(t) == Eligible(store[t]) => Armed(t) \/ \E c \in Caller : Owes(c, t)
Kept(t) == Armed(t) => Present(store[t])

\* The task that a rollback removes is not armed, unless it moved since.
Unarmed(c) ==
    op[c].kind = "create" /\ op[c].pc = "rollback" /\ op[c].task \notin moved =>
        armed[op[c].task] = {}

\* As long as nothing was refused, every eligible task is armed or owed.
DebtInv ==
    ~refused => /\ \A t \in Task : Owed(t) /\ Kept(t)
                /\ \A c \in Caller : Unarmed(c)

\* A task stays armed or owed when its job and its other calls stay, and the
\* call c does not drop what it owes.
LEMMA StillOwed ==
    ASSUME DebtInv, ~refused, NEW c \in Caller, Only(c), NEW t \in Task,
           store'[t].ws = store[t].ws,
           Eligible(store[t])' => Eligible(store[t]),
           armed'[t] = armed[t], jobs'[t] = jobs[t],
           Owes(c, t) => Owes(c, t)'
    PROVE  Owed(t)'
<1> SUFFICES ASSUME Eligible(store[t])'
             PROVE  Armed(t)' \/ \E d \in Caller : Owes(d, t)'
  BY DEF Owed
<1>1. Armed(t) \/ \E d \in Caller : Owes(d, t)
  BY DEF DebtInv, Owed
<1>2. ASSUME NEW d \in Caller, Owes(d, t)
      PROVE  Owes(d, t)'
  <2>1. CASE d = c
    BY <1>2, <2>1
  <2>2. CASE d # c
    <3>1. op'[d] = op[d]
      BY <2>2 DEF Only
    <3>2. QED
      BY <1>2, <3>1 DEF Owes
  <2>3. QED
    BY <2>1, <2>2
<1>3. QED
  BY <1>1, <1>2 DEF Armed

\* A step of c about the task t leaves the others as they are, and what it owes
\* to them, or stops the service.
Beside(c, t) ==
    \A u \in Task \ {t} :
        /\ store'[u] = store[u]
        /\ \/ /\ armed'[u] = armed[u] /\ jobs'[u] = jobs[u]
              /\ Owes(c, u) => Owes(c, u)'
           \/ ~started' /\ armed'[u] = {}

\* Such a step must show that t is armed or owed.
LEMMA DebtKeeps ==
    ASSUME DebtInv, NEW c \in Caller, NEW t, Only(c), refused => refused',
           started' => started, globallyEnabled' = globallyEnabled,
           blocked' = blocked, Beside(c, t),
           ~refused' /\ t \in Task => Owed(t)' /\ Kept(t)',
           ~refused' => \A d \in Caller : Unarmed(d)'
    PROVE  DebtInv'
<1> SUFFICES ASSUME ~refused'
             PROVE  \A u \in Task : Owed(u)' /\ Kept(u)'
  BY DEF DebtInv
<1> TAKE u \in Task
<1>1. ~refused
  OBVIOUS
<1>2. CASE u = t
  BY <1>2
<1>3. CASE u # t
  <2>1. store'[u] = store[u] /\ Kept(u)
    BY <1>1, <1>3 DEF Beside, DebtInv
  <2>2. CASE ~started' /\ armed'[u] = {}
    BY <2>2 DEF Owed, Kept, Eligible, Armed
  <2>3. CASE /\ armed'[u] = armed[u] /\ jobs'[u] = jobs[u]
             /\ Owes(c, u) => Owes(c, u)'
    <3>1. Eligible(store[u])' => Eligible(store[u])
      BY <2>1 DEF Eligible, Enabled, Present
    <3>2. Owed(u)'
      BY <1>1, <2>1, <2>3, <3>1, StillOwed
    <3>3. Kept(u)'
      BY <2>1, <2>3 DEF Kept, Armed, Present
    <3>4. QED
      BY <3>2, <3>3
  <2>4. QED
    BY <1>3, <2>2, <2>3 DEF Beside
<1>4. QED
  BY <1>2, <1>3

\* A call that goes on owes the other tasks what it did; a call that is no loop
\* owes them nothing.
LEMMA GoesOn ==
    ASSUME NEW c \in Caller, NEW u \in Task, u # op[c].task,
           store'[u] = store[u],
           op[c].kind \notin LoopKinds \/ (Same(c) /\ op'[c].pc # "done")
    PROVE  Owes(c, u) => Owes(c, u)'
<1>1. CASE op[c].kind \notin LoopKinds
  BY <1>1 DEF Owes, OwesAt
<1>2. CASE Same(c) /\ op'[c].pc # "done"
  BY <1>2 DEF Owes, OwesAt, Same, InWorkspace
<1>3. QED
  BY <1>1, <1>2

\* Where no job is armed and no task is written over, no rollback meets one.
LEMMA UnarmedKeeps ==
    ASSUME CallInv, DebtInv, ~refused, NEW c \in Caller, Only(c),
           moved \subseteq moved', \A u \in Task : armed'[u] \subseteq armed[u],
           op'[c].kind = "create" /\ op'[c].pc = "rollback" =>
              \/ armed'[op'[c].task] = {}
              \/ /\ op'[c].task = op[c].task
                 /\ op[c].kind = "create" /\ op[c].pc = "rollback"
    PROVE  \A d \in Caller : Unarmed(d)'
<1> SUFFICES ASSUME NEW d \in Caller,
                    op'[d].kind = "create", op'[d].pc = "rollback",
                    op'[d].task \notin moved'
             PROVE  armed'[op'[d].task] = {}
  BY DEF Unarmed
<1>1. Unarmed(d)
  BY DEF DebtInv
<1>2. CASE /\ op'[d].task = op[d].task
           /\ op[d].kind = "create" /\ op[d].pc = "rollback"
  <2>1. op[d].task \in Task
    BY <1>2 DEF CallInv, AtTask
  <2>2. armed[op[d].task] = {}
    BY <1>1, <1>2 DEF Unarmed
  <2>3. QED
    BY <1>2, <2>1, <2>2
<1>3. CASE d # c
  BY <1>2, <1>3 DEF Only
<1>4. QED
  BY <1>2, <1>3

\* What follows schedule() leaves the other tasks as they are, or gives up.
LEMMA ScheduledBeside ==
    ASSUME TypeOK, ArmedIsCurrent, NEW c \in Caller, op[c].task \in Task,
           NEW pc \in {"arm", "rearm"}, NEW newJobs, NEW newArmed,
           \A u \in Task \ {op[c].task} :
              store'[u] = store[u] /\ newJobs[u] = jobs[u] /\ newArmed[u] = armed[u],
           newJobs \in [Task -> Caller \cup {None}],
           newArmed \in [Task -> SUBSET Caller],
           Scheduled(c, pc, newJobs, newArmed)
    PROVE  Beside(c, op[c].task)
<1> DEFINE t == op[c].task
<1>1. CASE op[c].kind \notin LoopKinds /\ jobs' = newJobs /\ armed' = newArmed
  BY <1>1, GoesOn DEF Beside
<1>2. CASE /\ op[c].kind \notin LoopKinds
           /\ jobs' = [newJobs EXCEPT ![t] = None]
           /\ armed' = [newArmed EXCEPT ![t] = @ \ {newJobs[t]}]
  <2>1. \A u \in Task \ {t} : jobs'[u] = jobs[u] /\ armed'[u] = armed[u]
    BY <1>2
  <2>2. QED
    BY <1>2, <2>1, GoesOn DEF Beside
<1>3. CASE /\ op[c].kind \in LoopKinds /\ jobs' = newJobs /\ armed' = newArmed
           /\ At(c, "loop")
  <2>1. Same(c) /\ op'[c].pc # "done"
    BY <1>3, AtFields DEF Points
  <2>2. QED
    BY <1>3, <2>1, GoesOn DEF Beside
<1>4. CASE GiveUp(c)
  BY <1>4, GiveUpFields DEF Beside
<1>5. QED
  BY <1>1, <1>2, <1>3, <1>4 DEF Scheduled

\* So does schedule(), with its paused job.
LEMMA ScheduleBeside ==
    ASSUME TypeOK, ArmedIsCurrent, NEW c \in Caller, op[c].task \in Task,
           NEW record, NEW pc \in {"arm", "rearm"}, Schedule(c, record, pc),
           \A u \in Task \ {op[c].task} : store'[u] = store[u]
    PROVE  Beside(c, op[c].task)
<1> DEFINE t == op[c].task
           stopped == [armed EXCEPT ![t] = @ \ {jobs[t]}]
           left == [jobs EXCEPT ![t] = None]
<1>1. /\ stopped \in [Task -> SUBSET Caller] /\ left \in [Task -> Caller \cup {None}]
      /\ \A u \in Task \ {t} : stopped[u] = armed[u] /\ left[u] = jobs[u]
  BY DEF TypeOK
<1>2. CASE jobs' = [jobs EXCEPT ![t] = c] /\ armed' = stopped /\ At(c, pc)
  <2>1. Same(c) /\ op'[c].pc # "done"
    BY <1>2, AtFields DEF Points
  <2>2. \A u \in Task \ {t} : jobs'[u] = jobs[u] /\ armed'[u] = armed[u]
    BY <1>2 DEF TypeOK
  <2>3. QED
    BY <2>1, <2>2, GoesOn DEF Beside
<1>3. CASE Scheduled(c, pc, left, stopped)
  <2> HIDE DEF left, stopped
  <2>1. QED
    BY <1>1, <1>3, ScheduledBeside
<1>4. QED
  BY <1>2, <1>3 DEF Schedule

\* schedule() leaves its task owed or out of the schedule.
LEMMA ScheduleOwes ==
    ASSUME TypeOK, ArmedIsCurrent, NEW c \in Caller, NEW t \in Task, op[c].task = t,
           NEW record, NEW pc \in {"arm", "rearm"}, Schedule(c, record, pc),
           store'[t] = record \/ ~Present(store'[t]),
           globallyEnabled' = globallyEnabled, blocked' = blocked
    PROVE  /\ Owed(t)' /\ Kept(t)' /\ Only(c)
           /\ \A u \in Task : armed'[u] \subseteq armed[u]
           /\ armed'[t] = {}
           /\ started' => started
           /\ op'[c].kind = "create" => op'[c].task = t
<1> USE ScheduleServiceAssumption
<1>1. /\ Only(c) /\ armed'[t] = {}
      /\ \A u \in Task : armed'[u] \subseteq armed[u]
      /\ \/ /\ Eligible(record) /\ jobs'[t] = c
            /\ Same(c) /\ op'[c].pc = pc /\ started' = started
         \/ jobs'[t] = None /\ Continues(c, pc)
  BY ScheduleFields
<1>2. op'[c].kind = "create" => op'[c].task = t
  BY <1>1 DEF Same, Continues, Over
<1>3. started' => started
  BY <1>1 DEF Continues
<1>4. Kept(t)'
  BY <1>1 DEF Kept, Armed
<1>5. CASE Eligible(record)
  <2>1. jobs'[t] = c
    BY <1>5 DEF Schedule, TypeOK
  <2>2. c # None
    BY DEF Caller
  <2>3. Same(c) /\ op'[c].pc = pc
    BY <1>1, <2>1, <2>2
  <2>4. Owes(c, t)'
    BY <2>1, <2>3 DEF Owes, OwesAt, Same
  <2>5. QED
    BY <1>1, <1>2, <1>3, <1>4, <2>4 DEF Owed
<1>6. CASE ~Eligible(record)
  <2>1. ~Eligible(store[t])'
    BY <1>3, <1>6 DEF Eligible, Enabled, Present
  <2>2. Owed(t)'
    BY <2>1 DEF Owed
  <2>3. QED
    BY <1>1, <1>2, <1>3, <1>4, <2>2
<1>7. QED
  BY <1>5, <1>6

\* A step that ends in schedule().
LEMMA ScheduleDebt ==
    ASSUME IInv, DebtInv, NEW c \in Caller, NEW t \in Task, op[c].task = t,
           NEW record, NEW pc \in {"arm", "rearm"}, Schedule(c, record, pc),
           store'[t] = record \/ ~Present(store'[t]),
           \A u \in Task \ {t} : store'[u] = store[u],
           globallyEnabled' = globallyEnabled, blocked' = blocked,
           refused => refused', ~refused' => moved \subseteq moved'
    PROVE  DebtInv'
<1>1. TypeOK /\ ArmedIsCurrent /\ CallInv
  BY DEF IInv
<1>2. /\ Owed(t)' /\ Kept(t)' /\ Only(c)
      /\ \A u \in Task : armed'[u] \subseteq armed[u]
      /\ armed'[t] = {}
      /\ started' => started
      /\ op'[c].kind = "create" => op'[c].task = t
  BY <1>1, ScheduleOwes
<1>3. Beside(c, t)
  BY <1>1, ScheduleBeside
<1>4. ASSUME ~refused'
      PROVE  \A d \in Caller : Unarmed(d)'
  <2>1. ~refused /\ moved \subseteq moved'
    BY <1>4
  <2>2. QED
    BY <1>1, <1>2, <2>1, UnarmedKeeps
<1>5. QED
  BY <1>2, <1>3, <1>4, DebtKeeps

\* A step without schedule(): the call is over or goes on, and the jobs of other
\* tasks stay.
Plain(c) ==
    /\ Only(c)
    /\ \/ Over(c) /\ op[c].kind \notin LoopKinds
       \/ Same(c) /\ op'[c].pc # "done"
    /\ \A u \in Task \ {op[c].task} :
          store'[u] = store[u] /\ armed'[u] = armed[u] /\ jobs'[u] = jobs[u]
    /\ \A u \in Task : armed'[u] \subseteq armed[u]
    /\ started' = started /\ globallyEnabled' = globallyEnabled
    /\ blocked' = blocked
    /\ refused => refused'

\* It must show that its task is armed or owed, and that a creation that is about
\* to be undone left it unarmed.
LEMMA PlainDebt ==
    ASSUME CallInv, DebtInv, NEW c \in Caller, NEW t, op[c].task = t, Plain(c),
           ~refused' => moved \subseteq moved',
           op'[c].kind = "create" /\ op'[c].pc = "rollback" =>
              \/ armed'[op'[c].task] = {}
              \/ op[c].kind = "create" /\ op[c].pc = "rollback",
           ~refused' /\ t \in Task =>
              Owed(t)' /\ Kept(t)'
    PROVE  DebtInv'
<1>1. /\ Only(c) /\ \A u \in Task : armed'[u] \subseteq armed[u]
      /\ started' = started /\ globallyEnabled' = globallyEnabled
      /\ blocked' = blocked /\ (refused => refused')
  BY DEF Plain
<1>2. op[c].kind \notin LoopKinds \/ (Same(c) /\ op'[c].pc # "done")
  BY DEF Plain
<1>3. \A u \in Task \ {op[c].task} : store'[u] = store[u] /\ (Owes(c, u) => Owes(c, u)')
  BY <1>2, GoesOn DEF Plain
<1>4. Beside(c, t)
  BY <1>3 DEF Beside, Plain
<1>5. op'[c].kind = "create" => op'[c].task = t
  BY DEF Plain, Over, Same
<1>6. ASSUME ~refused'
      PROVE  \A d \in Caller : Unarmed(d)'
  <2>1. ~refused /\ moved \subseteq moved'
    BY <1>1, <1>6
  <2>2. QED
    BY <1>1, <1>5, <2>1, UnarmedKeeps
<1>7. QED
  BY <1>1, <1>4, <1>6, DebtKeeps

\* A task that is not to be armed is not owed.
LEMMA NotOwed ==
    ASSUME NEW t \in Task, ~Enabled(store'[t])
    PROVE  Owed(t)'
BY DEF Owed, Eligible, Enabled, Present

\* A call that ends, with nothing to do for its task.
LEMMA OverDebt ==
    ASSUME CallInv, DebtInv, NEW c \in Caller, NEW t, op[c].task = t,
           Only(c), Over(c), op[c].kind \notin LoopKinds,
           \A u \in Task \ {t} :
              store'[u] = store[u] /\ armed'[u] = armed[u] /\ jobs'[u] = jobs[u],
           \A u \in Task : armed'[u] \subseteq armed[u],
           UNCHANGED <<started, globallyEnabled, blocked>>,
           refused => refused', ~refused' => moved \subseteq moved',
           ~refused' /\ t \in Task => Owed(t)' /\ Kept(t)'
    PROVE  DebtInv'
<1>1. /\ started' = started /\ globallyEnabled' = globallyEnabled
      /\ blocked' = blocked
  OBVIOUS
<1>2. op'[c].kind # "create"
  BY DEF Over
<1>3. Plain(c)
  BY <1>1 DEF Plain
<1>4. QED
  BY <1>2, <1>3, PlainDebt

\* The same when the schedule and the store stay.
LEMMA IdleDebt ==
    ASSUME CallInv, DebtInv, NEW c \in Caller,
           Only(c), Over(c), op[c].kind \notin LoopKinds,
           UNCHANGED <<store, armed, jobs, started, globallyEnabled, blocked>>,
           refused => refused', ~refused' => moved \subseteq moved',
           ~refused' /\ op[c].task \in Task =>
              ~Owes(c, op[c].task) \/ ~Enabled(store[op[c].task])
    PROVE  DebtInv'
<1> DEFINE t == op[c].task
<1>1. ASSUME ~refused', NEW u \in Task, u = op[c].task
      PROVE  Owed(u)' /\ Kept(u)'
  <2>1. ~refused /\ Kept(u) /\ Owed(u)
    BY <1>1 DEF DebtInv
  <2>2. CASE ~Enabled(store[u])
    BY <2>1, <2>2, NotOwed DEF Kept, Armed, Present
  <2>3. CASE ~Owes(c, u)
    <3>1. Eligible(store[u])' => Eligible(store[u])
      BY DEF Eligible, Enabled, Present
    <3>2. Owed(u)'
      BY <2>1, <2>3, <3>1, StillOwed
    <3>3. QED
      BY <2>1, <3>2 DEF Kept, Armed, Present
  <2>4. QED
    BY <1>1, <2>2, <2>3
<1>2. QED
  BY <1>1, OverDebt

\* The loop schedules its task as it is now, or passes over it.
LEMMA ScheduleLatestDebt ==
    ASSUME IInv, DebtInv, NEW c \in Caller, ScheduleLatest(c)
    PROVE  DebtInv'
<1>1. TypeOK /\ CallInv
  BY DEF IInv
<1>2. /\ op[c].pc = "lock" /\ op[c].kind \in LoopKinds
      /\ UNCHANGED <<store, moved, refused, globallyEnabled, blocked>>
  BY DEF ScheduleLatest, Store
<1>3. PICK t \in Task : op[c].task = t
  BY <1>2, TaskOfCall DEF AtTask
<1>4. CASE Schedule(c, store[t], "arm")
  BY <1>2, <1>3, <1>4, ScheduleDebt
<1>5. CASE /\ ~(Enabled(store[t]) /\ InWorkspace(op[c], store[t].ws))
           /\ At(c, "loop") /\ Release(c) /\ UNCHANGED <<Schedules, run, started>>
  <2>1. Only(c) /\ Same(c) /\ op'[c].pc = "loop"
    BY <1>1, <1>5, LoopFields
  <2>2. jobs' = jobs /\ armed' = armed /\ started' = started
    BY <1>5 DEF Schedules
  <2>3. Plain(c)
    BY <1>2, <2>1, <2>2 DEF Plain
  <2>4. ASSUME ~refused'
        PROVE  Owed(t)' /\ Kept(t)'
    <3>1. ~refused /\ Kept(t)
      BY <1>2, <2>4 DEF DebtInv
    <3>2. CASE ~Enabled(store[t])
      BY <1>2, <2>2, <3>1, <3>2, NotOwed DEF Kept, Armed, Present
    <3>3. CASE ~InWorkspace(op[c], store[t].ws)
      <4>1. ~Owes(c, t)
        BY <1>2, <3>3 DEF Owes, OwesAt, LoopKinds, InWorkspace
      <4>2. Eligible(store[t])' => Eligible(store[t])
        BY <1>2, <2>2 DEF Eligible, Enabled, Present
      <4>3. Owed(t)'
        BY <1>2, <2>1, <2>2, <3>1, <4>1, <4>2, StillOwed
      <4>4. QED
        BY <1>2, <2>2, <3>1, <4>3 DEF Kept, Armed, Present
    <3>4. QED
      BY <1>5, <3>2, <3>3
  <2>5. op'[c].kind # "create"
    BY <1>2, <2>1 DEF Same, LoopKinds
  <2>6. QED
    BY <1>1, <1>2, <1>3, <2>3, <2>4, <2>5, PlainDebt
<1>6. QED
  BY <1>3, <1>4, <1>5 DEF ScheduleLatest, InWorkspace

\* The call has the lock.
LEMMA AcquireDebt ==
    ASSUME IInv, DebtInv, NEW c \in Caller, Acquire(c)
    PROVE  DebtInv'
<1>1. TypeOK /\ CallInv /\ ArmedIsCurrent
  BY DEF IInv
<1>2. /\ op[c].pc = "lock" /\ op[c].kind \in TaskKinds
      /\ op[c].kind \notin LoopKinds
      /\ UNCHANGED <<store, moved, refused, started, globallyEnabled, blocked>>
  BY DEF Acquire, Store, Service, TaskKinds, LoopKinds
<1>3. PICK t \in Task : op[c].task = t
  BY <1>2, TaskOfCall DEF AtTask
<1>4. ~Owes(c, t)
  BY <1>2 DEF Owes, OwesAt
<1>5. CASE Finish(c) /\ UNCHANGED <<Schedules, run>>
  <2>1. Only(c) /\ Over(c)
    BY <1>1, <1>5, FinishFields
  <2>2. QED
    BY <1>1, <1>2, <1>3, <1>4, <1>5, <2>1, IdleDebt DEF Schedules
<1>6. CASE op[c].kind # "resume" /\ Quiesce(c, store[t])
  <2>1. /\ StopJobs({t})
        /\ op' = [op EXCEPT ![c].cur = store[t], ![c].pc = "settle",
                            ![c].waits = {t} \cap Running]
    BY <1>3, <1>6 DEF Quiesce
  <2>2. \A u \in Task : /\ u # t => jobs'[u] = jobs[u] /\ armed'[u] = armed[u]
                        /\ armed'[u] \subseteq armed[u]
    BY <1>1, <2>1, StopFields
  <2>3. armed'[t] = {}
    BY <1>1, <2>1, StopFields
  <2>4. /\ Only(c) /\ op'[c].pc = "settle" /\ op'[c].task = t
        /\ op'[c].kind = op[c].kind
    <3> DEFINE n == [op[c] EXCEPT !.cur = store[t], !.pc = "settle",
                                  !.waits = {t} \cap Running]
    <3>1. op[c] \in CallRecord /\ store[t] \in TaskRecord
          /\ "settle" \in Points /\ {t} \cap Running \subseteq Task
      BY <1>1 DEF TypeOK, CallRecord, Points
    <3>2. n \in CallRecord /\ n.pc = "settle" /\ n.task = t /\ n.kind = op[c].kind
      BY <1>3, <3>1 DEF CallRecord
    <3>3. op' = [op EXCEPT ![c] = n]
      BY <2>1
    <3> HIDE DEF n
    <3>4. Only(c) /\ op'[c] = n
      BY <1>1, <3>2, <3>3, BeginFields
    <3>5. QED
      BY <3>2, <3>4
  <2>5. Owes(c, t)'
    BY <1>2, <1>6, <2>4 DEF Owes, OwesAt, TaskKinds
  <2>6. Owed(t)' /\ Kept(t)'
    BY <2>3, <2>5 DEF Owed, Kept, Armed
  <2>7. Beside(c, t)
    BY <1>2, <1>3, <2>2, GoesOn DEF Beside
  <2>8. op'[c].kind # "create"
    BY <1>2, <2>4 DEF TaskKinds
  <2>9. ~refused' => \A d \in Caller : Unarmed(d)'
    BY <1>1, <1>2, <2>2, <2>4, <2>8, UnarmedKeeps
  <2>10. QED
    BY <1>2, <2>4, <2>6, <2>7, <2>9, DebtKeeps
<1>7. CASE /\ op[c].kind = "resume"
           /\ op' = [op EXCEPT ![c].cur = store[t], ![c].pc = "commit"]
           /\ UNCHANGED <<Schedules, run, tails>>
  <2>1. /\ Only(c) /\ op'[c].pc = "commit" /\ op'[c].task = t
        /\ op'[c].kind = op[c].kind
    <3> DEFINE n == [op[c] EXCEPT !.cur = store[t], !.pc = "commit"]
    <3>1. op[c] \in CallRecord /\ store[t] \in TaskRecord /\ "commit" \in Points
      BY <1>1 DEF TypeOK, CallRecord, Points
    <3>2. n \in CallRecord /\ n.pc = "commit" /\ n.task = t /\ n.kind = op[c].kind
      BY <1>3, <3>1 DEF CallRecord
    <3>3. op' = [op EXCEPT ![c] = n]
      BY <1>7
    <3> HIDE DEF n
    <3>4. Only(c) /\ op'[c] = n
      BY <1>1, <3>2, <3>3, BeginFields
    <3>5. QED
      BY <3>2, <3>4
  <2>2. armed' = armed /\ jobs' = jobs
    BY <1>7 DEF Schedules
  <2>3. Beside(c, t)
    BY <1>2, <1>3, <2>2, GoesOn DEF Beside
  <2>4. ASSUME ~refused'
        PROVE  Owed(t)' /\ Kept(t)'
    <3>1. ~refused /\ Kept(t)
      BY <1>2, <2>4 DEF DebtInv
    <3>2. Eligible(store[t])' => Eligible(store[t])
      BY <1>2 DEF Eligible, Enabled, Present
    <3>3. Owed(t)'
      BY <1>2, <1>4, <2>1, <2>2, <3>1, <3>2, StillOwed
    <3>4. QED
      BY <1>2, <2>2, <3>1, <3>3 DEF Kept, Armed, Present
  <2>5. op'[c].kind # "create"
    BY <1>2, <2>1 DEF TaskKinds
  <2>6. ~refused' => \A d \in Caller : Unarmed(d)'
    BY <1>1, <1>2, <2>1, <2>2, <2>5, UnarmedKeeps
  <2>7. QED
    BY <1>2, <2>1, <2>3, <2>4, <2>6, DebtKeeps
<1>8. QED
  BY <1>3, <1>5, <1>6, <1>7 DEF Acquire

\* A step that is refused.
LEMMA RefusedDebt ==
    ASSUME refused'
    PROVE  DebtInv'
BY DEF DebtInv

\* rescheduleCurrent: the task is scheduled as it is, or not in the store.
LEMMA RescheduleDebt ==
    ASSUME IInv, DebtInv, NEW c \in Caller, NEW t \in Task, op[c].task = t,
           op[c].kind \in {"save", "create"}, RescheduleCurrent(c),
           op[c].kind = "create" => ~Present(store[t]),
           UNCHANGED <<store, moved, refused, globallyEnabled, blocked>>
    PROVE  DebtInv'
<1>1. TypeOK /\ CallInv
  BY DEF IInv
<1>2. CASE Present(store[t]) /\ Schedule(c, store[t], "rearm")
  BY <1>2, ScheduleDebt
<1>3. CASE /\ ~Present(store[t])
           /\ Finish(c) /\ UNCHANGED <<jobs, armed, run, started>>
  <2>1. Only(c) /\ Over(c)
    BY <1>1, <1>3, FinishFields
  <2>2. ~Enabled(store[op[c].task])
    BY <1>3 DEF Enabled
  <2>3. op[c].kind \notin LoopKinds
    BY DEF LoopKinds
  <2>4. QED
    BY <1>1, <1>3, <2>1, <2>2, <2>3, IdleDebt
<1>4. QED
  BY <1>2, <1>3 DEF RescheduleCurrent

\* The cancelled runs are over.
LEMMA SettledDebt ==
    ASSUME IInv, DebtInv, NEW c \in Caller, Settled(c)
    PROVE  DebtInv'
<1>1. TypeOK /\ CallInv /\ FreshInv
  BY DEF IInv
<1>2. /\ op[c].pc = "settle" /\ Positioned(c) /\ op[c].kind \in Kinds
      /\ UNCHANGED <<store, moved, refused, globallyEnabled, blocked>>
  BY <1>1 DEF Settled, Store, CallInv, TypeOK
<1>3. CASE /\ op[c].kind \notin TaskKinds
           /\ Done(c) /\ UNCHANGED <<tails, Schedules, run, started>>
  <2>1. Only(c) /\ Over(c)
    BY <1>1, <1>3, DoneFields
  <2>2. op[c].kind \notin LoopKinds
    BY <1>2 DEF Positioned, LoopKinds
  <2>3. ~Owes(c, op[c].task)
    BY <1>2, <1>3, <2>2 DEF Owes, OwesAt, TaskKinds
  <2>4. QED
    BY <1>1, <1>2, <1>3, <2>1, <2>2, <2>3, IdleDebt DEF Schedules
<1>4. CASE op[c].kind \in TaskKinds
  <2>1. PICK t \in Task : op[c].task = t
    BY <1>2, <1>4, TaskOfCall
  <2>2. op[c].kind \in {"save", "pause", "remove"} /\ op[c].kind \notin LoopKinds
    BY <1>2, <1>4 DEF Positioned, TaskKinds, LoopKinds
  <2>3. store[t] \in {op[c].cur, Undone}
    BY <1>1, <1>2, <1>4, <2>1 DEF FreshInv
  <2>4. ~Present(Undone)
    BY DEF Undone, NoRun, Present
  <2>5. CASE At(c, "commit") /\ UNCHANGED <<tails, Schedules, run, started>>
    <3>1. Only(c) /\ Same(c) /\ op'[c].pc = "commit"
      BY <1>1, <2>5, AtFields DEF Points
    <3>2. jobs' = jobs /\ armed' = armed /\ started' = started
      BY <2>5 DEF Schedules
    <3>3. Plain(c)
      BY <1>2, <3>1, <3>2 DEF Plain
    <3>4. Owes(c, t)'
      BY <2>1, <2>2, <3>1 DEF Owes, OwesAt, Same
    <3>5. Owed(t)'
      BY <3>4 DEF Owed
    <3>6. ~refused' => Kept(t)'
      BY <1>2, <3>2 DEF DebtInv, Kept, Armed, Present
    <3>7. op'[c].kind # "create"
      BY <2>2, <3>1 DEF Same
    <3>8. QED
      BY <1>1, <1>2, <2>1, <3>3, <3>5, <3>6, <3>7, PlainDebt
  <2>6. CASE op[c].kind = "save" /\ RescheduleCurrent(c)
    BY <1>2, <2>1, <2>6, RescheduleDebt
  <2>7. CASE Schedule(c, op[c].cur, "rearm")
    <3>1. store'[t] = op[c].cur \/ ~Present(store'[t])
      BY <1>2, <2>3, <2>4
    <3>2. QED
      BY <1>2, <2>1, <2>7, <3>1, ScheduleDebt
  <2>8. CASE /\ ~Enabled(op[c].cur)
             /\ Finish(c) /\ UNCHANGED <<Schedules, run, started>>
    <3>1. Only(c) /\ Over(c)
      BY <1>1, <2>8, FinishFields
    <3>2. ~Enabled(store[op[c].task])
      BY <2>1, <2>3, <2>4, <2>8 DEF Enabled
    <3>3. QED
      BY <1>1, <1>2, <2>2, <2>8, <3>1, <3>2, IdleDebt DEF Schedules
  <2>9. QED
    BY <1>4, <2>5, <2>6, <2>7, <2>8 DEF Settled
<1>5. QED
  BY <1>3, <1>4 DEF Settled, TaskKinds

\* saveWithRollback().
LEMMA SaveDebt ==
    ASSUME IInv, DebtInv, NEW c \in Caller, Save(c)
    PROVE  DebtInv'
<1> USE ScheduleServiceAssumption
<1>1. TypeOK /\ CallInv
  BY DEF IInv
<1>2. /\ op[c].pc = "commit" /\ op[c].kind \in {"save", "create"}
      /\ UNCHANGED <<moved, refused, globallyEnabled, blocked>>
  BY DEF Save
<1>3. PICK t \in Task : op[c].task = t
  BY <1>2, TaskOfCall DEF AtTask
<1>4. op[c].kind = "create" => store[t].st = "absent"
  BY <1>2, <1>3, TaskOfCall DEF AtTask
<1>5. CASE UNCHANGED store /\ RescheduleCurrent(c)
  BY <1>2, <1>3, <1>4, <1>5, RescheduleDebt DEF Present
<1>6. CASE store' = [store EXCEPT ![t] = op[c].next]
  <2>1. /\ store'[t] = op[c].next
        /\ \A u \in Task \ {t} : store'[u] = store[u]
    BY <1>1, <1>6 DEF TypeOK
  <2>2. CASE Schedule(c, op[c].next, "arm")
    BY <1>2, <1>3, <2>1, <2>2, ScheduleDebt
  <2>3. CASE At(c, "rollback") /\ UNCHANGED <<tails, Schedules, run, started>>
    <3>1. Only(c) /\ Same(c) /\ op'[c].pc = "rollback"
      BY <1>1, <2>3, AtFields DEF Points
    <3>2. jobs' = jobs /\ armed' = armed /\ started' = started
      BY <2>3 DEF Schedules
    <3>3. Plain(c)
      BY <1>2, <1>3, <2>1, <3>1, <3>2 DEF Plain
    <3>4. armed[t] = {}
      <4>1. CASE op[c].kind = "save"
        BY <1>2, <1>3, <4>1, QuietTask DEF Undoing
      <4>2. CASE op[c].kind = "create"
        BY <1>3, <1>4, <4>2 DEF IInv, AbsentInv, ArmedIsCurrent, TypeOK, Caller
      <4>3. QED
        BY <1>2, <4>1, <4>2
    <3>5. Owes(c, t)'
      BY <1>2, <1>3, <3>1 DEF Owes, OwesAt, Same
    <3>6. Owed(t)' /\ Kept(t)'
      BY <3>2, <3>4, <3>5 DEF Owed, Kept, Armed
    <3>7. armed'[op'[c].task] = {}
      BY <1>3, <3>1, <3>2, <3>4 DEF Same
    <3>8. QED
      BY <1>1, <1>2, <1>3, <3>3, <3>6, <3>7, PlainDebt
  <2>4. QED
    BY <1>3, <1>5, <1>6, <2>2, <2>3 DEF Save
<1>7. QED
  BY <1>3, <1>5, <1>6 DEF Save

\* restoreIfRevision().
LEMMA RollbackDebt ==
    ASSUME IInv, DebtInv, NEW c \in Caller, Rollback(c)
    PROVE  DebtInv'
<1>1. TypeOK /\ CallInv
  BY DEF IInv
<1>2. /\ op[c].pc = "rollback" /\ moved' = moved \ {op[c].task}
      /\ UNCHANGED <<globallyEnabled, blocked>>
  BY DEF Rollback
<1>3. PICK t \in Task : op[c].task = t
  BY <1>2, TaskOfCall DEF AtTask
<1>4. op[c].kind \in {"save", "create"} /\ op[c].kind \notin LoopKinds
  <2>1. Positioned(c)
    BY <1>1 DEF CallInv
  <2>2. QED
    BY <1>2, <2>1, TaskOfCall DEF Positioned, TaskKinds, LoopKinds, AtTask
<1>5. CASE WriteFails
  BY <1>5, RefusedDebt DEF WriteFails
<1>6. CASE t \in moved /\ refused' = (refused \/ t \in moved)
  BY <1>6, RefusedDebt
<1>7. CASE /\ t \notin moved
           /\ store' = IF Present(store[t]) /\ t \notin moved
                       THEN [store EXCEPT ![t] = Previous(c)] ELSE store
           /\ IF op[c].kind = "save" /\ Present(store'[t])
              THEN Schedule(c, store'[t], "rearm")
              ELSE Finish(c) /\ UNCHANGED <<Schedules, run, started>>
           /\ refused' = (refused \/ t \in moved)
  <2>1. /\ \A u \in Task \ {t} : store'[u] = store[u]
        /\ moved \subseteq moved' /\ refused' = refused
    BY <1>1, <1>2, <1>3, <1>7 DEF TypeOK
  <2>2. CASE Schedule(c, store'[t], "rearm")
    BY <1>2, <1>3, <2>1, <2>2, ScheduleDebt
  <2>3. CASE /\ ~(op[c].kind = "save" /\ Present(store'[t]))
             /\ Finish(c) /\ UNCHANGED <<Schedules, run, started>>
    <3>1. Only(c) /\ Over(c)
      BY <1>1, <2>3, FinishFields
    <3>2. jobs' = jobs /\ armed' = armed /\ started' = started
      BY <2>3 DEF Schedules
    <3>3. ~Present(store'[t])
      <4>1. CASE op[c].kind = "create"
        <5>1. ~Present(Previous(c))
          BY <1>1, <4>1, IdleFields DEF CallInv, Previous, Present, TaskRecord
        <5>2. QED
          BY <1>1, <1>7, <5>1 DEF TypeOK
      <4>2. QED
        BY <1>4, <2>3, <4>1
    <3>4. ~refused => armed[t] = {}
      <4>1. CASE op[c].kind = "save"
        BY <1>2, <1>3, <4>1, QuietTask DEF Undoing
      <4>2. CASE op[c].kind = "create"
        BY <1>2, <1>3, <1>7, <4>2 DEF DebtInv, Unarmed
      <4>3. QED
        BY <1>4, <4>1, <4>2
    <3>5. ~refused' => Owed(t)' /\ Kept(t)'
      <4>1. ~Enabled(store'[t])
        BY <3>3 DEF Enabled
      <4>2. QED
        BY <2>1, <3>2, <3>4, <4>1, NotOwed DEF Kept, Armed
    <3>6. QED
      BY <1>1, <1>2, <1>3, <1>4, <2>1, <3>1, <3>2, <3>5, OverDebt
  <2>4. QED
    BY <1>7, <2>2, <2>3
<1>8. QED
  BY <1>3, <1>5, <1>6, <1>7 DEF Rollback, Previous

\* A write that throws is refused, or is of a task that is gone.
LEMMA WriteRefusedDebt ==
    ASSUME IInv, DebtInv, NEW c \in Caller, op[c].kind \in TaskKinds,
           WriteRefused(c), UNCHANGED <<moved, globallyEnabled, blocked>>
    PROVE  DebtInv'
<1>1. TypeOK /\ CallInv
  BY DEF IInv
<1>2. CASE WriteFails
  BY <1>2, RefusedDebt DEF WriteFails
<1>3. CASE /\ ~Present(store[op[c].task]) /\ UNCHANGED refused
           /\ Finish(c) /\ UNCHANGED <<store, Schedules, run, started>>
  <2>1. Only(c) /\ Over(c)
    BY <1>1, <1>3, FinishFields
  <2>2. ~Enabled(store[op[c].task]) /\ op[c].kind \notin LoopKinds
    BY <1>3 DEF Enabled, TaskKinds, LoopKinds
  <2>3. QED
    BY <1>1, <1>3, <2>1, <2>2, IdleDebt DEF Schedules
<1>4. QED
  BY <1>2, <1>3 DEF WriteRefused

\* The task of a call that writes `enabled`.
LEMMA SetEnabledFields ==
    ASSUME TypeOK, NEW c \in Caller, NEW t \in Task, op[c].task = t,
           NEW e \in BOOLEAN, SetEnabled(c, e)
    PROVE  /\ refused' = refused /\ Present(store[t]) /\ Present(store'[t])
           /\ store'[t].enabled = e
           /\ \A u \in Task \ {t} : store'[u] = store[u]
<1>1. /\ store' = [store EXCEPT ![t].enabled = e] /\ refused' = refused
      /\ Present(store[t])
  BY DEF SetEnabled
<1>2. QED
  BY <1>1, EnabledFields DEF Present

\* pause.
LEMMA PauseDebt ==
    ASSUME IInv, DebtInv, NEW c \in Caller, Pause(c)
    PROVE  DebtInv'
<1>1. TypeOK /\ CallInv
  BY DEF IInv
<1>2. /\ op[c].pc = "commit" /\ op[c].kind = "pause"
      /\ op[c].kind \in TaskKinds /\ op[c].kind \notin LoopKinds
      /\ UNCHANGED <<moved, globallyEnabled, blocked>>
  BY DEF Pause, TaskKinds, LoopKinds
<1>3. PICK t \in Task : op[c].task = t
  BY <1>2, TaskOfCall DEF AtTask
<1>4. CASE SetEnabled(c, FALSE) /\ UNCHANGED <<Schedules, run, started>>
           /\ IF op[c].aborted THEN At(c, "restore") /\ UNCHANGED tails ELSE Finish(c)
  <2>1. /\ refused' = refused /\ Present(store'[t]) /\ ~store'[t].enabled
        /\ \A u \in Task \ {t} : store'[u] = store[u]
    BY <1>1, <1>3, <1>4, SetEnabledFields
  <2>2. jobs' = jobs /\ armed' = armed /\ started' = started
    BY <1>4 DEF Schedules
  <2>3. Owed(t)' /\ Kept(t)'
    <3>1. ~Enabled(store'[t])
      BY <2>1 DEF Enabled
    <3>2. QED
      BY <2>1, <3>1, NotOwed DEF Kept, Present
  <2>4. CASE At(c, "restore")
    <3>1. Only(c) /\ Same(c) /\ op'[c].pc = "restore"
      BY <1>1, <2>4, AtFields DEF Points
    <3>2. Plain(c)
      BY <1>2, <1>3, <2>1, <2>2, <3>1 DEF Plain
    <3>3. op'[c].kind # "create"
      BY <1>2, <3>1 DEF Same
    <3>4. QED
      BY <1>1, <1>2, <1>3, <2>3, <3>2, <3>3, PlainDebt
  <2>5. CASE Finish(c)
    <3>1. Only(c) /\ Over(c)
      BY <1>1, <2>5, FinishFields
    <3>2. QED
      BY <1>1, <1>2, <1>3, <2>1, <2>2, <2>3, <3>1, OverDebt
  <2>6. QED
    BY <1>4, <2>4, <2>5
<1>5. CASE WriteRefused(c)
  BY <1>2, <1>5, WriteRefusedDebt
<1>6. QED
  BY <1>4, <1>5 DEF Pause

\* resume.
LEMMA ResumeDebt ==
    ASSUME IInv, DebtInv, NEW c \in Caller, Resume(c)
    PROVE  DebtInv'
<1>1. TypeOK /\ CallInv
  BY DEF IInv
<1>2. /\ op[c].pc = "commit" /\ op[c].kind = "resume"
      /\ op[c].kind \in TaskKinds /\ op[c].kind \notin LoopKinds
      /\ UNCHANGED <<moved, globallyEnabled, blocked>>
  BY DEF Resume, TaskKinds, LoopKinds
<1>3. PICK t \in Task : op[c].task = t
  BY <1>2, TaskOfCall DEF AtTask
<1>4. CASE SetEnabled(c, TRUE) /\ IF op[c].aborted
             THEN At(c, "restore") /\ UNCHANGED <<tails, Schedules, run, started>>
             ELSE Schedule(c, store'[t], "arm")
  <2>1. /\ refused' = refused /\ Present(store'[t])
        /\ \A u \in Task \ {t} : store'[u] = store[u]
    BY <1>1, <1>3, <1>4, SetEnabledFields
  <2>2. CASE At(c, "restore") /\ UNCHANGED <<tails, Schedules, run, started>>
    <3>1. Only(c) /\ Same(c) /\ op'[c].pc = "restore"
      BY <1>1, <2>2, AtFields DEF Points
    <3>2. jobs' = jobs /\ armed' = armed /\ started' = started
      BY <2>2 DEF Schedules
    <3>3. Plain(c)
      BY <1>2, <1>3, <2>1, <3>1, <3>2 DEF Plain
    <3>4. Owes(c, t)'
      BY <1>2, <1>3, <3>1 DEF Owes, OwesAt, Same
    <3>5. Owed(t)' /\ Kept(t)'
      BY <2>1, <3>4 DEF Owed, Kept, Present
    <3>6. op'[c].kind # "create"
      BY <1>2, <3>1 DEF Same
    <3>7. QED
      BY <1>1, <1>2, <1>3, <3>3, <3>5, <3>6, PlainDebt
  <2>3. CASE Schedule(c, store'[t], "arm")
    BY <1>2, <1>3, <2>1, <2>3, ScheduleDebt
  <2>4. QED
    BY <1>4, <2>2, <2>3
<1>5. CASE WriteRefused(c)
  BY <1>2, <1>5, WriteRefusedDebt
<1>6. QED
  BY <1>3, <1>4, <1>5 DEF Resume

\* An aborted pause or resume.
LEMMA RestoreDebt ==
    ASSUME IInv, DebtInv, NEW c \in Caller, Restore(c)
    PROVE  DebtInv'
<1>1. TypeOK /\ CallInv /\ ArmedIsCurrent
  BY DEF IInv
<1>2. /\ op[c].pc = "restore" /\ Positioned(c)
      /\ UNCHANGED <<moved, globallyEnabled, blocked>>
  BY <1>1 DEF Restore, CallInv
<1>3. PICK t \in Task : op[c].task = t
  BY <1>2, TaskOfCall DEF AtTask
<1>4. op[c].kind \in TaskKinds /\ op[c].kind \notin LoopKinds
  BY <1>2, TaskOfCall DEF Positioned, TaskKinds, LoopKinds, AtTask
<1>5. CASE SetEnabled(c, op[c].cur.enabled) /\ IF op[c].cur.enabled
             THEN Schedule(c, store'[t], "rearm")
             ELSE /\ StopJobs({t}) /\ Finish(c) /\ UNCHANGED <<run, started>>
  <2>1. op[c].cur.enabled \in BOOLEAN
    BY <1>1 DEF TypeOK, TaskRecord
  <2>2. /\ refused' = refused /\ store'[t].enabled = op[c].cur.enabled
        /\ \A u \in Task \ {t} : store'[u] = store[u]
    BY <1>1, <1>3, <1>5, <2>1, SetEnabledFields
  <2>3. CASE Schedule(c, store'[t], "rearm")
    BY <1>2, <1>3, <2>2, <2>3, ScheduleDebt
  <2>4. CASE /\ ~op[c].cur.enabled
             /\ StopJobs({t}) /\ Finish(c) /\ UNCHANGED <<run, started>>
    <3>1. Only(c) /\ Over(c)
      BY <1>1, <2>4, FinishFields
    <3>2. /\ \A u \in Task : /\ u # t => jobs'[u] = jobs[u] /\ armed'[u] = armed[u]
                             /\ armed'[u] \subseteq armed[u]
          /\ armed'[t] = {}
      BY <1>1, <2>4, StopFields
    <3>3. ~Enabled(store'[t])
      BY <2>2, <2>4 DEF Enabled
    <3>4. Owed(t)' /\ Kept(t)'
      BY <3>2, <3>3, NotOwed DEF Kept, Armed
    <3>5. QED
      BY <1>1, <1>2, <1>3, <1>4, <2>2, <2>4, <3>1, <3>2, <3>4, OverDebt
  <2>5. QED
    BY <1>5, <2>3, <2>4
<1>6. CASE WriteRefused(c)
  BY <1>2, <1>4, <1>6, WriteRefusedDebt
<1>7. QED
  BY <1>3, <1>5, <1>6 DEF Restore

\* remove.
LEMMA RemoveDebt ==
    ASSUME IInv, DebtInv, NEW c \in Caller, Remove(c)
    PROVE  DebtInv'
<1>1. TypeOK /\ CallInv
  BY DEF IInv
<1>2. /\ op[c].pc = "commit" /\ op[c].kind = "remove"
      /\ op[c].kind \in TaskKinds /\ op[c].kind \notin LoopKinds
      /\ UNCHANGED <<moved, globallyEnabled, blocked>>
  BY DEF Remove, TaskKinds, LoopKinds
<1>3. PICK t \in Task : op[c].task = t
  BY <1>2, TaskOfCall DEF AtTask
<1>4. CASE /\ store' = [store EXCEPT ![t].st = "removed"] /\ Finish(c)
           /\ UNCHANGED <<refused, Schedules, run, started>>
  <2>1. /\ store'[t].st = "removed" /\ \A u \in Task \ {t} : store'[u] = store[u]
    BY <1>1, <1>4, RemovedFields
  <2>2. jobs' = jobs /\ armed' = armed /\ started' = started
    BY <1>4 DEF Schedules
  <2>3. armed[t] = {}
    BY <1>2, <1>3, QuietTask DEF Undoing
  <2>4. ~Enabled(store'[t])
    BY <2>1 DEF Enabled, Present
  <2>5. Owed(t)' /\ Kept(t)'
    BY <2>2, <2>3, <2>4, NotOwed DEF Kept, Armed
  <2>6. Only(c) /\ Over(c)
    BY <1>1, <1>4, FinishFields
  <2>7. QED
    BY <1>1, <1>2, <1>3, <1>4, <2>1, <2>2, <2>5, <2>6, OverDebt
<1>5. CASE WriteRefused(c)
  BY <1>2, <1>5, WriteRefusedDebt
<1>6. QED
  BY <1>3, <1>4, <1>5 DEF Remove

\* start() only disables a task after a write was refused.
LEMMA DisableDebt ==
    ASSUME IInv, DebtInv, NEW c \in Caller, Disable(c)
    PROVE  DebtInv'
<1>1. refused /\ TypeOK
  BY DEF Disable, IInv, CallInv
<1>2. refused'
  <2>1. WriteFails \/ UNCHANGED refused
    BY DEF Disable
  <2>2. QED
    BY <1>1, <2>1, RefusedFields
<1>3. QED
  BY <1>2, RefusedDebt

\* The armed jobs when the call c has resumed its job.
WithResumed(c, t) == [armed EXCEPT ![t] = @ \cup Resumed(c, t)]

\* Only the task's own job was armed, and after its write only this call's.
LEMMA ResumedFields ==
    ASSUME TypeOK, ArmedIsCurrent, NEW c \in Caller, NEW t \in Task
    PROVE  /\ WithResumed(c, t) \in [Task -> SUBSET Caller]
           /\ \A u \in Task \ {t} : WithResumed(c, t)[u] = armed[u]
           /\ WithResumed(c, t)[t] \subseteq {jobs[t]}
           /\ jobs[t] = c /\ started /\ globallyEnabled => WithResumed(c, t)[t] # {}
           /\ jobs[t] # c => WithResumed(c, t)[t] = armed[t]
BY DEF TypeOK, ArmedIsCurrent, Resumed, WithResumed

\* A call that comes to the end of schedule() leaves its task armed, if the job
\* is its own, or goes on to undo itself.
LEMMA ArmedOwes ==
    ASSUME IInv, DebtInv, NEW c \in Caller, NEW t \in Task, op[c].task = t,
           op[c].pc \in {"arm", "rearm"}, ~refused,
           Scheduled(c, op[c].pc, jobs, WithResumed(c, t)),
           store' = store, globallyEnabled' = globallyEnabled, blocked' = blocked
    PROVE  Owed(t)'
<1> DEFINE newArmed == WithResumed(c, t)
<1>1. TypeOK /\ ArmedIsCurrent /\ CallInv /\ Positioned(c) /\ op[c].kind \in Kinds
  BY DEF IInv, CallInv, TypeOK
<1>2. /\ newArmed \in [Task -> SUBSET Caller]
      /\ jobs[t] = c /\ started /\ globallyEnabled => newArmed[t] # {}
      /\ jobs[t] # c => newArmed[t] = armed[t]
  BY <1>1, ResumedFields
<1> HIDE DEF newArmed
<1>3. CASE /\ op[c].kind \notin LoopKinds /\ jobs' = jobs /\ armed' = newArmed
           /\ UNCHANGED started /\ Finish(c)
  <2>1. Only(c)
    BY <1>1, <1>3, FinishFields
  <2>2. CASE jobs[t] = c
    BY <1>2, <1>3, <2>2 DEF Owed, Eligible, Armed
  <2>3. CASE jobs[t] # c
    <3>1. ~Owes(c, t)
      BY <1>3, <2>3 DEF Owes, OwesAt
    <3>2. Eligible(store[t])' => Eligible(store[t])
      BY <1>3 DEF Eligible, Enabled, Present
    <3>3. QED
      BY <1>2, <1>3, <2>1, <2>3, <3>1, <3>2, StillOwed
  <2>4. QED
    BY <2>2, <2>3
<1>4. CASE /\ op[c].kind \notin LoopKinds /\ op[c].pc = "arm"
           /\ At(c, IF op[c].kind = "resume" THEN "restore" ELSE "rollback")
  <2>1. op[c].kind \in {"save", "create", "resume"}
    BY <1>1, <1>4 DEF Positioned, Kinds, TaskKinds
  <2>2. (IF op[c].kind = "resume" THEN "restore" ELSE "rollback") \in Points
    BY DEF Points
  <2>3. /\ Same(c)
        /\ op'[c].pc = IF op[c].kind = "resume" THEN "restore" ELSE "rollback"
    BY <1>1, <1>4, <2>2, AtFields
  <2>4. Owes(c, t)'
    BY <2>1, <2>3 DEF Owes, OwesAt, Same
  <2>5. QED
    BY <2>4 DEF Owed
<1>5. CASE /\ op[c].kind \in LoopKinds /\ jobs' = jobs /\ armed' = newArmed
           /\ UNCHANGED started /\ At(c, "loop")
  <2>1. Only(c) /\ Same(c) /\ op'[c].pc = "loop"
    BY <1>1, <1>5, AtFields DEF Points
  <2>2. CASE jobs[t] = c
    BY <1>2, <1>5, <2>2 DEF Owed, Eligible, Armed
  <2>3. CASE jobs[t] # c
    <3>1. Owes(c, t) => Owes(c, t)'
      BY <1>5, <2>1, <2>3 DEF Owes, OwesAt, Same, InWorkspace, LoopKinds
    <3>2. Eligible(store[t])' => Eligible(store[t])
      BY <1>5 DEF Eligible, Enabled, Present
    <3>3. QED
      BY <1>2, <1>5, <2>1, <2>3, <3>1, <3>2, StillOwed
  <2>4. QED
    BY <2>2, <2>3
<1>6. CASE GiveUp(c)
  BY <1>6 DEF GiveUp, Owed, Eligible
<1>7. QED
  BY <1>3, <1>4, <1>5, <1>6 DEF Scheduled, newArmed

\* schedule() after its write.
LEMMA ArmDebt ==
    ASSUME IInv, DebtInv, NEW c \in Caller, Arm(c)
    PROVE  DebtInv'
<1>1. TypeOK /\ CallInv /\ ArmedIsCurrent
  BY DEF IInv
<1>2. op[c].pc \in {"arm", "rearm"} /\ UNCHANGED <<globallyEnabled, blocked>>
  BY DEF Arm
<1>3. PICK t \in Task : op[c].task = t
  BY <1>2, TaskOfCall DEF AtTask
<1>4. CASE \/ Present(store[t]) /\ WriteFails
           \/ ~Present(store[t]) /\ refused' = TRUE
  BY <1>4, RefusedDebt DEF WriteFails
<1> DEFINE newArmed == WithResumed(c, t)
<1>5. CASE /\ Present(store[t]) /\ moved' = Moved(t)
           /\ Scheduled(c, op[c].pc, jobs, newArmed)
           /\ UNCHANGED <<store, refused>>
  <2>1. /\ newArmed \in [Task -> SUBSET Caller] /\ jobs \in [Task -> Caller \cup {None}]
        /\ \A u \in Task \ {t} : newArmed[u] = armed[u]
        /\ newArmed[t] \subseteq {jobs[t]}
    BY <1>1, ResumedFields DEF TypeOK
  <2>2. ~refused => Owed(t)'
    BY <1>2, <1>3, <1>5, ArmedOwes
  <2> HIDE DEF newArmed
  <2>3. Beside(c, t)
    BY <1>1, <1>2, <1>3, <1>5, <2>1, ScheduledBeside
  <2>4. /\ Only(c) /\ Continues(c, op[c].pc)
        /\ \A u \in Task : armed'[u] \subseteq newArmed[u] /\ armed'[u] \subseteq {jobs'[u]}
        /\ armed' \in [Task -> SUBSET Caller]
    <3>1. \A u \in Task : newArmed[u] \subseteq {jobs[u]}
      BY <1>1, <2>1 DEF ArmedIsCurrent
    <3>2. QED
      BY <1>1, <1>2, <1>3, <1>5, <2>1, <3>1, ScheduledFields
  <2>5. Kept(t)'
    BY <1>5 DEF Kept, Present
  <2>6. started' => started
    BY <2>4 DEF Continues
  <2>7. ASSUME ~refused, NEW d \in Caller
        PROVE  Unarmed(d)'
    <3> SUFFICES ASSUME op'[d].kind = "create", op'[d].pc = "rollback",
                        op'[d].task \notin moved'
                 PROVE  armed'[op'[d].task] = {}
      BY DEF Unarmed
    <3>1. CASE d = c
      <4>1. op'[c].task = t /\ jobs'[t] = None
        BY <1>2, <1>3, <3>1, <2>4 DEF Continues, Over, Same, LoopKinds
      <4>2. None \notin Caller
        BY ScheduleServiceAssumption DEF Caller
      <4>3. QED
        BY <2>4, <3>1, <4>1, <4>2
    <3>2. CASE d # c
      <4>1. op'[d] = op[d]
        BY <2>4, <3>2 DEF Only
      <4>2. op[d].task \in Task /\ Unarmed(d)
        BY <1>1, <2>7, <4>1 DEF DebtInv, CallInv, AtTask
      <4>3. op[d].task # t /\ op[d].task \notin moved
        BY <1>5, <4>1 DEF Moved
      <4>4. armed[op[d].task] = {}
        BY <4>1, <4>2, <4>3 DEF Unarmed
      <4>5. QED
        BY <2>1, <2>4, <4>1, <4>2, <4>3, <4>4
    <3>3. QED
      BY <3>1, <3>2
  <2>8. QED
    BY <1>2, <1>5, <2>2, <2>3, <2>4, <2>5, <2>6, <2>7, DebtKeeps
<1>6. QED
  BY <1>3, <1>4, <1>5 DEF Arm, WithResumed

\* A call at its loop takes the next task, or ends with nothing left to do.
LEMMA NextTaskDebt ==
    ASSUME IInv, DebtInv, NEW c \in Caller, NextTask(c)
    PROVE  DebtInv'
<1>1. /\ op[c].pc = "loop" /\ op[c] \in CallRecord /\ op[c].kind \in LoopKinds
      /\ TypeOK /\ CallInv
      /\ UNCHANGED <<store, moved, refused, jobs, armed, started,
                     globallyEnabled, blocked>>
  <2>1. op[c].pc = "loop" /\ Positioned(c) /\ op[c] \in CallRecord
    BY DEF NextTask, IInv, CallInv, TypeOK, CallRecord
  <2>2. op[c].kind \in LoopKinds
    BY <2>1 DEF Positioned, CallRecord, Kinds, TaskKinds, LoopKinds
  <2>3. QED
    BY <2>1, <2>2 DEF NextTask, Store, Schedules, Service, IInv
<1>2. ASSUME Only(c), op'[c].kind # "create",
             \A u \in Task : Owes(c, u) => Owes(c, u)'
      PROVE  DebtInv'
  <2>1. Beside(c, None)
    BY <1>1, <1>2 DEF Beside
  <2>2. ~refused' => \A d \in Caller : Unarmed(d)'
    BY <1>1, <1>2, UnarmedKeeps
  <2>3. None \notin Task
    BY ScheduleServiceAssumption
  <2>4. QED
    BY <1>1, <1>2, <2>1, <2>2, <2>3, DebtKeeps
<1>3. CASE op[c].todo = {} /\ Done(c)
  <2>1. Only(c) /\ Over(c)
    BY <1>1, <1>3, DoneFields
  <2>2. \A u \in Task : ~Owes(c, u)
    BY <1>1, <1>3 DEF Owes, OwesAt, LoopKinds
  <2>3. op'[c].kind # "create"
    BY <2>1 DEF Over
  <2>4. QED
    BY <1>2, <2>1, <2>2, <2>3
<1>4. ASSUME NEW t \in op[c].todo,
             op' = [op EXCEPT ![c].task = t, ![c].todo = @ \ {t}, ![c].pc = "lock"]
      PROVE  DebtInv'
  <2> DEFINE record == [op[c] EXCEPT !.task = t, !.todo = @ \ {t}, !.pc = "lock"]
  <2>1. t \in Task /\ "lock" \in Points
    BY <1>1 DEF CallRecord, Points
  <2>2. /\ record \in CallRecord /\ record.kind = op[c].kind /\ record.task = t
        /\ record.pc = "lock" /\ record.todo = op[c].todo \ {t}
        /\ record.ws = op[c].ws
    BY <1>1, <2>1 DEF CallRecord
  <2>3. op' = [op EXCEPT ![c] = record]
    BY <1>4
  <2> HIDE DEF record
  <2>4. Only(c) /\ op'[c] = record
    BY <1>1, <2>2, <2>3, BeginFields
  <2>5. ASSUME NEW u \in Task, Owes(c, u)
        PROVE  Owes(c, u)'
    <3>1. u \in op[c].todo /\ InWorkspace(op[c], store[u].ws)
      BY <1>1, <2>5 DEF Owes, OwesAt, LoopKinds
    <3>2. InWorkspace(op'[c], store'[u].ws)
      BY <1>1, <2>2, <2>4, <3>1 DEF InWorkspace
    <3>3. op'[c].kind \in LoopKinds /\ op'[c].pc = "lock" /\ op'[c].task = t
          /\ op'[c].todo = op[c].todo \ {t}
      BY <1>1, <2>2, <2>4
    <3>4. QED
      BY <3>1, <3>2, <3>3 DEF Owes, OwesAt
  <2>6. op'[c].kind # "create"
    BY <1>1, <2>2, <2>4 DEF LoopKinds
  <2>7. QED
    BY <1>2, <2>4, <2>5, <2>6
<1>5. QED
  BY <1>3, <1>4 DEF NextTask

\* A call that begins owes nothing yet.
LEMMA SweepDebt ==
    ASSUME IInv, DebtInv, NEW c \in Caller, Only(c), op'[c].kind # "create"
              \/ op'[c].pc # "rollback",
           UNCHANGED <<store, moved, refused>>,
           \A u \in Task : armed'[u] \subseteq armed[u],
           ~refused => \A u \in Task : Owed(u)'
    PROVE  DebtInv'
<1> SUFFICES ASSUME ~refused'
             PROVE  /\ \A u \in Task : Owed(u)' /\ Kept(u)'
                    /\ \A d \in Caller : Unarmed(d)'
  BY DEF DebtInv
<1>1. CallInv /\ ~refused /\ moved \subseteq moved'
  BY DEF IInv
<1>2. \A d \in Caller : Unarmed(d)'
  BY <1>1, UnarmedKeeps
<1>3. ASSUME NEW u \in Task
      PROVE  Kept(u)'
  <2>1. Kept(u)
    BY <1>1 DEF DebtInv
  <2>2. QED
    BY <2>1 DEF Kept, Armed, Present
<1>4. QED
  BY <1>1, <1>2, <1>3

\* An idle call owes nothing, so what begins leaves the debts of the others.
LEMMA BeginOwed ==
    ASSUME IInv, DebtInv, ~refused, NEW c \in Caller, Only(c), op[c].pc = "idle",
           NEW u \in Task, store' = store, armed'[u] = armed[u], jobs'[u] = jobs[u],
           Eligible(store[u])' => Eligible(store[u])
    PROVE  Owed(u)'
<1>1. op[c] = Idle
  BY IdleCall
<1>2. ~Owes(c, u)
  BY <1>1, IdleFields DEF Owes, OwesAt, LoopKinds
<1>3. QED
  BY <1>2, StillOwed

\* A call that begins without touching the schedule.
LEMMA BeginDebt ==
    ASSUME IInv, DebtInv, NEW c \in Caller, NEW record \in CallRecord,
           op' = [op EXCEPT ![c] = record], op[c].pc = "idle",
           record.kind # "create" \/ record.pc # "rollback",
           UNCHANGED <<store, moved, refused, jobs, armed, started,
                       globallyEnabled, blocked>>
    PROVE  DebtInv'
<1>1. Only(c) /\ op'[c] = record
  BY BeginFields DEF IInv
<1>2. ASSUME ~refused, NEW u \in Task
      PROVE  Owed(u)'
  <2>1. Eligible(store[u])' => Eligible(store[u])
    BY DEF Eligible, Enabled, Present
  <2>2. QED
    BY <1>1, <1>2, <2>1, BeginOwed
<1>3. QED
  BY <1>1, <1>2, SweepDebt

\* Calls of a task.
LEMMA TaskCallsDebt ==
    ASSUME IInv, DebtInv, NEW c \in Call, NEW t \in Task, NEW next \in TaskRecord,
           \/ \E kind \in TaskKinds : CallTask(c, kind, t, next)
           \/ Create(c, t, next)
           \/ RunNow(c, t)
    PROVE  DebtInv'
<1>1. /\ op[c].pc = "idle" /\ c \in Caller
      /\ UNCHANGED <<store, moved, refused, jobs, armed, started,
                     globallyEnabled, blocked>>
  BY DEF CallTask, Create, RunNow, NextCall, Store, Schedules, Service, Caller
<1>2. ASSUME NEW kind \in TaskKinds, CallTask(c, kind, t, next)
      PROVE  DebtInv'
  <2> DEFINE record == [Idle EXCEPT !.kind = kind, !.task = t, !.next = next, !.pc = "lock"]
  <2>1. record \in CallRecord /\ record.pc = "lock"
    BY IdleFields DEF CallRecord, Kinds, Points
  <2>2. op' = [op EXCEPT ![c] = record]
    BY <1>2 DEF CallTask
  <2> HIDE DEF record
  <2>3. QED
    BY <1>1, <2>1, <2>2, BeginDebt
<1>3. CASE Create(c, t, next)
  <2> DEFINE record == [Idle EXCEPT !.kind = "create", !.task = t, !.next = next,
                                    !.pc = "commit"]
  <2>1. record \in CallRecord /\ record.pc = "commit"
    BY IdleFields DEF CallRecord, Kinds, Points
  <2>2. op' = [op EXCEPT ![c] = record]
    BY <1>3 DEF Create
  <2> HIDE DEF record
  <2>3. QED
    BY <1>1, <2>1, <2>2, BeginDebt
<1>4. CASE RunNow(c, t)
  <2> DEFINE pc == IF t \in Running THEN "done" ELSE "settle"
             record == [Idle EXCEPT !.kind = "runNow", !.task = t, !.pc = pc,
                                    !.waits = {t}]
  <2>1. pc \in {"done", "settle"} /\ {t} \in SUBSET Task
    OBVIOUS
  <2>2. op' = [op EXCEPT ![c] = record]
    BY <1>4 DEF RunNow
  <2> HIDE DEF pc
  <2>3. record \in CallRecord /\ record.kind = "runNow"
    BY <2>1, IdleFields DEF CallRecord, Kinds, Points
  <2> HIDE DEF record
  <2>4. QED
    BY <1>1, <2>2, <2>3, BeginDebt
<1>5. QED
  BY <1>2, <1>3, <1>4

\* setGlobalEnabled stops every job, and its loop is about every enabled task.
LEMMA SetGlobalEnabledDebt ==
    ASSUME IInv, DebtInv, NEW c \in Call, NEW enabled \in BOOLEAN,
           SetGlobalEnabled(c, enabled)
    PROVE  DebtInv'
<1>1. /\ op[c].pc = "idle" /\ c \in Caller /\ globallyEnabled' = enabled
      /\ StopJobs(Task)
      /\ UNCHANGED <<store, moved, refused, started, blocked>>
  BY DEF SetGlobalEnabled, NextCall, Store, Caller
<1> DEFINE todo == {t \in Task : Enabled(store[t])}
           pc == IF started THEN "loop" ELSE "done"
           on == [Idle EXCEPT !.kind = "enable", !.pc = pc, !.todo = todo]
           off == [Idle EXCEPT !.kind = "disable", !.pc = "settle", !.waits = Running]
<1>2. \A u \in Task : armed'[u] \subseteq armed[u]
  BY <1>1, StopFields DEF IInv, TypeOK
<1>3. CASE enabled
  <2>1. pc \in {"loop", "done"} /\ todo \in SUBSET Task
    OBVIOUS
  <2>2. started => pc = "loop"
    OBVIOUS
  <2>3. op' = [op EXCEPT ![c] = on]
    BY <1>3 DEF SetGlobalEnabled
  <2> HIDE DEF pc, todo
  <2>4. /\ on \in CallRecord /\ on.kind = "enable" /\ on.pc = pc /\ on.todo = todo
    BY <2>1, IdleFields DEF CallRecord, Kinds, LoopKinds, Points
  <2> HIDE DEF on
  <2>5. Only(c) /\ op'[c] = on
    BY <1>1, <2>3, <2>4, BeginFields DEF IInv
  <2>6. ASSUME NEW u \in Task
        PROVE  Owed(u)'
    <3> SUFFICES ASSUME Eligible(store[u])'
                 PROVE  Owes(c, u)'
      BY <1>1 DEF Owed
    <3>1. started /\ u \in todo
      BY <1>1 DEF Eligible, Enabled, Present, todo
    <3>2. QED
      BY <2>2, <2>4, <2>5, <3>1 DEF Owes, OwesAt, LoopKinds, InWorkspace
  <2>7. QED
    BY <1>1, <1>2, <2>4, <2>5, <2>6, SweepDebt
<1>4. CASE ~enabled
  <2>1. op' = [op EXCEPT ![c] = off]
    BY <1>4 DEF SetGlobalEnabled
  <2>2. off \in CallRecord /\ off.kind = "disable"
    BY IdleFields DEF CallRecord, Kinds, Points, Running
  <2> HIDE DEF off
  <2>3. Only(c) /\ op'[c] = off
    BY <1>1, <2>1, <2>2, BeginFields DEF IInv
  <2>4. \A u \in Task : Owed(u)'
    BY <1>1, <1>4 DEF Owed, Eligible
  <2>5. QED
    BY <1>1, <1>2, <2>2, <2>3, <2>4, SweepDebt
<1>5. QED
  BY <1>3, <1>4

\* stop()
LEMMA StopDebt ==
    ASSUME IInv, DebtInv, NEW c \in Call, Stop(c)
    PROVE  DebtInv'
<1>1. /\ c \in Caller /\ started' = FALSE /\ StopJobs(Task)
      /\ UNCHANGED <<store, moved, refused>>
  BY DEF Stop, Store, Caller
<1> DEFINE record == [Idle EXCEPT !.kind = "stop", !.pc = "settle", !.waits = Running]
<1>2. op' = [op EXCEPT ![c] = record]
  BY DEF Stop
<1>3. record \in CallRecord /\ record.kind = "stop"
  BY IdleFields DEF CallRecord, Kinds, Points, Running
<1> HIDE DEF record
<1>4. Only(c) /\ op'[c] = record
  BY <1>1, <1>2, <1>3, BeginFields DEF IInv
<1>5. \A u \in Task : armed'[u] \subseteq armed[u]
  BY <1>1, StopFields DEF IInv, TypeOK
<1>6. \A u \in Task : Owed(u)'
  BY <1>1 DEF Owed, Eligible
<1>7. QED
  BY <1>1, <1>3, <1>4, <1>5, <1>6, SweepDebt

\* start() is about every enabled task, if the setting is on.
LEMMA StartDebt ==
    ASSUME IInv, DebtInv, Start
    PROVE  DebtInv'
<1>1. /\ Boot \in Caller /\ globallyEnabled' = setting
      /\ UNCHANGED <<store, moved, refused, jobs, armed, blocked>>
  BY DEF Start, Store, Schedules, Caller
<1> DEFINE todo == {t \in Task : Enabled(store[t])}
           pc == IF setting THEN "loop" ELSE "done"
           record == [Idle EXCEPT !.kind = "start", !.pc = pc, !.todo = todo]
<1>2. op' = [op EXCEPT ![Boot] = record]
  BY DEF Start
<1>3. /\ pc \in {"loop", "done"} /\ todo \in SUBSET Task
      /\ setting => pc = "loop"
  OBVIOUS
<1> HIDE DEF pc, todo
<1>4. record \in CallRecord /\ record.kind = "start" /\ record.pc = pc /\ record.todo = todo
  BY <1>3, IdleFields DEF CallRecord, Kinds, LoopKinds, Points
<1> HIDE DEF record
<1>5. Only(Boot) /\ op'[Boot] = record
  BY <1>1, <1>2, <1>4, BeginFields DEF IInv
<1>6. ASSUME NEW u \in Task
      PROVE  Owed(u)'
  <2> SUFFICES ASSUME Eligible(store[u])'
               PROVE  Owes(Boot, u)'
    BY <1>1 DEF Owed
  <2>1. setting /\ u \in todo
    BY <1>1 DEF Eligible, Enabled, Present, todo
  <2>2. QED
    BY <1>3, <1>4, <1>5, <2>1 DEF Owes, OwesAt, LoopKinds, InWorkspace
<1>7. QED
  BY <1>1, <1>4, <1>5, <1>6, SweepDebt

\* cancelWorkspace stops the jobs of tasks that it blocks.
LEMMA CancelWorkspaceDebt ==
    ASSUME IInv, DebtInv, NEW c \in Call, NEW w \in Workspace, CancelWorkspace(c, w)
    PROVE  DebtInv'
<1> DEFINE ts == {t \in Task : Present(store[t]) /\ store[t].ws = w}
           record == [Idle EXCEPT !.kind = "cancelWorkspace", !.ws = w, !.pc = "ready",
                                  !.waits = Running]
<1>1. /\ op[c].pc = "idle" /\ c \in Caller /\ blocked' = blocked \cup {w} /\ StopJobs(ts)
      /\ UNCHANGED <<store, moved, refused, started, globallyEnabled>>
  BY DEF CancelWorkspace, NextCall, Store, Caller
<1>2. op' = [op EXCEPT ![c] = record]
  BY DEF CancelWorkspace
<1>3. record \in CallRecord /\ record.kind = "cancelWorkspace"
  BY IdleFields DEF CallRecord, Kinds, Points, Running
<1> HIDE DEF record, ts
<1>4. Only(c) /\ op'[c] = record
  BY <1>1, <1>2, <1>3, BeginFields DEF IInv
<1>5. \A u \in Task : /\ armed'[u] \subseteq armed[u]
                      /\ u \notin ts => armed'[u] = armed[u] /\ jobs'[u] = jobs[u]
  BY <1>1, StopFields DEF IInv, TypeOK
<1>6. ASSUME ~refused, NEW u \in Task
      PROVE  Owed(u)'
  <2>1. CASE u \in ts
    BY <1>1, <2>1 DEF Owed, Eligible, ts
  <2>2. CASE u \notin ts
    <3>1. Eligible(store[u])' => Eligible(store[u])
      BY <1>1 DEF Eligible, Enabled, Present
    <3>2. QED
      BY <1>1, <1>4, <1>5, <1>6, <2>2, <3>1, BeginOwed
  <2>3. QED
    BY <2>1, <2>2
<1>7. QED
  BY <1>1, <1>3, <1>4, <1>5, <1>6, SweepDebt

\* resumeWorkspace is about the enabled tasks of its workspace.
LEMMA ResumeWorkspaceDebt ==
    ASSUME IInv, DebtInv, NEW c \in Call, NEW w \in Workspace, ResumeWorkspace(c, w)
    PROVE  DebtInv'
<1>1. /\ op[c].pc = "idle" /\ c \in Caller /\ blocked' = blocked \ {w}
      /\ UNCHANGED <<store, moved, refused, jobs, armed, started, globallyEnabled>>
  BY DEF ResumeWorkspace, NextCall, Store, Schedules, Caller
<1> DEFINE todo == {t \in Task : Enabled(store[t]) /\ store[t].ws = w}
           pc == IF started /\ globallyEnabled THEN "loop" ELSE "done"
           record == [Idle EXCEPT !.kind = "resumeWorkspace", !.ws = w, !.pc = pc,
                                  !.todo = todo]
<1>2. op' = [op EXCEPT ![c] = record]
  BY DEF ResumeWorkspace
<1>3. /\ pc \in {"loop", "done"} /\ todo \in SUBSET Task
      /\ started /\ globallyEnabled => pc = "loop"
  OBVIOUS
<1> HIDE DEF pc, todo
<1>4. /\ record \in CallRecord /\ record.kind = "resumeWorkspace" /\ record.pc = pc
      /\ record.todo = todo /\ record.ws = w
  BY <1>3, IdleFields DEF CallRecord, Kinds, LoopKinds, Points
<1> HIDE DEF record
<1>5. Only(c) /\ op'[c] = record
  BY <1>1, <1>2, <1>4, BeginFields DEF IInv
<1>6. ASSUME ~refused, NEW u \in Task
      PROVE  Owed(u)'
  <2>1. CASE store[u].ws = w
    <3> SUFFICES ASSUME Eligible(store[u])'
                 PROVE  Owes(c, u)'
      BY <1>1 DEF Owed
    <3>1. started /\ globallyEnabled /\ u \in todo
      BY <1>1, <2>1 DEF Eligible, Enabled, Present, todo
    <3>2. store'[u].ws = w
      BY <1>1, <2>1
    <3>3. QED
      BY <1>3, <1>4, <1>5, <3>1, <3>2 DEF Owes, OwesAt, LoopKinds, InWorkspace
  <2>2. CASE store[u].ws # w
    <3>1. Eligible(store[u])' => Eligible(store[u])
      BY <1>1, <2>2 DEF Eligible, Enabled, Present
    <3>2. QED
      BY <1>1, <1>5, <1>6, <3>1, BeginOwed
  <2>3. QED
    BY <2>1, <2>2
<1>7. QED
  BY <1>1, <1>4, <1>5, <1>6, SweepDebt

\* What changes neither schedule nor store, and no call's point, task and list,
\* leaves every debt.
LEMMA QuietDebt ==
    ASSUME DebtInv,
           UNCHANGED <<store, jobs, armed, started, globallyEnabled, blocked>>,
           refused => refused', ~refused' => moved \subseteq moved',
           \A d \in Caller :
              /\ op'[d].kind = op[d].kind /\ op'[d].task = op[d].task
              /\ op'[d].ws = op[d].ws /\ op'[d].pc = op[d].pc
              /\ op'[d].todo = op[d].todo
    PROVE  DebtInv'
<1> SUFFICES ASSUME ~refused'
             PROVE  /\ \A u \in Task : Owed(u)' /\ Kept(u)'
                    /\ \A d \in Caller : Unarmed(d)'
  BY DEF DebtInv
<1>1. /\ \A u \in Task : Owed(u) /\ Kept(u)
      /\ \A d \in Caller : Unarmed(d)
      /\ moved \subseteq moved'
  BY DEF DebtInv
<1>2. \A d \in Caller, u \in Task : Owes(d, u) => Owes(d, u)'
  BY DEF Owes, OwesAt, InWorkspace
<1>3. \A u \in Task : Owed(u)'
  BY <1>1, <1>2 DEF Owed, Eligible, Enabled, Present, Armed
<1>4. \A u \in Task : Kept(u)'
  BY <1>1 DEF Kept, Armed, Present
<1>5. \A d \in Caller : Unarmed(d)'
  BY <1>1 DEF Unarmed
<1>6. QED
  BY <1>3, <1>4, <1>5

\* cancelWorkspace() cancels its runs, and has stopped their jobs before.
LEMMA CancelSelectedDebt ==
    ASSUME IInv, DebtInv, NEW c \in Caller, CancelSelected(c)
    PROVE  DebtInv'
<1> DEFINE selected == {t \in op[c].waits : run[t].ws = op[c].ws}
           record == [op[c] EXCEPT !.waits = selected, !.pc = "settle"]
<1>1. /\ op[c].pc = "ready" /\ op[c] \in CallRecord /\ Positioned(c) /\ TypeOK
      /\ op' = [op EXCEPT ![c] = record]
      /\ UNCHANGED <<store, moved, refused, jobs, armed, started,
                     globallyEnabled, blocked>>
  BY DEF CancelSelected, IInv, CallInv, TypeOK, CallRecord, Store, Schedules, Service
<1>2. op[c].kind = "cancelWorkspace"
  BY <1>1 DEF Positioned, CallRecord, Kinds, TaskKinds, LoopKinds
<1>3. record \in CallRecord /\ record.kind = op[c].kind
  BY <1>1 DEF CallRecord, Points
<1> HIDE DEF record
<1>4. Only(c) /\ op'[c] = record
  BY <1>1, <1>3, BeginFields
<1>5. ASSUME ~refused, NEW u \in Task
      PROVE  Owed(u)'
  <2>1. ~Owes(c, u)
    BY <1>1, <1>2 DEF Owes, OwesAt, LoopKinds
  <2>2. Eligible(store[u])' => Eligible(store[u])
    BY <1>1 DEF Eligible, Enabled, Present
  <2>3. QED
    BY <1>1, <1>4, <1>5, <2>1, <2>2, StillOwed
<1>6. QED
  BY <1>1, <1>2, <1>3, <1>4, <1>5, SweepDebt

\* An abort only marks its call.
LEMMA AbortDebt ==
    ASSUME IInv, DebtInv, NEW c \in Call, Abort(c)
    PROVE  DebtInv'
<1> DEFINE record == [op[c] EXCEPT !.aborted = TRUE]
<1>1. /\ c \in Caller /\ op' = [op EXCEPT ![c] = record]
      /\ UNCHANGED <<store, moved, refused, jobs, armed, started,
                     globallyEnabled, blocked>>
  BY DEF Abort, Store, Schedules, Service, Caller
<1>2. op[c] \in CallRecord
  BY <1>1 DEF IInv, TypeOK, CallRecord
<1>3. /\ record \in CallRecord
      /\ record.kind = op[c].kind /\ record.task = op[c].task /\ record.ws = op[c].ws
      /\ record.pc = op[c].pc /\ record.todo = op[c].todo
  BY <1>2 DEF CallRecord
<1> HIDE DEF record
<1>4. Only(c) /\ op'[c] = record
  BY <1>1, <1>3, BeginFields DEF IInv
<1>5. \A d \in Caller :
         /\ op'[d].kind = op[d].kind /\ op'[d].task = op[d].task
         /\ op'[d].ws = op[d].ws /\ op'[d].pc = op[d].pc
         /\ op'[d].todo = op[d].todo
  BY <1>3, <1>4 DEF Only
<1>6. QED
  BY <1>1, <1>5, QuietDebt

\* Runs owe the schedule nothing: they only record that their task moved.
LEMMA RunsDebt ==
    ASSUME IInv, DebtInv, NEW t \in Task, CronFires(t) \/ RunStep(t) \/ RunFinishes(t)
    PROVE  DebtInv'
<1>1. TypeOK
  BY DEF IInv
<1>2. /\ UNCHANGED <<store, jobs, armed, started, globallyEnabled, blocked>>
      /\ op' = op \/ EndRun(t)
      /\ WriteFails \/ UNCHANGED refused
      /\ moved' = moved \/ moved' = Moved(t)
  BY DEF CronFires, RunStep, RunFinishes, RunGot, RunClaim, RunRecorded, Store,
         Schedules, Service
<1>3. refused => refused'
  BY <1>1, <1>2, RefusedFields
<1>4. moved \subseteq moved'
  BY <1>2 DEF Moved
<1>5. \A d \in Caller :
         /\ op'[d].kind = op[d].kind /\ op'[d].task = op[d].task
         /\ op'[d].ws = op[d].ws /\ op'[d].pc = op[d].pc
         /\ op'[d].todo = op[d].todo
  <2>1. CASE EndRun(t)
    BY <1>1, <2>1, EndFields
  <2>2. QED
    BY <1>2, <2>1
<1>6. QED
  BY <1>2, <1>3, <1>4, <1>5, QuietDebt

\* Calls that begin keep every debt.
LEMMA CallBeginsDebt ==
    ASSUME IInv, DebtInv, NEW c \in Call, CallBegins(c)
    PROVE  DebtInv'
<1>1. ASSUME NEW t \in Task, NEW kind \in {"pause", "resume", "remove"},
             CallTask(c, kind, t, NoRun.task)
      PROVE  DebtInv'
  <2>1. kind \in TaskKinds /\ NoRun.task \in TaskRecord
    BY IdleFields DEF TaskKinds
  <2>2. QED
    BY <1>1, <2>1, TaskCallsDebt
<1>2. ASSUME NEW t \in Task, NEW e \in BOOLEAN, NEW w \in Workspace \cup {None},
             LET next == [st |-> "present", enabled |-> e, ws |-> w]
             IN  CallTask(c, "save", t, next) \/ Create(c, t, next)
      PROVE  DebtInv'
  <2> DEFINE next == [st |-> "present", enabled |-> e, ws |-> w]
  <2>1. next \in TaskRecord /\ "save" \in TaskKinds
    BY DEF TaskRecord, TaskKinds
  <2>2. CallTask(c, "save", t, next) \/ Create(c, t, next)
    BY <1>2
  <2> HIDE DEF next
  <2>3. QED
    BY <2>1, <2>2, TaskCallsDebt
<1>3. ASSUME NEW t \in Task, RunNow(c, t)
      PROVE  DebtInv'
  BY <1>3, IdleFields, TaskCallsDebt
<1>4. ASSUME NEW e \in BOOLEAN, SetGlobalEnabled(c, e)
      PROVE  DebtInv'
  BY <1>4, SetGlobalEnabledDebt
<1>5. ASSUME NEW w \in Workspace, CancelWorkspace(c, w) \/ ResumeWorkspace(c, w)
      PROVE  DebtInv'
  BY <1>5, CancelWorkspaceDebt, ResumeWorkspaceDebt
<1>6. CASE Stop(c)
  BY <1>6, StopDebt
<1>7. QED
  BY <1>1, <1>2, <1>3, <1>4, <1>5, <1>6 DEF CallBegins

\* DebtInv is inductive, with IInv.
LEMMA StepDebt == IInv /\ DebtInv /\ [Next]_vars => DebtInv'
<1> SUFFICES ASSUME IInv, DebtInv, [Next]_vars PROVE DebtInv'
  OBVIOUS
<1>1. CASE Start
  BY <1>1, StartDebt
<1>2. ASSUME NEW c \in Call, CallBegins(c) \/ Abort(c)
      PROVE  DebtInv'
  BY <1>2, CallBeginsDebt, AbortDebt
<1>3. ASSUME NEW c \in Caller, CallStep(c)
      PROVE  DebtInv'
  BY <1>3, NextTaskDebt, ScheduleLatestDebt, ArmDebt, DisableDebt, AcquireDebt,
     SettledDebt, CancelSelectedDebt, SaveDebt, RollbackDebt, PauseDebt, ResumeDebt,
     RestoreDebt, RemoveDebt DEF CallStep
<1>4. ASSUME NEW t \in Task, CronFires(t) \/ RunStep(t) \/ RunFinishes(t)
      PROVE  DebtInv'
  BY <1>4, RunsDebt
<1>5. CASE UNCHANGED vars
  <2>1. /\ UNCHANGED <<store, jobs, armed, started, globallyEnabled, blocked>>
        /\ op' = op /\ refused' = refused /\ moved' = moved
    BY <1>5 DEF vars
  <2>2. QED
    BY <2>1, QuietDebt
<1>6. QED
  BY <1>1, <1>2, <1>3, <1>4, <1>5 DEF Next

\* At first the service is not started, and owes nothing.
LEMMA InitDebt == Init => DebtInv
<1> SUFFICES ASSUME Init PROVE DebtInv
  OBVIOUS
<1>1. started = FALSE /\ armed = [t \in Task |-> {}] /\ op = [c \in Caller |-> Idle]
  BY DEF Init
<1>2. \A t \in Task : Owed(t) /\ Kept(t)
  BY <1>1 DEF Owed, Eligible, Kept, Armed
<1>3. \A c \in Caller : Unarmed(c)
  BY <1>1, IdleFields DEF Unarmed
<1>4. QED
  BY <1>2, <1>3 DEF DebtInv

\* When no call is under way, exactly the tasks that should be are armed, for any
\* tasks, workspaces and calls, until a write is refused: what saves, pauses,
\* resumes, removals, their aborts, the switch and the workspaces leave behind is
\* the schedule of the store.
THEOREM Schedule_agrees == Spec => []ScheduleAgrees
<1>1. IInv /\ DebtInv => ScheduleAgrees
  <2> SUFFICES ASSUME IInv, DebtInv, ~refused, NEW t \in Task,
                      \A c \in Caller : InFlight(c) => op[c].kind = "runNow"
               PROVE  Armed(t) <=> Eligible(store[t])
    BY DEF ScheduleAgrees
  <2>1. Owed(t) /\ Kept(t)
    BY DEF DebtInv
  <2>2. ASSUME NEW c \in Caller
        PROVE  ~Owes(c, t)
    <3>1. Positioned(c)
      BY DEF IInv, CallInv
    <3>2. CASE op[c].kind = "runNow"
      BY <3>1, <3>2 DEF Positioned, Owes, OwesAt, LoopKinds
    <3>3. CASE op[c].pc \in {"idle", "done"}
      <4>1. op[c].pc = "idle" => op[c].kind \notin LoopKinds
        BY IdleFields DEF IInv, CallInv, LoopKinds
      <4>2. QED
        BY <3>3, <4>1 DEF Owes, OwesAt
    <3>4. QED
      BY <3>2, <3>3 DEF InFlight
  <2>3. Eligible(store[t]) => Armed(t)
    BY <2>1, <2>2 DEF Owed
  <2>4. ASSUME Armed(t)
        PROVE  Eligible(store[t])
    <3>1. started /\ globallyEnabled
      BY <2>4 DEF IInv, ArmedIsCurrent
    <3>2. jobs[t] # None
      BY <2>4, ScheduleServiceAssumption
      DEF IInv, ArmedIsCurrent, TypeOK, Armed, Caller
    <3>3. Present(store[t]) /\ Undone.st # "present"
      BY <2>1, <2>4 DEF Kept, Undone, NoRun
    <3>4. store[t].ws \notin blocked /\ Enabled(store[t])
      BY <3>2, <3>3 DEF IInv, JobInv, Present
    <3>5. QED
      BY <3>1, <3>4 DEF Eligible
  <2>5. QED
    BY <2>3, <2>4
<1>2. Init => IInv /\ DebtInv
  BY InitIInv, InitDebt
<1>3. IInv /\ DebtInv /\ [Next]_vars => (IInv /\ DebtInv)'
  BY StepKeeps, StepDebt
<1>4. Spec => [](IInv /\ DebtInv)
  BY <1>2, <1>3, PTL DEF Spec
<1>5. QED
  BY <1>1, <1>4, PTL

==============================================================================
