---------------------------- MODULE SubagentRuns ----------------------------
(***************************************************************************)
(* The life of delegated runs: SubagentSupervisor.execute with the         *)
(* projector of its generation (subagent-event-projector.ts), the          *)
(* authority and records of its runs (subagent-foreground-persistence-     *)
(* v2.ts), the registry the renderer manages runs through (subagent-       *)
(* control-main.ts, subagent-control-v2.ts) and the durable store they     *)
(* share (subagent-run-store-v2-core.ts).                                  *)
(*                                                                         *)
(* A step is one turn of the event loop: an Event comes from outside the   *)
(* code (a timer, a child, the disk, the renderer), a Step is what was     *)
(* waiting for it, and no Event comes in between.                          *)
(***************************************************************************)
EXTENDS Integers, FiniteSets, SequencesExt

CONSTANTS
    Run,          \* ids of runs
    Batches,      \* the tasks of each call of the subagent tool, in order
    Call,         \* management requests of the renderer, one use each
    Outcome,      \* how a child may end by itself
    Slots,        \* children of a tree that may execute at once
    MaxRuns,      \* maxRuns of the store
    MaxRevision,  \* bound: no telemetry of a run past this revision
    MaxFaults,    \* bound: writes of the store that fail
    MaxCrashes    \* bound: exits of the application

Active == <<"queued", "starting", "running">>
Terminal == {"completed", "failed", "timed_out", "interrupted", "stopped"}
RunState == ToSet(Active) \cup Terminal

\* Every task of every call has an identity of its own.
ASSUME SubagentRunsAssumption ==
    /\ IsFiniteSet(Run)
    /\ Batches \in Seq(Seq(Run))
    /\ \A i, j \in DOMAIN Batches : \A m \in DOMAIN Batches[i], n \in DOMAIN Batches[j] :
          Batches[i][m] = Batches[j][n] => i = j /\ m = n
    /\ Outcome \subseteq Terminal \ {"interrupted", "stopped"}
    /\ {Slots, MaxRuns} \subseteq Nat \ {0}
    /\ MaxRevision \in [Run -> Nat]
    /\ {MaxFaults, MaxCrashes} \subseteq Nat

Supervisor == "supervisor"
Response == "response"
Waiter == Call \cup {Supervisor, Response}

Snapshot == [st : RunState \cup {"none"}, rev : Nat]
NoSnapshot == [st |-> "none", rev |-> 0]
Operation == [kind : {"snapshot", "control"}, run : Run, snap : Snapshot]

VARIABLES
    calls,        \* calls of execute so far
    phase,        \* where the current one is
    cancel,       \* cancellationKind, with treeExpired and the parent's signal
    prep,         \* how the preparation of a run ended
    work,         \* the scheduler's entry for a run
    child,        \* runs whose child agent exists
    revoked,      \* revokedRuns
    projector,    \* records, persistenceTail and persistenceError
    control,      \* the registry's snapshots
    disk,         \* the store's snapshots
    reserved,     \* runReservations
    initialized,
    waits,        \* how much of persistenceTail each pending flush() waits for
    request,      \* the management requests
    response,     \* persistAssistant of the generation
    faults, crashes

memory == <<phase, cancel, prep, work, child, revoked, projector, control,
            reserved, initialized, waits, response>>
vars == <<calls, memory, disk, request, faults, crashes>>

Unused == [act |-> "status", run |-> "none", pc |-> "idle", answer |-> "none"]

TypeOK ==
    /\ calls \in 0..Len(Batches)
    /\ phase \in {"idle", "capture", "prepare", "barrier", "tree"}
    /\ cancel \in {"none", "timed_out", "interrupted"}
    /\ prep \in [Run -> {"none", "ok", "failed"}]
    /\ work \in [Run -> {"none", "queued", "child", "done"}]
    /\ {child, revoked, reserved} \subseteq SUBSET Run
    /\ projector \in [rec : [Run -> Snapshot], queue : Seq(Operation),
                      failed : BOOLEAN]
    /\ control \in [Run -> Snapshot]
    /\ disk \in [Run -> Snapshot]
    /\ initialized \in BOOLEAN
    /\ waits \in [Waiter -> Nat]
    /\ request \in [Call -> [act : {"status", "wait", "stop"},
                             run : Run \cup {"none"},
                             pc : {"idle", "settle", "waiting", "confirm",
                                   "ok", "rejected"},
                             answer : RunState \cup {"none"}]]
    /\ response \in {"open", "saving", "saved", "lost"}
    /\ faults \in 0..MaxFaults
    /\ crashes \in 0..MaxCrashes

Init ==
    /\ calls = 0
    /\ phase = "idle"
    /\ cancel = "none"
    /\ prep = [r \in Run |-> "none"]
    /\ work = [r \in Run |-> "none"]
    /\ child = {} /\ revoked = {} /\ reserved = {}
    /\ projector = [rec |-> [r \in Run |-> NoSnapshot], queue |-> <<>>,
                    failed |-> FALSE]
    /\ control = [r \in Run |-> NoSnapshot]
    /\ disk = [r \in Run |-> NoSnapshot]
    /\ initialized = FALSE
    /\ waits = [w \in Waiter |-> 0]
    /\ request = [c \in Call |-> Unused]
    /\ response = "open"
    /\ faults = 0 /\ crashes = 0

batch == IF calls = 0 THEN <<>> ELSE Batches[calls]

(***************************************************************************)
(* Snapshots.                                                              *)
(***************************************************************************)
Rank(st) == IF st \in Terminal THEN 4
            ELSE CHOOSE n \in 1..3 : Active[n] = st

\* assertMonotonicProgress with validStateProgression.
Progresses(current, next) ==
    /\ next.rev > current.rev
    /\ current.st \notin Terminal
    /\ next.st # "stopped"
    /\ Rank(next.st) >= Rank(current.st)

\* The renderer's snapshots know no "stopped" (v2StateAsV1).
AsV1(snap) == IF snap.st = "stopped" THEN [snap EXCEPT !.st = "interrupted"] ELSE snap

\* What upsert accepts: a run it knows moves forward, a new one has room.
Storable(r, next) ==
    /\ initialized
    /\ IF disk[r].st = "none"
       THEN Cardinality({s \in Run : disk[s].st # "none"})
                + Cardinality(reserved \ {r}) < MaxRuns
       ELSE /\ next.rev > disk[r].rev
            /\ disk[r].st \notin Terminal
            /\ Rank(next.st) >= Rank(disk[r].st)

(***************************************************************************)
(* SubagentEventProjector.  p is its state.                                *)
(***************************************************************************)
Enqueued(p, kind, r, snap) ==
    [p EXCEPT !.queue = Append(@, [kind |-> kind, run |-> r, snap |-> snap])]

Publish(p, r, snap, durable) ==
    LET q == [p EXCEPT !.rec[r] = snap]
    IN  IF durable THEN Enqueued(q, "snapshot", r, snap) ELSE q

Begin(p, r) == Publish(p, r, [st |-> "queued", rev |-> 1], TRUE)

\* Mutant: update() without its check of finishedAt.
Mutant_Update(p, r, st, durable) ==
    Publish(p, r, [st |-> st, rev |-> p.rec[r].rev + 1], durable)

\* Nothing changes a run that has ended.
Update(p, r, st, durable) ==
    IF p.rec[r].st \in Terminal THEN p
    ELSE Publish(p, r, [st |-> st, rev |-> p.rec[r].rev + 1], durable)

\* finishRun, unless complete() answered "stopped".
Finish(p, r, st) ==
    IF control[r].st = "stopped" THEN p ELSE Update(p, r, st, TRUE)

\* The runs of a batch, in its order.
FinishAll(p, runs, st) ==
    FoldLeft(LAMBDA q, r : IF r \in runs THEN Finish(q, r, st) ELSE q, p, batch)

\* applyControlSnapshot; the registry ignores that it throws.
ApplyStopped(p, r, snap) ==
    IF p.rec[r].st \in Terminal \/ snap.rev <= p.rec[r].rev THEN p
    ELSE Enqueued([p EXCEPT !.rec[r] = AsV1(snap)], "control", r, snap)

\* flush() waits for what is queued when it is called.
Flush(w, p) == waits' = [waits EXCEPT ![w] = Len(p.queue)]

(***************************************************************************)
(* The supervisor.                                                         *)
(***************************************************************************)
Batch == ToSet(batch)
Prepared == {r \in Batch : prep[r] = "ok"}

\* Mutant: the reservation of a preparation that is undone is kept.
Mutant_Unwind(p) ==
    LET ended == {r \in Prepared : p.rec[r].st # "none"}
    IN  /\ phase' = "idle"
        /\ projector' = FinishAll(p, ended, IF cancel = "none" THEN "failed" ELSE cancel)
        /\ revoked' = revoked \cup Prepared
        /\ UNCHANGED reserved

\* The catch of execute: with p projected, what was prepared is completed,
\* and its preparation undone where nothing was projected.
Unwind(p) ==
    LET ended == {r \in Prepared : p.rec[r].st # "none"}
    IN  /\ phase' = "idle"
        /\ projector' = FinishAll(p, ended, IF cancel = "none" THEN "failed" ELSE cancel)
        /\ revoked' = revoked \cup Prepared
        /\ reserved' = reserved \ (Prepared \ ended)

Execute ==
    /\ phase = "idle" /\ response = "open" /\ cancel = "none"
    /\ calls < Len(Batches)
    /\ calls' = calls + 1
    /\ phase' \in {"capture", "prepare"}
    /\ UNCHANGED <<cancel, prep, work, child, revoked, projector, control, disk,
                   reserved, initialized, waits, request, response, faults, crashes>>

\* A forked context is captured first.
CaptureContext ==
    /\ phase = "capture" /\ cancel = "none"
    /\ phase' = "prepare"
    /\ UNCHANGED <<calls, cancel, prep, work, child, revoked, projector, control, disk,
                   reserved, initialized, waits, request, response, faults, crashes>>

CaptureFails ==
    /\ phase = "capture"
    /\ Unwind(projector)
    /\ UNCHANGED <<calls, cancel, prep, work, child, control, disk, initialized,
                   waits, request, response, faults, crashes>>

\* prepareRun reserves a record and derives the run's authority, or refuses.
PrepareRun(r) ==
    /\ phase = "prepare" /\ r \in Batch /\ prep[r] = "none"
    /\ \/ /\ initialized
          /\ Cardinality({s \in Run : disk[s].st # "none"})
                + Cardinality(reserved) < MaxRuns
          /\ prep' = [prep EXCEPT ![r] = "ok"]
          /\ reserved' = reserved \cup {r}
       \/ /\ prep' = [prep EXCEPT ![r] = "failed"]
          /\ UNCHANGED reserved
    /\ UNCHANGED <<calls, phase, cancel, work, child, revoked, projector, control, disk,
                   initialized, waits, request, response, faults, crashes>>

AllPrepared == phase = "prepare" /\ \A r \in Batch : prep[r] # "none"
MayProject == cancel = "none" /\ Prepared = Batch

PreparationFails ==
    /\ AllPrepared /\ ~MayProject
    /\ Unwind(projector)
    /\ UNCHANGED <<calls, cancel, prep, work, child, control, disk, initialized,
                   waits, request, response, faults, crashes>>

\* prepareSnapshot registers a run's control before its record is set.
Registered(runs) ==
    [r \in Run |-> IF r \in ToSet(runs) THEN [st |-> "queued", rev |-> 1]
                                       ELSE control[r]]

\* Every task is projected, then the barrier waits for the records.
Project ==
    /\ AllPrepared /\ MayProject
    /\ phase' = "barrier"
    /\ projector' = FoldLeft(Begin, projector, batch)
    /\ control' = Registered(batch)
    /\ Flush(Supervisor, projector')
    /\ UNCHANGED <<calls, cancel, prep, work, child, revoked, disk, reserved,
                   initialized, request, response, faults, crashes>>

\* The registry is full: only the first k are projected.
ProjectionFails ==
    /\ AllPrepared /\ MayProject
    /\ \E k \in 0..Len(batch) - 1 :
         /\ Unwind(FoldLeft(Begin, projector, SubSeq(batch, 1, k)))
         /\ control' = Registered(SubSeq(batch, 1, k))
    /\ UNCHANGED <<calls, cancel, prep, work, child, disk, initialized,
                   waits, request, response, faults, crashes>>

Place(r) == CHOOSE n \in 1..Len(batch) : batch[n] = r

\* dispatch() starts queued runs in order; a revoked one ends at once.
Dispatched(w) ==
    LET live == [r \in Run |-> IF w[r] = "queued" /\ r \in revoked
                              THEN "done" ELSE w[r]]
        ahead(r) == {s \in Batch : \/ live[s] = "child"
                                   \/ live[s] = "queued" /\ Place(s) <= Place(r)}
    IN  [r \in Run |-> IF live[r] = "queued" /\ Cardinality(ahead(r)) <= Slots
                      THEN "child" ELSE live[r]]

\* The runs whose child agent begins with the scheduler's entries w.
Started(w) == {r \in Run : w[r] = "child" /\ work[r] # "child"}

\* Mutant: execute does not wait for the records.
Mutant_AtBarrier == phase = "barrier"

AtBarrier == phase = "barrier" /\ waits[Supervisor] = 0

\* The records are durable: the tree's root, its ceilings and its budgets
\* are derived, and its runs are scheduled.
StartTree ==
    /\ AtBarrier /\ ~projector.failed /\ cancel = "none"
    /\ phase' = "tree"
    /\ work' = Dispatched([r \in Run |-> IF r \in Batch THEN "queued" ELSE work[r]])
    /\ child' = child \cup Started(work')
    /\ UNCHANGED <<calls, cancel, prep, revoked, projector, control, disk, reserved,
                   initialized, waits, request, response, faults, crashes>>

\* A record was not written, the tree was cancelled, or it has no budget.
TreeFails ==
    /\ AtBarrier
    /\ Unwind(projector)
    /\ UNCHANGED <<calls, cancel, prep, work, child, control, disk, initialized,
                   waits, request, response, faults, crashes>>

\* Telemetry of a child, of one that outlived its run too: its state moves
\* (starting, running), or it counts a turn, a tool or tokens.
Telemetry(r) ==
    /\ r \in child
    /\ projector.rec[r].rev < MaxRevision[r]
    /\ LET st == projector.rec[r].st
       IN  \/ \E next \in {"starting", "running"} :
                /\ Rank(next) = Rank(st) + 1 \/ st \in Terminal
                /\ projector' = Update(projector, r, next, TRUE)
          \/ /\ st = "running"
             /\ \E durable \in BOOLEAN :
                  projector' = Update(projector, r, st, durable)
    /\ UNCHANGED <<calls, phase, cancel, prep, work, child, revoked, control, disk,
                   reserved, initialized, waits, request, response, faults, crashes>>

\* Authority is revoked before an end is projected.
Completed(runs, st) ==
    /\ revoked' = revoked \cup runs
    /\ projector' = FinishAll(projector, runs, st)

\* The child ends.  If the supervisor still waits for it, the run ends with
\* what the child reports, or with the cancellation.
ChildEnds(r) ==
    /\ r \in child
    /\ IF work[r] = "child"
       THEN /\ \E st \in Outcome :
                 Completed({r}, IF cancel = "none" THEN st ELSE cancel)
            /\ work' = Dispatched([work EXCEPT ![r] = "done"])
       ELSE UNCHANGED <<revoked, projector, work>>
    /\ child' = (child \ {r}) \cup Started(work')
    /\ UNCHANGED <<calls, phase, cancel, prep, control, disk, reserved, initialized,
                   waits, request, response, faults, crashes>>

\* Mutant: only an interruption arms the timer.
Mutant_Sealable == phase = "tree" /\ cancel = "interrupted"

\* The grace after a cancellation is over: what still runs is left behind.
Sealable == phase = "tree" /\ cancel # "none"
SettlementTimer ==
    /\ Sealable
    /\ LET left == {r \in Batch : work[r] = "child"}
       IN  /\ left # {}
           /\ Completed(left, cancel)
           /\ work' = [r \in Run |-> IF r \in left THEN "done" ELSE work[r]]
    /\ UNCHANGED <<calls, phase, cancel, prep, child, control, disk, reserved, initialized,
                   waits, request, response, faults, crashes>>

\* abortExecution: the tree's timer, the parent's signal or a spent budget.
\* The scheduler rejects what is queued.
AbortExecution(kind) ==
    /\ phase # "idle" /\ cancel = "none"
    /\ cancel' = kind
    /\ work' = [r \in Run |-> IF work[r] = "queued" THEN "done" ELSE work[r]]
    /\ UNCHANGED <<calls, phase, prep, child, revoked, projector, control, disk, reserved,
                   initialized, waits, request, response, faults, crashes>>

AllSettled == phase = "tree" /\ \A r \in Batch : work[r] = "done"

TreeEnds ==
    /\ AllSettled
    /\ IF cancel = "none"
       THEN phase' = "idle" /\ UNCHANGED <<revoked, projector, reserved>>
       ELSE Unwind(projector)
    /\ UNCHANGED <<calls, cancel, prep, work, child, control, disk, initialized,
                   waits, request, response, faults, crashes>>

(***************************************************************************)
(* The response is saved once every accepted record is durable.            *)
(***************************************************************************)
PersistAssistant ==
    /\ phase = "idle" /\ response = "open"
    /\ response' = "saving"
    /\ Flush(Response, projector)
    /\ UNCHANGED <<calls, phase, cancel, prep, work, child, revoked, projector, control,
                   disk, reserved, initialized, request, faults, crashes>>

AppendMessage ==
    /\ response = "saving" /\ waits[Response] = 0
    /\ response' = IF projector.failed THEN "lost" ELSE "saved"
    /\ UNCHANGED <<calls, phase, cancel, prep, work, child, revoked, projector, control,
                   disk, reserved, initialized, waits, request, faults, crashes>>

(***************************************************************************)
(* The persistence queue and the store.                                    *)
(***************************************************************************)
\* Mutant: a flush that is over still counts.
Mutant_Advanced == [w \in Waiter |-> waits[w] - 1]

\* Every pending flush waits for one write less.
Advanced == [w \in Waiter |-> IF waits[w] = 0 THEN 0 ELSE waits[w] - 1]

\* The queued write at the head: the store's upsert, then, for telemetry,
\* the registry's update.  The first failure is kept, the queue goes on.
Persist ==
    /\ projector.queue # <<>>
    /\ LET op == Head(projector.queue)
           r == op.run
           updates == op.kind = "snapshot" /\ op.snap.rev > 1
           known == Progresses(control[r], op.snap)
       IN \/ /\ Storable(r, op.snap)
             /\ disk' = [disk EXCEPT ![r] = op.snap]
             /\ reserved' = reserved \ {r}
             /\ control' = IF updates /\ known
                           THEN [control EXCEPT ![r] = op.snap] ELSE control
             /\ revoked' = IF updates /\ known /\ op.snap.st \in Terminal
                           THEN revoked \cup {r} ELSE revoked
             /\ projector' = [projector EXCEPT !.queue = Tail(@),
                                               !.failed = @ \/ (updates /\ ~known)]
             /\ UNCHANGED faults
          \/ /\ \/ ~Storable(r, op.snap) /\ UNCHANGED <<disk, faults>>
                \/ /\ Storable(r, op.snap) /\ faults < MaxFaults
                   /\ faults' = faults + 1
                   /\ disk' \in {disk, [disk EXCEPT ![r] = op.snap]}
             /\ projector' = [projector EXCEPT !.queue = Tail(@), !.failed = TRUE]
             /\ UNCHANGED <<reserved, control, revoked>>
    /\ waits' = Advanced
    /\ UNCHANGED <<calls, phase, cancel, prep, work, child, initialized, request,
                   response, crashes>>

\* Runs an earlier session left active are interrupted.
Interrupt(snap) ==
    IF snap.st \in ToSet(Active) THEN [st |-> "interrupted", rev |-> snap.rev + 1]
    ELSE snap

Initialize ==
    /\ ~initialized
    /\ initialized' = TRUE
    /\ disk' = [r \in Run |-> Interrupt(disk[r])]
    /\ UNCHANGED <<calls, phase, cancel, prep, work, child, revoked, projector, control,
                   reserved, waits, request, response, faults, crashes>>

(***************************************************************************)
(* executeForDocument.  The renderer knows a run once its record is        *)
(* durable.  A request drains the queue, brings the registry up to the     *)
(* live projection, acts, and drains the queue again before it answers.    *)
(***************************************************************************)
Manage(c, act, r) ==
    /\ request[c].pc = "idle"
    /\ control[r].st # "none" /\ disk[r].st # "none"
    /\ request' = [request EXCEPT ![c] =
                     [act |-> act, run |-> r, pc |-> "settle", answer |-> "none"]]
    /\ Flush(c, projector)
    /\ UNCHANGED <<calls, phase, cancel, prep, work, child, revoked, projector, control,
                   disk, reserved, initialized, response, faults, crashes>>

At(c, pc) == request[c].pc = pc /\ waits[c] = 0
Live(r) == projector.rec[r]
Behind(r) == Live(r).rev > control[r].rev
Current(r) == IF Behind(r) THEN Live(r) ELSE control[r]

Reject(c) == request' = [request EXCEPT ![c].pc = "rejected"]
Confirming(c, st) ==
    [request EXCEPT ![c].pc = "confirm", ![c].answer = st]

\* The queue failed, or the registry refuses the live projection.
ManageFails(c) ==
    /\ At(c, "settle")
    /\ LET r == request[c].run
       IN  projector.failed \/ (Behind(r) /\ ~Progresses(control[r], Live(r)))
    /\ Reject(c)
    /\ UNCHANGED <<calls, memory, disk, faults, crashes>>

\* status, wait, and stop: of a run that has not ended, stop revokes the
\* authority, aborts the child and its place in the queue, and publishes a
\* stopped snapshot, which ends the projection.
Act(c) ==
    LET r == request[c].run
        now == Current(r)
        stops == request[c].act = "stop" /\ now.st \notin Terminal
        stopped == [st |-> "stopped", rev |-> now.rev + 1]
        ends == now.st \in Terminal \/ stops
    IN  /\ At(c, "settle")
        /\ ~projector.failed
        /\ Behind(r) => Progresses(control[r], Live(r))
        /\ control' = [control EXCEPT ![r] = IF stops THEN stopped ELSE now]
        /\ revoked' = IF ends THEN revoked \cup {r} ELSE revoked
        /\ projector' = IF stops THEN ApplyStopped(projector, r, stopped) ELSE projector
        /\ work' = IF stops /\ work[r] = "queued" THEN [work EXCEPT ![r] = "done"]
                   ELSE work
        /\ IF request[c].act = "wait" /\ ~ends
           THEN /\ request' = [request EXCEPT ![c].pc = "waiting"]
                /\ UNCHANGED waits
           ELSE /\ request' = Confirming(c, control'[r].st)
                /\ Flush(c, projector')
        /\ UNCHANGED <<calls, phase, cancel, prep, child, disk, reserved, initialized,
                       response, faults, crashes>>

\* A wait ends with its run, or with its timer.
Answer(c) ==
    /\ request' = Confirming(c, control[request[c].run].st)
    /\ Flush(c, projector)
    /\ UNCHANGED <<calls, phase, cancel, prep, work, child, revoked, projector, control,
                   disk, reserved, initialized, response, faults, crashes>>

WaitOver(c) ==
    request[c].pc = "waiting" /\ control[request[c].run].st \in Terminal
WaitEnds(c) == WaitOver(c) /\ Answer(c)
WaitTimer(c) == request[c].pc = "waiting" /\ Answer(c)

\* Mutant: a request is answered without draining the queue again.
Mutant_Settled(c) == request[c].pc = "confirm"

Settled(c) == At(c, "confirm")
Confirm(c) ==
    /\ Settled(c)
    /\ request' = [request EXCEPT ![c].pc = IF projector.failed THEN "rejected" ELSE "ok"]
    /\ UNCHANGED <<calls, memory, disk, faults, crashes>>

\* The application exits.  The store is left, and what was answered.
Crash ==
    /\ crashes < MaxCrashes
    /\ crashes' = crashes + 1
    /\ phase' = "idle" /\ cancel' = "none" /\ response' = "open"
    /\ prep' = [r \in Run |-> "none"] /\ work' = [r \in Run |-> "none"]
    /\ child' = {} /\ revoked' = {} /\ reserved' = {}
    /\ projector' = [rec |-> [r \in Run |-> NoSnapshot], queue |-> <<>>,
                     failed |-> FALSE]
    /\ control' = [r \in Run |-> NoSnapshot]
    /\ initialized' = FALSE
    /\ waits' = [w \in Waiter |-> 0]
    /\ request' = [c \in Call |->
          IF request[c].pc \in {"ok", "rejected"} THEN request[c] ELSE Unused]
    /\ UNCHANGED <<calls, disk, faults>>

(***************************************************************************)
(* The specification.                                                      *)
(***************************************************************************)
Ready ==
    \/ phase = "capture" /\ cancel # "none"
    \/ AllPrepared \/ AtBarrier \/ AllSettled
    \/ response = "saving" /\ waits[Response] = 0
    \/ \E c \in Call : At(c, "settle") \/ Settled(c) \/ WaitOver(c)

Step ==
    \/ phase = "capture" /\ cancel # "none" /\ CaptureFails
    \/ PreparationFails \/ Project \/ ProjectionFails
    \/ StartTree \/ TreeFails \/ TreeEnds
    \/ AppendMessage
    \/ \E c \in Call : ManageFails(c) \/ Act(c) \/ WaitEnds(c) \/ Confirm(c)

Event ==
    \/ Execute \/ CaptureContext \/ CaptureFails
    \/ \E r \in Run : PrepareRun(r) \/ Telemetry(r) \/ ChildEnds(r)
    \/ SettlementTimer
    \/ \E kind \in {"timed_out", "interrupted"} : AbortExecution(kind)
    \/ PersistAssistant \/ Persist \/ Initialize
    \/ \E c \in Call, act \in {"status", "wait", "stop"}, r \in Run : Manage(c, act, r)
    \/ \E c \in Call : WaitTimer(c)
    \/ Crash

Next == Step \/ (~Ready /\ Event)

Spec == Init /\ [][Next]_vars

\* What is ready runs, the store answers, and timers fire.  Nothing is
\* assumed of a child, nor of a context that is captured.
FairSpec ==
    /\ Spec
    /\ WF_vars(Step)
    /\ WF_vars(~Ready /\ Persist)
    /\ \A r \in Run : WF_vars(~Ready /\ PrepareRun(r))
    /\ WF_vars(~Ready /\ AbortExecution("timed_out"))
    /\ WF_vars(~Ready /\ SettlementTimer)
    /\ \A c \in Call : WF_vars(~Ready /\ WaitTimer(c))

(***************************************************************************)
(* Properties.                                                             *)
(***************************************************************************)
\* A child agent exists only when the records of its whole batch are durable
\* and its authority was derived (the barrier of execute).
NoChildBeforeRecord ==
    \A r \in child : prep[r] = "ok" /\ \A s \in Batch : disk[s].st # "none"

\* A run that has ended, for the renderer or for the registry, holds no
\* authority, whichever of its child, its supervisor or the user ended it, and
\* when execute is over every run it projected has ended.  Once the queue is
\* drained, and if every write succeeded, the store says the same; and the
\* store holds no place for a run that never got its record.
EndedIsSettled ==
    /\ \A r \in Run :
          {projector.rec[r].st, control[r].st} \cap Terminal # {} => r \in revoked
    /\ phase = "idle" =>
          /\ \A r \in Run : projector.rec[r].st \notin ToSet(Active)
          /\ projector.queue = <<>> =>
                /\ faults <= 1 => reserved = {}
                /\ faults = 0 =>
                      \A r \in Run : projector.rec[r].st \in Terminal
                                        => AsV1(disk[r]) = projector.rec[r]

\* An acknowledged answer that a run has ended is what the store holds, then
\* and after any crash: a stop is never lost.  And once the store is
\* initialized it calls active only runs that this session projected.
OutcomesStand ==
    /\ \A c \in Call :
          /\ request[c].pc = "ok"
          /\ request[c].answer \in Terminal
          => disk[request[c].run].st = request[c].answer
    /\ initialized => \A r \in Run :
          disk[r].st \in ToSet(Active) => projector.rec[r].st # "none"

\* The end of a run never changes: not for the renderer, not in the registry
\* (until the application exits) and not in the store.
TerminalIsFinal ==
    [][\A r \in Run :
         /\ disk[r].st \in Terminal => disk'[r] = disk[r]
         /\ crashes' = crashes =>
              /\ control[r].st \in Terminal => control'[r] = control[r]
              /\ projector.rec[r].st \in Terminal
                   => projector'.rec[r] = projector.rec[r]]_vars

\* execute and every management request end, though a child may never stop.
CallsEnd ==
    /\ phase # "idle" ~> phase = "idle"
    /\ \A c \in Call : request[c].pc \in {"settle", "waiting", "confirm"}
                         ~> request[c].pc \in {"idle", "ok", "rejected"}

\* A stop is immune to late telemetry: it drains what is published before it
\* derives a revision, so only a write that fails can make it fail.
StopImmuneToTelemetry ==
    \A c \in Call :
        request[c].act = "stop" /\ request[c].pc = "rejected" => faults > 0
=============================================================================
