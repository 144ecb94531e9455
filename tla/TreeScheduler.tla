--------------------------- MODULE TreeScheduler ---------------------------
(***************************************************************************)
(* One tree of subagent runs: SubagentTreeBudgetLedgerV2 counts them and   *)
(* SubagentTreeSchedulerV2 starts them (subagents/subagent-nesting-core.ts)*)
(*                                                                         *)
(* A run that delegates gives its execution capacity up, keeps a place in  *)
(* the queue budget, and asks for capacity again when every run of its     *)
(* batch has settled.  Runs are stopped one by one or all together, and a  *)
(* run whose grace period is over settles while its batch still waits.     *)
(*                                                                         *)
(* Every method of both classes is synchronous up to its first await, so   *)
(* it is one step, with the dispatch it ends in.  Run ids are fresh UUIDs. *)
(***************************************************************************)
EXTENDS Integers, FiniteSets, Sequences, SequencesExt

CONSTANTS
    Runs,         \* run ids of the tree
    Top,          \* the runs of the first batch
    Children,     \* the runs each run may delegate
    Deployments,  \* "hosted" and "local" in the code
    Limits,       \* execution capacity of each deployment
    Plans         \* the deployments and budgets a tree may be created with

ASSUME TreeSchedulerAssumption ==
    /\ Top \subseteq Runs
    /\ Children \in [Runs -> SUBSET Runs]
    /\ \A r, s \in Runs :
          /\ Children[r] \cap Top = {}
          /\ r # s => Children[r] \cap Children[s] = {}
    /\ Limits \in [Deployments -> Nat \ {0}]
    /\ Plans \subseteq [deployment : Deployments, maxLaunches : Nat,
                        maxActive : Nat \ {0}, maxQueued : Nat]
    \* Both are 1 for a local model and 2 for a hosted one.
    /\ \A p \in Plans : Limits[p.deployment] <= p.maxActive
    /\ IsFiniteSet(Runs)

LedgerStates == {"none", "queued", "active", "waiting", "terminal"}
EntryStates == {"none", "queued", "running", "waiting", "settled"}

\* Where a call of runDescendants stands: no call, its children run, its
\* resume item is queued, or the item was granted or refused and the
\* continuation has not run yet.
AwaitStates == {"none", "children", "queued", "granted", "refused"}

Item == [run : Runs, resume : BOOLEAN]

----------------------------------------------------------------------------
VARIABLES
    plan,        \* the deployment of its model and the limits of its ledger
    tree,        \* the ledger's and the scheduler's fields, see TreeState
    batch,       \* the children each run last delegated
    delegating,  \* entry.delegating
    aborted,     \* the tree's abort signal
    expired      \* assertLive fails: the wall-time budget is used up

vars == <<plan, tree, batch, delegating, aborted, expired>>

(* The scheduler's methods build their new state from Now step by step.    *)
TreeState ==
    [ledger : [Runs -> LedgerStates],
     launched : Nat, active : Nat, queued : Nat,
     entry : [Runs -> EntryStates],
     holds : [Runs -> BOOLEAN],          \* entry.holdsCapacity
     used : [Deployments -> Nat],        \* the scheduler's active counts
     queue : Seq(Item),
     outcome : [Runs -> {"none", "pending", "resolved", "rejected"}],
     body : [Runs -> {"none", "working", "over"}],  \* task.execute
     await : [Runs -> AwaitStates]]

TypeOK ==
    /\ plan \in Plans
    /\ tree \in TreeState
    /\ batch \in [Runs -> SUBSET Runs]
    /\ delegating \in [Runs -> BOOLEAN]
    /\ aborted \in BOOLEAN
    /\ expired \in BOOLEAN

Init ==
    /\ plan \in Plans
    /\ tree = [ledger |-> [r \in Runs |-> "none"],
               launched |-> 0, active |-> 0, queued |-> 0,
               entry |-> [r \in Runs |-> "none"],
               holds |-> [r \in Runs |-> FALSE],
               used |-> [d \in Deployments |-> 0],
               queue |-> <<>>,
               outcome |-> [r \in Runs |-> "none"],
               body |-> [r \in Runs |-> "none"],
               await |-> [r \in Runs |-> "none"]]
    /\ batch = [r \in Runs |-> {}]
    /\ delegating = [r \in Runs |-> FALSE]
    /\ aborted = FALSE
    /\ expired = FALSE

----------------------------------------------------------------------------
(* Pieces of the methods: each maps a tree state to the next one.          *)

\* Would take a waiting run for an active one.
Mutant_Finished(t, r) ==
    IF t.ledger[r] \in {"none", "terminal"} THEN t
    ELSE [t EXCEPT !.ledger[r] = "terminal",
                   !.active = IF t.ledger[r] = "queued" THEN @ ELSE @ - 1,
                   !.queued = IF t.ledger[r] = "queued" THEN @ - 1 ELSE @]
\* ledger.finish: a waiting run gives its place in the queue back.
Finished(t, r) ==
    IF t.ledger[r] \in {"none", "terminal"} THEN t
    ELSE [t EXCEPT !.ledger[r] = "terminal",
                   !.active = IF t.ledger[r] = "active" THEN @ - 1 ELSE @,
                   !.queued = IF t.ledger[r] = "active" THEN @ ELSE @ - 1]

\* Would revive a run that settled while its batch ran.
Mutant_MayActivate(t, r) == ~expired /\ t.active < plan.maxActive
\* ledger.activate refuses an expired tree, a run that is not waiting for it
\* (one that settled while its batch ran), and a tree at its active limit.
MayActivate(t, r) ==
    /\ ~expired /\ t.active < plan.maxActive
    /\ t.ledger[r] \in {"queued", "waiting"}

Granted(t, item) ==
    LET r == item.run
        started == [t EXCEPT !.ledger[r] = "active",
                             !.active = @ + 1, !.queued = @ - 1,
                             !.used[plan.deployment] = @ + 1,
                             !.holds[r] = TRUE, !.entry[r] = "running"]
    IN  IF item.resume THEN [started EXCEPT !.await[r] = "granted"]
                       ELSE [started EXCEPT !.body[r] = "working"]

Refused(t, item) ==
    LET r == item.run
        settled == [Finished(t, r) EXCEPT !.entry[r] = "settled"]
    IN  IF item.resume THEN [settled EXCEPT !.await[r] = "refused"]
                       ELSE [settled EXCEPT !.outcome[r] = "rejected"]

\* One item of the queue, in the loop of dispatch.
Offer(t, item) ==
    IF t.used[plan.deployment] >= Limits[plan.deployment]
    THEN [t EXCEPT !.queue = Append(@, item)]
    ELSE IF MayActivate(t, item.run) THEN Granted(t, item) ELSE Refused(t, item)

Dispatched(t) ==
    IF aborted THEN t
    ELSE FoldLeft(Offer, [t EXCEPT !.queue = <<>>], t.queue)

\* createEntries and enqueue of a batch the ledger has reserved.
Enlisted(t, runs) ==
    LET items == SetToSeq({[run |-> r, resume |-> FALSE] : r \in runs}) IN
    [t EXCEPT
        !.ledger = [r \in Runs |-> IF r \in runs THEN "queued" ELSE @[r]],
        !.entry = [r \in Runs |-> IF r \in runs THEN "queued" ELSE @[r]],
        !.outcome = [r \in Runs |-> IF r \in runs THEN "pending" ELSE @[r]],
        !.launched = @ + Cardinality(runs),
        !.queued = @ + Cardinality(runs),
        !.queue = @ \o items]

\* Would wait for its children and hold its capacity.
Mutant_Suspended(t, r) ==
    [t EXCEPT !.ledger[r] = "waiting", !.entry[r] = "waiting",
              !.active = @ - 1, !.queued = @ + 1,
              !.await[r] = "children"]
\* The run gives up what it holds while its children execute; its own place
\* in the queue budget is reserved with theirs.
Suspended(t, r) ==
    [t EXCEPT !.ledger[r] = "waiting", !.entry[r] = "waiting",
              !.active = @ - 1, !.queued = @ + 1,
              !.holds[r] = FALSE, !.used[plan.deployment] = @ - 1,
              !.await[r] = "children"]

\* Would give back what a waiting run has given up already.
Mutant_Released(t, r) ==
    [t EXCEPT !.holds[r] = FALSE, !.used[plan.deployment] = @ - 1]
\* The finally block of execute.
Released(t, r) ==
    IF t.holds[r]
    THEN [t EXCEPT !.holds[r] = FALSE, !.used[plan.deployment] = @ - 1]
    ELSE t

----------------------------------------------------------------------------
(* The methods.                                                            *)

Fresh(runs) == \A r \in runs : tree.entry[r] = "none"

\* run: called once for a tree.
Run(runs) ==
    /\ runs \subseteq Top /\ runs # {} /\ Fresh(Top)
    /\ ~aborted /\ ~expired
    /\ tree.launched + Cardinality(runs) <= plan.maxLaunches
    /\ tree.queued + Cardinality(runs) <= plan.maxQueued
    /\ tree' = Dispatched(Enlisted(tree, runs))
    /\ UNCHANGED <<plan, batch, delegating, aborted, expired>>

\* runDescendants: a reservation that is refused changes nothing.
HasRoom(runs) ==
    /\ tree.launched + Cardinality(runs) <= plan.maxLaunches
    /\ tree.queued + Cardinality(runs) + 1 <= plan.maxQueued

RunDescendants(p, runs) ==
    /\ tree.body[p] = "working" /\ tree.await[p] = "none"
    /\ tree.entry[p] = "running" /\ tree.holds[p] /\ ~delegating[p]
    /\ tree.ledger[p] = "active"
    /\ runs \subseteq Children[p] /\ runs # {} /\ Fresh(runs)
    /\ ~aborted /\ ~expired /\ HasRoom(runs)
    /\ tree' = Dispatched(Enlisted(Suspended(tree, p), runs))
    /\ batch' = [batch EXCEPT ![p] = runs]
    /\ delegating' = [delegating EXCEPT ![p] = TRUE]
    /\ UNCHANGED <<plan, aborted, expired>>

\* settleDescendants, once every child has settled.
SettleDescendants(p) ==
    /\ tree.await[p] = "children"
    /\ \A r \in batch[p] : tree.outcome[r] # "pending"
    /\ \/ /\ aborted
          /\ tree' = [Finished(tree, p) EXCEPT !.await[p] = "none"]
          /\ delegating' = [delegating EXCEPT ![p] = FALSE]
       \/ /\ ~aborted
          /\ tree' = Dispatched(
                [tree EXCEPT !.await[p] = "queued",
                             !.queue = Append(@, [run |-> p,
                                                  resume |-> TRUE])])
          /\ UNCHANGED delegating
    /\ UNCHANGED <<plan, batch, aborted, expired>>

\* Its continuation: a refused resume throws past the reset of delegating.
Resume(p) ==
    /\ tree.await[p] \in {"granted", "refused"}
    /\ tree' = [tree EXCEPT !.await[p] = "none"]
    /\ delegating' = [delegating EXCEPT ![p] = @ /\ tree.await[p] = "refused"]
    /\ UNCHANGED <<plan, batch, aborted, expired>>

\* The task settles, also one that still awaits its batch: a stopped or late
\* child runner drains its prompt for a bounded time, and the supervisor
\* seals the runs of a cancelled tree.
EndRun(r) ==
    /\ tree.body[r] = "working"
    /\ \E outcome \in {"resolved", "rejected"} :
          /\ aborted => outcome = "rejected"
          /\ tree' = Dispatched(
                [Finished(Released(tree, r), r) EXCEPT
                    !.outcome[r] = outcome, !.body[r] = "over",
                    !.entry[r] = "settled"])
    /\ UNCHANGED <<plan, batch, delegating, aborted, expired>>

\* The queue without the item of a run that waits for its start.
Without(queue, r) ==
    FoldLeft(LAMBDA q, item : IF item.run = r /\ ~item.resume THEN q
                                                             ELSE Append(q, item),
             <<>>, queue)

\* Removes one queued run, by the user or its parent.
CancelRun(r) ==
    /\ tree.entry[r] = "queued"
    /\ \E outcome \in {"resolved", "rejected"} :
          tree' = Dispatched(
              [Finished(tree, r) EXCEPT
                  !.queue = Without(@, r), !.entry[r] = "settled", !.outcome[r] = outcome])
    /\ UNCHANGED <<plan, batch, delegating, aborted, expired>>

\* One item of the queue, in the loop of cancel.
Dropped(t, item) ==
    LET r == item.run IN
    IF item.resume THEN [t EXCEPT !.await[r] = "refused"]
    ELSE IF t.entry[r] # "queued" THEN t
    ELSE [Finished(t, r) EXCEPT !.outcome[r] = "rejected",
                                !.entry[r] = "settled"]

\* The tree is cancelled: by its owner, its deadline, or a usage budget.
Cancel ==
    /\ ~aborted
    /\ aborted' = TRUE
    /\ tree' = FoldLeft(Dropped, [tree EXCEPT !.queue = <<>>], tree.queue)
    /\ UNCHANGED <<plan, batch, delegating, expired>>

\* The wall-time budget runs out before the owner's timer cancels the tree.
Expire ==
    /\ ~expired
    /\ expired' = TRUE
    /\ UNCHANGED <<plan, tree, batch, delegating, aborted>>

----------------------------------------------------------------------------
Next ==
    \/ \E runs \in SUBSET Top : Run(runs)
    \/ \E p \in Runs : \E runs \in SUBSET Children[p] : RunDescendants(p, runs)
    \/ \E r \in Runs :
          SettleDescendants(r) \/ Resume(r) \/ EndRun(r) \/ CancelRun(r)
    \/ Cancel \/ Expire

Spec == Init /\ [][Next]_vars

\* A task that is not waiting for a batch ends: its model, its tools and its
\* drain all have deadlines.  One that waits is owed nothing: it must get its
\* capacity back.  Continuations of settled promises run.
Fairness ==
    \A r \in Runs :
        /\ WF_vars(tree.await[r] = "none" /\ EndRun(r))
        /\ WF_vars(SettleDescendants(r))
        /\ WF_vars(Resume(r))
FairSpec == Spec /\ Fairness

----------------------------------------------------------------------------
(* Properties.                                                             *)

In(state) == {r \in Runs : tree.ledger[r] = state}

\* The runs of a deployment that execute: a parent that waits for its
\* children, and only then, is beside the limit.
Executing(d) ==
    {r \in Runs : /\ d = plan.deployment
                  /\ tree.body[r] = "working"
                  /\ tree.await[r] \in {"none", "granted"}}

\* The two classes never disagree, whatever order runs end, resume and are
\* stopped in: the ledger's counters count its states and respect its limits,
\* the scheduler's capacity counts the entries that hold it, an entry
\* holds capacity exactly while the ledger has it active, and as long as the
\* tree is neither cancelled nor out of time no more tasks execute on a
\* deployment than it has capacity for.
AccountsAgree ==
    /\ tree.active = Cardinality(In("active"))
    /\ tree.queued = Cardinality(In("queued") \cup In("waiting"))
    /\ tree.launched = Cardinality(Runs \ In("none"))
    /\ tree.active <= plan.maxActive
    /\ tree.queued <= plan.maxQueued
    /\ tree.launched <= plan.maxLaunches
    /\ \A d \in Deployments :
          /\ tree.used[d] <= Limits[d]
          /\ tree.used[d] =
                Cardinality({r \in Runs : d = plan.deployment /\ tree.holds[r]})
    /\ \A r \in Runs : tree.holds[r] <=> tree.ledger[r] = "active"
    /\ ~aborted /\ ~expired =>
          \A d \in Deployments : Cardinality(Executing(d)) <= Limits[d]

\* A run that settled without executing never executes, and a cancelled tree
\* starts nothing: neither a stopped run, nor a refused one, nor a parent that
\* settled before its batch gets capacity later.
NoLateStart ==
    [][\A r \in Runs :
          /\ tree.outcome[r] # "pending" /\ tree.entry[r] # "none" =>
                tree'.body[r] = tree.body[r]
          /\ tree.entry[r] = "settled" => ~tree'.holds[r]
          /\ aborted /\ ~tree.holds[r] => ~tree'.holds[r]]_vars

\* Every run settles: neither parents that wait for each other's capacity, nor
\* a stop, a refusal or the end of the time budget leave a batch waiting.
EveryRunSettles ==
    \A r \in Runs :
        tree.outcome[r] = "pending" ~> tree.outcome[r] # "pending"

=============================================================================
