--------------------------- MODULE EffectJournal ---------------------------
(***************************************************************************)
(* Durable tool-effect evidence of Aiden's Pi agent runs.                  *)
(*                                                                         *)
(* Before a tool runs, the harness (pi-agent-runtime-harness.ts) writes a  *)
(* record of it through PiRuntimeEffectStore (pi-runtime-effect-store.ts)  *)
(* to one JSON file kept by DataStore (data-store.ts).  A generation of a  *)
(* chat (llm-client.ts) first explains to the model every earlier effect   *)
(* whose result may be missing from the Pi journal, and only then marks it *)
(* recorded.  Any publication can fail, before or after its rename, and    *)
(* the process can stop between any two steps.                             *)
(*                                                                         *)
(* A run here is one managed operation of a harness: its operationId is a  *)
(* fresh UUID, so a run is started at most once.  An effect is one tool    *)
(* call; its effectId is a fresh UUID too.                                 *)
(***************************************************************************)
EXTENDS Naturals, FiniteSets

CONSTANTS
    Runs,           \* operation ids
    Effects,        \* effect ids
    Chats,          \* chat ids
    RunOf,          \* the operation an effect belongs to
    ChatOf,         \* the chat a run belongs to
    Foreground,     \* the runs of the foreground lane; the others are children
    ReplaySafe,     \* the effects of tools declared replay-safe
    MaxOperations,  \* MAX_PI_RUNTIME_OPERATIONS
    MaxEffects      \* MAX_PI_RUNTIME_EFFECTS

ASSUME EffectJournalAssumption ==
    /\ RunOf \in [Effects -> Runs]
    /\ ChatOf \in [Runs -> Chats]
    /\ Foreground \subseteq Runs
    /\ ReplaySafe \subseteq Effects
    /\ MaxOperations \in Nat \ {0}
    /\ MaxEffects \in Nat \ {0}

EffectChat(e) == ChatOf[RunOf[e]]
EffectsOf(r) == {e \in Effects : RunOf[e] = r}
RunsOf(c) == {r \in Runs : ChatOf[r] = c}

----------------------------------------------------------------------------
(* The database.  "settled" stands for the four outcomes a harness gives a *)
(* finished operation (completed, app_cancelled, provider_failed and       *)
(* host_failed), which nothing in the store tells apart.                   *)

OpStates == {"absent", "running", "settled", "interrupted"}
OpTerminal == {"settled", "interrupted"}

\* States of an effect whose tool may have run, and is known to be over.
Outcomes == {"completed", "remote_error", "unknown", "interrupted"}
Terminal == Outcomes \cup {"cancelled_before_dispatch"}
Dispatched == Outcomes \cup {"dispatch_started"}
EffectStates == Terminal \cup {"absent", "prepared", "dispatch_started"}

Digests == {"none", "startup", "explicit", "write_failed", "outcome"}

EffectRecord == [state : EffectStates, digest : Digests, recorded : BOOLEAN]
Database == [op : [Runs -> OpStates], effect : [Effects -> EffectRecord]]

NoEffect == [state |-> "absent", digest |-> "none", recorded |-> FALSE]
EmptyDatabase ==
    [op |-> [r \in Runs |-> "absent"], effect |-> [e \in Effects |-> NoEffect]]

\* What localUnknown holds for an effect whose terminal write failed.
LocalUnknown ==
    [state |-> "unknown", digest |-> "write_failed", recorded |-> FALSE]

----------------------------------------------------------------------------
VARIABLES
    disk,         \* the file: survives a crash
    cache,        \* DataStore.cache: what every mutation starts from
    localUnknown, \* effects whose terminal publication failed in this process
    app,          \* "down", "starting" (initialized, still reconciling) or "up"
    phase,        \* where each run's generation and harness stand
    turn,         \* the visible-turn lease: "none", "open" or "broken"
    aborted,      \* the run's abort signal, also raised by every host fault
    tool,         \* where each tool call stands
    tracked,      \* activeEffectOperation.effects: the harness's own view
    listed,       \* effects the run's generation still has to mark recorded
    inFlight,     \* markRecoveryRecorded calls queued with their captured local
    suffix,       \* results in the journal after an open turn's begin marker
    kept,         \* effects the recovered Pi branch tells the model about
    quarantined,  \* chats whose journal awaits a restart
    stage,        \* chat deletion, made crash-safe by its durable intent
    ran,          \* history: tools whose body was entered
    owed          \* history: what a turn's model must have been told

storeVars == <<disk, cache, localUnknown>>
harnessVars == <<phase, turn, aborted, tool, tracked>>
recoveryVars == <<listed, inFlight, owed>>
journalVars == <<suffix, kept, quarantined>>
vars == <<storeVars, app, harnessVars, recoveryVars, journalVars, stage, ran>>

Phases == {"idle", "listed", "marking", "ready", "started", "active",
           "closing", "closed", "committed", "done"}
ToolSteps == {"idle", "prepared", "dispatched", "executed", "finished",
              "settled"}

TypeOK ==
    /\ disk \in Database
    /\ cache \in Database
    /\ localUnknown \subseteq Effects
    /\ app \in {"down", "starting", "up"}
    /\ phase \in [Runs -> Phases]
    /\ turn \in [Runs -> {"none", "open", "broken"}]
    /\ aborted \in [Runs -> BOOLEAN]
    /\ tool \in [Effects -> ToolSteps]
    /\ tracked \in [Effects -> {"none", "prepared", "dispatch_started"}]
    /\ listed \in [Runs -> SUBSET Effects]
    /\ inFlight \in [Effects -> {"none", "durable", "local"}]
    /\ suffix \subseteq Effects
    /\ kept \subseteq Effects
    /\ quarantined \subseteq Chats
    /\ stage \in [Chats -> {"live", "deleting", "erased", "gone"}]
    /\ ran \subseteq Effects
    /\ owed \in [Runs -> SUBSET Effects]

Init ==
    /\ disk = EmptyDatabase
    /\ cache = EmptyDatabase
    /\ localUnknown = {}
    /\ app = "down"
    /\ phase = [r \in Runs |-> "idle"]
    /\ turn = [r \in Runs |-> "none"]
    /\ aborted = [r \in Runs |-> FALSE]
    /\ tool = [e \in Effects |-> "idle"]
    /\ tracked = [e \in Effects |-> "none"]
    /\ listed = [r \in Runs |-> {}]
    /\ inFlight = [e \in Effects |-> "none"]
    /\ suffix = {}
    /\ kept = {}
    /\ quarantined = {}
    /\ stage = [c \in Chats |-> "live"]
    /\ ran = {}
    /\ owed = [r \in Runs |-> {}]

----------------------------------------------------------------------------
(* DataStore.update runs one mutation at a time on a copy of the cache.    *)
(* writeNow renames the staged file over the destination, syncs the        *)
(* directory, and replaces the cache only after both: a failure before the *)
(* rename leaves everything alone, one after it leaves the new file under  *)
(* the old cache.  A mutation that throws writes nothing, like a failure   *)
(* before the rename.  The continuation of a call runs before the next     *)
(* queued mutation reads the store's memory, so a call is one step.        *)

Published(db) == cache' = db /\ disk' = db
Failed(db) == cache' = cache /\ disk' \in {disk, db}

SetOp(db, r, state) == [db EXCEPT !.op[r] = state]
SetEffect(db, e, record) == [db EXCEPT !.effect[e] = record]

\* pruneOneTerminalOperation: the operations history pressure may remove.
Prunable(db) ==
    {r \in Runs :
        /\ db.op[r] \in OpTerminal
        /\ \A e \in EffectsOf(r) :
              \/ db.effect[e].state \in {"absent", "cancelled_before_dispatch"}
              \/ db.effect[e].recorded}

WithoutRuns(db, gone) ==
    [op |-> [r \in Runs |-> IF r \in gone THEN "absent" ELSE db.op[r]],
     effect |-> [e \in Effects |->
                    IF RunOf[e] \in gone THEN NoEffect ELSE db.effect[e]]]

OpCount(db) == Cardinality({r \in Runs : db.op[r] # "absent"})
EffectCount(db) == Cardinality({e \in Effects : db.effect[e].state # "absent"})

\* What pruning may leave: the count limits take the oldest operations and the
\* byte limit may take more; which ones is left open.
Pruned(db) == {WithoutRuns(db, gone) : gone \in SUBSET Prunable(db)}

\* The effect as this process sees it: localUnknown.get(id) ?? durable.
Effective(e) == IF e \in localUnknown THEN LocalUnknown ELSE cache.effect[e]

----------------------------------------------------------------------------
(* Startup and crash.                                                      *)

Mutant_RestartEffect(e, record) ==
    IF record.state \in {"prepared", "dispatch_started"}
    THEN [state |-> "unknown", digest |-> "startup"]
    ELSE record
RestartEffect(e, record) ==
    CASE record.state = "prepared" ->
            [record EXCEPT !.state = "cancelled_before_dispatch",
                           !.digest = "startup"]
      [] record.state = "dispatch_started" ->
            [record EXCEPT !.state = IF e \in ReplaySafe THEN "interrupted"
                                                         ELSE "unknown",
                           !.digest = "startup"]
      [] OTHER -> record

Restarted(db) ==
    [op |-> [r \in Runs |-> IF db.op[r] = "running" THEN "interrupted"
                                                    ELSE db.op[r]],
     effect |-> [e \in Effects |-> RestartEffect(e, db.effect[e])]]

\* initialize(): load the file, settle what the last process left open, write
\* it back.  When the write fails, startup fails and the app stays down.
Initialize ==
    /\ app = "down"
    /\ \/ Published(Restarted(disk)) /\ app' = "starting"
       \/ Failed(Restarted(disk)) /\ app' = "down"
    /\ UNCHANGED <<localUnknown, harnessVars, recoveryVars, journalVars,
                   stage, ran>>

\* The end of startup: pending chat deletions first, then reconcileChats with
\* the chats still visible, before a renderer can ask for anything.
ReconcileChats ==
    /\ app = "starting"
    /\ \A c \in Chats : stage[c] # "deleting" /\ stage[c] # "erased"
    /\ LET orphans == {r \in Runs : stage[ChatOf[r]] = "gone"}
           db == WithoutRuns(cache, orphans)
       IN  \/ Published(db) /\ app' = "up"
           \/ Failed(db) /\ app' = "down"
    /\ UNCHANGED <<localUnknown, harnessVars, recoveryVars, journalVars,
                   stage, ran>>

\* The process stops: memory is lost, and the journal's open turn is rolled
\* back by recoverUncommittedTransaction when the journal is next opened.
Crash ==
    /\ app # "down"
    /\ app' = "down"
    /\ localUnknown' = {}
    /\ phase' = [r \in Runs |-> IF phase[r] = "idle" THEN "idle" ELSE "done"]
    /\ turn' = [r \in Runs |-> "none"]
    /\ aborted' = [r \in Runs |-> FALSE]
    /\ tool' = [e \in Effects |-> IF phase[RunOf[e]] = "idle" THEN "idle"
                                                              ELSE "settled"]
    /\ tracked' = [e \in Effects |-> "none"]
    /\ listed' = [r \in Runs |-> {}]
    /\ inFlight' = [e \in Effects |-> "none"]
    /\ suffix' = {}
    /\ quarantined' = {}
    /\ UNCHANGED <<disk, cache, kept, stage, ran, owed>>

----------------------------------------------------------------------------
(* A generation, before its run (llm-client.ts).                           *)

\* listEffectsNeedingRecoveryByChat, every lane of the chat.
Mutant_NeedingRecovery(c) ==
    {e \in Effects : /\ EffectChat(e) = c
                     /\ cache.effect[e].state \in Outcomes
                     /\ ~cache.effect[e].recorded}
NeedingRecovery(c) ==
    {e \in Effects : /\ EffectChat(e) = c
                     /\ Effective(e).state \in Outcomes
                     /\ ~Effective(e).recorded}

\* A run whose harness may still settle its tools.
Live(r) == phase[r] \in {"started", "active", "closing"}

\* Turn admission gives a chat one foreground generation at a time.
ChatBusy(c) ==
    \E r \in RunsOf(c) \cap Foreground : phase[r] \notin {"idle", "done"}

\* The journal is opened (refused while quarantined) and the effects that
\* need recovery are listed.  owed remembers every tool body entered by a run
\* that is over at this instant.
ListRecovery(r) ==
    LET c == ChatOf[r] IN
    /\ app = "up"
    /\ phase[r] = "idle" /\ r \in Foreground
    /\ stage[c] = "live" /\ c \notin quarantined /\ ~ChatBusy(c)
    /\ listed' = [listed EXCEPT ![r] = NeedingRecovery(c)]
    /\ owed' = [owed EXCEPT ![r] =
                   {e \in ran : EffectChat(e) = c /\ ~Live(RunOf[e])}]
    /\ phase' = [phase EXCEPT ![r] = "listed"]
    /\ UNCHANGED <<storeVars, app, turn, aborted, tool, tracked, inFlight,
                   journalVars, stage, ran>>

\* recordPiEffectRecoveryBoundary: one journal transaction outside any turn.
RecordBoundary(r) ==
    /\ app = "up" /\ phase[r] = "listed"
    /\ kept' = kept \cup listed[r]
    /\ phase' = [phase EXCEPT ![r] = "marking"]
    /\ UNCHANGED <<storeVars, app, turn, aborted, tool, tracked, recoveryVars,
                   suffix, quarantined, stage, ran>>

\* markRecoveryRecorded reads the local record when it is called ...
CallMark(r, e) ==
    /\ app = "up" /\ phase[r] = "marking" /\ e \in listed[r]
    /\ \A other \in listed[r] : inFlight[other] = "none"
    /\ inFlight' = [inFlight EXCEPT ![e] =
                       IF e \in localUnknown THEN "local" ELSE "durable"]
    /\ UNCHANGED <<storeVars, app, harnessVars, listed, owed, journalVars,
                   stage, ran>>

\* ... and the database when its turn in the mutation queue comes.
MarkedEffect(e) ==
    IF inFlight[e] = "local" THEN LocalUnknown ELSE cache.effect[e]

ApplyMark(r, e) ==
    LET effect == MarkedEffect(e)
        db == SetEffect(cache, e, [effect EXCEPT !.recorded = TRUE])
    IN
    /\ app = "up" /\ phase[r] = "marking" /\ e \in listed[r]
    /\ inFlight[e] # "none"
    /\ cache.effect[e].state # "absent"
    /\ effect.state \in Terminal
    /\ Published(db)
    /\ localUnknown' = localUnknown \ {e}
    /\ inFlight' = [inFlight EXCEPT ![e] = "none"]
    /\ listed' = [listed EXCEPT ![r] = listed[r] \ {e}]
    /\ UNCHANGED <<app, harnessVars, owed, journalVars, stage, ran>>

\* The boundary or a mark fails: the generation is abandoned before its run.
FailRecovery(r) ==
    /\ app = "up"
    /\ \/ phase[r] = "listed" /\ UNCHANGED storeVars
       \/ /\ phase[r] = "marking"
          /\ \E e \in listed[r] :
                /\ inFlight[e] # "none"
                /\ Failed(SetEffect(cache, e,
                              [MarkedEffect(e) EXCEPT !.recorded = TRUE]))
          /\ UNCHANGED localUnknown
    /\ phase' = [phase EXCEPT ![r] = "done"]
    /\ inFlight' = [e \in Effects |-> IF e \in listed[r] THEN "none"
                                                         ELSE inFlight[e]]
    /\ listed' = [listed EXCEPT ![r] = {}]
    /\ UNCHANGED <<app, turn, aborted, tool, tracked, owed, journalVars, stage,
                   ran>>

RecoveryDone(r) ==
    /\ app = "up" /\ phase[r] = "marking" /\ listed[r] = {}
    /\ phase' = [phase EXCEPT ![r] = "ready"]
    /\ UNCHANGED <<storeVars, app, turn, aborted, tool, tracked, recoveryVars,
                   journalVars, stage, ran>>

\* A child run has its own in-memory session and no recovery of its own.
BeginChild(r) ==
    /\ app = "up"
    /\ phase[r] = "idle" /\ r \notin Foreground /\ stage[ChatOf[r]] = "live"
    /\ phase' = [phase EXCEPT ![r] = "ready"]
    /\ UNCHANGED <<storeVars, app, turn, aborted, tool, tracked, recoveryVars,
                   journalVars, stage, ran>>

----------------------------------------------------------------------------
(* runManaged: the operation, its turn and its tools.                      *)

\* startEffectOperation.  On failure the run ends with no active operation.
StartOperation(r) ==
    /\ app = "up" /\ phase[r] = "ready"
    /\ \E db \in Pruned(cache) :
          LET started == SetOp(db, r, "running") IN
          \/ /\ OpCount(db) < MaxOperations
             /\ Published(started)
             /\ phase' = [phase EXCEPT ![r] = "started"]
          \/ /\ OpCount(db) < MaxOperations
             /\ Failed(started)
             /\ phase' = [phase EXCEPT ![r] = "done"]
    /\ UNCHANGED <<localUnknown, app, turn, aborted, tool, tracked,
                   recoveryVars, journalVars, stage, ran>>

\* Every terminal operation still holds unrecovered effects: no room.
RefuseOperation(r) ==
    /\ app = "up" /\ phase[r] = "ready"
    /\ \A db \in Pruned(cache) : OpCount(db) >= MaxOperations
    /\ phase' = [phase EXCEPT ![r] = "done"]
    /\ UNCHANGED <<storeVars, app, turn, aborted, tool, tracked, recoveryVars,
                   journalVars, stage, ran>>

\* beforeDurableTurn opens the visible-turn lease of a foreground run.
OpenTurn(r) ==
    /\ app = "up" /\ phase[r] = "started" /\ ~aborted[r]
    /\ phase' = [phase EXCEPT ![r] = "active"]
    /\ turn' = [turn EXCEPT ![r] = IF r \in Foreground THEN "open" ELSE "none"]
    /\ UNCHANGED <<storeVars, app, aborted, tool, tracked, recoveryVars,
                   journalVars, stage, ran>>

\* A user cancellation, an owner that goes away, or any host fault.
Abort(r) ==
    /\ app = "up" /\ phase[r] \in {"started", "active"} /\ ~aborted[r]
    /\ aborted' = [aborted EXCEPT ![r] = TRUE]
    /\ UNCHANGED <<storeVars, app, phase, turn, tool, tracked, recoveryVars,
                   journalVars, stage, ran>>

ActiveTool(e, step) ==
    /\ app = "up" /\ phase[RunOf[e]] = "active" /\ tool[e] = step

AbortRun(e) == aborted' = [aborted EXCEPT ![RunOf[e]] = TRUE]

\* The first half of prepareDurableEffect: store.prepareEffect.
PrepareEffect(e) ==
    /\ ActiveTool(e, "idle") /\ ~aborted[RunOf[e]]
    /\ \/ /\ cache.op[RunOf[e]] = "running"
          /\ \E db \in Pruned(cache) :
                LET prepared == SetEffect(db, e,
                                    [NoEffect EXCEPT !.state = "prepared"])
                IN  /\ EffectCount(db) < MaxEffects
                    /\ \/ /\ Published(prepared)
                          /\ tool' = [tool EXCEPT ![e] = "prepared"]
                          /\ tracked' = [tracked EXCEPT ![e] = "prepared"]
                          /\ UNCHANGED aborted
                       \/ /\ Failed(prepared)
                          /\ tool' = [tool EXCEPT ![e] = "settled"]
                          /\ AbortRun(e)
                          /\ UNCHANGED tracked
       \/ /\ \/ cache.op[RunOf[e]] # "running"
             \/ \A db \in Pruned(cache) : EffectCount(db) >= MaxEffects
          /\ tool' = [tool EXCEPT ![e] = "settled"]
          /\ AbortRun(e)
          /\ UNCHANGED <<disk, cache, tracked>>
    /\ UNCHANGED <<localUnknown, app, phase, turn, recoveryVars, journalVars,
                   stage, ran>>

\* transitionEffect: the call is accepted from "prepared" and idempotent.
Transition(e, to) ==
    IF cache.effect[e].state = "prepared"
    THEN SetEffect(cache, e,
             [cache.effect[e] EXCEPT
                 !.state = to,
                 !.digest = IF to = "cancelled_before_dispatch" THEN "explicit"
                                                                ELSE "none"])
    ELSE cache
TransitionAllowed(e, to) == cache.effect[e].state \in {"prepared", to}

\* The second half, after an abort: the tool is never entered.  A failed
\* cancellation leaves the effect prepared and tracked.
CancelPrepared(e) ==
    /\ ActiveTool(e, "prepared") /\ aborted[RunOf[e]]
    /\ LET db == Transition(e, "cancelled_before_dispatch") IN
       \/ /\ TransitionAllowed(e, "cancelled_before_dispatch")
          /\ Published(db)
          /\ tracked' = [tracked EXCEPT ![e] = "none"]
       \/ /\ TransitionAllowed(e, "cancelled_before_dispatch")
          /\ Failed(db)
          /\ UNCHANGED tracked
       \/ /\ ~TransitionAllowed(e, "cancelled_before_dispatch")
          /\ UNCHANGED <<disk, cache, tracked>>
    /\ tool' = [tool EXCEPT ![e] = "settled"]
    /\ UNCHANGED <<localUnknown, app, phase, turn, aborted, recoveryVars,
                   journalVars, stage, ran>>

\* The second half otherwise: dispatch evidence before the tool is entered.
Mutant_MarkDispatchStarted(e) ==
    /\ ActiveTool(e, "prepared") /\ ~aborted[RunOf[e]]
    /\ LET db == Transition(e, "dispatch_started") IN
       Published(db) \/ Failed(db)
    /\ tool' = [tool EXCEPT ![e] = "dispatched"]
    /\ tracked' = [tracked EXCEPT ![e] = "dispatch_started"]
    /\ UNCHANGED <<localUnknown, app, phase, turn, aborted, recoveryVars,
                   journalVars, stage, ran>>
MarkDispatchStarted(e) ==
    /\ ActiveTool(e, "prepared") /\ ~aborted[RunOf[e]]
    /\ LET db == Transition(e, "dispatch_started") IN
       \/ /\ TransitionAllowed(e, "dispatch_started")
          /\ Published(db)
          /\ tool' = [tool EXCEPT ![e] = "dispatched"]
          /\ tracked' = [tracked EXCEPT ![e] = "dispatch_started"]
          /\ UNCHANGED aborted
       \/ /\ \/ TransitionAllowed(e, "dispatch_started") /\ Failed(db)
             \/ /\ ~TransitionAllowed(e, "dispatch_started")
                /\ UNCHANGED <<disk, cache>>
          /\ tool' = [tool EXCEPT ![e] = "settled"]
          /\ AbortRun(e)
          /\ UNCHANGED tracked
    /\ UNCHANGED <<localUnknown, app, phase, turn, recoveryVars, journalVars,
                   stage, ran>>

\* The agent enters the tool, or drops the call after an abort.
EnterTool(e) ==
    /\ ActiveTool(e, "dispatched")
    /\ ran' = ran \cup {e}
    /\ tool' = [tool EXCEPT ![e] = "executed"]
    /\ UNCHANGED <<storeVars, app, phase, turn, aborted, tracked, recoveryVars,
                   journalVars, stage>>

DropTool(e) ==
    /\ ActiveTool(e, "dispatched") /\ aborted[RunOf[e]]
    /\ tool' = [tool EXCEPT ![e] = "settled"]
    /\ UNCHANGED <<storeVars, app, phase, turn, aborted, tracked, recoveryVars,
                   journalVars, stage, ran>>

\* store.finishEffect: accepted from dispatch_started, idempotent on the same
\* state and digest.  A publication that fails after the mutation leaves local
\* evidence of an unknown outcome; ok says whether the call succeeded.
Mutant_FinishEffect(e, state, ok) ==
    LET db == SetEffect(cache, e, [cache.effect[e] EXCEPT !.state = state,
                                                          !.digest = "outcome"])
    IN  \/ ok /\ Published(db) /\ localUnknown' = localUnknown \ {e}
        \/ ~ok /\ Failed(db) /\ localUnknown' = localUnknown \cup {e}
FinishEffect(e, state, ok) ==
    LET effect == cache.effect[e]
        finished == SetEffect(cache, e, [effect EXCEPT !.state = state,
                                                       !.digest = "outcome"])
        repeated == effect.state = state /\ effect.digest = "outcome"
    IN  \/ /\ ok /\ effect.state = "dispatch_started"
           /\ Published(finished)
           /\ localUnknown' = localUnknown \ {e}
        \/ /\ ~ok /\ effect.state = "dispatch_started"
           /\ Failed(finished)
           /\ localUnknown' = localUnknown \cup {e}
        \/ /\ ok /\ effect.state # "dispatch_started" /\ repeated
           /\ UNCHANGED <<disk, cache>>
           /\ localUnknown' = localUnknown \ {e}
        \/ /\ ~ok /\ effect.state # "dispatch_started"
           /\ UNCHANGED storeVars

\* afterToolCall: finishDurableEffect.
FinishTool(e) ==
    /\ ActiveTool(e, "executed") /\ tracked[e] = "dispatch_started"
    /\ \E state \in {"completed", "remote_error"} :
          \/ /\ FinishEffect(e, state, TRUE)
             /\ tracked' = [tracked EXCEPT ![e] = "none"]
             /\ UNCHANGED aborted
          \/ /\ FinishEffect(e, state, FALSE)
             /\ AbortRun(e)
             /\ UNCHANGED tracked
    /\ tool' = [tool EXCEPT ![e] = "finished"]
    /\ UNCHANGED <<app, phase, turn, recoveryVars, journalVars, stage, ran>>

\* message_end of the tool result: flushDurableMessages.  A failed append
\* makes the journal unhealthy and aborts the run.
AppendResult(e) ==
    LET r == RunOf[e] IN
    /\ ActiveTool(e, "finished")
    /\ \/ /\ suffix' = IF turn[r] = "open" THEN suffix \cup {e} ELSE suffix
          /\ UNCHANGED <<turn, aborted>>
       \/ /\ r \in Foreground
          /\ turn' = [turn EXCEPT ![r] = "broken"]
          /\ AbortRun(e)
          /\ UNCHANGED suffix
    /\ tool' = [tool EXCEPT ![e] = "settled"]
    /\ UNCHANGED <<storeVars, app, phase, tracked, recoveryVars, kept,
                   quarantined, stage, ran>>

----------------------------------------------------------------------------
(* finish(): finishEffectOperation settles what is still tracked, one by   *)
(* one, and then the operation, whatever failed on the way.                *)

Quiet(r) == \A e \in EffectsOf(r) : tool[e] \in {"idle", "settled"}

BeginFinish(r) ==
    /\ app = "up"
    /\ \/ phase[r] = "started" /\ aborted[r]
       \/ phase[r] = "active" /\ Quiet(r)
    /\ phase' = [phase EXCEPT ![r] = "closing"]
    /\ UNCHANGED <<storeVars, app, turn, aborted, tool, tracked, recoveryVars,
                   journalVars, stage, ran>>

\* The loop body never stops the loop: a failure is kept for later.
SettleTracked(e) ==
    LET r == RunOf[e]
        cancelled == Transition(e, "cancelled_before_dispatch") IN
    /\ app = "up" /\ phase[r] = "closing"
    /\ \/ /\ tracked[e] = "prepared"
          /\ \/ /\ TransitionAllowed(e, "cancelled_before_dispatch")
                /\ Published(cancelled) \/ Failed(cancelled)
             \/ /\ ~TransitionAllowed(e, "cancelled_before_dispatch")
                /\ UNCHANGED <<disk, cache>>
          /\ UNCHANGED localUnknown
       \/ /\ tracked[e] = "dispatch_started"
          /\ \E ok \in BOOLEAN :
                FinishEffect(e, IF e \in ReplaySafe THEN "interrupted"
                                                    ELSE "unknown", ok)
    /\ tracked' = [tracked EXCEPT ![e] = "none"]
    /\ UNCHANGED <<app, phase, turn, aborted, tool, recoveryVars, journalVars,
                   stage, ran>>

\* store.finishOperation: local unknown evidence of the operation becomes
\* durable with it; an unsettled effect refuses the whole mutation.
MergeLocal(r) ==
    [cache EXCEPT !.effect = [e \in Effects |->
        IF RunOf[e] = r /\ cache.effect[e].state # "absent"
        THEN Effective(e) ELSE cache.effect[e]]]

Mutant_Unsettled(r) == FALSE
Unsettled(r) ==
    \E e \in EffectsOf(r) :
        MergeLocal(r).effect[e].state \in {"prepared", "dispatch_started"}

FinishOperation(r) ==
    LET settled == SetOp(MergeLocal(r), r, "settled") IN
    /\ app = "up" /\ phase[r] = "closing"
    /\ \A e \in EffectsOf(r) : tracked[e] = "none"
    /\ \/ /\ cache.op[r] = "running" /\ ~Unsettled(r)
          /\ Published(settled)
          /\ localUnknown' = localUnknown \ EffectsOf(r)
       \/ /\ cache.op[r] = "running" /\ ~Unsettled(r)
          /\ Failed(settled)
          /\ UNCHANGED localUnknown
       \/ /\ cache.op[r] # "running" \/ Unsettled(r)
          /\ UNCHANGED storeVars
    /\ phase' = [phase EXCEPT ![r] = IF r \in Foreground THEN "closed"
                                                         ELSE "done"]
    /\ UNCHANGED <<app, turn, aborted, tool, tracked, recoveryVars,
                   journalVars, stage, ran>>

----------------------------------------------------------------------------
(* finalizePiTurnPersistence of a foreground run.                          *)

Own(r, set) == set \cap EffectsOf(r)

CommitTurn(r) ==
    /\ app = "up" /\ phase[r] = "closed" /\ turn[r] = "open"
    /\ kept' = kept \cup Own(r, suffix)
    /\ suffix' = suffix \ EffectsOf(r)
    /\ turn' = [turn EXCEPT ![r] = "none"]
    /\ phase' = [phase EXCEPT ![r] = "committed"]
    /\ UNCHANGED <<storeVars, app, aborted, tool, tracked, recoveryVars,
                   quarantined, stage, ran>>

\* acknowledgeChatEffectsDurable marks the chat's foreground outcomes; a
\* failure is only logged.
Acknowledged(c) ==
    [cache EXCEPT !.effect = [e \in Effects |->
        IF /\ EffectChat(e) = c /\ RunOf[e] \in Foreground
           /\ cache.effect[e].state \in Outcomes
        THEN [cache.effect[e] EXCEPT !.recorded = TRUE]
        ELSE cache.effect[e]]]

Acknowledge(r) ==
    /\ app = "up" /\ phase[r] = "committed"
    /\ Published(Acknowledged(ChatOf[r])) \/ Failed(Acknowledged(ChatOf[r]))
    /\ phase' = [phase EXCEPT ![r] = "done"]
    /\ UNCHANGED <<localUnknown, app, turn, aborted, tool, tracked,
                   recoveryVars, journalVars, stage, ran>>

\* Every other end of the turn rolls the lease back.  The results the harness
\* captured may then be appended again outside it, or the rollback fails and
\* the journal stays quarantined until a restart.
RollbackTurn(r) ==
    LET captured == {e \in EffectsOf(r) : e \in ran /\ tool[e] = "settled"} IN
    /\ app = "up" /\ phase[r] = "closed"
    /\ suffix' = suffix \ EffectsOf(r)
    /\ \/ kept' \in {kept, kept \cup captured} /\ UNCHANGED quarantined
       \/ quarantined' = quarantined \cup {ChatOf[r]} /\ UNCHANGED kept
    /\ turn' = [turn EXCEPT ![r] = "none"]
    /\ phase' = [phase EXCEPT ![r] = "done"]
    /\ UNCHANGED <<storeVars, app, aborted, tool, tracked, recoveryVars, stage,
                   ran>>

----------------------------------------------------------------------------
(* Chat deletion (handlers/chats.ts, and again at startup).                *)

\* The deletion intent is durable before effect evidence is touched, admission
\* is closed, and the chat's generations are stopped first.
BeginDelete(c) ==
    /\ app = "up" /\ stage[c] = "live" /\ ~ChatBusy(c)
    /\ \A r \in RunsOf(c) : phase[r] # "ready"
    /\ stage' = [stage EXCEPT ![c] = "deleting"]
    /\ aborted' = [r \in Runs |-> aborted[r] \/ (r \in RunsOf(c) /\ Live(r))]
    /\ UNCHANGED <<storeVars, app, phase, turn, tool, tracked, recoveryVars,
                   journalVars, ran>>

\* What store.deleteChat refuses: a running operation without local terminal
\* evidence, or any effect of the chat that is not settled.
Mutant_HoldsActiveEvidence(c) == FALSE
HoldsActiveEvidence(c) ==
    \/ \E r \in RunsOf(c) :
          /\ cache.op[r] = "running"
          /\ \A e \in EffectsOf(r) : e \notin localUnknown
    \/ \E e \in Effects :
          /\ EffectChat(e) = c
          /\ Effective(e).state \in {"prepared", "dispatch_started"}

DeleteEffects(c) ==
    LET db == WithoutRuns(cache, RunsOf(c)) IN
    /\ app \in {"starting", "up"} /\ stage[c] = "deleting"
    /\ ~HoldsActiveEvidence(c)
    /\ \/ /\ Published(db)
          /\ localUnknown' = {e \in localUnknown : EffectChat(e) # c}
          /\ stage' = [stage EXCEPT ![c] = "erased"]
       \/ Failed(db) /\ UNCHANGED <<localUnknown, stage>>
    /\ UNCHANGED <<app, harnessVars, recoveryVars, journalVars, ran>>

\* The journal, then the chat itself and the intent.
RemoveChat(c) ==
    /\ app \in {"starting", "up"} /\ stage[c] = "erased"
    /\ stage' = [stage EXCEPT ![c] = "gone"]
    /\ kept' = {e \in kept : EffectChat(e) # c}
    /\ UNCHANGED <<storeVars, app, harnessVars, recoveryVars, suffix,
                   quarantined, ran>>

----------------------------------------------------------------------------
RunStep(r) ==
    \/ ListRecovery(r) \/ RecordBoundary(r) \/ FailRecovery(r)
    \/ RecoveryDone(r) \/ BeginChild(r) \/ StartOperation(r)
    \/ RefuseOperation(r) \/ OpenTurn(r) \/ Abort(r) \/ BeginFinish(r)
    \/ FinishOperation(r) \/ CommitTurn(r) \/ Acknowledge(r) \/ RollbackTurn(r)
    \/ \E e \in Effects : CallMark(r, e)
    \/ \E e \in Effects : ApplyMark(r, e)

ToolStep(e) ==
    \/ PrepareEffect(e) \/ CancelPrepared(e) \/ MarkDispatchStarted(e)
    \/ EnterTool(e) \/ DropTool(e) \/ FinishTool(e) \/ AppendResult(e)
    \/ SettleTracked(e)

ChatStep(c) == BeginDelete(c) \/ DeleteEffects(c) \/ RemoveChat(c)

Next ==
    \/ Initialize \/ ReconcileChats \/ Crash
    \/ \E r \in Runs : RunStep(r)
    \/ \E e \in Effects : ToolStep(e)
    \/ \E c \in Chats : ChatStep(c)

Spec == Init /\ [][Next]_vars

----------------------------------------------------------------------------
(* Properties.                                                             *)

\* Nothing an effect did is forgotten: in a chat that is not being deleted, a
\* tool that was entered is either explained in the recovered Pi branch or has
\* evidence, on disk and in memory, that still asks for recovery.  Crashes,
\* failed writes, pruning, acknowledgement and recovery all rewrite it.
Evidence(db, e) ==
    \/ e \in kept
    \/ db.effect[e].state \in Dispatched /\ ~db.effect[e].recorded
NothingForgotten ==
    \A e \in ran : stage[EffectChat(e)] = "live" =>
        /\ Evidence(disk, e)
        /\ app # "down" => Evidence(cache, e)

\* No turn starts blind: when a foreground turn is open, its model was told of
\* every tool entered by a run of the chat that was over when the generation
\* listed what needs recovery (the promise of recordPiEffectRecoveryBoundary).
NoBlindTurn ==
    \A r \in Runs : phase[r] = "active" => owed[r] \subseteq kept

\* An operation is only reported over when each of its effects is: no settled
\* operation holds an effect that is still prepared or dispatched.
SettledOperation(db) ==
    \A e \in Effects :
        db.effect[e].state \in {"prepared", "dispatch_started"} =>
            db.op[RunOf[e]] = "running"
FinishedMeansSettled ==
    SettledOperation(disk) /\ (app # "down" => SettledOperation(cache))

\* A tool whose harness still has to settle it keeps its record: pruning and
\* chat deletion never take the evidence of a call that is under way.
LiveEvidenceKept ==
    \A e \in Effects :
        tool[e] \in {"prepared", "dispatched", "executed"} =>
            cache.effect[e].state \in {"prepared"} \cup Dispatched

\* What recovery has recorded is final: once an effect is marked recorded, its
\* record only ever disappears whole.  A late finishEffect of a child run, the
\* merge of local evidence by finishOperation and a restart all meet records
\* that a generation marked in the meantime.
RecoveredIsFinal ==
    [][\A e \in Effects : cache.effect[e].recorded =>
          cache'.effect[e] \in {cache.effect[e], NoEffect}]_vars
=============================================================================
