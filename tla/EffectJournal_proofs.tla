------------------------ MODULE EffectJournal_proofs ------------------------
(***************************************************************************)
(* Proofs about EffectJournal, for any sets of runs, effects and chats:    *)
(* its types, and that IInv holds at every step, from which its safety     *)
(* properties follow.  IInv has two halves: ControlInv is about runs,      *)
(* turns, calls and what a generation has explained; RecordInv is about    *)
(* the records of the database, in the file and in memory.                 *)
(***************************************************************************)
EXTENDS EffectJournal, TLAPS

----------------------------------------------------------------------------
(* ControlInv, in parts.                                                   *)

\* A call is under way only while its run is active; a tool was entered only
\* by a call that got there, and no call was made before the turn opened.
ToolControl ==
    \A e \in Effects :
        /\ tool[e] \in {"prepared", "dispatched", "executed", "finished"} =>
              phase[RunOf[e]] = "active"
        /\ e \in ran => tool[e] \in {"executed", "finished", "settled"}
        /\ phase[RunOf[e]] \in {"idle", "listed", "marking", "ready", "started"}
              => tool[e] = "idle"

\* Only a foreground run recovers, holds a turn and commits.
Lanes ==
    \A r \in Runs :
        /\ phase[r] \in {"listed", "marking", "closed", "committed"}
              => r \in Foreground
        /\ turn[r] = "open" => r \in Foreground
        /\ r \notin Foreground => owed[r] = {}

\* A chat has one foreground generation at a time, never while it is deleted.
Busy(r) == r \in Foreground /\ phase[r] \notin {"idle", "done"}
OneGeneration ==
    /\ \A r, s \in Runs : Busy(r) /\ Busy(s) /\ ChatOf[r] = ChatOf[s] => r = s
    /\ \A r \in Runs : Busy(r) => stage[ChatOf[r]] = "live"

\* Outside "up" no run is under way and no local evidence exists.
Resting ==
    app # "up" => /\ localUnknown = {}
                  /\ \A r \in Runs : phase[r] \in {"idle", "done"}

\* What a generation lists belongs to its chat and is explained before a mark.
ListedKept ==
    \A r \in Runs :
        /\ listed[r] \subseteq {e \in Effects : EffectChat(e) = ChatOf[r]}
        /\ listed[r] # {} => phase[r] \in {"listed", "marking"}
        /\ phase[r] = "marking" => listed[r] \subseteq kept

\* A mark is in flight only for an effect that is still listed.
InFlightListed ==
    \A e \in Effects :
        inFlight[e] # "none" => \E r \in Runs : e \in listed[r]

\* A result of an open turn is in the journal once its call is settled.
OpenTurnKeepsResults ==
    \A r \in Runs :
        turn[r] = "open" =>
            /\ phase[r] \in {"active", "closing", "closed"}
            /\ \A e \in ran : RunOf[e] = r /\ tool[e] = "settled" => e \in suffix

Recovered == {"marking", "ready", "started", "active", "closing", "closed",
              "committed"}

\* What the model of a run must have been told: the effects of its chat that
\* were over when it listed them are explained from its boundary on.
OwedExplained ==
    \A r \in Runs :
        /\ owed[r] \subseteq {e \in Effects : EffectChat(e) = ChatOf[r]}
        /\ phase[r] = "listed" => owed[r] \subseteq kept \cup listed[r]
        /\ phase[r] \in Recovered => owed[r] \subseteq kept

\* A generation past its boundary has explained the other foreground effects
\* of its chat; one past its commit has explained its own as well.
Explained ==
    \A r \in Foreground, e \in ran :
        RunOf[e] \in Foreground /\ EffectChat(e) = ChatOf[r] =>
            /\ phase[r] = "listed" /\ RunOf[e] # r => e \in kept \cup listed[r]
            /\ phase[r] \in Recovered /\ RunOf[e] # r => e \in kept
            /\ phase[r] = "committed" => e \in kept

ControlInv ==
    /\ ToolControl
    /\ Lanes
    /\ OneGeneration
    /\ Resting
    /\ ListedKept
    /\ InFlightListed
    /\ OpenTurnKeepsResults
    /\ OwedExplained
    /\ Explained

----------------------------------------------------------------------------
(* RecordInv, in parts.                                                    *)

\* A database without a record of a call that was not made, in which a
\* recorded effect is over, and so are all effects of a settled operation.
SoundDatabase(db) ==
    /\ \A e \in Effects : tool[e] = "idle" => db.effect[e] = NoEffect
    /\ \A e \in Effects : db.effect[e].recorded => db.effect[e].state \in Terminal
    /\ SettledOperation(db)

\* The file may be ahead of the cache, but not where the cache is final.
Follows(db) ==
    \A e \in Effects : cache.effect[e].recorded =>
        db.effect[e] \in {cache.effect[e], NoEffect}

\* NothingForgotten, extended to the calls about to enter their tool.
Entered == ran \cup {e \in Effects : tool[e] = "dispatched"}
Remembers(db) ==
    \A e \in Entered : stage[EffectChat(e)] = "live" => Evidence(db, e)

\* Local evidence stands for a dispatched record whose outcome failed to write.
LocalIsDispatched ==
    \A e \in localUnknown : cache.effect[e].state = "dispatch_started"

\* Any other dispatched record is still tracked by the harness of its run.
DispatchedIsTracked ==
    app # "down" =>
        \A e \in Effects :
            cache.effect[e].state = "dispatch_started" /\ e \notin localUnknown
                => /\ tracked[e] = "dispatch_started"
                   /\ phase[RunOf[e]] \in {"active", "closing"}

\* The record of a call that is under way says how far it got.
CallHasRecord ==
    \A e \in Effects :
        /\ tool[e] = "prepared" => cache.effect[e].state = "prepared"
        /\ tool[e] \in {"dispatched", "executed"} =>
              cache.effect[e].state = "dispatch_started" /\ e \notin localUnknown

\* What is listed for recovery is over and unrecorded until it is marked, and
\* a mark that started from the database finds the record it saw.
ListedIsOver ==
    \A e \in Effects :
        /\ (\E r \in Runs : e \in listed[r]) =>
              Effective(e).state \in Outcomes /\ ~Effective(e).recorded
        /\ inFlight[e] = "durable" => e \notin localUnknown

RecordInv ==
    /\ SoundDatabase(disk) /\ Follows(disk) /\ Remembers(disk)
    /\ app # "down" => SoundDatabase(cache) /\ Remembers(cache)
    /\ LocalIsDispatched
    /\ DispatchedIsTracked
    /\ CallHasRecord
    /\ ListedIsOver

IInv == TypeOK /\ ControlInv /\ RecordInv

(* The store's rewrites of the database keep its type.                     *)

\* Setting one operation or one effect of a database gives a database that
\* differs there only (startOperation, transitionEffect, finishEffect).
LEMMA SetOpType ==
    ASSUME NEW db \in Database, NEW r \in Runs, NEW state \in OpStates
    PROVE  /\ SetOp(db, r, state) \in Database
           /\ SetOp(db, r, state).effect = db.effect
           /\ SetOp(db, r, state).op = [db.op EXCEPT ![r] = state]
BY DEF SetOp, Database

\* One effect of a database is rewritten.
LEMMA SetEffectType ==
    ASSUME NEW db \in Database, NEW e \in Effects,
           NEW record \in EffectRecord
    PROVE  /\ SetEffect(db, e, record) \in Database
           /\ SetEffect(db, e, record).op = db.op
           /\ SetEffect(db, e, record).effect =
                 [db.effect EXCEPT ![e] = record]
BY DEF SetEffect, Database

\* Removing runs gives a database without them (pruning and deletion).
LEMMA WithoutRunsType ==
    ASSUME NEW db \in Database, NEW gone
    PROVE  WithoutRuns(db, gone) \in Database
BY DEF WithoutRuns, Database, EffectRecord, NoEffect, OpStates, EffectStates,
       Terminal, Outcomes, Digests

\* What initialize makes of the file.
LEMMA RestartedType ==
    ASSUME NEW db \in Database
    PROVE  Restarted(db) \in Database
<1>1. ASSUME NEW e \in Effects
      PROVE  RestartEffect(e, db.effect[e]) \in EffectRecord
  <2>1. db.effect[e] \in EffectRecord
    BY DEF Database
  <2>2. CASE db.effect[e].state = "prepared"
    BY <2>1, <2>2 DEF RestartEffect, EffectRecord, EffectStates, Terminal, Outcomes,
                      Digests
  <2>3. CASE db.effect[e].state = "dispatch_started"
    BY <2>1, <2>3 DEF RestartEffect, EffectRecord, EffectStates, Terminal, Outcomes,
                      Digests
  <2>4. CASE db.effect[e].state \notin {"prepared", "dispatch_started"}
    BY <2>1, <2>4 DEF RestartEffect
  <2>5. QED
    BY <2>2, <2>3, <2>4
<1>2. QED
  BY <1>1 DEF Restarted, Database, OpStates

\* The record kept for a failed publication.
LEMMA LocalUnknownType == LocalUnknown \in EffectRecord
BY DEF LocalUnknown, EffectRecord, EffectStates, Terminal, Outcomes, Digests

\* Replacing all effects at once (finishOperation and acknowledgement).
LEMMA EffectMapType ==
    ASSUME NEW db \in Database, NEW f \in [Effects -> EffectRecord]
    PROVE  /\ [db EXCEPT !.effect = f] \in Database
           /\ [db EXCEPT !.effect = f].op = db.op
           /\ [db EXCEPT !.effect = f].effect = f
BY DEF Database

\* A journal with the local evidence merged in.
LEMMA MergeLocalType ==
    ASSUME TypeOK, NEW r \in Runs
    PROVE  /\ MergeLocal(r) \in Database
           /\ MergeLocal(r).op = cache.op
           /\ MergeLocal(r).effect = [e \in Effects |->
                  IF RunOf[e] = r /\ cache.effect[e].state # "absent"
                  THEN Effective(e) ELSE cache.effect[e]]
<1> DEFINE f == [e \in Effects |->
                    IF RunOf[e] = r /\ cache.effect[e].state # "absent"
                    THEN Effective(e) ELSE cache.effect[e]]
<1>1. f \in [Effects -> EffectRecord]
  BY LocalUnknownType DEF Effective, TypeOK, Database
<1> HIDE DEF f
<1>2. cache \in Database
  BY DEF TypeOK
<1>3. /\ [cache EXCEPT !.effect = f] \in Database
      /\ [cache EXCEPT !.effect = f].op = cache.op
      /\ [cache EXCEPT !.effect = f].effect = f
  BY <1>1, <1>2, EffectMapType
<1>4. QED
  BY <1>3 DEF MergeLocal, f

\* What acknowledgeChatEffectsDurable leaves.
LEMMA AcknowledgedType ==
    ASSUME TypeOK, NEW c \in Chats
    PROVE  /\ Acknowledged(c) \in Database
           /\ Acknowledged(c).op = cache.op
           /\ Acknowledged(c).effect = [e \in Effects |->
                  IF /\ EffectChat(e) = c /\ RunOf[e] \in Foreground
                     /\ cache.effect[e].state \in Outcomes
                  THEN [cache.effect[e] EXCEPT !.recorded = TRUE]
                  ELSE cache.effect[e]]
<1> DEFINE f == [e \in Effects |->
                  IF /\ EffectChat(e) = c /\ RunOf[e] \in Foreground
                     /\ cache.effect[e].state \in Outcomes
                  THEN [cache.effect[e] EXCEPT !.recorded = TRUE]
                  ELSE cache.effect[e]]
<1>1. f \in [Effects -> EffectRecord]
  <2>1. ASSUME NEW record \in EffectRecord
        PROVE  [record EXCEPT !.recorded = TRUE] \in EffectRecord
    BY DEF EffectRecord
  <2>2. QED
    BY <2>1 DEF TypeOK, Database
<1> HIDE DEF f
<1>2. cache \in Database
  BY DEF TypeOK
<1>3. /\ [cache EXCEPT !.effect = f] \in Database
      /\ [cache EXCEPT !.effect = f].op = cache.op
      /\ [cache EXCEPT !.effect = f].effect = f
  BY <1>1, <1>2, EffectMapType
<1>4. QED
  BY <1>3 DEF Acknowledged, f

\* A legal change of an effect.
LEMMA TransitionType ==
    ASSUME TypeOK, NEW e \in Effects,
           NEW to \in {"dispatch_started", "cancelled_before_dispatch"}
    PROVE  Transition(e, to) \in Database
<1>1. ASSUME NEW record \in EffectRecord, NEW digest \in Digests
      PROVE  [record EXCEPT !.state = to, !.digest = digest] \in EffectRecord
  BY DEF EffectRecord, EffectStates, Terminal, Outcomes
<1>2. cache \in Database /\ cache.effect[e] \in EffectRecord
  BY DEF TypeOK, Database
<1>3. (IF to = "cancelled_before_dispatch" THEN "explicit" ELSE "none") \in Digests
  BY DEF Digests
<1>4. QED
  BY <1>1, <1>2, <1>3, SetEffectType DEF Transition

\* Whatever a publication does, the file and the cache keep their type.
LEMMA WriteType ==
    ASSUME TypeOK, NEW db \in Database, Published(db) \/ Failed(db)
    PROVE  disk' \in Database /\ cache' \in Database
BY DEF TypeOK, Published, Failed

\* What pruning leaves.
LEMMA PrunedType ==
    ASSUME TypeOK, NEW db \in Pruned(cache)
    PROVE  db \in Database
BY WithoutRunsType DEF TypeOK, Pruned

\* What finishEffect records.
LEMMA FinishEffectType ==
    ASSUME TypeOK, NEW e \in Effects, NEW state \in Outcomes,
           NEW ok \in BOOLEAN, FinishEffect(e, state, ok)
    PROVE  /\ disk' \in Database /\ cache' \in Database
           /\ localUnknown' \subseteq Effects
<1>1. ASSUME NEW record \in EffectRecord
      PROVE  [record EXCEPT !.state = state, !.digest = "outcome"]
               \in EffectRecord
  BY DEF EffectRecord, EffectStates, Terminal, Digests
<1>2. cache \in Database /\ cache.effect[e] \in EffectRecord
  BY DEF TypeOK, Database
<1>3. SetEffect(cache, e, [cache.effect[e] EXCEPT !.state = state,
                                                  !.digest = "outcome"])
        \in Database
  BY <1>1, <1>2, SetEffectType
<1>4. QED
  BY <1>2, <1>3, WriteType DEF FinishEffect, TypeOK, storeVars

\* What markRecoveryRecorded records.
LEMMA MarkType ==
    ASSUME TypeOK, NEW e \in Effects
    PROVE  /\ MarkedEffect(e) \in EffectRecord
           /\ [MarkedEffect(e) EXCEPT !.recorded = TRUE] \in EffectRecord
           /\ SetEffect(cache, e, [MarkedEffect(e) EXCEPT !.recorded = TRUE])
                 \in Database
<1>1. MarkedEffect(e) \in EffectRecord
  BY LocalUnknownType DEF MarkedEffect, TypeOK, Database
<1>2. ASSUME NEW record \in EffectRecord
      PROVE  [record EXCEPT !.recorded = TRUE] \in EffectRecord
  BY DEF EffectRecord
<1>3. cache \in Database
  BY DEF TypeOK
<1>4. QED
  BY <1>1, <1>2, <1>3, SetEffectType

----------------------------------------------------------------------------
(* Every variable keeps its type.                                          *)

\* The types hold at first.
LEMMA InitType == Init => TypeOK
<1>1. NoEffect \in EffectRecord
  BY DEF NoEffect, EffectRecord, EffectStates, Digests
<1>2. EmptyDatabase \in Database
  BY <1>1 DEF EmptyDatabase, Database, OpStates
<1>3. QED
  BY <1>2 DEF Init, TypeOK, Phases, ToolSteps

\* Every action keeps the types.
LEMMA TypeStep == TypeOK /\ [Next]_vars => TypeOK'
<1> SUFFICES ASSUME TypeOK, [Next]_vars
             PROVE  TypeOK'
  OBVIOUS
<1> USE EffectJournalAssumption
<1>1. CASE Initialize
  <2>1. Restarted(disk) \in Database
    BY RestartedType DEF TypeOK
  <2>2. disk' \in Database /\ cache' \in Database
    BY <1>1, <2>1, WriteType DEF Initialize
  <2>3. QED
    BY <1>1, <2>2 DEF Initialize, TypeOK, harnessVars, recoveryVars, journalVars
<1>2. CASE ReconcileChats
  <2>1. WithoutRuns(cache, {r \in Runs : stage[ChatOf[r]] = "gone"})
          \in Database
    BY WithoutRunsType DEF TypeOK
  <2>2. disk' \in Database /\ cache' \in Database
    BY <1>2, <2>1, WriteType DEF ReconcileChats
  <2>3. QED
    BY <1>2, <2>2 DEF ReconcileChats, TypeOK, harnessVars, recoveryVars,
                      journalVars
<1>3. CASE Crash
  BY <1>3 DEF Crash, TypeOK, Phases, ToolSteps
<1>4. ASSUME NEW r \in Runs, RunStep(r)
      PROVE  TypeOK'
  <2>1. CASE ListRecovery(r) \/ RecordBoundary(r)
    <3>1. CASE ListRecovery(r)
      BY <3>1
      DEF ListRecovery, NeedingRecovery, TypeOK, Phases, storeVars,
          journalVars, recoveryVars
    <3>2. CASE RecordBoundary(r)
      BY <3>2
      DEF RecordBoundary, NeedingRecovery, TypeOK, Phases, storeVars,
          journalVars, recoveryVars
    <3>3. QED
      BY <2>1, <3>1, <3>2
  <2>2. CASE FailRecovery(r)
    <3>1. disk' \in Database /\ cache' \in Database
      BY <2>2, MarkType, WriteType DEF FailRecovery, TypeOK, storeVars
    <3>2. localUnknown' = localUnknown
      BY <2>2 DEF FailRecovery, storeVars
    <3>3. QED
      BY <2>2, <3>1, <3>2 DEF FailRecovery, TypeOK, Phases, journalVars
  <2>3. CASE RecoveryDone(r) \/ BeginChild(r) \/ RefuseOperation(r)
             \/ OpenTurn(r) \/ Abort(r) \/ BeginFinish(r)
    <3>1. CASE RecoveryDone(r) \/ BeginChild(r)
      BY <3>1 DEF RecoveryDone, BeginChild, TypeOK, Phases, storeVars,
                  journalVars, recoveryVars
    <3>2. CASE RefuseOperation(r) \/ OpenTurn(r)
      BY <3>2 DEF RefuseOperation, OpenTurn, TypeOK, Phases, storeVars,
                  journalVars, recoveryVars
    <3>3. CASE Abort(r) \/ BeginFinish(r)
      <4>1. CASE Abort(r)
        BY <4>1
        DEF Abort, TypeOK, Phases, storeVars, journalVars, recoveryVars
      <4>2. CASE BeginFinish(r)
        BY <4>2
        DEF BeginFinish, TypeOK, Phases, storeVars, journalVars,
            recoveryVars
      <4>3. QED
        BY <3>3, <4>1, <4>2
    <3>4. QED
      BY <2>3, <3>1, <3>2, <3>3
  <2>4. CASE StartOperation(r)
    <3>1. PICK db \in Pruned(cache) :
             Published(SetOp(db, r, "running")) \/ Failed(SetOp(db, r, "running"))
      BY <2>4 DEF StartOperation
    <3>2. SetOp(db, r, "running") \in Database
      BY PrunedType, SetOpType DEF OpStates
    <3>3. disk' \in Database /\ cache' \in Database
      BY <3>1, <3>2, WriteType
    <3>4. QED
      BY <2>4, <3>3 DEF StartOperation, TypeOK, Phases, journalVars,
                        recoveryVars
  <2>5. CASE FinishOperation(r)
    <3>1. SetOp(MergeLocal(r), r, "settled") \in Database
      BY MergeLocalType, SetOpType DEF OpStates
    <3>2. disk' \in Database /\ cache' \in Database
      BY <2>5, <3>1, WriteType DEF FinishOperation, TypeOK, storeVars
    <3>3. QED
      BY <2>5, <3>2 DEF FinishOperation, TypeOK, Phases, journalVars,
                        recoveryVars, storeVars
  <2>6. CASE CommitTurn(r) \/ RollbackTurn(r)
    BY <2>6 DEF CommitTurn, RollbackTurn, Own, TypeOK, Phases, storeVars,
                recoveryVars
  <2>7. CASE Acknowledge(r)
    <3>1. Acknowledged(ChatOf[r]) \in Database
      BY AcknowledgedType
    <3>2. disk' \in Database /\ cache' \in Database
      BY <2>7, <3>1, WriteType DEF Acknowledge
    <3>3. QED
      BY <2>7, <3>2 DEF Acknowledge, TypeOK, Phases, journalVars, recoveryVars
  <2>8. ASSUME NEW e \in Effects, CallMark(r, e)
        PROVE  TypeOK'
    BY <2>8 DEF CallMark, TypeOK, storeVars, harnessVars, journalVars
  <2>9. ASSUME NEW e \in Effects, ApplyMark(r, e)
        PROVE  TypeOK'
    <3>1. disk' \in Database /\ cache' \in Database
      BY <2>9, MarkType, WriteType DEF ApplyMark
    <3>2. QED
      BY <2>9, <3>1 DEF ApplyMark, TypeOK, harnessVars, journalVars
  <2>10. QED
    BY <1>4, <2>1, <2>2, <2>3, <2>4, <2>5, <2>6, <2>7, <2>8, <2>9 DEF RunStep
<1>5. ASSUME NEW e \in Effects, ToolStep(e)
      PROVE  TypeOK'
  <2>1. CASE PrepareEffect(e)
    <3>1. [NoEffect EXCEPT !.state = "prepared"] \in EffectRecord
      BY DEF NoEffect, EffectRecord, EffectStates, Digests
    <3>2. disk' \in Database /\ cache' \in Database
      BY <2>1, <3>1, PrunedType, SetEffectType, WriteType
      DEF PrepareEffect, TypeOK
    <3>3. /\ \/ tool' = [tool EXCEPT ![e] = "prepared"]
             \/ tool' = [tool EXCEPT ![e] = "settled"]
          /\ tracked' \in {tracked, [tracked EXCEPT ![e] = "prepared"]}
          /\ aborted' = aborted \/ AbortRun(e)
      BY <2>1 DEF PrepareEffect
    <3>4. UNCHANGED <<localUnknown, app, phase, turn, recoveryVars, journalVars,
                      stage, ran>>
      BY <2>1 DEF PrepareEffect
    <3>5. /\ tool' \in [Effects -> ToolSteps]
          /\ tracked' \in [Effects -> {"none", "prepared", "dispatch_started"}]
          /\ aborted' \in [Runs -> BOOLEAN]
      <4>1. tool' \in [Effects -> ToolSteps]
        BY <3>3 DEF TypeOK, ToolSteps
      <4>2. tracked' \in [Effects -> {"none", "prepared", "dispatch_started"}]
        BY <3>3 DEF TypeOK
      <4>3. aborted' \in [Runs -> BOOLEAN]
        BY <3>3 DEF AbortRun, TypeOK
      <4>4. QED
        BY <4>1, <4>2, <4>3
    <3>6. QED
      BY <3>2, <3>4, <3>5 DEF TypeOK, journalVars, recoveryVars
  <2>2. CASE CancelPrepared(e)
    <3>1. disk' \in Database /\ cache' \in Database
      BY <2>2, TransitionType, WriteType DEF CancelPrepared, TypeOK
    <3>2. QED
      BY <2>2, <3>1 DEF CancelPrepared, TypeOK, ToolSteps, journalVars,
                        recoveryVars
  <2>3. CASE MarkDispatchStarted(e)
    <3>1. disk' \in Database /\ cache' \in Database
      BY <2>3, TransitionType, WriteType DEF MarkDispatchStarted, TypeOK
    <3>2. /\ tool' \in {[tool EXCEPT ![e] = "dispatched"], [tool EXCEPT ![e] = "settled"]}
          /\ tracked' \in {tracked, [tracked EXCEPT ![e] = "dispatch_started"]}
          /\ aborted' = aborted \/ AbortRun(e)
          /\ UNCHANGED <<localUnknown, app, phase, turn, recoveryVars, journalVars,
                         stage, ran>>
      BY <2>3 DEF MarkDispatchStarted
    <3>3. tool' \in [Effects -> ToolSteps]
      BY <3>2 DEF TypeOK, ToolSteps
    <3>4. tracked' \in [Effects -> {"none", "prepared", "dispatch_started"}]
      BY <3>2 DEF TypeOK
    <3>5. aborted' \in [Runs -> BOOLEAN]
      BY <3>2 DEF AbortRun, TypeOK
    <3>6. QED
      BY <3>1, <3>2, <3>3, <3>4, <3>5 DEF TypeOK, journalVars, recoveryVars
  <2>4. CASE EnterTool(e) \/ DropTool(e)
    BY <2>4 DEF EnterTool, DropTool, TypeOK, ToolSteps, storeVars, journalVars,
                recoveryVars
  <2>5. CASE FinishTool(e)
    <3>1. /\ disk' \in Database /\ cache' \in Database
          /\ localUnknown' \subseteq Effects
      BY <2>5, FinishEffectType DEF FinishTool, Outcomes
    <3>2. /\ tool' = [tool EXCEPT ![e] = "finished"]
          /\ tracked' \in {tracked, [tracked EXCEPT ![e] = "none"]}
          /\ aborted' = aborted \/ AbortRun(e)
          /\ UNCHANGED <<app, phase, turn, recoveryVars, journalVars, stage, ran>>
      BY <2>5 DEF FinishTool
    <3>3. /\ tool' \in [Effects -> ToolSteps]
          /\ tracked' \in [Effects -> {"none", "prepared", "dispatch_started"}]
          /\ aborted' \in [Runs -> BOOLEAN]
      <4>1. tool' \in [Effects -> ToolSteps]
        BY <3>2 DEF TypeOK, ToolSteps
      <4>2. tracked' \in [Effects -> {"none", "prepared", "dispatch_started"}]
        BY <3>2 DEF TypeOK
      <4>3. aborted' \in [Runs -> BOOLEAN]
        BY <3>2 DEF AbortRun, TypeOK
      <4>4. QED
        BY <4>1, <4>2, <4>3
    <3>4. QED
      BY <3>1, <3>2, <3>3 DEF TypeOK, journalVars, recoveryVars
  <2>6. CASE AppendResult(e)
    <3>1. /\ tool' \in [Effects -> ToolSteps]
          /\ turn' \in [Runs -> {"none", "open", "broken"}]
          /\ aborted' \in [Runs -> BOOLEAN]
          /\ suffix' \subseteq Effects
      <4>1. /\ suffix' \in {suffix, suffix \cup {e}}
            /\ turn' \in {turn, [turn EXCEPT ![RunOf[e]] = "broken"]}
            /\ aborted' = aborted \/ AbortRun(e)
            /\ tool' = [tool EXCEPT ![e] = "settled"]
        BY <2>6 DEF AppendResult
      <4>2. tool' \in [Effects -> ToolSteps] /\ suffix' \subseteq Effects
        BY <4>1 DEF TypeOK, ToolSteps
      <4>3. turn' \in [Runs -> {"none", "open", "broken"}]
        BY <4>1 DEF TypeOK
      <4>4. aborted' \in [Runs -> BOOLEAN]
        BY <4>1 DEF AbortRun, TypeOK
      <4>5. QED
        BY <4>2, <4>3, <4>4
    <3>2. UNCHANGED <<storeVars, app, phase, tracked, recoveryVars, kept,
                      quarantined, stage, ran>>
      BY <2>6 DEF AppendResult
    <3>3. QED
      BY <3>1, <3>2 DEF TypeOK, storeVars, recoveryVars
  <2>7. CASE SettleTracked(e)
    <3>1. /\ disk' \in Database /\ cache' \in Database
          /\ localUnknown' \subseteq Effects
      BY <2>7, FinishEffectType, TransitionType, WriteType
      DEF SettleTracked, Outcomes, TypeOK
    <3>2. QED
      BY <2>7, <3>1 DEF SettleTracked, TypeOK, journalVars, recoveryVars
  <2>8. QED
    BY <1>5, <2>1, <2>2, <2>3, <2>4, <2>5, <2>6, <2>7 DEF ToolStep
<1>6. ASSUME NEW c \in Chats, ChatStep(c)
      PROVE  TypeOK'
  <2>1. CASE BeginDelete(c)
    BY <2>1 DEF BeginDelete, Live, TypeOK, storeVars, journalVars, recoveryVars
  <2>3. CASE RemoveChat(c)
    BY <2>3 DEF RemoveChat, TypeOK, storeVars, harnessVars, recoveryVars
  <2>2. CASE DeleteEffects(c)
    <3>1. WithoutRuns(cache, RunsOf(c)) \in Database
      BY WithoutRunsType DEF TypeOK
    <3>2. disk' \in Database /\ cache' \in Database
      BY <2>2, <3>1, WriteType DEF DeleteEffects
    <3>3. QED
      BY <2>2, <3>2 DEF DeleteEffects, TypeOK, harnessVars, journalVars,
                        recoveryVars
  <2>4. QED
    BY <1>6, <2>1, <2>2, <2>3 DEF ChatStep
<1>7. CASE UNCHANGED vars
  BY <1>7 DEF vars, TypeOK, storeVars, harnessVars, journalVars, recoveryVars
<1>8. QED
  BY <1>1, <1>2, <1>3, <1>4, <1>5, <1>6, <1>7 DEF Next

----------------------------------------------------------------------------
(* What the store's rewrites make of each record.                          *)

\* RecoveredIsFinal, of one step.
Final ==
    \A e \in Effects : cache.effect[e].recorded =>
        cache'.effect[e] \in {cache.effect[e], NoEffect}

\* Removing runs removes their records whole and leaves the others.
LEMMA WithoutRunsValue ==
    ASSUME NEW db \in Database, NEW gone
    PROVE  /\ \A r \in Runs : WithoutRuns(db, gone).op[r] =
                  IF r \in gone THEN "absent" ELSE db.op[r]
           /\ \A e \in Effects : WithoutRuns(db, gone).effect[e] =
                  IF RunOf[e] \in gone THEN NoEffect ELSE db.effect[e]
BY DEF WithoutRuns

\* Pruning only takes records that are not there, cancelled or recorded, and
\* every other operation stays as it was.
LEMMA PrunedValue ==
    ASSUME TypeOK, NEW db \in Pruned(cache)
    PROVE  /\ \A e \in Effects :
                 \/ db.effect[e] = cache.effect[e]
                    /\ db.op[RunOf[e]] = cache.op[RunOf[e]]
                 \/ /\ db.effect[e] = NoEffect
                    /\ cache.op[RunOf[e]] \in OpTerminal
                    /\ \/ cache.effect[e].state
                              \in {"absent", "cancelled_before_dispatch"}
                       \/ cache.effect[e].recorded
<1> USE EffectJournalAssumption
<1>1. PICK gone \in SUBSET Prunable(cache) : db = WithoutRuns(cache, gone)
  BY DEF Pruned
<1>2. QED
  BY <1>1, WithoutRunsValue DEF TypeOK, Prunable, EffectsOf

\* Rewriting one record leaves the others.
LEMMA SetEffectValue ==
    ASSUME NEW db \in Database, NEW e \in Effects, NEW record \in EffectRecord
    PROVE  /\ SetEffect(db, e, record) \in Database
           /\ SetEffect(db, e, record).op = db.op
           /\ SetEffect(db, e, record).effect[e] = record
           /\ \A x \in Effects : x # e =>
                 SetEffect(db, e, record).effect[x] = db.effect[x]
<1>1. db.effect \in [Effects -> EffectRecord]
  BY DEF Database
<1> DEFINE written == SetEffect(db, e, record)
<1>2. /\ written \in Database
      /\ written.op = db.op
      /\ written.effect = [db.effect EXCEPT ![e] = record]
  BY SetEffectType
<1> HIDE DEF written
<1>3. /\ written.effect[e] = record
      /\ \A x \in Effects : x # e => written.effect[x] = db.effect[x]
  BY <1>1, <1>2
<1>4. QED
  BY <1>2, <1>3 DEF written

\* A transition rewrites a prepared record, and nothing else.
LEMMA TransitionValue ==
    ASSUME TypeOK, NEW e \in Effects,
           NEW to \in {"dispatch_started", "cancelled_before_dispatch"}
    PROVE  /\ Transition(e, to).op = cache.op
           /\ \A x \in Effects : x # e =>
                 Transition(e, to).effect[x] = cache.effect[x]
           /\ cache.effect[e].state = "prepared" =>
                 /\ Transition(e, to).effect[e].state = to
                 /\ Transition(e, to).effect[e].recorded
                        = cache.effect[e].recorded
           /\ cache.effect[e].state # "prepared" => Transition(e, to) = cache
<1>1. cache \in Database /\ cache.effect[e] \in EffectRecord
  BY DEF TypeOK, Database
<1>2. ASSUME NEW digest \in Digests
      PROVE  /\ [cache.effect[e] EXCEPT !.state = to, !.digest = digest]
                    \in EffectRecord
             /\ [cache.effect[e] EXCEPT !.state = to, !.digest = digest].state = to
             /\ [cache.effect[e] EXCEPT !.state = to, !.digest = digest].recorded
                    = cache.effect[e].recorded
  BY <1>1 DEF EffectRecord, EffectStates, Terminal, Outcomes
<1>3. (IF to = "cancelled_before_dispatch" THEN "explicit" ELSE "none") \in Digests
  BY DEF Digests
<1>4. CASE cache.effect[e].state = "prepared"
  <2> DEFINE record == [cache.effect[e] EXCEPT !.state = to, !.digest =
                   IF to = "cancelled_before_dispatch" THEN "explicit" ELSE "none"]
  <2>1. /\ record \in EffectRecord /\ record.state = to
        /\ record.recorded = cache.effect[e].recorded
    BY <1>2, <1>3
  <2>2. Transition(e, to) = SetEffect(cache, e, record)
    BY <1>4 DEF Transition
  <2> HIDE DEF record
  <2>3. QED
    BY <1>1, <1>4, <2>1, <2>2, SetEffectValue
<1>5. CASE cache.effect[e].state # "prepared"
  BY <1>5 DEF Transition
<1>6. QED
  BY <1>4, <1>5

\* finishEffect, by its outcome: it writes an outcome over a dispatched
\* record, keeps local evidence when that fails, and otherwise writes nothing.
LEMMA FinishEffectValue ==
    ASSUME TypeOK, NEW e \in Effects, NEW state \in Outcomes,
           NEW ok \in BOOLEAN, FinishEffect(e, state, ok)
    PROVE  \/ /\ cache.effect[e].state = "dispatch_started"
              /\ \E db \in Database :
                    /\ db.op = cache.op
                    /\ \A x \in Effects : x # e => db.effect[x] = cache.effect[x]
                    /\ db.effect[e].state = state
                    /\ db.effect[e].recorded = cache.effect[e].recorded
                    /\ \/ ok /\ Published(db) /\ localUnknown' = localUnknown \ {e}
                       \/ ~ok /\ Failed(db) /\ localUnknown' = localUnknown \cup {e}
           \/ /\ cache.effect[e].state # "dispatch_started"
              /\ UNCHANGED <<disk, cache>>
              /\ localUnknown' \in {localUnknown, localUnknown \ {e}}
<1> DEFINE record == [cache.effect[e] EXCEPT !.state = state, !.digest = "outcome"]
<1>1. cache \in Database /\ cache.effect[e] \in EffectRecord
  BY DEF TypeOK, Database
<1>2. /\ record \in EffectRecord /\ record.state = state
      /\ record.recorded = cache.effect[e].recorded
  BY <1>1 DEF EffectRecord, EffectStates, Terminal, Digests
<1>3. \/ /\ cache.effect[e].state = "dispatch_started"
         /\ \/ /\ ok /\ Published(SetEffect(cache, e, record))
               /\ localUnknown' = localUnknown \ {e}
            \/ /\ ~ok /\ Failed(SetEffect(cache, e, record))
               /\ localUnknown' = localUnknown \cup {e}
      \/ /\ cache.effect[e].state # "dispatch_started"
         /\ UNCHANGED <<disk, cache>>
         /\ localUnknown' \in {localUnknown, localUnknown \ {e}}
  BY DEF FinishEffect, storeVars
<1> HIDE DEF record
<1>4. CASE cache.effect[e].state = "dispatch_started"
  <2> DEFINE written == SetEffect(cache, e, record)
  <2>1. /\ written \in Database /\ written.op = cache.op
        /\ written.effect[e] = record
        /\ \A x \in Effects : x # e => written.effect[x] = cache.effect[x]
    BY <1>1, <1>2, SetEffectValue
  <2>2. \/ ok /\ Published(written) /\ localUnknown' = localUnknown \ {e}
        \/ ~ok /\ Failed(written) /\ localUnknown' = localUnknown \cup {e}
    BY <1>3, <1>4
  <2> HIDE DEF written
  <2>3. QED
    BY <1>2, <1>4, <2>1, <2>2
<1>5. QED
  BY <1>3, <1>4

\* A publication, complete or failed, of a database that is sound, follows
\* the cache and remembers what was entered, keeps the databases so.
LEMMA WriteKeeps ==
    ASSUME IInv, NEW db \in Database, Published(db) \/ Failed(db),
           app # "down", kept' = kept,
           \A e \in Effects : tool'[e] = "idle" =>
               tool[e] = "idle" /\ db.effect[e] = NoEffect,
           \A e \in Effects : db.effect[e].recorded =>
               db.effect[e].state \in Terminal,
           SettledOperation(db), Follows(db),
           \A e \in Entered' : stage'[EffectChat(e)] = "live" =>
               /\ Evidence(db, e)
               /\ Failed(db) => e \in Entered /\ stage[EffectChat(e)] = "live"
    PROVE  /\ SoundDatabase(disk)' /\ Follows(disk)' /\ Remembers(disk)'
           /\ SoundDatabase(cache)' /\ Remembers(cache)'
           /\ Final
<1>1. /\ SoundDatabase(disk) /\ Follows(disk) /\ Remembers(disk)
      /\ SoundDatabase(cache) /\ Remembers(cache)
  BY DEF IInv, RecordInv
<1>2. CASE Published(db)
  <2>1. cache' = db /\ disk' = db
    BY <1>2 DEF Published
  <2>2. SoundDatabase(disk)' /\ SoundDatabase(cache)' /\ Follows(disk)'
    BY <2>1 DEF SoundDatabase, SettledOperation, Follows
  <2>3. Remembers(disk)' /\ Remembers(cache)'
    BY <2>1 DEF Remembers, Evidence
  <2>4. Final
    BY <2>1 DEF Follows, Final
  <2>5. QED
    BY <2>2, <2>3, <2>4
<1>3. CASE Failed(db)
  <2>1. cache' = cache /\ disk' \in {disk, db}
    BY <1>3 DEF Failed
  <2>2. SoundDatabase(cache)'
    BY <1>1, <2>1 DEF SoundDatabase, SettledOperation
  <2>3. Remembers(cache)'
    BY <1>1, <1>3, <2>1 DEF Remembers, Evidence
  <2>4. SoundDatabase(disk)' /\ Follows(disk)' /\ Remembers(disk)'
    <3>1. CASE disk' = disk
      BY <1>1, <1>3, <2>1, <3>1
      DEF SoundDatabase, SettledOperation, Follows, Remembers, Evidence
    <3>2. CASE disk' = db
      BY <1>3, <2>1, <3>2
      DEF SoundDatabase, SettledOperation, Follows, Remembers, Evidence
    <3>3. QED
      BY <2>1, <3>1, <3>2
  <2>5. Final
    BY <2>1 DEF Final
  <2>6. QED
    BY <2>2, <2>3, <2>4, <2>5
<1>4. QED
  BY <1>2, <1>3

----------------------------------------------------------------------------
(* RecordInv, one lemma per action that writes the file.                   *)

Tracking ==
    /\ LocalIsDispatched
    /\ DispatchedIsTracked
    /\ CallHasRecord
    /\ ListedIsOver

\* A rewriting that takes or settles only records that are not dispatched, not
\* under way and not listed leaves the tracking of the others as it was.
LEMMA TrackingKept ==
    ASSUME IInv, ControlInv',
           \A e \in Effects :
              \/ cache'.effect[e] = cache.effect[e]
              \/ /\ e \notin localUnknown
                 /\ cache'.effect[e].state # "dispatch_started"
                 /\ tool'[e] \notin {"prepared", "dispatched", "executed"}
                 /\ \A r \in Runs : e \notin listed'[r],
           localUnknown' = localUnknown, tracked' = tracked,
           \A e \in Effects :
              \/ tool'[e] = tool[e]
              \/ tool'[e] \notin {"prepared", "dispatched", "executed"}
              \/ tool[e] = "dispatched" /\ tool'[e] = "executed",
           \A r \in Runs : listed'[r] \subseteq listed[r],
           \A e \in Effects : inFlight'[e] = "durable" => inFlight[e] = "durable",
           \A r \in Runs : phase[r] \in {"active", "closing"} =>
              \/ phase'[r] \in {"active", "closing"}
              \/ \A e \in EffectsOf(r) : tracked[e] = "none",
           app' # "down" => app # "down"
    PROVE  Tracking'
<1> USE EffectJournalAssumption
<1>1. /\ LocalIsDispatched /\ DispatchedIsTracked /\ CallHasRecord
      /\ ListedIsOver
  BY DEF IInv, RecordInv
<1>2. LocalIsDispatched'
  BY <1>1 DEF LocalIsDispatched, IInv, TypeOK
<1>3. DispatchedIsTracked'
  BY <1>1 DEF DispatchedIsTracked, EffectsOf
<1>4. CallHasRecord'
  BY <1>1 DEF CallHasRecord
<1>5. ListedIsOver'
  BY <1>1 DEF ListedIsOver, Effective
<1>6. QED
  BY <1>2, <1>3, <1>4, <1>5 DEF Tracking

\* Nothing is prunable, recorded or cancelled of what still is to be settled.
LEMMA PruneKeepsTracking ==
    ASSUME IInv, NEW e \in Effects, app # "down",
           \/ cache.effect[e].state \in {"absent", "cancelled_before_dispatch"}
           \/ cache.effect[e].recorded
    PROVE  /\ e \notin localUnknown
           /\ cache.effect[e].state \notin {"prepared", "dispatch_started"}
           /\ tool[e] \notin {"prepared", "dispatched", "executed"}
           /\ \A r \in Runs : e \notin listed[r]
<1>1. cache.effect[e].state \notin {"prepared", "dispatch_started"}
  BY DEF IInv, RecordInv, SoundDatabase, Terminal, Outcomes
<1>2. e \notin localUnknown
  BY <1>1 DEF IInv, RecordInv, LocalIsDispatched
<1>3. tool[e] \notin {"prepared", "dispatched", "executed"}
  BY <1>1 DEF IInv, RecordInv, CallHasRecord
<1>4. \A r \in Runs : e \notin listed[r]
  BY <1>2 DEF IInv, RecordInv, ListedIsOver, Effective, Outcomes
<1>5. QED
  BY <1>1, <1>2, <1>3, <1>4

\* startEffectOperation prunes and begins an operation.
LEMMA StartOperationRecords ==
    ASSUME IInv, ControlInv', NEW r \in Runs, StartOperation(r)
    PROVE  RecordInv' /\ Final
<1> USE EffectJournalAssumption
<1> DEFINE written(db) == SetOp(db, r, "running")
<1>1. PICK db \in Pruned(cache) : Published(written(db)) \/ Failed(written(db))
  BY DEF StartOperation
<1>2. /\ db \in Database /\ written(db) \in Database
      /\ written(db).effect = db.effect
      /\ written(db).op = [db.op EXCEPT ![r] = "running"]
  BY PrunedType, SetOpType DEF OpStates, IInv
<1> DEFINE w == written(db)
<1> HIDE DEF w, written
<1>3. \A e \in Effects :
         \/ w.effect[e] = cache.effect[e]
            /\ (w.op[RunOf[e]] = cache.op[RunOf[e]] \/ w.op[RunOf[e]] = "running")
         \/ /\ w.effect[e] = NoEffect
            /\ \/ cache.effect[e].state \in {"absent", "cancelled_before_dispatch"}
               \/ cache.effect[e].recorded
  BY <1>2, PrunedValue DEF w, Database, IInv
<1>4. /\ app = "up" /\ app' = "up" /\ phase[r] = "ready"
      /\ phase' \in {[phase EXCEPT ![r] = "started"], [phase EXCEPT ![r] = "done"]}
      /\ UNCHANGED <<localUnknown, tool, tracked, listed, inFlight, kept, stage,
                     ran>>
  BY DEF StartOperation, recoveryVars, journalVars
<1>5. Published(w) \/ Failed(w)
  BY <1>1 DEF w
<1>6. Tracking'
  <2>1. cache' = w \/ cache' = cache
    BY <1>5 DEF Published, Failed
  <2>2. \A e \in Effects :
           \/ cache'.effect[e] = cache.effect[e]
           \/ /\ e \notin localUnknown
              /\ cache'.effect[e].state # "dispatch_started"
              /\ tool'[e] \notin {"prepared", "dispatched", "executed"}
              /\ \A s \in Runs : e \notin listed'[s]
    BY <1>3, <1>4, <2>1, PruneKeepsTracking DEF NoEffect
  <2>3. \A s \in Runs : phase[s] \in {"active", "closing"} => phase'[s] = phase[s]
    BY <1>4 DEF IInv, TypeOK
  <2>4. QED
    BY <1>4, <2>2, <2>3, TrackingKept
<1>7. /\ SoundDatabase(disk)' /\ Follows(disk)' /\ Remembers(disk)'
      /\ SoundDatabase(cache)' /\ Remembers(cache)' /\ Final
  <2>1. SoundDatabase(cache) /\ Remembers(cache)
    BY <1>4 DEF IInv, RecordInv
  <2>2. \A e \in Effects : tool'[e] = "idle" =>
           tool[e] = "idle" /\ w.effect[e] = NoEffect
    BY <1>3, <1>4, <2>1 DEF SoundDatabase
  <2>3. \A e \in Effects : w.effect[e].recorded => w.effect[e].state \in Terminal
    BY <1>3, <2>1 DEF SoundDatabase, NoEffect
  <2>4. SettledOperation(w)
    BY <1>3, <2>1 DEF SoundDatabase, SettledOperation, NoEffect
  <2>5. Follows(w)
    BY <1>3 DEF Follows
  <2>6. \A e \in Entered' : stage'[EffectChat(e)] = "live" =>
           Evidence(w, e) /\ e \in Entered /\ stage[EffectChat(e)] = "live"
    BY <1>3, <1>4, <2>1 DEF Remembers, Evidence, Entered, Dispatched, Outcomes,
                            IInv, TypeOK
  <2>7. w \in Database
    BY <1>2 DEF w
  <2>8. QED
    BY <1>4, <1>5, <2>2, <2>3, <2>4, <2>5, <2>6, <2>7, WriteKeeps
<1>8. QED
  BY <1>6, <1>7 DEF Tracking, RecordInv

\* prepareEffect prunes and adds the record of a call that had none.
LEMMA PrepareEffectRecords ==
    ASSUME IInv, ControlInv', NEW e \in Effects, PrepareEffect(e)
    PROVE  RecordInv' /\ Final
<1> USE EffectJournalAssumption
<1> DEFINE fresh == [NoEffect EXCEPT !.state = "prepared"]
<1>1. /\ fresh \in EffectRecord /\ fresh.state = "prepared" /\ ~fresh.recorded
  BY DEF NoEffect, EffectRecord, EffectStates, Digests
<1> HIDE DEF fresh
<1>2. /\ app = "up" /\ app' = "up" /\ tool[e] = "idle"
      /\ phase[RunOf[e]] = "active"
      /\ UNCHANGED <<localUnknown, phase, listed, inFlight, kept, stage, ran>>
  BY DEF PrepareEffect, ActiveTool, recoveryVars, journalVars
<1>3. /\ SoundDatabase(disk) /\ Follows(disk) /\ Remembers(disk)
      /\ SoundDatabase(cache) /\ Remembers(cache)
      /\ cache.effect[e] = NoEffect
  BY <1>2 DEF IInv, RecordInv, SoundDatabase
<1>4. e \notin Entered /\ e \notin localUnknown /\ \A r \in Runs : e \notin listed[r]
  <2>1. e \notin Entered
    BY <1>2 DEF IInv, ControlInv, ToolControl, Entered
  <2>2. QED
    BY <1>2, <1>3, <2>1, PruneKeepsTracking DEF NoEffect
<1>5. CASE /\ cache.op[RunOf[e]] = "running"
           /\ \E db \in Pruned(cache) :
                 \/ /\ Published(SetEffect(db, e, fresh))
                    /\ tool' = [tool EXCEPT ![e] = "prepared"]
                    /\ tracked' = [tracked EXCEPT ![e] = "prepared"]
                 \/ /\ Failed(SetEffect(db, e, fresh))
                    /\ tool' = [tool EXCEPT ![e] = "settled"]
                    /\ tracked' = tracked
  <2> DEFINE written(db) == SetEffect(db, e, fresh)
  <2>1. PICK db \in Pruned(cache) :
           \/ /\ Published(written(db))
              /\ tool' = [tool EXCEPT ![e] = "prepared"]
              /\ tracked' = [tracked EXCEPT ![e] = "prepared"]
           \/ /\ Failed(written(db))
              /\ tool' = [tool EXCEPT ![e] = "settled"]
              /\ tracked' = tracked
    BY <1>5
  <2> DEFINE w == written(db)
  <2>2. /\ w \in Database /\ w.effect[e] = fresh /\ w.op = db.op
        /\ \A x \in Effects : x # e => w.effect[x] = db.effect[x]
    <3>1. db \in Database
      BY PrunedType DEF IInv
    <3>2. QED
      BY <1>1, <3>1, SetEffectValue
  <2> HIDE DEF w, written
  <2>3. \A x \in Effects :
           \/ w.effect[x] = cache.effect[x] /\ x # e
              /\ w.op[RunOf[x]] = cache.op[RunOf[x]]
           \/ x = e /\ w.effect[x] = fresh /\ w.op[RunOf[x]] = "running"
           \/ /\ w.effect[x] = NoEffect
              /\ x # e
              /\ \/ cache.effect[x].state \in {"absent", "cancelled_before_dispatch"}
                 \/ cache.effect[x].recorded
    BY <1>5, <2>2, PrunedValue DEF OpTerminal, IInv
  <2>4. /\ Published(w) \/ Failed(w)
        /\ \/ /\ cache' = w
              /\ tool' = [tool EXCEPT ![e] = "prepared"]
              /\ tracked' = [tracked EXCEPT ![e] = "prepared"]
           \/ /\ cache' = cache
              /\ tool' = [tool EXCEPT ![e] = "settled"]
              /\ tracked' = tracked
    BY <2>1 DEF w, Published, Failed
  <2>5. /\ tool'[e] \in {"prepared", "settled"}
        /\ \A x \in Effects : x # e => tool'[x] = tool[x] /\ tracked'[x] = tracked[x]
    BY <2>4 DEF IInv, TypeOK
  <2>6. Tracking'
    <3>1. CASE cache' = cache /\ tracked' = tracked
               /\ tool' = [tool EXCEPT ![e] = "settled"]
      BY <1>2, <2>5, <3>1, TrackingKept DEF IInv, TypeOK
    <3>2. CASE cache' = w /\ tool' = [tool EXCEPT ![e] = "prepared"]
      <4>1. \A x \in Effects :
               \/ cache'.effect[x] = cache.effect[x] /\ x # e
               \/ x = e /\ cache'.effect[x].state = "prepared"
               \/ /\ x # e
                  /\ x \notin localUnknown
                  /\ cache'.effect[x].state = "absent"
                  /\ tool[x] \notin {"prepared", "dispatched", "executed"}
                  /\ \A r \in Runs : x \notin listed[r]
        BY <1>1, <1>2, <2>3, <3>2, PruneKeepsTracking DEF NoEffect
      <4>2. tool'[e] = "prepared"
        BY <3>2 DEF IInv, TypeOK
      <4>3. /\ LocalIsDispatched /\ DispatchedIsTracked /\ CallHasRecord
            /\ ListedIsOver
        BY DEF IInv, RecordInv
      <4>4. LocalIsDispatched'
        BY <1>2, <1>4, <4>1, <4>3 DEF LocalIsDispatched, IInv, TypeOK
      <4>5. DispatchedIsTracked'
        BY <1>2, <2>5, <4>1, <4>3 DEF DispatchedIsTracked
      <4>6. CallHasRecord'
        BY <1>2, <2>5, <4>1, <4>2, <4>3 DEF CallHasRecord
      <4>7. ListedIsOver'
        BY <1>2, <1>4, <4>1, <4>3 DEF ListedIsOver, Effective
      <4>8. QED
        BY <4>4, <4>5, <4>6, <4>7 DEF Tracking
    <3>3. QED
      BY <2>4, <3>1, <3>2
  <2>7. \A x \in Effects : tool'[x] = "idle" =>
           tool[x] = "idle" /\ w.effect[x] = NoEffect
    BY <1>3, <2>3, <2>5 DEF SoundDatabase
  <2>8. \A x \in Effects : w.effect[x].recorded => w.effect[x].state \in Terminal
    BY <1>1, <1>3, <2>3 DEF SoundDatabase, NoEffect
  <2>9. SettledOperation(w)
    BY <1>3, <2>3 DEF SoundDatabase, SettledOperation, NoEffect
  <2>10. Follows(w)
    BY <1>3, <2>3 DEF Follows, NoEffect
  <2>11. Entered' \subseteq Entered
    BY <1>2, <2>5 DEF Entered
  <2>12. \A x \in Entered' : stage'[EffectChat(x)] = "live" =>
           Evidence(w, x) /\ x \in Entered /\ stage[EffectChat(x)] = "live"
    <3>1. Entered \subseteq Effects
      BY DEF Entered, IInv, TypeOK
    <3>2. QED
      BY <1>2, <1>3, <1>4, <2>3, <2>11, <3>1
      DEF Remembers, Evidence, Dispatched, Outcomes
  <2>13. /\ SoundDatabase(disk)' /\ Follows(disk)' /\ Remembers(disk)'
         /\ SoundDatabase(cache)' /\ Remembers(cache)' /\ Final
    BY <1>2, <2>2, <2>4, <2>7, <2>8, <2>9, <2>10, <2>12, WriteKeeps
  <2>14. QED
    BY <2>6, <2>13 DEF Tracking, RecordInv
<1>6. CASE /\ tool' = [tool EXCEPT ![e] = "settled"]
           /\ UNCHANGED <<disk, cache, tracked>>
  <2>1. /\ tool'[e] = "settled"
        /\ \A x \in Effects : x # e => tool'[x] = tool[x]
    BY <1>6 DEF IInv, TypeOK
  <2>2. Tracking'
    BY <1>2, <1>6, <2>1, TrackingKept
  <2>3. Entered' \subseteq Entered
    BY <1>2, <2>1 DEF Entered
  <2>4. /\ SoundDatabase(disk)' /\ Follows(disk)' /\ SoundDatabase(cache)'
        /\ Final
    BY <1>3, <1>6, <2>1 DEF SoundDatabase, SettledOperation, Follows, Final
  <2>5. Remembers(disk)' /\ Remembers(cache)'
    BY <1>2, <1>3, <1>6, <2>3 DEF Remembers, Evidence
  <2>6. QED
    BY <2>2, <2>4, <2>5 DEF Tracking, RecordInv
<1>7. QED
  BY <1>5, <1>6 DEF PrepareEffect, fresh

\* A step that writes nothing and enters no tool leaves the databases sound;
\* what it adds to the Pi branch only helps.
LEMMA NoWriteKeeps ==
    ASSUME IInv, UNCHANGED <<disk, cache>>,
           app' # "down" => app # "down",
           \A e \in Effects : tool'[e] = "idle" => tool[e] = "idle",
           \A e \in Entered' : stage'[EffectChat(e)] = "live" =>
               /\ e \in Entered /\ stage[EffectChat(e)] = "live"
               /\ e \in kept => e \in kept'
    PROVE  /\ SoundDatabase(disk)' /\ Follows(disk)' /\ Remembers(disk)'
           /\ app' # "down" => SoundDatabase(cache)' /\ Remembers(cache)'
           /\ Final
<1>1. /\ SoundDatabase(disk) /\ Follows(disk) /\ Remembers(disk)
      /\ app # "down" => SoundDatabase(cache) /\ Remembers(cache)
  BY DEF IInv, RecordInv
<1>2. SoundDatabase(disk)' /\ Follows(disk)' /\ Final
  BY <1>1 DEF SoundDatabase, SettledOperation, Follows, Final
<1>3. Remembers(disk)'
  BY <1>1 DEF Remembers, Evidence
<1>4. app' # "down" => SoundDatabase(cache)' /\ Remembers(cache)'
  BY <1>1 DEF SoundDatabase, SettledOperation, Remembers, Evidence
<1>5. QED
  BY <1>2, <1>3, <1>4

\* A step that moves one unsettled record forward keeps the databases sound.
LEMMA OneRecordKeeps ==
    ASSUME IInv, NEW db \in Database, NEW e \in Effects,
           Published(db) \/ Failed(db), app # "down",
           db.op = cache.op,
           \A x \in Effects : x # e => db.effect[x] = cache.effect[x],
           db.effect[e].recorded = cache.effect[e].recorded,
           \/ /\ cache.effect[e].state = "prepared"
              /\ db.effect[e].state
                    \in {"dispatch_started", "cancelled_before_dispatch"}
           \/ /\ cache.effect[e].state = "dispatch_started"
              /\ db.effect[e].state \in Outcomes,
           kept' = kept, stage' = stage,
           tool'[e] # "idle",
           \A x \in Effects : tool'[x] = "idle" => tool[x] = "idle",
           \A x \in Entered' :
              \/ x \in Entered
              \/ Published(db) /\ x = e /\ db.effect[e].state = "dispatch_started"
                 /\ ~Failed(db)
    PROVE  /\ SoundDatabase(disk)' /\ Follows(disk)' /\ Remembers(disk)'
           /\ SoundDatabase(cache)' /\ Remembers(cache)'
           /\ Final
<1> USE EffectJournalAssumption
<1>1. SoundDatabase(cache) /\ Remembers(cache)
  BY DEF IInv, RecordInv
<1>2. ~cache.effect[e].recorded
  BY <1>1 DEF SoundDatabase, Terminal, Outcomes
<1>3. \A x \in Effects : tool'[x] = "idle" =>
         tool[x] = "idle" /\ db.effect[x] = NoEffect
  BY <1>1 DEF SoundDatabase
<1>4. \A x \in Effects : db.effect[x].recorded => db.effect[x].state \in Terminal
  BY <1>1, <1>2 DEF SoundDatabase
<1>5. SettledOperation(db)
  BY <1>1 DEF SoundDatabase, SettledOperation, Outcomes
<1>6. Follows(db)
  BY <1>2 DEF Follows
<1>7. \A x \in Entered' : stage'[EffectChat(x)] = "live" =>
         /\ Evidence(db, x)
         /\ Failed(db) => x \in Entered /\ stage[EffectChat(x)] = "live"
  <2>1. Entered \subseteq Effects
    BY DEF Entered, IInv, TypeOK
  <2>2. \A x \in Entered : stage[EffectChat(x)] = "live" => Evidence(db, x)
    BY <1>1, <1>2, <2>1 DEF Remembers, Evidence, Dispatched, Outcomes
  <2>3. QED
    BY <1>2, <2>2 DEF Evidence, Dispatched
<1>8. QED
  BY <1>3, <1>4, <1>5, <1>6, <1>7, WriteKeeps

\* A call that was aborted while it was prepared is cancelled.
LEMMA CancelPreparedRecords ==
    ASSUME IInv, ControlInv', NEW e \in Effects, CancelPrepared(e)
    PROVE  RecordInv' /\ Final
<1> DEFINE w == Transition(e, "cancelled_before_dispatch")
<1>1. /\ app = "up" /\ app' = "up" /\ tool[e] = "prepared"
      /\ tool'[e] = "settled"
      /\ \A x \in Effects : x # e => tool'[x] = tool[x]
      /\ UNCHANGED <<localUnknown, phase, listed, inFlight, kept, stage, ran>>
  BY DEF CancelPrepared, ActiveTool, recoveryVars, journalVars, IInv, TypeOK
<1>2. cache.effect[e].state = "prepared"
  BY <1>1 DEF IInv, RecordInv, CallHasRecord
<1>3. /\ w \in Database
      /\ w.op = cache.op
      /\ \A x \in Effects : x # e => w.effect[x] = cache.effect[x]
      /\ w.effect[e].state = "cancelled_before_dispatch"
      /\ w.effect[e].recorded = cache.effect[e].recorded
  BY <1>2, TransitionType, TransitionValue DEF IInv
<1>4. \/ Published(w) /\ tracked' = [tracked EXCEPT ![e] = "none"]
      \/ Failed(w) /\ tracked' = tracked
  BY <1>2 DEF CancelPrepared, TransitionAllowed
<1> HIDE DEF w
<1>5. Tracking'
  <2>1. e \notin localUnknown
    BY <1>2 DEF IInv, RecordInv, LocalIsDispatched
  <2>2. CASE Failed(w) /\ tracked' = tracked
    BY <1>1, <2>2, TrackingKept DEF Failed
  <2>3. CASE Published(w) /\ tracked' = [tracked EXCEPT ![e] = "none"]
    <3>1. /\ cache' = w
          /\ \A x \in Effects : x # e => tracked'[x] = tracked[x]
      BY <2>3 DEF Published, IInv, TypeOK
    <3>2. /\ LocalIsDispatched /\ DispatchedIsTracked /\ CallHasRecord
          /\ ListedIsOver
      BY DEF IInv, RecordInv
    <3>3. \A r \in Runs : e \notin listed[r]
      BY <1>2, <2>1 DEF IInv, RecordInv, ListedIsOver, Effective, Outcomes
    <3>4. LocalIsDispatched'
      BY <1>1, <1>3, <2>1, <3>1, <3>2 DEF LocalIsDispatched, IInv, TypeOK
    <3>5. DispatchedIsTracked'
      BY <1>1, <1>3, <3>1, <3>2 DEF DispatchedIsTracked
    <3>6. CallHasRecord'
      BY <1>1, <1>3, <3>1, <3>2 DEF CallHasRecord
    <3>7. ListedIsOver'
      BY <1>1, <1>3, <3>1, <3>2, <3>3 DEF ListedIsOver, Effective
    <3>8. QED
      BY <3>4, <3>5, <3>6, <3>7 DEF Tracking
  <2>4. QED
    BY <1>4, <2>2, <2>3
<1>6. Entered' \subseteq Entered
  BY <1>1 DEF Entered
<1>7. /\ SoundDatabase(disk)' /\ Follows(disk)' /\ Remembers(disk)'
      /\ SoundDatabase(cache)' /\ Remembers(cache)' /\ Final
  BY <1>1, <1>2, <1>3, <1>4, <1>6, OneRecordKeeps
<1>8. QED
  BY <1>5, <1>7 DEF Tracking, RecordInv

\* Dispatch evidence is written before the tool may be entered.
LEMMA MarkDispatchStartedRecords ==
    ASSUME IInv, ControlInv', NEW e \in Effects, MarkDispatchStarted(e)
    PROVE  RecordInv' /\ Final
<1> DEFINE w == Transition(e, "dispatch_started")
<1>1. /\ app = "up" /\ app' = "up" /\ tool[e] = "prepared"
      /\ phase[RunOf[e]] = "active"
      /\ UNCHANGED <<localUnknown, phase, listed, inFlight, kept, stage, ran>>
  BY DEF MarkDispatchStarted, ActiveTool, recoveryVars, journalVars
<1>2. cache.effect[e].state = "prepared"
  BY <1>1 DEF IInv, RecordInv, CallHasRecord
<1>3. /\ w \in Database
      /\ w.op = cache.op
      /\ \A x \in Effects : x # e => w.effect[x] = cache.effect[x]
      /\ w.effect[e].state = "dispatch_started"
      /\ w.effect[e].recorded = cache.effect[e].recorded
  BY <1>2, TransitionType, TransitionValue DEF IInv
<1>4. \/ /\ Published(w)
         /\ tool' = [tool EXCEPT ![e] = "dispatched"]
         /\ tracked' = [tracked EXCEPT ![e] = "dispatch_started"]
      \/ /\ Failed(w)
         /\ tool' = [tool EXCEPT ![e] = "settled"]
         /\ tracked' = tracked
  BY <1>2 DEF MarkDispatchStarted, TransitionAllowed
<1> HIDE DEF w
<1>5. e \notin localUnknown /\ e \notin Entered
  BY <1>1, <1>2 DEF IInv, RecordInv, LocalIsDispatched, Entered, ControlInv,
                    ToolControl
<1>6. CASE /\ Failed(w)
           /\ tool' = [tool EXCEPT ![e] = "settled"]
           /\ tracked' = tracked
  <2>1. /\ tool'[e] = "settled"
        /\ \A x \in Effects : x # e => tool'[x] = tool[x]
    BY <1>6 DEF IInv, TypeOK
  <2>2. Tracking'
    BY <1>1, <1>6, <2>1, TrackingKept DEF Failed
  <2>3. Entered' \subseteq Entered
    BY <1>1, <2>1 DEF Entered
  <2>4. /\ SoundDatabase(disk)' /\ Follows(disk)' /\ Remembers(disk)'
        /\ SoundDatabase(cache)' /\ Remembers(cache)' /\ Final
    BY <1>1, <1>2, <1>3, <1>6, <2>1, <2>3, OneRecordKeeps
  <2>5. QED
    BY <2>2, <2>4 DEF Tracking, RecordInv
<1>7. CASE /\ Published(w) /\ ~Failed(w)
           /\ tool' = [tool EXCEPT ![e] = "dispatched"]
           /\ tracked' = [tracked EXCEPT ![e] = "dispatch_started"]
  <2>1. /\ tool'[e] = "dispatched" /\ tracked'[e] = "dispatch_started"
        /\ \A x \in Effects : x # e => tool'[x] = tool[x] /\ tracked'[x] = tracked[x]
        /\ cache' = w
    BY <1>7 DEF IInv, TypeOK, Published
  <2>2. /\ LocalIsDispatched /\ DispatchedIsTracked /\ CallHasRecord
        /\ ListedIsOver
    BY DEF IInv, RecordInv
  <2>3. \A r \in Runs : e \notin listed[r]
    BY <1>2, <1>5 DEF IInv, RecordInv, ListedIsOver, Effective, Outcomes
  <2>4. LocalIsDispatched'
    BY <1>1, <1>3, <1>5, <2>1, <2>2 DEF LocalIsDispatched, IInv, TypeOK
  <2>5. DispatchedIsTracked'
    BY <1>1, <1>3, <2>1, <2>2 DEF DispatchedIsTracked
  <2>6. CallHasRecord'
    BY <1>1, <1>3, <1>5, <2>1, <2>2 DEF CallHasRecord
  <2>7. ListedIsOver'
    BY <1>1, <1>3, <2>1, <2>2, <2>3 DEF ListedIsOver, Effective
  <2>8. \A x \in Entered' : x \in Entered \/ x = e
    BY <1>1, <2>1 DEF Entered
  <2>9. /\ SoundDatabase(disk)' /\ Follows(disk)' /\ Remembers(disk)'
        /\ SoundDatabase(cache)' /\ Remembers(cache)' /\ Final
    BY <1>1, <1>2, <1>3, <1>7, <2>1, <2>8, OneRecordKeeps
  <2>10. QED
    BY <2>4, <2>5, <2>6, <2>7, <2>9 DEF RecordInv
<1>8. QED
  <2>1. Published(w) => ~Failed(w)
    BY <1>1, <1>2, <1>3 DEF Published, Failed
  <2>2. QED
    BY <1>4, <1>6, <1>7, <2>1

\* finishEffect, after the tool or when the run closes, whatever it meets: an
\* outcome of its own, local evidence, or a record merged in the meantime.
LEMMA FinishEffectRecords ==
    ASSUME IInv, ControlInv', NEW e \in Effects, NEW state \in Outcomes,
           NEW ok \in BOOLEAN, FinishEffect(e, state, ok),
           app = "up", app' = "up",
           tool'[e] \notin {"idle", "prepared", "dispatched", "executed"},
           \A x \in Effects : x # e => tool'[x] = tool[x],
           \A x \in Effects : x # e => tracked'[x] = tracked[x],
           UNCHANGED <<phase, listed, inFlight, kept, stage>>,
           Entered' \subseteq Entered
    PROVE  RecordInv' /\ Final
<1>1. /\ LocalIsDispatched /\ DispatchedIsTracked /\ CallHasRecord
      /\ ListedIsOver
  BY DEF IInv, RecordInv
<1>2. CASE /\ cache.effect[e].state # "dispatch_started"
           /\ UNCHANGED <<disk, cache>>
           /\ localUnknown' \in {localUnknown, localUnknown \ {e}}
  <2>1. localUnknown' = localUnknown
    BY <1>1, <1>2 DEF LocalIsDispatched
  <2>2. LocalIsDispatched'
    BY <1>1, <1>2, <2>1 DEF LocalIsDispatched
  <2>3. DispatchedIsTracked'
    BY <1>1, <1>2, <2>1 DEF DispatchedIsTracked
  <2>4. CallHasRecord'
    BY <1>1, <1>2, <2>1 DEF CallHasRecord
  <2>5. ListedIsOver'
    BY <1>1, <1>2, <2>1 DEF ListedIsOver, Effective
  <2>6. /\ SoundDatabase(disk)' /\ Follows(disk)' /\ Remembers(disk)'
        /\ SoundDatabase(cache)' /\ Remembers(cache)' /\ Final
    BY <1>2, NoWriteKeeps
  <2>7. QED
    BY <2>2, <2>3, <2>4, <2>5, <2>6 DEF RecordInv
<1>3. ASSUME cache.effect[e].state = "dispatch_started",
             NEW db \in Database,
             db.op = cache.op,
             \A x \in Effects : x # e => db.effect[x] = cache.effect[x],
             db.effect[e].state = state,
             db.effect[e].recorded = cache.effect[e].recorded,
             \/ ok /\ Published(db) /\ localUnknown' = localUnknown \ {e}
             \/ ~ok /\ Failed(db) /\ localUnknown' = localUnknown \cup {e}
      PROVE  RecordInv' /\ Final
  <2>1. ~cache.effect[e].recorded
    BY <1>3 DEF IInv, RecordInv, SoundDatabase, Terminal, Outcomes
  <2>2. \A x \in Effects : x # e =>
           /\ cache'.effect[x] = cache.effect[x]
           /\ x \in localUnknown' <=> x \in localUnknown
    BY <1>3 DEF Published, Failed
  <2>3. \/ cache'.effect[e] = db.effect[e] /\ e \notin localUnknown'
        \/ cache'.effect[e] = cache.effect[e] /\ e \in localUnknown'
    BY <1>3 DEF Published, Failed
  <2>4. LocalIsDispatched'
    BY <1>1, <1>3, <2>2, <2>3, FinishEffectType DEF LocalIsDispatched, IInv
  <2>5. DispatchedIsTracked'
    BY <1>1, <1>3, <2>2, <2>3 DEF DispatchedIsTracked, Outcomes
  <2>6. CallHasRecord'
    BY <1>1, <1>3, <2>2, <2>3 DEF CallHasRecord
  <2>7. inFlight[e] # "durable"
    BY <1>1, <1>3 DEF ListedIsOver, Effective, Outcomes, IInv, ControlInv,
                      InFlightListed
  <2>8. ListedIsOver'
    <3>1. Effective(e)'.state \in Outcomes /\ ~Effective(e)'.recorded
      BY <1>3, <2>1, <2>3 DEF Effective, LocalUnknown, Outcomes
    <3>2. ASSUME NEW x \in Effects, x # e
          PROVE  Effective(x)' = Effective(x)
      BY <2>2, <3>2 DEF Effective
    <3>3. QED
      BY <1>1, <2>2, <2>7, <3>1, <3>2 DEF ListedIsOver
  <2>9. /\ SoundDatabase(disk)' /\ Follows(disk)' /\ Remembers(disk)'
        /\ SoundDatabase(cache)' /\ Remembers(cache)' /\ Final
    BY <1>3, OneRecordKeeps
  <2>10. QED
    BY <2>4, <2>5, <2>6, <2>8, <2>9 DEF RecordInv
<1>4. QED
  BY <1>2, <1>3, FinishEffectValue DEF IInv

\* afterToolCall writes the outcome of a tool that returned.
LEMMA FinishToolRecords ==
    ASSUME IInv, ControlInv', NEW e \in Effects, FinishTool(e)
    PROVE  RecordInv' /\ Final
<1>1. \E state \in Outcomes, ok \in BOOLEAN : FinishEffect(e, state, ok)
  BY DEF FinishTool, Outcomes
<1>2. /\ app = "up" /\ app' = "up"
      /\ tool'[e] = "finished"
      /\ \A x \in Effects : x # e => tool'[x] = tool[x] /\ tracked'[x] = tracked[x]
      /\ UNCHANGED <<phase, listed, inFlight, kept, stage, ran>>
  BY DEF FinishTool, ActiveTool, recoveryVars, journalVars, IInv, TypeOK
<1>3. Entered' \subseteq Entered
  BY <1>2 DEF Entered
<1>4. QED
  BY <1>1, <1>2, <1>3, FinishEffectRecords

\* finishEffectOperation settles what its run still tracks.
LEMMA SettleTrackedRecords ==
    ASSUME IInv, ControlInv', NEW e \in Effects, SettleTracked(e)
    PROVE  RecordInv' /\ Final
<1> DEFINE w == Transition(e, "cancelled_before_dispatch")
<1>1. /\ app = "up" /\ app' = "up" /\ tool' = tool
      /\ phase[RunOf[e]] = "closing"
      /\ tracked'[e] = "none"
      /\ \A x \in Effects : x # e => tracked'[x] = tracked[x]
      /\ UNCHANGED <<phase, listed, inFlight, kept, stage, ran>>
  BY DEF SettleTracked, recoveryVars, journalVars, IInv, TypeOK
<1>2. tool[e] \notin {"prepared", "dispatched", "executed"}
  BY <1>1 DEF IInv, ControlInv, ToolControl
<1>3. Entered' = Entered
  BY <1>1 DEF Entered
<1>4. /\ LocalIsDispatched /\ DispatchedIsTracked /\ CallHasRecord
      /\ ListedIsOver
  BY DEF IInv, RecordInv
<1>5. CASE /\ tracked[e] = "prepared" /\ localUnknown' = localUnknown
           /\ \/ /\ TransitionAllowed(e, "cancelled_before_dispatch")
                 /\ Published(w) \/ Failed(w)
              \/ UNCHANGED <<disk, cache>>
  <2>1. cache.effect[e].state = "dispatch_started" => e \in localUnknown
    BY <1>1, <1>4, <1>5 DEF DispatchedIsTracked
  <2>2. CASE /\ cache.effect[e].state = "prepared"
             /\ Published(w) \/ Failed(w)
    <3>1. /\ w \in Database
          /\ w.op = cache.op
          /\ \A x \in Effects : x # e => w.effect[x] = cache.effect[x]
          /\ w.effect[e].state = "cancelled_before_dispatch"
          /\ w.effect[e].recorded = cache.effect[e].recorded
      BY <2>2, TransitionType, TransitionValue DEF IInv
    <3> HIDE DEF w
    <3>2. e \notin localUnknown
      BY <1>4, <2>2 DEF LocalIsDispatched
    <3>3. \A r \in Runs : e \notin listed[r]
      BY <1>4, <2>2, <3>2 DEF ListedIsOver, Effective, Outcomes
    <3>4. cache' = w \/ cache' = cache
      BY <2>2 DEF Published, Failed
    <3>5. LocalIsDispatched'
      BY <1>1, <1>4, <1>5, <3>1, <3>2, <3>4 DEF LocalIsDispatched, IInv, TypeOK
    <3>6. DispatchedIsTracked'
      BY <1>1, <1>4, <1>5, <2>2, <3>1, <3>4 DEF DispatchedIsTracked
    <3>7. CallHasRecord'
      BY <1>1, <1>2, <1>4, <1>5, <3>1, <3>4 DEF CallHasRecord
    <3>8. ListedIsOver'
      BY <1>1, <1>4, <1>5, <3>1, <3>3, <3>4 DEF ListedIsOver, Effective
    <3>9. /\ SoundDatabase(disk)' /\ Follows(disk)' /\ Remembers(disk)'
          /\ SoundDatabase(cache)' /\ Remembers(cache)' /\ Final
      <4>1. tool[e] # "idle"
        BY <1>1, <2>2 DEF IInv, RecordInv, SoundDatabase, NoEffect
      <4>2. QED
        BY <1>1, <1>3, <2>2, <3>1, <4>1, OneRecordKeeps
    <3>10. QED
      BY <3>5, <3>6, <3>7, <3>8, <3>9 DEF RecordInv
  <2>3. CASE UNCHANGED <<disk, cache>>
    <3>1. LocalIsDispatched' /\ CallHasRecord' /\ ListedIsOver'
      BY <1>1, <1>4, <1>5, <2>3
      DEF LocalIsDispatched, CallHasRecord, ListedIsOver, Effective
    <3>2. DispatchedIsTracked'
      BY <1>1, <1>4, <1>5, <2>1, <2>3 DEF DispatchedIsTracked
    <3>3. /\ SoundDatabase(disk)' /\ Follows(disk)' /\ Remembers(disk)'
          /\ SoundDatabase(cache)' /\ Remembers(cache)' /\ Final
      BY <1>1, <1>3, <2>3, NoWriteKeeps
    <3>4. QED
      BY <3>1, <3>2, <3>3 DEF RecordInv
  <2>4. CASE /\ cache.effect[e].state = "cancelled_before_dispatch"
             /\ Published(w) \/ Failed(w)
    <3>1. w = cache
      BY <2>4, TransitionValue DEF IInv
    <3>2. cache' = cache /\ (disk' = disk \/ disk' = cache)
      BY <2>4, <3>1 DEF Published, Failed
    <3>3. CASE disk' = disk
      BY <2>3, <3>2, <3>3
    <3>4. CASE disk' = cache
      <4>1. LocalIsDispatched' /\ CallHasRecord' /\ ListedIsOver'
        BY <1>1, <1>4, <1>5, <3>2
        DEF LocalIsDispatched, CallHasRecord, ListedIsOver, Effective
      <4>2. DispatchedIsTracked'
        BY <1>1, <1>4, <1>5, <2>1, <3>2 DEF DispatchedIsTracked
      <4>3. SoundDatabase(cache) /\ Remembers(cache)
        BY <1>1 DEF IInv, RecordInv
      <4>4. /\ SoundDatabase(disk)' /\ Remembers(disk)'
            /\ SoundDatabase(cache)' /\ Remembers(cache)'
        BY <1>1, <1>3, <3>2, <3>4, <4>3
        DEF SoundDatabase, SettledOperation, Remembers, Evidence
      <4>5. Follows(disk)' /\ Final
        BY <3>2, <3>4 DEF Follows, Final
      <4>6. QED
        BY <4>1, <4>2, <4>4, <4>5 DEF RecordInv
    <3>5. QED
      BY <3>2, <3>3, <3>4
  <2>5. QED
    BY <1>5, <2>2, <2>3, <2>4 DEF TransitionAllowed
<1>6. CASE /\ tracked[e] = "dispatch_started"
           /\ \E state \in Outcomes, ok \in BOOLEAN : FinishEffect(e, state, ok)
  <2>1. CASE tool[e] = "idle"
    <3>1. cache.effect[e].state = "absent"
      BY <1>1, <2>1 DEF IInv, RecordInv, SoundDatabase, NoEffect
    <3>2. /\ UNCHANGED <<disk, cache>>
          /\ localUnknown' \in {localUnknown, localUnknown \ {e}}
      BY <1>6, <3>1, FinishEffectValue DEF IInv
    <3>3. localUnknown' = localUnknown
      BY <1>4, <3>1, <3>2 DEF LocalIsDispatched
    <3>4. LocalIsDispatched' /\ CallHasRecord' /\ ListedIsOver'
      BY <1>1, <1>4, <3>2, <3>3
      DEF LocalIsDispatched, CallHasRecord, ListedIsOver, Effective
    <3>5. DispatchedIsTracked'
      BY <1>1, <1>4, <3>1, <3>2, <3>3 DEF DispatchedIsTracked
    <3>6. /\ SoundDatabase(disk)' /\ Follows(disk)' /\ Remembers(disk)'
          /\ SoundDatabase(cache)' /\ Remembers(cache)' /\ Final
      BY <1>1, <1>3, <3>2, NoWriteKeeps
    <3>7. QED
      BY <3>4, <3>5, <3>6 DEF RecordInv
  <2>2. CASE tool[e] # "idle"
    BY <1>1, <1>2, <1>3, <1>6, <2>2, FinishEffectRecords
  <2>3. QED
    BY <2>1, <2>2
<1>7. QED
  BY <1>5, <1>6 DEF SettleTracked, Outcomes

\* finishOperation settles the operation, and with it what its run could not
\* write about its effects.
LEMMA FinishOperationRecords ==
    ASSUME IInv, ControlInv', NEW r \in Runs, FinishOperation(r)
    PROVE  RecordInv' /\ Final
<1> USE EffectJournalAssumption
<1> DEFINE w == SetOp(MergeLocal(r), r, "settled")
<1>1. /\ app = "up" /\ app' = "up"
      /\ \A e \in Effects : RunOf[e] = r => tracked[e] = "none"
      /\ \A s \in Runs : s # r => phase'[s] = phase[s]
      /\ UNCHANGED <<tool, tracked, listed, inFlight, kept, stage, ran>>
  BY DEF FinishOperation, EffectsOf, recoveryVars, journalVars, IInv, TypeOK
<1>2. /\ LocalIsDispatched /\ DispatchedIsTracked /\ CallHasRecord
      /\ ListedIsOver /\ SoundDatabase(cache) /\ Remembers(cache)
  BY <1>1 DEF IInv, RecordInv
<1>3. /\ w \in Database
      /\ \A s \in Runs : w.op[s] = IF s = r THEN "settled" ELSE cache.op[s]
      /\ \A e \in Effects : w.effect[e] =
            IF RunOf[e] = r /\ e \in localUnknown THEN LocalUnknown
                                                  ELSE cache.effect[e]
  <2>1. /\ MergeLocal(r) \in Database
        /\ MergeLocal(r).op = cache.op
        /\ MergeLocal(r).effect = [e \in Effects |->
               IF RunOf[e] = r /\ cache.effect[e].state # "absent"
               THEN Effective(e) ELSE cache.effect[e]]
    BY MergeLocalType DEF IInv
  <2>2. /\ w \in Database /\ w.effect = MergeLocal(r).effect
        /\ w.op = [MergeLocal(r).op EXCEPT ![r] = "settled"]
    BY <2>1, SetOpType DEF OpStates
  <2> HIDE DEF w
  <2>3. \A s \in Runs : w.op[s] = IF s = r THEN "settled" ELSE cache.op[s]
    BY <2>1, <2>2 DEF IInv, TypeOK, Database
  <2>4. \A e \in Effects : w.effect[e] =
            IF RunOf[e] = r /\ e \in localUnknown THEN LocalUnknown
                                                  ELSE cache.effect[e]
    BY <1>2, <2>1, <2>2 DEF Effective, LocalIsDispatched
  <2>5. QED
    BY <2>2, <2>3, <2>4
<1>4. \/ /\ ~Unsettled(r)
         /\ \/ Published(w) /\ localUnknown' = localUnknown \ EffectsOf(r)
            \/ Failed(w) /\ localUnknown' = localUnknown
      \/ UNCHANGED <<disk, cache, localUnknown>>
  BY DEF FinishOperation, storeVars
<1>5. ~Unsettled(r) => \A e \in Effects :
         RunOf[e] = r => w.effect[e].state \notin {"prepared", "dispatch_started"}
  <2>1. /\ MergeLocal(r) \in Database /\ w.effect = MergeLocal(r).effect
    BY MergeLocalType, SetOpType DEF OpStates, IInv
  <2> HIDE DEF w
  <2>2. QED
    BY <2>1 DEF Unsettled, EffectsOf
<1> HIDE DEF w
<1>6. Entered' = Entered
  BY <1>1 DEF Entered
<1>7. \A e \in Effects : RunOf[e] = r /\ cache.effect[e].state = "dispatch_started"
         => e \in localUnknown
  BY <1>1, <1>2 DEF DispatchedIsTracked
<1>8. CASE UNCHANGED <<disk, cache, localUnknown>>
  <2>1. LocalIsDispatched' /\ CallHasRecord' /\ ListedIsOver'
    BY <1>1, <1>2, <1>8
    DEF LocalIsDispatched, CallHasRecord, ListedIsOver, Effective
  <2>2. DispatchedIsTracked'
    BY <1>1, <1>2, <1>7, <1>8 DEF DispatchedIsTracked
  <2>3. /\ SoundDatabase(disk)' /\ Follows(disk)' /\ Remembers(disk)'
        /\ SoundDatabase(cache)' /\ Remembers(cache)' /\ Final
    BY <1>1, <1>6, <1>8, NoWriteKeeps
  <2>4. QED
    BY <2>1, <2>2, <2>3 DEF RecordInv
<1>9. CASE /\ ~Unsettled(r)
           /\ \/ Published(w) /\ localUnknown' = localUnknown \ EffectsOf(r)
              \/ Failed(w) /\ localUnknown' = localUnknown
  <2>1. \/ cache' = w /\ localUnknown' = localUnknown \ EffectsOf(r)
        \/ cache' = cache /\ localUnknown' = localUnknown
    BY <1>9 DEF Published, Failed
  <2>2. \A e \in Effects : Effective(e)' = Effective(e)
    BY <1>3, <2>1 DEF Effective, EffectsOf
  <2>3. LocalIsDispatched'
    BY <1>2, <1>3, <2>1 DEF LocalIsDispatched, EffectsOf, IInv, TypeOK
  <2>4. DispatchedIsTracked'
    BY <1>1, <1>2, <1>3, <1>7, <2>1
    DEF DispatchedIsTracked, EffectsOf, LocalUnknown
  <2>5. CallHasRecord'
    BY <1>1, <1>2, <1>3, <2>1 DEF CallHasRecord, LocalIsDispatched
  <2>6. ListedIsOver'
    BY <1>1, <1>2, <2>1, <2>2 DEF ListedIsOver
  <2>7. /\ SoundDatabase(disk)' /\ Follows(disk)' /\ Remembers(disk)'
        /\ SoundDatabase(cache)' /\ Remembers(cache)' /\ Final
    <3>1. \A e \in Effects : tool'[e] = "idle" =>
             tool[e] = "idle" /\ w.effect[e] = NoEffect
      BY <1>1, <1>2, <1>3 DEF SoundDatabase, LocalIsDispatched, NoEffect
    <3>2. \A e \in Effects : w.effect[e].recorded => w.effect[e].state \in Terminal
      BY <1>2, <1>3 DEF SoundDatabase, LocalUnknown
    <3>3. SettledOperation(w)
      BY <1>2, <1>3, <1>5, <1>9 DEF SoundDatabase, SettledOperation, LocalUnknown
    <3>4. Follows(w)
      BY <1>2, <1>3 DEF Follows, LocalIsDispatched, SoundDatabase, Terminal,
                        Outcomes
    <3>5. \A e \in Entered' : stage'[EffectChat(e)] = "live" =>
             Evidence(w, e) /\ e \in Entered /\ stage[EffectChat(e)] = "live"
      <4>1. Entered \subseteq Effects
        BY DEF Entered, IInv, TypeOK
      <4>2. QED
        BY <1>1, <1>2, <1>3, <1>6, <4>1
        DEF Remembers, Evidence, Dispatched, Outcomes, LocalUnknown
    <3>6. QED
      BY <1>1, <1>3, <1>9, <3>1, <3>2, <3>3, <3>4, <3>5, WriteKeeps
  <2>8. QED
    BY <2>3, <2>4, <2>5, <2>6, <2>7 DEF RecordInv
<1>10. QED
  BY <1>4, <1>8, <1>9

\* acknowledgeChatEffectsDurable marks what the committed turn explained.
LEMMA AcknowledgeRecords ==
    ASSUME IInv, ControlInv', NEW r \in Runs, Acknowledge(r)
    PROVE  RecordInv' /\ Final
<1> USE EffectJournalAssumption
<1> DEFINE w == Acknowledged(ChatOf[r])
           marks(e) == /\ EffectChat(e) = ChatOf[r] /\ RunOf[e] \in Foreground
                       /\ cache.effect[e].state \in Outcomes
<1>1. /\ app = "up" /\ app' = "up" /\ phase[r] = "committed"
      /\ \A s \in Runs : s # r => phase'[s] = phase[s]
      /\ UNCHANGED <<localUnknown, tool, tracked, listed, inFlight, kept, stage,
                     ran>>
  BY DEF Acknowledge, recoveryVars, journalVars, IInv, TypeOK
<1>2. /\ LocalIsDispatched /\ CallHasRecord /\ ListedIsOver
      /\ SoundDatabase(cache) /\ Remembers(cache)
  BY <1>1 DEF IInv, RecordInv
<1>3. /\ w \in Database /\ w.op = cache.op
      /\ \A e \in Effects :
            /\ w.effect[e].state = cache.effect[e].state
            /\ ~marks(e) \/ cache.effect[e].recorded
                  => w.effect[e] = cache.effect[e]
  <2>1. /\ w \in Database /\ w.op = cache.op
        /\ w.effect = [e \in Effects |->
               IF marks(e) THEN [cache.effect[e] EXCEPT !.recorded = TRUE]
                           ELSE cache.effect[e]]
    BY AcknowledgedType DEF IInv
  <2>2. ASSUME NEW record \in EffectRecord
        PROVE  /\ [record EXCEPT !.recorded = TRUE].state = record.state
               /\ record.recorded => [record EXCEPT !.recorded = TRUE] = record
    BY DEF EffectRecord
  <2>3. \A e \in Effects : cache.effect[e] \in EffectRecord
    BY DEF IInv, TypeOK, Database
  <2> HIDE DEF w, marks
  <2>4. QED
    BY <2>1, <2>2, <2>3
<1>4. Published(w) \/ Failed(w)
  BY DEF Acknowledge
<1>5. \A e \in Effects : marks(e) => /\ e \notin localUnknown
                                     /\ tool[e] \notin {"prepared", "dispatched",
                                                        "executed"}
                                     /\ \A s \in Runs : e \notin listed[s]
  <2>1. \A s \in Runs : listed[s] # {} => ChatOf[s] # ChatOf[r]
    BY <1>1 DEF IInv, ControlInv, OneGeneration, Lanes, ListedKept, Busy
  <2>2. \A e \in Effects, s \in Runs :
           EffectChat(e) = ChatOf[r] => e \notin listed[s]
    BY <2>1 DEF IInv, ControlInv, ListedKept
  <2>3. QED
    BY <1>2, <2>2 DEF LocalIsDispatched, CallHasRecord, Outcomes
<1>6. \A e \in Entered : marks(e) => e \in kept
  <2>1. \A e \in ran : marks(e) => e \in kept
    BY <1>1 DEF IInv, ControlInv, Lanes, Explained
  <2>2. QED
    BY <1>5, <2>1 DEF Entered
<1> HIDE DEF w, marks
<1>7. Tracking'
  <2>1. cache' = w \/ cache' = cache
    BY <1>4 DEF Published, Failed
  <2>2. \A e \in Effects :
              \/ cache'.effect[e] = cache.effect[e]
              \/ /\ e \notin localUnknown
                 /\ cache'.effect[e].state # "dispatch_started"
                 /\ tool'[e] \notin {"prepared", "dispatched", "executed"}
                 /\ \A s \in Runs : e \notin listed'[s]
    BY <1>1, <1>3, <1>5, <2>1 DEF marks, Outcomes
  <2>3. \A s \in Runs : phase[s] \in {"active", "closing"} =>
           phase'[s] \in {"active", "closing"}
    BY <1>1
  <2>4. QED
    BY <1>1, <2>2, <2>3, TrackingKept
<1>8. Entered' = Entered
  BY <1>1 DEF Entered
<1>9. /\ SoundDatabase(disk)' /\ Follows(disk)' /\ Remembers(disk)'
      /\ SoundDatabase(cache)' /\ Remembers(cache)' /\ Final
  <2>1. \A e \in Effects : tool'[e] = "idle" =>
           tool[e] = "idle" /\ w.effect[e] = NoEffect
    BY <1>1, <1>2, <1>3 DEF SoundDatabase, NoEffect, marks, Outcomes
  <2>2. \A e \in Effects : w.effect[e].recorded => w.effect[e].state \in Terminal
    BY <1>2, <1>3 DEF SoundDatabase, marks, Terminal
  <2>3. SettledOperation(w)
    BY <1>2, <1>3 DEF SoundDatabase, SettledOperation
  <2>4. Follows(w)
    BY <1>3 DEF Follows
  <2>5. \A e \in Entered' : stage'[EffectChat(e)] = "live" =>
           Evidence(w, e) /\ e \in Entered /\ stage[EffectChat(e)] = "live"
    <3>1. Entered \subseteq Effects
      BY DEF Entered, IInv, TypeOK
    <3>2. QED
      BY <1>1, <1>2, <1>3, <1>6, <1>8, <3>1 DEF Remembers, Evidence
  <2>6. QED
    BY <1>1, <1>3, <1>4, <2>1, <2>2, <2>3, <2>4, <2>5, WriteKeeps
<1>10. QED
  BY <1>7, <1>9 DEF Tracking, RecordInv

\* What a mark writes is over: the record that is still listed, or the local
\* evidence its call captured.
LEMMA MarkValue ==
    ASSUME IInv, NEW r \in Runs, NEW e \in listed[r], inFlight[e] # "none",
           app # "down"
    PROVE  LET w == SetEffect(cache, e, [MarkedEffect(e) EXCEPT !.recorded = TRUE])
           IN  /\ w \in Database /\ w.op = cache.op
               /\ \A x \in Effects : x # e => w.effect[x] = cache.effect[x]
               /\ w.effect[e].state \in Outcomes
               /\ ~cache.effect[e].recorded
<1>1. e \in Effects
  BY DEF IInv, TypeOK
<1>2. /\ LocalIsDispatched /\ ListedIsOver /\ SoundDatabase(cache)
  BY DEF IInv, RecordInv
<1>3. MarkedEffect(e).state \in Outcomes /\ ~cache.effect[e].recorded
  <2>1. CASE inFlight[e] = "local"
    <3>1. MarkedEffect(e).state = "unknown"
      BY <2>1 DEF MarkedEffect, LocalUnknown
    <3>2. ~cache.effect[e].recorded
      BY <1>1, <1>2 DEF LocalIsDispatched, ListedIsOver, Effective,
                        SoundDatabase, Terminal, Outcomes
    <3>3. QED
      BY <3>1, <3>2 DEF Outcomes
  <2>2. CASE inFlight[e] = "durable"
    BY <1>1, <1>2, <2>2 DEF MarkedEffect, ListedIsOver, Effective
  <2>3. QED
    BY <1>1, <2>1, <2>2 DEF IInv, TypeOK
<1>4. /\ MarkedEffect(e) \in EffectRecord
      /\ [MarkedEffect(e) EXCEPT !.recorded = TRUE] \in EffectRecord
  BY <1>1, MarkType DEF IInv
<1>5. [MarkedEffect(e) EXCEPT !.recorded = TRUE].state = MarkedEffect(e).state
  BY <1>4 DEF EffectRecord
<1> DEFINE record == [MarkedEffect(e) EXCEPT !.recorded = TRUE]
<1>6. record \in EffectRecord /\ cache \in Database
  BY <1>4 DEF IInv, TypeOK
<1>7. record.state = MarkedEffect(e).state
  BY <1>5
<1> HIDE DEF record
<1>8. /\ SetEffect(cache, e, record) \in Database
      /\ SetEffect(cache, e, record).op = cache.op
      /\ SetEffect(cache, e, record).effect[e] = record
      /\ \A x \in Effects : x # e =>
            SetEffect(cache, e, record).effect[x] = cache.effect[x]
  BY <1>1, <1>6, SetEffectValue
<1>9. /\ SetEffect(cache, e, record) \in Database
      /\ SetEffect(cache, e, record).op = cache.op
      /\ \A x \in Effects : x # e =>
            SetEffect(cache, e, record).effect[x] = cache.effect[x]
      /\ SetEffect(cache, e, record).effect[e].state \in Outcomes
      /\ ~cache.effect[e].recorded
  BY <1>3, <1>7, <1>8
<1>10. QED
  BY <1>9 DEF record

\* A database with a mark is sound, and what it marks was explained.
LEMMA MarkKeeps ==
    ASSUME IInv, NEW r \in Runs, NEW e \in listed[r], inFlight[e] # "none",
           app = "up", phase[r] = "marking",
           NEW w, w = SetEffect(cache, e, [MarkedEffect(e) EXCEPT !.recorded = TRUE]),
           Published(w) \/ Failed(w),
           UNCHANGED <<kept, stage, tool, ran>>
    PROVE  /\ SoundDatabase(disk)' /\ Follows(disk)' /\ Remembers(disk)'
           /\ SoundDatabase(cache)' /\ Remembers(cache)' /\ Final
<1> USE EffectJournalAssumption
<1>1. e \in Effects
  BY DEF IInv, TypeOK
<1>2. /\ w \in Database /\ w.op = cache.op
      /\ \A x \in Effects : x # e => w.effect[x] = cache.effect[x]
      /\ w.effect[e].state \in Outcomes
      /\ ~cache.effect[e].recorded
  BY MarkValue
<1>3. /\ SoundDatabase(cache) /\ Remembers(cache) /\ e \in kept
      /\ Effective(e).state \in Outcomes /\ LocalIsDispatched
  BY <1>1 DEF IInv, RecordInv, ControlInv, ListedKept, ListedIsOver
<1>4. \A x \in Effects : tool'[x] = "idle" =>
         tool[x] = "idle" /\ w.effect[x] = NoEffect
  <2>1. tool[e] # "idle"
    BY <1>1, <1>3 DEF SoundDatabase, LocalIsDispatched, Effective, NoEffect,
                      Outcomes
  <2>2. QED
    BY <1>2, <1>3, <2>1 DEF SoundDatabase
<1>5. \A x \in Effects : w.effect[x].recorded => w.effect[x].state \in Terminal
  BY <1>1, <1>2, <1>3 DEF SoundDatabase, Terminal
<1>6. SettledOperation(w)
  BY <1>1, <1>2, <1>3 DEF SoundDatabase, SettledOperation, Outcomes
<1>7. Follows(w)
  BY <1>1, <1>2 DEF Follows
<1>8. \A x \in Entered' : stage'[EffectChat(x)] = "live" =>
         Evidence(w, x) /\ x \in Entered /\ stage[EffectChat(x)] = "live"
  <2>1. Entered \subseteq Effects /\ Entered' = Entered
    BY DEF Entered, IInv, TypeOK
  <2>2. QED
    BY <1>2, <1>3, <2>1 DEF Remembers, Evidence
<1>9. QED
  BY <1>2, <1>4, <1>5, <1>6, <1>7, <1>8, WriteKeeps

\* markRecoveryRecorded makes a listed effect final.
LEMMA ApplyMarkRecords ==
    ASSUME IInv, ControlInv', NEW r \in Runs, NEW e \in Effects, ApplyMark(r, e)
    PROVE  RecordInv' /\ Final
<1> DEFINE w == SetEffect(cache, e, [MarkedEffect(e) EXCEPT !.recorded = TRUE])
<1>1. /\ app = "up" /\ app' = "up" /\ phase[r] = "marking"
      /\ e \in listed[r] /\ inFlight[e] # "none"
      /\ Published(w)
      /\ localUnknown' = localUnknown \ {e}
      /\ inFlight' = [inFlight EXCEPT ![e] = "none"]
      /\ listed' = [listed EXCEPT ![r] = listed[r] \ {e}]
      /\ UNCHANGED <<phase, tool, tracked, kept, stage, ran>>
  BY DEF ApplyMark, harnessVars, journalVars
<1>2. /\ w \in Database /\ w.op = cache.op
      /\ \A x \in Effects : x # e => w.effect[x] = cache.effect[x]
      /\ w.effect[e].state \in Outcomes
  BY <1>1, MarkValue
<1>3. /\ SoundDatabase(disk)' /\ Follows(disk)' /\ Remembers(disk)'
      /\ SoundDatabase(cache)' /\ Remembers(cache)' /\ Final
  BY <1>1, MarkKeeps
<1> HIDE DEF w
<1>4. /\ LocalIsDispatched /\ DispatchedIsTracked /\ CallHasRecord
      /\ ListedIsOver
  BY DEF IInv, RecordInv
<1>5. cache' = w
  BY <1>1 DEF Published
<1>6. \A s \in Runs : e \notin listed'[s]
  BY <1>1 DEF IInv, TypeOK, ControlInv, ListedKept, OneGeneration, Busy, Lanes
<1>7. \A x \in Effects : x # e =>
         /\ cache'.effect[x] = cache.effect[x]
         /\ (x \in localUnknown' <=> x \in localUnknown)
         /\ inFlight'[x] = inFlight[x]
         /\ \A s \in Runs : x \in listed'[s] <=> x \in listed[s]
  BY <1>1, <1>2, <1>5 DEF IInv, TypeOK
<1>8. LocalIsDispatched'
  BY <1>1, <1>4, <1>7 DEF LocalIsDispatched, IInv, TypeOK
<1>9. DispatchedIsTracked'
  BY <1>1, <1>2, <1>4, <1>5, <1>7 DEF DispatchedIsTracked, Outcomes
<1>10. CallHasRecord'
  <2>1. tool[e] \notin {"prepared", "dispatched", "executed"}
    BY <1>1, <1>4 DEF CallHasRecord, ListedIsOver, Effective, LocalIsDispatched,
                      Outcomes
  <2>2. QED
    BY <1>1, <1>4, <1>7, <2>1 DEF CallHasRecord
<1>11. ListedIsOver'
  BY <1>1, <1>4, <1>6, <1>7 DEF ListedIsOver, Effective
<1>12. QED
  BY <1>3, <1>8, <1>9, <1>10, <1>11 DEF RecordInv

\* A boundary or a mark that fails may have reached the file.
LEMMA FailRecoveryRecords ==
    ASSUME IInv, ControlInv', NEW r \in Runs, FailRecovery(r)
    PROVE  RecordInv' /\ Final
<1> USE EffectJournalAssumption
<1>1. /\ app = "up" /\ app' = "up" /\ phase[r] \in {"listed", "marking"}
      /\ phase' = [phase EXCEPT ![r] = "done"]
      /\ \A e \in Effects : inFlight'[e] = "durable" => inFlight[e] = "durable"
      /\ \A s \in Runs : listed'[s] \subseteq listed[s]
      /\ cache' = cache
      /\ UNCHANGED <<localUnknown, tool, tracked, kept, stage, ran>>
  BY DEF FailRecovery, journalVars, storeVars, IInv, TypeOK, Failed
<1>2. Tracking'
  <2>1. \A s \in Runs : phase[s] \in {"active", "closing"} => phase'[s] = phase[s]
    BY <1>1 DEF IInv, TypeOK
  <2>2. QED
    BY <1>1, <2>1, TrackingKept
<1>3. /\ SoundDatabase(disk)' /\ Follows(disk)' /\ Remembers(disk)'
      /\ SoundDatabase(cache)' /\ Remembers(cache)' /\ Final
  <2>1. CASE UNCHANGED storeVars
    <3>1. Entered' = Entered
      BY <1>1 DEF Entered
    <3>2. QED
      BY <1>1, <2>1, <3>1, NoWriteKeeps DEF storeVars
  <2>2. ASSUME NEW e \in listed[r], inFlight[e] # "none", phase[r] = "marking",
               Failed(SetEffect(cache, e,
                          [MarkedEffect(e) EXCEPT !.recorded = TRUE]))
        PROVE  /\ SoundDatabase(disk)' /\ Follows(disk)' /\ Remembers(disk)'
               /\ SoundDatabase(cache)' /\ Remembers(cache)' /\ Final
    BY <1>1, <2>2, MarkKeeps
  <2>3. QED
    BY <2>1, <2>2 DEF FailRecovery
<1>4. QED
  BY <1>2, <1>3 DEF Tracking, RecordInv

\* Removing the runs of chats that are not live leaves the rest sound.
LEMMA RemovalKeeps ==
    ASSUME IInv, NEW gone \in SUBSET Runs, NEW w, w = WithoutRuns(cache, gone),
           Published(w) \/ Failed(w), app # "down",
           \A r \in gone : stage[ChatOf[r]] # "live",
           \A c \in Chats : stage'[c] = "live" => stage[c] = "live",
           UNCHANGED <<kept, tool, ran>>
    PROVE  /\ SoundDatabase(disk)' /\ Follows(disk)' /\ Remembers(disk)'
           /\ SoundDatabase(cache)' /\ Remembers(cache)' /\ Final
<1> USE EffectJournalAssumption
<1>1. /\ w \in Database
      /\ \A r \in Runs : w.op[r] = IF r \in gone THEN "absent" ELSE cache.op[r]
      /\ \A e \in Effects : w.effect[e] =
            IF RunOf[e] \in gone THEN NoEffect ELSE cache.effect[e]
  BY WithoutRunsType, WithoutRunsValue DEF IInv, TypeOK
<1>2. SoundDatabase(cache) /\ Remembers(cache)
  BY DEF IInv, RecordInv
<1>3. \A x \in Effects : tool'[x] = "idle" =>
         tool[x] = "idle" /\ w.effect[x] = NoEffect
  BY <1>1, <1>2 DEF SoundDatabase
<1>4. \A x \in Effects : w.effect[x].recorded => w.effect[x].state \in Terminal
  BY <1>1, <1>2 DEF SoundDatabase, NoEffect
<1>5. SettledOperation(w)
  BY <1>1, <1>2 DEF SoundDatabase, SettledOperation, NoEffect
<1>6. Follows(w)
  BY <1>1 DEF Follows
<1>7. \A x \in Entered' : stage'[EffectChat(x)] = "live" =>
         Evidence(w, x) /\ x \in Entered /\ stage[EffectChat(x)] = "live"
  <2>1. Entered \subseteq Effects /\ Entered' = Entered
    BY DEF Entered, IInv, TypeOK
  <2>2. QED
    BY <1>1, <1>2, <2>1 DEF Remembers, Evidence, EffectChat
<1>8. QED
  BY <1>1, <1>3, <1>4, <1>5, <1>6, <1>7, WriteKeeps

\* reconcileChats removes the evidence of chats that are gone.
LEMMA ReconcileRecords ==
    ASSUME IInv, ControlInv', ReconcileChats
    PROVE  RecordInv' /\ Final
<1> USE EffectJournalAssumption
<1> DEFINE gone == {r \in Runs : stage[ChatOf[r]] = "gone"}
           w == WithoutRuns(cache, gone)
<1>1. /\ app = "starting"
      /\ Published(w) \/ Failed(w)
      /\ UNCHANGED <<localUnknown, phase, tool, tracked, listed, inFlight, kept,
                     stage, ran>>
  BY DEF ReconcileChats, harnessVars, recoveryVars, journalVars
<1>2. /\ localUnknown = {}
      /\ \A r \in Runs : phase[r] \in {"idle", "done"} /\ listed[r] = {}
      /\ \A e \in Effects : inFlight[e] = "none"
      /\ \A e \in Effects : tool[e] \notin {"prepared", "dispatched", "executed"}
  <2>1. localUnknown = {} /\ \A r \in Runs : phase[r] \in {"idle", "done"}
    BY <1>1 DEF IInv, ControlInv, Resting
  <2>2. \A r \in Runs : listed[r] = {}
    BY <2>1 DEF IInv, ControlInv, ListedKept
  <2>3. \A e \in Effects : inFlight[e] = "none"
    BY <2>2 DEF IInv, ControlInv, InFlightListed
  <2>4. \A e \in Effects : tool[e] \notin {"prepared", "dispatched", "executed"}
    BY <2>1 DEF IInv, ControlInv, ToolControl
  <2>5. QED
    BY <2>1, <2>2, <2>3, <2>4
<1>3. /\ SoundDatabase(disk)' /\ Follows(disk)' /\ Remembers(disk)'
      /\ SoundDatabase(cache)' /\ Remembers(cache)' /\ Final
  BY <1>1, RemovalKeeps
<1>4. \A e \in Effects : w.effect[e] =
         IF RunOf[e] \in gone THEN NoEffect ELSE cache.effect[e]
  BY WithoutRunsValue DEF IInv, TypeOK
<1> HIDE DEF w, gone
<1>5. LocalIsDispatched' /\ CallHasRecord' /\ ListedIsOver'
  BY <1>1, <1>2 DEF LocalIsDispatched, CallHasRecord, ListedIsOver
<1>6. DispatchedIsTracked'
  <2>1. \A e \in Effects : cache.effect[e].state # "dispatch_started"
    BY <1>1, <1>2 DEF IInv, RecordInv, DispatchedIsTracked
  <2>2. cache' = cache \/ cache' = w
    BY <1>1 DEF Published, Failed
  <2>3. QED
    BY <1>4, <2>1, <2>2 DEF DispatchedIsTracked, NoEffect
<1>7. QED
  BY <1>3, <1>5, <1>6 DEF RecordInv

\* store.deleteChat removes the evidence of a chat that is being deleted.
LEMMA DeleteEffectsRecords ==
    ASSUME IInv, ControlInv', NEW c \in Chats, DeleteEffects(c)
    PROVE  RecordInv' /\ Final
<1> USE EffectJournalAssumption
<1> DEFINE w == WithoutRuns(cache, RunsOf(c))
<1>1. /\ app # "down" /\ app' = app /\ stage[c] = "deleting"
      /\ ~HoldsActiveEvidence(c)
      /\ \/ /\ Published(w)
            /\ localUnknown' = {e \in localUnknown : EffectChat(e) # c}
         \/ Failed(w) /\ localUnknown' = localUnknown
      /\ \A d \in Chats : stage'[d] = "live" => stage[d] = "live"
      /\ UNCHANGED <<phase, tool, tracked, listed, inFlight, kept, ran>>
  BY DEF DeleteEffects, harnessVars, recoveryVars, journalVars, IInv, TypeOK
<1>2. RunsOf(c) \subseteq Runs /\ \A r \in RunsOf(c) : stage[ChatOf[r]] # "live"
  BY <1>1 DEF RunsOf
<1>3. /\ SoundDatabase(disk)' /\ Follows(disk)' /\ Remembers(disk)'
      /\ SoundDatabase(cache)' /\ Remembers(cache)' /\ Final
  BY <1>1, <1>2, RemovalKeeps
<1>4. /\ LocalIsDispatched /\ DispatchedIsTracked /\ CallHasRecord
      /\ ListedIsOver
  BY DEF IInv, RecordInv
<1>5. \A e \in Effects : w.effect[e] =
         IF EffectChat(e) = c THEN NoEffect ELSE cache.effect[e]
  BY WithoutRunsValue DEF IInv, TypeOK, RunsOf, EffectChat
<1>6. \/ cache' = w /\ localUnknown' = {e \in localUnknown : EffectChat(e) # c}
      \/ cache' = cache /\ localUnknown' = localUnknown
  BY <1>1 DEF Published, Failed
<1>7. \A e \in Effects : EffectChat(e) = c =>
         /\ tool[e] \notin {"prepared", "dispatched", "executed"}
         /\ \A r \in Runs : e \notin listed[r]
  <2>1. \A e \in Effects : EffectChat(e) = c =>
           tool[e] \notin {"prepared", "dispatched", "executed"}
    BY <1>1, <1>4 DEF HoldsActiveEvidence, CallHasRecord, LocalIsDispatched,
                      Effective
  <2>2. \A e \in Effects, r \in Runs : EffectChat(e) = c => e \notin listed[r]
    BY <1>1 DEF IInv, ControlInv, ListedKept, OneGeneration, Busy, Lanes
  <2>3. QED
    BY <2>1, <2>2
<1> HIDE DEF w
<1>8. LocalIsDispatched'
  BY <1>4, <1>5, <1>6 DEF LocalIsDispatched, IInv, TypeOK
<1>9. DispatchedIsTracked'
  BY <1>1, <1>4, <1>5, <1>6 DEF DispatchedIsTracked, NoEffect
<1>10. CallHasRecord'
  BY <1>1, <1>4, <1>5, <1>6, <1>7 DEF CallHasRecord
<1>11. ListedIsOver'
  BY <1>1, <1>4, <1>5, <1>6, <1>7 DEF ListedIsOver, Effective
<1>12. QED
  BY <1>3, <1>8, <1>9, <1>10, <1>11 DEF RecordInv

\* initialize settles what the last process left open.
LEMMA InitializeRecords ==
    ASSUME IInv, ControlInv', Initialize
    PROVE  RecordInv' /\ Final
<1> USE EffectJournalAssumption
<1> DEFINE w == Restarted(disk)
<1>1. /\ app = "down"
      /\ \/ Published(w) /\ app' = "starting"
         \/ Failed(w) /\ app' = "down"
      /\ UNCHANGED <<localUnknown, phase, tool, tracked, listed, inFlight, kept,
                     stage, ran>>
  BY DEF Initialize, harnessVars, recoveryVars, journalVars
<1>2. /\ localUnknown = {}
      /\ \A r \in Runs : phase[r] \in {"idle", "done"} /\ listed[r] = {}
      /\ \A e \in Effects : inFlight[e] = "none"
      /\ \A e \in Effects : tool[e] \notin {"prepared", "dispatched", "executed"}
  <2>1. localUnknown = {} /\ \A r \in Runs : phase[r] \in {"idle", "done"}
    BY <1>1 DEF IInv, ControlInv, Resting
  <2>2. \A r \in Runs : listed[r] = {}
    BY <2>1 DEF IInv, ControlInv, ListedKept
  <2>3. \A e \in Effects : inFlight[e] = "none"
    BY <2>2 DEF IInv, ControlInv, InFlightListed
  <2>4. \A e \in Effects : tool[e] \notin {"prepared", "dispatched", "executed"}
    BY <2>1 DEF IInv, ControlInv, ToolControl
  <2>5. QED
    BY <2>1, <2>2, <2>3, <2>4
<1>3. SoundDatabase(disk) /\ Follows(disk) /\ Remembers(disk)
  BY DEF IInv, RecordInv
<1>4. \A e \in Effects :
         LET old == disk.effect[e]
             new == w.effect[e]
         IN  \/ old.state \notin {"prepared", "dispatch_started"} /\ new = old
             \/ /\ old.state = "prepared"
                /\ new.state = "cancelled_before_dispatch"
                /\ new.recorded = old.recorded
             \/ /\ old.state = "dispatch_started"
                /\ new.state \in Outcomes
                /\ new.recorded = old.recorded
  <2>1. \A e \in Effects : disk.effect[e] \in EffectRecord
    BY DEF IInv, TypeOK, Database
  <2>2. ASSUME NEW e \in Effects, NEW record \in EffectRecord,
               record.state = "prepared"
        PROVE  /\ RestartEffect(e, record).state = "cancelled_before_dispatch"
               /\ RestartEffect(e, record).recorded = record.recorded
    BY <2>2 DEF RestartEffect, EffectRecord
  <2>3. ASSUME NEW e \in Effects, NEW record \in EffectRecord,
               record.state = "dispatch_started"
        PROVE  /\ RestartEffect(e, record).state \in Outcomes
               /\ RestartEffect(e, record).recorded = record.recorded
    BY <2>3 DEF RestartEffect, EffectRecord, Outcomes
  <2>4. ASSUME NEW e \in Effects, NEW record \in EffectRecord,
               record.state \notin {"prepared", "dispatch_started"}
        PROVE  RestartEffect(e, record) = record
    BY <2>4 DEF RestartEffect
  <2>5. \A e \in Effects : w.effect[e] = RestartEffect(e, disk.effect[e])
    BY DEF Restarted
  <2> HIDE DEF w
  <2>6. QED
    BY <2>1, <2>2, <2>3, <2>4, <2>5
<1> HIDE DEF w
<1>5. disk' \in {disk, w}
  BY <1>1 DEF Published, Failed
<1>6. SoundDatabase(w)
  <2>1. \A e \in Effects : tool[e] = "idle" => w.effect[e] = NoEffect
    BY <1>3, <1>4 DEF SoundDatabase, NoEffect
  <2>2. \A e \in Effects : w.effect[e].recorded => w.effect[e].state \in Terminal
    BY <1>3, <1>4 DEF SoundDatabase, Terminal
  <2>3. SettledOperation(w)
    BY <1>4 DEF SettledOperation, Outcomes
  <2>4. QED
    BY <2>1, <2>2, <2>3 DEF SoundDatabase
<1>7. Follows(w)
  BY <1>3, <1>4 DEF Follows, SoundDatabase, NoEffect, Terminal, Outcomes
<1>8. Remembers(w)
  <2>1. Entered \subseteq Effects
    BY DEF Entered, IInv, TypeOK
  <2>2. QED
    BY <1>3, <1>4, <2>1 DEF Remembers, Evidence, Dispatched, Outcomes
<1>9. Entered' = Entered
  BY <1>1 DEF Entered
<1>10. SoundDatabase(disk)' /\ Remembers(disk)'
  BY <1>1, <1>3, <1>5, <1>6, <1>8, <1>9
  DEF SoundDatabase, SettledOperation, Remembers, Evidence
<1>11. Follows(disk)' /\ Final
  BY <1>1, <1>3, <1>5, <1>7 DEF Follows, Final, Published, Failed
<1>12. app' # "down" => SoundDatabase(cache)' /\ Remembers(cache)'
  BY <1>1, <1>6, <1>8, <1>9
  DEF SoundDatabase, SettledOperation, Remembers, Evidence, Published
<1>13. LocalIsDispatched' /\ CallHasRecord' /\ ListedIsOver'
  BY <1>1, <1>2 DEF LocalIsDispatched, CallHasRecord, ListedIsOver
<1>14. DispatchedIsTracked'
  BY <1>1, <1>4 DEF DispatchedIsTracked, Published, Outcomes
<1>15. QED
  BY <1>10, <1>11, <1>12, <1>13, <1>14 DEF RecordInv

\* A crash loses the memory and keeps the file.
LEMMA CrashRecords ==
    ASSUME IInv, ControlInv', Crash
    PROVE  RecordInv' /\ Final
<1> USE EffectJournalAssumption
<1>1. /\ app' = "down" /\ localUnknown' = {}
      /\ \A e \in Effects : tool'[e] = "idle" => tool[e] = "idle"
      /\ \A e \in Effects : tool'[e] \in {"idle", "settled"}
      /\ \A r \in Runs : listed'[r] = {}
      /\ \A e \in Effects : inFlight'[e] = "none"
      /\ UNCHANGED <<disk, cache, kept, stage, ran>>
  <2>1. \A e \in Effects : phase[RunOf[e]] = "idle" => tool[e] = "idle"
    BY DEF IInv, ControlInv, ToolControl
  <2>2. QED
    BY <2>1 DEF Crash
<1>2. Entered' \subseteq Entered
  BY <1>1 DEF Entered
<1>3. SoundDatabase(disk)' /\ Follows(disk)' /\ Remembers(disk)' /\ Final
  BY <1>1, <1>2, NoWriteKeeps
<1>4. /\ LocalIsDispatched' /\ DispatchedIsTracked' /\ CallHasRecord'
      /\ ListedIsOver'
  BY <1>1 DEF LocalIsDispatched, DispatchedIsTracked, CallHasRecord, ListedIsOver
<1>5. QED
  BY <1>1, <1>3, <1>4 DEF RecordInv

\* A step of a run, a turn or a chat that touches no record: it ends no run
\* that still tracks a call, and forgets nothing of a live chat.
LEMMA QuietRecords ==
    ASSUME IInv, ControlInv',
           UNCHANGED <<disk, cache, localUnknown, app, tracked, listed, inFlight,
                       ran>>,
           \A e \in Effects :
              \/ tool'[e] = tool[e]
              \/ tool[e] # "idle" /\ tool'[e] = "settled",
           \A r \in Runs :
              phase[r] \in {"active", "closing"} => phase'[r] \in {"active", "closing"},
           \A c \in Chats : stage'[c] = "live" => stage[c] = "live",
           \A e \in kept : stage'[EffectChat(e)] = "live" => e \in kept'
    PROVE  RecordInv' /\ Final
<1> USE EffectJournalAssumption
<1>1. Tracking'
  BY TrackingKept
<1>2. Entered' \subseteq Entered /\ Entered \subseteq Effects
  BY DEF Entered, IInv, TypeOK
<1>3. /\ SoundDatabase(disk)' /\ Follows(disk)' /\ Remembers(disk)'
      /\ app' # "down" => SoundDatabase(cache)' /\ Remembers(cache)'
      /\ Final
  <2>1. \A e \in Entered' : stage'[EffectChat(e)] = "live" =>
           /\ e \in Entered /\ stage[EffectChat(e)] = "live"
           /\ e \in kept => e \in kept'
    BY <1>2 DEF EffectChat
  <2>2. \A e \in Effects : tool'[e] = "idle" => tool[e] = "idle"
    OBVIOUS
  <2>3. QED
    BY <2>1, <2>2, NoWriteKeeps
<1>4. QED
  BY <1>1, <1>3 DEF Tracking, RecordInv

\* listEffectsNeedingRecoveryByChat lists what is over and unrecorded.
LEMMA ListRecoveryRecords ==
    ASSUME IInv, ControlInv', NEW r \in Runs, ListRecovery(r)
    PROVE  RecordInv' /\ Final
<1> USE EffectJournalAssumption
<1>1. /\ listed' = [listed EXCEPT ![r] = NeedingRecovery(ChatOf[r])]
      /\ phase[r] = "idle" /\ phase' = [phase EXCEPT ![r] = "listed"]
      /\ UNCHANGED <<disk, cache, localUnknown, app, tool, tracked, inFlight,
                     kept, stage, ran>>
  BY DEF ListRecovery, storeVars, journalVars
<1>2. /\ SoundDatabase(disk)' /\ Follows(disk)' /\ Remembers(disk)'
      /\ app' # "down" => SoundDatabase(cache)' /\ Remembers(cache)'
      /\ Final
  BY <1>1, NoWriteKeeps DEF Entered
<1>3. /\ LocalIsDispatched /\ DispatchedIsTracked /\ CallHasRecord
      /\ ListedIsOver
  BY DEF IInv, RecordInv
<1>4. LocalIsDispatched' /\ CallHasRecord'
  BY <1>1, <1>3 DEF LocalIsDispatched, CallHasRecord
<1>5. DispatchedIsTracked'
  BY <1>1, <1>3 DEF DispatchedIsTracked, IInv, TypeOK
<1>6. ListedIsOver'
  <2>1. \A s \in Runs :
           listed'[s] = IF s = r THEN NeedingRecovery(ChatOf[r]) ELSE listed[s]
    BY <1>1 DEF IInv, TypeOK
  <2>2. QED
    BY <1>1, <1>3, <2>1 DEF ListedIsOver, Effective, NeedingRecovery
<1>7. QED
  BY <1>2, <1>4, <1>5, <1>6 DEF RecordInv

\* markRecoveryRecorded captures the local evidence there is when it is called.
LEMMA CallMarkRecords ==
    ASSUME IInv, ControlInv', NEW r \in Runs, NEW e \in Effects, CallMark(r, e)
    PROVE  RecordInv' /\ Final
<1> USE EffectJournalAssumption
<1>1. /\ inFlight' = [inFlight EXCEPT ![e] =
                         IF e \in localUnknown THEN "local" ELSE "durable"]
      /\ UNCHANGED <<disk, cache, localUnknown, app, phase, tool, tracked,
                     listed, kept, stage, ran>>
  BY DEF CallMark, storeVars, harnessVars, journalVars
<1>2. /\ SoundDatabase(disk)' /\ Follows(disk)' /\ Remembers(disk)'
      /\ app' # "down" => SoundDatabase(cache)' /\ Remembers(cache)'
      /\ Final
  BY <1>1, NoWriteKeeps DEF Entered
<1>3. /\ LocalIsDispatched /\ DispatchedIsTracked /\ CallHasRecord
      /\ ListedIsOver
  BY DEF IInv, RecordInv
<1>4. LocalIsDispatched' /\ DispatchedIsTracked' /\ CallHasRecord'
  BY <1>1, <1>3 DEF LocalIsDispatched, DispatchedIsTracked, CallHasRecord
<1>5. ListedIsOver'
  BY <1>1, <1>3 DEF ListedIsOver, Effective, IInv, TypeOK
<1>6. QED
  BY <1>2, <1>4, <1>5 DEF RecordInv

\* A tool that is entered was remembered since its dispatch.
LEMMA EnterToolRecords ==
    ASSUME IInv, ControlInv', NEW e \in Effects, EnterTool(e)
    PROVE  RecordInv' /\ Final
<1> USE EffectJournalAssumption
<1>1. /\ tool[e] = "dispatched" /\ tool' = [tool EXCEPT ![e] = "executed"]
      /\ ran' = ran \cup {e}
      /\ UNCHANGED <<disk, cache, localUnknown, app, phase, tracked, listed,
                     inFlight, kept, stage>>
  BY DEF EnterTool, ActiveTool, storeVars, recoveryVars, journalVars
<1>2. Tracking'
  BY <1>1, TrackingKept DEF IInv, TypeOK
<1>3. Entered' \subseteq Entered
  BY <1>1 DEF Entered, IInv, TypeOK
<1>4. /\ SoundDatabase(disk)' /\ Follows(disk)' /\ Remembers(disk)'
      /\ app' # "down" => SoundDatabase(cache)' /\ Remembers(cache)'
      /\ Final
  <2>1. \A x \in Effects : tool'[x] = "idle" => tool[x] = "idle"
    BY <1>1 DEF IInv, TypeOK
  <2>2. QED
    BY <1>1, <1>3, <2>1, NoWriteKeeps
<1>5. QED
  BY <1>2, <1>4 DEF Tracking, RecordInv

\* The steps of a run before and after its tools that touch no record.
LEMMA RunRecords ==
    ASSUME IInv, ControlInv', NEW r \in Runs,
           \/ RecordBoundary(r) \/ RecoveryDone(r) \/ BeginChild(r)
           \/ RefuseOperation(r) \/ OpenTurn(r) \/ Abort(r) \/ BeginFinish(r)
           \/ CommitTurn(r) \/ RollbackTurn(r)
    PROVE  RecordInv' /\ Final
<1>1. /\ UNCHANGED <<disk, cache, localUnknown, app, tool, tracked, listed,
                     inFlight, stage, ran>>
      /\ \/ phase' = phase
         \/ phase[r] \notin {"active", "closing"}
            /\ \E p \in Phases : phase' = [phase EXCEPT ![r] = p]
         \/ phase' = [phase EXCEPT ![r] = "closing"]
      /\ kept \subseteq kept'
  BY DEF RecordBoundary, RecoveryDone, BeginChild, RefuseOperation, OpenTurn,
         Abort, BeginFinish, CommitTurn, RollbackTurn, storeVars, recoveryVars,
         journalVars, Phases
<1>2. \A s \in Runs : phase[s] \in {"active", "closing"} =>
                         phase'[s] \in {"active", "closing"}
  BY <1>1 DEF IInv, TypeOK
<1>3. QED
  BY <1>1, <1>2, QuietRecords

\* A call that is dropped, or whose result was appended, is settled.
LEMMA ToolRecords ==
    ASSUME IInv, ControlInv', NEW e \in Effects, DropTool(e) \/ AppendResult(e)
    PROVE  RecordInv' /\ Final
<1>1. /\ UNCHANGED <<disk, cache, localUnknown, app, phase, tracked, listed,
                     inFlight, kept, stage, ran>>
      /\ tool[e] # "idle" /\ tool' = [tool EXCEPT ![e] = "settled"]
  BY DEF DropTool, AppendResult, ActiveTool, storeVars, recoveryVars, journalVars
<1>2. \A x \in Effects : \/ tool'[x] = tool[x]
                         \/ tool[x] # "idle" /\ tool'[x] = "settled"
  BY <1>1 DEF IInv, TypeOK
<1>3. QED
  BY <1>1, <1>2, QuietRecords

\* The ends of a chat's deletion touch no record; only a chat that is no longer
\* live loses its branch.
LEMMA ChatRecords ==
    ASSUME IInv, ControlInv', NEW c \in Chats, BeginDelete(c) \/ RemoveChat(c)
    PROVE  RecordInv' /\ Final
<1> USE EffectJournalAssumption
<1>1. /\ UNCHANGED <<disk, cache, localUnknown, app, phase, tool, tracked, listed,
                     inFlight, ran>>
      /\ \E s \in {"deleting", "gone"} : stage' = [stage EXCEPT ![c] = s]
      /\ \/ kept' = kept
         \/ stage'[c] # "live" /\ kept' = {e \in kept : EffectChat(e) # c}
  BY DEF BeginDelete, RemoveChat, storeVars, harnessVars, recoveryVars,
         journalVars, IInv, TypeOK
<1>2. \A d \in Chats : stage'[d] = "live" => stage[d] = "live"
  BY <1>1 DEF IInv, TypeOK
<1>3. \A e \in kept : stage'[EffectChat(e)] = "live" => e \in kept'
  BY <1>1
<1>4. QED
  BY <1>1, <1>2, <1>3, QuietRecords

----------------------------------------------------------------------------
(* ControlInv.                                                             *)

\* A tool that was entered by a run that is over is either explained, or listed
\* by the next generation of its chat: its record says that it is over.
LEMMA ListRecoveryOwed ==
    ASSUME TypeOK, ControlInv, RecordInv, NEW r \in Runs, ListRecovery(r)
    PROVE  \A e \in ran :
              EffectChat(e) = ChatOf[r] /\ ~Live(RunOf[e]) =>
                  e \in kept \cup NeedingRecovery(ChatOf[r])
<1>1. ASSUME NEW e \in ran, EffectChat(e) = ChatOf[r], ~Live(RunOf[e]),
             e \notin kept
      PROVE  e \in NeedingRecovery(ChatOf[r])
  <2>1. /\ app = "up" /\ stage[EffectChat(e)] = "live" /\ e \in Effects
        /\ e \in Entered
    BY <1>1 DEF ListRecovery, TypeOK, Entered
  <2>2. cache.effect[e].state \in Dispatched /\ ~cache.effect[e].recorded
    BY <1>1, <2>1 DEF RecordInv, Remembers, Evidence
  <2>3. e \notin localUnknown => cache.effect[e].state # "dispatch_started"
    BY <1>1, <2>1 DEF RecordInv, DispatchedIsTracked, Live
  <2>4. Effective(e).state \in Outcomes /\ ~Effective(e).recorded
    BY <2>2, <2>3 DEF Effective, LocalUnknown, Dispatched, Outcomes
  <2>5. QED
    BY <1>1, <2>1, <2>4 DEF NeedingRecovery
<1>2. QED
  BY <1>1

\* A call stays under way only in an active run, whatever step is taken.
LEMMA ToolControlStep ==
    ASSUME TypeOK, ControlInv, RecordInv, [Next]_vars
    PROVE  ToolControl'
<1> USE EffectJournalAssumption
<1>1. CASE Initialize \/ ReconcileChats
  BY <1>1 DEF Initialize, ReconcileChats, TypeOK, ControlInv, ToolControl, Quiet,
             EffectsOf, FinishEffect, EffectChat, storeVars, harnessVars,
             recoveryVars, journalVars
<1>2. CASE Crash
  <2>1. \A e \in Effects : RunOf[e] \in Runs
    OBVIOUS
  <2>2. \A e \in ran : phase[RunOf[e]] # "idle"
    BY <2>1 DEF TypeOK, ControlInv, ToolControl
  <2>3. /\ \A e \in Effects : tool'[e] = IF phase[RunOf[e]] = "idle" THEN "idle"
                                                                  ELSE "settled"
        /\ \A r \in Runs : phase'[r] = IF phase[r] = "idle" THEN "idle" ELSE "done"
        /\ ran' = ran
    BY <1>2 DEF Crash
  <2>4. QED
    BY <2>1, <2>2, <2>3 DEF ToolControl
<1>3. ASSUME NEW r \in Runs, RunStep(r)
      PROVE  ToolControl'
  <2>1. CASE ListRecovery(r)
    BY <2>1 DEF ListRecovery, TypeOK, ControlInv, ToolControl, Quiet, EffectsOf,
               FinishEffect, EffectChat, storeVars, harnessVars, recoveryVars,
               journalVars
  <2>2. CASE RecordBoundary(r) \/ FailRecovery(r) \/ RecoveryDone(r)
    BY <2>2 DEF RecordBoundary, FailRecovery, RecoveryDone, TypeOK, ControlInv,
               ToolControl, Quiet, EffectsOf, FinishEffect, EffectChat,
               storeVars, harnessVars, recoveryVars, journalVars
  <2>3. CASE BeginChild(r) \/ StartOperation(r) \/ RefuseOperation(r)
    BY <2>3 DEF BeginChild, StartOperation, RefuseOperation, TypeOK, ControlInv,
               ToolControl, Quiet, EffectsOf, FinishEffect, EffectChat,
               storeVars, harnessVars, recoveryVars, journalVars
  <2>4. CASE OpenTurn(r) \/ Abort(r) \/ BeginFinish(r)
    BY <2>4 DEF OpenTurn, Abort, BeginFinish, TypeOK, ControlInv, ToolControl,
               Quiet, EffectsOf, FinishEffect, EffectChat, storeVars,
               harnessVars, recoveryVars, journalVars
  <2>5. CASE FinishOperation(r) \/ Acknowledge(r)
    BY <2>5 DEF FinishOperation, Acknowledge, TypeOK, ControlInv, ToolControl,
               Quiet, EffectsOf, FinishEffect, EffectChat, storeVars,
               harnessVars, recoveryVars, journalVars
  <2>6. CASE CommitTurn(r)
    BY <2>6 DEF CommitTurn, TypeOK, ControlInv, ToolControl, Quiet, EffectsOf,
               FinishEffect, EffectChat, storeVars, harnessVars, recoveryVars,
               journalVars
  <2>7. CASE RollbackTurn(r)
    BY <2>7 DEF RollbackTurn, TypeOK, ControlInv, ToolControl, Quiet, EffectsOf,
               FinishEffect, EffectChat, storeVars, harnessVars, recoveryVars,
               journalVars
  <2>8. ASSUME NEW e \in Effects, CallMark(r, e) \/ ApplyMark(r, e)
        PROVE  ToolControl'
    BY <2>8 DEF CallMark, ApplyMark, TypeOK, ControlInv, ToolControl, Quiet,
               EffectsOf, FinishEffect, EffectChat, storeVars, harnessVars,
               recoveryVars, journalVars
  <2>9. QED
    BY <1>3, <2>1, <2>2, <2>3, <2>4, <2>5, <2>6, <2>7, <2>8 DEF RunStep
<1>4. ASSUME NEW e \in Effects, ToolStep(e)
      PROVE  ToolControl'
  <2>1. CASE PrepareEffect(e) \/ CancelPrepared(e) \/ MarkDispatchStarted(e)
    BY <2>1 DEF PrepareEffect, CancelPrepared, MarkDispatchStarted, ActiveTool,
               AbortRun, TypeOK, ControlInv, ToolControl, Quiet, EffectsOf,
               FinishEffect, EffectChat, storeVars, harnessVars, recoveryVars,
               journalVars
  <2>2. CASE EnterTool(e) \/ DropTool(e)
    BY <2>2 DEF EnterTool, DropTool, ActiveTool, AbortRun, TypeOK, ControlInv,
               ToolControl, Quiet, EffectsOf, FinishEffect, EffectChat,
               storeVars, harnessVars, recoveryVars, journalVars
  <2>3. CASE FinishTool(e)
    BY <2>3 DEF FinishTool, ActiveTool, AbortRun, TypeOK, ControlInv, ToolControl,
               Quiet, EffectsOf, FinishEffect, EffectChat, storeVars,
               harnessVars, recoveryVars, journalVars
  <2>4. CASE AppendResult(e)
    BY <2>4 DEF AppendResult, ActiveTool, AbortRun, TypeOK, ControlInv,
               ToolControl, Quiet, EffectsOf, FinishEffect, EffectChat,
               storeVars, harnessVars, recoveryVars, journalVars
  <2>5. CASE SettleTracked(e)
    BY <2>5 DEF SettleTracked, ActiveTool, AbortRun, TypeOK, ControlInv,
               ToolControl, Quiet, EffectsOf, FinishEffect, EffectChat,
               storeVars, harnessVars, recoveryVars, journalVars
  <2>6. QED
    BY <1>4, <2>1, <2>2, <2>3, <2>4, <2>5 DEF ToolStep
<1>5. ASSUME NEW c \in Chats, ChatStep(c)
      PROVE  ToolControl'
  BY <1>5 DEF ChatStep, BeginDelete, DeleteEffects, RemoveChat, TypeOK,
              ControlInv, ToolControl, Quiet, EffectsOf, FinishEffect,
              EffectChat, storeVars, harnessVars, recoveryVars, journalVars
<1>6. CASE UNCHANGED vars
  BY <1>6 DEF vars, TypeOK, ControlInv, ToolControl, Quiet, EffectsOf,
              FinishEffect, EffectChat, storeVars, harnessVars, recoveryVars,
              journalVars
<1>7. QED
  BY <1>1, <1>2, <1>3, <1>4, <1>5, <1>6 DEF Next

\* Children never recover, hold a turn or commit.
LEMMA LanesStep ==
    ASSUME TypeOK, ControlInv, RecordInv, [Next]_vars
    PROVE  Lanes'
<1> USE EffectJournalAssumption
<1>1. CASE Initialize \/ ReconcileChats
  BY <1>1 DEF Initialize, ReconcileChats, TypeOK, ControlInv, Lanes,
             OpenTurnKeepsResults, EffectsOf, EffectChat, storeVars,
             harnessVars, recoveryVars, journalVars
<1>2. CASE Crash
  BY <1>2 DEF Crash, TypeOK, ControlInv, Lanes, OpenTurnKeepsResults, EffectsOf,
             EffectChat, storeVars, harnessVars, recoveryVars, journalVars
<1>3. ASSUME NEW r \in Runs, RunStep(r)
      PROVE  Lanes'
  <2>1. CASE ListRecovery(r)
    BY <2>1 DEF ListRecovery, TypeOK, ControlInv, Lanes, OpenTurnKeepsResults,
               EffectsOf, EffectChat, storeVars, harnessVars, recoveryVars,
               journalVars
  <2>2. CASE RecordBoundary(r) \/ FailRecovery(r) \/ RecoveryDone(r)
    BY <2>2 DEF RecordBoundary, FailRecovery, RecoveryDone, TypeOK, ControlInv,
               Lanes, OpenTurnKeepsResults, EffectsOf, EffectChat, storeVars,
               harnessVars, recoveryVars, journalVars
  <2>3. CASE BeginChild(r) \/ StartOperation(r) \/ RefuseOperation(r)
    BY <2>3 DEF BeginChild, StartOperation, RefuseOperation, TypeOK, ControlInv,
               Lanes, OpenTurnKeepsResults, EffectsOf, EffectChat, storeVars,
               harnessVars, recoveryVars, journalVars
  <2>4. CASE OpenTurn(r) \/ Abort(r) \/ BeginFinish(r)
    BY <2>4 DEF OpenTurn, Abort, BeginFinish, TypeOK, ControlInv, Lanes,
               OpenTurnKeepsResults, EffectsOf, EffectChat, storeVars,
               harnessVars, recoveryVars, journalVars
  <2>5. CASE FinishOperation(r) \/ Acknowledge(r)
    BY <2>5 DEF FinishOperation, Acknowledge, TypeOK, ControlInv, Lanes,
               OpenTurnKeepsResults, EffectsOf, EffectChat, storeVars,
               harnessVars, recoveryVars, journalVars
  <2>6. CASE CommitTurn(r)
    BY <2>6 DEF CommitTurn, TypeOK, ControlInv, Lanes, OpenTurnKeepsResults,
               EffectsOf, EffectChat, storeVars, harnessVars, recoveryVars,
               journalVars
  <2>7. CASE RollbackTurn(r)
    BY <2>7 DEF RollbackTurn, TypeOK, ControlInv, Lanes, OpenTurnKeepsResults,
               EffectsOf, EffectChat, storeVars, harnessVars, recoveryVars,
               journalVars
  <2>8. ASSUME NEW e \in Effects, CallMark(r, e) \/ ApplyMark(r, e)
        PROVE  Lanes'
    BY <2>8 DEF CallMark, ApplyMark, TypeOK, ControlInv, Lanes,
               OpenTurnKeepsResults, EffectsOf, EffectChat, storeVars,
               harnessVars, recoveryVars, journalVars
  <2>9. QED
    BY <1>3, <2>1, <2>2, <2>3, <2>4, <2>5, <2>6, <2>7, <2>8 DEF RunStep
<1>4. ASSUME NEW e \in Effects, ToolStep(e)
      PROVE  Lanes'
  <2>1. CASE PrepareEffect(e) \/ CancelPrepared(e) \/ MarkDispatchStarted(e)
    BY <2>1 DEF PrepareEffect, CancelPrepared, MarkDispatchStarted, ActiveTool,
               AbortRun, TypeOK, ControlInv, Lanes, OpenTurnKeepsResults,
               EffectsOf, EffectChat, storeVars, harnessVars, recoveryVars,
               journalVars
  <2>2. CASE EnterTool(e) \/ DropTool(e)
    BY <2>2 DEF EnterTool, DropTool, ActiveTool, AbortRun, TypeOK, ControlInv,
               Lanes, OpenTurnKeepsResults, EffectsOf, EffectChat, storeVars,
               harnessVars, recoveryVars, journalVars
  <2>3. CASE FinishTool(e)
    BY <2>3 DEF FinishTool, ActiveTool, AbortRun, TypeOK, ControlInv, Lanes,
               OpenTurnKeepsResults, EffectsOf, EffectChat, storeVars,
               harnessVars, recoveryVars, journalVars
  <2>4. CASE AppendResult(e)
    BY <2>4 DEF AppendResult, ActiveTool, AbortRun, TypeOK, ControlInv, Lanes,
               OpenTurnKeepsResults, EffectsOf, EffectChat, storeVars,
               harnessVars, recoveryVars, journalVars
  <2>5. CASE SettleTracked(e)
    BY <2>5 DEF SettleTracked, ActiveTool, AbortRun, TypeOK, ControlInv, Lanes,
               OpenTurnKeepsResults, EffectsOf, EffectChat, storeVars,
               harnessVars, recoveryVars, journalVars
  <2>6. QED
    BY <1>4, <2>1, <2>2, <2>3, <2>4, <2>5 DEF ToolStep
<1>5. ASSUME NEW c \in Chats, ChatStep(c)
      PROVE  Lanes'
  BY <1>5 DEF ChatStep, BeginDelete, DeleteEffects, RemoveChat, TypeOK,
              ControlInv, Lanes, OpenTurnKeepsResults, EffectsOf, EffectChat,
              storeVars, harnessVars, recoveryVars, journalVars
<1>6. CASE UNCHANGED vars
  BY <1>6 DEF vars, TypeOK, ControlInv, Lanes, OpenTurnKeepsResults, EffectsOf,
              EffectChat, storeVars, harnessVars, recoveryVars, journalVars
<1>7. QED
  BY <1>1, <1>2, <1>3, <1>4, <1>5, <1>6 DEF Next

\* Admission keeps a chat to one foreground generation.
LEMMA OneGenerationStep ==
    ASSUME TypeOK, ControlInv, RecordInv, [Next]_vars
    PROVE  OneGeneration'
<1> USE EffectJournalAssumption
<1>1. CASE Initialize \/ ReconcileChats
  BY <1>1 DEF Initialize, ReconcileChats, TypeOK, ControlInv, OneGeneration,
             Busy, ChatBusy, RunsOf, Lanes, EffectChat, storeVars, harnessVars,
             recoveryVars, journalVars
<1>2. CASE Crash
  BY <1>2 DEF Crash, TypeOK, ControlInv, OneGeneration, Busy, ChatBusy, RunsOf,
             Lanes, EffectChat, storeVars, harnessVars, recoveryVars,
             journalVars
<1>3. ASSUME NEW r \in Runs, RunStep(r)
      PROVE  OneGeneration'
  <2>1. CASE ListRecovery(r)
    BY <2>1 DEF ListRecovery, TypeOK, ControlInv, OneGeneration, Busy, ChatBusy,
               RunsOf, Lanes, EffectChat, storeVars, harnessVars, recoveryVars,
               journalVars
  <2>2. CASE RecordBoundary(r) \/ FailRecovery(r) \/ RecoveryDone(r)
    <3>1. CASE RecordBoundary(r)
      BY <3>1
      DEF RecordBoundary, TypeOK, ControlInv, OneGeneration, Busy, ChatBusy,
          RunsOf, Lanes, EffectChat, storeVars, harnessVars, recoveryVars,
          journalVars
    <3>2. CASE FailRecovery(r)
      BY <3>2
      DEF FailRecovery, TypeOK, ControlInv, OneGeneration, Busy, ChatBusy,
          RunsOf, Lanes, EffectChat, storeVars, harnessVars, recoveryVars,
          journalVars
    <3>3. CASE RecoveryDone(r)
      BY <3>3
      DEF RecoveryDone, TypeOK, ControlInv, OneGeneration, Busy, ChatBusy,
          RunsOf, Lanes, EffectChat, storeVars, harnessVars, recoveryVars,
          journalVars
    <3>4. QED
      BY <2>2, <3>1, <3>2, <3>3
  <2>3. CASE BeginChild(r) \/ StartOperation(r) \/ RefuseOperation(r)
    BY <2>3 DEF BeginChild, StartOperation, RefuseOperation, TypeOK, ControlInv,
               OneGeneration, Busy, ChatBusy, RunsOf, Lanes, EffectChat,
               storeVars, harnessVars, recoveryVars, journalVars
  <2>4. CASE OpenTurn(r) \/ Abort(r) \/ BeginFinish(r)
    BY <2>4 DEF OpenTurn, Abort, BeginFinish, TypeOK, ControlInv, OneGeneration,
               Busy, ChatBusy, RunsOf, Lanes, EffectChat, storeVars,
               harnessVars, recoveryVars, journalVars
  <2>5. CASE FinishOperation(r) \/ Acknowledge(r)
    <3>1. CASE FinishOperation(r)
      BY <3>1
      DEF FinishOperation, TypeOK, ControlInv, OneGeneration, Busy,
          ChatBusy, RunsOf, Lanes, EffectChat, storeVars, harnessVars,
          recoveryVars, journalVars
    <3>2. CASE Acknowledge(r)
      BY <3>2
      DEF Acknowledge, TypeOK, ControlInv, OneGeneration, Busy, ChatBusy,
          RunsOf, Lanes, EffectChat, storeVars, harnessVars, recoveryVars,
          journalVars
    <3>3. QED
      BY <2>5, <3>1, <3>2
  <2>6. CASE CommitTurn(r)
    BY <2>6 DEF CommitTurn, TypeOK, ControlInv, OneGeneration, Busy, ChatBusy,
               RunsOf, Lanes, EffectChat, storeVars, harnessVars, recoveryVars,
               journalVars
  <2>7. CASE RollbackTurn(r)
    BY <2>7 DEF RollbackTurn, TypeOK, ControlInv, OneGeneration, Busy, ChatBusy,
               RunsOf, Lanes, EffectChat, storeVars, harnessVars, recoveryVars,
               journalVars
  <2>8. ASSUME NEW e \in Effects, CallMark(r, e) \/ ApplyMark(r, e)
        PROVE  OneGeneration'
    BY <2>8 DEF CallMark, ApplyMark, TypeOK, ControlInv, OneGeneration, Busy,
               ChatBusy, RunsOf, Lanes, EffectChat, storeVars, harnessVars,
               recoveryVars, journalVars
  <2>9. QED
    BY <1>3, <2>1, <2>2, <2>3, <2>4, <2>5, <2>6, <2>7, <2>8 DEF RunStep
<1>4. ASSUME NEW e \in Effects, ToolStep(e)
      PROVE  OneGeneration'
  <2>1. CASE PrepareEffect(e) \/ CancelPrepared(e) \/ MarkDispatchStarted(e)
    BY <2>1 DEF PrepareEffect, CancelPrepared, MarkDispatchStarted, ActiveTool,
               AbortRun, TypeOK, ControlInv, OneGeneration, Busy, ChatBusy,
               RunsOf, Lanes, EffectChat, storeVars, harnessVars, recoveryVars,
               journalVars
  <2>2. CASE EnterTool(e) \/ DropTool(e)
    BY <2>2 DEF EnterTool, DropTool, ActiveTool, AbortRun, TypeOK, ControlInv,
               OneGeneration, Busy, ChatBusy, RunsOf, Lanes, EffectChat,
               storeVars, harnessVars, recoveryVars, journalVars
  <2>3. CASE FinishTool(e)
    BY <2>3 DEF FinishTool, ActiveTool, AbortRun, TypeOK, ControlInv,
               OneGeneration, Busy, ChatBusy, RunsOf, Lanes, EffectChat,
               storeVars, harnessVars, recoveryVars, journalVars
  <2>4. CASE AppendResult(e)
    BY <2>4 DEF AppendResult, ActiveTool, AbortRun, TypeOK, ControlInv,
               OneGeneration, Busy, ChatBusy, RunsOf, Lanes, EffectChat,
               storeVars, harnessVars, recoveryVars, journalVars
  <2>5. CASE SettleTracked(e)
    BY <2>5 DEF SettleTracked, ActiveTool, AbortRun, TypeOK, ControlInv,
               OneGeneration, Busy, ChatBusy, RunsOf, Lanes, EffectChat,
               storeVars, harnessVars, recoveryVars, journalVars
  <2>6. QED
    BY <1>4, <2>1, <2>2, <2>3, <2>4, <2>5 DEF ToolStep
<1>5. ASSUME NEW c \in Chats, ChatStep(c)
      PROVE  OneGeneration'
  BY <1>5 DEF ChatStep, BeginDelete, DeleteEffects, RemoveChat, TypeOK,
              ControlInv, OneGeneration, Busy, ChatBusy, RunsOf, Lanes,
              EffectChat, storeVars, harnessVars, recoveryVars, journalVars
<1>6. CASE UNCHANGED vars
  BY <1>6 DEF vars, TypeOK, ControlInv, OneGeneration, Busy, ChatBusy, RunsOf,
              Lanes, EffectChat, storeVars, harnessVars, recoveryVars,
              journalVars
<1>7. QED
  BY <1>1, <1>2, <1>3, <1>4, <1>5, <1>6 DEF Next

\* A process that stops leaves no run under way.
LEMMA RestingStep ==
    ASSUME TypeOK, ControlInv, RecordInv, [Next]_vars
    PROVE  Resting'
<1> USE EffectJournalAssumption
<1>1. CASE Initialize \/ ReconcileChats
  BY <1>1 DEF Initialize, ReconcileChats, TypeOK, ControlInv, Resting,
             FinishEffect, EffectChat, storeVars, harnessVars, recoveryVars,
             journalVars
<1>2. CASE Crash
  BY <1>2 DEF Crash, TypeOK, ControlInv, Resting, FinishEffect, EffectChat,
             storeVars, harnessVars, recoveryVars, journalVars
<1>3. ASSUME NEW r \in Runs, RunStep(r)
      PROVE  Resting'
  <2>1. CASE ListRecovery(r)
    BY <2>1 DEF ListRecovery, TypeOK, ControlInv, Resting, FinishEffect,
               EffectChat, storeVars, harnessVars, recoveryVars, journalVars
  <2>2. CASE RecordBoundary(r) \/ FailRecovery(r) \/ RecoveryDone(r)
    BY <2>2 DEF RecordBoundary, FailRecovery, RecoveryDone, TypeOK, ControlInv,
               Resting, FinishEffect, EffectChat, storeVars, harnessVars,
               recoveryVars, journalVars
  <2>3. CASE BeginChild(r) \/ StartOperation(r) \/ RefuseOperation(r)
    BY <2>3 DEF BeginChild, StartOperation, RefuseOperation, TypeOK, ControlInv,
               Resting, FinishEffect, EffectChat, storeVars, harnessVars,
               recoveryVars, journalVars
  <2>4. CASE OpenTurn(r) \/ Abort(r) \/ BeginFinish(r)
    BY <2>4 DEF OpenTurn, Abort, BeginFinish, TypeOK, ControlInv, Resting,
               FinishEffect, EffectChat, storeVars, harnessVars, recoveryVars,
               journalVars
  <2>5. CASE FinishOperation(r) \/ Acknowledge(r)
    BY <2>5 DEF FinishOperation, Acknowledge, TypeOK, ControlInv, Resting,
               FinishEffect, EffectChat, storeVars, harnessVars, recoveryVars,
               journalVars
  <2>6. CASE CommitTurn(r)
    BY <2>6 DEF CommitTurn, TypeOK, ControlInv, Resting, FinishEffect, EffectChat,
               storeVars, harnessVars, recoveryVars, journalVars
  <2>7. CASE RollbackTurn(r)
    BY <2>7 DEF RollbackTurn, TypeOK, ControlInv, Resting, FinishEffect,
               EffectChat, storeVars, harnessVars, recoveryVars, journalVars
  <2>8. ASSUME NEW e \in Effects, CallMark(r, e) \/ ApplyMark(r, e)
        PROVE  Resting'
    BY <2>8 DEF CallMark, ApplyMark, TypeOK, ControlInv, Resting, FinishEffect,
               EffectChat, storeVars, harnessVars, recoveryVars, journalVars
  <2>9. QED
    BY <1>3, <2>1, <2>2, <2>3, <2>4, <2>5, <2>6, <2>7, <2>8 DEF RunStep
<1>4. ASSUME NEW e \in Effects, ToolStep(e)
      PROVE  Resting'
  <2>1. CASE PrepareEffect(e) \/ CancelPrepared(e) \/ MarkDispatchStarted(e)
    BY <2>1 DEF PrepareEffect, CancelPrepared, MarkDispatchStarted, ActiveTool,
               AbortRun, TypeOK, ControlInv, Resting, FinishEffect, EffectChat,
               storeVars, harnessVars, recoveryVars, journalVars
  <2>2. CASE EnterTool(e) \/ DropTool(e)
    BY <2>2 DEF EnterTool, DropTool, ActiveTool, AbortRun, TypeOK, ControlInv,
               Resting, FinishEffect, EffectChat, storeVars, harnessVars,
               recoveryVars, journalVars
  <2>3. CASE FinishTool(e)
    BY <2>3 DEF FinishTool, ActiveTool, AbortRun, TypeOK, ControlInv, Resting,
               FinishEffect, EffectChat, storeVars, harnessVars, recoveryVars,
               journalVars
  <2>4. CASE AppendResult(e)
    BY <2>4 DEF AppendResult, ActiveTool, AbortRun, TypeOK, ControlInv, Resting,
               FinishEffect, EffectChat, storeVars, harnessVars, recoveryVars,
               journalVars
  <2>5. CASE SettleTracked(e)
    BY <2>5 DEF SettleTracked, ActiveTool, AbortRun, TypeOK, ControlInv, Resting,
               FinishEffect, EffectChat, storeVars, harnessVars, recoveryVars,
               journalVars
  <2>6. QED
    BY <1>4, <2>1, <2>2, <2>3, <2>4, <2>5 DEF ToolStep
<1>5. ASSUME NEW c \in Chats, ChatStep(c)
      PROVE  Resting'
  BY <1>5 DEF ChatStep, BeginDelete, DeleteEffects, RemoveChat, TypeOK,
              ControlInv, Resting, FinishEffect, EffectChat, storeVars,
              harnessVars, recoveryVars, journalVars
<1>6. CASE UNCHANGED vars
  BY <1>6 DEF vars, TypeOK, ControlInv, Resting, FinishEffect, EffectChat,
              storeVars, harnessVars, recoveryVars, journalVars
<1>7. QED
  BY <1>1, <1>2, <1>3, <1>4, <1>5, <1>6 DEF Next

\* Listed effects stay in their chat and are explained before a mark.
LEMMA ListedKeptStep ==
    ASSUME TypeOK, ControlInv, RecordInv, [Next]_vars
    PROVE  ListedKept'
<1> USE EffectJournalAssumption
<1>1. CASE Initialize \/ ReconcileChats
  BY <1>1 DEF Initialize, ReconcileChats, TypeOK, ControlInv, ListedKept,
             OneGeneration, Busy, Lanes, NeedingRecovery, EffectChat,
             storeVars, harnessVars, recoveryVars, journalVars
<1>2. CASE Crash
  BY <1>2 DEF Crash, TypeOK, ControlInv, ListedKept, OneGeneration, Busy, Lanes,
             NeedingRecovery, EffectChat, storeVars, harnessVars, recoveryVars,
             journalVars
<1>3. ASSUME NEW r \in Runs, RunStep(r)
      PROVE  ListedKept'
  <2>1. CASE ListRecovery(r)
    BY <2>1 DEF ListRecovery, TypeOK, ControlInv, ListedKept, OneGeneration, Busy,
               Lanes, NeedingRecovery, EffectChat, storeVars, harnessVars,
               recoveryVars, journalVars
  <2>2. CASE RecordBoundary(r) \/ FailRecovery(r) \/ RecoveryDone(r)
    BY <2>2 DEF RecordBoundary, FailRecovery, RecoveryDone, TypeOK, ControlInv,
               ListedKept, OneGeneration, Busy, Lanes, NeedingRecovery,
               EffectChat, storeVars, harnessVars, recoveryVars, journalVars
  <2>3. CASE BeginChild(r) \/ StartOperation(r) \/ RefuseOperation(r)
    BY <2>3 DEF BeginChild, StartOperation, RefuseOperation, TypeOK, ControlInv,
               ListedKept, OneGeneration, Busy, Lanes, NeedingRecovery,
               EffectChat, storeVars, harnessVars, recoveryVars, journalVars
  <2>4. CASE OpenTurn(r) \/ Abort(r) \/ BeginFinish(r)
    BY <2>4 DEF OpenTurn, Abort, BeginFinish, TypeOK, ControlInv, ListedKept,
               OneGeneration, Busy, Lanes, NeedingRecovery, EffectChat,
               storeVars, harnessVars, recoveryVars, journalVars
  <2>5. CASE FinishOperation(r) \/ Acknowledge(r)
    BY <2>5 DEF FinishOperation, Acknowledge, TypeOK, ControlInv, ListedKept,
               OneGeneration, Busy, Lanes, NeedingRecovery, EffectChat,
               storeVars, harnessVars, recoveryVars, journalVars
  <2>6. CASE CommitTurn(r)
    BY <2>6 DEF CommitTurn, TypeOK, ControlInv, ListedKept, OneGeneration, Busy,
               Lanes, NeedingRecovery, EffectChat, storeVars, harnessVars,
               recoveryVars, journalVars
  <2>7. CASE RollbackTurn(r)
    BY <2>7 DEF RollbackTurn, TypeOK, ControlInv, ListedKept, OneGeneration, Busy,
               Lanes, NeedingRecovery, EffectChat, storeVars, harnessVars,
               recoveryVars, journalVars
  <2>8. ASSUME NEW e \in Effects, CallMark(r, e) \/ ApplyMark(r, e)
        PROVE  ListedKept'
    <3>1. CASE CallMark(r, e)
      BY <3>1
      DEF CallMark, TypeOK, ControlInv, ListedKept, OneGeneration, Busy,
          Lanes, NeedingRecovery, EffectChat, storeVars, harnessVars,
          recoveryVars, journalVars
    <3>2. CASE ApplyMark(r, e)
      BY <3>2
      DEF ApplyMark, TypeOK, ControlInv, ListedKept, OneGeneration, Busy,
          Lanes, NeedingRecovery, EffectChat, storeVars, harnessVars,
          recoveryVars, journalVars
    <3>3. QED
      BY <2>8, <3>1, <3>2
  <2>9. QED
    BY <1>3, <2>1, <2>2, <2>3, <2>4, <2>5, <2>6, <2>7, <2>8 DEF RunStep
<1>4. ASSUME NEW e \in Effects, ToolStep(e)
      PROVE  ListedKept'
  <2>1. CASE PrepareEffect(e) \/ CancelPrepared(e) \/ MarkDispatchStarted(e)
    BY <2>1 DEF PrepareEffect, CancelPrepared, MarkDispatchStarted, ActiveTool,
               AbortRun, TypeOK, ControlInv, ListedKept, OneGeneration, Busy,
               Lanes, NeedingRecovery, EffectChat, storeVars, harnessVars,
               recoveryVars, journalVars
  <2>2. CASE EnterTool(e) \/ DropTool(e)
    BY <2>2 DEF EnterTool, DropTool, ActiveTool, AbortRun, TypeOK, ControlInv,
               ListedKept, OneGeneration, Busy, Lanes, NeedingRecovery,
               EffectChat, storeVars, harnessVars, recoveryVars, journalVars
  <2>3. CASE FinishTool(e)
    BY <2>3 DEF FinishTool, ActiveTool, AbortRun, TypeOK, ControlInv, ListedKept,
               OneGeneration, Busy, Lanes, NeedingRecovery, EffectChat,
               storeVars, harnessVars, recoveryVars, journalVars
  <2>4. CASE AppendResult(e)
    BY <2>4 DEF AppendResult, ActiveTool, AbortRun, TypeOK, ControlInv, ListedKept,
               OneGeneration, Busy, Lanes, NeedingRecovery, EffectChat,
               storeVars, harnessVars, recoveryVars, journalVars
  <2>5. CASE SettleTracked(e)
    BY <2>5 DEF SettleTracked, ActiveTool, AbortRun, TypeOK, ControlInv,
               ListedKept, OneGeneration, Busy, Lanes, NeedingRecovery,
               EffectChat, storeVars, harnessVars, recoveryVars, journalVars
  <2>6. QED
    BY <1>4, <2>1, <2>2, <2>3, <2>4, <2>5 DEF ToolStep
<1>5. ASSUME NEW c \in Chats, ChatStep(c)
      PROVE  ListedKept'
  BY <1>5 DEF ChatStep, BeginDelete, DeleteEffects, RemoveChat, TypeOK,
              ControlInv, ListedKept, OneGeneration, Busy, Lanes,
              NeedingRecovery, EffectChat, storeVars, harnessVars,
              recoveryVars, journalVars
<1>6. CASE UNCHANGED vars
  BY <1>6 DEF vars, TypeOK, ControlInv, ListedKept, OneGeneration, Busy, Lanes,
              NeedingRecovery, EffectChat, storeVars, harnessVars,
              recoveryVars, journalVars
<1>7. QED
  BY <1>1, <1>2, <1>3, <1>4, <1>5, <1>6 DEF Next

\* No mark outlives the listing it was called for.
LEMMA InFlightListedStep ==
    ASSUME TypeOK, ControlInv, RecordInv, [Next]_vars
    PROVE  InFlightListed'
<1> USE EffectJournalAssumption
<1>1. CASE Initialize \/ ReconcileChats
  BY <1>1 DEF Initialize, ReconcileChats, TypeOK, ControlInv, InFlightListed,
             ListedKept, EffectChat, storeVars, harnessVars, recoveryVars,
             journalVars
<1>2. CASE Crash
  BY <1>2 DEF Crash, TypeOK, ControlInv, InFlightListed, ListedKept, EffectChat,
             storeVars, harnessVars, recoveryVars, journalVars
<1>3. ASSUME NEW r \in Runs, RunStep(r)
      PROVE  InFlightListed'
  <2>1. CASE ListRecovery(r)
    BY <2>1 DEF ListRecovery, TypeOK, ControlInv, InFlightListed, ListedKept,
               EffectChat, storeVars, harnessVars, recoveryVars, journalVars
  <2>2. CASE RecordBoundary(r) \/ FailRecovery(r) \/ RecoveryDone(r)
    BY <2>2 DEF RecordBoundary, FailRecovery, RecoveryDone, TypeOK, ControlInv,
               InFlightListed, ListedKept, EffectChat, storeVars, harnessVars,
               recoveryVars, journalVars
  <2>3. CASE BeginChild(r) \/ StartOperation(r) \/ RefuseOperation(r)
    BY <2>3 DEF BeginChild, StartOperation, RefuseOperation, TypeOK, ControlInv,
               InFlightListed, ListedKept, EffectChat, storeVars, harnessVars,
               recoveryVars, journalVars
  <2>4. CASE OpenTurn(r) \/ Abort(r) \/ BeginFinish(r)
    BY <2>4 DEF OpenTurn, Abort, BeginFinish, TypeOK, ControlInv, InFlightListed,
               ListedKept, EffectChat, storeVars, harnessVars, recoveryVars,
               journalVars
  <2>5. CASE FinishOperation(r) \/ Acknowledge(r)
    BY <2>5 DEF FinishOperation, Acknowledge, TypeOK, ControlInv, InFlightListed,
               ListedKept, EffectChat, storeVars, harnessVars, recoveryVars,
               journalVars
  <2>6. CASE CommitTurn(r)
    BY <2>6 DEF CommitTurn, TypeOK, ControlInv, InFlightListed, ListedKept,
               EffectChat, storeVars, harnessVars, recoveryVars, journalVars
  <2>7. CASE RollbackTurn(r)
    BY <2>7 DEF RollbackTurn, TypeOK, ControlInv, InFlightListed, ListedKept,
               EffectChat, storeVars, harnessVars, recoveryVars, journalVars
  <2>8. ASSUME NEW e \in Effects, CallMark(r, e) \/ ApplyMark(r, e)
        PROVE  InFlightListed'
    <3>1. CASE CallMark(r, e)
      BY <3>1
      DEF CallMark, TypeOK, ControlInv, InFlightListed, ListedKept,
          EffectChat, storeVars, harnessVars, recoveryVars, journalVars
    <3>2. CASE ApplyMark(r, e)
      BY <3>2
      DEF ApplyMark, TypeOK, ControlInv, InFlightListed, ListedKept,
          EffectChat, storeVars, harnessVars, recoveryVars, journalVars
    <3>3. QED
      BY <2>8, <3>1, <3>2
  <2>9. QED
    BY <1>3, <2>1, <2>2, <2>3, <2>4, <2>5, <2>6, <2>7, <2>8 DEF RunStep
<1>4. ASSUME NEW e \in Effects, ToolStep(e)
      PROVE  InFlightListed'
  <2>1. CASE PrepareEffect(e) \/ CancelPrepared(e) \/ MarkDispatchStarted(e)
    BY <2>1 DEF PrepareEffect, CancelPrepared, MarkDispatchStarted, ActiveTool,
               AbortRun, TypeOK, ControlInv, InFlightListed, ListedKept,
               EffectChat, storeVars, harnessVars, recoveryVars, journalVars
  <2>2. CASE EnterTool(e) \/ DropTool(e)
    BY <2>2 DEF EnterTool, DropTool, ActiveTool, AbortRun, TypeOK, ControlInv,
               InFlightListed, ListedKept, EffectChat, storeVars, harnessVars,
               recoveryVars, journalVars
  <2>3. CASE FinishTool(e)
    BY <2>3 DEF FinishTool, ActiveTool, AbortRun, TypeOK, ControlInv,
               InFlightListed, ListedKept, EffectChat, storeVars, harnessVars,
               recoveryVars, journalVars
  <2>4. CASE AppendResult(e)
    BY <2>4 DEF AppendResult, ActiveTool, AbortRun, TypeOK, ControlInv,
               InFlightListed, ListedKept, EffectChat, storeVars, harnessVars,
               recoveryVars, journalVars
  <2>5. CASE SettleTracked(e)
    BY <2>5 DEF SettleTracked, ActiveTool, AbortRun, TypeOK, ControlInv,
               InFlightListed, ListedKept, EffectChat, storeVars, harnessVars,
               recoveryVars, journalVars
  <2>6. QED
    BY <1>4, <2>1, <2>2, <2>3, <2>4, <2>5 DEF ToolStep
<1>5. ASSUME NEW c \in Chats, ChatStep(c)
      PROVE  InFlightListed'
  BY <1>5 DEF ChatStep, BeginDelete, DeleteEffects, RemoveChat, TypeOK,
              ControlInv, InFlightListed, ListedKept, EffectChat, storeVars,
              harnessVars, recoveryVars, journalVars
<1>6. CASE UNCHANGED vars
  BY <1>6 DEF vars, TypeOK, ControlInv, InFlightListed, ListedKept, EffectChat,
              storeVars, harnessVars, recoveryVars, journalVars
<1>7. QED
  BY <1>1, <1>2, <1>3, <1>4, <1>5, <1>6 DEF Next

\* A call is settled in an open turn only with its result appended.
LEMMA OpenTurnKeepsResultsStep ==
    ASSUME TypeOK, ControlInv, RecordInv, [Next]_vars
    PROVE  OpenTurnKeepsResults'
<1> USE EffectJournalAssumption
<1>1. CASE Initialize \/ ReconcileChats
  BY <1>1 DEF Initialize, ReconcileChats, TypeOK, ControlInv,
             OpenTurnKeepsResults, ToolControl, Lanes, Quiet, EffectsOf,
             EffectChat, storeVars, harnessVars, recoveryVars, journalVars
<1>2. CASE Crash
  BY <1>2 DEF Crash, TypeOK, ControlInv, OpenTurnKeepsResults, ToolControl,
             Lanes, Quiet, EffectsOf, EffectChat, storeVars, harnessVars,
             recoveryVars, journalVars
<1>3. ASSUME NEW r \in Runs, RunStep(r)
      PROVE  OpenTurnKeepsResults'
  <2>1. CASE ListRecovery(r)
    BY <2>1 DEF ListRecovery, TypeOK, ControlInv, OpenTurnKeepsResults,
               ToolControl, Lanes, Quiet, EffectsOf, EffectChat, storeVars,
               harnessVars, recoveryVars, journalVars
  <2>2. CASE RecordBoundary(r) \/ FailRecovery(r) \/ RecoveryDone(r)
    BY <2>2 DEF RecordBoundary, FailRecovery, RecoveryDone, TypeOK, ControlInv,
               OpenTurnKeepsResults, ToolControl, Lanes, Quiet, EffectsOf,
               EffectChat, storeVars, harnessVars, recoveryVars, journalVars
  <2>3. CASE BeginChild(r) \/ StartOperation(r) \/ RefuseOperation(r)
    BY <2>3 DEF BeginChild, StartOperation, RefuseOperation, TypeOK, ControlInv,
               OpenTurnKeepsResults, ToolControl, Lanes, Quiet, EffectsOf,
               EffectChat, storeVars, harnessVars, recoveryVars, journalVars
  <2>4. CASE OpenTurn(r) \/ Abort(r) \/ BeginFinish(r)
    BY <2>4 DEF OpenTurn, Abort, BeginFinish, TypeOK, ControlInv,
               OpenTurnKeepsResults, ToolControl, Lanes, Quiet, EffectsOf,
               EffectChat, storeVars, harnessVars, recoveryVars, journalVars
  <2>5. CASE FinishOperation(r) \/ Acknowledge(r)
    BY <2>5 DEF FinishOperation, Acknowledge, TypeOK, ControlInv,
               OpenTurnKeepsResults, ToolControl, Lanes, Quiet, EffectsOf,
               EffectChat, storeVars, harnessVars, recoveryVars, journalVars
  <2>6. CASE CommitTurn(r)
    BY <2>6 DEF CommitTurn, TypeOK, ControlInv, OpenTurnKeepsResults, ToolControl,
               Lanes, Quiet, EffectsOf, EffectChat, storeVars, harnessVars,
               recoveryVars, journalVars
  <2>7. CASE RollbackTurn(r)
    BY <2>7 DEF RollbackTurn, TypeOK, ControlInv, OpenTurnKeepsResults,
               ToolControl, Lanes, Quiet, EffectsOf, EffectChat, storeVars,
               harnessVars, recoveryVars, journalVars
  <2>8. ASSUME NEW e \in Effects, CallMark(r, e) \/ ApplyMark(r, e)
        PROVE  OpenTurnKeepsResults'
    BY <2>8 DEF CallMark, ApplyMark, TypeOK, ControlInv, OpenTurnKeepsResults,
               ToolControl, Lanes, Quiet, EffectsOf, EffectChat, storeVars,
               harnessVars, recoveryVars, journalVars
  <2>9. QED
    BY <1>3, <2>1, <2>2, <2>3, <2>4, <2>5, <2>6, <2>7, <2>8 DEF RunStep
<1>4. ASSUME NEW e \in Effects, ToolStep(e)
      PROVE  OpenTurnKeepsResults'
  <2>1. CASE PrepareEffect(e) \/ CancelPrepared(e) \/ MarkDispatchStarted(e)
    BY <2>1 DEF PrepareEffect, CancelPrepared, MarkDispatchStarted, ActiveTool,
               AbortRun, TypeOK, ControlInv, OpenTurnKeepsResults, ToolControl,
               Lanes, Quiet, EffectsOf, EffectChat, storeVars, harnessVars,
               recoveryVars, journalVars
  <2>2. CASE EnterTool(e) \/ DropTool(e)
    BY <2>2 DEF EnterTool, DropTool, ActiveTool, AbortRun, TypeOK, ControlInv,
               OpenTurnKeepsResults, ToolControl, Lanes, Quiet, EffectsOf,
               EffectChat, storeVars, harnessVars, recoveryVars, journalVars
  <2>3. CASE FinishTool(e)
    BY <2>3 DEF FinishTool, ActiveTool, AbortRun, TypeOK, ControlInv,
               OpenTurnKeepsResults, ToolControl, Lanes, Quiet, EffectsOf,
               EffectChat, storeVars, harnessVars, recoveryVars, journalVars
  <2>4. CASE AppendResult(e)
    BY <2>4 DEF AppendResult, ActiveTool, AbortRun, TypeOK, ControlInv,
               OpenTurnKeepsResults, ToolControl, Lanes, Quiet, EffectsOf,
               EffectChat, storeVars, harnessVars, recoveryVars, journalVars
  <2>5. CASE SettleTracked(e)
    BY <2>5 DEF SettleTracked, ActiveTool, AbortRun, TypeOK, ControlInv,
               OpenTurnKeepsResults, ToolControl, Lanes, Quiet, EffectsOf,
               EffectChat, storeVars, harnessVars, recoveryVars, journalVars
  <2>6. QED
    BY <1>4, <2>1, <2>2, <2>3, <2>4, <2>5 DEF ToolStep
<1>5. ASSUME NEW c \in Chats, ChatStep(c)
      PROVE  OpenTurnKeepsResults'
  BY <1>5 DEF ChatStep, BeginDelete, DeleteEffects, RemoveChat, TypeOK,
              ControlInv, OpenTurnKeepsResults, ToolControl, Lanes, Quiet,
              EffectsOf, EffectChat, storeVars, harnessVars, recoveryVars,
              journalVars
<1>6. CASE UNCHANGED vars
  BY <1>6 DEF vars, TypeOK, ControlInv, OpenTurnKeepsResults, ToolControl, Lanes,
              Quiet, EffectsOf, EffectChat, storeVars, harnessVars,
              recoveryVars, journalVars
<1>7. QED
  BY <1>1, <1>2, <1>3, <1>4, <1>5, <1>6 DEF Next

\* Between its listing and its end a generation owes no explanation.
LEMMA OwedExplainedStep ==
    ASSUME TypeOK, ControlInv, RecordInv, [Next]_vars
    PROVE  OwedExplained'
<1> USE EffectJournalAssumption
<1>1. CASE Initialize \/ ReconcileChats
  BY <1>1 DEF Initialize, ReconcileChats, TypeOK, ControlInv, OwedExplained,
             Recovered, ListedKept, Lanes, OneGeneration, Busy, EffectChat,
             storeVars, harnessVars, recoveryVars, journalVars
<1>2. CASE Crash
  BY <1>2 DEF Crash, TypeOK, ControlInv, OwedExplained, Recovered, ListedKept,
             Lanes, OneGeneration, Busy, EffectChat, storeVars, harnessVars,
             recoveryVars, journalVars
<1>3. ASSUME NEW r \in Runs, RunStep(r)
      PROVE  OwedExplained'
  <2>1. CASE ListRecovery(r)
    <3>1. \A e \in ran :
             EffectChat(e) = ChatOf[r] /\ ~Live(RunOf[e]) =>
                 e \in kept \cup NeedingRecovery(ChatOf[r])
      BY <2>1, ListRecoveryOwed
    <3>2. QED
      BY <2>1, <3>1
      DEF ListRecovery, TypeOK, ControlInv, OwedExplained, Recovered, ListedKept,
          Lanes, OneGeneration, Busy, EffectChat, storeVars, harnessVars,
          recoveryVars, journalVars
  <2>2. CASE RecordBoundary(r) \/ FailRecovery(r) \/ RecoveryDone(r)
    BY <2>2 DEF RecordBoundary, FailRecovery, RecoveryDone, TypeOK, ControlInv,
               OwedExplained, Recovered, ListedKept, Lanes, OneGeneration,
               Busy, EffectChat, storeVars, harnessVars, recoveryVars,
               journalVars
  <2>3. CASE BeginChild(r) \/ StartOperation(r) \/ RefuseOperation(r)
    <3>1. CASE BeginChild(r)
      BY <3>1
      DEF BeginChild, TypeOK, ControlInv, OwedExplained, Recovered,
          ListedKept, Lanes, OneGeneration, Busy, EffectChat, storeVars,
          harnessVars, recoveryVars, journalVars
    <3>2. CASE StartOperation(r)
      BY <3>2
      DEF StartOperation, TypeOK, ControlInv, OwedExplained, Recovered,
          ListedKept, Lanes, OneGeneration, Busy, EffectChat, storeVars,
          harnessVars, recoveryVars, journalVars
    <3>3. CASE RefuseOperation(r)
      BY <3>3
      DEF RefuseOperation, TypeOK, ControlInv, OwedExplained, Recovered,
          ListedKept, Lanes, OneGeneration, Busy, EffectChat, storeVars,
          harnessVars, recoveryVars, journalVars
    <3>4. QED
      BY <2>3, <3>1, <3>2, <3>3
  <2>4. CASE OpenTurn(r) \/ Abort(r) \/ BeginFinish(r)
    BY <2>4 DEF OpenTurn, Abort, BeginFinish, TypeOK, ControlInv, OwedExplained,
               Recovered, ListedKept, Lanes, OneGeneration, Busy, EffectChat,
               storeVars, harnessVars, recoveryVars, journalVars
  <2>5. CASE FinishOperation(r) \/ Acknowledge(r)
    BY <2>5 DEF FinishOperation, Acknowledge, TypeOK, ControlInv, OwedExplained,
               Recovered, ListedKept, Lanes, OneGeneration, Busy, EffectChat,
               storeVars, harnessVars, recoveryVars, journalVars
  <2>6. CASE CommitTurn(r)
    BY <2>6 DEF CommitTurn, TypeOK, ControlInv, OwedExplained, Recovered,
               ListedKept, Lanes, OneGeneration, Busy, EffectChat, storeVars,
               harnessVars, recoveryVars, journalVars
  <2>7. CASE RollbackTurn(r)
    BY <2>7 DEF RollbackTurn, TypeOK, ControlInv, OwedExplained, Recovered,
               ListedKept, Lanes, OneGeneration, Busy, EffectChat, storeVars,
               harnessVars, recoveryVars, journalVars
  <2>8. ASSUME NEW e \in Effects, CallMark(r, e) \/ ApplyMark(r, e)
        PROVE  OwedExplained'
    BY <2>8 DEF CallMark, ApplyMark, TypeOK, ControlInv, OwedExplained, Recovered,
               ListedKept, Lanes, OneGeneration, Busy, EffectChat, storeVars,
               harnessVars, recoveryVars, journalVars
  <2>9. QED
    BY <1>3, <2>1, <2>2, <2>3, <2>4, <2>5, <2>6, <2>7, <2>8 DEF RunStep
<1>4. ASSUME NEW e \in Effects, ToolStep(e)
      PROVE  OwedExplained'
  <2>1. CASE PrepareEffect(e) \/ CancelPrepared(e) \/ MarkDispatchStarted(e)
    BY <2>1 DEF PrepareEffect, CancelPrepared, MarkDispatchStarted, ActiveTool,
               AbortRun, TypeOK, ControlInv, OwedExplained, Recovered,
               ListedKept, Lanes, OneGeneration, Busy, EffectChat, storeVars,
               harnessVars, recoveryVars, journalVars
  <2>2. CASE EnterTool(e) \/ DropTool(e)
    BY <2>2 DEF EnterTool, DropTool, ActiveTool, AbortRun, TypeOK, ControlInv,
               OwedExplained, Recovered, ListedKept, Lanes, OneGeneration,
               Busy, EffectChat, storeVars, harnessVars, recoveryVars,
               journalVars
  <2>3. CASE FinishTool(e)
    BY <2>3 DEF FinishTool, ActiveTool, AbortRun, TypeOK, ControlInv,
               OwedExplained, Recovered, ListedKept, Lanes, OneGeneration,
               Busy, EffectChat, storeVars, harnessVars, recoveryVars,
               journalVars
  <2>4. CASE AppendResult(e)
    BY <2>4 DEF AppendResult, ActiveTool, AbortRun, TypeOK, ControlInv,
               OwedExplained, Recovered, ListedKept, Lanes, OneGeneration,
               Busy, EffectChat, storeVars, harnessVars, recoveryVars,
               journalVars
  <2>5. CASE SettleTracked(e)
    BY <2>5 DEF SettleTracked, ActiveTool, AbortRun, TypeOK, ControlInv,
               OwedExplained, Recovered, ListedKept, Lanes, OneGeneration,
               Busy, EffectChat, storeVars, harnessVars, recoveryVars,
               journalVars
  <2>6. QED
    BY <1>4, <2>1, <2>2, <2>3, <2>4, <2>5 DEF ToolStep
<1>5. ASSUME NEW c \in Chats, ChatStep(c)
      PROVE  OwedExplained'
  BY <1>5 DEF ChatStep, BeginDelete, DeleteEffects, RemoveChat, TypeOK,
              ControlInv, OwedExplained, Recovered, ListedKept, Lanes,
              OneGeneration, Busy, EffectChat, storeVars, harnessVars,
              recoveryVars, journalVars
<1>6. CASE UNCHANGED vars
  BY <1>6 DEF vars, TypeOK, ControlInv, OwedExplained, Recovered, ListedKept,
              Lanes, OneGeneration, Busy, EffectChat, storeVars, harnessVars,
              recoveryVars, journalVars
<1>7. QED
  BY <1>1, <1>2, <1>3, <1>4, <1>5, <1>6 DEF Next

\* Entered tools of a chat are explained to each later generation.
LEMMA ExplainedStep ==
    ASSUME TypeOK, ControlInv, RecordInv, [Next]_vars
    PROVE  Explained'
<1> USE EffectJournalAssumption
<1>1. CASE Initialize \/ ReconcileChats
  BY <1>1 DEF Initialize, ReconcileChats, TypeOK, ControlInv, Explained,
             Recovered, ListedKept, Lanes, OneGeneration, Busy, ToolControl,
             Own, EffectsOf, EffectChat, storeVars, harnessVars, recoveryVars,
             journalVars
<1>2. CASE Crash
  BY <1>2 DEF Crash, TypeOK, ControlInv, Explained, Recovered, ListedKept, Lanes,
             OneGeneration, Busy, ToolControl, Own, EffectsOf, EffectChat,
             storeVars, harnessVars, recoveryVars, journalVars
<1>3. ASSUME NEW r \in Runs, RunStep(r)
      PROVE  Explained'
  <2>1. CASE ListRecovery(r)
    <3>1. \A e \in ran :
             EffectChat(e) = ChatOf[r] /\ ~Live(RunOf[e]) =>
                 e \in kept \cup NeedingRecovery(ChatOf[r])
      BY <2>1, ListRecoveryOwed
    <3>2. \A e \in ran :
             RunOf[e] \in Foreground /\ EffectChat(e) = ChatOf[r] =>
                 ~Live(RunOf[e])
      BY <2>1 DEF ListRecovery, ChatBusy, RunsOf, Live, EffectChat, TypeOK
    <3>3. QED
      BY <2>1, <3>1, <3>2
      DEF ListRecovery, TypeOK, ControlInv, Explained, Recovered, ListedKept, Lanes,
          OneGeneration, Busy, ToolControl, Own, EffectsOf, EffectChat,
          storeVars, harnessVars, recoveryVars, journalVars
  <2>2. CASE RecordBoundary(r) \/ FailRecovery(r) \/ RecoveryDone(r)
    BY <2>2 DEF RecordBoundary, FailRecovery, RecoveryDone, TypeOK, ControlInv,
               Explained, Recovered, ListedKept, Lanes, OneGeneration, Busy,
               ToolControl, Own, EffectsOf, EffectChat, storeVars, harnessVars,
               recoveryVars, journalVars
  <2>3. CASE BeginChild(r) \/ StartOperation(r) \/ RefuseOperation(r)
    BY <2>3 DEF BeginChild, StartOperation, RefuseOperation, TypeOK, ControlInv,
               Explained, Recovered, ListedKept, Lanes, OneGeneration, Busy,
               ToolControl, Own, EffectsOf, EffectChat, storeVars, harnessVars,
               recoveryVars, journalVars
  <2>4. CASE OpenTurn(r) \/ Abort(r) \/ BeginFinish(r)
    BY <2>4 DEF OpenTurn, Abort, BeginFinish, TypeOK, ControlInv, Explained,
               Recovered, ListedKept, Lanes, OneGeneration, Busy, ToolControl,
               Own, EffectsOf, EffectChat, storeVars, harnessVars,
               recoveryVars, journalVars
  <2>5. CASE FinishOperation(r) \/ Acknowledge(r)
    BY <2>5 DEF FinishOperation, Acknowledge, TypeOK, ControlInv, Explained,
               Recovered, ListedKept, Lanes, OneGeneration, Busy, ToolControl,
               Own, EffectsOf, EffectChat, storeVars, harnessVars,
               recoveryVars, journalVars
  <2>6. CASE CommitTurn(r)
    BY <2>6 DEF CommitTurn, OpenTurnKeepsResults, ToolControl, TypeOK, ControlInv,
               Explained, Recovered, ListedKept, Lanes, OneGeneration, Busy,
               ToolControl, Own, EffectsOf, EffectChat, storeVars, harnessVars,
               recoveryVars, journalVars
  <2>7. CASE RollbackTurn(r)
    BY <2>7 DEF RollbackTurn, TypeOK, ControlInv, Explained, Recovered, ListedKept,
               Lanes, OneGeneration, Busy, ToolControl, Own, EffectsOf,
               EffectChat, storeVars, harnessVars, recoveryVars, journalVars
  <2>8. ASSUME NEW e \in Effects, CallMark(r, e) \/ ApplyMark(r, e)
        PROVE  Explained'
    <3>1. CASE CallMark(r, e)
      BY <3>1
      DEF CallMark, TypeOK, ControlInv, Explained, Recovered, ListedKept,
          Lanes, OneGeneration, Busy, ToolControl, Own, EffectsOf,
          EffectChat, storeVars, harnessVars, recoveryVars, journalVars
    <3>2. CASE ApplyMark(r, e)
      BY <3>2
      DEF ApplyMark, TypeOK, ControlInv, Explained, Recovered, ListedKept,
          Lanes, OneGeneration, Busy, ToolControl, Own, EffectsOf,
          EffectChat, storeVars, harnessVars, recoveryVars, journalVars
    <3>3. QED
      BY <2>8, <3>1, <3>2
  <2>9. QED
    BY <1>3, <2>1, <2>2, <2>3, <2>4, <2>5, <2>6, <2>7, <2>8 DEF RunStep
<1>4. ASSUME NEW e \in Effects, ToolStep(e)
      PROVE  Explained'
  <2>1. CASE PrepareEffect(e) \/ CancelPrepared(e) \/ MarkDispatchStarted(e)
    BY <2>1 DEF PrepareEffect, CancelPrepared, MarkDispatchStarted, ActiveTool,
               AbortRun, TypeOK, ControlInv, Explained, Recovered, ListedKept,
               Lanes, OneGeneration, Busy, ToolControl, Own, EffectsOf,
               EffectChat, storeVars, harnessVars, recoveryVars, journalVars
  <2>2. CASE EnterTool(e) \/ DropTool(e)
    BY <2>2 DEF EnterTool, DropTool, ActiveTool, AbortRun, TypeOK, ControlInv,
               Explained, Recovered, ListedKept, Lanes, OneGeneration, Busy,
               ToolControl, Own, EffectsOf, EffectChat, storeVars, harnessVars,
               recoveryVars, journalVars
  <2>3. CASE FinishTool(e)
    BY <2>3 DEF FinishTool, ActiveTool, AbortRun, TypeOK, ControlInv, Explained,
               Recovered, ListedKept, Lanes, OneGeneration, Busy, ToolControl,
               Own, EffectsOf, EffectChat, storeVars, harnessVars,
               recoveryVars, journalVars
  <2>4. CASE AppendResult(e)
    BY <2>4 DEF AppendResult, ActiveTool, AbortRun, TypeOK, ControlInv, Explained,
               Recovered, ListedKept, Lanes, OneGeneration, Busy, ToolControl,
               Own, EffectsOf, EffectChat, storeVars, harnessVars,
               recoveryVars, journalVars
  <2>5. CASE SettleTracked(e)
    BY <2>5 DEF SettleTracked, ActiveTool, AbortRun, TypeOK, ControlInv, Explained,
               Recovered, ListedKept, Lanes, OneGeneration, Busy, ToolControl,
               Own, EffectsOf, EffectChat, storeVars, harnessVars,
               recoveryVars, journalVars
  <2>6. QED
    BY <1>4, <2>1, <2>2, <2>3, <2>4, <2>5 DEF ToolStep
<1>5. ASSUME NEW c \in Chats, ChatStep(c)
      PROVE  Explained'
  BY <1>5 DEF ChatStep, BeginDelete, DeleteEffects, RemoveChat, TypeOK,
              ControlInv, Explained, Recovered, ListedKept, Lanes,
              OneGeneration, Busy, ToolControl, Own, EffectsOf, EffectChat,
              storeVars, harnessVars, recoveryVars, journalVars
<1>6. CASE UNCHANGED vars
  BY <1>6 DEF vars, TypeOK, ControlInv, Explained, Recovered, ListedKept, Lanes,
              OneGeneration, Busy, ToolControl, Own, EffectsOf, EffectChat,
              storeVars, harnessVars, recoveryVars, journalVars
<1>7. QED
  BY <1>1, <1>2, <1>3, <1>4, <1>5, <1>6 DEF Next

----------------------------------------------------------------------------
(* The invariant and what follows from it.                                 *)

\* IInv holds before the first initialize().
LEMMA InitIInv == Init => IInv
<1> USE EffectJournalAssumption
<1> SUFFICES ASSUME Init PROVE IInv
  OBVIOUS
<1>1. TypeOK
  BY InitType
<1>2. ControlInv
  BY DEF Init, ControlInv, ToolControl, Lanes, Busy, OneGeneration, Resting,
         ListedKept, InFlightListed, OpenTurnKeepsResults, OwedExplained,
         Explained, Recovered, EffectChat
<1>3. \A e \in Effects : cache.effect[e] = NoEffect /\ disk.effect[e] = NoEffect
  BY DEF Init, EmptyDatabase
<1>4. SoundDatabase(disk) /\ Follows(disk) /\ Remembers(disk)
  BY <1>3 DEF Init, SoundDatabase, SettledOperation, Follows, Remembers, Entered,
              NoEffect
<1>5. LocalIsDispatched /\ DispatchedIsTracked /\ CallHasRecord /\ ListedIsOver
  BY <1>3 DEF Init, LocalIsDispatched, DispatchedIsTracked, CallHasRecord,
              ListedIsOver
<1>6. app = "down"
  BY DEF Init
<1>7. QED
  BY <1>1, <1>2, <1>4, <1>5, <1>6 DEF RecordInv, IInv

\* Every step keeps ControlInv.
LEMMA ControlStep ==
    ASSUME IInv, [Next]_vars
    PROVE  ControlInv'
<1>1. TypeOK /\ ControlInv /\ RecordInv
  BY DEF IInv
<1>2. QED
  BY <1>1, ToolControlStep, LanesStep, OneGenerationStep, RestingStep,
     ListedKeptStep, InFlightListedStep, OpenTurnKeepsResultsStep,
     OwedExplainedStep, ExplainedStep
  DEF ControlInv

\* Every step keeps RecordInv, and what the cache holds as recorded.
LEMMA RecordStep ==
    ASSUME IInv, ControlInv', [Next]_vars
    PROVE  RecordInv' /\ Final
<1>1. CASE Initialize
  BY <1>1, InitializeRecords
<1>2. CASE ReconcileChats
  BY <1>2, ReconcileRecords
<1>3. CASE Crash
  BY <1>3, CrashRecords
<1>4. ASSUME NEW r \in Runs, RunStep(r)
      PROVE  RecordInv' /\ Final
  <2>1. CASE \/ RecordBoundary(r) \/ RecoveryDone(r) \/ BeginChild(r)
             \/ RefuseOperation(r) \/ OpenTurn(r) \/ Abort(r) \/ BeginFinish(r)
             \/ CommitTurn(r) \/ RollbackTurn(r)
    BY <2>1, RunRecords
  <2>2. CASE ListRecovery(r)
    BY <2>2, ListRecoveryRecords
  <2>3. CASE FailRecovery(r)
    BY <2>3, FailRecoveryRecords
  <2>4. CASE StartOperation(r)
    BY <2>4, StartOperationRecords
  <2>5. CASE FinishOperation(r)
    BY <2>5, FinishOperationRecords
  <2>6. CASE Acknowledge(r)
    BY <2>6, AcknowledgeRecords
  <2>7. ASSUME NEW e \in Effects, CallMark(r, e)
        PROVE  RecordInv' /\ Final
    BY <2>7, CallMarkRecords
  <2>8. ASSUME NEW e \in Effects, ApplyMark(r, e)
        PROVE  RecordInv' /\ Final
    BY <2>8, ApplyMarkRecords
  <2>9. QED
    BY <1>4, <2>1, <2>2, <2>3, <2>4, <2>5, <2>6, <2>7, <2>8 DEF RunStep
<1>5. ASSUME NEW e \in Effects, ToolStep(e)
      PROVE  RecordInv' /\ Final
  BY <1>5, PrepareEffectRecords, CancelPreparedRecords,
     MarkDispatchStartedRecords, EnterToolRecords, ToolRecords,
     FinishToolRecords, SettleTrackedRecords
  DEF ToolStep
<1>6. ASSUME NEW c \in Chats, ChatStep(c)
      PROVE  RecordInv' /\ Final
  BY <1>6, ChatRecords, DeleteEffectsRecords DEF ChatStep
<1>7. CASE UNCHANGED vars
  BY <1>7, QuietRecords
  DEF vars, storeVars, harnessVars, recoveryVars, journalVars
<1>8. QED
  BY <1>1, <1>2, <1>3, <1>4, <1>5, <1>6, <1>7 DEF Next

\* IInv is inductive.
LEMMA IInvStep ==
    ASSUME IInv, [Next]_vars
    PROVE  IInv' /\ Final
<1>1. TypeOK'
  BY TypeStep DEF IInv
<1>2. ControlInv'
  BY ControlStep
<1>3. RecordInv' /\ Final
  BY <1>2, RecordStep
<1>4. QED
  BY <1>1, <1>2, <1>3 DEF IInv

\* The records and the control of the journal always satisfy IInv.
THEOREM Invariant == Spec => []IInv
<1>1. Init => IInv
  BY InitIInv
<1>2. IInv /\ [Next]_vars => IInv'
  BY IInvStep
<1>3. QED
  BY <1>1, <1>2, PTL DEF Spec

\* The state of the journal, the harnesses and the recovery always has its type.
THEOREM TypeCorrect == Spec => []TypeOK
<1>1. IInv => TypeOK
  BY DEF IInv
<1>2. QED
  BY <1>1, Invariant, PTL

\* A tool that was entered in a live chat is explained in the recovered branch
\* or has evidence, on disk and in memory, that asks for recovery.
THEOREM Nothing_forgotten == Spec => []NothingForgotten
<1>1. IInv => NothingForgotten
  BY DEF IInv, RecordInv, Remembers, Entered, NothingForgotten
<1>2. QED
  BY <1>1, Invariant, PTL

\* The model of an open foreground turn was told of every tool entered by a run
\* that was over when the generation listed what needs recovery.
THEOREM No_blind_turn == Spec => []NoBlindTurn
<1>1. IInv => NoBlindTurn
  BY DEF IInv, ControlInv, OwedExplained, Recovered, NoBlindTurn
<1>2. QED
  BY <1>1, Invariant, PTL

\* An operation is only reported over when each of its effects is.
THEOREM Finished_means_settled == Spec => []FinishedMeansSettled
<1>1. IInv => FinishedMeansSettled
  BY DEF IInv, RecordInv, SoundDatabase, FinishedMeansSettled
<1>2. QED
  BY <1>1, Invariant, PTL

\* Pruning and chat deletion never take the record of a call under way.
THEOREM Live_evidence_kept == Spec => []LiveEvidenceKept
<1>1. IInv => LiveEvidenceKept
  BY DEF IInv, RecordInv, CallHasRecord, Dispatched, LiveEvidenceKept
<1>2. QED
  BY <1>1, Invariant, PTL

\* Once an effect is marked recorded, its record only ever disappears whole.
THEOREM Recovered_is_final == Spec => RecoveredIsFinal
<1>1. IInv /\ [Next]_vars =>
         [\A e \in Effects : cache.effect[e].recorded =>
             cache'.effect[e] \in {cache.effect[e], NoEffect}]_vars
  BY IInvStep DEF Final
<1>2. QED
  BY <1>1, Invariant, PTL DEF Spec, RecoveredIsFinal
=============================================================================
