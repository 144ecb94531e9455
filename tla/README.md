# Aiden Agent: TLA+ verification

Aiden is an Electron application that runs language-model agents with tools on a
user's machine. Its main process is single-threaded JavaScript: callbacks never
preempt each other, and everything hard about it happens at `await`: a turn is
revoked while its message is being written, a tool runs and the process stops
before its outcome is on disk, a chat is deleted under a subagent that is still
running. The modules here model that control, at the granularity of "what runs
between two awaits", and abstract the data (messages, prompts, tool arguments).

Paths below are relative to `src/main/services/` unless they start with `src/`.

## 1. Inventory

| Component | State | Operations | Correct when |
|---|---|---|---|
| Pi effect journal: `pi-runtime-effect-store.ts`, `pi-runtime-effect-core.ts` | one JSON database of operations and effects; `localUnknown` in memory | initialize, start/finishOperation, prepareEffect, markEffectDispatchStarted, cancelEffectBeforeDispatch, finishEffect, listEffectsNeedingRecoveryByChat, markRecoveryRecorded, acknowledgeChatEffectsDurable, deleteChat, reconcileChats | no tool that ran is forgotten, no turn starts without knowing of it |
| Data store: `data-store.ts` | a file, its cache and what was read of it, held and predecessor names beside it, a queue of mutations | load, reload, update, save; recovery of held files | one mutation at a time; a failed write leaves either file, and the old cache; an editor of the file loses nothing |
| Agent harness: `pi-agent-runtime-harness.ts` | the managed operation, its tool calls, the abort signal | runManaged, beforeToolCall, afterToolCall, flushDurableMessages, finishEffectOperation | evidence before dispatch, settlement at every exit |
| Compaction journal: `pi-compaction-session-store.ts`, `pi-compaction-core.ts` | the Pi branch of a chat, one visible-turn lease | begin/commit/rollback, recovery boundary, quarantine, compaction | an uncommitted suffix disappears as a whole |
| Generation: `llm-client.ts` | `initializing`, `active` by stream id | start, cancel, cancelChat, abortAll, finalizePiTurnPersistence | one response per chat |
| Turn admission: `chat-turn-admission.ts` | one lease per chat, four budget counters, reconciliation marks | tryBegin, reserve*, prepareSkillInvocation, settleAsyncWork, release, handoff | one writer per chat, exact budgets, no lease forever |
| Chat gates: `chat-deletion-gate.ts`, `chat-workspace-mutation-gate.ts`, `computer-use/generation-gate.ts` | sets of chat ids | tryBegin, release | a closed chat has no writer |
| Chat store and handlers: `chat-store-core.ts`, `chat-append-commit.ts`, `src/main/handlers/chats.ts` | chat files, renderer documents | create, append, remove, copy, move | an answered message is a saved message |
| Subagent trees: `subagents/subagent-nesting-core.ts` | a ledger of budgets, a queue, entries | reserveLaunches, reserveDescendantsAndSuspendParent, activate, finish; run, runDescendants, cancelRun, cancel | counters match states, every batch settles, parents do not wait on themselves |
| Subagent supervisor: `subagents/subagent-supervisor.ts`, `subagent-event-projector.ts` | a batch of runs, its cancellation, the projected records and the queue of their writes | execute, cancel, telemetry, settlement, flush | no child before its record, one terminal disposition per run |
| Run store: `subagents/subagent-run-store-core.ts`, `-v2-core.ts` | run records, reservations, deletion intents | reserve, upsert, reconcile | no active record survives a restart, an end is final |
| Run control: `subagents/subagent-control-v2.ts`, `subagent-control-main.ts`, `subagent-foreground-persistence-v2.ts` | a registry of snapshots, revoked authorities, pending requests | status, wait, stop | an answer is on disk before it is given |
| Child runtime: `subagents/child-agent-runtime.ts`, `subagent-child-runner.ts`, `concurrency-gate.ts` | inference leases, deployments in quarantine | run, abort, drain | the child is the environment of the supervisor here |
| Background runs: `subagents/background-lifecycle-v2.ts`, `background-subagent-coordinator-v2.ts` | runs that outlive a response | spawn, complete, deliver, stop | constructed by tests only |
| Approvals: `subagents/approval-v2.ts`, `tool-approval.ts` | pending prompts | request, resolve, expire | an approval is used once, for what it was given |
| Scheduled tasks: `schedule-service-core.ts`, `schedule-store.ts`, `schedule-execution.ts` | jobs, running set, blocked workspaces, lifecycle tail per task | start, stop, save, setEnabled, remove, runNow, cancelWorkspace | no run of a removed, disabled or blocked task |
| Provider login: `provider-auth-flow-core.ts`, `pi-credential-store-core.ts` | the flow in the slot, its prompt, its timer and signal, a sign-out | start, respond, cancel, logout, shutdown; callbacks of the provider | events agree with the store, a cancelled flow stores nothing, every flow ends |
| Provider keys: `provider-credential-rotation.ts`, `secrets.ts`, `portable-credential-snapshot.ts`, `portable-config-watch-core.ts`, `config-store-core.ts` | an endpoint in a file the user edits, an encrypted map with keys in use and set aside, a journal, the last safe snapshot | save, remove, set key, sync, refresh, recover | a key comes to an endpoint in its own request's turn only; file and map agree after any fault |
| MCP, updater, terminal, git, renderer, native helpers | | | see PROJECT.json, component by component |

How they interact. A renderer calls `chats:appendMessage`: the admission leases
the chat, the chat store writes the message, `chat:start` hands the lease to a
generation. The generation lists the effects of the chat that need recovery,
writes a boundary to the Pi journal, marks them, and starts a managed run of the
harness, whose tools leave evidence in the effect journal. Tools may start
subagents: a tree of runs under one scheduler, each with a harness of its own,
some of which outlive the response; their records are durable before they start
and are managed from the window through a registry. At the end the visible turn is committed and
its effects acknowledged. Gates close a chat to all of that while it is deleted,
copied, moved or reconfigured. The scheduler takes turns of chats of its own
accord; a model is reached with a key that is bound to its endpoint, or by a
sign-in of its own. At startup the stores are initialized, pending
deletions finished and orphans pruned before a renderer exists.

Where it is hard: revocation at any await (expiry, user, deletion, a document
that goes away); writes that fail before or after their rename; a crash between
any two steps; evidence rewritten by six different calls; child runs that
outlive the turn that made them; counters paid back on several paths; parents
that give up their slot while they wait for children.

## 2. Modules

| Module | Models | 
|---|---|
| `EffectJournal` | effect journal, with its data store, harness, generation and deletion callers |
| `EffectJournal_proofs` | its types and all five of its safety properties, for every instance |
| `ChatOwnership` | abstract: one holder per chat, a turn never comes back |
| `ChatTurnAdmission` | turn admission, chat gates, append and deletion handlers; implements `ChatOwnership` |
| `ChatTurnAdmission_proofs` | its safety properties and the refinement, for every instance |
| `TreeScheduler` | the budget ledger and the scheduler of one subagent tree |
| `TreeScheduler_proofs` | its types, its accounts and its late-start property, for every instance |
| `ScheduleService` | the scheduled-task service: cron jobs, lifecycle locks, dispatch, workspaces, the task store's writes |
| `ScheduleService_proofs` | its types and all its safety properties, for every instance |
| `SubagentRuns` | the supervisor's `execute` with its projector, the registry for management requests and the run store |
| `ProviderAuth` | the coordinator of interactive sign-ins and the credential store behind it |
| `ProviderAuth_proofs` | its types and its safety property, for every instance |
| `CredentialRotation` | the key of a custom provider between config file, encrypted map and journal |
| `CredentialRotation_proofs` | its types, the binding of keys to endpoints and what a commit promises, for every instance |
| `DataStore` | a config file that the application and its user both write: protected publication and recovery |
| `DataStore_proofs` | its types and all three of its safety properties, for every instance |
| `MC*` | instances for TLC |

### EffectJournal

State. `disk` and `cache` are the file and `DataStore.cache`; `localUnknown` the
store's map of effects whose terminal publication failed. `phase`, `turn`,
`aborted`, `tool`, `tracked` are where each run, its visible-turn lease, its
abort signal, its tool calls and the harness's own bookkeeping stand. `listed`
and `inFlight` are a generation's recovery loop. `suffix`, `kept`, `quarantined`
are the Pi journal: what an open turn appended, what the recovered branch tells
the model, and chats closed until a restart. `stage` is a chat's deletion.
`ran` and `owed` are history variables: they appear in no guard.

Actions are the store's calls as their callers make them. Every publication has
three outcomes: published, failed with the old file, failed with the new file
under the old cache (`Published`, `Failed`). A store call is one step: DataStore
runs mutations one at a time and a call's continuation runs before the next
mutation. The exception is `markRecoveryRecorded`, which reads the local record
before it queues: `CallMark` and `ApplyMark`.

Abstractions. The four ways an operation finishes are "settled". Pruning removes
any set of prunable operations, which covers the age order and the byte limit.
Tools of a run interleave freely, which covers sequential execution. Losing an
un-synced rename at a power cut is a write that failed before its rename. A
child's session is in memory: it has no turn. Rewriting of arguments and digests
is data; the digest's origin is kept because `finishEffect` compares it.

### ChatTurnAdmission

State. `turns` and `lease` are the admission's records, the four counters its
budgets, `required` the documents that must reload; `frame` is the async frame
of each `chats:appendMessage`, `departed` the frames that write for a document
that has gone, `generation` and `retained` the generation a turn became and the
skill bytes it still holds; `changing`, `deletion`, `removed` the gates and the
store. `committed` is history.

Each action is what runs between two awaits: `start` checks and hands the lease
off before its first await, so `StartGeneration` is one step. `Close` is release
and settlement of a lease, with the finalization both may cause. A reload keeps
the document's id, so a mark set for a dead document is cleared at once and may
take the live one's with it (`Marked`).

`WriteMessage` to `AppendSucceeds`/`AppendFails` is the file write: revocation in
between does not stop it, and the properties hold nevertheless because the
record stays until the frame settles.

### TreeScheduler

State. `tree` is one record with the fields of the ledger (`ledger`, `launched`,
`active`, `queued`), of the scheduler (`entry`, `holds`, `used`, `queue`) and of
the promises around them: `outcome` is the promise of an entry, `body` its
`task.execute`, `await` where its call of `runDescendants` stands. `batch` and
`delegating` belong to a parent, `aborted` and `expired` to the tree. `plan`, one
of the constant `Plans`, is what the tree is created with: the deployment of its
model (local or hosted, each with its capacity) and the limits of its ledger.

Every method of both classes is synchronous up to its first await and ends in
`dispatch`, so each is one step: the pieces (`Enlisted`, `Suspended`,
`Released`, `Finished`, ...) are functions from tree to tree, and `Dispatched`
folds `Offer` over the queue. `settleDescendants` is three steps: its children
settle, its resume item is granted or refused inside somebody's dispatch, its
continuation runs. `EndRun` may come while a batch still waits: a child runner
drains its prompt for a bounded time after a stop or a deadline and then
returns, whatever the prompt still awaits (`subagent-child-runner.ts`).

Abstractions. Usage budgets (tokens, tool calls, output, turns, network) only
grow; running out of one cancels the tree, as its owner may at any time. Time is
one flag: `Expire` is the wall-time check of the ledger failing from then on.
Depth is given by `Children`, which has the two levels the supervisor allows.

### ScheduleService

State. `store` is schedules.json, `jobs` and `run` the maps `jobs` and
`runningTasks`, `tails` the queue behind each task's `lifecycleTails` promise,
`blocked`, `started`, `globallyEnabled` the other variables of the closure and
`setting` the saved switch. `armed` holds the cron jobs that were resumed and not
stopped, in the map or not: a job is named by the call that created it. `op` is
where each call stands (`pc` is the await it is in), with the task it read, the
task it writes, its abort signal and the runs it waits for. `moved` stands for
`updatedAt`: tasks rewritten since a save that is being undone read its revision.
`refused` is history.

A step is what runs between two awaits. The store serves its reads from a cache,
so what follows a read runs in the microtasks after it and is part of the step;
the read of `dispatch()` is kept apart because `cancelWorkspace` waits for it.
`Schedule` is `schedule()` up to its write (the paused job is in the map), `Arm`
what follows the write, `Scheduled` how its callers go on: return, undo an aborted
call, or take the next task of a loop, and for `start()` the dispatch of a missed
run. A run goes through `get` (its task is read), `claim` (`advanceBeforeRun`),
`exec` and `record`; `CronFires` is the callback of any armed job. The workspace
handlers admit one change of a workspace at a time (`Mutating`). Window handlers
are registered before `start()`, so every call may come before it.

Abstractions. Cron expressions and times: a job may fire whenever it is armed,
and any enabled task may have been missed. Validation of an edit, a stale
revision and a failed write of `save` are one outcome, refused; the other writes
fail at most once (`Faulty`), and a property that such a failure voids says so
with `refused`. `executeScript` and `executeLlm` are `exec`.

### SubagentRuns

Four objects of the code share the life of a delegated run, and the module
composes them. `phase`, `cancel`, `prep`, `work` are a call of `execute` (its
place, its cancellation, the preparation of each run, the scheduler's entry);
`child` the agents that exist, also of runs given up; `projector` the renderer's
records with `persistenceTail` and `persistenceError`; `control` and `revoked`
the registry's snapshots and the authorities taken back; `disk` and `reserved`
the store. `waits` says how many queued writes each pending `flush()` still waits
for, `request` where a management request of the window stands, `response` the
saving of the assistant message.

A step is a turn of the event loop: an `Event` comes from outside (a child, a
timer, the disk, the window), a `Step` is a continuation that is due, and no
event comes while one is `Ready`. `Unwind` is the catch of `execute`, `Persist`
a write of the store followed by the registry's update, `Act` what a request
does once its first drain is over, `Crash` the exit of the application.

`SubagentRunsAssumption`: every task of every call has an identity of its own
(`allocateSafeRunIdentity`, `subagent-supervisor.ts:384`).

Abstractions. A snapshot is its state and its revision. The tree has one level:
nested batches are in `TreeScheduler`. Retry and steering are offered by no
production registration, `needs_attention` and `unknown` belong to background
runs; deletion of a chat's records and the V1 store are left out.

### ProviderAuth

State. `active` is the one slot for a flow, `phase` where `run(session)` stands,
`provider` the promise of the library behind it and `outcome` what its race with
the abort signal gave; `aborted`, `timedOut`, `muted`, `pending` are fields of the
session, `prompt` the promise of each question and whether its document saw it.
`logout`, `disposed`, `awaited` are the sign-out and the shutdown. `told`,
`granted`, `published` are history.

Requests and timers come only when no continuation is due (`Idle`, `Due`);
callbacks of the provider come at any point, after the end of their flow too. A
refused request changes nothing. `Vanish` and `Invalidate` are apart because a
frame may be gone before its window reports it; a send can fail either way
(`CanSend`, `muted`). The credential store is a file replaced at one point:
`Publish` falls between `Commit` and `CommitReturns`.

Abstractions. Tokens, their refresh and the copy of prompts; a flow id and a
prompt id are used once (they are UUIDs in the code).

### CredentialRotation

State. `file` and `cache` are the provider's part of the config file and of its
data store, `vault` the encrypted map: the pair in use, the pair set aside, the
journal. `request` holds what each request asks for, `sync` the sync of the last
safe snapshot under way, `base` that snapshot and its pending flag, `turn` the
holder of `rotationTail` and its next durable step. `given` (the endpoint a key
came with: a save carries one, a key entered alone does not), `promise` (what the
last commit left) and `unsure` (what may have voided it) are history.

Three promise queues meet: mutations of the config (`Ask`, `SyncBegins`: a sync
before and one after), syncs (`Refresh`, `SyncTurn`, `SyncCheck`), turns
(`TakeTurn`, `Released`). A step is a durable write with the reads before it;
`Write` lands, is lost or is torn (the file is new and the call throws), and
`Publish` also fails with the file linked and the cache old, or in the model
cache written next. A refresh takes its place behind the requests that wait. The
user's `Edit` of the file and `Crash` come at any point.

Reads of the map. Most throw when the map cannot be read, which is a write that
fails. `getProviderKey` and `hasKey` catch the failure and answer that there is no
key; `SaveBegins` and `RemoveBegins` take any answer in `ProviderKey` and `HasKey`, as
often as they like. A wrong answer puts "unread" into `unsure` until a commit that
does not rest on it. A new key entered alone is bound in `SetKey` to the endpoint
that the cache has in its turn, whatever it was when the key was entered.

Abstractions. One provider; other fields of the file are the `changed` of
`Refresh`. A window that goes away is a write that fails. Keys without a binding
(the migration), `clearAll` and the MCP half of a snapshot are left out.

### DataStore

State. `dest` is the file at the store's path, `parked` the `.held` and
`.previous` names with the hash in them and whether `liveHeldFiles` has them,
`kept` the conflict copies; `content` is what each file says. A file is named by
the change it was made for, so a name that moves keeps its file. `store` is
`cache`, `diskSnapshot` and `corrupt`, `op` where the operation at the head of
the mutation queue stands. `editor` is the user: a file it has open, whatever
names it has by now, and what it has seen. `tried`, `done`, `forgone`, `late`,
`failed` are history.

A step is one change of the directory with the reads before it, except where a
write in between matters: `Check` and `Link`, `Compare` and `Drop` are apart. The
editor writes into the file it has open, into the one at the path, or puts a new
one there. Any call may fail (`Fails`), and the application may stop anywhere.
`Start` assumes what the code does ("next startup compares all predecessor
bytes"): an editor has let go of old files by then. The names of one recovery
come in the order of their hashes, that is in any order.

Abstractions. A document is the set of changes it contains; a write of the
editor that leaves one out forgoes it. The two comparisons before the link are
one. A window that goes away during a publication is a link that fails. One
editor; the file is a regular file; an unparseable one is never written by these
stores, so no copy of it is made.

## 3. Runs

| Run | Instance | Shows |
|---|---|---|
| `effects_lanes` | a foreground run with two effects, a child run of it with one, a later foreground run; limits 2 and 2 | evidence survives crashes, failed writes, pruning, acknowledgement, late child results and deletion across two turns; `RecoveredIsFinal`. The limits are below the demand, so that pruning and refusals happen |
| `admission_budgets` | 2 chats, 3 turns of one document, 2 skills, budgets for one append, and for one reservation and a prompt | budgets under contention, revocation and handoff |
| `admission_shared` | 1 chat, a document's turn, a scheduled turn, a scheduled message; fair | refinement to `ChatOwnership`, liveness |
| `trees` | two parents with two and one children, on one local slot with four launches or on two hosted slots with five; queue of three; fair | ledger and scheduler agree, capacity is respected, no late start, and nothing deadlocks on the single slot under stops, refusals, expiry, cancellation |
| `sched_calls` | one stored task (enabled or not) in one workspace, one to create, startup and any two calls, one failing write; fair | no job is armed that cannot be stopped, the schedule left behind is the store's, a revoked workspace is idle, calls return |
| `sched_missed` | the same without the failing write | expected violation, see Findings |
| `runs_life` | a batch of two runs on one slot, one management request, four revisions of telemetry for one run, one failing write, one crash; fair | no child before the records of its batch, ended runs are settled and hold no authority, answers are on disk, ends are final, calls return |
| `runs_stop` | one run, one request, no fault, no crash | expected violation, see Findings |
| `auth_flows` | two flows, two documents, one question; fair | events agree with the store, open questions belong to the flow in the slot, commits, sign-outs and shutdown exclude each other, flows end |
| `rotation_keys` | three endpoints (one without a key), two requests, two passes of a sync, two troubles (edits, lost or torn writes, crashes), any number of reads that fail unnoticed; fair | keys come to an endpoint in their own turn only, commits stand, requests return |
| `rotation_torn` | the same with one trouble | expected violation, see Findings |
| `store_edits` | a file or none, two mutations, two edits, two failing calls or crashes of any kind | no change is lost, the document holds what was saved and edited, it comes back to its path |

`effects_lanes`, `runs_life`, `auth_flows`, `rotation_keys` and `store_edits` have
between 0.4 and 6 million states and take about two minutes each; the others take
seconds.

Bounds. Ids are used once in the code (fresh UUIDs), so a run, an effect or a
turn that is over stays over and the models end: deadlock checking is off where
nothing but ended work remains (admission, tree, schedule, runs, sign-in), and on
where a step is always possible (effects, rotation). Two turns of a chat are enough for one turn to leave
and the next to find; a third run is a generation that overlaps a child. Limits
are chosen below the demand, so that both admission and refusal are reached.

Fairness. `FairSpec` of the admission assumes that an expiry timer fires and
that an append frame runs to its end: reading and writing files and resolving a
skill return or throw. Nothing is assumed of users, renderers or models.

`FairSpec` of the tree assumes that a task which is not waiting for a batch ends
(its model, its tools and its drain have deadlines), and that continuations of
settled promises run. A parent that waits for its batch is owed nothing: to end
it must first be given capacity again.

`FairSpec` of the schedule service assumes that writes complete, that locks are
granted in order, and that a cancelled run ends (its script is killed, its stream
aborted). A run that nobody cancels may take for ever, and a call of Run now with
it; every other call must return. Two calls and `start()` are enough for three
parties on one lock, an edit under a removal, a workspace blocked and resumed
under a dispatch; deadlock checking is off because calls are used once.

`FairSpec` of the runs assumes that what is ready runs, the store answers each
write, preparations settle, and the tree's, the settlement's and a wait's timers
fire. Nothing is assumed of a child, nor of the capture of a context. One slot
for two runs makes one wait in the scheduler's queue while the other runs; one
request is enough to overtake telemetry, two runs to end a batch by halves.

`Fairness` of the sign-ins assumes that continuations run, the flow's timer and
the cleanup's fire, and the calls of the credential store return: nothing of the
provider, the documents or the user. Two flows are one that ends and one that
may hear its late callbacks.

`Fairness` of the rotation is weak fairness of `Work`: promises go on, reads and
writes return. No request, refresh, edit or crash is assumed to come. Two
requests are what a queue needs to block; two troubles are a fault and the edit
or the crash that meets what it left; reads that fail unnoticed are not counted
among them. `MAX_STABILITY_PASSES` is 8 in the code and
2 here, more than one and still reachable.

`store_edits` needs two mutations (the second finds what the first left) and two
troubles (a failure and the crash after it, or a crash in the recovery of
another); three troubles with one edit, and three mutations with one trouble,
were checked as well. It has no fairness: its operations are sequences of calls
without waits. The history `failed` is what its properties except: `NothingLost` and
`DocumentStands` the failures after which an older file stays at a held name or
none of them is seen (`Unseeing`, see Findings), `DocumentReturns` a restoration
that failed and a directory that could not be listed.

Each property is broken by a mutant of the code it is about (`Mutant_*`, beside
the definition it replaces; the list is in PROJECT.json).

## 4. Findings

`sched_missed`. `start()` guards the promise of a missed run with `.catch()`, but
`dispatch()` throws before it returns one when the task is running already. The
window exists before `start()` runs, so Run now on a missed task is enough: the
outer `catch` stops every job and rethrows, and `src/main/index.ts` shuts the
application down. The plan in the repository asks for the run to be refused.

`runs_stop`. A management request drains the queue of writes as it stands, then
brings the registry to the live projection and stops. Telemetry published during
that drain is queued with a lower revision than the stop: its update of the
registry throws, and the projector keeps the first error, so the confirming
flush rejects the stop that took effect, and every later flush, the one before
the assistant message is saved included, rejects too. A comment and a test say
that a stop is immune to late telemetry.

`rotation_torn`. When a publication fails after the file was linked, the cache is
old and the journal stays, and a comment says that the next operation reloads
the file before it decides. But the next operation is preceded by a sync
(`portable-credential-snapshot.ts`), whose recovery does not reload: it reads the
journal against the old cache, restores the previous key and clears the journal.
The new key is lost, though the file has the new endpoint.

Seen while modelling, without a run of its own: a read of the encrypted map that
fails costs a key. `getProviderKey` catches the failure and answers `null`, as it
does for a key that is not there, though `secrets.ts:161` asks of a read in a
transaction that it tell the two apart (`getKeyStrict` does). A save that keeps
endpoint and key then finds a stored key that seems to fit no endpoint, journals
`previousKey` and `targetKey` as `null`, deletes the key, publishes, confirms and
succeeds. No edit, failed write or crash is needed. `Sure` takes these reads out of
the second part of `CommitsStand`; without that TLC shows the loss in ten steps.

A key entered alone (`providers:setKey`) carries no endpoint. If the file was
edited, or a save was ahead of it in the queue, it is bound to another endpoint
than the one the user saw. Nothing in the repository says which it should be, so
`KeysFitEndpoints` asks only that it be bound in its own turn and go nowhere else.

Nor do `NothingLost` and `DocumentStands` hold after the failures in `Unseeing`.
When the rename of a held file to its predecessor name fails, the code keeps the held name ("A still-named held file is also safe;
next startup reconciles it."). If a later publication is then cut off by a crash
while the path is free, the next start finds two held names and takes them in
the order of their hashes: it may put the older document back and then remove
the newer one, whose bytes fit its hash, as an unchanged predecessor. A held file
that a recovery could not read, left by a restoration that failed, does the same. And when the directory
cannot be listed, `recoverHeldFiles` returns, so that a parked document counts as
a missing one and the next save publishes defaults over it, though a comment
says that any failure propagates into `load()`. TLC shows each of them when the
exception is taken out of `NothingLost`, the first with two troubles, the others
with three.

Also without a run: `deleteChat` of the effect journal refuses a chat after its
run is over when the publication that finishes the operation failed, until the
next start (a test says it "rejects live work"). And, as nothing in the
repository says otherwise: the timer of a sign-in stays armed after a cancel, so that a
timeout during the cleanup turns "cancelled" into an error; a save while the
config file does not parse deletes the key in use before it is refused; a key
set aside for an endpoint comes back when the newer key of that endpoint is
deleted; a save at the same endpoint that fails after its journal was written
still replaces the key at the next recovery. `CommitsStand` is stated to agree
with the last two.

## 5. Proofs

`EffectJournal_proofs`, from `EffectJournalAssumption` alone, for any runs,
effects and chats and every limit: `TypeCorrect` (`TypeOK`), `Nothing_forgotten`,
`No_blind_turn`, `Finished_means_settled`, `Live_evidence_kept` and the action
property `Recovered_is_final`. None of them is inductive beyond the types: which
evidence a step may rewrite depends on where every run of the chat stands.
`IInv` is `TypeOK`, `ControlInv` and `RecordInv`. `ControlInv` is the order of
things: a run past its turn has quiet tools, a chat has one generation, at rest
nothing is in flight, what a generation listed stays in the file until it is
marked, what it has in flight it has listed, an open turn keeps the results it
was given, and what is owed or entered is explained by the stage recovery is in.
`RecordInv` relates the records: the file's own consistency, how a torn cache
`Follows` the file and local evidence `Remembers` a failed publication, that a
dispatched call is tracked by its harness, that each call under way has its
record, and that what is listed belongs to runs that are over. Each database
operator has a lemma (`SetOp`, `SetEffect`, `WithoutRuns`, `Pruned`, the restart
and the merge); each action that writes the file has one for `RecordInv`, with
its three outcomes of a publication, and each part of `ControlInv` has one for
all actions.

`ChatTurnAdmission_proofs`, from `ChatTurnAdmissionAssumption`, for any chats,
turns, documents, gates and budgets: `ExclusiveWriter` (`OneWriter`),
`QuietUnderGates` (`ClosedChatIsQuiet`), `SavedBeforeAnswered`
(`AnsweredMeansSaved`) and `ImplementsOwnership` (every behaviour is one of
`ChatOwnership`). The invariant `Inv` has the types of the variables that matter
and five facts the properties do not say: a chat has one record, of a turn of
its own; a frame that runs has its record, unsettled (so revocation cannot make
room under a write); a generation excludes records and other generations of its
chat; a settled lease with authority was saved. `OneWriter` alone is not
inductive: without the second fact a released lease would free the chat of a
turn still writing. The argument is one sentence, `NoNewWriter`: only `BeginTurn`
makes a writer, of a chat that has none. The lemmas group the actions by what
they do to a lease (`Releasing`, `Settling`, `Advancing`, `Responding`,
`Standing`, `Handing`, `Beginning`), and `OwnershipStep` reads the refinement off
the same fact: a step without a new writer is a `LetGo` or a stutter.

The budgets are there too: `TypeCorrect` (`TypeOK`) and `Accounts_balance`
(`AccountsBalance`), for any payloads and limits and any number of turns, of which
only those that hold a share need be finitely many. The property compares counters
with sums over sets, so the module first proves what a sum over a finite set is:
that the recursive equation behind `MapThenSumSet` has a solution (`Solvable`),
that the order of the elements does not matter (`SolutionAdds`), and that sums of
the same numbers are the same and add over parts (`AddsSame`, `AddsParts`). `Book`
says that a count and a sum are those of a set; four lemmas say what it becomes
when some give back, one takes, one gives back or one changes a share. `Balanced`
strengthens the property by `Shares`: a lease without its record holds nothing, a
settled one no payload, and a turn without a generation no reservation. Each is
what keeps one action honest: the first `BeginTurn`, which overwrites a lease; the
second `StartGeneration`, which drops one without repaying; the third the handoff,
which overwrites what a generation retains. That a message under way stays paid
for needs `RecordWhileRunning` of the first half.

`TreeScheduler_proofs`, from `TreeSchedulerAssumption`, for any runs, batches and
plans: `TypeCorrect` (`TypeOK`), `Accounts_agree` and the action property
`No_late_start`. The assumption has two parts that matter: the runs of a tree are
finite, and the ledger of a plan admits as many active runs as its deployment has
capacity for, which are the same numbers in the code (1 for a local model, 2 for
a hosted one: `subagent-foreground-persistence-v2.ts:289` and
`subagent-supervisor.ts:1488`). Without it a resume could be refused at the
ledger's limit and its parent would go on without capacity. `AccountsAgree` is not
inductive: whether a counter is right after an item is dispatched depends on what
its run was. `TreeInv` says so, for a tree and the items a loop has taken and not
handled yet: a queued item has a run that waits for it and is there once
(`QueueFits`), the ledger, the entry and the promises of a run agree (`RunFits`),
and the counters count (`Counts`). `Capable` adds, until the tree is cancelled or
out of time, that a task that executes holds capacity unless it awaits its batch.
`Follows` is what no step takes back, and `NoLateStart` follows from it. `OneRun`
states what a step of one run must show; there is a lemma for each of the three
ends of `Offer`, for each piece of a method and for each method. The loops are
folds over the queue. `Chained` and `SolutionEnds` turn such a fold into a chain
of states, one per item (by the least number where the chain would stop, as the
library's induction cannot be instantiated), and `DispatchKeeps`, `DropKeeps` and
`WithoutIs` walk along it.

`ScheduleService_proofs`, from `ScheduleServiceAssumption` (`None` is no task, no
workspace and no call), for any tasks, workspaces and calls: `TypeCorrect`
(`TypeOK`), `Armed_is_current`, `Revoked_workspace_is_idle`,
`Automatic_run_is_wanted` and `Schedule_agrees` (`ScheduleAgrees`). The first is about `schedule()` arming a job after a
write during which it may have been replaced, the others about calls that check
and act on two sides of an await, so `IInv` says who may be where. `CallInv`: at
which points a call of each kind can be, and with which task. `LockInv`: a call
past its lock is at the head of its task's queue, so nobody else is.
`AbsentInv`, `FreshInv`: a task that is being created has no job, no run and no
other call. `JobInv`: a job is of a task that is wanted, in a workspace that is
not blocked. `QuietInv`: a call that took its task out of the schedule leaves
neither job nor wanted run there until it puts it back. `RunInv`: a wanted run is
of the task as the store has it. `WaitInv`: a run in a blocked workspace is one
that `cancelWorkspace` waits for. `CallStepKeeps` states once what a step of a
call may do to its own task and to others; `ScheduleKeeps`, `EndKeeps`,
`MoveKeeps`, `ArmedKeeps`, `BeginKeeps` and `RunKeeps` specialise it to the ways
calls go on, and each action has a lemma that cites one of them.

`ScheduleAgrees` speaks of moments without a call under way, and such moments may
be far apart, so it needs an invariant for the time between. `DebtInv`, inductive
with `IInv` until a write is refused, is an account of who still `Owes` a task its
place in the schedule. `Owed`: an eligible task is armed, or a call still has to
see to it, because it took the task out (pause, edit, removal), because its own
paused job is the one the map holds (`jobs[t] = c`), because it has to undo what it
saved, or because the task is on the list of its loop. `Kept`: an armed task is in
the store. `Unarmed`: the task that an undone creation will remove is not armed
unless it moved since, which makes the rollback be refused. No debt is
dropped: `schedule()` makes the call's own job or finds the task not eligible
(`ScheduleDebt`); the end of its write arms that job, or another call has replaced
it and owes the task instead (`ArmedOwes`); a step of one call leaves the debts of
the others (`StillOwed`, `DebtKeeps`); the switch, `start()` and a resumed
workspace take on every task they make eligible (`SweepDebt`).

`SubagentRuns_proofs`, from `SubagentRunsAssumption`, for any batches, slots,
limits, faults and crashes: `TypeCorrect` (`TypeOK`), `No_child_before_record`,
`Outcomes_stand`, `Ended_is_settled` and the action property `Terminal_is_final`.
Four copies of a
run's snapshot move at different times, so `IInv` says how they stand to each
other. `Snapshots`: what the registry, the queue and the store hold of a run is
its record or an earlier version (`Fits`), the writes queued for a run are in
`Order` and later than what is stored, and the end of a run is stored or queued
unless the queue has failed. `Lives`: where `execute`, scheduler and authority of
each run are; a run that is still to be projected is unknown everywhere, and a
child outlives `execute` only after a cancellation. `BarrierHolds`: the barrier
waits for a write of every record. `Requests`: an answer is in the store, or among
the writes its request waits for. No property is inductive without the first part: a
telemetry write that overtook a stop would rewrite it. `GrowsFit` says what any
growth of the projection keeps of `Snapshots`, `TakenFit` what a write at the head
of the queue does, with its failures; `ProceedingLives` and `UnwindLives` the same
for `Lives`, and `WaitersGrow` for what is waited for. The loops over a batch are
folds, unrolled as in `TreeScheduler_proofs` (`FinishLoop`, `BeginLoop`).

`Ended_is_settled` has a second invariant on top, `Places`, inductive with `IInv`.
`Reserving`: what is reserved is what is prepared or projected and not yet stored,
and it has room. `EndsIn`: until a write fails, each end is stored or queued.
`Slack`: why a reservation is given back even if one write fails. A write that is
reported as failed but was done leaves its run counted twice, as stored and as
reserved, so that in a full store the write of another run may be refused. While
nothing has failed (`Clean`) every run that holds a reservation has two writes to
come, and if the next write of `a` fails, its second one frees the place before the
last write of any other run; after the failure (`Dirty`) at most one run is counted
twice, and no other has its last write before. Two failures can strand a
reservation, which is why the property asks for `faults <= 1`. Each kind of
growth of the queue has its lemma (`SlackStays`, `BeginSlack`, `EndSlack`), so has
each outcome of a write (`WrittenSlack`, `FaultSlack`, `RefusedSlack`).

`ProviderAuth_proofs`, from `ProviderAuthAssumption`: `TypeCorrect` (`TypeOK`) and
`FlowsKeepIntegrity` (`FlowIntegrity`), for any flows, documents and prompts.
`IInv` adds three parts to the types. `SlotInv`: a flow that lives is the one in
the slot, no sign-out runs beside it, and what the shutdown promise waits for is
what was there. `StopInv`: what was acknowledged as cancelled is aborted, an
aborted flow neither commits nor is stored, and what was told agrees with the
phase. `PromptInv`: an open question is the pending one of the flow in the slot,
and no other flow has one. `OutcomeAgrees` alone is not inductive: a flow that
was acknowledged as cancelled without being aborted could still be stored.

`CredentialRotation_proofs`, from `CredentialRotationAssumption` and
`NoneAssumption` (`None` is neither a key with its endpoint nor a journal):
`TypeCorrect`, `KeysStayWithEndpoints` (`KeysFitEndpoints`) and `PromisesStand`
(`CommitsStand`), for any endpoints and requests
and any number of edits, failed reads, faults and crashes. `KeysFitEndpoints` is
an action property: a pair of a key and an endpoint that the map did not have,
in use, aside or in the journal, appears only in the turn of the request the key
came with, and if an endpoint came with it, with that one. It needs two things
of the states: `AskInv` (the key of a save came with its target, a key entered
alone with none) and `TurnInv` (who holds the turn is at a step of its kind).
Then every step is looked at: a recovery binds the key that the journal has for
the endpoint the file has, which `Pairs` counts already; reconciliation swaps or
moves pairs; a journal adds the old pair, and the new key with its target.

`CommitsStand` speaks of file, map and journal together, and is not inductive: it
does not say what the write under way will make of the other two. A second
invariant, `CommitInv`, does. `JournalInv`: there is a journal from the first write of a request to its last,
and whenever the last turn stopped between. `KeptInv`: file and map, read
through the journal (`Effective`), are what the last commit left, as long as no
edit or torn publication made that void, and for the key no failed read. `StagedInv`: a journal is dropped only
when the key in use is the one it decides for, in whichever order the map was
written. `PlannedInv`: while a request publishes the file, its journal makes of its
target what the request asks for: the key that came with it, the key in
use at the same endpoint, or none; or a read failed, and the promise for which
that matters is not sure. `AsideInv` is what the renderer's sync of the
config file needs: a key of the endpoint in use is set aside only by a sync
that decided before an edit, which `Late` describes. There is a lemma for each step
of a turn, for reconciliation and for the edit that comes between.

`DataStore_proofs`, from `DataStoreAssumption`: `Types` (`TypeOK`),
`Document_stands`, `Nothing_lost` and `Document_returns`, for any edits and saves
and any number of failures and crashes, except where the properties except a
kind of failure: the first two stop at an `Unseeing` one, `Document_returns` at a
failed restoration or listing. The first two safety properties say little about a name in the directory that nobody has looked at, so they are not
inductive. `ControlInv` is the order of the queue, and holds whatever fails. `Safe`
holds until a call fails after which old files are not seen: at most one held
name is the document (`HeldInv`); the hash in a name speaks only of changes that
stand (`StandInv`); a name is given up only when what its file says stands
(`DropInv`); the editor does not write a file the store is about to give up
(`EditorInv`); and a new file holds all that stood when the old one was checked
(`SnapInv`), which is what `Link`, the one step that changes what stands, needs.
`ReturnInv` names who brings a document back that is not at its path. There is
one lemma per action for the types and the queue, one for `Safe`, and one case
of `ReturnStep`; `NameGone` serves the four steps that remove a name.

Every invariant, action property and refinement that a passing run checks is
proved. Only model-checked is liveness, which is beyond the prover.

## 6. Plan

1. Done: `EffectJournal`, `ChatTurnAdmission` with `ChatOwnership`,
   `TreeScheduler`, `ScheduleService`, `SubagentRuns`, `ProviderAuth`,
   `CredentialRotation`, `DataStore`.
2. Done: the proofs of every safety property of these modules.
3. `DataStore`: the abstract specification "an atomic register that may fail", used by `EffectJournal` and `CredentialRotation`.
4. Deletion of run records with a chat, one-shot approvals, the generation-bound
   connection cache, managed worktrees, the updater.

Not modelled, and why: PROJECT.json lists each component with its reason. In
short: data (parsing, prompts, catalogs, usage sums), the operating system
(terminals, git, native helpers, packaging) and the user interface. Most of the
repository's lines are of these kinds; the modules cover the parts of the main
process where steps of several actors meet.
