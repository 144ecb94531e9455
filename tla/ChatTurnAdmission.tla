------------------------- MODULE ChatTurnAdmission -------------------------
(***************************************************************************)
(* Which turn may write to a chat (chat-turn-admission.ts), and the gates  *)
(* that close a chat to turns while it is deleted, copied, moved or        *)
(* reconfigured (llm-client.ts, handlers/chats.ts).                        *)
(*                                                                         *)
(* A turn claims its chat before the user's message is saved, keeps it     *)
(* across the awaits of the append, and hands it to the generation that    *)
(* answers.  Its authority can be revoked at any await: by its expiry, by  *)
(* the user, by a deletion, by the renderer document going away.  The      *)
(* append that is under way then still holds the chat and its share of the *)
(* payload budget until it settles.                                        *)
(*                                                                         *)
(* JavaScript runs one callback at a time: each action is what runs        *)
(* between two awaits.  A turn id is used once.                            *)
(***************************************************************************)
EXTENDS Integers, FiniteSets, FiniteSetsExt

CONSTANTS
    Chats,             \* chat ids
    Changes,           \* gates that a busy chat keeps closed; copies and
                       \* exports share one
    Turns,             \* turn ids
    Owners,            \* owner documents of the turns
    TurnChat,          \* the chat a turn is sent to
    TurnOwner,         \* the document that sent it
    Scheduled,         \* turns of the scheduler: no reservation, no reload
    WriteOnly,         \* scheduled turns that only write a message
    Skill,             \* turns that invoke a skill
    Payload,           \* retained bytes of a turn's message
    Prompt,            \* bytes of a turn's formatted skill prompt
    SkillReservation,  \* SLASH_LIMITS.formattedInvocationBytes
    MaxPreparedTurns,
    MaxPreparedBytes,
    MaxAppendTurns,
    MaxAppendBytes

ASSUME ChatTurnAdmissionAssumption ==
    /\ Changes \subseteq {"copy", "move", "computer-use"}
    /\ TurnChat \in [Turns -> Chats]
    /\ TurnOwner \in [Turns -> Owners]
    /\ Scheduled \subseteq Turns
    /\ WriteOnly \subseteq Scheduled
    /\ Skill \subseteq Turns \ Scheduled
    /\ Payload \in [Turns -> Nat]
    /\ Prompt \in [Turns -> Nat]
    /\ SkillReservation \in Nat
    /\ MaxPreparedTurns \in Nat
    /\ MaxPreparedBytes \in Nat
    /\ MaxAppendTurns \in Nat
    /\ MaxAppendBytes \in Nat

TurnsOf(c) == {t \in Turns : TurnChat[t] = c}
TurnsBy(o) == {t \in Turns : TurnOwner[t] = o}

----------------------------------------------------------------------------
(* A lease as its record keeps it.  A turn without a record has NoLease.   *)

Lease == [authority : BOOLEAN, settled : BOOLEAN, prepared : BOOLEAN,
          skillSlot : BOOLEAN, skillBytes : Nat,
          appendSlot : BOOLEAN, appendBytes : Nat]

NoLease == [authority |-> FALSE, settled |-> FALSE, prepared |-> FALSE,
            skillSlot |-> FALSE, skillBytes |-> 0,
            appendSlot |-> FALSE, appendBytes |-> 0]
NewLease == [NoLease EXCEPT !.authority = TRUE]

\* Where the async frame that appends a turn's message stands.
FrameSteps == {"idle", "claimed", "reserved", "loading", "appending",
               "writing", "over"}

\* Where the generation a turn started stands.  "children" is a response that
\* is over while subagents of its chat still run.
GenerationSteps == {"none", "initializing", "active", "children", "over"}

DeletionSteps == {"open", "stopping", "erasing", "held"}

----------------------------------------------------------------------------
VARIABLES
    turns,        \* ChatTurnAdmission.turns: a chat's one record, or {}
    lease,        \* what the record of a turn says
    skillTurns, skillBytes, appendTurns, appendBytes,
    required,     \* reconciliationRequiredOwners
    departed,     \* turns writing for a document that went away
    frame,        \* the async frame of each turn
    generation,   \* the generation each turn started
    retained,     \* the skill bytes a generation still has to release
    changing,     \* the change gates that are held
    deletion,     \* the deletion gate of each chat
    removed,      \* chats that are gone from the store
    committed     \* history: turns whose message is in the store

admissionVars == <<turns, lease, skillTurns, skillBytes, appendTurns,
                   appendBytes>>
gateVars == <<changing, deletion, removed>>
ownerVars == <<required, departed>>
vars == <<admissionVars, ownerVars, frame, generation, retained, gateVars,
          committed>>

NoReservation == -1

TypeOK ==
    /\ turns \in [Chats -> SUBSET Turns]
    /\ lease \in [Turns -> Lease]
    /\ skillTurns \in Nat /\ skillBytes \in Nat
    /\ appendTurns \in Nat /\ appendBytes \in Nat
    /\ required \subseteq Owners
    /\ departed \subseteq Turns
    /\ frame \in [Turns -> FrameSteps]
    /\ generation \in [Turns -> GenerationSteps]
    /\ retained \in [Turns -> Nat \cup {NoReservation}]
    /\ changing \subseteq Chats \X Changes
    /\ deletion \in [Chats -> DeletionSteps]
    /\ removed \subseteq Chats
    /\ committed \subseteq Turns

Init ==
    /\ turns = [c \in Chats |-> {}]
    /\ lease = [t \in Turns |-> NoLease]
    /\ skillTurns = 0 /\ skillBytes = 0
    /\ appendTurns = 0 /\ appendBytes = 0
    /\ required = {}
    /\ departed = {}
    /\ frame = [t \in Turns |-> "idle"]
    /\ generation = [t \in Turns |-> "none"]
    /\ retained = [t \in Turns |-> NoReservation]
    /\ changing = {}
    /\ deletion = [c \in Chats |-> "open"]
    /\ removed = {}
    /\ committed = {}

----------------------------------------------------------------------------
(* Who holds a chat.                                                       *)

Admitted(c) == turns[c] # {}
HasRecord(t) == t \in turns[TurnChat[t]]

Generating(t) == generation[t] \in {"initializing", "active", "children"}

\* Would forget the generation that still awaits its setup.
Mutant_HasGeneration(c) ==
    \E t \in TurnsOf(c) : generation[t] \in {"active", "children"}
HasGeneration(c) == \E t \in TurnsOf(c) : Generating(t)

\* Would ask only for the generation.
Mutant_Busy(c) == HasGeneration(c)
\* isChatBusy
Busy(c) == Admitted(c) \/ HasGeneration(c)

IsActive(t) == HasRecord(t) /\ lease[t].authority

\* Would start while the append is under way.
Mutant_Owns(t) == IsActive(t)
\* owns: a turn may start its generation once its append has settled.
Owns(t) == IsActive(t) /\ lease[t].settled

----------------------------------------------------------------------------
(* release() and settleAsyncWork() of the leases of some turns.  A record  *)
(* is finalized when it has lost its authority and its append has settled; *)
(* a lease whose record is gone, or is another turn's, changes nothing.    *)

\* Would forget the record at its release.
Mutant_Finalized(authority, settled) == ~authority
Finalized(authority, settled) == ~authority /\ settled

\* The leases that lose their record.
FinalizedBy(leases, release, settle) ==
    {t \in leases : /\ HasRecord(t)
                    /\ Finalized(lease[t].authority /\ ~release,
                                 lease[t].settled \/ settle)}

\* The leases whose append leaves the payload budget.
RepaidBy(leases, release, settle) ==
    {t \in leases : /\ HasRecord(t) /\ lease[t].appendSlot
                    /\ \/ t \in FinalizedBy(leases, release, settle)
                       \/ settle /\ ~lease[t].settled}

Close(leases, release, settle) ==
    LET finalized == FinalizedBy(leases, release, settle)
        repaid == RepaidBy(leases, release, settle)
        freed == {t \in finalized : lease[t].skillSlot}
    IN
    /\ turns' = [c \in Chats |-> turns[c] \ finalized]
    /\ lease' = [t \in Turns |->
                    IF t \in finalized THEN NoLease
                    ELSE IF t \in leases /\ HasRecord(t)
                    THEN [lease[t] EXCEPT
                             !.authority = @ /\ ~release,
                             !.settled = @ \/ settle,
                             !.appendSlot = @ /\ t \notin repaid,
                             !.appendBytes = IF t \in repaid THEN 0 ELSE @]
                    ELSE lease[t]]
    /\ appendTurns' = appendTurns - Cardinality(repaid)
    /\ appendBytes' = appendBytes - MapThenSumSet(LAMBDA t : lease[t].appendBytes,
                                                  repaid)
    /\ skillTurns' = skillTurns - Cardinality(freed)
    /\ skillBytes' = skillBytes - MapThenSumSet(LAMBDA t : lease[t].skillBytes,
                                                freed)

\* Would clear the timer once the message is saved.
Mutant_RevokeTurn(t) ==
    /\ frame[t] \notin {"idle", "over"}
    /\ Close({t}, TRUE, FALSE)
    /\ UNCHANGED <<ownerVars, frame, generation, retained, gateVars, committed>>
\* A lease released by its expiry timer, by chats:abandonTurn, by a refused
\* chat:start, by a workspace change, or by the finally block of a scheduled
\* run, however late that comes.
RevokeTurn(t) ==
    /\ frame[t] # "idle"
    /\ Close({t}, TRUE, FALSE)
    /\ UNCHANGED <<ownerVars, frame, generation, retained, gateVars, committed>>

\* The renderer document goes away: every lease it owns is released, and a
\* fresh document may write again.  Its generations are cancelled, which ends
\* them like any other end.
InvalidateOwner(o) ==
    /\ \E t \in TurnsBy(o) : t \notin Scheduled
    /\ Close(TurnsBy(o), TRUE, FALSE)
    /\ required' = required \ {o}
    /\ departed' = departed \cup {t \in TurnsBy(o) : frame[t] = "writing"}
    /\ UNCHANGED <<frame, generation, retained, gateVars, committed>>

\* abortAll at shutdown.
ReleaseAll ==
    /\ Close(Turns, TRUE, FALSE)
    /\ UNCHANGED <<ownerVars, frame, generation, retained, gateVars, committed>>
----------------------------------------------------------------------------
(* chats:appendMessage, and the scheduler's own appends.                   *)

\* beginChatTurn and tryBegin: refused while the chat is closed or busy, or
\* while the document must reload first.
BeginTurn(t) ==
    LET c == TurnChat[t] IN
    /\ frame[t] = "idle"
    /\ TurnOwner[t] \notin required
    /\ deletion[c] = "open"
    /\ \A k \in Changes : <<c, k>> \notin changing
    /\ ~Admitted(c) /\ ~HasGeneration(c)
    /\ turns' = [turns EXCEPT ![c] = {t}]
    /\ lease' = [lease EXCEPT ![t] = NewLease]
    /\ frame' = [frame EXCEPT ![t] = IF t \in Scheduled THEN "appending"
                                                       ELSE "claimed"]
    /\ UNCHANGED <<skillTurns, skillBytes, appendTurns, appendBytes, ownerVars,
                   generation, retained, gateVars, committed>>

SkillRoom ==
    /\ skillTurns < MaxPreparedTurns
    /\ SkillReservation <= MaxPreparedBytes - skillBytes
AppendRoom(bytes) ==
    /\ appendTurns < MaxAppendTurns
    /\ bytes <= MaxAppendBytes - appendBytes

ReserveSkill(t) ==
    /\ frame[t] = "claimed" /\ t \in Skill
    /\ IsActive(t) /\ ~lease[t].skillSlot /\ SkillRoom
    /\ lease' = [lease EXCEPT ![t].skillSlot = TRUE,
                             ![t].skillBytes = SkillReservation]
    /\ skillTurns' = skillTurns + 1
    /\ skillBytes' = skillBytes + SkillReservation
    /\ frame' = [frame EXCEPT ![t] = "reserved"]
    /\ UNCHANGED <<turns, appendTurns, appendBytes, ownerVars, generation,
                   retained, gateVars, committed>>

ReserveAppend(t) ==
    /\ frame[t] = IF t \in Skill THEN "reserved" ELSE "claimed"
    /\ IsActive(t) /\ ~lease[t].appendSlot /\ AppendRoom(Payload[t])
    /\ lease' = [lease EXCEPT ![t].appendSlot = TRUE,
                             ![t].appendBytes = Payload[t]]
    /\ appendTurns' = appendTurns + 1
    /\ appendBytes' = appendBytes + Payload[t]
    /\ frame' = [frame EXCEPT ![t] = IF t \in Skill THEN "loading"
                                                   ELSE "appending"]
    /\ UNCHANGED <<turns, skillTurns, skillBytes, ownerVars, generation,
                   retained, gateVars, committed>>

\* No room, or the turn was released in between: release and settle.
RefuseReservation(t) ==
    /\ \/ frame[t] = "claimed" /\ t \in Skill /\ ~(IsActive(t) /\ SkillRoom)
       \/ /\ frame[t] = IF t \in Skill THEN "reserved" ELSE "claimed"
          /\ ~(IsActive(t) /\ AppendRoom(Payload[t]))
    /\ Close({t}, TRUE, TRUE)
    /\ frame' = [frame EXCEPT ![t] = "over"]
    /\ UNCHANGED <<ownerVars, generation, retained, gateVars, committed>>

\* Would keep the whole reservation in the account.
Mutant_PrepareSkill(t) ==
    /\ frame[t] = "loading"
    /\ IsActive(t) /\ lease[t].skillSlot /\ ~lease[t].prepared
    /\ Prompt[t] <= lease[t].skillBytes
    /\ lease' = [lease EXCEPT ![t].prepared = TRUE,
                             ![t].skillBytes = Prompt[t]]
    /\ frame' = [frame EXCEPT ![t] = "appending"]
    /\ UNCHANGED <<turns, skillTurns, skillBytes, appendTurns, appendBytes,
                   ownerVars, generation, retained, gateVars, committed>>
\* The chat and the skill are loaded; the formatted prompt replaces the
\* reservation made for it.
PrepareSkill(t) ==
    /\ frame[t] = "loading"
    /\ IsActive(t) /\ lease[t].skillSlot /\ ~lease[t].prepared
    /\ Prompt[t] <= lease[t].skillBytes
    /\ lease' = [lease EXCEPT ![t].prepared = TRUE,
                             ![t].skillBytes = Prompt[t]]
    /\ skillBytes' = skillBytes - (lease[t].skillBytes - Prompt[t])
    /\ frame' = [frame EXCEPT ![t] = "appending"]
    /\ UNCHANGED <<turns, skillTurns, appendTurns, appendBytes, ownerVars,
                   generation, retained, gateVars, committed>>

\* ChatStore asks isCurrent a last time before it replaces the chat's file.
\* The scheduler's appends do not ask.
WriteMessage(t) ==
    /\ frame[t] = "appending"
    /\ t \in Scheduled \/ IsActive(t)
    /\ TurnChat[t] \notin removed
    /\ frame' = [frame EXCEPT ![t] = "writing"]
    /\ UNCHANGED <<admissionVars, ownerVars, generation, retained, gateVars,
                   committed>>

\* The append is known to be in the store, also when the store reported a
\* failure and reading the chat back found the message.
AppendSucceeds(t) ==
    /\ frame[t] = "writing"
    /\ committed' = committed \cup {t}
    /\ Close({t}, t \in WriteOnly, TRUE)
    /\ frame' = [frame EXCEPT ![t] = "over"]
    /\ departed' = departed \ {t}
    /\ UNCHANGED <<required, generation, retained, gateVars>>

\* markAppendReconciliationRequired, and the clearing it leaves to the end of
\* the document: at once when the document is gone, whose id, and whose mark,
\* may by then be the reloaded one's.
Marked(o, isGone) == IF isGone THEN required \ {o} ELSE required \cup {o}

\* The append fails, is out of date, or cannot be told: then the document
\* must reload before it sends again.  The scheduler reads nothing back.
AppendFails(t) ==
    /\ \/ /\ frame[t] \in {"loading", "appending"}
          /\ UNCHANGED <<required, committed>>
       \/ /\ frame[t] = "writing" /\ t \notin Scheduled
          /\ \/ UNCHANGED <<required, committed>>
             \/ /\ required' = Marked(TurnOwner[t], t \in departed)
                /\ committed' \in {committed, committed \cup {t}}
       \/ /\ frame[t] = "writing" /\ t \in Scheduled
          /\ committed' \in {committed, committed \cup {t}}
          /\ UNCHANGED required
    /\ Close({t}, TRUE, TRUE)
    /\ frame' = [frame EXCEPT ![t] = "over"]
    /\ departed' = departed \ {t}
    /\ UNCHANGED <<generation, retained, gateVars>>

\* A chat creation or copy of a document that cannot be told either.
RequireReconciliation(o) ==
    /\ \E t \in TurnsBy(o) : t \notin Scheduled
    /\ \E isGone \in BOOLEAN : required' = Marked(o, isGone)
    /\ UNCHANGED <<admissionVars, departed, frame, generation, retained,
                   gateVars, committed>>

----------------------------------------------------------------------------
(* The generation that answers (llm-client.ts start).                      *)

\* Every check of start and handoff runs before its first await: the
\* generation is registered and the lease released in one step, and the
\* skill reservation moves to the generation.  A refused start releases the
\* lease, which is RevokeTurn.
StartGeneration(t) ==
    LET c == TurnChat[t] IN
    /\ t \notin WriteOnly /\ generation[t] = "none"
    /\ Owns(t)
    /\ deletion[c] = "open"
    /\ \A k \in Changes : <<c, k>> \notin changing
    /\ ~HasGeneration(c)
    /\ generation' = [generation EXCEPT ![t] = "initializing"]
    /\ retained' = [retained EXCEPT ![t] = IF lease[t].skillSlot
                                          THEN lease[t].skillBytes
                                          ELSE NoReservation]
    /\ turns' = [turns EXCEPT ![c] = {}]
    /\ lease' = [lease EXCEPT ![t] = NoLease]
    /\ UNCHANGED <<skillTurns, skillBytes, appendTurns, appendBytes, ownerVars,
                   frame, gateVars, committed>>

\* Would give back a reservation that was never made.
Mutant_ReleaseReservation(t) ==
    /\ retained' = [retained EXCEPT ![t] = NoReservation]
    /\ skillTurns' = skillTurns - 1
    /\ skillBytes' = skillBytes - retained[t]
\* releaseGenerationSkillReservation
ReleaseReservation(t) ==
    /\ retained' = [retained EXCEPT ![t] = NoReservation]
    /\ IF retained[t] = NoReservation
       THEN UNCHANGED <<skillTurns, skillBytes>>
       ELSE /\ skillTurns' = skillTurns - 1
            /\ skillBytes' = skillBytes - retained[t]

ActivateGeneration(t) ==
    /\ generation[t] = "initializing"
    /\ generation' = [generation EXCEPT ![t] = "active"]
    /\ UNCHANGED <<admissionVars, ownerVars, frame, retained, gateVars,
                   committed>>

\* Only a generation that ran can leave subagents behind.
EndGeneration(t) ==
    /\ \/ /\ generation[t] = "initializing"
          /\ generation' = [generation EXCEPT ![t] = "over"]
       \/ /\ generation[t] = "active"
          /\ \E next \in {"children", "over"} :
                generation' = [generation EXCEPT ![t] = next]
    /\ ReleaseReservation(t)
    /\ UNCHANGED <<turns, lease, appendTurns, appendBytes, ownerVars, frame,
                   gateVars, committed>>

ChildrenEnd(t) ==
    /\ generation[t] = "children"
    /\ generation' = [generation EXCEPT ![t] = "over"]
    /\ UNCHANGED <<admissionVars, ownerVars, frame, retained, gateVars,
                   committed>>

----------------------------------------------------------------------------
(* The gates of a chat.                                                    *)

\* beginChatCopy, beginChatExport, beginChatWorkspaceChange and
\* beginComputerUseSettingChange.
BeginChange(c, k) ==
    /\ <<c, k>> \notin changing /\ ~Busy(c)
    /\ k # "computer-use" => deletion[c] = "open"
    /\ changing' = changing \cup {<<c, k>>}
    /\ UNCHANGED <<admissionVars, ownerVars, frame, generation, retained,
                   deletion, removed, committed>>

EndChange(c, k) ==
    /\ <<c, k>> \in changing
    /\ changing' = changing \ {<<c, k>>}
    /\ UNCHANGED <<admissionVars, ownerVars, frame, generation, retained,
                   deletion, removed, committed>>

\* beginChatDeletion closes the chat and revokes its lease; cancelChat then
\* waits for what still holds it.
BeginDeletion(c) ==
    /\ deletion[c] = "open"
    /\ deletion' = [deletion EXCEPT ![c] = "stopping"]
    /\ Close(turns[c], TRUE, FALSE)
    /\ UNCHANGED <<ownerVars, frame, generation, retained, changing, removed,
                   committed>>

StopChat(c) ==
    /\ deletion[c] = "stopping" /\ ~Busy(c)
    /\ deletion' = [deletion EXCEPT ![c] = "erasing"]
    /\ UNCHANGED <<admissionVars, ownerVars, frame, generation, retained,
                   changing, removed, committed>>

\* The wait times out before any durable intent: admission opens again,
\* unless the stores cannot even say so.
StopTimesOut(c) ==
    /\ deletion[c] = "stopping" /\ Busy(c)
    /\ \E next \in {"open", "held"} :
          deletion' = [deletion EXCEPT ![c] = next]
    /\ UNCHANGED <<admissionVars, ownerVars, frame, generation, retained,
                   changing, removed, committed>>

\* The stores are erased and the gate opens; a partial failure with a durable
\* intent keeps it closed until a restart.
EraseChat(c) ==
    /\ deletion[c] = "erasing"
    /\ \/ /\ removed' = removed \cup {c}
          /\ \E next \in {"open", "held"} :
                deletion' = [deletion EXCEPT ![c] = next]
       \/ /\ \E next \in {"open", "held"} :
                deletion' = [deletion EXCEPT ![c] = next]
          /\ UNCHANGED removed
    /\ UNCHANGED <<admissionVars, ownerVars, frame, generation, retained,
                   changing, committed>>

----------------------------------------------------------------------------
FrameStep(t) ==
    \/ ReserveSkill(t) \/ ReserveAppend(t) \/ RefuseReservation(t)
    \/ PrepareSkill(t) \/ WriteMessage(t) \/ AppendSucceeds(t)
    \/ AppendFails(t)

GenerationStep(t) ==
    StartGeneration(t) \/ ActivateGeneration(t) \/ EndGeneration(t)
        \/ ChildrenEnd(t)

GateStep(c) ==
    \/ BeginDeletion(c) \/ StopChat(c) \/ StopTimesOut(c) \/ EraseChat(c)
    \/ \E k \in Changes : BeginChange(c, k) \/ EndChange(c, k)

Next ==
    \/ \E t \in Turns : BeginTurn(t) \/ RevokeTurn(t) \/ FrameStep(t)
                          \/ GenerationStep(t)
    \/ \E o \in Owners : InvalidateOwner(o) \/ RequireReconciliation(o)
    \/ \E c \in Chats : GateStep(c)
    \/ ReleaseAll

Spec == Init /\ [][Next]_vars

\* The timer of a lease fires, and an append frame runs to its end: reading a
\* chat, resolving a skill and writing a file all return or throw.
Fairness == \A t \in Turns : WF_vars(RevokeTurn(t)) /\ WF_vars(FrameStep(t))
FairSpec == Spec /\ Fairness

----------------------------------------------------------------------------
(* Properties.                                                             *)

\* A turn that may still write to its chat: its record exists, its append is
\* under way, or the generation it started is.
Writer(t) ==
    \/ HasRecord(t)
    \/ frame[t] \notin {"idle", "over"}
    \/ Generating(t)

\* What a frame under way has in the budget.
PayloadStaysCharged ==
    \A t \in Turns \ Scheduled :
        frame[t] \in {"loading", "appending", "writing"} =>
            lease[t].appendSlot /\ lease[t].appendBytes = Payload[t]

\* The budgets are exact through every release, expiry, handoff and failure:
\* they count the leases and the generations that still hold a share, and
\* never pass their limits; and a message under way is paid for: a renderer's
\* payload stays in the budget until its append settles, revoked or not.
AccountsBalance ==
    LET appending == {t \in Turns : lease[t].appendSlot}
        preparing == {t \in Turns : lease[t].skillSlot}
        charged == {t \in Turns : retained[t] # NoReservation}
    IN
    /\ appendTurns = Cardinality(appending)
    /\ appendBytes = MapThenSumSet(LAMBDA t : lease[t].appendBytes, appending)
    /\ skillTurns = Cardinality(preparing) + Cardinality(charged)
    /\ skillBytes = MapThenSumSet(LAMBDA t : lease[t].skillBytes, preparing)
                     + MapThenSumSet(LAMBDA t : retained[t], charged)
    /\ appendTurns <= MaxAppendTurns /\ appendBytes <= MaxAppendBytes
    /\ skillTurns <= MaxPreparedTurns /\ skillBytes <= MaxPreparedBytes
    /\ PayloadStaysCharged

\* Two turns never write to one chat, however their leases end.
OneWriter ==
    \A s, t \in Turns :
        Writer(s) /\ Writer(t) /\ TurnChat[s] = TurnChat[t] => s = t

\* While a chat is copied, moved, reconfigured or erased, no turn writes to it.
ClosedChatIsQuiet ==
    \A t \in Turns :
        LET c == TurnChat[t] IN
        Writer(t) => /\ \A k \in Changes : <<c, k>> \notin changing
                     /\ deletion[c] # "erasing"

\* The model answers only what was saved.
AnsweredMeansSaved ==
    \A t \in Turns : generation[t] # "none" => t \in committed

\* No lease keeps a chat busy forever, whatever its owner does.
TurnsEnd == \A c \in Chats : turns[c] # {} ~> turns[c] = {}

\* The handoff from append to generation leaves no gap: admission implements
\* one holder per chat, from the claim to the end of the response.
Ownership ==
    INSTANCE ChatOwnership WITH
        holder <- [c \in Chats |-> {t \in TurnsOf(c) : Writer(t)}],
        spent <- {t \in Turns : frame[t] # "idle"}
OneHolder == Ownership!Spec

=============================================================================
