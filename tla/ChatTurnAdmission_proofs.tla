---------------------- MODULE ChatTurnAdmission_proofs ----------------------
(***************************************************************************)
(* Turn admission gives a chat to one turn at a time, for any number of    *)
(* chats, turns and documents and any budget: the safety properties of     *)
(* ChatTurnAdmission, its budgets included, and that it implements         *)
(* ChatOwnership.                                                          *)
(*                                                                         *)
(* Ownership rests on one observation: only BeginTurn makes a writer, and  *)
(* only of a chat that has none.  The budgets rest on another: a share is  *)
(* given back with the record, or the generation, that holds it.           *)
(***************************************************************************)
EXTENDS ChatTurnAdmission, FiniteSetTheorems, WellFoundedInduction, TLAPS

Running(t) == frame[t] \notin {"idle", "over"}

Shape ==
    /\ turns \in [Chats -> SUBSET Turns]
    /\ lease \in [Turns -> Lease]
    /\ frame \in [Turns -> FrameSteps]
    /\ generation \in [Turns -> GenerationSteps]
    /\ changing \subseteq Chats \X Changes
    /\ deletion \in [Chats -> DeletionSteps]

\* tryBegin keys the record by its chat, and finds none there.
OneRecord ==
    \A c \in Chats : /\ turns[c] \subseteq TurnsOf(c)
                     /\ \A s, t \in turns[c] : s = t

\* A record outlives its authority until the append has settled.
RecordWhileRunning ==
    \A t \in Turns : Running(t) => HasRecord(t) /\ ~lease[t].settled

\* A generation and a record never share a chat, nor do two generations.
OneAnswer ==
    \A t \in Turns : Generating(t) =>
        /\ turns[TurnChat[t]] = {}
        /\ \A s \in TurnsOf(TurnChat[t]) : Generating(s) => s = t

\* A settled append that kept its authority was saved.
SettledIsSaved ==
    \A t \in Turns : HasRecord(t) /\ lease[t].authority /\ lease[t].settled =>
        t \in committed

Held ==
    /\ OneRecord /\ RecordWhileRunning /\ OneAnswer
    /\ SettledIsSaved /\ AnsweredMeansSaved
Inv == Shape /\ Held /\ ClosedChatIsQuiet

\* What every step but BeginTurn does to the writers of chats.
NoNewWriter ==
    \A t \in Turns : /\ Writer(t)' => Writer(t)
                     /\ frame'[t] = "idle" <=> frame[t] = "idle"

----------------------------------------------------------------------------
(* What Close does to the records; its counters play no part.              *)

\* Close removes exactly the finalized records.
LEMMA CloseRecords ==
    ASSUME NEW leases, NEW release, NEW settle,
           Close(leases, release, settle)
    PROVE  turns' = [c \in Chats |->
                        turns[c] \ FinalizedBy(leases, release, settle)]
  BY DEF Close

\* Close changes only the leases it is given, and they stay leases.
LEMMA CloseLeases ==
    ASSUME NEW leases \in SUBSET Turns,
           NEW release \in BOOLEAN, NEW settle \in BOOLEAN,
           Shape, OneRecord, Close(leases, release, settle)
    PROVE  /\ lease' \in [Turns -> Lease]
           /\ \A t \in Turns \ leases : lease'[t] = lease[t]
           /\ \A t \in leases : HasRecord(t)' =>
                 /\ lease'[t].authority = (lease[t].authority /\ ~release)
                 /\ lease'[t].settled = (lease[t].settled \/ settle)
<1> DEFINE finalized == FinalizedBy(leases, release, settle)
           repaid == RepaidBy(leases, release, settle)
           changed(t) == [lease[t] EXCEPT
                            !.authority = @ /\ ~release,
                            !.settled = @ \/ settle,
                            !.appendSlot = @ /\ t \notin repaid,
                            !.appendBytes = IF t \in repaid THEN 0 ELSE @]
<1>1. lease' = [t \in Turns |-> IF t \in finalized THEN NoLease
                                ELSE IF t \in leases /\ HasRecord(t)
                                THEN changed(t) ELSE lease[t]]
  BY DEF Close
<1>2. \A t \in Turns :
        /\ changed(t) \in Lease
        /\ changed(t).authority = (lease[t].authority /\ ~release)
        /\ changed(t).settled = (lease[t].settled \/ settle)
  <2> TAKE t \in Turns
  <2>1. lease[t] \in Lease
    BY DEF Shape
  <2> HIDE DEF finalized, repaid
  <2>2. changed(t) \in Lease
    <3> DEFINE a == lease[t].authority /\ ~release
               s == lease[t].settled \/ settle
               w == lease[t].appendSlot /\ t \notin repaid
               n == IF t \in repaid THEN 0 ELSE lease[t].appendBytes
    <3>1. a \in BOOLEAN /\ s \in BOOLEAN /\ w \in BOOLEAN /\ n \in Nat
      BY <2>1 DEF Lease
    <3>2. changed(t) = [[[[lease[t] EXCEPT !.authority = a] EXCEPT !.settled = s]
                            EXCEPT !.appendSlot = w] EXCEPT !.appendBytes = n]
      OBVIOUS
    <3> HIDE DEF a, s, w, n, changed
    <3>3. [lease[t] EXCEPT !.authority = a] \in Lease
      BY <2>1, <3>1 DEF Lease
    <3>4. [[lease[t] EXCEPT !.authority = a] EXCEPT !.settled = s] \in Lease
      BY <3>1, <3>3 DEF Lease
    <3>5. [[[lease[t] EXCEPT !.authority = a] EXCEPT !.settled = s]
              EXCEPT !.appendSlot = w] \in Lease
      BY <3>1, <3>4 DEF Lease
    <3> QED
      BY <3>1, <3>2, <3>5 DEF Lease
  <2>3. changed(t).authority = (lease[t].authority /\ ~release)
    BY <2>1 DEF Lease
  <2>4. changed(t).settled = (lease[t].settled \/ settle)
    BY <2>1 DEF Lease
  <2> QED
    BY <2>2, <2>3, <2>4
<1>3. finalized \subseteq leases
  BY DEF FinalizedBy
<1>4. \A t \in leases : HasRecord(t)' => HasRecord(t) /\ t \notin finalized
  <2>1. turns' = [c \in Chats |-> turns[c] \ finalized]
    BY CloseRecords
  <2> QED
    BY <2>1, ChatTurnAdmissionAssumption DEF HasRecord, Shape
<1>5. NoLease \in Lease
  BY DEF NoLease, Lease
<1> HIDE DEF finalized, changed
<1>6. lease' \in [Turns -> Lease]
  BY <1>1, <1>2, <1>5 DEF Shape
<1>7. \A t \in Turns \ leases : lease'[t] = lease[t]
  BY <1>1, <1>3
<1>8. \A t \in leases : HasRecord(t)' => lease'[t] = changed(t)
  BY <1>1, <1>4
<1> QED
  BY <1>2, <1>6, <1>7, <1>8

\* A record that goes was settled; the others stay.
LEMMA CloseKeeps ==
    ASSUME NEW leases \in SUBSET Turns,
           NEW release \in BOOLEAN, NEW settle \in BOOLEAN,
           Shape, OneRecord, Close(leases, release, settle)
    PROVE  /\ turns' \in [Chats -> SUBSET Turns]
           /\ \A c \in Chats : turns'[c] \subseteq turns[c]
           /\ OneRecord'
           /\ \A t \in Turns : HasRecord(t)' => HasRecord(t)
           /\ \A t \in Turns : HasRecord(t) /\ ~HasRecord(t)' =>
                 t \in leases /\ (lease[t].settled \/ settle)
<1>1. turns' = [c \in Chats |->
                   turns[c] \ FinalizedBy(leases, release, settle)]
  BY CloseRecords
<1>2. /\ turns' \in [Chats -> SUBSET Turns]
      /\ \A c \in Chats : turns'[c] \subseteq turns[c]
  BY <1>1 DEF Shape
<1>3. OneRecord'
  BY <1>2 DEF OneRecord
<1>4. \A t \in Turns : TurnChat[t] \in Chats
  BY ChatTurnAdmissionAssumption
<1>5. \A t \in Turns : HasRecord(t)' => HasRecord(t)
  BY <1>2, <1>4 DEF HasRecord
<1>6. \A t \in Turns : HasRecord(t) /\ ~HasRecord(t)' =>
         t \in FinalizedBy(leases, release, settle)
  BY <1>1, <1>4 DEF HasRecord
<1> QED
  BY <1>2, <1>3, <1>5, <1>6 DEF FinalizedBy, Finalized

----------------------------------------------------------------------------
(* Each kind of step keeps the records and makes no writer.                *)

\* A lease loses its authority while its append goes on.
LEMMA Releasing ==
    ASSUME Shape, Held, NEW leases \in SUBSET Turns,
           Close(leases, TRUE, FALSE),
           UNCHANGED <<frame, generation, committed>>
    PROVE  Held' /\ NoNewWriter
<1>1. /\ OneRecord'
      /\ \A c \in Chats : turns'[c] \subseteq turns[c]
      /\ \A t \in Turns : HasRecord(t)' => HasRecord(t)
      /\ \A t \in Turns : HasRecord(t) /\ ~HasRecord(t)' => lease[t].settled
  BY CloseKeeps DEF Held
<1>2. \A t \in Turns : HasRecord(t)' =>
         /\ lease'[t].settled = lease[t].settled
         /\ lease'[t].authority => lease'[t] = lease[t]
  <2>1. /\ \A t \in Turns \ leases : lease'[t] = lease[t]
        /\ \A t \in leases : HasRecord(t)' =>
              /\ lease'[t].authority = (lease[t].authority /\ ~TRUE)
              /\ lease'[t].settled = (lease[t].settled \/ FALSE)
    BY CloseLeases DEF Held
  <2>2. \A t \in Turns : lease[t].settled \in BOOLEAN
    BY DEF Shape, Lease
  <2> QED
    BY <2>1, <2>2
<1>3. RecordWhileRunning'
  BY <1>1, <1>2 DEF Held, RecordWhileRunning, Running
<1>4. OneAnswer'
  BY <1>1, ChatTurnAdmissionAssumption
  DEF Held, OneAnswer, Generating, TurnsOf, Shape
<1>5. SettledIsSaved'
  BY <1>1, <1>2 DEF Held, SettledIsSaved
<1>6. AnsweredMeansSaved'
  BY DEF Held, AnsweredMeansSaved
<1>7. NoNewWriter
  BY <1>1 DEF NoNewWriter, Writer, Generating
<1> QED
  BY <1>1, <1>3, <1>4, <1>5, <1>6, <1>7 DEF Held

\* The frame of an append ends and settles its lease.
LEMMA Settling ==
    ASSUME Shape, Held, NEW t \in Turns, Running(t),
           NEW release \in BOOLEAN, Close({t}, release, TRUE),
           frame' = [frame EXCEPT ![t] = "over"],
           generation' = generation,
           committed \subseteq committed', release \/ t \in committed'
    PROVE  Held' /\ NoNewWriter
<1> {t} \in SUBSET Turns
  OBVIOUS
<1>1. /\ OneRecord'
      /\ \A c \in Chats : turns'[c] \subseteq turns[c]
      /\ \A s \in Turns : HasRecord(s)' => HasRecord(s)
      /\ \A s \in Turns : HasRecord(s) /\ ~HasRecord(s)' => s = t
  BY CloseKeeps DEF Held
<1>2. /\ \A s \in Turns \ {t} : lease'[s] = lease[s]
      /\ HasRecord(t)' /\ lease'[t].authority => ~release
  <2>1. /\ \A s \in Turns \ {t} : lease'[s] = lease[s]
        /\ \A s \in {t} : HasRecord(s)' =>
              lease'[s].authority = (lease[s].authority /\ ~release)
    <3> DEFINE leases == {t}
               settle == TRUE
    <3>1. /\ leases \in SUBSET Turns /\ settle \in BOOLEAN
          /\ Close(leases, release, settle)
      OBVIOUS
    <3> HIDE DEF leases, settle
    <3>2. /\ \A s \in Turns \ leases : lease'[s] = lease[s]
          /\ \A s \in leases : HasRecord(s)' =>
                /\ lease'[s].authority = (lease[s].authority /\ ~release)
                /\ lease'[s].settled = (lease[s].settled \/ settle)
      BY <3>1, CloseLeases DEF Held
    <3> QED
      BY <3>2 DEF leases
  <2> QED
    BY <2>1
<1>3. \A s \in Turns : frame'[s] = IF s = t THEN "over" ELSE frame[s]
  BY DEF Shape
<1>4. RecordWhileRunning'
  BY <1>1, <1>2, <1>3 DEF Held, RecordWhileRunning, Running
<1>5. OneAnswer'
  BY <1>1, ChatTurnAdmissionAssumption
  DEF Held, OneAnswer, Generating, TurnsOf, Shape
<1>6. SettledIsSaved'
  BY <1>1, <1>2 DEF Held, SettledIsSaved
<1>7. AnsweredMeansSaved'
  BY DEF Held, AnsweredMeansSaved
<1>8. NoNewWriter
  BY <1>1, <1>3 DEF NoNewWriter, Writer, Generating, Running
<1> QED
  BY <1>1, <1>4, <1>5, <1>6, <1>7, <1>8 DEF Held

\* The frame of an append goes on.
LEMMA Advancing ==
    ASSUME Shape, Held, NEW t \in Turns, Running(t),
           NEW next \in FrameSteps \ {"idle", "over"},
           frame' = [frame EXCEPT ![t] = next],
           \A s \in Turns : /\ lease'[s].authority = lease[s].authority
                            /\ lease'[s].settled = lease[s].settled,
           UNCHANGED <<turns, generation, committed>>
    PROVE  Held' /\ NoNewWriter
<1>1. \A s \in Turns : frame'[s] = IF s = t THEN next ELSE frame[s]
  BY DEF Shape
<1>2. \A s \in Turns : HasRecord(s)' = HasRecord(s)
  BY DEF HasRecord
<1>3. OneRecord' /\ OneAnswer' /\ AnsweredMeansSaved'
  BY DEF Held, OneRecord, OneAnswer, AnsweredMeansSaved, Generating
<1>4. RecordWhileRunning'
  BY <1>1, <1>2 DEF Held, RecordWhileRunning, Running
<1>5. SettledIsSaved'
  BY <1>2 DEF Held, SettledIsSaved
<1>6. NoNewWriter
  BY <1>1, <1>2 DEF NoNewWriter, Writer, Generating, Running
<1> QED
  BY <1>3, <1>4, <1>5, <1>6 DEF Held

\* A generation goes on or ends.
LEMMA Responding ==
    ASSUME Shape, Held, NEW t \in Turns, Generating(t),
           NEW next \in GenerationSteps \ {"none"},
           generation' = [generation EXCEPT ![t] = next],
           UNCHANGED <<turns, lease, frame, committed>>
    PROVE  Held' /\ NoNewWriter
<1>1. \A s \in Turns : generation'[s] = IF s = t THEN next ELSE generation[s]
  BY DEF Shape
<1>2. \A s \in Turns : Generating(s)' => Generating(s)
  BY <1>1 DEF Generating
<1>3. \A s \in Turns : HasRecord(s)' = HasRecord(s)
  BY DEF HasRecord
<1>4. OneRecord' /\ RecordWhileRunning' /\ SettledIsSaved'
  BY <1>3 DEF Held, OneRecord, RecordWhileRunning, SettledIsSaved, Running
<1>5. OneAnswer'
  BY <1>2 DEF Held, OneAnswer, TurnsOf
<1>6. AnsweredMeansSaved'
  BY <1>1 DEF Held, AnsweredMeansSaved, Generating
<1>7. NoNewWriter
  BY <1>2, <1>3 DEF NoNewWriter, Writer
<1> QED
  BY <1>4, <1>5, <1>6, <1>7 DEF Held

\* A step that leaves turns alone.
LEMMA Standing ==
    ASSUME Held, UNCHANGED <<turns, lease, frame, generation, committed>>
    PROVE  Held' /\ NoNewWriter
<1>1. Held'
  BY DEF Held, OneRecord, RecordWhileRunning, OneAnswer, SettledIsSaved,
         AnsweredMeansSaved, HasRecord, Running, Generating
<1>2. NoNewWriter
  BY DEF NoNewWriter, Writer, HasRecord, Generating
<1> QED
  BY <1>1, <1>2

----------------------------------------------------------------------------
(* The two steps that are not one of these.                                *)

\* A claim makes one writer, of a chat that had none.
LEMMA Beginning ==
    ASSUME Shape, Held, NEW t \in Turns, BeginTurn(t)
    PROVE  /\ Held'
           /\ \A s \in Turns : Writer(s)' <=> s = t \/ Writer(s)
           /\ \A s \in TurnsOf(TurnChat[t]) : ~Writer(s)
           /\ \A s \in Turns : frame'[s] = "idle" <=>
                                  s # t /\ frame[s] = "idle"
<1> DEFINE c == TurnChat[t]
<1>1. /\ c \in Chats /\ turns[c] = {} /\ frame[t] = "idle"
      /\ \A s \in TurnsOf(c) : ~Generating(s)
  BY ChatTurnAdmissionAssumption DEF BeginTurn, Admitted, HasGeneration
<1>2. /\ \A d \in Chats : turns'[d] = IF d = c THEN {t} ELSE turns[d]
      /\ lease' = [lease EXCEPT ![t] = NewLease]
      /\ generation' = generation /\ committed' = committed
  BY DEF BeginTurn, Shape
<1>3. /\ \A s \in Turns \ {t} : frame'[s] = frame[s] /\ lease'[s] = lease[s]
      /\ frame'[t] \notin {"idle", "over"}
      /\ lease'[t] = NewLease
  BY DEF BeginTurn, Shape
<1>4. \A s \in Turns : HasRecord(s)' <=> s = t \/ HasRecord(s)
  BY <1>1, <1>2, ChatTurnAdmissionAssumption DEF HasRecord, TurnsOf, Held, OneRecord
<1>5. ~NewLease.settled
  BY DEF NewLease, NoLease
<1>6. OneRecord'
  BY <1>2 DEF Held, OneRecord, TurnsOf
<1>7. RecordWhileRunning'
  BY <1>3, <1>4, <1>5 DEF Held, RecordWhileRunning, Running
<1>8. OneAnswer'
  BY <1>1, <1>2, ChatTurnAdmissionAssumption
  DEF Held, OneAnswer, Generating, TurnsOf
<1>9. SettledIsSaved'
  BY <1>2, <1>3, <1>4, <1>5 DEF Held, SettledIsSaved
<1>10. AnsweredMeansSaved'
  BY <1>2 DEF Held, AnsweredMeansSaved
<1>11. \A s \in TurnsOf(c) : ~Writer(s)
  BY <1>1 DEF Writer, Held, RecordWhileRunning, Running, HasRecord, TurnsOf
<1>12. \A s \in Turns : Writer(s)' <=> s = t \/ Writer(s)
  BY <1>2, <1>3, <1>4 DEF Writer, Generating
<1> QED
  BY <1>1, <1>3, <1>6, <1>7, <1>8, <1>9, <1>10, <1>11, <1>12 DEF Held

\* The record goes and the generation comes in one step.
LEMMA Handing ==
    ASSUME Shape, Held, NEW t \in Turns, StartGeneration(t)
    PROVE  Held' /\ NoNewWriter
<1> DEFINE c == TurnChat[t]
<1>1. /\ c \in Chats /\ HasRecord(t) /\ lease[t].authority /\ lease[t].settled
      /\ \A s \in TurnsOf(c) : ~Generating(s)
  BY ChatTurnAdmissionAssumption DEF StartGeneration, Owns, IsActive, HasGeneration
<1>2. /\ \A d \in Chats : turns'[d] = IF d = c THEN {} ELSE turns[d]
      /\ \A s \in Turns \ {t} : /\ lease'[s] = lease[s]
                                /\ generation'[s] = generation[s]
      /\ generation'[t] = "initializing"
      /\ frame' = frame /\ committed' = committed
  BY DEF StartGeneration, Shape
<1>3. turns[c] = {t} /\ t \in committed /\ ~Running(t)
  BY <1>1 DEF Held, OneRecord, SettledIsSaved, RecordWhileRunning, HasRecord
<1>4. \A s \in Turns : HasRecord(s)' <=> HasRecord(s) /\ s # t
  BY <1>1, <1>2, <1>3, ChatTurnAdmissionAssumption
  DEF HasRecord, Held, OneRecord, TurnsOf
<1>5. OneRecord'
  BY <1>2 DEF Held, OneRecord, TurnsOf
<1>6. RecordWhileRunning'
  BY <1>2, <1>3, <1>4 DEF Held, RecordWhileRunning, Running
<1>7. OneAnswer'
  BY <1>1, <1>2, ChatTurnAdmissionAssumption
  DEF Held, OneAnswer, Generating, TurnsOf
<1>8. SettledIsSaved'
  BY <1>2, <1>4 DEF Held, SettledIsSaved
<1>9. AnsweredMeansSaved'
  BY <1>2, <1>3 DEF Held, AnsweredMeansSaved
<1>10. NoNewWriter
  BY <1>1, <1>2, <1>4 DEF NoNewWriter, Writer, Generating
<1> QED
  BY <1>5, <1>6, <1>7, <1>8, <1>9, <1>10 DEF Held

----------------------------------------------------------------------------
(* The types, gate by gate and step by step.                               *)

\* Close keeps every type.
LEMMA ClosedShape ==
    ASSUME Shape, OneRecord, NEW leases \in SUBSET Turns,
           NEW release \in BOOLEAN, NEW settle \in BOOLEAN,
           Close(leases, release, settle),
           frame' \in [Turns -> FrameSteps],
           deletion' \in [Chats -> DeletionSteps],
           UNCHANGED <<generation, changing>>
    PROVE  Shape'
<1>1. lease' \in [Turns -> Lease]
  BY CloseLeases
<1>2. turns' \in [Chats -> SUBSET Turns]
  BY CloseKeeps
<1> QED
  BY <1>1, <1>2 DEF Shape

\* A frame moves to one of its steps.
LEMMA FrameShape ==
    ASSUME Shape, NEW t \in Turns, NEW next \in FrameSteps
    PROVE  [frame EXCEPT ![t] = next] \in [Turns -> FrameSteps]
  BY DEF Shape

\* The leases a frame rewrites without closing them.
LEMMA FrameLeases ==
    ASSUME Shape, NEW t \in Turns,
           \/ ReserveSkill(t) \/ ReserveAppend(t) \/ PrepareSkill(t)
           \/ WriteMessage(t)
    PROVE  /\ lease' \in [Turns -> Lease]
           /\ \A s \in Turns : /\ lease'[s].authority = lease[s].authority
                               /\ lease'[s].settled = lease[s].settled
<1>1. /\ lease[t] \in Lease /\ SkillReservation \in Nat
      /\ Payload[t] \in Nat /\ Prompt[t] \in Nat
  BY ChatTurnAdmissionAssumption DEF Shape
<1>2. CASE ReserveSkill(t)
  BY <1>1, <1>2 DEF ReserveSkill, Shape, Lease
<1>3. CASE ReserveAppend(t)
  BY <1>1, <1>3 DEF ReserveAppend, Shape, Lease
<1>4. CASE PrepareSkill(t)
  BY <1>1, <1>4 DEF PrepareSkill, Shape, Lease
<1>5. CASE WriteMessage(t)
  BY <1>5 DEF WriteMessage, Shape, admissionVars
<1> QED
  BY <1>2, <1>3, <1>4, <1>5

----------------------------------------------------------------------------
(* One step per action.                                                    *)

\* Only a claim makes a writer, and every step keeps the records.
LEMMA FrameStepHeld ==
    ASSUME Shape, Held, NEW t \in Turns, FrameStep(t)
    PROVE  Shape' /\ Held' /\ NoNewWriter
<1> OneRecord
  BY DEF Held
<1>1. ASSUME NEW next \in FrameSteps \ {"idle", "over"}, Running(t),
             \/ ReserveSkill(t) \/ ReserveAppend(t) \/ PrepareSkill(t)
             \/ WriteMessage(t),
             frame' = [frame EXCEPT ![t] = next],
             UNCHANGED <<turns, generation, changing, deletion, committed>>
      PROVE  Shape' /\ Held' /\ NoNewWriter
  <2>1. Shape'
    BY <1>1, FrameLeases, FrameShape DEF Shape
  <2>2. Held' /\ NoNewWriter
    BY <1>1, FrameLeases, Advancing
  <2> QED
    BY <2>1, <2>2
<1>2. ASSUME Running(t), NEW release \in BOOLEAN, Close({t}, release, TRUE),
             frame' = [frame EXCEPT ![t] = "over"],
             UNCHANGED <<generation, changing, deletion>>,
             committed \subseteq committed', release \/ t \in committed'
      PROVE  Shape' /\ Held' /\ NoNewWriter
  <2>1. frame' \in [Turns -> FrameSteps] /\ deletion' \in [Chats -> DeletionSteps]
    BY <1>2, FrameShape DEF FrameSteps, Shape
  <2>2. Shape'
    BY <1>2, <2>1, ClosedShape
  <2>3. Held' /\ NoNewWriter
    BY <1>2, Settling
  <2> QED
    BY <2>2, <2>3
<1>3. CASE ReserveSkill(t)
  BY <1>1, <1>3 DEF ReserveSkill, Running, FrameSteps, gateVars
<1>4. CASE ReserveAppend(t)
  <2>1. CASE t \in Skill
    BY <1>1, <1>4, <2>1 DEF ReserveAppend, Running, FrameSteps, gateVars
  <2>2. CASE t \notin Skill
    BY <1>1, <1>4, <2>2 DEF ReserveAppend, Running, FrameSteps, gateVars
  <2> QED
    BY <2>1, <2>2
<1>5. CASE PrepareSkill(t)
  BY <1>1, <1>5 DEF PrepareSkill, Running, FrameSteps, gateVars
<1>6. CASE WriteMessage(t)
  BY <1>1, <1>6 DEF WriteMessage, Running, FrameSteps, gateVars, admissionVars
<1>7. CASE RefuseReservation(t)
  BY <1>2, <1>7 DEF RefuseReservation, Running, gateVars
<1>8. CASE AppendSucceeds(t)
  <2>1. (t \in WriteOnly) \in BOOLEAN
    OBVIOUS
  <2> QED
    BY <1>2, <1>8, <2>1 DEF AppendSucceeds, Running, gateVars
<1>9. CASE AppendFails(t)
  BY <1>2, <1>9 DEF AppendFails, Running, gateVars
<1> QED
  BY <1>3, <1>4, <1>5, <1>6, <1>7, <1>8, <1>9 DEF FrameStep

\* Leases lose their authority: by expiry, owner, deletion or shutdown.
LEMMA RevokeHeld ==
    ASSUME Shape, Held, NEW leases \in SUBSET Turns,
           Close(leases, TRUE, FALSE),
           deletion' \in [Chats -> DeletionSteps],
           UNCHANGED <<frame, generation, changing, committed>>
    PROVE  Shape' /\ Held' /\ NoNewWriter
<1>1. frame' \in [Turns -> FrameSteps] /\ OneRecord
  BY DEF Shape, Held
<1>2. Shape'
  BY <1>1, ClosedShape
<1>3. Held' /\ NoNewWriter
  BY Releasing
<1> QED
  BY <1>2, <1>3

\* What the generation of a turn does.
LEMMA GenerationStepHeld ==
    ASSUME Shape, Held, NEW t \in Turns, GenerationStep(t)
    PROVE  Shape' /\ Held' /\ NoNewWriter
<1>1. ASSUME Generating(t), NEW next \in GenerationSteps \ {"none"},
             generation' = [generation EXCEPT ![t] = next],
             UNCHANGED <<turns, lease, frame, changing, deletion, committed>>
      PROVE  Shape' /\ Held' /\ NoNewWriter
  <2>1. Shape'
    BY <1>1 DEF Shape
  <2>2. Held' /\ NoNewWriter
    BY <1>1, Responding
  <2> QED
    BY <2>1, <2>2
<1>2. CASE StartGeneration(t)
  <2>1. NoLease \in Lease
    BY DEF NoLease, Lease
  <2>2. Shape'
    BY <1>2, <2>1 DEF StartGeneration, Shape, GenerationSteps, gateVars
  <2> QED
    BY <1>2, <2>2, Handing
<1>3. CASE ActivateGeneration(t)
  BY <1>1, <1>3
  DEF ActivateGeneration, Generating, GenerationSteps, admissionVars, gateVars
<1>4. CASE EndGeneration(t)
  <2>1. PICK next \in {"children", "over"} :
          generation' = [generation EXCEPT ![t] = next]
    BY <1>4 DEF EndGeneration
  <2> QED
    BY <1>1, <1>4, <2>1 DEF EndGeneration, Generating, GenerationSteps, gateVars
<1>5. CASE ChildrenEnd(t)
  BY <1>1, <1>5
  DEF ChildrenEnd, Generating, GenerationSteps, admissionVars, gateVars
<1> QED
  BY <1>2, <1>3, <1>4, <1>5 DEF GenerationStep

\* What the gates of a chat do.
LEMMA GateStepHeld ==
    ASSUME Shape, Held, NEW c \in Chats, GateStep(c)
    PROVE  Shape' /\ Held' /\ NoNewWriter
<1>1. ASSUME UNCHANGED <<turns, lease, frame, generation, committed>>,
             changing' \subseteq Chats \X Changes,
             deletion' \in [Chats -> DeletionSteps]
      PROVE  Shape' /\ Held' /\ NoNewWriter
  <2>1. Shape'
    BY <1>1 DEF Shape
  <2> QED
    BY <1>1, <2>1, Standing
<1>2. CASE BeginDeletion(c)
  <2>1. deletion' \in [Chats -> DeletionSteps] /\ turns[c] \in SUBSET Turns
    BY <1>2 DEF BeginDeletion, Shape, DeletionSteps
  <2> QED
    BY <1>2, <2>1, RevokeHeld DEF BeginDeletion
<1>3. CASE StopChat(c)
  BY <1>1, <1>3 DEF StopChat, Shape, DeletionSteps, admissionVars
<1>4. CASE StopTimesOut(c)
  BY <1>1, <1>4 DEF StopTimesOut, Shape, DeletionSteps, admissionVars
<1>5. CASE EraseChat(c)
  BY <1>1, <1>5 DEF EraseChat, Shape, DeletionSteps, admissionVars
<1>6. CASE \E k \in Changes : BeginChange(c, k) \/ EndChange(c, k)
  BY <1>1, <1>6 DEF BeginChange, EndChange, Shape, admissionVars
<1> QED
  BY <1>2, <1>3, <1>4, <1>5, <1>6 DEF GateStep

\* What any step does.
LEMMA StepHeld ==
    ASSUME Shape, Held, [Next]_vars
    PROVE  /\ Shape' /\ Held'
           /\ NoNewWriter \/ \E t \in Turns : BeginTurn(t)
<1>1. ASSUME NEW t \in Turns, BeginTurn(t)
      PROVE  Shape' /\ Held'
  <2>1. NewLease \in Lease
    BY DEF NewLease, NoLease, Lease
  <2>2. Shape'
    BY <1>1, <2>1 DEF BeginTurn, Shape, FrameSteps, gateVars
  <2> QED
    BY <1>1, <2>2, Beginning
<1>2. ASSUME NEW t \in Turns, RevokeTurn(t)
      PROVE  Shape' /\ Held' /\ NoNewWriter
  <2>1. deletion' \in [Chats -> DeletionSteps] /\ {t} \in SUBSET Turns
    BY <1>2 DEF RevokeTurn, Shape, gateVars
  <2> QED
    BY <1>2, <2>1, RevokeHeld DEF RevokeTurn, gateVars
<1>3. ASSUME NEW o \in Owners, InvalidateOwner(o)
      PROVE  Shape' /\ Held' /\ NoNewWriter
  <2>1. deletion' \in [Chats -> DeletionSteps] /\ TurnsBy(o) \in SUBSET Turns
    BY <1>3 DEF InvalidateOwner, Shape, gateVars, TurnsBy
  <2> QED
    BY <1>3, <2>1, RevokeHeld DEF InvalidateOwner, gateVars
<1>4. CASE ReleaseAll
  <2>1. deletion' \in [Chats -> DeletionSteps] /\ Turns \in SUBSET Turns
    BY <1>4 DEF ReleaseAll, Shape, gateVars
  <2> QED
    BY <1>4, <2>1, RevokeHeld DEF ReleaseAll, gateVars
<1>5. ASSUME UNCHANGED <<turns, lease, frame, generation, changing, deletion,
                         committed>>
      PROVE  Shape' /\ Held' /\ NoNewWriter
  <2>1. Shape'
    BY <1>5 DEF Shape
  <2> QED
    BY <1>5, <2>1, Standing
<1>6. ASSUME NEW o \in Owners, RequireReconciliation(o)
      PROVE  Shape' /\ Held' /\ NoNewWriter
  BY <1>5, <1>6 DEF RequireReconciliation, admissionVars, gateVars
<1>7. CASE UNCHANGED vars
  BY <1>5, <1>7 DEF vars, admissionVars, gateVars
<1> QED
  BY <1>1, <1>2, <1>3, <1>4, <1>6, <1>7, FrameStepHeld, GenerationStepHeld,
     GateStepHeld DEF Next

----------------------------------------------------------------------------
(* The safety properties.                                                  *)

\* Nothing is claimed at first.
LEMMA InitInv == Init => Inv
<1> SUFFICES ASSUME Init PROVE Inv
  OBVIOUS
<1>1. Shape
  BY DEF Init, Shape, Lease, NoLease, FrameSteps, GenerationSteps, DeletionSteps
<1>2. \A t \in Turns : ~Running(t) /\ ~HasRecord(t) /\ ~Generating(t)
  BY ChatTurnAdmissionAssumption DEF Init, Running, HasRecord, Generating
<1>3. OneRecord /\ RecordWhileRunning /\ OneAnswer /\ SettledIsSaved
  BY <1>2 DEF Init, OneRecord, RecordWhileRunning, OneAnswer, SettledIsSaved
<1>4. AnsweredMeansSaved
  BY DEF Init, AnsweredMeansSaved
<1>5. ClosedChatIsQuiet
  BY <1>2 DEF ClosedChatIsQuiet, Writer, Running
<1> QED
  BY <1>1, <1>3, <1>4, <1>5 DEF Inv, Held

\* A frame that runs has a record, so a writer has a record or an answer.
LEMMA WriterHolds ==
    ASSUME Held, NEW t \in Turns, Writer(t)
    PROVE  HasRecord(t) \/ Generating(t)
  BY DEF Held, RecordWhileRunning, Writer, Running

\* The records and the answers of a chat are one turn's.
LEMMA HeldOneWriter == ASSUME Held PROVE OneWriter
<1> SUFFICES ASSUME NEW s \in Turns, NEW t \in Turns,
                    Writer(s), Writer(t), TurnChat[s] = TurnChat[t]
             PROVE  s = t
  BY DEF OneWriter
<1>1. (HasRecord(s) \/ Generating(s)) /\ (HasRecord(t) \/ Generating(t))
  BY WriterHolds
<1>2. CASE HasRecord(s) /\ HasRecord(t)
  BY <1>2, ChatTurnAdmissionAssumption DEF Held, OneRecord, HasRecord
<1>3. CASE Generating(s) /\ Generating(t)
  BY <1>3 DEF Held, OneAnswer, TurnsOf
<1>4. CASE HasRecord(s) /\ Generating(t)
  BY <1>4 DEF Held, OneAnswer, HasRecord
<1>5. CASE Generating(s) /\ HasRecord(t)
  BY <1>5 DEF Held, OneAnswer, HasRecord
<1> QED
  BY <1>1, <1>2, <1>3, <1>4, <1>5

\* isChatBusy sees every writer.
LEMMA QuietWhenNotBusy ==
    ASSUME Held, NEW t \in Turns, ~Busy(TurnChat[t])
    PROVE  ~Writer(t)
  BY WriterHolds DEF Busy, Admitted, HasGeneration, HasRecord, TurnsOf

\* A gate closes only over a chat that is not busy.
LEMMA GateCloses ==
    ASSUME Shape, [Next]_vars, NEW c \in Chats
    PROVE  /\ \A k \in Changes : <<c, k>> \in changing' =>
                  <<c, k>> \in changing \/ ~Busy(c)
           /\ deletion'[c] = "erasing" => deletion[c] = "erasing" \/ ~Busy(c)
<1>1. CASE UNCHANGED <<changing, deletion>>
  BY <1>1
<1>2. ASSUME NEW d \in Chats, NEW next \in DeletionSteps,
             changing' = changing, deletion' = [deletion EXCEPT ![d] = next],
             next = "erasing" => ~Busy(d)
      PROVE  /\ \A k \in Changes : <<c, k>> \in changing' =>
                    <<c, k>> \in changing \/ ~Busy(c)
             /\ deletion'[c] = "erasing" => deletion[c] = "erasing" \/ ~Busy(c)
  BY <1>2 DEF Shape
<1>3. ASSUME NEW d \in Chats, GateStep(d), ~UNCHANGED <<changing, deletion>>
      PROVE  /\ \A k \in Changes : <<c, k>> \in changing' =>
                    <<c, k>> \in changing \/ ~Busy(c)
             /\ deletion'[c] = "erasing" => deletion[c] = "erasing" \/ ~Busy(c)
  <2>1. CASE BeginDeletion(d)
    BY <1>2, <2>1 DEF BeginDeletion, DeletionSteps
  <2>2. CASE StopChat(d)
    BY <1>2, <2>2 DEF StopChat, DeletionSteps
  <2>3. CASE StopTimesOut(d)
    BY <1>2, <2>3 DEF StopTimesOut, DeletionSteps
  <2>4. CASE EraseChat(d)
    BY <1>2, <2>4 DEF EraseChat, DeletionSteps
  <2>5. CASE \E k \in Changes : BeginChange(d, k) \/ EndChange(d, k)
    BY <2>5 DEF BeginChange, EndChange
  <2> QED
    BY <1>3, <2>1, <2>2, <2>3, <2>4, <2>5 DEF GateStep
<1>4. (\E d \in Chats : GateStep(d)) \/ UNCHANGED <<changing, deletion>>
  <2>1. ASSUME NEW t \in Turns, FrameStep(t)
        PROVE  UNCHANGED <<changing, deletion>>
    BY <2>1 DEF FrameStep, ReserveSkill, ReserveAppend, RefuseReservation,
       PrepareSkill, WriteMessage, AppendSucceeds, AppendFails, gateVars
  <2>2. ASSUME NEW t \in Turns, GenerationStep(t)
        PROVE  UNCHANGED <<changing, deletion>>
    BY <2>2 DEF GenerationStep, StartGeneration, ActivateGeneration,
       EndGeneration, ChildrenEnd, gateVars
  <2> QED
    BY <2>1, <2>2 DEF Next, vars, BeginTurn, RevokeTurn, InvalidateOwner,
       RequireReconciliation, ReleaseAll, gateVars
<1> QED
  BY <1>1, <1>3, <1>4

\* A writer finds every gate open, and closes it to others.
LEMMA StepQuiet ==
    ASSUME Inv, [Next]_vars
    PROVE  ClosedChatIsQuiet'
<1> SUFFICES ASSUME NEW t \in Turns, Writer(t)'
             PROVE  /\ \A k \in Changes : <<TurnChat[t], k>> \notin changing'
                    /\ deletion'[TurnChat[t]] # "erasing"
  BY DEF ClosedChatIsQuiet
<1> DEFINE c == TurnChat[t]
<1>1. c \in Chats /\ Shape /\ Held
  BY ChatTurnAdmissionAssumption DEF Inv
<1>2. CASE Writer(t)
  <2>1. /\ \A k \in Changes : <<c, k>> \notin changing
        /\ deletion[c] # "erasing"
    BY <1>2 DEF Inv, ClosedChatIsQuiet
  <2>2. Busy(c)
    BY <1>1, <1>2, QuietWhenNotBusy
  <2> QED
    BY <1>1, <2>1, <2>2, GateCloses
<1>3. CASE ~Writer(t)
  <2>1. PICK s \in Turns : BeginTurn(s)
    BY <1>1, <1>3, StepHeld DEF NoNewWriter
  <2>2. s = t
    BY <1>1, <1>3, <2>1, Beginning
  <2> QED
    BY <2>1, <2>2 DEF BeginTurn, gateVars
<1> QED
  BY <1>2, <1>3

\* The invariant is inductive.
LEMMA InductiveInv == Inv /\ [Next]_vars => Inv'
  BY StepHeld, StepQuiet DEF Inv

\* The invariant holds always.
LEMMA Invariance == Spec => []Inv
  BY InitInv, InductiveInv, PTL DEF Spec

\* Two turns never write to one chat, however claims, releases, expiries,
\* handoffs and generations interleave (chat-turn-admission.ts tryBegin,
\* release, handoff; llm-client.ts start).
THEOREM ExclusiveWriter == Spec => []OneWriter
<1>1. Inv => OneWriter
  BY HeldOneWriter DEF Inv
<1> QED
  BY <1>1, Invariance, PTL

\* A chat that is copied, moved, reconfigured or erased is written by no turn:
\* the gates and the admission exclude each other (llm-client.ts
\* beginChatCopy, beginChatWorkspaceChange, cancelChat).
THEOREM QuietUnderGates == Spec => []ClosedChatIsQuiet
<1>1. Inv => ClosedChatIsQuiet
  BY DEF Inv
<1> QED
  BY <1>1, Invariance, PTL

\* A generation answers a message that is in the store: ownership passes from
\* the append to it only after a save (chat-turn-admission.ts owns).
THEOREM SavedBeforeAnswered == Spec => []AnsweredMeansSaved
<1>1. Inv => AnsweredMeansSaved
  BY DEF Inv, Held
<1> QED
  BY <1>1, Invariance, PTL

----------------------------------------------------------------------------
(* The sum of a number over a finite set.                                  *)

\* A set of numbers that is not empty has a least one.
LEMMA LeastNumber ==
    ASSUME NEW S \in SUBSET Nat, S # {}
    PROVE  \E n \in S : \A m \in S : n <= m
<1> DEFINE R == OpToRel(<, Nat)
<1>1. IsWellFoundedOn(R, Nat)
  BY NatLessThanWellFounded
<1>2. R = {ss \in Nat \X Nat : ss[1] < ss[2]}
  BY Zenon DEF OpToRel
<1> HIDE DEF R
<1>3. PICK n \in S : \A m \in S : <<m, n>> \notin R
  BY <1>1, WFMin
<1>4. \A m \in S : ~(m < n)
  BY <1>2, <1>3
<1>5. \A m \in S : n <= m
  BY <1>4
<1> QED
  BY <1>5

\* Some sets of a finite one have a smallest among them.
LEMMA SmallestSet ==
    ASSUME NEW S, IsFiniteSet(S), NEW Bad \in SUBSET (SUBSET S), Bad # {}
    PROVE  \E s \in Bad : \A x \in s : s \ {x} \notin Bad
<1> DEFINE Sizes == {n \in Nat : \E s \in Bad : Cardinality(s) = n}
<1>1. \A s \in SUBSET S : IsFiniteSet(s) /\ Cardinality(s) \in Nat
  BY FS_Subset, FS_CardinalityType
<1>2. Sizes # {}
  BY <1>1
<1>3. PICK n \in Sizes : \A m \in Sizes : n <= m
  BY <1>2, LeastNumber
<1>4. PICK s \in Bad : Cardinality(s) = n
  BY <1>3
<1>5. ASSUME NEW x \in s, s \ {x} \in Bad
      PROVE  FALSE
  <2>1. Cardinality(s \ {x}) = n - 1
    BY <1>1, <1>4, FS_RemoveElement
  <2>2. n - 1 \in Sizes
    BY <1>1, <1>5, <2>1
  <2> QED
    BY <1>3, <2>2
<1> QED
  BY <1>5

\* How a sum over a set is computed.
First(s) == CHOOSE x \in s : TRUE
Summed(f, g, s) == g[s] = IF s = {} THEN 0 ELSE f[First(s)] + g[s \ {First(s)}]

\* The recursive equation of a sum over a finite set has a solution,
LEMMA Solvable ==
    ASSUME NEW f, NEW S, IsFiniteSet(S)
    PROVE  \E g : /\ g = [s \in SUBSET S |-> g[s]]
                  /\ \A s \in SUBSET S : Summed(f, g, s)
<1> DEFINE G(n) == \E g : \A s \in SUBSET S : Cardinality(s) <= n => Summed(f, g, s)
           Bad == {n \in Nat : ~G(n)}
<1>1. \A s \in SUBSET S : /\ IsFiniteSet(s) /\ Cardinality(s) \in Nat
                          /\ Cardinality(s) <= Cardinality(S)
                          /\ Cardinality(s) = 0 <=> s = {}
  BY FS_Subset, FS_CardinalityType, FS_EmptySet
<1>2. G(0)
  <2> DEFINE g == [s \in SUBSET S |-> 0]
  <2>1. \A s \in SUBSET S : Cardinality(s) <= 0 => s = {} /\ g[s] = 0
    BY <1>1
  <2>2. \A s \in SUBSET S : Cardinality(s) <= 0 => Summed(f, g, s)
    BY <2>1 DEF Summed
  <2> QED
    BY <2>2
<1>3. ASSUME NEW n \in Nat, G(n)
      PROVE  G(n + 1)
  <2>1. PICK g : \A s \in SUBSET S : Cardinality(s) <= n => Summed(f, g, s)
    BY <1>3
  <2> DEFINE h == [s \in SUBSET S |-> IF Cardinality(s) <= n THEN g[s]
                                      ELSE f[First(s)] + g[s \ {First(s)}]]
  <2>2. ASSUME NEW s \in SUBSET S, Cardinality(s) <= n + 1
        PROVE  Summed(f, h, s)
    <3>1. CASE s = {}
      <4>1. Cardinality(s) <= n /\ h[s] = g[s]
        BY <1>1, <3>1
      <4> QED
        BY <2>1, <3>1, <4>1 DEF Summed
    <3>2. CASE s # {}
      <4>1. First(s) \in s /\ s \ {First(s)} \in SUBSET S
        BY <3>2 DEF First
      <4>2. Cardinality(s \ {First(s)}) = Cardinality(s) - 1
        BY <1>1, <4>1, FS_RemoveElement
      <4>3. h[s \ {First(s)}] = g[s \ {First(s)}]
        BY <1>1, <2>2, <4>1, <4>2
      <4>4. h[s] = f[First(s)] + g[s \ {First(s)}]
        BY <2>1, <3>2 DEF Summed
      <4> QED
        BY <3>2, <4>3, <4>4 DEF Summed
    <3> QED
      BY <3>1, <3>2
  <2> HIDE DEF h
  <2> QED
    BY <2>2
<1> HIDE DEF G
<1>4. G(Cardinality(S))
  <2> SUFFICES ASSUME Bad # {} PROVE FALSE
    BY FS_CardinalityType
  <2>1. PICK n \in Bad : \A m \in Bad : n <= m
    BY LeastNumber
  <2>2. n # 0 /\ n - 1 \in Nat /\ (n - 1) + 1 = n
    BY <1>2, <2>1
  <2>3. G(n - 1)
    BY <2>1, <2>2
  <2> QED
    BY <1>3, <2>1, <2>2, <2>3
<1>5. PICK g : \A s \in SUBSET S : Summed(f, g, s)
  BY <1>1, <1>4 DEF G
<1> DEFINE h == [s \in SUBSET S |-> g[s]]
<1>6. \A s \in SUBSET S : h[s] = g[s] /\ (s # {} => h[s \ {First(s)}] = g[s \ {First(s)}])
  OBVIOUS
<1>7. \A s \in SUBSET S : Summed(f, h, s)
  BY <1>5, <1>6 DEF Summed
<1>8. h = [s \in SUBSET S |-> h[s]]
  OBVIOUS
<1> HIDE DEF h
<1> QED
  BY <1>7, <1>8

\* g gives the sum of f over each set of elements of S.
Adds(f, g, S) ==
    /\ g[{}] = 0
    /\ \A s \in SUBSET S : g[s] \in Nat
    /\ \A s \in SUBSET S : \A x \in s : g[s] = f[x] + g[s \ {x}]

\* ... and the order of the elements does not matter to it.
LEMMA SolutionAdds ==
    ASSUME NEW f, NEW g, NEW S, IsFiniteSet(S), \A x \in S : f[x] \in Nat,
           \A s \in SUBSET S : Summed(f, g, s)
    PROVE  Adds(f, g, S)
<1>1. g[{}] = 0
  BY DEF Summed
<1>2. \A s \in SUBSET S : s # {} =>
         /\ First(s) \in s /\ f[First(s)] \in Nat
         /\ g[s] = f[First(s)] + g[s \ {First(s)}]
  BY DEF Summed, First
<1>3. \A s \in SUBSET S : g[s] \in Nat
  <2> DEFINE Bad == {s \in SUBSET S : g[s] \notin Nat}
  <2> SUFFICES ASSUME Bad # {} PROVE FALSE
    OBVIOUS
  <2>1. PICK s \in Bad : \A x \in s : s \ {x} \notin Bad
    BY SmallestSet
  <2>2. s # {} /\ s \in SUBSET S /\ s \ {First(s)} \in SUBSET S
    BY <1>1, <2>1
  <2>3. g[s \ {First(s)}] \in Nat
    BY <1>2, <2>1, <2>2
  <2> QED
    BY <1>2, <2>1, <2>2, <2>3
<1> DEFINE Good(s) == \A x \in s : g[s] = f[x] + g[s \ {x}]
           Bad == {s \in SUBSET S : ~Good(s)}
<1>4. ASSUME NEW s \in SUBSET S, \A x \in s : Good(s \ {x}), NEW x \in s
      PROVE  g[s] = f[x] + g[s \ {x}]
  <2> DEFINE y == First(s)
             r == (s \ {y}) \ {x}
  <2>1. y \in s /\ f[y] \in Nat /\ f[x] \in Nat /\ g[s] = f[y] + g[s \ {y}]
    BY <1>2, <1>4
  <2>2. CASE x = y
    BY <2>1, <2>2
  <2>3. CASE x # y
    <3>1. x \in s \ {y} /\ y \in s \ {x} /\ r = (s \ {x}) \ {y} /\ r \in SUBSET S
      BY <1>4, <2>1, <2>3
    <3>2. g[s \ {y}] = f[x] + g[r]
      BY <1>4, <2>1, <3>1
    <3>3. g[s \ {x}] = f[y] + g[r]
      <4>1. g[s \ {x}] = f[y] + g[(s \ {x}) \ {y}]
        BY <1>4, <3>1
      <4> QED
        BY <3>1, <4>1
    <3>4. g[r] \in Nat
      BY <1>3, <3>1
    <3> HIDE DEF y, r
    <3> QED
      BY <2>1, <3>2, <3>3, <3>4
  <2> QED
    BY <2>2, <2>3
<1> HIDE DEF Good
<1>5. Bad = {}
  <2> SUFFICES ASSUME Bad # {} PROVE FALSE
    OBVIOUS
  <2>1. PICK s \in Bad : \A x \in s : s \ {x} \notin Bad
    BY SmallestSet
  <2>2. \A x \in s : Good(s \ {x})
    BY <2>1
  <2> QED
    BY <1>4, <2>1, <2>2 DEF Good
<1>6. \A s \in SUBSET S : Good(s)
  BY <1>5
<1> QED
  BY <1>1, <1>3, <1>6 DEF Good, Adds

\* Two sums of the same numbers are the same.
LEMMA AddsSame ==
    ASSUME NEW f, NEW g, NEW S, Adds(f, g, S),
           NEW e, NEW h, NEW R, Adds(e, h, R),
           NEW T \in SUBSET S, T \in SUBSET R, IsFiniteSet(T),
           \A x \in T : f[x] = e[x]
    PROVE  g[T] = h[T]
<1> DEFINE Bad == {s \in SUBSET T : g[s] # h[s]}
<1> SUFFICES ASSUME Bad # {} PROVE FALSE
  OBVIOUS
<1>1. PICK s \in Bad : \A x \in s : s \ {x} \notin Bad
  BY SmallestSet
<1>2. s \in SUBSET S /\ s \in SUBSET R
  OBVIOUS
<1>3. s # {}
  BY <1>1 DEF Adds
<1>4. PICK x \in s : TRUE
  BY <1>3
<1>5. g[s \ {x}] = h[s \ {x}]
  BY <1>1, <1>4
<1>6. g[s] = f[x] + g[s \ {x}] /\ h[s] = e[x] + h[s \ {x}]
  BY <1>2, <1>4 DEF Adds
<1> QED
  BY <1>1, <1>4, <1>5, <1>6

\* The sum over a set is that over a part of it and that over the rest.
LEMMA AddsParts ==
    ASSUME NEW f, NEW g, NEW S, IsFiniteSet(S), Adds(f, g, S),
           \A x \in S : f[x] \in Nat, NEW R \in SUBSET S
    PROVE  g[S] = g[S \ R] + g[R]
<1> DEFINE Bad == {r \in SUBSET S : g[S] # g[S \ r] + g[r]}
<1> SUFFICES ASSUME Bad # {} PROVE FALSE
  OBVIOUS
<1>1. PICK r \in Bad : \A x \in r : r \ {x} \notin Bad
  BY SmallestSet
<1>2. \A s \in SUBSET S : g[s] \in Nat
  BY DEF Adds
<1>3. r # {}
  <2>1. g[S] = g[S \ {}] + g[{}]
    <3>1. S \ {} = S /\ g[{}] = 0 /\ S \in SUBSET S
      BY DEF Adds
    <3> QED
      BY <1>2, <3>1
  <2> QED
    BY <1>1, <2>1
<1>4. PICK x \in r : TRUE
  BY <1>3
<1>5. /\ r \in SUBSET S /\ r \ {x} \in SUBSET S /\ S \ r \in SUBSET S
      /\ S \ (r \ {x}) \in SUBSET S
      /\ x \in S \ (r \ {x}) /\ (S \ (r \ {x})) \ {x} = S \ r
      /\ f[x] \in Nat
  BY <1>1, <1>4
<1>6. g[r] = f[x] + g[r \ {x}]
  BY <1>4, <1>5 DEF Adds
<1>7. g[S \ (r \ {x})] = f[x] + g[(S \ (r \ {x})) \ {x}]
  BY <1>5 DEF Adds
<1>8. g[S] = g[S \ (r \ {x})] + g[r \ {x}]
  BY <1>1, <1>4
<1>9. g[S \ (r \ {x})] = f[x] + g[S \ r]
  BY <1>5, <1>7
<1>10. /\ g[r \ {x}] \in Nat /\ g[S \ r] \in Nat /\ g[r] \in Nat
       /\ g[S] # g[S \ r] + g[r]
  BY <1>1, <1>2, <1>5
<1> QED
  BY <1>5, <1>6, <1>8, <1>9, <1>10

----------------------------------------------------------------------------
(* An account: how many hold a share, and how much they hold.              *)

IsTotal(f, S, n) == \E g : Adds(f, g, S) /\ n = g[S]
Book(f, S, n, b) == IsFiniteSet(S) /\ n = Cardinality(S) /\ IsTotal(f, S, b)

\* A finite set has a sum,
LEMMA TotalExists ==
    ASSUME NEW f, NEW S, IsFiniteSet(S), \A x \in S : f[x] \in Nat
    PROVE  \E n \in Nat : IsTotal(f, S, n)
<1>1. PICK g : \A s \in SUBSET S : Summed(f, g, s)
  BY Solvable
<1>2. Adds(f, g, S)
  BY <1>1, SolutionAdds
<1>3. g[S] \in Nat
  BY <1>2 DEF Adds
<1> QED
  BY <1>2, <1>3 DEF IsTotal

\* ... which is a number and depends on nothing else,
LEMMA TotalSame ==
    ASSUME NEW f, NEW e, NEW S, NEW n, NEW m, IsFiniteSet(S),
           IsTotal(f, S, n), IsTotal(e, S, m), \A x \in S : f[x] = e[x]
    PROVE  n = m /\ n \in Nat
<1>1. PICK g : Adds(f, g, S) /\ n = g[S]
  BY DEF IsTotal
<1>2. PICK h : Adds(e, h, S) /\ m = h[S]
  BY DEF IsTotal
<1>3. S \in SUBSET S
  OBVIOUS
<1>4. g[S] = h[S]
  BY <1>1, <1>2, <1>3, AddsSame
<1>5. g[S] \in Nat
  BY <1>1, <1>3 DEF Adds
<1> QED
  BY <1>1, <1>2, <1>4, <1>5

\* ... and is that of two parts together.
LEMMA TotalParts ==
    ASSUME NEW f, NEW S, NEW R, NEW n, NEW m, NEW k,
           IsFiniteSet(S), R \in SUBSET S, \A x \in S : f[x] \in Nat,
           IsTotal(f, S, n), IsTotal(f, R, m), IsTotal(f, S \ R, k)
    PROVE  n = k + m
<1>1. PICK g : Adds(f, g, S) /\ n = g[S]
  BY DEF IsTotal
<1>2. PICK h : Adds(f, h, R) /\ m = h[R]
  BY DEF IsTotal
<1>3. PICK j : Adds(f, j, S \ R) /\ k = j[S \ R]
  BY DEF IsTotal
<1>4. IsFiniteSet(R) /\ IsFiniteSet(S \ R)
  BY FS_Subset
<1>5. g[R] = h[R]
  <2>1. R \in SUBSET R /\ \A x \in R : f[x] = f[x]
    OBVIOUS
  <2> QED
    BY <1>1, <1>2, <1>4, <2>1, AddsSame
<1>6. g[S \ R] = j[S \ R]
  <2> DEFINE T == S \ R
  <2>1. /\ T \in SUBSET S /\ T \in SUBSET T /\ \A x \in T : f[x] = f[x]
        /\ IsFiniteSet(T) /\ Adds(f, j, T)
    BY <1>3, <1>4
  <2> HIDE DEF T
  <2>2. g[T] = j[T]
    BY <1>1, <2>1, AddsSame
  <2> QED
    BY <2>2 DEF T
<1>7. g[S] = g[S \ R] + g[R]
  BY <1>1, AddsParts
<1> QED
  BY <1>1, <1>2, <1>3, <1>5, <1>6, <1>7

\* The sum over one element is its number.
LEMMA TotalOne ==
    ASSUME NEW f, NEW x, f[x] \in Nat
    PROVE  IsTotal(f, {x}, f[x])
<1>1. IsFiniteSet({x}) /\ \A y \in {x} : f[y] \in Nat
  BY FS_Singleton
<1>2. PICK g : \A s \in SUBSET {x} : Summed(f, g, s)
  BY <1>1, Solvable
<1>3. Adds(f, g, {x})
  BY <1>1, <1>2, SolutionAdds
<1>4. {x} \in SUBSET {x} /\ x \in {x} /\ {x} \ {x} = {}
  OBVIOUS
<1>5. g[{x}] = f[x] + g[{}] /\ g[{}] = 0
  BY <1>3, <1>4 DEF Adds
<1> QED
  BY <1>3, <1>5 DEF IsTotal

\* An empty account.
LEMMA BookEmpty == ASSUME NEW f PROVE Book(f, {}, 0, 0)
<1>1. IsFiniteSet({}) /\ Cardinality({}) = 0 /\ \A x \in {} : f[x] \in Nat
  BY FS_EmptySet
<1>2. PICK g : \A s \in SUBSET {} : Summed(f, g, s)
  BY <1>1, Solvable
<1>3. Adds(f, g, {})
  BY <1>1, <1>2, SolutionAdds
<1> QED
  BY <1>1, <1>3 DEF Adds, IsTotal, Book

\* An account does not depend on those who hold nothing of it.
LEMMA BookSame ==
    ASSUME NEW f, NEW e, NEW S, NEW n, NEW b, Book(f, S, n, b),
           \A x \in S : f[x] \in Nat /\ f[x] = e[x]
    PROVE  Book(e, S, n, b) /\ n \in Nat /\ b \in Nat
<1>1. IsFiniteSet(S) /\ n = Cardinality(S) /\ IsTotal(f, S, b) /\ n \in Nat
  BY FS_CardinalityType DEF Book
<1>2. PICK c \in Nat : IsTotal(e, S, c)
  <2>1. \A x \in S : e[x] \in Nat
    OBVIOUS
  <2> QED
    BY <1>1, <2>1, TotalExists
<1>3. b = c
  BY <1>1, <1>2, TotalSame
<1> QED
  BY <1>1, <1>2, <1>3 DEF Book

\* Some give their share back.
Lessened(e, S, R, n, b, k) ==
    /\ Book(e, S \ R, n - Cardinality(R), b - k)
    /\ n \in Nat /\ b \in Nat /\ Cardinality(R) \in Nat /\ k \in Nat
    /\ n - Cardinality(R) \in Nat /\ b - k \in Nat
LEMMA BookLess ==
    ASSUME NEW f, NEW e, NEW S, NEW R, NEW n, NEW b, NEW k,
           Book(f, S, n, b), R \in SUBSET S, IsTotal(f, R, k),
           \A x \in S : f[x] \in Nat,
           \A x \in S \ R : e[x] = f[x]
    PROVE  Lessened(e, S, R, n, b, k)
<1>1. IsFiniteSet(S) /\ n = Cardinality(S) /\ IsTotal(f, S, b)
  BY DEF Book
<1>2. IsFiniteSet(R) /\ IsFiniteSet(S \ R)
  BY <1>1, FS_Subset
<1>3. Cardinality(S \ R) = n - Cardinality(R)
  <2>1. S \cap R = R
    OBVIOUS
  <2>2. Cardinality(S \ R) = Cardinality(S) - Cardinality(S \cap R)
    BY <1>1, FS_Difference
  <2> QED
    BY <1>1, <2>1, <2>2
<1>4. /\ Cardinality(S) \in Nat /\ Cardinality(R) \in Nat
      /\ Cardinality(S \ R) \in Nat
  BY <1>1, <1>2, FS_CardinalityType
<1>5. PICK c \in Nat : IsTotal(f, S \ R, c)
  <2>1. \A x \in S \ R : f[x] \in Nat
    OBVIOUS
  <2> QED
    BY <1>2, <2>1, TotalExists
<1>6. b = c + k
  BY <1>1, <1>5, TotalParts
<1>7. b \in Nat /\ k \in Nat
  <2>1. \A x \in S : f[x] = f[x]
    OBVIOUS
  <2>2. b \in Nat
    BY <1>1, <2>1, TotalSame
  <2>3. k \in Nat
    BY <1>2, TotalSame
  <2> QED
    BY <2>2, <2>3
<1>8. c = b - k
  BY <1>5, <1>6, <1>7
<1>9. Book(f, S \ R, n - Cardinality(R), b - k)
  BY <1>2, <1>3, <1>5, <1>8 DEF Book
<1>10. \A x \in S \ R : f[x] \in Nat /\ f[x] = e[x]
  OBVIOUS
<1>11. Book(e, S \ R, n - Cardinality(R), b - k)
  BY <1>9, <1>10, BookSame
<1> QED
  BY <1>1, <1>3, <1>4, <1>5, <1>7, <1>8, <1>11 DEF Lessened

\* One takes a share.
LEMMA BookMore ==
    ASSUME NEW f, NEW e, NEW S, NEW x, NEW n, NEW b,
           Book(f, S, n, b), x \notin S, e[x] \in Nat,
           \A y \in S : f[y] \in Nat /\ e[y] = f[y]
    PROVE  Book(e, S \cup {x}, n + 1, b + e[x])
<1> DEFINE T == S \cup {x}
<1>1. IsFiniteSet(S) /\ n = Cardinality(S)
  BY DEF Book
<1>2. IsFiniteSet(T) /\ Cardinality(T) = n + 1
  BY <1>1, FS_AddElement
<1>3. \A y \in T : e[y] \in Nat
  OBVIOUS
<1>4. Book(e, S, n, b) /\ b \in Nat
  BY BookSame
<1>5. T \ {x} = S /\ {x} \in SUBSET T
  OBVIOUS
<1> HIDE DEF T
<1>6. PICK c \in Nat : IsTotal(e, T, c)
  BY <1>2, <1>3, TotalExists
<1>7. IsTotal(e, {x}, e[x]) /\ IsTotal(e, T \ {x}, b)
  BY <1>4, <1>5, TotalOne DEF Book
<1>8. c = b + e[x]
  BY <1>2, <1>3, <1>5, <1>6, <1>7, TotalParts
<1>9. Book(e, T, n + 1, b + e[x])
  BY <1>2, <1>6, <1>8 DEF Book
<1> QED
  BY <1>9 DEF T

\* One gives its share back.
LEMMA BookGiven ==
    ASSUME NEW f, NEW e, NEW S, NEW x \in S, NEW n, NEW b, Book(f, S, n, b),
           \A y \in S : f[y] \in Nat,
           \A y \in S \ {x} : e[y] = f[y]
    PROVE  /\ Book(e, S \ {x}, n - 1, b - f[x])
           /\ n \in Nat /\ b \in Nat /\ n - 1 \in Nat /\ b - f[x] \in Nat
<1> DEFINE R == {x}
<1>1. R \in SUBSET S /\ IsTotal(f, R, f[x]) /\ \A y \in S \ R : e[y] = f[y]
  BY TotalOne
<1>2. Cardinality(R) = 1
  BY FS_Singleton
<1> HIDE DEF R
<1>3. Lessened(e, S, R, n, b, f[x])
  BY <1>1, BookLess
<1> QED
  BY <1>2, <1>3 DEF R, Lessened

\* One changes its share.
LEMMA BookChanged ==
    ASSUME NEW f, NEW e, NEW S, NEW x \in S, NEW n, NEW b, Book(f, S, n, b),
           \A y \in S : f[y] \in Nat,
           e[x] \in Nat, \A y \in S \ {x} : e[y] = f[y]
    PROVE  Book(e, S, n, b - (f[x] - e[x])) /\ n \in Nat /\ b \in Nat
           /\ b - f[x] \in Nat
<1> DEFINE T == S \ {x}
<1>1. /\ Book(f, T, n - 1, b - f[x])
      /\ n \in Nat /\ b \in Nat /\ n - 1 \in Nat /\ b - f[x] \in Nat
  <2>1. \A y \in S \ {x} : f[y] = f[y]
    OBVIOUS
  <2> QED
    BY <2>1, BookGiven
<1>2. x \notin T /\ T \cup {x} = S /\ \A y \in T : f[y] \in Nat /\ e[y] = f[y]
  OBVIOUS
<1> HIDE DEF T
<1>3. Book(e, T \cup {x}, n - 1 + 1, b - f[x] + e[x])
  BY <1>1, <1>2, BookMore
<1>4. n - 1 + 1 = n /\ b - f[x] + e[x] = b - (f[x] - e[x])
  BY <1>1
<1> QED
  BY <1>1, <1>2, <1>3, <1>4

----------------------------------------------------------------------------
(* The sums the accounts are written with.                                 *)

AppendSize == [t \in Turns |-> lease[t].appendBytes]
SkillSize == [t \in Turns |-> lease[t].skillBytes]

\* What appends hold.
LEMMA AppendTotal ==
    ASSUME NEW S \in SUBSET Turns, IsFiniteSet(S), lease \in [Turns -> Lease]
    PROVE  IsTotal(AppendSize, S, MapThenSumSet(LAMBDA t : lease[t].appendBytes, S))
<1> DEFINE Eq(h) == h = [s \in SUBSET S |->
                           IF s = {} THEN 0
                           ELSE lease[CHOOSE x \in s : TRUE].appendBytes
                                 + h[s \ {CHOOSE x \in s : TRUE}]]
           n == MapThenSumSet(LAMBDA t : lease[t].appendBytes, S)
<1>1. \A t \in S : AppendSize[t] = lease[t].appendBytes /\ AppendSize[t] \in Nat
  BY DEF AppendSize, Lease
<1>2. \A s \in SUBSET S : s # {} => (CHOOSE x \in s : TRUE) \in S
  OBVIOUS
<1>3. n = (CHOOSE h : Eq(h))[S]
  BY Zenon DEF MapThenSumSet, MapThenFoldSet
<1>4. PICK g : g = [s \in SUBSET S |-> g[s]] /\ \A s \in SUBSET S : Summed(AppendSize, g, s)
  BY Solvable
<1>5. Eq(g)
  BY <1>1, <1>2, <1>4 DEF Summed, First
<1>6. \A h : Eq(h) => \A s \in SUBSET S : Summed(AppendSize, h, s)
  BY <1>1, <1>2 DEF Summed, First
<1> HIDE DEF Eq, n
<1>7. Eq(CHOOSE h : Eq(h))
  BY <1>5
<1>8. PICK h : n = h[S] /\ Eq(h)
  BY <1>3, <1>7
<1>9. Adds(AppendSize, h, S)
  BY <1>1, <1>6, <1>8, SolutionAdds
<1>10. IsTotal(AppendSize, S, n)
  BY <1>8, <1>9 DEF IsTotal
<1> QED
  BY <1>10 DEF n

\* What skill prompts of leases hold.
LEMMA SkillTotal ==
    ASSUME NEW S \in SUBSET Turns, IsFiniteSet(S), lease \in [Turns -> Lease]
    PROVE  IsTotal(SkillSize, S, MapThenSumSet(LAMBDA t : lease[t].skillBytes, S))
<1> DEFINE Eq(h) == h = [s \in SUBSET S |->
                           IF s = {} THEN 0
                           ELSE lease[CHOOSE x \in s : TRUE].skillBytes
                                 + h[s \ {CHOOSE x \in s : TRUE}]]
           n == MapThenSumSet(LAMBDA t : lease[t].skillBytes, S)
<1>1. \A t \in S : SkillSize[t] = lease[t].skillBytes /\ SkillSize[t] \in Nat
  BY DEF SkillSize, Lease
<1>2. \A s \in SUBSET S : s # {} => (CHOOSE x \in s : TRUE) \in S
  OBVIOUS
<1>3. n = (CHOOSE h : Eq(h))[S]
  BY Zenon DEF MapThenSumSet, MapThenFoldSet
<1>4. PICK g : g = [s \in SUBSET S |-> g[s]] /\ \A s \in SUBSET S : Summed(SkillSize, g, s)
  BY Solvable
<1>5. Eq(g)
  BY <1>1, <1>2, <1>4 DEF Summed, First
<1>6. \A h : Eq(h) => \A s \in SUBSET S : Summed(SkillSize, h, s)
  BY <1>1, <1>2 DEF Summed, First
<1> HIDE DEF Eq, n
<1>7. Eq(CHOOSE h : Eq(h))
  BY <1>5
<1>8. PICK h : n = h[S] /\ Eq(h)
  BY <1>3, <1>7
<1>9. Adds(SkillSize, h, S)
  BY <1>1, <1>6, <1>8, SolutionAdds
<1>10. IsTotal(SkillSize, S, n)
  BY <1>8, <1>9 DEF IsTotal
<1> QED
  BY <1>10 DEF n

\* What generations hold.
LEMMA RetainedTotal ==
    ASSUME NEW S \in SUBSET Turns, IsFiniteSet(S), \A t \in S : retained[t] \in Nat
    PROVE  IsTotal(retained, S, MapThenSumSet(LAMBDA t : retained[t], S))
<1> DEFINE Eq(h) == h = [s \in SUBSET S |->
                           IF s = {} THEN 0
                           ELSE retained[CHOOSE x \in s : TRUE]
                                 + h[s \ {CHOOSE x \in s : TRUE}]]
           n == MapThenSumSet(LAMBDA t : retained[t], S)
<1>1. \A t \in S : retained[t] \in Nat
  OBVIOUS
<1>2. \A s \in SUBSET S : s # {} => (CHOOSE x \in s : TRUE) \in S
  OBVIOUS
<1>3. n = (CHOOSE h : Eq(h))[S]
  BY Zenon DEF MapThenSumSet, MapThenFoldSet
<1>4. PICK g : g = [s \in SUBSET S |-> g[s]] /\ \A s \in SUBSET S : Summed(retained, g, s)
  BY Solvable
<1>5. Eq(g)
  BY <1>1, <1>2, <1>4 DEF Summed, First
<1>6. \A h : Eq(h) => \A s \in SUBSET S : Summed(retained, h, s)
  BY <1>1, <1>2 DEF Summed, First
<1> HIDE DEF Eq, n
<1>7. Eq(CHOOSE h : Eq(h))
  BY <1>5
<1>8. PICK h : n = h[S] /\ Eq(h)
  BY <1>3, <1>7
<1>9. Adds(retained, h, S)
  BY <1>1, <1>6, <1>8, SolutionAdds
<1>10. IsTotal(retained, S, n)
  BY <1>8, <1>9 DEF IsTotal
<1> QED
  BY <1>10 DEF n

----------------------------------------------------------------------------
(* The accounts: who holds a share of which, and the laws of the leases    *)
(* that keep them exact.                                                   *)

Appending == {t \in Turns : lease[t].appendSlot}
Preparing == {t \in Turns : lease[t].skillSlot}
Charged == {t \in Turns : retained[t] # NoReservation}

Books ==
    /\ Book(AppendSize, Appending, appendTurns, appendBytes)
    /\ \E p, q, b, d \in Nat :
          /\ Book(SkillSize, Preparing, p, b) /\ Book(retained, Charged, q, d)
          /\ skillTurns = p + q /\ skillBytes = b + d

Limits ==
    /\ appendTurns <= MaxAppendTurns /\ appendBytes <= MaxAppendBytes
    /\ skillTurns <= MaxPreparedTurns /\ skillBytes <= MaxPreparedBytes

\* A lease without its record holds nothing, a settled one no append, and a
\* turn that started no generation no reservation.
Shares ==
    \A t \in Turns : /\ ~HasRecord(t) => lease[t] = NoLease
                     /\ lease[t].settled => ~lease[t].appendSlot
                     /\ generation[t] = "none" => retained[t] = NoReservation

RestTyped ==
    /\ required \subseteq Owners
    /\ departed \subseteq Turns
    /\ retained \in [Turns -> Nat \cup {NoReservation}]
    /\ removed \subseteq Chats
    /\ committed \subseteq Turns

Balanced == Books /\ Limits /\ Shares /\ RestTyped /\ PayloadStaysCharged

\* The counters are numbers.
LEMMA CountersAreNumbers ==
    ASSUME Shape, Books, RestTyped
    PROVE  /\ appendTurns \in Nat /\ appendBytes \in Nat
           /\ skillTurns \in Nat /\ skillBytes \in Nat
           /\ \A t \in Turns : AppendSize[t] \in Nat /\ SkillSize[t] \in Nat
           /\ \A t \in Charged : retained[t] \in Nat
<1>1. \A t \in Turns : /\ AppendSize[t] = lease[t].appendBytes
                       /\ SkillSize[t] = lease[t].skillBytes
                       /\ AppendSize[t] \in Nat /\ SkillSize[t] \in Nat
  BY DEF AppendSize, SkillSize, Shape, Lease
<1>2. appendTurns \in Nat /\ appendBytes \in Nat
  <2>1. Book(AppendSize, Appending, appendTurns, appendBytes)
    BY DEF Books
  <2>2. \A t \in Appending : AppendSize[t] \in Nat /\ AppendSize[t] = AppendSize[t]
    BY <1>1 DEF Appending
  <2> QED
    BY <2>1, <2>2, BookSame
<1>3. skillTurns \in Nat /\ skillBytes \in Nat
  BY DEF Books
<1>4. \A t \in Charged : retained[t] \in Nat
  BY DEF Charged, RestTyped
<1> QED
  BY <1>1, <1>2, <1>3, <1>4

\* An append under way keeps its share.
StaysPaid(leases, settle) ==
    \A t \in Turns :
        HasRecord(t) /\ ~lease[t].settled /\ ~(settle /\ t \in leases)
        => /\ lease'[t].appendSlot = lease[t].appendSlot
           /\ lease'[t].appendBytes = lease[t].appendBytes

\* What Close does to the shares of the leases.
LEMMA CloseShares ==
    ASSUME NEW leases \in SUBSET Turns,
           NEW release \in BOOLEAN, NEW settle \in BOOLEAN,
           Shape, OneRecord, Shares, Close(leases, release, settle),
           generation' = generation, retained' = retained
    PROVE  /\ Appending' = Appending \ RepaidBy(leases, release, settle)
           /\ \A t \in Appending' : AppendSize'[t] = AppendSize[t]
           /\ Preparing' = Preparing \ {t \in FinalizedBy(leases, release, settle) :
                                           lease[t].skillSlot}
           /\ \A t \in Preparing' : SkillSize'[t] = SkillSize[t]
           /\ Shares'
           /\ StaysPaid(leases, settle)
<1> DEFINE finalized == FinalizedBy(leases, release, settle)
           repaid == RepaidBy(leases, release, settle)
           changed(t) == [lease[t] EXCEPT
                            !.authority = @ /\ ~release,
                            !.settled = @ \/ settle,
                            !.appendSlot = @ /\ t \notin repaid,
                            !.appendBytes = IF t \in repaid THEN 0 ELSE @]
<1>1. lease' = [t \in Turns |-> IF t \in finalized THEN NoLease
                                ELSE IF t \in leases /\ HasRecord(t)
                                THEN changed(t) ELSE lease[t]]
  BY DEF Close
<1>2. /\ finalized \subseteq leases /\ repaid \subseteq leases
      /\ \A t \in finalized : HasRecord(t) /\ (lease[t].settled \/ settle)
      /\ \A t \in repaid : HasRecord(t) /\ lease[t].appendSlot
      /\ \A t \in repaid : t \in finalized \/ settle
      /\ \A t \in leases : HasRecord(t) /\ lease[t].appendSlot =>
            /\ t \in finalized => t \in repaid
            /\ settle /\ ~lease[t].settled => t \in repaid
  BY DEF FinalizedBy, RepaidBy, Finalized
<1>3. \A t \in Turns : HasRecord(t)' <=> HasRecord(t) /\ t \notin finalized
  <2>1. turns' = [c \in Chats |-> turns[c] \ finalized]
    BY CloseRecords
  <2> QED
    BY <2>1, ChatTurnAdmissionAssumption DEF HasRecord, Shape
<1> HIDE DEF finalized, repaid
<1>4. \A t \in Turns :
        /\ changed(t).settled = (lease[t].settled \/ settle)
        /\ changed(t).appendSlot = (lease[t].appendSlot /\ t \notin repaid)
        /\ changed(t).appendBytes = IF t \in repaid THEN 0 ELSE lease[t].appendBytes
        /\ changed(t).skillSlot = lease[t].skillSlot
        /\ changed(t).skillBytes = lease[t].skillBytes
  <2> TAKE t \in Turns
  <2>1. lease[t] \in Lease
    BY DEF Shape
  <2>2. changed(t).settled = (lease[t].settled \/ settle)
    BY <2>1 DEF Lease
  <2>3. changed(t).appendSlot = (lease[t].appendSlot /\ t \notin repaid)
    BY <2>1 DEF Lease
  <2>4. changed(t).appendBytes = IF t \in repaid THEN 0 ELSE lease[t].appendBytes
    BY <2>1 DEF Lease
  <2>5. /\ changed(t).skillSlot = lease[t].skillSlot
        /\ changed(t).skillBytes = lease[t].skillBytes
    BY <2>1 DEF Lease
  <2> QED
    BY <2>2, <2>3, <2>4, <2>5
<1> HIDE DEF changed
<1>5. /\ ~NoLease.settled /\ ~NoLease.appendSlot /\ ~NoLease.skillSlot
  BY DEF NoLease
<1>6. \A t \in Turns :
        /\ t \in finalized => lease'[t] = NoLease
        /\ t \notin finalized /\ t \in leases /\ HasRecord(t) =>
              lease'[t] = changed(t)
        /\ t \notin finalized /\ ~(t \in leases /\ HasRecord(t)) =>
              lease'[t] = lease[t]
  BY <1>1
<1>7. \A t \in Turns :
        /\ lease'[t].appendSlot <=> lease[t].appendSlot /\ t \notin repaid
        /\ lease'[t].appendSlot => lease'[t].appendBytes = lease[t].appendBytes
        /\ lease'[t].skillSlot <=> lease[t].skillSlot /\ t \notin finalized
        /\ lease'[t].skillSlot => lease'[t].skillBytes = lease[t].skillBytes
  <2> TAKE t \in Turns
  <2>1. CASE t \in finalized
    <3>1. lease'[t] = NoLease /\ t \in leases /\ HasRecord(t)
      BY <1>2, <1>6, <2>1
    <3>2. lease[t].appendSlot => t \in repaid
      BY <1>2, <2>1, <3>1
    <3> QED
      BY <1>5, <2>1, <3>1, <3>2
  <2>2. CASE t \notin finalized /\ t \in leases /\ HasRecord(t)
    <3>1. lease'[t] = changed(t)
      BY <1>6, <2>2
    <3>2. lease[t].appendSlot \in BOOLEAN /\ lease[t].skillSlot \in BOOLEAN
      BY DEF Shape, Lease
    <3> QED
      BY <1>4, <2>2, <3>1, <3>2
  <2>3. CASE t \notin finalized /\ ~(t \in leases /\ HasRecord(t))
    <3>1. lease'[t] = lease[t] /\ t \notin repaid
      BY <1>2, <1>6, <2>3
    <3> QED
      BY <2>3, <3>1
  <2> QED
    BY <2>1, <2>2, <2>3
<1>8. Appending' = Appending \ repaid
  BY <1>7 DEF Appending
<1>9. Preparing' = Preparing \ {t \in finalized : lease[t].skillSlot}
  BY <1>7 DEF Preparing
<1>10. /\ \A t \in Appending' : AppendSize'[t] = AppendSize[t]
       /\ \A t \in Preparing' : SkillSize'[t] = SkillSize[t]
  BY <1>7 DEF AppendSize, SkillSize, Appending, Preparing
<1>11. Shares'
  <2> SUFFICES ASSUME NEW t \in Turns
               PROVE  /\ ~HasRecord(t)' => lease'[t] = NoLease
                      /\ lease'[t].settled => ~lease'[t].appendSlot
                      /\ generation'[t] = "none" => retained'[t] = NoReservation
    BY DEF Shares
  <2>1. /\ ~HasRecord(t) => lease[t] = NoLease
        /\ lease[t].settled => ~lease[t].appendSlot
        /\ generation[t] = "none" => retained[t] = NoReservation
    BY DEF Shares
  <2>2. ~HasRecord(t)' => lease'[t] = NoLease
    BY <1>3, <1>6, <2>1
  <2>3. lease'[t].settled => ~lease'[t].appendSlot
    BY <1>2, <1>4, <1>5, <1>6, <1>7, <2>1
  <2> QED
    BY <2>1, <2>2, <2>3
<1>12. StaysPaid(leases, settle)
  <2> SUFFICES ASSUME NEW t \in Turns, HasRecord(t), ~lease[t].settled,
                      ~(settle /\ t \in leases)
               PROVE  /\ lease'[t].appendSlot = lease[t].appendSlot
                      /\ lease'[t].appendBytes = lease[t].appendBytes
    BY DEF StaysPaid
  <2>1. t \notin finalized /\ t \notin repaid
    BY <1>2
  <2>2. lease[t].appendSlot \in BOOLEAN
    BY DEF Shape, Lease
  <2> QED
    BY <1>4, <1>6, <2>1, <2>2
<1> QED
  BY <1>8, <1>9, <1>10, <1>11, <1>12 DEF finalized, repaid

\* Close keeps the books.
LEMMA CloseBooks ==
    ASSUME NEW leases \in SUBSET Turns,
           NEW release \in BOOLEAN, NEW settle \in BOOLEAN,
           Shape, OneRecord, Books, Limits, Shares, RestTyped,
           Close(leases, release, settle),
           generation' = generation, retained' = retained
    PROVE  Books' /\ Limits' /\ Shares'
<1> DEFINE repaid == RepaidBy(leases, release, settle)
           freed == {t \in FinalizedBy(leases, release, settle) : lease[t].skillSlot}
           repay == MapThenSumSet(LAMBDA t : lease[t].appendBytes, repaid)
           free == MapThenSumSet(LAMBDA t : lease[t].skillBytes, freed)
<1>1. /\ Appending' = Appending \ repaid
      /\ \A t \in Appending' : AppendSize'[t] = AppendSize[t]
      /\ Preparing' = Preparing \ freed
      /\ \A t \in Preparing' : SkillSize'[t] = SkillSize[t]
      /\ Shares'
  BY CloseShares
<1>2. /\ appendTurns' = appendTurns - Cardinality(repaid)
      /\ appendBytes' = appendBytes - repay
      /\ skillTurns' = skillTurns - Cardinality(freed)
      /\ skillBytes' = skillBytes - free
  BY DEF Close
<1>3. /\ repaid \in SUBSET Appending /\ freed \in SUBSET Preparing
      /\ repaid \in SUBSET Turns /\ freed \in SUBSET Turns
  BY DEF RepaidBy, FinalizedBy, Appending, Preparing
<1>4. PICK p \in Nat, q \in Nat, b \in Nat, d \in Nat :
        /\ Book(SkillSize, Preparing, p, b) /\ Book(retained, Charged, q, d)
        /\ skillTurns = p + q /\ skillBytes = b + d
  BY DEF Books
<1>5. Book(AppendSize, Appending, appendTurns, appendBytes)
  BY DEF Books
<1>6. IsFiniteSet(repaid) /\ IsFiniteSet(freed)
  BY <1>3, <1>4, <1>5, FS_Subset DEF Book
<1>7. IsTotal(AppendSize, repaid, repay) /\ IsTotal(SkillSize, freed, free)
  <2>1. lease \in [Turns -> Lease]
    BY DEF Shape
  <2> HIDE DEF repaid, freed
  <2>2. IsTotal(AppendSize, repaid, MapThenSumSet(LAMBDA t : lease[t].appendBytes, repaid))
    BY <1>3, <1>6, <2>1, AppendTotal
  <2>3. IsTotal(SkillSize, freed, MapThenSumSet(LAMBDA t : lease[t].skillBytes, freed))
    BY <1>3, <1>6, <2>1, SkillTotal
  <2> QED
    BY <2>2, <2>3
<1>8. /\ \A t \in Turns : AppendSize[t] \in Nat /\ SkillSize[t] \in Nat
      /\ Appending \subseteq Turns /\ Preparing \subseteq Turns
  BY CountersAreNumbers DEF Appending, Preparing
<1> HIDE DEF repaid, freed, repay, free
<1>9. /\ Book(AppendSize', Appending', appendTurns', appendBytes')
      /\ appendTurns' <= appendTurns /\ appendBytes' <= appendBytes
      /\ appendTurns' \in Int /\ appendBytes' \in Int
  <2>1. /\ \A t \in Appending : AppendSize[t] \in Nat
        /\ \A t \in Appending \ repaid : AppendSize'[t] = AppendSize[t]
    BY <1>1, <1>8
  <2> DEFINE e == AppendSize'
  <2>2. \A t \in Appending \ repaid : e[t] = AppendSize[t]
    BY <2>1
  <2> HIDE DEF e
  <2>3. Lessened(e, Appending, repaid, appendTurns, appendBytes, repay)
    BY <1>3, <1>5, <1>7, <2>1, <2>2, BookLess
  <2> QED
    BY <1>1, <1>2, <2>3 DEF e, Lessened
<1>10. /\ Book(SkillSize', Preparing', p - Cardinality(freed), b - free)
       /\ Cardinality(freed) \in Nat /\ free \in Nat
       /\ p - Cardinality(freed) \in Nat /\ b - free \in Nat
  <2> DEFINE e == SkillSize'
  <2>1. /\ \A t \in Preparing : SkillSize[t] \in Nat
        /\ \A t \in Preparing \ freed : e[t] = SkillSize[t]
    BY <1>1, <1>8
  <2> HIDE DEF e
  <2>2. Lessened(e, Preparing, freed, p, b, free)
    BY <1>3, <1>4, <1>7, <2>1, BookLess
  <2> QED
    BY <1>1, <2>2 DEF e, Lessened
<1>11. Book(retained', Charged', q, d)
  <2>1. Charged' = Charged /\ retained' = retained
    BY DEF Charged
  <2> QED
    BY <1>4, <2>1
<1>12. Books'
  <2>1. /\ skillTurns' = (p - Cardinality(freed)) + q
        /\ skillBytes' = (b - free) + d
    BY <1>2, <1>4, <1>10
  <2> QED
    BY <1>4, <1>9, <1>10, <1>11, <2>1 DEF Books
<1>13. Limits'
  <2>1. skillTurns' <= skillTurns /\ skillBytes' <= skillBytes
    BY <1>2, <1>4, <1>10
  <2>2. /\ appendTurns \in Nat /\ appendBytes \in Nat
        /\ skillTurns \in Nat /\ skillBytes \in Nat
    BY CountersAreNumbers
  <2>3. skillTurns' \in Int /\ skillBytes' \in Int
    BY <1>2, <1>10, <2>2
  <2> QED
    BY <1>9, <2>1, <2>2, <2>3, ChatTurnAdmissionAssumption DEF Limits
<1> QED
  BY <1>1, <1>12, <1>13

\* Close keeps what the accounts are worth: a message under way stays paid for.
LEMMA CloseBalanced ==
    ASSUME NEW leases \in SUBSET Turns,
           NEW release \in BOOLEAN, NEW settle \in BOOLEAN,
           Shape, Held, Balanced, Close(leases, release, settle),
           generation' = generation, retained' = retained,
           \A t \in Turns : frame'[t] = frame[t] \/ frame'[t] = "over",
           settle => \A t \in leases : frame'[t] = "over",
           RestTyped'
    PROVE  Balanced'
<1>1. /\ OneRecord /\ RecordWhileRunning /\ Books /\ Limits /\ Shares /\ RestTyped
      /\ PayloadStaysCharged
  BY DEF Held, Balanced
<1>2. Books' /\ Limits' /\ Shares'
  BY <1>1, CloseBooks
<1>3. StaysPaid(leases, settle)
  BY <1>1, CloseShares
<1>4. PayloadStaysCharged'
  <2> SUFFICES ASSUME NEW t \in Turns \ Scheduled,
                      frame'[t] \in {"loading", "appending", "writing"}
               PROVE  lease'[t].appendSlot /\ lease'[t].appendBytes = Payload[t]
    BY DEF PayloadStaysCharged
  <2>1. frame[t] \in {"loading", "appending", "writing"} /\ ~(settle /\ t \in leases)
    OBVIOUS
  <2>2. HasRecord(t) /\ ~lease[t].settled
    BY <1>1, <2>1 DEF RecordWhileRunning, Running
  <2>3. lease[t].appendSlot /\ lease[t].appendBytes = Payload[t]
    BY <1>1, <2>1 DEF PayloadStaysCharged
  <2> QED
    BY <1>3, <2>1, <2>2, <2>3 DEF StaysPaid
<1> QED
  BY <1>2, <1>4 DEF Balanced

\* A step that leaves the shares alone leaves the books alone.
LEMMA BooksStand ==
    ASSUME Shape, Books, Limits, RestTyped,
           UNCHANGED <<skillTurns, skillBytes, appendTurns, appendBytes, retained>>,
           \A t \in Turns :
              /\ lease'[t].appendSlot = lease[t].appendSlot
              /\ lease'[t].appendBytes = lease[t].appendBytes
              /\ lease'[t].skillSlot = lease[t].skillSlot
              /\ lease'[t].skillBytes = lease[t].skillBytes
    PROVE  Books' /\ Limits'
<1>1. Appending' = Appending /\ Preparing' = Preparing /\ Charged' = Charged
  BY DEF Appending, Preparing, Charged
<1>2. AppendSize' = AppendSize /\ SkillSize' = SkillSize
  BY DEF AppendSize, SkillSize
<1>3. Books'
  BY <1>1, <1>2 DEF Books
<1>4. Limits'
  BY DEF Limits
<1> QED
  BY <1>3, <1>4

\* A step that leaves the leases alone.
LEMMA SharesStand ==
    ASSUME Shape, Balanced, RestTyped',
           UNCHANGED <<turns, lease, skillTurns, skillBytes, appendTurns,
                       appendBytes, retained>>,
           \A t \in Turns : generation'[t] = "none" => generation[t] = "none",
           \A t \in Turns : frame'[t] = frame[t]
    PROVE  Balanced'
<1>1. Books /\ Limits /\ Shares /\ RestTyped /\ PayloadStaysCharged
  BY DEF Balanced
<1>2. Books' /\ Limits'
  BY <1>1, BooksStand
<1>3. Shares'
  BY <1>1 DEF Shares, HasRecord
<1>4. PayloadStaysCharged'
  BY <1>1 DEF PayloadStaysCharged
<1> QED
  BY <1>2, <1>3, <1>4 DEF Balanced

\* beginChatTurn takes no share.
LEMMA BeginBalanced ==
    ASSUME Shape, Held, Balanced, NEW t \in Turns, BeginTurn(t)
    PROVE  Balanced'
<1> DEFINE c == TurnChat[t]
<1>1. Books /\ Limits /\ Shares /\ RestTyped /\ PayloadStaysCharged /\ OneRecord
  BY DEF Balanced, Held
<1>2. c \in Chats /\ turns[c] = {} /\ ~HasRecord(t)
  BY ChatTurnAdmissionAssumption DEF BeginTurn, Admitted, HasRecord
<1>3. lease[t] = NoLease
  BY <1>1, <1>2 DEF Shares
<1>4. /\ \A d \in Chats : turns'[d] = IF d = c THEN {t} ELSE turns[d]
      /\ \A s \in Turns : lease'[s] = IF s = t THEN NewLease ELSE lease[s]
      /\ \A s \in Turns \ {t} : frame'[s] = frame[s]
      /\ frame'[t] = IF t \in Scheduled THEN "appending" ELSE "claimed"
      /\ generation' = generation /\ retained' = retained
      /\ UNCHANGED <<skillTurns, skillBytes, appendTurns, appendBytes>>
  BY DEF BeginTurn, Shape
<1>5. \A s \in Turns : HasRecord(s)' <=> s = t \/ HasRecord(s)
  BY <1>1, <1>2, <1>4, ChatTurnAdmissionAssumption DEF HasRecord, TurnsOf, OneRecord
<1>6. /\ NewLease.appendSlot = NoLease.appendSlot
      /\ NewLease.appendBytes = NoLease.appendBytes
      /\ NewLease.skillSlot = NoLease.skillSlot
      /\ NewLease.skillBytes = NoLease.skillBytes
      /\ ~NewLease.settled
  BY DEF NewLease, NoLease
<1>7. Books' /\ Limits'
  <2>1. \A s \in Turns :
              /\ lease'[s].appendSlot = lease[s].appendSlot
              /\ lease'[s].appendBytes = lease[s].appendBytes
              /\ lease'[s].skillSlot = lease[s].skillSlot
              /\ lease'[s].skillBytes = lease[s].skillBytes
    BY <1>3, <1>4, <1>6
  <2> QED
    BY <1>1, <1>4, <2>1, BooksStand
<1>8. Shares'
  BY <1>1, <1>4, <1>5, <1>6 DEF Shares
<1>9. PayloadStaysCharged'
  <2>1. \A s \in Turns \ Scheduled :
           frame'[s] \in {"loading", "appending", "writing"} =>
              s # t /\ frame[s] \in {"loading", "appending", "writing"}
    BY <1>4
  <2> QED
    BY <1>1, <1>4, <2>1 DEF PayloadStaysCharged
<1>10. RestTyped'
  BY <1>1 DEF RestTyped, BeginTurn, ownerVars, gateVars
<1> QED
  BY <1>7, <1>8, <1>9, <1>10 DEF Balanced

\* A reservation is an addition to its account, of what the lease then says.
LEMMA ReserveBalanced ==
    ASSUME Shape, Held, Balanced, NEW t \in Turns,
           ReserveSkill(t) \/ ReserveAppend(t)
    PROVE  Balanced'
<1>1. Books /\ Limits /\ Shares /\ RestTyped /\ PayloadStaysCharged /\ OneRecord
  BY DEF Balanced, Held
<1>2. PICK p \in Nat, q \in Nat, b \in Nat, d \in Nat :
        /\ Book(SkillSize, Preparing, p, b) /\ Book(retained, Charged, q, d)
        /\ skillTurns = p + q /\ skillBytes = b + d
  BY <1>1 DEF Books
<1>3. Book(AppendSize, Appending, appendTurns, appendBytes)
  BY <1>1 DEF Books
<1>4. /\ appendTurns \in Nat /\ appendBytes \in Nat
      /\ skillTurns \in Nat /\ skillBytes \in Nat
      /\ \A s \in Turns : AppendSize[s] \in Nat /\ SkillSize[s] \in Nat
      /\ Appending \subseteq Turns /\ Preparing \subseteq Turns
  BY <1>1, CountersAreNumbers DEF Appending, Preparing
<1>5. SkillReservation \in Nat /\ Payload[t] \in Nat /\ lease[t] \in Lease
  BY ChatTurnAdmissionAssumption DEF Shape
<1>6. Charged' = Charged /\ retained' = retained /\ turns' = turns
  BY DEF ReserveSkill, ReserveAppend, Charged
<1>7. RestTyped'
  BY <1>1 DEF RestTyped, ReserveSkill, ReserveAppend, ownerVars, gateVars
<1>8. HasRecord(t) /\ ~lease[t].settled
  BY DEF ReserveSkill, ReserveAppend, Held, RecordWhileRunning, Running
<1>9. CASE ReserveSkill(t)
  <2>1. /\ \A s \in Turns \ {t} : lease'[s] = lease[s]
        /\ lease'[t].appendSlot = lease[t].appendSlot
        /\ lease'[t].appendBytes = lease[t].appendBytes
        /\ lease'[t].settled = lease[t].settled
        /\ lease'[t].skillSlot /\ lease'[t].skillBytes = SkillReservation
        /\ ~lease[t].skillSlot
    BY <1>5, <1>9 DEF ReserveSkill, Shape, Lease
  <2>2. Appending' = Appending /\ AppendSize' = AppendSize
    BY <2>1 DEF Appending, AppendSize
  <2>3. /\ Preparing' = Preparing \cup {t} /\ t \notin Preparing
        /\ SkillSize'[t] = SkillReservation
        /\ \A s \in Preparing : SkillSize'[s] = SkillSize[s]
    BY <2>1 DEF Preparing, SkillSize
  <2>4. Book(SkillSize', Preparing', p + 1, b + SkillReservation)
    <3> DEFINE e == SkillSize'
    <3>1. /\ e[t] \in Nat /\ e[t] = SkillReservation
          /\ \A s \in Preparing : SkillSize[s] \in Nat /\ e[s] = SkillSize[s]
      BY <1>4, <1>5, <2>3
    <3> HIDE DEF e
    <3>2. Book(e, Preparing \cup {t}, p + 1, b + e[t])
      BY <1>2, <2>3, <3>1, BookMore
    <3> QED
      BY <2>3, <3>1, <3>2 DEF e
  <2>5. /\ appendTurns' = appendTurns /\ appendBytes' = appendBytes
        /\ skillTurns' = skillTurns + 1 /\ skillBytes' = skillBytes + SkillReservation
        /\ SkillRoom
    BY <1>9 DEF ReserveSkill
  <2>6. Books'
    <3>1. /\ p + 1 \in Nat /\ b + SkillReservation \in Nat
          /\ skillTurns' = (p + 1) + q /\ skillBytes' = (b + SkillReservation) + d
      BY <1>2, <1>5, <2>5
    <3> QED
      BY <1>2, <1>3, <1>6, <2>2, <2>4, <2>5, <3>1 DEF Books
  <2>7. Limits'
    BY <1>1, <1>4, <1>5, <2>5, ChatTurnAdmissionAssumption DEF Limits, SkillRoom
  <2>8. Shares'
    BY <1>1, <1>6, <1>8, <1>9, <2>1 DEF Shares, HasRecord, ReserveSkill
  <2>9. PayloadStaysCharged'
    <3>1. \A s \in Turns \ Scheduled :
             frame'[s] \in {"loading", "appending", "writing"} =>
                s # t /\ frame'[s] = frame[s]
      BY <1>9 DEF ReserveSkill, Shape
    <3> QED
      BY <1>1, <2>1, <3>1 DEF PayloadStaysCharged
  <2> QED
    BY <1>7, <2>6, <2>7, <2>8, <2>9 DEF Balanced
<1>10. CASE ReserveAppend(t)
  <2>1. /\ \A s \in Turns \ {t} : lease'[s] = lease[s]
        /\ lease'[t].skillSlot = lease[t].skillSlot
        /\ lease'[t].skillBytes = lease[t].skillBytes
        /\ lease'[t].settled = lease[t].settled
        /\ lease'[t].appendSlot /\ lease'[t].appendBytes = Payload[t]
        /\ ~lease[t].appendSlot
    BY <1>5, <1>10 DEF ReserveAppend, Shape, Lease
  <2>2. Preparing' = Preparing /\ SkillSize' = SkillSize
    BY <2>1 DEF Preparing, SkillSize
  <2>3. /\ Appending' = Appending \cup {t} /\ t \notin Appending
        /\ AppendSize'[t] = Payload[t]
        /\ \A s \in Appending : AppendSize'[s] = AppendSize[s]
    BY <2>1 DEF Appending, AppendSize
  <2>4. Book(AppendSize', Appending', appendTurns + 1, appendBytes + Payload[t])
    <3> DEFINE e == AppendSize'
    <3>1. /\ e[t] \in Nat /\ e[t] = Payload[t]
          /\ \A s \in Appending : AppendSize[s] \in Nat /\ e[s] = AppendSize[s]
      BY <1>4, <1>5, <2>3
    <3> HIDE DEF e
    <3>2. Book(e, Appending \cup {t}, appendTurns + 1, appendBytes + e[t])
      BY <1>3, <2>3, <3>1, BookMore
    <3> QED
      BY <2>3, <3>1, <3>2 DEF e
  <2>5. /\ skillTurns' = skillTurns /\ skillBytes' = skillBytes
        /\ appendTurns' = appendTurns + 1 /\ appendBytes' = appendBytes + Payload[t]
        /\ AppendRoom(Payload[t])
    BY <1>10 DEF ReserveAppend
  <2>6. Books'
    BY <1>2, <1>6, <2>2, <2>4, <2>5 DEF Books
  <2>7. Limits'
    BY <1>1, <1>4, <1>5, <2>5, ChatTurnAdmissionAssumption DEF Limits, AppendRoom
  <2>8. Shares'
    BY <1>1, <1>6, <1>8, <1>10, <2>1 DEF Shares, HasRecord, ReserveAppend
  <2>9. PayloadStaysCharged'
    <3>1. \A s \in Turns \ {t} : frame'[s] = frame[s]
      BY <1>10 DEF ReserveAppend, Shape
    <3> QED
      BY <1>1, <2>1, <3>1 DEF PayloadStaysCharged
  <2> QED
    BY <1>7, <2>6, <2>7, <2>8, <2>9 DEF Balanced
<1> QED
  BY <1>9, <1>10

\* The prompt replaces the reservation, in the lease and in the account.
LEMMA PrepareBalanced ==
    ASSUME Shape, Held, Balanced, NEW t \in Turns, PrepareSkill(t)
    PROVE  Balanced'
<1>1. Books /\ Limits /\ Shares /\ RestTyped /\ PayloadStaysCharged /\ OneRecord
  BY DEF Balanced, Held
<1>2. PICK p \in Nat, q \in Nat, b \in Nat, d \in Nat :
        /\ Book(SkillSize, Preparing, p, b) /\ Book(retained, Charged, q, d)
        /\ skillTurns = p + q /\ skillBytes = b + d
  BY <1>1 DEF Books
<1>3. Book(AppendSize, Appending, appendTurns, appendBytes)
  BY <1>1 DEF Books
<1>4. /\ skillTurns \in Nat /\ skillBytes \in Nat
      /\ \A s \in Turns : AppendSize[s] \in Nat /\ SkillSize[s] \in Nat
      /\ Preparing \subseteq Turns
  BY <1>1, CountersAreNumbers DEF Preparing
<1>5. /\ Prompt[t] \in Nat /\ lease[t] \in Lease /\ lease[t].skillBytes \in Nat
      /\ lease[t].skillSlot /\ Prompt[t] <= lease[t].skillBytes /\ frame[t] = "loading"
      /\ SkillSize[t] = lease[t].skillBytes
  BY ChatTurnAdmissionAssumption DEF Shape, PrepareSkill, Lease, SkillSize
<1>6. Charged' = Charged /\ retained' = retained /\ turns' = turns
  BY DEF PrepareSkill, Charged
<1>7. RestTyped'
  BY <1>1 DEF RestTyped, PrepareSkill, ownerVars, gateVars
<1>8. /\ \A s \in Turns \ {t} : lease'[s] = lease[s] /\ frame'[s] = frame[s]
      /\ lease'[t].appendSlot = lease[t].appendSlot
      /\ lease'[t].appendBytes = lease[t].appendBytes
      /\ lease'[t].settled = lease[t].settled
      /\ lease'[t].skillSlot = lease[t].skillSlot
      /\ lease'[t].skillBytes = Prompt[t]
  BY <1>5 DEF PrepareSkill, Shape, Lease
<1>9. Appending' = Appending /\ AppendSize' = AppendSize
  BY <1>8 DEF Appending, AppendSize
<1>10. /\ Preparing' = Preparing /\ t \in Preparing /\ SkillSize'[t] = Prompt[t]
       /\ \A s \in Preparing \ {t} : SkillSize'[s] = SkillSize[s]
  BY <1>5, <1>8 DEF Preparing, SkillSize
<1>11. /\ Book(SkillSize', Preparing', p, b - (lease[t].skillBytes - Prompt[t]))
       /\ b - lease[t].skillBytes \in Nat
  <2> DEFINE e == SkillSize'
  <2>1. /\ e[t] \in Nat /\ e[t] = Prompt[t]
        /\ \A s \in Preparing : SkillSize[s] \in Nat
        /\ \A s \in Preparing \ {t} : e[s] = SkillSize[s]
    BY <1>4, <1>5, <1>10
  <2> HIDE DEF e
  <2>2. /\ Book(e, Preparing, p, b - (SkillSize[t] - e[t]))
        /\ b - SkillSize[t] \in Nat
    BY <1>2, <1>10, <2>1, BookChanged
  <2> QED
    BY <1>5, <1>10, <2>1, <2>2 DEF e
<1>12. /\ appendTurns' = appendTurns /\ appendBytes' = appendBytes
       /\ skillTurns' = skillTurns
       /\ skillBytes' = skillBytes - (lease[t].skillBytes - Prompt[t])
  BY DEF PrepareSkill
<1>13. Books'
  <2>1. /\ b - (lease[t].skillBytes - Prompt[t]) \in Nat
        /\ skillBytes' = (b - (lease[t].skillBytes - Prompt[t])) + d
    BY <1>2, <1>5, <1>11, <1>12
  <2> QED
    BY <1>2, <1>3, <1>6, <1>9, <1>11, <1>12, <2>1 DEF Books
<1>14. Limits'
  BY <1>1, <1>4, <1>5, <1>12, ChatTurnAdmissionAssumption DEF Limits
<1>15. Shares'
  <2>1. HasRecord(t)
    BY DEF PrepareSkill, IsActive
  <2> QED
    BY <1>1, <1>6, <1>8, <2>1 DEF Shares, HasRecord, PrepareSkill
<1>16. PayloadStaysCharged'
  BY <1>1, <1>5, <1>8 DEF PayloadStaysCharged
<1> QED
  BY <1>7, <1>13, <1>14, <1>15, <1>16 DEF Balanced

\* A handoff moves the reservation from the lease to the generation.
LEMMA StartBalanced ==
    ASSUME Shape, Held, Balanced, NEW t \in Turns, StartGeneration(t)
    PROVE  Balanced'
<1> DEFINE c == TurnChat[t]
<1>1. Books /\ Limits /\ Shares /\ RestTyped /\ PayloadStaysCharged /\ OneRecord
  BY DEF Balanced, Held
<1>2. PICK p \in Nat, q \in Nat, b \in Nat, d \in Nat :
        /\ Book(SkillSize, Preparing, p, b) /\ Book(retained, Charged, q, d)
        /\ skillTurns = p + q /\ skillBytes = b + d
  BY <1>1 DEF Books
<1>3. /\ \A s \in Turns : SkillSize[s] \in Nat
      /\ \A s \in Charged : retained[s] \in Nat
      /\ Preparing \subseteq Turns
  BY <1>1, CountersAreNumbers DEF Preparing
<1>4. /\ c \in Chats /\ HasRecord(t) /\ lease[t].settled /\ ~lease[t].appendSlot
      /\ retained[t] = NoReservation /\ lease[t] \in Lease
      /\ lease[t].skillBytes \in Nat
  BY <1>1, ChatTurnAdmissionAssumption
  DEF StartGeneration, Owns, IsActive, Shares, Shape, Lease
<1>5. turns[c] = {t} /\ ~Running(t)
  BY <1>1, <1>4 DEF Held, OneRecord, RecordWhileRunning, HasRecord
<1>6. /\ \A e \in Chats : turns'[e] = IF e = c THEN {} ELSE turns[e]
      /\ \A s \in Turns : lease'[s] = IF s = t THEN NoLease ELSE lease[s]
      /\ \A s \in Turns \ {t} : generation'[s] = generation[s]
      /\ generation'[t] = "initializing"
      /\ frame' = frame
      /\ \A s \in Turns \ {t} : retained'[s] = retained[s]
      /\ retained'[t] = IF lease[t].skillSlot THEN lease[t].skillBytes
                                              ELSE NoReservation
      /\ retained' = [retained EXCEPT ![t] = retained'[t]]
      /\ UNCHANGED <<skillTurns, skillBytes, appendTurns, appendBytes>>
  BY <1>1 DEF StartGeneration, Shape, RestTyped
<1>7. \A s \in Turns : HasRecord(s)' <=> HasRecord(s) /\ s # t
  BY <1>1, <1>4, <1>5, <1>6, ChatTurnAdmissionAssumption
  DEF HasRecord, OneRecord, TurnsOf
<1>8. ~NoLease.settled /\ ~NoLease.appendSlot /\ ~NoLease.skillSlot
  BY DEF NoLease
<1>9. Book(AppendSize', Appending', appendTurns', appendBytes')
  <2>1. Appending' = Appending
    BY <1>4, <1>6, <1>8 DEF Appending
  <2> DEFINE e == AppendSize'
  <2>2. \A s \in Appending : AppendSize[s] \in Nat /\ AppendSize[s] = e[s]
    <3>1. \A s \in Appending : s \in Turns /\ s # t
      BY <1>4 DEF Appending
    <3>2. \A s \in Turns : AppendSize[s] \in Nat
      BY <1>1, CountersAreNumbers
    <3> QED
      BY <1>6, <3>1, <3>2 DEF AppendSize
  <2>3. Book(AppendSize, Appending, appendTurns, appendBytes)
    BY <1>1 DEF Books
  <2> HIDE DEF e
  <2>4. Book(e, Appending, appendTurns, appendBytes)
    BY <2>2, <2>3, BookSame
  <2> QED
    BY <1>6, <2>1, <2>4 DEF e
<1>10. \E x, y, v, w \in Nat :
          /\ Book(SkillSize', Preparing', x, v) /\ Book(retained', Charged', y, w)
          /\ skillTurns' = x + y /\ skillBytes' = v + w
  <2>1. CASE lease[t].skillSlot
    <3>1. /\ Preparing' = Preparing \ {t} /\ t \in Preparing
          /\ Charged' = Charged \cup {t} /\ t \notin Charged
      BY <1>4, <1>6, <1>8, <2>1 DEF Preparing, Charged, NoReservation
    <3> DEFINE e == SkillSize'
               h == retained'
    <3>2. /\ SkillSize[t] = lease[t].skillBytes
          /\ \A s \in Preparing : SkillSize[s] \in Nat
          /\ \A s \in Preparing \ {t} : e[s] = SkillSize[s]
      BY <1>3, <1>6 DEF SkillSize, Preparing
    <3>3. /\ h[t] = lease[t].skillBytes /\ h[t] \in Nat
          /\ \A s \in Charged : retained[s] \in Nat /\ h[s] = retained[s]
      BY <1>3, <1>4, <1>6, <2>1, <3>1 DEF Charged
    <3> HIDE DEF e, h
    <3>4. /\ Book(e, Preparing \ {t}, p - 1, b - SkillSize[t])
          /\ p - 1 \in Nat /\ b - SkillSize[t] \in Nat
      BY <1>2, <3>1, <3>2, BookGiven
    <3>5. Book(h, Charged \cup {t}, q + 1, d + h[t])
      BY <1>2, <3>1, <3>3, BookMore
    <3>6. /\ q + 1 \in Nat /\ d + h[t] \in Nat
          /\ skillTurns' = (p - 1) + (q + 1)
          /\ skillBytes' = (b - SkillSize[t]) + (d + h[t])
      BY <1>2, <1>4, <1>6, <3>2, <3>3
    <3>7. Book(SkillSize', Preparing', p - 1, b - SkillSize[t])
      BY <3>1, <3>4 DEF e
    <3>8. Book(retained', Charged', q + 1, d + h[t])
      BY <3>1, <3>5 DEF h
    <3> QED
      BY <3>4, <3>6, <3>7, <3>8
  <2>2. CASE ~lease[t].skillSlot
    <3>1. Preparing' = Preparing
      BY <1>6, <1>8, <2>2 DEF Preparing
    <3>2. Charged' = Charged
      BY <1>4, <1>6, <2>2 DEF Charged
    <3> DEFINE e == SkillSize'
               h == retained'
    <3>3. \A s \in Preparing : SkillSize[s] \in Nat /\ SkillSize[s] = e[s]
      BY <1>3, <1>6, <2>2 DEF SkillSize, Preparing
    <3>4. \A s \in Charged : retained[s] \in Nat /\ retained[s] = h[s]
      BY <1>3, <1>4, <1>6 DEF Charged
    <3> HIDE DEF e, h
    <3>5. Book(e, Preparing, p, b) /\ Book(h, Charged, q, d)
      BY <1>2, <3>3, <3>4, BookSame
    <3>6. Book(SkillSize', Preparing', p, b) /\ Book(retained', Charged', q, d)
      BY <3>1, <3>2, <3>5 DEF e, h
    <3> QED
      BY <1>2, <1>6, <3>6
  <2> QED
    BY <2>1, <2>2
<1>11. Books' /\ Limits'
  BY <1>1, <1>6, <1>9, <1>10 DEF Books, Limits
<1>12. Shares'
  BY <1>1, <1>6, <1>7, <1>8 DEF Shares
<1>13. PayloadStaysCharged'
  <2>1. \A s \in Turns \ Scheduled :
           frame'[s] \in {"loading", "appending", "writing"} =>
              s # t /\ frame'[s] = frame[s]
    BY <1>5, <1>6 DEF Running
  <2> QED
    BY <1>1, <1>6, <2>1 DEF PayloadStaysCharged
<1>14. RestTyped'
  <2>1. retained' \in [Turns -> Nat \cup {NoReservation}]
    BY <1>1, <1>4, <1>6 DEF RestTyped
  <2> QED
    BY <1>1, <2>1 DEF RestTyped, StartGeneration, ownerVars, gateVars
<1> QED
  BY <1>11, <1>12, <1>13, <1>14 DEF Balanced

\* A generation gives back what it retained, once.
LEMMA EndBalanced ==
    ASSUME Shape, Held, Balanced, NEW t \in Turns, EndGeneration(t)
    PROVE  Balanced'
<1>1. Books /\ Limits /\ Shares /\ RestTyped /\ PayloadStaysCharged
  BY DEF Balanced
<1>2. PICK p \in Nat, q \in Nat, b \in Nat, d \in Nat :
        /\ Book(SkillSize, Preparing, p, b) /\ Book(retained, Charged, q, d)
        /\ skillTurns = p + q /\ skillBytes = b + d
  BY <1>1 DEF Books
<1>3. /\ generation[t] # "none" /\ generation'[t] # "none"
      /\ \A s \in Turns \ {t} : generation'[s] = generation[s]
      /\ UNCHANGED <<turns, lease, frame, appendTurns, appendBytes>>
  BY DEF EndGeneration, Shape
<1>4. /\ retained' = [retained EXCEPT ![t] = NoReservation]
      /\ \A s \in Turns \ {t} : retained'[s] = retained[s]
      /\ retained'[t] = NoReservation
  BY <1>1 DEF EndGeneration, ReleaseReservation, RestTyped
<1>5. \A s \in Charged : retained[s] \in Nat
  BY <1>1, CountersAreNumbers
<1>6. Appending' = Appending /\ AppendSize' = AppendSize
  BY <1>3 DEF Appending, AppendSize
<1>7. Preparing' = Preparing /\ SkillSize' = SkillSize
  BY <1>3 DEF Preparing, SkillSize
<1>8. Books' /\ Limits'
  <2>1. CASE retained[t] = NoReservation
    <3>1. skillTurns' = skillTurns /\ skillBytes' = skillBytes
      BY <2>1 DEF EndGeneration, ReleaseReservation
    <3>2. retained' = retained
      BY <1>1, <1>4, <2>1 DEF RestTyped
    <3>3. Charged' = Charged
      BY <3>2 DEF Charged
    <3> QED
      BY <1>1, <1>3, <1>6, <1>7, <3>1, <3>2, <3>3 DEF Books, Limits
  <2>2. CASE retained[t] # NoReservation
    <3>1. skillTurns' = skillTurns - 1 /\ skillBytes' = skillBytes - retained[t]
      BY <2>2 DEF EndGeneration, ReleaseReservation
    <3>2. t \in Charged /\ Charged' = Charged \ {t} /\ retained[t] \in Nat
      BY <1>4, <1>5, <2>2 DEF Charged
    <3> DEFINE h == retained'
    <3>3. \A s \in Charged \ {t} : h[s] = retained[s]
      BY <1>4 DEF Charged
    <3> HIDE DEF h
    <3>4. /\ Book(h, Charged \ {t}, q - 1, d - retained[t])
          /\ q - 1 \in Nat /\ d - retained[t] \in Nat
      BY <1>2, <1>5, <3>2, <3>3, BookGiven
    <3>5. /\ Book(retained', Charged', q - 1, d - retained[t])
          /\ q - 1 \in Nat /\ d - retained[t] \in Nat
      BY <3>2, <3>4 DEF h
    <3>6. /\ skillTurns' = p + (q - 1) /\ skillBytes' = b + (d - retained[t])
          /\ skillTurns' <= skillTurns /\ skillBytes' <= skillBytes
          /\ skillTurns' \in Nat /\ skillBytes' \in Nat
      BY <1>2, <3>1, <3>2, <3>5
    <3>7. Books'
      BY <1>1, <1>2, <1>3, <1>6, <1>7, <3>5, <3>6 DEF Books
    <3>8. Limits'
      BY <1>1, <1>2, <1>3, <3>6, ChatTurnAdmissionAssumption DEF Limits
    <3> QED
      BY <3>7, <3>8
  <2> QED
    BY <2>1, <2>2
<1>9. Shares'
  BY <1>1, <1>3, <1>4 DEF Shares, HasRecord
<1>10. PayloadStaysCharged'
  BY <1>1, <1>3 DEF PayloadStaysCharged
<1>11. RestTyped'
  <2>1. retained' \in [Turns -> Nat \cup {NoReservation}]
    BY <1>1, <1>4 DEF RestTyped
  <2> QED
    BY <1>1, <2>1 DEF RestTyped, EndGeneration, ownerVars, gateVars
<1> QED
  BY <1>8, <1>9, <1>10, <1>11 DEF Balanced

\* What an append does.
LEMMA FrameBalanced ==
    ASSUME Shape, Held, Balanced, NEW t \in Turns, FrameStep(t)
    PROVE  Balanced'
<1>1. ASSUME NEW release \in BOOLEAN, Close({t}, release, TRUE),
             frame' = [frame EXCEPT ![t] = "over"],
             generation' = generation, retained' = retained, RestTyped'
      PROVE  Balanced'
  <2> DEFINE leases == {t}
             settle == TRUE
  <2>1. /\ leases \in SUBSET Turns /\ settle \in BOOLEAN
        /\ Close(leases, release, settle)
    BY <1>1
  <2>2. /\ \A s \in Turns : frame'[s] = frame[s] \/ frame'[s] = "over"
        /\ settle => \A s \in leases : frame'[s] = "over"
    BY <1>1 DEF Shape
  <2> HIDE DEF leases, settle
  <2> QED
    BY <1>1, <2>1, <2>2, CloseBalanced
<1>2. RestTyped
  BY DEF Balanced
<1>3. CASE WriteMessage(t)
  <2>1. RestTyped'
    BY <1>2, <1>3 DEF RestTyped, WriteMessage, ownerVars, gateVars
  <2>2. Books /\ Limits /\ Shares /\ PayloadStaysCharged
    BY DEF Balanced
  <2>3. Books' /\ Limits'
    BY <1>2, <1>3, <2>2, BooksStand DEF WriteMessage, admissionVars
  <2>4. Shares'
    BY <1>3, <2>2 DEF Shares, HasRecord, WriteMessage, admissionVars
  <2>5. PayloadStaysCharged'
    <3>1. \A s \in Turns :
             frame'[s] = frame[s] \/ frame[s] \in {"loading", "appending", "writing"}
      BY <1>3 DEF WriteMessage, Shape
    <3> QED
      BY <1>3, <2>2, <3>1 DEF PayloadStaysCharged, WriteMessage, admissionVars
  <2> QED
    BY <2>1, <2>3, <2>4, <2>5 DEF Balanced
<1>4. CASE RefuseReservation(t)
  <2>1. RestTyped'
    BY <1>2, <1>4 DEF RestTyped, RefuseReservation, ownerVars, gateVars
  <2> QED
    BY <1>1, <1>4, <2>1 DEF RefuseReservation
<1>5. CASE AppendSucceeds(t)
  <2>1. RestTyped'
    BY <1>2, <1>5 DEF RestTyped, AppendSucceeds, gateVars
  <2>2. (t \in WriteOnly) \in BOOLEAN
    OBVIOUS
  <2> QED
    BY <1>1, <1>5, <2>1, <2>2 DEF AppendSucceeds
<1>6. CASE AppendFails(t)
  <2>1. TurnOwner[t] \in Owners
    BY ChatTurnAdmissionAssumption
  <2>2. required' \subseteq Owners /\ committed' \subseteq Turns
    BY <1>2, <1>6, <2>1 DEF RestTyped, AppendFails, Marked
  <2>3. RestTyped'
    BY <1>2, <1>6, <2>2 DEF RestTyped, AppendFails, gateVars
  <2> QED
    BY <1>1, <1>6, <2>3 DEF AppendFails
<1> QED
  BY <1>3, <1>4, <1>5, <1>6, ReserveBalanced, PrepareBalanced DEF FrameStep

\* Leases lose their authority, and no append settles.
LEMMA RevokeBalanced ==
    ASSUME Shape, Held, Balanced, NEW leases \in SUBSET Turns,
           Close(leases, TRUE, FALSE), UNCHANGED <<frame, generation, retained>>,
           RestTyped'
    PROVE  Balanced'
<1> DEFINE release == TRUE
           settle == FALSE
<1>1. /\ release \in BOOLEAN /\ settle \in BOOLEAN
      /\ Close(leases, release, settle)
      /\ settle => \A t \in leases : frame'[t] = "over"
      /\ \A t \in Turns : frame'[t] = frame[t] \/ frame'[t] = "over"
  OBVIOUS
<1> HIDE DEF release, settle
<1> QED
  BY <1>1, CloseBalanced

\* Every step keeps the accounts.
LEMMA StepBalanced ==
    ASSUME Inv, Balanced, [Next]_vars
    PROVE  Balanced'
<1>1. Shape /\ Held /\ RestTyped
  BY DEF Inv, Balanced
<1>2. ASSUME NEW t \in Turns, BeginTurn(t)
      PROVE  Balanced'
  BY <1>1, <1>2, BeginBalanced
<1>3. ASSUME NEW t \in Turns, RevokeTurn(t)
      PROVE  Balanced'
  <2>1. RestTyped' /\ {t} \in SUBSET Turns
    BY <1>1, <1>3 DEF RestTyped, RevokeTurn, ownerVars, gateVars
  <2> QED
    BY <1>1, <1>3, <2>1, RevokeBalanced DEF RevokeTurn
<1>4. ASSUME NEW t \in Turns, FrameStep(t)
      PROVE  Balanced'
  BY <1>1, <1>4, FrameBalanced
<1>5. ASSUME NEW t \in Turns, GenerationStep(t)
      PROVE  Balanced'
  <2>1. CASE ActivateGeneration(t) \/ ChildrenEnd(t)
    <3>1. RestTyped'
      BY <1>1, <2>1 DEF RestTyped, ActivateGeneration, ChildrenEnd, ownerVars, gateVars
    <3>2. \A s \in Turns : generation'[s] = "none" => generation[s] = "none"
      BY <1>1, <2>1 DEF ActivateGeneration, ChildrenEnd, Shape
    <3> QED
      BY <1>1, <2>1, <3>1, <3>2, SharesStand
      DEF ActivateGeneration, ChildrenEnd, admissionVars
  <2> QED
    BY <1>1, <1>5, <2>1, StartBalanced, EndBalanced DEF GenerationStep
<1>6. ASSUME NEW o \in Owners, InvalidateOwner(o)
      PROVE  Balanced'
  <2>1. RestTyped' /\ TurnsBy(o) \in SUBSET Turns
    BY <1>1, <1>6 DEF RestTyped, InvalidateOwner, TurnsBy, gateVars
  <2> QED
    BY <1>1, <1>6, <2>1, RevokeBalanced DEF InvalidateOwner
<1>7. ASSUME NEW o \in Owners, RequireReconciliation(o)
      PROVE  Balanced'
  <2>1. required' \subseteq Owners
    BY <1>1, <1>7 DEF RestTyped, RequireReconciliation, Marked
  <2>2. RestTyped'
    BY <1>1, <1>7, <2>1 DEF RestTyped, RequireReconciliation, gateVars
  <2> QED
    BY <1>1, <1>7, <2>2, SharesStand DEF RequireReconciliation, admissionVars
<1>8. ASSUME NEW c \in Chats, GateStep(c)
      PROVE  Balanced'
  <2>1. CASE BeginDeletion(c)
    <3>1. RestTyped' /\ turns[c] \in SUBSET Turns
      BY <1>1, <2>1 DEF RestTyped, BeginDeletion, ownerVars, Shape
    <3> QED
      BY <1>1, <2>1, <3>1, RevokeBalanced DEF BeginDeletion
  <2>2. CASE \/ StopChat(c) \/ StopTimesOut(c) \/ EraseChat(c)
             \/ \E k \in Changes : BeginChange(c, k) \/ EndChange(c, k)
    <3>1. UNCHANGED <<admissionVars, ownerVars, frame, generation, retained, committed>>
      BY <2>2 DEF StopChat, StopTimesOut, EraseChat, BeginChange, EndChange
    <3>2. removed' \subseteq Chats
      BY <1>1, <2>2
      DEF StopChat, StopTimesOut, EraseChat, BeginChange, EndChange, RestTyped
    <3>3. RestTyped'
      BY <1>1, <3>1, <3>2 DEF RestTyped, ownerVars
    <3> QED
      BY <1>1, <3>1, <3>3, SharesStand DEF admissionVars
  <2> QED
    BY <1>8, <2>1, <2>2 DEF GateStep
<1>9. CASE ReleaseAll
  <2>1. RestTyped' /\ Turns \in SUBSET Turns
    BY <1>1, <1>9 DEF RestTyped, ReleaseAll, ownerVars, gateVars
  <2> QED
    BY <1>1, <1>9, <2>1, RevokeBalanced DEF ReleaseAll
<1>10. CASE UNCHANGED vars
  <2>1. RestTyped'
    BY <1>1, <1>10 DEF RestTyped, vars, ownerVars, gateVars
  <2> QED
    BY <1>1, <1>10, <2>1, SharesStand DEF vars, admissionVars
<1> QED
  BY <1>2, <1>3, <1>4, <1>5, <1>6, <1>7, <1>8, <1>9, <1>10 DEF Next

\* Nobody holds a share at first.
LEMMA InitBalanced == Init => Balanced
<1> SUFFICES ASSUME Init PROVE Balanced
  OBVIOUS
<1>1. ~NoLease.appendSlot /\ ~NoLease.skillSlot /\ ~NoLease.settled
  BY DEF NoLease
<1>2. \A t \in Turns : lease[t] = NoLease /\ retained[t] = NoReservation
  BY DEF Init
<1>3. Appending = {} /\ Preparing = {} /\ Charged = {}
  BY <1>1, <1>2 DEF Appending, Preparing, Charged
<1>4. /\ Book(AppendSize, {}, 0, 0) /\ Book(SkillSize, {}, 0, 0)
      /\ Book(retained, {}, 0, 0)
  BY BookEmpty
<1>5. Books
  BY <1>3, <1>4 DEF Books, Init
<1>6. Limits
  BY ChatTurnAdmissionAssumption DEF Limits, Init
<1>7. Shares
  BY <1>1, <1>2 DEF Shares
<1>8. RestTyped
  BY DEF RestTyped, Init
<1>9. PayloadStaysCharged
  BY DEF PayloadStaysCharged, Init
<1> QED
  BY <1>5, <1>6, <1>7, <1>8, <1>9 DEF Balanced

\* The accounts are kept always.
LEMMA BalanceInvariance == Spec => [](Inv /\ Balanced)
<1>1. Inv /\ Balanced /\ [Next]_vars => (Inv /\ Balanced)'
  BY StepBalanced, InductiveInv
<1>2. Init => Inv /\ Balanced
  BY InitInv, InitBalanced
<1> QED
  BY <1>1, <1>2, PTL DEF Spec

\* Every variable keeps its type: no counter of the admission ever goes below
\* zero, and no lease, gate or generation leaves its states.
THEOREM TypeCorrect == Spec => []TypeOK
<1>1. Inv /\ Balanced => TypeOK
  <2> SUFFICES ASSUME Inv, Balanced PROVE TypeOK
    OBVIOUS
  <2>1. Shape /\ Books /\ RestTyped
    BY DEF Inv, Balanced
  <2>2. /\ appendTurns \in Nat /\ appendBytes \in Nat
        /\ skillTurns \in Nat /\ skillBytes \in Nat
    BY <2>1, CountersAreNumbers
  <2> QED
    BY <2>1, <2>2 DEF TypeOK, Shape, RestTyped
<1> QED
  BY <1>1, BalanceInvariance, PTL

\* The payload and skill budgets are exact through every release, expiry,
\* handoff and failure, and stay within their limits; a renderer's message
\* under way stays paid for (chat-turn-admission.ts reserveAppend, reserveSkill,
\* prepareSkill, finalize; llm-client.ts releaseGenerationSkillReservation).
THEOREM Accounts_balance == Spec => []AccountsBalance
<1>1. ASSUME Inv, Balanced PROVE AccountsBalance
  <2>1. Shape /\ Books /\ Limits /\ RestTyped /\ PayloadStaysCharged
    BY <1>1 DEF Inv, Balanced
  <2>2. PICK p \in Nat, q \in Nat, b \in Nat, d \in Nat :
          /\ Book(SkillSize, Preparing, p, b) /\ Book(retained, Charged, q, d)
          /\ skillTurns = p + q /\ skillBytes = b + d
    BY <2>1 DEF Books
  <2>3. Book(AppendSize, Appending, appendTurns, appendBytes)
    BY <2>1 DEF Books
  <2>4. /\ IsFiniteSet(Appending) /\ IsFiniteSet(Preparing) /\ IsFiniteSet(Charged)
        /\ Appending \in SUBSET Turns /\ Preparing \in SUBSET Turns
        /\ Charged \in SUBSET Turns
        /\ appendTurns = Cardinality(Appending) /\ p = Cardinality(Preparing)
        /\ q = Cardinality(Charged)
        /\ IsTotal(AppendSize, Appending, appendBytes)
        /\ IsTotal(SkillSize, Preparing, b) /\ IsTotal(retained, Charged, d)
    BY <2>2, <2>3 DEF Book, Appending, Preparing, Charged
  <2>5. /\ lease \in [Turns -> Lease] /\ \A t \in Charged : retained[t] \in Nat
    BY <2>1, CountersAreNumbers DEF Shape
  <2>6. appendBytes = MapThenSumSet(LAMBDA t : lease[t].appendBytes, Appending)
    <3>1. IsTotal(AppendSize, Appending,
                  MapThenSumSet(LAMBDA t : lease[t].appendBytes, Appending))
      BY <2>4, <2>5, AppendTotal
    <3>2. \A t \in Appending : AppendSize[t] = AppendSize[t]
      OBVIOUS
    <3> QED
      BY <2>4, <3>1, <3>2, TotalSame
  <2>7. b = MapThenSumSet(LAMBDA t : lease[t].skillBytes, Preparing)
    <3>1. IsTotal(SkillSize, Preparing,
                  MapThenSumSet(LAMBDA t : lease[t].skillBytes, Preparing))
      BY <2>4, <2>5, SkillTotal
    <3>2. \A t \in Preparing : SkillSize[t] = SkillSize[t]
      OBVIOUS
    <3> QED
      BY <2>4, <3>1, <3>2, TotalSame
  <2>8. d = MapThenSumSet(LAMBDA t : retained[t], Charged)
    <3>1. IsTotal(retained, Charged, MapThenSumSet(LAMBDA t : retained[t], Charged))
      BY <2>4, <2>5, RetainedTotal
    <3>2. \A t \in Charged : retained[t] = retained[t]
      OBVIOUS
    <3> QED
      BY <2>4, <3>1, <3>2, TotalSame
  <2> QED
    BY <2>1, <2>2, <2>4, <2>6, <2>7, <2>8
    DEF AccountsBalance, Limits, Appending, Preparing, Charged
<1> QED
  BY <1>1, BalanceInvariance, PTL

----------------------------------------------------------------------------
(* Admission implements ChatOwnership.                                     *)

\* The initial states agree.
LEMMA OwnershipInit == Init => Ownership!Init
<1> SUFFICES ASSUME Init PROVE Ownership!Init
  OBVIOUS
<1>1. \A t \in Turns : ~Writer(t) /\ frame[t] = "idle"
  BY ChatTurnAdmissionAssumption DEF Init, Writer, HasRecord, Generating
<1> QED
  BY <1>1 DEF Ownership!Init, TurnsOf

\* A claim takes the chat; any other step keeps chats or lets them go.
LEMMA OwnershipStep ==
    ASSUME Inv, [Next]_vars
    PROVE  [Ownership!Next]_(Ownership!vars)
<1> DEFINE holder == [c \in Chats |-> {t \in TurnsOf(c) : Writer(t)}]
           spent == {t \in Turns : frame[t] # "idle"}
<1>1. Shape /\ Held /\ OneWriter
  BY HeldOneWriter DEF Inv
<1>2. ASSUME NEW t \in Turns, BeginTurn(t)
      PROVE  Ownership!Take(t)
  <2>1. /\ \A s \in Turns : Writer(s)' <=> s = t \/ Writer(s)
        /\ \A s \in TurnsOf(TurnChat[t]) : ~Writer(s)
        /\ \A s \in Turns : frame'[s] = "idle" <=> s # t /\ frame[s] = "idle"
    BY <1>1, <1>2, Beginning
  <2>2. t \notin spent /\ TurnChat[t] \in Chats
    BY <1>2, ChatTurnAdmissionAssumption DEF BeginTurn
  <2>3. holder[TurnChat[t]] = {}
    BY <2>1, <2>2
  <2>4. holder' = [holder EXCEPT ![TurnChat[t]] = {t}]
    BY <2>1, <2>2 DEF TurnsOf
  <2>5. spent' = spent \cup {t}
    BY <2>1
  <2> QED
    BY <2>2, <2>3, <2>4, <2>5 DEF Ownership!Take
<1>3. CASE NoNewWriter
  <2>1. spent' = spent
    BY <1>3 DEF NoNewWriter
  <2>2. \A c \in Chats : holder'[c] # holder[c] => holder'[c] = {}
    BY <1>1, <1>3 DEF NoNewWriter, OneWriter, TurnsOf
  <2>3. CASE holder' = holder
    BY <2>1, <2>3 DEF Ownership!vars
  <2>4. CASE holder' # holder
    <3> DEFINE gone == {c \in Chats : holder'[c] # holder[c]}
    <3>1. holder' = [c \in Chats |-> IF c \in gone THEN {} ELSE holder[c]]
      BY <2>2
    <3>2. gone \in (SUBSET Chats) \ {{}}
      BY <2>4
    <3> QED
      BY <2>1, <3>1, <3>2 DEF Ownership!Next, Ownership!LetGo
  <2> QED
    BY <2>3, <2>4
<1> QED
  BY <1>1, <1>2, <1>3, StepHeld DEF Ownership!Next

\* The handoff from append to generation leaves no gap: a chat belongs to one
\* turn from its claim to the end of the response, and a turn that let its
\* chat go never comes back (chat-turn-admission.ts handoff, owns, release).
THEOREM ImplementsOwnership == Spec => OneHolder
<1>1. Inv /\ [Next]_vars => [Ownership!Next]_(Ownership!vars)
  BY OwnershipStep
<1> QED
  BY <1>1, OwnershipInit, Invariance, PTL
  DEF Spec, OneHolder, Ownership!Spec
=============================================================================
