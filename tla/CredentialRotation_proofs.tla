---------------------- MODULE CredentialRotation_proofs ----------------------
(***************************************************************************)
(* That the rotation keeps its types, binds a key in the turn of its own   *)
(* request only and to the endpoint it came with, and keeps what its last  *)
(* commit left, for any endpoints, requests and troubles.                  *)
(*                                                                         *)
(* The second is a property of steps.  It needs of the states that a save  *)
(* with a key has the target its key came with, and that a key entered     *)
(* alone came with none.                                                   *)
(***************************************************************************)
EXTENDS CredentialRotation, TLAPS

\* The key of a save came with its target, and a key entered alone, or not
\* yet, with none.
AskInv ==
    \A q \in Request :
        /\ request[q].kind = "save" /\ request[q].withKey =>
               given[q] = request[q].target
        /\ request[q].kind = "set" \/ request[q].at = "new" =>
               given[q] = None

\* A request that has the turn, unless it was answered meanwhile.
Turning(r) == r.at = "turn" \/ r = Over
Publishing == {"erase", "publish"}
TurnInv ==
    /\ turn.who \in Request => Turning(request[turn.who])
    /\ turn.who = None => turn.pc = "none"
    /\ turn.pc \in Publishing => turn.who \in Request

IInv == TypeOK /\ AskInv /\ TurnInv

\* A request once made is not made again.
Forward ==
    \A q \in Request :
        \/ request'[q] = request[q]
        \/ request'[q] = Over
        \/ \E at \in {"queued", "turn", "after"} :
               request'[q] = [request[q] EXCEPT !.at = at]

Requests == [at : {"new", "before", "queued", "turn", "after", "over"},
             kind : Kinds \cup {"none"}, target : Provider, withKey : BOOLEAN]
Syncs == [by : Request \cup {"watcher", None}, before : Provider,
          target : Provider, pass : 0 .. MaxPasses,
          at : {"idle", "due", "turn", "check"}]
Turns == [who : Request \cup {"sync", "startup", None},
          pc : Steps \cup {"none"}]

----------------------------------------------------------------------------
(* Lemmas.                                                                 *)

\* A finished request is a request.
LEMMA OverType == Over \in Requests /\ NoAsk \in Requests
BY DEF Over, NoAsk, Requests, Provider, Kinds

\* Answering requests keeps their types.
LEMMA AnsweredType ==
    ASSUME TypeOK, NEW Q
    PROVE  /\ Answered(Q) \in [Request -> Requests]
           /\ \A q \in Request : Answered(Q)[q] \in {request[q], Over}
<1>1. request \in [Request -> Requests]
  BY DEF TypeOK, Requests
<1>2. \A q \in Request : Answered(Q)[q] \in {request[q], Over}
  BY DEF Answered
<1>3. QED BY <1>1, <1>2, OverType DEF Answered

\* The end of a turn, its next step and its failure keep the types of the
\* queues, and move requests forward only.
LEMMA TurnGoesOn ==
    ASSUME TypeOK, TurnInv, turn.pc # "none",
           NEW pc \in Steps \cup {"end"}, Continue(pc) \/ Throw,
           pc \in Publishing => turn.who \in Request
    PROVE  /\ request' \in [Request -> Requests]
           /\ sync' \in Syncs /\ turn' \in Turns
           /\ Forward /\ TurnInv'
<1> USE DEF Requests, Syncs, Turns
<1>1. turn \in Turns /\ sync \in Syncs /\ request \in [Request -> Requests]
  BY DEF TypeOK
<1>2. NoTurn \in Turns /\ NoSync \in Syncs
  BY CredentialRotationAssumption DEF NoTurn, NoSync, Provider
<1>3. CASE End
  <2>1. turn' = NoTurn
    BY <1>3 DEF End, Released
  <2>2. sync' \in Syncs
    BY <1>1, <1>3 DEF End
  <2>3. request' \in [Request -> Requests] /\ Forward
    <3>1. CASE turn.who \in Request /\ Mutating(turn.who)
      <4>1. request' = [request EXCEPT ![turn.who].at = "after"]
        BY <1>3, <3>1 DEF End
      <4>2. QED BY <1>1, <3>1, <4>1 DEF Forward
    <3>2. CASE ~(turn.who \in Request /\ Mutating(turn.who))
      <4>1. request' = Answered({turn.who})
        BY <1>3, <3>2 DEF End
      <4>2. QED BY <4>1, AnsweredType DEF Forward
    <3>3. QED BY <3>1, <3>2
  <2>4. TurnInv'
    BY <2>1, CredentialRotationAssumption DEF TurnInv, NoTurn, Publishing
  <2>5. QED BY <1>2, <2>1, <2>2, <2>3, <2>4
<1>4. CASE pc # "end" /\ Continue(pc)
  <2>1. turn' = [turn EXCEPT !.pc = pc] /\ UNCHANGED <<request, sync>>
    BY <1>4 DEF Continue
  <2>2. turn' \in Turns /\ turn'.who = turn.who /\ turn.who # None
    BY <1>1, <1>4, <2>1 DEF TurnInv
  <2>3. QED BY <1>1, <1>4, <2>1, <2>2 DEF Forward, TurnInv, Steps
<1>5. CASE Throw
  <2>1. turn' = NoTurn
    BY <1>5 DEF Throw
  <2>2. sync' \in Syncs
    BY <1>1, <1>2, <1>5 DEF Throw
  <2>3. request' \in [Request -> Requests] /\ Forward
    BY <1>5, AnsweredType DEF Throw, Forward
  <2>4. TurnInv'
    BY <2>1, CredentialRotationAssumption DEF TurnInv, NoTurn, Publishing
  <2>5. QED BY <1>2, <2>1, <2>2, <2>3, <2>4
<1>6. QED BY <1>3, <1>4, <1>5 DEF Continue

\* A request that goes on keeps its key and what came with it.
LEMMA AskStays ==
    ASSUME IInv, Forward, UNCHANGED given
    PROVE  AskInv'
<1> SUFFICES ASSUME NEW q \in Request
             PROVE  /\ request'[q].kind = "save" /\ request'[q].withKey =>
                           given[q] = request'[q].target
                    /\ request'[q].kind = "set" \/ request'[q].at = "new" =>
                           given[q] = None
  BY DEF AskInv
<1>1. request[q] \in Requests
  BY DEF IInv, TypeOK, Requests
<1>2. CASE request'[q] = request[q]
  BY <1>2 DEF IInv, AskInv
<1>3. CASE request'[q] = Over
  BY <1>3 DEF Over, NoAsk
<1>4. ASSUME NEW at \in {"queued", "turn", "after"},
             request'[q] = [request[q] EXCEPT !.at = at]
      PROVE  /\ request'[q].kind = "save" /\ request'[q].withKey =>
                    given[q] = request'[q].target
             /\ request'[q].kind = "set" \/ request'[q].at = "new" =>
                    given[q] = None
  BY <1>1, <1>4 DEF IInv, AskInv, Requests
<1>5. QED BY <1>2, <1>3, <1>4 DEF Forward

\* A turn step that commits nothing keeps the types of the history.
LEMMA NoCommitTypes ==
    ASSUME TypeOK, NoCommit
    PROVE  promise' \in [endpoint : Provider, key : Key \cup {None}]
           /\ unsure' \subseteq Doubts
BY DEF TypeOK, NoCommit, Doubts

\* A turn step that writes a map preserves the invariant, whether its write
\* works, is lost or throws after it.
LEMMA WriteKeeps ==
    ASSUME IInv, turn.pc # "none", NEW next, next \in Vault,
           NEW pc \in Steps \cup {"end"},
           pc \in Publishing => turn.who \in Request,
           Write(next, pc),
           promise' \in [endpoint : Provider, key : Key \cup {None}],
           unsure' \subseteq Doubts,
           file' \in Document, cache' \in Document, UNCHANGED <<base, given>>
    PROVE  IInv'
<1>1. Continue(pc) \/ Throw
  BY DEF Write
<1>2. /\ request' \in [Request -> Requests]
      /\ sync' \in Syncs /\ turn' \in Turns
      /\ Forward /\ TurnInv'
  BY <1>1, TurnGoesOn DEF IInv
<1>3. vault' \in {vault, next} /\ troubles' \in 0 .. MaxTroubles
  BY CredentialRotationAssumption DEF Write, Trouble, IInv, TypeOK
<1>4. vault' \in Vault
  BY <1>3 DEF IInv, TypeOK
<1>5. AskInv'
  BY <1>2, AskStays
<1>6. TypeOK'
  BY <1>2, <1>3, <1>4 DEF IInv, TypeOK, Requests, Syncs, Turns
<1>7. QED BY <1>2, <1>5, <1>6 DEF IInv

\* A turn that goes on or throws without a write preserves the invariant.
LEMMA NoWriteKeeps ==
    ASSUME IInv, turn.pc # "none", NEW pc \in Steps \cup {"end"},
           pc \in Publishing => turn.who \in Request,
           Continue(pc) \/ Throw,
           troubles' \in 0 .. MaxTroubles,
           promise' \in [endpoint : Provider, key : Key \cup {None}],
           unsure' \subseteq Doubts,
           file' \in Document, cache' \in Document,
           UNCHANGED <<vault, base, given>>
    PROVE  IInv'
<1>1. /\ request' \in [Request -> Requests]
      /\ sync' \in Syncs /\ turn' \in Turns
      /\ Forward /\ TurnInv'
  BY TurnGoesOn DEF IInv
<1>2. AskInv'
  BY <1>1, AskStays
<1>3. TypeOK'
  BY <1>1 DEF IInv, TypeOK, Requests, Syncs, Turns
<1>4. QED BY <1>1, <1>2, <1>3 DEF IInv

\* Moving pairs between the slots keeps a map, and makes no pair.
LEMMA ReconciledType ==
    ASSUME NEW v \in Vault, NEW e \in Provider
    PROVE  /\ Reconciled(v, e) \in Vault
           /\ Pairs(Reconciled(v, e)) \subseteq Pairs(v) \cup {None}
<1> USE DEF Vault, Pairs
<1>1. CASE Fits(v.active, e)
  BY <1>1 DEF Reconciled
<1>2. CASE ~Fits(v.active, e) /\ Fits(v.aside, e)
  BY <1>2 DEF Reconciled
<1>3. CASE ~Fits(v.active, e) /\ ~Fits(v.aside, e)
  BY <1>3, None \in Pair DEF Reconciled, Pair
<1>4. QED BY <1>1, <1>2, <1>3

\* What a journal decides is a pair of its own, or none.
LEMMA StagedType ==
    ASSUME NEW v \in Vault, NEW e \in Provider, v.journal # None
    PROVE  /\ Staged(v, e) \in Vault
           /\ Pairs(Staged(v, e)) \subseteq Pairs(v) \cup {None}
<1> DEFINE k == Decided(v.journal, e)
<1>1. /\ k \in Key \cup {None}
      /\ k # None =>
             /\ e \in Endpoint
             /\ \/ k = v.journal.previousKey /\ e = v.journal.previous
                \/ k = v.journal.targetKey /\ e = v.journal.target
  BY CredentialRotationAssumption
     DEF Decided, Vault, Journal, Provider, Key
<1>2. Staged(v, e) = [v EXCEPT !.active = Binding(k, e)]
  BY DEF Staged
<1>3. Binding(k, e) \in Pair
  BY <1>1 DEF Binding, Pair
<1>4. Staged(v, e) \in Vault
  BY <1>2, <1>3 DEF Vault
<1>5. /\ Staged(v, e).active = Binding(k, e)
      /\ Staged(v, e).aside = v.aside /\ Staged(v, e).journal = v.journal
  BY <1>2 DEF Vault
<1>6. Binding(k, e) \in Pairs(v) \cup {None}
  <2>1. CASE k = None
    BY <2>1 DEF Binding
  <2>2. CASE k # None
    BY <1>1, <2>2 DEF Pairs
  <2>3. QED BY <2>1, <2>2
<1>7. Pairs(Staged(v, e)) \subseteq Pairs(v) \cup {None}
  BY <1>5, <1>6 DEF Pairs
<1>8. QED BY <1>4, <1>7

\* Who has the turn of a request.
LEMMA TurnOfRequest ==
    ASSUME IInv, turn.pc # "none", Kind \in Kinds
    PROVE  turn.who \in Request /\ request[turn.who] \in Requests
           /\ request[turn.who].at = "turn" /\ Kind = request[turn.who].kind
<1>1. turn.who \in Request \cup {"sync", "startup"}
  BY DEF IInv, TypeOK, TurnInv
<1>2. turn.who \in Request
  BY <1>1 DEF Kind, Kinds
<1>3. QED BY <1>2
          DEF IInv, TypeOK, TurnInv, Turning, Over, NoAsk, Kind, Kinds,
              Requests

\* Types of what the steps read.
LEMMA ReadTypes ==
    ASSUME TypeOK
    PROVE  /\ Held(cache) \in Provider /\ Held(file) \in Provider
           /\ \A e \in Provider : KeyFor(e) \in Key \cup {None}
           /\ \A e \in Provider : Effective(e) \in Key \cup {None}
<1> USE DEF TypeOK, Vault
<1>1. Held(cache) \in Provider /\ Held(file) \in Provider
  BY DEF Held, Document, Provider
<1>2. \A e \in Provider : KeyFor(e) \in Key \cup {None}
  BY DEF KeyFor, Fits, Pair
<1>3. vault.journal # None =>
          \A e \in Provider : Decided(vault.journal, e) \in Key \cup {None}
  BY DEF Decided, Journal
<1>4. \A e \in Provider : Effective(e) \in Key \cup {None}
  BY <1>2, <1>3 DEF Effective, Fits, Pair
<1>5. QED BY <1>1, <1>2, <1>4

\* The key a save is expected to leave is a key, or none.
LEMMA ExpectedType ==
    ASSUME TypeOK, NEW q \in Request
    PROVE  Expected(q) \in Key \cup {None}
<1>1. request[q] \in Requests /\ promise.key \in Key \cup {None} /\ q \in Key
  BY DEF TypeOK, Requests, Key
<1>2. Effective(request[q].target) \in Key \cup {None}
  BY <1>1, ReadTypes DEF Requests
<1>3. QED BY <1>1, <1>2 DEF Expected, Requests

----------------------------------------------------------------------------
(* The steps.                                                              *)

\* Recovery, with or without a journal, preserves the invariant.
LEMMA RecoverKeeps ==
    ASSUME IInv, NEW first \in Steps,
           NEW afterClear \in Steps \ Publishing,
           NEW next \in (Steps \cup {"end"}) \ Publishing,
           Recover(first, afterClear, next)
    PROVE  IInv'
<1>1. turn.pc # "none" /\ TypeOK /\ vault \in Vault
  BY DEF Recover, Steps, IInv, TypeOK
<1>2. /\ promise' \in [endpoint : Provider, key : Key \cup {None}]
      /\ unsure' \subseteq Doubts
      /\ file' \in Document /\ UNCHANGED <<base, given>>
  BY <1>1, NoCommitTypes DEF Recover, TypeOK
<1>3. CASE vault.journal = None
  <2> DEFINE kept == IF turn.who = "sync" \/ Held(cache) = None THEN vault
                     ELSE Reconciled(vault, Held(cache))
  <2>1. Write(kept, next) /\ cache' \in Document
    BY <1>1, <1>3 DEF Recover, TypeOK
  <2>2. kept \in Vault
    BY <1>1, ReadTypes, ReconciledType
  <2>3. QED
    <3> HIDE DEF kept
    <3> QED BY <1>1, <1>2, <2>1, <2>2, WriteKeeps
<1>4. CASE vault.journal # None /\ Authority = Corrupt
  <2>1. Throw /\ cache' \in Document /\ UNCHANGED <<vault, troubles>>
    BY <1>1, <1>4 DEF Recover, Authority, TypeOK
  <2>2. QED BY <1>1, <1>2, <2>1, NoWriteKeeps DEF TypeOK
<1>5. CASE vault.journal # None /\ Authority # Corrupt
  <2>1. Write(Staged(vault, Authority), afterClear) /\ cache' \in Document
    BY <1>1, <1>5 DEF Recover, Authority, TypeOK
  <2>2. Authority \in Provider
    BY <1>1, <1>5 DEF Authority, TypeOK, Document, Provider
  <2>3. Staged(vault, Authority) \in Vault
    BY <1>1, <1>5, <2>2, StagedType
  <2>4. QED BY <1>1, <1>2, <2>1, <2>3, WriteKeeps
<1>6. QED BY <1>3, <1>4, <1>5

\* Dropping the journal preserves it.
LEMMA ClearKeeps == ASSUME IInv, Clear PROVE IInv'
<1> DEFINE next == [vault EXCEPT !.journal = None]
           pc == IF turn.pc = "clear" THEN AfterRecovery ELSE "end"
<1>1. /\ turn.pc # "none" /\ Write(next, pc)
      /\ pc \in Steps \cup {"end"} /\ pc \notin Publishing
  BY DEF Clear, AfterRecovery, Steps, Publishing
<1>2. /\ promise' \in [endpoint : Provider, key : Key \cup {None}]
      /\ unsure' \subseteq Doubts
      /\ file' \in Document /\ cache' \in Document /\ UNCHANGED <<base, given>>
  BY NoCommitTypes DEF Clear, IInv, TypeOK
<1>3. next \in Vault
  BY DEF IInv, TypeOK, Vault, Journal
<1>4. QED
  <2> HIDE DEF next, pc
  <2> QED BY <1>1, <1>2, <1>3, WriteKeeps

\* So does dropping the key in use.
LEMMA EraseKeeps == ASSUME IInv, Erase PROVE IInv'
<1> DEFINE next == [vault EXCEPT !.active = None]
           pc == IF turn.pc = "erase" THEN "publish" ELSE "confirm"
<1>1. /\ turn.pc # "none" /\ Write(next, pc) /\ pc \in Steps \cup {"end"}
      /\ pc \in Publishing => turn.who \in Request
  BY DEF Erase, Steps, Publishing, IInv, TurnInv
<1>2. /\ promise' \in [endpoint : Provider, key : Key \cup {None}]
      /\ unsure' \subseteq Doubts
      /\ file' \in Document /\ cache' \in Document /\ UNCHANGED <<base, given>>
  BY NoCommitTypes DEF Erase, IInv, TypeOK
<1>3. next \in Vault
  BY DEF IInv, TypeOK, Vault, Pair
<1>4. QED
  <2> HIDE DEF next, pc
  <2> QED BY <1>1, <1>2, <1>3, WriteKeeps

\* What a save or removal writes is a map: it was told of a key or of none.
LEMMA JournalledType ==
    ASSUME IInv, turn.pc # "none", Kind \in {"save", "remove"},
           NEW key \in ProviderKey(Held(cache)),
           NEW next, next = [vault EXCEPT !.journal = Journalled(turn.who, key)]
    PROVE  /\ next \in Vault /\ next.journal = Journalled(turn.who, key)
           /\ next.journal # None
           /\ next.active = vault.active /\ next.aside = vault.aside
<1> DEFINE q == turn.who
           old == Held(cache)
           new == IF Kind = "save" THEN TargetKey(q, key) ELSE None
<1>1. q \in Request /\ request[q] \in Requests /\ vault \in Vault
  BY TurnOfRequest DEF Kinds, IInv, TypeOK
<1>2. old \in Provider /\ key \in Key \cup {None}
  BY ReadTypes DEF IInv, ProviderKey
<1>3. new \in Key \cup {None}
  BY <1>1, <1>2 DEF TargetKey, Key
<1>4. /\ next.active = vault.active /\ next.aside = vault.aside
      /\ next.journal = Journalled(q, key)
      /\ next.journal = [previous |-> old, target |-> request[q].target,
                         previousKey |-> key, targetKey |-> new]
  BY <1>1 DEF Journalled, Vault
<1>5. next.journal \in [previous : Provider, target : Provider,
                        previousKey : Key \cup {None},
                        targetKey : Key \cup {None}]
  BY <1>1, <1>2, <1>3, <1>4 DEF Requests
<1>6. next \in Vault
  BY <1>1, <1>5 DEF Vault, Journal, Journalled
<1>7. QED BY <1>4, <1>5, <1>6, NoneAssumption

\* A save that begins preserves the invariant, with a journal or without.
LEMMA SaveKeeps == ASSUME IInv, SaveBegins PROVE IInv'
<1> DEFINE q == turn.who
<1>1. turn.pc # "none" /\ Kind = "save" /\ TypeOK
  BY DEF SaveBegins, IInv
<1>2. q \in Request
  BY <1>1, TurnOfRequest DEF Kinds
<1>3. PICK key \in ProviderKey(Held(cache)), stored \in HasKey :
         /\ \/ /\ ~NeedsJournal(q, key, stored)
               /\ Continue("publish") /\ UNCHANGED <<vault, troubles>>
            \/ /\ NeedsJournal(q, key, stored)
               /\ Write([vault EXCEPT !.journal = Journalled(q, key)],
                        IF \/ Replaced(q) \/ request[q].target \in Keyless
                           \/ Held(cache) = None \/ Mismatched(key, stored)
                        THEN "erase" ELSE "publish")
         /\ promise' = IF vault' # vault /\ request[q].target = file
                       THEN [endpoint |-> file, key |-> Expected(q)]
                       ELSE promise
         /\ unsure' = unsure \cup Unread(key, stored) \cup Fault
  BY DEF SaveBegins
<1>4. /\ file' \in Document /\ cache' \in Document
      /\ UNCHANGED <<file, cache, base, given>>
  BY <1>1 DEF SaveBegins, TypeOK
<1>5. promise' \in [endpoint : Provider, key : Key \cup {None}]
  <2>1. Expected(q) \in Key \cup {None} /\ request[q].target \in Provider
    BY <1>1, <1>2, ExpectedType DEF TypeOK
  <2>2. QED BY <1>1, <1>3, <2>1 DEF TypeOK
<1>6. unsure' \subseteq Doubts
  BY <1>1, <1>3 DEF TypeOK, Unread, Fault, Doubts
<1>7. CASE Continue("publish") /\ UNCHANGED <<vault, troubles>>
  <2>1. "publish" \in Steps \cup {"end"} /\ troubles' \in 0 .. MaxTroubles
    BY <1>1, <1>7 DEF Steps, TypeOK
  <2>2. QED BY <1>1, <1>2, <1>4, <1>5, <1>6, <1>7, <2>1, NoWriteKeeps
<1>8. ASSUME NEW pc \in {"erase", "publish"},
             Write([vault EXCEPT !.journal = Journalled(q, key)], pc)
      PROVE  IInv'
  <2> DEFINE next == [vault EXCEPT !.journal = Journalled(q, key)]
  <2>1. next \in Vault /\ pc \in Steps \cup {"end"}
    BY <1>1, JournalledType DEF Steps
  <2> HIDE DEF next
  <2>2. Write(next, pc)
    BY <1>8 DEF next
  <2>3. QED BY <1>1, <1>2, <1>4, <1>5, <1>6, <2>1, <2>2, WriteKeeps
<1>9. QED BY <1>3, <1>7, <1>8

\* A removal journals no new key.
LEMMA RemoveKeeps == ASSUME IInv, RemoveBegins PROVE IInv'
<1>1. PICK key \in ProviderKey(Held(cache)) :
         /\ Write([vault EXCEPT !.journal = Journalled(turn.who, key)],
                  "publish")
         /\ unsure' = unsure \cup Unread(key, vault.active # None) \cup Fault
  BY DEF RemoveBegins
<1> DEFINE next == [vault EXCEPT !.journal = Journalled(turn.who, key)]
<1>2. /\ turn.pc # "none" /\ Kind = "remove" /\ Write(next, "publish")
      /\ "publish" \in Steps \cup {"end"} /\ turn.who \in Request
  BY <1>1, TurnOfRequest DEF RemoveBegins, Steps, Kinds
<1>3. /\ promise' \in [endpoint : Provider, key : Key \cup {None}]
      /\ unsure' \subseteq Doubts
      /\ file' \in Document /\ cache' \in Document /\ UNCHANGED <<base, given>>
  BY <1>1 DEF RemoveBegins, IInv, TypeOK, Unread, Fault, Doubts
<1>4. next \in Vault
  BY <1>2, JournalledType
<1>5. QED
  <2> HIDE DEF next
  <2> QED BY <1>2, <1>3, <1>4, WriteKeeps

\* A publication writes the file and no map.
LEMMA PublishKeeps == ASSUME IInv, Publish PROVE IInv'
<1>1. turn.pc # "none" /\ TypeOK /\ UNCHANGED <<vault, base, given>>
  BY DEF Publish, IInv
<1>2. turn.who \in Request /\ request[turn.who] \in Requests
  BY <1>1 DEF Publish, IInv, TypeOK, TurnInv, Publishing, Requests
<1> DEFINE target == request[turn.who].target
           unread == Keeps(turn.who) \/ vault.journal = None
<1>3. target \in Document /\ target \in Provider
  BY <1>2 DEF Requests, Provider, Document
<1>4. ASSUME Throw \/ Continue(AfterPublication),
             troubles' \in 0 .. MaxTroubles,
             promise' \in [endpoint : Provider, key : Key \cup {None}],
             unsure' \subseteq Doubts,
             file' \in Document, cache' \in Document
      PROVE  IInv'
  <2>1. /\ AfterPublication \in Steps \cup {"end"}
        /\ AfterPublication \notin Publishing
    BY DEF AfterPublication, Steps, Publishing
  <2>2. QED BY <1>1, <1>4, <2>1, NoWriteKeeps
<1>5. ASSUME NoCommit
      PROVE  /\ promise' \in [endpoint : Provider, key : Key \cup {None}]
             /\ unsure' \subseteq Doubts
  BY <1>1, <1>5, NoCommitTypes
<1>6. ASSUME Commit(target, Expected(turn.who), unread)
      PROVE  /\ promise' \in [endpoint : Provider, key : Key \cup {None}]
             /\ unsure' \subseteq Doubts
  BY <1>1, <1>2, <1>3, <1>6, ExpectedType
     DEF Commit, TypeOK, Fault, Doubts
<1>7. /\ file' \in Document /\ cache' \in Document
      /\ Throw \/ Continue(AfterPublication)
      /\ troubles' \in 0 .. MaxTroubles
      /\ NoCommit \/ Commit(target, Expected(turn.who), unread)
  <2> HIDE DEF target, unread
  <2>1. /\ Throw \/ Continue(AfterPublication)
        /\ NoCommit \/ Commit(target, Expected(turn.who), unread)
    BY DEF Publish, target, unread
  <2>2. /\ file' \in {file, target} /\ cache' \in {file, cache, target}
    BY DEF Publish, target
  <2>3. UNCHANGED troubles \/ Trouble
    BY DEF Publish
  <2>4. troubles' \in 0 .. MaxTroubles
    BY <1>1, <2>3, CredentialRotationAssumption DEF Trouble, TypeOK
  <2>5. QED BY <1>1, <1>3, <2>1, <2>2, <2>4 DEF TypeOK
<1>8. QED BY <1>4, <1>5, <1>6, <1>7

\* A new key is bound to the endpoint that the app sees when it is written.
LEMMA SetKeyKeeps == ASSUME IInv, SetKey PROVE IInv'
<1> DEFINE q == turn.who
           endpoint == Held(cache)
           key == IF request[q].withKey /\ endpoint \notin Keyless
                  THEN q ELSE None
           next == [vault EXCEPT !.active = Binding(key, endpoint)]
<1>1. /\ turn.pc # "none" /\ Kind = "set" /\ TypeOK
      /\ UNCHANGED <<file, cache, base, given>>
      /\ "end" \in Steps \cup {"end"} /\ "end" \notin Publishing
  BY DEF SetKey, IInv, Publishing
<1>2. q \in Request /\ endpoint \in Provider
  BY <1>1, TurnOfRequest, ReadTypes DEF Kinds
<1>3. key \in Key \cup {None}
  BY <1>2 DEF Key
<1>4. ASSUME NoCommit \/ Commit(endpoint, key, FALSE)
      PROVE  /\ promise' \in [endpoint : Provider, key : Key \cup {None}]
             /\ unsure' \subseteq Doubts
  <2>1. CASE NoCommit
    BY <1>1, <2>1, NoCommitTypes
  <2>2. CASE Commit(endpoint, key, FALSE)
    BY <1>1, <1>2, <1>3, <2>2 DEF Commit, TypeOK, Fault, Doubts
  <2>3. QED BY <1>4, <2>1, <2>2
<1>5. /\ promise' \in [endpoint : Provider, key : Key \cup {None}]
      /\ unsure' \subseteq Doubts
  BY <1>4 DEF SetKey
<1>6. CASE endpoint = None
  <2>1. Throw /\ UNCHANGED <<vault, troubles>>
    BY <1>6 DEF SetKey
  <2>2. QED BY <1>1, <1>5, <2>1, NoWriteKeeps DEF TypeOK
<1>7. CASE endpoint # None
  <2>1. Write(next, "end")
    BY <1>7 DEF SetKey
  <2>2. Binding(key, endpoint) \in Pair
    BY <1>2, <1>3, <1>7 DEF Binding, Pair, Provider
  <2>3. next \in Vault
    BY <1>1, <2>2 DEF TypeOK, Vault
  <2> HIDE DEF next
  <2>4. file' \in Document /\ cache' \in Document
    BY <1>1 DEF TypeOK
  <2>5. QED BY <1>1, <1>5, <2>1, <2>3, <2>4, WriteKeeps
<1>8. QED BY <1>6, <1>7

\* The turn of a sync.
LEMMA SyncKeysKeeps == ASSUME IInv, SyncKeys PROVE IInv'
<1> DEFINE next == IF sync.before = sync.target THEN vault
                   ELSE Reconciled(vault, sync.target)
<1>1. /\ turn.pc # "none" /\ Write(next, "end") /\ "end" \notin Publishing
      /\ "end" \in Steps \cup {"end"} /\ sync.target \in Provider
  BY DEF SyncKeys, Publishing, IInv, TypeOK
<1>2. /\ promise' \in [endpoint : Provider, key : Key \cup {None}]
      /\ unsure' \subseteq Doubts
      /\ file' \in Document /\ cache' \in Document /\ UNCHANGED <<base, given>>
  BY NoCommitTypes DEF SyncKeys, IInv, TypeOK
<1>3. next \in Vault
  BY <1>1, ReconciledType DEF IInv, TypeOK
<1>4. QED
  <2> HIDE DEF next
  <2> QED BY <1>1, <1>2, <1>3, WriteKeeps

----------------------------------------------------------------------------
(* Requests, syncs and the environment.                                    *)

\* A request is made, and its key comes with its target or alone.
LEMMA AskKeeps == ASSUME IInv, NEW q \in Request, Ask(q) PROVE IInv'
<1> USE DEF Requests
<1>1. PICK kind \in Kinds, target \in Provider, withKey \in BOOLEAN :
         /\ request' = [request EXCEPT ![q] =
                [at |-> IF kind = "set" THEN "queued" ELSE "before",
                 kind |-> kind, target |-> target, withKey |-> withKey]]
         /\ given' = IF kind = "save" /\ withKey
                     THEN [given EXCEPT ![q] = target] ELSE given
  BY DEF Ask
<1>2. /\ request[q].at = "new" /\ turn.who # q /\ q \in Key
      /\ UNCHANGED <<file, cache, vault, sync, base, turn, troubles, promise,
                     unsure>>
  BY DEF Ask, IInv, TurnInv, Turning, Over, NoAsk, Key
<1>3. TypeOK'
  BY <1>1, <1>2 DEF IInv, TypeOK
<1>4. AskInv'
  <2> SUFFICES ASSUME NEW r \in Request
               PROVE  /\ request'[r].kind = "save" /\ request'[r].withKey =>
                             given'[r] = request'[r].target
                      /\ request'[r].kind = "set" \/ request'[r].at = "new" =>
                             given'[r] = None
    BY DEF AskInv
  <2>1. CASE r # q
    BY <1>1, <1>2, <2>1 DEF IInv, TypeOK, AskInv, Key
  <2>2. CASE r = q
    <3>1. /\ request'[q].kind = kind /\ request'[q].withKey = withKey
          /\ request'[q].target = target /\ request'[q].at # "new"
      BY <1>1 DEF IInv, TypeOK
    <3>2. kind = "save" /\ withKey => given'[q] = target
      BY <1>1, <1>2 DEF IInv, TypeOK
    <3>3. kind = "set" => given'[q] = None
      BY <1>1, <1>2 DEF IInv, AskInv
    <3>4. QED BY <2>2, <3>1, <3>2, <3>3
  <2>3. QED BY <2>1, <2>2
<1>5. TurnInv'
  BY <1>1, <1>2 DEF IInv, TypeOK, TurnInv
<1>6. QED BY <1>3, <1>4, <1>5 DEF IInv

\* A request takes its turn.
LEMMA TakeTurnKeeps == ASSUME IInv, NEW q \in Request, TakeTurn(q) PROVE IInv'
<1> USE DEF TakeTurn
<1>1. TypeOK'
  BY DEF IInv, TypeOK, history, Steps
<1>2. AskInv'
  BY AskStays DEF Forward, history
<1>3. TurnInv'
  BY CredentialRotationAssumption
     DEF IInv, TypeOK, TurnInv, Turning, Publishing
<1>4. QED BY <1>1, <1>2, <1>3 DEF IInv

\* Steps of a sync or of the start that write no map.
LEMMA QuietKeeps ==
    ASSUME IInv, UNCHANGED given, TypeOK', TurnInv',
           \A q \in Request :
               \/ request'[q] = request[q]
               \/ request'[q] = Over
               \/ /\ request[q].at = "before"
                  /\ request'[q] = [request[q] EXCEPT !.at = "queued"]
    PROVE  IInv'
<1>1. AskInv'
  BY AskStays DEF Forward
<1>2. QED BY <1>1 DEF IInv

\* What a sync does to the request that waits for it.
LEMMA AdvancedType ==
    ASSUME IInv, NEW by
    PROVE  /\ Advanced(by) \in [Request -> Requests]
           /\ \A q \in Request :
                  \/ Advanced(by)[q] \in {request[q], Over}
                  \/ /\ request[q].at = "before"
                     /\ Advanced(by)[q] = [request[q] EXCEPT !.at = "queued"]
           /\ \A q \in Request :
                  Turning(request[q]) => Turning(Advanced(by)[q])
<1>1. request \in [Request -> Requests]
  BY DEF IInv, TypeOK, Requests
<1>2. CASE by \in Request /\ request[by].at = "before"
  BY <1>1, <1>2 DEF Advanced, Requests, Turning, Over, NoAsk
<1>3. CASE ~(by \in Request /\ request[by].at = "before")
  BY <1>1, <1>3, AnsweredType DEF Advanced, IInv, Turning
<1>4. QED BY <1>2, <1>3

\* The tracker keeps its types.
LEMMA TrackTypes ==
    ASSUME IInv, NEW by \in Request \cup {"watcher"}, NEW from,
           from \in [safe : Provider \cup {"unset"}, pending : BOOLEAN],
           NEW seen \in Document, NEW notify \in BOOLEAN,
           Track(by, from, seen, notify)
    PROVE  /\ base' \in [safe : Provider \cup {"unset"}, pending : BOOLEAN]
           /\ sync' \in Syncs
           /\ request' \in {request, Advanced(by)}
<1>1. seen # Corrupt => seen \in Provider
  BY DEF Document, Provider
<1>2. 1 \in 0 .. MaxPasses
  BY CredentialRotationAssumption
<1>3. sync \in Syncs
  BY DEF IInv, TypeOK, Syncs
<1>4. base' \in [safe : Provider \cup {"unset"}, pending : BOOLEAN]
  <2>1. \/ base' = [from EXCEPT !.pending = TRUE]
        \/ seen # Corrupt /\ base' = [safe |-> seen, pending |-> FALSE]
        \/ base' = from
    BY DEF Track
  <2>2. [from EXCEPT !.pending = TRUE]
            \in [safe : Provider \cup {"unset"}, pending : BOOLEAN]
    OBVIOUS
  <2>3. seen # Corrupt => [safe |-> seen, pending |-> FALSE]
            \in [safe : Provider \cup {"unset"}, pending : BOOLEAN]
    BY <1>1
  <2>4. QED BY <2>1, <2>2, <2>3
<1>5. sync' \in Syncs /\ request' \in {request, Advanced(by)}
  BY <1>1, <1>2, <1>3 DEF Track, Syncs
<1>6. QED BY <1>4, <1>5

\* A sync of a request begins.
LEMMA SyncBeginsKeeps ==
    ASSUME IInv, NEW q \in Request, SyncBegins(q) PROVE IInv'
<1>1. /\ Track(q, base, cache, TRUE) /\ request[q].at \in {"before", "after"}
      /\ UNCHANGED <<file, cache, vault, turn, troubles, given, promise,
                     unsure>>
  BY DEF SyncBegins, history
<1>2. /\ base' \in [safe : Provider \cup {"unset"}, pending : BOOLEAN]
      /\ sync' \in Syncs /\ request' \in {request, Advanced(q)}
  BY <1>1, TrackTypes DEF IInv, TypeOK
<1>3. TypeOK'
  BY <1>1, <1>2, AdvancedType DEF IInv, TypeOK, Requests, Syncs
<1>4. TurnInv'
  BY <1>1, <1>2, AdvancedType DEF IInv, TurnInv
<1>5. \A r \in Request :
         \/ request'[r] = request[r]
         \/ request'[r] = Over
         \/ /\ request[r].at = "before"
            /\ request'[r] = [request[r] EXCEPT !.at = "queued"]
  BY <1>2, AdvancedType
<1>6. QED BY <1>1, <1>3, <1>4, <1>5, QuietKeeps

\* A refresh begins.
LEMMA RefreshKeeps == ASSUME IInv, Refresh PROVE IInv'
<1> DEFINE seeded == IF cache = Corrupt THEN [base EXCEPT !.pending = TRUE]
                     ELSE IF base.safe = "unset"
                     THEN [base EXCEPT !.safe = cache] ELSE base
<1>1. PICK changed \in BOOLEAN : Track("watcher", seeded, file, changed)
  BY DEF Refresh
<1>2. cache' = file
      /\ UNCHANGED <<file, vault, turn, troubles, given, promise, unsure>>
  BY DEF Refresh, history
<1>3. /\ seeded \in [safe : Provider \cup {"unset"}, pending : BOOLEAN]
      /\ file \in Document
  BY DEF IInv, TypeOK, Document, Provider
<1> HIDE DEF seeded
<1>4. /\ base' \in [safe : Provider \cup {"unset"}, pending : BOOLEAN]
      /\ sync' \in Syncs /\ request' \in {request, Advanced("watcher")}
  BY <1>1, <1>3, TrackTypes
<1>5. TypeOK'
  BY <1>2, <1>4, AdvancedType DEF IInv, TypeOK, Requests, Syncs
<1>6. TurnInv'
  BY <1>2, <1>4, AdvancedType, CredentialRotationAssumption
     DEF IInv, TurnInv
<1>7. QED BY <1>2, <1>4, <1>5, <1>6, AdvancedType, QuietKeeps

\* A sync takes its turn.
LEMMA SyncTurnKeeps == ASSUME IInv, SyncTurn PROVE IInv'
<1>1. TypeOK'
  BY DEF SyncTurn, IInv, TypeOK, history, Steps
<1>2. TurnInv'
  BY CredentialRotationAssumption
     DEF SyncTurn, IInv, TypeOK, TurnInv, Publishing
<1>3. QED BY <1>1, <1>2, QuietKeeps DEF SyncTurn, history

\* A sync goes on or ends.
LEMMA SyncCheckKeeps == ASSUME IInv, SyncCheck PROVE IInv'
<1> USE DEF Requests, Syncs
<1>1. /\ UNCHANGED <<file, cache, vault, turn, troubles, given, promise>>
      /\ NoSync \in Syncs
  BY CredentialRotationAssumption DEF SyncCheck, NoSync, Provider
<1>2. request' \in {request, Advanced(sync.by), Answered({sync.by})}
  BY DEF SyncCheck
<1>3. /\ request' \in [Request -> Requests]
      /\ \A q \in Request :
             \/ request'[q] = request[q]
             \/ request'[q] = Over
             \/ /\ request[q].at = "before"
                /\ request'[q] = [request[q] EXCEPT !.at = "queued"]
  BY <1>2, AdvancedType, AnsweredType DEF IInv, TypeOK
<1>4. unsure' \subseteq Doubts
  BY DEF SyncCheck, IInv, TypeOK, Doubts
<1>5. base' \in [safe : Provider \cup {"unset"}, pending : BOOLEAN]
  <2>1. \/ base' = [base EXCEPT !.pending = TRUE]
        \/ base' = [safe |-> sync.target, pending |-> FALSE]
        \/ base' = base
    BY DEF SyncCheck
  <2>2. /\ base \in [safe : Provider \cup {"unset"}, pending : BOOLEAN]
        /\ sync.target \in Provider
    BY DEF IInv, TypeOK
  <2>3. [base EXCEPT !.pending = TRUE]
            \in [safe : Provider \cup {"unset"}, pending : BOOLEAN]
    BY <2>2
  <2>4. [safe |-> sync.target, pending |-> FALSE]
            \in [safe : Provider \cup {"unset"}, pending : BOOLEAN]
    BY <2>2
  <2>5. QED BY <2>1, <2>2, <2>3, <2>4
<1>6. sync' \in Syncs
  <2>1. CASE sync' = NoSync
    BY <1>1, <2>1
  <2>2. CASE /\ cache \notin {Corrupt, sync.target} /\ sync.pass < MaxPasses
             /\ sync' = [sync EXCEPT !.before = sync.target, !.target = cache,
                                     !.pass = @ + 1, !.at = "due"]
    <3>1. cache \in Provider /\ sync.pass + 1 \in 0 .. MaxPasses
      BY <2>2, CredentialRotationAssumption
         DEF IInv, TypeOK, Document, Provider
    <3>2. QED BY <2>2, <3>1 DEF IInv, TypeOK
  <2>3. QED BY <2>1, <2>2 DEF SyncCheck
<1>7. TypeOK'
  BY <1>1, <1>3, <1>4, <1>5, <1>6 DEF IInv, TypeOK
<1>8. TurnInv'
  BY <1>1, <1>2, AdvancedType, AnsweredType DEF IInv, TurnInv, Turning
<1>9. QED BY <1>1, <1>3, <1>7, <1>8, QuietKeeps

\* An edit of the file.
LEMMA EditKeeps == ASSUME IInv, Edit PROVE IInv'
<1>1. TypeOK'
  BY CredentialRotationAssumption DEF Edit, Trouble, IInv, TypeOK, work, Doubts
<1>2. TurnInv'
  BY DEF Edit, work, IInv, TurnInv
<1>3. QED BY <1>1, <1>2, QuietKeeps DEF Edit, work

\* A crash, with the start that follows it.
LEMMA CrashKeeps == ASSUME IInv, Crash PROVE IInv'
<1>1. /\ request' = Answered({q \in Request : request[q] # NoAsk})
      /\ UNCHANGED <<file, vault, given, promise>>
      /\ sync' = NoSync /\ turn' = [who |-> "startup", pc |-> "recover"]
  BY DEF Crash
<1>2. /\ request' \in [Request -> Requests]
      /\ \A q \in Request : request'[q] \in {request[q], Over}
  BY <1>1, AnsweredType DEF IInv
<1>3. NoSync \in Syncs
  BY CredentialRotationAssumption DEF NoSync, Syncs, Provider
<1>4. TypeOK'
  BY <1>1, <1>2, <1>3, CredentialRotationAssumption
     DEF Crash, Trouble, IInv, TypeOK, Requests, Syncs, Steps, Doubts
<1>5. TurnInv'
  BY <1>1, CredentialRotationAssumption DEF TurnInv, Publishing
<1>6. QED BY <1>1, <1>2, <1>4, <1>5, QuietKeeps

----------------------------------------------------------------------------
(* The invariant holds at the start, and in every state.                   *)

\* At the start the map holds the one key there is.
LEMMA InitInv == Init => IInv
<1> SUFFICES ASSUME Init PROVE IInv
  OBVIOUS
<1> USE CredentialRotationAssumption
<1>1. /\ Home \in Endpoint /\ Home \in Provider /\ Home \in Document
      /\ None \in Provider /\ Old \in Key
  BY DEF Provider, Document, Key
<1>2. request = [q \in Request |-> NoAsk]
  BY DEF Init
<1>3. vault \in Vault
  BY <1>1 DEF Init, Vault, Pair, Journal
<1>4. given \in [Key -> Provider]
  BY <1>1 DEF Init
<1>5. NoTurn \in Turns /\ NoSync \in Syncs /\ NoAsk \in Requests
  BY <1>1, OverType DEF NoTurn, NoSync, Turns, Syncs
<1>6. TypeOK
  BY <1>1, <1>2, <1>3, <1>4, <1>5
     DEF Init, TypeOK, Requests, Syncs, Turns, Provider
<1>7. AskInv
  BY <1>2 DEF Init, AskInv, NoAsk, Key
<1>8. TurnInv
  BY DEF Init, TurnInv, NoTurn, Publishing
<1>9. QED BY <1>6, <1>7, <1>8 DEF IInv

\* Every step preserves the invariant.
LEMMA NextInv == IInv /\ [Next]_vars => IInv'
<1> SUFFICES ASSUME IInv, [Next]_vars PROVE IInv'
  OBVIOUS
<1>1. CASE RecoverFirst
  BY <1>1, RecoverKeeps
     DEF RecoverFirst, AfterRecovery, Steps, Publishing
<1>2. CASE RecoverLast
  BY <1>2, RecoverKeeps DEF RecoverLast, Steps, Publishing
<1>3. CASE Clear
  BY <1>3, ClearKeeps
<1>4. CASE SaveBegins
  BY <1>4, SaveKeeps
<1>5. CASE RemoveBegins
  BY <1>5, RemoveKeeps
<1>6. CASE Erase
  BY <1>6, EraseKeeps
<1>7. CASE Publish
  BY <1>7, PublishKeeps
<1>8. CASE SetKey
  BY <1>8, SetKeyKeeps
<1>9. CASE SyncKeys
  BY <1>9, SyncKeysKeeps
<1>10. ASSUME NEW q \in Request, Ask(q) \/ TakeTurn(q) \/ SyncBegins(q)
       PROVE  IInv'
  BY <1>10, AskKeeps, TakeTurnKeeps, SyncBeginsKeeps
<1>11. CASE Refresh \/ SyncTurn \/ SyncCheck
  BY <1>11, RefreshKeeps, SyncTurnKeeps, SyncCheckKeeps
<1>12. CASE Edit \/ Crash
  BY <1>12, EditKeeps, CrashKeeps
<1>13. CASE UNCHANGED vars
  BY <1>13 DEF vars, work, history, IInv, TypeOK, AskInv, TurnInv, Turning
<1>14. QED
  BY <1>1, <1>2, <1>3, <1>4, <1>5, <1>6, <1>7, <1>8, <1>9, <1>10, <1>11,
     <1>12, <1>13 DEF Next, Work, Step

\* The rotation keeps its types, for any endpoints, requests and troubles.
THEOREM TypeCorrect == Spec => []TypeOK
<1>1. IInv => TypeOK
  BY DEF IInv
<1>2. QED BY <1>1, InitInv, NextInv, PTL DEF Spec

----------------------------------------------------------------------------
(* Where keys come to endpoints.                                           *)

\* A step that makes no pair brings no key anywhere.
LEMMA WriteComes ==
    ASSUME NEW next, NEW pc, Write(next, pc),
           Pairs(next) \subseteq Pairs(vault) \cup {None}
    PROVE  KeyComes
BY DEF Write, KeyComes

LEMMA NoWriteComes == ASSUME UNCHANGED vault PROVE KeyComes
BY DEF KeyComes

\* Recovery makes none: it puts a pair of the map to use, or aside.
LEMMA RecoverComes ==
    ASSUME IInv, NEW first, NEW afterClear, NEW next,
           Recover(first, afterClear, next)
    PROVE  KeyComes
<1>1. TypeOK /\ vault \in Vault
  BY DEF IInv, TypeOK
<1>2. CASE vault.journal = None
  <2> DEFINE kept == IF turn.who = "sync" \/ Held(cache) = None THEN vault
                     ELSE Reconciled(vault, Held(cache))
  <2>1. Write(kept, next)
    BY <1>2 DEF Recover
  <2>2. Pairs(kept) \subseteq Pairs(vault) \cup {None}
    BY <1>1, ReadTypes, ReconciledType
  <2> HIDE DEF kept
  <2>3. QED BY <2>1, <2>2, WriteComes
<1>3. CASE vault.journal # None /\ Authority = Corrupt
  BY <1>3, NoWriteComes DEF Recover
<1>4. CASE vault.journal # None /\ Authority # Corrupt
  <2>1. Write(Staged(vault, Authority), afterClear)
    BY <1>4 DEF Recover
  <2>2. Authority \in Provider
    BY <1>1, <1>4 DEF Authority, TypeOK, Document, Provider
  <2>3. QED BY <1>1, <1>4, <2>1, <2>2, StagedType, WriteComes
<1>5. QED BY <1>2, <1>3, <1>4

\* A journal adds the key that came with its target; the other is the one
\* in use at the old endpoint, if its turn was told of it.
LEMMA JournalComes ==
    ASSUME IInv, turn.pc # "none", Kind \in {"save", "remove"},
           NEW key \in ProviderKey(Held(cache)), NEW pc,
           Write([vault EXCEPT !.journal = Journalled(turn.who, key)], pc)
    PROVE  KeyComes
<1> DEFINE q == turn.who
           old == Held(cache)
           new == IF Kind = "save" THEN TargetKey(q, key) ELSE None
           next == [vault EXCEPT !.journal = Journalled(q, key)]
<1>1. /\ q \in Request /\ request[q] \in Requests
      /\ Kind = request[q].kind /\ vault \in Vault
  BY TurnOfRequest DEF Kinds, IInv, TypeOK
<1>2. /\ next.journal = Journalled(q, key) /\ next.journal # None
      /\ next.active = vault.active /\ next.aside = vault.aside
  BY JournalledType
<1>3. /\ next.journal.previous = old /\ next.journal.previousKey = key
      /\ next.journal.target = request[q].target
      /\ next.journal.targetKey = new
  BY <1>2 DEF Journalled
<1>4. Binding(key, old) \in {None, vault.active}
  BY <1>1 DEF ProviderKey, KeyFor, Fits, Binding, Vault, Pair
<1>5. \/ new = None
      \/ new = key /\ request[q].target = old
      \/ new = q /\ given[q] = request[q].target
  BY <1>1 DEF TargetKey, Replaced, IInv, AskInv
<1>6. Pairs(next) \subseteq {vault.active, vault.aside, Binding(key, old),
                            Binding(new, request[q].target)}
  BY <1>2, <1>3 DEF Pairs
<1>7. vault' \in {vault, next}
  BY DEF Write
<1> HIDE DEF next
<1>8. ASSUME NEW pair \in Pairs(next) \ (Pairs(vault) \cup {None})
      PROVE  turn.who = pair.key /\ given[pair.key] \in {None, pair.bound}
  <2>1. pair = Binding(new, request[q].target) /\ pair # None
    BY <1>4, <1>6, <1>8 DEF Pairs
  <2>2. new = q /\ given[q] = request[q].target
    BY <1>4, <1>5, <1>8, <2>1 DEF Binding, Pairs
  <2>3. pair = [key |-> q, bound |-> request[q].target]
    BY <2>1, <2>2 DEF Binding
  <2>4. QED BY <2>2, <2>3
<1>9. QED BY <1>7, <1>8 DEF KeyComes

\* A new key comes alone.
LEMMA SetKeyComes == ASSUME IInv, SetKey PROVE KeyComes
<1> DEFINE q == turn.who
           endpoint == Held(cache)
           key == IF request[q].withKey /\ endpoint \notin Keyless
                  THEN q ELSE None
           next == [vault EXCEPT !.active = Binding(key, endpoint)]
<1>1. CASE endpoint = None
  BY <1>1, NoWriteComes DEF SetKey
<1>2. CASE endpoint # None
  <2>1. vault' \in {vault, next}
    BY <1>2 DEF SetKey, Write
  <2>2. q \in Request /\ given[q] = None
    BY TurnOfRequest DEF SetKey, Kinds, IInv, AskInv
  <2>3. next.active = Binding(key, endpoint)
        /\ next.aside = vault.aside /\ next.journal = vault.journal
    BY DEF IInv, TypeOK, Vault
  <2> HIDE DEF next
  <2>4. ASSUME NEW pair \in Pairs(next) \ (Pairs(vault) \cup {None})
        PROVE  turn.who = pair.key /\ given[pair.key] \in {None, pair.bound}
    <3>1. pair = Binding(key, endpoint) /\ pair # None
      BY <2>3, <2>4 DEF Pairs
    <3>2. pair = [key |-> q, bound |-> endpoint]
      BY <3>1 DEF Binding
    <3>3. QED BY <2>2, <3>2
  <2>5. QED BY <2>1, <2>4 DEF KeyComes
<1>3. QED BY <1>1, <1>2

\* No step brings a key to an endpoint but the turn of its own request.
LEMMA NextComes == IInv /\ [Next]_vars => [KeyComes]_vars
<1> SUFFICES ASSUME IInv, Next PROVE KeyComes
  OBVIOUS
<1>1. CASE RecoverFirst \/ RecoverLast
  BY <1>1, RecoverComes DEF RecoverFirst, RecoverLast
<1>2. CASE Clear
  <2> DEFINE next == [vault EXCEPT !.journal = None]
  <2>1. Pairs(next) \subseteq Pairs(vault) \cup {None}
    BY DEF Pairs, IInv, TypeOK, Vault
  <2>2. PICK pc : Write(next, pc)
    BY <1>2 DEF Clear
  <2> HIDE DEF next
  <2>3. QED BY <2>1, <2>2, WriteComes
<1>3. CASE Erase
  <2> DEFINE next == [vault EXCEPT !.active = None]
  <2>1. Pairs(next) \subseteq Pairs(vault) \cup {None}
    BY DEF Pairs, IInv, TypeOK, Vault
  <2>2. PICK pc : Write(next, pc)
    BY <1>3 DEF Erase
  <2> HIDE DEF next
  <2>3. QED BY <2>1, <2>2, WriteComes
<1>4. CASE SaveBegins
  <2>1. turn.pc # "none" /\ Kind = "save"
    BY <1>4 DEF SaveBegins
  <2>2. \/ UNCHANGED vault
        \/ \E key \in ProviderKey(Held(cache)), pc \in {"erase", "publish"} :
               Write([vault EXCEPT !.journal = Journalled(turn.who, key)], pc)
    BY <1>4 DEF SaveBegins
  <2>3. QED BY <2>1, <2>2, NoWriteComes, JournalComes
<1>5. CASE RemoveBegins
  BY <1>5, JournalComes DEF RemoveBegins
<1>6. CASE Publish
  BY <1>6, NoWriteComes DEF Publish
<1>7. CASE SetKey
  BY <1>7, SetKeyComes
<1>8. CASE SyncKeys
  <2> DEFINE next == IF sync.before = sync.target THEN vault
                     ELSE Reconciled(vault, sync.target)
  <2>1. Pairs(next) \subseteq Pairs(vault) \cup {None}
    BY ReconciledType DEF IInv, TypeOK
  <2>2. Write(next, "end")
    BY <1>8 DEF SyncKeys
  <2> HIDE DEF next
  <2>3. QED BY <2>1, <2>2, WriteComes
<1>9. ASSUME NEW q \in Request, Ask(q) \/ TakeTurn(q) \/ SyncBegins(q)
      PROVE  KeyComes
  BY <1>9, NoWriteComes DEF Ask, TakeTurn, SyncBegins
<1>10. CASE Refresh \/ SyncTurn \/ SyncCheck \/ Edit \/ Crash
  BY <1>10, NoWriteComes DEF Refresh, SyncTurn, SyncCheck, Edit, Crash
<1>11. QED
  BY <1>1, <1>2, <1>3, <1>4, <1>5, <1>6, <1>7, <1>8, <1>9, <1>10
     DEF Next, Work, Step

\* A key comes to an endpoint in the turn of the request it came with, and to
\* the one it came with if there is one; nothing that is edited, fails or
\* crashes moves it to another or brings it back.
THEOREM KeysStayWithEndpoints == Spec => KeysFitEndpoints
<1>1. QED BY InitInv, NextInv, NextComes, PTL DEF Spec, KeysFitEndpoints

----------------------------------------------------------------------------
(* What a commit leaves.                                                   *)
(*                                                                         *)
(* CommitsStand is not inductive: a turn ends with the map it wrote, so    *)
(* that every step of it must be known to come from the one before; and a  *)
(* sync that began before a commit may still set its key aside.  CommitInv *)
(* adds what the journal says while a change is under way, what the map    *)
(* is to hold when the file is published, and that a sync which is late    *)
(* has a pass to come.  A read that failed unnoticed costs the key and     *)
(* nothing else: what follows needs Sure for the key, Clean for the rest.  *)

\* The key an endpoint will end up with, as a function of the map.
EffectiveIn(v, e) ==
    IF v.journal # None THEN Decided(v.journal, e)
    ELSE IF Fits(v.aside, e) /\ ~Fits(v.active, e) THEN v.aside.key
    ELSE IF Fits(v.active, e) THEN v.active.key ELSE None

\* A request that has the turn is in it, and one that syncs is before or
\* after its turn.
OrderInv ==
    /\ turn.who \in Request => request[turn.who].at = "turn"
    /\ sync.by \in Request => request[sync.by].at \in {"before", "after"}

\* Only a save has a target, and a key comes with one that needs it.
TargetInv ==
    \A q \in Request :
        /\ request[q].kind \in {"remove", "none"} =>
               request[q].target = None /\ ~request[q].withKey
        /\ request[q].kind = "save" =>
               /\ request[q].target # None
               /\ request[q].withKey => request[q].target \notin Keyless

\* There is a journal from the first write of a save or a removal to the
\* last, and in the recovery of one that stopped.
Journalling == {"clear", "erase", "drop", "confirm", "confirmed"}
JournalInv ==
    /\ turn.pc = "body" => vault.journal = None
    /\ turn.pc \in Journalling => vault.journal # None
    /\ turn.pc \in Publishing => Kind \in {"save", "remove"}
    /\ turn.pc = "publish" /\ Kind = "remove" => vault.journal # None
    /\ vault.journal # None /\ unsure = {} => turn # NoTurn

\* The file is what the last commit left, as long as nothing voids it, and
\* the map gives it the key, as long as no read of it went wrong.
KeptInv ==
    /\ Clean => cache = file /\ file = promise.endpoint
    /\ Sure => EffectiveIn(vault, file) = promise.key

\* A sync that will still have to look at the endpoint.
Late(s, e) ==
    /\ s # NoSync
    /\ s.at = "check" => s.target # e
    /\ s.at # "check" => (s.target = e => s.before # e)

\* The key of the endpoint in use is set aside only by a sync that is late.
AsideInv ==
    Clean /\ Fits(vault.aside, file) =>
        /\ vault.journal = None /\ ~Fits(vault.active, file)
        /\ turn.pc = "body" => turn.who \notin Request
        /\ unsure = {} => Late(sync, file)

\* The journal goes when the key in use is the one it decides for.
StagedIn(v, e) == v.active = Binding(Decided(v.journal, e), e)
StagedInv ==
    Clean /\ turn.pc \in {"clear", "confirmed"} => StagedIn(vault, file)

\* The key a save is to leave is what its target has when it is published,
\* unless a key set aside makes that unsure, or a failed read has.
KeepsIn(r, p) ==
    ~r.withKey /\ r.kind = "save" /\ r.target \in {p.endpoint} \ Keyless
Fulfils(v, q, r, clean, sure, p) ==
    \/ v.journal = None /\ Fits(v.aside, r.target)
    \/ r.withKey /\ EffectiveIn(v, r.target) = q
    \/ ~r.withKey /\ ~clean
    \/ ~r.withKey /\ ~sure /\ (KeepsIn(r, p) \/ v.journal = None)
    \/ KeepsIn(r, p) /\ EffectiveIn(v, r.target) = p.key
    \/ /\ ~r.withKey /\ ~KeepsIn(r, p)
       /\ EffectiveIn(v, r.target) = None
PlannedInv ==
    turn.pc \in Publishing =>
        Fulfils(vault, turn.who, request[turn.who], Clean, Sure, promise)

CommitInv ==
    /\ OrderInv /\ TargetInv /\ JournalInv
    /\ KeptInv /\ AsideInv /\ StagedInv /\ PlannedInv

\* What Effective says of the map.
LEMMA EffectiveOf == \A e : Effective(e) = EffectiveIn(vault, e)
BY DEF Effective, EffectiveIn, KeyFor

\* CommitInv holds what was promised.
LEMMA CommitInvStands == IInv /\ CommitInv => CommitsStand
<1> SUFFICES ASSUME IInv, CommitInv PROVE CommitsStand
  OBVIOUS
<1>1. /\ Clean => file = promise.endpoint
      /\ Sure => Effective(file) = promise.key
  BY EffectiveOf DEF CommitInv, KeptInv
<1>2. ASSUME unsure = {}, turn = NoTurn, sync = NoSync
      PROVE  KeyFor(file) = promise.key
  <2>1. Clean /\ Sure
    BY <1>2 DEF Clean, Sure
  <2>2. vault.journal = None
    BY <1>2 DEF CommitInv, JournalInv
  <2>3. ~Fits(vault.aside, file)
    BY <1>2, <2>1 DEF CommitInv, AsideInv, Late
  <2>4. QED BY <1>1, <2>1, <2>2, <2>3 DEF Effective
<1>3. QED BY <1>1, <1>2 DEF CommitsStand

\* Moving pairs between the slots keeps the key of every endpoint, and sets
\* aside none that it should put to use.
LEMMA ReconciledKeeps ==
    ASSUME NEW v \in Vault, NEW e \in Provider
    PROVE  /\ \A f : EffectiveIn(Reconciled(v, e), f) = EffectiveIn(v, f)
           /\ Reconciled(v, e).journal = v.journal
           /\ \A f : /\ Fits(Reconciled(v, e).aside, f)
                     /\ Fits(Reconciled(v, e).active, f)
                     => Fits(v.aside, f) /\ Fits(v.active, f)
           /\ Fits(Reconciled(v, e).aside, e)
                     => Fits(v.aside, e) /\ Fits(v.active, e)
<1> USE DEF Vault
<1>1. CASE Fits(v.active, e)
  <2>1. Reconciled(v, e) = v
    BY <1>1 DEF Reconciled
  <2>2. QED BY <1>1, <2>1
<1>2. CASE ~Fits(v.active, e) /\ Fits(v.aside, e)
  <2> DEFINE w == Reconciled(v, e)
  <2>1. w.active = v.aside /\ w.aside = v.active /\ w.journal = v.journal
    BY <1>2 DEF Reconciled
  <2> HIDE DEF w
  <2>2. ASSUME NEW f PROVE EffectiveIn(w, f) = EffectiveIn(v, f)
    <3>1. ~(Fits(v.active, f) /\ Fits(v.aside, f))
      BY <1>2 DEF Fits
    <3>2. QED BY <2>1, <3>1 DEF EffectiveIn
  <2>3. QED
    <3>1. /\ \A f : Fits(w.aside, f) /\ Fits(w.active, f)
                        => Fits(v.aside, f) /\ Fits(v.active, f)
          /\ Fits(w.aside, e) => Fits(v.aside, e) /\ Fits(v.active, e)
      BY <1>2, <2>1
    <3>2. QED BY <2>1, <2>2, <3>1 DEF w
<1>3. CASE ~Fits(v.active, e) /\ ~Fits(v.aside, e) /\ v.aside = None
  <2> DEFINE w == Reconciled(v, e)
  <2>1. w.active = None /\ w.aside = v.active /\ w.journal = v.journal
    BY <1>3 DEF Reconciled
  <2> HIDE DEF w
  <2>2. \A f : ~Fits(v.aside, f) /\ ~Fits(w.active, f)
    BY <1>3, <2>1 DEF Fits
  <2>3. ASSUME NEW f PROVE EffectiveIn(w, f) = EffectiveIn(v, f)
    BY <2>1, <2>2 DEF EffectiveIn
  <2>4. ~Fits(w.aside, e)
    BY <1>3, <2>1
  <2>5. QED BY <2>1, <2>2, <2>3, <2>4 DEF w
<1>4. CASE ~Fits(v.active, e) /\ ~Fits(v.aside, e) /\ v.aside # None
  <2>1. Reconciled(v, e) = v
    BY <1>4 DEF Reconciled
  <2>2. QED BY <1>4, <2>1
<1>5. QED BY <1>1, <1>2, <1>3, <1>4

\* A request that stays, is answered or goes on.
Moved(r, s) == s = r \/ s = Over \/ \E at : s = [r EXCEPT !.at = at]

\* A request keeps what it asks for until it is answered.
LEMMA TargetsStay ==
    ASSUME IInv, TargetInv,
           \A q \in Request : Moved(request[q], request'[q])
    PROVE  TargetInv'
<1> USE DEF Moved
<1> SUFFICES ASSUME NEW q \in Request
             PROVE  /\ request'[q].kind \in {"remove", "none"} =>
                           request'[q].target = None /\ ~request'[q].withKey
                    /\ request'[q].kind = "save" =>
                           /\ request'[q].target # None
                           /\ request'[q].withKey =>
                                  request'[q].target \notin Keyless
  BY DEF TargetInv
<1>1. request[q] \in Requests
  BY DEF IInv, TypeOK, Requests
<1>2. CASE request'[q] = Over
  BY <1>2 DEF Over, NoAsk
<1>3. CASE request'[q] # Over
  <2>1. /\ request'[q].kind = request[q].kind
        /\ request'[q].target = request[q].target
        /\ request'[q].withKey = request[q].withKey
    BY <1>1, <1>3 DEF Requests
  <2>2. QED BY <2>1 DEF TargetInv
<1>4. QED BY <1>2, <1>3

\* The end of a turn, its next step and its failure keep requests in order.
LEMMA TurnOrders ==
    ASSUME IInv, OrderInv, TargetInv, turn.pc # "none", NEW pc,
           Continue(pc) \/ Throw
    PROVE  OrderInv' /\ TargetInv'
<1>1. /\ request \in [Request -> Requests] /\ None \notin Request
      /\ "sync" \notin Request
  BY CredentialRotationAssumption DEF IInv, TypeOK, Requests
<1>2. CASE End
  <2>1. /\ turn' = NoTurn /\ sync'.by = sync.by
        /\ \A q \in Request : q # turn.who => request'[q] = request[q]
    BY <1>1, <1>2 DEF End, Released, Answered, IInv, TypeOK
  <2>2. \A q \in Request : \/ request'[q] = request[q]
                           \/ request'[q] = Over
                           \/ request'[q] = [request[q] EXCEPT !.at = "after"]
    BY <1>1, <1>2 DEF End, Answered
  <2>3. OrderInv'
    BY <1>1, <2>1 DEF OrderInv, NoTurn
  <2>4. TargetInv'
    BY <2>2, TargetsStay DEF Moved
  <2>5. QED BY <2>3, <2>4
<1>3. CASE pc # "end" /\ Continue(pc)
  <2>1. turn' = [turn EXCEPT !.pc = pc] /\ UNCHANGED <<request, sync>>
    BY <1>3 DEF Continue
  <2>2. QED BY <2>1 DEF OrderInv, TargetInv, IInv, TypeOK
<1>4. CASE Throw
  <2>1. /\ turn' = NoTurn /\ sync' \in {sync, NoSync}
        /\ sync' = sync =>
               \A q \in Request : q # turn.who => request'[q] = request[q]
    BY <1>1, <1>4 DEF Throw, Answered, OrderInv, NoSync
  <2>2. \A q \in Request : request'[q] = request[q] \/ request'[q] = Over
    BY <1>4 DEF Throw, Answered
  <2>3. OrderInv'
    BY <1>1, <2>1 DEF OrderInv, NoTurn, NoSync
  <2>4. TargetInv'
    BY <2>2, TargetsStay DEF Moved
  <2>5. QED BY <2>3, <2>4
<1>5. QED BY <1>2, <1>3, <1>4 DEF Continue

\* A step outside the turns writes no map, and leaves the turn to its owner.
LEMMA CalmKeeps ==
    ASSUME IInv, CommitInv, OrderInv', TargetInv',
           UNCHANGED <<vault, promise>>, unsure \subseteq unsure',
           Clean' => UNCHANGED file /\ cache' = file,
           \/ UNCHANGED turn
           \/ turn'.pc = "recover" /\ (turn = NoTurn \/ unsure' # {})
              /\ turn' # NoTurn,
           UNCHANGED turn /\ turn.who \in Request =>
               request'[turn.who] = request[turn.who],
           unsure' = {} /\ Late(sync, file) => Late(sync', file)
    PROVE  CommitInv'
<1> USE DEF CommitInv
<1>1. (Clean' => Clean) /\ (Sure' => Sure /\ Clean')
  BY DEF Clean, Sure
<1>2. unsure' = {} => unsure = {}
  OBVIOUS
<1>3. KeptInv'
  BY <1>1 DEF KeptInv
<1>4. StagedInv'
  BY <1>1 DEF StagedInv
<1>5. AsideInv'
  BY <1>1, <1>2 DEF AsideInv
<1>6. CASE UNCHANGED turn
  <2>1. Kind' = Kind
    BY <1>6 DEF Kind
  <2>2. JournalInv'
    BY <1>2, <1>6, <2>1 DEF JournalInv
  <2>3. PlannedInv'
    <3> SUFFICES ASSUME turn.pc \in Publishing
                 PROVE  Fulfils(vault, turn.who, request'[turn.who],
                                Clean', Sure', promise)
      BY <1>6 DEF PlannedInv
    <3>1. request'[turn.who] = request[turn.who]
      BY <1>6 DEF IInv, TurnInv
    <3>2. Fulfils(vault, turn.who, request[turn.who], Clean, Sure, promise)
      BY DEF PlannedInv
    <3>3. QED BY <1>1, <3>1, <3>2 DEF Fulfils
  <2>4. QED BY <1>3, <1>4, <1>5, <2>2, <2>3
<1>7. CASE turn'.pc = "recover" /\ (turn = NoTurn \/ unsure' # {})
           /\ turn' # NoTurn
  <2>1. JournalInv'
    BY <1>7 DEF JournalInv, Journalling, Publishing
  <2>2. PlannedInv'
    BY <1>7 DEF PlannedInv, Publishing
  <2>3. QED BY <1>3, <1>4, <1>5, <2>1, <2>2
<1>8. QED BY <1>6, <1>7

\* A new request disturbs no other.
LEMMA AskStands == ASSUME IInv, CommitInv, NEW q \in Request, Ask(q)
                   PROVE  CommitInv'
<1>1. PICK kind \in Kinds, target \in Provider, withKey \in BOOLEAN :
         /\ (target # None) <=> (kind = "save")
         /\ withKey => kind # "remove" /\ target \notin Keyless
         /\ request' = [request EXCEPT ![q] =
                [at |-> IF kind = "set" THEN "queued" ELSE "before",
                 kind |-> kind, target |-> target, withKey |-> withKey]]
  BY DEF Ask
<1>2. /\ request[q].at = "new"
      /\ UNCHANGED <<file, cache, vault, sync, base, turn, troubles, promise,
                     unsure>>
  BY DEF Ask
<1>3. request \in [Request -> Requests]
  BY DEF IInv, TypeOK, Requests
<1>4. \A r \in Request : r # q => request'[r] = request[r]
  BY <1>1, <1>3
<1>5. q # turn.who /\ q # sync.by
  BY <1>2 DEF CommitInv, OrderInv
<1>6. OrderInv'
  BY <1>2, <1>4, <1>5 DEF CommitInv, OrderInv
<1>7. TargetInv'
  BY <1>1, <1>3, <1>4 DEF CommitInv, TargetInv, Kinds
<1>8. Clean' => cache' = file
  BY <1>2 DEF Clean, CommitInv, KeptInv
<1>9. QED BY <1>2, <1>4, <1>5, <1>6, <1>7, <1>8, CalmKeeps

\* A request takes its turn when no other has it.
LEMMA TakeTurnStands == ASSUME IInv, CommitInv, NEW q \in Request, TakeTurn(q)
                        PROVE  CommitInv'
<1>1. /\ turn = NoTurn /\ request[q].at = "queued"
      /\ turn' = [who |-> q, pc |-> "recover"]
      /\ request' = [request EXCEPT ![q].at = "turn"]
      /\ UNCHANGED <<file, cache, vault, sync, base, troubles, history>>
  BY DEF TakeTurn
<1>2. request \in [Request -> Requests]
  BY DEF IInv, TypeOK, Requests
<1>3. OrderInv'
  <2>1. q # sync.by
    BY <1>1 DEF CommitInv, OrderInv
  <2>2. QED BY <1>1, <1>2, <2>1 DEF CommitInv, OrderInv, Requests
<1>4. TargetInv'
  <2>1. \A r \in Request :
            Moved(request[r], request'[r])
    BY <1>1, <1>2 DEF Moved
  <2>2. QED BY <2>1, TargetsStay DEF CommitInv
<1>5. turn' # NoTurn /\ ~UNCHANGED turn
  BY <1>1, CredentialRotationAssumption DEF NoTurn
<1>6. UNCHANGED <<vault, promise, unsure, sync, file, cache>>
  BY <1>1 DEF history
<1>7. Clean' => cache' = file
  BY <1>6 DEF Clean, CommitInv, KeptInv
<1>8. turn'.pc = "recover"
  BY <1>1
<1>9. QED BY <1>1, <1>3, <1>4, <1>5, <1>6, <1>7, <1>8, CalmKeeps

\* What a sync that begins or ends does to the request that waits for it.
LEMMA AdvancedOrders ==
    ASSUME IInv, NEW by,
           NEW asked \in {request, Advanced(by), Answered({by})}
    PROVE  \A q \in Request :
               /\ Moved(request[q], asked[q])
               /\ q # by => asked[q] = request[q]
<1>1. request \in [Request -> Requests]
  BY DEF IInv, TypeOK, Requests
<1>2. ASSUME NEW q \in Request
      PROVE  /\ Answered({by})[q] = IF q = by THEN Over ELSE request[q]
             /\ by \in Request /\ request[by].at = "before" =>
                    Advanced(by)[q] = IF q = by
                                      THEN [request[q] EXCEPT !.at = "queued"]
                                      ELSE request[q]
             /\ ~(by \in Request /\ request[by].at = "before") =>
                    Advanced(by) = Answered({by})
  BY <1>1 DEF Answered, Advanced
<1>3. QED BY <1>2 DEF Moved

\* What the tracker decides keeps a late sync late.
LEMMA TrackStands ==
    ASSUME IInv, CommitInv, sync = NoSync,
           NEW by \in Request \cup {"watcher"},
           by \in Request => request[by].at \in {"before", "after"},
           NEW from, NEW seen, NEW notify, Track(by, from, seen, notify),
           UNCHANGED <<turn, vault, promise, unsure>>,
           Clean' => UNCHANGED file /\ cache' = file
    PROVE  CommitInv'
<1>1. request' \in {request, Advanced(by)}
  BY DEF Track
<1>2. \A q \in Request :
          /\ Moved(request[q], request'[q])
          /\ q # by => request'[q] = request[q]
  <2>1. request' \in {request, Advanced(by), Answered({by})}
    BY <1>1
  <2>2. QED BY <2>1, AdvancedOrders
<1>3. TargetInv'
  BY <1>2, TargetsStay DEF CommitInv
<1>4. turn.who \in Request => request'[turn.who] = request[turn.who]
  BY <1>2 DEF CommitInv, OrderInv
<1>5. OrderInv'
  <2>1. sync'.by \in Request =>
            request'[sync'.by].at \in {"before", "after"}
    <3>1. CASE UNCHANGED sync
      BY <3>1, CredentialRotationAssumption DEF NoSync
    <3>2. CASE ~UNCHANGED sync
      <4>1. sync'.by = by /\ UNCHANGED request
        BY <3>2 DEF Track
      <4>2. QED BY <4>1
    <3>3. QED BY <3>1, <3>2
  <2>2. QED BY <1>4, <2>1 DEF CommitInv, OrderInv
<1>6. QED BY <1>3, <1>4, <1>5, CalmKeeps DEF Late

\* A sync begins.
LEMMA SyncBeginsStands ==
    ASSUME IInv, CommitInv, NEW q \in Request, SyncBegins(q)
    PROVE  CommitInv'
<1>1. /\ sync = NoSync /\ request[q].at \in {"before", "after"}
      /\ Track(q, base, cache, TRUE)
      /\ UNCHANGED <<file, cache, vault, turn, promise, unsure>>
  BY DEF SyncBegins, history
<1>2. Clean' => cache' = file
  BY <1>1 DEF Clean, CommitInv, KeptInv
<1>3. QED BY <1>1, <1>2, TrackStands

\* A refresh begins.
LEMMA RefreshStands == ASSUME IInv, CommitInv, Refresh PROVE CommitInv'
<1> DEFINE seeded == IF cache = Corrupt THEN [base EXCEPT !.pending = TRUE]
                     ELSE IF base.safe = "unset"
                     THEN [base EXCEPT !.safe = cache] ELSE base
<1>1. PICK changed \in BOOLEAN : Track("watcher", seeded, file, changed)
  BY DEF Refresh
<1>2. /\ sync = NoSync /\ cache' = file /\ "watcher" \notin Request
      /\ UNCHANGED <<file, vault, turn, promise, unsure>>
  BY CredentialRotationAssumption DEF Refresh, history
<1>3. QED
  <2> HIDE DEF seeded
  <2> QED BY <1>1, <1>2, TrackStands

\* A sync takes its turn.
LEMMA SyncTurnStands == ASSUME IInv, CommitInv, SyncTurn PROVE CommitInv'
<1>1. /\ turn = NoTurn /\ sync.at = "due"
      /\ turn' = [who |-> "sync", pc |-> "recover"]
      /\ sync' = [sync EXCEPT !.at = "turn"]
      /\ UNCHANGED <<file, cache, vault, request, promise, unsure>>
  BY DEF SyncTurn, history
<1>2. OrderInv' /\ TargetInv'
  BY <1>1, CredentialRotationAssumption
     DEF CommitInv, OrderInv, TargetInv, IInv, TypeOK
<1>3. turn' # NoTurn /\ ~UNCHANGED turn
  BY <1>1, CredentialRotationAssumption DEF NoTurn
<1>4. sync'.at = "turn" /\ sync'.target = sync.target
      /\ sync'.before = sync.before
  BY <1>1 DEF IInv, TypeOK
<1>5. Late(sync, file) => Late(sync', file)
  BY <1>1, <1>4 DEF Late, NoSync
<1>6. Clean' => UNCHANGED file /\ cache' = file
  BY <1>1 DEF Clean, CommitInv, KeptInv
<1>7. QED BY <1>1, <1>2, <1>3, <1>5, <1>6, CalmKeeps

\* A late sync that has seen the file change goes on, or gives up.
LEMMA SyncCheckStands == ASSUME IInv, CommitInv, SyncCheck PROVE CommitInv'
<1>1. /\ sync.at = "check" /\ UNCHANGED <<file, cache, vault, turn, promise>>
      /\ unsure' \in {unsure, unsure \cup {"fault"}}
      /\ request' \in {request, Advanced(sync.by), Answered({sync.by})}
      /\ sync' = NoSync \/ UNCHANGED request
  BY DEF SyncCheck
<1>2. \A q \in Request :
          /\ Moved(request[q], request'[q])
          /\ q # sync.by => request'[q] = request[q]
  <2> DEFINE by == sync.by
  <2> HIDE DEF by
  <2>1. request' \in {request, Advanced(by), Answered({by})}
    BY <1>1 DEF by
  <2>2. \A q \in Request : /\ Moved(request[q], request'[q])
                           /\ q # by => request'[q] = request[q]
    BY <2>1, AdvancedOrders
  <2>3. QED BY <2>2 DEF by
<1>3. TargetInv'
  BY <1>2, TargetsStay DEF CommitInv
<1>4. turn.who \in Request => request'[turn.who] = request[turn.who]
  BY <1>2 DEF CommitInv, OrderInv
<1>5. sync' = NoSync \/ sync'.by = sync.by
  BY DEF SyncCheck, IInv, TypeOK
<1>6. OrderInv'
  BY <1>1, <1>4, <1>5, CredentialRotationAssumption
     DEF CommitInv, OrderInv, NoSync
<1>7. Clean' => UNCHANGED file /\ cache' = file
  BY <1>1 DEF Clean, CommitInv, KeptInv
<1>8. ASSUME unsure' = {}, Late(sync, file)
      PROVE  Late(sync', file)
  <2>1. cache = file /\ cache # sync.target /\ cache # Corrupt
    <3>1. unsure = {} /\ Clean
      BY <1>1, <1>8 DEF Clean
    <3>2. cache = file /\ file = promise.endpoint
      BY <3>1 DEF CommitInv, KeptInv
    <3>3. file # Corrupt
      BY <3>2, CredentialRotationAssumption DEF IInv, TypeOK, Provider
    <3>4. QED BY <1>1, <1>8, <3>2, <3>3 DEF Late
  <2>2. sync' = [sync EXCEPT !.before = sync.target, !.target = cache,
                             !.pass = @ + 1, !.at = "due"]
    BY <1>8, <2>1 DEF SyncCheck
  <2>3. /\ sync'.at = "due" /\ sync'.before = sync.target
        /\ sync'.target = cache
    BY <2>2 DEF IInv, TypeOK
  <2>4. QED BY <2>1, <2>3 DEF Late, NoSync
<1>9. unsure \subseteq unsure'
  BY <1>1
<1>10. QED BY <1>1, <1>3, <1>4, <1>6, <1>7, <1>8, <1>9, CalmKeeps

\* An edit voids what was promised, and so may a crash.
LEMMA EditStands == ASSUME IInv, CommitInv, Edit PROVE CommitInv'
<1>1. /\ unsure' = unsure \cup {"edit"}
      /\ UNCHANGED <<vault, request, sync, turn, promise>>
  BY DEF Edit, work
<1>2. OrderInv' /\ TargetInv'
  BY <1>1 DEF CommitInv, OrderInv, TargetInv
<1>3. ~Clean'
  BY <1>1 DEF Clean
<1>4. QED BY <1>1, <1>2, <1>3, CalmKeeps

LEMMA CrashStands == ASSUME IInv, CommitInv, Crash PROVE CommitInv'
<1>1. /\ request' = Answered({q \in Request : request[q] # NoAsk})
      /\ sync' = NoSync /\ turn' = [who |-> "startup", pc |-> "recover"]
      /\ unsure' = unsure \cup {"fault"} /\ cache' = file
      /\ UNCHANGED <<file, vault, promise>>
  BY DEF Crash
<1>2. turn'.who \notin Request /\ sync'.by \notin Request /\ turn' # NoTurn
  BY <1>1, CredentialRotationAssumption DEF NoSync, NoTurn
<1>3. OrderInv'
  BY <1>2 DEF OrderInv
<1>4. TargetInv'
  <2>1. \A q \in Request : Moved(request[q], request'[q])
    BY <1>1 DEF Answered, Moved
  <2>2. QED BY <2>1, TargetsStay DEF CommitInv
<1>5. UNCHANGED turn => turn.who \notin Request
  BY <1>2
<1>6. QED BY <1>1, <1>2, <1>3, <1>4, <1>5, CalmKeeps

\* What a step must leave for the next one: the journal, the key the file
\* is to get, and what stays aside.
Leaves(next, pc) ==
    /\ pc \in {"body", "end"} => next.journal = None
    /\ pc \in Journalling => next.journal # None
    /\ pc \in Publishing => Kind \in {"save", "remove"}
    /\ pc = "publish" /\ Kind = "remove" => next.journal # None
    /\ Clean /\ pc \in {"clear", "confirmed"} => StagedIn(next, file)
    /\ Clean /\ Fits(next.aside, file) =>
           /\ next.journal = None /\ ~Fits(next.active, file)
           /\ pc = "body" => turn.who \notin Request
           /\ unsure' = {} => IF pc = "end" /\ turn.who = "sync"
                              THEN sync.target # file ELSE Late(sync, file)

\* A turn that ends or is given up leaves nothing but a map.
LEMMA OverStands ==
    ASSUME IInv, CommitInv, turn.pc # "none", NEW pc, Continue(pc) \/ Throw,
           turn' = NoTurn, KeptInv',
           vault'.journal # None => unsure' # {},
           Clean' /\ Fits(vault'.aside, file') =>
               /\ vault'.journal = None /\ ~Fits(vault'.active, file')
               /\ unsure' = {} => Late(sync', file')
    PROVE  CommitInv'
<1>1. OrderInv' /\ TargetInv'
  BY TurnOrders DEF CommitInv
<1>2. turn'.pc = "none"
  BY DEF NoTurn
<1>3. JournalInv' /\ AsideInv' /\ StagedInv' /\ PlannedInv'
  BY <1>2 DEF JournalInv, AsideInv, StagedInv, PlannedInv, Journalling,
              Publishing
<1>4. QED BY <1>1, <1>3 DEF CommitInv

\* A step that writes a map and leaves the file, whether the write works, is
\* lost or throws after it.
LEMMA WriteStands ==
    ASSUME IInv, CommitInv, turn.pc # "none", NEW next,
           NEW pc \in Steps \cup {"end"}, Write(next, pc), UNCHANGED file,
           Clean' => Clean, Clean => cache' = file,
           troubles' # troubles => unsure' # {},
           Clean => file = promise'.endpoint,
           Sure' => EffectiveIn(vault', file) = promise'.key,
           Leaves(next, pc),
           Clean /\ Fits(next.aside, file) =>
               next.journal = None /\ ~Fits(next.active, file),
           pc \in Publishing =>
               Fulfils(next, turn.who, request[turn.who],
                       Clean', Sure', promise')
    PROVE  CommitInv'
<1>1. KeptInv'
  BY DEF KeptInv
<1>2. CASE UNCHANGED troubles /\ Continue(pc) /\ vault' = next /\ pc = "end"
  <2>1. End
    BY <1>2 DEF Continue
  <2>2. /\ turn' = NoTurn
        /\ turn.who = "sync" => sync'.at = "check" /\ sync'.target = sync.target
        /\ turn.who # "sync" => sync' = sync
    BY <2>1 DEF End, Released, IInv, TypeOK
  <2>3. /\ unsure' = {} /\ Clean /\ Fits(next.aside, file)
           => Late(sync', file)
    BY <1>2, <2>2 DEF Leaves, Late, NoSync
  <2>4. vault'.journal = None
    BY <1>2 DEF Leaves
  <2>5. QED BY <1>1, <1>2, <2>2, <2>3, <2>4, OverStands
<1>3. CASE UNCHANGED troubles /\ Continue(pc) /\ vault' = next /\ pc # "end"
  <2>1. turn' = [turn EXCEPT !.pc = pc] /\ UNCHANGED <<request, sync>>
    BY <1>3 DEF Continue
  <2>2. /\ turn'.who = turn.who /\ turn'.pc = pc /\ turn' # NoTurn
    <3>1. turn' \in Turns /\ turn'.who = turn.who /\ turn'.pc = pc
      BY <2>1, <1>3 DEF IInv, TypeOK, Turns
    <3>2. turn.who # None
      BY DEF IInv, TurnInv
    <3>3. QED BY <3>1, <3>2 DEF NoTurn
  <2>3. Kind' = Kind
    BY <2>1, <2>2 DEF Kind
  <2>4. OrderInv' /\ TargetInv'
    BY <1>3, TurnOrders DEF CommitInv
  <2>5. JournalInv'
    BY <1>3, <2>2, <2>3 DEF JournalInv, Leaves
  <2>6. AsideInv'
    BY <1>3, <2>1, <2>2 DEF AsideInv, Leaves
  <2>7. StagedInv'
    BY <1>3, <2>2 DEF StagedInv, Leaves
  <2>8. PlannedInv'
    BY <1>3, <2>1, <2>2 DEF PlannedInv
  <2>9. QED BY <1>1, <2>4, <2>5, <2>6, <2>7, <2>8 DEF CommitInv
<1>4. CASE vault' \in {vault, next} /\ Trouble /\ Throw
  <2>1. unsure' # {}
    BY <1>4 DEF Trouble, IInv, TypeOK
  <2>2. turn' = NoTurn
    BY <1>4 DEF Throw
  <2>3. Clean /\ Fits(vault'.aside, file) =>
            vault'.journal = None /\ ~Fits(vault'.active, file)
    BY <1>4 DEF CommitInv, AsideInv
  <2>4. QED BY <1>1, <1>4, <2>1, <2>2, <2>3, OverStands
<1>5. QED BY <1>2, <1>3, <1>4 DEF Write

\* A step that commits nothing.
LEMMA NoCommitKeeps ==
    ASSUME IInv, NoCommit, turn.pc # "none"
    PROVE  /\ UNCHANGED promise /\ Clean' = Clean /\ Sure' = Sure
           /\ Sure => Clean
           /\ troubles' # troubles => unsure' # {}
           /\ unsure' = {} => \/ unsure = {}
                              \/ Kind = "startup" /\ turn' = NoTurn
BY DEF NoCommit, Clean, Sure

\* Recovery: without a journal it puts the key of the endpoint in use to
\* use, with one it makes the map say what the journal says.
LEMMA RecoverStands ==
    ASSUME IInv, CommitInv, NEW first \in Steps, NEW afterClear, NEW next,
           \/ /\ first = "recover" /\ afterClear = "clear"
              /\ next = AfterRecovery
           \/ first = "confirm" /\ afterClear = "confirmed" /\ next = "end",
           Recover(first, afterClear, next)
    PROVE  CommitInv'
<1>1. /\ turn.pc = first /\ turn.pc # "none" /\ NoCommit
      /\ UNCHANGED <<file, base, given>>
      /\ TypeOK /\ vault \in Vault
  BY DEF Recover, Steps, IInv, TypeOK
<1>2. /\ UNCHANGED promise /\ Clean' = Clean /\ Sure' = Sure
      /\ Sure => Clean
      /\ troubles' # troubles => unsure' # {}
      /\ unsure' = {} => \/ unsure = {}
                         \/ Kind = "startup" /\ turn' = NoTurn
  BY <1>1, NoCommitKeeps
<1>3. /\ Clean => /\ cache = file /\ file = promise.endpoint
                  /\ file \in Provider /\ file # Corrupt
      /\ Sure => EffectiveIn(vault, file) = promise.key
  BY <1>1, CredentialRotationAssumption
     DEF CommitInv, KeptInv, TypeOK, Provider
<1>4. /\ next \in Steps \cup {"end"} /\ next \in {"body", "end"}
      /\ next = "body" => turn.who # "startup"
      /\ afterClear \in Steps \cup {"end"}
      /\ afterClear \in {"clear", "confirmed"}
  BY DEF AfterRecovery, Steps
<1>5. CASE vault.journal = None
  <2> DEFINE kept == IF turn.who = "sync" \/ Held(cache) = None THEN vault
                     ELSE Reconciled(vault, Held(cache))
  <2>1. Write(kept, next) /\ UNCHANGED cache
    BY <1>1, <1>5 DEF Recover
  <2>2. first = "recover" /\ next = AfterRecovery
    BY <1>1, <1>5 DEF CommitInv, JournalInv, Journalling
  <2>3. Held(cache) \in Provider
    BY <1>1, ReadTypes
  <2>4. /\ \A f : EffectiveIn(kept, f) = EffectiveIn(vault, f)
        /\ kept.journal = None
        /\ \A f : Fits(kept.aside, f) /\ Fits(kept.active, f)
                  => Fits(vault.aside, f) /\ Fits(vault.active, f)
    BY <1>1, <1>5, <2>3, ReconciledKeeps
  <2>5. Clean => Held(cache) = file
    BY <1>3 DEF Held
  <2>6. Clean /\ Fits(kept.aside, file) => ~Fits(kept.active, file)
    BY <2>4 DEF CommitInv, AsideInv
  <2>7. Clean /\ turn.who # "sync" => ~Fits(kept.aside, file)
    <3>1. CASE file = None
      BY <3>1 DEF Fits
    <3>2. CASE file # None
      <4>1. Clean /\ turn.who # "sync" => kept = Reconciled(vault, file)
        BY <2>5, <3>2
      <4>2. Clean /\ Fits(kept.aside, file) /\ turn.who # "sync"
                => Fits(vault.aside, file) /\ Fits(vault.active, file)
        BY <1>1, <1>3, <4>1, ReconciledKeeps
      <4>3. QED BY <4>2 DEF CommitInv, AsideInv
    <3>3. QED BY <3>1, <3>2
  <2>8. turn.who = "sync" => kept = vault /\ next = "body"
    BY <2>2 DEF AfterRecovery
  <2>9. Leaves(kept, next)
    <3>1. /\ next \in {"body", "end"} => kept.journal = None
          /\ next \notin Journalling /\ next \notin Publishing
      BY <1>4, <2>4 DEF Journalling, Publishing
    <3>2. ASSUME Clean, Fits(kept.aside, file)
          PROVE  /\ kept.journal = None /\ ~Fits(kept.active, file)
                 /\ turn.who = "sync" /\ next = "body"
                 /\ unsure' = {} => Late(sync, file)
      <4>1. turn.who = "sync" /\ next = "body" /\ kept = vault
        BY <3>2, <2>7, <2>8
      <4>2. Kind # "startup"
        BY <4>1, CredentialRotationAssumption DEF Kind
      <4>3. unsure = {} => Late(sync, file)
        BY <3>2, <4>1 DEF CommitInv, AsideInv
      <4>4. QED BY <1>2, <2>4, <2>6, <3>2, <4>1, <4>2, <4>3
    <3>3. "sync" \notin Request
      BY CredentialRotationAssumption
    <3>4. QED BY <3>1, <3>2, <3>3, <1>4 DEF Leaves, Journalling, Publishing
  <2>10. vault' \in {vault, kept}
    BY <2>1 DEF Write
  <2>11. next \notin Publishing
    BY <1>4 DEF Publishing
  <2>12. /\ Clean => file = promise'.endpoint
         /\ Sure' => EffectiveIn(vault', file) = promise'.key
    BY <1>2, <1>3, <2>4, <2>10
  <2>13. QED
    <3> HIDE DEF kept
    <3> QED BY <1>1, <1>2, <1>3, <1>4, <2>1, <2>4, <2>6, <2>9, <2>11, <2>12,
               WriteStands
<1>6. CASE vault.journal # None /\ Authority = Corrupt
  <2>1. Throw /\ cache' = Authority /\ UNCHANGED vault
    BY <1>1, <1>6 DEF Recover
  <2>2. ~Clean
    BY <1>3, <1>6 DEF Authority
  <2>3. KeptInv'
    BY <1>2, <2>2 DEF KeptInv
  <2>4. turn' = NoTurn
    BY <2>1 DEF Throw
  <2>5. unsure' # {}
    BY <1>2, <2>2 DEF Clean
  <2>6. QED BY <1>1, <1>2, <2>1, <2>2, <2>3, <2>4, <2>5, OverStands
<1>7. CASE vault.journal # None /\ Authority # Corrupt
  <2> DEFINE staged == Staged(vault, Authority)
  <2>1. Write(staged, afterClear) /\ cache' = Authority
    BY <1>1, <1>7 DEF Recover
  <2>2. Clean => Authority = file
    BY <1>3 DEF Authority
  <2>3. /\ staged.active = Binding(Decided(vault.journal, Authority), Authority)
        /\ staged.aside = vault.aside /\ staged.journal = vault.journal
    BY <1>1 DEF Staged, Vault
  <2>4. Clean => StagedIn(staged, file)
    BY <2>2, <2>3 DEF StagedIn
  <2>5. Clean => ~Fits(staged.aside, file)
    BY <1>7, <2>3 DEF CommitInv, AsideInv
  <2>6. \A f : EffectiveIn(staged, f) = EffectiveIn(vault, f)
    BY <1>7, <2>3 DEF EffectiveIn
  <2> HIDE DEF staged
  <2>7. Leaves(staged, afterClear)
    BY <1>4, <1>7, <2>3, <2>4, <2>5 DEF Leaves, Publishing
  <2>8. vault' \in {vault, staged}
    BY <2>1 DEF Write
  <2>9. /\ Clean => file = promise'.endpoint
        /\ Sure' => EffectiveIn(vault', file) = promise'.key
    BY <1>2, <1>3, <2>6, <2>8
  <2>10. afterClear \notin Publishing
    BY <1>4 DEF Publishing
  <2>11. Clean => cache' = file
    BY <2>1, <2>2
  <2>12. QED BY <1>1, <1>2, <1>4, <2>1, <2>5, <2>7, <2>9, <2>10, <2>11,
                WriteStands
<1>8. QED BY <1>5, <1>6, <1>7

\* The journal goes when the key in use is the one it decides for.
LEMMA ClearStands == ASSUME IInv, CommitInv, Clear PROVE CommitInv'
<1> DEFINE next == [vault EXCEPT !.journal = None]
           pc == IF turn.pc = "clear" THEN AfterRecovery ELSE "end"
<1>1. /\ turn.pc # "none" /\ Write(next, pc) /\ NoCommit
      /\ pc \in Steps \cup {"end"} /\ pc \in {"body", "end"}
      /\ turn.pc \in {"clear", "confirmed"} /\ UNCHANGED <<file, cache>>
  BY DEF Clear, AfterRecovery, Steps
<1>2. /\ UNCHANGED promise /\ Clean' = Clean /\ Sure' = Sure
      /\ Sure => Clean
      /\ troubles' # troubles => unsure' # {}
  BY <1>1, NoCommitKeeps
<1>3. /\ next.journal = None /\ next.active = vault.active
      /\ next.aside = vault.aside
  BY DEF IInv, TypeOK, Vault
<1>4. vault.journal # None
  BY <1>1 DEF CommitInv, JournalInv, Journalling
<1>5. Clean => ~Fits(vault.aside, file)
  BY <1>4 DEF CommitInv, AsideInv
<1>6. /\ Clean => cache = file /\ file = promise.endpoint
      /\ Sure => EffectiveIn(vault, file) = promise.key
  BY DEF CommitInv, KeptInv
<1>7. Clean => EffectiveIn(next, file) = EffectiveIn(vault, file)
  <2> SUFFICES ASSUME Clean
               PROVE  EffectiveIn(next, file) = Decided(vault.journal, file)
    BY <1>4 DEF EffectiveIn
  <2> DEFINE key == Decided(vault.journal, file)
  <2>1. vault.active = Binding(key, file)
    BY <1>1 DEF CommitInv, StagedInv, StagedIn
  <2>2. CASE key = None
    <3>1. ~Fits(next.active, file)
      BY <1>3, <2>1, <2>2 DEF Binding, Fits
    <3>2. QED BY <1>3, <1>5, <2>2, <3>1 DEF EffectiveIn
  <2>3. CASE key # None
    <3>1. file # None
      BY <2>3 DEF Decided
    <3>2. vault.active = [key |-> key, bound |-> file]
      BY <2>1, <2>3 DEF Binding
    <3>3. vault.active # None
      <4>1. file \in Endpoint /\ key \in Key
        <5>1. file \in Provider /\ file \in Endpoint
          BY <1>6, <3>1 DEF IInv, TypeOK, Provider
        <5>2. Effective(file) = key
          BY <1>4 DEF Effective
        <5>3. QED BY <2>3, <5>1, <5>2, ReadTypes DEF IInv
      <4>2. QED BY <3>2, <4>1, NoneAssumption
    <3>4. Fits(next.active, file) /\ next.active.key = key
      BY <1>3, <3>1, <3>2, <3>3 DEF Fits
    <3>5. QED BY <1>3, <1>5, <3>4 DEF EffectiveIn
  <2>4. QED BY <2>2, <2>3
<1> HIDE DEF next, pc
<1>8. Leaves(next, pc)
  BY <1>1, <1>3, <1>5 DEF Leaves, Journalling, Publishing
<1>9. vault' \in {vault, next}
  BY <1>1 DEF Write
<1>10. /\ Clean => file = promise'.endpoint
       /\ Sure' => EffectiveIn(vault', file) = promise'.key
  BY <1>2, <1>6, <1>7, <1>9
<1>11. /\ pc \notin Publishing
       /\ Clean => cache' = file
       /\ Clean => ~Fits(next.aside, file)
  BY <1>1, <1>3, <1>5, <1>6 DEF Publishing
<1>12. QED BY <1>1, <1>2, <1>8, <1>10, <1>11, WriteStands

\* The key in use is dropped while the journal has what is needed.
LEMMA EraseStands == ASSUME IInv, CommitInv, Erase PROVE CommitInv'
<1> DEFINE next == [vault EXCEPT !.active = None]
           pc == IF turn.pc = "erase" THEN "publish" ELSE "confirm"
<1>1. /\ turn.pc # "none" /\ Write(next, pc) /\ NoCommit
      /\ pc \in Steps \cup {"end"} /\ pc \in {"publish", "confirm"}
      /\ pc = "publish" => turn.pc = "erase"
      /\ turn.pc \in {"erase", "drop"} /\ UNCHANGED <<file, cache>>
  BY DEF Erase, Steps
<1>2. /\ UNCHANGED promise /\ Clean' = Clean /\ Sure' = Sure
      /\ Sure => Clean
      /\ troubles' # troubles => unsure' # {}
  BY <1>1, NoCommitKeeps
<1>3. /\ next.journal = vault.journal /\ next.active = None
      /\ next.aside = vault.aside
  BY DEF IInv, TypeOK, Vault
<1>4. vault.journal # None
  BY <1>1 DEF CommitInv, JournalInv, Journalling
<1>5. Clean => ~Fits(vault.aside, file)
  BY <1>4 DEF CommitInv, AsideInv
<1>6. /\ Clean => cache = file /\ file = promise.endpoint
      /\ Sure => EffectiveIn(vault, file) = promise.key
  BY DEF CommitInv, KeptInv
<1> HIDE DEF next, pc
<1>7. \A f : EffectiveIn(next, f) = EffectiveIn(vault, f)
  BY <1>3, <1>4 DEF EffectiveIn
<1>8. pc = "publish" =>
          /\ Kind \in {"save", "remove"}
          /\ Fulfils(next, turn.who, request[turn.who], Clean, Sure, promise)
  <2> SUFFICES ASSUME turn.pc = "erase"
               PROVE  /\ Kind \in {"save", "remove"}
                      /\ Fulfils(next, turn.who, request[turn.who], Clean,
                                 Sure, promise)
    BY <1>1
  <2>1. /\ Kind \in {"save", "remove"}
        /\ Fulfils(vault, turn.who, request[turn.who], Clean, Sure, promise)
    BY DEF CommitInv, JournalInv, PlannedInv, Publishing
  <2>2. QED BY <1>4, <1>7, <2>1 DEF Fulfils
<1>9. Leaves(next, pc)
  BY <1>1, <1>3, <1>4, <1>5, <1>8 DEF Leaves, Journalling, Publishing
<1>10. vault' \in {vault, next}
  BY <1>1 DEF Write
<1>11. /\ Clean => file = promise'.endpoint
       /\ Sure' => EffectiveIn(vault', file) = promise'.key
  BY <1>2, <1>6, <1>7, <1>10
<1>12. Clean => cache' = file /\ ~Fits(next.aside, file)
  BY <1>1, <1>3, <1>5, <1>6
<1>13. pc \in Publishing =>
           Fulfils(next, turn.who, request[turn.who], Clean', Sure', promise')
  BY <1>1, <1>2, <1>8 DEF Publishing
<1>14. QED BY <1>1, <1>2, <1>9, <1>11, <1>12, <1>13, WriteStands

\* What the body of a request finds after its recovery.
LEMMA BodyFinds ==
    ASSUME IInv, CommitInv, turn.pc = "body", Kind \in Kinds
    PROVE  /\ turn.who \in Request /\ request[turn.who] \in Requests
           /\ request[turn.who].kind = Kind /\ turn.pc # "none"
           /\ vault.journal = None /\ vault \in Vault
           /\ Clean => /\ cache = file /\ Held(cache) = file
                       /\ file = promise.endpoint
                       /\ file \in Provider /\ file # Corrupt
                       /\ ~Fits(vault.aside, file)
           /\ Sure => /\ Clean /\ KeyFor(file) = promise.key
                      /\ EffectiveIn(vault, file) = promise.key
<1>1. turn.pc # "none"
  OBVIOUS
<1>2. /\ turn.who \in Request /\ request[turn.who] \in Requests
      /\ request[turn.who].kind = Kind
  BY <1>1, TurnOfRequest
<1>3. vault.journal = None /\ vault \in Vault
  BY DEF CommitInv, JournalInv, IInv, TypeOK
<1>4. ASSUME Clean
      PROVE  /\ cache = file /\ Held(cache) = file
             /\ file = promise.endpoint
             /\ file \in Provider /\ file # Corrupt
             /\ ~Fits(vault.aside, file)
  <2>1. cache = file /\ file = promise.endpoint
    BY <1>4 DEF CommitInv, KeptInv
  <2>2. file \in Provider /\ file # Corrupt
    BY <2>1, CredentialRotationAssumption DEF IInv, TypeOK, Provider
  <2>3. ~Fits(vault.aside, file)
    BY <1>2, <1>4 DEF CommitInv, AsideInv
  <2>4. QED BY <2>1, <2>2, <2>3 DEF Held
<1>5. ASSUME Sure
      PROVE  /\ Clean /\ KeyFor(file) = promise.key
             /\ EffectiveIn(vault, file) = promise.key
  <2>1. Clean /\ EffectiveIn(vault, file) = promise.key
    BY <1>5 DEF Sure, CommitInv, KeptInv
  <2>2. KeyFor(file) = EffectiveIn(vault, file)
    BY <1>3, <1>4, <2>1 DEF EffectiveIn, KeyFor
  <2>3. QED BY <2>1, <2>2
<1>6. QED BY <1>1, <1>2, <1>3, <1>4, <1>5

\* A turn that was told wrongly of the map is not sure of the key.
LEMMA ReadsTold ==
    ASSUME IInv, NEW key, NEW stored,
           unsure' = unsure \cup Unread(key, stored) \cup Fault
    PROVE  /\ Clean' = Clean
           /\ troubles' # troubles => unsure' # {}
           /\ Sure' => /\ Sure /\ Clean' /\ key = KeyFor(Held(cache))
                       /\ key = None => stored = (vault.active # None)
BY DEF Clean, Sure, Unread, Fault

\* A removal that begins promises no key, and leaves the one there is.
LEMMA RemoveStands == ASSUME IInv, CommitInv, RemoveBegins PROVE CommitInv'
<1> DEFINE q == turn.who
<1>1. PICK key \in ProviderKey(Held(cache)) :
         /\ Write([vault EXCEPT !.journal = Journalled(q, key)], "publish")
         /\ unsure' = unsure \cup Unread(key, vault.active # None) \cup Fault
  BY DEF RemoveBegins
<1> DEFINE next == [vault EXCEPT !.journal = Journalled(q, key)]
<1>2. /\ turn.pc = "body" /\ turn.pc # "none" /\ Kind = "remove"
      /\ Write(next, "publish") /\ UNCHANGED <<file, cache, promise>>
      /\ "publish" \in Steps \cup {"end"}
  BY <1>1 DEF RemoveBegins, Steps
<1>3. /\ Clean' = Clean /\ (troubles' # troubles => unsure' # {})
      /\ Sure' => Sure /\ Clean' /\ key = KeyFor(Held(cache))
  BY <1>1, ReadsTold
<1>4. /\ q \in Request /\ request[q].kind = "remove" /\ vault.journal = None
      /\ Clean => /\ cache = file /\ Held(cache) = file
                  /\ file = promise.endpoint
                  /\ ~Fits(vault.aside, file)
      /\ Sure => Clean /\ KeyFor(file) = promise.key
      /\ Sure => EffectiveIn(vault, file) = promise.key
  BY <1>2, BodyFinds DEF Kinds
<1>5. /\ next.journal = Journalled(q, key) /\ next.journal # None
      /\ next.active = vault.active /\ next.aside = vault.aside
  BY <1>2, JournalledType
<1>6. request[q].target = None /\ ~request[q].withKey
  BY <1>4 DEF CommitInv, TargetInv
<1>7. /\ next.journal.previous = Held(cache) /\ next.journal.target = None
      /\ next.journal.previousKey = key /\ next.journal.targetKey = None
  BY <1>2, <1>5, <1>6 DEF Journalled
<1> HIDE DEF next, q
<1>8. EffectiveIn(next, None) = None
  BY <1>5 DEF EffectiveIn, Decided
<1>9. Sure' => EffectiveIn(next, file) = promise.key
  <2>1. CASE file = None
    BY <1>3, <1>4, <1>8, <2>1 DEF KeyFor, Fits
  <2>2. CASE file # None
    BY <1>3, <1>4, <1>5, <1>7, <2>2 DEF EffectiveIn, Decided
  <2>3. QED BY <2>1, <2>2
<1>10. Fulfils(next, q, request[q], Clean', Sure', promise')
  BY <1>4, <1>6, <1>8 DEF Fulfils, KeepsIn
<1>11. Leaves(next, "publish")
  BY <1>2, <1>4, <1>5 DEF Leaves, Journalling
<1>12. vault' \in {vault, next}
  BY <1>2 DEF Write
<1>13. /\ Clean => cache' = file
       /\ Clean => ~Fits(next.aside, file)
       /\ Clean => file = promise'.endpoint
       /\ Sure' => EffectiveIn(vault', file) = promise'.key
  BY <1>2, <1>3, <1>4, <1>5, <1>9, <1>12
<1>14. Fulfils(next, turn.who, request[turn.who], Clean', Sure', promise')
  BY <1>10 DEF q
<1>15. QED BY <1>2, <1>3, <1>11, <1>13, <1>14, WriteStands

\* What a save that begins knows of the key it is to leave, if it was told
\* of `key`.
LEMMA SavePlans ==
    ASSUME IInv, CommitInv, turn.pc = "body", Kind = "save",
           NEW key \in ProviderKey(Held(cache)), NEW q, q = turn.who,
           NEW next, next = [vault EXCEPT !.journal = Journalled(q, key)]
    PROVE  /\ EffectiveIn(next, request[q].target) = TargetKey(q, key)
           /\ request[q].withKey => TargetKey(q, key) = q
           /\ request[q].target \in Keyless => TargetKey(q, key) = None
           /\ Clean /\ request[q].target # file /\ ~request[q].withKey =>
                  TargetKey(q, key) = None
           /\ Sure /\ key = KeyFor(Held(cache)) =>
                  /\ request[q].target # file =>
                         EffectiveIn(next, file) = promise.key
                  /\ /\ request[q].target = file /\ ~request[q].withKey
                     /\ file \notin Keyless
                     => TargetKey(q, key) = promise.key
<1> DEFINE target == request[q].target
<1>1. /\ q \in Request /\ request[q].kind = "save" /\ vault.journal = None
      /\ Clean => /\ cache = file /\ Held(cache) = file
                  /\ file = promise.endpoint
                  /\ ~Fits(vault.aside, file)
      /\ Sure => Clean /\ KeyFor(file) = promise.key
  BY BodyFinds DEF Kinds
<1>2. next.journal = Journalled(q, key) /\ next.journal # None
  BY JournalledType
<1>3. target # None /\ (request[q].withKey => target \notin Keyless)
  BY <1>1 DEF CommitInv, TargetInv
<1>4. /\ next.journal.previous = Held(cache) /\ next.journal.target = target
      /\ next.journal.previousKey = key
      /\ next.journal.targetKey = TargetKey(q, key)
  BY <1>2 DEF Journalled
<1>5. target \in Keyless => TargetKey(q, key) = None
  BY DEF TargetKey
<1>6. request[q].withKey => TargetKey(q, key) = q
  BY <1>3 DEF TargetKey
<1>7. Clean /\ target # file /\ ~request[q].withKey => TargetKey(q, key) = None
  BY <1>1 DEF TargetKey, Replaced
<1> HIDE DEF target
<1>8. EffectiveIn(next, target) = TargetKey(q, key)
  BY <1>2, <1>3, <1>4 DEF EffectiveIn, Decided
<1>9. ASSUME Sure, key = KeyFor(Held(cache)), target # file
      PROVE  EffectiveIn(next, file) = promise.key
  <2>1. CASE file = None
    BY <1>1, <1>2, <1>9, <2>1 DEF EffectiveIn, Decided, KeyFor, Fits
  <2>2. CASE file # None
    BY <1>1, <1>2, <1>4, <1>9, <2>2 DEF EffectiveIn, Decided
  <2>3. QED BY <2>1, <2>2
<1>10. ASSUME Sure, key = KeyFor(Held(cache)), target = file,
              ~request[q].withKey, file \notin Keyless
       PROVE  TargetKey(q, key) = promise.key
  BY <1>1, <1>3, <1>10 DEF TargetKey, Replaced, target
<1>11. QED BY <1>5, <1>6, <1>7, <1>8, <1>9, <1>10 DEF target

\* A save begins with a journal of what it changes, or without one when it
\* was told that there is nothing to lose.
LEMMA SaveStands == ASSUME IInv, CommitInv, SaveBegins PROVE CommitInv'
<1> DEFINE q == turn.who
           target == request[q].target
<1>1. PICK key \in ProviderKey(Held(cache)), stored \in HasKey :
         /\ \/ /\ ~NeedsJournal(q, key, stored)
               /\ Continue("publish") /\ UNCHANGED <<vault, troubles>>
            \/ /\ NeedsJournal(q, key, stored)
               /\ Write([vault EXCEPT !.journal = Journalled(q, key)],
                        IF \/ Replaced(q) \/ request[q].target \in Keyless
                           \/ Held(cache) = None \/ Mismatched(key, stored)
                        THEN "erase" ELSE "publish")
         /\ promise' = IF vault' # vault /\ request[q].target = file
                       THEN [endpoint |-> file, key |-> Expected(q)]
                       ELSE promise
         /\ unsure' = unsure \cup Unread(key, stored) \cup Fault
  BY DEF SaveBegins
<1> DEFINE next == [vault EXCEPT !.journal = Journalled(q, key)]
           pc == IF \/ Replaced(q) \/ request[q].target \in Keyless
                    \/ Held(cache) = None \/ Mismatched(key, stored)
                 THEN "erase" ELSE "publish"
<1>2. /\ turn.pc = "body" /\ turn.pc # "none" /\ Kind = "save"
      /\ UNCHANGED <<file, cache>>
  BY DEF SaveBegins
<1>3. /\ Clean' = Clean /\ (troubles' # troubles => unsure' # {})
      /\ Sure' => /\ Sure /\ Clean' /\ key = KeyFor(Held(cache))
                  /\ key = None => stored = (vault.active # None)
  BY <1>1, ReadsTold
<1>4. /\ q \in Request /\ request[q].kind = "save" /\ vault.journal = None
      /\ Clean => /\ cache = file /\ Held(cache) = file
                  /\ file = promise.endpoint
                  /\ ~Fits(vault.aside, file)
      /\ Sure => Clean /\ EffectiveIn(vault, file) = promise.key
  BY <1>2, BodyFinds DEF Kinds
<1>5. CASE ~NeedsJournal(q, key, stored)
  <2>1. /\ Continue("publish") /\ UNCHANGED <<vault, troubles, promise>>
    BY <1>1, <1>5
  <2>2. Write(vault, "publish") /\ "publish" \in Steps \cup {"end"}
    BY <2>1 DEF Write, Steps
  <2>3. Leaves(vault, "publish")
    BY <1>2, <1>4 DEF Leaves, Journalling
  <2>4. /\ ~request[q].withKey /\ target \notin Keyless
        /\ Held(cache) # None => Held(cache) = target
        /\ key = None /\ stored = FALSE
    BY <1>5 DEF NeedsJournal, Replaced, Mismatched, HasKey
  <2>5. Fulfils(vault, q, request[q], Clean', Sure', promise')
    <3>1. CASE ~Sure'
      BY <1>4, <2>4, <3>1 DEF Fulfils
    <3>2. CASE Sure' /\ ~Fits(vault.aside, target)
      <4>1. vault.active = None
        BY <1>3, <2>4, <3>2
      <4>2. EffectiveIn(vault, target) = None
        BY <1>4, <3>2, <4>1 DEF EffectiveIn, Fits
      <4>3. target = promise.endpoint => promise.key = None
        BY <1>3, <1>4, <3>2, <4>2
      <4>4. QED BY <2>1, <2>4, <4>2, <4>3 DEF Fulfils, KeepsIn
    <3>3. CASE Fits(vault.aside, target)
      BY <1>4, <3>3 DEF Fulfils
    <3>4. QED BY <3>1, <3>2, <3>3
  <2>6. Fulfils(vault, turn.who, request[turn.who], Clean', Sure', promise')
    BY <2>5
  <2>7. /\ Clean => cache' = file
        /\ Clean => ~Fits(vault.aside, file)
        /\ Clean => file = promise'.endpoint
        /\ Sure' => EffectiveIn(vault', file) = promise'.key
    BY <1>2, <1>3, <1>4, <2>1
  <2> HIDE DEF q
  <2>8. QED BY <1>2, <1>3, <2>2, <2>3, <2>6, <2>7, WriteStands
<1>6. CASE NeedsJournal(q, key, stored)
  <2>1. /\ Write(next, pc) /\ pc \in Steps \cup {"end"}
        /\ pc \in {"erase", "publish"}
    BY <1>1, <1>6 DEF Steps
  <2>2. /\ next.journal # None
        /\ next.active = vault.active /\ next.aside = vault.aside
    BY <1>2, JournalledType
  <2>3. /\ EffectiveIn(next, target) = TargetKey(q, key)
        /\ request[q].withKey => TargetKey(q, key) = q
        /\ target \in Keyless => TargetKey(q, key) = None
        /\ Clean /\ target # file /\ ~request[q].withKey =>
               TargetKey(q, key) = None
        /\ Sure' /\ target # file => EffectiveIn(next, file) = promise.key
        /\ /\ Sure' /\ target = file /\ ~request[q].withKey
           /\ file \notin Keyless
           => TargetKey(q, key) = promise.key
    BY <1>2, <1>3, SavePlans
  <2>4. Clean /\ ~request[q].withKey =>
            Expected(q) = IF target \in {promise.endpoint} \ Keyless
                          THEN promise.key ELSE None
    BY <1>4 DEF Expected, Keeps
  <2>5. request[q].withKey => Expected(q) = q
    BY DEF Expected, Keeps
  <2>6. \/ /\ vault' = next /\ target = file
           /\ promise' = [endpoint |-> file, key |-> Expected(q)]
        \/ /\ vault' = vault \/ target # file
           /\ vault' \in {vault, next} /\ promise' = promise
    BY <1>1, <2>1, <2>2, <1>4 DEF Write
  <2> HIDE DEF next, pc, q, target
  <2>7. Sure' => EffectiveIn(vault', file) = promise'.key
    <3>1. CASE /\ vault' = next /\ target = file
               /\ promise' = [endpoint |-> file, key |-> Expected(q)]
      BY <1>3, <1>4, <2>3, <2>4, <2>5, <3>1
    <3>2. CASE /\ vault' = vault \/ target # file
               /\ vault' \in {vault, next} /\ promise' = promise
      BY <1>3, <1>4, <2>3, <3>2
    <3>3. QED BY <2>6, <3>1, <3>2
  <2>8. Fulfils(next, q, request[q], Clean', Sure', promise')
    <3>1. CASE request[q].withKey
      BY <2>3, <3>1 DEF Fulfils, target
    <3>2. CASE ~request[q].withKey /\ ~Clean
      BY <1>3, <3>2 DEF Fulfils
    <3>3. CASE ~request[q].withKey /\ Clean
      <4>1. promise'.endpoint = file
        BY <1>4, <2>6, <3>3
      <4>2. KeepsIn(request[q], promise')
                <=> target = file /\ file \notin Keyless
        BY <1>4, <3>3, <4>1 DEF KeepsIn, target
      <4>3. target = file /\ file \notin Keyless => promise'.key = promise.key
        BY <1>4, <2>4, <2>6, <3>3
      <4>4. QED BY <2>3, <3>3, <4>2, <4>3 DEF Fulfils, target
    <3>4. QED BY <3>1, <3>2, <3>3
  <2>9. Leaves(next, pc)
    BY <1>2, <1>4, <2>1, <2>2 DEF Leaves, Journalling
  <2>10. /\ Clean => cache' = file
         /\ Clean => ~Fits(next.aside, file)
         /\ Clean => file = promise'.endpoint
    BY <1>2, <1>4, <2>2, <2>6
  <2>11. Fulfils(next, turn.who, request[turn.who], Clean', Sure', promise')
    BY <2>8 DEF q
  <2>12. QED BY <1>2, <1>3, <2>1, <2>7, <2>9, <2>10, <2>11, WriteStands
<1>7. QED BY <1>5, <1>6

\* A publication makes the promise that the journal was written for.
LEMMA PublishStands == ASSUME IInv, CommitInv, Publish PROVE CommitInv'
<1> DEFINE q == turn.who
           target == request[q].target
<1>1. /\ turn.pc = "publish" /\ turn.pc # "none" /\ UNCHANGED vault
      /\ Kind \in {"save", "remove"}
  BY DEF Publish, CommitInv, JournalInv, Publishing
<1>2. /\ q \in Request /\ request[q] \in Requests /\ Kind = request[q].kind
  BY <1>1, TurnOfRequest DEF Kinds
<1>3. Fulfils(vault, q, request[q], Clean, Sure, promise)
  BY <1>1 DEF CommitInv, PlannedInv, Publishing
<1>4. CASE /\ Throw /\ NoCommit /\ UNCHANGED file
           /\ \/ Corrupt \in {cache, file}
              \/ Trouble /\ cache' = file
  <2>1. /\ UNCHANGED promise /\ Clean' = Clean /\ Sure' = Sure
        /\ Sure => Clean
        /\ troubles' # troubles => unsure' # {}
        /\ unsure' = {} => \/ unsure = {}
                           \/ Kind = "startup" /\ turn' = NoTurn
    BY <1>1, <1>4, NoCommitKeeps
  <2>2. /\ Clean => /\ cache = file /\ file = promise.endpoint
                    /\ file # Corrupt
        /\ Sure => EffectiveIn(vault, file) = promise.key
    BY CredentialRotationAssumption
       DEF CommitInv, KeptInv, IInv, TypeOK, Provider
  <2>3. Clean => Trouble /\ cache' = file
    BY <1>4, <2>2
  <2>4. KeptInv'
    BY <1>1, <1>4, <2>1, <2>2, <2>3 DEF KeptInv
  <2>5. unsure' # {}
    <3>1. CASE Clean
      BY <2>1, <2>3, <3>1 DEF Trouble, IInv, TypeOK
    <3>2. CASE ~Clean
      BY <2>1, <3>2 DEF Clean
    <3>3. QED BY <3>1, <3>2
  <2>6. turn' = NoTurn
    BY <1>4 DEF Throw
  <2>7. Clean /\ Fits(vault.aside, file) =>
            vault.journal = None /\ ~Fits(vault.active, file)
    BY DEF CommitInv, AsideInv
  <2>8. QED BY <1>1, <1>4, <2>1, <2>4, <2>5, <2>6, <2>7, OverStands
<1>5. CASE /\ file' = target
           /\ Commit(target, Expected(q), Keeps(q) \/ vault.journal = None)
           /\ \/ /\ cache' = target
                 /\ Continue(AfterPublication) /\ UNCHANGED troubles
              \/ cache' \in {file, target} /\ Trouble /\ Throw
  <2>1. /\ promise'.endpoint = target /\ promise'.key = Expected(q)
        /\ Clean' => cache' = file' /\ ~Fits(vault.aside, target)
        /\ troubles' # troubles => unsure' # {}
    BY <1>5 DEF Commit, Clean, Fault
  <2>2. Sure' => /\ Clean'
                 /\ Keeps(q) \/ vault.journal = None => "unread" \notin unsure
    BY <1>5 DEF Commit, Clean, Sure
  <2>3. Keeps(q) <=> Clean /\ KeepsIn(request[q], promise)
    BY DEF Keeps, KeepsIn
  <2>4. \/ EffectiveIn(vault, target) = Expected(q)
        \/ vault.journal = None /\ Fits(vault.aside, target)
        \/ /\ Clean /\ ~Sure
           /\ Keeps(q) \/ vault.journal = None
    <3>1. CASE request[q].withKey
      BY <1>3, <3>1 DEF Fulfils, Expected, Keeps, KeepsIn
    <3>2. CASE ~request[q].withKey /\ Clean
      <4>1. Expected(q) = IF KeepsIn(request[q], promise)
                          THEN promise.key ELSE None
        BY <2>3, <3>2 DEF Expected
      <4>2. QED BY <1>3, <2>3, <3>2, <4>1 DEF Fulfils
    <3>3. CASE ~request[q].withKey /\ ~Clean
      <4>1. Expected(q) = Effective(target)
        BY <2>3, <3>3 DEF Expected
      <4>2. QED BY <4>1, EffectiveOf
    <3>4. QED BY <3>1, <3>2, <3>3
  <2>5. KeptInv'
    <3>1. Clean /\ ~Sure => "unread" \in unsure
      BY DEF Sure
    <3>2. Sure' => EffectiveIn(vault', file') = promise'.key
      BY <1>1, <1>5, <2>1, <2>2, <2>4, <3>1
    <3>3. QED BY <1>5, <2>1, <3>2 DEF KeptInv
  <2>6. Clean' => ~Fits(vault'.aside, file')
    BY <1>1, <1>5, <2>1
  <2>7. CASE cache' \in {file, target} /\ Trouble /\ Throw
    <3>1. turn' = NoTurn /\ unsure' # {}
      BY <2>1, <2>7 DEF Throw, Trouble, IInv, TypeOK
    <3>2. QED BY <1>1, <2>5, <2>6, <2>7, <3>1, OverStands
  <2>8. CASE Continue(AfterPublication) /\ AfterPublication = "end"
    <3>1. vault'.journal = None
      BY <1>1, <2>8 DEF AfterPublication
    <3>2. turn' = NoTurn
      BY <2>8 DEF Continue, End, Released
    <3>3. QED BY <1>1, <2>5, <2>6, <2>8, <3>1, <3>2, OverStands
  <2>9. CASE Continue(AfterPublication) /\ AfterPublication # "end"
    <3>1. /\ turn' = [turn EXCEPT !.pc = AfterPublication]
          /\ UNCHANGED <<request, sync>>
      BY <2>9 DEF Continue
    <3>2. AfterPublication \in {"drop", "confirm"}
      BY <2>9 DEF AfterPublication
    <3>3. turn'.pc = AfterPublication /\ turn'.who = turn.who
      BY <3>1 DEF IInv, TypeOK
    <3>4. vault'.journal # None
      BY <1>1, <2>9 DEF AfterPublication, CommitInv, JournalInv
    <3>5. turn' # NoTurn
      BY <1>2, <3>3, CredentialRotationAssumption DEF NoTurn
    <3>6. OrderInv' /\ TargetInv'
      BY <1>1, <2>9, TurnOrders DEF CommitInv
    <3>7. JournalInv'
      BY <3>2, <3>3, <3>4, <3>5 DEF JournalInv, Publishing
    <3>8. AsideInv' /\ StagedInv' /\ PlannedInv'
      BY <2>6, <3>2, <3>3 DEF AsideInv, StagedInv, PlannedInv, Publishing
    <3>9. QED BY <2>5, <3>6, <3>7, <3>8 DEF CommitInv
  <2>10. QED BY <1>5, <2>7, <2>8, <2>9
<1>6. QED BY <1>4, <1>5 DEF Publish

\* A new key is promised at once, if it is bound to what the file says.
LEMMA SetKeyStands == ASSUME IInv, CommitInv, SetKey PROVE CommitInv'
<1> DEFINE q == turn.who
           endpoint == Held(cache)
           key == IF request[q].withKey /\ endpoint \notin Keyless
                  THEN q ELSE None
           next == [vault EXCEPT !.active = Binding(key, endpoint)]
<1>1. /\ turn.pc = "body" /\ turn.pc # "none" /\ Kind = "set"
      /\ UNCHANGED <<file, cache>>
  BY DEF SetKey
<1>2. /\ q \in Request /\ vault.journal = None
      /\ Clean => /\ cache = file /\ Held(cache) = file
                  /\ file = promise.endpoint
                  /\ ~Fits(vault.aside, file)
      /\ Sure => Clean /\ EffectiveIn(vault, file) = promise.key
  BY <1>1, BodyFinds DEF Kinds
<1>3. CASE endpoint = None
  <2>1. Throw /\ UNCHANGED <<vault, troubles>> /\ NoCommit
    BY <1>3 DEF SetKey
  <2>2. UNCHANGED promise /\ Clean' = Clean /\ Sure' = Sure
    BY <1>1, <2>1, NoCommitKeeps
  <2>3. KeptInv'
    BY <1>1, <1>2, <2>1, <2>2 DEF KeptInv
  <2>4. turn' = NoTurn
    BY <2>1 DEF Throw
  <2>5. /\ vault'.journal = None
        /\ Clean' => ~Fits(vault'.aside, file')
    BY <1>1, <1>2, <2>1, <2>2
  <2>6. QED BY <1>1, <2>1, <2>3, <2>4, <2>5, OverStands
<1>4. CASE endpoint # None
  <2>1. /\ Write(next, "end")
        /\ IF vault'.active = Binding(key, endpoint) /\ cache = file
           THEN Commit(endpoint, key, FALSE) ELSE NoCommit
    BY <1>4 DEF SetKey
  <2>2. /\ next.active = Binding(key, endpoint)
        /\ next.aside = vault.aside /\ next.journal = vault.journal
    BY DEF IInv, TypeOK, Vault
  <2>3. vault' \in {vault, next} /\ (Continue("end") \/ Throw)
    BY <2>1 DEF Write
  <2>4. /\ turn' = NoTurn
    BY <2>3 DEF Continue, End, Released, Throw
  <2>5. vault'.journal = None /\ vault'.aside = vault.aside
    BY <1>2, <2>2, <2>3
  <2>6. CASE vault'.active = Binding(key, endpoint) /\ cache = file
    <3>1. Commit(endpoint, key, FALSE)
      BY <2>1, <2>6
    <3>2. /\ promise'.endpoint = endpoint /\ promise'.key = key
          /\ Clean' => cache' = file' /\ ~Fits(vault.aside, endpoint)
          /\ Sure' => Clean'
      BY <3>1 DEF Commit, Clean, Sure
    <3>3. file = endpoint /\ endpoint \in Endpoint
      BY <1>4, <2>6 DEF Held, IInv, TypeOK, Document
    <3>4. ~Fits(vault'.aside, endpoint) =>
              EffectiveIn(vault', endpoint) = key
      <4>1. CASE key = None
        BY <2>5, <2>6, <4>1 DEF EffectiveIn, Fits, Binding
      <4>2. CASE key # None
        <5>1. vault'.active = [key |-> key, bound |-> endpoint]
          BY <2>6, <4>2 DEF Binding
        <5>2. vault'.active # None
          BY <1>2, <3>3, <4>2, <5>1, NoneAssumption DEF Key
        <5>3. Fits(vault'.active, endpoint) /\ vault'.active.key = key
          BY <1>4, <5>1, <5>2 DEF Fits
        <5>4. QED BY <2>5, <5>3 DEF EffectiveIn
      <4>3. QED BY <4>1, <4>2
    <3> HIDE DEF next, endpoint, key
    <3>5. KeptInv'
      BY <1>1, <2>5, <3>2, <3>3, <3>4 DEF KeptInv
    <3>6. Clean' => ~Fits(vault'.aside, file')
      BY <1>1, <2>5, <3>2, <3>3
    <3>7. QED BY <1>1, <2>3, <2>4, <2>5, <3>5, <3>6, OverStands
  <2>7. CASE ~(vault'.active = Binding(key, endpoint) /\ cache = file)
    <3>1. NoCommit
      BY <2>1, <2>7
    <3>2. UNCHANGED promise /\ Clean' = Clean /\ Sure' = Sure
      BY <1>1, <3>1, NoCommitKeeps
    <3>3. Clean => vault' = vault
      BY <1>2, <2>2, <2>3, <2>7
    <3>4. KeptInv'
      BY <1>1, <1>2, <3>2, <3>3 DEF KeptInv
    <3>5. Clean' => ~Fits(vault'.aside, file')
      BY <1>1, <1>2, <2>5, <3>2
    <3>6. QED BY <1>1, <2>3, <2>4, <2>5, <3>4, <3>5, OverStands
  <2>8. QED BY <2>6, <2>7
<1>5. QED BY <1>3, <1>4

\* A sync sets the key in use aside only when it is late.
LEMMA SyncKeysStands == ASSUME IInv, CommitInv, SyncKeys PROVE CommitInv'
<1> DEFINE next == IF sync.before = sync.target THEN vault
                   ELSE Reconciled(vault, sync.target)
<1>1. /\ turn.pc = "body" /\ turn.who = "sync" /\ turn.pc # "none"
      /\ Write(next, "end") /\ NoCommit /\ UNCHANGED <<file, cache>>
      /\ "end" \in Steps \cup {"end"} /\ vault.journal = None
      /\ vault \in Vault /\ sync.target \in Provider
  BY DEF SyncKeys, CommitInv, JournalInv, IInv, TypeOK
<1>2. Kind # "startup" /\ "sync" \notin Request
  BY <1>1, CredentialRotationAssumption DEF Kind
<1>3. /\ UNCHANGED promise /\ Clean' = Clean /\ Sure' = Sure
      /\ Sure => Clean
      /\ troubles' # troubles => unsure' # {}
      /\ unsure' = {} => unsure = {}
  BY <1>1, <1>2, NoCommitKeeps
<1>4. /\ \A f : EffectiveIn(next, f) = EffectiveIn(vault, f)
      /\ next.journal = None
      /\ \A f : Fits(next.aside, f) /\ Fits(next.active, f)
                => Fits(vault.aside, f) /\ Fits(vault.active, f)
  BY <1>1, ReconciledKeeps
<1>5. ASSUME Clean, Fits(next.aside, file)
      PROVE  ~Fits(next.active, file) /\ (unsure = {} => sync.target # file)
  <2>1. ~(Fits(vault.aside, file) /\ Fits(vault.active, file))
    BY <1>5 DEF CommitInv, AsideInv
  <2>2. ~Fits(next.active, file)
    BY <1>4, <1>5, <2>1
  <2>3. CASE sync.before = sync.target
    <3>1. unsure = {} => Late(sync, file)
      BY <1>5, <2>3 DEF CommitInv, AsideInv
    <3>2. QED BY <2>2, <2>3, <3>1 DEF Late
  <2>4. CASE sync.before # sync.target
    BY <1>1, <1>5, <2>1, <2>2, <2>4, ReconciledKeeps
  <2>5. QED BY <2>3, <2>4
<1> HIDE DEF next
<1>6. Leaves(next, "end")
  BY <1>1, <1>3, <1>4, <1>5 DEF Leaves, Journalling, Publishing
<1>7. vault' \in {vault, next}
  BY <1>1 DEF Write
<1>8. /\ Clean => cache' = file
      /\ Clean => file = promise'.endpoint
      /\ Sure' => EffectiveIn(vault', file) = promise'.key
  BY <1>1, <1>3, <1>4, <1>7 DEF CommitInv, KeptInv
<1>9. "end" \notin Publishing
  BY DEF Publishing
<1>10. QED BY <1>1, <1>3, <1>4, <1>5, <1>6, <1>8, <1>9, WriteStands

\* At the start the promise is what is there.
LEMMA InitCommits == Init => CommitInv
<1> SUFFICES ASSUME Init PROVE CommitInv
  OBVIOUS
<1>1. /\ Home \in Endpoint /\ Home # None /\ Old \in Key
      /\ None \notin Request
  BY CredentialRotationAssumption DEF Key
<1>2. OrderInv
  BY <1>1 DEF Init, OrderInv, NoTurn, NoSync
<1>3. TargetInv
  BY DEF Init, TargetInv, NoAsk
<1>4. JournalInv
  BY DEF Init, JournalInv, NoTurn, Journalling, Publishing
<1>5. [key |-> Old, bound |-> Home] # None
  BY <1>1, NoneAssumption
<1>6. KeptInv
  BY <1>1, <1>5 DEF Init, KeptInv, EffectiveIn, Fits
<1>7. AsideInv /\ StagedInv /\ PlannedInv
  BY DEF Init, AsideInv, StagedInv, PlannedInv, Fits, NoTurn, Publishing
<1>8. QED BY <1>2, <1>3, <1>4, <1>6, <1>7 DEF CommitInv

\* Every step preserves what a commit left.
LEMMA NextCommits == IInv /\ CommitInv /\ [Next]_vars => CommitInv'
<1> SUFFICES ASSUME IInv, CommitInv, [Next]_vars PROVE CommitInv'
  OBVIOUS
<1>1. CASE RecoverFirst
  BY <1>1, RecoverStands DEF RecoverFirst, Steps
<1>2. CASE RecoverLast
  BY <1>2, RecoverStands DEF RecoverLast, Steps
<1>3. CASE Clear
  BY <1>3, ClearStands
<1>4. CASE SaveBegins
  BY <1>4, SaveStands
<1>5. CASE RemoveBegins
  BY <1>5, RemoveStands
<1>6. CASE Erase
  BY <1>6, EraseStands
<1>7. CASE Publish
  BY <1>7, PublishStands
<1>8. CASE SetKey
  BY <1>8, SetKeyStands
<1>9. CASE SyncKeys
  BY <1>9, SyncKeysStands
<1>10. ASSUME NEW q \in Request, Ask(q) \/ TakeTurn(q) \/ SyncBegins(q)
       PROVE  CommitInv'
  BY <1>10, AskStands, TakeTurnStands, SyncBeginsStands
<1>11. CASE Refresh \/ SyncTurn \/ SyncCheck
  BY <1>11, RefreshStands, SyncTurnStands, SyncCheckStands
<1>12. CASE Edit \/ Crash
  BY <1>12, EditStands, CrashStands
<1>13. CASE UNCHANGED vars
  <2>1. /\ UNCHANGED <<file, cache, vault, request, sync, turn>>
        /\ UNCHANGED <<promise, unsure>>
    BY <1>13 DEF vars, work, history
  <2>2. OrderInv' /\ TargetInv'
    BY <2>1 DEF CommitInv, OrderInv, TargetInv
  <2>3. Clean' => cache' = file
    BY <2>1 DEF Clean, CommitInv, KeptInv
  <2>4. QED BY <2>1, <2>2, <2>3, CalmKeeps
<1>14. QED
  BY <1>1, <1>2, <1>3, <1>4, <1>5, <1>6, <1>7, <1>8, <1>9, <1>10, <1>11,
     <1>12, <1>13 DEF Next, Work, Step

\* What the last commit left stands, for any endpoints, requests and
\* troubles: its endpoint, and unless a read failed unnoticed its key, or
\* what recovery makes the key, and the key itself once nothing disturbs the
\* recovery.
THEOREM PromisesStand == Spec => []CommitsStand
<1>1. Init => IInv /\ CommitInv
  BY InitInv, InitCommits
<1>2. IInv /\ CommitInv /\ [Next]_vars => IInv' /\ CommitInv'
  BY NextInv, NextCommits
<1>3. QED BY <1>1, <1>2, CommitInvStands, PTL DEF Spec

=============================================================================
