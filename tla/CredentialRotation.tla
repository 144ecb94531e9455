------------------------- MODULE CredentialRotation -------------------------
(***************************************************************************)
(* The API key of one custom provider.  Its endpoint is in a file the user *)
(* may edit (portable config), its key in an encrypted map                 *)
(* (services/secrets.ts), bound to an endpoint: the one it was saved with, *)
(* or, entered alone, the one the file has when its turn comes; no write   *)
(* covers both.  services/provider-credential-rotation.ts keeps a journal  *)
(* of a change in the map and decides it by the file.                      *)
(*                                                                         *)
(* Three promise queues order the work: saves and removals, one at a time, *)
(* each between two syncs of the last safe snapshot                        *)
(* (portable-credential-snapshot.ts); syncs, also those of a window that   *)
(* gets the focus (portable-config-watch-core.ts); and the turns in which  *)
(* a request, a sync or the start touches the map.                         *)
(*                                                                         *)
(* A step is a durable write with the reads before it.  What can come in   *)
(* between, an edit or a refresh, does not touch the map and comes after.  *)
(* A guard that finds the window gone is a write that fails.  So is a read *)
(* that throws; but two reads of the map take a failure for the answer     *)
(* that there is no key, and nothing tells them apart.                     *)
(***************************************************************************)
EXTENDS Integers, FiniteSets

CONSTANTS
    Endpoint,    \* connections of the provider (kind, URL, needsKey)
    Keyless,     \* those that need no key
    Home,        \* the one in use at the beginning
    Request,     \* requests, each also the key that comes with it
    Old,         \* the key there at the beginning
    None,
    Corrupt,     \* a config file that does not parse
    MaxPasses,   \* MAX_STABILITY_PASSES
    MaxTroubles  \* a bound on edits, faults and crashes

ASSUME CredentialRotationAssumption ==
    /\ Keyless \subseteq Endpoint /\ Home \in Endpoint \ Keyless
    /\ None \notin Endpoint \cup Request \cup {Old, Corrupt}
    /\ Corrupt \notin Endpoint /\ Old \notin Request
    /\ {"watcher", "sync", "startup"} \cap (Request \cup {None}) = {}
    /\ MaxPasses \in Nat \ {0} /\ MaxTroubles \in Nat

Key == Request \cup {Old}
Document == Endpoint \cup {None, Corrupt}
Provider == Endpoint \cup {None}
Pair == [key : Key, bound : Endpoint] \cup {None}
Journal == [previous : Provider, target : Provider,
            previousKey : Key \cup {None}, targetKey : Key \cup {None}]
           \cup {None}
\* What is not there is neither.
ASSUME NoneAssumption ==
    /\ None \notin [key : Key, bound : Endpoint]
    /\ None \notin [previous : Provider, target : Provider,
                   previousKey : Key \cup {None},
                   targetKey : Key \cup {None}]
Vault == [active : Pair, aside : Pair, journal : Journal]
Kinds == {"save", "remove", "set"}

VARIABLES
    file,    \* the config file, as far as this provider goes
    cache,   \* DataStore.cache of it
    vault,   \* the map: the key in use, the key set aside, the journal
    request, \* what a request asks for and where it stands
    sync,    \* the sync under way
    base,    \* lastSafe and reconciliationPending of the snapshot tracker
    turn,    \* whose turn it is, and the step it is at
    troubles, \* edits, faults and crashes so far
    given,   \* the endpoint a key came with, if it came with one
    promise, \* what the last commit left: endpoint and key
    unsure   \* what happened since that may void the promise

work == <<request, sync, base, turn>>
history == <<given, promise, unsure>>
vars == <<file, cache, vault, work, troubles, history>>

NoAsk == [at |-> "new", kind |-> "none", target |-> None, withKey |-> FALSE]
Over == [NoAsk EXCEPT !.at = "over"]
NoSync == [by |-> None, before |-> None, target |-> None, pass |-> 0,
           at |-> "idle"]
NoTurn == [who |-> None, pc |-> "none"]
Doubts == {"edit", "torn", "aside", "unread", "fault"}
Steps == {"recover", "clear", "body", "erase", "publish", "drop",
          "confirm", "confirmed"}

TypeOK ==
    /\ file \in Document /\ cache \in Document
    /\ vault \in Vault
    /\ request \in [Request ->
           [at : {"new", "before", "queued", "turn", "after", "over"},
            kind : Kinds \cup {"none"}, target : Provider, withKey : BOOLEAN]]
    /\ sync \in [by : Request \cup {"watcher", None}, before : Provider,
                 target : Provider, pass : 0 .. MaxPasses,
                 at : {"idle", "due", "turn", "check"}]
    /\ base \in [safe : Provider \cup {"unset"}, pending : BOOLEAN]
    /\ turn \in [who : Request \cup {"sync", "startup", None},
                 pc : Steps \cup {"none"}]
    /\ troubles \in 0 .. MaxTroubles
    /\ given \in [Key -> Provider]
    /\ promise \in [endpoint : Provider, key : Key \cup {None}]
    /\ unsure \subseteq Doubts

\* The provider that a document holds; of a corrupt one the app sees none.
Held(document) == IF document = Corrupt THEN None ELSE document

Init ==
    /\ file = Home /\ cache = Home
    /\ vault = [active |-> [key |-> Old, bound |-> Home], aside |-> None,
                journal |-> None]
    /\ request = [q \in Request |-> NoAsk]
    /\ sync = NoSync
    /\ base = [safe |-> "unset", pending |-> FALSE]
    /\ turn = NoTurn
    /\ troubles = 0
    /\ given = [k \in Key |-> IF k = Old THEN Home ELSE None]
    /\ promise = [endpoint |-> Home, key |-> Old]
    /\ unsure = {}

----------------------------------------------------------------------------
(* The encrypted map.                                                      *)

Fits(pair, endpoint) ==
    pair # None /\ endpoint # None /\ pair.bound = endpoint

\* The key the map holds for an endpoint.
KeyFor(endpoint) ==
    IF Fits(vault.active, endpoint) THEN vault.active.key ELSE None

\* What getProviderKey and hasKey say: a map or a binding that cannot be
\* read counts as no key.
ProviderKey(endpoint) == {KeyFor(endpoint), None}
HasKey == {vault.active # None, FALSE}

\* reconcileProviderKeyQuarantine.
Reconciled(v, endpoint) ==
    CASE Fits(v.active, endpoint) -> v
      [] ~Fits(v.active, endpoint) /\ Fits(v.aside, endpoint) ->
            [v EXCEPT !.active = v.aside, !.aside = v.active]
      [] ~Fits(v.active, endpoint) /\ ~Fits(v.aside, endpoint) ->
            IF v.aside = None
            THEN [v EXCEPT !.active = None, !.aside = v.active] ELSE v

\* Would look at the old endpoint first.
Mutant_Decided(journal, endpoint) ==
    CASE endpoint # None /\ endpoint = journal.previous -> journal.previousKey
      [] endpoint # None /\ endpoint # journal.previous ->
            IF endpoint = journal.target THEN journal.targetKey ELSE None
      [] endpoint = None -> None
\* credentialAfterProviderRotation: a key may be replaced at one endpoint.
Decided(journal, endpoint) ==
    CASE endpoint = None -> None
      [] endpoint # None /\ endpoint = journal.target -> journal.targetKey
      [] endpoint # None /\ endpoint # journal.target ->
            IF endpoint = journal.previous THEN journal.previousKey ELSE None

\* Would bind a key that is not there.
Mutant_Binding(key, endpoint) == [key |-> key, bound |-> endpoint]
\* The pair of a key, if there is one.
Binding(key, endpoint) ==
    IF key = None THEN None ELSE [key |-> key, bound |-> endpoint]

\* The key the file will end up with if nothing else happens.
Effective(endpoint) ==
    IF vault.journal # None THEN Decided(vault.journal, endpoint)
    ELSE IF Fits(vault.aside, endpoint) /\ ~Fits(vault.active, endpoint)
         THEN vault.aside.key ELSE KeyFor(endpoint)

----------------------------------------------------------------------------
(* Ends of turns and syncs.                                                *)

Clean == unsure \cap {"edit", "torn", "aside"} = {}
Fault == IF troubles' # troubles THEN {"fault"} ELSE {}
\* A turn that was told of no key, and there is one.
Unread(key, stored) ==
    IF /\ key = KeyFor(Held(cache))
       /\ key = None => stored = (vault.active # None)
    THEN {} ELSE {"unread"}
Kind == IF turn.who \in Request THEN request[turn.who].kind ELSE turn.who
Mutating(q) == request[q].kind \in {"save", "remove"}

\* Would sync inside the turn that the sync needs.
Mutant_Released == IF Kind \in {"save", "remove"} THEN turn ELSE NoTurn
\* serialized: the turn is over before mutatePortableConfigAndSync goes on.
Released == NoTurn

\* Requests that are answered, the others as they are.
Answered(Q) == [q \in Request |-> IF q \in Q THEN Over ELSE request[q]]

End ==
    /\ turn' = Released
    /\ request' = IF turn.who \in Request /\ Mutating(turn.who)
                  THEN [request EXCEPT ![turn.who].at = "after"]
                  ELSE Answered({turn.who})
    /\ sync' = IF turn.who = "sync" THEN [sync EXCEPT !.at = "check"] ELSE sync

Continue(pc) ==
    IF pc = "end" THEN End
    ELSE turn' = [turn EXCEPT !.pc = pc] /\ UNCHANGED <<request, sync>>

\* The turn throws; so does the sync it belongs to, and its request.
Throw ==
    /\ turn' = NoTurn
    /\ request' = Answered({IF turn.who = "sync" THEN sync.by ELSE turn.who})
    /\ sync' = IF turn.who = "sync" THEN NoSync ELSE sync

Trouble == troubles < MaxTroubles /\ troubles' = troubles + 1

\* writeMap, or the read that finds nothing to write.  It can fail before
\* the rename and after it.
Write(next, pc) ==
    \/ vault' = next /\ Continue(pc) /\ UNCHANGED troubles
    \/ vault' \in {vault, next} /\ Trouble /\ Throw

NoCommit ==
    /\ UNCHANGED promise
    /\ unsure' = IF troubles' # troubles THEN unsure \cup {"fault"}
                 ELSE IF Kind = "startup" /\ turn' = NoTurn
                 THEN unsure \ {"fault"} ELSE unsure

\* A save at the endpoint that the last commit left, without a key.
Keeps(q) ==
    /\ Clean /\ request[q].kind = "save" /\ ~request[q].withKey
    /\ request[q].target \in {promise.endpoint} \ Keyless

\* The key a save is to leave at its endpoint.
Expected(q) ==
    CASE request[q].withKey -> q
      [] Keeps(q) -> promise.key
      [] ~request[q].withKey /\ ~Keeps(q) ->
            IF Clean THEN None ELSE Effective(request[q].target)

\* What a commit leaves, and that it settles.  A save that keeps the key,
\* or has no journal, leaves what a failed read has made of it.
Commit(endpoint, key, unread) ==
    /\ promise' = [endpoint |-> endpoint, key |-> key]
    /\ unsure' = (unsure \ {"edit", "torn", "aside", "unread"})
           \cup (IF Fits(vault.aside, endpoint) THEN {"aside"} ELSE {})
           \cup (IF cache' # file' THEN {"torn"} ELSE {})
           \cup (IF unread THEN unsure \cap {"unread"} ELSE {})
           \cup Fault

----------------------------------------------------------------------------
(* The steps of a turn.                                                    *)

\* reconcilePendingProviderCredentialRotationNow asks the file, but for a
\* sync, which has just read it.
Authority == IF turn.who = "sync" THEN cache ELSE file

\* Would keep the old key at a new endpoint.
Mutant_Staged(v, endpoint) ==
    [v EXCEPT !.active = Binding(v.journal.previousKey, endpoint)]
Staged(v, endpoint) ==
    [v EXCEPT !.active = Binding(Decided(v.journal, endpoint), endpoint)]

Recover(first, afterClear, next) ==
    /\ turn.pc = first
    /\ \/ /\ vault.journal = None
          /\ UNCHANGED cache
          /\ Write(IF turn.who = "sync" \/ Held(cache) = None THEN vault
                   ELSE Reconciled(vault, Held(cache)), next)
       \/ /\ vault.journal # None
          /\ cache' = Authority
          /\ \/ Authority = Corrupt /\ Throw /\ UNCHANGED <<vault, troubles>>
             \/ /\ Authority # Corrupt
                /\ Write(Staged(vault, Authority), afterClear)
    /\ NoCommit
    /\ UNCHANGED <<file, base, given>>

AfterRecovery == IF turn.who = "startup" THEN "end" ELSE "body"

RecoverFirst == Recover("recover", "clear", AfterRecovery)
RecoverLast == Recover("confirm", "confirmed", "end")

Clear ==
    /\ turn.pc \in {"clear", "confirmed"}
    /\ Write([vault EXCEPT !.journal = None],
             IF turn.pc = "clear" THEN AfterRecovery ELSE "end")
    /\ NoCommit
    /\ UNCHANGED <<file, cache, base, given>>

\* What a save knows before it writes.
Replaced(q) == Held(cache) # None /\ Held(cache) # request[q].target
Mismatched(key, stored) == stored /\ key = None
NeedsJournal(q, key, stored) ==
    \/ Replaced(q) \/ request[q].target \in Keyless \/ request[q].withKey
    \/ key # None \/ Mismatched(key, stored)
TargetKey(q, key) ==
    CASE request[q].target \in Keyless -> None
      [] request[q].target \notin Keyless /\ request[q].withKey -> q
      [] request[q].target \notin Keyless /\ ~request[q].withKey ->
            IF Held(cache) # None /\ ~Replaced(q) THEN key ELSE None
\* `key` is what the turn was told of the key at the old endpoint.
Journalled(q, key) ==
    [previous |-> Held(cache), target |-> request[q].target,
     previousKey |-> key,
     targetKey |-> IF Kind = "save" THEN TargetKey(q, key) ELSE None]

\* Its reads may fail and nobody is told.
SaveBegins ==
    /\ turn.pc = "body" /\ Kind = "save"
    /\ LET q == turn.who IN
       \E key \in ProviderKey(Held(cache)), stored \in HasKey :
           /\ \/ /\ ~NeedsJournal(q, key, stored)
                 /\ Continue("publish") /\ UNCHANGED <<vault, troubles>>
              \/ /\ NeedsJournal(q, key, stored)
                 /\ Write([vault EXCEPT !.journal = Journalled(q, key)],
                          IF \/ Replaced(q) \/ request[q].target \in Keyless
                             \/ Held(cache) = None \/ Mismatched(key, stored)
                          THEN "erase" ELSE "publish")
           /\ promise' = IF vault' # vault /\ request[q].target = file
                         THEN [endpoint |-> file, key |-> Expected(q)]
                         ELSE promise
           /\ unsure' = unsure \cup Unread(key, stored) \cup Fault
    /\ UNCHANGED <<file, cache, base, given>>

RemoveBegins ==
    /\ turn.pc = "body" /\ Kind = "remove"
    /\ \E key \in ProviderKey(Held(cache)) :
        /\ Write([vault EXCEPT !.journal = Journalled(turn.who, key)],
                 "publish")
        /\ unsure' = unsure \cup Unread(key, vault.active # None) \cup Fault
    /\ UNCHANGED <<file, cache, base, given, promise>>

\* deleteKey: before a changed endpoint is published, or with a removal.
Erase ==
    /\ turn.pc \in {"erase", "drop"}
    /\ Write([vault EXCEPT !.active = None],
             IF turn.pc = "erase" THEN "publish" ELSE "confirm")
    /\ NoCommit
    /\ UNCHANGED <<file, cache, base, given>>

AfterPublication ==
    IF Kind = "remove" THEN "drop"
    ELSE IF vault.journal = None THEN "end" ELSE "confirm"

\* saveProvider and removeProvider of the config store.  The publication can
\* fail before it is made, after it and before the cache is replaced, and in
\* the model cache that is written next.
Publish ==
    /\ turn.pc = "publish"
    /\ LET target == request[turn.who].target IN
       \/ /\ Corrupt \in {cache, file}
          /\ cache' = IF cache = Corrupt THEN cache ELSE file
          /\ Throw /\ UNCHANGED <<file, troubles>> /\ NoCommit
       \/ /\ Corrupt \notin {cache, file}
          /\ Trouble /\ Throw /\ NoCommit
          /\ cache' = file /\ UNCHANGED file
       \/ /\ Corrupt \notin {cache, file}
          /\ file' = target
          /\ \/ /\ cache' = target
                /\ Continue(AfterPublication) /\ UNCHANGED troubles
             \/ cache' \in {file, target} /\ Trouble /\ Throw
          /\ Commit(target, Expected(turn.who),
                    Keeps(turn.who) \/ vault.journal = None)
    /\ UNCHANGED <<vault, base, given>>

\* The key is bound to the endpoint found in this turn.
SetKey ==
    /\ turn.pc = "body" /\ Kind = "set"
    /\ UNCHANGED <<file, cache, base, given>>
    /\ LET q == turn.who
           endpoint == Held(cache)
           key == IF request[q].withKey /\ endpoint \notin Keyless
                  THEN q ELSE None
       IN \/ /\ endpoint = None
             /\ Throw /\ UNCHANGED <<vault, troubles>> /\ NoCommit
          \/ /\ endpoint # None
             /\ Write([vault EXCEPT !.active = Binding(key, endpoint)], "end")
             /\ IF vault'.active = Binding(key, endpoint) /\ cache = file
                THEN Commit(endpoint, key, FALSE) ELSE NoCommit

\* reconcileExternalProviderCredentialChanges.
SyncKeys ==
    /\ turn.pc = "body" /\ turn.who = "sync"
    /\ Write(IF sync.before = sync.target THEN vault
             ELSE Reconciled(vault, sync.target), "end")
    /\ NoCommit
    /\ UNCHANGED <<file, cache, base, given>>

----------------------------------------------------------------------------
(* Requests and syncs.                                                     *)

\* A save or removal reaches the head of its queue, a new key is entered.
Ask(q) ==
    /\ request[q].at = "new" /\ turn.who # "startup"
    /\ \E kind \in Kinds, target \in Provider, withKey \in BOOLEAN :
        /\ (target # None) <=> (kind = "save")
        /\ withKey => kind # "remove" /\ target \notin Keyless
        /\ kind # "set" => \A p \in Request : ~Mutating(p)
        /\ request' = [request EXCEPT ![q] =
               [at |-> IF kind = "set" THEN "queued" ELSE "before",
                kind |-> kind, target |-> target, withKey |-> withKey]]
        /\ given' = IF kind = "save" /\ withKey
                    THEN [given EXCEPT ![q] = target] ELSE given
    /\ UNCHANGED <<file, cache, vault, sync, base, turn, troubles, promise,
                   unsure>>

TakeTurn(q) ==
    /\ turn = NoTurn /\ request[q].at = "queued"
    /\ turn' = [who |-> q, pc |-> "recover"]
    /\ request' = [request EXCEPT ![q].at = "turn"]
    /\ UNCHANGED <<file, cache, vault, sync, base, troubles, history>>

\* The request whose sync has ended goes on.
Advanced(by) ==
    IF by \in Request /\ request[by].at = "before"
    THEN [request EXCEPT ![by].at = "queued"] ELSE Answered({by})

\* The tracker decides what to compare, the baseline being `from`.
Track(by, from, seen, notify) ==
    \/ /\ seen = Corrupt
       /\ base' = [from EXCEPT !.pending = TRUE]
       /\ request' = Advanced(by) /\ UNCHANGED sync
    \/ /\ seen # Corrupt /\ from.safe = "unset"
       /\ base' = [safe |-> seen, pending |-> FALSE]
       /\ request' = Advanced(by) /\ UNCHANGED sync
    \/ /\ seen # Corrupt /\ from.safe # "unset"
       /\ \/ /\ ~(notify \/ from.pending)
             /\ base' = from
             /\ request' = Advanced(by) /\ UNCHANGED sync
          \/ /\ notify \/ from.pending
             /\ base' = [from EXCEPT !.pending = TRUE]
             /\ sync' = [by |-> by, before |-> from.safe, target |-> seen,
                         pass |-> 1, at |-> "due"]
             /\ UNCHANGED request

\* syncCurrent, for a request.
SyncBegins(q) ==
    /\ sync = NoSync /\ request[q].at \in {"before", "after"}
    /\ Track(q, base, cache, TRUE)
    /\ UNCHANGED <<file, cache, vault, turn, troubles, history>>

\* The watcher reloads the file when a window gets the focus.  Other fields
\* of it may have changed.  The queues are first in, first out: a refresh
\* that is called while a request waits comes after it.
Refresh ==
    /\ sync = NoSync /\ turn.who # "startup"
    /\ \A q \in Request :
        /\ request[q].at \notin {"before", "after"}
        /\ request[q].at = "queued" => turn # NoTurn
    /\ cache' = file
    /\ LET seeded == IF cache = Corrupt THEN [base EXCEPT !.pending = TRUE]
                     ELSE IF base.safe = "unset"
                     THEN [base EXCEPT !.safe = cache] ELSE base
       IN \E changed \in BOOLEAN :
            /\ cache # file => changed
            /\ Track("watcher", seeded, file, changed)
    /\ UNCHANGED <<file, vault, turn, troubles, history>>

SyncTurn ==
    /\ turn = NoTurn /\ sync.at = "due"
    /\ turn' = [who |-> "sync", pc |-> "recover"]
    /\ sync' = [sync EXCEPT !.at = "turn"]
    /\ UNCHANGED <<file, cache, vault, request, base, troubles, history>>

\* reconcileUntilStable after a pass.
SyncCheck ==
    /\ sync.at = "check"
    /\ \/ /\ cache = Corrupt \/ cache = sync.target
          /\ base' = IF cache = Corrupt THEN [base EXCEPT !.pending = TRUE]
                     ELSE [safe |-> sync.target, pending |-> FALSE]
          /\ request' = Advanced(sync.by)
          /\ sync' = NoSync
          /\ UNCHANGED unsure
       \/ /\ cache \notin {Corrupt, sync.target}
          /\ sync.pass < MaxPasses
          /\ sync' = [sync EXCEPT !.before = sync.target, !.target = cache,
                                  !.pass = @ + 1, !.at = "due"]
          /\ UNCHANGED <<base, request, unsure>>
       \/ /\ cache \notin {Corrupt, sync.target}
          /\ sync.pass = MaxPasses
          /\ request' = Answered({sync.by})
          /\ sync' = NoSync
          /\ unsure' = unsure \cup {"fault"}
          /\ UNCHANGED base
    /\ UNCHANGED <<file, cache, vault, turn, troubles, given, promise>>

----------------------------------------------------------------------------
(* The environment.                                                        *)

\* The user edits the provider in the file.
Edit ==
    /\ Trouble
    /\ file' \in Document \ {file}
    /\ unsure' = unsure \cup {"edit"}
    /\ UNCHANGED <<cache, vault, work, given, promise>>

\* The application is gone and starts again.
Crash ==
    /\ Trouble
    /\ cache' = file
    /\ request' = Answered({q \in Request : request[q] # NoAsk})
    /\ sync' = NoSync
    /\ base' = [safe |-> "unset", pending |-> FALSE]
    /\ turn' = [who |-> "startup", pc |-> "recover"]
    /\ unsure' = unsure \cup {"fault"}
    /\ UNCHANGED <<file, vault, given, promise>>

Step ==
    \/ RecoverFirst \/ RecoverLast \/ Clear \/ SaveBegins \/ RemoveBegins
    \/ Erase \/ Publish \/ SetKey \/ SyncKeys

\* What goes on by itself.
Work ==
    \/ Step \/ SyncTurn \/ SyncCheck
    \/ \E q \in Request : TakeTurn(q) \/ SyncBegins(q)

Next == Work \/ (\E q \in Request : Ask(q)) \/ Refresh \/ Edit \/ Crash

Spec == Init /\ [][Next]_vars

\* Reads, writes and promise continuations come to an end.
Fairness == WF_vars(Work)
FairSpec == Spec /\ Fairness

----------------------------------------------------------------------------
(* Properties.                                                             *)

\* The keys that a map has for an endpoint: in use, aside, or as a journal
\* may decide.
Pairs(v) ==
    {v.active, v.aside} \cup
    (IF v.journal = None THEN {}
     ELSE {Binding(v.journal.previousKey, v.journal.previous),
           Binding(v.journal.targetKey, v.journal.target)})

\* A key comes to an endpoint in the turn of the request it came with and
\* in no other, and if an endpoint came with it, to that one.  No recovery,
\* sync, crash or other request moves it to another endpoint or brings it
\* back, whatever the file has become meanwhile.
KeyComes ==
    \A pair \in Pairs(vault') \ (Pairs(vault) \cup {None}) :
        turn.who = pair.key /\ given[pair.key] \in {None, pair.bound}
KeysFitEndpoints == [][KeyComes]_vars

\* Nothing voids the promised key.
Sure == Clean /\ "unread" \notin unsure

\* Whatever write fails or crashes, the file and the map together hold what
\* the last commit left: its endpoint, and its key or what recovery makes
\* one, but that a read which failed unnoticed may have cost the key.  Once
\* recovery was not disturbed, the key is there to read.
CommitsStand ==
    /\ Clean => file = promise.endpoint
    /\ Sure => Effective(file) = promise.key
    /\ unsure = {} /\ turn = NoTurn /\ sync = NoSync =>
        KeyFor(file) = promise.key

\* "The next operation/startup reloads the portable file from disk before
\* choosing the authoritative endpoint": a publication that fails halfway
\* costs no key either.
TornCommitsStand ==
    unsure \cap {"edit", "aside", "unread"} = {} =>
        file = promise.endpoint /\ Effective(file) = promise.key

\* A save, a removal or a new key gets its answer: no queue waits for
\* another that waits for it.
RequestsReturn ==
    \A q \in Request :
        request[q].at \in {"before", "queued", "turn", "after"}
            ~> request[q].at = "over"

=============================================================================
