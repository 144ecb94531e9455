----------------------- MODULE TreeScheduler_proofs -----------------------
(***************************************************************************)
(* The types, the accounts and the late-start property of a subagent tree, *)
(* for any runs, batches and plans: what a loop over the queue computes,   *)
(* the invariant of a tree inside and between such loops, what each piece  *)
(* of a method keeps of it, and the methods.                               *)
(***************************************************************************)
EXTENDS TreeScheduler, FiniteSetTheorems, WellFoundedInduction, TLAPS

\* A set of numbers that is not empty has a least one.
LEMMA LeastNumber ==
    ASSUME NEW S \in SUBSET Nat, S # {}
    PROVE  \E n \in S : \A m \in S : n <= m
<1> DEFINE R == OpToRel(<, Nat)
<1>1. IsWellFoundedOn(R, Nat)
  BY NatLessThanWellFounded
<1>2. R = {ss \in Nat \X Nat : ss[1] < ss[2]}
  BY Zenon DEF OpToRel
<1> HIDE DEF R
<1>3. PICK n \in S : \A m \in S : <<m, n>> \notin R
  BY <1>1, WFMin
<1>4. \A m \in S : ~(m < n)
  BY <1>2, <1>3
<1>5. \A m \in S : n <= m
  BY <1>4
<1>6. QED
  BY <1>5

\* Max of a set with a greatest number.
LEMMA MaxIs ==
    ASSUME NEW S \in SUBSET Int, NEW m \in S, \A y \in S : y <= m
    PROVE  Max(S) = m
<1>1. \A x \in S : (\A y \in S : x >= y) => x = m
  OBVIOUS
<1>2. \E x \in S : \A y \in S : x >= y
  OBVIOUS
<1>3. QED
  BY <1>1, <1>2 DEF Max

(***************************************************************************)
(* The invariant of the tree, with a set S of items that are in nobody's   *)
(* queue: those dispatch() or cancel() has taken and not offered yet.      *)
(***************************************************************************)

\* An item waits for what its run waits for.
ItemFits(t, x) ==
    IF x.resume THEN t.await[x.run] = "queued" ELSE t.entry[x.run] = "queued"

QueueFits(t, S) ==
    /\ S \subseteq Item
    /\ \A i, j \in DOMAIN t.queue : t.queue[i] = t.queue[j] => i = j
    /\ \A i \in DOMAIN t.queue : t.queue[i] \notin S /\ ItemFits(t, t.queue[i])
    /\ \A x \in S : ItemFits(t, x)

\* Where the ledger, the entry and the promises of a run are.
RunFits(t, r) ==
    /\ t.holds[r] <=> t.ledger[r] = "active"
    /\ t.entry[r] = "none" <=> t.ledger[r] = "none"
    /\ t.entry[r] = "none" => t.body[r] = "none" /\ t.await[r] = "none"
    /\ t.entry[r] = "queued" =>
          /\ t.ledger[r] = "queued" /\ t.outcome[r] = "pending"
          /\ t.body[r] = "none" /\ t.await[r] = "none"
    /\ t.entry[r] = "settled" => t.ledger[r] = "terminal"
    /\ t.body[r] = "working" => t.outcome[r] = "pending"
    /\ t.await[r] \in {"children", "queued"} => t.ledger[r] \in {"waiting", "terminal"}

Count(f, A) == Cardinality({r \in Runs : f[r] \in A})

\* The counters count the ledger's states, and the capacity in use is that of
\* the active runs.
Counts(p, t) ==
    /\ t.active = Count(t.ledger, {"active"})
    /\ t.queued = Count(t.ledger, {"queued", "waiting"})
    /\ t.launched = Count(t.ledger, {"queued", "active", "waiting", "terminal"})
    /\ t.active <= Limits[p.deployment]
    /\ t.queued <= p.maxQueued
    /\ t.launched <= p.maxLaunches
    /\ \A d \in Deployments : t.used[d] = IF d = p.deployment THEN t.active ELSE 0

TreeInv(p, t, S) ==
    /\ p \in Plans
    /\ t \in TreeState
    /\ QueueFits(t, S)
    /\ \A r \in Runs : RunFits(t, r)
    /\ Counts(p, t)

\* While the tree is neither cancelled nor out of time, a run that executes
\* holds capacity unless it waits for its batch.
CapableRun(t, r) ==
    t.body[r] = "working" =>
        /\ t.await[r] \in {"none", "granted"} => t.holds[r]
        /\ t.await[r] \in {"children", "queued"} => t.ledger[r] = "waiting"
        /\ t.await[r] # "refused"
Capable(t) == \A r \in Runs : CapableRun(t, r)

\* What never goes back, from a state of the tree to a later one.
FollowsRun(t, u, r) ==
    /\ t.entry[r] # "none" => u.entry[r] # "none"
    /\ t.entry[r] = "settled" => u.entry[r] = "settled"
    /\ t.entry[r] # "none" /\ t.outcome[r] # "pending" =>
          u.outcome[r] # "pending" /\ u.body[r] = t.body[r]
Follows(t, u) == \A r \in Runs : FollowsRun(t, u, r)

\* A step that concerns run r alone.
Others(t, u, r) ==
    \A x \in Runs \ {r} :
        /\ u.ledger[x] = t.ledger[x] /\ u.entry[x] = t.entry[x]
        /\ u.holds[x] = t.holds[x] /\ u.outcome[x] = t.outcome[x]
        /\ u.body[x] = t.body[x] /\ u.await[x] = t.await[x]

\* The fields of a tree, before its counters are known not to be negative.
RawState ==
    [ledger : [Runs -> LedgerStates],
     launched : Int, active : Int, queued : Int,
     entry : [Runs -> EntryStates],
     holds : [Runs -> BOOLEAN],
     used : [Deployments -> Int],
     queue : Seq(Item),
     outcome : [Runs -> {"none", "pending", "resolved", "rejected"}],
     body : [Runs -> {"none", "working", "over"}],
     await : [Runs -> AwaitStates]]

One(b) == IF b THEN 1 ELSE 0
Queued(t, r) == t.ledger[r] \in {"queued", "waiting"}
Active(t, r) == t.ledger[r] = "active"

\* A run that changes its state in the ledger changes the counts by at most one.
Moves(f, g, A, r) ==
    /\ Count(f, A) \in Nat /\ Count(g, A) \in Nat
    /\ f[r] \in A /\ g[r] \notin A => Count(g, A) = Count(f, A) - 1
    /\ f[r] \notin A /\ g[r] \in A => Count(g, A) = Count(f, A) + 1
    /\ (f[r] \in A <=> g[r] \in A) => Count(g, A) = Count(f, A)
LEMMA CountMoves ==
    ASSUME NEW f, NEW g, NEW A, NEW r \in Runs, \A x \in Runs : x # r => g[x] = f[x]
    PROVE  Moves(f, g, A, r)
<1> DEFINE F == {x \in Runs : f[x] \in A}
           G == {x \in Runs : g[x] \in A}
<1>1. IsFiniteSet(F) /\ IsFiniteSet(G) /\ IsFiniteSet(F \ {r}) /\ IsFiniteSet(G \ {r})
  <2>1. F \subseteq Runs /\ G \subseteq Runs
    OBVIOUS
  <2>2. IsFiniteSet(Runs)
    BY TreeSchedulerAssumption
  <2>3. QED
    BY <2>1, <2>2, FS_Subset
<1>2. G \ {r} = F \ {r}
  OBVIOUS
<1>3. Cardinality(F) \in Nat /\ Cardinality(G) \in Nat
  BY <1>1, FS_CardinalityType
<1>4. /\ Cardinality(F \ {r}) = IF r \in F THEN Cardinality(F) - 1 ELSE Cardinality(F)
      /\ Cardinality(G \ {r}) = IF r \in G THEN Cardinality(G) - 1 ELSE Cardinality(G)
  BY <1>1, FS_RemoveElement
<1>5. (r \in F <=> f[r] \in A) /\ (r \in G <=> g[r] \in A)
  OBVIOUS
<1>6. Count(f, A) = Cardinality(F) /\ Count(g, A) = Cardinality(G)
  BY DEF Count
<1> HIDE DEF F, G
<1>7. Cardinality(F \ {r}) = Cardinality(G \ {r})
  BY <1>2
<1> DEFINE k == Cardinality(F \ {r})
<1>8. /\ k = IF r \in F THEN Cardinality(F) - 1 ELSE Cardinality(F)
      /\ k = IF r \in G THEN Cardinality(G) - 1 ELSE Cardinality(G)
  BY <1>4, <1>7
<1> HIDE DEF k
<1>9. QED
  BY <1>3, <1>5, <1>6, <1>8 DEF Moves

\* Runs that enter the ledger together.
LEMMA CountJoins ==
    ASSUME NEW f, NEW g, NEW A, NEW runs \in SUBSET Runs,
           \A x \in Runs \ runs : g[x] = f[x],
           \A x \in runs : f[x] \notin A /\ g[x] \in A
    PROVE  /\ Cardinality(runs) \in Nat
           /\ Count(g, A) = Count(f, A) + Cardinality(runs)
<1> DEFINE F == {x \in Runs : f[x] \in A}
<1>1. IsFiniteSet(F) /\ IsFiniteSet(runs)
  <2>1. F \subseteq Runs
    OBVIOUS
  <2>2. IsFiniteSet(Runs)
    BY TreeSchedulerAssumption
  <2>3. QED
    BY <2>1, <2>2, FS_Subset
<1>2. {x \in Runs : g[x] \in A} = F \cup runs /\ F \cap runs = {}
  OBVIOUS
<1>3. Cardinality(F \cup runs)
         = Cardinality(F) + Cardinality(runs) - Cardinality(F \cap runs)
  BY <1>1, FS_Union
<1>4. Cardinality(F) \in Nat /\ Cardinality(runs) \in Nat
  BY <1>1, FS_CardinalityType
<1>5. Cardinality({}) = 0
  BY FS_EmptySet
<1>6. Count(f, A) = Cardinality(F) /\ Count(g, A) = Cardinality(F \cup runs)
  BY <1>2 DEF Count
<1>7. F \cap runs = {}
  BY <1>2
<1> HIDE DEF F
<1>8. Cardinality(F \cup runs) = Cardinality(F) + Cardinality(runs) - 0
  BY <1>3, <1>5, <1>7
<1>9. QED
  BY <1>4, <1>6, <1>8

\* What later states may not go back on is transitive.
LEMMA FollowsTrans ==
    ASSUME NEW t, NEW u, NEW v, Follows(t, u), Follows(u, v)
    PROVE  Follows(t, v)
BY DEF Follows, FollowsRun

\* A step that concerns one run keeps the promises of the others.
LEMMA FollowsOne ==
    ASSUME NEW t, NEW u, NEW r \in Runs, Others(t, u, r), FollowsRun(t, u, r)
    PROVE  Follows(t, u)
BY DEF Follows, FollowsRun, Others

\* ... and their capacity.
LEMMA CapableOne ==
    ASSUME NEW t, NEW u, NEW r \in Runs, Others(t, u, r), Capable(t), CapableRun(u, r)
    PROVE  Capable(u)
BY DEF Capable, CapableRun, Others

\* Counters that count are not negative.
LEMMA Typed ==
    ASSUME NEW p, NEW u \in RawState, Counts(p, u)
    PROVE  u \in TreeState
<1>1. \A f, A : Count(f, A) \in Nat
  <2> TAKE f, A
  <2>1. {r \in Runs : f[r] \in A} \subseteq Runs
    OBVIOUS
  <2>2. IsFiniteSet({r \in Runs : f[r] \in A})
    BY <2>1, TreeSchedulerAssumption, FS_Subset
  <2>3. QED
    BY <2>2, FS_CardinalityType DEF Count
<1>2. u.active \in Nat /\ u.queued \in Nat /\ u.launched \in Nat
  BY <1>1 DEF Counts
<1>3. u.used \in [Deployments -> Nat]
  BY <1>2 DEF Counts, RawState
<1>4. QED
  BY <1>2, <1>3 DEF RawState, TreeState

\* A tree whose counters are numbers is one whose counters are integers.
LEMMA Untyped ==
    ASSUME NEW t \in TreeState
    PROVE  t \in RawState
<1>1. t.used \in [Deployments -> Int] /\ t.active \in Int /\ t.queued \in Int /\ t.launched \in Int
  BY DEF TreeState
<1>2. QED
  BY <1>1 DEF TreeState, RawState

\* The ledger counts one run's move from one state to another.
LEMMA CountsOne ==
    ASSUME NEW p \in Plans, NEW t \in TreeState, NEW u \in RawState, NEW r \in Runs,
           Counts(p, t), Others(t, u, r),
           t.ledger[r] # "none", u.ledger[r] # "none", u.launched = t.launched,
           u.active = t.active + One(Active(u, r)) - One(Active(t, r)),
           u.queued = t.queued + One(Queued(u, r)) - One(Queued(t, r)),
           u.active <= Limits[p.deployment], u.queued <= p.maxQueued,
           \A d \in Deployments : u.used[d] = IF d = p.deployment THEN u.active ELSE 0
    PROVE  Counts(p, u)
<1>1. \A x \in Runs : x # r => u.ledger[x] = t.ledger[x]
  BY DEF Others
<1>2. u.active = Count(u.ledger, {"active"})
  <2>1. Moves(t.ledger, u.ledger, {"active"}, r)
    BY <1>1, CountMoves
  <2>2. t.active = Count(t.ledger, {"active"})
    BY DEF Counts
  <2>3. QED
    BY <2>1, <2>2 DEF One, Active, Moves
<1>3. u.queued = Count(u.ledger, {"queued", "waiting"})
  <2> DEFINE W == {"queued", "waiting"}
  <2>1. Moves(t.ledger, u.ledger, W, r)
    BY <1>1, CountMoves
  <2>2. t.queued = Count(t.ledger, W)
    BY DEF Counts
  <2>3. (Queued(t, r) <=> t.ledger[r] \in W) /\ (Queued(u, r) <=> u.ledger[r] \in W)
    BY DEF Queued
  <2> HIDE DEF W
  <2>4. u.queued = Count(u.ledger, W)
    BY <2>1, <2>2, <2>3 DEF One, Moves
  <2>5. QED
    BY <2>4 DEF W
<1>4. u.launched = Count(u.ledger, {"queued", "active", "waiting", "terminal"})
  <2> DEFINE L == {"queued", "active", "waiting", "terminal"}
  <2>1. t.ledger[r] \in L /\ u.ledger[r] \in L
    BY DEF TreeState, RawState, LedgerStates
  <2>2. Moves(t.ledger, u.ledger, L, r)
    BY <1>1, CountMoves
  <2>3. t.launched = Count(t.ledger, L)
    BY DEF Counts
  <2>4. QED
    BY <2>1, <2>2, <2>3 DEF Moves
<1>5. u.launched <= p.maxLaunches
  BY DEF Counts
<1>6. QED
  BY <1>2, <1>3, <1>4, <1>5 DEF Counts

\* A step that concerns one run keeps the invariant of the tree.
LEMMA OneRun ==
    ASSUME NEW p, NEW t, NEW S, NEW u \in RawState, NEW T, NEW r \in Runs,
           TreeInv(p, t, S), Others(t, u, r),
           t.ledger[r] # "none", u.ledger[r] # "none", u.launched = t.launched,
           u.active = t.active + One(Active(u, r)) - One(Active(t, r)),
           u.queued = t.queued + One(Queued(u, r)) - One(Queued(t, r)),
           u.active <= Limits[p.deployment], u.queued <= p.maxQueued,
           \A d \in Deployments : u.used[d] = IF d = p.deployment THEN u.active ELSE 0,
           RunFits(u, r), QueueFits(u, T)
    PROVE  TreeInv(p, u, T)
<1>1. Counts(p, u)
  BY CountsOne DEF TreeInv
<1>2. u \in TreeState
  BY <1>1, Typed
<1>3. \A x \in Runs : RunFits(u, x)
  BY DEF TreeInv, RunFits, Others
<1>4. QED
  BY <1>1, <1>2, <1>3 DEF TreeInv

\* A run has one item at most.
LEMMA OneItem ==
    ASSUME NEW t, NEW x \in Item, NEW y \in Item, RunFits(t, x.run),
           ItemFits(t, x), ItemFits(t, y), y.run = x.run
    PROVE  y = x
<1>1. x.resume = y.resume
  BY DEF ItemFits, RunFits, Item
<1>2. QED
  BY <1>1 DEF Item

\* The other items still wait for the same when an item taken is granted or
\* refused.
LEMMA ItemGone ==
    ASSUME NEW t \in TreeState, NEW S, NEW u, NEW x \in S,
           QueueFits(t, S), RunFits(t, x.run), Others(t, u, x.run), u.queue = t.queue
    PROVE  QueueFits(u, S \ {x})
<1>1. \A y \in Item : y # x /\ ItemFits(t, y) => ItemFits(u, y)
  <2>1. SUFFICES ASSUME NEW y \in Item, y # x, ItemFits(t, y)
                 PROVE  ItemFits(u, y)
    OBVIOUS
  <2>2. x \in Item /\ ItemFits(t, x)
    BY DEF QueueFits
  <2>3. y.run \in Runs \ {x.run}
    BY <2>1, <2>2, OneItem DEF Item
  <2>4. QED
    BY <2>1, <2>3 DEF Others, ItemFits
<1>2. \A i \in DOMAIN t.queue : t.queue[i] \in Item /\ t.queue[i] # x
  BY DEF QueueFits, TreeState
<1>3. QED
  BY <1>1, <1>2 DEF QueueFits

\* dispatch() gives a run its capacity.
LEMMA GrantedFields ==
    ASSUME NEW t \in RawState, NEW x \in Item, plan \in Plans
    PROVE  LET u == Granted(t, x)
               r == x.run
           IN  /\ u \in RawState
               /\ u.ledger = [t.ledger EXCEPT ![r] = "active"]
               /\ u.launched = t.launched
               /\ u.active = t.active + 1 /\ u.queued = t.queued - 1
               /\ u.used = [t.used EXCEPT ![plan.deployment] = @ + 1]
               /\ u.holds = [t.holds EXCEPT ![r] = TRUE]
               /\ u.entry = [t.entry EXCEPT ![r] = "running"]
               /\ u.queue = t.queue /\ u.outcome = t.outcome
               /\ u.body = IF x.resume THEN t.body ELSE [t.body EXCEPT ![r] = "working"]
               /\ u.await = IF x.resume THEN [t.await EXCEPT ![r] = "granted"] ELSE t.await
<1> DEFINE d == plan.deployment
           r == x.run
           s == [t EXCEPT !.ledger[r] = "active", !.active = @ + 1, !.queued = @ - 1,
                          !.used[d] = @ + 1, !.holds[r] = TRUE, !.entry[r] = "running"]
<1>1. r \in Runs /\ d \in Deployments
  BY TreeSchedulerAssumption DEF Item
<1>2. /\ s.ledger = [t.ledger EXCEPT ![r] = "active"]
      /\ s.launched = t.launched
      /\ s.active = t.active + 1 /\ s.queued = t.queued - 1
      /\ s.used = [t.used EXCEPT ![d] = @ + 1]
      /\ s.holds = [t.holds EXCEPT ![r] = TRUE]
      /\ s.entry = [t.entry EXCEPT ![r] = "running"]
      /\ s.queue = t.queue /\ s.outcome = t.outcome
      /\ s.body = t.body /\ s.await = t.await
  BY DEF RawState
<1>3. s \in RawState
  <2>1. /\ [t.ledger EXCEPT ![r] = "active"] \in [Runs -> LedgerStates]
        /\ t.active + 1 \in Int /\ t.queued - 1 \in Int
        /\ [t.used EXCEPT ![d] = @ + 1] \in [Deployments -> Int]
        /\ [t.holds EXCEPT ![r] = TRUE] \in [Runs -> BOOLEAN]
        /\ [t.entry EXCEPT ![r] = "running"] \in [Runs -> EntryStates]
    BY <1>1 DEF RawState, LedgerStates, EntryStates
  <2>2. QED
    BY <2>1 DEF RawState
<1>4. Granted(t, x) = IF x.resume THEN [s EXCEPT !.await[r] = "granted"]
                                  ELSE [s EXCEPT !.body[r] = "working"]
  BY DEF Granted
<1> HIDE DEF s, d
<1>5. CASE x.resume
  <2>1. Granted(t, x) = [s EXCEPT !.await[r] = "granted"]
    BY <1>4, <1>5
  <2>2. [s EXCEPT !.await[r] = "granted"] \in RawState
    BY <1>1, <1>3 DEF RawState, AwaitStates
  <2>3. LET u == [s EXCEPT !.await[r] = "granted"]
        IN  /\ u.entry = s.entry /\ u.ledger = s.ledger /\ u.launched = s.launched
            /\ u.active = s.active /\ u.queued = s.queued /\ u.used = s.used
            /\ u.holds = s.holds /\ u.queue = s.queue /\ u.outcome = s.outcome
            /\ u.body = s.body /\ u.await = [s.await EXCEPT ![r] = "granted"]
    BY <1>3 DEF RawState
  <2>4. QED
    BY <1>2, <1>5, <2>1, <2>2, <2>3 DEF d
<1>6. CASE ~x.resume
  <2>1. Granted(t, x) = [s EXCEPT !.body[r] = "working"]
    BY <1>4, <1>6
  <2>2. [s EXCEPT !.body[r] = "working"] \in RawState
    BY <1>1, <1>3 DEF RawState
  <2>3. LET u == [s EXCEPT !.body[r] = "working"]
        IN  /\ u.entry = s.entry /\ u.ledger = s.ledger /\ u.launched = s.launched
            /\ u.active = s.active /\ u.queued = s.queued /\ u.used = s.used
            /\ u.holds = s.holds /\ u.queue = s.queue /\ u.outcome = s.outcome
            /\ u.await = s.await /\ u.body = [s.body EXCEPT ![r] = "working"]
    BY <1>3 DEF RawState
  <2>4. QED
    BY <1>2, <1>6, <2>1, <2>2, <2>3 DEF d
<1>7. QED
  BY <1>5, <1>6

\* The ledger lets a run go.
LEMMA FinishedFields ==
    ASSUME NEW t \in RawState, NEW r \in Runs
    PROVE  LET u == Finished(t, r)
           IN  /\ u \in RawState
               /\ u.ledger = [t.ledger EXCEPT ![r] = IF @ = "none" THEN "none" ELSE "terminal"]
               /\ u.launched = t.launched
               /\ u.active = t.active - One(Active(t, r))
               /\ u.queued = t.queued - One(Queued(t, r))
               /\ u.used = t.used /\ u.holds = t.holds /\ u.entry = t.entry
               /\ u.queue = t.queue /\ u.outcome = t.outcome
               /\ u.body = t.body /\ u.await = t.await
<1>1. CASE t.ledger[r] \in {"none", "terminal"}
  <2>1. Finished(t, r) = t /\ ~Active(t, r) /\ ~Queued(t, r)
    BY <1>1 DEF Finished, Active, Queued
  <2>2. t.ledger = [t.ledger EXCEPT ![r] = IF @ = "none" THEN "none" ELSE "terminal"]
    BY <1>1 DEF RawState
  <2>3. t.active = t.active - 0 /\ t.queued = t.queued - 0
    BY DEF RawState
  <2>4. QED
    BY <2>1, <2>2, <2>3 DEF One
<1>2. CASE t.ledger[r] \in {"queued", "active", "waiting"}
  <2>1. Finished(t, r) = [t EXCEPT !.ledger[r] = "terminal",
                   !.active = IF t.ledger[r] = "active" THEN @ - 1 ELSE @,
                   !.queued = IF t.ledger[r] = "active" THEN @ ELSE @ - 1]
    BY <1>2 DEF Finished
  <2>2. QED
    <3> DEFINE u == [t EXCEPT !.ledger[r] = "terminal",
                   !.active = IF t.ledger[r] = "active" THEN @ - 1 ELSE @,
                   !.queued = IF t.ledger[r] = "active" THEN @ ELSE @ - 1]
    <3>1. /\ u.ledger = [t.ledger EXCEPT ![r] = "terminal"]
          /\ u.active = IF t.ledger[r] = "active" THEN t.active - 1 ELSE t.active
          /\ u.queued = IF t.ledger[r] = "active" THEN t.queued ELSE t.queued - 1
          /\ u.launched = t.launched
          /\ u.used = t.used /\ u.holds = t.holds /\ u.entry = t.entry
          /\ u.queue = t.queue /\ u.outcome = t.outcome
          /\ u.body = t.body /\ u.await = t.await
      BY DEF RawState
    <3>2. /\ [t.ledger EXCEPT ![r] = "terminal"] \in [Runs -> LedgerStates]
          /\ (IF t.ledger[r] = "active" THEN t.active - 1 ELSE t.active) \in Int
          /\ (IF t.ledger[r] = "active" THEN t.queued ELSE t.queued - 1) \in Int
      BY DEF RawState, LedgerStates
    <3>3. u \in RawState
      BY <3>2 DEF RawState
    <3>4. [t.ledger EXCEPT ![r] = IF @ = "none" THEN "none" ELSE "terminal"]
             = [t.ledger EXCEPT ![r] = "terminal"]
      BY <1>2 DEF RawState
    <3>5. t.active - 0 = t.active /\ t.queued - 0 = t.queued
      BY DEF RawState
    <3> HIDE DEF u
    <3>6. u.active = t.active - One(Active(t, r)) /\ u.queued = t.queued - One(Queued(t, r))
      BY <1>2, <3>1, <3>5 DEF One, Active, Queued
    <3>7. Finished(t, r) = u
      BY <2>1 DEF u
    <3>8. QED
      BY <3>1, <3>3, <3>4, <3>6, <3>7
<1>3. QED
  BY <1>1, <1>2 DEF RawState, LedgerStates

\* dispatch() refuses a run.
LEMMA RefusedFields ==
    ASSUME NEW t \in RawState, NEW x \in Item
    PROVE  LET u == Refused(t, x)
               r == x.run
           IN  /\ u \in RawState
               /\ u.ledger = [t.ledger EXCEPT ![r] = IF @ = "none" THEN "none" ELSE "terminal"]
               /\ u.launched = t.launched
               /\ u.active = t.active - One(Active(t, r))
               /\ u.queued = t.queued - One(Queued(t, r))
               /\ u.used = t.used /\ u.holds = t.holds
               /\ u.entry = [t.entry EXCEPT ![r] = "settled"]
               /\ u.queue = t.queue
               /\ u.outcome = IF x.resume THEN t.outcome
                                          ELSE [t.outcome EXCEPT ![r] = "rejected"]
               /\ u.body = t.body
               /\ u.await = IF x.resume THEN [t.await EXCEPT ![r] = "refused"] ELSE t.await
<1>1. x.run \in Runs
  BY DEF Item
<1> DEFINE f == Finished(t, x.run)
<1>2. /\ f \in RawState
      /\ f.ledger = [t.ledger EXCEPT ![x.run] = IF @ = "none" THEN "none" ELSE "terminal"]
      /\ f.launched = t.launched
      /\ f.active = t.active - One(Active(t, x.run))
      /\ f.queued = t.queued - One(Queued(t, x.run))
      /\ f.used = t.used /\ f.holds = t.holds /\ f.entry = t.entry
      /\ f.queue = t.queue /\ f.outcome = t.outcome
      /\ f.body = t.body /\ f.await = t.await
  BY <1>1, FinishedFields
<1>3. Refused(t, x) = IF x.resume
          THEN [[f EXCEPT !.entry[x.run] = "settled"] EXCEPT !.await[x.run] = "refused"]
          ELSE [[f EXCEPT !.entry[x.run] = "settled"] EXCEPT !.outcome[x.run] = "rejected"]
  BY DEF Refused
<1> HIDE DEF f
<1> DEFINE s == [f EXCEPT !.entry[x.run] = "settled"]
<1>4. /\ s \in RawState /\ s.entry = [t.entry EXCEPT ![x.run] = "settled"]
      /\ s.ledger = f.ledger /\ s.launched = f.launched /\ s.active = f.active
      /\ s.queued = f.queued /\ s.used = f.used /\ s.holds = f.holds
      /\ s.queue = f.queue /\ s.outcome = f.outcome /\ s.body = f.body /\ s.await = f.await
  BY <1>1, <1>2 DEF RawState, EntryStates
<1>5. Refused(t, x) = IF x.resume THEN [s EXCEPT !.await[x.run] = "refused"]
                                  ELSE [s EXCEPT !.outcome[x.run] = "rejected"]
  BY <1>3
<1> HIDE DEF s
<1>6. CASE x.resume
  <2>1. Refused(t, x) = [s EXCEPT !.await[x.run] = "refused"]
    BY <1>5, <1>6
  <2>2. [s EXCEPT !.await[x.run] = "refused"] \in RawState
    BY <1>1, <1>4 DEF RawState, AwaitStates
  <2>3. LET u == [s EXCEPT !.await[x.run] = "refused"]
        IN  /\ u.entry = s.entry /\ u.ledger = s.ledger /\ u.launched = s.launched
            /\ u.active = s.active /\ u.queued = s.queued /\ u.used = s.used
            /\ u.holds = s.holds /\ u.queue = s.queue /\ u.outcome = s.outcome
            /\ u.body = s.body /\ u.await = [s.await EXCEPT ![x.run] = "refused"]
    BY <1>4 DEF RawState
  <2>4. QED
    BY <1>2, <1>4, <1>6, <2>1, <2>2, <2>3
<1>7. CASE ~x.resume
  <2>1. Refused(t, x) = [s EXCEPT !.outcome[x.run] = "rejected"]
    BY <1>5, <1>7
  <2>2. [s EXCEPT !.outcome[x.run] = "rejected"] \in RawState
    BY <1>1, <1>4 DEF RawState
  <2>3. LET u == [s EXCEPT !.outcome[x.run] = "rejected"]
        IN  /\ u.entry = s.entry /\ u.ledger = s.ledger /\ u.launched = s.launched
            /\ u.active = s.active /\ u.queued = s.queued /\ u.used = s.used
            /\ u.holds = s.holds /\ u.queue = s.queue /\ u.await = s.await
            /\ u.body = s.body /\ u.outcome = [s.outcome EXCEPT ![x.run] = "rejected"]
    BY <1>4 DEF RawState
  <2>4. QED
    BY <1>2, <1>4, <1>7, <2>1, <2>2, <2>3
<1>8. QED
  BY <1>6, <1>7

(***************************************************************************)
(* dispatch(): each item is granted, refused or kept for later.            *)
(***************************************************************************)

\* There is no capacity: the item stays in the queue.
LEMMA KeptForLater ==
    ASSUME NEW t, NEW S, NEW x \in S, TreeInv(plan, t, S)
    PROVE  LET u == [t EXCEPT !.queue = Append(@, x)]
           IN  /\ TreeInv(plan, u, S \ {x}) /\ Follows(t, u)
               /\ Capable(t) => Capable(u)
<1> DEFINE u == [t EXCEPT !.queue = Append(@, x)]
<1>1. t \in TreeState /\ x \in Item /\ QueueFits(t, S)
  BY DEF TreeInv, QueueFits
<1>2. /\ u.ledger = t.ledger /\ u.launched = t.launched /\ u.active = t.active
      /\ u.queued = t.queued /\ u.used = t.used /\ u.holds = t.holds
      /\ u.entry = t.entry /\ u.outcome = t.outcome /\ u.body = t.body /\ u.await = t.await
      /\ u.queue = Append(t.queue, x)
  BY <1>1 DEF TreeState
<1>3. u \in TreeState
  <2>1. Append(t.queue, x) \in Seq(Item)
    BY <1>1 DEF TreeState
  <2>2. QED
    BY <1>1, <2>1 DEF TreeState
<1> HIDE DEF u
<1>4. \A y \in Item : ItemFits(t, y) <=> ItemFits(u, y)
  BY <1>2 DEF ItemFits
<1>5. QueueFits(u, S \ {x})
  <2>1. t.queue \in Seq(Item) /\ u.queue = Append(t.queue, x)
    BY <1>1, <1>2 DEF TreeState
  <2>2. /\ DOMAIN t.queue = 1..Len(t.queue) /\ DOMAIN u.queue = 1..(Len(t.queue) + 1)
        /\ Len(t.queue) \in Nat
        /\ \A i \in 1..Len(t.queue) : u.queue[i] = t.queue[i] /\ u.queue[i] \in Item
        /\ u.queue[Len(t.queue) + 1] = x
    BY <2>1, <1>1
  <2>3. \A i \in 1..Len(t.queue) : u.queue[i] \notin S /\ ItemFits(u, u.queue[i])
    BY <1>1, <1>4, <2>2 DEF QueueFits
  <2>4. \A i, j \in 1..Len(t.queue) : u.queue[i] = u.queue[j] => i = j
    BY <1>1, <2>2 DEF QueueFits
  <2>5. S \subseteq Item /\ \A y \in S : ItemFits(u, y)
    BY <1>1, <1>4 DEF QueueFits
  <2>6. \A i \in DOMAIN u.queue : i \in 1..Len(t.queue) \/ i = Len(t.queue) + 1
    BY <2>2
  <2>7. \A i \in DOMAIN u.queue : u.queue[i] \notin S \ {x} /\ ItemFits(u, u.queue[i])
    BY <2>2, <2>3, <2>5, <2>6
  <2>8. \A i, j \in DOMAIN u.queue : u.queue[i] = u.queue[j] => i = j
    BY <2>2, <2>3, <2>4, <2>6
  <2>9. QED
    BY <2>5, <2>7, <2>8 DEF QueueFits
<1>6. (\A r \in Runs : RunFits(u, r)) /\ Counts(plan, u)
  BY <1>2 DEF TreeInv, RunFits, Counts
<1>7. Follows(t, u) /\ (Capable(t) => Capable(u))
  BY <1>2 DEF Follows, FollowsRun, Capable, CapableRun
<1>8. TreeInv(plan, u, S \ {x})
  BY <1>3, <1>5, <1>6 DEF TreeInv
<1>9. QED
  BY <1>7, <1>8 DEF u

\* What is known of the run of an item that waits.
LEMMA ItemRun ==
    ASSUME NEW p, NEW t, NEW S, NEW x \in S, TreeInv(p, t, S)
    PROVE  /\ x \in Item /\ x.run \in Runs /\ x.resume \in BOOLEAN
           /\ t \in TreeState /\ QueueFits(t, S) /\ RunFits(t, x.run) /\ ItemFits(t, x)
           /\ t.ledger[x.run] \in {"queued", "waiting", "terminal"}
           /\ ~x.resume => t.ledger[x.run] = "queued"
<1>1. x \in Item /\ ItemFits(t, x) /\ t \in TreeState /\ QueueFits(t, S)
  BY DEF TreeInv, QueueFits
<1>2. x.run \in Runs /\ x.resume \in BOOLEAN
  BY <1>1 DEF Item
<1>3. RunFits(t, x.run)
  BY <1>2 DEF TreeInv
<1>4. /\ t.ledger[x.run] \in {"queued", "waiting", "terminal"}
      /\ ~x.resume => t.ledger[x.run] = "queued"
  BY <1>1, <1>2, <1>3 DEF ItemFits, RunFits
<1>5. QED
  BY <1>1, <1>2, <1>3, <1>4

\* There is capacity, and the ledger agrees.
LEMMA GrantedKeeps ==
    ASSUME NEW t, NEW S, NEW x \in S, TreeInv(plan, t, S),
           t.used[plan.deployment] < Limits[plan.deployment], MayActivate(t, x.run)
    PROVE  LET u == Granted(t, x)
           IN  /\ TreeInv(plan, u, S \ {x}) /\ Follows(t, u)
               /\ Capable(t) => Capable(u)
<1> DEFINE u == Granted(t, x)
           r == x.run
<1>1. /\ x \in Item /\ r \in Runs /\ x.resume \in BOOLEAN
      /\ t \in TreeState /\ QueueFits(t, S) /\ RunFits(t, r) /\ ItemFits(t, x)
      /\ ~x.resume => t.ledger[r] = "queued"
  BY ItemRun
<1>2. t.ledger[r] \in {"queued", "waiting"}
  BY DEF MayActivate
<1>3. plan \in Plans /\ t \in RawState
  BY <1>1, Untyped DEF TreeInv
<1>4. plan.deployment \in Deployments
  BY <1>3, TreeSchedulerAssumption
<1>5. /\ u \in RawState
      /\ u.ledger = [t.ledger EXCEPT ![r] = "active"]
      /\ u.launched = t.launched
      /\ u.active = t.active + 1 /\ u.queued = t.queued - 1
      /\ u.used = [t.used EXCEPT ![plan.deployment] = @ + 1]
      /\ u.holds = [t.holds EXCEPT ![r] = TRUE]
      /\ u.entry = [t.entry EXCEPT ![r] = "running"]
      /\ u.queue = t.queue /\ u.outcome = t.outcome
      /\ u.body = IF x.resume THEN t.body ELSE [t.body EXCEPT ![r] = "working"]
      /\ u.await = IF x.resume THEN [t.await EXCEPT ![r] = "granted"] ELSE t.await
  BY <1>1, <1>3, GrantedFields
<1> HIDE DEF u
<1>6. Others(t, u, r)
  <2>1. /\ t.ledger \in [Runs -> LedgerStates] /\ t.entry \in [Runs -> EntryStates]
        /\ DOMAIN t.holds = Runs /\ DOMAIN t.body = Runs /\ DOMAIN t.await = Runs
    BY <1>1 DEF TreeState
  <2>2. \A y \in Runs \ {r} : /\ u.ledger[y] = t.ledger[y] /\ u.entry[y] = t.entry[y]
                               /\ u.holds[y] = t.holds[y]
    BY <1>1, <1>5, <2>1
  <2>3. \A y \in Runs \ {r} : u.body[y] = t.body[y] /\ u.await[y] = t.await[y]
    BY <1>1, <1>5, <2>1
  <2>4. QED
    BY <1>5, <2>2, <2>3 DEF Others
<1>7. /\ u.ledger[r] = "active" /\ u.entry[r] = "running" /\ u.holds[r] = TRUE
      /\ u.outcome[r] = t.outcome[r]
      /\ u.body[r] = IF x.resume THEN t.body[r] ELSE "working"
      /\ u.await[r] = IF x.resume THEN "granted" ELSE t.await[r]
  BY <1>1, <1>5 DEF TreeState
<1>8. ~x.resume => /\ t.entry[r] = "queued" /\ t.outcome[r] = "pending"
                   /\ t.body[r] = "none" /\ t.await[r] = "none"
  BY <1>1 DEF ItemFits, RunFits
<1>9. RunFits(u, r)
  BY <1>1, <1>7, <1>8 DEF RunFits
<1>10. QueueFits(u, S \ {x})
  BY <1>1, <1>5, <1>6, ItemGone
<1>11. /\ u.active = t.active + One(Active(u, r)) - One(Active(t, r))
       /\ u.queued = t.queued + One(Queued(u, r)) - One(Queued(t, r))
  BY <1>1, <1>2, <1>5, <1>7 DEF One, Active, Queued, TreeState
<1>12. \A d \in Deployments : u.used[d] = IF d = plan.deployment THEN u.active ELSE 0
  BY <1>1, <1>4, <1>5 DEF TreeInv, Counts, TreeState
<1>13. u.active <= Limits[plan.deployment] /\ u.queued <= plan.maxQueued
  <2>1. t.used[plan.deployment] = t.active /\ t.queued <= plan.maxQueued
    BY <1>4 DEF TreeInv, Counts
  <2>2. /\ t.active \in Nat /\ t.queued \in Nat
        /\ Limits[plan.deployment] \in Nat /\ plan.maxQueued \in Nat
    BY <1>1, <1>3, <1>4, TreeSchedulerAssumption DEF TreeState
  <2>3. QED
    BY <1>5, <2>1, <2>2
<1>14. TreeInv(plan, u, S \ {x})
  BY <1>1, <1>2, <1>5, <1>6, <1>7, <1>9, <1>10, <1>11, <1>12, <1>13, OneRun
<1>15. FollowsRun(t, u, r)
  <2>1. t.entry[r] # "settled"
    BY <1>1, <1>2 DEF RunFits
  <2>2. QED
    BY <1>7, <1>8, <2>1 DEF FollowsRun
<1>16. CapableRun(u, r)
  BY <1>7, <1>8 DEF CapableRun
<1>17. QED
  BY <1>1, <1>6, <1>14, <1>15, <1>16, FollowsOne, CapableOne DEF u

\* A run that is refused settles.
LEMMA RefusedInv ==
    ASSUME NEW t, NEW S, NEW x \in S, TreeInv(plan, t, S)
    PROVE  LET u == Refused(t, x)
           IN  /\ TreeInv(plan, u, S \ {x}) /\ Follows(t, u)
               /\ t.body[x.run] # "working" /\ Capable(t) => Capable(u)
<1> DEFINE u == Refused(t, x)
           r == x.run
<1>1. /\ x \in Item /\ r \in Runs /\ x.resume \in BOOLEAN
      /\ t \in TreeState /\ QueueFits(t, S) /\ RunFits(t, r) /\ ItemFits(t, x)
      /\ t.ledger[r] \in {"queued", "waiting", "terminal"}
      /\ ~x.resume => t.ledger[r] = "queued"
  BY ItemRun
<1>3. plan \in Plans /\ t \in RawState
  BY <1>1, Untyped DEF TreeInv
<1>4. plan.deployment \in Deployments
  BY <1>3, TreeSchedulerAssumption
<1>5. /\ u \in RawState
      /\ u.ledger = [t.ledger EXCEPT ![r] = IF @ = "none" THEN "none" ELSE "terminal"]
      /\ u.launched = t.launched
      /\ u.active = t.active - One(Active(t, r))
      /\ u.queued = t.queued - One(Queued(t, r))
      /\ u.used = t.used /\ u.holds = t.holds
      /\ u.entry = [t.entry EXCEPT ![r] = "settled"]
      /\ u.queue = t.queue
      /\ u.outcome = IF x.resume THEN t.outcome ELSE [t.outcome EXCEPT ![r] = "rejected"]
      /\ u.body = t.body
      /\ u.await = IF x.resume THEN [t.await EXCEPT ![r] = "refused"] ELSE t.await
  BY <1>1, <1>3, RefusedFields
<1> HIDE DEF u
<1>6. Others(t, u, r)
  <2>1. /\ t.ledger \in [Runs -> LedgerStates] /\ t.entry \in [Runs -> EntryStates]
        /\ DOMAIN t.outcome = Runs /\ DOMAIN t.await = Runs
    BY <1>1 DEF TreeState
  <2>2. \A y \in Runs \ {r} : /\ u.ledger[y] = t.ledger[y] /\ u.entry[y] = t.entry[y]
                               /\ u.outcome[y] = t.outcome[y] /\ u.await[y] = t.await[y]
    BY <1>1, <1>5, <2>1
  <2>3. QED
    BY <1>5, <2>2 DEF Others
<1>7. /\ u.ledger[r] = "terminal" /\ u.entry[r] = "settled" /\ u.holds[r] = t.holds[r]
      /\ u.outcome[r] = IF x.resume THEN t.outcome[r] ELSE "rejected"
      /\ u.body[r] = t.body[r]
      /\ u.await[r] = IF x.resume THEN "refused" ELSE t.await[r]
  BY <1>1, <1>5 DEF TreeState
<1>8. ~x.resume => /\ t.entry[r] = "queued" /\ t.outcome[r] = "pending"
                   /\ t.body[r] = "none" /\ t.await[r] = "none"
  BY <1>1 DEF ItemFits, RunFits
<1>9. RunFits(u, r)
  BY <1>1, <1>7, <1>8 DEF RunFits
<1>10. QueueFits(u, S \ {x})
  BY <1>1, <1>5, <1>6, ItemGone
<1>11. /\ u.active = t.active + One(Active(u, r)) - One(Active(t, r))
       /\ u.queued = t.queued + One(Queued(u, r)) - One(Queued(t, r))
       /\ u.active = t.active
  BY <1>1, <1>5, <1>7 DEF One, Active, Queued, TreeState
<1>12. \A d \in Deployments : u.used[d] = IF d = plan.deployment THEN u.active ELSE 0
  BY <1>5, <1>11 DEF TreeInv, Counts
<1>13. u.active <= Limits[plan.deployment] /\ u.queued <= plan.maxQueued
  <2>1. t.active <= Limits[plan.deployment] /\ t.queued <= plan.maxQueued
    BY DEF TreeInv, Counts
  <2>2. t.queued \in Nat /\ plan.maxQueued \in Nat
    BY <1>1, <1>3, TreeSchedulerAssumption DEF TreeState
  <2>3. QED
    BY <1>5, <1>11, <2>1, <2>2 DEF One
<1>14. TreeInv(plan, u, S \ {x})
  BY <1>1, <1>5, <1>6, <1>7, <1>9, <1>10, <1>11, <1>12, <1>13, OneRun
<1>15. FollowsRun(t, u, r)
  BY <1>7, <1>8 DEF FollowsRun
<1>16. t.body[r] # "working" => CapableRun(u, r)
  BY <1>7 DEF CapableRun
<1>17. QED
  BY <1>1, <1>6, <1>14, <1>15, <1>16, FollowsOne, CapableOne DEF u

\* There is capacity, and the ledger refuses: as long as there is time, only a
\* run that has settled.
LEMMA RefusedKeeps ==
    ASSUME NEW t, NEW S, NEW x \in S, TreeInv(plan, t, S),
           t.used[plan.deployment] < Limits[plan.deployment], ~MayActivate(t, x.run)
    PROVE  LET u == Refused(t, x)
           IN  /\ TreeInv(plan, u, S \ {x}) /\ Follows(t, u)
               /\ ~expired /\ Capable(t) => Capable(u)
<1> DEFINE r == x.run
<1>1. /\ r \in Runs /\ t \in TreeState /\ RunFits(t, r) /\ ItemFits(t, x)
      /\ t.ledger[r] \in {"queued", "waiting", "terminal"}
  BY ItemRun
<1>2. plan \in Plans /\ plan.deployment \in Deployments
  BY TreeSchedulerAssumption DEF TreeInv
<1>3. ASSUME ~expired, Capable(t), t.body[r] = "working" PROVE FALSE
  <2>1. CapableRun(t, r)
    BY <1>1, <1>3 DEF Capable
  <2>2. x.resume /\ t.await[r] = "queued"
    BY <1>1, <1>3 DEF ItemFits, RunFits
  <2>3. t.ledger[r] = "waiting"
    BY <1>3, <2>1, <2>2 DEF CapableRun
  <2>4. t.active < plan.maxActive
    <3>1. t.used[plan.deployment] = t.active
      BY <1>2 DEF TreeInv, Counts
    <3>2. Limits[plan.deployment] <= plan.maxActive
      BY <1>2, TreeSchedulerAssumption
    <3>3. t.active \in Nat /\ Limits[plan.deployment] \in Nat /\ plan.maxActive \in Nat
      BY <1>1, <1>2, TreeSchedulerAssumption DEF TreeState
    <3>4. QED
      BY <3>1, <3>2, <3>3
  <2>5. QED
    BY <1>3, <2>3, <2>4 DEF MayActivate
<1>4. QED
  BY <1>3, RefusedInv

\* One item of the queue.
LEMMA OfferKeeps ==
    ASSUME NEW t, NEW S, NEW x \in S, TreeInv(plan, t, S)
    PROVE  LET u == Offer(t, x)
           IN  /\ TreeInv(plan, u, S \ {x}) /\ Follows(t, u)
               /\ ~expired /\ Capable(t) => Capable(u)
<1>1. CASE t.used[plan.deployment] >= Limits[plan.deployment]
  BY <1>1, KeptForLater DEF Offer
<1>2. CASE ~(t.used[plan.deployment] >= Limits[plan.deployment]) /\ MayActivate(t, x.run)
  <2>1. t.used[plan.deployment] < Limits[plan.deployment]
    <3>1. t \in TreeState /\ plan \in Plans
      BY DEF TreeInv
    <3>2. t.used[plan.deployment] \in Nat /\ Limits[plan.deployment] \in Nat
      BY <3>1, TreeSchedulerAssumption DEF TreeState
    <3>3. QED
      BY <1>2, <3>2
  <2>2. Offer(t, x) = Granted(t, x)
    BY <1>2 DEF Offer
  <2>3. QED
    BY <1>2, <2>1, <2>2, GrantedKeeps
<1>3. CASE ~(t.used[plan.deployment] >= Limits[plan.deployment]) /\ ~MayActivate(t, x.run)
  <2>1. t.used[plan.deployment] < Limits[plan.deployment]
    <3>1. t \in TreeState /\ plan \in Plans
      BY DEF TreeInv
    <3>2. t.used[plan.deployment] \in Nat /\ Limits[plan.deployment] \in Nat
      BY <3>1, TreeSchedulerAssumption DEF TreeState
    <3>3. QED
      BY <1>3, <3>2
  <2>2. Offer(t, x) = Refused(t, x)
    BY <1>3 DEF Offer
  <2>3. QED
    BY <1>3, <2>1, <2>2, RefusedKeeps
<1>4. QED
  BY <1>1, <1>2, <1>3

(***************************************************************************)
(* Folds over the queue: FoldLeft(Op, b, q) is the last of a chain of      *)
(* states that begins with b and takes one item of q after the other.      *)
(***************************************************************************)

\* What the loop of cancelRun() does with an item.
Keep(r, acc, item) == IF item.run = r /\ ~item.resume THEN acc ELSE Append(acc, item)

\* What the loops over the queue do with an item.
Step(k, r, acc, item) ==
    IF k = "dispatch" THEN Offer(acc, item)
    ELSE IF k = "cancel" THEN Dropped(acc, item) ELSE Keep(r, acc, item)

\* The recursive equation of FoldLeft has a solution.
Chain(k, r, b, q, n) ==
    \E g : /\ g = [s \in SUBSET (1..n) |-> g[s]]
           /\ \A s \in SUBSET (1..n) :
                 g[s] = IF s = {} THEN b ELSE Step(k, r, g[s \ {Max(s)}], q[Max(s)])
LEMMA Chained ==
    ASSUME NEW k, NEW r, NEW b, NEW q, NEW N \in Nat
    PROVE  Chain(k, r, b, q, N)
<1> DEFINE G(n) == Chain(k, r, b, q, n)
           Bad == {n \in Nat : ~G(n)}
<1>1. G(0)
  <2> DEFINE g == [s \in SUBSET (1..0) |-> b]
  <2>1. \A s \in SUBSET (1..0) : s = {}
    OBVIOUS
  <2>2. g = [s \in SUBSET (1..0) |-> g[s]] /\ \A s \in SUBSET (1..0) : s = {} /\ g[s] = b
    BY <2>1
  <2>3. QED
    BY <2>2 DEF Chain
<1>2. ASSUME NEW n \in Nat, G(n)
      PROVE  G(n + 1)
  <2>1. PICK g : \A s \in SUBSET (1..n) :
                    g[s] = IF s = {} THEN b ELSE Step(k, r, g[s \ {Max(s)}], q[Max(s)])
    BY <1>2 DEF Chain
  <2> DEFINE f == [s \in SUBSET (1..n + 1) |->
                      IF n + 1 \in s THEN Step(k, r, g[s \ {n + 1}], q[n + 1]) ELSE g[s]]
  <2>2. ASSUME NEW s \in SUBSET (1..n + 1)
        PROVE  f[s] = IF s = {} THEN b ELSE Step(k, r, f[s \ {Max(s)}], q[Max(s)])
    <3>1. CASE n + 1 \in s
      <4>1. Max(s) = n + 1
        BY <3>1, MaxIs
      <4>2. s \ {n + 1} \in SUBSET (1..n + 1) /\ n + 1 \notin s \ {n + 1}
        OBVIOUS
      <4>3. f[s \ {n + 1}] = g[s \ {n + 1}]
        BY <4>2
      <4>4. QED
        BY <3>1, <4>1, <4>3
    <3>2. CASE n + 1 \notin s
      <4>1. s \in SUBSET (1..n)
        BY <3>2
      <4>2. f[s] = g[s]
        BY <3>2
      <4>3. g[s] = IF s = {} THEN b ELSE Step(k, r, g[s \ {Max(s)}], q[Max(s)])
        BY <2>1, <4>1
      <4>4. s \ {Max(s)} \in SUBSET (1..n + 1) /\ n + 1 \notin s \ {Max(s)}
        BY <3>2
      <4>5. f[s \ {Max(s)}] = g[s \ {Max(s)}]
        BY <4>4
      <4>6. QED
        BY <4>2, <4>3, <4>5
    <3>3. QED
      BY <3>1, <3>2
  <2>3. f = [s \in SUBSET (1..n + 1) |-> f[s]]
    OBVIOUS
  <2> HIDE DEF f
  <2>4. QED
    BY <2>2, <2>3 DEF Chain
<1> HIDE DEF G
<1>3. SUFFICES ASSUME Bad # {} PROVE FALSE
  BY DEF G
<1>4. PICK n \in Bad : \A m \in Bad : n <= m
  BY <1>3, LeastNumber
<1>5. n # 0 /\ n - 1 \in Nat /\ (n - 1) + 1 = n
  BY <1>1, <1>4
<1>6. G(n - 1)
  BY <1>4, <1>5
<1>7. QED
  BY <1>2, <1>4, <1>5, <1>6

\* v is the last of the chain of states.
Ends(k, r, b, q, v) ==
    \E h : /\ h[0] = b
           /\ \A i \in 1..Len(q) : h[i] = Step(k, r, h[i - 1], q[i])
           /\ v = h[Len(q)]
LEMMA SolutionEnds ==
    ASSUME NEW k, NEW r, NEW b, NEW q \in Seq(Item), NEW f, NEW v, v = f[DOMAIN q],
           f = [s \in SUBSET (DOMAIN q) |->
                   IF s = {} THEN b ELSE Step(k, r, f[s \ {Max(s)}], q[Max(s)])]
    PROVE  Ends(k, r, b, q, v)
<1>1. DOMAIN q = 1..Len(q) /\ Len(q) \in Nat
  OBVIOUS
<1>2. /\ v = f[1..Len(q)]
      /\ f = [s \in SUBSET (1..Len(q)) |->
                 IF s = {} THEN b ELSE Step(k, r, f[s \ {Max(s)}], q[Max(s)])]
  BY <1>1
<1> DEFINE h == [i \in 0..Len(q) |-> f[1..i]]
<1>3. h[0] = b
  <2>1. 1..0 = {} /\ {} \in SUBSET (1..Len(q)) /\ 0 \in 0..Len(q)
    BY <1>1
  <2>2. QED
    BY <1>2, <2>1
<1>4. ASSUME NEW i \in 1..Len(q)
      PROVE  h[i] = Step(k, r, h[i - 1], q[i])
  <2>1. 1..i \in SUBSET (1..Len(q)) /\ i \in 1..i /\ (1..i) \ {i} = 1..(i - 1)
    <3>1. 1..i \in SUBSET (1..Len(q)) /\ i \in 1..i
      BY <1>1
    <3>2. \A j : j \in (1..i) \ {i} <=> j \in 1..(i - 1)
      BY <1>1
    <3>3. QED
      BY <3>1, <3>2
  <2>2. Max(1..i) = i
    <3>1. 1..i \in SUBSET Int /\ i \in 1..i /\ \A y \in 1..i : y <= i
      OBVIOUS
    <3>2. QED
      BY <3>1, MaxIs
  <2>3. i \in 0..Len(q) /\ i - 1 \in 0..Len(q)
    BY <1>1
  <2>4. f[1..i] = Step(k, r, f[(1..i) \ {Max(1..i)}], q[Max(1..i)])
    BY <1>2, <2>1
  <2>5. QED
    BY <2>1, <2>2, <2>3, <2>4
<1>5. h[Len(q)] = v
  BY <1>1, <1>2
<1> HIDE DEF h
<1>6. QED
  BY <1>3, <1>4, <1>5 DEF Ends

\* dispatch() takes the items of the queue one by one.
LEMMA OfferFold ==
    ASSUME NEW b, NEW q \in Seq(Item)
    PROVE  \E h : /\ h[0] = b
                  /\ \A i \in 1..Len(q) : h[i] = Offer(h[i - 1], q[i])
                  /\ FoldLeft(Offer, b, q) = h[Len(q)]
<1>1. DOMAIN q = 1..Len(q) /\ Len(q) \in Nat
  OBVIOUS
<1>2. PICK g : /\ g = [s \in SUBSET (1..Len(q)) |-> g[s]]
               /\ \A s \in SUBSET (1..Len(q)) :
                     g[s] = IF s = {} THEN b
                            ELSE Step("dispatch", 0, g[s \ {Max(s)}], q[Max(s)])
  <2>1. Chain("dispatch", 0, b, q, Len(q))
    BY <1>1, Chained
  <2>2. QED
    BY <2>1 DEF Chain
<1>3. \A acc, x : Step("dispatch", 0, acc, x) = Offer(acc, x)
  BY DEF Step
<1>4. g = [s \in SUBSET (DOMAIN q) |->
              IF s = {} THEN b ELSE Offer(g[s \ {Max(s)}], q[Max(s)])]
  BY <1>1, <1>2, <1>3
<1>5. \E f : /\ FoldLeft(Offer, b, q) = f[DOMAIN q]
             /\ f = [s \in SUBSET (DOMAIN q) |->
                        IF s = {} THEN b ELSE Offer(f[s \ {Max(s)}], q[Max(s)])]
  BY <1>4, Zenon DEF FoldLeft, MapThenFoldSet
<1>6. PICK f : /\ FoldLeft(Offer, b, q) = f[DOMAIN q]
               /\ f = [s \in SUBSET (DOMAIN q) |->
                          IF s = {} THEN b ELSE Offer(f[s \ {Max(s)}], q[Max(s)])]
  BY <1>5
<1>7. /\ f = [s \in SUBSET (DOMAIN q) |-> f[s]]
      /\ \A s \in SUBSET (DOMAIN q) :
            f[s] = IF s = {} THEN b ELSE Offer(f[s \ {Max(s)}], q[Max(s)])
  BY <1>6
<1>8. f = [s \in SUBSET (DOMAIN q) |->
              IF s = {} THEN b ELSE Step("dispatch", 0, f[s \ {Max(s)}], q[Max(s)])]
  BY <1>3, <1>7
<1>9. Ends("dispatch", 0, b, q, FoldLeft(Offer, b, q))
  BY <1>6, <1>8, SolutionEnds
<1>10. QED
  BY <1>3, <1>9 DEF Ends

\* ... and so does cancel(),
LEMMA DroppedFold ==
    ASSUME NEW b, NEW q \in Seq(Item)
    PROVE  \E h : /\ h[0] = b
                  /\ \A i \in 1..Len(q) : h[i] = Dropped(h[i - 1], q[i])
                  /\ FoldLeft(Dropped, b, q) = h[Len(q)]
<1>1. DOMAIN q = 1..Len(q) /\ Len(q) \in Nat
  OBVIOUS
<1>2. PICK g : /\ g = [s \in SUBSET (1..Len(q)) |-> g[s]]
               /\ \A s \in SUBSET (1..Len(q)) :
                     g[s] = IF s = {} THEN b
                            ELSE Step("cancel", 0, g[s \ {Max(s)}], q[Max(s)])
  <2>1. Chain("cancel", 0, b, q, Len(q))
    BY <1>1, Chained
  <2>2. QED
    BY <2>1 DEF Chain
<1>3. \A acc, x : Step("cancel", 0, acc, x) = Dropped(acc, x)
  BY DEF Step
<1>4. g = [s \in SUBSET (DOMAIN q) |->
              IF s = {} THEN b ELSE Dropped(g[s \ {Max(s)}], q[Max(s)])]
  BY <1>1, <1>2, <1>3
<1>5. \E f : /\ FoldLeft(Dropped, b, q) = f[DOMAIN q]
             /\ f = [s \in SUBSET (DOMAIN q) |->
                        IF s = {} THEN b ELSE Dropped(f[s \ {Max(s)}], q[Max(s)])]
  BY <1>4, Zenon DEF FoldLeft, MapThenFoldSet
<1>6. PICK f : /\ FoldLeft(Dropped, b, q) = f[DOMAIN q]
               /\ f = [s \in SUBSET (DOMAIN q) |->
                          IF s = {} THEN b ELSE Dropped(f[s \ {Max(s)}], q[Max(s)])]
  BY <1>5
<1>7. /\ f = [s \in SUBSET (DOMAIN q) |-> f[s]]
      /\ \A s \in SUBSET (DOMAIN q) :
            f[s] = IF s = {} THEN b ELSE Dropped(f[s \ {Max(s)}], q[Max(s)])
  BY <1>6
<1>8. f = [s \in SUBSET (DOMAIN q) |->
              IF s = {} THEN b ELSE Step("cancel", 0, f[s \ {Max(s)}], q[Max(s)])]
  BY <1>3, <1>7
<1>9. Ends("cancel", 0, b, q, FoldLeft(Dropped, b, q))
  BY <1>6, <1>8, SolutionEnds
<1>10. QED
  BY <1>3, <1>9 DEF Ends

\* ... and so does cancelRun().
LEMMA WithoutFold ==
    ASSUME NEW r, NEW q \in Seq(Item)
    PROVE  \E h : /\ h[0] = <<>>
                  /\ \A i \in 1..Len(q) : h[i] = Keep(r, h[i - 1], q[i])
                  /\ Without(q, r) = h[Len(q)]
<1>1. DOMAIN q = 1..Len(q) /\ Len(q) \in Nat
  OBVIOUS
<1>2. PICK g : /\ g = [s \in SUBSET (1..Len(q)) |-> g[s]]
               /\ \A s \in SUBSET (1..Len(q)) :
                     g[s] = IF s = {} THEN <<>>
                            ELSE Step("cancelRun", r, g[s \ {Max(s)}], q[Max(s)])
  <2>1. Chain("cancelRun", r, <<>>, q, Len(q))
    BY <1>1, Chained
  <2>2. QED
    BY <2>1 DEF Chain
<1>3. \A acc, x : Step("cancelRun", r, acc, x) = Keep(r, acc, x)
  BY DEF Step
<1>4. g = [s \in SUBSET (DOMAIN q) |->
              IF s = {} THEN <<>> ELSE Keep(r, g[s \ {Max(s)}], q[Max(s)])]
  BY <1>1, <1>2, <1>3
<1>5. \E f : /\ Without(q, r) = f[DOMAIN q]
             /\ f = [s \in SUBSET (DOMAIN q) |->
                        IF s = {} THEN <<>> ELSE Keep(r, f[s \ {Max(s)}], q[Max(s)])]
  BY <1>4, Zenon DEF Without, Keep, FoldLeft, MapThenFoldSet
<1>6. PICK f : /\ Without(q, r) = f[DOMAIN q]
               /\ f = [s \in SUBSET (DOMAIN q) |->
                          IF s = {} THEN <<>> ELSE Keep(r, f[s \ {Max(s)}], q[Max(s)])]
  BY <1>5
<1>7. /\ f = [s \in SUBSET (DOMAIN q) |-> f[s]]
      /\ \A s \in SUBSET (DOMAIN q) :
            f[s] = IF s = {} THEN <<>> ELSE Keep(r, f[s \ {Max(s)}], q[Max(s)])
  BY <1>6
<1>8. f = [s \in SUBSET (DOMAIN q) |->
              IF s = {} THEN <<>> ELSE Step("cancelRun", r, f[s \ {Max(s)}], q[Max(s)])]
  BY <1>3, <1>7
<1>9. Ends("cancelRun", r, <<>>, q, Without(q, r))
  BY <1>6, <1>8, SolutionEnds
<1>10. QED
  BY <1>3, <1>9 DEF Ends

\* Nothing has changed yet.
LEMMA FollowsSame ==
    ASSUME NEW t
    PROVE  Follows(t, t)
BY DEF Follows, FollowsRun

\* The items of a queue from the i-th on.
Rest(q, i) == {q[j] : j \in i..Len(q)}

\* A queue taken out of the tree is nobody's.
LEMMA QueueTaken ==
    ASSUME NEW p, NEW t, TreeInv(p, t, {})
    PROVE  LET b == [t EXCEPT !.queue = <<>>]
           IN  /\ TreeInv(p, b, Rest(t.queue, 1)) /\ Follows(t, b)
               /\ Capable(t) => Capable(b)
               /\ t.queue \in Seq(Item)
               /\ \A i, j \in 1..Len(t.queue) : t.queue[i] = t.queue[j] => i = j
<1> DEFINE b == [t EXCEPT !.queue = <<>>]
           q == t.queue
<1>1. t \in TreeState /\ q \in Seq(Item) /\ QueueFits(t, {})
  BY DEF TreeInv, TreeState
<1>2. DOMAIN q = 1..Len(q) /\ Len(q) \in Nat
  BY <1>1
<1>3. /\ b.ledger = t.ledger /\ b.launched = t.launched /\ b.active = t.active
      /\ b.queued = t.queued /\ b.used = t.used /\ b.holds = t.holds
      /\ b.entry = t.entry /\ b.outcome = t.outcome /\ b.body = t.body /\ b.await = t.await
      /\ b.queue = <<>>
  BY <1>1 DEF TreeState
<1>4. b \in TreeState
  <2>1. <<>> \in Seq(Item)
    OBVIOUS
  <2>2. QED
    BY <1>1, <2>1 DEF TreeState
<1> HIDE DEF b
<1>5. \A y \in Item : ItemFits(t, y) <=> ItemFits(b, y)
  BY <1>3 DEF ItemFits
<1>6. QueueFits(b, Rest(q, 1))
  <2>1. \A i \in 1..Len(q) : q[i] \in Item /\ ItemFits(b, q[i])
    BY <1>1, <1>2, <1>5 DEF QueueFits
  <2>2. Rest(q, 1) \subseteq Item /\ \A y \in Rest(q, 1) : ItemFits(b, y)
    BY <2>1 DEF Rest
  <2>3. DOMAIN b.queue = {}
    BY <1>3
  <2>4. QED
    BY <2>2, <2>3 DEF QueueFits
<1>7. (\A r \in Runs : RunFits(b, r)) /\ Counts(p, b)
  BY <1>3 DEF TreeInv, RunFits, Counts
<1>8. Follows(t, b) /\ (Capable(t) => Capable(b))
  BY <1>3 DEF Follows, FollowsRun, Capable, CapableRun
<1>9. \A i, j \in 1..Len(q) : q[i] = q[j] => i = j
  BY <1>1, <1>2 DEF QueueFits
<1>10. TreeInv(p, b, Rest(q, 1))
  BY <1>4, <1>6, <1>7 DEF TreeInv
<1>11. QED
  BY <1>1, <1>8, <1>9, <1>10 DEF b

\* A queue with no item twice is used up item by item.
LEMMA RestShrinks ==
    ASSUME NEW q \in Seq(Item), \A i, j \in 1..Len(q) : q[i] = q[j] => i = j,
           NEW i \in 1..Len(q)
    PROVE  q[i] \in Rest(q, i) /\ Rest(q, i) \ {q[i]} = Rest(q, i + 1)
<1>1. Len(q) \in Nat
  OBVIOUS
<1>2. \A j \in i..Len(q) : j \in 1..Len(q) /\ (j = i \/ j \in (i + 1)..Len(q))
  BY <1>1
<1>3. \A j \in (i + 1)..Len(q) : j \in i..Len(q) /\ j \in 1..Len(q) /\ j # i
  BY <1>1
<1>4. i \in i..Len(q)
  BY <1>1
<1>5. QED
  BY <1>2, <1>3, <1>4 DEF Rest

\* dispatch() keeps the invariant and takes nothing back.
LEMMA DispatchKeeps ==
    ASSUME NEW t, TreeInv(plan, t, {})
    PROVE  LET u == Dispatched(t)
           IN  /\ TreeInv(plan, u, {}) /\ Follows(t, u)
               /\ ~expired /\ Capable(t) => Capable(u)
<1>1. CASE aborted
  BY <1>1, FollowsSame DEF Dispatched
<1>2. CASE ~aborted
  <2> DEFINE b == [t EXCEPT !.queue = <<>>]
             q == t.queue
  <2>1. /\ TreeInv(plan, b, Rest(q, 1)) /\ Follows(t, b) /\ (Capable(t) => Capable(b))
        /\ q \in Seq(Item) /\ \A i, j \in 1..Len(q) : q[i] = q[j] => i = j
    BY QueueTaken
  <2>2. Dispatched(t) = FoldLeft(Offer, b, q)
    BY <1>2 DEF Dispatched
  <2> HIDE DEF b, q
  <2>3. PICK h : /\ h[0] = b
                 /\ \A i \in 1..Len(q) : h[i] = Offer(h[i - 1], q[i])
                 /\ FoldLeft(Offer, b, q) = h[Len(q)]
    BY <2>1, OfferFold
  <2>4. Len(q) \in Nat
    BY <2>1
  <2> DEFINE Good(i) == /\ TreeInv(plan, h[i], Rest(q, i + 1)) /\ Follows(t, h[i])
                        /\ ~expired /\ Capable(t) => Capable(h[i])
             Bad == {i \in 0..Len(q) : ~Good(i)}
  <2>5. Good(0)
    BY <2>1, <2>3
  <2>6. ASSUME NEW i \in 1..Len(q), Good(i - 1)
        PROVE  Good(i)
    <3>1. (i - 1) + 1 = i
      BY <2>4
    <3>2. TreeInv(plan, h[i - 1], Rest(q, i)) /\ q[i] \in Rest(q, i)
          /\ Rest(q, i) \ {q[i]} = Rest(q, i + 1)
      BY <2>1, <2>6, <3>1, RestShrinks
    <3> DEFINE v == Offer(h[i - 1], q[i])
    <3>3. /\ TreeInv(plan, v, Rest(q, i) \ {q[i]}) /\ Follows(h[i - 1], v)
          /\ ~expired /\ Capable(h[i - 1]) => Capable(v)
      BY <3>2, OfferKeeps
    <3>4. h[i] = v
      BY <2>3
    <3> HIDE DEF v
    <3>5. Follows(t, v)
      BY <2>6, <3>3, FollowsTrans
    <3>6. QED
      BY <2>6, <3>2, <3>3, <3>4, <3>5
  <2>7. Bad = {}
    <3>1. SUFFICES ASSUME Bad # {} PROVE FALSE
      OBVIOUS
    <3>2. PICK i \in Bad : \A j \in Bad : i <= j
      <4>1. Bad \in SUBSET Nat
        BY <2>4
      <4>2. QED
        BY <3>1, <4>1, LeastNumber
    <3>3. i \in 1..Len(q) /\ i - 1 \in 0..Len(q) /\ i - 1 \notin Bad
      BY <2>4, <2>5, <3>2
    <3>4. QED
      BY <2>6, <3>2, <3>3
  <2>8. Good(Len(q))
    BY <2>4, <2>7
  <2>9. Rest(q, Len(q) + 1) = {}
    BY <2>4 DEF Rest
  <2>10. QED
    BY <2>2, <2>3, <2>8, <2>9
<1>3. QED
  BY <1>1, <1>2

(***************************************************************************)
(* cancel() and cancelRun().                                               *)
(***************************************************************************)

\* One item of the queue of a cancelled tree.
LEMMA DroppedKeeps ==
    ASSUME NEW t, NEW S, NEW x \in S, TreeInv(plan, t, S)
    PROVE  TreeInv(plan, Dropped(t, x), S \ {x}) /\ Follows(t, Dropped(t, x))
<1> DEFINE r == x.run
<1>1. /\ x \in Item /\ r \in Runs /\ x.resume \in BOOLEAN
      /\ t \in TreeState /\ QueueFits(t, S) /\ RunFits(t, r) /\ ItemFits(t, x)
      /\ t.ledger[r] \in {"queued", "waiting", "terminal"}
  BY ItemRun
<1>2. t \in RawState /\ plan \in Plans
  BY <1>1, Untyped DEF TreeInv
<1>3. CASE ~x.resume
  <2>1. t.entry[r] = "queued"
    BY <1>1, <1>3 DEF ItemFits
  <2>2. Finished(t, r) \in RawState
    BY <1>1, <1>2, FinishedFields
  <2> DEFINE f == Finished(t, r)
  <2>3. Dropped(t, x) = [f EXCEPT !.outcome[r] = "rejected", !.entry[r] = "settled"]
    BY <1>3, <2>1 DEF Dropped
  <2>4. Refused(t, x) = [[f EXCEPT !.entry[r] = "settled"] EXCEPT !.outcome[r] = "rejected"]
    BY <1>3 DEF Refused
  <2> HIDE DEF f
  <2>5. [f EXCEPT !.outcome[r] = "rejected", !.entry[r] = "settled"]
           = [[f EXCEPT !.entry[r] = "settled"] EXCEPT !.outcome[r] = "rejected"]
    BY <2>2 DEF RawState, f
  <2>6. QED
    BY <2>3, <2>4, <2>5, RefusedInv
<1>4. CASE x.resume
  <2> DEFINE u == [t EXCEPT !.await[r] = "refused"]
  <2>1. Dropped(t, x) = u
    BY <1>4 DEF Dropped
  <2>2. /\ u \in RawState
        /\ u.ledger = t.ledger /\ u.launched = t.launched /\ u.active = t.active
        /\ u.queued = t.queued /\ u.used = t.used /\ u.holds = t.holds
        /\ u.entry = t.entry /\ u.outcome = t.outcome /\ u.body = t.body
        /\ u.queue = t.queue
        /\ u.await = [t.await EXCEPT ![r] = "refused"]
    BY <1>1, <1>2 DEF RawState, AwaitStates
  <2> HIDE DEF u
  <2>3. t.await[r] = "queued" /\ u.await[r] = "refused"
    BY <1>1, <1>2, <1>4, <2>2 DEF ItemFits, RawState
  <2>4. Others(t, u, r)
    BY <1>1, <1>2, <2>2 DEF Others, RawState
  <2>5. RunFits(u, r)
    BY <1>1, <2>2, <2>3 DEF RunFits
  <2>6. QueueFits(u, S \ {x})
    BY <1>1, <2>2, <2>4, ItemGone
  <2>7. /\ u.active = t.active + One(Active(u, r)) - One(Active(t, r))
        /\ u.queued = t.queued + One(Queued(u, r)) - One(Queued(t, r))
    BY <1>2, <2>2 DEF One, Active, Queued, RawState
  <2>8. /\ u.active <= Limits[plan.deployment] /\ u.queued <= plan.maxQueued
        /\ \A d \in Deployments : u.used[d] = IF d = plan.deployment THEN u.active ELSE 0
    BY <2>2 DEF TreeInv, Counts
  <2>9. TreeInv(plan, u, S \ {x})
    BY <1>1, <2>2, <2>4, <2>5, <2>6, <2>7, <2>8, OneRun
  <2>10. FollowsRun(t, u, r)
    BY <2>2 DEF FollowsRun
  <2>11. QED
    BY <1>1, <2>1, <2>4, <2>9, <2>10, FollowsOne
<1>5. QED
  BY <1>1, <1>3, <1>4

\* cancel() keeps the invariant and takes nothing back.
LEMMA DropKeeps ==
    ASSUME NEW t, TreeInv(plan, t, {})
    PROVE  LET u == FoldLeft(Dropped, [t EXCEPT !.queue = <<>>], t.queue)
           IN  TreeInv(plan, u, {}) /\ Follows(t, u)
<1> DEFINE b == [t EXCEPT !.queue = <<>>]
           q == t.queue
<1>1. /\ TreeInv(plan, b, Rest(q, 1)) /\ Follows(t, b)
      /\ q \in Seq(Item) /\ \A i, j \in 1..Len(q) : q[i] = q[j] => i = j
  BY QueueTaken
<1> HIDE DEF b, q
<1>2. PICK h : /\ h[0] = b
               /\ \A i \in 1..Len(q) : h[i] = Dropped(h[i - 1], q[i])
               /\ FoldLeft(Dropped, b, q) = h[Len(q)]
  BY <1>1, DroppedFold
<1>3. Len(q) \in Nat
  BY <1>1
<1> DEFINE Good(i) == TreeInv(plan, h[i], Rest(q, i + 1)) /\ Follows(t, h[i])
           Bad == {i \in 0..Len(q) : ~Good(i)}
<1>4. Good(0)
  BY <1>1, <1>2
<1>5. ASSUME NEW i \in 1..Len(q), Good(i - 1)
      PROVE  Good(i)
  <2>1. (i - 1) + 1 = i
    BY <1>3
  <2>2. TreeInv(plan, h[i - 1], Rest(q, i)) /\ q[i] \in Rest(q, i)
        /\ Rest(q, i) \ {q[i]} = Rest(q, i + 1)
    BY <1>1, <1>5, <2>1, RestShrinks
  <2> DEFINE v == Dropped(h[i - 1], q[i])
  <2>3. TreeInv(plan, v, Rest(q, i) \ {q[i]}) /\ Follows(h[i - 1], v)
    BY <2>2, DroppedKeeps
  <2>4. h[i] = v
    BY <1>2
  <2> HIDE DEF v
  <2>5. Follows(t, v)
    BY <1>5, <2>3, FollowsTrans
  <2>6. QED
    BY <2>2, <2>3, <2>4, <2>5
<1>6. Bad = {}
  <2>1. SUFFICES ASSUME Bad # {} PROVE FALSE
    OBVIOUS
  <2>2. PICK i \in Bad : \A j \in Bad : i <= j
    <3>1. Bad \in SUBSET Nat
      BY <1>3
    <3>2. QED
      BY <2>1, <3>1, LeastNumber
  <2>3. i \in 1..Len(q) /\ i - 1 \in 0..Len(q) /\ i - 1 \notin Bad
    BY <1>3, <1>4, <2>2
  <2>4. QED
    BY <1>5, <2>2, <2>3
<1>7. Good(Len(q))
  BY <1>3, <1>6
<1>8. Rest(q, Len(q) + 1) = {}
  BY <1>3 DEF Rest
<1>9. TreeInv(plan, h[Len(q)], {}) /\ Follows(t, h[Len(q)])
  BY <1>7, <1>8
<1>10. QED
  BY <1>2, <1>9 DEF b, q

\* cancelRun() leaves the other items of the queue.
LEMMA WithoutIs ==
    ASSUME NEW q \in Seq(Item), \A i, j \in 1..Len(q) : q[i] = q[j] => i = j, NEW r
    PROVE  LET w == Without(q, r)
           IN  /\ w \in Seq(Item)
               /\ \A i, j \in 1..Len(w) : w[i] = w[j] => i = j
               /\ \A i \in 1..Len(w) : /\ \E j \in 1..Len(q) : w[i] = q[j]
                                       /\ w[i].run = r => w[i].resume
<1>1. PICK h : /\ h[0] = <<>>
               /\ \A i \in 1..Len(q) : h[i] = Keep(r, h[i - 1], q[i])
               /\ Without(q, r) = h[Len(q)]
  BY WithoutFold
<1>2. Len(q) \in Nat /\ \A i \in 1..Len(q) : q[i] \in Item
  OBVIOUS
<1> DEFINE Fine(w, n) ==
               /\ w \in Seq(Item)
               /\ \A i, j \in 1..Len(w) : w[i] = w[j] => i = j
               /\ \A i \in 1..Len(w) : /\ \E j \in 1..n : w[i] = q[j]
                                       /\ w[i].run = r => w[i].resume
           Good(n) == Fine(h[n], n)
           Bad == {n \in 0..Len(q) : ~Good(n)}
<1>3. Good(0)
  BY <1>1
<1>4. ASSUME NEW n \in 1..Len(q), Good(n - 1)
      PROVE  Good(n)
  <2> DEFINE w == h[n - 1]
             x == q[n]
  <2>1. Fine(w, n - 1) /\ x \in Item /\ h[n] = Keep(r, w, x)
    BY <1>1, <1>2, <1>4
  <2>2. \A j \in 1..(n - 1) : j \in 1..n /\ j \in 1..Len(q) /\ j # n
    BY <1>2
  <2> HIDE DEF w
  <2>3. CASE x.run = r /\ ~x.resume
    BY <2>1, <2>2, <2>3 DEF Keep
  <2>4. CASE ~(x.run = r /\ ~x.resume)
    <3>1. h[n] = Append(w, x)
      BY <2>1, <2>4 DEF Keep
    <3>2. /\ w \in Seq(Item) /\ Append(w, x) \in Seq(Item) /\ Len(w) \in Nat
          /\ Len(Append(w, x)) = Len(w) + 1 /\ Append(w, x)[Len(w) + 1] = x
          /\ \A i \in 1..Len(w) : Append(w, x)[i] = w[i]
      BY <2>1
    <3>3. \A i \in 1..(Len(w) + 1) : i \in 1..Len(w) \/ i = Len(w) + 1
      BY <3>2
    <3>4. \A i \in 1..Len(w) : w[i] # x
      BY <2>1, <2>2
    <3>5. \A i, j \in 1..(Len(w) + 1) : Append(w, x)[i] = Append(w, x)[j] => i = j
      BY <2>1, <3>2, <3>3, <3>4
    <3>6. \A i \in 1..(Len(w) + 1) : \E j \in 1..n : Append(w, x)[i] = q[j]
      <4>1. n \in 1..n
        BY <1>2
      <4>2. QED
        BY <2>1, <2>2, <3>2, <3>3, <4>1
    <3>7. \A i \in 1..(Len(w) + 1) : Append(w, x)[i].run = r => Append(w, x)[i].resume
      BY <2>1, <2>4, <3>2, <3>3
    <3> DEFINE a == Append(w, x)
    <3>8. a \in Seq(Item) /\ Len(a) = Len(w) + 1
      BY <3>2
    <3>9. /\ \A i, j \in 1..Len(a) : a[i] = a[j] => i = j
          /\ \A i \in 1..Len(a) : (\E j \in 1..n : a[i] = q[j]) /\ (a[i].run = r => a[i].resume)
      BY <3>5, <3>6, <3>7, <3>8
    <3> HIDE DEF a
    <3>10. Fine(a, n)
      BY <3>8, <3>9
    <3>11. QED
      BY <3>1, <3>10 DEF a
  <2>5. QED
    BY <2>3, <2>4
<1> HIDE DEF Fine
<1>5. Bad = {}
  <2>1. SUFFICES ASSUME Bad # {} PROVE FALSE
    OBVIOUS
  <2>2. PICK n \in Bad : \A j \in Bad : n <= j
    <3>1. Bad \in SUBSET Nat
      BY <1>2
    <3>2. QED
      BY <2>1, <3>1, LeastNumber
  <2>3. n \in 1..Len(q) /\ n - 1 \in 0..Len(q) /\ n - 1 \notin Bad
    BY <1>2, <1>3, <2>2
  <2>4. QED
    BY <1>4, <2>2, <2>3
<1>6. Fine(Without(q, r), Len(q))
  BY <1>1, <1>2, <1>5
<1>7. QED
  BY <1>6 DEF Fine

(***************************************************************************)
(* The other methods.                                                      *)
(***************************************************************************)

\* The items of the queue still wait, if a step does not touch what the item of
\* its run waits for.
LEMMA QueueStands ==
    ASSUME NEW t \in TreeState, NEW u, NEW r \in Runs, QueueFits(t, {}), Others(t, u, r),
           u.queue = t.queue, t.entry[r] # "queued",
           t.await[r] = "queued" => u.await[r] = "queued"
    PROVE  QueueFits(u, {})
<1>1. \A i \in DOMAIN t.queue : t.queue[i] \in Item /\ ItemFits(t, t.queue[i])
  BY DEF QueueFits, TreeState
<1>2. \A y \in Item : ItemFits(t, y) => ItemFits(u, y)
  <2>1. \A y \in Item : y.run \in Runs
    BY DEF Item
  <2>2. QED
    BY <2>1 DEF ItemFits, Others
<1>3. QED
  BY <1>1, <1>2 DEF QueueFits

\* The finally block of execute.
LEMMA ReleasedFields ==
    ASSUME NEW t \in RawState, NEW r \in Runs, plan \in Plans
    PROVE  LET u == Released(t, r)
           IN  /\ u \in RawState
               /\ u.ledger = t.ledger /\ u.launched = t.launched
               /\ u.active = t.active /\ u.queued = t.queued
               /\ u.used = IF t.holds[r] THEN [t.used EXCEPT ![plan.deployment] = @ - 1]
                                         ELSE t.used
               /\ u.holds = [t.holds EXCEPT ![r] = FALSE]
               /\ u.entry = t.entry /\ u.queue = t.queue /\ u.outcome = t.outcome
               /\ u.body = t.body /\ u.await = t.await
<1>1. plan.deployment \in Deployments
  BY TreeSchedulerAssumption
<1>2. CASE t.holds[r]
  <2>1. Released(t, r) = [t EXCEPT !.holds[r] = FALSE, !.used[plan.deployment] = @ - 1]
    BY <1>2 DEF Released
  <2>2. /\ [t.holds EXCEPT ![r] = FALSE] \in [Runs -> BOOLEAN]
        /\ [t.used EXCEPT ![plan.deployment] = @ - 1] \in [Deployments -> Int]
    BY <1>1 DEF RawState
  <2>3. [t EXCEPT !.holds[r] = FALSE, !.used[plan.deployment] = @ - 1] \in RawState
    BY <2>2 DEF RawState
  <2>4. QED
    BY <1>2, <2>1, <2>3 DEF RawState
<1>3. CASE ~t.holds[r]
  <2>1. Released(t, r) = t
    BY <1>3 DEF Released
  <2>2. t.holds = [t.holds EXCEPT ![r] = FALSE]
    BY <1>3 DEF RawState
  <2>3. QED
    BY <1>3, <2>1, <2>2
<1>4. QED
  BY <1>2, <1>3

\* A task that ends gives back what it holds.
LEMMA EndKeeps ==
    ASSUME NEW t, NEW r \in Runs, NEW o \in {"resolved", "rejected"},
           TreeInv(plan, t, {}), t.body[r] = "working"
    PROVE  LET u == [Finished(Released(t, r), r) EXCEPT
                        !.outcome[r] = o, !.body[r] = "over", !.entry[r] = "settled"]
           IN  /\ TreeInv(plan, u, {}) /\ Follows(t, u)
               /\ Capable(t) => Capable(u)
<1> DEFINE v == Released(t, r)
           f == Finished(v, r)
           u == [f EXCEPT !.outcome[r] = o, !.body[r] = "over", !.entry[r] = "settled"]
<1>1. /\ t \in TreeState /\ t \in RawState /\ RunFits(t, r) /\ QueueFits(t, {})
      /\ plan \in Plans /\ plan.deployment \in Deployments
  BY Untyped, TreeSchedulerAssumption DEF TreeInv
<1>2. /\ v \in RawState
      /\ v.ledger = t.ledger /\ v.launched = t.launched
      /\ v.active = t.active /\ v.queued = t.queued
      /\ v.used = IF t.holds[r] THEN [t.used EXCEPT ![plan.deployment] = @ - 1] ELSE t.used
      /\ v.holds = [t.holds EXCEPT ![r] = FALSE]
      /\ v.entry = t.entry /\ v.queue = t.queue /\ v.outcome = t.outcome
      /\ v.body = t.body /\ v.await = t.await
  BY <1>1, ReleasedFields
<1> HIDE DEF v
<1>3. /\ f \in RawState
      /\ f.ledger = [v.ledger EXCEPT ![r] = IF @ = "none" THEN "none" ELSE "terminal"]
      /\ f.launched = v.launched
      /\ f.active = v.active - One(Active(v, r))
      /\ f.queued = v.queued - One(Queued(v, r))
      /\ f.used = v.used /\ f.holds = v.holds /\ f.entry = v.entry
      /\ f.queue = v.queue /\ f.outcome = v.outcome
      /\ f.body = v.body /\ f.await = v.await
  BY <1>2, FinishedFields
<1> HIDE DEF f
<1>4. /\ u.ledger = f.ledger /\ u.launched = f.launched /\ u.active = f.active
      /\ u.queued = f.queued /\ u.used = f.used /\ u.holds = f.holds
      /\ u.queue = f.queue /\ u.await = f.await
      /\ u.outcome = [f.outcome EXCEPT ![r] = o] /\ u.body = [f.body EXCEPT ![r] = "over"]
      /\ u.entry = [f.entry EXCEPT ![r] = "settled"]
  BY <1>3 DEF RawState
<1>5. u \in RawState
  <2>1. /\ [f.outcome EXCEPT ![r] = o] \in [Runs -> {"none", "pending", "resolved", "rejected"}]
        /\ [f.body EXCEPT ![r] = "over"] \in [Runs -> {"none", "working", "over"}]
        /\ [f.entry EXCEPT ![r] = "settled"] \in [Runs -> EntryStates]
    BY <1>3 DEF RawState, EntryStates
  <2>2. QED
    BY <1>3, <2>1 DEF RawState
<1> HIDE DEF u
<1>6. t.ledger[r] # "none" /\ t.entry[r] # "none" /\ t.entry[r] # "queued"
  BY <1>1 DEF RunFits
<1>7. /\ u.ledger = [t.ledger EXCEPT ![r] = "terminal"]
      /\ u.holds = [t.holds EXCEPT ![r] = FALSE]
      /\ u.outcome = [t.outcome EXCEPT ![r] = o] /\ u.body = [t.body EXCEPT ![r] = "over"]
      /\ u.entry = [t.entry EXCEPT ![r] = "settled"]
      /\ u.await = t.await /\ u.queue = t.queue /\ u.launched = t.launched
  <2>1. [t.ledger EXCEPT ![r] = IF @ = "none" THEN "none" ELSE "terminal"]
           = [t.ledger EXCEPT ![r] = "terminal"]
    BY <1>1, <1>6 DEF RawState
  <2>2. QED
    BY <1>2, <1>3, <1>4, <2>1
<1>8. /\ u.ledger[r] = "terminal" /\ u.holds[r] = FALSE /\ u.outcome[r] = o
      /\ u.body[r] = "over" /\ u.entry[r] = "settled" /\ u.await[r] = t.await[r]
  BY <1>1, <1>7 DEF RawState
<1>9. Others(t, u, r)
  <2>1. \A y \in Runs \ {r} : /\ u.ledger[y] = t.ledger[y] /\ u.entry[y] = t.entry[y]
                             /\ u.holds[y] = t.holds[y]
    BY <1>1, <1>7 DEF RawState
  <2>2. \A y \in Runs \ {r} : u.body[y] = t.body[y] /\ u.outcome[y] = t.outcome[y]
    BY <1>1, <1>7 DEF RawState
  <2>3. QED
    BY <1>7, <2>1, <2>2 DEF Others
<1>10. RunFits(u, r)
  BY <1>8 DEF RunFits
<1>11. QueueFits(u, {})
  BY <1>1, <1>6, <1>7, <1>8, <1>9, QueueStands
<1>12. /\ u.active = t.active + One(Active(u, r)) - One(Active(t, r))
       /\ u.queued = t.queued + One(Queued(u, r)) - One(Queued(t, r))
       /\ u.active = t.active - One(Active(t, r)) /\ u.queued = t.queued - One(Queued(t, r))
  <2>1. (Active(v, r) <=> Active(t, r)) /\ (Queued(v, r) <=> Queued(t, r))
    BY <1>2 DEF Active, Queued
  <2>2. ~Active(u, r) /\ ~Queued(u, r)
    BY <1>8 DEF Active, Queued
  <2>3. t.active \in Int /\ t.queued \in Int
    BY <1>1 DEF RawState
  <2>4. QED
    BY <1>2, <1>3, <1>4, <2>1, <2>2, <2>3 DEF One
<1>13. \A d \in Deployments : u.used[d] = IF d = plan.deployment THEN u.active ELSE 0
  <2>1. t.holds[r] <=> Active(t, r)
    BY <1>1 DEF RunFits, Active
  <2>2. u.used = IF t.holds[r] THEN [t.used EXCEPT ![plan.deployment] = @ - 1] ELSE t.used
    BY <1>2, <1>3, <1>4
  <2>3. \A d \in Deployments : t.used[d] = IF d = plan.deployment THEN t.active ELSE 0
    BY DEF TreeInv, Counts
  <2>4. t.used \in [Deployments -> Int] /\ t.active \in Int
    BY <1>1 DEF RawState
  <2>5. CASE t.holds[r]
    BY <1>1, <1>12, <2>1, <2>2, <2>3, <2>4, <2>5 DEF One
  <2>6. CASE ~t.holds[r]
    BY <1>12, <2>1, <2>2, <2>3, <2>4, <2>6 DEF One
  <2>7. QED
    BY <2>5, <2>6
<1>14. u.active <= Limits[plan.deployment] /\ u.queued <= plan.maxQueued
  <2>1. t.active <= Limits[plan.deployment] /\ t.queued <= plan.maxQueued
    BY DEF TreeInv, Counts
  <2>2. /\ t.active \in Nat /\ t.queued \in Nat
        /\ Limits[plan.deployment] \in Nat /\ plan.maxQueued \in Nat
    BY <1>1, TreeSchedulerAssumption DEF TreeState
  <2>3. QED
    BY <1>12, <2>1, <2>2 DEF One
<1>15. TreeInv(plan, u, {})
  BY <1>1, <1>5, <1>6, <1>7, <1>8, <1>9, <1>10, <1>11, <1>12, <1>13, <1>14, OneRun
<1>16. FollowsRun(t, u, r)
  <2>1. t.outcome[r] = "pending"
    BY <1>1 DEF RunFits
  <2>2. QED
    BY <1>8, <2>1 DEF FollowsRun
<1>17. CapableRun(u, r)
  BY <1>8 DEF CapableRun
<1>18. QED
  BY <1>9, <1>15, <1>16, <1>17, FollowsOne, CapableOne DEF u, f, v

\* A run that is stopped in the queue leaves it.
LEMMA StopKeeps ==
    ASSUME NEW t, NEW r \in Runs, NEW o \in {"resolved", "rejected"},
           TreeInv(plan, t, {}), t.entry[r] = "queued"
    PROVE  LET u == [Finished(t, r) EXCEPT !.queue = Without(@, r),
                        !.entry[r] = "settled", !.outcome[r] = o]
           IN  /\ TreeInv(plan, u, {}) /\ Follows(t, u)
               /\ Capable(t) => Capable(u)
<1> DEFINE f == Finished(t, r)
           w == Without(t.queue, r)
           u == [f EXCEPT !.queue = Without(@, r), !.entry[r] = "settled", !.outcome[r] = o]
<1>1. /\ t \in TreeState /\ t \in RawState /\ RunFits(t, r) /\ QueueFits(t, {})
      /\ plan \in Plans /\ plan.deployment \in Deployments
  BY Untyped, TreeSchedulerAssumption DEF TreeInv
<1>2. /\ t.ledger[r] = "queued" /\ t.outcome[r] = "pending"
      /\ t.body[r] = "none" /\ t.await[r] = "none"
  BY <1>1 DEF RunFits
<1>3. /\ f \in RawState
      /\ f.ledger = [t.ledger EXCEPT ![r] = IF @ = "none" THEN "none" ELSE "terminal"]
      /\ f.launched = t.launched
      /\ f.active = t.active - One(Active(t, r))
      /\ f.queued = t.queued - One(Queued(t, r))
      /\ f.used = t.used /\ f.holds = t.holds /\ f.entry = t.entry
      /\ f.queue = t.queue /\ f.outcome = t.outcome
      /\ f.body = t.body /\ f.await = t.await
  BY <1>1, FinishedFields
<1> HIDE DEF f
<1>4. /\ w \in Seq(Item)
      /\ \A i, j \in 1..Len(w) : w[i] = w[j] => i = j
      /\ \A i \in 1..Len(w) : /\ \E j \in 1..Len(t.queue) : w[i] = t.queue[j]
                              /\ w[i].run = r => w[i].resume
  <2>1. t.queue \in Seq(Item) /\ DOMAIN t.queue = 1..Len(t.queue)
    BY <1>1 DEF TreeState
  <2>2. \A i, j \in 1..Len(t.queue) : t.queue[i] = t.queue[j] => i = j
    BY <1>1, <2>1 DEF QueueFits
  <2>3. QED
    BY <2>1, <2>2, WithoutIs
<1> HIDE DEF w
<1>5. /\ u.ledger = f.ledger /\ u.launched = f.launched /\ u.active = f.active
      /\ u.queued = f.queued /\ u.used = f.used /\ u.holds = f.holds
      /\ u.queue = w /\ u.await = f.await /\ u.body = f.body
      /\ u.outcome = [f.outcome EXCEPT ![r] = o] /\ u.entry = [f.entry EXCEPT ![r] = "settled"]
  BY <1>3 DEF RawState, w
<1>6. u \in RawState
  <2>1. /\ [f.outcome EXCEPT ![r] = o] \in [Runs -> {"none", "pending", "resolved", "rejected"}]
        /\ [f.entry EXCEPT ![r] = "settled"] \in [Runs -> EntryStates]
        /\ Without(f.queue, r) \in Seq(Item)
    BY <1>3, <1>4 DEF RawState, EntryStates, w
  <2>2. QED
    BY <1>3, <2>1 DEF RawState
<1> HIDE DEF u
<1>7. u.ledger = [t.ledger EXCEPT ![r] = "terminal"]
  <2>1. [t.ledger EXCEPT ![r] = IF @ = "none" THEN "none" ELSE "terminal"]
           = [t.ledger EXCEPT ![r] = "terminal"]
    BY <1>1, <1>2 DEF RawState
  <2>2. QED
    BY <1>3, <1>5, <2>1
<1>8. /\ u.ledger[r] = "terminal" /\ u.holds[r] = t.holds[r] /\ u.outcome[r] = o
      /\ u.body[r] = "none" /\ u.entry[r] = "settled" /\ u.await[r] = "none"
  BY <1>1, <1>2, <1>3, <1>5, <1>7 DEF RawState
<1>9. Others(t, u, r)
  <2>1. \A y \in Runs \ {r} : /\ u.ledger[y] = t.ledger[y] /\ u.entry[y] = t.entry[y]
                             /\ u.outcome[y] = t.outcome[y]
    BY <1>1, <1>3, <1>5, <1>7 DEF RawState
  <2>2. QED
    BY <1>3, <1>5, <2>1 DEF Others
<1>10. RunFits(u, r)
  BY <1>1, <1>2, <1>8 DEF RunFits
<1>11. QueueFits(u, {})
  <2>1. DOMAIN w = 1..Len(w) /\ \A i \in 1..Len(w) : w[i] \in Item
    BY <1>4
  <2>2. \A j \in 1..Len(t.queue) : ItemFits(t, t.queue[j])
    <3>1. DOMAIN t.queue = 1..Len(t.queue)
      BY <1>1 DEF TreeState
    <3>2. QED
      BY <1>1, <3>1 DEF QueueFits
  <2>3. ASSUME NEW i \in 1..Len(w)
        PROVE  ItemFits(u, w[i])
    <3>1. ItemFits(t, w[i]) /\ (w[i].run = r => w[i].resume)
      BY <1>4, <2>2
    <3>2. w[i].run \in Runs
      BY <2>1 DEF Item
    <3>3. w[i].run # r
      BY <1>2, <3>1 DEF ItemFits
    <3>4. QED
      BY <1>9, <3>1, <3>2, <3>3 DEF Others, ItemFits
  <2>4. QED
    BY <1>4, <1>5, <2>1, <2>3 DEF QueueFits
<1>12. /\ u.active = t.active + One(Active(u, r)) - One(Active(t, r))
       /\ u.queued = t.queued + One(Queued(u, r)) - One(Queued(t, r))
       /\ u.active = t.active /\ u.queued = t.queued - 1
  <2>1. ~Active(t, r) /\ Queued(t, r) /\ ~Active(u, r) /\ ~Queued(u, r)
    BY <1>2, <1>8 DEF Active, Queued
  <2>2. t.active \in Int /\ t.queued \in Int
    BY <1>1 DEF RawState
  <2>3. QED
    BY <1>3, <1>5, <2>1, <2>2 DEF One
<1>13. \A d \in Deployments : u.used[d] = IF d = plan.deployment THEN u.active ELSE 0
  BY <1>3, <1>5, <1>12 DEF TreeInv, Counts
<1>14. u.active <= Limits[plan.deployment] /\ u.queued <= plan.maxQueued
  <2>1. t.active <= Limits[plan.deployment] /\ t.queued <= plan.maxQueued
    BY DEF TreeInv, Counts
  <2>2. t.queued \in Nat /\ plan.maxQueued \in Nat
    BY <1>1, TreeSchedulerAssumption DEF TreeState
  <2>3. QED
    BY <1>12, <2>1, <2>2
<1>15. u.launched = t.launched /\ t.ledger[r] # "none" /\ u.ledger[r] # "none"
  BY <1>2, <1>3, <1>5, <1>8
<1>16. TreeInv(plan, u, {})
  BY <1>6, <1>9, <1>10, <1>11, <1>12, <1>13, <1>14, <1>15, OneRun
<1>17. FollowsRun(t, u, r)
  BY <1>2, <1>8 DEF FollowsRun
<1>18. CapableRun(u, r)
  BY <1>8 DEF CapableRun
<1>19. QED
  BY <1>9, <1>16, <1>17, <1>18, FollowsOne, CapableOne DEF u, f

\* A run that delegates gives its capacity up.
LEMMA SuspendKeeps ==
    ASSUME NEW t, NEW r \in Runs, TreeInv(plan, t, {}), t.queued + 1 <= plan.maxQueued,
           t.body[r] = "working", t.await[r] = "none", t.entry[r] = "running",
           t.holds[r], t.ledger[r] = "active"
    PROVE  LET u == Suspended(t, r)
           IN  /\ TreeInv(plan, u, {}) /\ Follows(t, u)
               /\ Capable(t) => Capable(u)
               /\ u.queued = t.queued + 1 /\ u.launched = t.launched
               /\ \A x \in Runs \ {r} : u.entry[x] = t.entry[x]
               /\ u.entry[r] = "waiting"
<1> DEFINE u == Suspended(t, r)
<1>1. /\ t \in TreeState /\ t \in RawState /\ RunFits(t, r) /\ QueueFits(t, {})
      /\ plan \in Plans /\ plan.deployment \in Deployments
  BY Untyped, TreeSchedulerAssumption DEF TreeInv
<1>2. /\ u.ledger = [t.ledger EXCEPT ![r] = "waiting"]
      /\ u.entry = [t.entry EXCEPT ![r] = "waiting"]
      /\ u.active = t.active - 1 /\ u.queued = t.queued + 1
      /\ u.holds = [t.holds EXCEPT ![r] = FALSE]
      /\ u.used = [t.used EXCEPT ![plan.deployment] = @ - 1]
      /\ u.await = [t.await EXCEPT ![r] = "children"]
      /\ u.launched = t.launched /\ u.queue = t.queue
      /\ u.outcome = t.outcome /\ u.body = t.body
  BY <1>1 DEF Suspended, RawState
<1>3. u \in RawState
  <2>1. /\ [t.ledger EXCEPT ![r] = "waiting"] \in [Runs -> LedgerStates]
        /\ [t.entry EXCEPT ![r] = "waiting"] \in [Runs -> EntryStates]
        /\ [t.holds EXCEPT ![r] = FALSE] \in [Runs -> BOOLEAN]
        /\ [t.await EXCEPT ![r] = "children"] \in [Runs -> AwaitStates]
    BY <1>1 DEF RawState, LedgerStates, EntryStates, AwaitStates
  <2>2. /\ [t.used EXCEPT ![plan.deployment] = @ - 1] \in [Deployments -> Int]
        /\ t.active - 1 \in Int /\ t.queued + 1 \in Int
    BY <1>1 DEF RawState
  <2>3. QED
    BY <1>1, <2>1, <2>2 DEF RawState, Suspended
<1> HIDE DEF u
<1>4. /\ u.ledger[r] = "waiting" /\ u.entry[r] = "waiting" /\ u.holds[r] = FALSE
      /\ u.await[r] = "children" /\ u.body[r] = "working" /\ u.outcome[r] = t.outcome[r]
  BY <1>1, <1>2 DEF RawState
<1>5. Others(t, u, r)
  <2>1. \A y \in Runs \ {r} : u.ledger[y] = t.ledger[y] /\ u.entry[y] = t.entry[y]
    BY <1>1, <1>2 DEF RawState
  <2>2. \A y \in Runs \ {r} : u.holds[y] = t.holds[y] /\ u.await[y] = t.await[y]
    BY <1>1, <1>2 DEF RawState
  <2>3. QED
    BY <1>2, <2>1, <2>2 DEF Others
<1>6. RunFits(u, r)
  BY <1>1, <1>4 DEF RunFits
<1>7. QueueFits(u, {})
  BY <1>1, <1>2, <1>5, QueueStands
<1>8. /\ u.active = t.active + One(Active(u, r)) - One(Active(t, r))
      /\ u.queued = t.queued + One(Queued(u, r)) - One(Queued(t, r))
  <2>1. Active(t, r) /\ ~Queued(t, r) /\ ~Active(u, r) /\ Queued(u, r)
    BY <1>4 DEF Active, Queued
  <2>2. t.active \in Int /\ t.queued \in Int
    BY <1>1 DEF RawState
  <2>3. QED
    BY <1>2, <2>1, <2>2 DEF One
<1>9. \A d \in Deployments : u.used[d] = IF d = plan.deployment THEN u.active ELSE 0
  <2>1. \A d \in Deployments : t.used[d] = IF d = plan.deployment THEN t.active ELSE 0
    BY DEF TreeInv, Counts
  <2>2. t.used \in [Deployments -> Int] /\ t.active \in Int
    BY <1>1 DEF RawState
  <2>3. QED
    BY <1>1, <1>2, <2>1, <2>2
<1>10. u.active <= Limits[plan.deployment] /\ u.queued <= plan.maxQueued
  <2>1. t.active <= Limits[plan.deployment]
    BY DEF TreeInv, Counts
  <2>2. t.active \in Nat /\ Limits[plan.deployment] \in Nat
    BY <1>1, TreeSchedulerAssumption DEF TreeState
  <2>3. QED
    BY <1>2, <2>1, <2>2
<1>11. u.ledger[r] # "none"
  BY <1>4
<1>12. TreeInv(plan, u, {})
  BY <1>2, <1>3, <1>5, <1>6, <1>7, <1>8, <1>9, <1>10, <1>11, OneRun
<1>13. FollowsRun(t, u, r)
  BY <1>2, <1>4 DEF FollowsRun
<1>14. CapableRun(u, r)
  BY <1>4 DEF CapableRun
<1>15. QED
  BY <1>2, <1>4, <1>5, <1>12, <1>13, <1>14, FollowsOne, CapableOne DEF u, Others

\* The items of the runs of a batch.
FirstItems(runs) == {[run |-> r, resume |-> FALSE] : r \in runs}
LEMMA FirstItemsListed ==
    ASSUME NEW runs \in SUBSET Runs
    PROVE  LET s == SetToSeq(FirstItems(runs))
           IN  /\ s \in Seq(FirstItems(runs))
               /\ \A i, j \in 1..Len(s) : s[i] = s[j] => i = j
               /\ \A i \in 1..Len(s) : s[i] \in FirstItems(runs)
<1> DEFINE I == FirstItems(runs)
           F == [r \in runs |-> [run |-> r, resume |-> FALSE]]
<1>1. IsFiniteSet(runs)
  BY TreeSchedulerAssumption, FS_Subset
<1>2. F \in Bijection(runs, I)
  <2>1. F \in [runs -> I]
    BY DEF FirstItems
  <2>2. \A a, b \in runs : F[a] = F[b] => a = b
    OBVIOUS
  <2>3. \A y \in I : \E r \in runs : F[r] = y
    BY DEF FirstItems
  <2> HIDE DEF F, I
  <2>4. QED
    BY <2>1, <2>2, <2>3 DEF Bijection, Injection, Surjection, IsInjective
<1>3. IsFiniteSet(I)
  BY <1>1, <1>2, FS_Bijection DEF ExistsBijection
<1> HIDE DEF I, F
<1>4. Cardinality(I) \in Nat /\ ExistsBijection(1..Cardinality(I), I)
  BY <1>3, FS_CardinalityType
<1>5. \E f \in [1..Cardinality(I) -> I] : IsInjective(f)
  BY <1>4 DEF ExistsBijection, Bijection, Injection
<1>6. SetToSeq(I) \in [1..Cardinality(I) -> I] /\ IsInjective(SetToSeq(I))
  BY <1>5, Zenon DEF SetToSeq
<1>7. SetToSeq(I) \in Seq(I) /\ Len(SetToSeq(I)) = Cardinality(I)
  BY <1>4, <1>6
<1>8. QED
  BY <1>6, <1>7 DEF IsInjective, I

\* A batch the ledger has reserved enters the ledger and the queue.
LEMMA EnlistKeeps ==
    ASSUME NEW t, NEW runs \in SUBSET Runs, TreeInv(plan, t, {}),
           \A r \in runs : t.entry[r] = "none",
           t.launched + Cardinality(runs) <= plan.maxLaunches,
           t.queued + Cardinality(runs) <= plan.maxQueued
    PROVE  LET u == Enlisted(t, runs)
           IN  /\ TreeInv(plan, u, {}) /\ Follows(t, u)
               /\ Capable(t) => Capable(u)
<1> DEFINE u == Enlisted(t, runs)
           items == SetToSeq(FirstItems(runs))
           q == t.queue
<1>1. /\ t \in TreeState /\ t \in RawState /\ QueueFits(t, {}) /\ Counts(plan, t)
      /\ \A r \in Runs : RunFits(t, r)
  BY Untyped DEF TreeInv
<1>2. IsFiniteSet(runs) /\ Cardinality(runs) \in Nat
  BY TreeSchedulerAssumption, FS_Subset, FS_CardinalityType
<1>3. /\ items \in Seq(FirstItems(runs))
      /\ \A i, j \in 1..Len(items) : items[i] = items[j] => i = j
      /\ \A i \in 1..Len(items) : items[i] \in FirstItems(runs)
  BY FirstItemsListed
<1>4. \A x \in FirstItems(runs) : x \in Item /\ x.run \in runs /\ ~x.resume
  <2>1. TAKE x \in FirstItems(runs)
  <2>2. PICK r \in runs : x = [run |-> r, resume |-> FALSE]
    BY DEF FirstItems
  <2>3. x.run = r /\ x.resume = FALSE
    BY <2>2
  <2>4. x \in Item
    BY <2>2 DEF Item
  <2>5. QED
    BY <2>3, <2>4
<1>5. u = [t EXCEPT
        !.ledger = [r \in Runs |-> IF r \in runs THEN "queued" ELSE @[r]],
        !.entry = [r \in Runs |-> IF r \in runs THEN "queued" ELSE @[r]],
        !.outcome = [r \in Runs |-> IF r \in runs THEN "pending" ELSE @[r]],
        !.launched = @ + Cardinality(runs),
        !.queued = @ + Cardinality(runs),
        !.queue = @ \o items]
  BY DEF Enlisted, FirstItems
<1> HIDE DEF items, u
<1>6. /\ u.ledger = [r \in Runs |-> IF r \in runs THEN "queued" ELSE t.ledger[r]]
      /\ u.entry = [r \in Runs |-> IF r \in runs THEN "queued" ELSE t.entry[r]]
      /\ u.outcome = [r \in Runs |-> IF r \in runs THEN "pending" ELSE t.outcome[r]]
      /\ u.launched = t.launched + Cardinality(runs)
      /\ u.queued = t.queued + Cardinality(runs)
      /\ u.queue = q \o items
      /\ u.active = t.active /\ u.used = t.used /\ u.holds = t.holds
      /\ u.body = t.body /\ u.await = t.await
  BY <1>1, <1>5 DEF RawState
<1>same. u.body = t.body /\ u.await = t.await /\ u.holds = t.holds
  BY <1>6
<1>7. q \in Seq(Item) /\ items \in Seq(Item) /\ q \o items \in Seq(Item)
  BY <1>1, <1>3, <1>4 DEF RawState
<1>8. u \in RawState
  <2>1. /\ [r \in Runs |-> IF r \in runs THEN "queued" ELSE t.ledger[r]] \in [Runs -> LedgerStates]
        /\ [r \in Runs |-> IF r \in runs THEN "queued" ELSE t.entry[r]] \in [Runs -> EntryStates]
        /\ [r \in Runs |-> IF r \in runs THEN "pending" ELSE t.outcome[r]]
              \in [Runs -> {"none", "pending", "resolved", "rejected"}]
    BY <1>1 DEF RawState, LedgerStates, EntryStates
  <2>2. t.launched + Cardinality(runs) \in Int /\ t.queued + Cardinality(runs) \in Int
    BY <1>1, <1>2 DEF RawState
  <2>3. QED
    BY <1>1, <1>5, <1>7, <2>1, <2>2 DEF RawState
<1>9. \A r \in runs : /\ u.ledger[r] = "queued" /\ u.entry[r] = "queued"
                      /\ u.outcome[r] = "pending"
                      /\ t.ledger[r] = "none" /\ t.body[r] = "none" /\ t.await[r] = "none"
                      /\ ~t.holds[r]
  BY <1>1, <1>6 DEF RunFits
<1>10. \A r \in Runs \ runs : /\ u.ledger[r] = t.ledger[r] /\ u.entry[r] = t.entry[r]
                              /\ u.outcome[r] = t.outcome[r]
  BY <1>6
<1>11. \A r \in Runs : RunFits(u, r)
  <2>1. TAKE r \in Runs
  <2>2. CASE r \in runs
    <3>1. /\ u.ledger[r] = "queued" /\ u.entry[r] = "queued" /\ u.outcome[r] = "pending"
          /\ u.body[r] = "none" /\ u.await[r] = "none" /\ ~u.holds[r]
      BY <1>same, <1>9, <2>2
    <3>2. QED
      BY <3>1 DEF RunFits
  <2>3. CASE r \notin runs
    BY <1>1, <1>6, <1>10, <2>3 DEF RunFits
  <2>4. QED
    BY <2>2, <2>3
<1>12. QueueFits(u, {})
  <2>1. /\ Len(q) \in Nat /\ Len(items) \in Nat
        /\ DOMAIN q = 1..Len(q) /\ DOMAIN u.queue = 1..(Len(q) + Len(items))
        /\ \A i \in 1..Len(q) : u.queue[i] = q[i] /\ q[i] \in Item
        /\ \A i \in (Len(q) + 1)..(Len(q) + Len(items)) : u.queue[i] = items[i - Len(q)]
    BY <1>6, <1>7
  <2>2. \A i \in 1..Len(q) : ItemFits(t, u.queue[i]) /\ u.queue[i] \in Item
    BY <1>1, <2>1 DEF QueueFits
  <2>3. \A i \in (Len(q) + 1)..(Len(q) + Len(items)) : i - Len(q) \in 1..Len(items)
    BY <2>1
  <2>4. \A i \in (Len(q) + 1)..(Len(q) + Len(items)) : u.queue[i] \in FirstItems(runs)
    BY <1>3, <2>1, <2>3
  <2>5. \A x \in FirstItems(runs) : ItemFits(u, x) /\ ~ItemFits(t, x)
    BY <1>4, <1>9 DEF ItemFits
  <2>6. \A x \in Item : ItemFits(t, x) => ItemFits(u, x)
    <3>1. \A x \in Item : x.run \in Runs
      BY DEF Item
    <3>2. QED
      BY <1>6, <1>9, <1>10, <3>1 DEF ItemFits
  <2>7. \A i \in DOMAIN u.queue :
            i \in 1..Len(q) \/ i \in (Len(q) + 1)..(Len(q) + Len(items))
    BY <2>1
  <2>8. \A i \in DOMAIN u.queue : ItemFits(u, u.queue[i])
    BY <2>2, <2>4, <2>5, <2>6, <2>7
  <2>9. ASSUME NEW i \in DOMAIN u.queue, NEW j \in DOMAIN u.queue, u.queue[i] = u.queue[j]
        PROVE  i = j
    <3>1. CASE i \in 1..Len(q) /\ j \in 1..Len(q)
      BY <1>1, <2>1, <2>9, <3>1 DEF QueueFits
    <3>2. CASE i \in 1..Len(q) /\ j \in (Len(q) + 1)..(Len(q) + Len(items))
      BY <2>2, <2>4, <2>5, <2>9, <3>2
    <3>3. CASE i \in (Len(q) + 1)..(Len(q) + Len(items)) /\ j \in 1..Len(q)
      BY <2>2, <2>4, <2>5, <2>9, <3>3
    <3>4. CASE /\ i \in (Len(q) + 1)..(Len(q) + Len(items))
               /\ j \in (Len(q) + 1)..(Len(q) + Len(items))
      <4>1. items[i - Len(q)] = items[j - Len(q)]
        BY <2>1, <2>9, <3>4
      <4>2. i - Len(q) = j - Len(q)
        BY <1>3, <2>3, <3>4, <4>1
      <4>3. QED
        BY <2>1, <3>4, <4>2
    <3>5. QED
      BY <2>7, <3>1, <3>2, <3>3, <3>4
  <2>10. QED
    BY <2>8, <2>9 DEF QueueFits
<1>13. Counts(plan, u)
  <2> DEFINE W == {"queued", "waiting"}
             L == {"queued", "active", "waiting", "terminal"}
  <2>1. u.active = Count(u.ledger, {"active"})
    <3>1. \A r \in Runs : u.ledger[r] \in {"active"} <=> t.ledger[r] \in {"active"}
      BY <1>9, <1>10
    <3>2. Count(u.ledger, {"active"}) = Count(t.ledger, {"active"})
      BY <3>1 DEF Count
    <3>3. QED
      BY <1>1, <1>6, <3>2 DEF Counts
  <2>2. u.queued = Count(u.ledger, W)
    <3>1. (\A r \in Runs \ runs : u.ledger[r] = t.ledger[r])
          /\ (\A r \in runs : t.ledger[r] \notin W /\ u.ledger[r] \in W)
      BY <1>9, <1>10
    <3>2. Count(u.ledger, W) = Count(t.ledger, W) + Cardinality(runs)
      BY <3>1, CountJoins
    <3>3. QED
      BY <1>1, <1>6, <3>2 DEF Counts
  <2>3. u.launched = Count(u.ledger, L)
    <3>1. (\A r \in Runs \ runs : u.ledger[r] = t.ledger[r])
          /\ (\A r \in runs : t.ledger[r] \notin L /\ u.ledger[r] \in L)
      BY <1>9, <1>10
    <3>2. Count(u.ledger, L) = Count(t.ledger, L) + Cardinality(runs)
      BY <3>1, CountJoins
    <3>3. QED
      BY <1>1, <1>6, <3>2 DEF Counts
  <2>4. QED
    BY <1>1, <1>6, <2>1, <2>2, <2>3 DEF Counts
<1>14. u \in TreeState
  BY <1>8, <1>13, Typed
<1>15. TreeInv(plan, u, {})
  BY <1>11, <1>12, <1>13, <1>14 DEF TreeInv
<1>16. Follows(t, u)
  BY <1>6, <1>9, <1>10 DEF Follows, FollowsRun
<1>17. Capable(t) => Capable(u)
  <2>1. \A r \in runs : u.body[r] = "none"
    BY <1>same, <1>9
  <2>2. \A r \in Runs \ runs : u.ledger[r] = t.ledger[r]
    BY <1>10
  <2>3. ASSUME Capable(t), NEW r \in Runs PROVE CapableRun(u, r)
    <3>1. CASE r \in runs
      BY <2>1, <3>1 DEF CapableRun
    <3>2. CASE r \notin runs
      BY <1>6, <2>2, <2>3, <3>2 DEF Capable, CapableRun
    <3>3. QED
      BY <3>1, <3>2
  <2>4. QED
    BY <2>3 DEF Capable
<1>18. QED
  BY <1>15, <1>16, <1>17 DEF u

\* A parent whose batch has settled asks for its capacity.
LEMMA AskKeeps ==
    ASSUME NEW t, NEW p \in Runs, TreeInv(plan, t, {}), t.await[p] = "children"
    PROVE  LET u == [t EXCEPT !.await[p] = "queued",
                              !.queue = Append(@, [run |-> p, resume |-> TRUE])]
           IN  /\ TreeInv(plan, u, {}) /\ Follows(t, u)
               /\ Capable(t) => Capable(u)
<1> DEFINE x == [run |-> p, resume |-> TRUE]
           v == [t EXCEPT !.await[p] = "queued"]
           u == [t EXCEPT !.await[p] = "queued", !.queue = Append(@, x)]
<1>1. /\ t \in TreeState /\ t \in RawState /\ QueueFits(t, {}) /\ Counts(plan, t)
      /\ \A r \in Runs : RunFits(t, r)
  BY Untyped DEF TreeInv
<1>2. x \in Item /\ x.run = p /\ x.resume
  BY DEF Item
<1>3. /\ u.ledger = t.ledger /\ u.launched = t.launched /\ u.active = t.active
      /\ u.queued = t.queued /\ u.used = t.used /\ u.holds = t.holds
      /\ u.entry = t.entry /\ u.outcome = t.outcome /\ u.body = t.body
      /\ u.queue = Append(t.queue, x)
      /\ u.await = [t.await EXCEPT ![p] = "queued"]
  BY <1>1 DEF RawState
<1>4. u \in TreeState
  <2>1. /\ Append(t.queue, x) \in Seq(Item)
        /\ [t.await EXCEPT ![p] = "queued"] \in [Runs -> AwaitStates]
    BY <1>1, <1>2 DEF TreeState, AwaitStates
  <2>2. QED
    BY <1>1, <2>1 DEF TreeState
<1> HIDE DEF u, x
<1>5. u.await[p] = "queued" /\ \A r \in Runs \ {p} : u.await[r] = t.await[r]
  BY <1>1, <1>3 DEF RawState
<1>6. QueueFits(u, {})
  <2>1. t.queue \in Seq(Item)
    BY <1>1 DEF TreeState
  <2>2. /\ DOMAIN t.queue = 1..Len(t.queue) /\ DOMAIN u.queue = 1..(Len(t.queue) + 1)
        /\ Len(t.queue) \in Nat
        /\ \A i \in 1..Len(t.queue) : u.queue[i] = t.queue[i] /\ u.queue[i] \in Item
        /\ u.queue[Len(t.queue) + 1] = x
    BY <1>2, <1>3, <2>1
  <2>3. \A y \in Item : ItemFits(t, y) => ItemFits(u, y)
    <3>1. \A y \in Item : y.run \in Runs
      BY DEF Item
    <3>2. QED
      BY <1>3, <1>5, <3>1 DEF ItemFits
  <2>4. ItemFits(u, x) /\ ~ItemFits(t, x)
    BY <1>2, <1>5 DEF ItemFits
  <2>5. \A i \in 1..Len(t.queue) : ItemFits(t, u.queue[i])
    BY <1>1, <2>2 DEF QueueFits
  <2>6. \A i, j \in 1..Len(t.queue) : u.queue[i] = u.queue[j] => i = j
    BY <1>1, <2>2 DEF QueueFits
  <2>7. \A i \in DOMAIN u.queue : i \in 1..Len(t.queue) \/ i = Len(t.queue) + 1
    BY <2>2
  <2>8. \A i \in DOMAIN u.queue : ItemFits(u, u.queue[i])
    BY <2>2, <2>3, <2>4, <2>5, <2>7
  <2>9. \A i, j \in DOMAIN u.queue : u.queue[i] = u.queue[j] => i = j
    BY <2>2, <2>4, <2>5, <2>6, <2>7
  <2>10. QED
    BY <2>8, <2>9 DEF QueueFits
<1>7. \A r \in Runs : RunFits(u, r)
  <2>1. TAKE r \in Runs
  <2>2. CASE r = p
    BY <1>1, <1>3, <1>5, <2>2 DEF RunFits
  <2>3. CASE r # p
    BY <1>1, <1>3, <1>5, <2>3 DEF RunFits
  <2>4. QED
    BY <2>2, <2>3
<1>8. Counts(plan, u)
  BY <1>1, <1>3 DEF Counts
<1>9. TreeInv(plan, u, {})
  BY <1>4, <1>6, <1>7, <1>8 DEF TreeInv
<1>10. Follows(t, u)
  BY <1>3 DEF Follows, FollowsRun
<1>11. Capable(t) => Capable(u)
  BY <1>3, <1>5 DEF Capable, CapableRun
<1>12. QED
  BY <1>9, <1>10, <1>11 DEF u, x

\* A parent of a cancelled tree leaves the ledger.
LEMMA GiveUpKeeps ==
    ASSUME NEW t, NEW p \in Runs, TreeInv(plan, t, {}), t.await[p] = "children"
    PROVE  LET u == [Finished(t, p) EXCEPT !.await[p] = "none"]
           IN  TreeInv(plan, u, {}) /\ Follows(t, u) /\ u.holds = t.holds
<1> DEFINE f == Finished(t, p)
           u == [f EXCEPT !.await[p] = "none"]
<1>1. /\ t \in TreeState /\ t \in RawState /\ QueueFits(t, {}) /\ RunFits(t, p) /\ plan \in Plans
  BY Untyped DEF TreeInv
<1>2. /\ f \in RawState
      /\ f.ledger = [t.ledger EXCEPT ![p] = IF @ = "none" THEN "none" ELSE "terminal"]
      /\ f.launched = t.launched
      /\ f.active = t.active - One(Active(t, p))
      /\ f.queued = t.queued - One(Queued(t, p))
      /\ f.used = t.used /\ f.holds = t.holds /\ f.entry = t.entry
      /\ f.queue = t.queue /\ f.outcome = t.outcome
      /\ f.body = t.body /\ f.await = t.await
  BY <1>1, FinishedFields
<1> HIDE DEF f
<1>3. /\ u \in RawState
      /\ u.ledger = f.ledger /\ u.launched = f.launched /\ u.active = f.active
      /\ u.queued = f.queued /\ u.used = f.used /\ u.holds = f.holds
      /\ u.entry = f.entry /\ u.outcome = f.outcome /\ u.body = f.body /\ u.queue = f.queue
      /\ u.await = [f.await EXCEPT ![p] = "none"]
  BY <1>2 DEF RawState, AwaitStates
<1> HIDE DEF u
<1>4. t.ledger[p] \in {"waiting", "terminal"} /\ t.entry[p] # "queued" /\ t.entry[p] # "none"
  BY <1>1 DEF RunFits
<1>5. u.ledger[p] = "terminal" /\ u.await[p] = "none"
  BY <1>1, <1>2, <1>3, <1>4 DEF RawState
<1>6. Others(t, u, p)
  <2>1. \A y \in Runs \ {p} : u.ledger[y] = t.ledger[y] /\ u.await[y] = t.await[y]
    BY <1>1, <1>2, <1>3 DEF RawState
  <2>2. QED
    BY <1>2, <1>3, <2>1 DEF Others
<1>7. RunFits(u, p)
  BY <1>1, <1>2, <1>3, <1>4, <1>5 DEF RunFits
<1>8. QueueFits(u, {})
  BY <1>1, <1>2, <1>3, <1>4, <1>6, QueueStands
<1>9. /\ u.active = t.active + One(Active(u, p)) - One(Active(t, p))
      /\ u.queued = t.queued + One(Queued(u, p)) - One(Queued(t, p))
      /\ u.active = t.active /\ u.queued <= t.queued
  <2>1. ~Active(t, p) /\ ~Active(u, p) /\ ~Queued(u, p)
    BY <1>4, <1>5 DEF Active, Queued
  <2>2. t.active \in Int /\ t.queued \in Int
    BY <1>1 DEF RawState
  <2>3. QED
    BY <1>2, <1>3, <2>1, <2>2 DEF One
<1>10. \A d \in Deployments : u.used[d] = IF d = plan.deployment THEN u.active ELSE 0
  BY <1>2, <1>3, <1>9 DEF TreeInv, Counts
<1>11. u.active <= Limits[plan.deployment] /\ u.queued <= plan.maxQueued
  <2>1. t.active <= Limits[plan.deployment] /\ t.queued <= plan.maxQueued
    BY DEF TreeInv, Counts
  <2>2. t.queued \in Int /\ u.queued \in Int /\ plan.maxQueued \in Int
    BY <1>1, <1>3, TreeSchedulerAssumption DEF RawState
  <2>3. QED
    BY <1>9, <2>1, <2>2
<1>12. u.launched = t.launched /\ t.ledger[p] # "none" /\ u.ledger[p] # "none"
  BY <1>2, <1>3, <1>4, <1>5
<1>13. TreeInv(plan, u, {})
  BY <1>3, <1>6, <1>7, <1>8, <1>9, <1>10, <1>11, <1>12, OneRun
<1>14. FollowsRun(t, u, p)
  BY <1>2, <1>3 DEF FollowsRun
<1>15. QED
  BY <1>2, <1>3, <1>6, <1>13, <1>14, FollowsOne DEF u, f

\* The continuation of runDescendants.
LEMMA GoOnKeeps ==
    ASSUME NEW t, NEW p \in Runs, TreeInv(plan, t, {}), t.await[p] \in {"granted", "refused"}
    PROVE  LET u == [t EXCEPT !.await[p] = "none"]
           IN  /\ TreeInv(plan, u, {}) /\ Follows(t, u) /\ u.holds = t.holds
               /\ Capable(t) => Capable(u)
<1> DEFINE u == [t EXCEPT !.await[p] = "none"]
<1>1. /\ t \in TreeState /\ t \in RawState /\ QueueFits(t, {}) /\ Counts(plan, t)
      /\ \A r \in Runs : RunFits(t, r)
  BY Untyped DEF TreeInv
<1>2. /\ u \in TreeState
      /\ u.ledger = t.ledger /\ u.launched = t.launched /\ u.active = t.active
      /\ u.queued = t.queued /\ u.used = t.used /\ u.holds = t.holds
      /\ u.entry = t.entry /\ u.outcome = t.outcome /\ u.body = t.body /\ u.queue = t.queue
      /\ u.await = [t.await EXCEPT ![p] = "none"]
  BY <1>1 DEF TreeState, AwaitStates
<1> HIDE DEF u
<1>3. u.await[p] = "none" /\ \A r \in Runs \ {p} : u.await[r] = t.await[r]
  BY <1>1, <1>2 DEF RawState
<1>4. Others(t, u, p)
  BY <1>2, <1>3 DEF Others
<1>5. t.entry[p] # "queued"
  BY <1>1 DEF RunFits
<1>6. QueueFits(u, {})
  BY <1>1, <1>2, <1>4, <1>5, QueueStands
<1>7. \A r \in Runs : RunFits(u, r)
  <2>1. TAKE r \in Runs
  <2>2. CASE r = p
    BY <1>1, <1>2, <1>3, <2>2 DEF RunFits
  <2>3. CASE r # p
    BY <1>1, <1>2, <1>3, <2>3 DEF RunFits
  <2>4. QED
    BY <2>2, <2>3
<1>8. Counts(plan, u)
  BY <1>1, <1>2 DEF Counts
<1>9. TreeInv(plan, u, {})
  BY <1>2, <1>6, <1>7, <1>8 DEF TreeInv
<1>10. Follows(t, u)
  BY <1>2 DEF Follows, FollowsRun
<1>11. Capable(t) => Capable(u)
  <2>1. Capable(t) => CapableRun(u, p)
    BY <1>2, <1>3 DEF Capable, CapableRun
  <2>2. QED
    BY <1>4, <2>1, CapableOne
<1>12. QED
  BY <1>2, <1>9, <1>10, <1>11 DEF u

(***************************************************************************)
(* The inductive invariant.                                                *)
(***************************************************************************)
IInv ==
    /\ TypeOK
    /\ TreeInv(plan, tree, {})
    /\ ~aborted /\ ~expired => Capable(tree)

\* A tree starts without runs.
LEMMA InitIInv ==
    Init => IInv
<1> SUFFICES ASSUME Init PROVE IInv
  OBVIOUS
<1>1. TypeOK
  <2>1. tree \in TreeState
    BY DEF Init, TreeState, LedgerStates, EntryStates, AwaitStates
  <2>2. QED
    BY <2>1 DEF Init, TypeOK
<1>2. \A A : "none" \notin A => Count(tree.ledger, A) = 0
  <2>1. TAKE A
  <2>2. ASSUME "none" \notin A PROVE {r \in Runs : tree.ledger[r] \in A} = {}
    BY <2>2 DEF Init
  <2>3. QED
    BY <2>2, FS_EmptySet DEF Count
<1>3. Counts(plan, tree)
  <2>1. plan \in Plans /\ plan.deployment \in Deployments
    BY TreeSchedulerAssumption DEF Init
  <2>2. 0 <= Limits[plan.deployment] /\ 0 <= plan.maxQueued /\ 0 <= plan.maxLaunches
    BY <2>1, TreeSchedulerAssumption
  <2>3. /\ Count(tree.ledger, {"active"}) = 0 /\ Count(tree.ledger, {"queued", "waiting"}) = 0
        /\ Count(tree.ledger, {"queued", "active", "waiting", "terminal"}) = 0
    BY <1>2
  <2>4. QED
    BY <2>2, <2>3 DEF Init, Counts
<1>4. QueueFits(tree, {})
  BY DEF Init, QueueFits
<1>5. \A r \in Runs : RunFits(tree, r)
  BY DEF Init, RunFits
<1>6. Capable(tree)
  BY DEF Init, Capable, CapableRun
<1>7. QED
  BY <1>1, <1>3, <1>4, <1>5, <1>6 DEF IInv, TreeInv, TypeOK

\* What every method guarantees of the tree's next state.
Guaranteed ==
    /\ TreeInv(plan, tree', {})
    /\ Follows(tree, tree')
    /\ ~aborted /\ ~expired /\ ~aborted' => Capable(tree')

\* run.
LEMMA RunGuaranteed ==
    ASSUME IInv, NEW runs \in SUBSET Top, Run(runs)
    PROVE  Guaranteed
<1> DEFINE u == Enlisted(tree, runs)
<1>1. runs \in SUBSET Runs /\ (\A r \in runs : tree.entry[r] = "none")
  BY TreeSchedulerAssumption DEF Run, Fresh
<1>2. /\ tree.launched + Cardinality(runs) <= plan.maxLaunches
      /\ tree.queued + Cardinality(runs) <= plan.maxQueued
      /\ tree' = Dispatched(u)
  BY DEF Run
<1>3. TreeInv(plan, u, {}) /\ Follows(tree, u) /\ (Capable(tree) => Capable(u))
  BY <1>1, <1>2, EnlistKeeps DEF IInv
<1> HIDE DEF u
<1>4. /\ TreeInv(plan, tree', {}) /\ Follows(u, tree')
      /\ ~expired /\ Capable(u) => Capable(tree')
  BY <1>2, <1>3, DispatchKeeps
<1>5. Follows(tree, tree')
  BY <1>3, <1>4, FollowsTrans
<1>6. QED
  BY <1>3, <1>4, <1>5 DEF Guaranteed, IInv

\* runDescendants.
LEMMA RunDescendantsGuaranteed ==
    ASSUME IInv, NEW p \in Runs, NEW runs \in SUBSET Children[p], RunDescendants(p, runs)
    PROVE  Guaranteed
<1> DEFINE v == Suspended(tree, p)
           u == Enlisted(v, runs)
<1>1. runs \in SUBSET Runs /\ (\A r \in runs : tree.entry[r] = "none")
  BY TreeSchedulerAssumption DEF RunDescendants, Fresh
<1>2. /\ tree.body[p] = "working" /\ tree.await[p] = "none"
      /\ tree.entry[p] = "running" /\ tree.holds[p] /\ tree.ledger[p] = "active"
      /\ tree.launched + Cardinality(runs) <= plan.maxLaunches
      /\ tree.queued + Cardinality(runs) + 1 <= plan.maxQueued
      /\ tree' = Dispatched(u)
  BY DEF RunDescendants, HasRoom
<1>3. tree.queued \in Nat /\ Cardinality(runs) \in Nat /\ plan.maxQueued \in Nat
  <2>1. tree \in TreeState /\ plan \in Plans
    BY DEF IInv, TypeOK
  <2>2. IsFiniteSet(runs)
    BY <1>1, TreeSchedulerAssumption, FS_Subset
  <2>3. QED
    BY <2>1, <2>2, FS_CardinalityType, TreeSchedulerAssumption DEF TreeState
<1>4. tree.queued + 1 <= plan.maxQueued /\ (tree.queued + 1) + Cardinality(runs) <= plan.maxQueued
  BY <1>2, <1>3
<1>5. /\ TreeInv(plan, v, {}) /\ Follows(tree, v) /\ (Capable(tree) => Capable(v))
      /\ v.queued = tree.queued + 1 /\ v.launched = tree.launched
      /\ \A x \in Runs \ {p} : v.entry[x] = tree.entry[x]
  BY <1>2, <1>4, SuspendKeeps DEF IInv
<1> HIDE DEF v
<1>6. \A r \in runs : v.entry[r] = "none"
  BY <1>1, <1>2, <1>5
<1>7. TreeInv(plan, u, {}) /\ Follows(v, u) /\ (Capable(v) => Capable(u))
  BY <1>1, <1>2, <1>4, <1>5, <1>6, EnlistKeeps
<1> HIDE DEF u
<1>8. /\ TreeInv(plan, tree', {}) /\ Follows(u, tree')
      /\ ~expired /\ Capable(u) => Capable(tree')
  BY <1>2, <1>7, DispatchKeeps
<1>9. Follows(tree, tree')
  BY <1>5, <1>7, <1>8, FollowsTrans
<1>10. QED
  BY <1>5, <1>7, <1>8, <1>9 DEF Guaranteed, IInv

\* settleDescendants.
LEMMA SettleGuaranteed ==
    ASSUME IInv, NEW p \in Runs, SettleDescendants(p)
    PROVE  Guaranteed /\ (aborted => tree'.holds = tree.holds)
<1>1. CASE aborted
  <2>1. tree' = [Finished(tree, p) EXCEPT !.await[p] = "none"] /\ tree.await[p] = "children"
    BY <1>1 DEF SettleDescendants
  <2>2. TreeInv(plan, tree', {}) /\ Follows(tree, tree') /\ tree'.holds = tree.holds
    BY <2>1, GiveUpKeeps DEF IInv
  <2>3. QED
    BY <1>1, <2>2 DEF Guaranteed
<1>2. CASE ~aborted
  <2> DEFINE u == [tree EXCEPT !.await[p] = "queued",
                               !.queue = Append(@, [run |-> p, resume |-> TRUE])]
  <2>1. tree' = Dispatched(u) /\ tree.await[p] = "children"
    BY <1>2 DEF SettleDescendants
  <2>2. TreeInv(plan, u, {}) /\ Follows(tree, u) /\ (Capable(tree) => Capable(u))
    BY <2>1, AskKeeps DEF IInv
  <2> HIDE DEF u
  <2>3. /\ TreeInv(plan, tree', {}) /\ Follows(u, tree')
        /\ ~expired /\ Capable(u) => Capable(tree')
    BY <2>1, <2>2, DispatchKeeps
  <2>4. Follows(tree, tree')
    BY <2>2, <2>3, FollowsTrans
  <2>5. QED
    BY <1>2, <2>2, <2>3, <2>4 DEF Guaranteed, IInv
<1>3. QED
  BY <1>1, <1>2

\* Its continuation.
LEMMA ResumeGuaranteed ==
    ASSUME IInv, NEW p \in Runs, Resume(p)
    PROVE  Guaranteed /\ tree'.holds = tree.holds
<1>1. tree' = [tree EXCEPT !.await[p] = "none"] /\ tree.await[p] \in {"granted", "refused"}
  BY DEF Resume
<1>2. /\ TreeInv(plan, tree', {}) /\ Follows(tree, tree') /\ tree'.holds = tree.holds
      /\ Capable(tree) => Capable(tree')
  BY <1>1, GoOnKeeps DEF IInv
<1>3. QED
  BY <1>2 DEF Guaranteed, IInv

\* The end of a task.
LEMMA EndRunGuaranteed ==
    ASSUME IInv, NEW r \in Runs, EndRun(r)
    PROVE  /\ Guaranteed
           /\ aborted => \A x \in Runs : ~tree.holds[x] => ~tree'.holds[x]
<1>1. PICK o \in {"resolved", "rejected"} :
         tree' = Dispatched([Finished(Released(tree, r), r) EXCEPT
                    !.outcome[r] = o, !.body[r] = "over", !.entry[r] = "settled"])
  BY DEF EndRun
<1> DEFINE u == [Finished(Released(tree, r), r) EXCEPT
                    !.outcome[r] = o, !.body[r] = "over", !.entry[r] = "settled"]
<1>2. TreeInv(plan, u, {}) /\ Follows(tree, u) /\ (Capable(tree) => Capable(u))
  BY EndKeeps DEF IInv, EndRun
<1>3. \A x \in Runs : ~tree.holds[x] => ~u.holds[x]
  <2>1. tree \in RawState /\ plan \in Plans
    BY Untyped DEF IInv, TypeOK
  <2>2. Released(tree, r) \in RawState /\ Released(tree, r).holds = [tree.holds EXCEPT ![r] = FALSE]
    BY <2>1, ReleasedFields
  <2> DEFINE v == Released(tree, r)
             f == Finished(v, r)
  <2> HIDE DEF v
  <2>3. f \in RawState /\ f.holds = v.holds
    BY <2>2, FinishedFields DEF v
  <2> HIDE DEF f
  <2>4. [f EXCEPT !.outcome[r] = o, !.body[r] = "over", !.entry[r] = "settled"].holds = f.holds
    BY <2>3 DEF RawState
  <2>5. u.holds = [tree.holds EXCEPT ![r] = FALSE]
    BY <2>2, <2>3, <2>4 DEF f, v
  <2>6. QED
    BY <2>1, <2>5 DEF RawState
<1> HIDE DEF u
<1>4. tree' = Dispatched(u)
  BY <1>1 DEF u
<1>5. /\ TreeInv(plan, tree', {}) /\ Follows(u, tree')
      /\ ~expired /\ Capable(u) => Capable(tree')
  BY <1>2, <1>4, DispatchKeeps
<1>6. Follows(tree, tree')
  BY <1>2, <1>5, FollowsTrans
<1>7. aborted => tree' = u
  BY <1>4 DEF Dispatched
<1>8. QED
  BY <1>2, <1>3, <1>5, <1>6, <1>7 DEF Guaranteed, IInv

\* cancelRun.
LEMMA CancelRunGuaranteed ==
    ASSUME IInv, NEW r \in Runs, CancelRun(r)
    PROVE  Guaranteed /\ (aborted => tree'.holds = tree.holds)
<1>1. PICK o \in {"resolved", "rejected"} :
         tree' = Dispatched([Finished(tree, r) EXCEPT
                    !.queue = Without(@, r), !.entry[r] = "settled", !.outcome[r] = o])
  BY DEF CancelRun
<1> DEFINE u == [Finished(tree, r) EXCEPT
                    !.queue = Without(@, r), !.entry[r] = "settled", !.outcome[r] = o]
<1>2. TreeInv(plan, u, {}) /\ Follows(tree, u) /\ (Capable(tree) => Capable(u))
  BY StopKeeps DEF IInv, CancelRun
<1>3. u.holds = tree.holds
  <2> DEFINE f == Finished(tree, r)
  <2>1. tree \in RawState
    BY Untyped DEF IInv, TypeOK
  <2>2. f \in RawState /\ f.holds = tree.holds
    BY <2>1, FinishedFields
  <2> HIDE DEF f
  <2>3. [f EXCEPT !.queue = Without(@, r), !.entry[r] = "settled", !.outcome[r] = o].holds = f.holds
    BY <2>2 DEF RawState
  <2>4. QED
    BY <2>2, <2>3 DEF f
<1> HIDE DEF u
<1>4. tree' = Dispatched(u)
  BY <1>1 DEF u
<1>5. /\ TreeInv(plan, tree', {}) /\ Follows(u, tree')
      /\ ~expired /\ Capable(u) => Capable(tree')
  BY <1>2, <1>4, DispatchKeeps
<1>6. Follows(tree, tree')
  BY <1>2, <1>5, FollowsTrans
<1>7. aborted => tree' = u
  BY <1>4 DEF Dispatched
<1>8. QED
  BY <1>2, <1>3, <1>5, <1>6, <1>7 DEF Guaranteed, IInv

\* cancel.
LEMMA CancelGuaranteed ==
    ASSUME IInv, Cancel
    PROVE  Guaranteed
<1>1. tree' = FoldLeft(Dropped, [tree EXCEPT !.queue = <<>>], tree.queue) /\ aborted'
  BY DEF Cancel
<1>2. TreeInv(plan, tree', {}) /\ Follows(tree, tree')
  BY <1>1, DropKeeps DEF IInv
<1>3. QED
  BY <1>1, <1>2 DEF Guaranteed

\* Every step.
LEMMA StepGuaranteed ==
    ASSUME IInv, [Next]_vars
    PROVE  /\ Guaranteed
           /\ aborted => \A x \in Runs : ~tree.holds[x] => ~tree'.holds[x]
<1>1. CASE \E runs \in SUBSET Top : Run(runs)
  BY <1>1, RunGuaranteed DEF Run
<1>2. CASE \E p \in Runs : \E runs \in SUBSET Children[p] : RunDescendants(p, runs)
  BY <1>2, RunDescendantsGuaranteed DEF RunDescendants
<1>3. CASE \E r \in Runs : SettleDescendants(r)
  BY <1>3, SettleGuaranteed
<1>4. CASE \E r \in Runs : Resume(r)
  BY <1>4, ResumeGuaranteed
<1>5. CASE \E r \in Runs : EndRun(r)
  BY <1>5, EndRunGuaranteed
<1>6. CASE \E r \in Runs : CancelRun(r)
  BY <1>6, CancelRunGuaranteed
<1>7. CASE Cancel
  BY <1>7, CancelGuaranteed DEF Cancel
<1>8. CASE Expire \/ UNCHANGED vars
  <2>1. tree' = tree
    BY <1>8 DEF Expire, vars
  <2>2. Follows(tree, tree')
    BY <2>1, FollowsSame
  <2>3. QED
    BY <2>1, <2>2 DEF Guaranteed, IInv
<1>9. QED
  BY <1>1, <1>2, <1>3, <1>4, <1>5, <1>6, <1>7, <1>8 DEF Next

\* The rest of the state, beside the tree.
LEMMA RestTyped ==
    ASSUME TypeOK, [Next]_vars
    PROVE  /\ plan' = plan
           /\ batch' \in [Runs -> SUBSET Runs] /\ delegating' \in [Runs -> BOOLEAN]
           /\ aborted' \in BOOLEAN /\ expired' \in BOOLEAN
           /\ (aborted => aborted') /\ (expired => expired')
<1>1. CASE \E runs \in SUBSET Top : Run(runs)
  BY <1>1 DEF Run, TypeOK
<1>2. ASSUME NEW p \in Runs, NEW runs \in SUBSET Children[p], RunDescendants(p, runs)
      PROVE  /\ plan' = plan
             /\ batch' \in [Runs -> SUBSET Runs] /\ delegating' \in [Runs -> BOOLEAN]
             /\ aborted' \in BOOLEAN /\ expired' \in BOOLEAN
             /\ (aborted => aborted') /\ (expired => expired')
  <2>1. runs \in SUBSET Runs
    BY TreeSchedulerAssumption
  <2>2. QED
    BY <1>2, <2>1 DEF RunDescendants, TypeOK
<1>3. ASSUME NEW r \in Runs, SettleDescendants(r)
      PROVE  /\ plan' = plan
             /\ batch' \in [Runs -> SUBSET Runs] /\ delegating' \in [Runs -> BOOLEAN]
             /\ aborted' \in BOOLEAN /\ expired' \in BOOLEAN
             /\ (aborted => aborted') /\ (expired => expired')
  <2>1. UNCHANGED <<plan, batch, aborted, expired>>
    BY <1>3 DEF SettleDescendants
  <2>2. delegating' = [delegating EXCEPT ![r] = FALSE] \/ delegating' = delegating
    BY <1>3 DEF SettleDescendants
  <2>3. delegating' \in [Runs -> BOOLEAN]
    BY <2>2 DEF TypeOK
  <2>4. QED
    BY <2>1, <2>3 DEF TypeOK
<1>4. CASE \E r \in Runs : Resume(r)
  BY <1>4 DEF Resume, TypeOK
<1>5. CASE \E r \in Runs : EndRun(r) \/ CancelRun(r)
  BY <1>5 DEF EndRun, CancelRun, TypeOK
<1>6. CASE Cancel \/ Expire \/ UNCHANGED vars
  BY <1>6 DEF Cancel, Expire, vars, TypeOK
<1>7. QED
  BY <1>1, <1>2, <1>3, <1>4, <1>5, <1>6 DEF Next

LEMMA NextIInv ==
    ASSUME IInv, [Next]_vars
    PROVE  IInv'
<1>1. Guaranteed
  BY StepGuaranteed
<1>2. /\ plan' = plan
      /\ batch' \in [Runs -> SUBSET Runs] /\ delegating' \in [Runs -> BOOLEAN]
      /\ aborted' \in BOOLEAN /\ expired' \in BOOLEAN
      /\ (aborted => aborted') /\ (expired => expired')
  BY RestTyped DEF IInv
<1>3. TreeInv(plan, tree', {})
  BY <1>1 DEF Guaranteed
<1>4. TypeOK'
  BY <1>2, <1>3 DEF TypeOK, TreeInv
<1>5. (~aborted /\ ~expired => Capable(tree))'
  BY <1>1, <1>2 DEF Guaranteed, Capable, CapableRun
<1>6. TreeInv(plan, tree, {})'
  BY <1>2, <1>3 DEF TreeInv, QueueFits, ItemFits, RunFits, Counts, Count
<1>7. QED
  BY <1>4, <1>5, <1>6 DEF IInv

\* Every reachable state of a tree satisfies the inductive invariant: the
\* ledger, the entries, the capacity and the queue of the scheduler fit.
THEOREM Invariant == Spec => []IInv
<1>1. Init => IInv
  BY InitIInv
<1>2. IInv /\ [Next]_vars => IInv'
  BY NextIInv
<1>3. QED
  BY <1>1, <1>2, PTL DEF Spec

\* Every state of a tree of subagent runs has its type.
THEOREM TypeCorrect == Spec => []TypeOK
<1>1. IInv => TypeOK
  BY DEF IInv
<1>2. QED
  BY <1>1, Invariant, PTL

\* The states of the ledger, counted apart and together.
LEMMA Counted ==
    ASSUME IInv
    PROVE  /\ tree.active = Cardinality(In("active"))
           /\ tree.queued = Cardinality(In("queued") \cup In("waiting"))
           /\ tree.launched = Cardinality(Runs \ In("none"))
<1>1. tree \in TreeState /\ Counts(plan, tree)
  BY DEF IInv, TreeInv
<1>2. {r \in Runs : tree.ledger[r] \in {"active"}} = In("active")
  BY DEF In
<1>3. {r \in Runs : tree.ledger[r] \in {"queued", "waiting"}} = In("queued") \cup In("waiting")
  BY DEF In
<1>4. {r \in Runs : tree.ledger[r] \in {"queued", "active", "waiting", "terminal"}}
         = Runs \ In("none")
  BY <1>1 DEF In, TreeState, LedgerStates
<1>5. QED
  BY <1>1, <1>2, <1>3, <1>4 DEF Counts, Count

\* The ledger and the scheduler agree on the tree in every state: its counters
\* count its states within its limits, its capacity is that of the entries that
\* hold it, and no more tasks execute than there is capacity for.
THEOREM Accounts_agree == Spec => []AccountsAgree
<1>1. ASSUME IInv PROVE AccountsAgree
  <2> DEFINE H == {r \in Runs : tree.holds[r]}
  <2>1. /\ tree \in TreeState /\ plan \in Plans /\ plan.deployment \in Deployments
        /\ Counts(plan, tree) /\ \A r \in Runs : RunFits(tree, r)
    BY <1>1, TreeSchedulerAssumption DEF IInv, TreeInv
  <2>2. H = In("active") /\ \A r \in Runs : tree.holds[r] <=> tree.ledger[r] = "active"
    BY <2>1 DEF RunFits, In
  <2>3. /\ tree.active = Cardinality(In("active"))
        /\ tree.queued = Cardinality(In("queued") \cup In("waiting"))
        /\ tree.launched = Cardinality(Runs \ In("none"))
    BY <1>1, Counted
  <2>4. tree.active = Cardinality(H)
    BY <2>2, <2>3
  <2>5. /\ tree.active \in Nat /\ Limits[plan.deployment] \in Nat /\ plan.maxActive \in Nat
        /\ Limits[plan.deployment] <= plan.maxActive
        /\ \A d \in Deployments : 0 <= Limits[d]
    BY <2>1, TreeSchedulerAssumption DEF TreeState
  <2>6. tree.active <= plan.maxActive
    BY <2>1, <2>5 DEF Counts
  <2>7. ASSUME NEW d \in Deployments
        PROVE  /\ tree.used[d] <= Limits[d]
               /\ tree.used[d] = Cardinality({r \in Runs : d = plan.deployment /\ tree.holds[r]})
    <3>1. CASE d = plan.deployment
      <4>1. {r \in Runs : d = plan.deployment /\ tree.holds[r]} = H
        BY <3>1
      <4>2. QED
        BY <2>1, <2>4, <3>1, <4>1 DEF Counts
    <3>2. CASE d # plan.deployment
      <4>1. {r \in Runs : d = plan.deployment /\ tree.holds[r]} = {}
        BY <3>2
      <4>2. QED
        BY <2>1, <2>5, <3>2, <4>1, FS_EmptySet DEF Counts
    <3>3. QED
      BY <3>1, <3>2
  <2>8. ASSUME ~aborted, ~expired, NEW d \in Deployments
        PROVE  Cardinality(Executing(d)) <= Limits[d]
    <3>1. CASE d = plan.deployment
      <4>1. Executing(d) \subseteq H
        BY <1>1, <2>8 DEF Executing, IInv, Capable, CapableRun
      <4>2. IsFiniteSet(H)
        BY TreeSchedulerAssumption, FS_Subset
      <4> HIDE DEF H
      <4>3. Cardinality(Executing(d)) <= Cardinality(H) /\ Cardinality(Executing(d)) \in Nat
        BY <4>1, <4>2, FS_Subset, FS_CardinalityType
      <4>4. QED
        BY <2>1, <2>4, <2>5, <3>1, <4>3 DEF Counts
    <3>2. CASE d # plan.deployment
      <4>1. Executing(d) = {}
        BY <3>2 DEF Executing
      <4>2. QED
        BY <2>5, <4>1, FS_EmptySet
    <3>3. QED
      BY <3>1, <3>2
  <2>9. QED
    BY <2>1, <2>2, <2>3, <2>6, <2>7, <2>8 DEF AccountsAgree, Counts
<1>2. QED
  BY <1>1, Invariant, PTL

\* No step starts a run late: neither a stopped run, nor a refused one, nor a
\* parent that settled before its batch gets capacity, and a cancelled tree
\* gives none.
THEOREM No_late_start == Spec => NoLateStart
<1>1. ASSUME IInv, [Next]_vars
      PROVE  \A r \in Runs :
               /\ tree.outcome[r] # "pending" /\ tree.entry[r] # "none" =>
                     tree'.body[r] = tree.body[r]
               /\ tree.entry[r] = "settled" => ~tree'.holds[r]
               /\ aborted /\ ~tree.holds[r] => ~tree'.holds[r]
  <2>1. Guaranteed /\ (aborted => \A x \in Runs : ~tree.holds[x] => ~tree'.holds[x])
    BY <1>1, StepGuaranteed
  <2>2. TAKE r \in Runs
  <2>3. FollowsRun(tree, tree', r) /\ RunFits(tree', r)
    BY <2>1 DEF Guaranteed, Follows, TreeInv
  <2>4. tree.entry[r] = "settled" => ~tree'.holds[r]
    BY <2>3 DEF FollowsRun, RunFits
  <2>5. QED
    BY <2>1, <2>3, <2>4 DEF FollowsRun
<1>2. QED
  BY <1>1, Invariant, PTL DEF Spec, NoLateStart

====
