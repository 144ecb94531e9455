------------------------- MODULE SubagentRuns_proofs -------------------------
(***************************************************************************)
(* The properties of delegated runs, for any runs, batches, limits and     *)
(* bounds: what the projector's loops over a batch compute, the invariant  *)
(* of a session, what a change of the projection keeps of it, and the      *)
(* actions.                                                                *)
(***************************************************************************)
EXTENDS SubagentRuns, FiniteSetTheorems, SequenceTheorems, WellFoundedInduction, TLAPS

\* A set of numbers that is not empty has a least one.
LEMMA LeastNumber ==
    ASSUME NEW S \in SUBSET Nat, S # {}
    PROVE  \E n \in S : \A m \in S : n <= m
<1> DEFINE R == OpToRel(<, Nat)
<1>1. IsWellFoundedOn(R, Nat)
  BY NatLessThanWellFounded
<1>2. R = {ss \in Nat \X Nat : ss[1] < ss[2]}
  BY Zenon DEF OpToRel
<1> HIDE DEF R
<1>3. PICK n \in S : \A m \in S : <<m, n>> \notin R
  BY <1>1, WFMin
<1>4. \A m \in S : ~(m < n)
  BY <1>2, <1>3
<1>5. \A m \in S : n <= m
  BY <1>4
<1> QED
  BY <1>5

\* Max of a set with a greatest number.
LEMMA MaxIs ==
    ASSUME NEW S \in SUBSET Int, NEW m \in S, \A y \in S : y <= m
    PROVE  Max(S) = m
<1>1. \A x \in S : (\A y \in S : x >= y) => x = m
  OBVIOUS
<1>2. \E x \in S : \A y \in S : x >= y
  OBVIOUS
<1> QED
  BY <1>1, <1>2 DEF Max

----------------------------------------------------------------------------
(* The loops over a batch.                                                 *)

Projectors == [rec : [Run -> Snapshot], queue : Seq(Operation), failed : BOOLEAN]

\* What the loops do with a run: begin() when no end is given, or finish().
Turn(ends, runs, st, p, r) ==
    IF ends THEN IF r \in runs THEN Finish(p, r, st) ELSE p
    ELSE Begin(p, r)

\* The recursive equation of FoldLeft has a solution.
Chain(ends, runs, st, p, s, n) ==
    \E g : /\ g = [x \in SUBSET (1..n) |-> g[x]]
           /\ \A x \in SUBSET (1..n) :
                 g[x] = IF x = {} THEN p
                        ELSE Turn(ends, runs, st, g[x \ {Max(x)}], s[Max(x)])
LEMMA Chained ==
    ASSUME NEW ends, NEW runs, NEW st, NEW p, NEW s, NEW N \in Nat
    PROVE  Chain(ends, runs, st, p, s, N)
<1> DEFINE G(n) == Chain(ends, runs, st, p, s, n)
           Bad == {n \in Nat : ~G(n)}
<1>1. G(0)
  <2> DEFINE g == [x \in SUBSET (1..0) |-> p]
  <2>1. \A x \in SUBSET (1..0) : x = {}
    OBVIOUS
  <2>2. g = [x \in SUBSET (1..0) |-> g[x]] /\ \A x \in SUBSET (1..0) : x = {} /\ g[x] = p
    BY <2>1
  <2> QED
    BY <2>2 DEF Chain
<1>2. ASSUME NEW n \in Nat, G(n)
      PROVE  G(n + 1)
  <2>1. PICK g : \A x \in SUBSET (1..n) :
                    g[x] = IF x = {} THEN p
                           ELSE Turn(ends, runs, st, g[x \ {Max(x)}], s[Max(x)])
    BY <1>2 DEF Chain
  <2> DEFINE f == [x \in SUBSET (1..n + 1) |->
                      IF n + 1 \in x
                      THEN Turn(ends, runs, st, g[x \ {n + 1}], s[n + 1]) ELSE g[x]]
  <2>2. ASSUME NEW x \in SUBSET (1..n + 1)
        PROVE  f[x] = IF x = {} THEN p
                      ELSE Turn(ends, runs, st, f[x \ {Max(x)}], s[Max(x)])
    <3>1. CASE n + 1 \in x
      <4>1. Max(x) = n + 1
        BY <3>1, MaxIs
      <4>2. x \ {n + 1} \in SUBSET (1..n + 1) /\ n + 1 \notin x \ {n + 1}
        OBVIOUS
      <4>3. f[x \ {n + 1}] = g[x \ {n + 1}]
        BY <4>2
      <4> QED
        BY <3>1, <4>1, <4>3
    <3>2. CASE n + 1 \notin x
      <4>1. x \in SUBSET (1..n)
        BY <3>2
      <4>2. f[x] = g[x]
        BY <3>2
      <4>3. g[x] = IF x = {} THEN p
                   ELSE Turn(ends, runs, st, g[x \ {Max(x)}], s[Max(x)])
        BY <2>1, <4>1
      <4>4. x \ {Max(x)} \in SUBSET (1..n + 1) /\ n + 1 \notin x \ {Max(x)}
        BY <3>2
      <4>5. f[x \ {Max(x)}] = g[x \ {Max(x)}]
        BY <4>4
      <4> QED
        BY <4>2, <4>3, <4>5
    <3> QED
      BY <3>1, <3>2
  <2>3. f = [x \in SUBSET (1..n + 1) |-> f[x]]
    OBVIOUS
  <2> HIDE DEF f
  <2> QED
    BY <2>2, <2>3 DEF Chain
<1> HIDE DEF G
<1>3. SUFFICES ASSUME Bad # {} PROVE FALSE
  BY DEF G
<1>4. PICK n \in Bad : \A m \in Bad : n <= m
  BY <1>3, LeastNumber
<1>5. n # 0 /\ n - 1 \in Nat /\ (n - 1) + 1 = n
  BY <1>1, <1>4
<1>6. G(n - 1)
  BY <1>4, <1>5
<1> QED
  BY <1>2, <1>4, <1>5, <1>6

\* v is the last of the states the loop goes through.
Ends(ends, runs, st, p, s, v) ==
    \E h : /\ h[0] = p
           /\ \A i \in 1..Len(s) : h[i] = Turn(ends, runs, st, h[i - 1], s[i])
           /\ v = h[Len(s)]
LEMMA SolutionEnds ==
    ASSUME NEW ends, NEW runs, NEW st, NEW p, NEW s \in Seq(Run), NEW f, NEW v,
           v = f[DOMAIN s],
           f = [x \in SUBSET (DOMAIN s) |->
                   IF x = {} THEN p ELSE Turn(ends, runs, st, f[x \ {Max(x)}], s[Max(x)])]
    PROVE  Ends(ends, runs, st, p, s, v)
<1>1. DOMAIN s = 1..Len(s) /\ Len(s) \in Nat
  OBVIOUS
<1>2. /\ v = f[1..Len(s)]
      /\ f = [x \in SUBSET (1..Len(s)) |->
                 IF x = {} THEN p ELSE Turn(ends, runs, st, f[x \ {Max(x)}], s[Max(x)])]
  BY <1>1
<1> DEFINE h == [i \in 0..Len(s) |-> f[1..i]]
<1>3. h[0] = p
  <2>1. 1..0 = {} /\ {} \in SUBSET (1..Len(s)) /\ 0 \in 0..Len(s)
    BY <1>1
  <2> QED
    BY <1>2, <2>1
<1>4. ASSUME NEW i \in 1..Len(s)
      PROVE  h[i] = Turn(ends, runs, st, h[i - 1], s[i])
  <2>1. 1..i \in SUBSET (1..Len(s)) /\ i \in 1..i /\ (1..i) \ {i} = 1..(i - 1)
    <3>1. 1..i \in SUBSET (1..Len(s)) /\ i \in 1..i
      BY <1>1
    <3>2. \A j : j \in (1..i) \ {i} <=> j \in 1..(i - 1)
      BY <1>1
    <3> QED
      BY <3>1, <3>2
  <2>2. Max(1..i) = i
    <3>1. 1..i \in SUBSET Int /\ i \in 1..i /\ \A y \in 1..i : y <= i
      OBVIOUS
    <3> QED
      BY <3>1, MaxIs
  <2>3. i \in 0..Len(s) /\ i - 1 \in 0..Len(s)
    BY <1>1
  <2>4. f[1..i] = Turn(ends, runs, st, f[(1..i) \ {Max(1..i)}], s[Max(1..i)])
    BY <1>2, <2>1
  <2> QED
    BY <2>1, <2>2, <2>3, <2>4
<1>5. h[Len(s)] = v
  BY <1>1, <1>2
<1> HIDE DEF h
<1> QED
  BY <1>3, <1>4, <1>5 DEF Ends

\* begin() is called for one run after the other,
LEMMA BeginFold ==
    ASSUME NEW p, NEW s \in Seq(Run)
    PROVE  Ends(FALSE, {}, "none", p, s, FoldLeft(Begin, p, s))
<1>1. DOMAIN s = 1..Len(s) /\ Len(s) \in Nat
  OBVIOUS
<1>2. PICK g : /\ g = [x \in SUBSET (1..Len(s)) |-> g[x]]
               /\ \A x \in SUBSET (1..Len(s)) :
                     g[x] = IF x = {} THEN p
                            ELSE Turn(FALSE, {}, "none", g[x \ {Max(x)}], s[Max(x)])
  <2>1. Chain(FALSE, {}, "none", p, s, Len(s))
    BY <1>1, Chained
  <2> QED
    BY <2>1 DEF Chain
<1>3. \A x, r : Turn(FALSE, {}, "none", x, r) = Begin(x, r)
  BY DEF Turn
<1>4. g = [x \in SUBSET (DOMAIN s) |->
              IF x = {} THEN p ELSE Begin(g[x \ {Max(x)}], s[Max(x)])]
  BY <1>1, <1>2, <1>3
<1>5. \E f : /\ FoldLeft(Begin, p, s) = f[DOMAIN s]
             /\ f = [x \in SUBSET (DOMAIN s) |->
                        IF x = {} THEN p ELSE Begin(f[x \ {Max(x)}], s[Max(x)])]
  BY <1>4, Zenon DEF FoldLeft, MapThenFoldSet
<1>6. PICK f : /\ FoldLeft(Begin, p, s) = f[DOMAIN s]
               /\ f = [x \in SUBSET (DOMAIN s) |->
                          IF x = {} THEN p ELSE Begin(f[x \ {Max(x)}], s[Max(x)])]
  BY <1>5
<1>7. /\ f = [x \in SUBSET (DOMAIN s) |-> f[x]]
      /\ \A x \in SUBSET (DOMAIN s) :
            f[x] = IF x = {} THEN p ELSE Begin(f[x \ {Max(x)}], s[Max(x)])
  BY <1>6
<1>8. f = [x \in SUBSET (DOMAIN s) |->
              IF x = {} THEN p ELSE Turn(FALSE, {}, "none", f[x \ {Max(x)}], s[Max(x)])]
  BY <1>3, <1>7
<1> QED
  BY <1>6, <1>8, SolutionEnds

\* ... and so is finish().
LEMMA FinishFold ==
    ASSUME NEW p, NEW runs, NEW st, batch \in Seq(Run)
    PROVE  Ends(TRUE, runs, st, p, batch, FinishAll(p, runs, st))
<1> DEFINE s == batch
           Op(x, r) == IF r \in runs THEN Finish(x, r, st) ELSE x
<1>1. DOMAIN s = 1..Len(s) /\ Len(s) \in Nat
  OBVIOUS
<1>2. PICK g : /\ g = [x \in SUBSET (1..Len(s)) |-> g[x]]
               /\ \A x \in SUBSET (1..Len(s)) :
                     g[x] = IF x = {} THEN p
                            ELSE Turn(TRUE, runs, st, g[x \ {Max(x)}], s[Max(x)])
  <2>1. Chain(TRUE, runs, st, p, s, Len(s))
    BY <1>1, Chained
  <2> QED
    BY <2>1 DEF Chain
<1>3. \A x, r : Turn(TRUE, runs, st, x, r) = Op(x, r)
  BY DEF Turn
<1>4. g = [x \in SUBSET (DOMAIN s) |->
              IF x = {} THEN p ELSE Op(g[x \ {Max(x)}], s[Max(x)])]
  BY <1>1, <1>2, <1>3
<1>5. \E f : /\ FinishAll(p, runs, st) = f[DOMAIN s]
             /\ f = [x \in SUBSET (DOMAIN s) |->
                        IF x = {} THEN p ELSE Op(f[x \ {Max(x)}], s[Max(x)])]
  BY <1>4, Zenon DEF FinishAll, FoldLeft, MapThenFoldSet
<1>6. PICK f : /\ FinishAll(p, runs, st) = f[DOMAIN s]
               /\ f = [x \in SUBSET (DOMAIN s) |->
                          IF x = {} THEN p ELSE Op(f[x \ {Max(x)}], s[Max(x)])]
  BY <1>5
<1>7. /\ f = [x \in SUBSET (DOMAIN s) |-> f[x]]
      /\ \A x \in SUBSET (DOMAIN s) :
            f[x] = IF x = {} THEN p ELSE Op(f[x \ {Max(x)}], s[Max(x)])
  BY <1>6
<1>8. f = [x \in SUBSET (DOMAIN s) |->
              IF x = {} THEN p ELSE Turn(TRUE, runs, st, f[x \ {Max(x)}], s[Max(x)])]
  BY <1>3, <1>7
<1> HIDE DEF s
<1>9. Ends(TRUE, runs, st, p, s, FinishAll(p, runs, st))
  BY <1>6, <1>8, SolutionEnds DEF s
<1> QED
  BY <1>9 DEF s

\* The runs of H among the first n of s have their record new, and it is
\* queued, in the order of s.
Hit(H, s, n) == {r \in H : \E j \in 1..n : s[j] = r}
Written(t, A, new, s, n) ==
    /\ t \in Seq(Operation)
    /\ \A k \in DOMAIN t : t[k].run \in A /\ t[k].kind = "snapshot"
                              /\ t[k].snap = new[t[k].run]
    /\ \A r \in A : \E k \in DOMAIN t : t[k].run = r
    /\ \A k, l \in DOMAIN t : k < l =>
          \E i, j \in 1..n : i < j /\ t[k].run = s[i] /\ t[l].run = s[j]
Looped(p, u, H, new, s, n) ==
    /\ u \in Projectors
    /\ u.failed = p.failed
    /\ u.rec = [r \in Run |-> IF r \in Hit(H, s, n) THEN new[r] ELSE p.rec[r]]
    /\ \E t : u.queue = p.queue \o t /\ Written(t, Hit(H, s, n), new, s, n)

\* A write more at the end of what was added to a queue.
LEMMA AppendConcat ==
    ASSUME NEW s \in Seq(Operation), NEW t \in Seq(Operation), NEW x \in Operation
    PROVE  Append(s \o t, x) = s \o Append(t, x)
<1>1. s \o t \in Seq(Operation) /\ <<x>> \in Seq(Operation)
  OBVIOUS
<1>2. Append(s \o t, x) = (s \o t) \o <<x>> /\ Append(t, x) = t \o <<x>>
  BY <1>1, AppendIsConcat
<1>3. (s \o t) \o <<x>> = s \o (t \o <<x>>)
  BY <1>1, ConcatAssociative
<1> QED
  BY <1>2, <1>3

\* A record that is set, and queued.
Op(kind, r, snap) == [kind |-> kind, run |-> r, snap |-> snap]
Put(p, u, r, x, writes) ==
    /\ u \in Projectors /\ u.failed = p.failed
    /\ u.rec = [p.rec EXCEPT ![r] = x]
    /\ u.queue = p.queue \o writes
LEMMA PutIs ==
    ASSUME NEW p \in Projectors, NEW kind \in {"snapshot", "control"}, NEW r \in Run,
           NEW x \in Snapshot, NEW snap \in Snapshot
    PROVE  /\ Put(p, [p EXCEPT !.rec[r] = x], r, x, <<>>)
           /\ Put(p, Enqueued([p EXCEPT !.rec[r] = x], kind, r, snap), r, x,
                  <<Op(kind, r, snap)>>)
           /\ Op(kind, r, snap) \in Operation
<1> DEFINE op == Op(kind, r, snap)
           q == [p EXCEPT !.rec[r] = x]
           e == Enqueued(q, kind, r, snap)
<1>1. op \in Operation
  BY DEF Operation, Op
<1>2. e = [q EXCEPT !.queue = Append(@, op)]
  BY DEF Enqueued, Op
<1> HIDE DEF op
<1>3. /\ p = [rec |-> p.rec, queue |-> p.queue, failed |-> p.failed]
      /\ p.rec \in [Run -> Snapshot] /\ p.queue \in Seq(Operation) /\ p.failed \in BOOLEAN
  BY DEF Projectors
<1>4. [p.rec EXCEPT ![r] = x] \in [Run -> Snapshot]
  BY <1>3
<1>5. q = [rec |-> [p.rec EXCEPT ![r] = x], queue |-> p.queue, failed |-> p.failed]
  BY <1>3
<1>6. q \in Projectors
  BY <1>3, <1>4, <1>5 DEF Projectors
<1>7. Append(p.queue, op) \in Seq(Operation)
  BY <1>1, <1>3
<1>8. e = [rec |-> [p.rec EXCEPT ![r] = x], queue |-> Append(p.queue, op),
           failed |-> p.failed]
  <2> HIDE DEF q, e
  <2> DEFINE d == Append(p.queue, op)
  <2>1. q.queue = p.queue
    BY <1>5
  <2>2. e = [q EXCEPT !.queue = d]
    BY <1>2, <2>1, Zenon
  <2> HIDE DEF d
  <2>3. [q EXCEPT !.queue = d]
           = [rec |-> [p.rec EXCEPT ![r] = x], queue |-> d, failed |-> p.failed]
    BY <1>5
  <2> QED
    BY <2>2, <2>3 DEF d
<1> HIDE DEF q, e
<1>9. e \in Projectors
  BY <1>3, <1>4, <1>7, <1>8 DEF Projectors
<1>10. e.failed = p.failed /\ e.queue = Append(p.queue, op) /\ e.rec = [p.rec EXCEPT ![r] = x]
  BY <1>8
<1>11. q.failed = p.failed /\ q.queue = p.queue /\ q.rec = [p.rec EXCEPT ![r] = x]
  BY <1>5
<1>12. p.queue \o <<>> = p.queue
  BY <1>3
<1>13. Append(p.queue, op) = p.queue \o <<op>>
  BY <1>1, <1>3, AppendIsConcat
<1>14. Put(p, q, r, x, <<>>)
  BY <1>6, <1>11, <1>12 DEF Put
<1>15. Put(p, e, r, x, <<op>>)
  BY <1>9, <1>10, <1>13 DEF Put
<1> QED
  BY <1>1, <1>14, <1>15 DEF q, e, op

\* publish() sets a record and queues it.
LEMMA PublishIs ==
    ASSUME NEW p \in Projectors, NEW r \in Run, NEW snap \in Snapshot, NEW durable \in BOOLEAN
    PROVE  Put(p, Publish(p, r, snap, durable), r, snap,
               IF durable THEN <<Op("snapshot", r, snap)>> ELSE <<>>)
<1> DEFINE q == [p EXCEPT !.rec[r] = snap]
<1>1. /\ Put(p, q, r, snap, <<>>)
      /\ Put(p, Enqueued(q, "snapshot", r, snap), r, snap, <<Op("snapshot", r, snap)>>)
  BY PutIs
<1>2. Publish(p, r, snap, durable)
         = IF durable THEN Enqueued(q, "snapshot", r, snap) ELSE q
  BY DEF Publish
<1> HIDE DEF q
<1> QED
  BY <1>1, <1>2

LEMMA WrittenMore ==
    ASSUME NEW t, NEW A \in SUBSET Run, NEW new, NEW s, NEW n \in Nat,
           Written(t, A, new, s, n), NEW op \in Operation, op.run = s[n + 1],
           op.run \notin A, op.kind = "snapshot", op.snap = new[op.run],
           \A r \in A : \E j \in 1..n : s[j] = r
    PROVE  Written(Append(t, op), A \cup {op.run}, new, s, n + 1)
<1> DEFINE u == Append(t, op)
<1>1. t \in Seq(Operation) /\ DOMAIN t = 1..Len(t) /\ Len(t) \in Nat
  BY DEF Written
<1>2. /\ u \in Seq(Operation) /\ DOMAIN u = 1..Len(t) + 1
      /\ \A k \in 1..Len(t) : u[k] = t[k]
      /\ u[Len(t) + 1] = op
  BY <1>1
<1> HIDE DEF u
<1>3. \A k \in DOMAIN u : u[k].run \in A \cup {op.run} /\ u[k].kind = "snapshot"
                              /\ u[k].snap = new[u[k].run]
  BY <1>1, <1>2 DEF Written
<1>4. \A r \in A \cup {op.run} : \E k \in DOMAIN u : u[k].run = r
  BY <1>1, <1>2 DEF Written
<1>5. ASSUME NEW k \in DOMAIN u, NEW l \in DOMAIN u, k < l
      PROVE  \E i, j \in 1..(n + 1) : i < j /\ u[k].run = s[i] /\ u[l].run = s[j]
  <2>1. k \in 1..Len(t) /\ u[k] = t[k]
    BY <1>1, <1>2, <1>5
  <2>2. CASE l \in 1..Len(t)
    <3>1. PICK i \in 1..n, j \in 1..n : i < j /\ t[k].run = s[i] /\ t[l].run = s[j]
      BY <1>1, <1>5, <2>1, <2>2 DEF Written
    <3>2. i \in 1..(n + 1) /\ j \in 1..(n + 1) /\ u[l] = t[l]
      BY <1>2, <2>2
    <3> QED
      BY <2>1, <3>1, <3>2
  <2>3. CASE l = Len(t) + 1
    <3>1. t[k].run \in A
      BY <1>1, <2>1 DEF Written
    <3>2. PICK i \in 1..n : t[k].run = s[i]
      BY <3>1
    <3> QED
      BY <1>2, <2>1, <2>3, <3>2
  <2>4. l \in 1..Len(t) \/ l = Len(t) + 1
    BY <1>1, <1>2
  <2> QED
    BY <2>2, <2>3, <2>4
<1> QED
  BY <1>2, <1>3, <1>4, <1>5 DEF Written, u

\* One turn of a loop that concerns r, and one that does not.
LEMMA LoopStep ==
    ASSUME NEW p \in Projectors, NEW u, NEW H \in SUBSET Run, NEW new \in [Run -> Snapshot],
           NEW s \in Seq(Run), NEW n \in Nat, n + 1 \in DOMAIN s,
           \A i, j \in DOMAIN s : s[i] = s[j] => i = j,
           Looped(p, u, H, new, s, n), s[n + 1] \in H
    PROVE  Looped(p, Publish(u, s[n + 1], new[s[n + 1]], TRUE), H, new, s, n + 1)
<1> DEFINE r == s[n + 1]
           v == Publish(u, r, new[r], TRUE)
           op == Op("snapshot", r, new[r])
<1>1. r \in Run /\ new[r] \in Snapshot /\ DOMAIN s = 1..Len(s)
  OBVIOUS
<1>2. u \in Projectors
  BY DEF Looped
<1>3. /\ v \in Projectors /\ v.failed = u.failed
      /\ v.rec = [u.rec EXCEPT ![r] = new[r]]
      /\ op \in Operation
      /\ v.queue = Append(u.queue, op)
  <2>1. Put(u, v, r, new[r], <<op>>) /\ op \in Operation
    <3>1. Put(u, v, r, new[r], IF TRUE THEN <<op>> ELSE <<>>)
      BY <1>1, <1>2, PublishIs
    <3>2. op \in Operation
      BY <1>1 DEF Operation, Op
    <3> QED
      BY <3>1, <3>2
  <2> HIDE DEF v, r, op
  <2>2. Append(u.queue, op) = u.queue \o <<op>>
    <3>1. u.queue \in Seq(Operation)
      BY <1>2 DEF Projectors
    <3> QED
      BY <2>1, <3>1, AppendIsConcat
  <2> QED
    BY <2>1, <2>2 DEF Put
<1>4. Hit(H, s, n + 1) = Hit(H, s, n) \cup {r}
  BY DEF Hit
<1>5. r \notin Hit(H, s, n)
  <2>1. \A j \in 1..n : j \in DOMAIN s /\ j # n + 1
    BY <1>1
  <2> QED
    BY <2>1 DEF Hit
<1>6. v.rec = [x \in Run |-> IF x \in Hit(H, s, n + 1) THEN new[x] ELSE p.rec[x]]
  <2>1. u.rec = [x \in Run |-> IF x \in Hit(H, s, n) THEN new[x] ELSE p.rec[x]]
    BY DEF Looped
  <2> QED
    BY <1>1, <1>3, <1>4, <1>5, <2>1
<1>7. PICK t : u.queue = p.queue \o t /\ Written(t, Hit(H, s, n), new, s, n)
  BY DEF Looped
<1>8. t \in Seq(Operation) /\ p.queue \in Seq(Operation)
  BY <1>7 DEF Written, Projectors
<1>9. v.queue = p.queue \o Append(t, op)
  <2> HIDE DEF op, v
  <2>1. op \in Operation
    BY <1>3
  <2>2. t \in Seq(Operation) /\ p.queue \in Seq(Operation)
    BY <1>8
  <2>3. Append(p.queue \o t, op) = p.queue \o Append(t, op)
    BY <2>1, <2>2, AppendConcat
  <2> QED
    BY <1>3, <1>7, <2>3
<1>10. /\ Hit(H, s, n) \in SUBSET Run
       /\ \A x \in Hit(H, s, n) : \E j \in 1..n : s[j] = x
  BY DEF Hit
<1>11. op.run = r /\ op.kind = "snapshot" /\ op.snap = new[op.run]
  BY DEF Op
<1> HIDE DEF op, v
<1>12. Written(Append(t, op), Hit(H, s, n) \cup {r}, new, s, n + 1)
  BY <1>3, <1>5, <1>7, <1>10, <1>11, WrittenMore
<1>13. v.failed = p.failed
  BY <1>3 DEF Looped
<1>14. Written(Append(t, op), Hit(H, s, n + 1), new, s, n + 1)
  BY <1>4, <1>12
<1>15. Looped(p, v, H, new, s, n + 1)
  BY <1>3, <1>6, <1>9, <1>13, <1>14 DEF Looped
<1> QED
  BY <1>15 DEF v

LEMMA LoopSame ==
    ASSUME NEW p \in Projectors, NEW u, NEW H \in SUBSET Run, NEW new \in [Run -> Snapshot],
           NEW s \in Seq(Run), NEW n \in Nat, Looped(p, u, H, new, s, n), s[n + 1] \notin H
    PROVE  Looped(p, u, H, new, s, n + 1)
<1>1. Hit(H, s, n + 1) = Hit(H, s, n)
  BY DEF Hit
<1>2. \A t : Written(t, Hit(H, s, n), new, s, n) => Written(t, Hit(H, s, n), new, s, n + 1)
  <2>1. 1..n \subseteq 1..(n + 1)
    OBVIOUS
  <2> QED
    BY <2>1 DEF Written
<1> QED
  BY <1>1, <1>2 DEF Looped

LEMMA LoopBegins ==
    ASSUME NEW p \in Projectors, NEW H, NEW new, NEW s
    PROVE  Looped(p, p, H, new, s, 0)
<1>1. Hit(H, s, 0) = {}
  BY DEF Hit
<1>2. p.rec = [r \in Run |-> IF r \in {} THEN new[r] ELSE p.rec[r]]
  BY DEF Projectors
<1>3. p.queue = p.queue \o <<>>
  BY DEF Projectors
<1>4. Written(<<>>, {}, new, s, 0)
  BY DEF Written
<1> QED
  BY <1>1, <1>2, <1>3, <1>4 DEF Looped

\* What a loop does: the runs of H in the batch get their record.
LEMMA BeginLoop ==
    ASSUME NEW p \in Projectors, NEW s \in Seq(Run),
           \A i, j \in DOMAIN s : s[i] = s[j] => i = j
    PROVE  Looped(p, FoldLeft(Begin, p, s), Run,
                  [r \in Run |-> [st |-> "queued", rev |-> 1]], s, Len(s))
<1> DEFINE new == [r \in Run |-> [st |-> "queued", rev |-> 1]]
<1>1. new \in [Run -> Snapshot]
  BY DEF Snapshot, RunState, Active, ToSet
<1>2. DOMAIN s = 1..Len(s) /\ Len(s) \in Nat
  OBVIOUS
<1>3. PICK h : /\ h[0] = p
               /\ \A i \in 1..Len(s) : h[i] = Turn(FALSE, {}, "none", h[i - 1], s[i])
               /\ FoldLeft(Begin, p, s) = h[Len(s)]
  BY BeginFold DEF Ends
<1> DEFINE Bad == {n \in 0..Len(s) : ~Looped(p, h[n], Run, new, s, n)}
<1>4. SUFFICES ASSUME Bad # {} PROVE FALSE
  BY <1>2, <1>3
<1>5. PICK n \in Bad : \A m \in Bad : n <= m
  <2>1. Bad \in SUBSET Nat
    BY <1>2
  <2> QED
    BY <1>4, <2>1, LeastNumber
<1>6. n # 0
  BY <1>3, <1>5, LoopBegins
<1> DEFINE k == n - 1
<1>7. k \in Nat /\ k + 1 = n /\ n \in 1..Len(s) /\ k \notin Bad /\ k \in 0..Len(s)
  BY <1>2, <1>5, <1>6
<1>8. Looped(p, h[k], Run, new, s, k)
  BY <1>7
<1>9. s[k + 1] \in Run
  BY <1>2, <1>7
<1>10. h[n] = Publish(h[k], s[n], new[s[n]], TRUE)
  BY <1>3, <1>7, <1>9 DEF Turn, Begin
<1> HIDE DEF k, new
<1>11. Looped(p, Publish(h[k], s[k + 1], new[s[k + 1]], TRUE), Run, new, s, k + 1)
  BY <1>1, <1>2, <1>7, <1>8, <1>9, LoopStep
<1> QED
  BY <1>5, <1>7, <1>10, <1>11

\* The runs finish() ends, and how.
Endable(p, runs) == {r \in runs : control[r].st # "stopped" /\ p.rec[r].st \notin Terminal}
EndOf(p, st) == [r \in Run |-> [st |-> st, rev |-> p.rec[r].rev + 1]]
LEMMA FinishLoop ==
    ASSUME NEW p \in Projectors, NEW runs \in SUBSET Run, NEW st \in Terminal,
           batch \in Seq(Run), \A i, j \in DOMAIN batch : batch[i] = batch[j] => i = j
    PROVE  Looped(p, FinishAll(p, runs, st), Endable(p, runs), EndOf(p, st), batch, Len(batch))
<1> DEFINE s == batch
           new == EndOf(p, st)
           H == Endable(p, runs)
<1>1. new \in [Run -> Snapshot]
  BY DEF Snapshot, RunState, EndOf, Projectors
<1>2. DOMAIN s = 1..Len(s) /\ Len(s) \in Nat
  OBVIOUS
<1>3. PICK h : /\ h[0] = p
               /\ \A i \in 1..Len(s) : h[i] = Turn(TRUE, runs, st, h[i - 1], s[i])
               /\ FinishAll(p, runs, st) = h[Len(s)]
  <2>1. Ends(TRUE, runs, st, p, s, FinishAll(p, runs, st))
    BY FinishFold
  <2> HIDE DEF s
  <2> QED
    BY <2>1 DEF Ends
<1> DEFINE Bad == {n \in 0..Len(s) : ~Looped(p, h[n], H, new, s, n)}
<1> HIDE DEF s, new, H
<1>4. SUFFICES ASSUME Bad # {} PROVE FALSE
  BY <1>2, <1>3 DEF s, new, H
<1>5. PICK n \in Bad : \A m \in Bad : n <= m
  <2>1. Bad \in SUBSET Nat
    BY <1>2
  <2> QED
    BY <1>4, <2>1, LeastNumber
<1>6. n # 0
  BY <1>3, <1>5, LoopBegins
<1> DEFINE k == n - 1
<1>7. k \in Nat /\ k + 1 = n /\ n \in 1..Len(s) /\ k \notin Bad /\ k \in 0..Len(s)
  BY <1>2, <1>5, <1>6
<1>8. Looped(p, h[k], H, new, s, k)
  BY <1>7
<1>9. h[n] = Turn(TRUE, runs, st, h[k], s[n])
  BY <1>3, <1>7
<1>10. /\ s \in Seq(Run) /\ \A i, j \in DOMAIN s : s[i] = s[j] => i = j
       /\ H \in SUBSET Run /\ n \in DOMAIN s
  BY <1>2, <1>7 DEF s, H, Endable
<1>11. s[n] \in Run /\ s[n] \notin Hit(H, s, k)
  <2>1. \A j \in 1..k : j \in DOMAIN s /\ j # n
    BY <1>2, <1>7
  <2> QED
    BY <1>10, <2>1 DEF Hit
<1>12. h[k].rec[s[n]] = p.rec[s[n]]
  BY <1>8, <1>11 DEF Looped
<1>13. CASE s[n] \in H
  <2>1. h[n] = Publish(h[k], s[n], new[s[n]], TRUE)
    BY <1>9, <1>11, <1>12, <1>13 DEF Turn, Finish, Update, H, Endable, new, EndOf
  <2>2. Looped(p, Publish(h[k], s[k + 1], new[s[k + 1]], TRUE), H, new, s, k + 1)
    BY <1>1, <1>7, <1>8, <1>10, <1>13, LoopStep
  <2> QED
    BY <1>5, <1>7, <2>1, <2>2
<1>14. CASE s[n] \notin H
  <2>1. h[n] = h[k]
    BY <1>9, <1>12, <1>14 DEF Turn, Finish, Update, H, Endable
  <2>2. Looped(p, h[k], H, new, s, k + 1)
    BY <1>1, <1>7, <1>8, <1>10, <1>14, LoopSame
  <2> QED
    BY <1>5, <1>7, <2>1, <2>2
<1> QED
  BY <1>13, <1>14

----------------------------------------------------------------------------
(* Snapshots: what the projection, the registry, the queue and the store   *)
(* know of a run are versions of one record.                               *)

\* What may be stored after s.
Order(s, t) == s.rev < t.rev /\ s.st \notin Terminal /\ Rank(s.st) <= Rank(t.st)

\* s is the record x or an earlier version of it.
Fits(s, x) ==
    /\ s.rev <= x.rev
    /\ s.rev = x.rev => AsV1(s) = x
    /\ s.st \in Terminal => s.rev = x.rev
    /\ Rank(s.st) <= Rank(x.st)

RecFits(p) ==
    \A r \in Run :
        /\ p.rec[r].st # "stopped"
        /\ p.rec[r].st = "none" => p.rec[r] = NoSnapshot
        /\ p.rec[r].st # "none" => p.rec[r].rev >= 1

OpFits(p, op) ==
    /\ p.rec[op.run].st # "none"
    /\ op.snap.st # "none"
    /\ Fits(op.snap, p.rec[op.run])
    /\ op.kind = "control" <=> op.snap.st = "stopped"

QueueFits(p) ==
    /\ \A i \in DOMAIN p.queue : OpFits(p, p.queue[i])
    /\ \A i, j \in DOMAIN p.queue :
          i < j /\ p.queue[i].run = p.queue[j].run
          => Order(p.queue[i].snap, p.queue[j].snap)

ControlFits(p, c) ==
    \A r \in Run :
        /\ c[r].st = "none" <=> p.rec[r].st = "none"
        /\ c[r].st = "none" => c[r] = NoSnapshot
        /\ c[r].st # "none" => Fits(c[r], p.rec[r])

DiskFits(p, d) ==
    /\ \A r \in Run :
        /\ d[r].st = "none" => d[r] = NoSnapshot
        /\ p.rec[r].st # "none" /\ d[r].st # "none" => Fits(d[r], p.rec[r])
    /\ \A i \in DOMAIN p.queue :
          d[p.queue[i].run].st # "none" => Order(d[p.queue[i].run], p.queue[i].snap)

\* The store calls r st, or will when n more writes are over, unless one fails.
Saved(p, d, r, st, n) ==
    \/ p.failed
    \/ d[r].st = st
    \/ \E i \in DOMAIN p.queue : i <= n /\ p.queue[i].run = r /\ p.queue[i].snap.st = st

End(p, c, r) == IF c[r].st = "stopped" THEN "stopped" ELSE p.rec[r].st

EndIsWritten(p, c, d) ==
    \A r \in Run : p.rec[r].st \in Terminal => Saved(p, d, r, End(p, c, r), Len(p.queue))

SnapshotsFit(p, c, d) ==
    RecFits(p) /\ QueueFits(p) /\ ControlFits(p, c) /\ DiskFits(p, d) /\ EndIsWritten(p, c, d)

\* A record that changes.
Moved(s, t) ==
    /\ s.st \notin Terminal
    /\ s.rev < t.rev
    /\ t.st \notin {"none", "stopped"}
    /\ s.st = "none" => t = [st |-> "queued", rev |-> 1]
    /\ s.st # "none" => Rank(s.st) <= Rank(t.st)

\* The writes t a change of the projection from p to u adds to the queue; the
\* runs in S are stopped.
Adds(p, u, t, S) ==
    /\ t \in Seq(Operation)
    /\ u.queue = p.queue \o t
    /\ \A k \in DOMAIN t :
          /\ Moved(p.rec[t[k].run], u.rec[t[k].run])
          /\ AsV1(t[k].snap) = u.rec[t[k].run]
          /\ t[k].kind = "control" <=> t[k].snap.st = "stopped"
          /\ t[k].snap.st = "stopped" <=> t[k].run \in S
    /\ \A k, l \in DOMAIN t : t[k].run = t[l].run => k = l
    /\ \A r \in Run : u.rec[r] # p.rec[r] /\ u.rec[r].st \in Terminal =>
          \E k \in DOMAIN t : t[k].run = r

Grows(p, u, S) ==
    /\ u \in Projectors
    /\ u.failed = p.failed
    /\ \A r \in Run : u.rec[r] = p.rec[r] \/ Moved(p.rec[r], u.rec[r])
    /\ \E t : Adds(p, u, t, S)

\* What becomes of the registry's snapshot c of a run at such a change.
Follows(p, u, S, r, c, c2) ==
    IF u.rec[r] = p.rec[r] THEN c2 = c
    ELSE IF p.rec[r].st = "none" THEN c2 = u.rec[r]
    ELSE IF r \in S THEN c2.st = "stopped" /\ AsV1(c2) = u.rec[r]
    ELSE c2 = c

LEMMA States == ToSet(Active) = {"queued", "starting", "running"}
  BY DEF ToSet, Active

LEMMA Ranks ==
    /\ Rank("queued") = 1 /\ Rank("starting") = 2 /\ Rank("running") = 3
    /\ \A st \in Terminal : Rank(st) = 4
    /\ \A st \in RunState : Rank(st) \in 1..4 /\ (Rank(st) = 4 <=> st \in Terminal)
<1>1. Rank("queued") = 1
  BY DEF Rank, Active, Terminal
<1>2. Rank("starting") = 2
  BY DEF Rank, Active, Terminal
<1>3. Rank("running") = 3
  BY DEF Rank, Active, Terminal
<1>4. \A st \in Terminal : Rank(st) = 4
  BY DEF Rank
<1>5. \A st \in RunState : st \in {"queued", "starting", "running"} \/ st \in Terminal
  BY States DEF RunState
<1>6. \A st \in {"queued", "starting", "running"} : st \notin Terminal
  BY DEF Terminal
<1> QED
  BY <1>1, <1>2, <1>3, <1>4, <1>5, <1>6

LEMMA SnapshotIs ==
    ASSUME NEW s \in Snapshot
    PROVE  /\ s.rev \in Nat /\ s.st \in RunState \cup {"none"}
           /\ s.st # "none" => s.st \in RunState
           /\ AsV1(s) \in Snapshot /\ AsV1(s).rev = s.rev
           /\ AsV1(s).st = IF s.st = "stopped" THEN "interrupted" ELSE s.st
           /\ s.st # "stopped" => AsV1(s) = s
<1>1. "interrupted" \in RunState
  BY DEF RunState, Terminal
<1> QED
  BY <1>1 DEF Snapshot, AsV1

\* An earlier version of x is one of what x becomes,
LEMMA FitsMoved ==
    ASSUME NEW s \in Snapshot, NEW x \in Snapshot, NEW y \in Snapshot,
           s.st # "none", x.st # "none", Fits(s, x), Moved(x, y)
    PROVE  Fits(s, y) /\ s.rev < y.rev /\ s.st \notin Terminal
<1>1. s.rev \in Nat /\ x.rev \in Nat /\ y.rev \in Nat
  BY SnapshotIs
<1>2. s.rev < y.rev
  BY <1>1 DEF Fits, Moved
<1>3. s.st \notin Terminal
  <2> SUFFICES ASSUME s.st \in Terminal PROVE FALSE
    OBVIOUS
  <2>1. AsV1(s) = x
    BY DEF Fits
  <2>2. x.st \in Terminal
    BY <2>1, SnapshotIs DEF Terminal
  <2> QED
    BY <2>2 DEF Moved
<1>4. Rank(s.st) <= Rank(y.st)
  <2>1. s.st \in RunState /\ x.st \in RunState /\ y.st \in RunState
    BY SnapshotIs DEF Moved
  <2>2. Rank(s.st) \in 1..4 /\ Rank(x.st) \in 1..4 /\ Rank(y.st) \in 1..4
    BY <2>1, Ranks
  <2> QED
    BY <2>2 DEF Fits, Moved
<1> QED
  BY <1>1, <1>2, <1>3, <1>4 DEF Fits

\* ... what becomes x fits it,
LEMMA FitsSame ==
    ASSUME NEW s \in Snapshot, NEW x \in Snapshot, x.st # "none", AsV1(s) = x
    PROVE  Fits(s, x) /\ s.st # "none"
<1>1. s.rev \in Nat /\ s.rev = x.rev
  BY SnapshotIs
<1>2. s.st \in RunState /\ x.st \in RunState /\ (s.st = x.st \/ {s.st, x.st} \subseteq Terminal)
  BY SnapshotIs DEF Terminal
<1>3. Rank(s.st) = Rank(x.st) /\ Rank(x.st) \in 1..4
  BY <1>2, Ranks
<1>4. s.st # "none"
  BY SnapshotIs
<1>5. s.rev <= x.rev /\ Rank(s.st) <= Rank(x.st)
  BY <1>1, <1>3
<1> QED
  BY <1>1, <1>4, <1>5 DEF Fits

\* ... and may be stored after it.
LEMMA MovedOrder ==
    ASSUME NEW s \in Snapshot, NEW x \in Snapshot, NEW y \in Snapshot, NEW t \in Snapshot,
           s.st # "none", x.st # "none", Fits(s, x), Moved(x, y), AsV1(t) = y
    PROVE  Order(s, t)
<1>1. Fits(s, y) /\ s.rev < y.rev /\ s.st \notin Terminal
  BY FitsMoved
<1>2. Fits(t, y) /\ t.rev = y.rev /\ t.st # "none"
  <2>1. y.st # "none"
    BY DEF Moved
  <2> QED
    BY <2>1, FitsSame, SnapshotIs
<1>3. Rank(t.st) = Rank(y.st)
  <2>1. t.st \in RunState /\ y.st \in RunState /\ (t.st = y.st \/ {t.st, y.st} \subseteq Terminal)
    BY <1>2, SnapshotIs DEF Moved, Terminal
  <2> QED
    BY <2>1, Ranks
<1> QED
  BY <1>1, <1>2, <1>3 DEF Fits, Order

\* What a longer queue holds.
LEMMA Added ==
    ASSUME NEW q \in Seq(Operation), NEW t \in Seq(Operation)
    PROVE  /\ DOMAIN (q \o t) = 1..Len(q) + Len(t) /\ Len(q \o t) = Len(q) + Len(t)
           /\ DOMAIN q = 1..Len(q) /\ DOMAIN t = 1..Len(t)
           /\ Len(q) \in Nat /\ Len(t) \in Nat
           /\ \A i \in DOMAIN q : i \in DOMAIN (q \o t) /\ (q \o t)[i] = q[i]
           /\ \A k \in DOMAIN t : Len(q) + k \in DOMAIN (q \o t) /\ (q \o t)[Len(q) + k] = t[k]
           /\ \A i \in DOMAIN (q \o t) : i \notin DOMAIN q =>
                 i - Len(q) \in DOMAIN t /\ (q \o t)[i] = t[i - Len(q)]
<1>1. /\ q \o t \in Seq(Operation) /\ Len(q \o t) = Len(q) + Len(t)
      /\ \A i \in 1 .. Len(q) + Len(t) :
            (q \o t)[i] = IF i <= Len(q) THEN q[i] ELSE t[i - Len(q)]
  BY ConcatProperties
<1>2. /\ DOMAIN q = 1..Len(q) /\ DOMAIN t = 1..Len(t) /\ DOMAIN (q \o t) = 1..Len(q \o t)
      /\ Len(q) \in Nat /\ Len(t) \in Nat
  BY <1>1, LenProperties
<1> DEFINE w == q \o t
<1> HIDE DEF w
<1>3. /\ DOMAIN w = 1..Len(q) + Len(t) /\ Len(w) = Len(q) + Len(t)
      /\ \A i \in 1 .. Len(q) + Len(t) :
            w[i] = IF i <= Len(q) THEN q[i] ELSE t[i - Len(q)]
  BY <1>1, <1>2 DEF w
<1>4. /\ \A i \in DOMAIN q : i \in DOMAIN w /\ w[i] = q[i]
      /\ \A k \in DOMAIN t : Len(q) + k \in DOMAIN w /\ w[Len(q) + k] = t[k]
      /\ \A i \in DOMAIN w : i \notin DOMAIN q =>
            i - Len(q) \in DOMAIN t /\ w[i] = t[i - Len(q)]
  BY <1>2, <1>3
<1> QED
  BY <1>2, <1>3, <1>4 DEF w

----------------------------------------------------------------------------
(* A change of the projection keeps the snapshots fitting.                 *)

LEMMA GrowsRec ==
    ASSUME NEW p \in Projectors, NEW u, NEW S, RecFits(p), Grows(p, u, S)
    PROVE  RecFits(u)
<1> SUFFICES ASSUME NEW r \in Run
             PROVE  /\ u.rec[r].st # "stopped"
                    /\ u.rec[r].st = "none" => u.rec[r] = NoSnapshot
                    /\ u.rec[r].st # "none" => u.rec[r].rev >= 1
  BY DEF RecFits
<1>1. p.rec[r].rev \in Nat /\ u.rec[r].rev \in Nat
  BY SnapshotIs DEF Projectors, Grows
<1>2. CASE u.rec[r] = p.rec[r]
  BY <1>2 DEF RecFits
<1>3. CASE Moved(p.rec[r], u.rec[r])
  BY <1>1, <1>3 DEF Moved
<1> QED
  BY <1>2, <1>3 DEF Grows

LEMMA OpMoves ==
    ASSUME NEW p \in Projectors, NEW u, NEW S, Grows(p, u, S), NEW op \in Operation,
           OpFits(p, op)
    PROVE  /\ OpFits(u, op)
           /\ Moved(p.rec[op.run], u.rec[op.run]) =>
                \A t \in Snapshot : AsV1(t) = u.rec[op.run] => Order(op.snap, t)
<1> DEFINE s == op.snap
           x == p.rec[op.run]
           y == u.rec[op.run]
<1>1. s \in Snapshot /\ x \in Snapshot /\ y \in Snapshot /\ op.run \in Run
  BY DEF Operation, Projectors, Grows
<1>2. s.st # "none" /\ x.st # "none" /\ Fits(s, x)
  BY DEF OpFits
<1> HIDE DEF s, x, y
<1>3. Moved(x, y) => Fits(s, y) /\ \A t \in Snapshot : AsV1(t) = y => Order(s, t)
  BY <1>1, <1>2, FitsMoved, MovedOrder
<1>4. Moved(x, y) => y.st # "none"
  BY DEF Moved
<1>5. x = y \/ Moved(x, y)
  BY <1>1 DEF Grows, x, y
<1>6. Fits(s, y) /\ y.st # "none"
  BY <1>2, <1>3, <1>4, <1>5
<1> QED
  BY <1>3, <1>6 DEF OpFits, s, x, y

LEMMA GrowsQueue ==
    ASSUME NEW p \in Projectors, NEW u, NEW S, QueueFits(p), Grows(p, u, S)
    PROVE  QueueFits(u)
<1>1. PICK t : Adds(p, u, t, S)
  BY DEF Grows
<1> DEFINE q == p.queue
           w == u.queue
<1>2. q \in Seq(Operation) /\ t \in Seq(Operation) /\ w = q \o t
  BY <1>1 DEF Projectors, Adds
<1>3. /\ DOMAIN q = 1..Len(q) /\ DOMAIN t = 1..Len(t) /\ Len(q) \in Nat
      /\ DOMAIN w = 1..Len(q) + Len(t) /\ Len(t) \in Nat
      /\ \A i \in DOMAIN q : w[i] = q[i]
      /\ \A i \in DOMAIN w : i \notin DOMAIN q => i - Len(q) \in DOMAIN t /\ w[i] = t[i - Len(q)]
  BY <1>2, Added
<1> HIDE DEF q, w
<1>4. \A i \in DOMAIN q : q[i] \in Operation /\ OpFits(p, q[i]) /\ OpFits(u, q[i])
  <2>1. \A i \in DOMAIN q : q[i] \in Operation /\ OpFits(p, q[i])
    BY <1>2, <1>3 DEF QueueFits, q
  <2> QED
    BY <2>1, OpMoves
<1>5. \A k \in DOMAIN t :
         /\ t[k] \in Operation
         /\ Moved(p.rec[t[k].run], u.rec[t[k].run])
         /\ AsV1(t[k].snap) = u.rec[t[k].run]
         /\ OpFits(u, t[k])
  <2> SUFFICES ASSUME NEW k \in DOMAIN t
               PROVE  /\ t[k] \in Operation
                      /\ Moved(p.rec[t[k].run], u.rec[t[k].run])
                      /\ AsV1(t[k].snap) = u.rec[t[k].run]
                      /\ OpFits(u, t[k])
    OBVIOUS
  <2>1. /\ t[k] \in Operation
        /\ Moved(p.rec[t[k].run], u.rec[t[k].run])
        /\ AsV1(t[k].snap) = u.rec[t[k].run]
        /\ t[k].kind = "control" <=> t[k].snap.st = "stopped"
    BY <1>1, <1>2, <1>3 DEF Adds
  <2>2. t[k].run \in Run /\ t[k].snap \in Snapshot /\ u.rec[t[k].run] \in Snapshot
    BY <2>1 DEF Operation, Grows, Projectors
  <2>3. u.rec[t[k].run].st # "none"
    BY <2>1 DEF Moved
  <2>4. Fits(t[k].snap, u.rec[t[k].run]) /\ t[k].snap.st # "none"
    BY <2>1, <2>2, <2>3, FitsSame
  <2> QED
    BY <2>1, <2>3, <2>4 DEF OpFits
<1>6. ASSUME NEW i \in DOMAIN w, NEW j \in DOMAIN w, i < j, w[i].run = w[j].run
      PROVE  Order(w[i].snap, w[j].snap)
  <2>1. CASE j \in DOMAIN q
    <3>1. i \in DOMAIN q
      BY <1>3, <1>6, <2>1
    <3> QED
      BY <1>3, <1>6, <2>1, <3>1 DEF QueueFits, q
  <2>2. CASE i \in DOMAIN q /\ j \notin DOMAIN q
    <3>1. /\ w[i] = q[i] /\ w[i] \in Operation /\ OpFits(p, w[i])
          /\ w[j] \in Operation
          /\ Moved(p.rec[w[i].run], u.rec[w[i].run])
          /\ AsV1(w[j].snap) = u.rec[w[i].run]
      BY <1>3, <1>4, <1>5, <1>6, <2>2
    <3>2. w[j].snap \in Snapshot
      BY <3>1 DEF Operation
    <3> QED
      BY <3>1, <3>2, OpMoves
  <2>3. CASE i \notin DOMAIN q /\ j \notin DOMAIN q
    <3>1. i - Len(q) = j - Len(q)
      BY <1>1, <1>3, <1>6, <2>3 DEF Adds
    <3> QED
      BY <1>3, <1>6, <3>1
  <2>4. i \in DOMAIN q \/ j \notin DOMAIN q
    BY <1>3, <1>6
  <2> QED
    BY <2>1, <2>2, <2>3, <2>4
<1>7. \A i \in DOMAIN w : OpFits(u, w[i])
  BY <1>3, <1>4, <1>5
<1> QED
  BY <1>6, <1>7 DEF QueueFits, w

LEMMA GrowsControl ==
    ASSUME NEW p \in Projectors, NEW u, NEW S, NEW c \in [Run -> Snapshot],
           NEW c2 \in [Run -> Snapshot], RecFits(p), ControlFits(p, c), Grows(p, u, S),
           \A r \in Run : Follows(p, u, S, r, c[r], c2[r])
    PROVE  ControlFits(u, c2)
<1> SUFFICES ASSUME NEW r \in Run
             PROVE  /\ c2[r].st = "none" <=> u.rec[r].st = "none"
                    /\ c2[r].st = "none" => c2[r] = NoSnapshot
                    /\ c2[r].st # "none" => Fits(c2[r], u.rec[r])
  BY DEF ControlFits
<1> DEFINE x == p.rec[r]
           y == u.rec[r]
<1>1. x \in Snapshot /\ y \in Snapshot /\ c[r] \in Snapshot /\ c2[r] \in Snapshot
  BY DEF Grows, Projectors
<1>2. /\ c[r].st = "none" <=> x.st = "none"
      /\ c[r].st = "none" => c[r] = NoSnapshot
      /\ c[r].st # "none" => Fits(c[r], x)
  BY DEF ControlFits
<1>3. y = x \/ Moved(x, y)
  BY DEF Grows
<1>4. IF y = x THEN c2[r] = c[r]
      ELSE IF x.st = "none" THEN c2[r] = y
      ELSE IF r \in S THEN c2[r].st = "stopped" /\ AsV1(c2[r]) = y
      ELSE c2[r] = c[r]
  BY DEF Follows
<1>5. y.st # "stopped"
  BY GrowsRec DEF RecFits
<1> HIDE DEF x, y
<1>6. CASE y = x
  BY <1>2, <1>4, <1>6 DEF x, y
<1>7. CASE y # x
  <2>1. Moved(x, y) /\ y.st # "none"
    BY <1>3, <1>7 DEF Moved
  <2>2. CASE c2[r] = c[r] /\ x.st # "none"
    <3>1. Fits(c[r], y)
      BY <1>1, <1>2, <2>1, <2>2, FitsMoved
    <3> QED
      BY <1>2, <2>1, <2>2, <3>1 DEF y
  <2>3. CASE AsV1(c2[r]) = y
    <3>1. Fits(c2[r], y) /\ c2[r].st # "none"
      BY <1>1, <2>1, <2>3, FitsSame
    <3> QED
      BY <2>1, <3>1 DEF y
  <2>4. c2[r] = y => AsV1(c2[r]) = y
    BY <1>1, <1>5, SnapshotIs
  <2> QED
    BY <1>4, <1>7, <2>2, <2>3, <2>4
<1> QED
  BY <1>6, <1>7

LEMMA GrowsDisk ==
    ASSUME NEW p \in Projectors, NEW u, NEW S, NEW d \in [Run -> Snapshot],
           RecFits(p), QueueFits(p), DiskFits(p, d), Grows(p, u, S),
           \A r \in Run : p.rec[r].st = "none" /\ u.rec[r].st # "none" => d[r].st = "none"
    PROVE  DiskFits(u, d)
<1>1. ASSUME NEW r \in Run
      PROVE  /\ u.rec[r].st # "none" /\ d[r].st # "none" => Fits(d[r], u.rec[r])
             /\ Moved(p.rec[r], u.rec[r]) /\ d[r].st # "none" =>
                  \A t \in Snapshot : AsV1(t) = u.rec[r] => Order(d[r], t)
  <2> DEFINE x == p.rec[r]
             y == u.rec[r]
  <2>1. x \in Snapshot /\ y \in Snapshot /\ d[r] \in Snapshot
    BY DEF Grows, Projectors
  <2>2. x.st # "none" /\ d[r].st # "none" => Fits(d[r], x)
    BY DEF DiskFits
  <2>3. y = x \/ Moved(x, y)
    BY DEF Grows
  <2>4. x.st = "none" /\ y.st # "none" => d[r].st = "none"
    OBVIOUS
  <2> HIDE DEF x, y
  <2>5. CASE d[r].st = "none" \/ y.st = "none"
    <3>1. Moved(x, y) => y.st # "none"
      BY DEF Moved
    <3> QED
      BY <2>5, <3>1 DEF x, y
  <2>6. CASE d[r].st # "none" /\ y.st # "none"
    <3>1. x.st # "none" /\ Fits(d[r], x)
      BY <2>2, <2>4, <2>6
    <3>2. Moved(x, y) => Fits(d[r], y) /\ \A t \in Snapshot : AsV1(t) = y => Order(d[r], t)
      BY <2>1, <2>6, <3>1, FitsMoved, MovedOrder
    <3> QED
      BY <2>3, <3>1, <3>2 DEF x, y
  <2> QED
    BY <2>5, <2>6
<1>2. PICK t : Adds(p, u, t, S)
  BY DEF Grows
<1> DEFINE q == p.queue
           w == u.queue
<1>3. q \in Seq(Operation) /\ t \in Seq(Operation) /\ w = q \o t
  BY <1>2 DEF Projectors, Adds
<1>4. /\ DOMAIN t = 1..Len(t)
      /\ \A i \in DOMAIN q : w[i] = q[i]
      /\ \A i \in DOMAIN w : i \notin DOMAIN q => i - Len(q) \in DOMAIN t /\ w[i] = t[i - Len(q)]
  BY <1>3, Added
<1>5. \A i \in DOMAIN q : d[q[i].run].st # "none" => Order(d[q[i].run], q[i].snap)
  BY DEF DiskFits
<1>6. ASSUME NEW k \in DOMAIN t, d[t[k].run].st # "none"
      PROVE  Order(d[t[k].run], t[k].snap)
  <2>1. /\ t[k] \in Operation
        /\ Moved(p.rec[t[k].run], u.rec[t[k].run])
        /\ AsV1(t[k].snap) = u.rec[t[k].run]
    BY <1>2, <1>3, <1>4 DEF Adds
  <2>2. t[k].run \in Run /\ t[k].snap \in Snapshot
    BY <2>1 DEF Operation
  <2> QED
    BY <1>1, <1>6, <2>1, <2>2
<1> HIDE DEF q, w
<1>7. \A i \in DOMAIN w : d[w[i].run].st # "none" => Order(d[w[i].run], w[i].snap)
  BY <1>4, <1>5, <1>6
<1>8. \A r \in Run : d[r].st = "none" => d[r] = NoSnapshot
  BY DEF DiskFits
<1> QED
  BY <1>1, <1>7, <1>8 DEF DiskFits, w

\* A write that is queued stays queued.
LEMMA SavedStays ==
    ASSUME NEW p \in Projectors, NEW u, NEW S, Grows(p, u, S), NEW d, NEW r, NEW st,
           NEW n \in Nat, n <= Len(p.queue), Saved(p, d, r, st, n)
    PROVE  /\ Saved(u, d, r, st, n) /\ n <= Len(u.queue) /\ Saved(u, d, r, st, Len(u.queue))
           /\ Len(u.queue) \in Nat
<1>1. PICK t : Adds(p, u, t, S)
  BY DEF Grows
<1> DEFINE q == p.queue
           w == u.queue
<1>2. q \in Seq(Operation) /\ t \in Seq(Operation) /\ w = q \o t /\ u.failed = p.failed
  BY <1>1 DEF Projectors, Adds, Grows
<1>3. /\ DOMAIN q = 1..Len(q) /\ Len(q) \in Nat /\ Len(t) \in Nat /\ Len(w) = Len(q) + Len(t)
      /\ \A i \in DOMAIN q : i \in DOMAIN w /\ w[i] = q[i]
  BY <1>2, Added
<1>4. n <= Len(w) /\ Len(w) \in Nat /\ \A i \in DOMAIN q : i <= Len(w)
  BY <1>3
<1>5. CASE p.failed \/ d[r].st = st
  BY <1>2, <1>4, <1>5 DEF Saved
<1>6. CASE \E i \in DOMAIN q : i <= n /\ q[i].run = r /\ q[i].snap.st = st
  <2>1. PICK i \in DOMAIN q : i <= n /\ q[i].run = r /\ q[i].snap.st = st
    BY <1>6
  <2>2. i \in DOMAIN w /\ w[i] = q[i] /\ i <= Len(w)
    BY <1>3, <1>4
  <2> QED
    BY <1>4, <2>1, <2>2 DEF Saved
<1> QED
  BY <1>5, <1>6 DEF Saved

LEMMA GrowsEnd ==
    ASSUME NEW p \in Projectors, NEW u, NEW S, NEW c \in [Run -> Snapshot],
           NEW c2 \in [Run -> Snapshot], NEW d, RecFits(p), ControlFits(p, c),
           EndIsWritten(p, c, d), Grows(p, u, S),
           \A r \in Run : Follows(p, u, S, r, c[r], c2[r]),
           \A r \in S : p.rec[r].st # "none"
    PROVE  EndIsWritten(u, c2, d)
<1> SUFFICES ASSUME NEW r \in Run, u.rec[r].st \in Terminal
             PROVE  Saved(u, d, r, End(u, c2, r), Len(u.queue))
  BY DEF EndIsWritten
<1>1. CASE u.rec[r] = p.rec[r]
  <2>1. c2[r] = c[r]
    BY <1>1 DEF Follows
  <2>2. End(u, c2, r) = End(p, c, r)
    BY <1>1, <2>1 DEF End
  <2>3. Saved(p, d, r, End(p, c, r), Len(p.queue))
    BY <1>1 DEF EndIsWritten
  <2>4. Len(p.queue) \in Nat /\ Len(p.queue) <= Len(p.queue)
    BY LenProperties DEF Projectors
  <2> QED
    BY <2>2, <2>3, <2>4, SavedStays
<1>2. CASE u.rec[r] # p.rec[r]
  <2>1. PICK t : Adds(p, u, t, S)
    BY DEF Grows
  <2>2. PICK k \in DOMAIN t : t[k].run = r
    BY <1>2, <2>1 DEF Adds
  <2>3. /\ Moved(p.rec[r], u.rec[r])
        /\ AsV1(t[k].snap) = u.rec[r]
        /\ t[k].snap.st = "stopped" <=> r \in S
    BY <2>1, <2>2 DEF Adds
  <2>4. /\ DOMAIN t = 1..Len(t)
        /\ p.queue \in Seq(Operation) /\ t \in Seq(Operation) /\ u.queue = p.queue \o t
    BY <2>1, LenProperties DEF Projectors, Adds
  <2>5. /\ Len(p.queue) + k \in DOMAIN u.queue /\ u.queue[Len(p.queue) + k] = t[k]
        /\ Len(p.queue) + k <= Len(u.queue)
    BY <2>2, <2>4, Added
  <2>6. t[k].snap \in Snapshot /\ c[r] \in Snapshot /\ c2[r] \in Snapshot
    <3>1. t[k] \in Operation
      BY <2>2, <2>4
    <3> QED
      BY <3>1 DEF Operation
  <2>7. t[k].snap.st = End(u, c2, r)
    <3>1. CASE r \in S
      <4>1. p.rec[r].st # "none" /\ c2[r].st = "stopped"
        BY <1>2, <3>1 DEF Follows
      <4> QED
        BY <2>3, <3>1, <4>1 DEF End
    <3>2. CASE r \notin S
      <4>1. t[k].snap.st = u.rec[r].st
        BY <2>3, <2>6, <3>2, SnapshotIs
      <4>2. c2[r].st # "stopped"
        <5>1. CASE p.rec[r].st = "none"
          <6>1. c2[r] = u.rec[r]
            BY <1>2, <5>1 DEF Follows
          <6> QED
            BY <2>3, <6>1 DEF Moved
        <5>2. CASE p.rec[r].st # "none"
          <6>1. c2[r] = c[r] /\ c[r].st # "none"
            BY <1>2, <3>2, <5>2 DEF Follows, ControlFits
          <6>2. Fits(c[r], p.rec[r])
            BY <6>1 DEF ControlFits
          <6>3. p.rec[r] \in Snapshot /\ u.rec[r] \in Snapshot
            BY DEF Grows, Projectors
          <6>4. c[r].st \notin Terminal
            BY <2>3, <2>6, <5>2, <6>1, <6>2, <6>3, FitsMoved
          <6> QED
            BY <6>1, <6>4 DEF Terminal
        <5> QED
          BY <5>1, <5>2
      <4> QED
        BY <4>1, <4>2 DEF End
    <3> QED
      BY <3>1, <3>2
  <2> QED
    BY <2>2, <2>5, <2>7 DEF Saved
<1> QED
  BY <1>1, <1>2

\* All of it.
LEMMA GrowsFit ==
    ASSUME NEW p \in Projectors, NEW u, NEW S, NEW c \in [Run -> Snapshot],
           NEW c2 \in [Run -> Snapshot], NEW d \in [Run -> Snapshot],
           SnapshotsFit(p, c, d), Grows(p, u, S),
           \A r \in Run : Follows(p, u, S, r, c[r], c2[r]),
           \A r \in S : p.rec[r].st # "none",
           \A r \in Run : p.rec[r].st = "none" /\ u.rec[r].st # "none" => d[r].st = "none"
    PROVE  SnapshotsFit(u, c2, d)
<1>1. RecFits(p) /\ QueueFits(p) /\ ControlFits(p, c) /\ DiskFits(p, d) /\ EndIsWritten(p, c, d)
  BY DEF SnapshotsFit
<1>2. RecFits(u)
  BY <1>1, GrowsRec
<1>3. QueueFits(u)
  BY <1>1, GrowsQueue
<1>4. ControlFits(u, c2)
  BY <1>1, GrowsControl
<1>5. DiskFits(u, d)
  BY <1>1, GrowsDisk
<1>6. EndIsWritten(u, c2, d)
  BY <1>1, GrowsEnd
<1> QED
  BY <1>2, <1>3, <1>4, <1>5, <1>6 DEF SnapshotsFit

----------------------------------------------------------------------------
(* The ways the projection changes.                                        *)

LEMMA LoopGrows ==
    ASSUME NEW p \in Projectors, NEW u, NEW H, NEW new, NEW s \in Seq(Run),
           \A i, j \in DOMAIN s : s[i] = s[j] => i = j,
           Looped(p, u, H, new, s, Len(s)),
           \A r \in Run : r \in H => Moved(p.rec[r], new[r]) /\ new[r] \in Snapshot
    PROVE  Grows(p, u, {})
<1> DEFINE A == Hit(H, s, Len(s))
<1>1. /\ u \in Projectors /\ u.failed = p.failed
      /\ u.rec = [r \in Run |-> IF r \in A THEN new[r] ELSE p.rec[r]]
  BY DEF Looped
<1>2. PICK t : u.queue = p.queue \o t /\ Written(t, A, new, s, Len(s))
  BY DEF Looped
<1>3. DOMAIN s = 1..Len(s) /\ Len(s) \in Nat
  OBVIOUS
<1>4. A \subseteq H /\ A \subseteq Run
  BY <1>3 DEF Hit
<1> HIDE DEF A
<1>5. \A r \in Run : u.rec[r] = p.rec[r] \/ Moved(p.rec[r], u.rec[r])
  BY <1>1, <1>4
<1>6. ASSUME NEW k \in DOMAIN t
      PROVE  /\ Moved(p.rec[t[k].run], u.rec[t[k].run])
             /\ AsV1(t[k].snap) = u.rec[t[k].run]
             /\ t[k].kind = "control" <=> t[k].snap.st = "stopped"
             /\ t[k].snap.st = "stopped" <=> t[k].run \in {}
  <2>1. t[k].run \in A /\ t[k].kind = "snapshot" /\ t[k].snap = new[t[k].run]
    BY <1>2 DEF Written
  <2>2. u.rec[t[k].run] = new[t[k].run] /\ new[t[k].run] \in Snapshot
        /\ Moved(p.rec[t[k].run], new[t[k].run])
    BY <1>1, <1>4, <2>1
  <2>3. t[k].snap.st # "stopped"
    BY <2>1, <2>2 DEF Moved
  <2>4. AsV1(t[k].snap) = u.rec[t[k].run]
    BY <2>1, <2>2, <2>3, SnapshotIs
  <2> QED
    BY <2>1, <2>2, <2>3, <2>4
<1>7. ASSUME NEW k \in DOMAIN t, NEW l \in DOMAIN t, t[k].run = t[l].run
      PROVE  k = l
  <2>1. DOMAIN t = 1..Len(t) /\ Len(t) \in Nat
    BY <1>2, LenProperties DEF Written
  <2>2. \A m, n \in DOMAIN t : m < n => t[m].run # t[n].run
    <3> SUFFICES ASSUME NEW m \in DOMAIN t, NEW n \in DOMAIN t, m < n
                 PROVE  t[m].run # t[n].run
      OBVIOUS
    <3>1. PICK i \in 1..Len(s), j \in 1..Len(s) : i < j /\ t[m].run = s[i] /\ t[n].run = s[j]
      BY <1>2 DEF Written
    <3> QED
      BY <1>3, <3>1
  <2>3. k < l \/ l < k \/ k = l
    BY <2>1
  <2> QED
    BY <1>7, <2>2, <2>3
<1>8. ASSUME NEW r \in Run, u.rec[r] # p.rec[r]
      PROVE  \E k \in DOMAIN t : t[k].run = r
  <2>1. r \in A
    BY <1>1, <1>8
  <2> QED
    BY <1>2, <2>1 DEF Written
<1>9. Adds(p, u, t, {})
  BY <1>2, <1>6, <1>7, <1>8 DEF Adds, Written
<1> QED
  BY <1>1, <1>5, <1>9 DEF Grows

LEMMA PutGrows ==
    ASSUME NEW p \in Projectors, NEW u, NEW r \in Run, NEW x \in Snapshot, NEW t, NEW S,
           Put(p, u, r, x, t), Moved(p.rec[r], x),
           \/ t = <<>> /\ x.st \notin Terminal
           \/ \E op \in Operation :
                 /\ t = <<op>> /\ op.run = r /\ AsV1(op.snap) = x
                 /\ op.kind = "control" <=> op.snap.st = "stopped"
                 /\ op.snap.st = "stopped" <=> r \in S
    PROVE  Grows(p, u, S)
<1>1. /\ u \in Projectors /\ u.failed = p.failed /\ u.queue = p.queue \o t
      /\ u.rec = [p.rec EXCEPT ![r] = x]
  BY DEF Put
<1>2. u.rec[r] = x /\ \A s \in Run \ {r} : u.rec[s] = p.rec[s]
  BY <1>1 DEF Projectors
<1>3. \A s \in Run : u.rec[s] = p.rec[s] \/ Moved(p.rec[s], u.rec[s])
  BY <1>2
<1>4. CASE t = <<>> /\ x.st \notin Terminal
  <2>1. t \in Seq(Operation) /\ DOMAIN t = {}
    BY <1>4
  <2>2. \A s \in Run : u.rec[s] # p.rec[s] => u.rec[s].st \notin Terminal
    BY <1>2, <1>4
  <2>3. Adds(p, u, t, S)
    BY <1>1, <2>1, <2>2 DEF Adds
  <2> QED
    BY <1>1, <1>3, <2>3 DEF Grows
<1>5. ASSUME NEW op \in Operation, t = <<op>>, op.run = r, AsV1(op.snap) = x,
             op.kind = "control" <=> op.snap.st = "stopped",
             op.snap.st = "stopped" <=> r \in S
      PROVE  Grows(p, u, S)
  <2>1. t \in Seq(Operation) /\ DOMAIN t = {1} /\ t[1] = op
    BY <1>5
  <2>2. \A k \in DOMAIN t : t[k] = op
    BY <2>1
  <2>3. Adds(p, u, t, S)
    BY <1>1, <1>2, <1>5, <2>1, <2>2 DEF Adds
  <2> QED
    BY <1>1, <1>3, <2>3 DEF Grows
<1> QED
  BY <1>4, <1>5

LEMMA NothingGrows == ASSUME NEW p \in Projectors PROVE Grows(p, p, {})
<1>1. p.queue \in Seq(Operation) /\ p.queue = p.queue \o <<>> /\ <<>> \in Seq(Operation)
  BY DEF Projectors
<1>2. Adds(p, p, <<>>, {})
  BY <1>1 DEF Adds
<1> QED
  BY <1>2 DEF Grows

----------------------------------------------------------------------------
(* The invariant of a session.                                             *)

Snapshots == SnapshotsFit(projector, control, disk)

\* A run that is still to be projected is unknown.
Fresh(r) ==
    \/ \E i \in DOMAIN Batches : i > calls /\ r \in ToSet(Batches[i])
    \/ phase \in {"capture", "prepare"} /\ r \in Batch

FreshIsUnknown ==
    \A r \in Run : Fresh(r) =>
        projector.rec[r].st = "none" /\ disk[r].st = "none" /\ r \notin revoked

\* Where execute, the scheduler and the authority of a run are.
RunFits(r) ==
    /\ projector.rec[r].st \in ToSet(Active) =>
          phase \in {"barrier", "tree"} /\ r \in Batch /\ r \notin revoked
    /\ projector.rec[r].st \in Terminal => r \in revoked
    /\ projector.rec[r].st # "none" \/ prep[r] = "ok" => initialized
    /\ phase \in {"barrier", "tree"} /\ r \in Batch =>
          projector.rec[r].st # "none" /\ prep[r] = "ok"
    /\ work[r] \in {"queued", "child"} => phase = "tree" /\ r \in Batch
    /\ phase = "tree" /\ r \in Batch => work[r] # "none"
    /\ phase = "tree" /\ r \in Batch /\ work[r] = "done" /\ cancel = "none" =>
          projector.rec[r].st \in Terminal
    /\ work[r] = "queued" => cancel = "none"

\* A child agent outlives execute only after a cancellation.
ChildFits(r) ==
    /\ phase \in {"tree", "idle"}
    /\ r \in Batch /\ prep[r] = "ok"
    /\ projector.rec[r].st # "none"
    /\ cancel = "none" => phase = "tree" /\ work[r] = "child"
    /\ \A s \in Batch : disk[s].st # "none"

TreeIsWritten == phase = "tree" => \A r \in Batch : disk[r].st # "none"

OldIsOver ==
    initialized => \A r \in Run : disk[r].st \in ToSet(Active) => projector.rec[r].st # "none"

Lives ==
    /\ FreshIsUnknown
    /\ \A r \in Run : RunFits(r)
    /\ \A r \in child : ChildFits(r)
    /\ TreeIsWritten
    /\ phase # "idle" => calls # 0
    /\ OldIsOver

\* The barrier waits for a write of every run of the batch.
BarrierHolds ==
    phase = "barrier" => \A r \in Batch :
        \/ projector.failed \/ disk[r].st # "none"
        \/ \E i \in DOMAIN projector.queue :
              i <= waits[Supervisor] /\ projector.queue[i].run = r

\* A request that is to be answered waits for the write of its answer.
RequestFits(c) ==
    /\ request[c].pc \in {"settle", "waiting", "confirm"} =>
          /\ request[c].run \in Run
          /\ control[request[c].run].st # "none"
          /\ disk[request[c].run].st # "none"
    /\ request[c].pc = "confirm" /\ request[c].answer \in Terminal =>
          Saved(projector, disk, request[c].run, request[c].answer, waits[c])
    /\ request[c].pc = "ok" /\ request[c].answer \in Terminal =>
          /\ request[c].run \in Run
          /\ disk[request[c].run].st = request[c].answer

Requests ==
    /\ \A w \in Waiter : waits[w] <= Len(projector.queue)
    /\ \A c \in Call : RequestFits(c)

LEMMA Types ==
    ASSUME TypeOK
    PROVE  /\ projector \in Projectors /\ control \in [Run -> Snapshot]
           /\ disk \in [Run -> Snapshot] /\ revoked \subseteq Run /\ child \subseteq Run
           /\ reserved \subseteq Run /\ calls \in 0..Len(Batches)
           /\ work \in [Run -> {"none", "queued", "child", "done"}]
           /\ prep \in [Run -> {"none", "ok", "failed"}]
           /\ phase \in {"idle", "capture", "prepare", "barrier", "tree"}
           /\ cancel \in {"none", "timed_out", "interrupted"}
           /\ waits \in [Waiter -> Nat]
  BY DEF TypeOK, Projectors

\* A batch is a sequence of different runs,
LEMMA BatchIs ==
    ASSUME calls \in 0..Len(Batches)
    PROVE  /\ batch \in Seq(Run) /\ Batch \subseteq Run
           /\ \A i, j \in DOMAIN batch : batch[i] = batch[j] => i = j
           /\ \A r : r \in Batch <=> \E i \in 1..Len(batch) : batch[i] = r
           /\ DOMAIN batch = 1..Len(batch) /\ Len(batch) \in Nat
<1>1. Batches \in Seq(Seq(Run)) /\ DOMAIN Batches = 1..Len(Batches) /\ Len(Batches) \in Nat
  BY SubagentRunsAssumption
<1>2. CASE calls = 0
  <2>1. batch = <<>>
    BY <1>2 DEF batch
  <2> QED
    BY <2>1 DEF Batch, ToSet
<1>3. CASE calls # 0
  <2>1. calls \in DOMAIN Batches /\ batch = Batches[calls]
    BY <1>1, <1>3 DEF batch
  <2>2. batch \in Seq(Run)
    BY <1>1, <2>1
  <2>3. \A i, j \in DOMAIN batch : batch[i] = batch[j] => i = j
    BY <2>1, SubagentRunsAssumption
  <2>4. DOMAIN batch = 1..Len(batch) /\ Len(batch) \in Nat
    BY <2>2, LenProperties
  <2>5. \A r : r \in Batch <=> \E i \in 1..Len(batch) : batch[i] = r
    BY <2>4 DEF Batch, ToSet
  <2> QED
    BY <2>2, <2>3, <2>4, <2>5
<1> QED
  BY <1>2, <1>3

\* ... that is in no other.
LEMMA BatchIsAlone ==
    ASSUME calls \in 0..Len(Batches), NEW r \in Batch, NEW i \in DOMAIN Batches, i > calls
    PROVE  r \notin ToSet(Batches[i])
<1>1. Batches \in Seq(Seq(Run)) /\ DOMAIN Batches = 1..Len(Batches) /\ Len(Batches) \in Nat
  BY SubagentRunsAssumption
<1>2. calls # 0
  BY DEF Batch, batch, ToSet
<1>3. calls \in DOMAIN Batches /\ batch = Batches[calls]
  BY <1>1, <1>2 DEF batch
<1> SUFFICES ASSUME r \in ToSet(Batches[i]) PROVE FALSE
  OBVIOUS
<1>4. PICK m \in DOMAIN Batches[calls] : Batches[calls][m] = r
  BY <1>3 DEF Batch, ToSet
<1>5. PICK n \in DOMAIN Batches[i] : Batches[i][n] = r
  BY DEF ToSet
<1>6. calls = i
  BY <1>3, <1>4, <1>5, SubagentRunsAssumption
<1> QED
  BY <1>1, <1>3, <1>6

LEMMA SameBatch == ASSUME calls' = calls PROVE batch' = batch /\ Batch' = Batch
  BY DEF batch, Batch

\* The states of a record.
LEMMA RecStates ==
    ASSUME TypeOK, Snapshots, NEW r \in Run
    PROVE  /\ projector.rec[r] \in Snapshot
           /\ projector.rec[r].st \in {"none"} \cup ToSet(Active) \cup (Terminal \ {"stopped"})
           /\ ToSet(Active) \cap (Terminal \cup {"none"}) = {} /\ "none" \notin Terminal
           /\ control[r].st \in Terminal => projector.rec[r] = AsV1(control[r])
                                            /\ projector.rec[r].st \in Terminal
           /\ control[r].st = "none" <=> projector.rec[r].st = "none"
<1>1. projector.rec[r] \in Snapshot /\ control[r] \in Snapshot
  BY Types DEF Projectors
<1>2. RecFits(projector) /\ ControlFits(projector, control)
  BY DEF Snapshots, SnapshotsFit
<1>3. ToSet(Active) \cap (Terminal \cup {"none"}) = {} /\ "none" \notin Terminal
  BY States DEF Terminal
<1>4. projector.rec[r].st \in {"none"} \cup ToSet(Active) \cup (Terminal \ {"stopped"})
  BY <1>1, <1>2 DEF Snapshot, RunState, RecFits
<1>5. ASSUME control[r].st \in Terminal
      PROVE  projector.rec[r] = AsV1(control[r]) /\ projector.rec[r].st \in Terminal
  <2>1. Fits(control[r], projector.rec[r])
    BY <1>2, <1>3, <1>5 DEF ControlFits
  <2>2. AsV1(control[r]) = projector.rec[r]
    BY <1>5, <2>1 DEF Fits
  <2> QED
    BY <1>1, <1>5, <2>2, SnapshotIs DEF Terminal
<1> QED
  BY <1>1, <1>2, <1>3, <1>4, <1>5 DEF ControlFits

\* finish(), for runs that were begun.
Ended(p, runs, st) ==
    [r \in Run |-> IF r \in Batch /\ r \in Endable(p, runs)
                   THEN [st |-> st, rev |-> p.rec[r].rev + 1] ELSE p.rec[r]]
LEMMA FinishGrows ==
    ASSUME NEW p \in Projectors, NEW runs \in SUBSET Run, NEW st \in Terminal \ {"stopped"},
           calls \in 0..Len(Batches), \A r \in runs : p.rec[r].st # "none"
    PROVE  /\ Grows(p, FinishAll(p, runs, st), {})
           /\ FinishAll(p, runs, st).rec = Ended(p, runs, st)
           /\ Looped(p, FinishAll(p, runs, st), Endable(p, runs), EndOf(p, st), batch,
                     Len(batch))
<1> DEFINE H == Endable(p, runs)
           new == EndOf(p, st)
           u == FinishAll(p, runs, st)
<1>1. /\ batch \in Seq(Run) /\ \A i, j \in DOMAIN batch : batch[i] = batch[j] => i = j
      /\ \A r : r \in Batch <=> \E i \in 1..Len(batch) : batch[i] = r
  BY BatchIs
<1>2. Looped(p, u, H, new, batch, Len(batch))
  BY <1>1, FinishLoop
<1>3. ASSUME NEW r \in Run, r \in H
      PROVE  Moved(p.rec[r], new[r]) /\ new[r] \in Snapshot
  <2>1. new[r] = [st |-> st, rev |-> p.rec[r].rev + 1] /\ p.rec[r] \in Snapshot
    BY DEF EndOf, Projectors
  <2>2. p.rec[r].st \notin Terminal /\ p.rec[r].st # "none"
    BY <1>3 DEF Endable
  <2>3. p.rec[r].rev \in Nat /\ p.rec[r].st \in RunState
    BY <2>1, <2>2, SnapshotIs
  <2>4. Rank(p.rec[r].st) <= Rank(st)
    <3>1. Rank(p.rec[r].st) \in 1..4 /\ Rank(st) = 4
      BY <2>3, Ranks
    <3> QED
      BY <3>1
  <2>5. new[r] \in Snapshot
    BY <2>1, <2>3 DEF Snapshot, RunState
  <2>6. st # "none"
    BY DEF Terminal
  <2> HIDE DEF new
  <2> QED
    BY <2>1, <2>2, <2>3, <2>4, <2>5, <2>6 DEF Moved
<1>4. Grows(p, u, {})
  BY <1>1, <1>2, <1>3, LoopGrows
<1>5. u.rec = Ended(p, runs, st)
  <2>1. u.rec = [r \in Run |-> IF r \in Hit(H, batch, Len(batch)) THEN new[r] ELSE p.rec[r]]
    BY <1>2 DEF Looped
  <2>2. \A r \in Run : r \in Hit(H, batch, Len(batch)) <=> r \in Batch /\ r \in H
    BY <1>1 DEF Hit
  <2>3. \A r \in Run : new[r] = [st |-> st, rev |-> p.rec[r].rev + 1]
    BY DEF EndOf
  <2> HIDE DEF new, u, H
  <2>4. u.rec = [r \in Run |-> IF r \in Batch /\ r \in H
                               THEN [st |-> st, rev |-> p.rec[r].rev + 1] ELSE p.rec[r]]
    BY <2>1, <2>2, <2>3
  <2> QED
    BY <2>4 DEF Ended, H
<1> QED
  BY <1>2, <1>4, <1>5

\* begin(), for runs that are not known.
LEMMA BeginGrows ==
    ASSUME NEW p \in Projectors, NEW s \in Seq(Run),
           \A i, j \in DOMAIN s : s[i] = s[j] => i = j,
           \A r \in ToSet(s) : p.rec[r] = NoSnapshot
    PROVE  /\ Grows(p, FoldLeft(Begin, p, s), {})
           /\ FoldLeft(Begin, p, s).rec
                 = [r \in Run |-> IF r \in ToSet(s) THEN [st |-> "queued", rev |-> 1]
                                  ELSE p.rec[r]]
           /\ Looped(p, FoldLeft(Begin, p, s), Run,
                     [r \in Run |-> [st |-> "queued", rev |-> 1]], s, Len(s))
<1> DEFINE new == [r \in Run |-> [st |-> "queued", rev |-> 1]]
           u == FoldLeft(Begin, p, s)
           H == ToSet(s)
<1>1. Looped(p, u, Run, new, s, Len(s))
  BY BeginLoop
<1>2. \A r \in Run : r \in Hit(Run, s, Len(s)) <=> r \in H
  <2>1. DOMAIN s = 1..Len(s)
    OBVIOUS
  <2> QED
    BY <2>1 DEF Hit, ToSet
<1>3. Hit(H, s, Len(s)) = Hit(Run, s, Len(s)) /\ H \subseteq Run
  <2>1. DOMAIN s = 1..Len(s)
    OBVIOUS
  <2>2. H \subseteq Run
    BY DEF ToSet
  <2>3. \A r \in Run : r \in Hit(H, s, Len(s)) <=> r \in H
    BY <2>1 DEF Hit, ToSet
  <2>4. Hit(H, s, Len(s)) \subseteq Run /\ Hit(Run, s, Len(s)) \subseteq Run
    BY <2>2 DEF Hit
  <2> QED
    BY <1>2, <2>2, <2>3, <2>4
<1>4. Looped(p, u, H, new, s, Len(s))
  BY <1>1, <1>3 DEF Looped
<1>5. ASSUME NEW r \in Run, r \in H
      PROVE  Moved(p.rec[r], new[r]) /\ new[r] \in Snapshot
  <2>1. p.rec[r] = [st |-> "none", rev |-> 0]
    BY <1>5 DEF NoSnapshot
  <2>2. new[r] = [st |-> "queued", rev |-> 1]
    OBVIOUS
  <2>3. new[r] \in Snapshot
    BY <2>2, States DEF Snapshot, RunState
  <2> QED
    BY <2>1, <2>2, <2>3 DEF Moved, Terminal
<1> HIDE DEF u, new, H
<1>6. Grows(p, u, {})
  BY <1>4, <1>5, LoopGrows
<1>7. u.rec = [r \in Run |-> IF r \in H THEN [st |-> "queued", rev |-> 1] ELSE p.rec[r]]
  <2>1. u.rec = [r \in Run |-> IF r \in Hit(Run, s, Len(s)) THEN new[r] ELSE p.rec[r]]
    BY <1>1 DEF Looped
  <2> QED
    BY <1>2, <2>1 DEF new
<1> QED
  BY <1>1, <1>6, <1>7 DEF u, new, H

\* The end the catch of execute projects, and for which runs.
Fault == IF cancel = "none" THEN "failed" ELSE cancel
Known(p) == {r \in Prepared : p.rec[r].st # "none"}
LEMMA UnwindIs ==
    ASSUME TypeOK, NEW p \in Projectors, Unwind(p)
    PROVE  /\ phase' = "idle" /\ revoked' = revoked \cup Prepared
           /\ reserved' = reserved \ (Prepared \ Known(p))
           /\ Grows(p, projector', {})
           /\ projector'.rec = Ended(p, Known(p), Fault)
           /\ Looped(p, projector', Endable(p, Known(p)), EndOf(p, Fault), batch, Len(batch))
           /\ Fault \in Terminal \ {"stopped"}
<1>1. /\ phase' = "idle" /\ revoked' = revoked \cup Prepared
      /\ reserved' = reserved \ (Prepared \ Known(p))
      /\ projector' = FinishAll(p, Known(p), Fault)
  BY DEF Unwind, Known, Fault
<1>2. Fault \in Terminal \ {"stopped"} /\ calls \in 0..Len(Batches)
  BY Types DEF Fault, Terminal
<1>3. Known(p) \in SUBSET Run /\ \A r \in Known(p) : p.rec[r].st # "none"
  BY <1>2, BatchIs DEF Known, Prepared
<1>4. /\ Grows(p, FinishAll(p, Known(p), Fault), {})
      /\ FinishAll(p, Known(p), Fault).rec = Ended(p, Known(p), Fault)
      /\ Looped(p, FinishAll(p, Known(p), Fault), Endable(p, Known(p)), EndOf(p, Fault),
                batch, Len(batch))
  BY <1>2, <1>3, FinishGrows
<1> QED
  BY <1>1, <1>2, <1>4

\* Telemetry of a run that was begun.
LEMMA TelemetryGrows ==
    ASSUME TypeOK, Snapshots, NEW r \in Run, projector.rec[r].st # "none", Telemetry(r)
    PROVE  /\ Grows(projector, projector', {})
           /\ \A s \in Run \ {r} : projector'.rec[s] = projector.rec[s]
           /\ \/ projector'.rec[r] = projector.rec[r]
              \/ /\ projector.rec[r].st \in ToSet(Active)
                 /\ projector'.rec[r].st \in ToSet(Active)
<1> DEFINE p == projector
           x == p.rec[r]
<1>1. p \in Projectors /\ x \in Snapshot
  BY Types DEF Projectors
<1>2. x.st \in {"queued", "starting", "running"} \cup Terminal
  BY RecStates, States
<1>3. ASSUME x.st \in Terminal, NEW next \in {"starting", "running"}, NEW durable \in BOOLEAN,
             projector' = Update(p, r, next, durable)
      PROVE  projector' = projector
  BY <1>3 DEF Update
<1>4. ASSUME x.st \notin Terminal, NEW next \in {"starting", "running"}, NEW durable \in BOOLEAN,
             projector' = Update(p, r, next, durable), Rank(x.st) <= Rank(next)
      PROVE  /\ Grows(projector, projector', {})
             /\ \A s \in Run \ {r} : projector'.rec[s] = projector.rec[s]
             /\ x.st \in ToSet(Active) /\ projector'.rec[r].st \in ToSet(Active)
  <2> DEFINE y == [st |-> next, rev |-> x.rev + 1]
             t == IF durable THEN <<Op("snapshot", r, y)>> ELSE <<>>
  <2>1. y \in Snapshot /\ x.rev \in Nat
    BY <1>1, SnapshotIs, States DEF Snapshot, RunState
  <2>2. projector' = Publish(p, r, y, durable)
    BY <1>4 DEF Update
  <2>3. Put(p, projector', r, y, t)
    BY <1>1, <2>1, <2>2, PublishIs
  <2>4. Moved(x, y) /\ y.st \notin Terminal /\ AsV1(y) = y /\ y.st # "stopped"
    <3>1. y.st = next /\ y.rev = x.rev + 1 /\ next \notin Terminal \cup {"none", "stopped"}
      BY DEF Terminal
    <3>2. AsV1(y) = y
      BY <2>1, <3>1, SnapshotIs
    <3> HIDE DEF y
    <3> QED
      BY <1>4, <2>1, <3>1, <3>2 DEF Moved
  <2>5. /\ Op("snapshot", r, y).run = r /\ Op("snapshot", r, y).snap = y
        /\ Op("snapshot", r, y).kind = "snapshot" /\ Op("snapshot", r, y) \in Operation
    BY <2>1 DEF Op, Operation
  <2> HIDE DEF y
  <2>6. \/ t = <<>> /\ y.st \notin Terminal
        \/ \E op \in Operation :
             /\ t = <<op>> /\ op.run = r /\ AsV1(op.snap) = y
             /\ op.kind = "control" <=> op.snap.st = "stopped"
             /\ op.snap.st = "stopped" <=> r \in {}
    BY <2>4, <2>5
  <2> HIDE DEF t
  <2>7. Grows(p, projector', {})
    BY <1>1, <2>1, <2>3, <2>4, <2>6, PutGrows
  <2>8. projector'.rec[r] = y /\ \A s \in Run \ {r} : projector'.rec[s] = projector.rec[s]
    BY <1>1, <2>3 DEF Put, Projectors
  <2>9. y.st \in ToSet(Active)
    BY States DEF y
  <2>10. x.st \in ToSet(Active)
    BY <1>2, <1>4, States
  <2> QED
    BY <2>7, <2>8, <2>9, <2>10
<1>5. \/ \E next \in {"starting", "running"} :
           /\ Rank(next) = Rank(x.st) + 1 \/ x.st \in Terminal
           /\ projector' = Update(p, r, next, TRUE)
      \/ /\ x.st = "running"
         /\ \E durable \in BOOLEAN : projector' = Update(p, r, x.st, durable)
  BY DEF Telemetry
<1> HIDE DEF p, x
<1>6. CASE x.st \in Terminal
  <2>1. projector' = projector
    <3>1. x.st # "running"
      BY <1>6 DEF Terminal
    <3> QED
      BY <1>3, <1>5, <1>6, <3>1
  <2> QED
    BY <1>1, <2>1, NothingGrows DEF p
<1>7. CASE x.st \notin Terminal
  <2>1. ASSUME NEW next \in {"starting", "running"}, Rank(next) = Rank(x.st) + 1,
               projector' = Update(p, r, next, TRUE)
        PROVE  /\ Grows(projector, projector', {})
               /\ \A s \in Run \ {r} : projector'.rec[s] = projector.rec[s]
               /\ x.st \in ToSet(Active) /\ projector'.rec[r].st \in ToSet(Active)
    <3>1. Rank(x.st) \in 1..4
      BY <1>2, Ranks, States DEF RunState
    <3>2. Rank(x.st) <= Rank(next)
      BY <2>1, <3>1
    <3> QED
      BY <1>4, <1>7, <2>1, <3>2
  <2>2. ASSUME x.st = "running", NEW durable \in BOOLEAN,
               projector' = Update(p, r, x.st, durable)
        PROVE  /\ Grows(projector, projector', {})
               /\ \A s \in Run \ {r} : projector'.rec[s] = projector.rec[s]
               /\ x.st \in ToSet(Active) /\ projector'.rec[r].st \in ToSet(Active)
    <3>1. Rank(x.st) <= Rank("running")
      BY <2>2, Ranks
    <3> QED
      BY <1>4, <1>7, <2>2, <3>1
  <2> QED
    BY <1>5, <1>7, <2>1, <2>2 DEF p, x
<1> QED
  BY <1>6, <1>7

----------------------------------------------------------------------------
(* Every step keeps the snapshots fitting.                                 *)

LEMMA SnapshotsGrow ==
    ASSUME TypeOK, Snapshots, Grows(projector, projector', {}), control' = control,
           disk' = disk, \A r \in Run : projector.rec[r].st = "none" =>
                                projector'.rec[r].st = "none"
    PROVE  Snapshots'
<1>1. projector \in Projectors /\ control \in [Run -> Snapshot] /\ disk \in [Run -> Snapshot]
  BY Types
<1>2. SnapshotsFit(projector, control, disk)
  BY DEF Snapshots
<1>3. ASSUME NEW r \in Run
      PROVE  Follows(projector, projector', {}, r, control[r], control[r])
  <2>1. projector'.rec[r] = projector.rec[r]
        \/ Moved(projector.rec[r], projector'.rec[r])
    BY DEF Grows
  <2>2. projector.rec[r].st = "none" => projector'.rec[r] = projector.rec[r]
    BY <2>1 DEF Moved
  <2> QED
    BY <2>2 DEF Follows
<1>4. SnapshotsFit(projector', control, disk)
  BY <1>1, <1>2, <1>3, GrowsFit
<1>5. SnapshotsFit(projector', control', disk')
  BY <1>4
<1> QED
  BY <1>5 DEF Snapshots

LEMMA SnapshotsSame ==
    ASSUME Snapshots, UNCHANGED <<projector, control, disk>>
    PROVE  Snapshots'
<1>1. SnapshotsFit(projector', control', disk')
  BY DEF Snapshots
<1> QED
  BY <1>1 DEF Snapshots

LEMMA UnwindSnapshots ==
    ASSUME TypeOK, Snapshots, Unwind(projector), UNCHANGED <<control, disk>>
    PROVE  Snapshots'
<1>1. projector \in Projectors
  BY Types
<1>2. /\ Grows(projector, projector', {})
      /\ projector'.rec = Ended(projector, Known(projector), Fault)
  BY <1>1, UnwindIs
<1>3. \A r \in Run : projector.rec[r].st = "none" => projector'.rec[r].st = "none"
  BY <1>2 DEF Ended, Endable, Known
<1> QED
  BY <1>2, <1>3, SnapshotsGrow

\* An end that complete() and finish() project.
LEMMA CompletedIs ==
    ASSUME TypeOK, NEW runs \in SUBSET Run, NEW st \in Terminal \ {"stopped"},
           \A r \in runs : projector.rec[r].st # "none", Completed(runs, st)
    PROVE  /\ revoked' = revoked \cup runs
           /\ Grows(projector, projector', {})
           /\ projector'.rec = Ended(projector, runs, st)
           /\ Looped(projector, projector', Endable(projector, runs), EndOf(projector, st),
                     batch, Len(batch))
<1>1. projector \in Projectors /\ calls \in 0..Len(Batches)
  BY Types
<1>2. revoked' = revoked \cup runs /\ projector' = FinishAll(projector, runs, st)
  BY DEF Completed
<1>3. /\ Grows(projector, FinishAll(projector, runs, st), {})
      /\ FinishAll(projector, runs, st).rec = Ended(projector, runs, st)
      /\ Looped(projector, FinishAll(projector, runs, st), Endable(projector, runs),
                EndOf(projector, st), batch, Len(batch))
  BY <1>1, FinishGrows
<1> QED
  BY <1>2, <1>3

LEMMA CompletedSnapshots ==
    ASSUME TypeOK, Snapshots, NEW runs \in SUBSET Run, NEW st \in Terminal \ {"stopped"},
           \A r \in runs : projector.rec[r].st # "none", Completed(runs, st),
           UNCHANGED <<control, disk>>
    PROVE  Snapshots'
<1>1. Grows(projector, projector', {}) /\ projector'.rec = Ended(projector, runs, st)
  BY CompletedIs
<1>2. \A r \in Run : projector.rec[r].st = "none" => projector'.rec[r].st = "none"
  BY <1>1 DEF Ended, Endable
<1> QED
  BY <1>1, <1>2, SnapshotsGrow

\* The records a batch begins with.
LEMMA BegunSnapshots ==
    ASSUME TypeOK, Snapshots, FreshIsUnknown, phase = "prepare", NEW s \in Seq(Run),
           ToSet(s) \subseteq Batch, \A i, j \in DOMAIN s : s[i] = s[j] => i = j
    PROVE  LET u == FoldLeft(Begin, projector, s)
           IN  /\ Grows(projector, u, {})
               /\ u.rec = [r \in Run |-> IF r \in ToSet(s) THEN [st |-> "queued", rev |-> 1]
                                         ELSE projector.rec[r]]
               /\ Registered(s) \in [Run -> Snapshot]
               /\ SnapshotsFit(u, Registered(s), disk)
<1> DEFINE u == FoldLeft(Begin, projector, s)
           c == Registered(s)
<1>1. /\ projector \in Projectors /\ control \in [Run -> Snapshot] /\ disk \in [Run -> Snapshot]
      /\ calls \in 0..Len(Batches)
  BY Types
<1>2. ToSet(s) \subseteq Run
  BY DEF ToSet
<1>3. \A r \in ToSet(s) : projector.rec[r].st = "none" /\ disk[r].st = "none"
  BY <1>2 DEF FreshIsUnknown, Fresh
<1>4. SnapshotsFit(projector, control, disk) /\ RecFits(projector)
  BY DEF Snapshots, SnapshotsFit
<1>5. \A r \in ToSet(s) : projector.rec[r] = NoSnapshot
  BY <1>2, <1>3, <1>4 DEF RecFits
<1>6. /\ Grows(projector, u, {})
      /\ u.rec = [r \in Run |-> IF r \in ToSet(s) THEN [st |-> "queued", rev |-> 1]
                                ELSE projector.rec[r]]
  BY <1>1, <1>5, BeginGrows
<1>7. c = [r \in Run |-> IF r \in ToSet(s) THEN [st |-> "queued", rev |-> 1] ELSE control[r]]
  BY DEF Registered
<1>8. [st |-> "queued", rev |-> 1] \in Snapshot
  BY States DEF Snapshot, RunState
<1>9. c \in [Run -> Snapshot]
  BY <1>1, <1>7, <1>8
<1> HIDE DEF u, c
<1>10. ASSUME NEW r \in Run
       PROVE  Follows(projector, u, {}, r, control[r], c[r])
  <2>1. CASE r \in ToSet(s)
    BY <1>3, <1>6, <1>7, <2>1 DEF Follows
  <2>2. CASE r \notin ToSet(s)
    BY <1>6, <1>7, <2>2 DEF Follows
  <2> QED
    BY <2>1, <2>2
<1>11. ASSUME NEW r \in Run, projector.rec[r].st = "none", u.rec[r].st # "none"
       PROVE  disk[r].st = "none"
  BY <1>3, <1>6, <1>11
<1>12. SnapshotsFit(u, c, disk)
  BY <1>1, <1>4, <1>6, <1>9, <1>10, <1>11, GrowsFit
<1> QED
  BY <1>6, <1>9, <1>12 DEF u, c

LEMMA ProjectSnapshots ==
    ASSUME TypeOK, Snapshots, FreshIsUnknown, Project
    PROVE  /\ Snapshots' /\ Grows(projector, projector', {})
           /\ projector'.rec = [r \in Run |-> IF r \in Batch THEN [st |-> "queued", rev |-> 1]
                                              ELSE projector.rec[r]]
           /\ control' \in [Run -> Snapshot]
<1>1. /\ phase = "prepare" /\ projector' = FoldLeft(Begin, projector, batch)
      /\ control' = Registered(batch) /\ disk' = disk
  BY DEF Project, AllPrepared
<1>2. /\ batch \in Seq(Run) /\ \A i, j \in DOMAIN batch : batch[i] = batch[j] => i = j
      /\ ToSet(batch) = Batch
  BY Types, BatchIs DEF Batch
<1>3. /\ Grows(projector, projector', {})
      /\ projector'.rec = [r \in Run |-> IF r \in Batch THEN [st |-> "queued", rev |-> 1]
                                         ELSE projector.rec[r]]
      /\ SnapshotsFit(projector', control', disk') /\ control' \in [Run -> Snapshot]
  BY <1>1, <1>2, BegunSnapshots
<1> QED
  BY <1>3 DEF Snapshots

\* The projection of the first k runs, undone.
Part(k) == SubSeq(batch, 1, k)
PartOf(k) == FoldLeft(Begin, projector, Part(k))
LEMMA ProjectionFailsIs ==
    ASSUME TypeOK, Snapshots, FreshIsUnknown, ProjectionFails
    PROVE  \E k \in 0..Len(batch) :
             /\ Part(k) \in Seq(Run) /\ ToSet(Part(k)) \subseteq Batch
             /\ \A i, j \in DOMAIN Part(k) : Part(k)[i] = Part(k)[j] => i = j
             /\ \A i \in DOMAIN Part(k) : i \in DOMAIN batch /\ Part(k)[i] = batch[i]
             /\ PartOf(k) \in Projectors
             /\ Grows(projector, PartOf(k), {})
             /\ PartOf(k).rec = [r \in Run |-> IF r \in ToSet(Part(k))
                                               THEN [st |-> "queued", rev |-> 1]
                                               ELSE projector.rec[r]]
             /\ SnapshotsFit(PartOf(k), control', disk)
             /\ control' = Registered(Part(k)) /\ control' \in [Run -> Snapshot]
             /\ Unwind(PartOf(k))
<1>1. PICK k \in 0..Len(batch) - 1 : /\ Unwind(PartOf(k))
                                     /\ control' = Registered(Part(k))
  BY DEF ProjectionFails, PartOf, Part
<1>2. /\ batch \in Seq(Run) /\ \A i, j \in DOMAIN batch : batch[i] = batch[j] => i = j
      /\ ToSet(batch) = Batch /\ DOMAIN batch = 1..Len(batch) /\ Len(batch) \in Nat
  BY Types, BatchIs DEF Batch
<1>3. /\ Part(k) \in Seq(Run) /\ DOMAIN Part(k) = 1..k
      /\ \A i \in 1..k : i \in DOMAIN batch /\ Part(k)[i] = batch[i]
  <2>1. k \in Nat /\ k <= Len(batch)
    BY <1>2
  <2>2. SubSeq(batch, 1, k) \in Seq(Run) /\ DOMAIN SubSeq(batch, 1, k) = 1..k
        /\ \A i \in 1..k : i \in DOMAIN batch /\ SubSeq(batch, 1, k)[i] = batch[i]
    BY <1>2, <2>1
  <2> QED
    BY <2>2 DEF Part
<1>4. ToSet(Part(k)) \subseteq Batch
  BY <1>2, <1>3 DEF ToSet
<1>5. \A i, j \in DOMAIN Part(k) : Part(k)[i] = Part(k)[j] => i = j
  BY <1>2, <1>3
<1>6. phase = "prepare"
  BY DEF ProjectionFails, AllPrepared
<1>7. /\ Grows(projector, PartOf(k), {})
      /\ PartOf(k).rec = [r \in Run |-> IF r \in ToSet(Part(k))
                                        THEN [st |-> "queued", rev |-> 1]
                                        ELSE projector.rec[r]]
      /\ Registered(Part(k)) \in [Run -> Snapshot]
      /\ SnapshotsFit(PartOf(k), Registered(Part(k)), disk)
  BY <1>3, <1>4, <1>5, <1>6, BegunSnapshots DEF PartOf
<1>8. PartOf(k) \in Projectors
  BY <1>7 DEF Grows
<1>9. k \in 0..Len(batch)
  BY <1>2
<1> QED
  BY <1>1, <1>3, <1>4, <1>5, <1>7, <1>8, <1>9

LEMMA ProjectionFailsSnapshots ==
    ASSUME TypeOK, Snapshots, FreshIsUnknown, ProjectionFails
    PROVE  Snapshots' /\ control' \in [Run -> Snapshot] /\ projector' \in Projectors
<1>1. PICK k \in 0..Len(batch) :
             /\ PartOf(k) \in Projectors
             /\ SnapshotsFit(PartOf(k), control', disk)
             /\ control' \in [Run -> Snapshot]
             /\ Unwind(PartOf(k))
  BY ProjectionFailsIs
<1> DEFINE p == PartOf(k)
<1>2. /\ Grows(p, projector', {}) /\ projector'.rec = Ended(p, Known(p), Fault)
  BY <1>1, UnwindIs
<1>3. disk' = disk /\ disk \in [Run -> Snapshot]
  BY Types DEF ProjectionFails
<1> HIDE DEF p
<1>4. ASSUME NEW r \in Run
      PROVE  /\ Follows(p, projector', {}, r, control'[r], control'[r])
             /\ p.rec[r].st = "none" => projector'.rec[r].st = "none"
  <2>1. p.rec[r].st = "none" => projector'.rec[r] = p.rec[r]
    BY <1>2 DEF Ended, Endable, Known
  <2> QED
    BY <2>1 DEF Follows
<1>5. SnapshotsFit(projector', control', disk)
  BY <1>1, <1>2, <1>3, <1>4, GrowsFit DEF p
<1>6. SnapshotsFit(projector', control', disk')
  BY <1>3, <1>5
<1> QED
  BY <1>1, <1>2, <1>6 DEF Snapshots, Grows

\* The registry brought up to the live projection.
LEMMA CurrentFits ==
    ASSUME TypeOK, Snapshots, NEW r \in Run, control[r].st # "none",
           Behind(r) => Progresses(control[r], Live(r))
    PROVE  /\ SnapshotsFit(projector, [control EXCEPT ![r] = Current(r)], disk)
           /\ Current(r) \in Snapshot /\ Current(r).st # "none"
           /\ control[r].st \in Terminal => Current(r) = control[r]
           /\ Current(r).st \in Terminal => projector.rec[r].st \in Terminal
           /\ Current(r).st \notin Terminal => Current(r) = projector.rec[r]
<1> DEFINE x == projector.rec[r]
           c == [control EXCEPT ![r] = Current(r)]
<1>1. /\ projector \in Projectors /\ control \in [Run -> Snapshot]
      /\ x \in Snapshot /\ control[r] \in Snapshot
  BY Types DEF Projectors
<1>2. /\ RecFits(projector) /\ QueueFits(projector) /\ ControlFits(projector, control)
      /\ DiskFits(projector, disk) /\ EndIsWritten(projector, control, disk)
  BY DEF Snapshots, SnapshotsFit
<1>3. x.st # "stopped" /\ x.st # "none" /\ Fits(control[r], x)
  BY <1>2 DEF RecFits, ControlFits
<1>4. Behind(r) => control[r].st \notin Terminal
  BY DEF Progresses
<1>5. Current(r) = IF x.rev > control[r].rev THEN x ELSE control[r]
  BY DEF Current, Behind, Live
<1>6. AsV1(x) = x /\ x.rev \in Nat /\ control[r].rev \in Nat
  BY <1>1, <1>3, SnapshotIs
<1>7. Fits(x, x)
  BY <1>1, <1>3, <1>6, FitsSame
<1>8. Fits(Current(r), x) /\ Current(r) \in Snapshot /\ Current(r).st # "none"
  BY <1>1, <1>3, <1>5, <1>7
<1>9. /\ Current(r).rev = x.rev
      /\ AsV1(Current(r)) = x
  <2>1. CASE x.rev > control[r].rev
    BY <1>5, <1>6, <2>1
  <2>2. CASE ~(x.rev > control[r].rev)
    BY <1>3, <1>5, <1>6, <2>2 DEF Fits
  <2> QED
    BY <2>1, <2>2
<1>10. /\ control[r].st \in Terminal => Current(r) = control[r]
       /\ Current(r).st = "stopped" <=> control[r].st = "stopped"
  <2>1. "stopped" \in Terminal
    BY DEF Terminal
  <2> QED
    BY <1>3, <1>4, <1>5, <2>1 DEF Behind, Live
<1>11. Current(r).st \in Terminal => x.st \in Terminal
  BY <1>8, <1>9, SnapshotIs DEF Terminal
<1>12. Current(r).st \notin Terminal => Current(r) = x
  BY <1>8, <1>9, SnapshotIs DEF Terminal
<1>13. ControlFits(projector, c)
  BY <1>1, <1>2, <1>3, <1>8 DEF ControlFits
<1>14. EndIsWritten(projector, c, disk)
  <2>1. \A s \in Run : End(projector, c, s) = End(projector, control, s)
    BY <1>1, <1>10 DEF End
  <2> QED
    BY <1>2, <2>1 DEF EndIsWritten
<1> QED
  BY <1>2, <1>8, <1>10, <1>11, <1>12, <1>13, <1>14 DEF SnapshotsFit

\* status, wait and stop.
Stops(c) == request[c].act = "stop" /\ Current(request[c].run).st \notin Terminal
Stopped(c) == [st |-> "stopped", rev |-> Current(request[c].run).rev + 1]
LEMMA ActIs ==
    ASSUME TypeOK, Snapshots, Requests, NEW c \in Call, Act(c)
    PROVE  LET r == request[c].run
           IN  /\ Snapshots' /\ control' \in [Run -> Snapshot] /\ r \in Run
               /\ Grows(projector, projector', IF Stops(c) THEN {r} ELSE {})
               /\ \A s \in Run \ {r} : projector'.rec[s] = projector.rec[s]
                                       /\ control'[s] = control[s]
               /\ IF Stops(c) THEN /\ projector.rec[r].st \in ToSet(Active)
                                   /\ projector'.rec[r].st \in Terminal
                                   /\ control[r].st \notin Terminal
                                   /\ revoked' = revoked \cup {r}
                                   /\ projector'.queue = projector.queue
                                                         \o <<Op("control", r, Stopped(c))>>
                  ELSE /\ projector' = projector
                       /\ \/ revoked' = revoked
                          \/ /\ revoked' = revoked \cup {r}
                             /\ projector.rec[r].st \in Terminal
               /\ control[r].st \in Terminal => control'[r] = control[r]
               /\ control'[r].st \in Terminal => projector'.rec[r].st \in Terminal
               /\ control'[r].st # "none" /\ disk[r].st # "none"
<1> DEFINE r == request[c].run
           now == Current(r)
           stopped == [st |-> "stopped", rev |-> now.rev + 1]
           c1 == [control EXCEPT ![r] = now]
<1>1. r \in Run /\ control[r].st # "none" /\ disk[r].st # "none"
  BY DEF Requests, RequestFits, Act, At
<1>2. Behind(r) => Progresses(control[r], Live(r))
  BY DEF Act
<1>3. /\ SnapshotsFit(projector, c1, disk)
      /\ now \in Snapshot /\ now.st # "none"
      /\ control[r].st \in Terminal => now = control[r]
      /\ now.st \in Terminal => projector.rec[r].st \in Terminal
      /\ now.st \notin Terminal => now = projector.rec[r]
  BY <1>1, <1>2, CurrentFits
<1>4. /\ control' = [control EXCEPT ![r] = IF Stops(c) THEN stopped ELSE now]
      /\ revoked' = IF now.st \in Terminal \/ Stops(c) THEN revoked \cup {r} ELSE revoked
      /\ projector' = IF Stops(c) THEN ApplyStopped(projector, r, stopped) ELSE projector
      /\ disk' = disk
  BY DEF Act, Stops
<1>5. /\ projector \in Projectors /\ control \in [Run -> Snapshot] /\ disk \in [Run -> Snapshot]
  BY Types
<1>6. "stopped" \in Terminal /\ "none" \notin Terminal
  BY DEF Terminal
<1> HIDE DEF r
<1>7. stopped \in Snapshot /\ now.rev \in Nat
  BY <1>3, <1>6, SnapshotIs DEF Snapshot, RunState
<1>8. control' \in [Run -> Snapshot] /\ \A s \in Run \ {r} : control'[s] = control[s]
  BY <1>3, <1>4, <1>5, <1>7
<1> HIDE DEF now
<1>9. CASE ~Stops(c)
  <2>1. control' = c1 /\ projector' = projector /\ control'[r] = now
    BY <1>1, <1>4, <1>5, <1>9
  <2>2. SnapshotsFit(projector', control', disk')
    BY <1>3, <1>4, <2>1
  <2>3. Grows(projector, projector', {})
    BY <1>5, <2>1, NothingGrows
  <2>4. \/ revoked' = revoked
        \/ revoked' = revoked \cup {r} /\ projector.rec[r].st \in Terminal
    <3>1. CASE now.st \in Terminal
      <4>1. revoked' = revoked \cup {r}
        BY <1>4, <3>1, Zenon
      <4> QED
        BY <1>3, <3>1, <4>1
    <3>2. CASE now.st \notin Terminal
      <4>1. revoked' = revoked
        BY <1>4, <1>9, <3>2, Zenon
      <4> QED
        BY <4>1
    <3> QED
      BY <3>1, <3>2
  <2> QED
    BY <1>1, <1>3, <1>8, <1>9, <2>1, <2>2, <2>3, <2>4 DEF Snapshots, r
<1>10. CASE Stops(c)
  <2> DEFINE x == AsV1(stopped)
             op == Op("control", r, stopped)
             y == projector.rec[r]
  <2>1. now.st \notin Terminal /\ now = y
    BY <1>3, <1>10 DEF Stops, r, now
  <2>2. stopped.st = "stopped" /\ stopped.rev = y.rev + 1
    BY <2>1
  <2>3. x \in Snapshot /\ x.st = "interrupted" /\ x.rev = y.rev + 1 /\ y.rev \in Nat
    BY <1>7, <2>1, <2>2, SnapshotIs
  <2>4. projector' = Enqueued([projector EXCEPT !.rec[r] = x], "control", r, stopped)
    BY <1>4, <1>10, <2>1, <2>2, <2>3 DEF ApplyStopped
  <2>5. Put(projector, projector', r, x, <<op>>) /\ op \in Operation
    BY <1>1, <1>5, <1>7, <2>3, <2>4, PutIs
  <2>6. Moved(y, x)
    <3>1. Rank(x.st) = 4
      BY <2>3, Ranks DEF Terminal
    <3>2. y.st \in RunState /\ y.st # "none"
      BY <1>3, <2>1, SnapshotIs
    <3>3. Rank(y.st) <= Rank(x.st)
      BY <3>1, <3>2, Ranks
    <3> HIDE DEF x, y
    <3> QED
      BY <2>1, <2>3, <3>2, <3>3 DEF Moved
  <2>7. op.run = r /\ op.snap = stopped /\ op.kind = "control"
    BY DEF Op
  <2> HIDE DEF op
  <2>8. \E o \in Operation :
           /\ <<op>> = <<o>> /\ o.run = r /\ AsV1(o.snap) = x
           /\ o.kind = "control" <=> o.snap.st = "stopped"
           /\ o.snap.st = "stopped" <=> r \in {r}
    BY <2>2, <2>5, <2>7
  <2> HIDE DEF x, stopped
  <2>9. Grows(projector, projector', {r})
    BY <1>1, <1>5, <2>3, <2>5, <2>6, <2>8, PutGrows
  <2>10. /\ projector'.rec[r] = x /\ \A s \in Run \ {r} : projector'.rec[s] = projector.rec[s]
         /\ projector'.queue = projector.queue \o <<op>>
    BY <1>1, <1>5, <2>5 DEF Put, Projectors
  <2>11. control'[r] = stopped
    BY <1>1, <1>4, <1>5, <1>10
  <2>12. ASSUME NEW s \in Run
         PROVE  /\ Follows(projector, projector', {r}, s, c1[s], control'[s])
                /\ projector.rec[s].st = "none" => projector'.rec[s].st = "none"
    <3>1. CASE s = r
      <4>1. y.st # "none" /\ AsV1(stopped) = x /\ x # y
        BY <1>3, <2>1, <2>3, <2>6 DEF x, Moved
      <4> QED
        BY <2>2, <2>10, <2>11, <3>1, <4>1 DEF Follows
    <3>2. CASE s # r
      <4>1. projector'.rec[s] = projector.rec[s] /\ control'[s] = control[s] /\ c1[s] = control[s]
        BY <1>5, <1>8, <2>10, <3>2
      <4> QED
        BY <4>1 DEF Follows
    <3> QED
      BY <3>1, <3>2
  <2>13. c1 \in [Run -> Snapshot]
    BY <1>3, <1>5
  <2>14. y.st # "none"
    BY <1>3, <2>1
  <2> HIDE DEF c1
  <2>15. SnapshotsFit(projector', control', disk)
    <3> DEFINE S == {r}
    <3>1. \A s \in S : projector.rec[s].st # "none"
      BY <2>14
    <3>2. \A s \in Run : projector.rec[s].st = "none" /\ projector'.rec[s].st # "none"
                         => disk[s].st = "none"
      BY <2>12
    <3>3. \A s \in Run : Follows(projector, projector', S, s, c1[s], control'[s])
      BY <2>12
    <3>4. SnapshotsFit(projector, c1, disk)
      BY <1>3
    <3>5. Grows(projector, projector', S)
      BY <2>9
    <3>6. projector \in Projectors
      BY <1>5
    <3>7. disk \in [Run -> Snapshot]
      BY <1>5
    <3>8. control' \in [Run -> Snapshot]
      BY <1>8
    <3> HIDE DEF S
    <3> QED
      BY <2>13, <3>1, <3>2, <3>3, <3>4, <3>5, <3>6, <3>7, <3>8, GrowsFit
  <2>16. Snapshots'
    <3>1. SnapshotsFit(projector', control', disk')
      BY <1>4, <2>15
    <3> QED
      BY <3>1 DEF Snapshots
  <2>17. y.st \in ToSet(Active)
    BY <1>1, <2>1, <2>14, RecStates
  <2>18. x.st \in Terminal /\ control'[r].st = "stopped" /\ control[r].st \notin Terminal
    BY <1>3, <2>1, <2>2, <2>3, <2>11 DEF Terminal
  <2>19. revoked' = revoked \cup {r}
    BY <1>4, <1>10
  <2>20. op = Op("control", r, Stopped(c))
    BY DEF op, stopped, Stopped, now, r
  <2> QED
    BY <1>1, <1>8, <1>10, <2>9, <2>10, <2>16, <2>17, <2>18, <2>19, <2>20, <1>6 DEF r
<1> QED
  BY <1>9, <1>10

----------------------------------------------------------------------------
(* The queue: Persist takes its head from p to u and the store from d to   *)
(* d2.                                                                     *)

Taken(p, u, d, d2) ==
    /\ p.queue # <<>>
    /\ u \in Projectors
    /\ u.rec = p.rec /\ u.queue = Tail(p.queue)
    /\ p.failed => u.failed
    /\ \/ d2 = d /\ u.failed
       \/ d2 = [d EXCEPT ![p.queue[1].run] = p.queue[1].snap]

LEMMA QueueRuns ==
    ASSUME NEW p \in Projectors
    PROVE  /\ DOMAIN p.queue = 1..Len(p.queue) /\ Len(p.queue) \in Nat
           /\ \A i \in DOMAIN p.queue : p.queue[i] \in Operation /\ p.queue[i].run \in Run
<1>1. p.queue \in Seq(Operation)
  BY DEF Projectors
<1> DEFINE q == p.queue
<1>2. q \in Seq(Operation)
  BY <1>1
<1> HIDE DEF q
<1>3. /\ DOMAIN q = 1..Len(q) /\ Len(q) \in Nat
      /\ \A i \in DOMAIN q : q[i] \in Operation
  BY <1>2
<1> QED
  BY <1>3 DEF q, Operation

LEMMA TailIs ==
    ASSUME NEW p \in Projectors, p.queue # <<>>
    PROVE  /\ p.queue \in Seq(Operation) /\ Tail(p.queue) \in Seq(Operation)
           /\ Len(p.queue) \in Nat \ {0} /\ Len(Tail(p.queue)) = Len(p.queue) - 1
           /\ DOMAIN p.queue = 1..Len(p.queue) /\ DOMAIN Tail(p.queue) = 1..Len(p.queue) - 1
           /\ \A i \in 1..Len(p.queue) - 1 : Tail(p.queue)[i] = p.queue[i + 1]
           /\ Head(p.queue) = p.queue[1] /\ 1 \in DOMAIN p.queue
           /\ p.queue[1] \in Operation
<1>1. p.queue \in Seq(Operation)
  BY DEF Projectors
<1> DEFINE q == p.queue
<1>2. q \in Seq(Operation) /\ q # <<>>
  BY <1>1
<1> HIDE DEF q
<1>3. /\ Tail(q) \in Seq(Operation)
      /\ Len(q) \in Nat \ {0} /\ Len(Tail(q)) = Len(q) - 1
      /\ \A i \in 1..Len(q) - 1 : Tail(q)[i] = q[i + 1]
      /\ Head(q) = q[1] /\ q[1] \in Operation
  BY <1>2
<1>4. DOMAIN q = 1..Len(q) /\ DOMAIN Tail(q) = 1..Len(q) - 1
  BY <1>2, <1>3
<1>5. 1 \in DOMAIN q
  BY <1>3, <1>4
<1> QED
  BY <1>2, <1>3, <1>4, <1>5 DEF q

\* The head comes before every other write of its run.
LEMMA HeadIsFirst ==
    ASSUME NEW p \in Projectors, p.queue # <<>>, QueueFits(p), NEW d \in [Run -> Snapshot],
           DiskFits(p, d)
    PROVE  LET op == p.queue[1]
           IN  /\ op.run \in Run /\ op.snap \in Snapshot /\ op.kind \in {"snapshot", "control"}
               /\ p.rec[op.run].st # "none" /\ op.snap.st # "none"
               /\ Fits(op.snap, p.rec[op.run])
               /\ op.kind = "control" <=> op.snap.st = "stopped"
               /\ d[op.run].st # "none" => Order(d[op.run], op.snap)
               /\ \A i \in 1..Len(p.queue) - 1 :
                     p.queue[i + 1].run = op.run => Order(op.snap, p.queue[i + 1].snap)
<1> DEFINE op == p.queue[1]
<1>1. /\ 1 \in DOMAIN p.queue /\ op \in Operation /\ DOMAIN p.queue = 1..Len(p.queue)
      /\ Len(p.queue) \in Nat
  BY TailIs
<1>2. op.run \in Run /\ op.snap \in Snapshot /\ op.kind \in {"snapshot", "control"}
  BY <1>1 DEF Operation
<1>3. OpFits(p, op)
  BY <1>1 DEF QueueFits
<1>4. d[op.run].st # "none" => Order(d[op.run], op.snap)
  BY <1>1 DEF DiskFits
<1>5. ASSUME NEW i \in 1..Len(p.queue) - 1, p.queue[i + 1].run = op.run
      PROVE  Order(op.snap, p.queue[i + 1].snap)
  <2>1. i + 1 \in DOMAIN p.queue /\ 1 < i + 1
    BY <1>1
  <2> QED
    BY <1>1, <1>5, <2>1 DEF QueueFits
<1> QED
  BY <1>2, <1>3, <1>4, <1>5 DEF OpFits

LEMMA TakenSaved ==
    ASSUME NEW p \in Projectors, NEW u, NEW d \in [Run -> Snapshot], NEW d2,
           QueueFits(p), DiskFits(p, d), Taken(p, u, d, d2),
           NEW r \in Run, NEW st \in Terminal, NEW n \in Nat, Saved(p, d, r, st, n)
    PROVE  Saved(u, d2, r, st, IF n = 0 THEN 0 ELSE n - 1)
<1> DEFINE m == IF n = 0 THEN 0 ELSE n - 1
           op == p.queue[1]
<1>0. p.queue # <<>>
  BY DEF Taken
<1>1. /\ u.queue = Tail(p.queue)
      /\ p.failed => u.failed
      /\ \/ d2 = d /\ u.failed
         \/ d2 = [d EXCEPT ![op.run] = op.snap]
  BY DEF Taken
<1>2. /\ op.run \in Run
      /\ d[op.run].st # "none" => Order(d[op.run], op.snap)
  BY <1>0, HeadIsFirst
<1>3. /\ DOMAIN p.queue = 1..Len(p.queue) /\ DOMAIN u.queue = 1..Len(p.queue) - 1
      /\ \A i \in 1..Len(p.queue) - 1 : u.queue[i] = p.queue[i + 1]
      /\ Len(p.queue) \in Nat
  BY <1>0, <1>1, TailIs
<1>4. CASE u.failed
  BY <1>4 DEF Saved
<1>5. CASE ~u.failed /\ d[r].st = st
  <2>1. st # "none"
    BY DEF Terminal
  <2>2. r # op.run
    BY <1>2, <1>5, <2>1 DEF Order
  <2>3. d2[r] = d[r]
    BY <1>1, <1>2, <1>5, <2>2
  <2> QED
    BY <1>5, <2>3 DEF Saved
<1>6. ASSUME ~u.failed, NEW i \in DOMAIN p.queue, i <= n, p.queue[i].run = r,
             p.queue[i].snap.st = st
      PROVE  Saved(u, d2, r, st, m)
  <2>1. CASE i = 1
    <3>1. d2[r] = op.snap
      BY <1>1, <1>2, <1>6, <2>1
    <3> QED
      BY <1>6, <2>1, <3>1 DEF Saved
  <2>2. CASE i # 1
    <3>1. /\ i - 1 \in 1..Len(p.queue) - 1 /\ (i - 1) + 1 = i /\ i - 1 <= m
      BY <1>3, <1>6, <2>2
    <3>2. u.queue[i - 1] = p.queue[i] /\ i - 1 \in DOMAIN u.queue
      BY <1>3, <3>1
    <3> QED
      BY <1>6, <3>1, <3>2 DEF Saved
  <2> QED
    BY <2>1, <2>2
<1>7. \/ p.failed
      \/ d[r].st = st
      \/ \E i \in DOMAIN p.queue : i <= n /\ p.queue[i].run = r /\ p.queue[i].snap.st = st
  BY DEF Saved
<1>8. CASE ~u.failed
  <2>1. ~p.failed
    BY <1>1, <1>8
  <2>2. CASE d[r].st = st
    BY <1>5, <1>8, <2>2
  <2>3. CASE \E i \in DOMAIN p.queue : i <= n /\ p.queue[i].run = r
                                       /\ p.queue[i].snap.st = st
    BY <1>6, <1>8, <2>3
  <2> QED
    BY <1>7, <2>1, <2>2, <2>3
<1> QED
  BY <1>4, <1>8

LEMMA TakenFit ==
    ASSUME NEW p \in Projectors, NEW u, NEW c \in [Run -> Snapshot], NEW c2,
           NEW d \in [Run -> Snapshot], NEW d2 \in [Run -> Snapshot],
           SnapshotsFit(p, c, d), Taken(p, u, d, d2),
           \/ c2 = c
           \/ /\ c2 = [c EXCEPT ![p.queue[1].run] = p.queue[1].snap]
              /\ p.queue[1].kind = "snapshot" /\ c[p.queue[1].run].st \notin Terminal
    PROVE  SnapshotsFit(u, c2, d2)
<1> DEFINE op == p.queue[1]
           r == op.run
<1>0. p.queue # <<>>
  BY DEF Taken
<1>1. RecFits(p) /\ QueueFits(p) /\ ControlFits(p, c) /\ DiskFits(p, d) /\ EndIsWritten(p, c, d)
  BY DEF SnapshotsFit
<1>2. /\ u.rec = p.rec /\ u.queue = Tail(p.queue)
      /\ d2 = d \/ d2 = [d EXCEPT ![r] = op.snap]
  BY DEF Taken
<1>3. /\ op.run \in Run /\ op.snap \in Snapshot /\ op.kind \in {"snapshot", "control"}
      /\ p.rec[op.run].st # "none" /\ op.snap.st # "none"
      /\ Fits(op.snap, p.rec[op.run])
      /\ op.kind = "control" <=> op.snap.st = "stopped"
      /\ \A i \in 1..Len(p.queue) - 1 :
            p.queue[i + 1].run = op.run => Order(op.snap, p.queue[i + 1].snap)
  BY <1>0, <1>1, HeadIsFirst
<1>4. /\ DOMAIN p.queue = 1..Len(p.queue) /\ DOMAIN u.queue = 1..Len(p.queue) - 1
      /\ \A i \in 1..Len(p.queue) - 1 : u.queue[i] = p.queue[i + 1]
      /\ Len(p.queue) \in Nat \ {0} /\ Len(u.queue) = Len(p.queue) - 1
  BY <1>0, <1>2, TailIs
<1>10. /\ r \in Run /\ p.rec[r].st # "none" /\ Fits(op.snap, p.rec[r])
       /\ \A i \in 1..Len(p.queue) - 1 :
             p.queue[i + 1].run = r => Order(op.snap, p.queue[i + 1].snap)
  BY <1>3
<1>11. \/ c2 = c
       \/ /\ c2 = [c EXCEPT ![r] = op.snap]
          /\ op.snap.st # "stopped" /\ c[r].st \notin Terminal
  BY <1>3
<1>12. \A i \in DOMAIN p.queue : p.queue[i].run \in Run
  <2>1. \A i \in DOMAIN p.queue : p.queue[i] \in Operation
    BY <1>0, TailIs
  <2> QED
    BY <2>1 DEF Operation
<1> HIDE DEF r, op
<1>5. RecFits(u)
  BY <1>1, <1>2 DEF RecFits
<1>6. QueueFits(u)
  <2>1. ASSUME NEW i \in DOMAIN u.queue
        PROVE  i \in Nat /\ i + 1 \in DOMAIN p.queue /\ u.queue[i] = p.queue[i + 1]
    BY <1>4
  <2>2. ASSUME NEW i \in DOMAIN u.queue
        PROVE  OpFits(u, u.queue[i])
    <3>1. OpFits(p, p.queue[i + 1]) /\ u.queue[i] = p.queue[i + 1]
      BY <1>1, <2>1 DEF QueueFits
    <3> QED
      BY <1>2, <3>1 DEF OpFits
  <2>3. ASSUME NEW i \in DOMAIN u.queue, NEW j \in DOMAIN u.queue, i < j,
               u.queue[i].run = u.queue[j].run
        PROVE  Order(u.queue[i].snap, u.queue[j].snap)
    <3>1. i + 1 < j + 1
      BY <2>1, <2>3
    <3> QED
      BY <1>1, <2>1, <2>3, <3>1 DEF QueueFits
  <2> QED
    BY <2>2, <2>3 DEF QueueFits
<1>7. ControlFits(u, c2)
  <2>1. ASSUME NEW s \in Run
        PROVE  c2[s] = c[s] \/ (s = r /\ c2[s] = op.snap)
    BY <1>10, <1>11
  <2>2. ASSUME NEW s \in Run
        PROVE  /\ c2[s].st = "none" <=> u.rec[s].st = "none"
               /\ c2[s].st = "none" => c2[s] = NoSnapshot
               /\ c2[s].st # "none" => Fits(c2[s], u.rec[s])
    <3>1. CASE c2[s] = c[s]
      BY <1>1, <1>2, <3>1 DEF ControlFits
    <3>2. CASE s = r /\ c2[s] = op.snap
      BY <1>2, <1>3, <1>10, <3>2
    <3> QED
      BY <2>1, <3>1, <3>2
  <2> QED
    BY <2>2 DEF ControlFits
<1>8. DiskFits(u, d2)
  <2>1. ASSUME NEW s \in Run
        PROVE  d2[s] = d[s] \/ (s = r /\ d2[s] = op.snap)
    BY <1>2, <1>10
  <2>2. ASSUME NEW s \in Run
        PROVE  /\ d2[s].st = "none" => d2[s] = NoSnapshot
               /\ u.rec[s].st # "none" /\ d2[s].st # "none" => Fits(d2[s], u.rec[s])
    <3>1. CASE d2[s] = d[s]
      BY <1>1, <1>2, <3>1 DEF DiskFits
    <3>2. CASE s = r /\ d2[s] = op.snap
      BY <1>2, <1>3, <1>10, <3>2
    <3> QED
      BY <2>1, <3>1, <3>2
  <2>3. ASSUME NEW i \in DOMAIN u.queue, d2[u.queue[i].run].st # "none"
        PROVE  Order(d2[u.queue[i].run], u.queue[i].snap)
    <3>1. /\ i \in 1..Len(p.queue) - 1 /\ i + 1 \in DOMAIN p.queue
          /\ u.queue[i] = p.queue[i + 1]
      BY <1>4
    <3>2. u.queue[i].run \in Run
      BY <1>12, <3>1
    <3>3. CASE d2[u.queue[i].run] = d[u.queue[i].run]
      BY <1>1, <2>3, <3>1, <3>3 DEF DiskFits
    <3>4. CASE u.queue[i].run = r /\ d2[u.queue[i].run] = op.snap
      BY <1>10, <3>1, <3>4
    <3> QED
      BY <2>1, <3>2, <3>3, <3>4
  <2> QED
    BY <2>2, <2>3 DEF DiskFits
<1>9. EndIsWritten(u, c2, d2)
  <2>1. ASSUME NEW s \in Run, u.rec[s].st \in Terminal
        PROVE  Saved(u, d2, s, End(u, c2, s), Len(u.queue))
    <3>1. c2[s].st = "stopped" <=> c[s].st = "stopped"
      <4>1. "stopped" \in Terminal
        BY DEF Terminal
      <4> QED
        BY <1>10, <1>11, <4>1
    <3>2. End(u, c2, s) = End(p, c, s)
      BY <1>2, <3>1 DEF End
    <3>3. End(p, c, s) \in Terminal
      BY <1>2, <2>1 DEF End, Terminal
    <3>4. Saved(p, d, s, End(p, c, s), Len(p.queue))
      BY <1>1, <1>2, <2>1 DEF EndIsWritten
    <3>5. Len(p.queue) \in Nat
      BY <1>4
    <3>6. Saved(u, d2, s, End(p, c, s), IF Len(p.queue) = 0 THEN 0 ELSE Len(p.queue) - 1)
      BY <1>1, <3>3, <3>4, <3>5, TakenSaved
    <3> QED
      BY <1>4, <3>2, <3>6
  <2> QED
    BY <2>1 DEF EndIsWritten
<1> QED
  BY <1>5, <1>6, <1>7, <1>8, <1>9 DEF SnapshotsFit

\* The write at the head of the queue, that is over.
LEMMA PersistIs ==
    ASSUME TypeOK, Snapshots, Persist
    PROVE  LET r == projector.queue[1].run
           IN  /\ Snapshots' /\ Taken(projector, projector', disk, disk')
               /\ control' \in [Run -> Snapshot] /\ disk' \in [Run -> Snapshot]
               /\ r \in Run /\ projector.rec[r].st # "none"
               /\ \A s \in Run \ {r} : control'[s] = control[s] /\ disk'[s] = disk[s]
               /\ disk[r].st \notin Terminal
               /\ disk[r].st # "none" => disk'[r].st # "none"
               /\ control[r].st \in Terminal => control'[r] = control[r]
               /\ control[r].st # "none" => control'[r].st # "none"
               /\ \/ revoked' = revoked
                  \/ revoked' = revoked \cup {r} /\ projector.rec[r].st \in Terminal
<1> DEFINE op == projector.queue[1]
           r == op.run
           updates == op.kind = "snapshot" /\ op.snap.rev > 1
           known == Progresses(control[r], op.snap)
<1>1. projector \in Projectors
  BY Types
<1>2. control \in [Run -> Snapshot] /\ disk \in [Run -> Snapshot]
  BY Types
<1>3. projector.queue # <<>>
  BY DEF Persist
<1>4. QueueFits(projector)
  BY DEF Snapshots, SnapshotsFit
<1>5. DiskFits(projector, disk)
  BY DEF Snapshots, SnapshotsFit
<1>6. /\ r \in Run /\ op.snap \in Snapshot /\ projector.rec[r].st # "none" /\ op.snap.st # "none"
      /\ Fits(op.snap, projector.rec[r])
      /\ disk[r].st # "none" => Order(disk[r], op.snap)
  BY <1>1, <1>2, <1>3, <1>4, <1>5, HeadIsFirst
<1>7. Head(projector.queue) = op /\ Tail(projector.queue) \in Seq(Operation)
  BY <1>1, <1>3, TailIs
<1>8. \/ /\ disk' = [disk EXCEPT ![r] = op.snap]
         /\ control' = IF updates /\ known THEN [control EXCEPT ![r] = op.snap] ELSE control
         /\ revoked' = IF updates /\ known /\ op.snap.st \in Terminal
                       THEN revoked \cup {r} ELSE revoked
         /\ projector' = [projector EXCEPT !.queue = Tail(@),
                                           !.failed = @ \/ (updates /\ ~known)]
      \/ /\ disk' \in {disk, [disk EXCEPT ![r] = op.snap]}
         /\ projector' = [projector EXCEPT !.queue = Tail(@), !.failed = TRUE]
         /\ control' = control /\ revoked' = revoked
  <2>1. \/ /\ Storable(r, op.snap)
           /\ disk' = [disk EXCEPT ![r] = op.snap]
           /\ reserved' = reserved \ {r}
           /\ control' = IF updates /\ known
                         THEN [control EXCEPT ![r] = op.snap] ELSE control
           /\ revoked' = IF updates /\ known /\ op.snap.st \in Terminal
                         THEN revoked \cup {r} ELSE revoked
           /\ projector' = [projector EXCEPT !.queue = Tail(@),
                                             !.failed = @ \/ (updates /\ ~known)]
           /\ UNCHANGED faults
        \/ /\ \/ ~Storable(r, op.snap) /\ UNCHANGED <<disk, faults>>
              \/ /\ Storable(r, op.snap) /\ faults < MaxFaults
                 /\ faults' = faults + 1
                 /\ disk' \in {disk, [disk EXCEPT ![r] = op.snap]}
           /\ projector' = [projector EXCEPT !.queue = Tail(@), !.failed = TRUE]
           /\ UNCHANGED <<reserved, control, revoked>>
    BY <1>7 DEF Persist
  <2> HIDE DEF op
  <2> QED
    BY <2>1
<1>9. r \in Run
  BY <1>6
<1> HIDE DEF r
<1>10. /\ projector' \in Projectors
       /\ projector'.rec = projector.rec /\ projector'.queue = Tail(projector.queue)
       /\ projector.failed => projector'.failed
       /\ projector'.failed \/ disk' = [disk EXCEPT ![r] = op.snap]
  <2>1. updates \in BOOLEAN /\ known \in BOOLEAN
    BY DEF Progresses
  <2> HIDE DEF updates, known, op
  <2>2. PICK f \in BOOLEAN : projector' = [projector EXCEPT !.queue = Tail(@), !.failed = f]
    <3>1. projector.failed \in BOOLEAN
      BY <1>1 DEF Projectors
    <3>2. (projector.failed \/ (updates /\ ~known)) \in BOOLEAN
      OBVIOUS
    <3> QED
      BY <1>8, <3>1, <3>2
  <2>3. /\ projector' \in Projectors
        /\ projector'.rec = projector.rec /\ projector'.queue = Tail(projector.queue)
    BY <1>1, <1>7, <2>2 DEF Projectors
  <2>4. projector.failed => projector'.failed
    BY <1>1, <1>8 DEF Projectors
  <2>5. projector'.failed \/ disk' = [disk EXCEPT ![r] = op.snap]
    BY <1>1, <1>8 DEF Projectors
  <2> QED
    BY <2>3, <2>4, <2>5
<1>11. disk' = disk \/ disk' = [disk EXCEPT ![r] = op.snap]
  BY <1>8
<1>12. disk' \in [Run -> Snapshot]
  BY <1>2, <1>6, <1>9, <1>11
<1>13. \/ control' = control
       \/ /\ control' = [control EXCEPT ![r] = op.snap] /\ op.kind = "snapshot"
          /\ control[r].st \notin Terminal
  BY <1>8 DEF Progresses
<1>14. control' \in [Run -> Snapshot]
  BY <1>2, <1>6, <1>9, <1>13
<1>15. Taken(projector, projector', disk, disk')
  BY <1>3, <1>10, <1>11 DEF Taken, r
<1>16. SnapshotsFit(projector, control, disk)
  BY DEF Snapshots
<1>17. SnapshotsFit(projector', control', disk')
  BY <1>1, <1>2, <1>12, <1>13, <1>15, <1>16, TakenFit DEF r
<1>18. Snapshots'
  BY <1>17 DEF Snapshots
<1>19. \/ revoked' = revoked
       \/ revoked' = revoked \cup {r} /\ projector.rec[r].st \in Terminal
  <2>1. op.snap.st \in Terminal => projector.rec[r].st \in Terminal
    <3>1. op.snap.st \in Terminal => AsV1(op.snap) = projector.rec[r]
      BY <1>6 DEF Fits, r
    <3> QED
      BY <1>6, <3>1, SnapshotIs DEF Terminal
  <2> HIDE DEF op
  <2> QED
    BY <1>8, <2>1
<1>20. disk[r].st \notin Terminal
  BY <1>6 DEF Order, Terminal, r
<1>21. \A s \in Run \ {r} : control'[s] = control[s] /\ disk'[s] = disk[s]
  BY <1>2, <1>9, <1>11, <1>13
<1>22. /\ disk[r].st # "none" => disk'[r].st # "none"
       /\ control[r].st # "none" => control'[r].st # "none"
       /\ control[r].st \in Terminal => control'[r] = control[r]
  <2>1. op.snap.st # "none"
    BY <1>6
  <2> HIDE DEF op
  <2> QED
    BY <1>2, <1>9, <1>11, <1>13, <2>1
<1>23. projector.rec[r].st # "none"
  BY <1>6 DEF r
<1> QED
  BY <1>9, <1>12, <1>14, <1>15, <1>18, <1>19, <1>20, <1>21, <1>22, <1>23 DEF r

\* Before the store is initialized nothing is projected.
LEMMA InitializeIs ==
    ASSUME TypeOK, Snapshots, \A r \in Run : RunFits(r), Initialize
    PROVE  /\ Snapshots' /\ disk' \in [Run -> Snapshot]
           /\ \A r \in Run : /\ projector.rec[r].st = "none"
                             /\ disk'[r].st = "none" <=> disk[r].st = "none"
                             /\ disk[r].st \in Terminal => disk'[r] = disk[r]
                             /\ disk'[r].st \notin ToSet(Active)
<1>1. projector \in Projectors /\ control \in [Run -> Snapshot] /\ disk \in [Run -> Snapshot]
  BY Types
<1>2. ~initialized /\ disk' = [r \in Run |-> Interrupt(disk[r])]
      /\ UNCHANGED <<projector, control>>
  BY DEF Initialize
<1>3. \A r \in Run : projector.rec[r].st = "none"
  BY <1>2 DEF RunFits
<1>4. SnapshotsFit(projector, control, disk)
  BY DEF Snapshots
<1>5. RecFits(projector) /\ QueueFits(projector) /\ ControlFits(projector, control)
      /\ DiskFits(projector, disk) /\ EndIsWritten(projector, control, disk)
  BY <1>4 DEF SnapshotsFit
<1>6. DOMAIN projector.queue = {}
  <2>1. \A i \in DOMAIN projector.queue : projector.rec[projector.queue[i].run].st # "none"
    BY <1>5 DEF QueueFits, OpFits
  <2> QED
    BY <1>1, <1>3, <2>1, QueueRuns
<1>7. ASSUME NEW r \in Run
      PROVE  /\ disk'[r] \in Snapshot
             /\ disk'[r].st = "none" <=> disk[r].st = "none"
             /\ disk[r].st \in Terminal \cup {"none"} => disk'[r] = disk[r]
             /\ disk'[r].st \notin ToSet(Active)
  <2>1. disk'[r] = Interrupt(disk[r]) /\ disk[r] \in Snapshot
    BY <1>1, <1>2
  <2>2. disk[r].rev \in Nat
    BY <2>1, SnapshotIs
  <2>3. \A st \in Terminal \cup {"none"} : st \notin ToSet(Active)
    BY States DEF Terminal
  <2>4. "interrupted" \in Terminal
    BY DEF Terminal
  <2>5. CASE disk[r].st \in ToSet(Active)
    <3>1. disk'[r] = [st |-> "interrupted", rev |-> disk[r].rev + 1]
      BY <2>1, <2>5 DEF Interrupt
    <3>2. disk'[r] \in Snapshot
      BY <2>2, <2>4, <3>1 DEF Snapshot, RunState
    <3> QED
      BY <2>3, <2>4, <2>5, <3>1, <3>2
  <2>6. CASE disk[r].st \notin ToSet(Active)
    BY <2>1, <2>6 DEF Interrupt
  <2> QED
    BY <2>5, <2>6
<1>8. disk' \in [Run -> Snapshot]
  BY <1>2, <1>7
<1>9. DiskFits(projector, disk')
  <2>1. "none" \notin Terminal
    BY DEF Terminal
  <2> QED
    BY <1>3, <1>5, <1>6, <1>7, <2>1 DEF DiskFits
<1>10. EndIsWritten(projector, control, disk')
  BY <1>3 DEF EndIsWritten, Terminal
<1>11. SnapshotsFit(projector', control', disk')
  BY <1>2, <1>5, <1>9, <1>10 DEF SnapshotsFit
<1> QED
  BY <1>3, <1>7, <1>8, <1>11 DEF Snapshots

\* Nothing is known of a run.
Nothing == [r \in Run |-> NoSnapshot]
Empty == [rec |-> Nothing, queue |-> <<>>, failed |-> FALSE]
LEMMA EmptyFits ==
    ASSUME NEW d, \A r \in Run : d[r].st = "none" => d[r] = NoSnapshot
    PROVE  SnapshotsFit(Empty, Nothing, d)
<1>1. NoSnapshot.st = "none" /\ "none" # "stopped" /\ "none" \notin Terminal
  BY DEF NoSnapshot, Terminal
<1>2. \A r \in Run : Empty.rec[r] = NoSnapshot /\ Nothing[r] = NoSnapshot
  BY DEF Empty, Nothing
<1>3. Empty.queue = <<>> /\ DOMAIN Empty.queue = {}
  BY DEF Empty
<1>4. RecFits(Empty) /\ ControlFits(Empty, Nothing)
  BY <1>1, <1>2 DEF RecFits, ControlFits
<1>5. QueueFits(Empty) /\ DiskFits(Empty, d)
  BY <1>1, <1>2, <1>3 DEF QueueFits, DiskFits
<1>6. EndIsWritten(Empty, Nothing, d)
  BY <1>1, <1>2 DEF EndIsWritten
<1> QED
  BY <1>4, <1>5, <1>6 DEF SnapshotsFit

LEMMA CrashSnapshots ==
    ASSUME Snapshots, Crash
    PROVE  Snapshots'
<1>1. projector' = Empty /\ control' = Nothing /\ disk' = disk
  BY DEF Crash, Empty, Nothing
<1>2. \A r \in Run : disk[r].st = "none" => disk[r] = NoSnapshot
  BY DEF Snapshots, SnapshotsFit, DiskFits
<1>3. SnapshotsFit(Empty, Nothing, disk)
  BY <1>2, EmptyFits
<1>4. SnapshotsFit(projector', control', disk')
  BY <1>1, <1>3
<1> QED
  BY <1>4 DEF Snapshots

LEMMA InitSnapshots == ASSUME Init PROVE Snapshots
<1>1. projector = Empty /\ control = Nothing /\ disk = Nothing
  BY DEF Init, Empty, Nothing
<1>2. \A r \in Run : Nothing[r] = NoSnapshot
  BY DEF Nothing
<1>3. SnapshotsFit(Empty, Nothing, Nothing)
  BY <1>2, EmptyFits
<1> QED
  BY <1>1, <1>3 DEF Snapshots

----------------------------------------------------------------------------
(* Every step keeps the lives of the runs.                                 *)

LEMMA FreshSame ==
    ASSUME UNCHANGED <<calls, phase>>, NEW r PROVE Fresh(r)' <=> Fresh(r)
  BY SameBatch DEF Fresh

\* What a step may do to a run between the steps of execute: the states of
\* its record, its authority and its entry in the scheduler.
Proceeds(r) ==
    /\ projector'.rec[r].st = "none" <=> projector.rec[r].st = "none"
    /\ projector'.rec[r].st \in ToSet(Active) => projector.rec[r].st \in ToSet(Active)
    /\ projector.rec[r].st \in Terminal => projector'.rec[r].st \in Terminal
    /\ projector'.rec[r].st \in Terminal => r \in revoked'
    /\ r \in revoked' => r \in revoked \/ projector'.rec[r].st \in Terminal
    /\ disk[r].st # "none" => disk'[r].st # "none"
    /\ projector.rec[r].st = "none" => disk'[r] = disk[r]
    /\ \/ work'[r] = work[r]
       \/ work'[r] = "done" /\ projector'.rec[r].st \in Terminal
       \/ work[r] = "queued" /\ work'[r] = "child"
    /\ r \in child' => /\ \/ r \in child
                          \/ work[r] = "queued" /\ work'[r] = "child"
                       /\ cancel = "none" => work'[r] = "child"
LEMMA ProceedingLives ==
    ASSUME TypeOK, Lives, UNCHANGED <<calls, phase, cancel, prep, initialized>>,
           \A r \in Run : Proceeds(r), child' \subseteq Run
    PROVE  Lives'
<1>1. batch' = batch /\ Batch' = Batch
  BY SameBatch
<1>2. ToSet(Active) \cap (Terminal \cup {"none"}) = {} /\ "none" \notin Terminal
  BY States DEF Terminal
<1>3. FreshIsUnknown'
  <2>1. ASSUME NEW r \in Run, Fresh(r)'
        PROVE  projector'.rec[r].st = "none" /\ disk'[r].st = "none" /\ r \notin revoked'
    <3>1. projector.rec[r].st = "none" /\ disk[r].st = "none" /\ r \notin revoked
      BY <2>1, FreshSame DEF Lives, FreshIsUnknown
    <3> QED
      BY <1>2, <3>1 DEF Proceeds
  <2> QED
    BY <2>1 DEF FreshIsUnknown
<1>4. ASSUME NEW r \in Run
      PROVE  RunFits(r)'
  <2>1. RunFits(r) /\ Proceeds(r)
    BY DEF Lives
  <2>2. /\ phase' = phase /\ cancel' = cancel /\ prep' = prep /\ initialized' = initialized
        /\ Batch' = Batch
    BY <1>1
  <2>3. /\ projector'.rec[r].st \in ToSet(Active) =>
              phase \in {"barrier", "tree"} /\ r \in Batch /\ r \notin revoked'
        /\ projector'.rec[r].st \in Terminal => r \in revoked'
        /\ projector'.rec[r].st # "none" \/ prep[r] = "ok" => initialized
        /\ phase \in {"barrier", "tree"} /\ r \in Batch =>
              projector'.rec[r].st # "none" /\ prep[r] = "ok"
    BY <1>2, <2>1 DEF RunFits, Proceeds
  <2>4. /\ work'[r] \in {"queued", "child"} => phase = "tree" /\ r \in Batch
        /\ phase = "tree" /\ r \in Batch => work'[r] # "none"
        /\ phase = "tree" /\ r \in Batch /\ work'[r] = "done" /\ cancel = "none" =>
              projector'.rec[r].st \in Terminal
        /\ work'[r] = "queued" => cancel = "none"
    BY <2>1 DEF RunFits, Proceeds
  <2> QED
    BY <2>2, <2>3, <2>4 DEF RunFits
<1>5. TreeIsWritten'
  <2>1. Batch \subseteq Run
    BY Types, BatchIs
  <2> QED
    BY <1>1, <2>1 DEF Lives, TreeIsWritten, Proceeds
<1>6. ASSUME NEW r \in child'
      PROVE  ChildFits(r)'
  <2>1. r \in Run /\ RunFits(r) /\ Proceeds(r) /\ TreeIsWritten
    BY DEF Lives
  <2>2. /\ r \in child \/ (work[r] = "queued" /\ work'[r] = "child")
        /\ cancel = "none" => work'[r] = "child"
    BY <2>1 DEF Proceeds
  <2>3. /\ phase \in {"tree", "idle"} /\ r \in Batch /\ prep[r] = "ok"
        /\ projector.rec[r].st # "none" /\ \A s \in Batch : disk[s].st # "none"
        /\ cancel = "none" => phase = "tree"
    <3>1. CASE r \in child
      BY <3>1 DEF Lives, ChildFits
    <3>2. CASE work[r] = "queued"
      BY <2>1, <3>2 DEF RunFits, TreeIsWritten
    <3> QED
      BY <2>2, <3>1, <3>2
  <2>4. \A s \in Batch : disk'[s].st # "none"
    <3>1. Batch \subseteq Run
      BY Types, BatchIs
    <3> QED
      BY <2>3, <3>1 DEF Proceeds
  <2>5. projector'.rec[r].st # "none"
    BY <2>1, <2>3 DEF Proceeds
  <2>6. /\ phase' = phase /\ cancel' = cancel /\ prep' = prep /\ Batch' = Batch
    BY <1>1
  <2> QED
    BY <2>2, <2>3, <2>4, <2>5, <2>6 DEF ChildFits
<1>7. OldIsOver'
  <2>1. ASSUME initialized', NEW r \in Run, disk'[r].st \in ToSet(Active),
               projector'.rec[r].st = "none"
        PROVE  FALSE
    BY <2>1 DEF Lives, OldIsOver, Proceeds
  <2> QED
    BY <2>1 DEF OldIsOver
<1>8. phase' # "idle" => calls' # 0
  BY DEF Lives
<1> QED
  BY <1>3, <1>4, <1>5, <1>6, <1>7, <1>8 DEF Lives

\* ... and a step that is none of theirs.
LEMMA SameLives ==
    ASSUME TypeOK, Snapshots, Lives,
           UNCHANGED <<calls, phase, cancel, prep, initialized, work, child, revoked, disk>>,
           projector'.rec = projector.rec
    PROVE  Lives'
<1>1. ASSUME NEW r \in Run
      PROVE  Proceeds(r)
  <2>1. RunFits(r)
    BY DEF Lives
  <2>2. r \in child => (cancel = "none" => work[r] = "child")
    BY DEF Lives, ChildFits
  <2> QED
    BY <2>1, <2>2 DEF Proceeds, RunFits
<1>2. child' \subseteq Run
  BY Types
<1> QED
  BY <1>1, <1>2, ProceedingLives

\* dispatch() takes runs out of the queue, one whose authority was revoked
\* without a child.
LEMMA DispatchedIs ==
    ASSUME NEW w \in [Run -> {"none", "queued", "child", "done"}]
    PROVE  /\ Dispatched(w) \in [Run -> {"none", "queued", "child", "done"}]
           /\ \A r \in Run :
                 \/ Dispatched(w)[r] = w[r] /\ (w[r] = "queued" => r \notin revoked)
                 \/ w[r] = "queued" /\ r \in revoked /\ Dispatched(w)[r] = "done"
                 \/ w[r] = "queued" /\ r \notin revoked /\ Dispatched(w)[r] = "child"
<1> DEFINE live == [r \in Run |-> IF w[r] = "queued" /\ r \in revoked THEN "done" ELSE w[r]]
           ahead(r) == {s \in Batch : \/ live[s] = "child"
                                      \/ live[s] = "queued" /\ Place(s) <= Place(r)}
           room(r) == Cardinality(ahead(r)) <= Slots
<1>1. Dispatched(w) = [r \in Run |-> IF live[r] = "queued" /\ room(r) THEN "child"
                                     ELSE live[r]]
  BY DEF Dispatched
<1> HIDE DEF room
<1>2. ASSUME NEW r \in Run
      PROVE  /\ Dispatched(w)[r] = IF live[r] = "queued" /\ room(r) THEN "child" ELSE live[r]
             /\ live[r] = IF w[r] = "queued" /\ r \in revoked THEN "done" ELSE w[r]
  BY <1>1
<1> HIDE DEF live
<1>3. Dispatched(w) \in [Run -> {"none", "queued", "child", "done"}]
  <2>1. \A r \in Run : Dispatched(w)[r] \in {"none", "queued", "child", "done"}
    BY <1>2
  <2> QED
    BY <1>1, <2>1
<1>4. ASSUME NEW r \in Run
      PROVE  \/ Dispatched(w)[r] = w[r] /\ (w[r] = "queued" => r \notin revoked)
             \/ w[r] = "queued" /\ r \in revoked /\ Dispatched(w)[r] = "done"
             \/ w[r] = "queued" /\ r \notin revoked /\ Dispatched(w)[r] = "child"
  BY <1>2
<1> QED
  BY <1>3, <1>4

\* A run whose authority was revoked is no longer at work.
LEMMA RevokedIsOver ==
    ASSUME TypeOK, Snapshots, NEW r \in Run, RunFits(r), r \in revoked,
           projector.rec[r].st # "none"
    PROVE  projector.rec[r].st \in Terminal
<1>1. projector.rec[r].st \in {"none"} \cup ToSet(Active) \cup (Terminal \ {"stopped"})
  BY RecStates
<1> QED
  BY <1>1 DEF RunFits

LEMMA TelemetryLives ==
    ASSUME TypeOK, Snapshots, Lives, NEW r \in Run, Telemetry(r)
    PROVE  Lives' /\ Snapshots' /\ projector' \in Projectors
<1>1. /\ r \in child
      /\ UNCHANGED <<calls, phase, cancel, prep, work, child, revoked, control, disk, initialized>>
  BY DEF Telemetry
<1>2. projector.rec[r].st # "none"
  BY <1>1 DEF Lives, ChildFits
<1>3. /\ Grows(projector, projector', {})
      /\ \A s \in Run \ {r} : projector'.rec[s] = projector.rec[s]
      /\ \/ projector'.rec[r] = projector.rec[r]
         \/ /\ projector.rec[r].st \in ToSet(Active)
            /\ projector'.rec[r].st \in ToSet(Active)
  BY <1>2, TelemetryGrows
<1>4. \A st \in ToSet(Active) : st \notin Terminal \cup {"none"}
  BY States DEF Terminal
<1>5. ASSUME NEW s \in Run
      PROVE  Proceeds(s)
  <2>1. RunFits(s)
    BY DEF Lives
  <2>2. s \in child => (cancel = "none" => work[s] = "child")
    BY DEF Lives, ChildFits
  <2>3. \/ projector'.rec[s] = projector.rec[s]
        \/ /\ projector.rec[s].st \in ToSet(Active)
           /\ projector'.rec[s].st \in ToSet(Active)
    BY <1>3
  <2> QED
    BY <1>1, <1>4, <2>1, <2>2, <2>3 DEF Proceeds, RunFits
<1>6. Lives'
  BY <1>1, <1>5, Types, ProceedingLives
<1>7. Snapshots'
  <2>1. \A s \in Run : projector.rec[s].st = "none" => projector'.rec[s].st = "none"
    BY <1>5 DEF Proceeds
  <2> QED
    BY <1>1, <1>3, <2>1, SnapshotsGrow
<1> QED
  BY <1>3, <1>6, <1>7 DEF Grows

LEMMA ActLives ==
    ASSUME TypeOK, Snapshots, Lives, Requests, NEW c \in Call, Act(c)
    PROVE  Lives'
<1> DEFINE r == request[c].run
<1>1. /\ r \in Run
      /\ \A s \in Run \ {r} : projector'.rec[s] = projector.rec[s]
      /\ IF Stops(c) THEN /\ projector.rec[r].st \in ToSet(Active)
                          /\ projector'.rec[r].st \in Terminal
                          /\ revoked' = revoked \cup {r}
         ELSE /\ projector' = projector
              /\ \/ revoked' = revoked
                 \/ revoked' = revoked \cup {r} /\ projector.rec[r].st \in Terminal
  BY ActIs
<1>2. /\ UNCHANGED <<calls, phase, cancel, prep, child, disk, initialized>>
      /\ work' = IF Stops(c) /\ work[r] = "queued" THEN [work EXCEPT ![r] = "done"] ELSE work
  BY DEF Act, Stops
<1>3. \A st \in ToSet(Active) : st \notin Terminal \cup {"none"}
  BY States DEF Terminal
<1>4. work \in [Run -> {"none", "queued", "child", "done"}] /\ child \subseteq Run
  BY Types
<1>5. "none" \notin Terminal
  BY DEF Terminal
<1> HIDE DEF r
<1>6. ASSUME NEW s \in Run
      PROVE  Proceeds(s)
  <2>1. RunFits(s)
    BY DEF Lives
  <2>2. s \in child => (cancel = "none" => work[s] = "child")
    BY DEF Lives, ChildFits
  <2>3. CASE s # r
    <3>1. work'[s] = work[s]
      BY <1>1, <1>2, <1>4, <2>3
    <3>2. projector'.rec[s] = projector.rec[s]
      BY <1>1, <2>3
    <3>3. s \in revoked' => s \in revoked
      BY <1>1, <2>3
    <3>4. s \in revoked => s \in revoked'
      BY <1>1
    <3> QED
      BY <1>2, <2>1, <2>2, <3>1, <3>2, <3>3, <3>4 DEF Proceeds, RunFits
  <2>4. CASE s = r /\ Stops(c)
    <3>1. /\ projector.rec[s].st \in ToSet(Active) /\ projector'.rec[s].st \in Terminal
          /\ s \in revoked'
      BY <1>1, <2>4
    <3>2. work'[s] = work[s] \/ work'[s] = "done"
      BY <1>2, <1>4, <2>4
    <3>3. s \in child => (cancel = "none" => work'[s] = "child")
      BY <1>2, <2>2, <2>4
    <3> QED
      BY <1>2, <1>3, <1>5, <2>1, <3>1, <3>2, <3>3 DEF Proceeds
  <2>5. CASE s = r /\ ~Stops(c)
    <3>1. projector' = projector /\ work' = work
      BY <1>1, <1>2, <2>5
    <3>2. s \in revoked' => s \in revoked \/ projector.rec[s].st \in Terminal
      BY <1>1, <2>5
    <3>3. s \in revoked => s \in revoked'
      BY <1>1
    <3> QED
      BY <1>2, <2>1, <2>2, <3>1, <3>2, <3>3 DEF Proceeds, RunFits
  <2> QED
    BY <2>3, <2>4, <2>5
<1> QED
  BY <1>2, <1>4, <1>6, ProceedingLives

LEMMA PersistLives ==
    ASSUME TypeOK, Snapshots, Lives, Persist
    PROVE  Lives'
<1> DEFINE r == projector.queue[1].run
<1>1. /\ r \in Run /\ projector.rec[r].st # "none"
      /\ \A s \in Run \ {r} : disk'[s] = disk[s]
      /\ disk[r].st # "none" => disk'[r].st # "none"
      /\ \/ revoked' = revoked
         \/ revoked' = revoked \cup {r} /\ projector.rec[r].st \in Terminal
  BY PersistIs
<1>2. UNCHANGED <<calls, phase, cancel, prep, work, child, initialized>>
  BY DEF Persist
<1>3. projector'.rec = projector.rec
  BY PersistIs DEF Taken
<1> HIDE DEF r
<1>4. ASSUME NEW s \in Run
      PROVE  Proceeds(s)
  <2>1. RunFits(s)
    BY DEF Lives
  <2>2. s \in child => (cancel = "none" => work[s] = "child")
    BY DEF Lives, ChildFits
  <2>3. s \in revoked' => s \in revoked \/ projector.rec[s].st \in Terminal
    BY <1>1
  <2>4. s \in revoked => s \in revoked'
    BY <1>1
  <2>5. /\ disk[s].st # "none" => disk'[s].st # "none"
        /\ projector.rec[s].st = "none" => disk'[s] = disk[s]
    BY <1>1
  <2> QED
    BY <1>2, <1>3, <2>1, <2>2, <2>3, <2>4, <2>5 DEF Proceeds, RunFits
<1> QED
  BY <1>2, <1>4, Types, ProceedingLives

\* What complete() does to the runs of the batch it is called for.
LEMMA EndedRec ==
    ASSUME TypeOK, Snapshots, NEW runs \in SUBSET Batch, NEW st \in Terminal \ {"stopped"},
           \A r \in runs : projector.rec[r].st # "none",
           projector'.rec = Ended(projector, runs, st), NEW s \in Run
    PROVE  /\ s \in runs => projector'.rec[s].st \in Terminal
           /\ projector'.rec[s] = projector.rec[s] \/ s \in runs
           /\ projector'.rec[s].st = "none" <=> projector.rec[s].st = "none"
           /\ projector.rec[s].st \in Terminal => projector'.rec[s] = projector.rec[s]
           /\ projector'.rec[s].st \in ToSet(Active) => projector'.rec[s] = projector.rec[s]
<1>1. projector'.rec[s] = IF s \in Batch /\ s \in Endable(projector, runs)
                          THEN [st |-> st, rev |-> projector.rec[s].rev + 1]
                          ELSE projector.rec[s]
  BY DEF Ended
<1>2. /\ control[s].st \in Terminal => projector.rec[s].st \in Terminal
      /\ "none" \notin Terminal /\ ToSet(Active) \cap (Terminal \cup {"none"}) = {}
  BY RecStates
<1>3. "stopped" \in Terminal
  BY DEF Terminal
<1> QED
  BY <1>1, <1>2, <1>3 DEF Endable

LEMMA ChildEndsLives ==
    ASSUME TypeOK, Snapshots, Lives, NEW r \in Run, ChildEnds(r)
    PROVE  Lives' /\ Snapshots' /\ Grows(projector, projector', {})
           /\ work' \in [Run -> {"none", "queued", "child", "done"}]
           /\ child' \subseteq Run /\ revoked' \subseteq Run
<1> DEFINE W == {"none", "queued", "child", "done"}
<1>1. /\ r \in child
      /\ UNCHANGED <<calls, phase, cancel, prep, control, disk, initialized>>
      /\ child' = (child \ {r}) \cup Started(work')
  BY DEF ChildEnds
<1>2. /\ projector.rec[r].st # "none" /\ r \in Batch
      /\ \A s \in child : cancel = "none" => work[s] = "child"
  BY <1>1 DEF Lives, ChildFits
<1>3. work \in [Run -> W] /\ child \subseteq Run /\ revoked \subseteq Run
  BY Types
<1>4. child' \subseteq Run
  BY <1>1, <1>3 DEF Started
<1>5. \A s \in Run : RunFits(s)
  BY DEF Lives
<1>6. CASE work[r] # "child"
  <2>1. UNCHANGED <<revoked, projector, work>>
    BY <1>6 DEF ChildEnds
  <2>2. child' = child \ {r}
    BY <1>1, <2>1 DEF Started
  <2>3. ASSUME NEW s \in Run
        PROVE  Proceeds(s)
    BY <1>1, <1>2, <1>5, <2>1, <2>2 DEF Proceeds, RunFits
  <2>4. Lives'
    BY <1>1, <1>4, <2>3, ProceedingLives
  <2>5. Snapshots'
    BY <1>1, <2>1, SnapshotsSame
  <2>6. Grows(projector, projector', {})
    BY <2>1, Types, NothingGrows
  <2> QED
    BY <1>3, <1>4, <2>1, <2>4, <2>5, <2>6
<1>7. CASE work[r] = "child"
  <2> DEFINE w == [work EXCEPT ![r] = "done"]
  <2>1. PICK st \in Terminal \ {"stopped"} : Completed({r}, st)
    <3>1. PICK out \in Outcome : Completed({r}, IF cancel = "none" THEN out ELSE cancel)
      BY <1>7 DEF ChildEnds
    <3>2. (IF cancel = "none" THEN out ELSE cancel) \in Terminal \ {"stopped"}
      BY Types, SubagentRunsAssumption DEF Terminal
    <3> QED
      BY <3>1, <3>2
  <2>2. work' = Dispatched(w)
    BY <1>7 DEF ChildEnds
  <2>3. w \in [Run -> W] /\ w[r] = "done" /\ \A s \in Run \ {r} : w[s] = work[s]
    BY <1>3
  <2> HIDE DEF w
  <2>4. /\ work' \in [Run -> W]
        /\ \A s \in Run :
              \/ work'[s] = w[s]
              \/ w[s] = "queued" /\ s \in revoked /\ work'[s] = "done"
              \/ w[s] = "queued" /\ work'[s] = "child"
    BY <2>2, <2>3, DispatchedIs
  <2>5. {r} \in SUBSET Run /\ {r} \in SUBSET Batch /\ \A s \in {r} : projector.rec[s].st # "none"
    BY <1>2
  <2>6. /\ revoked' = revoked \cup {r}
        /\ Grows(projector, projector', {})
        /\ projector'.rec = Ended(projector, {r}, st)
    BY <2>1, <2>5, CompletedIs
  <2>7. ASSUME NEW s \in Run
        PROVE  Proceeds(s)
    <3>1. /\ s \in {r} => projector'.rec[s].st \in Terminal
          /\ projector'.rec[s] = projector.rec[s] \/ s \in {r}
          /\ projector'.rec[s].st = "none" <=> projector.rec[s].st = "none"
          /\ projector.rec[s].st \in Terminal => projector'.rec[s] = projector.rec[s]
          /\ projector'.rec[s].st \in ToSet(Active) => projector'.rec[s] = projector.rec[s]
      BY <2>5, <2>6, EndedRec
    <3>2. RunFits(s)
      BY <1>5
    <3>3. projector'.rec[s].st \in Terminal => s \in revoked'
      BY <2>6, <3>1, <3>2 DEF RunFits
    <3>4. s \in revoked' => s \in revoked \/ projector'.rec[s].st \in Terminal
      BY <2>6, <3>1
    <3>5. CASE s = r
      <4>1. work'[s] = "done" /\ projector'.rec[s].st \in Terminal
        BY <2>3, <2>4, <3>1, <3>5
      <4>2. s \notin child'
        BY <1>1, <3>5, <4>1 DEF Started
      <4> QED
        BY <1>1, <3>1, <3>3, <3>4, <4>1, <4>2 DEF Proceeds
    <3>6. CASE s # r
      <4>1. \/ work'[s] = work[s]
            \/ work[s] = "queued" /\ s \in revoked /\ work'[s] = "done"
            \/ work[s] = "queued" /\ work'[s] = "child"
        BY <2>3, <2>4, <3>6
      <4>2. work[s] = "queued" /\ s \in revoked => projector'.rec[s].st \in Terminal
        <5>1. work[s] = "queued" => projector.rec[s].st # "none"
          BY <3>2 DEF RunFits
        <5> QED
          BY <3>1, <3>2, <5>1, RevokedIsOver
      <4>3. s \in child' => \/ s \in child
                            \/ work[s] = "queued" /\ work'[s] = "child"
        BY <1>1, <4>1 DEF Started
      <4>4. s \in child' /\ cancel = "none" => work'[s] = "child"
        BY <1>1, <1>2, <4>1 DEF Started
      <4> QED
        BY <1>1, <3>1, <3>3, <3>4, <4>1, <4>2, <4>3, <4>4 DEF Proceeds
    <3> QED
      BY <3>5, <3>6
  <2>8. Lives'
    BY <1>1, <1>4, <2>7, ProceedingLives
  <2>9. Snapshots'
    BY <1>1, <2>1, <2>5, CompletedSnapshots
  <2> QED
    BY <1>3, <1>4, <2>4, <2>6, <2>8, <2>9
<1> QED
  BY <1>6, <1>7

LEMMA SettlementTimerLives ==
    ASSUME TypeOK, Snapshots, Lives, SettlementTimer
    PROVE  Lives' /\ Snapshots' /\ Grows(projector, projector', {})
           /\ work' \in [Run -> {"none", "queued", "child", "done"}] /\ revoked' \subseteq Run
<1> DEFINE left == {r \in Batch : work[r] = "child"}
<1>1. /\ phase = "tree" /\ cancel # "none" /\ Completed(left, cancel)
      /\ work' = [r \in Run |-> IF r \in left THEN "done" ELSE work[r]]
      /\ UNCHANGED <<calls, phase, cancel, prep, child, control, disk, initialized>>
  BY DEF SettlementTimer, Sealable
<1>2. /\ work \in [Run -> {"none", "queued", "child", "done"}] /\ child \subseteq Run
      /\ revoked \subseteq Run /\ Batch \subseteq Run
  BY Types, BatchIs
<1>3. cancel \in Terminal \ {"stopped"}
  BY <1>1, Types DEF Terminal
<1>4. \A s \in Run : RunFits(s)
  BY DEF Lives
<1>5. left \in SUBSET Run /\ left \in SUBSET Batch
  BY <1>2
<1>6. \A s \in left : projector.rec[s].st # "none"
  BY <1>1, <1>2, <1>4 DEF RunFits
<1> HIDE DEF left
<1>7. /\ revoked' = revoked \cup left
      /\ Grows(projector, projector', {})
      /\ projector'.rec = Ended(projector, left, cancel)
  BY <1>1, <1>3, <1>5, <1>6, CompletedIs
<1>8. ASSUME NEW s \in Run
      PROVE  Proceeds(s)
  <2>1. /\ s \in left => projector'.rec[s].st \in Terminal
        /\ projector'.rec[s] = projector.rec[s] \/ s \in left
        /\ projector'.rec[s].st = "none" <=> projector.rec[s].st = "none"
        /\ projector.rec[s].st \in Terminal => projector'.rec[s] = projector.rec[s]
        /\ projector'.rec[s].st \in ToSet(Active) => projector'.rec[s] = projector.rec[s]
    BY <1>3, <1>5, <1>6, <1>7, EndedRec
  <2>2. RunFits(s)
    BY <1>4
  <2>3. projector'.rec[s].st \in Terminal => s \in revoked'
    BY <1>7, <2>1, <2>2 DEF RunFits
  <2>4. work'[s] = work[s] \/ (work'[s] = "done" /\ projector'.rec[s].st \in Terminal)
    BY <1>1, <2>1
  <2> QED
    BY <1>1, <1>7, <2>1, <2>3, <2>4 DEF Proceeds
<1>9. Lives'
  BY <1>1, <1>2, <1>8, ProceedingLives
<1>10. Snapshots'
  BY <1>1, <1>3, <1>5, <1>6, CompletedSnapshots
<1>11. work' \in [Run -> {"none", "queued", "child", "done"}]
  BY <1>1, <1>2
<1> QED
  BY <1>2, <1>5, <1>7, <1>9, <1>10, <1>11

\* The end of execute: p is what was projected of the batch so far.
LEMMA UnwindLives ==
    ASSUME TypeOK, Snapshots, Lives, NEW p \in Projectors, Unwind(p), phase # "idle",
           UNCHANGED <<calls, cancel, prep, work, child, disk, initialized>>,
           phase = "tree" => AllSettled /\ cancel # "none",
           \A r \in Run :
              /\ p.rec[r] = projector.rec[r]
                 \/ (r \in Prepared /\ projector.rec[r].st = "none" /\ p.rec[r].st # "none")
              /\ p.rec[r].st \in Terminal => projector.rec[r].st \in Terminal
    PROVE  /\ Lives' /\ Grows(p, projector', {}) /\ revoked' \subseteq Run
           /\ \A r \in Run : projector.rec[r].st \in Terminal =>
                                projector'.rec[r] = projector.rec[r]
<1>1. /\ phase' = "idle" /\ revoked' = revoked \cup Prepared
      /\ Grows(p, projector', {})
      /\ projector'.rec = Ended(p, Known(p), Fault)
      /\ Fault \in Terminal \ {"stopped"}
  BY UnwindIs
<1>2. /\ Batch \subseteq Run /\ revoked \subseteq Run /\ child \subseteq Run
      /\ calls \in 0..Len(Batches)
  BY Types, BatchIs
<1>3. Prepared \subseteq Batch /\ \A r \in Batch : prep[r] = "ok" <=> r \in Prepared
  BY DEF Prepared
<1>4. ToSet(Active) \cap (Terminal \cup {"none"}) = {} /\ "none" \notin Terminal
  BY States DEF Terminal
<1>5. ASSUME NEW r \in Run
      PROVE  projector'.rec[r] = IF r \in Batch /\ r \in Known(p) /\ control[r].st # "stopped"
                                    /\ p.rec[r].st \notin Terminal
                                 THEN [st |-> Fault, rev |-> p.rec[r].rev + 1] ELSE p.rec[r]
  BY <1>1 DEF Ended, Endable
<1>6. ASSUME NEW r \in Run
      PROVE  /\ projector'.rec[r].st \notin ToSet(Active)
             /\ projector'.rec[r].st \in Terminal => r \in revoked'
             /\ projector'.rec[r].st # "none" => initialized
             /\ projector.rec[r].st # "none" => projector'.rec[r].st # "none"
             /\ projector'.rec[r].st # "none" => projector.rec[r].st # "none" \/ r \in Prepared
             /\ projector.rec[r].st \in Terminal => projector'.rec[r] = projector.rec[r]
  <2>1. /\ projector.rec[r].st \in {"none"} \cup ToSet(Active) \cup (Terminal \ {"stopped"})
        /\ control[r].st \in Terminal => projector.rec[r].st \in Terminal
        /\ control[r].st = "none" <=> projector.rec[r].st = "none"
    BY RecStates
  <2>2. RunFits(r)
    BY DEF Lives
  <2>3. \/ p.rec[r] = projector.rec[r]
        \/ (r \in Prepared /\ projector.rec[r].st = "none" /\ p.rec[r].st # "none")
    OBVIOUS
  <2>4. p.rec[r].st \in Terminal => projector.rec[r].st \in Terminal
    OBVIOUS
  <2>5. r \in Prepared => initialized
    BY <1>2, <1>3, <2>2 DEF RunFits
  <2>6. "stopped" \in Terminal
    BY DEF Terminal
  <2>7. CASE projector.rec[r].st \in Terminal
    <3>1. p.rec[r] = projector.rec[r]
      BY <1>4, <2>3, <2>7
    <3>2. projector'.rec[r] = projector.rec[r]
      BY <1>5, <2>7, <3>1
    <3> QED
      BY <1>1, <1>4, <2>2, <2>7, <3>2 DEF RunFits
  <2>8. CASE projector.rec[r].st \in ToSet(Active)
    <3>1. p.rec[r] = projector.rec[r]
      BY <1>4, <2>3, <2>8
    <3>2. r \in Prepared
      BY <1>3, <2>2, <2>8 DEF RunFits
    <3>3. r \in Known(p) /\ r \in Batch
      BY <1>3, <1>4, <2>8, <3>1, <3>2 DEF Known
    <3>4. control[r].st # "stopped" /\ p.rec[r].st \notin Terminal
      BY <1>4, <2>1, <2>6, <2>8, <3>1
    <3>5. projector'.rec[r].st = Fault
      <4>1. projector'.rec[r] = [st |-> Fault, rev |-> p.rec[r].rev + 1]
        BY <1>5, <3>3, <3>4, Zenon
      <4> QED
        BY <4>1
    <3> QED
      BY <1>1, <1>4, <2>5, <2>8, <3>2, <3>5
  <2>9. CASE projector.rec[r].st = "none" /\ r \in Prepared /\ p.rec[r].st # "none"
    <3>1. r \in Known(p) /\ r \in Batch
      BY <1>3, <2>9 DEF Known
    <3>2. control[r].st # "stopped" /\ p.rec[r].st \notin Terminal
      BY <1>4, <2>1, <2>4, <2>9
    <3>3. projector'.rec[r].st = Fault
      <4>1. projector'.rec[r] = [st |-> Fault, rev |-> p.rec[r].rev + 1]
        BY <1>5, <3>1, <3>2, Zenon
      <4> QED
        BY <4>1
    <3> QED
      BY <1>1, <1>4, <2>5, <2>9, <3>3
  <2>10. CASE projector.rec[r].st = "none" /\ p.rec[r] = projector.rec[r]
    <3>1. projector'.rec[r] = p.rec[r]
      BY <1>5, <2>10 DEF Known
    <3> QED
      BY <1>4, <2>10, <3>1
  <2> QED
    BY <2>1, <2>3, <2>7, <2>8, <2>9, <2>10
<1>7. FreshIsUnknown'
  <2>1. ASSUME NEW r \in Run, Fresh(r)'
        PROVE  projector'.rec[r].st = "none" /\ disk'[r].st = "none" /\ r \notin revoked'
    <3>1. PICK i \in DOMAIN Batches : i > calls /\ r \in ToSet(Batches[i])
      BY <1>1, <2>1 DEF Fresh
    <3>2. r \notin Batch
      BY <1>2, <3>1, BatchIsAlone
    <3>3. projector.rec[r].st = "none" /\ disk[r].st = "none" /\ r \notin revoked
      BY <3>1 DEF Lives, FreshIsUnknown, Fresh
    <3> QED
      BY <1>1, <1>3, <1>6, <3>2, <3>3
  <2> QED
    BY <2>1 DEF FreshIsUnknown
<1>8. ASSUME NEW r \in Run
      PROVE  RunFits(r)'
  <2>1. RunFits(r)
    BY DEF Lives
  <2>2. work[r] \notin {"queued", "child"}
    <3>1. CASE phase = "tree"
      BY <2>1, <3>1 DEF RunFits, AllSettled
    <3>2. CASE phase # "tree"
      BY <2>1, <3>2 DEF RunFits
    <3> QED
      BY <3>1, <3>2
  <2>3. prep[r] = "ok" => initialized
    BY <2>1 DEF RunFits
  <2> QED
    BY <1>1, <1>6, <2>2, <2>3 DEF RunFits
<1>9. ASSUME NEW r \in child'
      PROVE  ChildFits(r)'
  <2>1. ChildFits(r) /\ r \in child
    BY DEF Lives
  <2>2. phase = "tree" /\ cancel # "none"
    BY <2>1 DEF ChildFits
  <2>3. Batch' = Batch
    BY SameBatch
  <2>4. projector'.rec[r].st # "none"
    BY <1>2, <1>6, <2>1 DEF ChildFits
  <2> QED
    BY <1>1, <2>1, <2>2, <2>3, <2>4 DEF ChildFits
<1>10. TreeIsWritten' /\ (phase' # "idle" => calls' # 0)
  BY <1>1 DEF TreeIsWritten
<1>11. OldIsOver'
  BY <1>6 DEF Lives, OldIsOver
<1>12. Lives'
  BY <1>7, <1>8, <1>9, <1>10, <1>11 DEF Lives
<1>13. revoked' \subseteq Run
  BY <1>1, <1>2, <1>3
<1> QED
  BY <1>1, <1>6, <1>12, <1>13

\* The steps in which execute ends.
LEMMA FailsLives ==
    ASSUME TypeOK, Snapshots, Lives,
           CaptureFails \/ PreparationFails \/ TreeFails \/ (TreeEnds /\ cancel # "none")
    PROVE  /\ Lives' /\ Snapshots' /\ Grows(projector, projector', {}) /\ revoked' \subseteq Run
           /\ \A r \in Run : projector.rec[r].st \in Terminal =>
                                projector'.rec[r] = projector.rec[r]
<1>1. /\ Unwind(projector) /\ phase # "idle"
      /\ UNCHANGED <<calls, cancel, prep, work, child, control, disk, initialized>>
      /\ phase = "tree" => AllSettled /\ cancel # "none"
  <2>1. CASE CaptureFails
    BY <2>1 DEF CaptureFails
  <2>2. CASE PreparationFails
    BY <2>2 DEF PreparationFails, AllPrepared
  <2>3. CASE TreeFails
    BY <2>3 DEF TreeFails, AtBarrier
  <2>4. CASE TreeEnds /\ cancel # "none"
    BY <2>4 DEF TreeEnds, AllSettled
  <2> QED
    BY <2>1, <2>2, <2>3, <2>4
<1>2. projector \in Projectors
  BY Types
<1>3. /\ Lives' /\ Grows(projector, projector', {}) /\ revoked' \subseteq Run
      /\ \A r \in Run : projector.rec[r].st \in Terminal => projector'.rec[r] = projector.rec[r]
  BY <1>1, <1>2, UnwindLives
<1>4. Snapshots'
  BY <1>1, UnwindSnapshots
<1> QED
  BY <1>3, <1>4

LEMMA ProjectionFailsLives ==
    ASSUME TypeOK, Snapshots, Lives, ProjectionFails
    PROVE  /\ Lives' /\ Snapshots' /\ revoked' \subseteq Run
           /\ projector' \in Projectors /\ control' \in [Run -> Snapshot]
           /\ \E p \in Projectors : Grows(projector, p, {}) /\ Grows(p, projector', {})
           /\ \A r \in Run :
                 /\ control[r].st # "none" => control'[r] = control[r]
                 /\ projector.rec[r].st \in Terminal => projector'.rec[r] = projector.rec[r]
<1>1. FreshIsUnknown
  BY DEF Lives
<1>2. PICK k \in 0..Len(batch) :
             /\ ToSet(Part(k)) \subseteq Batch
             /\ PartOf(k) \in Projectors
             /\ Grows(projector, PartOf(k), {})
             /\ PartOf(k).rec = [r \in Run |-> IF r \in ToSet(Part(k))
                                               THEN [st |-> "queued", rev |-> 1]
                                               ELSE projector.rec[r]]
             /\ control' = Registered(Part(k))
             /\ Unwind(PartOf(k))
  BY <1>1, ProjectionFailsIs
<1>3. /\ phase = "prepare" /\ Prepared = Batch
      /\ UNCHANGED <<calls, cancel, prep, work, child, disk, initialized>>
  BY DEF ProjectionFails, AllPrepared, MayProject
<1> DEFINE p == PartOf(k)
           S == ToSet(Part(k))
<1>4. Unwind(p) /\ p \in Projectors /\ S \subseteq Batch /\ Grows(projector, p, {})
  BY <1>2
<1>5. \A r \in Run : p.rec[r] = IF r \in S THEN [st |-> "queued", rev |-> 1]
                                ELSE projector.rec[r]
  BY <1>2
<1>6. \A r \in Run : control'[r] = IF r \in S THEN [st |-> "queued", rev |-> 1] ELSE control[r]
  BY <1>2 DEF Registered
<1>7. "queued" \notin Terminal
  BY DEF Terminal
<1> HIDE DEF p, S
<1>8. ASSUME NEW r \in S, r \in Run
      PROVE  projector.rec[r].st = "none" /\ control[r].st = "none"
  <2>1. projector.rec[r].st = "none"
    BY <1>1, <1>3, <1>4, <1>8 DEF FreshIsUnknown, Fresh
  <2> QED
    BY <1>8, <2>1, RecStates
<1>9. \A r \in Run :
              /\ p.rec[r] = projector.rec[r]
                 \/ (r \in Prepared /\ projector.rec[r].st = "none" /\ p.rec[r].st # "none")
              /\ p.rec[r].st \in Terminal => projector.rec[r].st \in Terminal
  BY <1>3, <1>4, <1>5, <1>7, <1>8
<1>10. phase # "idle" /\ (phase = "tree" => AllSettled /\ cancel # "none")
  BY <1>3
<1>11. /\ Lives' /\ Grows(p, projector', {}) /\ revoked' \subseteq Run
       /\ \A r \in Run : projector.rec[r].st \in Terminal => projector'.rec[r] = projector.rec[r]
  BY <1>3, <1>4, <1>9, <1>10, UnwindLives
<1>12. Snapshots' /\ projector' \in Projectors /\ control' \in [Run -> Snapshot]
  BY <1>1, ProjectionFailsSnapshots
<1>13. \A r \in Run : control[r].st # "none" => control'[r] = control[r]
  BY <1>6, <1>8
<1> QED
  BY <1>4, <1>11, <1>12, <1>13

LEMMA ProjectLives ==
    ASSUME TypeOK, Snapshots, Lives, Project
    PROVE  /\ Lives' /\ Snapshots' /\ Grows(projector, projector', {})
           /\ control' \in [Run -> Snapshot]
           /\ \A r \in Run :
                 /\ control[r].st # "none" => control'[r] = control[r]
                 /\ projector.rec[r].st \in Terminal => projector'.rec[r] = projector.rec[r]
<1>1. FreshIsUnknown
  BY DEF Lives
<1>2. /\ Snapshots' /\ Grows(projector, projector', {}) /\ control' \in [Run -> Snapshot]
      /\ projector'.rec = [r \in Run |-> IF r \in Batch THEN [st |-> "queued", rev |-> 1]
                                         ELSE projector.rec[r]]
  BY <1>1, ProjectSnapshots
<1>3. /\ phase = "prepare" /\ phase' = "barrier" /\ Prepared = Batch /\ cancel = "none"
      /\ UNCHANGED <<calls, cancel, prep, work, child, revoked, disk, initialized>>
      /\ control' = Registered(batch)
  BY DEF Project, AllPrepared, MayProject
<1>4. Batch \subseteq Run /\ calls \in 0..Len(Batches) /\ Batch' = Batch
  BY <1>3, Types, BatchIs, SameBatch
<1>5. \A st \in ToSet(Active) : st \notin Terminal \cup {"none"}
  BY States DEF Terminal
<1>6. "queued" \in ToSet(Active) /\ "none" \notin Terminal
  BY States DEF Terminal
<1>7. ASSUME NEW r \in Batch
      PROVE  /\ projector.rec[r].st = "none" /\ control[r].st = "none" /\ r \notin revoked
             /\ prep[r] = "ok" /\ initialized
  <2>1. projector.rec[r].st = "none" /\ r \notin revoked
    BY <1>1, <1>3, <1>4 DEF FreshIsUnknown, Fresh
  <2>2. control[r].st = "none"
    BY <1>4, <2>1, RecStates
  <2>3. prep[r] = "ok" /\ RunFits(r)
    BY <1>3, <1>4 DEF Prepared, Lives
  <2> QED
    BY <2>1, <2>2, <2>3 DEF RunFits
<1>8. FreshIsUnknown'
  <2>1. ASSUME NEW r \in Run, Fresh(r)'
        PROVE  projector'.rec[r].st = "none" /\ disk'[r].st = "none" /\ r \notin revoked'
    <3>1. PICK i \in DOMAIN Batches : i > calls /\ r \in ToSet(Batches[i])
      BY <1>3, <2>1 DEF Fresh
    <3>2. r \notin Batch
      BY <1>4, <3>1, BatchIsAlone
    <3>3. projector.rec[r].st = "none" /\ disk[r].st = "none" /\ r \notin revoked
      BY <1>1, <3>1 DEF FreshIsUnknown, Fresh
    <3> QED
      BY <1>2, <1>3, <3>2, <3>3
  <2> QED
    BY <2>1 DEF FreshIsUnknown
<1>9. ASSUME NEW r \in Run
      PROVE  RunFits(r)'
  <2>1. RunFits(r)
    BY DEF Lives
  <2>2. work[r] \notin {"queued", "child"} /\ projector.rec[r].st \notin ToSet(Active)
    BY <1>3, <2>1 DEF RunFits
  <2>3. CASE r \in Batch
    <3>1. projector'.rec[r].st = "queued"
      BY <1>2, <1>4, <2>3
    <3> QED
      BY <1>3, <1>4, <1>5, <1>6, <1>7, <2>2, <2>3, <3>1 DEF RunFits
  <2>4. CASE r \notin Batch
    <3>1. projector'.rec[r] = projector.rec[r]
      BY <1>2, <2>4
    <3> QED
      BY <1>3, <1>4, <2>1, <2>2, <2>4, <3>1 DEF RunFits
  <2> QED
    BY <2>3, <2>4
<1>10. child = {}
  BY <1>3 DEF Lives, ChildFits
<1>11. TreeIsWritten' /\ (phase' # "idle" => calls' # 0)
  BY <1>3 DEF TreeIsWritten, Lives
<1>12. OldIsOver'
  <2>1. \A r \in Run : projector.rec[r].st # "none" => projector'.rec[r].st # "none"
    BY <1>2
  <2> QED
    BY <1>3, <2>1 DEF Lives, OldIsOver
<1>13. Lives'
  BY <1>3, <1>8, <1>9, <1>10, <1>11, <1>12 DEF Lives
<1>14. ASSUME NEW r \in Run
       PROVE  /\ control[r].st # "none" => control'[r] = control[r]
              /\ projector.rec[r].st \in Terminal => projector'.rec[r] = projector.rec[r]
  <2>1. control'[r] = IF r \in Batch THEN [st |-> "queued", rev |-> 1] ELSE control[r]
    BY <1>3 DEF Registered, Batch
  <2> QED
    BY <1>2, <1>6, <1>7, <2>1
<1> QED
  BY <1>2, <1>13, <1>14

LEMMA ExecuteLives ==
    ASSUME TypeOK, Lives, Execute
    PROVE  Lives' /\ calls' \in 0..Len(Batches)
<1>1. /\ phase = "idle" /\ cancel = "none" /\ calls < Len(Batches) /\ calls' = calls + 1
      /\ phase' \in {"capture", "prepare"}
      /\ UNCHANGED <<cancel, prep, work, child, revoked, projector, disk, initialized>>
  BY DEF Execute
<1>2. calls \in 0..Len(Batches) /\ Len(Batches) \in Nat /\ DOMAIN Batches = 1..Len(Batches)
  BY Types, SubagentRunsAssumption
<1>3. calls' \in DOMAIN Batches /\ calls' > calls /\ calls' # 0 /\ calls' \in 0..Len(Batches)
  BY <1>1, <1>2
<1>4. batch' = Batches[calls']
  BY <1>3 DEF batch
<1>5. \A r \in Run : RunFits(r)
  BY DEF Lives
<1>6. child = {}
  BY <1>1 DEF Lives, ChildFits
<1>7. FreshIsUnknown'
  <2>1. ASSUME NEW r \in Run, Fresh(r)'
        PROVE  Fresh(r)
    <3>1. CASE \E i \in DOMAIN Batches : i > calls' /\ r \in ToSet(Batches[i])
      BY <1>1, <1>2, <3>1 DEF Fresh
    <3>2. CASE r \in Batch'
      BY <1>3, <1>4, <3>2 DEF Fresh, Batch
    <3> QED
      BY <2>1, <3>1, <3>2 DEF Fresh
  <2> QED
    BY <1>1, <2>1 DEF Lives, FreshIsUnknown
<1>8. ASSUME NEW r \in Run
      PROVE  RunFits(r)'
  <2>1. RunFits(r)
    BY <1>5
  <2> QED
    BY <1>1, <2>1 DEF RunFits
<1>9. TreeIsWritten' /\ OldIsOver'
  BY <1>1 DEF Lives, TreeIsWritten, OldIsOver
<1> QED
  BY <1>1, <1>3, <1>6, <1>7, <1>8, <1>9 DEF Lives

LEMMA PreparingLives ==
    ASSUME TypeOK, Lives,
           \/ CaptureContext
           \/ \E r \in Run : PrepareRun(r)
    PROVE  Lives'
<1>1. /\ phase \in {"capture", "prepare"} /\ phase' = "prepare"
      /\ UNCHANGED <<calls, cancel, work, child, revoked, projector, disk, initialized>>
      /\ \A r \in Run : prep'[r] = "ok" => initialized
  <2>1. CASE CaptureContext
    BY <2>1 DEF CaptureContext, Lives, RunFits
  <2>2. ASSUME NEW r \in Run, PrepareRun(r)
        PROVE  \A s \in Run : prep'[s] = "ok" => initialized
    <3>1. \A s \in Run : prep[s] = "ok" => initialized
      BY DEF Lives, RunFits
    <3>2. /\ prep \in [Run -> {"none", "ok", "failed"}]
          /\ \/ initialized /\ prep' = [prep EXCEPT ![r] = "ok"]
             \/ prep' = [prep EXCEPT ![r] = "failed"]
      BY <2>2, Types DEF PrepareRun
    <3> QED
      BY <3>1, <3>2
  <2>3. CASE \E r \in Run : PrepareRun(r)
    BY <2>2, <2>3 DEF PrepareRun
  <2> QED
    BY <2>1, <2>3
<1>2. batch' = batch /\ Batch' = Batch
  BY <1>1, SameBatch
<1>3. child = {}
  BY <1>1 DEF Lives, ChildFits
<1>4. \A r \in Run : Fresh(r)' <=> Fresh(r)
  BY <1>1, <1>2 DEF Fresh
<1>5. FreshIsUnknown'
  BY <1>1, <1>4 DEF Lives, FreshIsUnknown
<1>6. ASSUME NEW r \in Run
      PROVE  RunFits(r)'
  <2>1. RunFits(r)
    BY DEF Lives
  <2> QED
    BY <1>1, <2>1 DEF RunFits
<1>7. TreeIsWritten' /\ OldIsOver' /\ (phase' # "idle" => calls' # 0)
  BY <1>1 DEF Lives, TreeIsWritten, OldIsOver
<1> QED
  BY <1>1, <1>3, <1>5, <1>6, <1>7 DEF Lives

\* The barrier is passed when every record of the batch was written.
LEMMA StartTreeLives ==
    ASSUME TypeOK, Snapshots, Lives, BarrierHolds, StartTree
    PROVE  Lives' /\ work' \in [Run -> {"none", "queued", "child", "done"}]
           /\ child' \subseteq Run
<1> DEFINE W == {"none", "queued", "child", "done"}
           w == [r \in Run |-> IF r \in Batch THEN "queued" ELSE work[r]]
<1>1. /\ phase = "barrier" /\ phase' = "tree" /\ cancel = "none" /\ ~projector.failed
      /\ waits[Supervisor] = 0 /\ work' = Dispatched(w) /\ child' = child \cup Started(work')
      /\ UNCHANGED <<calls, cancel, prep, revoked, projector, control, disk, initialized>>
  BY DEF StartTree, AtBarrier
<1>2. work \in [Run -> W] /\ Batch \subseteq Run /\ calls \in 0..Len(Batches)
  BY Types, BatchIs
<1>3. Batch' = Batch
  BY <1>1, SameBatch
<1>4. w \in [Run -> W] /\ \A r \in Run : w[r] = IF r \in Batch THEN "queued" ELSE work[r]
  BY <1>2
<1> HIDE DEF w
<1>5. /\ work' \in [Run -> W]
      /\ \A r \in Run :
            \/ work'[r] = w[r]
            \/ w[r] = "queued" /\ r \in revoked /\ work'[r] = "done"
            \/ w[r] = "queued" /\ work'[r] = "child"
  BY <1>1, <1>4, DispatchedIs
<1>6. child = {}
  BY <1>1 DEF Lives, ChildFits
<1>7. child' = {r \in Run : work'[r] = "child" /\ work[r] # "child"}
  BY <1>1, <1>6 DEF Started
<1>8. \A r \in Batch : disk[r].st # "none"
  <2>1. projector \in Projectors
    BY Types
  <2>2. \A i \in DOMAIN projector.queue : ~(i <= 0)
    BY <2>1, QueueRuns
  <2> QED
    BY <1>1, <2>2 DEF BarrierHolds
<1>9. FreshIsUnknown'
  <2>1. \A r \in Run : Fresh(r)' => Fresh(r)
    BY <1>1, <1>3 DEF Fresh
  <2> QED
    BY <1>1, <2>1 DEF Lives, FreshIsUnknown
<1>10. ASSUME NEW r \in Run
       PROVE  /\ RunFits(r)'
              /\ work'[r] = "child" => r \in Batch
  <2>1. RunFits(r)
    BY DEF Lives
  <2>2. work[r] \notin {"queued", "child"}
    BY <1>1, <2>1 DEF RunFits
  <2>3. CASE r \notin Batch
    <3>1. work'[r] = work[r]
      BY <1>4, <1>5, <2>2, <2>3
    <3> QED
      BY <1>1, <1>3, <2>1, <2>2, <2>3, <3>1 DEF RunFits
  <2>4. CASE r \in Batch
    <3>1. work'[r] \in {"queued", "child"} \/ (r \in revoked /\ work'[r] = "done")
      BY <1>4, <1>5, <2>4
    <3>2. r \in revoked => projector.rec[r].st \in Terminal
      <4>1. projector.rec[r].st # "none"
        BY <1>1, <2>1, <2>4 DEF RunFits
      <4> QED
        BY <2>1, <4>1, RevokedIsOver
    <3> QED
      BY <1>1, <1>3, <2>1, <2>4, <3>1, <3>2 DEF RunFits
  <2> QED
    BY <2>3, <2>4
<1>11. ASSUME NEW r \in child'
       PROVE  ChildFits(r)'
  <2>1. r \in Run /\ work'[r] = "child" /\ r \in Batch
    BY <1>7, <1>10
  <2>2. prep[r] = "ok" /\ projector.rec[r].st # "none"
    BY <1>1, <2>1 DEF Lives, RunFits
  <2> QED
    BY <1>1, <1>3, <1>8, <2>1, <2>2 DEF ChildFits
<1>12. TreeIsWritten' /\ OldIsOver' /\ (phase' # "idle" => calls' # 0)
  BY <1>1, <1>3, <1>8 DEF Lives, TreeIsWritten, OldIsOver
<1> QED
  BY <1>5, <1>7, <1>9, <1>10, <1>11, <1>12 DEF Lives

LEMMA AbortLives ==
    ASSUME TypeOK, Lives, NEW kind \in {"timed_out", "interrupted"}, AbortExecution(kind)
    PROVE  Lives' /\ work' \in [Run -> {"none", "queued", "child", "done"}]
<1>1. /\ phase # "idle" /\ cancel' = kind
      /\ work' = [r \in Run |-> IF work[r] = "queued" THEN "done" ELSE work[r]]
      /\ UNCHANGED <<calls, phase, prep, child, revoked, projector, disk, initialized>>
  BY DEF AbortExecution
<1>2. batch' = batch /\ Batch' = Batch
  BY <1>1, SameBatch
<1>3. work \in [Run -> {"none", "queued", "child", "done"}] /\ cancel' # "none"
  BY <1>1, Types
<1>4. FreshIsUnknown'
  <2>1. \A r \in Run : Fresh(r)' <=> Fresh(r)
    BY <1>1, FreshSame
  <2> QED
    BY <1>1, <2>1 DEF Lives, FreshIsUnknown
<1>5. ASSUME NEW r \in Run
      PROVE  RunFits(r)'
  <2>1. RunFits(r)
    BY DEF Lives
  <2>2. work'[r] = IF work[r] = "queued" THEN "done" ELSE work[r]
    BY <1>1
  <2> QED
    BY <1>1, <1>2, <1>3, <2>1, <2>2 DEF RunFits
<1>6. ASSUME NEW r \in child'
      PROVE  ChildFits(r)'
  <2>1. ChildFits(r)
    BY <1>1 DEF Lives
  <2> QED
    BY <1>1, <1>2, <1>3, <2>1 DEF ChildFits
<1>7. TreeIsWritten' /\ OldIsOver' /\ (phase' # "idle" => calls' # 0)
  BY <1>1, <1>2 DEF Lives, TreeIsWritten, OldIsOver
<1>8. work' \in [Run -> {"none", "queued", "child", "done"}]
  BY <1>1, <1>3
<1> QED
  BY <1>4, <1>5, <1>6, <1>7, <1>8 DEF Lives

\* Every run of the tree has ended.
LEMMA TreeEndsLives ==
    ASSUME TypeOK, Snapshots, Lives, TreeEnds, cancel = "none"
    PROVE  Lives'
<1>1. /\ phase = "tree" /\ phase' = "idle" /\ \A r \in Batch : work[r] = "done"
      /\ UNCHANGED <<calls, cancel, prep, work, child, revoked, projector, disk, initialized>>
  BY DEF TreeEnds, AllSettled
<1>2. Batch \subseteq Run /\ child \subseteq Run
  BY Types, BatchIs
<1>3. child = {}
  BY <1>1 DEF Lives, ChildFits
<1>4. FreshIsUnknown'
  <2>1. \A r \in Run : Fresh(r)' => Fresh(r)
    BY <1>1 DEF Fresh
  <2> QED
    BY <1>1, <2>1 DEF Lives, FreshIsUnknown
<1>5. ASSUME NEW r \in Run
      PROVE  RunFits(r)'
  <2>1. RunFits(r)
    BY DEF Lives
  <2>2. work[r] \notin {"queued", "child"}
    BY <1>1, <2>1 DEF RunFits
  <2>3. projector.rec[r].st \notin ToSet(Active)
    <3>1. ToSet(Active) \cap (Terminal \cup {"none"}) = {}
      BY States DEF Terminal
    <3> QED
      BY <1>1, <2>1, <3>1 DEF RunFits
  <2> QED
    BY <1>1, <2>1, <2>2, <2>3 DEF RunFits
<1>6. TreeIsWritten' /\ OldIsOver' /\ (phase' # "idle" => calls' # 0)
  BY <1>1 DEF Lives, TreeIsWritten, OldIsOver
<1> QED
  BY <1>1, <1>3, <1>4, <1>5, <1>6 DEF Lives

LEMMA InitializeLives ==
    ASSUME TypeOK, Snapshots, Lives, Initialize
    PROVE  Lives' /\ Snapshots' /\ disk' \in [Run -> Snapshot]
           /\ \A r \in Run : /\ disk[r].st # "none" => disk'[r].st # "none"
                             /\ disk[r].st \in Terminal => disk'[r] = disk[r]
                             /\ projector.rec[r].st = "none"
<1>1. \A r \in Run : RunFits(r)
  BY DEF Lives
<1>2. /\ Snapshots' /\ disk' \in [Run -> Snapshot]
      /\ \A r \in Run : /\ projector.rec[r].st = "none"
                        /\ disk'[r].st = "none" <=> disk[r].st = "none"
                        /\ disk[r].st \in Terminal => disk'[r] = disk[r]
                        /\ disk'[r].st \notin ToSet(Active)
  BY <1>1, InitializeIs
<1>3. /\ initialized'
      /\ UNCHANGED <<calls, phase, cancel, prep, work, child, revoked, projector>>
  BY DEF Initialize
<1>4. batch' = batch /\ Batch' = Batch /\ Batch \subseteq Run
  BY <1>3, Types, BatchIs, SameBatch
<1>5. FreshIsUnknown'
  <2>1. \A r \in Run : Fresh(r)' <=> Fresh(r)
    BY <1>3, FreshSame
  <2> QED
    BY <1>2, <1>3, <2>1 DEF Lives, FreshIsUnknown
<1>6. ASSUME NEW r \in Run
      PROVE  RunFits(r)'
  <2>1. RunFits(r)
    BY <1>1
  <2> QED
    BY <1>3, <1>4, <2>1 DEF RunFits
<1>7. ASSUME NEW r \in child'
      PROVE  ChildFits(r)'
  <2>1. ChildFits(r)
    BY <1>3 DEF Lives
  <2> QED
    BY <1>2, <1>3, <1>4, <2>1 DEF ChildFits
<1>8. TreeIsWritten'
  BY <1>2, <1>3, <1>4 DEF Lives, TreeIsWritten
<1>9. OldIsOver' /\ (phase' # "idle" => calls' # 0)
  BY <1>2, <1>3 DEF Lives, OldIsOver
<1> QED
  BY <1>2, <1>5, <1>6, <1>7, <1>8, <1>9 DEF Lives

LEMMA CrashLives ==
    ASSUME TypeOK, Lives, Crash
    PROVE  Lives'
<1>1. /\ phase' = "idle" /\ cancel' = "none" /\ child' = {} /\ revoked' = {} /\ ~initialized'
      /\ prep' = [r \in Run |-> "none"] /\ work' = [r \in Run |-> "none"]
      /\ projector' = Empty /\ UNCHANGED <<calls, disk>>
  BY DEF Crash, Empty, Nothing
<1>2. \A r \in Run : projector'.rec[r].st = "none"
  BY <1>1 DEF Empty, Nothing, NoSnapshot
<1>3. \A st \in ToSet(Active) \cup Terminal : st # "none"
  BY States DEF Terminal
<1>4. FreshIsUnknown'
  <2>1. \A r \in Run : Fresh(r)' => Fresh(r)
    BY <1>1 DEF Fresh
  <2> QED
    BY <1>1, <1>2, <2>1 DEF Lives, FreshIsUnknown
<1>5. ASSUME NEW r \in Run
      PROVE  RunFits(r)'
  <2>1. prep'[r] = "none" /\ work'[r] = "none"
    BY <1>1
  <2> QED
    BY <1>1, <1>2, <1>3, <2>1 DEF RunFits
<1>6. TreeIsWritten' /\ OldIsOver'
  BY <1>1 DEF TreeIsWritten, OldIsOver
<1> QED
  BY <1>1, <1>4, <1>5, <1>6 DEF Lives

LEMMA InitLives == ASSUME Init PROVE Lives
<1>1. /\ calls = 0 /\ phase = "idle" /\ cancel = "none" /\ child = {} /\ revoked = {}
      /\ ~initialized /\ prep = [r \in Run |-> "none"] /\ work = [r \in Run |-> "none"]
      /\ projector = Empty /\ disk = Nothing
  BY DEF Init, Empty, Nothing
<1>2. \A r \in Run : projector.rec[r].st = "none" /\ disk[r].st = "none"
  BY <1>1 DEF Empty, Nothing, NoSnapshot
<1>3. \A st \in ToSet(Active) \cup Terminal : st # "none"
  BY States DEF Terminal
<1>4. FreshIsUnknown
  BY <1>1, <1>2 DEF FreshIsUnknown
<1>5. ASSUME NEW r \in Run
      PROVE  RunFits(r)
  <2>1. prep[r] = "none" /\ work[r] = "none"
    BY <1>1
  <2> QED
    BY <1>1, <1>2, <1>3, <2>1 DEF RunFits
<1>6. TreeIsWritten /\ OldIsOver
  BY <1>1 DEF TreeIsWritten, OldIsOver
<1> QED
  BY <1>1, <1>4, <1>5, <1>6 DEF Lives

----------------------------------------------------------------------------
(* Every step keeps what the barrier and the requests wait for.            *)

\* The queue only gets longer.
Extends(p, u) ==
    /\ u.failed = p.failed /\ Len(p.queue) <= Len(u.queue)
    /\ \A i \in DOMAIN p.queue : i \in DOMAIN u.queue /\ u.queue[i] = p.queue[i]

LEMMA GrowsExtends ==
    ASSUME NEW p \in Projectors, NEW u, NEW S, Grows(p, u, S)
    PROVE  Extends(p, u) /\ u \in Projectors
<1>1. PICK t : Adds(p, u, t, S)
  BY DEF Grows
<1>2. u.queue = p.queue \o t /\ t \in Seq(Operation)
  BY <1>1 DEF Adds
<1>3. p.queue \in Seq(Operation)
  BY DEF Projectors
<1> DEFINE q == p.queue
<1>4. q \in Seq(Operation)
  BY <1>3
<1> HIDE DEF q
<1>5. /\ Len(q) <= Len(q \o t)
      /\ \A i \in DOMAIN q : i \in DOMAIN (q \o t) /\ (q \o t)[i] = q[i]
  <2>1. /\ Len(q \o t) = Len(q) + Len(t) /\ Len(q) \in Nat /\ Len(t) \in Nat
        /\ DOMAIN q = 1..Len(q) /\ DOMAIN (q \o t) = 1..Len(q) + Len(t)
    BY <1>2, <1>4
  <2> QED
    BY <1>2, <1>4, <2>1
<1> QED
  BY <1>2, <1>5 DEF Extends, Grows, q

LEMMA ExtendsTwice ==
    ASSUME NEW p \in Projectors, NEW u \in Projectors, NEW v \in Projectors,
           Extends(p, u), Extends(u, v)
    PROVE  Extends(p, v)
<1>1. Len(p.queue) \in Nat /\ Len(u.queue) \in Nat /\ Len(v.queue) \in Nat
  BY QueueRuns
<1> QED
  BY <1>1 DEF Extends

LEMMA ExtendsSaved ==
    ASSUME NEW p \in Projectors, NEW u \in Projectors, Extends(p, u), NEW d, NEW r, NEW st,
           NEW n \in Nat, NEW m \in Nat, n <= m, Saved(p, d, r, st, n)
    PROVE  Saved(u, d, r, st, m)
<1>1. \A i \in DOMAIN p.queue : i \in Nat
  BY QueueRuns
<1>2. CASE p.failed \/ d[r].st = st
  BY <1>2 DEF Saved, Extends
<1>3. ASSUME NEW i \in DOMAIN p.queue, i <= n, p.queue[i].run = r, p.queue[i].snap.st = st
      PROVE  Saved(u, d, r, st, m)
  <2>1. i <= m /\ i \in DOMAIN u.queue /\ u.queue[i] = p.queue[i]
    BY <1>1, <1>3 DEF Extends
  <2> QED
    BY <1>3, <2>1 DEF Saved
<1>4. \/ p.failed \/ d[r].st = st
      \/ \E i \in DOMAIN p.queue : i <= n /\ p.queue[i].run = r /\ p.queue[i].snap.st = st
  BY DEF Saved
<1> QED
  BY <1>2, <1>3, <1>4

\* A step that writes nothing and finishes no request.
Waits ==
    \A w \in Waiter : waits'[w] = waits[w] \/ waits'[w] = Len(projector'.queue)
LEMMA WaitersGrow ==
    ASSUME TypeOK, Requests, Extends(projector, projector'), projector' \in Projectors,
           disk' = disk, Waits, \A r \in Run : control[r].st # "none" => control'[r].st # "none"
    PROVE  /\ \A w \in Waiter : waits'[w] \in Nat /\ waits'[w] <= Len(projector'.queue)
           /\ \A c \in Call : request'[c] = request[c] => RequestFits(c)'
           /\ BarrierHolds /\ calls' = calls /\ (phase' = "barrier" => phase = "barrier")
                 => BarrierHolds'
<1>1. projector \in Projectors /\ waits \in [Waiter -> Nat]
  BY Types
<1>2. Len(projector.queue) \in Nat /\ Len(projector'.queue) \in Nat
  BY <1>1, QueueRuns
<1>3. ASSUME NEW w \in Waiter
      PROVE  /\ waits'[w] \in Nat /\ waits'[w] <= Len(projector'.queue)
             /\ waits[w] \in Nat /\ waits[w] <= waits'[w]
  <2>1. waits[w] \in Nat /\ waits[w] <= Len(projector.queue)
    BY <1>1 DEF Requests
  <2>2. Len(projector.queue) <= Len(projector'.queue)
    BY DEF Extends
  <2> QED
    BY <1>2, <2>1, <2>2 DEF Waits
<1>4. ASSUME NEW c \in Call, request'[c] = request[c]
      PROVE  RequestFits(c)'
  <2>1. RequestFits(c) /\ c \in Waiter
    BY DEF Requests, Waiter
  <2>2. ASSUME request[c].pc = "confirm", request[c].answer \in Terminal
        PROVE  Saved(projector', disk', request[c].run, request[c].answer, waits'[c])
    <3>1. Saved(projector, disk, request[c].run, request[c].answer, waits[c])
      BY <2>1, <2>2 DEF RequestFits
    <3>2. waits[c] \in Nat /\ waits'[c] \in Nat /\ waits[c] <= waits'[c]
      BY <1>3, <2>1
    <3> QED
      BY <1>1, <3>1, <3>2, ExtendsSaved
  <2>3. /\ request[c].pc \in {"settle", "waiting", "confirm"} =>
              /\ request[c].run \in Run
              /\ control'[request[c].run].st # "none"
              /\ disk'[request[c].run].st # "none"
        /\ request[c].pc = "ok" /\ request[c].answer \in Terminal =>
              /\ request[c].run \in Run
              /\ disk'[request[c].run].st = request[c].answer
    BY <2>1 DEF RequestFits
  <2> QED
    BY <1>4, <2>2, <2>3 DEF RequestFits
<1>5. ASSUME BarrierHolds, calls' = calls, phase' = "barrier", phase = "barrier"
      PROVE  BarrierHolds'
  <2>1. Batch' = Batch
    BY <1>5, SameBatch
  <2>2. Supervisor \in Waiter
    BY DEF Waiter
  <2>3. waits[Supervisor] \in Nat /\ waits'[Supervisor] \in Nat
        /\ waits[Supervisor] <= waits'[Supervisor]
    BY <1>3, <2>2
  <2>4. \A i \in DOMAIN projector.queue : i \in Nat
    BY <1>1, QueueRuns
  <2>5. ASSUME NEW r \in Batch
        PROVE  \/ projector'.failed \/ disk'[r].st # "none"
               \/ \E i \in DOMAIN projector'.queue :
                     i <= waits'[Supervisor] /\ projector'.queue[i].run = r
    <3>1. CASE projector.failed \/ disk[r].st # "none"
      BY <3>1 DEF Extends
    <3>2. ASSUME NEW i \in DOMAIN projector.queue, i <= waits[Supervisor],
                 projector.queue[i].run = r
          PROVE  \E j \in DOMAIN projector'.queue :
                     j <= waits'[Supervisor] /\ projector'.queue[j].run = r
      <4>1. i <= waits'[Supervisor]
        BY <2>3, <2>4, <3>2
      <4> QED
        BY <3>2, <4>1 DEF Extends
    <3> QED
      BY <1>5, <3>1, <3>2 DEF BarrierHolds
  <2> QED
    BY <2>1, <2>5 DEF BarrierHolds
<1>6. BarrierHolds /\ calls' = calls /\ (phase' = "barrier" => phase = "barrier")
         => BarrierHolds'
  <2>1. phase' # "barrier" => BarrierHolds'
    BY DEF BarrierHolds
  <2> QED
    BY <1>5, <2>1
<1> QED
  BY <1>3, <1>4, <1>6

\* ... and leaves every request as it is.
LEMMA RequestsStay ==
    ASSUME TypeOK, Requests, Extends(projector, projector'), projector' \in Projectors,
           UNCHANGED <<disk, request>>, Waits,
           \A r \in Run : control[r].st # "none" => control'[r].st # "none"
    PROVE  /\ Requests'
           /\ BarrierHolds /\ calls' = calls /\ (phase' = "barrier" => phase = "barrier")
                 => BarrierHolds'
<1>1. disk' = disk /\ request' = request
  OBVIOUS
<1>2. /\ \A w \in Waiter : waits'[w] <= Len(projector'.queue)
      /\ \A c \in Call : request'[c] = request[c] => RequestFits(c)'
      /\ BarrierHolds /\ calls' = calls /\ (phase' = "barrier" => phase = "barrier")
            => BarrierHolds'
  BY <1>1, WaitersGrow
<1>3. \A c \in Call : RequestFits(c)'
  BY <1>1, <1>2
<1> QED
  BY <1>2, <1>3 DEF Requests

\* The end the registry knows is in the queue when it is not in the store.
LEMMA ControlSaved ==
    ASSUME NEW p \in Projectors, NEW c \in [Run -> Snapshot], NEW d, SnapshotsFit(p, c, d),
           NEW r \in Run, c[r].st \in Terminal
    PROVE  Saved(p, d, r, c[r].st, Len(p.queue))
<1>1. ControlFits(p, c) /\ EndIsWritten(p, c, d)
  BY DEF SnapshotsFit
<1>2. c[r] \in Snapshot /\ c[r].st # "none"
  BY DEF Terminal
<1>3. AsV1(c[r]) = p.rec[r]
  BY <1>1, <1>2 DEF ControlFits, Fits
<1>4. p.rec[r].st \in Terminal /\ End(p, c, r) = c[r].st
  BY <1>2, <1>3, SnapshotIs DEF End, Terminal
<1> QED
  BY <1>1, <1>4 DEF EndIsWritten

\* A request that is answered.
LEMMA AnswerFits ==
    ASSUME TypeOK, Requests, Snapshots', projector' \in Projectors,
           control' \in [Run -> Snapshot], NEW c \in Call,
           request[c].pc \in {"settle", "waiting"}, disk' = disk,
           control'[request[c].run].st # "none",
           request' = Confirming(c, control'[request[c].run].st),
           waits'[c] = Len(projector'.queue)
    PROVE  RequestFits(c)' /\ \A b \in Call \ {c} : request'[b] = request[b]
<1> DEFINE r == request[c].run
           st == control'[r].st
<1>1. r \in Run /\ disk[r].st # "none"
  BY DEF Requests, RequestFits
<1>2. /\ request'[c].pc = "confirm" /\ request'[c].answer = st /\ request'[c].run = r
      /\ \A b \in Call \ {c} : request'[b] = request[b]
  BY DEF Confirming, TypeOK
<1>3. SnapshotsFit(projector', control', disk')
  BY DEF Snapshots
<1>4. st \in Terminal => Saved(projector', disk', r, st, waits'[c])
  BY <1>1, <1>3, ControlSaved
<1> HIDE DEF r, st
<1>5. /\ control'[r].st # "none" /\ disk'[r].st # "none"
  BY <1>1 DEF r
<1> QED
  BY <1>1, <1>2, <1>4, <1>5 DEF RequestFits

----------------------------------------------------------------------------
(* The inductive invariant.                                                *)

IInv == TypeOK /\ Snapshots /\ Lives /\ BarrierHolds /\ Requests

\* What one step must show, with the types of what it may change.
LEMMA StepKeeps ==
    ASSUME TypeOK, Snapshots', Lives', Requests, UNCHANGED <<disk, request>>,
           Extends(projector, projector'), projector' \in Projectors, Waits,
           BarrierHolds, phase' = "barrier" => phase = "barrier" /\ calls' = calls,
           control' \in [Run -> Snapshot],
           \A r \in Run : control[r].st # "none" => control'[r].st # "none",
           calls' \in 0..Len(Batches), prep' \in [Run -> {"none", "ok", "failed"}],
           phase' \in {"idle", "capture", "prepare", "barrier", "tree"},
           cancel' \in {"none", "timed_out", "interrupted"},
           work' \in [Run -> {"none", "queued", "child", "done"}],
           child' \subseteq Run, revoked' \subseteq Run, reserved' \subseteq Run,
           waits' \in [Waiter -> Nat], response' \in {"open", "saving", "saved", "lost"},
           UNCHANGED <<initialized, faults, crashes>>
    PROVE  IInv'
<1>1. disk' = disk /\ request' = request
  OBVIOUS
<1>2. Requests' /\ (BarrierHolds /\ calls' = calls /\ (phase' = "barrier" => phase = "barrier")
                      => BarrierHolds')
  BY RequestsStay
<1>3. BarrierHolds'
  BY <1>2 DEF BarrierHolds
<1>4. TypeOK'
  BY DEF TypeOK, Projectors
<1> QED
  BY <1>2, <1>3, <1>4 DEF IInv

\* The steps of execute that leave the queue, the store and the registry.
LEMMA QuietKeeps ==
    ASSUME IInv,
           \/ Execute \/ CaptureContext \/ (\E r \in Run : PrepareRun(r)) \/ StartTree
           \/ (\E kind \in {"timed_out", "interrupted"} : AbortExecution(kind))
           \/ TreeEnds /\ cancel = "none"
    PROVE  IInv'
<1>1. UNCHANGED <<projector, control, disk, revoked, waits, request, response, initialized,
                  faults, crashes>>
  BY DEF Execute, CaptureContext, PrepareRun, StartTree, AbortExecution, TreeEnds
<1>2. TypeOK /\ Snapshots /\ Lives /\ BarrierHolds /\ Requests
  BY DEF IInv
<1>3. Snapshots'
  BY <1>1, <1>2, SnapshotsSame
<1>4. /\ projector \in Projectors /\ control \in [Run -> Snapshot]
      /\ waits \in [Waiter -> Nat] /\ Batch \subseteq Run /\ child \subseteq Run
      /\ prep \in [Run -> {"none", "ok", "failed"}] /\ reserved \subseteq Run
      /\ revoked \subseteq Run /\ calls \in 0..Len(Batches)
      /\ work \in [Run -> {"none", "queued", "child", "done"}]
      /\ phase \in {"idle", "capture", "prepare", "barrier", "tree"}
      /\ cancel \in {"none", "timed_out", "interrupted"}
      /\ response \in {"open", "saving", "saved", "lost"}
  BY <1>2, Types, BatchIs DEF TypeOK
<1>5. Extends(projector, projector')
  <2>1. Extends(projector, projector)
    BY <1>4, NothingGrows, GrowsExtends
  <2> QED
    BY <1>1, <2>1
<1>6. Waits /\ projector' \in Projectors /\ control' \in [Run -> Snapshot]
      /\ waits' \in [Waiter -> Nat] /\ revoked' \subseteq Run
      /\ response' \in {"open", "saving", "saved", "lost"}
      /\ \A r \in Run : control[r].st # "none" => control'[r].st # "none"
  BY <1>1, <1>4 DEF Waits
<1>7. CASE Execute
  <2>1. Lives' /\ calls' \in 0..Len(Batches)
    BY <1>2, <1>7, ExecuteLives
  <2>2. /\ phase' \in {"capture", "prepare"}
        /\ UNCHANGED <<cancel, prep, work, child, reserved>>
    BY <1>7 DEF Execute
  <2> QED
    BY <1>1, <1>2, <1>3, <1>4, <1>5, <1>6, <2>1, <2>2, StepKeeps
<1>8. CASE CaptureContext \/ \E r \in Run : PrepareRun(r)
  <2>1. Lives'
    BY <1>2, <1>8, PreparingLives
  <2>2. phase' = "prepare" /\ UNCHANGED <<calls, cancel, work, child>>
    BY <1>8 DEF CaptureContext, PrepareRun
  <2>3. prep' \in [Run -> {"none", "ok", "failed"}] /\ reserved' \subseteq Run
    BY <1>4, <1>8 DEF CaptureContext, PrepareRun
  <2> QED
    BY <1>1, <1>2, <1>3, <1>4, <1>5, <1>6, <2>1, <2>2, <2>3, StepKeeps
<1>9. CASE StartTree
  <2>1. Lives' /\ child' \subseteq Run
    BY <1>2, <1>9, StartTreeLives
  <2>2. work' \in [Run -> {"none", "queued", "child", "done"}]
    BY <1>2, <1>9, StartTreeLives
  <2>3. phase' = "tree" /\ UNCHANGED <<calls, cancel, prep, reserved>>
    BY <1>9 DEF StartTree
  <2> QED
    BY <1>1, <1>2, <1>3, <1>4, <1>5, <1>6, <2>1, <2>2, <2>3, StepKeeps
<1>10. ASSUME NEW kind \in {"timed_out", "interrupted"}, AbortExecution(kind)
       PROVE  IInv'
  <2>1. Lives' /\ work' \in [Run -> {"none", "queued", "child", "done"}]
    BY <1>2, <1>10, AbortLives
  <2>2. cancel' = kind /\ UNCHANGED <<calls, phase, prep, child, reserved>>
    BY <1>10 DEF AbortExecution
  <2> QED
    BY <1>1, <1>2, <1>3, <1>4, <1>5, <1>6, <2>1, <2>2, StepKeeps
<1>11. CASE TreeEnds /\ cancel = "none"
  <2>1. Lives'
    BY <1>2, <1>11, TreeEndsLives
  <2>2. phase' = "idle" /\ UNCHANGED <<calls, cancel, prep, work, child, reserved>>
    BY <1>11 DEF TreeEnds
  <2> QED
    BY <1>1, <1>2, <1>3, <1>4, <1>5, <1>6, <2>1, <2>2, StepKeeps
<1> QED
  BY <1>7, <1>8, <1>9, <1>10, <1>11

\* The steps that project.
LEMMA ProjectingKeeps ==
    ASSUME IInv,
           \/ \E r \in Run : Telemetry(r) \/ ChildEnds(r)
           \/ SettlementTimer
           \/ CaptureFails \/ PreparationFails \/ TreeFails
           \/ TreeEnds /\ cancel # "none"
    PROVE  IInv' /\ \A r \in Run : projector.rec[r].st \in Terminal =>
                                      projector'.rec[r] = projector.rec[r]
<1>1. UNCHANGED <<calls, cancel, prep, control, disk, waits, request, response, initialized,
                  faults, crashes>> /\ phase' \in {phase, "idle"}
  BY DEF Telemetry, ChildEnds, SettlementTimer, CaptureFails, PreparationFails, TreeFails,
         TreeEnds, Unwind
<1>2. TypeOK /\ Snapshots /\ Lives /\ BarrierHolds /\ Requests
  BY DEF IInv
<1>3. /\ projector \in Projectors /\ control \in [Run -> Snapshot]
      /\ waits \in [Waiter -> Nat] /\ child \subseteq Run
      /\ prep \in [Run -> {"none", "ok", "failed"}] /\ reserved \subseteq Run
      /\ revoked \subseteq Run /\ calls \in 0..Len(Batches)
      /\ work \in [Run -> {"none", "queued", "child", "done"}]
      /\ phase \in {"idle", "capture", "prepare", "barrier", "tree"}
      /\ cancel \in {"none", "timed_out", "interrupted"}
      /\ response \in {"open", "saving", "saved", "lost"}
  BY <1>2, Types DEF TypeOK
<1>4. Waits /\ control' \in [Run -> Snapshot] /\ waits' \in [Waiter -> Nat]
      /\ \A r \in Run : control[r].st # "none" => control'[r].st # "none"
  BY <1>1, <1>3 DEF Waits
<1>5. ASSUME Lives', Snapshots', Grows(projector, projector', {}), revoked' \subseteq Run,
             child' \subseteq Run, reserved' \subseteq Run,
             work' \in [Run -> {"none", "queued", "child", "done"}]
      PROVE  IInv' /\ \A r \in Run : projector.rec[r].st \in Terminal =>
                                        projector'.rec[r] = projector.rec[r]
  <2>1. Extends(projector, projector') /\ projector' \in Projectors
    BY <1>3, <1>5, GrowsExtends
  <2>2. IInv'
    BY <1>1, <1>2, <1>3, <1>4, <1>5, <2>1, StepKeeps
  <2>3. \A r \in Run : projector.rec[r].st \in Terminal => projector'.rec[r] = projector.rec[r]
    BY <1>5 DEF Grows, Moved
  <2> QED
    BY <2>2, <2>3
<1>6. ASSUME NEW r \in Run, Telemetry(r)
      PROVE  Lives' /\ Snapshots' /\ Grows(projector, projector', {})
             /\ UNCHANGED <<revoked, child, reserved, work>>
  <2>1. projector.rec[r].st # "none"
    BY <1>2, <1>6 DEF Telemetry, Lives, ChildFits
  <2>2. Grows(projector, projector', {})
    BY <1>2, <1>6, <2>1, TelemetryGrows
  <2>3. Lives' /\ Snapshots'
    BY <1>2, <1>6, TelemetryLives
  <2> QED
    BY <1>6, <2>2, <2>3 DEF Telemetry
<1>7. ASSUME NEW r \in Run, ChildEnds(r)
      PROVE  Lives' /\ Snapshots' /\ Grows(projector, projector', {})
             /\ work' \in [Run -> {"none", "queued", "child", "done"}]
             /\ child' \subseteq Run /\ revoked' \subseteq Run /\ reserved' = reserved
  <2>1. Lives' /\ Snapshots' /\ Grows(projector, projector', {})
        /\ work' \in [Run -> {"none", "queued", "child", "done"}]
        /\ child' \subseteq Run /\ revoked' \subseteq Run
    BY <1>2, <1>7, ChildEndsLives
  <2> QED
    BY <1>7, <2>1 DEF ChildEnds
<1>8. ASSUME SettlementTimer
      PROVE  Lives' /\ Snapshots' /\ Grows(projector, projector', {})
             /\ work' \in [Run -> {"none", "queued", "child", "done"}]
             /\ revoked' \subseteq Run /\ UNCHANGED <<child, reserved>>
  <2>1. Lives' /\ Snapshots' /\ Grows(projector, projector', {})
        /\ work' \in [Run -> {"none", "queued", "child", "done"}] /\ revoked' \subseteq Run
    BY <1>2, <1>8, SettlementTimerLives
  <2> QED
    BY <1>8, <2>1 DEF SettlementTimer
<1>9. ASSUME CaptureFails \/ PreparationFails \/ TreeFails \/ (TreeEnds /\ cancel # "none")
      PROVE  Lives' /\ Snapshots' /\ Grows(projector, projector', {}) /\ revoked' \subseteq Run
             /\ reserved' \subseteq Run /\ UNCHANGED <<work, child>>
  <2>1. Lives' /\ Snapshots' /\ Grows(projector, projector', {}) /\ revoked' \subseteq Run
    BY <1>2, <1>9, FailsLives
  <2>2. reserved' \subseteq reserved /\ UNCHANGED <<work, child>>
    BY <1>9 DEF CaptureFails, PreparationFails, TreeFails, TreeEnds, Unwind
  <2> QED
    BY <1>3, <2>1, <2>2
<1> QED
  BY <1>3, <1>5, <1>6, <1>7, <1>8, <1>9

LEMMA ProjectKeeps ==
    ASSUME IInv, Project
    PROVE  IInv' /\ \A r \in Run :
                       /\ control[r].st # "none" => control'[r] = control[r]
                       /\ projector.rec[r].st \in Terminal => projector'.rec[r] = projector.rec[r]
<1>1. TypeOK /\ Snapshots /\ Lives /\ BarrierHolds /\ Requests
  BY DEF IInv
<1>2. /\ Lives' /\ Snapshots' /\ Grows(projector, projector', {})
      /\ control' \in [Run -> Snapshot]
      /\ \A r \in Run :
            /\ control[r].st # "none" => control'[r] = control[r]
            /\ projector.rec[r].st \in Terminal => projector'.rec[r] = projector.rec[r]
  BY <1>1, ProjectLives
<1>3. /\ phase' = "barrier" /\ phase = "prepare"
      /\ waits' = [waits EXCEPT ![Supervisor] = Len(projector'.queue)]
      /\ UNCHANGED <<calls, cancel, prep, work, child, revoked, disk, reserved, initialized,
                     request, response, faults, crashes>>
      /\ projector' = FoldLeft(Begin, projector, batch)
  BY DEF Project, Flush, AllPrepared
<1>4. projector \in Projectors /\ waits \in [Waiter -> Nat]
  BY <1>1, Types
<1>5. Extends(projector, projector') /\ projector' \in Projectors
  BY <1>2, <1>4, GrowsExtends
<1>6. Waits /\ waits'[Supervisor] = Len(projector'.queue) /\ waits' \in [Waiter -> Nat]
  <2>1. Supervisor \in Waiter
    BY DEF Waiter
  <2>2. Len(projector'.queue) \in Nat
    BY <1>5, QueueRuns
  <2> QED
    BY <1>3, <1>4, <2>1, <2>2 DEF Waits
<1>7. Requests'
  BY <1>1, <1>2, <1>3, <1>5, <1>6, RequestsStay
<1>8. BarrierHolds'
  <2>1. /\ batch \in Seq(Run) /\ \A i, j \in DOMAIN batch : batch[i] = batch[j] => i = j
        /\ DOMAIN batch = 1..Len(batch) /\ Batch \subseteq Run
        /\ \A r : r \in Batch <=> \E i \in 1..Len(batch) : batch[i] = r
    BY <1>1, Types, BatchIs
  <2>2. \A r \in ToSet(batch) : projector.rec[r] = NoSnapshot
    <3>1. ASSUME NEW r \in Batch
          PROVE  projector.rec[r].st = "none"
      BY <1>1, <1>3, <2>1 DEF Lives, FreshIsUnknown, Fresh
    <3>2. RecFits(projector)
      BY <1>1 DEF Snapshots, SnapshotsFit
    <3> QED
      BY <2>1, <3>1, <3>2 DEF RecFits, Batch
  <2>3. Looped(projector, projector', Run, [r \in Run |-> [st |-> "queued", rev |-> 1]],
               batch, Len(batch))
    BY <1>3, <1>4, <2>1, <2>2, BeginGrows
  <2>4. PICK t : /\ projector'.queue = projector.queue \o t
                 /\ Written(t, Hit(Run, batch, Len(batch)),
                            [r \in Run |-> [st |-> "queued", rev |-> 1]], batch, Len(batch))
    BY <2>3 DEF Looped
  <2>5. t \in Seq(Operation)
        /\ \A r \in Hit(Run, batch, Len(batch)) : \E k \in DOMAIN t : t[k].run = r
    BY <2>4 DEF Written
  <2>6. ASSUME NEW r \in Batch
        PROVE  \E i \in DOMAIN projector'.queue :
                  i <= waits'[Supervisor] /\ projector'.queue[i].run = r
    <3>1. r \in Hit(Run, batch, Len(batch))
      BY <2>1 DEF Hit
    <3>2. PICK k \in DOMAIN t : t[k].run = r
      BY <2>5, <3>1
    <3>3. projector.queue \in Seq(Operation)
      BY <1>4 DEF Projectors
    <3> DEFINE q == projector.queue
    <3>4. q \in Seq(Operation)
      BY <3>3
    <3> HIDE DEF q
    <3>5. /\ Len(q) + k \in DOMAIN (q \o t) /\ (q \o t)[Len(q) + k] = t[k]
          /\ Len(q) + k <= Len(q \o t)
      <4>1. /\ Len(q \o t) = Len(q) + Len(t) /\ Len(q) \in Nat /\ Len(t) \in Nat
            /\ DOMAIN t = 1..Len(t) /\ DOMAIN (q \o t) = 1..Len(q) + Len(t)
        BY <2>5, <3>4
      <4> QED
        BY <2>5, <3>4, <4>1
    <3>6. q \o t = projector'.queue
      BY <2>4 DEF q
    <3> QED
      BY <1>6, <3>2, <3>5, <3>6
  <2>7. Batch' = Batch
    BY <1>3, SameBatch
  <2> QED
    BY <2>6, <2>7 DEF BarrierHolds
<1>9. TypeOK'
  BY <1>1, <1>2, <1>3, <1>5, <1>6 DEF TypeOK, Projectors
<1> QED
  BY <1>2, <1>7, <1>8, <1>9 DEF IInv

LEMMA ProjectionFailsKeeps ==
    ASSUME IInv, ProjectionFails
    PROVE  IInv' /\ \A r \in Run :
                       /\ control[r].st # "none" => control'[r] = control[r]
                       /\ projector.rec[r].st \in Terminal => projector'.rec[r] = projector.rec[r]
<1>1. TypeOK /\ Snapshots /\ Lives /\ BarrierHolds /\ Requests
  BY DEF IInv
<1>2. /\ Lives' /\ Snapshots' /\ revoked' \subseteq Run
      /\ projector' \in Projectors /\ control' \in [Run -> Snapshot]
      /\ \E p \in Projectors : Grows(projector, p, {}) /\ Grows(p, projector', {})
      /\ \A r \in Run :
            /\ control[r].st # "none" => control'[r] = control[r]
            /\ projector.rec[r].st \in Terminal => projector'.rec[r] = projector.rec[r]
  BY <1>1, ProjectionFailsLives
<1>3. /\ phase' = "idle" /\ reserved' \subseteq reserved
      /\ UNCHANGED <<calls, cancel, prep, work, child, disk, initialized, waits, request,
                     response, faults, crashes>>
  BY DEF ProjectionFails, Unwind
<1>4. projector \in Projectors
  BY <1>1, Types
<1>5. Extends(projector, projector')
  <2>1. PICK p \in Projectors : Grows(projector, p, {}) /\ Grows(p, projector', {})
    BY <1>2
  <2>2. Extends(projector, p) /\ Extends(p, projector')
    BY <1>4, <2>1, GrowsExtends
  <2> QED
    BY <1>2, <1>4, <2>2, ExtendsTwice
<1>6. /\ calls \in 0..Len(Batches) /\ prep \in [Run -> {"none", "ok", "failed"}]
      /\ cancel \in {"none", "timed_out", "interrupted"} /\ child \subseteq Run
      /\ work \in [Run -> {"none", "queued", "child", "done"}] /\ reserved' \subseteq Run
      /\ waits \in [Waiter -> Nat] /\ response \in {"open", "saving", "saved", "lost"}
  BY <1>1, <1>3, Types DEF TypeOK
<1>7. Waits /\ \A r \in Run : control[r].st # "none" => control'[r].st # "none"
  BY <1>2, <1>3 DEF Waits
<1>8. IInv'
  BY <1>1, <1>2, <1>3, <1>5, <1>6, <1>7, StepKeeps
<1> QED
  BY <1>2, <1>8

\* The response is saved.
LEMMA ResponseKeeps ==
    ASSUME IInv, PersistAssistant \/ AppendMessage
    PROVE  IInv'
<1>1. TypeOK /\ Snapshots /\ Lives /\ BarrierHolds /\ Requests
  BY DEF IInv
<1>2. /\ UNCHANGED <<calls, phase, cancel, prep, work, child, revoked, projector, control,
                     disk, reserved, initialized, request, faults, crashes>>
      /\ waits' = waits \/ waits' = [waits EXCEPT ![Response] = Len(projector.queue)]
      /\ response' \in {"saving", "saved", "lost"}
  BY DEF PersistAssistant, AppendMessage, Flush
<1>3. /\ projector \in Projectors /\ control \in [Run -> Snapshot]
      /\ waits \in [Waiter -> Nat] /\ child \subseteq Run
      /\ prep \in [Run -> {"none", "ok", "failed"}] /\ reserved \subseteq Run
      /\ revoked \subseteq Run /\ calls \in 0..Len(Batches)
      /\ work \in [Run -> {"none", "queued", "child", "done"}]
      /\ phase \in {"idle", "capture", "prepare", "barrier", "tree"}
      /\ cancel \in {"none", "timed_out", "interrupted"}
  BY <1>1, Types DEF TypeOK
<1>4. Extends(projector, projector') /\ projector' \in Projectors
  <2>1. Extends(projector, projector)
    BY <1>3, NothingGrows, GrowsExtends
  <2> QED
    BY <1>2, <1>3, <2>1
<1>5. Waits /\ waits' \in [Waiter -> Nat]
  <2>1. Len(projector.queue) \in Nat
    BY <1>3, QueueRuns
  <2> QED
    BY <1>2, <1>3, <2>1 DEF Waits
<1>6. Snapshots'
  BY <1>1, <1>2, SnapshotsSame
<1>7. Lives'
  BY <1>1, <1>2, SameLives
<1>8. control' \in [Run -> Snapshot]
      /\ \A r \in Run : control[r].st # "none" => control'[r].st # "none"
  BY <1>2, <1>3
<1> QED
  BY <1>1, <1>2, <1>3, <1>4, <1>5, <1>6, <1>7, <1>8, StepKeeps

\* The management requests.
RequestTypes ==
    [act : {"status", "wait", "stop"}, run : Run \cup {"none"},
     pc : {"idle", "settle", "waiting", "confirm", "ok", "rejected"},
     answer : RunState \cup {"none"}]

\* A step of one request that leaves the snapshots.
LEMMA RequestKeeps ==
    ASSUME IInv, NEW c \in Call,
           UNCHANGED <<calls, phase, cancel, prep, work, child, revoked, projector, control,
                       disk, reserved, initialized, response, faults, crashes>>,
           waits' = waits \/ waits' = [waits EXCEPT ![c] = Len(projector.queue)],
           NEW x \in RequestTypes, request' = [request EXCEPT ![c] = x], RequestFits(c)'
    PROVE  IInv'
<1>1. TypeOK /\ Snapshots /\ Lives /\ BarrierHolds /\ Requests
  BY DEF IInv
<1>2. projector \in Projectors /\ waits \in [Waiter -> Nat] /\ request \in [Call -> RequestTypes]
  BY <1>1, Types DEF TypeOK, RequestTypes
<1>3. Extends(projector, projector') /\ projector' \in Projectors
  <2>1. Extends(projector, projector)
    BY <1>2, NothingGrows, GrowsExtends
  <2> QED
    BY <1>2, <2>1
<1>4. Waits /\ waits' \in [Waiter -> Nat]
  <2>1. Len(projector.queue) \in Nat
    BY <1>2, QueueRuns
  <2> QED
    BY <1>2, <2>1 DEF Waits
<1>5. /\ \A w \in Waiter : waits'[w] <= Len(projector'.queue)
      /\ \A b \in Call : request'[b] = request[b] => RequestFits(b)'
      /\ BarrierHolds'
  <2>1. disk' = disk /\ \A r \in Run : control[r].st # "none" => control'[r].st # "none"
    OBVIOUS
  <2> QED
    BY <1>1, <1>3, <1>4, <2>1, WaitersGrow
<1>6. \A b \in Call \ {c} : request'[b] = request[b]
  BY <1>2
<1>7. Requests'
  BY <1>5, <1>6 DEF Requests
<1>8. Lives' /\ Snapshots'
  BY <1>1, SameLives, SnapshotsSame
<1>9. request' \in [Call -> RequestTypes]
  BY <1>2
<1>10. TypeOK'
  BY <1>1, <1>4, <1>9 DEF TypeOK, RequestTypes
<1> QED
  BY <1>5, <1>7, <1>8, <1>10 DEF IInv

LEMMA ManageKeeps ==
    ASSUME IInv, NEW c \in Call, NEW act \in {"status", "wait", "stop"}, NEW r \in Run,
           Manage(c, act, r)
    PROVE  IInv'
<1> DEFINE x == [act |-> act, run |-> r, pc |-> "settle", answer |-> "none"]
<1>1. x \in RequestTypes
  BY DEF RequestTypes
<1>2. request \in [Call -> RequestTypes]
  BY DEF IInv, TypeOK, RequestTypes
<1>3. /\ request' = [request EXCEPT ![c] = x] /\ control[r].st # "none" /\ disk[r].st # "none"
      /\ waits' = [waits EXCEPT ![c] = Len(projector.queue)]
      /\ UNCHANGED <<calls, phase, cancel, prep, work, child, revoked, projector, control,
                     disk, reserved, initialized, response, faults, crashes>>
  BY DEF Manage, Flush
<1>4. RequestFits(c)'
  <2>1. request'[c] = x
    BY <1>2, <1>3
  <2>2. x.pc = "settle" /\ x.run = r
    OBVIOUS
  <2> HIDE DEF x
  <2> QED
    BY <1>3, <2>1, <2>2 DEF RequestFits
<1> HIDE DEF x
<1> QED
  BY <1>1, <1>3, <1>4, RequestKeeps

LEMMA ManageFailsKeeps ==
    ASSUME IInv, NEW c \in Call, ManageFails(c)
    PROVE  IInv'
<1> DEFINE x == [request[c] EXCEPT !.pc = "rejected"]
<1>1. request \in [Call -> RequestTypes] /\ request[c] \in RequestTypes
  BY DEF IInv, TypeOK, RequestTypes
<1>2. x \in RequestTypes /\ x.pc = "rejected"
  BY <1>1 DEF RequestTypes
<1>3. /\ request' = [request EXCEPT ![c] = x] /\ waits' = waits
      /\ UNCHANGED <<calls, phase, cancel, prep, work, child, revoked, projector, control,
                     disk, reserved, initialized, response, faults, crashes>>
  BY DEF ManageFails, Reject, memory
<1> HIDE DEF x
<1>4. RequestFits(c)'
  <2>1. request'[c] = x
    BY <1>1, <1>3
  <2> QED
    BY <1>2, <2>1 DEF RequestFits
<1> QED
  BY <1>2, <1>3, <1>4, RequestKeeps

LEMMA ConfirmKeeps ==
    ASSUME IInv, NEW c \in Call, Confirm(c)
    PROVE  IInv'
<1> DEFINE x == [request[c] EXCEPT !.pc = IF projector.failed THEN "rejected" ELSE "ok"]
<1>1. request \in [Call -> RequestTypes] /\ request[c] \in RequestTypes
  BY DEF IInv, TypeOK, RequestTypes
<1>2. /\ x \in RequestTypes /\ x.run = request[c].run /\ x.answer = request[c].answer
      /\ x.pc = IF projector.failed THEN "rejected" ELSE "ok"
  BY <1>1 DEF RequestTypes
<1>3. /\ request' = [request EXCEPT ![c] = x] /\ waits' = waits
      /\ UNCHANGED <<calls, phase, cancel, prep, work, child, revoked, projector, control,
                     disk, reserved, initialized, response, faults, crashes>>
      /\ request[c].pc = "confirm" /\ waits[c] = 0
  BY DEF Confirm, Settled, At, memory
<1> HIDE DEF x
<1>4. RequestFits(c)'
  <2>1. request'[c] = x
    BY <1>1, <1>3
  <2>2. RequestFits(c)
    BY DEF IInv, Requests
  <2>3. projector \in Projectors
    BY Types DEF IInv
  <2>4. ASSUME ~projector.failed, request[c].answer \in Terminal
        PROVE  disk[request[c].run].st = request[c].answer
    <3>1. Saved(projector, disk, request[c].run, request[c].answer, 0)
      BY <1>3, <2>2, <2>4 DEF RequestFits
    <3>2. \A i \in DOMAIN projector.queue : ~(i <= 0)
      BY <2>3, QueueRuns
    <3> QED
      BY <2>4, <3>1, <3>2 DEF Saved
  <2>5. request[c].run \in Run
    BY <1>3, <2>2 DEF RequestFits
  <2> QED
    BY <1>2, <1>3, <2>1, <2>4, <2>5 DEF RequestFits
<1> QED
  BY <1>2, <1>3, <1>4, RequestKeeps

LEMMA AnswerKeeps ==
    ASSUME IInv, NEW c \in Call, request[c].pc = "waiting", Answer(c)
    PROVE  IInv'
<1> DEFINE st == control[request[c].run].st
           x == [[request[c] EXCEPT !.pc = "confirm"] EXCEPT !.answer = st]
<1>1. request \in [Call -> RequestTypes] /\ request[c] \in RequestTypes
  BY DEF IInv, TypeOK, RequestTypes
<1>2. TypeOK /\ Snapshots /\ Requests
  BY DEF IInv
<1>3. control \in [Run -> Snapshot] /\ projector \in Projectors /\ waits \in [Waiter -> Nat]
  BY <1>2, Types
<1>4. request[c].run \in Run /\ st # "none"
  BY <1>2 DEF Requests, RequestFits
<1>5. st \in RunState
  BY <1>3, <1>4, SnapshotIs
<1> HIDE DEF st
<1>6. x \in RequestTypes
  BY <1>1, <1>5 DEF RequestTypes
<1>7. /\ request' = Confirming(c, st)
      /\ waits' = [waits EXCEPT ![c] = Len(projector.queue)]
      /\ UNCHANGED <<calls, phase, cancel, prep, work, child, revoked, projector, control,
                     disk, reserved, initialized, response, faults, crashes>>
  BY DEF Answer, Flush, st
<1>8. request' = [request EXCEPT ![c] = x]
  BY <1>1, <1>7 DEF Confirming
<1>9. RequestFits(c)'
  <2>1. Snapshots'
    BY <1>2, <1>7, SnapshotsSame
  <2>2. waits'[c] = Len(projector'.queue)
    BY <1>3, <1>7 DEF Waiter
  <2>3. control'[request[c].run].st = st
    BY <1>7 DEF st
  <2> QED
    BY <1>2, <1>3, <1>4, <1>7, <2>1, <2>2, <2>3, AnswerFits
<1> HIDE DEF x
<1> QED
  BY <1>6, <1>7, <1>8, <1>9, RequestKeeps

LEMMA ActKeeps ==
    ASSUME IInv, NEW c \in Call, Act(c)
    PROVE  IInv' /\ \A r \in Run :
                       /\ control[r].st \in Terminal => control'[r] = control[r]
                       /\ projector.rec[r].st \in Terminal => projector'.rec[r] = projector.rec[r]
<1> DEFINE r == request[c].run
<1>1. TypeOK /\ Snapshots /\ Lives /\ BarrierHolds /\ Requests
  BY DEF IInv
<1>2. \E S : Grows(projector, projector', S)
  BY <1>1, ActIs
<1>3. /\ Snapshots' /\ control' \in [Run -> Snapshot] /\ r \in Run
      /\ \A s \in Run \ {r} : control'[s] = control[s]
      /\ control[r].st \in Terminal => control'[r] = control[r]
      /\ control'[r].st # "none"
      /\ revoked' = revoked \/ revoked' = revoked \cup {r}
  BY <1>1, ActIs
<1>4. projector \in Projectors /\ waits \in [Waiter -> Nat] /\ request \in [Call -> RequestTypes]
      /\ work \in [Run -> {"none", "queued", "child", "done"}]
  BY <1>1, Types DEF TypeOK, RequestTypes
<1>5. Extends(projector, projector') /\ projector' \in Projectors
  BY <1>2, <1>4, GrowsExtends
<1>6. /\ UNCHANGED <<calls, phase, cancel, prep, child, disk, reserved, initialized, response,
                     faults, crashes>>
      /\ request[c].pc = "settle"
      /\ work' = work \/ work' = [work EXCEPT ![r] = "done"]
      /\ \/ /\ request' = [request EXCEPT ![c].pc = "waiting"]
            /\ waits' = waits
         \/ /\ request' = Confirming(c, control'[r].st)
            /\ waits' = [waits EXCEPT ![c] = Len(projector'.queue)]
  BY DEF Act, At, Flush
<1>7. Lives'
  BY <1>1, ActLives
<1>8. Waits /\ waits' \in [Waiter -> Nat]
  <2>1. Len(projector'.queue) \in Nat
    BY <1>5, QueueRuns
  <2> QED
    BY <1>4, <1>6, <2>1 DEF Waits
<1>9. \A s \in Run : control[s].st # "none" => control'[s].st # "none"
  BY <1>3
<1>10. /\ \A w \in Waiter : waits'[w] <= Len(projector'.queue)
       /\ \A b \in Call : request'[b] = request[b] => RequestFits(b)'
       /\ BarrierHolds'
  <2>1. disk' = disk
    BY <1>6
  <2> QED
    BY <1>1, <1>5, <1>6, <1>8, <1>9, <2>1, WaitersGrow
<1>11. control'[r] \in Snapshot /\ control'[r].st \in RunState
  BY <1>3, SnapshotIs
<1>12. RequestFits(c)' /\ (\A b \in Call \ {c} : request'[b] = request[b])
       /\ request' \in [Call -> RequestTypes]
  <2>1. CASE /\ request' = [request EXCEPT ![c].pc = "waiting"]
             /\ waits' = waits
    <3>1. /\ request'[c] = [request[c] EXCEPT !.pc = "waiting"]
          /\ \A b \in Call \ {c} : request'[b] = request[b]
      BY <1>4, <2>1
    <3>2. request[c] \in RequestTypes
      BY <1>4
    <3>3. request'[c].pc = "waiting" /\ request'[c].run = r /\ request'[c] \in RequestTypes
      BY <3>1, <3>2 DEF RequestTypes
    <3>4. disk[r].st # "none"
      BY <1>1, <1>6 DEF Requests, RequestFits
    <3>5. RequestFits(c)'
      BY <1>3, <1>6, <3>3, <3>4 DEF RequestFits
    <3>6. request' \in [Call -> RequestTypes]
      BY <1>4, <2>1, <3>1, <3>3
    <3> QED
      BY <3>1, <3>5, <3>6
  <2>2. CASE /\ request' = Confirming(c, control'[r].st)
             /\ waits' = [waits EXCEPT ![c] = Len(projector'.queue)]
    <3>1. waits'[c] = Len(projector'.queue)
      BY <1>4, <2>2 DEF Waiter
    <3>2. RequestFits(c)' /\ \A b \in Call \ {c} : request'[b] = request[b]
      BY <1>1, <1>3, <1>5, <1>6, <2>2, <3>1, AnswerFits
    <3> DEFINE st == control'[r].st
    <3>3. st \in RunState /\ request' = Confirming(c, st)
      BY <1>11, <2>2
    <3> HIDE DEF st
    <3> DEFINE x == [[request[c] EXCEPT !.pc = "confirm"] EXCEPT !.answer = st]
    <3>5. request' = [request EXCEPT ![c] = x]
      BY <1>4, <3>3 DEF Confirming
    <3>6. request[c] \in RequestTypes
      BY <1>4
    <3>7. x \in RequestTypes
      BY <3>3, <3>6 DEF RequestTypes
    <3> HIDE DEF x
    <3>4. request' \in [Call -> RequestTypes]
      BY <1>4, <3>5, <3>7
    <3> QED
      BY <3>2, <3>4
  <2> QED
    BY <1>6, <2>1, <2>2
<1>13. Requests'
  BY <1>10, <1>12 DEF Requests
<1>14. TypeOK'
  BY <1>1, <1>3, <1>4, <1>5, <1>6, <1>8, <1>12 DEF TypeOK, Projectors, RequestTypes
<1>15. \A s \in Run : projector.rec[s].st \in Terminal => projector'.rec[s] = projector.rec[s]
  BY <1>2 DEF Grows, Moved
<1> QED
  BY <1>3, <1>7, <1>10, <1>13, <1>14, <1>15 DEF IInv

\* A write is over.
LEMMA PersistKeeps ==
    ASSUME IInv, Persist
    PROVE  IInv'
<1> DEFINE r == projector.queue[1].run
<1>1. TypeOK /\ Snapshots /\ Lives /\ BarrierHolds /\ Requests
  BY DEF IInv
<1>2. /\ Snapshots' /\ Taken(projector, projector', disk, disk')
      /\ control' \in [Run -> Snapshot] /\ disk' \in [Run -> Snapshot]
      /\ r \in Run /\ \A s \in Run \ {r} : control'[s] = control[s] /\ disk'[s] = disk[s]
      /\ disk[r].st \notin Terminal
      /\ disk[r].st # "none" => disk'[r].st # "none"
      /\ control[r].st # "none" => control'[r].st # "none"
      /\ revoked' = revoked \/ revoked' = revoked \cup {r}
  BY <1>1, PersistIs
<1>3. /\ waits' = Advanced
      /\ UNCHANGED <<calls, phase, cancel, prep, work, child, initialized, request,
                     response, crashes>>
      /\ reserved' = reserved \/ reserved' = reserved \ {r}
  BY DEF Persist
<1>4. faults' \in 0..MaxFaults
  <2>1. faults' = faults \/ (faults < MaxFaults /\ faults' = faults + 1)
    BY DEF Persist
  <2>2. faults \in 0..MaxFaults /\ MaxFaults \in Nat
    BY <1>1, SubagentRunsAssumption DEF TypeOK
  <2> QED
    BY <2>1, <2>2
<1>5. projector \in Projectors /\ waits \in [Waiter -> Nat] /\ projector' \in Projectors
      /\ disk \in [Run -> Snapshot] /\ control \in [Run -> Snapshot]
  BY <1>1, <1>2, Types DEF Taken
<1>6. Lives'
  BY <1>1, PersistLives
<1>7. projector.queue # <<>> /\ projector'.queue = Tail(projector.queue)
      /\ (projector.failed => projector'.failed)
      /\ (projector'.failed \/ disk' = [disk EXCEPT ![r] = projector.queue[1].snap])
  BY <1>2 DEF Taken
<1>8. /\ Len(projector.queue) \in Nat \ {0} /\ Len(projector'.queue) = Len(projector.queue) - 1
      /\ DOMAIN projector.queue = 1..Len(projector.queue)
      /\ DOMAIN projector'.queue = 1..Len(projector.queue) - 1
      /\ \A i \in 1..Len(projector.queue) - 1 : projector'.queue[i] = projector.queue[i + 1]
  BY <1>5, <1>7, TailIs
<1>9. QueueFits(projector) /\ DiskFits(projector, disk)
  BY <1>1 DEF Snapshots, SnapshotsFit
<1>10. ASSUME NEW w \in Waiter
       PROVE  /\ waits[w] \in Nat
              /\ waits'[w] = IF waits[w] = 0 THEN 0 ELSE waits[w] - 1
              /\ waits'[w] \in Nat /\ waits'[w] <= Len(projector'.queue)
  <2>1. waits[w] \in Nat /\ waits[w] <= Len(projector.queue)
    BY <1>1, <1>5 DEF Requests
  <2>2. waits'[w] = IF waits[w] = 0 THEN 0 ELSE waits[w] - 1
    BY <1>3 DEF Advanced
  <2> QED
    BY <1>8, <2>1, <2>2
<1> HIDE DEF r
<1>11. \A s \in Run : /\ disk[s].st # "none" => disk'[s].st # "none"
                      /\ control[s].st # "none" => control'[s].st # "none"
                      /\ disk[s].st \in Terminal => disk'[s] = disk[s]
  BY <1>2
<1>12. ASSUME NEW c \in Call
       PROVE  RequestFits(c)'
  <2>1. RequestFits(c) /\ c \in Waiter
    BY <1>1 DEF Requests, Waiter
  <2>2. ASSUME request[c].pc = "confirm", request[c].answer \in Terminal
        PROVE  Saved(projector', disk', request[c].run, request[c].answer, waits'[c])
    <3>1. Saved(projector, disk, request[c].run, request[c].answer, waits[c])
          /\ request[c].run \in Run
      BY <2>1, <2>2 DEF RequestFits
    <3>2. waits[c] \in Nat /\ waits'[c] = IF waits[c] = 0 THEN 0 ELSE waits[c] - 1
      BY <1>10, <2>1
    <3>3. Saved(projector', disk', request[c].run, request[c].answer,
                IF waits[c] = 0 THEN 0 ELSE waits[c] - 1)
      BY <1>2, <1>5, <1>9, <2>2, <3>1, <3>2, TakenSaved
    <3> QED
      BY <3>2, <3>3
  <2>3. /\ request[c].pc \in {"settle", "waiting", "confirm"} =>
              /\ request[c].run \in Run
              /\ control'[request[c].run].st # "none"
              /\ disk'[request[c].run].st # "none"
        /\ request[c].pc = "ok" /\ request[c].answer \in Terminal =>
              /\ request[c].run \in Run
              /\ disk'[request[c].run].st = request[c].answer
    BY <1>11, <2>1 DEF RequestFits
  <2>4. request' = request
    BY <1>3
  <2> QED
    BY <2>2, <2>3, <2>4 DEF RequestFits
<1>13. BarrierHolds'
  <2>1. ASSUME phase = "barrier", NEW s \in Batch
        PROVE  \/ projector'.failed \/ disk'[s].st # "none"
               \/ \E i \in DOMAIN projector'.queue :
                     i <= waits'[Supervisor] /\ projector'.queue[i].run = s
    <3>1. s \in Run
      BY <1>1, Types, BatchIs
    <3>2. Supervisor \in Waiter
      BY DEF Waiter
    <3>3. CASE projector.failed \/ disk[s].st # "none"
      BY <1>7, <1>11, <3>1, <3>3
    <3>4. ASSUME NEW i \in DOMAIN projector.queue, i <= waits[Supervisor],
                 projector.queue[i].run = s
          PROVE  \/ projector'.failed \/ disk'[s].st # "none"
                 \/ \E j \in DOMAIN projector'.queue :
                       j <= waits'[Supervisor] /\ projector'.queue[j].run = s
      <4>1. CASE i = 1
        <5>1. r = s
          BY <3>4, <4>1 DEF r
        <5>2. projector.queue[1].snap.st # "none"
          BY <1>5, <1>7, <1>9, HeadIsFirst
        <5>3. CASE disk' = [disk EXCEPT ![r] = projector.queue[1].snap]
          <6>1. disk'[s] = projector.queue[1].snap
            BY <1>5, <3>1, <5>1, <5>3
          <6> QED
            BY <5>2, <6>1
        <5> QED
          BY <1>7, <5>3
      <4>2. CASE i # 1
        <5>1. i - 1 \in 1..Len(projector.queue) - 1 /\ (i - 1) + 1 = i
          BY <1>8, <3>4, <4>2
        <5>2. projector'.queue[i - 1] = projector.queue[i] /\ i - 1 \in DOMAIN projector'.queue
          BY <1>8, <5>1
        <5>3. i - 1 <= waits'[Supervisor]
          BY <1>8, <1>10, <3>2, <3>4, <4>2
        <5> QED
          BY <3>4, <5>2, <5>3
      <4> QED
        BY <4>1, <4>2
    <3> QED
      BY <1>1, <2>1, <3>3, <3>4 DEF BarrierHolds
  <2>2. phase' = phase /\ Batch' = Batch
    BY <1>3, SameBatch
  <2> QED
    BY <2>1, <2>2 DEF BarrierHolds
<1>14. Requests'
  BY <1>10, <1>12 DEF Requests
<1>15. waits' \in [Waiter -> Nat]
  BY <1>3, <1>10 DEF Advanced
<1>16. TypeOK'
  BY <1>1, <1>2, <1>3, <1>4, <1>5, <1>15 DEF TypeOK, Projectors
<1> QED
  BY <1>2, <1>6, <1>13, <1>14, <1>16 DEF IInv

LEMMA InitializeKeeps ==
    ASSUME IInv, Initialize
    PROVE  IInv' /\ \A r \in Run : disk[r].st \in Terminal => disk'[r] = disk[r]
<1>1. TypeOK /\ Snapshots /\ Lives /\ BarrierHolds /\ Requests
  BY DEF IInv
<1>2. /\ Lives' /\ Snapshots' /\ disk' \in [Run -> Snapshot]
      /\ \A r \in Run : /\ disk[r].st # "none" => disk'[r].st # "none"
                        /\ disk[r].st \in Terminal => disk'[r] = disk[r]
                        /\ projector.rec[r].st = "none"
  BY <1>1, InitializeLives
<1>3. /\ initialized' = TRUE
      /\ UNCHANGED <<calls, phase, cancel, prep, work, child, revoked, projector, control,
                     reserved, waits, request, response, faults, crashes>>
  BY DEF Initialize
<1>4. ASSUME NEW c \in Call
      PROVE  RequestFits(c)'
  <2>1. RequestFits(c)
    BY <1>1 DEF Requests
  <2>2. ASSUME request[c].pc = "confirm", request[c].answer \in Terminal
        PROVE  Saved(projector, disk', request[c].run, request[c].answer, waits[c])
    BY <1>2, <2>1, <2>2 DEF RequestFits, Saved
  <2>3. /\ request[c].pc \in {"settle", "waiting", "confirm"} =>
              /\ request[c].run \in Run
              /\ control[request[c].run].st # "none"
              /\ disk'[request[c].run].st # "none"
        /\ request[c].pc = "ok" /\ request[c].answer \in Terminal =>
              /\ request[c].run \in Run
              /\ disk'[request[c].run].st = request[c].answer
    BY <1>2, <2>1 DEF RequestFits
  <2> QED
    BY <1>3, <2>2, <2>3 DEF RequestFits
<1>5. Requests'
  BY <1>1, <1>3, <1>4 DEF Requests
<1>6. BarrierHolds'
  <2>1. Batch' = Batch /\ Batch \subseteq Run
    BY <1>1, <1>3, Types, BatchIs, SameBatch
  <2> QED
    BY <1>1, <1>2, <1>3, <2>1 DEF BarrierHolds
<1>7. TypeOK'
  BY <1>1, <1>2, <1>3 DEF TypeOK
<1> QED
  BY <1>2, <1>5, <1>6, <1>7 DEF IInv

LEMMA EmptyTypes == Empty \in Projectors /\ Nothing \in [Run -> Snapshot]
<1>1. NoSnapshot \in Snapshot
  BY DEF NoSnapshot, Snapshot
<1>2. <<>> \in Seq(Operation)
  OBVIOUS
<1> QED
  BY <1>1, <1>2 DEF Empty, Nothing, Projectors

LEMMA CrashKeeps ==
    ASSUME IInv, Crash
    PROVE  IInv'
<1>1. TypeOK /\ Snapshots /\ Lives /\ BarrierHolds /\ Requests
  BY DEF IInv
<1>2. Snapshots' /\ Lives'
  BY <1>1, CrashSnapshots, CrashLives
<1>3. /\ phase' = "idle" /\ cancel' = "none" /\ response' = "open"
      /\ prep' = [r \in Run |-> "none"] /\ work' = [r \in Run |-> "none"]
      /\ child' = {} /\ revoked' = {} /\ reserved' = {} /\ initialized' = FALSE
      /\ projector' = Empty /\ control' = Nothing
      /\ waits' = [w \in Waiter |-> 0]
      /\ request' = [c \in Call |->
            IF request[c].pc \in {"ok", "rejected"} THEN request[c] ELSE Unused]
      /\ UNCHANGED <<calls, disk, faults>>
      /\ crashes < MaxCrashes /\ crashes' = crashes + 1
  BY DEF Crash, Empty, Nothing
<1>4. ASSUME NEW c \in Call
      PROVE  RequestFits(c)'
  <2>1. RequestFits(c)
    BY <1>1 DEF Requests
  <2>2. CASE request[c].pc \in {"ok", "rejected"}
    <3>1. request'[c] = request[c]
      BY <1>3, <2>2
    <3> QED
      BY <1>3, <2>1, <2>2, <3>1 DEF RequestFits
  <2>3. CASE request[c].pc \notin {"ok", "rejected"}
    <3>1. request'[c].pc = "idle"
      BY <1>3, <2>3 DEF Unused
    <3> QED
      BY <3>1 DEF RequestFits
  <2> QED
    BY <2>2, <2>3
<1>5. Requests'
  <2>1. \A w \in Waiter : waits'[w] = 0
    BY <1>3
  <2>2. Len(projector'.queue) \in Nat
    BY <1>3, EmptyTypes, QueueRuns
  <2> QED
    BY <1>4, <2>1, <2>2 DEF Requests
<1>6. BarrierHolds'
  BY <1>3 DEF BarrierHolds
<1>7. request' \in [Call -> RequestTypes]
  <2>1. request \in [Call -> RequestTypes] /\ Unused \in RequestTypes
    BY <1>1 DEF TypeOK, RequestTypes, Unused
  <2> QED
    BY <1>3, <2>1
<1>8. crashes' \in 0..MaxCrashes
  BY <1>1, <1>3, SubagentRunsAssumption DEF TypeOK
<1>9. TypeOK'
  <2>1. /\ prep' \in [Run -> {"none", "ok", "failed"}]
        /\ work' \in [Run -> {"none", "queued", "child", "done"}]
        /\ waits' \in [Waiter -> Nat]
        /\ projector' \in Projectors /\ control' \in [Run -> Snapshot]
    BY <1>3, EmptyTypes
  <2> QED
    BY <1>1, <1>3, <1>7, <1>8, <2>1 DEF TypeOK, RequestTypes, Projectors
<1> QED
  BY <1>2, <1>5, <1>6, <1>9 DEF IInv

LEMMA InitKeeps == ASSUME Init PROVE IInv
<1>1. Snapshots /\ Lives
  BY InitSnapshots, InitLives
<1>2. /\ calls = 0 /\ phase = "idle" /\ cancel = "none" /\ response = "open"
      /\ prep = [r \in Run |-> "none"] /\ work = [r \in Run |-> "none"]
      /\ child = {} /\ revoked = {} /\ reserved = {} /\ initialized = FALSE
      /\ projector = Empty /\ control = Nothing /\ disk = Nothing
      /\ waits = [w \in Waiter |-> 0] /\ request = [c \in Call |-> Unused]
      /\ faults = 0 /\ crashes = 0
  BY DEF Init, Empty, Nothing
<1>3. Requests
  <2>1. \A w \in Waiter : waits[w] = 0
    BY <1>2
  <2>2. Len(projector.queue) \in Nat
    BY <1>2, EmptyTypes, QueueRuns
  <2>3. \A c \in Call : request[c].pc = "idle"
    BY <1>2 DEF Unused
  <2> QED
    BY <2>1, <2>2, <2>3 DEF Requests, RequestFits
<1>4. BarrierHolds
  BY <1>2 DEF BarrierHolds
<1>5. TypeOK
  <2>1. /\ prep \in [Run -> {"none", "ok", "failed"}]
        /\ work \in [Run -> {"none", "queued", "child", "done"}]
        /\ waits \in [Waiter -> Nat]
        /\ projector \in Projectors /\ control \in [Run -> Snapshot] /\ disk \in [Run -> Snapshot]
    BY <1>2, EmptyTypes
  <2>2. request \in [Call -> RequestTypes]
    BY <1>2 DEF Unused, RequestTypes
  <2>3. /\ calls \in 0..Len(Batches) /\ faults \in 0..MaxFaults /\ crashes \in 0..MaxCrashes
    BY <1>2, SubagentRunsAssumption
  <2> QED
    BY <1>2, <2>1, <2>2, <2>3 DEF TypeOK, RequestTypes, Projectors
<1> QED
  BY <1>1, <1>3, <1>4, <1>5 DEF IInv

----------------------------------------------------------------------------
(* The theorems.                                                           *)

\* What TerminalIsFinal says of a step.
Final ==
    \A r \in Run :
         /\ disk[r].st \in Terminal => disk'[r] = disk[r]
         /\ crashes' = crashes =>
              /\ control[r].st \in Terminal => control'[r] = control[r]
              /\ projector.rec[r].st \in Terminal
                   => projector'.rec[r] = projector.rec[r]

LEMMA NextKeeps == ASSUME IInv, Next PROVE IInv' /\ Final
<1>1. TypeOK /\ Snapshots /\ Lives /\ BarrierHolds /\ Requests
  BY DEF IInv
<1>2. "none" \notin Terminal
  BY DEF Terminal
<1>3. ASSUME UNCHANGED <<disk, control>>,
             \A r \in Run : projector.rec[r].st \in Terminal =>
                               projector'.rec[r] = projector.rec[r]
      PROVE  Final
  BY <1>3 DEF Final
<1>4. CASE \/ Execute \/ CaptureContext \/ (\E r \in Run : PrepareRun(r)) \/ StartTree
           \/ (\E kind \in {"timed_out", "interrupted"} : AbortExecution(kind))
           \/ TreeEnds /\ cancel = "none"
  <2>1. IInv'
    BY <1>4, QuietKeeps
  <2>2. UNCHANGED <<disk, control, projector>>
    BY <1>4 DEF Execute, CaptureContext, PrepareRun, StartTree, AbortExecution, TreeEnds
  <2> QED
    BY <1>3, <2>1, <2>2
<1>5. CASE \/ \E r \in Run : Telemetry(r) \/ ChildEnds(r)
           \/ SettlementTimer
           \/ CaptureFails \/ PreparationFails \/ TreeFails
           \/ TreeEnds /\ cancel # "none"
  <2>1. IInv' /\ \A r \in Run : projector.rec[r].st \in Terminal =>
                                   projector'.rec[r] = projector.rec[r]
    BY <1>5, ProjectingKeeps
  <2>2. UNCHANGED <<disk, control>>
    BY <1>5 DEF Telemetry, ChildEnds, SettlementTimer, CaptureFails, PreparationFails,
                TreeFails, TreeEnds
  <2> QED
    BY <1>3, <2>1, <2>2
<1>6. CASE Project \/ ProjectionFails
  <2>1. IInv' /\ \A r \in Run :
           /\ control[r].st # "none" => control'[r] = control[r]
           /\ projector.rec[r].st \in Terminal => projector'.rec[r] = projector.rec[r]
    BY <1>6, ProjectKeeps, ProjectionFailsKeeps
  <2>2. disk' = disk
    BY <1>6 DEF Project, ProjectionFails
  <2> QED
    BY <1>2, <2>1, <2>2 DEF Final
<1>7. CASE PersistAssistant \/ AppendMessage
  <2>1. IInv'
    BY <1>7, ResponseKeeps
  <2>2. UNCHANGED <<disk, control, projector>>
    BY <1>7 DEF PersistAssistant, AppendMessage
  <2> QED
    BY <1>3, <2>1, <2>2
<1>8. ASSUME NEW c \in Call, ManageFails(c) \/ WaitEnds(c) \/ Confirm(c) \/ WaitTimer(c)
      PROVE  IInv' /\ Final
  <2>1. IInv'
    BY <1>8, ManageFailsKeeps, AnswerKeeps, ConfirmKeeps DEF WaitEnds, WaitOver, WaitTimer
  <2>2. UNCHANGED <<disk, control, projector>>
    BY <1>8 DEF ManageFails, WaitEnds, WaitTimer, Answer, Confirm, memory
  <2> QED
    BY <1>3, <2>1, <2>2
<1>9. ASSUME NEW c \in Call, NEW act \in {"status", "wait", "stop"}, NEW r \in Run,
             Manage(c, act, r)
      PROVE  IInv' /\ Final
  <2>1. IInv'
    BY <1>9, ManageKeeps
  <2>2. UNCHANGED <<disk, control, projector>>
    BY <1>9 DEF Manage
  <2> QED
    BY <1>3, <2>1, <2>2
<1>10. ASSUME NEW c \in Call, Act(c)
       PROVE  IInv' /\ Final
  <2>1. IInv' /\ \A r \in Run :
           /\ control[r].st \in Terminal => control'[r] = control[r]
           /\ projector.rec[r].st \in Terminal => projector'.rec[r] = projector.rec[r]
    BY <1>10, ActKeeps
  <2>2. disk' = disk
    BY <1>10 DEF Act
  <2> QED
    BY <2>1, <2>2 DEF Final
<1>11. CASE Persist
  <2>1. IInv'
    BY <1>11, PersistKeeps
  <2> DEFINE r == projector.queue[1].run
  <2>2. /\ r \in Run /\ disk[r].st \notin Terminal
        /\ \A s \in Run \ {r} : control'[s] = control[s] /\ disk'[s] = disk[s]
        /\ control[r].st \in Terminal => control'[r] = control[r]
    BY <1>1, <1>11, PersistIs
  <2>3. projector'.rec = projector.rec
    BY <1>1, <1>11, PersistIs DEF Taken
  <2> HIDE DEF r
  <2> QED
    BY <2>1, <2>2, <2>3 DEF Final
<1>12. CASE Initialize
  <2>1. IInv' /\ \A r \in Run : disk[r].st \in Terminal => disk'[r] = disk[r]
    BY <1>12, InitializeKeeps
  <2>2. UNCHANGED <<control, projector>>
    BY <1>12 DEF Initialize
  <2> QED
    BY <2>1, <2>2 DEF Final
<1>13. CASE Crash
  <2>1. IInv'
    BY <1>13, CrashKeeps
  <2>2. disk' = disk /\ crashes' # crashes
    BY <1>1, <1>13, SubagentRunsAssumption DEF Crash, TypeOK
  <2> QED
    BY <2>1, <2>2 DEF Final
<1>14. CASE Step
  <2>1. \/ CaptureFails \/ PreparationFails \/ Project \/ ProjectionFails
        \/ StartTree \/ TreeFails \/ TreeEnds \/ AppendMessage
        \/ \E c \in Call : ManageFails(c) \/ Act(c) \/ WaitEnds(c) \/ Confirm(c)
    BY <1>14 DEF Step
  <2> QED
    BY <1>4, <1>5, <1>6, <1>7, <1>8, <1>10, <2>1
<1>15. CASE Event
  <2>1. \/ Execute \/ CaptureContext \/ CaptureFails
        \/ \E r \in Run : PrepareRun(r) \/ Telemetry(r) \/ ChildEnds(r)
        \/ SettlementTimer
        \/ \E kind \in {"timed_out", "interrupted"} : AbortExecution(kind)
        \/ PersistAssistant \/ Persist \/ Initialize
        \/ \E c \in Call, act \in {"status", "wait", "stop"}, r \in Run : Manage(c, act, r)
        \/ \E c \in Call : WaitTimer(c)
        \/ Crash
    BY <1>15 DEF Event
  <2> QED
    BY <1>4, <1>5, <1>7, <1>8, <1>9, <1>11, <1>12, <1>13, <2>1
<1> QED
  BY <1>14, <1>15 DEF Next

LEMMA StutterKeeps == ASSUME IInv, UNCHANGED vars PROVE IInv' /\ Final
<1>1. TypeOK /\ Snapshots /\ Lives /\ BarrierHolds /\ Requests
  BY DEF IInv
<1>2. UNCHANGED <<calls, phase, cancel, prep, work, child, revoked, projector, control,
                  disk, reserved, initialized, waits, request, response, faults, crashes>>
  BY DEF vars, memory
<1>3. Snapshots' /\ Lives' /\ TypeOK'
  BY <1>1, <1>2, SnapshotsSame, SameLives DEF TypeOK
<1>4. BarrierHolds'
  BY <1>1, <1>2, SameBatch DEF BarrierHolds
<1>5. Requests'
  BY <1>1, <1>2 DEF Requests, RequestFits, Saved
<1>6. Final
  BY <1>2 DEF Final
<1> QED
  BY <1>3, <1>4, <1>5, <1>6 DEF IInv

\* The inductive invariant of the life of delegated runs, for any batches,
\* numbers of slots and records, faults and crashes.
THEOREM Invariant == Spec => []IInv
<1>1. IInv /\ [Next]_vars => IInv'
  BY NextKeeps, StutterKeeps
<1> QED
  BY <1>1, InitKeeps, PTL DEF Spec

\* The state of the supervisor, its projector, the registry and the store.
THEOREM TypeCorrect == Spec => []TypeOK
<1>1. IInv => TypeOK
  BY DEF IInv
<1> QED
  BY <1>1, Invariant, PTL

\* No child agent exists before the records of its whole batch are durable
\* (the barrier of execute).
THEOREM No_child_before_record == Spec => []NoChildBeforeRecord
<1>1. IInv => NoChildBeforeRecord
  BY DEF IInv, Lives, ChildFits, NoChildBeforeRecord
<1> QED
  BY <1>1, Invariant, PTL

\* An acknowledged end is what the store holds, after any crash too, and the
\* store calls no run of an earlier session active once it is initialized.
THEOREM Outcomes_stand == Spec => []OutcomesStand
<1>1. IInv => OutcomesStand
  BY DEF IInv, Requests, RequestFits, Lives, OldIsOver, OutcomesStand
<1> QED
  BY <1>1, Invariant, PTL

\* The end of a run never changes, whichever of its child, its supervisor,
\* the user and late telemetry comes after it.
THEOREM Terminal_is_final == Spec => TerminalIsFinal
<1>1. IInv /\ [Next]_vars => [Final]_vars
  BY NextKeeps, StutterKeeps
<1>2. Spec => [][Final]_vars
  BY <1>1, Invariant, PTL DEF Spec
<1> QED
  BY <1>2 DEF TerminalIsFinal, Final

----------------------------------------------------------------------------
(* Places in the store.  What is queued of a run, and in which order.      *)

Has(q, r) == \E i \in DOMAIN q : q[i].run = r
HasTwo(q, r) == \E i, j \in DOMAIN q : i < j /\ q[i].run = r /\ q[j].run = r
Before(q, a, r) == \E i, j \in DOMAIN q : i < j /\ q[i].run = a /\ q[j].run = r
Through(q, a, r) ==
    \E i, j, k \in DOMAIN q : i < j /\ j < k /\ q[i].run = a /\ q[j].run = a /\ q[k].run = r
First(q, a, r) ==
    \E i \in DOMAIN q : q[i].run = a /\ \A m \in DOMAIN q : m <= i => q[m].run # r

\* More writes at the end.
LEMMA HasMore ==
    ASSUME NEW p \in Projectors, NEW u, Extends(p, u), NEW a, NEW r
    PROVE  /\ Has(p.queue, r) => Has(u.queue, r)
           /\ HasTwo(p.queue, r) => HasTwo(u.queue, r)
           /\ Before(p.queue, a, r) => Before(u.queue, a, r)
           /\ Through(p.queue, a, r) => Through(u.queue, a, r)
<1>1. \A i \in DOMAIN p.queue : i \in DOMAIN u.queue /\ u.queue[i] = p.queue[i]
  BY DEF Extends
<1>2. Has(p.queue, r) => Has(u.queue, r)
  BY <1>1 DEF Has
<1>3. HasTwo(p.queue, r) => HasTwo(u.queue, r)
  BY <1>1 DEF HasTwo
<1>4. Before(p.queue, a, r) => Before(u.queue, a, r)
  BY <1>1 DEF Before
<1>5. Through(p.queue, a, r) => Through(u.queue, a, r)
  BY <1>1 DEF Through
<1> QED
  BY <1>2, <1>3, <1>4, <1>5

LEMMA FirstLess ==
    ASSUME NEW p \in Projectors, NEW u \in Projectors, Extends(p, u), NEW a, NEW r,
           Has(p.queue, r), First(u.queue, a, r)
    PROVE  First(p.queue, a, r)
<1>1. /\ DOMAIN p.queue = 1..Len(p.queue) /\ Len(p.queue) \in Nat
      /\ DOMAIN u.queue = 1..Len(u.queue) /\ Len(u.queue) \in Nat
  BY QueueRuns
<1>2. \A i \in DOMAIN p.queue : i \in DOMAIN u.queue /\ u.queue[i] = p.queue[i]
  BY DEF Extends
<1>3. PICK i \in DOMAIN u.queue : u.queue[i].run = a
                                  /\ \A m \in DOMAIN u.queue : m <= i => u.queue[m].run # r
  BY DEF First
<1>4. PICK j \in DOMAIN p.queue : p.queue[j].run = r
  BY DEF Has
<1>5. ~(j <= i)
  BY <1>2, <1>3, <1>4
<1>6. i \in DOMAIN p.queue
  BY <1>1, <1>3, <1>4, <1>5
<1> QED
  BY <1>2, <1>3, <1>6 DEF First

\* The writes t at the end of a queue q.
LEMMA Appended ==
    ASSUME NEW q \in Seq(Operation), NEW t \in Seq(Operation), NEW a, NEW r
    PROVE  /\ Has(t, r) => Has(q \o t, r)
           /\ Has(q, r) /\ Has(t, r) => HasTwo(q \o t, r)
           /\ Has(q, a) /\ Has(t, r) => Before(q \o t, a, r)
           /\ Before(t, a, r) => Before(q \o t, a, r)
           /\ HasTwo(q, a) /\ Has(t, r) => Through(q \o t, a, r)
           /\ Has(q, a) /\ Before(t, a, r) => Through(q \o t, a, r)
           /\ First(q \o t, a, r) /\ Has(t, r) /\ ~Has(q, a) => Before(t, a, r)
           /\ Has(q \o t, r) => Has(q, r) \/ Has(t, r)
<1> DEFINE u == q \o t
           L == Len(q)
<1>1. /\ L \in Nat /\ Len(t) \in Nat /\ DOMAIN q = 1..L /\ DOMAIN t = 1..Len(t)
      /\ DOMAIN u = 1..L + Len(t)
      /\ \A i \in 1..L : u[i] = q[i]
      /\ \A i \in 1..Len(t) : u[L + i] = t[i]
  OBVIOUS
<1> HIDE DEF u, L
<1>2. \A i \in DOMAIN q : i \in DOMAIN u /\ u[i] = q[i] /\ i \in Nat /\ i <= L
  BY <1>1
<1>3. \A i \in DOMAIN t : L + i \in DOMAIN u /\ u[L + i] = t[i] /\ i \in Nat /\ L + i > L
  BY <1>1
<1>4. ASSUME NEW i \in DOMAIN u
      PROVE  i \in DOMAIN q \/ \E j \in DOMAIN t : i = L + j
  <2>1. i \in Nat /\ 1 <= i /\ i <= L + Len(t)
    BY <1>1
  <2>2. CASE i <= L
    BY <1>1, <2>1, <2>2
  <2>3. CASE ~(i <= L)
    <3>1. i - L \in DOMAIN t /\ i = L + (i - L)
      BY <1>1, <2>1, <2>3
    <3> QED
      BY <3>1
  <2> QED
    BY <2>2, <2>3
<1>5. Has(t, r) => Has(u, r)
  BY <1>3 DEF Has
<1>6. ASSUME NEW i \in DOMAIN q, NEW j \in DOMAIN t
      PROVE  i < L + j
  BY <1>1
<1>7. ASSUME NEW i \in DOMAIN t, NEW j \in DOMAIN t, i < j
      PROVE  L + i < L + j
  BY <1>1, <1>7
<1>8. Has(q, r) /\ Has(t, r) => HasTwo(u, r)
  BY <1>2, <1>3, <1>6 DEF Has, HasTwo
<1>9. Has(q, a) /\ Has(t, r) => Before(u, a, r)
  BY <1>2, <1>3, <1>6 DEF Has, Before
<1>10. Before(t, a, r) => Before(u, a, r)
  <2> SUFFICES ASSUME NEW i \in DOMAIN t, NEW j \in DOMAIN t, i < j, t[i].run = a, t[j].run = r
               PROVE  Before(u, a, r)
    BY DEF Before
  <2> QED
    BY <1>3, <1>7 DEF Before
<1>11. HasTwo(q, a) /\ Has(t, r) => Through(u, a, r)
  <2> SUFFICES ASSUME NEW i \in DOMAIN q, NEW j \in DOMAIN q, i < j, q[i].run = a, q[j].run = a,
                      NEW k \in DOMAIN t, t[k].run = r
               PROVE  Through(u, a, r)
    BY DEF HasTwo, Has
  <2>1. i \in DOMAIN u /\ j \in DOMAIN u /\ L + k \in DOMAIN u /\ j < L + k
        /\ u[i].run = a /\ u[j].run = a /\ u[L + k].run = r
    BY <1>2, <1>3, <1>6
  <2> QED
    BY <2>1 DEF Through
<1>12. Has(q, a) /\ Before(t, a, r) => Through(u, a, r)
  <2> SUFFICES ASSUME NEW i \in DOMAIN q, NEW j \in DOMAIN t, NEW k \in DOMAIN t, j < k,
                      q[i].run = a, t[j].run = a, t[k].run = r
               PROVE  Through(u, a, r)
    BY DEF Has, Before
  <2>1. i \in DOMAIN u /\ L + j \in DOMAIN u /\ L + k \in DOMAIN u /\ i < L + j
        /\ u[i].run = a /\ u[L + j].run = a /\ u[L + k].run = r
    BY <1>2, <1>3, <1>6
  <2>2. L + j < L + k
    BY <1>7
  <2> QED
    BY <2>1, <2>2 DEF Through
<1>13. First(u, a, r) /\ Has(t, r) /\ ~Has(q, a) => Before(t, a, r)
  <2> SUFFICES ASSUME First(u, a, r), Has(t, r), ~Has(q, a)
               PROVE  Before(t, a, r)
    OBVIOUS
  <2>1. PICK i \in DOMAIN u : u[i].run = a /\ \A m \in DOMAIN u : m <= i => u[m].run # r
    BY DEF First
  <2>2. i \notin DOMAIN q
    BY <1>2, <2>1 DEF Has
  <2>3. PICK j \in DOMAIN t : i = L + j
    BY <1>4, <2>2
  <2>4. PICK k \in DOMAIN t : t[k].run = r
    BY DEF Has
  <2>5. ~(L + k <= L + j)
    BY <1>3, <2>1, <2>3, <2>4
  <2>6. j < k
    BY <1>1, <2>5
  <2> QED
    BY <1>3, <2>1, <2>3, <2>4, <2>6 DEF Before
<1>14. Has(u, r) => Has(q, r) \/ Has(t, r)
  BY <1>2, <1>3, <1>4 DEF Has
<1> QED
  BY <1>5, <1>8, <1>9, <1>10, <1>11, <1>12, <1>13, <1>14 DEF u

\* The queue without its head.
LEMMA HeadTaken ==
    ASSUME NEW p \in Projectors, p.queue # <<>>, NEW a, NEW r
    PROVE  LET q == p.queue
               v == Tail(p.queue)
           IN  /\ Has(q, r) /\ q[1].run # r => Has(v, r)
               /\ HasTwo(q, r) => Has(v, r)
               /\ HasTwo(q, r) /\ q[1].run # r => HasTwo(v, r)
               /\ Before(q, a, r) => Has(v, r)
               /\ Before(q, a, r) /\ q[1].run # a => Before(v, a, r)
               /\ Through(q, a, r) => Before(v, a, r)
               /\ Through(q, a, r) /\ q[1].run # a => Through(v, a, r)
               /\ First(v, a, r) /\ q[1].run # r => First(q, a, r)
<1> DEFINE q == p.queue
           v == Tail(p.queue)
           L == Len(q) - 1
<1>1. /\ L \in Nat /\ DOMAIN q = 1..L + 1 /\ DOMAIN v = 1..L
      /\ \A i \in 1..L : v[i] = q[i + 1]
  BY TailIs
<1> HIDE DEF q, v, L
<1>2. ASSUME NEW i \in DOMAIN q, i # 1
      PROVE  i - 1 \in DOMAIN v /\ v[i - 1] = q[i]
  <2>1. i - 1 \in 1..L /\ (i - 1) + 1 = i
    BY <1>1, <1>2
  <2> QED
    BY <1>1, <2>1
<1>3. \A i, j \in DOMAIN q : i < j => j # 1 /\ (i # 1 => i - 1 < j - 1)
  BY <1>1
<1>4. Has(q, r) /\ q[1].run # r => Has(v, r)
  BY <1>2 DEF Has
<1>5. HasTwo(q, r) => Has(v, r)
  BY <1>2, <1>3 DEF Has, HasTwo
<1>6. ASSUME NEW i \in DOMAIN q, NEW j \in DOMAIN q, i < j, i # 1
      PROVE  /\ i - 1 \in DOMAIN v /\ j - 1 \in DOMAIN v /\ i - 1 < j - 1
             /\ v[i - 1] = q[i] /\ v[j - 1] = q[j]
  BY <1>2, <1>3, <1>6
<1>7. HasTwo(q, r) /\ q[1].run # r => HasTwo(v, r)
  <2> SUFFICES ASSUME NEW i \in DOMAIN q, NEW j \in DOMAIN q, i < j, q[i].run = r, q[j].run = r,
                      q[1].run # r
               PROVE  HasTwo(v, r)
    BY DEF HasTwo
  <2> QED
    BY <1>6 DEF HasTwo
<1>8. Before(q, a, r) => Has(v, r)
  BY <1>2, <1>3 DEF Has, Before
<1>9. Before(q, a, r) /\ q[1].run # a => Before(v, a, r)
  <2> SUFFICES ASSUME NEW i \in DOMAIN q, NEW j \in DOMAIN q, i < j, q[i].run = a, q[j].run = r,
                      q[1].run # a
               PROVE  Before(v, a, r)
    BY DEF Before
  <2> QED
    BY <1>6 DEF Before
<1>10. ASSUME NEW i \in DOMAIN q, NEW j \in DOMAIN q, NEW k \in DOMAIN q, i < j, j < k,
              q[i].run = a, q[j].run = a, q[k].run = r
       PROVE  Before(v, a, r) /\ (q[1].run # a => Through(v, a, r))
  <2>1. j # 1
    BY <1>3, <1>10
  <2>2. j - 1 \in DOMAIN v /\ k - 1 \in DOMAIN v /\ j - 1 < k - 1
        /\ v[j - 1] = q[j] /\ v[k - 1] = q[k]
    BY <1>6, <1>10, <2>1
  <2>3. Before(v, a, r)
    BY <1>10, <2>2 DEF Before
  <2>4. ASSUME q[1].run # a PROVE Through(v, a, r)
    <3>1. i # 1
      BY <1>10, <2>4
    <3>2. i - 1 \in DOMAIN v /\ i - 1 < j - 1 /\ v[i - 1] = q[i]
      BY <1>6, <1>10, <3>1
    <3> QED
      BY <1>10, <2>2, <3>2 DEF Through
  <2> QED
    BY <2>3, <2>4
<1>11. /\ Through(q, a, r) => Before(v, a, r)
       /\ Through(q, a, r) /\ q[1].run # a => Through(v, a, r)
  BY <1>10 DEF Through
<1>12. First(v, a, r) /\ q[1].run # r => First(q, a, r)
  <2> SUFFICES ASSUME NEW i \in DOMAIN v, v[i].run = a,
                      \A m \in DOMAIN v : m <= i => v[m].run # r, q[1].run # r
               PROVE  First(q, a, r)
    BY DEF First
  <2>1. i + 1 \in DOMAIN q /\ q[i + 1].run = a
    BY <1>1
  <2>2. ASSUME NEW m \in DOMAIN q, m <= i + 1
        PROVE  q[m].run # r
    <3>1. CASE m # 1
      <4>1. m - 1 <= i
        BY <1>1, <2>2
      <4> QED
        BY <1>2, <3>1, <4>1
    <3> QED
      BY <3>1
  <2> QED
    BY <2>1, <2>2 DEF First
<1> QED
  BY <1>4, <1>5, <1>7, <1>8, <1>9, <1>11, <1>12 DEF q, v

----------------------------------------------------------------------------
(* A write that fails.  p is the projector, res what is reserved and sto   *)
(* what is stored; b is the batch while execute is at its barrier.         *)

\* Runs with a record that keep their reservation.
Held(p, res) == {r \in res : p.rec[r].st # "none"}

\* When the catch of execute ends the batch, a ends before r.
Ahead(b, a, r) == \E i, j \in DOMAIN b : i < j /\ b[i] = a /\ b[j] = r
Lined(b, p, a, r) ==
    Ahead(b, a, r) /\ p.rec[a].st \in ToSet(Active) /\ p.rec[r].st \in ToSet(Active)

\* No reservation is counted twice, and a write may fail: each run that holds
\* one has a second write to come, and if the write of a is the next of the two
\* its second one comes before the last of r.
Clean(b, p, res, sto) ==
    /\ res \cap sto = {}
    /\ \A r \in Held(p, res) :
          Has(p.queue, r) /\ (p.rec[r].st \in ToSet(Active) \/ HasTwo(p.queue, r))
    /\ \A a, r \in Held(p, res) :
          a # r /\ First(p.queue, a, r) => Lined(b, p, a, r) \/ Through(p.queue, a, r)

\* A write has failed.  If it was done all the same its run is counted twice,
\* until its next write; no other run has its last write before.
Dirty(b, p, res, sto) ==
    /\ p.failed
    /\ \A r \in Held(p, res) : p.rec[r].st \in ToSet(Active) \/ Has(p.queue, r)
    /\ \A a, c \in res \cap sto : a = c
    /\ \A a \in res \cap sto, r \in Held(p, res) :
          a # r => Lined(b, p, a, r) \/ Before(p.queue, a, r)

Slack(b, p, res, sto, n) ==
    n <= 1 => Clean(b, p, res, sto) \/ (n = 1 /\ Dirty(b, p, res, sto))

\* Other runs' writes are added.
LEMMA SlackStays ==
    ASSUME NEW p \in Projectors, NEW u \in Projectors, Extends(p, u),
           NEW res, NEW res2, NEW sto, NEW n, NEW b, NEW c, Slack(b, p, res, sto, n),
           Held(u, res2) = Held(p, res), res2 \cap sto = res \cap sto,
           \A r \in Held(p, res) : u.rec[r] = p.rec[r],
           \A a, r \in Held(p, res) : n <= 1 /\ Lined(b, p, a, r) => Lined(c, p, a, r),
           \A a \in res \cap sto : n <= 1 => a \in Held(p, res)
    PROVE  Slack(c, u, res2, sto, n)
<1> SUFFICES ASSUME n <= 1
             PROVE  Clean(c, u, res2, sto) \/ (n = 1 /\ Dirty(c, u, res2, sto))
  BY DEF Slack
<1> DEFINE H == Held(p, res)
<1>1. Held(u, res2) = H /\ \A r \in H : u.rec[r] = p.rec[r]
  OBVIOUS
<1>2. \A a, r \in H : Lined(b, p, a, r) => Lined(c, u, a, r)
  BY <1>1 DEF Lined
<1> HIDE DEF H
<1>3. \A a, r : /\ Has(p.queue, r) => Has(u.queue, r)
                /\ HasTwo(p.queue, r) => HasTwo(u.queue, r)
                /\ Before(p.queue, a, r) => Before(u.queue, a, r)
                /\ Through(p.queue, a, r) => Through(u.queue, a, r)
  BY HasMore
<1>4. \A a, r : Has(p.queue, r) /\ First(u.queue, a, r) => First(p.queue, a, r)
  BY FirstLess
<1>5. CASE Clean(b, p, res, sto)
  <2>1. /\ res \cap sto = {}
        /\ \A r \in H : Has(p.queue, r) /\ (p.rec[r].st \in ToSet(Active) \/ HasTwo(p.queue, r))
        /\ \A a, r \in H :
              a # r /\ First(p.queue, a, r) => Lined(b, p, a, r) \/ Through(p.queue, a, r)
    BY <1>5 DEF Clean, H
  <2>2. \A r \in H : Has(u.queue, r) /\ (u.rec[r].st \in ToSet(Active) \/ HasTwo(u.queue, r))
    BY <1>1, <1>3, <2>1
  <2>3. \A a, r \in H : a # r /\ First(u.queue, a, r) => Lined(c, u, a, r) \/ Through(u.queue, a, r)
    BY <1>2, <1>3, <1>4, <2>1
  <2> QED
    BY <1>1, <2>1, <2>2, <2>3 DEF Clean
<1>6. CASE n = 1 /\ Dirty(b, p, res, sto)
  <2>1. /\ p.failed
        /\ \A r \in H : p.rec[r].st \in ToSet(Active) \/ Has(p.queue, r)
        /\ \A a, d \in res \cap sto : a = d
        /\ \A a \in res \cap sto, r \in H : a # r => Lined(b, p, a, r) \/ Before(p.queue, a, r)
    BY <1>6 DEF Dirty, H
  <2>2. \A r \in H : u.rec[r].st \in ToSet(Active) \/ Has(u.queue, r)
    BY <1>1, <1>3, <2>1
  <2>3. \A a \in res \cap sto : a \in H
    BY DEF H
  <2>4. \A a \in res \cap sto, r \in H : a # r => Lined(c, u, a, r) \/ Before(u.queue, a, r)
    BY <1>2, <1>3, <2>1, <2>3
  <2>5. u.failed
    BY <2>1 DEF Extends
  <2> QED
    BY <1>1, <1>6, <2>1, <2>2, <2>4, <2>5 DEF Dirty
<1> QED
  BY <1>5, <1>6 DEF Slack

\* What a loop over s adds for the runs of H.
Adding(p, u, H, s, t) ==
    /\ u.queue = p.queue \o t
    /\ \A r : Has(t, r) <=> r \in H /\ r \in ToSet(s)
    /\ \A a, r : Before(t, a, r) => Ahead(s, a, r)
    /\ \A a, r : Ahead(s, a, r) /\ a \in H /\ r \in H => Before(t, a, r)
LEMMA LoopAdds ==
    ASSUME NEW p \in Projectors, NEW u, NEW H, NEW new, NEW s \in Seq(Run),
           \A i, j \in DOMAIN s : s[i] = s[j] => i = j,
           Looped(p, u, H, new, s, Len(s))
    PROVE  \E t \in Seq(Operation) : Adding(p, u, H, s, t)
<1> DEFINE A == Hit(H, s, Len(s))
<1>1. DOMAIN s = 1..Len(s) /\ Len(s) \in Nat
  OBVIOUS
<1>2. PICK t : u.queue = p.queue \o t /\ Written(t, A, new, s, Len(s))
  BY DEF Looped
<1>3. \A r : r \in A <=> r \in H /\ r \in ToSet(s)
  BY <1>1 DEF Hit, ToSet
<1> HIDE DEF A
<1>4. /\ t \in Seq(Operation)
      /\ \A k \in DOMAIN t : t[k].run \in A
      /\ \A r \in A : \E k \in DOMAIN t : t[k].run = r
      /\ \A k, l \in DOMAIN t : k < l =>
            \E i, j \in 1..Len(s) : i < j /\ t[k].run = s[i] /\ t[l].run = s[j]
  BY <1>2 DEF Written
<1>5. \A r : Has(t, r) <=> r \in H /\ r \in ToSet(s)
  BY <1>3, <1>4 DEF Has
<1>6. \A a, r : Before(t, a, r) => Ahead(s, a, r)
  <2> SUFFICES ASSUME NEW k \in DOMAIN t, NEW l \in DOMAIN t, k < l
               PROVE  Ahead(s, t[k].run, t[l].run)
    BY DEF Before
  <2>1. PICK i \in 1..Len(s), j \in 1..Len(s) : i < j /\ t[k].run = s[i] /\ t[l].run = s[j]
    BY <1>4
  <2> QED
    BY <1>1, <2>1 DEF Ahead
<1>7. ASSUME NEW a \in H, NEW r \in H, Ahead(s, a, r)
      PROVE  Before(t, a, r)
  <2>1. PICK i \in DOMAIN s, j \in DOMAIN s : i < j /\ s[i] = a /\ s[j] = r
    BY <1>7 DEF Ahead
  <2>2. a \in A /\ r \in A
    BY <1>3, <2>1 DEF ToSet
  <2>3. PICK k \in DOMAIN t, l \in DOMAIN t : t[k].run = a /\ t[l].run = r
    BY <1>4, <2>2
  <2>4. DOMAIN t = 1..Len(t) /\ Len(t) \in Nat
    BY <1>4
  <2>5. ~(l < k)
    <3> SUFFICES ASSUME l < k PROVE FALSE
      OBVIOUS
    <3>1. PICK m \in 1..Len(s), n \in 1..Len(s) : m < n /\ t[l].run = s[m] /\ t[k].run = s[n]
      BY <1>4
    <3>2. m = j /\ n = i
      BY <1>1, <2>1, <2>3, <3>1
    <3> QED
      BY <1>1, <2>1, <3>1, <3>2
  <2>6. k # l
    BY <1>1, <2>1, <2>3
  <2> QED
    BY <2>3, <2>4, <2>5, <2>6 DEF Before
<1> QED
  BY <1>2, <1>4, <1>5, <1>6, <1>7 DEF Adding

\* begin(), for runs that have a reservation.
LEMMA BeginSlack ==
    ASSUME NEW p \in Projectors, NEW u \in Projectors, NEW new, NEW s \in Seq(Run),
           \A i, j \in DOMAIN s : s[i] = s[j] => i = j,
           Looped(p, u, Run, new, s, Len(s)), Extends(p, u),
           NEW res \in SUBSET Run, NEW sto, NEW n, NEW b, NEW c, Slack(b, p, res, sto, n),
           \A r \in Run : p.rec[r].st \notin ToSet(Active),
           \A r \in Run : IF r \in ToSet(s) THEN u.rec[r].st \in ToSet(Active)
                          ELSE u.rec[r] = p.rec[r],
           \A r \in ToSet(s) : p.rec[r].st = "none" /\ ~Has(p.queue, r) /\ r \in res,
           \A a \in res \cap sto : a \in Held(p, res),
           \A a, r : Ahead(s, a, r) => Ahead(c, a, r),
           "none" \notin ToSet(Active)
    PROVE  Slack(c, u, res, sto, n)
<1> SUFFICES ASSUME n <= 1
             PROVE  Clean(c, u, res, sto) \/ (n = 1 /\ Dirty(c, u, res, sto))
  BY DEF Slack
<1> DEFINE S == ToSet(s)
           H == Held(p, res)
           K == Held(u, res)
<1>1. PICK t \in Seq(Operation) :
         /\ u.queue = p.queue \o t
         /\ \A r : Has(t, r) <=> r \in Run /\ r \in ToSet(s)
         /\ \A a, r : Before(t, a, r) => Ahead(s, a, r)
  <2>1. \E t \in Seq(Operation) : Adding(p, u, Run, s, t)
    BY LoopAdds
  <2> QED
    BY <2>1 DEF Adding
<1>2. p.queue \in Seq(Operation)
  BY DEF Projectors
<1>3. S \subseteq Run /\ \A r \in S : Has(t, r)
  <2>1. S \subseteq Run
    BY DEF ToSet
  <2> QED
    BY <1>1, <2>1
<1>4. \A r \in K : r \in Run /\ r \in res /\ (r \in H \/ r \in S)
  BY DEF Held
<1>5. \A r \in H : r \in K /\ r \notin S /\ u.rec[r] = p.rec[r] /\ u.rec[r].st \notin ToSet(Active)
  BY DEF Held
<1>6. \A r \in S : r \in K /\ u.rec[r].st \in ToSet(Active) /\ ~Has(p.queue, r)
  BY <1>3 DEF Held
<1>7. \A a, r : ~Lined(b, p, a, r) \/ a \notin Run
  BY DEF Lined
<1>8. H \subseteq Run
  BY DEF Held
<1> HIDE DEF S, H, K
<1>9. \A a, r : /\ Has(p.queue, r) => Has(u.queue, r)
                /\ HasTwo(p.queue, r) => HasTwo(u.queue, r)
                /\ Before(p.queue, a, r) => Before(u.queue, a, r)
                /\ Through(p.queue, a, r) => Through(u.queue, a, r)
  BY HasMore
<1>10. \A a, r : Has(p.queue, r) /\ First(u.queue, a, r) => First(p.queue, a, r)
  BY FirstLess
<1>11. \A a, r : /\ Has(t, r) => Has(u.queue, r)
                 /\ Has(p.queue, a) /\ Has(t, r) => Before(u.queue, a, r)
                 /\ HasTwo(p.queue, a) /\ Has(t, r) => Through(u.queue, a, r)
                 /\ First(u.queue, a, r) /\ Has(t, r) /\ ~Has(p.queue, a) => Before(t, a, r)
  BY <1>1, <1>2, Appended
<1>12. \A a, r \in S : Before(t, a, r) => Lined(c, u, a, r)
  BY <1>1, <1>6 DEF Lined
<1>13. CASE Clean(b, p, res, sto)
  <2>1. /\ res \cap sto = {}
        /\ \A r \in H : Has(p.queue, r) /\ (p.rec[r].st \in ToSet(Active) \/ HasTwo(p.queue, r))
        /\ \A a, r \in H :
              a # r /\ First(p.queue, a, r) => Lined(b, p, a, r) \/ Through(p.queue, a, r)
    BY <1>13 DEF Clean, H
  <2>2. \A r \in H : Has(p.queue, r) /\ HasTwo(p.queue, r)
    BY <1>5, <2>1
  <2>3. \A r \in K : Has(u.queue, r) /\ (u.rec[r].st \in ToSet(Active) \/ HasTwo(u.queue, r))
    BY <1>3, <1>4, <1>6, <1>9, <1>11, <2>2
  <2>4. ASSUME NEW a \in K, NEW r \in K, a # r, First(u.queue, a, r)
        PROVE  Lined(c, u, a, r) \/ Through(u.queue, a, r)
    <3>1. CASE r \in H
      <4>1. First(p.queue, a, r)
        BY <1>10, <2>2, <2>4, <3>1
      <4>2. a \in H
        <5>1. Has(p.queue, a)
          BY <4>1 DEF First, Has
        <5> QED
          BY <1>4, <1>6, <5>1
      <4>3. Through(p.queue, a, r)
        BY <1>7, <1>8, <2>1, <2>4, <3>1, <4>1, <4>2
      <4> QED
        BY <1>9, <4>3
    <3>2. CASE r \in S /\ a \in H
      BY <1>3, <1>11, <2>2, <3>2
    <3>3. CASE r \in S /\ a \in S
      BY <1>3, <1>6, <1>11, <1>12, <2>4, <3>3
    <3> QED
      BY <1>4, <3>1, <3>2, <3>3
  <2> QED
    BY <2>1, <2>3, <2>4 DEF Clean, K
<1>14. CASE n = 1 /\ Dirty(b, p, res, sto)
  <2>1. /\ p.failed
        /\ \A r \in H : p.rec[r].st \in ToSet(Active) \/ Has(p.queue, r)
        /\ \A a, d \in res \cap sto : a = d
        /\ \A a \in res \cap sto, r \in H : a # r => Lined(b, p, a, r) \/ Before(p.queue, a, r)
    BY <1>14 DEF Dirty, H
  <2>2. \A r \in H : Has(p.queue, r)
    BY <1>5, <2>1
  <2>3. \A r \in K : u.rec[r].st \in ToSet(Active) \/ Has(u.queue, r)
    BY <1>4, <1>6, <1>9, <2>2
  <2>4. \A a \in res \cap sto : a \in H
    BY DEF H
  <2>5. ASSUME NEW a \in res \cap sto, NEW r \in K, a # r
        PROVE  Lined(c, u, a, r) \/ Before(u.queue, a, r)
    <3>1. a \in H
      BY <2>4
    <3>2. CASE r \in H
      BY <1>7, <1>8, <1>9, <2>1, <2>5, <3>1, <3>2
    <3>3. CASE r \in S
      BY <1>3, <1>11, <2>2, <3>1, <3>3
    <3> QED
      BY <1>4, <3>2, <3>3
  <2>6. u.failed
    BY <2>1 DEF Extends
  <2> QED
    BY <1>14, <2>1, <2>3, <2>5, <2>6 DEF Dirty, K
<1> QED
  BY <1>13, <1>14 DEF Slack

\* The catch of execute ends every run that has not ended, in the order of the
\* batch.
LEMMA EndSlack ==
    ASSUME NEW p \in Projectors, NEW u \in Projectors, NEW new, NEW b \in Seq(Run), NEW E,
           \A i, j \in DOMAIN b : b[i] = b[j] => i = j,
           Looped(p, u, E, new, b, Len(b)), Extends(p, u),
           NEW res \in SUBSET Run, NEW sto, NEW n, NEW c, Slack(b, p, res, sto, n),
           \A r \in Run : p.rec[r].st \in ToSet(Active) => r \in E /\ r \in ToSet(b),
           \A r \in Run : p.rec[r].st = "none" <=> u.rec[r].st = "none",
           \A a \in res \cap sto : a \in Held(p, res)
    PROVE  Slack(c, u, res, sto, n)
<1> SUFFICES ASSUME n <= 1
             PROVE  Clean(c, u, res, sto) \/ (n = 1 /\ Dirty(c, u, res, sto))
  BY DEF Slack
<1> DEFINE H == Held(p, res)
<1>1. PICK t \in Seq(Operation) :
         /\ u.queue = p.queue \o t
         /\ \A r : Has(t, r) <=> r \in E /\ r \in ToSet(b)
         /\ \A a, r : Ahead(b, a, r) /\ a \in E /\ r \in E => Before(t, a, r)
  <2>1. \E t \in Seq(Operation) : Adding(p, u, E, b, t)
    BY LoopAdds
  <2> QED
    BY <2>1 DEF Adding
<1>2. p.queue \in Seq(Operation)
  BY DEF Projectors
<1>3. Held(u, res) = H /\ H \subseteq Run
  BY DEF Held
<1> HIDE DEF H
<1>4. \A r \in H : p.rec[r].st \in ToSet(Active) => Has(t, r)
  BY <1>1, <1>3
<1>5. \A a, r \in H : Lined(b, p, a, r) => Before(t, a, r)
  BY <1>1, <1>3 DEF Lined
<1>6. \A a, r : /\ Has(p.queue, r) => Has(u.queue, r)
                /\ HasTwo(p.queue, r) => HasTwo(u.queue, r)
                /\ Before(p.queue, a, r) => Before(u.queue, a, r)
                /\ Through(p.queue, a, r) => Through(u.queue, a, r)
  BY HasMore
<1>7. \A a, r : Has(p.queue, r) /\ First(u.queue, a, r) => First(p.queue, a, r)
  BY FirstLess
<1>8. \A a, r : /\ Has(t, r) => Has(u.queue, r)
                /\ Has(p.queue, r) /\ Has(t, r) => HasTwo(u.queue, r)
                /\ Before(t, a, r) => Before(u.queue, a, r)
                /\ Has(p.queue, a) /\ Before(t, a, r) => Through(u.queue, a, r)
  BY <1>1, <1>2, Appended
<1>9. CASE Clean(b, p, res, sto)
  <2>1. /\ res \cap sto = {}
        /\ \A r \in H : Has(p.queue, r) /\ (p.rec[r].st \in ToSet(Active) \/ HasTwo(p.queue, r))
        /\ \A a, r \in H :
              a # r /\ First(p.queue, a, r) => Lined(b, p, a, r) \/ Through(p.queue, a, r)
    BY <1>9 DEF Clean, H
  <2>2. \A r \in H : Has(u.queue, r) /\ HasTwo(u.queue, r)
    BY <1>4, <1>6, <1>8, <2>1
  <2>3. \A a, r \in H : a # r /\ First(u.queue, a, r) => Through(u.queue, a, r)
    BY <1>5, <1>6, <1>7, <1>8, <2>1
  <2> QED
    BY <1>3, <2>1, <2>2, <2>3 DEF Clean
<1>10. CASE n = 1 /\ Dirty(b, p, res, sto)
  <2>1. /\ p.failed
        /\ \A r \in H : p.rec[r].st \in ToSet(Active) \/ Has(p.queue, r)
        /\ \A a, d \in res \cap sto : a = d
        /\ \A a \in res \cap sto, r \in H : a # r => Lined(b, p, a, r) \/ Before(p.queue, a, r)
    BY <1>10 DEF Dirty, H
  <2>2. \A r \in H : Has(u.queue, r)
    BY <1>4, <1>6, <1>8, <2>1
  <2>3. \A a \in res \cap sto : a \in H
    BY DEF H
  <2>4. \A a \in res \cap sto, r \in H : a # r => Before(u.queue, a, r)
    BY <1>5, <1>6, <1>8, <2>1, <2>3
  <2>5. u.failed
    BY <2>1 DEF Extends
  <2> QED
    BY <1>3, <1>10, <2>1, <2>2, <2>4, <2>5 DEF Dirty
<1> QED
  BY <1>9, <1>10 DEF Slack

\* A write that succeeds takes its run's reservation.
LEMMA WrittenSlack ==
    ASSUME NEW p \in Projectors, NEW u, p.queue # <<>>, u.queue = Tail(p.queue),
           u.rec = p.rec, p.failed => u.failed,
           NEW res, NEW sto, NEW b, NEW h, h = p.queue[1].run,
           NEW n, Slack(b, p, res, sto, n)
    PROVE  Slack(b, u, res \ {h}, sto \cup {h}, n)
<1> SUFFICES ASSUME n <= 1
             PROVE  \/ Clean(b, u, res \ {h}, sto \cup {h})
                    \/ n = 1 /\ Dirty(b, u, res \ {h}, sto \cup {h})
  BY DEF Slack
<1> DEFINE H == Held(p, res)
           K == Held(u, res \ {h})
<1>1. \A r \in K : r \in H /\ r # h /\ u.rec[r] = p.rec[r]
  BY DEF Held
<1> HIDE DEF H, K
<1>2. \A a, r : Lined(b, u, a, r) <=> Lined(b, p, a, r)
  BY DEF Lined
<1>3. \A a, r : LET q == p.queue
                    v == u.queue
                IN  /\ Has(q, r) /\ q[1].run # r => Has(v, r)
                    /\ HasTwo(q, r) /\ q[1].run # r => HasTwo(v, r)
                    /\ Before(q, a, r) /\ q[1].run # a => Before(v, a, r)
                    /\ Through(q, a, r) /\ q[1].run # a => Through(v, a, r)
                    /\ First(v, a, r) /\ q[1].run # r => First(q, a, r)
  BY HeadTaken
<1>4. CASE Clean(b, p, res, sto)
  <2>1. /\ res \cap sto = {}
        /\ \A r \in H : Has(p.queue, r) /\ (p.rec[r].st \in ToSet(Active) \/ HasTwo(p.queue, r))
        /\ \A a, r \in H :
              a # r /\ First(p.queue, a, r) => Lined(b, p, a, r) \/ Through(p.queue, a, r)
    BY <1>4 DEF Clean, H
  <2>2. \A r \in K : Has(u.queue, r) /\ (u.rec[r].st \in ToSet(Active) \/ HasTwo(u.queue, r))
    BY <1>1, <1>3, <2>1
  <2>3. \A a, r \in K : a # r /\ First(u.queue, a, r) => Lined(b, u, a, r) \/ Through(u.queue, a, r)
    BY <1>1, <1>2, <1>3, <2>1
  <2>4. (res \ {h}) \cap (sto \cup {h}) = {}
    BY <2>1
  <2> QED
    BY <2>2, <2>3, <2>4 DEF Clean, K
<1>5. CASE n = 1 /\ Dirty(b, p, res, sto)
  <2>1. /\ p.failed
        /\ \A r \in H : p.rec[r].st \in ToSet(Active) \/ Has(p.queue, r)
        /\ \A a, d \in res \cap sto : a = d
        /\ \A a \in res \cap sto, r \in H : a # r => Lined(b, p, a, r) \/ Before(p.queue, a, r)
    BY <1>5 DEF Dirty, H
  <2>2. \A r \in K : u.rec[r].st \in ToSet(Active) \/ Has(u.queue, r)
    BY <1>1, <1>3, <2>1
  <2>3. \A a \in (res \ {h}) \cap (sto \cup {h}) : a \in res \cap sto /\ a # h
    OBVIOUS
  <2>4. \A a \in (res \ {h}) \cap (sto \cup {h}), r \in K :
            a # r => Lined(b, u, a, r) \/ Before(u.queue, a, r)
    BY <1>1, <1>2, <1>3, <2>1, <2>3
  <2> QED
    BY <1>5, <2>1, <2>2, <2>3, <2>4 DEF Dirty, K
<1> QED
  BY <1>4, <1>5 DEF Slack

\* The first write that fails, done or not.
LEMMA FaultSlack ==
    ASSUME NEW p \in Projectors, NEW u, p.queue # <<>>, u.queue = Tail(p.queue),
           u.rec = p.rec, u.failed, NEW res, NEW sto, NEW sto2, NEW b, NEW h,
           h = p.queue[1].run, p.rec[h].st # "none",
           sto \subseteq sto2, sto2 \subseteq sto \cup {h}, Clean(b, p, res, sto)
    PROVE  Dirty(b, u, res, sto2)
<1> DEFINE H == Held(p, res)
<1>1. Held(u, res) = H
  BY DEF Held
<1>2. h \in res => h \in H
  BY DEF Held
<1> HIDE DEF H
<1>3. \A a, r : Lined(b, u, a, r) <=> Lined(b, p, a, r)
  BY DEF Lined
<1>4. /\ res \cap sto = {}
      /\ \A r \in H : Has(p.queue, r) /\ (p.rec[r].st \in ToSet(Active) \/ HasTwo(p.queue, r))
      /\ \A a, r \in H :
            a # r /\ First(p.queue, a, r) => Lined(b, p, a, r) \/ Through(p.queue, a, r)
  BY DEF Clean, H
<1>5. \A r : HasTwo(p.queue, r) => Has(u.queue, r)
  BY HeadTaken
<1>6. \A r : Through(p.queue, h, r) => Before(u.queue, h, r)
  BY HeadTaken
<1>7. \A r \in H : u.rec[r].st \in ToSet(Active) \/ Has(u.queue, r)
  BY <1>4, <1>5
<1>8. \A a \in res \cap sto2 : a = h
  BY <1>4
<1>9. ASSUME NEW r \in H, h \in H, h # r
      PROVE  Lined(b, u, h, r) \/ Before(u.queue, h, r)
  <2>1. /\ 1 \in DOMAIN p.queue /\ DOMAIN p.queue = 1..Len(p.queue)
        /\ Len(p.queue) \in Nat
    BY TailIs
  <2>2. \A m \in DOMAIN p.queue : m <= 1 => m = 1
    BY <2>1
  <2>3. First(p.queue, h, r)
    BY <1>9, <2>1, <2>2 DEF First
  <2> QED
    BY <1>3, <1>4, <1>6, <1>9, <2>3
<1>10. \A a \in res \cap sto2, r \in H : a # r => Lined(b, u, a, r) \/ Before(u.queue, a, r)
  BY <1>2, <1>8, <1>9
<1> QED
  BY <1>1, <1>7, <1>8, <1>10 DEF Dirty

\* A write the store has no room for.
LEMMA RefusedSlack ==
    ASSUME NEW p \in Projectors, NEW u, p.queue # <<>>, u.queue = Tail(p.queue),
           u.rec = p.rec, u.failed, NEW res, NEW sto, NEW b, NEW h,
           h = p.queue[1].run, h \notin sto, NEW x, x \in res \cap sto, Dirty(b, p, res, sto)
    PROVE  Dirty(b, u, res, sto)
<1> DEFINE H == Held(p, res)
<1>1. Held(u, res) = H
  BY DEF Held
<1> HIDE DEF H
<1>2. \A a, r : Lined(b, u, a, r) <=> Lined(b, p, a, r)
  BY DEF Lined
<1>3. /\ \A r \in H : p.rec[r].st \in ToSet(Active) \/ Has(p.queue, r)
      /\ \A a, d \in res \cap sto : a = d
      /\ \A a \in res \cap sto, r \in H : a # r => Lined(b, p, a, r) \/ Before(p.queue, a, r)
  BY DEF Dirty, H
<1>4. \A a, r : /\ Has(p.queue, r) /\ h # r => Has(u.queue, r)
                /\ Before(p.queue, a, r) => Has(u.queue, r)
                /\ Before(p.queue, a, r) /\ h # a => Before(u.queue, a, r)
  BY HeadTaken
<1>5. \A r \in H : u.rec[r].st \in ToSet(Active) \/ Has(u.queue, r)
  <2> TAKE r \in H
  <2>1. CASE r # h
    BY <1>3, <1>4, <2>1
  <2>2. CASE r = h
    <3>1. x # r
      BY <2>2
    <3>2. Lined(b, p, x, r) \/ Before(p.queue, x, r)
      BY <1>3, <3>1
    <3> QED
      BY <1>4, <3>2 DEF Lined
  <2> QED
    BY <2>1, <2>2
<1>6. \A a \in res \cap sto, r \in H : a # r => Lined(b, u, a, r) \/ Before(u.queue, a, r)
  BY <1>2, <1>3, <1>4
<1> QED
  BY <1>1, <1>3, <1>5, <1>6 DEF Dirty

----------------------------------------------------------------------------
(* The places of the store: what is stored, reserved and queued.           *)

Stored == {r \in Run : disk[r].st # "none"}
Line == IF phase = "barrier" THEN batch ELSE <<>>

Unprepared(r) ==
    \/ \E i \in DOMAIN Batches : i > calls /\ r \in ToSet(Batches[i])
    \/ phase = "capture" /\ r \in Batch

\* The store has room for what is reserved, which is what is prepared or
\* projected and not yet stored.
Reserving ==
    /\ Cardinality(Stored \cup reserved) <= MaxRuns
    /\ \A r \in Run : projector.rec[r].st # "none" => r \in reserved \cup Stored
    /\ \A r \in reserved : \/ projector.rec[r].st # "none"
                           \/ phase = "prepare" /\ r \in Prepared
    /\ phase = "prepare" => Prepared \subseteq reserved
    /\ \A r \in Run : Unprepared(r) => prep[r] = "none"

\* Each end is stored or queued.
EndsIn(p, d) ==
    \A r \in Run : p.rec[r].st \in Terminal =>
        \/ AsV1(d[r]) = p.rec[r]
        \/ \E i \in DOMAIN p.queue : p.queue[i].run = r /\ AsV1(p.queue[i].snap) = p.rec[r]

Places ==
    /\ Reserving
    /\ faults = 0 => EndsIn(projector, disk)
    /\ faults <= 1 /\ phase = "tree" => Batch \cap reserved = {}
    /\ Slack(Line, projector, reserved, Stored, faults)

LEMMA PlaceFacts ==
    ASSUME IInv, Places
    PROVE  /\ reserved \subseteq Run /\ Stored \subseteq Run /\ Batch \subseteq Run
           /\ faults \in Nat
           /\ \A a \in reserved \cap Stored : a \in Held(projector, reserved)
           /\ phase \in {"capture", "prepare"} => \A r \in Batch :
                 projector.rec[r].st = "none" /\ disk[r].st = "none"
                 /\ ~Has(projector.queue, r)
           /\ \A r \in Run : projector.rec[r].st \in ToSet(Active) =>
                 phase \in {"barrier", "tree"} /\ r \in Batch
<1>1. TypeOK /\ Snapshots /\ Lives /\ Reserving
  BY DEF IInv, Places
<1>2. reserved \subseteq Run /\ Batch \subseteq Run
  BY <1>1, Types, BatchIs
<1>3. Stored \subseteq Run
  BY DEF Stored
<1>4. \A r \in Run : Fresh(r) => projector.rec[r].st = "none" /\ disk[r].st = "none"
  BY <1>1 DEF Lives, FreshIsUnknown
<1>5. ASSUME phase \in {"capture", "prepare"}, NEW r \in Batch
      PROVE  /\ projector.rec[r].st = "none" /\ disk[r].st = "none"
             /\ ~Has(projector.queue, r)
  <2>1. projector.rec[r].st = "none" /\ disk[r].st = "none"
    BY <1>2, <1>4, <1>5 DEF Fresh
  <2>2. ASSUME NEW i \in DOMAIN projector.queue, projector.queue[i].run = r
        PROVE  FALSE
    <3>1. QueueFits(projector)
      BY <1>1 DEF Snapshots, SnapshotsFit
    <3> QED
      BY <2>1, <2>2, <3>1 DEF QueueFits, OpFits
  <2> QED
    BY <2>1, <2>2 DEF Has
<1>6. ASSUME NEW a \in reserved \cap Stored
      PROVE  a \in Held(projector, reserved)
  <2>1. a \in Run /\ disk[a].st # "none" /\ a \in reserved
    BY <1>2 DEF Stored
  <2>2. \/ projector.rec[a].st # "none"
        \/ phase = "prepare" /\ a \in Prepared
    BY <1>1, <2>1 DEF Reserving
  <2>3. ~(phase = "prepare" /\ a \in Batch)
    BY <1>5, <2>1
  <2> QED
    BY <2>1, <2>2, <2>3 DEF Held, Prepared
<1>7. \A r \in Run : projector.rec[r].st \in ToSet(Active) =>
         phase \in {"barrier", "tree"} /\ r \in Batch
  BY <1>1 DEF Lives, RunFits
<1>8. faults \in Nat
  BY <1>1, SubagentRunsAssumption DEF TypeOK
<1> QED
  BY <1>2, <1>3, <1>5, <1>6, <1>7, <1>8

LEMMA EndsStay ==
    ASSUME NEW p \in Projectors, NEW u, NEW S, Grows(p, u, S), NEW d, EndsIn(p, d)
    PROVE  EndsIn(u, d)
<1>1. PICK t : Adds(p, u, t, S)
  BY DEF Grows
<1>2. t \in Seq(Operation) /\ u.queue = p.queue \o t /\ p.queue \in Seq(Operation)
  BY <1>1 DEF Adds, Projectors
<1> DEFINE q == p.queue
<1>3. /\ \A i \in DOMAIN q : i \in DOMAIN (q \o t) /\ (q \o t)[i] = q[i]
      /\ \A k \in DOMAIN t : Len(q) + k \in DOMAIN (q \o t) /\ (q \o t)[Len(q) + k] = t[k]
  BY <1>2
<1>4. /\ \A i \in DOMAIN p.queue : i \in DOMAIN u.queue /\ u.queue[i] = p.queue[i]
      /\ \A k \in DOMAIN t : \E i \in DOMAIN u.queue : u.queue[i] = t[k]
  BY <1>2, <1>3
<1> SUFFICES ASSUME NEW r \in Run, u.rec[r].st \in Terminal, AsV1(d[r]) # u.rec[r]
             PROVE  \E i \in DOMAIN u.queue : u.queue[i].run = r
                                              /\ AsV1(u.queue[i].snap) = u.rec[r]
  BY DEF EndsIn
<1>5. CASE u.rec[r] = p.rec[r]
  <2>1. PICK i \in DOMAIN p.queue : p.queue[i].run = r /\ AsV1(p.queue[i].snap) = p.rec[r]
    BY <1>5 DEF EndsIn
  <2> QED
    BY <1>4, <1>5, <2>1
<1>6. CASE u.rec[r] # p.rec[r]
  <2>1. PICK k \in DOMAIN t : t[k].run = r
    BY <1>1, <1>6 DEF Adds
  <2>2. AsV1(t[k].snap) = u.rec[r]
    BY <1>1, <2>1 DEF Adds
  <2> QED
    BY <1>4, <2>1, <2>2
<1> QED
  BY <1>5, <1>6

LEMMA ReservingStays ==
    ASSUME TypeOK, Reserving, UNCHANGED <<calls, disk, prep, reserved>>,
           \A r \in Run : projector'.rec[r].st = "none" <=> projector.rec[r].st = "none",
           phase' = phase \/ (phase \in {"tree", "capture"} /\ phase' = "idle")
    PROVE  Reserving'
<1>1. Batch' = Batch /\ Stored' = Stored /\ Prepared' = Prepared
  BY SameBatch DEF Stored, Prepared
<1>2. reserved \subseteq Run
  BY Types
<1>3. \A r \in Run : Unprepared(r)' => Unprepared(r)
  BY <1>1 DEF Unprepared
<1>4. /\ Cardinality(Stored \cup reserved) <= MaxRuns
      /\ \A r \in Run : projector.rec[r].st # "none" => r \in reserved \cup Stored
      /\ \A r \in reserved : \/ projector.rec[r].st # "none"
                             \/ phase = "prepare" /\ r \in Prepared
      /\ phase = "prepare" => Prepared \subseteq reserved
      /\ \A r \in Run : Unprepared(r) => prep[r] = "none"
  BY DEF Reserving
<1>5. /\ Cardinality(Stored' \cup reserved') <= MaxRuns
      /\ \A r \in Run : projector'.rec[r].st # "none" => r \in reserved' \cup Stored'
      /\ phase' = "prepare" => Prepared' \subseteq reserved'
      /\ \A r \in Run : Unprepared(r)' => prep'[r] = "none"
  BY <1>1, <1>3, <1>4
<1>6. \A r \in reserved' : \/ projector'.rec[r].st # "none"
                           \/ phase' = "prepare" /\ r \in Prepared'
  BY <1>1, <1>2, <1>4
<1> QED
  BY <1>5, <1>6 DEF Reserving

\* Most steps leave every run that holds a reservation alone.
LEMMA PlacesStay ==
    ASSUME IInv, Places, NEW S, Grows(projector, projector', S),
           UNCHANGED <<calls, disk, prep, reserved, faults>>,
           \A r \in Run : projector'.rec[r].st = "none" <=> projector.rec[r].st = "none",
           phase' = phase \/ (phase \in {"tree", "capture"} /\ phase' = "idle"),
           \A r \in Held(projector, reserved) :
              faults <= 1 => projector'.rec[r] = projector.rec[r]
    PROVE  Places'
<1>1. TypeOK /\ Reserving /\ Slack(Line, projector, reserved, Stored, faults)
  BY DEF IInv, Places
<1>2. /\ batch' = batch /\ Batch' = Batch /\ Stored' = Stored
  BY SameBatch DEF Stored
<1>3. Line' = Line
  BY <1>2 DEF Line
<1>4. projector \in Projectors /\ projector' \in Projectors /\ Extends(projector, projector')
  BY <1>1, Types, GrowsExtends
<1>5. Reserving'
  BY <1>1, ReservingStays
<1>6. faults' = 0 => EndsIn(projector', disk')
  BY <1>4, EndsStay DEF Places
<1>7. faults' <= 1 /\ phase' = "tree" => Batch' \cap reserved' = {}
  BY <1>2 DEF Places
<1>8. reserved \subseteq Run /\ \A a \in reserved \cap Stored : a \in Held(projector, reserved)
  BY PlaceFacts
<1>9. Held(projector', reserved) = Held(projector, reserved)
  BY <1>8 DEF Held
<1>10. Slack(Line, projector', reserved, Stored, faults)
  <2>1. CASE faults <= 1
    <3> DEFINE H == Held(projector, reserved)
    <3>1. \A r \in H : projector'.rec[r] = projector.rec[r]
      BY <2>1
    <3>2. \A a, r \in H : faults <= 1 /\ Lined(Line, projector, a, r) => Lined(Line, projector, a, r)
      OBVIOUS
    <3> QED
      BY <1>1, <1>4, <1>8, <1>9, <3>1, <3>2, SlackStays
  <2>2. CASE ~(faults <= 1)
    BY <2>2 DEF Slack
  <2> QED
    BY <2>1, <2>2
<1>11. Slack(Line', projector', reserved', Stored', faults')
  BY <1>2, <1>3, <1>10
<1> QED
  BY <1>5, <1>6, <1>7, <1>11 DEF Places

\* In the tree no run of the batch holds a reservation.
LEMMA TreePlaces ==
    ASSUME IInv, Places, phase = "tree", phase' \in {"tree", "idle"},
           Grows(projector, projector', {}),
           UNCHANGED <<calls, disk, prep, reserved, faults>>,
           \A r \in Run : /\ projector'.rec[r].st = "none" <=> projector.rec[r].st = "none"
                          /\ projector'.rec[r] = projector.rec[r] \/ r \in Batch
    PROVE  Places'
<1>1. reserved \subseteq Run
  BY PlaceFacts
<1>2. \A r \in Held(projector, reserved) :
         faults <= 1 => projector'.rec[r] = projector.rec[r]
  BY <1>1 DEF Places, Held
<1>3. phase' = phase \/ (phase \in {"tree", "capture"} /\ phase' = "idle")
  OBVIOUS
<1> QED
  BY <1>2, <1>3, PlacesStay

LEMMA EndedPlaces ==
    ASSUME IInv, Places, phase = "tree", phase' \in {"tree", "idle"},
           NEW runs \in SUBSET Batch, NEW st \in Terminal \ {"stopped"},
           \A r \in runs : projector.rec[r].st # "none",
           projector'.rec = Ended(projector, runs, st), Grows(projector, projector', {}),
           UNCHANGED <<calls, disk, prep, reserved, faults>>
    PROVE  Places'
<1>1. TypeOK /\ Snapshots
  BY DEF IInv
<1>2. ASSUME NEW r \in Run
      PROVE  /\ projector'.rec[r].st = "none" <=> projector.rec[r].st = "none"
             /\ projector'.rec[r] = projector.rec[r] \/ r \in Batch
  <2>1. /\ projector'.rec[r] = projector.rec[r] \/ r \in runs
        /\ projector'.rec[r].st = "none" <=> projector.rec[r].st = "none"
    BY <1>1, EndedRec
  <2> QED
    BY <2>1
<1> QED
  BY <1>2, TreePlaces

LEMMA ChildEndsPlaces ==
    ASSUME IInv, Places, NEW r \in Run, ChildEnds(r)
    PROVE  Places'
<1>1. TypeOK /\ Snapshots /\ Lives
  BY DEF IInv
<1>2. /\ r \in child
      /\ UNCHANGED <<calls, phase, prep, disk, reserved, faults>>
  BY DEF ChildEnds
<1>3. projector.rec[r].st # "none" /\ r \in Batch
  BY <1>1, <1>2 DEF Lives, ChildFits
<1>4. Grows(projector, projector', {})
  BY <1>1, ChildEndsLives
<1>5. CASE work[r] # "child"
  <2>1. projector' = projector
    BY <1>5 DEF ChildEnds
  <2>2. \A s \in Run : projector'.rec[s] = projector.rec[s]
    BY <2>1
  <2>3. reserved \subseteq Run
    BY PlaceFacts
  <2>4. /\ \A s \in Run : projector'.rec[s].st = "none" <=> projector.rec[s].st = "none"
        /\ \A s \in Held(projector, reserved) :
              faults <= 1 => projector'.rec[s] = projector.rec[s]
    BY <2>2, <2>3 DEF Held
  <2>5. phase' = phase
    BY <1>2
  <2> QED
    BY <1>2, <1>4, <2>4, <2>5, PlacesStay
<1>6. CASE work[r] = "child"
  <2>1. PICK out \in Outcome : Completed({r}, IF cancel = "none" THEN out ELSE cancel)
    BY <1>6 DEF ChildEnds
  <2>2. (IF cancel = "none" THEN out ELSE cancel) \in Terminal \ {"stopped"}
    BY <1>1, Types, SubagentRunsAssumption DEF Terminal
  <2>3. PICK st \in Terminal \ {"stopped"} : Completed({r}, st)
    BY <2>1, <2>2
  <2>4. {r} \in SUBSET Run /\ {r} \in SUBSET Batch /\ \A s \in {r} : projector.rec[s].st # "none"
    BY <1>3
  <2>5. projector'.rec = Ended(projector, {r}, st)
    BY <1>1, <2>3, <2>4, CompletedIs
  <2>6. phase = "tree" /\ phase' \in {"tree", "idle"}
    <3>1. RunFits(r)
      BY <1>1 DEF Lives
    <3> QED
      BY <1>2, <1>6, <3>1 DEF RunFits
  <2> QED
    BY <1>2, <1>4, <2>4, <2>5, <2>6, EndedPlaces
<1> QED
  BY <1>5, <1>6

LEMMA SettlementTimerPlaces ==
    ASSUME IInv, Places, SettlementTimer
    PROVE  Places'
<1> DEFINE left == {r \in Batch : work[r] = "child"}
<1>1. TypeOK /\ Snapshots /\ Lives
  BY DEF IInv
<1>2. /\ phase = "tree" /\ cancel # "none" /\ Completed(left, cancel)
      /\ UNCHANGED <<calls, phase, prep, disk, reserved, faults>>
  BY DEF SettlementTimer, Sealable
<1>3. Batch \subseteq Run
  BY PlaceFacts
<1>4. cancel \in Terminal \ {"stopped"}
  BY <1>1, <1>2, Types DEF Terminal
<1>5. left \in SUBSET Run /\ left \in SUBSET Batch
  BY <1>3
<1>6. \A s \in left : projector.rec[s].st # "none"
  BY <1>1, <1>2, <1>3 DEF Lives, RunFits
<1> HIDE DEF left
<1>7. Grows(projector, projector', {}) /\ projector'.rec = Ended(projector, left, cancel)
  BY <1>1, <1>2, <1>4, <1>5, <1>6, CompletedIs
<1>8. phase' \in {"tree", "idle"}
  BY <1>2
<1> QED
  BY <1>2, <1>4, <1>5, <1>6, <1>7, <1>8, EndedPlaces

LEMMA TreeEndsPlaces ==
    ASSUME IInv, Places, TreeEnds, cancel # "none"
    PROVE  Places'
<1>1. TypeOK /\ Snapshots /\ Lives
  BY DEF IInv
<1>2. /\ phase = "tree" /\ Unwind(projector)
      /\ UNCHANGED <<calls, prep, disk, faults>>
  BY DEF TreeEnds, AllSettled
<1>3. projector \in Projectors /\ Batch \subseteq Run
  BY <1>1, Types, PlaceFacts
<1>4. /\ phase' = "idle"
      /\ reserved' = reserved \ (Prepared \ Known(projector))
      /\ Grows(projector, projector', {})
      /\ projector'.rec = Ended(projector, Known(projector), Fault)
      /\ Fault \in Terminal \ {"stopped"}
  BY <1>1, <1>2, <1>3, UnwindIs
<1>5. Known(projector) = Prepared
  BY <1>1, <1>2, <1>3 DEF Lives, RunFits, Known, Prepared
<1>6. reserved' = reserved
  BY <1>4, <1>5
<1>7. Known(projector) \in SUBSET Batch /\ \A r \in Known(projector) : projector.rec[r].st # "none"
  BY DEF Known, Prepared
<1>8. phase' \in {"tree", "idle"}
  BY <1>4
<1> QED
  BY <1>2, <1>4, <1>6, <1>7, <1>8, EndedPlaces

LEMMA TelemetryPlaces ==
    ASSUME IInv, Places, NEW r \in Run, Telemetry(r)
    PROVE  Places'
<1>1. TypeOK /\ Snapshots /\ Lives
  BY DEF IInv
<1>2. /\ r \in child
      /\ UNCHANGED <<calls, phase, prep, disk, reserved, faults>>
  BY DEF Telemetry
<1>3. projector.rec[r].st # "none" /\ r \in Batch /\ phase \in {"tree", "idle"}
  BY <1>1, <1>2 DEF Lives, ChildFits
<1>4. /\ Grows(projector, projector', {})
      /\ \A s \in Run \ {r} : projector'.rec[s] = projector.rec[s]
      /\ \/ projector'.rec[r] = projector.rec[r]
         \/ /\ projector.rec[r].st \in ToSet(Active)
            /\ projector'.rec[r].st \in ToSet(Active)
  BY <1>1, <1>3, TelemetryGrows
<1>5. \A s \in Run : projector'.rec[s].st = "none" <=> projector.rec[s].st = "none"
  <2>1. "none" \notin ToSet(Active)
    BY States
  <2> QED
    BY <1>3, <1>4, <2>1
<1>6. ASSUME NEW s \in Held(projector, reserved), faults <= 1
      PROVE  projector'.rec[s] = projector.rec[s]
  <2>1. s \in Run /\ s \in reserved
    BY PlaceFacts DEF Held
  <2>2. CASE s = r /\ projector.rec[r].st \in ToSet(Active)
    <3>1. phase = "tree"
      BY <1>3, <2>2, PlaceFacts
    <3> QED
      BY <1>3, <1>6, <2>1, <2>2, <3>1 DEF Places
  <2> QED
    BY <1>4, <2>1, <2>2
<1> QED
  BY <1>2, <1>4, <1>5, <1>6, PlacesStay

\* Where nothing was projected nothing is completed.
LEMMA CaptureFailsPlaces ==
    ASSUME IInv, Places, CaptureFails
    PROVE  Places'
<1>1. TypeOK /\ Snapshots /\ Reserving
  BY DEF IInv, Places
<1>2. /\ phase = "capture" /\ Unwind(projector)
      /\ UNCHANGED <<calls, prep, disk, faults>>
  BY DEF CaptureFails
<1>3. projector \in Projectors /\ Batch \subseteq Run /\ reserved \subseteq Run
  BY <1>1, Types, PlaceFacts
<1>4. /\ phase' = "idle"
      /\ reserved' = reserved \ (Prepared \ Known(projector))
      /\ Grows(projector, projector', {})
      /\ projector'.rec = Ended(projector, Known(projector), Fault)
  BY <1>1, <1>2, <1>3, UnwindIs
<1>5. Prepared = {}
  BY <1>1, <1>2, <1>3 DEF Reserving, Unprepared, Prepared
<1>6. reserved' = reserved /\ Known(projector) = {}
  BY <1>4, <1>5 DEF Known
<1>7. \A r \in Run : projector'.rec[r] = projector.rec[r]
  BY <1>4, <1>6 DEF Ended, Endable
<1>8. /\ \A s \in Run : projector'.rec[s].st = "none" <=> projector.rec[s].st = "none"
      /\ \A s \in Held(projector, reserved) :
            faults <= 1 => projector'.rec[s] = projector.rec[s]
  BY <1>3, <1>7 DEF Held
<1> QED
  BY <1>2, <1>4, <1>6, <1>8, PlacesStay

\* A run that is managed is stored: while nothing has failed, it holds no
\* reservation.
LEMMA ActPlaces ==
    ASSUME IInv, Places, NEW c \in Call, Act(c)
    PROVE  Places'
<1> DEFINE r == request[c].run
<1>1. TypeOK /\ Snapshots /\ Requests
  BY DEF IInv
<1>2. UNCHANGED <<calls, phase, prep, disk, reserved, faults>> /\ ~projector.failed
  BY DEF Act
<1>3. /\ r \in Run /\ disk[r].st # "none"
      /\ Grows(projector, projector', IF Stops(c) THEN {r} ELSE {})
      /\ \A s \in Run \ {r} : projector'.rec[s] = projector.rec[s]
      /\ IF Stops(c) THEN projector.rec[r].st \in ToSet(Active) /\ projector'.rec[r].st \in Terminal
         ELSE projector' = projector
  BY <1>1, ActIs
<1> HIDE DEF r
<1>4. \A s \in Run : projector'.rec[s].st = "none" <=> projector.rec[s].st = "none"
  <2>1. "none" \notin ToSet(Active) /\ "none" \notin Terminal
    BY States DEF Terminal
  <2> QED
    BY <1>3, <2>1
<1>5. reserved \subseteq Run
  BY PlaceFacts
<1>6. ASSUME NEW s \in Held(projector, reserved), faults <= 1
      PROVE  projector'.rec[s] = projector.rec[s]
  <2>1. Clean(Line, projector, reserved, Stored)
    BY <1>2, <1>6 DEF Places, Slack, Dirty
  <2>2. r \in Stored
    BY <1>3 DEF Stored
  <2>3. s \in reserved /\ s \in Run /\ s # r
    BY <1>5, <2>1, <2>2 DEF Clean, Held
  <2> QED
    BY <1>3, <2>3
<1>7. phase' = phase
  BY <1>2
<1> QED
  BY <1>2, <1>3, <1>4, <1>6, <1>7, PlacesStay

LEMMA QuietPlaces ==
    ASSUME IInv, Places, UNCHANGED <<calls, projector, disk, prep, reserved, faults>>,
           phase' = phase \/ (phase = "tree" /\ phase' = "idle")
    PROVE  Places'
<1>1. Grows(projector, projector', {})
  BY Types, NothingGrows DEF IInv
<1>2. /\ \A r \in Run : projector'.rec[r].st = "none" <=> projector.rec[r].st = "none"
      /\ \A r \in Held(projector, reserved) :
            faults <= 1 => projector'.rec[r] = projector.rec[r]
  OBVIOUS
<1>3. phase' = phase \/ (phase \in {"tree", "capture"} /\ phase' = "idle")
  OBVIOUS
<1> QED
  BY <1>1, <1>2, <1>3, PlacesStay

\* Places are counted.
LEMMA Counts ==
    ASSUME NEW S \in SUBSET Run, NEW T \in SUBSET Run
    PROVE  /\ IsFiniteSet(S) /\ IsFiniteSet(T) /\ IsFiniteSet(S \cup T)
           /\ Cardinality(S) \in Nat /\ Cardinality(T) \in Nat
           /\ Cardinality(S \cap T) \in Nat /\ Cardinality(S \cup T) \in Nat
           /\ Cardinality(S \cup T) = Cardinality(S) + Cardinality(T) - Cardinality(S \cap T)
           /\ S \subseteq T => Cardinality(S) <= Cardinality(T)
<1>1. IsFiniteSet(Run) /\ S \cap T \in SUBSET Run
  BY SubagentRunsAssumption
<1>2. IsFiniteSet(S) /\ IsFiniteSet(T) /\ IsFiniteSet(S \cap T)
  BY <1>1, FS_Subset
<1>3. /\ IsFiniteSet(S \cup T)
      /\ Cardinality(S \cup T) = Cardinality(S) + Cardinality(T) - Cardinality(S \cap T)
  BY <1>2, FS_Union
<1>4. /\ Cardinality(S) \in Nat /\ Cardinality(T) \in Nat /\ Cardinality(S \cap T) \in Nat
      /\ Cardinality(S \cup T) \in Nat
  BY <1>2, <1>3, FS_CardinalityType
<1>5. S \subseteq T => Cardinality(S) <= Cardinality(T)
  BY <1>2, FS_Subset
<1> QED
  BY <1>2, <1>3, <1>4, <1>5

\* Nothing is prepared when a call of the tool begins.
LEMMA BeginningPlaces ==
    ASSUME IInv, Places, Execute \/ CaptureContext
    PROVE  Places'
<1>1. TypeOK /\ Reserving
  BY DEF IInv, Places
<1>2. /\ UNCHANGED <<projector, disk, prep, reserved, faults>>
      /\ phase \in {"idle", "capture"} /\ phase' \in {"capture", "prepare"}
  BY DEF Execute, CaptureContext
<1>3. Stored' = Stored /\ Line' = <<>> /\ Line = <<>>
  BY <1>2 DEF Stored, Line
<1>4. /\ \A r \in Run : Unprepared(r)' => Unprepared(r)
      /\ \A r \in Batch' : Unprepared(r) /\ r \in Run
  <2>1. CASE Execute
    <3>1. calls' = calls + 1 /\ calls \in Nat /\ calls + 1 \in DOMAIN Batches
      BY <1>1, <2>1, SubagentRunsAssumption DEF Execute, TypeOK
    <3>2. batch' = Batches[calls + 1]
      BY <3>1 DEF batch
    <3>3. \A r \in Batch' : Unprepared(r) /\ r \in Run
      <4>1. Batches[calls + 1] \in Seq(Run) /\ Batch' = ToSet(Batches[calls + 1])
        BY <3>1, <3>2, SubagentRunsAssumption DEF Batch
      <4>2. calls + 1 > calls
        BY <3>1
      <4> QED
        BY <3>1, <4>1, <4>2 DEF Unprepared, ToSet
    <3>4. ASSUME NEW r \in Run, Unprepared(r)'
          PROVE  Unprepared(r)
      <4>1. CASE \E i \in DOMAIN Batches : i > calls' /\ r \in ToSet(Batches[i])
        <5>1. PICK i \in DOMAIN Batches : i > calls' /\ r \in ToSet(Batches[i])
          BY <4>1
        <5>2. DOMAIN Batches = 1..Len(Batches) /\ Len(Batches) \in Nat
          BY SubagentRunsAssumption
        <5>3. i > calls
          BY <3>1, <5>1, <5>2
        <5> QED
          BY <5>1, <5>3 DEF Unprepared
      <4> QED
        BY <3>3, <3>4, <4>1 DEF Unprepared
    <3> QED
      BY <3>3, <3>4
  <2>2. CASE CaptureContext
    <3>1. calls' = calls /\ phase = "capture" /\ phase' = "prepare"
      BY <2>2 DEF CaptureContext
    <3>2. Batch' = Batch /\ Batch \subseteq Run
      BY <3>1, SameBatch, PlaceFacts
    <3>3. \A r \in Batch' : Unprepared(r) /\ r \in Run
      BY <3>1, <3>2 DEF Unprepared
    <3>4. \A r \in Run : Unprepared(r)' => Unprepared(r)
      BY <3>1 DEF Unprepared
    <3> QED
      BY <3>3, <3>4
  <2> QED
    BY <2>1, <2>2
<1>5. /\ Cardinality(Stored \cup reserved) <= MaxRuns
      /\ \A r \in Run : projector.rec[r].st # "none" => r \in reserved \cup Stored
      /\ \A r \in reserved : \/ projector.rec[r].st # "none"
                             \/ phase = "prepare" /\ r \in Prepared
      /\ \A r \in Run : Unprepared(r) => prep[r] = "none"
  BY <1>1 DEF Reserving
<1>6. Prepared' = {}
  <2>1. \A r \in Batch' : prep'[r] = "none"
    BY <1>2, <1>4, <1>5
  <2> QED
    BY <2>1 DEF Prepared
<1>7. Reserving'
  <2>1. \A r \in reserved : projector.rec[r].st # "none"
    BY <1>2, <1>5
  <2>2. \A r \in Run : Unprepared(r)' => prep'[r] = "none"
    BY <1>2, <1>4, <1>5
  <2> QED
    BY <1>2, <1>3, <1>5, <1>6, <2>1, <2>2 DEF Reserving
<1>8. faults' = 0 => EndsIn(projector', disk')
  BY <1>2 DEF Places
<1>9. Slack(Line', projector', reserved', Stored', faults')
  BY <1>2, <1>3 DEF Places
<1> QED
  BY <1>2, <1>7, <1>8, <1>9 DEF Places

\* A reservation is taken where there is room.
LEMMA PrepareRunPlaces ==
    ASSUME IInv, Places, NEW r \in Run, PrepareRun(r)
    PROVE  Places'
<1>1. TypeOK /\ Reserving /\ Slack(Line, projector, reserved, Stored, faults)
  BY DEF IInv, Places
<1>2. /\ UNCHANGED <<calls, phase, projector, disk, faults>>
      /\ phase = "prepare" /\ r \in Batch /\ prep[r] = "none"
      /\ \/ /\ Cardinality(Stored) + Cardinality(reserved) < MaxRuns
            /\ prep' = [prep EXCEPT ![r] = "ok"] /\ reserved' = reserved \cup {r}
         \/ prep' = [prep EXCEPT ![r] = "failed"] /\ reserved' = reserved
  BY DEF PrepareRun, Stored
<1>3. batch' = batch /\ Batch' = Batch /\ Stored' = Stored /\ Line' = Line
  BY <1>2, SameBatch DEF Stored, Line
<1>4. reserved \subseteq Run /\ Stored \subseteq Run /\ prep \in [Run -> {"none", "ok", "failed"}]
      /\ Batch \subseteq Run /\ projector \in Projectors
  BY <1>1, Types, PlaceFacts
<1>5. projector.rec[r].st = "none" /\ disk[r].st = "none"
  BY <1>2, PlaceFacts
<1>6. /\ Cardinality(Stored \cup reserved) <= MaxRuns
      /\ \A s \in Run : projector.rec[s].st # "none" => s \in reserved \cup Stored
      /\ \A s \in reserved : projector.rec[s].st # "none" \/ s \in Prepared
      /\ Prepared \subseteq reserved
      /\ \A s \in Run : Unprepared(s) => prep[s] = "none"
  BY <1>1, <1>2 DEF Reserving
<1>7. /\ Prepared' \subseteq reserved' /\ Prepared \subseteq Prepared'
      /\ reserved \subseteq reserved' /\ reserved' \subseteq reserved \cup {r}
      /\ r \in reserved' => r \in reserved \/ r \in Prepared'
  BY <1>2, <1>3, <1>4, <1>6 DEF Prepared
<1>8. Cardinality(Stored \cup reserved') <= MaxRuns
  <2>1. CASE /\ Cardinality(Stored) + Cardinality(reserved) < MaxRuns
             /\ reserved' = reserved \cup {r}
    <3>1. /\ IsFiniteSet(Stored \cup reserved)
          /\ Cardinality(Stored) \in Nat /\ Cardinality(reserved) \in Nat
          /\ Cardinality(Stored \cap reserved) \in Nat
          /\ Cardinality(Stored \cup reserved) \in Nat
          /\ Cardinality(Stored \cup reserved)
                = Cardinality(Stored) + Cardinality(reserved) - Cardinality(Stored \cap reserved)
      BY <1>4, Counts
    <3> DEFINE T == Stored \cup reserved
    <3>2. Stored \cup reserved' = T \cup {r} /\ IsFiniteSet(T)
      BY <2>1, <3>1
    <3> HIDE DEF T
    <3>3. /\ IsFiniteSet(T \cup {r})
          /\ Cardinality(T \cup {r}) = IF r \in T THEN Cardinality(T) ELSE Cardinality(T) + 1
      BY <3>2, FS_AddElement
    <3>4. MaxRuns \in Nat
      BY SubagentRunsAssumption
    <3>5. Cardinality(T) \in Nat
      BY <3>1 DEF T
    <3>6. Cardinality(Stored \cup reserved') <= Cardinality(T) + 1
      BY <3>2, <3>3, <3>5
    <3>7. Cardinality(T) <= Cardinality(Stored) + Cardinality(reserved)
      BY <3>1 DEF T
    <3>8. Cardinality(Stored \cup reserved') \in Nat
      BY <3>2, <3>3, <3>5
    <3> HIDE DEF Stored
    <3> QED
      BY <2>1, <3>1, <3>4, <3>5, <3>6, <3>7, <3>8
  <2>2. CASE reserved' = reserved
    BY <1>6, <2>2
  <2> QED
    BY <1>2, <2>1, <2>2
<1>9. \A s \in Run : Unprepared(s)' => prep'[s] = "none"
  <2>1. ~Unprepared(r)
    BY <1>1, <1>2, BatchIsAlone DEF Unprepared, TypeOK
  <2>2. \A s \in Run : Unprepared(s)' <=> Unprepared(s)
    BY <1>2, <1>3 DEF Unprepared
  <2>3. \A s \in Run \ {r} : prep'[s] = prep[s]
    BY <1>2, <1>4
  <2> QED
    BY <1>6, <2>1, <2>2, <2>3
<1>10. Reserving'
  <2>1. \A s \in Run : projector'.rec[s].st # "none" => s \in reserved' \cup Stored'
    BY <1>2, <1>3, <1>6, <1>7
  <2>2. \A s \in reserved' : projector'.rec[s].st # "none" \/ (phase' = "prepare" /\ s \in Prepared')
    BY <1>2, <1>6, <1>7
  <2>3. Cardinality(Stored' \cup reserved') <= MaxRuns
    BY <1>3, <1>8
  <2> QED
    BY <1>7, <1>9, <2>1, <2>2, <2>3 DEF Reserving
<1>11. Slack(Line, projector, reserved', Stored, faults)
  <2>1. Held(projector, reserved') = Held(projector, reserved)
    BY <1>5, <1>7 DEF Held
  <2>2. reserved' \cap Stored = reserved \cap Stored
    BY <1>5, <1>7 DEF Stored
  <2>3. Extends(projector, projector)
    BY <1>4, NothingGrows, GrowsExtends
  <2>4. \A a \in reserved \cap Stored : a \in Held(projector, reserved)
    BY PlaceFacts
  <2>5. \A a, s \in Held(projector, reserved) :
           faults <= 1 /\ Lined(Line, projector, a, s) => Lined(Line, projector, a, s)
    OBVIOUS
  <2> QED
    BY <1>1, <1>4, <2>1, <2>2, <2>3, <2>4, <2>5, SlackStays
<1>12. faults' = 0 => EndsIn(projector', disk')
  BY <1>2 DEF Places
<1>13. Slack(Line', projector', reserved', Stored', faults') /\ phase' # "tree"
  BY <1>2, <1>3, <1>11
<1> QED
  BY <1>10, <1>12, <1>13 DEF Places

\* What was not projected gives its reservation back.
LEMMA UnwindReserving ==
    ASSUME IInv, Places, NEW p \in Projectors, Unwind(p), UNCHANGED <<calls, prep, disk>>,
           phase \in {"prepare", "barrier"},
           \A r \in Run : p.rec[r].st # "none" => r \in reserved \cup Stored,
           \A r \in Run : projector.rec[r].st # "none" => p.rec[r].st # "none"
    PROVE  /\ Reserving'
           /\ \A r \in Run : projector'.rec[r].st = "none" <=> p.rec[r].st = "none"
           /\ Held(projector', reserved') = Held(projector', reserved)
           /\ reserved' \cap Stored = reserved \cap Stored
<1>1. TypeOK /\ Reserving /\ Lives
  BY DEF IInv, Places
<1>2. /\ phase' = "idle" /\ reserved' = reserved \ (Prepared \ Known(p))
      /\ projector'.rec = Ended(p, Known(p), Fault)
      /\ Fault \in Terminal \ {"stopped"}
  BY <1>1, UnwindIs
<1>3. reserved \subseteq Run /\ Batch \subseteq Run /\ Stored \subseteq Run
  BY PlaceFacts
<1>4. ASSUME NEW r \in Run
      PROVE  projector'.rec[r].st = "none" <=> p.rec[r].st = "none"
  <2>1. "none" \notin Terminal
    BY DEF Terminal
  <2>2. projector'.rec[r] = IF r \in Batch /\ r \in Endable(p, Known(p))
                            THEN [st |-> Fault, rev |-> p.rec[r].rev + 1] ELSE p.rec[r]
    BY <1>2 DEF Ended
  <2> QED
    BY <1>2, <2>1, <2>2 DEF Endable, Known
<1>5. /\ Cardinality(Stored \cup reserved) <= MaxRuns
      /\ \A r \in reserved : \/ projector.rec[r].st # "none"
                             \/ phase = "prepare" /\ r \in Prepared
      /\ \A r \in Run : Unprepared(r) => prep[r] = "none"
  BY <1>1 DEF Reserving
<1>6. Stored' = Stored /\ Batch' = Batch
  BY SameBatch DEF Stored
<1>7. \A r \in reserved \ reserved' : p.rec[r].st = "none" /\ disk[r].st = "none"
  <2>1. \A r \in Batch : phase = "barrier" => projector.rec[r].st # "none"
    BY <1>1, <1>3 DEF Lives, RunFits
  <2>2. \A r \in Batch : phase = "prepare" => disk[r].st = "none"
    BY PlaceFacts
  <2> QED
    BY <1>2, <1>3, <2>1, <2>2 DEF Known, Prepared
<1>8. Cardinality(Stored' \cup reserved') <= MaxRuns
  <2> DEFINE T == Stored \cup reserved
             U == Stored \cup reserved'
  <2>1. U \subseteq T /\ T \in SUBSET Run /\ U \in SUBSET Run
    BY <1>2, <1>3
  <2>2. Cardinality(U) <= Cardinality(T) /\ Cardinality(U) \in Nat /\ Cardinality(T) \in Nat
    BY <2>1, Counts
  <2>3. MaxRuns \in Nat
    BY SubagentRunsAssumption
  <2>4. Cardinality(T) <= MaxRuns
    BY <1>5
  <2>5. Stored' \cup reserved' = U
    BY <1>6
  <2> HIDE DEF U, T
  <2> QED
    BY <2>2, <2>3, <2>4, <2>5
<1>9. \A r \in Run : projector'.rec[r].st # "none" => r \in reserved' \cup Stored'
  BY <1>4, <1>6, <1>7
<1>10. \A r \in reserved' : projector'.rec[r].st # "none"
  BY <1>2, <1>3, <1>4, <1>5 DEF Known
<1>11. \A r \in Run : Unprepared(r)' => prep'[r] = "none"
  BY <1>2, <1>5 DEF Unprepared
<1>12. Reserving'
  BY <1>2, <1>8, <1>9, <1>10, <1>11 DEF Reserving
<1>13. Held(projector', reserved') = Held(projector', reserved)
  BY <1>2, <1>3, <1>4, <1>7 DEF Held
<1>14. reserved' \cap Stored = reserved \cap Stored
  BY <1>2, <1>7 DEF Stored
<1> QED
  BY <1>4, <1>12, <1>13, <1>14

\* The catch of execute, with p projected.
LEMMA UnwindPlaces ==
    ASSUME IInv, Places, NEW p \in Projectors, Unwind(p),
           UNCHANGED <<calls, prep, disk, faults>>, phase \in {"prepare", "barrier"},
           \A r \in Run : p.rec[r].st # "none" => r \in reserved \cup Stored,
           \A r \in Run : projector.rec[r].st # "none" => p.rec[r].st # "none",
           faults = 0 => EndsIn(p, disk),
           Slack(batch, p, reserved, Stored, faults),
           \A r \in Run : p.rec[r].st \in ToSet(Active) =>
              r \in Endable(p, Known(p)) /\ r \in Batch
    PROVE  Places'
<1> DEFINE u == projector'
           E == Endable(p, Known(p))
           new == EndOf(p, Fault)
<1>1. TypeOK /\ reserved \in SUBSET Run
  BY PlaceFacts DEF IInv
<1>2. /\ phase' = "idle" /\ Grows(p, u, {})
      /\ Looped(p, u, E, new, batch, Len(batch))
  BY <1>1, UnwindIs
<1>3. /\ Reserving'
      /\ \A r \in Run : u.rec[r].st = "none" <=> p.rec[r].st = "none"
      /\ Held(u, reserved') = Held(u, reserved)
      /\ reserved' \cap Stored = reserved \cap Stored
  BY UnwindReserving
<1>4. u \in Projectors /\ Extends(p, u)
  BY <1>2, GrowsExtends
<1>5. /\ batch \in Seq(Run) /\ \A i, j \in DOMAIN batch : batch[i] = batch[j] => i = j
      /\ ToSet(batch) = Batch
  BY <1>1, Types, BatchIs DEF Batch
<1>6. \A a \in reserved \cap Stored : a \in Held(p, reserved)
  <2>1. \A a \in reserved \cap Stored : a \in Held(projector, reserved)
    BY PlaceFacts
  <2> QED
    BY <1>1, <2>1 DEF Held
<1>7. \A r \in Run : p.rec[r].st \in ToSet(Active) => r \in E /\ r \in ToSet(batch)
  BY <1>5
<1> HIDE DEF u, E, new
<1>8. Slack(<<>>, u, reserved, Stored, faults)
  BY <1>1, <1>2, <1>3, <1>4, <1>5, <1>6, <1>7, EndSlack
<1>9. Slack(<<>>, u, reserved', Stored, faults)
  <2>1. Extends(u, u)
    BY <1>4, NothingGrows, GrowsExtends
  <2>2. \A a \in reserved \cap Stored : a \in Held(u, reserved)
    BY <1>1, <1>3, <1>6 DEF Held
  <2>3. \A a, r \in Held(u, reserved) :
           faults <= 1 /\ Lined(<<>>, u, a, r) => Lined(<<>>, u, a, r)
    OBVIOUS
  <2> QED
    BY <1>3, <1>4, <1>8, <2>1, <2>2, <2>3, SlackStays
<1>10. Stored' = Stored /\ Line' = <<>>
  BY <1>2 DEF Stored, Line
<1>11. Slack(Line', projector', reserved', Stored', faults')
  BY <1>9, <1>10 DEF u
<1>12. faults' = 0 => EndsIn(projector', disk')
  BY <1>2, EndsStay DEF u
<1> QED
  BY <1>2, <1>3, <1>11, <1>12 DEF Places

\* Outside the barrier no runs are lined up.
LEMMA LineFree ==
    ASSUME IInv, Places, phase # "barrier", NEW c
    PROVE  Slack(c, projector, reserved, Stored, faults)
<1>1. projector \in Projectors /\ Slack(Line, projector, reserved, Stored, faults)
  BY Types DEF IInv, Places
<1>2. Extends(projector, projector)
  BY <1>1, NothingGrows, GrowsExtends
<1>3. \A a, r \in Held(projector, reserved) :
         faults <= 1 /\ Lined(Line, projector, a, r) => Lined(c, projector, a, r)
  <2>1. Line = <<>>
    BY DEF Line
  <2> QED
    BY <2>1 DEF Lined, Ahead
<1>4. \A a \in reserved \cap Stored : a \in Held(projector, reserved)
  BY PlaceFacts
<1> QED
  BY <1>1, <1>2, <1>3, <1>4, SlackStays

LEMMA PreparationFailsPlaces ==
    ASSUME IInv, Places, PreparationFails
    PROVE  Places'
<1>1. /\ phase = "prepare" /\ Unwind(projector)
      /\ UNCHANGED <<calls, prep, disk, faults>>
  BY DEF PreparationFails, AllPrepared
<1>2. projector \in Projectors
  BY Types DEF IInv
<1>3. Slack(batch, projector, reserved, Stored, faults)
  BY <1>1, LineFree
<1>4. \A r \in Run : projector.rec[r].st \notin ToSet(Active)
  BY <1>1, PlaceFacts
<1>5. \A r \in Run : projector.rec[r].st # "none" => r \in reserved \cup Stored
  BY DEF Places, Reserving
<1>6. faults = 0 => EndsIn(projector, disk)
  BY DEF Places
<1> QED
  BY <1>1, <1>2, <1>3, <1>4, <1>5, <1>6, UnwindPlaces

LEMMA TreeFailsPlaces ==
    ASSUME IInv, Places, TreeFails
    PROVE  Places'
<1>1. /\ phase = "barrier" /\ Unwind(projector)
      /\ UNCHANGED <<calls, prep, disk, faults>>
  BY DEF TreeFails, AtBarrier
<1>2. TypeOK /\ Snapshots /\ Lives /\ projector \in Projectors
  BY Types DEF IInv
<1>3. Slack(batch, projector, reserved, Stored, faults)
  BY <1>1 DEF Places, Line
<1>4. ASSUME NEW r \in Run, projector.rec[r].st \in ToSet(Active)
      PROVE  r \in Endable(projector, Known(projector)) /\ r \in Batch
  <2>1. r \in Batch
    BY <1>4, PlaceFacts
  <2>2. ToSet(Active) \cap (Terminal \cup {"none"}) = {}
        /\ (control[r].st \in Terminal => projector.rec[r].st \in Terminal)
    BY <1>2, RecStates
  <2>3. prep[r] = "ok"
    BY <1>1, <1>2, <2>1 DEF Lives, RunFits
  <2>4. "stopped" \in Terminal
    BY DEF Terminal
  <2> QED
    BY <1>4, <2>1, <2>2, <2>3, <2>4 DEF Endable, Known, Prepared
<1>5. \A r \in Run : projector.rec[r].st # "none" => r \in reserved \cup Stored
  BY DEF Places, Reserving
<1>6. faults = 0 => EndsIn(projector, disk)
  BY DEF Places
<1> QED
  BY <1>1, <1>2, <1>3, <1>4, <1>5, <1>6, UnwindPlaces

\* The first records s of the batch, all of it prepared.
LEMMA BegunPlaces ==
    ASSUME IInv, Places, AllPrepared, MayProject, NEW s \in Seq(Run), ToSet(s) \subseteq Batch,
           \A i, j \in DOMAIN s : s[i] = s[j] => i = j,
           \A i \in DOMAIN s : i \in DOMAIN batch /\ s[i] = batch[i],
           NEW u \in Projectors, Grows(projector, u, {}), u = FoldLeft(Begin, projector, s)
    PROVE  /\ Slack(batch, u, reserved, Stored, faults)
           /\ faults = 0 => EndsIn(u, disk)
           /\ \A r \in Run : u.rec[r].st # "none" => r \in reserved \cup Stored
           /\ \A r \in Run : projector.rec[r].st # "none" => u.rec[r].st # "none"
           /\ \A r \in Run : r \in ToSet(s) => u.rec[r].st = "queued"
           /\ \A r \in Run : u.rec[r].st \in ToSet(Active) => r \in ToSet(s)
<1> DEFINE new == [r \in Run |-> [st |-> "queued", rev |-> 1]]
<1>1. phase = "prepare" /\ Prepared = Batch
  BY DEF AllPrepared, MayProject
<1>2. /\ reserved \in SUBSET Run /\ Batch \subseteq Run
      /\ \A a \in reserved \cap Stored : a \in Held(projector, reserved)
      /\ \A r \in Batch : projector.rec[r].st = "none" /\ ~Has(projector.queue, r)
      /\ \A r \in Run : projector.rec[r].st \notin ToSet(Active)
  BY <1>1, PlaceFacts
<1>3. TypeOK /\ projector \in Projectors /\ Snapshots /\ Reserving
  BY Types DEF IInv, Places
<1>4. \A r \in ToSet(s) : projector.rec[r] = NoSnapshot
  BY <1>2, <1>3 DEF Snapshots, SnapshotsFit, RecFits
<1>5. /\ u.rec = [r \in Run |-> IF r \in ToSet(s) THEN [st |-> "queued", rev |-> 1]
                                ELSE projector.rec[r]]
      /\ Looped(projector, u, Run, new, s, Len(s))
  BY <1>3, <1>4, BeginGrows
<1>6. Extends(projector, u)
  BY <1>3, GrowsExtends
<1>7. "queued" \in ToSet(Active) /\ "none" \notin ToSet(Active)
  BY States
<1>8. \A r \in Run : u.rec[r] = IF r \in ToSet(s) THEN [st |-> "queued", rev |-> 1]
                                ELSE projector.rec[r]
  BY <1>5
<1>9. \A r \in Run : IF r \in ToSet(s) THEN u.rec[r].st \in ToSet(Active)
                     ELSE u.rec[r] = projector.rec[r]
  BY <1>7, <1>8
<1>10. \A r \in ToSet(s) : /\ projector.rec[r].st = "none" /\ ~Has(projector.queue, r)
                           /\ r \in reserved
  BY <1>1, <1>2, <1>3 DEF Reserving
<1>11. \A a, r : Ahead(s, a, r) => Ahead(batch, a, r)
  <2>1. ASSUME NEW a, NEW r, NEW i \in DOMAIN s, NEW j \in DOMAIN s, i < j, s[i] = a, s[j] = r
        PROVE  Ahead(batch, a, r)
    BY <2>1 DEF Ahead
  <2> QED
    BY <2>1 DEF Ahead
<1>12. Slack(Line, projector, reserved, Stored, faults)
  BY DEF Places
<1> HIDE DEF new
<1>13. Slack(batch, u, reserved, Stored, faults)
  BY <1>2, <1>3, <1>5, <1>6, <1>7, <1>9, <1>10, <1>11, <1>12, BeginSlack
<1>14. faults = 0 => EndsIn(u, disk)
  BY <1>3, EndsStay DEF Places
<1>15. \A r \in Run : u.rec[r].st # "none" => r \in reserved \cup Stored
  BY <1>3, <1>9, <1>10 DEF Reserving
<1>16. /\ \A r \in Run : projector.rec[r].st # "none" => u.rec[r].st # "none"
       /\ \A r \in Run : r \in ToSet(s) => u.rec[r].st = "queued"
       /\ \A r \in Run : u.rec[r].st \in ToSet(Active) => r \in ToSet(s)
  BY <1>2, <1>8
<1> QED
  BY <1>13, <1>14, <1>15, <1>16

LEMMA ProjectPlaces ==
    ASSUME IInv, Places, Project
    PROVE  Places'
<1>1. /\ AllPrepared /\ MayProject /\ phase' = "barrier"
      /\ projector' = FoldLeft(Begin, projector, batch)
      /\ UNCHANGED <<calls, prep, disk, reserved, faults>>
  BY DEF Project
<1>2. TypeOK /\ Snapshots /\ FreshIsUnknown /\ Reserving
  BY DEF IInv, Lives, Places
<1>3. Grows(projector, projector', {}) /\ projector' \in Projectors
  BY <1>2, ProjectSnapshots DEF Grows
<1>4. /\ batch \in Seq(Run) /\ \A i, j \in DOMAIN batch : batch[i] = batch[j] => i = j
      /\ ToSet(batch) \subseteq Batch /\ Batch \subseteq Run /\ reserved \subseteq Run
  BY <1>2, Types, BatchIs DEF Batch
<1>5. \A i \in DOMAIN batch : i \in DOMAIN batch /\ batch[i] = batch[i]
  OBVIOUS
<1> DEFINE u == projector'
<1>6. u \in Projectors /\ Grows(projector, u, {}) /\ u = FoldLeft(Begin, projector, batch)
  BY <1>1, <1>3
<1> HIDE DEF u
<1>7. /\ Slack(batch, u, reserved, Stored, faults)
      /\ faults = 0 => EndsIn(u, disk)
      /\ \A r \in Run : u.rec[r].st # "none" => r \in reserved \cup Stored
      /\ \A r \in Run : projector.rec[r].st # "none" => u.rec[r].st # "none"
      /\ \A r \in Run : r \in ToSet(batch) => u.rec[r].st = "queued"
  BY <1>1, <1>4, <1>5, <1>6, BegunPlaces
<1>8. Batch' = Batch /\ Stored' = Stored /\ batch' = batch /\ Line' = batch
  BY <1>1, SameBatch DEF Stored, Line
<1>9. Reserving'
  <2>1. /\ Cardinality(Stored \cup reserved) <= MaxRuns
        /\ \A r \in reserved : projector.rec[r].st # "none" \/ r \in Prepared
        /\ \A r \in Run : Unprepared(r) => prep[r] = "none"
    BY <1>2 DEF Reserving
  <2>2. \A r \in reserved : u.rec[r].st # "none"
    BY <1>4, <1>7, <2>1 DEF Prepared, Batch
  <2>3. \A r \in Run : Unprepared(r)' => Unprepared(r)
    BY <1>1 DEF Unprepared
  <2> QED
    BY <1>1, <1>7, <1>8, <2>1, <2>2, <2>3 DEF Reserving, u
<1>10. /\ Slack(Line', projector', reserved', Stored', faults')
       /\ faults' = 0 => EndsIn(projector', disk')
  BY <1>1, <1>7, <1>8 DEF u
<1> QED
  BY <1>1, <1>9, <1>10 DEF Places

LEMMA ProjectionFailsPlaces ==
    ASSUME IInv, Places, ProjectionFails
    PROVE  Places'
<1>1. /\ AllPrepared /\ MayProject
      /\ UNCHANGED <<calls, prep, disk, faults>>
  BY DEF ProjectionFails
<1>2. TypeOK /\ Snapshots /\ FreshIsUnknown
  BY DEF IInv, Lives
<1>3. PICK k \in 0..Len(batch) :
             /\ Part(k) \in Seq(Run) /\ ToSet(Part(k)) \subseteq Batch
             /\ \A i, j \in DOMAIN Part(k) : Part(k)[i] = Part(k)[j] => i = j
             /\ \A i \in DOMAIN Part(k) : i \in DOMAIN batch /\ Part(k)[i] = batch[i]
             /\ PartOf(k) \in Projectors
             /\ Grows(projector, PartOf(k), {})
             /\ Unwind(PartOf(k))
  BY <1>2, ProjectionFailsIs
<1> DEFINE s == Part(k)
           p == PartOf(k)
<1>4. p = FoldLeft(Begin, projector, s)
  BY DEF PartOf
<1>5. /\ s \in Seq(Run) /\ ToSet(s) \subseteq Batch
      /\ \A i, j \in DOMAIN s : s[i] = s[j] => i = j
      /\ \A i \in DOMAIN s : i \in DOMAIN batch /\ s[i] = batch[i]
      /\ p \in Projectors /\ Grows(projector, p, {}) /\ Unwind(p)
  BY <1>3
<1> HIDE DEF s, p
<1>6. /\ Slack(batch, p, reserved, Stored, faults)
      /\ faults = 0 => EndsIn(p, disk)
      /\ \A r \in Run : p.rec[r].st # "none" => r \in reserved \cup Stored
      /\ \A r \in Run : projector.rec[r].st # "none" => p.rec[r].st # "none"
      /\ \A r \in Run : r \in ToSet(s) => p.rec[r].st = "queued"
      /\ \A r \in Run : p.rec[r].st \in ToSet(Active) => r \in ToSet(s)
  BY <1>1, <1>4, <1>5, BegunPlaces
<1>7. phase = "prepare" /\ Prepared = Batch
  BY <1>1 DEF AllPrepared, MayProject
<1>8. ASSUME NEW r \in Run, p.rec[r].st \in ToSet(Active)
      PROVE  r \in Endable(p, Known(p)) /\ r \in Batch
  <2>1. r \in Batch /\ p.rec[r].st = "queued"
    BY <1>5, <1>6, <1>8
  <2>2. projector.rec[r].st = "none"
    BY <1>7, <2>1, PlaceFacts
  <2>3. control[r].st = "none"
    BY <1>2, <2>2, RecStates
  <2> QED
    BY <1>7, <2>1, <2>3 DEF Endable, Known, Terminal
<1> QED
  BY <1>1, <1>5, <1>6, <1>7, <1>8, UnwindPlaces

\* The barrier is over: every record of the batch is written.
LEMMA StartTreePlaces ==
    ASSUME IInv, Places, StartTree
    PROVE  Places'
<1>1. /\ phase = "barrier" /\ waits[Supervisor] = 0 /\ ~projector.failed /\ phase' = "tree"
      /\ UNCHANGED <<calls, projector, prep, disk, reserved, faults>>
  BY DEF StartTree, AtBarrier
<1>2. TypeOK /\ BarrierHolds /\ Reserving /\ projector \in Projectors
  BY Types DEF IInv, Places
<1>3. Batch \subseteq Run /\ faults \in Nat /\ reserved \subseteq Run
      /\ \A a \in reserved \cap Stored : a \in Held(projector, reserved)
  BY PlaceFacts
<1>4. ASSUME NEW r \in Batch
      PROVE  r \in Stored
  <2>1. \A i \in DOMAIN projector.queue : ~(i <= 0)
    BY <1>2, QueueRuns
  <2>2. disk[r].st # "none"
    BY <1>1, <1>2, <2>1 DEF BarrierHolds
  <2> QED
    BY <1>3, <2>2 DEF Stored
<1>5. ASSUME faults <= 1
      PROVE  Batch \cap reserved = {}
  <2>1. Clean(Line, projector, reserved, Stored)
    BY <1>1, <1>5 DEF Places, Slack, Dirty
  <2> QED
    BY <1>4, <2>1 DEF Clean
<1>6. Batch' = Batch /\ Stored' = Stored /\ Line' = <<>> /\ Line = batch
  BY <1>1, SameBatch DEF Stored, Line
<1>7. Slack(<<>>, projector, reserved, Stored, faults)
  <2>1. \A a, r \in Held(projector, reserved) :
           faults <= 1 /\ Lined(Line, projector, a, r) => Lined(<<>>, projector, a, r)
    <3>1. ASSUME NEW a \in reserved, faults <= 1, NEW r, Ahead(batch, a, r)
          PROVE  FALSE
      <4>1. a \in Batch
        BY <3>1 DEF Ahead, Batch, ToSet
      <4> QED
        BY <1>5, <3>1, <4>1
    <3> QED
      BY <1>6, <3>1 DEF Lined, Held
  <2>2. Extends(projector, projector)
    BY <1>2, NothingGrows, GrowsExtends
  <2>3. Slack(Line, projector, reserved, Stored, faults)
    BY DEF Places
  <2> QED
    BY <1>2, <1>3, <2>1, <2>2, <2>3, SlackStays
<1>8. Reserving'
  <2>1. /\ Cardinality(Stored \cup reserved) <= MaxRuns
        /\ \A r \in Run : projector.rec[r].st # "none" => r \in reserved \cup Stored
        /\ \A r \in reserved : projector.rec[r].st # "none"
        /\ \A r \in Run : Unprepared(r) => prep[r] = "none"
    BY <1>1, <1>2 DEF Reserving
  <2>2. \A r \in Run : Unprepared(r)' => Unprepared(r)
    BY <1>1 DEF Unprepared
  <2> QED
    BY <1>1, <1>6, <2>1, <2>2 DEF Reserving
<1>9. faults' = 0 => EndsIn(projector', disk')
  BY <1>1 DEF Places
<1>10. faults' <= 1 /\ phase' = "tree" => Batch' \cap reserved' = {}
  BY <1>1, <1>5, <1>6
<1>11. Slack(Line', projector', reserved', Stored', faults')
  BY <1>1, <1>6, <1>7
<1> QED
  BY <1>8, <1>9, <1>10, <1>11 DEF Places

\* The store refuses a write only if a reservation is counted twice.
LEMMA RefusedIs ==
    ASSUME IInv, Places, projector.queue # <<>>,
           ~Storable(projector.queue[1].run, projector.queue[1].snap)
    PROVE  projector.queue[1].run \notin Stored /\ reserved \cap Stored # {}
<1> DEFINE op == projector.queue[1]
           h == op.run
<1>1. TypeOK /\ Snapshots /\ Lives /\ Reserving /\ projector \in Projectors
      /\ disk \in [Run -> Snapshot]
  BY Types DEF IInv, Places
<1>2. QueueFits(projector) /\ DiskFits(projector, disk)
  BY <1>1 DEF Snapshots, SnapshotsFit
<1>3. /\ h \in Run /\ projector.rec[h].st # "none" /\ op.snap.st # "none"
      /\ op.snap \in Snapshot
      /\ disk[h].st # "none" => Order(disk[h], op.snap)
  BY <1>1, <1>2, HeadIsFirst
<1>4. ~Storable(h, op.snap)
  OBVIOUS
<1> HIDE DEF op, h
<1>5. initialized
  BY <1>1, <1>3 DEF Lives, RunFits
<1>6. ASSUME disk[h].st # "none"
      PROVE  FALSE
  <2>1. disk[h].rev \in Nat /\ op.snap.rev \in Nat
    BY <1>1, <1>3 DEF Snapshot
  <2>2. /\ op.snap.rev > disk[h].rev /\ disk[h].st \notin Terminal
    BY <1>3, <1>6, <2>1 DEF Order
  <2>3. Rank(op.snap.st) >= Rank(disk[h].st)
    <3>1. disk[h].st \in RunState /\ op.snap.st \in RunState
      BY <1>1, <1>3, <1>6 DEF Snapshot
    <3>2. Rank(disk[h].st) \in 1..4 /\ Rank(op.snap.st) \in 1..4
      BY <3>1, Ranks
    <3>3. Rank(disk[h].st) <= Rank(op.snap.st)
      BY <1>3, <1>6 DEF Order
    <3> QED
      BY <3>2, <3>3
  <2> QED
    BY <1>4, <1>5, <1>6, <2>2, <2>3 DEF Storable
<1>7. h \notin Stored /\ h \in reserved /\ reserved \subseteq Run /\ Stored \subseteq Run
  BY <1>1, <1>3, <1>6, PlaceFacts DEF Stored, Reserving
<1>8. ASSUME reserved \cap Stored = {}
      PROVE  FALSE
  <2>1. /\ Cardinality(Stored) \in Nat /\ Cardinality(reserved) \in Nat
        /\ Cardinality(Stored \cup reserved)
              = Cardinality(Stored) + Cardinality(reserved) - Cardinality(Stored \cap reserved)
        /\ IsFiniteSet(reserved)
    BY <1>7, Counts
  <2>2. Cardinality(Stored \cap reserved) = 0
    <3>1. Stored \cap reserved = {}
      BY <1>8
    <3> QED
      BY <3>1, FS_EmptySet
  <2>3. Cardinality(Stored \cup reserved) = Cardinality(Stored) + Cardinality(reserved)
    BY <2>1, <2>2
  <2>4. Cardinality(reserved \ {h}) = Cardinality(reserved) - 1
    BY <1>7, <2>1, FS_RemoveElement
  <2>5. Cardinality(Stored \cup reserved) <= MaxRuns /\ MaxRuns \in Nat
    BY <1>1, SubagentRunsAssumption DEF Reserving
  <2>6. Cardinality(Stored) + Cardinality(reserved \ {h}) < MaxRuns
    BY <2>1, <2>3, <2>4, <2>5
  <2> QED
    BY <1>4, <1>5, <1>6, <2>6 DEF Storable, Stored
<1> QED
  BY <1>7, <1>8 DEF h, op

\* The end of a run at the head of the queue is stored, the others stay.
LEMMA PersistEnds ==
    ASSUME NEW p \in Projectors, NEW u, p.queue # <<>>, u.queue = Tail(p.queue), u.rec = p.rec,
           NEW d \in [Run -> Snapshot], NEW d2, EndsIn(p, d),
           d2 = [d EXCEPT ![p.queue[1].run] = p.queue[1].snap],
           d[p.queue[1].run].st \notin Terminal
    PROVE  EndsIn(u, d2)
<1> DEFINE h == p.queue[1].run
<1>1. /\ DOMAIN p.queue = 1..Len(p.queue) /\ DOMAIN u.queue = 1..Len(p.queue) - 1
      /\ \A i \in 1..Len(p.queue) - 1 : u.queue[i] = p.queue[i + 1]
      /\ Len(p.queue) \in Nat \ {0} /\ p.queue[1] \in Operation
  BY TailIs
<1>2. d2[h] = p.queue[1].snap /\ \A r \in Run \ {h} : d2[r] = d[r]
  BY <1>1 DEF Operation
<1> SUFFICES ASSUME NEW r \in Run, p.rec[r].st \in Terminal, AsV1(d2[r]) # p.rec[r]
             PROVE  \E i \in DOMAIN u.queue : u.queue[i].run = r
                                              /\ AsV1(u.queue[i].snap) = p.rec[r]
  BY DEF EndsIn
<1>3. AsV1(d[r]) # p.rec[r]
  <2>1. CASE r = h
    <3>1. AsV1(d[r]).st \notin Terminal
      BY <2>1, SnapshotIs DEF AsV1, Terminal
    <3> QED
      BY <3>1
  <2>2. CASE r # h
    BY <1>2, <2>2
  <2> QED
    BY <2>1, <2>2
<1>4. PICK i \in DOMAIN p.queue : p.queue[i].run = r /\ AsV1(p.queue[i].snap) = p.rec[r]
  BY <1>3 DEF EndsIn
<1>5. i # 1
  BY <1>2, <1>4
<1>6. i - 1 \in DOMAIN u.queue /\ u.queue[i - 1] = p.queue[i]
  BY <1>1, <1>4, <1>5
<1> QED
  BY <1>4, <1>6

LEMMA PersistPlaces ==
    ASSUME IInv, Places, Persist
    PROVE  Places'
<1> DEFINE op == projector.queue[1]
           h == op.run
<1>1. TypeOK /\ Snapshots /\ Lives /\ Reserving /\ projector \in Projectors
      /\ disk \in [Run -> Snapshot]
  BY Types DEF IInv, Places
<1>2. /\ projector.queue # <<>> /\ Head(projector.queue) = op
      /\ UNCHANGED <<calls, phase, prep>>
  BY <1>1, TailIs DEF Persist
<1>3. QueueFits(projector) /\ DiskFits(projector, disk)
  BY <1>1 DEF Snapshots, SnapshotsFit
<1>4. /\ h \in Run /\ projector.rec[h].st # "none" /\ op.snap.st # "none"
  BY <1>1, <1>2, <1>3, HeadIsFirst
<1>5. disk[h].st \notin Terminal
  BY <1>1, PersistIs
<1>6. /\ projector'.queue = Tail(projector.queue) /\ projector'.rec = projector.rec
      /\ projector.failed => projector'.failed
      /\ \/ /\ disk' = [disk EXCEPT ![h] = op.snap] /\ reserved' = reserved \ {h}
            /\ faults' = faults
         \/ /\ ~Storable(h, op.snap) /\ disk' = disk /\ reserved' = reserved
            /\ faults' = faults /\ projector'.failed
         \/ /\ disk' \in {disk, [disk EXCEPT ![h] = op.snap]} /\ reserved' = reserved
            /\ faults' = faults + 1 /\ projector'.failed
  BY <1>1, <1>2 DEF Persist, Projectors
<1> DEFINE u == projector'
<1>7. /\ u.queue = Tail(projector.queue) /\ u.rec = projector.rec
      /\ projector.failed => u.failed
  BY <1>6
<1>8. op = projector.queue[1] /\ h = projector.queue[1].run
  OBVIOUS
<1> HIDE DEF op, h
<1>9. batch' = batch /\ Batch' = Batch /\ Prepared' = Prepared /\ Line' = Line
  BY <1>2, SameBatch DEF Prepared, Line
<1>10. reserved \subseteq Run /\ faults \in Nat /\ reserved' \subseteq reserved
       /\ h \in reserved \cup Stored
  BY <1>1, <1>4, <1>6, PlaceFacts DEF Reserving
<1>11. \/ Stored' = Stored /\ disk' = disk
       \/ Stored' = Stored \cup {h} /\ disk' = [disk EXCEPT ![h] = op.snap]
  BY <1>1, <1>4, <1>6 DEF Stored
<1>12. Stored' \cup reserved' = Stored \cup reserved
  <2>1. CASE disk' = [disk EXCEPT ![h] = op.snap] /\ reserved' = reserved \ {h}
    <3>1. Stored' = Stored \cup {h}
      BY <1>1, <1>4, <2>1 DEF Stored
    <3> QED
      BY <1>10, <2>1, <3>1
  <2>2. CASE reserved' = reserved
    BY <1>10, <1>11, <2>2
  <2> QED
    BY <1>6, <2>1, <2>2
<1>13. Reserving'
  <2>1. /\ Cardinality(Stored \cup reserved) <= MaxRuns
        /\ \A r \in Run : projector.rec[r].st # "none" => r \in reserved \cup Stored
        /\ \A r \in reserved : \/ projector.rec[r].st # "none"
                               \/ phase = "prepare" /\ r \in Prepared
        /\ phase = "prepare" => Prepared \subseteq reserved
        /\ \A r \in Run : Unprepared(r) => prep[r] = "none"
    BY <1>1 DEF Reserving
  <2>2. \A r \in Run : Unprepared(r)' => Unprepared(r)
    BY <1>2, <1>9 DEF Unprepared
  <2>3. phase' = "prepare" => Prepared' \subseteq reserved'
    <3>1. phase = "prepare" => h \notin Batch
      BY <1>4, PlaceFacts
    <3>2. reserved \ {h} \subseteq reserved'
      BY <1>6
    <3> QED
      BY <1>2, <1>9, <2>1, <3>1, <3>2 DEF Prepared
  <2>4. \A r \in reserved' : \/ projector'.rec[r].st # "none"
                             \/ phase' = "prepare" /\ r \in Prepared'
    BY <1>2, <1>6, <1>9, <1>10, <2>1
  <2>5. \A r \in Run : projector'.rec[r].st # "none" => r \in reserved' \cup Stored'
    BY <1>6, <1>12, <2>1
  <2> QED
    BY <1>2, <1>12, <2>1, <2>2, <2>3, <2>4, <2>5 DEF Reserving
<1>14. faults' <= 1 /\ phase' = "tree" => Batch' \cap reserved' = {}
  <2>1. faults' <= 1 => faults <= 1
    BY <1>6, <1>10
  <2> QED
    BY <1>2, <1>9, <1>10, <2>1 DEF Places
<1>15. Slack(Line, projector, reserved, Stored, faults)
  BY DEF Places
<1>16. CASE disk' = [disk EXCEPT ![h] = op.snap] /\ reserved' = reserved \ {h} /\ faults' = faults
  <2>1. Stored' = Stored \cup {h}
    BY <1>1, <1>4, <1>16 DEF Stored
  <2>2. Slack(Line, u, reserved \ {h}, Stored \cup {h}, faults)
    <3> HIDE DEF u
    <3> QED
      BY <1>1, <1>2, <1>7, <1>8, <1>15, WrittenSlack
  <2>3. Slack(Line', projector', reserved', Stored', faults')
    BY <1>9, <1>16, <2>1, <2>2
  <2>4. ASSUME faults' = 0
        PROVE  EndsIn(projector', disk')
    <3>1. EndsIn(projector, disk)
      BY <1>16, <2>4 DEF Places
    <3>2. disk' = [disk EXCEPT ![projector.queue[1].run] = projector.queue[1].snap]
          /\ disk[projector.queue[1].run].st \notin Terminal
      BY <1>5, <1>8, <1>16
    <3> QED
      BY <1>1, <1>2, <1>6, <3>1, <3>2, PersistEnds
  <2> QED
    BY <1>13, <1>14, <2>3, <2>4 DEF Places
<1>17. CASE /\ ~Storable(h, op.snap) /\ disk' = disk /\ reserved' = reserved
            /\ faults' = faults /\ projector'.failed
  <2>1. h \notin Stored /\ reserved \cap Stored # {}
    BY <1>2, <1>8, <1>17, RefusedIs
  <2>2. ~Clean(Line, projector, reserved, Stored)
    BY <2>1 DEF Clean
  <2>3. PICK x : x \in reserved \cap Stored
    BY <2>1
  <2>4. ASSUME faults <= 1
        PROVE  faults = 1 /\ Dirty(Line, u, reserved, Stored)
    <3>1. faults = 1 /\ Dirty(Line, projector, reserved, Stored)
      BY <1>15, <2>2, <2>4 DEF Slack
    <3>2. u.failed
      BY <1>17
    <3> HIDE DEF u
    <3> QED
      BY <1>1, <1>2, <1>7, <1>8, <2>1, <2>3, <3>1, <3>2, RefusedSlack
  <2>5. Stored' = Stored
    BY <1>17 DEF Stored
  <2>6. Slack(Line', projector', reserved', Stored', faults')
    BY <1>9, <1>17, <2>4, <2>5 DEF Slack
  <2>7. faults' # 0
    BY <1>17, <2>4
  <2> QED
    BY <1>13, <1>14, <2>6, <2>7 DEF Places
<1>18. CASE /\ disk' \in {disk, [disk EXCEPT ![h] = op.snap]} /\ reserved' = reserved
            /\ faults' = faults + 1 /\ projector'.failed
  <2>1. faults' # 0 /\ (faults' <= 1 => faults = 0 /\ faults' = 1)
    BY <1>10, <1>18
  <2>2. ASSUME faults = 0
        PROVE  Dirty(Line, u, reserved, Stored')
    <3>1. Clean(Line, projector, reserved, Stored)
      BY <1>15, <2>2 DEF Slack
    <3>2. Stored \subseteq Stored' /\ Stored' \subseteq Stored \cup {h} /\ u.failed
      BY <1>11, <1>18
    <3> DEFINE sto2 == Stored'
    <3>3. Stored \subseteq sto2 /\ sto2 \subseteq Stored \cup {h}
      BY <3>2
    <3> HIDE DEF sto2, u
    <3>4. Dirty(Line, u, reserved, sto2)
      BY <1>1, <1>2, <1>4, <1>7, <1>8, <3>1, <3>2, <3>3, FaultSlack
    <3> QED
      BY <3>4 DEF sto2
  <2>3. Slack(Line', projector', reserved', Stored', faults')
    BY <1>9, <1>18, <2>1, <2>2 DEF Slack
  <2> QED
    BY <1>13, <1>14, <2>1, <2>3 DEF Places
<1> QED
  BY <1>6, <1>16, <1>17, <1>18

LEMMA InitializePlaces ==
    ASSUME IInv, Places, Initialize
    PROVE  Places'
<1>1. TypeOK /\ Snapshots /\ Lives /\ (\A r \in Run : RunFits(r)) /\ Reserving
  BY DEF IInv, Lives, Places
<1>2. UNCHANGED <<calls, phase, prep, projector, reserved, faults>>
  BY DEF Initialize
<1>3. \A r \in Run : /\ projector.rec[r].st = "none"
                     /\ disk'[r].st = "none" <=> disk[r].st = "none"
  BY <1>1, InitializeIs
<1>4. /\ Stored' = Stored /\ batch' = batch /\ Batch' = Batch /\ Line' = Line
      /\ Prepared' = Prepared
  BY <1>2, <1>3, SameBatch DEF Stored, Line, Prepared
<1>5. Reserving'
  <2>1. \A r \in Run : Unprepared(r)' <=> Unprepared(r)
    BY <1>2, <1>4 DEF Unprepared
  <2> QED
    BY <1>1, <1>2, <1>4, <2>1 DEF Reserving
<1>6. EndsIn(projector', disk')
  BY <1>2, <1>3 DEF EndsIn, Terminal
<1>7. faults' <= 1 /\ phase' = "tree" => Batch' \cap reserved' = {}
  BY <1>2, <1>4 DEF Places
<1>8. Slack(Line', projector', reserved', Stored', faults')
  BY <1>2, <1>4 DEF Places
<1> QED
  BY <1>5, <1>6, <1>7, <1>8 DEF Places

\* Where nothing is known nothing is reserved.
LEMMA EmptyPlaces ==
    ASSUME NEW d, NEW n, NEW sto, NEW b
    PROVE  EndsIn(Empty, d) /\ Slack(b, Empty, {}, sto, n)
<1>1. \A r \in Run : Empty.rec[r].st = "none"
  BY DEF Empty, Nothing, NoSnapshot
<1>2. EndsIn(Empty, d)
  BY <1>1 DEF EndsIn, Terminal
<1>3. Clean(b, Empty, {}, sto)
  BY DEF Clean, Held
<1> QED
  BY <1>2, <1>3 DEF Slack

LEMMA CrashPlaces ==
    ASSUME IInv, Places, Crash
    PROVE  Places'
<1>1. TypeOK /\ Reserving /\ reserved \subseteq Run /\ Stored \subseteq Run
  BY PlaceFacts DEF IInv, Places
<1>2. /\ phase' = "idle" /\ reserved' = {} /\ projector' = Empty
      /\ prep' = [r \in Run |-> "none"]
      /\ UNCHANGED <<calls, disk, faults>>
  BY DEF Crash, Empty, Nothing
<1>3. Stored' = Stored
  BY <1>2 DEF Stored
<1>4. Cardinality(Stored' \cup reserved') <= MaxRuns
  <2> DEFINE T == Stored \cup reserved
             U == Stored' \cup reserved'
  <2>1. U \subseteq T /\ T \in SUBSET Run /\ U \in SUBSET Run
    BY <1>1, <1>2, <1>3
  <2>2. Cardinality(T) <= MaxRuns /\ MaxRuns \in Nat
    BY <1>1, SubagentRunsAssumption DEF Reserving
  <2> HIDE DEF U, T
  <2>3. Cardinality(U) <= Cardinality(T) /\ Cardinality(U) \in Nat /\ Cardinality(T) \in Nat
    BY <2>1, Counts
  <2>4. Cardinality(U) <= MaxRuns
    BY <2>2, <2>3
  <2> QED
    BY <2>4 DEF U
<1>5. \A r \in Run : projector'.rec[r].st = "none" /\ prep'[r] = "none"
  BY <1>2 DEF Empty, Nothing, NoSnapshot
<1>6. Reserving'
  BY <1>2, <1>4, <1>5 DEF Reserving
<1>7. EndsIn(projector', disk') /\ Slack(Line', projector', reserved', Stored', faults')
  BY <1>2, EmptyPlaces
<1> QED
  BY <1>2, <1>6, <1>7 DEF Places

LEMMA InitPlaces == ASSUME Init PROVE Places
<1>1. /\ phase = "idle" /\ reserved = {} /\ projector = Empty
      /\ prep = [r \in Run |-> "none"] /\ disk = Nothing
  BY DEF Init, Empty, Nothing
<1>2. Stored = {}
  BY <1>1 DEF Stored, Nothing, NoSnapshot
<1>3. Cardinality(Stored \cup reserved) <= MaxRuns
  <2>1. Stored \cup reserved = {} /\ Cardinality({}) = 0 /\ MaxRuns \in Nat
    BY <1>1, <1>2, FS_EmptySet, SubagentRunsAssumption
  <2>2. Cardinality(Stored \cup reserved) = 0
    BY <2>1
  <2> QED
    BY <2>1, <2>2
<1>4. \A r \in Run : projector.rec[r].st = "none" /\ prep[r] = "none"
  BY <1>1 DEF Empty, Nothing, NoSnapshot
<1>5. Reserving
  BY <1>1, <1>3, <1>4 DEF Reserving
<1>6. EndsIn(projector, disk) /\ Slack(Line, projector, reserved, Stored, faults)
  BY <1>1, EmptyPlaces
<1> QED
  BY <1>1, <1>5, <1>6 DEF Places

LEMMA NextPlaces == ASSUME IInv, Places, Next PROVE Places'
<1>1. ASSUME NEW c \in Call, ManageFails(c) \/ WaitEnds(c) \/ Confirm(c) \/ WaitTimer(c)
      PROVE  Places'
  <2>1. UNCHANGED <<calls, projector, disk, prep, reserved, faults, phase>>
    BY <1>1 DEF ManageFails, WaitEnds, WaitTimer, Answer, Confirm, memory
  <2> QED
    BY <2>1, QuietPlaces
<1>2. ASSUME NEW c \in Call, NEW act \in {"status", "wait", "stop"}, NEW r \in Run,
             Manage(c, act, r)
      PROVE  Places'
  <2>1. UNCHANGED <<calls, projector, disk, prep, reserved, faults, phase>>
    BY <1>2 DEF Manage
  <2> QED
    BY <2>1, QuietPlaces
<1>3. ASSUME \/ PersistAssistant \/ AppendMessage
             \/ \E kind \in {"timed_out", "interrupted"} : AbortExecution(kind)
      PROVE  Places'
  <2>1. UNCHANGED <<calls, projector, disk, prep, reserved, faults, phase>>
    BY <1>3 DEF PersistAssistant, AppendMessage, AbortExecution
  <2> QED
    BY <2>1, QuietPlaces
<1>4. CASE TreeEnds
  <2>1. CASE cancel = "none"
    <3>1. /\ UNCHANGED <<calls, projector, disk, prep, reserved, faults>>
          /\ phase = "tree" /\ phase' = "idle"
      BY <1>4, <2>1 DEF TreeEnds, AllSettled
    <3> QED
      BY <3>1, QuietPlaces
  <2>2. CASE cancel # "none"
    BY <1>4, <2>2, TreeEndsPlaces
  <2> QED
    BY <2>1, <2>2
<1>5. ASSUME NEW r \in Run, PrepareRun(r) \/ Telemetry(r) \/ ChildEnds(r)
      PROVE  Places'
  BY <1>5, PrepareRunPlaces, TelemetryPlaces, ChildEndsPlaces
<1>6. CASE Step
  <2>1. \/ CaptureFails \/ PreparationFails \/ Project \/ ProjectionFails
        \/ StartTree \/ TreeFails \/ TreeEnds \/ AppendMessage
        \/ \E c \in Call : ManageFails(c) \/ Act(c) \/ WaitEnds(c) \/ Confirm(c)
    BY <1>6 DEF Step
  <2> QED
    BY <1>1, <1>3, <1>4, <2>1, CaptureFailsPlaces, PreparationFailsPlaces, ProjectPlaces,
       ProjectionFailsPlaces, StartTreePlaces, TreeFailsPlaces, ActPlaces
<1>7. CASE Event
  <2>1. \/ Execute \/ CaptureContext \/ CaptureFails
        \/ \E r \in Run : PrepareRun(r) \/ Telemetry(r) \/ ChildEnds(r)
        \/ SettlementTimer
        \/ \E kind \in {"timed_out", "interrupted"} : AbortExecution(kind)
        \/ PersistAssistant \/ Persist \/ Initialize
        \/ \E c \in Call, act \in {"status", "wait", "stop"}, r \in Run : Manage(c, act, r)
        \/ \E c \in Call : WaitTimer(c)
        \/ Crash
    BY <1>7 DEF Event
  <2> QED
    BY <1>1, <1>2, <1>3, <1>5, <2>1, BeginningPlaces, CaptureFailsPlaces,
       SettlementTimerPlaces, PersistPlaces, InitializePlaces, CrashPlaces
<1> QED
  BY <1>6, <1>7 DEF Next

LEMMA StutterPlaces == ASSUME IInv, Places, UNCHANGED vars PROVE Places'
<1>1. UNCHANGED <<calls, projector, disk, prep, reserved, faults, phase>>
  BY DEF vars, memory
<1> QED
  BY <1>1, QuietPlaces

LEMMA PlacesSettled == ASSUME IInv, Places PROVE EndedIsSettled
<1>1. TypeOK /\ Snapshots /\ Lives /\ Reserving
  BY DEF IInv, Places
<1>2. ASSUME NEW r \in Run, {projector.rec[r].st, control[r].st} \cap Terminal # {}
      PROVE  r \in revoked
  <2>1. projector.rec[r].st \in Terminal
    BY <1>1, <1>2, RecStates
  <2> QED
    BY <1>1, <2>1 DEF Lives, RunFits
<1>3. ASSUME phase = "idle", NEW r \in Run
      PROVE  projector.rec[r].st \notin ToSet(Active)
  BY <1>3, PlaceFacts
<1>4. ASSUME phase = "idle", projector.queue = <<>>, faults <= 1
      PROVE  reserved = {}
  <2>1. SUFFICES ASSUME NEW r \in reserved PROVE FALSE
    OBVIOUS
  <2>2. r \in Held(projector, reserved) /\ r \in Run
    BY <1>1, <1>4, PlaceFacts DEF Reserving, Held
  <2>3. ~Has(projector.queue, r)
    BY <1>4 DEF Has
  <2>4. projector.rec[r].st \notin ToSet(Active)
    BY <1>3, <1>4, <2>2
  <2>5. ~Clean(Line, projector, reserved, Stored) /\ ~Dirty(Line, projector, reserved, Stored)
    BY <2>2, <2>3, <2>4 DEF Clean, Dirty
  <2> QED
    BY <1>4, <2>5 DEF Places, Slack
<1>5. ASSUME projector.queue = <<>>, faults = 0, NEW r \in Run, projector.rec[r].st \in Terminal
      PROVE  AsV1(disk[r]) = projector.rec[r]
  BY <1>5 DEF Places, EndsIn
<1> QED
  BY <1>2, <1>3, <1>4, <1>5 DEF EndedIsSettled

\* A run that has ended holds no authority; when execute is over every run it
\* projected has ended, and once its writes are over the store says the same
\* and holds no place for a run that never got its record, though one write
\* may have failed.
THEOREM Ended_is_settled == Spec => []EndedIsSettled
<1>1. Init => IInv /\ Places
  BY InitKeeps, InitPlaces
<1>2. IInv /\ Places /\ [Next]_vars => (IInv /\ Places)'
  BY NextKeeps, StutterKeeps, NextPlaces, StutterPlaces
<1>3. IInv /\ Places => EndedIsSettled
  BY PlacesSettled
<1> QED
  BY <1>1, <1>2, <1>3, PTL DEF Spec
=============================================================================
