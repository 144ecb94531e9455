--------------------------- MODULE DataStore_proofs ---------------------------
(***************************************************************************)
(* Proofs about DataStore, for any edits, saves and bound on failures.     *)
(*                                                                         *)
(* None of the properties is inductive.  DocumentStands needs to know what *)
(* a name in the directory means while nobody has looked at it: that at    *)
(* most one held name is the document (HeldInv), that the hash in a name   *)
(* speaks only of changes that stand (StandInv), that a name is given up   *)
(* only when what it leads to stands (DropInv), that the editor writes to  *)
(* no file the store is about to give up (EditorInv), and that a new file  *)
(* holds all that stood when the old one was checked (SnapInv).  These     *)
(* hold until a call fails after which old files are not seen (Good); the  *)
(* order of the queue (ControlInv) and the way back of a document          *)
(* (ReturnInv) hold whatever fails.                                        *)
(***************************************************************************)
EXTENDS DataStore, TLAPS

\* The file a name leads to.
Of(n) == parked[n].inode
\* No call has failed that leaves old files unseen.
Good == failed \cap Unseeing = {}

\* Whether a change is in the document, or was written over.
Stands(x) ==
    \/ x \in forgone
    \/ dest # None /\ x \in content[dest].changes
    \/ dest = None /\ \E n \in Saves : Held(n) /\ x \in content[Of(n)].changes

\* Where an operation is while it has a file at a held name.
Held_pc == {"check", "link", "put back", "unlink", "retire"}

\* Where the operation stands in the queue, whatever failed.
ControlInv ==
    /\ op.pc \in {"down", "idle"} => op.save = None
    /\ \A n \in op.todo : Leftover(n)
    /\ op.pc \in {"recover", "compare", "drop"} => op.todo # {}
    /\ op.pc \in {"compare", "drop"} => op.name \in op.todo
    /\ op.pc \in {"put back", "unlink"} /\ op.todo # {} => op.name \in op.todo
    /\ op.pc \in {"put back", "unlink"} /\ op.todo = {} => op.name = op.save
    /\ op.pc \notin {"recover", "compare", "drop", "put back", "unlink"} => op.todo = {}
    /\ op.pc \in {"stage", "hold", "check", "link", "retire", "commit"} => op.save # None
    /\ op.pc \in {"hold", "check", "retire"} => store.snapshot # None
    /\ op.pc \in {"stage", "hold", "check", "link"} => store.snapshot # Unseen
    /\ op.pc \in {"check", "retire"} \/ (op.pc = "link" /\ store.snapshot # None)
          => op.name = op.save /\ Held(op.save)
    /\ op.pc \in {"put back", "unlink"} => Held(op.name)
    /\ op.pc \in {"unlink", "retire", "commit"} => dest # None

\* A file that has a name.
Named(i) == dest = i \/ i \in kept \/ \E n \in Saves : parked[n] # None /\ Of(n) = i
\* A file that nobody has seen yet.
New(i) == ~Named(i) /\ editor.inode # i

\* The file of a change is new until it is written, and a save has no name in
\* the directory before it takes the document.
FreshInv ==
    /\ \A x \in Inode \ tried : New(x)
    /\ \A n \in Saves : parked[n] # None => n \in tried
    /\ \A x \in Inode : op.save = x /\ op.pc \notin {"retire", "commit"} => New(x)
    /\ op.save # None => op.save \in tried
    /\ op.save # None /\ (op.todo # {} \/ op.pc \in {"list", "read", "stage", "hold"})
          => parked[op.save] = None
    /\ done \subseteq tried

\* A held name is the document's, and there is one: the save that took it is
\* at work, or a recovery has yet to come to it.
HeldInv ==
    /\ op.pc \in {"read", "stage", "hold", "check", "link", "retire", "commit"}
          => \A n \in Saves : ~Leftover(n)
    /\ op.todo # {} => \A n \in Saves : Leftover(n) => n \in op.todo
    /\ \A n \in Saves : Held(n) /\ parked[n].live =>
          /\ n = op.name /\ op.todo = {} /\ op.pc \in Held_pc
          /\ op.pc = "link" => store.snapshot # None
    /\ \A n, m \in Saves : Held(n) /\ Held(m) => n = m
    /\ op.pc \in {"compare", "drop"} /\ Held(op.name) => dest # None

\* Where there is no document there never was one.
EmptyInv ==
    dest = None /\ (\A n \in Saves : ~Held(n)) =>
        /\ kept = {} /\ \A n \in Saves : parked[n] = None
        /\ tried \cap (Edits \cup {First}) = {} /\ done = {}

\* The changes that must stand: acknowledged saves, edits of the document, and
\* what the hash of a name speaks of.
Standing(x) ==
    \/ x \in done
    \/ x \in (tried \cap (Edits \cup {First})) \ late
    \/ \E n \in Saves : parked[n] # None /\ x \in parked[n].hash.changes
StandInv == \A x \in Change : Standing(x) => Stands(x)

\* What a save has read stands when it takes the document, and is all that
\* stands once the document was found unchanged.
SnapInv ==
    /\ op.pc \in {"stage", "hold", "check", "link"} /\ store.snapshot # None =>
          store.changes = store.snapshot.changes
    /\ op.pc \in {"stage", "hold"} /\ store.snapshot # None =>
          \A x \in store.snapshot.changes : Stands(x)
    /\ op.pc \in {"hold", "check", "link"} =>
          content[op.save].changes = store.changes \cup {op.save}
    /\ op.pc = "check" => parked[op.save].hash = store.snapshot
    /\ op.pc = "link" /\ dest = None /\ store.snapshot # None =>
          \A x \in Change : Standing(x) => x \in forgone \cup store.snapshot.changes
    /\ op.pc \in {"retire", "commit"} => Stands(op.save)

\* A name is given up for the document's sake only.
DropInv ==
    op.pc \in {"drop", "unlink"} => \A x \in content[Of(op.name)].changes : Stands(x)

\* The editor has a file open that has a name, and it is the document if the
\* store will look at that name again.
EditorInv ==
    /\ \A i \in Inode : editor.inode = i => Named(i)
    /\ \A n \in Saves :
          /\ parked[n] # None /\ editor.inode = Of(n)
          /\ Leftover(n) \/ (Held(n) /\ op.pc \in Held_pc \ {"retire"})
          => op.pc = "down" \/ dest = Of(n) \/ (Held(n) /\ dest = None)

\* An edit of a file that was not the document is in a file with a name.
LateInv ==
    \A x \in late : x \in forgone \/ \E i \in Inode : Named(i) /\ x \in content[i].changes

\* Who brings a document back that is not at its path: the next recovery, the
\* one under way, or the save that took it away.
ReturnInv ==
    /\ op.pc \in {"compare", "drop"} /\ Held(op.name) => dest # None
    /\ "list" \notin failed /\ dest = None /\ (\E n \in Saves : Held(n)) =>
          \/ /\ op.pc \in {"down", "list", "idle"} /\ \E n \in Saves : Held(n) /\ Leftover(n)
             /\ op.pc = "idle" => "put back" \in failed
          \/ \E n \in op.todo : Held(n)
          \/ /\ op.pc \in {"check", "link", "put back"} /\ op.todo = {}
             /\ op.pc = "link" => store.snapshot # None

\* What holds as long as the calls of Good work.
Safe ==
    /\ FreshInv /\ HeldInv /\ EmptyInv /\ StandInv /\ SnapInv
    /\ DropInv /\ EditorInv /\ LateInv

\* The inductive invariant.
IInv == TypeOK /\ ControlInv /\ ReturnInv /\ (Good => Safe)

----------------------------------------------------------------------------
(* Lemmas.                                                                 *)

\* What the assumptions say of the values.
LEMMA Values ==
    /\ None \notin Inode /\ None \notin Content /\ None \notin Name
    /\ None \notin Saves /\ None \notin Edits /\ None # First
    /\ Unseen # None /\ Unseen \notin Content
    /\ \A e \in Edits : e \notin Saves /\ e # First
    /\ Saves \subseteq Inode /\ Edits \subseteq Inode /\ First \in Inode
BY DataStoreAssumption DEF Change, Inode

\* At the beginning there are types, and nothing is in the queue.
LEMMA InitControl == Init => TypeOK /\ ControlInv
<1> SUFFICES ASSUME Init PROVE TypeOK /\ ControlInv
    OBVIOUS
<1>1. content \in [Inode -> Content]
    BY DEF Init, Content, Inode
<1>2. parked \in [Saves -> Name \cup {None}]
    BY DEF Init
<1>3. dest \in Inode \cup {None} /\ editor \in [inode : Inode \cup {None}, seen : SUBSET Change]
    BY Values DEF Init, Closed
<1>4. store \in [changes : SUBSET Change, corrupt : BOOLEAN, snapshot : Content \cup {None, Unseen}]
    BY DEF Init, Unread
<1>5. op = Down /\ op.pc = "down" /\ op.todo = {}
    BY DEF Init, Down
<1>6. troubles \in 0 .. MaxTroubles
    BY DataStoreAssumption DEF Init
<1>7. tried \subseteq Change /\ done = {} /\ forgone = {} /\ late = {} /\ failed = {} /\ kept = {}
    BY Values DEF Init, Inode
<1>8. TypeOK
    BY <1>1, <1>2, <1>3, <1>4, <1>5, <1>6, <1>7 DEF TypeOK, Down
<1>9. ControlInv
    BY <1>5 DEF ControlInv, Down
<1> QED
    BY <1>8, <1>9

\* The kinds of step, and the values op may have.
PC == {"down", "idle", "list", "recover", "compare", "drop", "put back",
       "unlink", "read", "stage", "hold", "check", "link", "retire", "commit"}
OpType == [pc : PC, save : Saves \cup {None}, name : Saves \cup {None},
           todo : SUBSET Saves, whole : BOOLEAN, torn : BOOLEAN]

\* A step to another point of the operation changes nothing else of it.
LEMMA GotoFields ==
    ASSUME op \in OpType, NEW pc \in PC, Goto(pc)
    PROVE  /\ op' \in OpType /\ op'.pc = pc /\ op'.save = op.save
           /\ op'.name = op.name /\ op'.todo = op.todo
BY DEF OpType, Goto

\* The end of an operation leaves nothing of it.
LEMMA OverFields ==
    ASSUME Over
    PROVE  /\ op' \in OpType /\ op'.pc = "idle" /\ op'.save = None
           /\ op'.name = None /\ op'.todo = {}
BY DEF OpType, Over, Down, PC

\* The recovery takes its next name, or reads.
LEMMA NextNameFields ==
    ASSUME op \in OpType, NextName
    PROVE  /\ op' \in OpType /\ op'.save = op.save /\ op'.name = None
           /\ op'.todo = op.todo \ {op.name}
           /\ \/ op'.pc = "read" /\ op'.todo = {}
              \/ op'.pc = "recover" /\ op'.todo # {}
BY DEF OpType, NextName, PC

\* A call works, or fails within the bound.
LEMMA CallFields ==
    ASSUME TypeOK, Works \/ \E kind \in FaultKinds : Fails(kind)
    PROVE  failed' \subseteq Faults /\ troubles' \in 0 .. MaxTroubles
<1>1. failed \subseteq Faults /\ troubles \in 0 .. MaxTroubles
    BY DEF TypeOK
<1>2. CASE Works
    BY <1>1, <1>2 DEF Works
<1>3. CASE \E kind \in FaultKinds : Fails(kind)
    BY <1>1, <1>3, DataStoreAssumption DEF Fails
<1> QED
    BY <1>2, <1>3

\* The types and the queue, over the first load.
LEMMA StartControl ==
    ASSUME TypeOK, ControlInv, Start
    PROVE  TypeOK' /\ ControlInv'
BY Values DEF Start, Goto, TypeOK, ControlInv, disk, history, Closed, Leftover, Held
\* The parts of the types, and a state that has them.
Typed ==
    /\ content \in [Inode -> Content]
    /\ dest \in Inode \cup {None}
    /\ parked \in [Saves -> Name \cup {None}]
    /\ kept \subseteq Inode
    /\ editor \in [inode : Inode \cup {None}, seen : SUBSET Change]
    /\ store \in [changes : SUBSET Change, corrupt : BOOLEAN,
                  snapshot : Content \cup {None, Unseen}]
    /\ op \in OpType
    /\ tried \subseteq Change /\ done \subseteq Saves
    /\ forgone \subseteq Change /\ late \subseteq Edits

\* The values store may have.
StoreType == [changes : SUBSET Change, corrupt : BOOLEAN,
              snapshot : Content \cup {None, Unseen}]

\* A store that has read nothing has its type.
LEMMA UnreadType == Unread \in StoreType
BY DEF Unread, StoreType

\* TypeOK says so of each part.
LEMMA TypeOKTyped == TypeOK => Typed
BY DEF TypeOK, Typed, OpType, PC

\* A name of a publication says these things.
LEMMA NameType ==
    ASSUME Typed, NEW n \in Saves, parked[n] # None
    PROVE  /\ parked[n] \in Name /\ Of(n) \in Inode /\ parked[n].hash \in Content
           /\ parked[n].kind \in {"held", "previous"} /\ parked[n].live \in BOOLEAN
BY DEF Typed, Name, Of

\* The name an operation is at.
LEMMA AtName ==
    ASSUME TypeOK,
           op.pc \in {"compare", "drop", "put back", "unlink", "check", "retire"}
    PROVE  op.name \in Saves /\ parked[op.name] \in Name /\ Of(op.name) \in Inode
<1>1. op.name \in Saves /\ parked[op.name] # None
    BY TypeOKTyped DEF TypeOK, Typed, OpType
<1> QED
    BY <1>1, NameType, TypeOKTyped

\* A restoration goes on with the recovery, or ends the save.
LEMMA ResumesFields ==
    ASSUME op \in OpType, Resumes
    PROVE  /\ op' \in OpType /\ op'.todo = op.todo \ {op.name} /\ op'.name = None
           /\ \/ op'.pc = "idle" /\ op.todo = {} /\ op'.save = None
              \/ op'.pc = "read" /\ op.todo # {} /\ op'.todo = {} /\ op'.save = op.save
              \/ op'.pc = "recover" /\ op'.todo # {} /\ op'.save = op.save
<1>1. CASE op.todo # {}
    BY <1>1, NextNameFields DEF Resumes
<1>2. CASE op.todo = {}
    BY <1>2, OverFields DEF Resumes
<1> QED
    BY <1>1, <1>2

\* The types and the queue, over a reload.
LEMMA ReloadControl ==
    ASSUME TypeOK, ControlInv, Reload
    PROVE  TypeOK' /\ ControlInv'
<1>1. Typed
    BY TypeOKTyped
<1>2. op' \in OpType
    BY <1>1, GotoFields, OverFields, NextNameFields DEF Reload, Typed, PC
<1>3. Typed'
    BY <1>1, <1>2, Values DEF Reload, Typed, disk, history
<1>4. failed' \subseteq Faults /\ troubles' \in 0 .. MaxTroubles
    BY CallFields DEF Reload, FaultKinds, TypeOK
<1>5. op'.pc \in {"compare", "drop", "put back", "unlink", "check", "retire"}
         => op'.name # None /\ parked'[op'.name] # None
    BY <1>1, <1>2, GotoFields, OverFields, NextNameFields, Values
    DEF Reload, Typed, PC, TypeOK, ControlInv, disk, Held, Leftover
<1>6. TypeOK'
    BY <1>3, <1>4, <1>5 DEF TypeOK, Typed, OpType, PC
<1>7. ControlInv'
    BY <1>1, <1>3, <1>5, GotoFields, OverFields, NextNameFields, Values
    DEF Reload, Typed, PC, TypeOK, ControlInv, disk, Held, Leftover
<1> QED
    BY <1>6, <1>7

\* The types and the queue, over a mutation that begins.
LEMMA MutateControl ==
    ASSUME TypeOK, ControlInv, NEW s \in Saves, NEW whole \in BOOLEAN, Mutate(s, whole)
    PROVE  TypeOK' /\ ControlInv'
<1>1. Typed
    BY TypeOKTyped
<1>2. op' \in OpType
    BY <1>1, GotoFields, OverFields, NextNameFields DEF Mutate, Typed, PC, OpType
<1>3. Typed'
    BY <1>1, <1>2, Values DEF Mutate, Typed, Inode, disk, history
<1>4. failed' \subseteq Faults /\ troubles' \in 0 .. MaxTroubles
    BY CallFields DEF Mutate, FaultKinds, TypeOK
<1>5. op'.pc \in {"compare", "drop", "put back", "unlink", "check", "retire"}
         => op'.name # None /\ parked'[op'.name] # None
    BY <1>1, <1>2, GotoFields, OverFields, NextNameFields, Values
    DEF Mutate, Typed, PC, TypeOK, ControlInv, disk, Held, Leftover, OpType
<1>6. TypeOK'
    BY <1>3, <1>4, <1>5 DEF TypeOK, Typed, OpType, PC
<1>7. ControlInv'
    BY <1>1, <1>3, <1>5, GotoFields, OverFields, NextNameFields, Values
    DEF Mutate, Typed, PC, TypeOK, ControlInv, disk, Held, Leftover, OpType
<1> QED
    BY <1>6, <1>7

\* The types and the queue, over the listing of the directory.
LEMMA ListControl ==
    ASSUME TypeOK, ControlInv, List
    PROVE  TypeOK' /\ ControlInv'
<1>1. Typed
    BY TypeOKTyped
<1>2. op' \in OpType
  <2>1. PICK names \in {{n \in Saves : Leftover(n)}, {}} :
            op' = [op EXCEPT !.todo = names,
                             !.pc = IF names = {} THEN "read" ELSE "recover"]
    BY DEF List
  <2>2. names \in SUBSET Saves
    OBVIOUS
  <2> QED
    BY <1>1, <2>1, <2>2 DEF Typed, OpType, PC
<1>3. Typed'
    BY <1>1, <1>2, Values DEF List, Typed, disk, history
<1>4. failed' \subseteq Faults /\ troubles' \in 0 .. MaxTroubles
    BY CallFields DEF List, FaultKinds, TypeOK
<1>5. op'.pc \in {"compare", "drop", "put back", "unlink", "check", "retire"}
         => op'.name # None /\ parked'[op'.name] # None
    BY <1>1, <1>2, GotoFields, OverFields, NextNameFields, Values
    DEF List, Typed, PC, TypeOK, ControlInv, disk, Held, Leftover, OpType
<1>6. TypeOK'
    BY <1>3, <1>4, <1>5 DEF TypeOK, Typed, OpType, PC
<1>7. ControlInv'
  <2>1. PICK names \in {{n \in Saves : Leftover(n)}, {}} :
            op' = [op EXCEPT !.todo = names,
                             !.pc = IF names = {} THEN "read" ELSE "recover"]
    BY DEF List
  <2>2. /\ op'.todo = names /\ op'.save = op.save
        /\ op'.pc = IF names = {} THEN "read" ELSE "recover"
    BY <1>1, <2>1 DEF Typed, OpType
  <2>3. \A n \in names : Leftover(n)
    OBVIOUS
  <2>4. UNCHANGED <<parked, dest, store>>
    BY DEF List, disk
  <2> QED
    BY <2>2, <2>3, <2>4 DEF ControlInv, Leftover
<1> QED
    BY <1>6, <1>7

\* The types and the queue, over the choice of a name.
LEMMA RecoverControl ==
    ASSUME TypeOK, ControlInv, NEW n \in Saves, Recover(n)
    PROVE  TypeOK' /\ ControlInv'
<1>1. Typed
    BY TypeOKTyped
<1>2. op' \in OpType
    BY <1>1, GotoFields, OverFields, NextNameFields DEF Recover, Typed, PC, OpType
<1>3. Typed'
    BY <1>1, <1>2, Values DEF Recover, Typed, disk, history
<1>4. failed' \subseteq Faults /\ troubles' \in 0 .. MaxTroubles
    BY CallFields DEF Recover, FaultKinds, TypeOK
<1>5. op'.pc \in {"compare", "drop", "put back", "unlink", "check", "retire"}
         => op'.name # None /\ parked'[op'.name] # None
    BY <1>1, <1>2, GotoFields, OverFields, NextNameFields, Values
    DEF Recover, Typed, PC, TypeOK, ControlInv, disk, Held, Leftover, OpType
<1>6. TypeOK'
    BY <1>3, <1>4, <1>5 DEF TypeOK, Typed, OpType, PC
<1>7. ControlInv'
    BY <1>1, <1>3, <1>5, GotoFields, OverFields, NextNameFields, Values
    DEF Recover, Typed, PC, TypeOK, ControlInv, disk, Held, Leftover, OpType
<1> QED
    BY <1>6, <1>7

\* The types and the queue, over the comparison of a name with its hash.
LEMMA CompareControl ==
    ASSUME TypeOK, ControlInv, Compare
    PROVE  TypeOK' /\ ControlInv'
<1>1. Typed
    BY TypeOKTyped
<1>2. op' \in OpType
    BY <1>1, GotoFields, OverFields, NextNameFields DEF Compare, Typed, PC
<1>3. Typed'
  <2>1. op.name \in Saves /\ Of(op.name) \in Inode
    BY AtName DEF Compare
  <2>2. parked' \in [Saves -> Name \cup {None}]
    BY <1>1, <2>1 DEF Compare, Typed
  <2>3. kept' \subseteq Inode
    BY <1>1, <2>1 DEF Compare, Typed, Of
  <2> QED
    BY <1>1, <1>2, <2>2, <2>3 DEF Compare, Typed, history
<1>4. failed' \subseteq Faults /\ troubles' \in 0 .. MaxTroubles
    BY CallFields DEF Compare, FaultKinds, TypeOK
<1>5. op'.pc \in {"compare", "drop", "put back", "unlink", "check", "retire"}
         => op'.name # None /\ parked'[op'.name] # None
    BY <1>1, <1>2, GotoFields, OverFields, NextNameFields, Values
    DEF Compare, Typed, PC, TypeOK, ControlInv, disk, Held, Leftover
<1>6. TypeOK'
    BY <1>3, <1>4, <1>5 DEF TypeOK, Typed, OpType, PC
<1>7. ControlInv'
    BY <1>1, <1>3, <1>5, GotoFields, OverFields, NextNameFields, Values
    DEF Compare, Typed, PC, TypeOK, ControlInv, disk, Held, Leftover
<1> QED
    BY <1>6, <1>7

\* The types and the queue, over the removal of a name.
LEMMA DropControl ==
    ASSUME TypeOK, ControlInv, Drop
    PROVE  TypeOK' /\ ControlInv'
<1>1. Typed
    BY TypeOKTyped
<1>2. op' \in OpType
    BY <1>1, GotoFields, OverFields, NextNameFields DEF Drop, Typed, PC
<1>3. Typed'
    BY <1>1, <1>2, Values DEF Drop, Typed, disk, history
<1>4. failed' \subseteq Faults /\ troubles' \in 0 .. MaxTroubles
    BY CallFields DEF Drop, FaultKinds, TypeOK
<1>5. op'.pc \in {"compare", "drop", "put back", "unlink", "check", "retire"}
         => op'.name # None /\ parked'[op'.name] # None
    BY <1>1, <1>2, GotoFields, OverFields, NextNameFields, Values
    DEF Drop, Typed, PC, TypeOK, ControlInv, disk, Held, Leftover
<1>6. TypeOK'
    BY <1>3, <1>4, <1>5 DEF TypeOK, Typed, OpType, PC
<1>7. ControlInv'
    BY <1>1, <1>3, <1>5, GotoFields, OverFields, NextNameFields, Values
    DEF Drop, Typed, PC, TypeOK, ControlInv, disk, Held, Leftover
<1> QED
    BY <1>6, <1>7

\* What a restoration does: it links the file and goes on, finds another one
\* and keeps the file beside it, or gives up and leaves it at its held name.
LEMMA PutBackEffect ==
    ASSUME TypeOK, ControlInv, PutBack
    PROVE  /\ op.name \in Saves /\ Of(op.name) \in Inode /\ Held(op.name)
           /\ op.todo # {} => op.name \in op.todo
           /\ op' \in OpType
           /\ \/ /\ dest = None /\ dest' = Of(op.name) /\ UNCHANGED <<parked, kept, store>>
                 /\ op'.pc = "unlink" /\ op'.name = op.name /\ op'.save = op.save
                 /\ op'.todo = op.todo
              \/ /\ dest # None /\ UNCHANGED <<dest, store>>
                 /\ parked' = [parked EXCEPT ![op.name] = None]
                 /\ kept' = kept \cup {Of(op.name)}
                 /\ op'.todo = op.todo \ {op.name} /\ op'.name = None
                 /\ \/ op'.pc = "idle" /\ op.todo = {} /\ op'.save = None
                    \/ op'.pc = "read" /\ op.todo # {} /\ op'.todo = {} /\ op'.save = op.save
                    \/ op'.pc = "recover" /\ op'.todo # {} /\ op'.save = op.save
              \/ /\ UNCHANGED <<dest, kept>> /\ store' \in {store, Unread}
                 /\ parked' = [parked EXCEPT ![op.name] = [parked[op.name] EXCEPT !.live = FALSE]]
                 /\ op'.pc = "idle" /\ op'.save = None /\ op'.name = None /\ op'.todo = {}
<1>1. op \in OpType
    BY TypeOKTyped DEF Typed
<1>2. /\ op.name \in Saves /\ Of(op.name) \in Inode /\ Held(op.name)
      /\ op.todo # {} => op.name \in op.todo
    BY AtName DEF PutBack, ControlInv
<1>3. CASE Goto("unlink") /\ dest = None /\ dest' = Of(op.name) /\ UNCHANGED <<parked, kept, store>>
    BY <1>1, <1>2, <1>3, GotoFields DEF PC
<1>4. CASE /\ Resumes /\ dest # None /\ UNCHANGED <<dest, store>>
           /\ parked' = [parked EXCEPT ![op.name] = None]
           /\ kept' = kept \cup {Of(op.name)}
    BY <1>1, <1>2, <1>4, ResumesFields
<1>5. CASE /\ Over /\ UNCHANGED <<dest, kept>> /\ store' \in {store, Unread}
           /\ parked' = [parked EXCEPT ![op.name].live = FALSE]
    BY <1>2, <1>5, OverFields
<1> QED
    BY <1>3, <1>4, <1>5 DEF PutBack, Of

\* The types and the queue, over a restoration.
LEMMA PutBackControl ==
    ASSUME TypeOK, ControlInv, PutBack
    PROVE  TypeOK' /\ ControlInv'
<1>1. Typed
    BY TypeOKTyped
<1>2. /\ op.name \in Saves /\ Of(op.name) \in Inode /\ Held(op.name)
      /\ parked[op.name] \in Name /\ op' \in OpType
    BY PutBackEffect, NameType, <1>1 DEF Held
<1>3. [parked[op.name] EXCEPT !.live = FALSE] \in Name
    BY <1>2 DEF Name
<1>4. Typed'
  <2>1. parked' \in [Saves -> Name \cup {None}]
    BY <1>1, <1>2, <1>3, PutBackEffect DEF Typed
  <2>2. kept' \subseteq Inode /\ dest' \in Inode \cup {None}
    BY <1>1, <1>2, PutBackEffect DEF Typed
  <2>3. store' \in StoreType
    BY <1>1, PutBackEffect, UnreadType DEF Typed, StoreType
  <2>4. UNCHANGED <<content, editor, tried, done, forgone, late>>
    BY DEF PutBack, history
  <2> QED
    BY <1>1, <1>2, <2>1, <2>2, <2>3, <2>4 DEF Typed, StoreType
<1>5. failed' \subseteq Faults /\ troubles' \in 0 .. MaxTroubles
    BY CallFields DEF PutBack, FaultKinds
<1>6. op'.pc \in {"unlink", "idle", "read", "recover"}
    BY PutBackEffect
<1>7. op'.pc = "unlink" => op'.name = op.name /\ UNCHANGED parked
    BY PutBackEffect
<1>8. TypeOK'
    BY <1>2, <1>4, <1>5, <1>6, <1>7, Values DEF TypeOK, Typed, OpType, PC, Held
<1>9. ControlInv'
  <2>1. \A n \in op'.todo : Leftover(n)'
    <3>1. \A n \in op.todo : n \in Saves /\ Leftover(n)
      BY <1>1 DEF Typed, OpType, ControlInv
    <3>2. op'.todo \subseteq op.todo
      BY PutBackEffect
    <3>3. \A n \in op'.todo : parked'[n] = parked[n]
      BY <1>1, <3>1, PutBackEffect DEF Typed
    <3> QED
      BY <3>1, <3>2, <3>3 DEF Leftover
  <2>2. CASE op'.pc = "unlink"
    <3>1. /\ dest' = Of(op.name) /\ UNCHANGED parked /\ op'.name = op.name
          /\ op'.todo = op.todo /\ op'.save = op.save
      BY <2>2, PutBackEffect
    <3>2. op.todo = {} => op.name = op.save
      BY DEF ControlInv, PutBack
    <3> QED
      BY <1>2, <2>1, <2>2, <3>1, <3>2, PutBackEffect, Values DEF ControlInv, Held
  <2>3. CASE op'.pc = "idle" /\ op'.save = None /\ op'.todo = {}
    BY <2>3 DEF ControlInv
  <2>4. CASE op'.pc = "read" /\ op'.todo = {}
    BY <2>4 DEF ControlInv
  <2>5. CASE op'.pc = "recover" /\ op'.todo # {}
    BY <2>1, <2>5 DEF ControlInv
  <2> QED
    BY <2>2, <2>3, <2>4, <2>5, PutBackEffect
<1> QED
    BY <1>8, <1>9

\* The types and the queue, over the end of a restoration.
LEMMA UnlinkControl ==
    ASSUME TypeOK, ControlInv, Unlink
    PROVE  TypeOK' /\ ControlInv'
<1>1. Typed
    BY TypeOKTyped
<1>2. op' \in OpType
    BY <1>1, GotoFields, OverFields, NextNameFields DEF Unlink, Typed, PC, Resumes
<1>3. Typed'
  <2>1. op.name \in Saves /\ Of(op.name) \in Inode
    BY AtName DEF Unlink
  <2>2. parked' \in [Saves -> Name \cup {None}]
    BY <1>1, <2>1 DEF Unlink, Typed
  <2>3. kept' \subseteq Inode
    BY <1>1, <2>1 DEF Unlink, Typed, Of
  <2> QED
    BY <1>1, <1>2, <2>2, <2>3 DEF Unlink, Typed, history
<1>4. failed' \subseteq Faults /\ troubles' \in 0 .. MaxTroubles
    BY CallFields DEF Unlink, FaultKinds, TypeOK
<1>5. op'.pc \in {"compare", "drop", "put back", "unlink", "check", "retire"}
         => op'.name # None /\ parked'[op'.name] # None
    BY <1>1, <1>2, GotoFields, OverFields, NextNameFields, Values
    DEF Unlink, Typed, PC, TypeOK, ControlInv, disk, Held, Leftover, Resumes
<1>6. TypeOK'
    BY <1>3, <1>4, <1>5 DEF TypeOK, Typed, OpType, PC
<1>7. ControlInv'
    BY <1>1, <1>3, <1>5, GotoFields, OverFields, NextNameFields, Values
    DEF Unlink, Typed, PC, TypeOK, ControlInv, disk, Held, Leftover, Resumes
<1> QED
    BY <1>6, <1>7

\* The types and the queue, over the read of a load.
LEMMA ReadControl ==
    ASSUME TypeOK, ControlInv, Read
    PROVE  TypeOK' /\ ControlInv'
<1>1. Typed
    BY TypeOKTyped
<1>2. op' \in OpType
    BY <1>1, GotoFields, OverFields, NextNameFields DEF Read, Typed, PC
<1>3. Typed'
  <2>1. dest # None => content[dest] \in Content
    BY <1>1 DEF Typed
  <2>2. \/ store' = [changes |-> {}, snapshot |-> None, corrupt |-> FALSE]
        \/ dest # None /\ store' = [changes |-> IF content[dest].ok THEN content[dest].changes ELSE {},
                       snapshot |-> content[dest], corrupt |-> ~content[dest].ok]
        \/ store' = Unread
    BY DEF Read
  <2>3. ASSUME NEW c \in Content
        PROVE  [changes |-> IF c.ok THEN c.changes ELSE {}, snapshot |-> c, corrupt |-> ~c.ok] \in StoreType
    BY DEF Content, StoreType
  <2>4. [changes |-> {}, snapshot |-> None, corrupt |-> FALSE] \in StoreType
    BY DEF StoreType
  <2>5. store' \in StoreType
    BY <2>1, <2>2, <2>3, <2>4, UnreadType
  <2> QED
    BY <1>1, <1>2, <2>5 DEF Read, Typed, StoreType, disk, history
<1>4. failed' \subseteq Faults /\ troubles' \in 0 .. MaxTroubles
    BY CallFields DEF Read, FaultKinds, TypeOK
<1>5. op'.pc \in {"compare", "drop", "put back", "unlink", "check", "retire"}
         => op'.name # None /\ parked'[op'.name] # None
    BY <1>1, <1>2, GotoFields, OverFields, NextNameFields, Values
    DEF Read, Typed, PC, TypeOK, ControlInv, disk, Held, Leftover
<1>6. TypeOK'
    BY <1>3, <1>4, <1>5 DEF TypeOK, Typed, OpType, PC
<1>7. ControlInv'
  <2>1. op'.pc = "stage" => op'.save = op.save /\ op.save # None /\ store'.snapshot # Unseen
    <3>1. op'.pc = "stage" => MayWrite /\ Goto("stage")
      BY OverFields DEF Read
    <3>2. MayWrite => store'.snapshot # Unseen
      <4>1. dest # None => content[dest] # Unseen
        BY <1>1, Values DEF Typed
      <4> QED
        BY <4>1, Values DEF Read, MayWrite, Unread
    <3> QED
      BY <1>1, <3>1, <3>2, GotoFields DEF Typed, PC, MayWrite
  <2>2. \/ op'.pc = "stage" /\ op'.todo = op.todo
        \/ op'.pc = "idle" /\ op'.todo = {} /\ op'.save = None
    BY <1>1, GotoFields, OverFields DEF Read, Typed, PC
  <2>3. op.todo = {}
    BY DEF Read, ControlInv
  <2> QED
    BY <2>1, <2>2, <2>3 DEF ControlInv
<1> QED
    BY <1>6, <1>7

\* The types and the queue, over the write of a new file.
LEMMA StageControl ==
    ASSUME TypeOK, ControlInv, Stage
    PROVE  TypeOK' /\ ControlInv'
<1>1. Typed
    BY TypeOKTyped
<1>2. op' \in OpType
    BY <1>1, GotoFields, OverFields, NextNameFields DEF Stage, Typed, PC
<1>3. Typed'
  <2>1. op.save \in Inode
    BY <1>1, Values DEF Typed, OpType, Stage, ControlInv
  <2>2. [changes |-> store.changes \cup {op.save}, ok |-> TRUE] \in Content
    BY <1>1, <2>1 DEF Typed, Content, Inode
  <2>3. content' \in [Inode -> Content]
    BY <1>1, <2>1, <2>2 DEF Typed, Stage
  <2> QED
    BY <1>1, <1>2, <2>3 DEF Stage, Typed, history
<1>4. failed' \subseteq Faults /\ troubles' \in 0 .. MaxTroubles
    BY CallFields DEF Stage, FaultKinds, TypeOK
<1>5. op'.pc \in {"compare", "drop", "put back", "unlink", "check", "retire"}
         => op'.name # None /\ parked'[op'.name] # None
    BY <1>1, <1>2, GotoFields, OverFields, NextNameFields, Values
    DEF Stage, Typed, PC, TypeOK, ControlInv, disk, Held, Leftover
<1>6. TypeOK'
    BY <1>3, <1>4, <1>5 DEF TypeOK, Typed, OpType, PC
<1>7. ControlInv'
    BY <1>1, <1>3, <1>5, GotoFields, OverFields, NextNameFields, Values
    DEF Stage, Typed, PC, TypeOK, ControlInv, disk, Held, Leftover
<1> QED
    BY <1>6, <1>7

\* What a save does when it takes the file from its path, or finds none.
LEMMA HoldEffect ==
    ASSUME TypeOK, ControlInv, Hold
    PROVE  /\ op.save \in Saves /\ store.snapshot \in Content
           /\ op' \in OpType /\ op'.todo = {}
           /\ \/ /\ dest # None /\ dest' = None
                 /\ op'.pc = "check" /\ op'.name = op.save /\ op'.save = op.save
                 /\ parked' = [parked EXCEPT ![op.save] =
                       [inode |-> dest, hash |-> store.snapshot, kind |-> "held", live |-> TRUE]]
              \/ UNCHANGED <<dest, parked>> /\ op'.pc = "idle" /\ op'.save = None
<1>1. op \in OpType
    BY TypeOKTyped DEF Typed
<1>2. op.save \in Saves /\ store.snapshot \in Content /\ op.todo = {}
    BY TypeOKTyped DEF Typed, OpType, Hold, ControlInv
<1>3. CASE Over /\ UNCHANGED <<dest, parked>>
    BY <1>2, <1>3, OverFields
<1>4. CASE /\ dest # None /\ dest' = None
           /\ parked' = [parked EXCEPT ![op.save] =
                 [inode |-> dest, hash |-> store.snapshot, kind |-> "held", live |-> TRUE]]
           /\ op' = [op EXCEPT !.pc = "check", !.name = op.save]
  <2>1. op' \in OpType
    BY <1>1, <1>2, <1>4 DEF OpType, PC
  <2>2. op'.pc = "check" /\ op'.name = op.save /\ op'.save = op.save /\ op'.todo = op.todo
    BY <1>1, <1>4 DEF OpType
  <2> QED
    BY <1>2, <1>4, <2>1, <2>2
<1> QED
    BY <1>3, <1>4 DEF Hold

\* The types and the queue, over the taking of the document.
LEMMA HoldControl ==
    ASSUME TypeOK, ControlInv, Hold
    PROVE  TypeOK' /\ ControlInv'
<1>1. Typed
    BY TypeOKTyped
<1>2. op.save \in Saves /\ store.snapshot \in Content /\ op' \in OpType
    BY HoldEffect
<1> DEFINE new == [inode |-> dest, hash |-> store.snapshot, kind |-> "held", live |-> TRUE]
<1>3. ASSUME dest # None PROVE new \in Name /\ new # None /\ new.kind = "held"
  <2>1. dest \in Inode
    BY <1>1, <1>3 DEF Typed
  <2>2. new \in Name
    BY <1>2, <2>1 DEF Name
  <2> QED
    BY <2>2, Values
<1>4. Typed'
  <2>1. parked' \in [Saves -> Name \cup {None}]
    BY <1>1, <1>2, <1>3, HoldEffect DEF Typed
  <2>2. dest' \in {dest, None} /\ UNCHANGED <<content, kept, editor, store, tried, done, forgone, late>>
    BY HoldEffect DEF Hold, history
  <2> QED
    BY <1>1, <1>2, <2>1, <2>2 DEF Typed
<1>5. failed' \subseteq Faults /\ troubles' \in 0 .. MaxTroubles
    BY CallFields DEF Hold, FaultKinds
<1>6. \/ op'.pc = "idle" /\ op'.save = None
      \/ /\ op'.pc = "check" /\ op'.name = op.save /\ op'.save = op.save
         /\ parked'[op.save] = new /\ dest # None
    BY <1>1, <1>2, HoldEffect DEF Typed
<1>7. op.save # None /\ op'.todo = {} /\ UNCHANGED store
      /\ store.snapshot # None /\ store.snapshot # Unseen
    BY <1>2, HoldEffect, Values DEF Hold
<1> HIDE DEF new
<1>8. TypeOK'
    BY <1>3, <1>4, <1>5, <1>6, <1>7 DEF TypeOK, Typed, OpType, PC
<1>9. ControlInv'
    BY <1>3, <1>6, <1>7 DEF ControlInv, Held
<1> QED
    BY <1>8, <1>9

\* The types and the queue, over the second look at the document.
LEMMA CheckControl ==
    ASSUME TypeOK, ControlInv, Check
    PROVE  TypeOK' /\ ControlInv'
<1>1. Typed
    BY TypeOKTyped
<1>2. op' \in OpType
    BY <1>1, GotoFields, OverFields, NextNameFields DEF Check, Typed, PC
<1>3. Typed'
    BY <1>1, <1>2, Values DEF Check, Typed, disk, history
<1>4. failed' \subseteq Faults /\ troubles' \in 0 .. MaxTroubles
    BY CallFields DEF Check, FaultKinds, TypeOK
<1>5. op'.pc \in {"compare", "drop", "put back", "unlink", "check", "retire"}
         => op'.name # None /\ parked'[op'.name] # None
    BY <1>1, <1>2, GotoFields, OverFields, NextNameFields, Values
    DEF Check, Typed, PC, TypeOK, ControlInv, disk, Held, Leftover
<1>6. TypeOK'
    BY <1>3, <1>4, <1>5 DEF TypeOK, Typed, OpType, PC
<1>7. ControlInv'
    BY <1>1, <1>3, <1>5, GotoFields, OverFields, NextNameFields, Values
    DEF Check, Typed, PC, TypeOK, ControlInv, disk, Held, Leftover
<1> QED
    BY <1>6, <1>7

\* What a publication does: it makes the new file the document, or leaves
\* the path alone and restores what was held.
LEMMA LinkEffect ==
    ASSUME TypeOK, ControlInv, Link
    PROVE  /\ op.save \in Saves /\ op' \in OpType /\ op.todo = {} /\ op'.todo = {}
           /\ UNCHANGED <<parked, store>>
           /\ store.snapshot # None => op.name = op.save /\ Held(op.save)
           /\ \/ dest' = dest /\ op'.pc = "idle" /\ op'.save = None /\ store.snapshot = None
              \/ /\ dest' = dest /\ op'.pc = "put back" /\ store.snapshot # None
                 /\ op'.save = op.save /\ op'.name = op.name
              \/ /\ dest = None /\ dest' = op.save /\ op'.pc = Published
                 /\ op'.save = op.save /\ op'.name = op.name
<1>1. op \in OpType /\ op.save \in Saves
    BY TypeOKTyped DEF Typed, OpType, Link, ControlInv
<1>2. /\ UNCHANGED <<parked, store>> /\ op.todo = {}
      /\ store.snapshot # None => op.name = op.save /\ Held(op.save)
    BY DEF Link, ControlInv
<1>3. CASE Refused /\ dest' = dest
  <2>1. CASE store.snapshot = None
    BY <1>1, <1>2, <1>3, <2>1, OverFields DEF Refused
  <2>2. CASE store.snapshot # None
    BY <1>1, <1>2, <1>3, <2>2, GotoFields DEF Refused, PC
  <2> QED
    BY <2>1, <2>2
<1>4. CASE Goto(Published) /\ dest = None /\ dest' = op.save
    BY <1>1, <1>2, <1>4, GotoFields DEF Published, PC
<1>5. CASE op' = [op EXCEPT !.pc = Published, !.torn = TRUE] /\ dest = None /\ dest' = op.save
  <2>1. op'.pc = Published /\ op'.save = op.save /\ op'.name = op.name /\ op'.todo = op.todo
    BY <1>1, <1>5 DEF OpType
  <2>2. Published \in PC
    BY DEF Published, PC
  <2>3. op' \in OpType
    BY <1>1, <1>5, <2>2 DEF OpType
  <2> QED
    BY <1>1, <1>2, <1>5, <2>1, <2>3
<1> QED
    BY <1>3, <1>4, <1>5 DEF Link

\* The types and the queue, over a publication.
LEMMA LinkControl ==
    ASSUME TypeOK, ControlInv, Link
    PROVE  TypeOK' /\ ControlInv'
<1>1. Typed
    BY TypeOKTyped
<1>2. op.save \in Inode /\ dest' \in {dest, op.save} /\ op' \in OpType
    BY LinkEffect, Values
<1>3. Typed'
    BY <1>1, <1>2 DEF Link, Typed, history
<1>4. failed' \subseteq Faults /\ troubles' \in 0 .. MaxTroubles
    BY CallFields DEF Link, FaultKinds
<1>5. op'.pc \in {"idle", "put back", "retire", "commit"}
    BY LinkEffect DEF Published
<1>6. /\ op'.pc \in {"retire", "put back"} => op'.name = op.save /\ op'.save = op.save /\ Held(op.save)
      /\ op'.pc \in {"retire", "commit"} => dest' = op.save /\ op'.save = op.save
      /\ op'.pc = "retire" => store.snapshot # None
      /\ op'.pc = "idle" => op'.save = None
    BY LinkEffect DEF Published
<1>7. op.save # None /\ op'.todo = {} /\ UNCHANGED <<parked, store>>
    BY LinkEffect, Values
<1>8. TypeOK'
    BY <1>3, <1>4, <1>5, <1>6, <1>7 DEF TypeOK, Typed, OpType, PC, Held
<1>9. ControlInv'
    BY <1>5, <1>6, <1>7 DEF ControlInv, Held
<1> QED
    BY <1>8, <1>9

\* The types and the queue, over the retirement of the old file.
LEMMA RetireControl ==
    ASSUME TypeOK, ControlInv, Retire
    PROVE  TypeOK' /\ ControlInv'
<1>1. Typed
    BY TypeOKTyped
<1>2. op' \in OpType
    BY <1>1, GotoFields, OverFields, NextNameFields DEF Retire, Typed, PC
<1>3. Typed'
  <2>1. op.save = op.name
    BY DEF Retire, ControlInv
  <2>2. op.save \in Saves /\ parked[op.save] \in Name
    BY <2>1, AtName DEF Retire
  <2>3. [parked[op.save] EXCEPT !.kind = "previous"] \in Name
    BY <2>2 DEF Name
  <2>4. parked' \in [Saves -> Name \cup {None}]
    BY <1>1, <2>2, <2>3 DEF Typed, Retire
  <2> QED
    BY <1>1, <1>2, <2>4 DEF Retire, Typed, history
<1>4. failed' \subseteq Faults /\ troubles' \in 0 .. MaxTroubles
    BY CallFields DEF Retire, FaultKinds, TypeOK
<1>5. op'.pc \in {"compare", "drop", "put back", "unlink", "check", "retire"}
         => op'.name # None /\ parked'[op'.name] # None
    BY <1>1, <1>2, GotoFields, OverFields, NextNameFields, Values
    DEF Retire, Typed, PC, TypeOK, ControlInv, disk, Held, Leftover
<1>6. TypeOK'
    BY <1>3, <1>4, <1>5 DEF TypeOK, Typed, OpType, PC
<1>7. ControlInv'
    BY <1>1, <1>3, <1>5, GotoFields, OverFields, NextNameFields, Values
    DEF Retire, Typed, PC, TypeOK, ControlInv, disk, Held, Leftover
<1> QED
    BY <1>6, <1>7

\* The types and the queue, over the end of a save.
LEMMA CommitControl ==
    ASSUME TypeOK, ControlInv, Commit
    PROVE  TypeOK' /\ ControlInv'
<1>1. Typed
    BY TypeOKTyped
<1>2. op' \in OpType
    BY <1>1, GotoFields, OverFields, NextNameFields DEF Commit, Typed, PC
<1>3. Typed'
  <2>1. op.save \in Saves
    BY <1>1, Values DEF Typed, OpType, Commit, ControlInv
  <2>2. content[op.save] \in Content /\ content[op.save].changes \subseteq Change
    BY <1>1, <2>1, Values DEF Typed, Content
  <2>3. [changes |-> content[op.save].changes, snapshot |-> content[op.save],
         corrupt |-> FALSE] \in StoreType
    BY <2>2 DEF StoreType
  <2>4. store' \in StoreType /\ done' \subseteq Saves
    BY <1>1, <2>1, <2>3 DEF Commit, Typed, StoreType
  <2> QED
    BY <1>1, <1>2, <2>4 DEF Commit, Typed, StoreType, disk
<1>4. failed' \subseteq Faults /\ troubles' \in 0 .. MaxTroubles
    BY CallFields DEF Commit, FaultKinds, TypeOK
<1>5. op'.pc \in {"compare", "drop", "put back", "unlink", "check", "retire"}
         => op'.name # None /\ parked'[op'.name] # None
    BY <1>1, <1>2, GotoFields, OverFields, NextNameFields, Values
    DEF Commit, Typed, PC, TypeOK, ControlInv, disk, Held, Leftover
<1>6. TypeOK'
    BY <1>3, <1>4, <1>5 DEF TypeOK, Typed, OpType, PC
<1>7. ControlInv'
    BY <1>1, <1>3, <1>5, GotoFields, OverFields, NextNameFields, Values
    DEF Commit, Typed, PC, TypeOK, ControlInv, disk, Held, Leftover
<1> QED
    BY <1>6, <1>7

\* The types and the queue, over a crash.
LEMMA CrashControl ==
    ASSUME TypeOK, ControlInv, Crash
    PROVE  TypeOK' /\ ControlInv'
<1>1. Typed
    BY TypeOKTyped
<1>2. op' \in OpType
    BY <1>1, GotoFields, OverFields, NextNameFields DEF Crash, Typed, PC, OpType, Down
<1>3. Typed'
  <2>1. ASSUME NEW n \in Saves, parked[n] # None
        PROVE  [parked[n] EXCEPT !.live = FALSE] \in Name
    <3>1. parked[n] \in Name
      BY <1>1, <2>1, NameType
    <3> QED
      BY <3>1 DEF Name
  <2>2. parked' \in [Saves -> Name \cup {None}]
    BY <2>1 DEF Crash
  <2>3. store' \in StoreType
    BY UnreadType DEF Crash
  <2> QED
    BY <1>1, <1>2, <2>2, <2>3 DEF Crash, Typed, StoreType, history
<1>4. failed' \subseteq Faults /\ troubles' \in 0 .. MaxTroubles
  <2>1. failed \subseteq Faults /\ troubles \in 0 .. MaxTroubles
    BY DEF TypeOK
  <2>2. failed' = failed /\ troubles' = troubles + 1 /\ troubles < MaxTroubles
    BY DEF Crash
  <2> QED
    BY <2>1, <2>2, DataStoreAssumption
<1>5. op'.pc \in {"compare", "drop", "put back", "unlink", "check", "retire"}
         => op'.name # None /\ parked'[op'.name] # None
    BY <1>1, <1>2, GotoFields, OverFields, NextNameFields, Values
    DEF Crash, Typed, PC, TypeOK, ControlInv, disk, Held, Leftover, OpType, Down
<1>6. TypeOK'
    BY <1>3, <1>4, <1>5 DEF TypeOK, Typed, OpType, PC
<1>7. ControlInv'
    BY <1>1, <1>3, <1>5, GotoFields, OverFields, NextNameFields, Values
    DEF Crash, Typed, PC, TypeOK, ControlInv, disk, Held, Leftover, OpType, Down
<1> QED
    BY <1>6, <1>7

\* The types and the queue, over an editor that opens the document.
LEMMA OpenControl ==
    ASSUME TypeOK, ControlInv, Open
    PROVE  TypeOK' /\ ControlInv'
<1>1. Typed
    BY TypeOKTyped
<1>2. op' \in OpType
    BY <1>1, GotoFields, OverFields, NextNameFields DEF Open, Typed, PC
<1>3. Typed'
    BY <1>1, <1>2, Values DEF Open, Typed, disk, history, Content
<1>4. failed' \subseteq Faults /\ troubles' \in 0 .. MaxTroubles
    BY CallFields DEF Open, FaultKinds, TypeOK
<1>5. op'.pc \in {"compare", "drop", "put back", "unlink", "check", "retire"}
         => op'.name # None /\ parked'[op'.name] # None
    BY <1>1, <1>2, GotoFields, OverFields, NextNameFields, Values
    DEF Open, Typed, PC, TypeOK, ControlInv, disk, Held, Leftover
<1>6. TypeOK'
    BY <1>3, <1>4, <1>5 DEF TypeOK, Typed, OpType, PC
<1>7. ControlInv'
    BY <1>1, <1>3, <1>5, GotoFields, OverFields, NextNameFields, Values
    DEF Open, Typed, PC, TypeOK, ControlInv, disk, Held, Leftover
<1> QED
    BY <1>6, <1>7

\* The types and the queue, over a write of the editor.
LEMMA WriteControl ==
    ASSUME TypeOK, ControlInv, NEW e \in Edits, Write(e)
    PROVE  TypeOK' /\ ControlInv'
<1>1. Typed
    BY TypeOKTyped
<1>2. op' \in OpType
    BY <1>1, GotoFields, OverFields, NextNameFields DEF Write, Typed, PC
<1>3. Typed'
  <2>1. PICK ok \in BOOLEAN, file \in {editor.inode, dest, e} \ {None} :
          LET new == [changes |-> editor.seen \cup {e}, ok |-> ok]
              old == IF file = e THEN Document ELSE file
          IN /\ content' = [content EXCEPT ![file] = new]
             /\ dest' = IF file = e THEN e ELSE dest
             /\ editor' = [inode |-> file, seen |-> new.changes]
             /\ forgone' = forgone \cup
                  (IF old = None THEN {} ELSE content[old].changes \ new.changes)
             /\ late' = IF file \in {dest, e} THEN late ELSE late \cup {e}
    BY DEF Write
  <2> DEFINE new == [changes |-> editor.seen \cup {e}, ok |-> ok]
             old == IF file = e THEN Document ELSE file
  <2>2. file \in Inode /\ e \in Inode
    BY <1>1, Values DEF Typed
  <2>3. new \in Content /\ new.changes \subseteq Change
    BY <1>1, <2>2 DEF Typed, Content, Inode
  <2>4. content' \in [Inode -> Content] /\ dest' \in Inode \cup {None}
        /\ editor' \in [inode : Inode \cup {None}, seen : SUBSET Change]
    BY <1>1, <2>1, <2>2, <2>3 DEF Typed
  <2>5. old \in Inode \cup {None}
    <3>1. ASSUME NEW n \in Saves, Held(n) PROVE parked[n].inode \in Inode
      BY <1>1, <3>1, NameType DEF Held, Of
    <3>2. Document \in Inode \cup {None}
      BY <1>1, <3>1 DEF Document, Typed
    <3> QED
      BY <2>2, <3>2
  <2>6. old # None => content[old].changes \subseteq Change
    BY <1>1, <2>5 DEF Typed, Content
  <2>7. forgone' \subseteq Change /\ late' \subseteq Edits
    BY <1>1, <2>1, <2>6 DEF Typed
  <2>8. tried' \subseteq Change /\ UNCHANGED <<parked, kept, store, done>>
    BY <1>1, <2>2 DEF Typed, Inode, Write
  <2> QED
    BY <1>1, <1>2, <2>4, <2>7, <2>8 DEF Typed
<1>4. failed' \subseteq Faults /\ troubles' \in 0 .. MaxTroubles
    BY CallFields DEF Write, FaultKinds, TypeOK
<1>5. op'.pc \in {"compare", "drop", "put back", "unlink", "check", "retire"}
         => op'.name # None /\ parked'[op'.name] # None
    BY <1>1, <1>2, GotoFields, OverFields, NextNameFields, Values
    DEF Write, Typed, PC, TypeOK, ControlInv, disk, Held, Leftover
<1>6. TypeOK'
    BY <1>3, <1>4, <1>5 DEF TypeOK, Typed, OpType, PC
<1>7. ControlInv'
    BY <1>1, <1>3, <1>5, GotoFields, OverFields, NextNameFields, Values
    DEF Write, Typed, PC, TypeOK, ControlInv, disk, Held, Leftover
<1> QED
    BY <1>6, <1>7

----------------------------------------------------------------------------
(* What a step keeps of the document and of the names.                     *)

\* Files, names and the writings of the editor decide which change stands.
LEMMA SameStanding ==
    ASSUME UNCHANGED <<content, dest, parked, forgone>>
    PROVE  \A x \in Change : Stands(x)' <=> Stands(x)
BY DEF Stands, Held, Of

\* A step that writes no file and no history keeps what is said of them.
LEMMA QuietSafe ==
    ASSUME Safe, UNCHANGED <<disk, history>>
    PROVE  EmptyInv' /\ StandInv' /\ LateInv'
<1>1. UNCHANGED <<content, dest, parked, kept, tried, done, forgone, late>>
    BY DEF disk, history
<1>2. EmptyInv'
    BY <1>1 DEF Safe, EmptyInv, Held
<1>3. StandInv'
    BY <1>1, SameStanding DEF Safe, StandInv, Standing
<1>4. LateInv'
    BY <1>1 DEF Safe, LateInv, Named, Of
<1> QED
    BY <1>2, <1>3, <1>4

\* A reload touches no file.
LEMMA ReloadSafe ==
    ASSUME TypeOK, ControlInv, Safe, Reload
    PROVE  Safe'
<1>1. /\ op'.pc = "list" /\ op'.save = None /\ op'.name = op.name /\ op'.todo = {}
      /\ UNCHANGED <<content, dest, parked, kept, editor, store, tried, done, forgone, late>>
    BY TypeOKTyped, GotoFields DEF Reload, Typed, PC, ControlInv, disk, history
<1>2. EmptyInv' /\ StandInv' /\ LateInv'
    BY QuietSafe DEF Reload
<1>3. FreshInv'
    BY <1>1, Values DEF Safe, FreshInv, New, Named, Of
<1>4. HeldInv'
    BY <1>1 DEF Safe, HeldInv, Held, Leftover, Reload, Held_pc
<1>5. SnapInv' /\ DropInv'
    BY <1>1 DEF SnapInv, DropInv
<1>6. EditorInv'
    BY <1>1 DEF Safe, EditorInv, Named, Held, Leftover, Of, Reload, Held_pc
<1> QED
    BY <1>2, <1>3, <1>4, <1>5, <1>6 DEF Safe

\* A start touches no file, and the editor has closed its own.
LEMMA StartSafe ==
    ASSUME TypeOK, ControlInv, Safe, Start
    PROVE  Safe'
<1>1. /\ op'.pc = "list" /\ op'.save = None /\ op'.name = op.name /\ op'.todo = {}
      /\ UNCHANGED <<content, dest, parked, kept, store, tried, done, forgone, late>>
      /\ editor'.inode = None
    BY TypeOKTyped, GotoFields DEF Start, Typed, PC, ControlInv, disk, history, Closed
<1>2. EmptyInv' /\ StandInv' /\ LateInv'
    BY QuietSafe DEF Start
<1>3. FreshInv'
    BY <1>1, Values DEF Safe, FreshInv, New, Named, Of
<1>4. HeldInv'
    BY <1>1 DEF Safe, HeldInv, Held, Leftover, Start, Held_pc
<1>5. SnapInv' /\ DropInv'
    BY <1>1 DEF SnapInv, DropInv
<1>6. EditorInv'
  <2>1. \A n \in Saves : parked'[n] # None => Of(n)' # None
    BY <1>1, TypeOKTyped, NameType, Values DEF Of
  <2> QED
    BY <1>1, <2>1, Values DEF EditorInv
<1> QED
    BY <1>2, <1>3, <1>4, <1>5, <1>6 DEF Safe

\* A mutation that begins has a file that nobody has seen.
LEMMA MutateSafe ==
    ASSUME TypeOK, ControlInv, Safe, NEW s \in Saves, NEW whole \in BOOLEAN, Mutate(s, whole)
    PROVE  Safe'
<1>1. /\ op'.pc = "list" /\ op'.save = s /\ op'.todo = {} /\ op'.name = op.name
      /\ UNCHANGED <<content, dest, parked, kept, editor, store, done, forgone, late>>
      /\ tried' = tried \cup {s} /\ s \notin tried
    BY TypeOKTyped DEF Mutate, Typed, OpType, ControlInv, disk
<1>2. FreshInv'
    BY <1>1, Values DEF Safe, FreshInv, New, Named, Of
<1>3. HeldInv'
    BY <1>1 DEF Safe, HeldInv, Held, Leftover, Mutate, Held_pc
<1>4. tried' \cap (Edits \cup {First}) = tried \cap (Edits \cup {First})
    BY <1>1, DataStoreAssumption
<1>5. EmptyInv'
    BY <1>1, <1>4 DEF Safe, EmptyInv, Held
<1>6. StandInv'
    BY <1>1, <1>4, SameStanding DEF Safe, StandInv, Standing
<1>7. SnapInv' /\ DropInv'
    BY <1>1 DEF SnapInv, DropInv
<1>8. EditorInv'
    BY <1>1 DEF Safe, EditorInv, Named, Held, Leftover, Of, Mutate, Held_pc
<1>9. LateInv'
    BY <1>1 DEF Safe, LateInv, Named, Of
<1> QED
    BY <1>2, <1>3, <1>5, <1>6, <1>7, <1>8, <1>9 DEF Safe

\* A listing that works finds every old name.
LEMMA ListSafe ==
    ASSUME TypeOK, ControlInv, Safe, List, Good'
    PROVE  Safe'
<1>1. /\ op'.save = op.save /\ op'.todo = {n \in Saves : Leftover(n)}
      /\ op'.pc = IF op'.todo = {} THEN "read" ELSE "recover"
  <2>1. ~Fails("list")
    BY DEF Good, Fails, Unseeing
  <2>2. op' = [op EXCEPT !.todo = {n \in Saves : Leftover(n)},
                         !.pc = IF {n \in Saves : Leftover(n)} = {} THEN "read" ELSE "recover"]
    BY <2>1 DEF List
  <2> QED
    BY <2>2, TypeOKTyped DEF Typed, OpType
<1>2. UNCHANGED <<content, dest, parked, kept, editor, store, tried, done, forgone, late>>
    BY DEF List, disk, history
<1>3. EmptyInv' /\ StandInv' /\ LateInv'
    BY QuietSafe DEF List
<1>4. FreshInv'
    BY <1>1, <1>2 DEF Safe, FreshInv, New, Named, Of, List
<1>5. HeldInv'
    BY <1>1, <1>2 DEF Safe, HeldInv, Held, Leftover, List, Held_pc
<1>6. SnapInv' /\ DropInv'
    BY <1>1 DEF SnapInv, DropInv
<1>7. EditorInv'
    BY <1>1, <1>2 DEF Safe, EditorInv, Named, Held, Leftover, Of, List, Held_pc
<1> QED
    BY <1>3, <1>4, <1>5, <1>6, <1>7 DEF Safe

\* The name a recovery chooses is one it has listed.
LEMMA RecoverSafe ==
    ASSUME TypeOK, ControlInv, Safe, NEW n \in Saves, Recover(n)
    PROVE  Safe'
<1>1. /\ op'.save = op.save /\ op'.todo = op.todo /\ op'.name = n
      /\ op'.pc = IF Held(n) /\ dest = None THEN "put back" ELSE "compare"
    BY TypeOKTyped DEF Recover, Typed, OpType
<1>2. UNCHANGED <<content, dest, parked, kept, editor, store, tried, done, forgone, late>>
    BY DEF Recover, disk, history
<1>3. EmptyInv' /\ StandInv' /\ LateInv'
    BY QuietSafe DEF Recover
<1>4. FreshInv'
    BY <1>1, <1>2 DEF Safe, FreshInv, New, Named, Of, Recover
<1>5. HeldInv'
    BY <1>1, <1>2 DEF Safe, HeldInv, Held, Leftover, Recover, Held_pc
<1>6. SnapInv' /\ DropInv'
    BY <1>1 DEF SnapInv, DropInv
<1>7. EditorInv'
  <2>1. \A m \in Saves : Held(m) => Leftover(m)
    BY DEF Safe, HeldInv, Recover, Held_pc, Held, Leftover
  <2> QED
    BY <1>1, <1>2, <2>1 DEF Safe, EditorInv, Named, Held, Leftover, Of, Recover
<1> QED
    BY <1>3, <1>4, <1>5, <1>6, <1>7 DEF Safe

\* What is read is what stands.
LEMMA ReadSafe ==
    ASSUME TypeOK, ControlInv, Safe, Read
    PROVE  Safe'
<1>1. /\ op'.save \in {op.save, None} /\ op'.todo = {}
      /\ \/ op'.pc = "stage" /\ op'.save = op.save /\ ~store'.corrupt
         \/ op'.pc = "idle" /\ op'.save = None
    BY TypeOKTyped, GotoFields, OverFields DEF Read, Typed, PC, ControlInv, MayWrite
<1>2. UNCHANGED <<content, dest, parked, kept, editor, tried, done, forgone, late>>
    BY DEF Read, disk, history
<1>3. EmptyInv' /\ StandInv' /\ LateInv'
    BY QuietSafe DEF Read
<1>4. FreshInv'
    BY <1>1, <1>2, Values DEF Safe, FreshInv, New, Named, Of, Read
<1>5. HeldInv'
    BY <1>1, <1>2 DEF Safe, HeldInv, Held, Leftover, Read, Held_pc
<1>6. SnapInv'
  <2>1. ~store'.corrupt /\ store'.snapshot # None =>
          /\ dest # None /\ store'.snapshot = content[dest]
          /\ store'.changes = content[dest].changes
    <3>1. dest # None => content[dest].ok \in BOOLEAN
      BY TypeOKTyped DEF Typed, Content
    <3>2. CASE store' = [changes |-> {}, snapshot |-> None, corrupt |-> FALSE]
      BY <3>2
    <3>3. CASE /\ dest # None
               /\ store' = [changes |-> IF content[dest].ok THEN content[dest].changes ELSE {},
                            snapshot |-> content[dest], corrupt |-> ~content[dest].ok]
      BY <3>1, <3>3
    <3>4. CASE store' = Unread
      BY <3>4 DEF Unread
    <3> QED
      BY <3>2, <3>3, <3>4 DEF Read
  <2>2. ~store'.corrupt /\ store'.snapshot # None => \A x \in store'.snapshot.changes : Stands(x)'
    BY <1>2, <2>1 DEF Stands
  <2> QED
    BY <1>1, <2>1, <2>2 DEF SnapInv
<1>7. DropInv'
    BY <1>1 DEF DropInv
<1>8. EditorInv'
    BY <1>1, <1>2 DEF Safe, EditorInv, Named, Held, Leftover, Of, Read, Held_pc
<1> QED
    BY <1>3, <1>4, <1>5, <1>6, <1>7, <1>8 DEF Safe

\* A document found unchanged holds what was read, and nothing else stands.
LEMMA CheckSafe ==
    ASSUME TypeOK, ControlInv, Safe, Check
    PROVE  Safe'
<1>1. /\ op'.save = op.save /\ op'.todo = {} /\ op'.name = op.name
      /\ \/ op'.pc = "link" /\ Matches(op.save)
         \/ op'.pc = "put back"
      /\ op.name = op.save /\ Held(op.save) /\ store.snapshot # None /\ op.save \in Saves
    BY TypeOKTyped, GotoFields, AtName DEF Check, Typed, PC, ControlInv
<1>2. UNCHANGED <<content, dest, parked, kept, editor, store, tried, done, forgone, late>>
    BY DEF Check, disk, history
<1>3. EmptyInv' /\ StandInv' /\ LateInv'
    BY QuietSafe DEF Check
<1>4. FreshInv'
    BY <1>1, <1>2 DEF Safe, FreshInv, New, Named, Of, Check
<1>5. HeldInv'
    BY <1>1, <1>2 DEF Safe, HeldInv, Held, Leftover, Check, Held_pc
<1>6. SnapInv'
  <2>1. CASE op'.pc = "link" /\ Matches(op.save)
    <3>1. content[Of(op.save)] = store.snapshot
      BY <2>1 DEF Safe, SnapInv, Check, Matches, Of
    <3>2. ASSUME dest = None, NEW x \in Change, Standing(x)
          PROVE  x \in forgone \cup store.snapshot.changes
      <4>1. Stands(x)
        BY <3>2 DEF Safe, StandInv
      <4>2. \A n \in Saves : Held(n) => n = op.save
        BY <1>1 DEF Safe, HeldInv
      <4> QED
        BY <3>1, <3>2, <4>1, <4>2 DEF Stands
    <3>3. /\ store.changes = store.snapshot.changes
          /\ content[op.save].changes = store.changes \cup {op.save}
      BY <1>1 DEF Safe, SnapInv, Check
    <3> QED
      BY <1>1, <1>2, <2>1, <3>2, <3>3 DEF SnapInv, Standing
  <2>2. CASE op'.pc = "put back"
    BY <2>2 DEF SnapInv
  <2> QED
    BY <1>1, <2>1, <2>2
<1>7. DropInv'
    BY <1>1 DEF DropInv
<1>8. EditorInv'
    BY <1>1, <1>2 DEF Safe, EditorInv, Named, Held, Leftover, Of, Check, Held_pc
<1> QED
    BY <1>3, <1>4, <1>5, <1>6, <1>7, <1>8 DEF Safe

\* The editor opens the document.
LEMMA OpenSafe ==
    ASSUME TypeOK, ControlInv, Safe, Open
    PROVE  Safe'
<1>1. UNCHANGED <<content, dest, parked, kept, op, store, tried, done, forgone, late>>
      /\ editor'.inode = dest /\ dest \in Inode
    BY TypeOKTyped DEF Open, disk, history, Typed
<1>2. EmptyInv' /\ StandInv' /\ LateInv'
    BY QuietSafe DEF Open
<1>3. FreshInv'
    BY <1>1 DEF Safe, FreshInv, New, Named, Of
<1>4. HeldInv'
    BY <1>1 DEF Safe, HeldInv, Held, Leftover
<1>5. SnapInv' /\ DropInv'
    BY <1>1 DEF Safe, SnapInv, DropInv, Standing, Stands, Held, Of
<1>6. EditorInv'
    BY <1>1 DEF EditorInv, Named, Of
<1> QED
    BY <1>2, <1>3, <1>4, <1>5, <1>6 DEF Safe

\* A name that goes away takes nothing with it: what its file says stands, or
\* the file is kept under another name.
LEMMA NameGone ==
    ASSUME TypeOK, Safe, NEW n \in Saves, parked[n] # None,
           NEW gone, gone = Of(n),
           parked' = [parked EXCEPT ![n] = None],
           UNCHANGED <<content, dest, tried, done, forgone, late>>,
           kept' \in {kept, kept \cup {gone}},
           Held(n) => dest # None,
           gone \in kept' \/ \A x \in content[gone].changes : Stands(x)
    PROVE  /\ EmptyInv' /\ StandInv' /\ LateInv'
           /\ \A x \in Change : Stands(x) => Stands(x)'
           /\ \A m \in Saves \ {n} : parked'[m] = parked[m]
           /\ parked'[n] = None
           /\ \A i \in Inode : Named(i)' => Named(i)
           /\ \A i \in Inode : Named(i) => Named(i)' \/ i = gone
           /\ gone \in kept' => Named(gone)'
<1>1. parked \in [Saves -> Name \cup {None}] /\ gone \in Inode /\ kept \subseteq Inode
    BY TypeOKTyped, NameType DEF Typed
<1>2. /\ \A m \in Saves \ {n} : parked'[m] = parked[m]
      /\ parked'[n] = None
    BY <1>1
<1>3. \A i \in Inode : Named(i)' => Named(i)
    BY <1>1, <1>2 DEF Named, Of
<1>4. \A i \in Inode : Named(i) => Named(i)' \/ i = gone
    BY <1>1, <1>2 DEF Named, Of
<1>5. ASSUME NEW x, Stands(x) PROVE Stands(x)'
    BY <1>2, <1>5 DEF Stands, Held, Of
<1>6. EmptyInv'
  <2>1. dest = None /\ (\A m \in Saves : ~Held(m)') => \A m \in Saves : ~Held(m)
    BY <1>2 DEF Held
  <2> QED
    BY <2>1 DEF Safe, EmptyInv
<1>7. StandInv'
  <2>1. ASSUME NEW x \in Change, Standing(x)' PROVE Standing(x)
    BY <1>2, <2>1 DEF Standing
  <2> QED
    BY <1>5, <2>1 DEF Safe, StandInv
<1>8. gone \in kept' => Named(gone)'
    BY DEF Named
<1>9. LateInv'
  <2> SUFFICES ASSUME NEW x \in late, x \notin forgone
               PROVE  \E i \in Inode : Named(i)' /\ x \in content[i].changes
    BY DEF LateInv
  <2>1. PICK i \in Inode : Named(i) /\ x \in content[i].changes
    BY DEF Safe, LateInv
  <2>2. CASE Named(i)'
    BY <2>1, <2>2
  <2>3. CASE i = gone /\ ~(gone \in kept')
    <3>1. Stands(x)
      BY <2>1, <2>3
    <3>2. Stands(x)'
      BY <3>1, <1>5
    <3>3. \/ dest # None /\ x \in content[dest].changes
          \/ \E m \in Saves \ {n} : Held(m) /\ x \in content[Of(m)].changes
      BY <1>2, <3>2 DEF Stands, Held, Of
    <3>4. CASE dest # None /\ x \in content[dest].changes
      <4>1. \A k \in Inode : k = dest => Named(k)'
        BY DEF Named
      <4> QED
        BY <3>4, <4>1, TypeOKTyped DEF Typed
    <3>5. ASSUME NEW m \in Saves \ {n}, Held(m), x \in content[Of(m)].changes
          PROVE  \E k \in Inode : Named(k)' /\ x \in content[k].changes
      <4>1. \A k \in Inode : k = Of(m) => Named(k)'
        BY <1>2, <3>5 DEF Named, Held, Of
      <4> QED
        BY <3>5, <4>1, TypeOKTyped, NameType DEF Held
    <3> QED
      BY <3>3, <3>4, <3>5
  <2> QED
    BY <1>4, <1>8, <2>1, <2>2, <2>3
<1> QED
    BY <1>2, <1>3, <1>4, <1>5, <1>6, <1>7, <1>8, <1>9

\* A name whose hash is right speaks of what stands; any other file is kept.
LEMMA CompareSafe ==
    ASSUME TypeOK, ControlInv, Safe, Compare, Good'
    PROVE  Safe'
<1>1. /\ op.name \in op.todo /\ op.name \in Saves /\ parked[op.name] \in Name
      /\ Of(op.name) \in Inode /\ Leftover(op.name) /\ op \in OpType
    BY TypeOKTyped, AtName DEF Compare, ControlInv, Typed
<1>2. Held(op.name) => dest # None
    BY DEF Safe, HeldInv, Compare
<1>3. UNCHANGED <<content, dest, editor, store, tried, done, forgone, late>>
    BY DEF Compare, history
<1>4. CASE content[Of(op.name)] = parked[op.name].hash /\ Goto("drop") /\ UNCHANGED <<parked, kept>>
  <2>1. op'.pc = "drop" /\ op'.save = op.save /\ op'.name = op.name /\ op'.todo = op.todo
    BY <1>1, <1>4, GotoFields DEF PC
  <2>2. EmptyInv' /\ StandInv' /\ LateInv'
    BY <1>3, <1>4, QuietSafe DEF disk, history
  <2>3. FreshInv'
    BY <1>3, <1>4, <2>1 DEF Safe, FreshInv, New, Named, Of, Compare
  <2>4. HeldInv'
    BY <1>3, <1>4, <2>1 DEF Safe, HeldInv, Held, Leftover, Compare, Held_pc
  <2>5. SnapInv'
    BY <2>1 DEF SnapInv
  <2>6. DropInv'
    <3>1. ASSUME NEW x \in content[Of(op.name)].changes PROVE Stands(x)
      <4>1. x \in Change
        BY <1>1, TypeOKTyped DEF Typed, Content
      <4>2. Standing(x)
        BY <1>1, <1>4 DEF Standing, Leftover
      <4> QED
        BY <4>1, <4>2 DEF Safe, StandInv
    <3> QED
      BY <1>3, <1>4, <2>1, <3>1 DEF DropInv, Stands, Held, Of
  <2>7. EditorInv'
    BY <1>3, <1>4, <2>1 DEF Safe, EditorInv, Named, Held, Leftover, Of, Compare, Held_pc
  <2> QED
    BY <2>2, <2>3, <2>4, <2>5, <2>6, <2>7 DEF Safe
<1>5. CASE /\ parked' = [parked EXCEPT ![op.name] = None]
           /\ kept' = kept \cup {Of(op.name)} /\ NextName
  <2>1. PICK gone \in Inode : gone = Of(op.name)
    BY <1>1
  <2>2. /\ EmptyInv' /\ StandInv' /\ LateInv'
        /\ \A m \in Saves \ {op.name} : parked'[m] = parked[m]
        /\ parked'[op.name] = None
        /\ \A i \in Inode : Named(i)' => Named(i)
        /\ \A i \in Inode : Named(i) => Named(i)'
    BY <1>1, <1>2, <1>3, <1>5, <2>1, NameGone, Values
  <2>3. /\ op'.save = op.save /\ op'.todo = op.todo \ {op.name}
        /\ \/ op'.pc = "read" /\ op'.todo = {}
           \/ op'.pc = "recover" /\ op'.todo # {}
    BY <1>1, <1>5, NextNameFields
  <2>4. FreshInv'
    BY <1>1, <1>3, <2>2, <2>3, Values DEF Safe, FreshInv, New, Leftover, OpType, Compare
  <2>5. HeldInv'
    <3>1. \A m \in Saves : /\ Held(m)' => m # op.name /\ Held(m)
                           /\ Leftover(m)' => m # op.name /\ Leftover(m)
                           /\ Held(m)' => parked'[m].live = parked[m].live
      BY <2>2 DEF Held, Leftover
    <3>2. \A m \in Saves : Leftover(m)' => m \in op'.todo
      BY <1>1, <2>3, <3>1 DEF Safe, HeldInv
    <3>3. \A m \in Saves : Held(m)' => ~parked'[m].live
      BY <3>1 DEF Safe, HeldInv, Compare, Held_pc
    <3> QED
      BY <1>1, <2>3, <3>1, <3>2, <3>3 DEF Safe, HeldInv
  <2>6. SnapInv' /\ DropInv'
    BY <2>3 DEF SnapInv, DropInv
  <2>7. EditorInv'
    <3>1. \A m \in Saves : Held(m) => Leftover(m)
      BY DEF Safe, HeldInv, Compare, Held_pc, Held, Leftover
    <3>2. \A i \in Inode : editor'.inode = i => Named(i)'
      BY <1>3, <2>2 DEF Safe, EditorInv
    <3> QED
      BY <1>3, <2>2, <2>3, <3>1, <3>2 DEF Safe, EditorInv, Held, Leftover, Of, Compare, Held_pc
  <2> QED
    BY <2>2, <2>4, <2>5, <2>6, <2>7 DEF Safe
<1>6. ~Fails("candidate")
    BY DEF Good, Fails, Unseeing
<1> QED
    BY <1>4, <1>5, <1>6 DEF Compare, Of

\* The name of a file goes away when all it says stands.
LEMMA DropSafe ==
    ASSUME TypeOK, ControlInv, Safe, Drop, Good'
    PROVE  Safe'
<1>1. /\ op.name \in op.todo /\ op.name \in Saves /\ parked[op.name] \in Name
      /\ Of(op.name) \in Inode /\ op \in OpType
    BY TypeOKTyped, AtName DEF Drop, ControlInv, Typed
<1>2. /\ Held(op.name) => dest # None
      /\ Leftover(op.name)
    BY <1>1 DEF Safe, HeldInv, Drop, ControlInv
<1>3. /\ op'.save = op.save /\ op'.todo = op.todo \ {op.name}
      /\ \/ op'.pc = "read" /\ op'.todo = {}
         \/ op'.pc = "recover" /\ op'.todo # {}
    BY <1>1, NextNameFields DEF Drop
<1>4. /\ UNCHANGED <<content, dest, editor, store, tried, done, forgone, late>>
      /\ parked' = [parked EXCEPT ![op.name] = None]
      /\ kept' \in {kept, kept \cup {Of(op.name)}}
  <2>1. ~Fails("candidate")
    BY DEF Good, Fails, Unseeing
  <2> QED
    BY <2>1 DEF Drop, history
<1>5. \A x \in content[Of(op.name)].changes : Stands(x)
    BY DEF Safe, DropInv, Drop
<1>6. PICK gone \in Inode : gone = Of(op.name)
    BY <1>1
<1>7. parked[op.name] # None /\ op.todo \subseteq Saves
    BY <1>1, Values DEF OpType
<1>8. /\ EmptyInv' /\ StandInv' /\ LateInv'
      /\ \A m \in Saves \ {op.name} : parked'[m] = parked[m]
      /\ parked'[op.name] = None
      /\ \A i \in Inode : Named(i)' => Named(i)
      /\ \A i \in Inode : Named(i) => Named(i)' \/ i = gone
    BY <1>1, <1>2, <1>4, <1>5, <1>6, <1>7, NameGone
<1>9. \A m \in Saves : /\ Held(m)' <=> (m # op.name /\ Held(m))
                       /\ Leftover(m)' <=> (m # op.name /\ Leftover(m))
                       /\ Held(m)' => parked'[m].live = parked[m].live
    BY <1>8 DEF Held, Leftover
<1>10. FreshInv'
    BY <1>1, <1>3, <1>4, <1>7, <1>8, Values DEF Safe, FreshInv, New, OpType, Drop
<1>11. HeldInv'
  <2>1. op.todo # {} => \A m \in Saves : Leftover(m)' => m \in op'.todo
    BY <1>3, <1>9 DEF Safe, HeldInv
  <2>2. \A m \in Saves : Held(m)' => ~parked'[m].live
    BY <1>9 DEF Safe, HeldInv, Drop, Held_pc
  <2>3. op'.pc \in {"idle", "read", "recover"} /\ (op'.pc = "read" => op.todo # {})
    BY <1>1, <1>3, <1>7
  <2> QED
    BY <1>3, <1>9, <2>1, <2>2, <2>3 DEF Safe, HeldInv
<1>12. SnapInv' /\ DropInv'
    BY <1>3 DEF SnapInv, DropInv
<1>13. EditorInv'
  <2>1. \A m \in Saves : Held(m) => Leftover(m) \/ op.pc = "unlink"
    BY DEF Safe, HeldInv, Drop, Held_pc, Held, Leftover
  <2>2. editor.inode = gone => dest = gone
    BY <1>1, <1>2, <1>6, <1>7 DEF Safe, EditorInv, Drop, Held_pc, Leftover
  <2>3. \A i \in Inode : editor'.inode = i => Named(i)'
    BY <1>4, <1>8, <2>2 DEF Safe, EditorInv, Named
  <2>4. \A m \in Saves : parked'[m] # None => /\ Of(m)' = Of(m) /\ parked[m] # None
                                            /\ m # op.name
    BY <1>8 DEF Of
  <2> QED
    BY <1>2, <1>3, <1>4, <1>9, <2>1, <2>3, <2>4 DEF Safe, EditorInv, Drop, Held_pc
<1> QED
    BY <1>8, <1>10, <1>11, <1>12, <1>13 DEF Safe

\* A held name goes away when its file is the document, or was edited by no one since.
LEMMA UnlinkSafe ==
    ASSUME TypeOK, ControlInv, Safe, Unlink, Good'
    PROVE  Safe'
<1>1. /\ op.todo # {} => op.name \in op.todo
      /\ op.name \in Saves /\ parked[op.name] \in Name /\ Of(op.name) \in Inode
      /\ op \in OpType
    BY TypeOKTyped, AtName DEF Unlink, ControlInv, Typed
<1>2. dest # None /\ Held(op.name)
    BY DEF Unlink, ControlInv
<1>3. /\ op'.todo = op.todo \ {op.name}
      /\ \/ op'.pc = "idle" /\ op.todo = {} /\ op'.save = None
         \/ op'.pc = "read" /\ op.todo # {} /\ op'.todo = {} /\ op'.save = op.save
         \/ op'.pc = "recover" /\ op'.todo # {} /\ op'.save = op.save
    BY <1>1, ResumesFields DEF Unlink
<1>4. /\ UNCHANGED <<content, dest, editor, store, tried, done, forgone, late>>
      /\ parked' = [parked EXCEPT ![op.name] = None]
      /\ kept' \in {kept, kept \cup {Of(op.name)}}
    BY DEF Unlink, history, Of
<1>5. \A x \in content[Of(op.name)].changes : Stands(x)
    BY DEF Safe, DropInv, Unlink
<1>6. PICK gone \in Inode : gone = Of(op.name)
    BY <1>1
<1>7. parked[op.name] # None /\ op.todo \subseteq Saves
    BY <1>1, Values DEF OpType
<1>8. /\ EmptyInv' /\ StandInv' /\ LateInv'
      /\ \A m \in Saves \ {op.name} : parked'[m] = parked[m]
      /\ parked'[op.name] = None
      /\ \A i \in Inode : Named(i)' => Named(i)
      /\ \A i \in Inode : Named(i) => Named(i)' \/ i = gone
    BY <1>1, <1>2, <1>4, <1>5, <1>6, <1>7, NameGone
<1>9. \A m \in Saves : /\ Held(m)' <=> (m # op.name /\ Held(m))
                       /\ Leftover(m)' <=> (m # op.name /\ Leftover(m))
                       /\ Held(m)' => parked'[m].live = parked[m].live
    BY <1>8 DEF Held, Leftover
<1>10. FreshInv'
    BY <1>1, <1>3, <1>4, <1>7, <1>8, Values DEF Safe, FreshInv, New, OpType, Unlink
<1>11. HeldInv'
  <2>1. op.todo # {} => \A m \in Saves : Leftover(m)' => m \in op'.todo
    BY <1>3, <1>9 DEF Safe, HeldInv
  <2>2. \A m \in Saves : Held(m)' => ~parked'[m].live
    BY <1>9 DEF Safe, HeldInv, Unlink, Held_pc
  <2>3. op'.pc \in {"idle", "read", "recover"} /\ (op'.pc = "read" => op.todo # {})
    BY <1>1, <1>3
  <2> QED
    BY <1>3, <1>9, <2>1, <2>2, <2>3 DEF Safe, HeldInv
<1>12. SnapInv' /\ DropInv'
    BY <1>3 DEF SnapInv, DropInv
<1>13. EditorInv'
  <2>1. op'.pc \notin Held_pc
    BY <1>3 DEF Held_pc
  <2>2. editor.inode = gone => dest = gone
    BY <1>1, <1>2, <1>6, <1>7 DEF Safe, EditorInv, Unlink, Held_pc, Leftover
  <2>3. \A i \in Inode : editor'.inode = i => Named(i)'
    BY <1>4, <1>8, <2>2 DEF Safe, EditorInv, Named
  <2>4. \A m \in Saves : parked'[m] # None => /\ Of(m)' = Of(m) /\ parked[m] # None
                                            /\ m # op.name
    BY <1>8 DEF Of
  <2>5. \A m \in Saves : parked[m] # None /\ Leftover(m) /\ editor.inode = Of(m)
                           => dest = Of(m)
    BY <1>2 DEF Safe, EditorInv, Unlink
  <2> QED
    BY <1>4, <1>9, <2>1, <2>3, <2>4, <2>5 DEF EditorInv
<1> QED
    BY <1>8, <1>10, <1>11, <1>12, <1>13 DEF Safe

\* A file at a held name comes back, is kept, or stays where it is.
LEMMA PutBackSafe ==
    ASSUME TypeOK, ControlInv, Safe, PutBack
    PROVE  Safe'
<1>1. /\ op.name \in Saves /\ Of(op.name) \in Inode /\ Held(op.name) /\ op \in OpType
      /\ parked \in [Saves -> Name \cup {None}] /\ parked[op.name] \in Name
      /\ op.todo # {} => op.name \in op.todo
    BY TypeOKTyped, PutBackEffect, NameType DEF Typed, Held
<1>2. UNCHANGED <<content, editor, tried, done, forgone, late>> /\ op.pc = "put back"
    BY DEF PutBack, history
<1>3. \A n \in Saves : Held(n) => n = op.name
    BY <1>1 DEF Safe, HeldInv
<1>4. CASE /\ dest = None /\ dest' = Of(op.name) /\ UNCHANGED <<parked, kept, store>>
           /\ op'.pc = "unlink" /\ op'.name = op.name /\ op'.save = op.save
           /\ op'.todo = op.todo
  <2>1. \A n \in Saves : /\ Held(n)' <=> Held(n)
                         /\ Leftover(n)' <=> Leftover(n)
                         /\ Of(n)' = Of(n) /\ parked'[n] = parked[n]
    BY <1>4 DEF Held, Leftover, Of
  <2>2. \A i \in Inode : Named(i)' <=> Named(i)
    <3>1. dest \notin Inode /\ parked[op.name] # None
      BY <1>1, <1>4, Values
    <3> QED
      BY <1>1, <1>4, <2>1, <3>1 DEF Named
  <2>3. ASSUME NEW x \in Change, Stands(x) PROVE Stands(x)'
    BY <1>1, <1>2, <1>3, <1>4, <2>3, Values DEF Stands
  <2>4. EmptyInv' /\ SnapInv'
    BY <1>1, <1>4, Values DEF EmptyInv, SnapInv
  <2>5. FreshInv'
    BY <1>2, <1>4, <2>2 DEF Safe, FreshInv, New
  <2>6. HeldInv'
    BY <1>2, <1>4, <2>1 DEF Safe, HeldInv, Held_pc
  <2>7. StandInv'
    BY <1>2, <1>4, <2>3 DEF Safe, StandInv, Standing
  <2>8. DropInv'
    BY <1>1, <1>2, <1>4, <2>1, Values DEF DropInv, Stands
  <2>9. EditorInv'
    <3>1. \A i \in Inode : editor'.inode = i => Named(i)'
      BY <1>2, <2>2 DEF Safe, EditorInv
    <3>2. ASSUME NEW n \in Saves, parked[n] # None, editor.inode = Of(n), Leftover(n) \/ Held(n)
          PROVE  dest' = Of(n)
      <4>1. Of(n) \in Inode
        BY <3>2, NameType, TypeOKTyped
      <4>2. dest = Of(n) \/ (Held(n) /\ dest = None)
        BY <1>2, <3>2 DEF Safe, EditorInv, Held_pc
      <4> QED
        BY <1>3, <1>4, <4>1, <4>2, Values
    <3> QED
      BY <1>2, <2>1, <3>1, <3>2 DEF EditorInv
  <2>10. LateInv'
    BY <1>2, <2>2 DEF Safe, LateInv
  <2> QED
    BY <2>4, <2>5, <2>6, <2>7, <2>8, <2>9, <2>10 DEF Safe
<1>5. CASE /\ dest # None /\ UNCHANGED <<dest, store>>
           /\ parked' = [parked EXCEPT ![op.name] = None]
           /\ kept' = kept \cup {Of(op.name)}
           /\ op'.todo = op.todo \ {op.name} /\ op'.name = None
           /\ \/ op'.pc = "idle" /\ op.todo = {} /\ op'.save = None
              \/ op'.pc = "read" /\ op.todo # {} /\ op'.todo = {} /\ op'.save = op.save
              \/ op'.pc = "recover" /\ op'.todo # {} /\ op'.save = op.save
  <2>1. PICK gone \in Inode : gone = Of(op.name)
    BY <1>1
  <2>2. /\ EmptyInv' /\ StandInv' /\ LateInv'
        /\ \A m \in Saves \ {op.name} : parked'[m] = parked[m]
        /\ parked'[op.name] = None
        /\ \A i \in Inode : Named(i)' => Named(i)
        /\ \A i \in Inode : Named(i) => Named(i)'
    BY <1>1, <1>2, <1>5, <2>1, NameGone, Values
  <2>3. \A m \in Saves : /\ Held(m)' <=> (m # op.name /\ Held(m))
                         /\ Leftover(m)' <=> (m # op.name /\ Leftover(m))
                         /\ Held(m)' => parked'[m].live = parked[m].live
    BY <2>2 DEF Held, Leftover
  <2>4. FreshInv'
    BY <1>1, <1>2, <1>5, <2>2, Values DEF Safe, FreshInv, New, OpType
  <2>5. HeldInv'
    <3>1. op.todo # {} => \A m \in Saves : Leftover(m)' => m \in op'.todo
      BY <1>5, <2>3 DEF Safe, HeldInv
    <3>2. \A m \in Saves : ~Held(m)'
      BY <1>3, <2>3
    <3>3. op'.pc \in {"idle", "read", "recover"}
          /\ (op'.pc = "read" => op.todo # {})
          /\ (op'.todo # {} => op.todo # {})
      BY <1>5
    <3> QED
      BY <1>5, <3>1, <3>2, <3>3 DEF HeldInv
  <2>6. SnapInv' /\ DropInv'
    BY <1>5 DEF SnapInv, DropInv
  <2>7. EditorInv'
    <3>1. op'.pc \notin Held_pc
      BY <1>5 DEF Held_pc
    <3>2. \A i \in Inode : editor'.inode = i => Named(i)'
      BY <1>2, <2>2 DEF Safe, EditorInv
    <3>3. \A m \in Saves : parked'[m] # None => /\ Of(m)' = Of(m) /\ parked[m] # None
                                              /\ m # op.name
      BY <2>2 DEF Of
    <3>4. \A m \in Saves : parked[m] # None /\ Leftover(m) /\ editor.inode = Of(m)
                             => dest = Of(m)
      BY <1>2, <1>5 DEF Safe, EditorInv
    <3> QED
      BY <1>2, <1>5, <2>3, <3>1, <3>2, <3>3, <3>4 DEF EditorInv
  <2> QED
    BY <2>2, <2>4, <2>5, <2>6, <2>7 DEF Safe
<1>6. CASE /\ UNCHANGED <<dest, kept>>
           /\ parked' = [parked EXCEPT ![op.name] = [parked[op.name] EXCEPT !.live = FALSE]]
           /\ op'.pc = "idle" /\ op'.save = None /\ op'.name = None /\ op'.todo = {}
  <2>1. /\ parked'[op.name] # None /\ parked'[op.name].live = FALSE
        /\ parked'[op.name].kind = "held" /\ parked'[op.name].inode = Of(op.name)
        /\ parked'[op.name].hash = parked[op.name].hash
        /\ \A m \in Saves \ {op.name} : parked'[m] = parked[m]
    <3>1. [parked[op.name] EXCEPT !.live = FALSE] \in Name
      BY <1>1 DEF Name
    <3>2. parked'[op.name] = [parked[op.name] EXCEPT !.live = FALSE]
      BY <1>1, <1>6
    <3> QED
      BY <1>1, <1>6, <3>1, <3>2, Values DEF Name, Held, Of
  <2>2. \A m \in Saves : /\ parked'[m] # None <=> parked[m] # None
                         /\ Of(m)' = Of(m) /\ parked'[m].hash = parked[m].hash
                         /\ Held(m)' <=> Held(m)
                         /\ Leftover(m)' <=> (m = op.name \/ Leftover(m))
    BY <1>1, <2>1 DEF Held, Leftover, Of
  <2>3. \A i \in Inode : Named(i)' <=> Named(i)
    BY <1>6, <2>2 DEF Named
  <2>4. \A x \in Change : Stands(x)' <=> Stands(x)
    BY <1>2, <1>6, <2>2 DEF Stands
  <2>5. EmptyInv'
    BY <1>1, <2>2 DEF EmptyInv
  <2>6. StandInv'
    BY <1>2, <2>2, <2>4 DEF Safe, StandInv, Standing
  <2>7. FreshInv'
    BY <1>2, <1>6, <2>2, <2>3, Values DEF Safe, FreshInv, New
  <2>8. HeldInv'
    BY <1>3, <1>6, <2>1, <2>2 DEF HeldInv
  <2>9. SnapInv' /\ DropInv'
    BY <1>6 DEF SnapInv, DropInv
  <2>10. EditorInv'
    BY <1>1, <1>2, <1>6, <2>2, <2>3 DEF Safe, EditorInv, Held_pc
  <2>11. LateInv'
    BY <1>2, <2>3 DEF Safe, LateInv
  <2> QED
    BY <2>5, <2>6, <2>7, <2>8, <2>9, <2>10, <2>11 DEF Safe
<1> QED
    BY <1>4, <1>5, <1>6, PutBackEffect

\* A new file is nobody's yet.
LEMMA StageSafe ==
    ASSUME TypeOK, ControlInv, Safe, Stage
    PROVE  Safe'
<1>1. /\ op.save \in Saves /\ op.save \in Inode /\ New(op.save) /\ op \in OpType /\ op.todo = {}
      /\ parked \in [Saves -> Name \cup {None}] /\ content \in [Inode -> Content]
    BY TypeOKTyped, Values DEF Typed, OpType, Stage, ControlInv, Safe, FreshInv
<1>2. UNCHANGED <<dest, parked, kept, editor, store, tried, done, forgone, late>>
    BY DEF Stage, history
<1>3. /\ content'[op.save].changes = store.changes \cup {op.save}
      /\ \A i \in Inode \ {op.save} : content'[i] = content[i]
    BY <1>1 DEF Stage
<1>4. \/ op'.pc = "link" /\ op'.save = op.save /\ op'.todo = {} /\ store.snapshot = None
      \/ op'.pc = "hold" /\ op'.save = op.save /\ op'.todo = {} /\ store.snapshot # None
      \/ op'.pc = "idle" /\ op'.save = None /\ op'.todo = {}
    BY <1>1, GotoFields, OverFields DEF Stage, PC
<1>5. \A i \in Inode : Named(i) => content'[i] = content[i]
    BY <1>1, <1>3 DEF New
<1>6. \A x \in Change : Stands(x)' <=> Stands(x)
  <2>1. dest # None => content'[dest] = content[dest]
    <3>1. dest # None => dest \in Inode /\ dest # op.save
      BY <1>1, TypeOKTyped DEF Typed, New, Named
    <3> QED
      BY <1>3, <3>1
  <2>2. \A n \in Saves : Held(n) => content'[Of(n)] = content[Of(n)]
    BY <1>1, <1>3, TypeOKTyped, NameType DEF New, Named, Held
  <2> QED
    BY <1>2, <2>1, <2>2 DEF Stands, Held, Of
<1>7. EmptyInv'
    BY <1>2 DEF Safe, EmptyInv, Held
<1>8. StandInv'
    BY <1>2, <1>6 DEF Safe, StandInv, Standing
<1>9. LateInv'
    BY <1>2, <1>5 DEF Safe, LateInv, Named, Of
<1>10. FreshInv'
    BY <1>2, <1>4, Values DEF Safe, FreshInv, New, Named, Of, Stage
<1>11. HeldInv'
    BY <1>2, <1>4 DEF Safe, HeldInv, Held, Leftover, Held_pc, Stage
<1>12. SnapInv'
    BY <1>2, <1>3, <1>4, <1>6, TypeOKTyped DEF Safe, SnapInv, Stage, Typed, Content
<1>13. DropInv'
    BY <1>4 DEF DropInv
<1>14. EditorInv'
  <2>1. \A n \in Saves : ~Held(n) /\ ~Leftover(n)
    BY DEF Safe, HeldInv, Held, Leftover, Held_pc, Stage
  <2> QED
    BY <1>2, <2>1 DEF Safe, EditorInv, Named, Held, Leftover, Of
<1> QED
    BY <1>7, <1>8, <1>9, <1>10, <1>11, <1>12, <1>13, <1>14 DEF Safe

\* The document at a held name is the document.
LEMMA HoldSafe ==
    ASSUME TypeOK, ControlInv, Safe, Hold
    PROVE  Safe'
<1>1. /\ op.save \in Saves /\ op.save # None /\ op'.todo = {}
      /\ parked \in [Saves -> Name \cup {None}] /\ dest \in Inode \cup {None}
      /\ parked[op.save] = None /\ op.save \in tried
    BY TypeOKTyped, HoldEffect, Values DEF Typed, Safe, FreshInv, Hold
<1>2. UNCHANGED <<content, kept, editor, store, tried, done, forgone, late>> /\ op.pc = "hold"
    BY DEF Hold, history
<1>3. \A n \in Saves : ~Held(n) /\ ~Leftover(n)
    BY DEF Safe, HeldInv, Held, Leftover, Held_pc, Hold
<1>4. CASE UNCHANGED <<dest, parked>> /\ op'.pc = "idle" /\ op'.save = None
  <2>1. EmptyInv' /\ StandInv' /\ LateInv'
    BY <1>2, <1>4, QuietSafe DEF disk, history
  <2>2. FreshInv'
    BY <1>1, <1>2, <1>4, Values DEF Safe, FreshInv, New, Named, Of
  <2>3. HeldInv' /\ SnapInv' /\ DropInv'
    BY <1>1, <1>3, <1>4 DEF HeldInv, SnapInv, DropInv, Held, Leftover
  <2>4. EditorInv'
    BY <1>2, <1>3, <1>4 DEF Safe, EditorInv, Named, Held, Leftover, Of
  <2> QED
    BY <2>1, <2>2, <2>3, <2>4 DEF Safe
<1>5. CASE /\ dest # None /\ dest' = None
           /\ op'.pc = "check" /\ op'.name = op.save /\ op'.save = op.save
           /\ parked' = [parked EXCEPT ![op.save] =
                 [inode |-> dest, hash |-> store.snapshot, kind |-> "held", live |-> TRUE]]
  <2>1. /\ parked'[op.save] # None /\ parked'[op.save].inode = dest
        /\ parked'[op.save].hash = store.snapshot /\ parked'[op.save].kind = "held"
        /\ parked'[op.save].live = TRUE
        /\ \A m \in Saves \ {op.save} : parked'[m] = parked[m]
    <3>1. parked'[op.save] =
            [inode |-> dest, hash |-> store.snapshot, kind |-> "held", live |-> TRUE]
      BY <1>1, <1>5
    <3>2. parked'[op.save] \in Name
      BY <1>1, <1>5, <3>1, HoldEffect DEF Name
    <3> QED
      BY <1>1, <1>5, <3>1, <3>2, Values
  <2>2. \A n \in Saves : /\ Held(n)' <=> n = op.save
                         /\ ~Leftover(n)'
    BY <1>3, <2>1 DEF Held, Leftover
  <2>3. \A i \in Inode : Named(i)' <=> Named(i)
    BY <1>1, <1>2, <1>5, <2>1, Values DEF Named, Of
  <2>4. ASSUME NEW x \in Change, Stands(x) PROVE Stands(x)'
    BY <1>1, <1>2, <1>5, <2>1, <2>2, <2>4 DEF Stands, Of
  <2>5. EmptyInv' /\ DropInv'
    BY <1>1, <1>5, <2>2 DEF EmptyInv, DropInv
  <2>6. FreshInv'
    <3>1. \A n \in Saves : parked'[n] # None => n \in tried
      BY <1>1, <2>1 DEF Safe, FreshInv
    <3> QED
      BY <1>1, <1>2, <1>5, <2>3, <3>1 DEF Safe, FreshInv, New
  <2>7. HeldInv'
    BY <1>1, <1>5, <2>2 DEF HeldInv, Held_pc
  <2>8. StandInv'
    <3>1. ASSUME NEW x \in Change, Standing(x)' PROVE Stands(x)
      <4>1. CASE Standing(x)
        BY <4>1 DEF Safe, StandInv
      <4>2. CASE x \in store.snapshot.changes
        BY <4>2, HoldEffect, Values DEF Safe, SnapInv, Hold
      <4>3. Standing(x) \/ x \in store.snapshot.changes
        BY <1>2, <2>1, <3>1 DEF Standing
      <4> QED
        BY <4>1, <4>2, <4>3
    <3> QED
      BY <2>4, <3>1 DEF StandInv
  <2>9. SnapInv'
    BY <1>1, <1>2, <1>5, <2>1 DEF Safe, SnapInv
  <2>10. EditorInv'
    <3>1. \A n \in Saves : parked'[n] # None /\ (Leftover(n)' \/ Held(n)') => Held(n)'
      BY <2>2
    <3> QED
      BY <1>2, <1>5, <2>2, <2>3 DEF Safe, EditorInv
  <2>11. LateInv'
    BY <1>2, <2>3 DEF Safe, LateInv
  <2> QED
    BY <2>5, <2>6, <2>7, <2>8, <2>9, <2>10, <2>11 DEF Safe
<1> QED
    BY <1>4, <1>5, HoldEffect

\* The new document holds all that stood.
LEMMA LinkSafe ==
    ASSUME TypeOK, ControlInv, Safe, Link
    PROVE  Safe'
<1>1. /\ op.save \in Saves /\ op.save # None /\ op.save \in Inode
      /\ op.save \in tried /\ op.todo = {} /\ op'.todo = {}
    BY LinkEffect, Values DEF Safe, FreshInv
<1>2. /\ UNCHANGED <<content, parked, kept, editor, store, tried, done, forgone, late>>
      /\ op.pc = "link"
    BY DEF Link, history
<1>3. \A n \in Saves : /\ ~Leftover(n)
                       /\ Held(n) => store.snapshot # None /\ n = op.name
    BY DEF Safe, HeldInv, Held, Leftover, Link
<1>4. \A n \in Saves : /\ Held(n)' <=> Held(n)
                       /\ Leftover(n)' <=> Leftover(n)
                       /\ Of(n)' = Of(n)
    BY <1>2 DEF Held, Leftover, Of
<1>5. CASE /\ dest' = dest
           /\ \/ op'.pc = "idle" /\ op'.save = None /\ store.snapshot = None
              \/ /\ op'.pc = "put back" /\ store.snapshot # None
                 /\ op'.save = op.save /\ op'.name = op.name
  <2>1. EmptyInv' /\ StandInv' /\ LateInv'
    BY <1>2, <1>5, QuietSafe DEF disk, history
  <2>2. FreshInv'
    BY <1>1, <1>2, <1>5, Values DEF Safe, FreshInv, New, Named, Of
  <2>3. HeldInv'
    BY <1>1, <1>3, <1>4, <1>5 DEF HeldInv, Held_pc
  <2>4. SnapInv' /\ DropInv'
    BY <1>5 DEF SnapInv, DropInv
  <2>5. EditorInv'
    BY <1>2, <1>3, <1>4, <1>5 DEF Safe, EditorInv, Named, Of, Held_pc
  <2> QED
    BY <2>1, <2>2, <2>3, <2>4, <2>5 DEF Safe
<1>6. CASE /\ dest = None /\ dest' = op.save /\ op'.pc = Published
           /\ op'.save = op.save /\ op'.name = op.name
  <2>1. /\ op'.pc \in {"retire", "commit"}
        /\ op'.pc = "commit" => store.snapshot = None
    BY <1>6 DEF Published
  <2>2. op.save \in content[op.save].changes /\ store.changes \subseteq content[op.save].changes
    BY <1>2 DEF Safe, SnapInv
  <2>3. ASSUME NEW x \in Change, Standing(x) PROVE Stands(x)'
    <3>1. CASE store.snapshot # None
      <4>1. x \in forgone \cup store.snapshot.changes /\ store.changes = store.snapshot.changes
        BY <1>2, <1>6, <2>3, <3>1 DEF Safe, SnapInv
      <4> QED
        BY <1>1, <1>2, <1>6, <2>2, <4>1 DEF Stands
    <3>2. CASE store.snapshot = None
      <4>1. \A n \in Saves : ~Held(n)
        BY <1>3, <3>2
      <4> QED
        BY <1>6, <2>3, <4>1 DEF Safe, EmptyInv, Standing
    <3> QED
      BY <3>1, <3>2
  <2>4. EmptyInv' /\ DropInv'
    BY <1>1, <1>6, <2>1 DEF EmptyInv, DropInv
  <2>5. FreshInv'
    <3>1. \A x \in Inode : Named(x)' => Named(x) \/ x = op.save
      BY <1>2, <1>4, <1>6 DEF Named
    <3> QED
      BY <1>1, <1>2, <1>6, <2>1, <3>1 DEF Safe, FreshInv, New
  <2>6. HeldInv'
    BY <1>1, <1>3, <1>4, <1>2, <1>6, <2>1 DEF HeldInv, Held_pc
  <2>7. StandInv'
    BY <1>2, <2>3 DEF StandInv, Standing
  <2>8. SnapInv'
    <3>1. \A x \in Inode : x = op.save => Stands(x)'
      BY <1>1, <1>2, <1>6, <2>2 DEF Stands
    <3> QED
      BY <1>1, <1>6, <2>1, <3>1 DEF SnapInv
  <2>9. \A i \in Inode : Named(i) => Named(i)'
    BY <1>2, <1>4, <1>6, Values DEF Named
  <2>10. EditorInv'
    BY <1>2, <1>3, <1>4, <2>1, <2>9 DEF Safe, EditorInv, Held_pc
  <2>11. LateInv'
    BY <1>2, <2>9 DEF Safe, LateInv
  <2> QED
    BY <2>4, <2>5, <2>6, <2>7, <2>8, <2>10, <2>11 DEF Safe
<1> QED
    BY <1>5, <1>6, LinkEffect

\* The old file is not the document any more.
LEMMA RetireSafe ==
    ASSUME TypeOK, ControlInv, Safe, Retire, Good'
    PROVE  Safe'
<1>1. /\ op.name = op.save /\ op.save \in Saves /\ op \in OpType /\ Held(op.save)
      /\ parked[op.save] \in Name /\ parked \in [Saves -> Name \cup {None}]
      /\ dest # None /\ op.todo = {}
    BY TypeOKTyped, AtName DEF Retire, ControlInv, Typed
<1>2. op'.pc = "commit" /\ op'.save = op.save /\ op'.name = op.name /\ op'.todo = {}
    BY <1>1, GotoFields DEF Retire, PC
<1>3. /\ UNCHANGED <<content, dest, kept, editor, store, tried, done, forgone, late>>
      /\ op.pc = "retire"
    BY DEF Retire, history
<1>4. parked' = [parked EXCEPT ![op.save] = [parked[op.save] EXCEPT !.kind = "previous"]]
  <2>1. ~Fails("retire")
    BY DEF Good, Fails, Unseeing
  <2> QED
    BY <2>1 DEF Retire
<1>5. /\ parked'[op.save] # None /\ parked'[op.save].kind = "previous"
      /\ parked'[op.save].live = parked[op.save].live
      /\ parked'[op.save].inode = parked[op.save].inode
      /\ parked'[op.save].hash = parked[op.save].hash
      /\ \A m \in Saves \ {op.save} : parked'[m] = parked[m]
  <2>1. [parked[op.save] EXCEPT !.kind = "previous"] \in Name
    BY <1>1 DEF Name
  <2>2. parked'[op.save] = [parked[op.save] EXCEPT !.kind = "previous"]
    BY <1>1, <1>4
  <2> QED
    BY <1>1, <1>4, <2>1, <2>2, Values DEF Name
<1>6. \A m \in Saves : /\ parked'[m] # None <=> parked[m] # None
                       /\ Of(m)' = Of(m) /\ parked'[m].hash = parked[m].hash
                       /\ ~Held(m)' /\ ~Leftover(m)'
  <2>1. \A m \in Saves : ~Leftover(m) /\ (Held(m) => m = op.save)
    BY <1>1 DEF Safe, HeldInv, Retire, Held, Leftover
  <2> QED
    BY <1>1, <1>5, <2>1 DEF Held, Leftover, Of
<1>7. \A i \in Inode : Named(i)' <=> Named(i)
    BY <1>3, <1>6 DEF Named
<1>8. \A x \in Change : Stands(x)' <=> Stands(x)
    BY <1>1, <1>3 DEF Stands
<1>9. EmptyInv' /\ HeldInv' /\ DropInv'
    BY <1>1, <1>2, <1>3, <1>6 DEF EmptyInv, HeldInv, DropInv
<1>10. StandInv'
    BY <1>3, <1>6, <1>8 DEF Safe, StandInv, Standing
<1>11. FreshInv'
    BY <1>1, <1>2, <1>3, <1>6, <1>7 DEF Safe, FreshInv, New
<1>12. SnapInv'
    BY <1>1, <1>2, <1>3 DEF Safe, SnapInv, Stands
<1>13. EditorInv'
    BY <1>2, <1>3, <1>6, <1>7 DEF Safe, EditorInv, Held_pc
<1>14. LateInv'
    BY <1>3, <1>7 DEF Safe, LateInv
<1> QED
    BY <1>9, <1>10, <1>11, <1>12, <1>13, <1>14 DEF Safe

\* What is acknowledged stands.
LEMMA CommitSafe ==
    ASSUME TypeOK, ControlInv, Safe, Commit
    PROVE  Safe'
<1>1. op'.pc = "idle" /\ op'.save = None /\ op'.name = None /\ op'.todo = {}
    BY OverFields DEF Commit
<1>2. /\ UNCHANGED <<content, dest, parked, kept, editor, tried, forgone, late>>
      /\ op.pc = "commit" /\ dest # None /\ op.save \in Saves /\ op.save \in tried
      /\ done' \subseteq done \cup {op.save}
    BY TypeOKTyped DEF Commit, disk, ControlInv, Typed, OpType, Safe, FreshInv
<1>3. \A x \in Change : Stands(x)' <=> Stands(x)
    BY <1>2, SameStanding
<1>4. EmptyInv' /\ SnapInv' /\ DropInv'
    BY <1>1, <1>2 DEF EmptyInv, SnapInv, DropInv
<1>5. StandInv'
    BY <1>2, <1>3 DEF Safe, StandInv, SnapInv, Standing
<1>6. FreshInv'
    BY <1>1, <1>2, Values DEF Safe, FreshInv, New, Named, Of
<1>7. HeldInv'
    BY <1>1, <1>2 DEF Safe, HeldInv, Held, Leftover, Held_pc
<1>8. EditorInv'
    BY <1>1, <1>2 DEF Safe, EditorInv, Named, Held, Leftover, Of, Held_pc
<1>9. LateInv'
    BY <1>2 DEF Safe, LateInv, Named, Of
<1> QED
    BY <1>4, <1>5, <1>6, <1>7, <1>8, <1>9 DEF Safe

\* A crash loses only what the process knew.
LEMMA CrashSafe ==
    ASSUME TypeOK, ControlInv, Safe, Crash
    PROVE  Safe'
<1>1. op'.pc = "down" /\ op'.save = None /\ op'.name = None /\ op'.todo = {}
    BY DEF Crash, Down
<1>2. UNCHANGED <<content, dest, kept, editor, tried, done, forgone, late>>
    BY DEF Crash, history
<1>3. \A n \in Saves : /\ parked'[n] # None <=> parked[n] # None
                       /\ Of(n)' = Of(n) /\ parked'[n].hash = parked[n].hash
                       /\ Held(n)' <=> Held(n)
                       /\ Held(n)' => ~parked'[n].live
  <2> SUFFICES ASSUME NEW n \in Saves
               PROVE  /\ parked'[n] # None <=> parked[n] # None
                      /\ parked'[n].inode = parked[n].inode
                      /\ parked'[n].hash = parked[n].hash
                      /\ parked'[n].kind = parked[n].kind
                      /\ parked'[n] # None => ~parked'[n].live
    BY DEF Held, Of
  <2>1. CASE parked[n] = None
    BY <2>1 DEF Crash
  <2>2. CASE parked[n] # None
    <3>1. parked[n] \in Name /\ parked'[n] = [parked[n] EXCEPT !.live = FALSE]
      BY <2>2, NameType, TypeOKTyped DEF Crash
    <3>2. parked'[n] \in Name
      BY <3>1 DEF Name
    <3> QED
      BY <2>2, <3>1, <3>2, Values DEF Name
  <2> QED
    BY <2>1, <2>2
<1>4. \A i \in Inode : Named(i)' <=> Named(i)
    BY <1>2, <1>3 DEF Named
<1>5. \A x \in Change : Stands(x)' <=> Stands(x)
    BY <1>2, <1>3 DEF Stands
<1>6. EmptyInv'
    BY <1>2, <1>3 DEF Safe, EmptyInv
<1>7. StandInv'
    BY <1>2, <1>3, <1>5 DEF Safe, StandInv, Standing
<1>8. FreshInv'
    BY <1>1, <1>2, <1>3, <1>4, Values DEF Safe, FreshInv, New
<1>9. HeldInv'
    BY <1>1, <1>3 DEF Safe, HeldInv
<1>10. SnapInv' /\ DropInv'
    BY <1>1 DEF SnapInv, DropInv
<1>11. EditorInv'
    BY <1>1, <1>2, <1>4 DEF Safe, EditorInv
<1>12. LateInv'
    BY <1>2, <1>4 DEF Safe, LateInv
<1> QED
    BY <1>6, <1>7, <1>8, <1>9, <1>10, <1>11, <1>12 DEF Safe

\* What a write of the editor does, with the file it writes.
LEMMA WriteEffect ==
    ASSUME TypeOK, NEW e \in Edits, Write(e)
    PROVE  \E file \in Inode, lost \in SUBSET Change :
              /\ file \in {editor.inode, dest, e}
              /\ content'[file].changes = editor.seen \cup {e}
              /\ \A i \in Inode \ {file} : content'[i] = content[i]
              /\ dest' = IF file = e THEN e ELSE dest
              /\ editor'.inode = file
              /\ forgone' = forgone \cup lost
              /\ file # e => \A x \in content[file].changes : x \in content'[file].changes \cup lost
              /\ file = e /\ Document # None =>
                    \A x \in content[Document].changes : x \in content'[file].changes \cup lost
              /\ late' = IF file \in {dest, e} THEN late ELSE late \cup {e}
<1>1. Typed
    BY TypeOKTyped
<1>2. PICK ok \in BOOLEAN, file \in {editor.inode, dest, e} \ {None} :
          LET new == [changes |-> editor.seen \cup {e}, ok |-> ok]
              old == IF file = e THEN Document ELSE file
          IN /\ content' = [content EXCEPT ![file] = new]
             /\ dest' = IF file = e THEN e ELSE dest
             /\ editor' = [inode |-> file, seen |-> new.changes]
             /\ forgone' = forgone \cup
                  (IF old = None THEN {} ELSE content[old].changes \ new.changes)
             /\ late' = IF file \in {dest, e} THEN late ELSE late \cup {e}
    BY DEF Write
<1> DEFINE new == [changes |-> editor.seen \cup {e}, ok |-> ok]
           old == IF file = e THEN Document ELSE file
           lost == IF old = None THEN {} ELSE content[old].changes \ new.changes
<1>3. file \in Inode /\ file # None
    BY <1>1, <1>2, Values DEF Typed
<1>4. /\ content'[file] = new /\ \A i \in Inode \ {file} : content'[i] = content[i]
      /\ editor'.inode = file /\ new.changes = editor.seen \cup {e}
    BY <1>1, <1>2, <1>3 DEF Typed
<1>5. lost \in SUBSET Change
  <2>1. ASSUME NEW n \in Saves, Held(n) PROVE parked[n].inode \in Inode
    BY <2>1, <1>1, NameType DEF Held, Of
  <2>2. Document \in Inode \cup {None}
    BY <1>1, <2>1 DEF Document, Typed
  <2>3. old \in Inode \cup {None}
    BY <1>3, <2>2
  <2>4. old # None => content[old].changes \subseteq Change
    BY <1>1, <2>3 DEF Typed, Content
  <2> QED
    BY <2>4
<1>6. /\ forgone' = forgone \cup lost /\ dest' = IF file = e THEN e ELSE dest
      /\ late' = IF file \in {dest, e} THEN late ELSE late \cup {e}
    BY <1>2
<1>7. old # None => \A x \in content[old].changes : x \in new.changes \cup lost
    OBVIOUS
<1>8. /\ file # e => \A x \in content[file].changes : x \in content'[file].changes \cup lost
      /\ file = e /\ Document # None =>
            \A x \in content[Document].changes : x \in content'[file].changes \cup lost
    BY <1>3, <1>4, <1>7
<1> HIDE DEF lost, old, new
<1> QED
    BY <1>2, <1>3, <1>4, <1>5, <1>6, <1>8

\* What a write of the editor takes the place of, the user has given up.
LEMMA WriteSafe ==
    ASSUME TypeOK, ControlInv, Safe, NEW e \in Edits, Write(e)
    PROVE  Safe'
<1>1. PICK file \in Inode, lost \in SUBSET Change :
              /\ file \in {editor.inode, dest, e}
              /\ content'[file].changes = editor.seen \cup {e}
              /\ \A i \in Inode \ {file} : content'[i] = content[i]
              /\ dest' = IF file = e THEN e ELSE dest
              /\ editor'.inode = file
              /\ forgone' = forgone \cup lost
              /\ file # e => \A x \in content[file].changes : x \in content'[file].changes \cup lost
              /\ file = e /\ Document # None =>
                    \A x \in content[Document].changes : x \in content'[file].changes \cup lost
              /\ late' = IF file \in {dest, e} THEN late ELSE late \cup {e}
    BY WriteEffect
<1>2. /\ UNCHANGED <<parked, kept, store, op, done>> /\ tried' = tried \cup {e}
      /\ e \notin tried /\ e \in Inode /\ e # None /\ file # None
      /\ editor.inode # None \/ dest = None
    BY Values DEF Write
<1>3. New(e)
    BY <1>2 DEF Safe, FreshInv
<1>4. /\ dest \in Inode \cup {None}
      /\ \A n \in Saves : parked[n] # None => Of(n) \in Inode
      /\ \A i \in Inode : content[i].changes \subseteq Change
    BY TypeOKTyped, NameType DEF Typed, Content
<1>5. \A n \in Saves : /\ Held(n)' <=> Held(n)
                       /\ Leftover(n)' <=> Leftover(n)
                       /\ Of(n)' = Of(n) /\ parked'[n] = parked[n]
                       /\ parked[n] # None => Of(n) # e
    BY <1>2, <1>3 DEF Held, Leftover, Of, New, Named
<1>6. /\ \A i \in Inode : Named(i) => Named(i)' \/ i = dest
      /\ \A i \in Inode : Named(i)' => Named(i) \/ i = e
      /\ dest = dest' => \A i \in Inode : Named(i) => Named(i)'
      /\ file = e => Named(e)'
    BY <1>1, <1>2, <1>5 DEF Named
<1>7. \A i \in Inode : editor.inode = i => Named(i)
    BY DEF Safe, EditorInv
<1>8. Named(file)' /\ (file = dest' \/ file # e)
  <2>1. CASE file = e
    BY <1>1, <1>6, <2>1
  <2>2. CASE file # e /\ file = dest
    BY <1>1, <2>2 DEF Named
  <2>3. CASE file # e /\ file # dest
    BY <1>1, <1>6, <1>7, <2>3
  <2> QED
    BY <2>1, <2>2, <2>3
<1>9. /\ dest # None => Document = dest
      /\ dest = None => \A n \in Saves : Held(n) => Document = Of(n)
  <2>1. \A n, m \in Saves : Held(n) /\ Held(m) => n = m
    BY DEF Safe, HeldInv
  <2> QED
    BY <2>1 DEF Document, Of
<1>10. ASSUME NEW x \in Change, Stands(x) PROVE Stands(x)'
  <2>1. CASE x \in forgone
    BY <1>1, <2>1 DEF Stands
  <2>2. CASE dest # None /\ x \in content[dest].changes
    <3>1. CASE file = e
      BY <1>1, <1>2, <1>9, <2>2, <3>1 DEF Stands
    <3>2. CASE file # e /\ file = dest
      BY <1>1, <2>2, <3>2 DEF Stands
    <3>3. CASE file # e /\ file # dest
      BY <1>1, <1>4, <2>2, <3>3 DEF Stands
    <3> QED
      BY <3>1, <3>2, <3>3
  <2>3. ASSUME dest = None, NEW n \in Saves, Held(n), x \in content[Of(n)].changes
        PROVE  Stands(x)'
    <3>1. Of(n) \in Inode /\ Document = Of(n)
      BY <1>4, <1>9, <2>3 DEF Held
    <3>2. CASE file = e
      BY <1>1, <1>2, <2>3, <3>1, <3>2, Values DEF Stands
    <3>3. CASE file # e /\ file = Of(n)
      BY <1>1, <1>5, <2>3, <3>3 DEF Stands
    <3>4. CASE file # e /\ file # Of(n)
      BY <1>1, <1>5, <2>3, <3>1, <3>4 DEF Stands
    <3> QED
      BY <3>2, <3>3, <3>4
  <2> QED
    BY <1>10, <2>1, <2>2, <2>3 DEF Stands
<1>11. e \notin late' => Stands(e)'
    BY <1>1, <1>2 DEF Stands
<1>12. ASSUME NEW x \in Change, Standing(x)' PROVE Standing(x) \/ (x = e /\ e \notin late')
  <2>1. late \subseteq late'
    BY <1>1
  <2> QED
    BY <1>2, <1>5, <1>12, <2>1 DEF Standing
<1>13. StandInv'
    BY <1>10, <1>11, <1>12 DEF Safe, StandInv
<1>14. FreshInv'
  <2>1. \A i \in Inode : New(i) /\ i # e => New(i)'
    <3>1. \A i \in Inode : New(i) /\ i # e => i # file
      BY <1>1 DEF New, Named
    <3> QED
      BY <1>1, <1>6, <3>1 DEF New
  <2>2. \A x \in Saves : x # e
    BY Values
  <2>3. op.save \in Saves \cup {None}
    BY TypeOKTyped DEF Typed, OpType
  <2> QED
    BY <1>2, <2>1, <2>2, <2>3, Values DEF Safe, FreshInv
<1>15. HeldInv'
  <2>1. op.pc \in {"compare", "drop"} => op.name \in Saves
    BY AtName
  <2> QED
    BY <1>1, <1>2, <1>5, <2>1 DEF Safe, HeldInv
<1>16. EmptyInv'
  <2> SUFFICES ASSUME dest' = None, \A n \in Saves : ~Held(n)'
               PROVE  FALSE
    BY DEF EmptyInv
  <2>1. dest = None /\ \A n \in Saves : ~Held(n)
    BY <1>1, <1>2, <1>5
  <2>2. kept = {} /\ \A n \in Saves : parked[n] = None
    BY <2>1 DEF Safe, EmptyInv
  <2>3. file # e /\ file # dest
    BY <1>1, <1>2, <2>1
  <2>4. Named(file)
    BY <1>1, <1>7, <2>3
  <2> QED
    BY <2>2, <2>3, <2>4 DEF Named
<1>17. op.pc \in {"stage", "hold", "check", "link"} => op.save \in Inode /\ op.save # file
  <2>1. op.pc \in {"stage", "hold", "check", "link"} => op.save \in Saves /\ New(op.save)
    BY TypeOKTyped, Values DEF Typed, OpType, ControlInv, Safe, FreshInv
  <2> QED
    BY <1>1, <2>1, Values DEF New, Named
<1>18. SnapInv'
  <2>1. op.pc \in {"hold", "check", "link"} => content'[op.save] = content[op.save]
    BY <1>1, <1>17
  <2>2. op.pc \in {"stage", "hold"} /\ store.snapshot # None =>
            \A x \in store.snapshot.changes : Stands(x)'
    <3>1. op.pc \in {"stage", "hold"} /\ store.snapshot # None => store.snapshot \in Content
      BY TypeOKTyped DEF Typed, ControlInv
    <3>2. op.pc \in {"stage", "hold"} /\ store.snapshot # None => store.snapshot.changes \subseteq Change
      BY <3>1 DEF Content
    <3> QED
      BY <1>10, <3>2 DEF Safe, SnapInv
  <2>3. op.pc = "link" /\ dest' = None /\ store.snapshot # None =>
          \A x \in Change : Standing(x)' => x \in forgone' \cup store.snapshot.changes
    <3> SUFFICES ASSUME op.pc = "link", dest' = None, store.snapshot # None,
                        NEW x \in Change, Standing(x)'
                 PROVE  x \in forgone' \cup store.snapshot.changes
      OBVIOUS
    <3>1. dest = None /\ file # e /\ e \in late'
      BY <1>1, <1>2
    <3>2. Standing(x)
      BY <1>12, <3>1
    <3>3. x \in forgone \cup store.snapshot.changes
      BY <3>1, <3>2 DEF Safe, SnapInv
    <3> QED
      BY <1>1, <3>3
  <2>4. op.pc \in {"retire", "commit"} => \A x \in Change : x = op.save => Stands(x)'
    BY <1>10 DEF Safe, SnapInv
  <2>5. op.pc \in {"retire", "commit"} => op.save \in Change
    BY TypeOKTyped, Values DEF Typed, OpType, ControlInv, Inode
  <2> QED
    BY <1>2, <2>1, <2>2, <2>3, <2>4, <2>5 DEF Safe, SnapInv
<1>19. DropInv'
  <2> SUFFICES ASSUME op.pc \in {"drop", "unlink"}, NEW x \in content'[Of(op.name)].changes
               PROVE  Stands(x)'
    BY <1>2, <1>5 DEF DropInv, Of
  <2>1. op.name \in Saves /\ parked[op.name] # None /\ Of(op.name) \in Inode
    BY AtName, Values
  <2>2. CASE Of(op.name) = file
    <3>1. file # e
      BY <1>5, <2>1, <2>2
    <3>2. file = dest
      <4>1. op.pc = "unlink" => Held(op.name) /\ dest # None
        BY DEF ControlInv
      <4>2. op.pc = "drop" => Leftover(op.name)
        BY DEF ControlInv
      <4>3. op.pc = "drop" /\ Held(op.name) => dest # None
        BY DEF Safe, HeldInv
      <4>4. file = editor.inode => dest = Of(op.name) \/ (Held(op.name) /\ dest = None)
        BY <2>1, <2>2, <4>1, <4>2 DEF Safe, EditorInv, Held_pc
      <4> QED
        BY <1>1, <2>2, <3>1, <4>1, <4>3, <4>4
    <3> QED
      BY <1>1, <1>2, <2>2, <3>1, <3>2 DEF Stands
  <2>3. CASE Of(op.name) # file
    <3>1. x \in content[Of(op.name)].changes /\ x \in Change
      BY <1>1, <1>4, <2>1, <2>3
    <3>2. Stands(x)
      BY <3>1 DEF Safe, DropInv
    <3> QED
      BY <1>10, <3>1, <3>2
  <2> QED
    BY <2>2, <2>3
<1>20. EditorInv'
  <2>1. \A i \in Inode : editor'.inode = i => Named(i)'
    BY <1>1, <1>8
  <2>2. ASSUME NEW n \in Saves, parked[n] # None, file = Of(n),
               Leftover(n) \/ (Held(n) /\ op.pc \in Held_pc \ {"retire"})
        PROVE  op.pc = "down" \/ dest' = file \/ (Held(n) /\ dest' = None)
    <3>1. file # e
      BY <1>5, <2>2
    <3>2. CASE file = dest
      BY <1>1, <3>1, <3>2
    <3>3. CASE file = editor.inode
      BY <1>1, <2>2, <3>1, <3>3 DEF Safe, EditorInv
    <3> QED
      BY <1>1, <3>1, <3>2, <3>3
  <2> QED
    BY <1>1, <1>2, <1>5, <2>1, <2>2 DEF EditorInv
<1>21. LateInv'
  <2> SUFFICES ASSUME NEW x \in late', x \notin forgone'
               PROVE  \E i \in Inode : Named(i)' /\ x \in content'[i].changes
    BY DEF LateInv
  <2>1. CASE x = e
    BY <1>1, <1>8, <2>1
  <2>2. CASE x # e
    <3>1. x \in late /\ x \notin forgone /\ x \notin lost
      BY <1>1, <2>2
    <3>2. PICK i \in Inode : Named(i) /\ x \in content[i].changes
      BY <3>1 DEF Safe, LateInv
    <3>3. CASE i = file
      <4>1. file # e
        BY <1>3, <3>2, <3>3 DEF New
      <4> QED
        BY <1>1, <1>8, <3>1, <3>2, <3>3, <4>1
    <3>4. CASE i # file /\ Named(i)'
      BY <1>1, <3>2, <3>4
    <3>5. CASE i # file /\ ~Named(i)'
      <4>1. i = dest /\ file = e
        BY <1>1, <1>6, <3>2, <3>5
      <4>2. Document = dest /\ dest # None
        BY <1>9, <4>1, Values
      <4> QED
        BY <1>1, <1>8, <3>1, <3>2, <4>1, <4>2
    <3> QED
      BY <3>3, <3>4, <3>5
  <2> QED
    BY <2>1, <2>2
<1> QED
    BY <1>13, <1>14, <1>15, <1>16, <1>18, <1>19, <1>20, <1>21 DEF Safe


----------------------------------------------------------------------------
(* The theorems.                                                           *)

\* Calls fail and are not forgotten.
LEMMA FailedGrows ==
    ASSUME [Next]_vars
    PROVE  failed \subseteq failed'
<1>1. CASE Step
    BY <1>1 DEF Step, List, Recover, Compare, Drop, PutBack, Unlink, Read, Stage, Hold,
                Check, Link, Retire, Commit, Works, Fails
<1>2. CASE ~Step
    BY <1>2 DEF Next, Start, Reload, Update, Save, Mutate, Crash, Open, Write, vars
<1> QED
    BY <1>1, <1>2

\* No step leaves the types, and the queue stays in order.
LEMMA ControlStep ==
    ASSUME TypeOK, ControlInv, [Next]_vars
    PROVE  TypeOK' /\ ControlInv'
<1>1. CASE Step
    BY <1>1, ListControl, RecoverControl, CompareControl, DropControl, PutBackControl,
       UnlinkControl, ReadControl, StageControl, HoldControl, CheckControl, LinkControl,
       RetireControl, CommitControl
    DEF Step
<1>2. CASE Start \/ Reload \/ Crash \/ Open
    BY <1>2, StartControl, ReloadControl, CrashControl, OpenControl
<1>3. CASE \E s \in Saves : Update(s) \/ Save(s)
    BY <1>3, MutateControl DEF Update, Save
<1>4. CASE \E e \in Edits : Write(e)
    BY <1>4, WriteControl
<1>5. CASE UNCHANGED vars
  <2>1. UNCHANGED <<content, dest, parked, kept, editor, store, op, tried, done, forgone,
                    late, failed, troubles>>
    BY <1>5 DEF vars, disk, history
  <2>2. TypeOK'
    <3>1. Typed'
      BY <2>1, TypeOKTyped DEF Typed
    <3>2. /\ op.pc \in {"compare", "drop", "put back", "unlink", "check", "retire"}
               => op.name # None /\ parked[op.name] # None
          /\ failed \subseteq Faults /\ troubles \in 0 .. MaxTroubles
      BY DEF TypeOK
    <3> QED
      BY <2>1, <3>1, <3>2 DEF TypeOK, Typed, OpType, PC
  <2>3. ControlInv'
    BY <2>1 DEF ControlInv, Held, Leftover
  <2> QED
    BY <2>2, <2>3
<1> QED
    BY <1>1, <1>2, <1>3, <1>4, <1>5 DEF Next

\* Until a call fails that leaves old files unseen, no step disturbs what
\* keeps the document.
LEMMA SafeStep ==
    ASSUME TypeOK, ControlInv, Safe, Good', [Next]_vars
    PROVE  Safe'
<1>1. CASE Step
    BY <1>1, ListSafe, RecoverSafe, CompareSafe, DropSafe, PutBackSafe, UnlinkSafe,
       ReadSafe, StageSafe, HoldSafe, CheckSafe, LinkSafe, RetireSafe, CommitSafe
    DEF Step
<1>2. CASE Start \/ Reload \/ Crash \/ Open
    BY <1>2, StartSafe, ReloadSafe, CrashSafe, OpenSafe
<1>3. CASE \E s \in Saves : Update(s) \/ Save(s)
    BY <1>3, MutateSafe DEF Update, Save
<1>4. CASE \E e \in Edits : Write(e)
    BY <1>4, WriteSafe
<1>5. CASE UNCHANGED vars
  <2>1. UNCHANGED <<content, dest, parked, kept, editor, store, op, tried, done, forgone, late>>
    BY <1>5 DEF vars, disk, history
  <2>2. UNCHANGED <<disk, history>>
    BY <1>5 DEF vars
  <2>3. EmptyInv' /\ StandInv' /\ LateInv'
    BY <2>2, QuietSafe
  <2>4. FreshInv' /\ HeldInv'
    BY <2>1 DEF Safe, FreshInv, HeldInv, New, Named, Held, Leftover, Of
  <2>5. SnapInv' /\ DropInv'
    BY <2>1 DEF Safe, SnapInv, DropInv, Standing, Stands, Held, Of
  <2>6. EditorInv'
    BY <2>1 DEF Safe, EditorInv, Named, Held, Leftover, Of
  <2> QED
    BY <2>3, <2>4, <2>5, <2>6 DEF Safe
<1> QED
    BY <1>1, <1>2, <1>3, <1>4, <1>5 DEF Next

\* While the directory is listed, no step leaves a document away from its
\* path without someone who brings it back.
LEMMA ReturnStep ==
    ASSUME TypeOK, ControlInv, ReturnInv, [Next]_vars
    PROVE  ReturnInv'
<1>1. Typed /\ op \in OpType
    BY TypeOKTyped DEF Typed
<1>2. failed \subseteq failed'
    BY FailedGrows
<1>3. CASE UNCHANGED <<dest, parked>> /\ Start
  <2>1. op'.pc = "list" /\ op'.todo = op.todo
    BY <1>1, <1>3, GotoFields DEF Start, PC
  <2> QED
    BY <1>2, <1>3, <2>1 DEF ReturnInv, Held, Leftover, Start, ControlInv
<1>4. CASE Reload \/ \E s \in Saves : Update(s) \/ Save(s)
  <2>1. op'.pc = "list" /\ op'.todo = op.todo /\ UNCHANGED <<dest, parked>> /\ op.pc = "idle"
    BY <1>1, <1>4, GotoFields DEF Reload, Update, Save, Mutate, PC, OpType, disk
  <2> QED
    BY <1>2, <2>1 DEF ReturnInv, Held, Leftover, ControlInv
<1>5. CASE List
  <2>1. PICK names \in {{n \in Saves : Leftover(n)}, {}} :
          /\ names = {n \in Saves : Leftover(n)} \/ Fails("list")
          /\ op' = [op EXCEPT !.todo = names, !.pc = IF names = {} THEN "read" ELSE "recover"]
    BY <1>5 DEF List
  <2>2. /\ op'.todo = names /\ op'.pc \in {"read", "recover"}
        /\ UNCHANGED <<dest, parked>> /\ op.pc = "list" /\ op.todo = {}
    BY <1>1, <1>5, <2>1 DEF List, OpType, disk, ControlInv
  <2>3. "list" \notin failed' => op'.todo = {n \in Saves : Leftover(n)}
    BY <2>1, <2>2 DEF Fails
  <2> QED
    BY <1>2, <2>2, <2>3 DEF ReturnInv, Held, Leftover
<1>6. CASE \E n \in Saves : Recover(n)
  <2>1. PICK n \in Saves : Recover(n)
    BY <1>6
  <2>2. /\ op'.todo = op.todo /\ op'.name = n /\ n \in op.todo /\ op.pc = "recover"
        /\ op'.pc = IF Held(n) /\ dest = None THEN "put back" ELSE "compare"
        /\ UNCHANGED <<dest, parked>>
    BY <1>1, <2>1 DEF Recover, OpType, disk
  <2> QED
    BY <1>2, <2>2 DEF ReturnInv, Held, Leftover
<1>7. CASE Compare \/ Drop
  <2>1. /\ op.name \in Saves /\ op.pc \in {"compare", "drop"} /\ dest' = dest
        /\ Held(op.name) => dest # None
    BY <1>7, AtName DEF Compare, Drop, ReturnInv
  <2>2. \A n \in Saves \ {op.name} : Held(n)' <=> Held(n)
    BY <1>1, <1>7, <2>1 DEF Typed, Compare, Drop, Held
  <2>3. CASE Goto("drop") /\ UNCHANGED parked
    <3>1. op'.pc = "drop" /\ op'.name = op.name /\ op'.todo = op.todo
      BY <1>1, <2>3, GotoFields DEF PC
    <3> QED
      BY <1>2, <2>1, <2>3, <3>1 DEF ReturnInv, Held, Leftover
  <2>4. CASE NextName
    <3>1. /\ op'.todo = op.todo \ {op.name} /\ op'.pc \in {"read", "recover"}
      BY <1>1, <2>4, NextNameFields
    <3>2. op.todo \subseteq Saves
      BY <1>1 DEF OpType
    <3>3. ASSUME "list" \notin failed', dest' = None, \E n \in Saves : Held(n)'
          PROVE  \E n \in op'.todo : Held(n)'
      <4>1. dest = None /\ ~Held(op.name) /\ "list" \notin failed
        BY <1>2, <2>1, <3>3
      <4>2. \A n \in Saves : Held(n)' => Held(n)
        BY <1>1, <1>7, <2>1 DEF Typed, Compare, Drop, Held
      <4>3. PICK n \in op.todo : Held(n)
        BY <2>1, <3>3, <4>1, <4>2 DEF ReturnInv
      <4> QED
        BY <2>2, <3>1, <3>2, <4>1, <4>3
    <3> QED
      BY <3>1, <3>3 DEF ReturnInv
  <2> QED
    BY <1>7, <2>3, <2>4 DEF Compare, Drop
<1>8. CASE PutBack
  <2>1. CASE dest' # None
    BY <2>1, PutBackEffect DEF ReturnInv
  <2>2. CASE dest' = None
    <3>1. /\ op.name \in Saves /\ Of(op.name) \in Inode /\ Held(op.name)
          /\ parked[op.name] \in Name
      BY <1>1, <1>8, PutBackEffect, NameType DEF Held
    <3>2. /\ op'.pc = "idle" /\ op'.todo = {} /\ dest = None /\ dest' # Of(op.name)
          /\ parked' = [parked EXCEPT ![op.name] = [parked[op.name] EXCEPT !.live = FALSE]]
      <4>1. dest' # Of(op.name)
        BY <2>2, <3>1, Values
      <4> QED
        BY <1>8, <2>2, <4>1, PutBackEffect
    <3>3. /\ parked'[op.name] # None /\ ~parked'[op.name].live
          /\ parked'[op.name].kind = "held"
      <4>1. parked'[op.name] = [parked[op.name] EXCEPT !.live = FALSE]
        BY <1>1, <3>1, <3>2 DEF Typed
      <4>2. [parked[op.name] EXCEPT !.live = FALSE] \in Name
        BY <3>1 DEF Name
      <4> QED
        BY <3>1, <4>1, <4>2, Values DEF Name, Held
    <3>4. \A n \in Saves : n = op.name => Held(n)' /\ Leftover(n)'
      BY <3>3, Values DEF Held, Leftover
    <3>5. "put back" \in failed'
      BY <1>8, <3>2 DEF PutBack, Fails, Of
    <3> QED
      BY <3>1, <3>2, <3>4, <3>5 DEF ReturnInv
  <2> QED
    BY <2>1, <2>2
<1>9. CASE Unlink
  <2>1. dest' # None
    BY <1>9 DEF Unlink, ControlInv
  <2>2. op'.pc \in {"idle", "read", "recover"}
    BY <1>1, <1>9, ResumesFields DEF Unlink
  <2> QED
    BY <2>1, <2>2 DEF ReturnInv
<1>10. CASE Read \/ Stage
  <2>1. /\ op.pc \in {"read", "stage"} /\ op.todo = {} /\ UNCHANGED <<dest, parked>>
        /\ op'.pc \in {"idle", "stage", "hold", "link"}
    BY <1>1, <1>10, GotoFields, OverFields DEF Read, Stage, ControlInv, PC, disk
  <2>2. "list" \notin failed /\ dest = None => \A n \in Saves : ~Held(n)
    BY <2>1 DEF ReturnInv
  <2> QED
    BY <1>2, <2>1, <2>2 DEF ReturnInv, Held
<1>11. CASE Hold
  <2>1. op.pc = "hold" /\ op.todo = {} /\ op'.todo = {}
    BY <1>11, HoldEffect DEF Hold, ControlInv
  <2>2. CASE op'.pc = "check"
    BY <2>1, <2>2 DEF ReturnInv
  <2>3. CASE UNCHANGED <<dest, parked>> /\ op'.pc = "idle"
    BY <1>2, <2>1, <2>3 DEF ReturnInv, Held
  <2> QED
    BY <1>11, <2>2, <2>3, HoldEffect
<1>12. CASE Check
  <2>1. op'.pc \in {"link", "put back"} /\ op'.todo = op.todo
    BY <1>1, <1>12, GotoFields DEF Check, PC
  <2>2. op.todo = {} /\ store'.snapshot # None
    BY <1>12 DEF Check, ControlInv
  <2> QED
    BY <2>1, <2>2 DEF ReturnInv
<1>13. CASE Link
  <2>1. CASE dest' # None
    BY <2>1, <1>13, LinkEffect DEF ReturnInv, Published
  <2>2. CASE dest' = None /\ op'.pc = "put back"
    BY <1>13, <2>2, LinkEffect DEF ReturnInv
  <2>3. CASE dest' = dest /\ op'.pc = "idle" /\ store.snapshot = None
    BY <1>2, <1>13, <2>3, LinkEffect DEF ReturnInv, Held, Link
  <2> QED
    BY <1>13, <2>1, <2>2, <2>3, LinkEffect, Values
<1>14. CASE Retire \/ Commit
  <2>1. op'.pc \in {"commit", "idle"} /\ dest' # None
    BY <1>1, <1>14, GotoFields, OverFields DEF Retire, Commit, ControlInv, PC, disk
  <2> QED
    BY <2>1 DEF ReturnInv
<1>15. CASE Crash
  <2>1. op'.pc = "down"
    BY <1>15 DEF Crash, Down
  <2>2. \A n \in Saves : Held(n)' => Leftover(n)'
    <3> SUFFICES ASSUME NEW n \in Saves, parked'[n] # None PROVE ~parked'[n].live
      BY DEF Held, Leftover
    <3>1. parked[n] \in Name /\ parked'[n] = [parked[n] EXCEPT !.live = FALSE]
      BY <1>1, <1>15, NameType DEF Crash
    <3> QED
      BY <3>1 DEF Name
  <2> QED
    BY <2>1, <2>2 DEF ReturnInv
<1>16. CASE Open \/ UNCHANGED vars
  <2>1. UNCHANGED <<dest, parked, op, store>>
    BY <1>16 DEF Open, vars, disk
  <2> QED
    BY <1>2, <2>1 DEF ReturnInv, Held, Leftover
<1>17. CASE \E e \in Edits : Write(e)
  <2>1. PICK e \in Edits : Write(e)
    BY <1>17
  <2>2. UNCHANGED <<parked, op, store>> /\ (dest # None => dest' # None)
    BY <2>1, Values DEF Write
  <2> QED
    BY <1>2, <2>2 DEF ReturnInv, Held, Leftover
<1> QED
    BY <1>3, <1>4, <1>5, <1>6, <1>7, <1>8, <1>9, <1>10, <1>11, <1>12, <1>13, <1>14,
       <1>15, <1>16, <1>17
    DEF Next, Step, Start, disk

\* It holds at the beginning.
LEMMA InitSafe == Init => Safe
<1> SUFFICES ASSUME Init PROVE Safe
    OBVIOUS
<1>1. /\ \A n \in Saves : parked[n] = None
      /\ kept = {} /\ done = {} /\ forgone = {} /\ late = {}
      /\ op.pc = "down" /\ op.save = None /\ op.todo = {} /\ op.name = None
      /\ editor.inode = None /\ dest \in {First, None}
      /\ tried = IF dest = None THEN {} ELSE {First}
    BY DEF Init, Down, Closed
<1>2. First \in Inode /\ content[First].changes = {First} /\ First # None /\ First \notin Edits
    BY Values DEF Init
<1>3. FreshInv
    BY <1>1, <1>2, Values DEF FreshInv, New, Named
<1>4. HeldInv /\ SnapInv /\ DropInv
    BY <1>1 DEF HeldInv, SnapInv, DropInv, Held, Leftover
<1>5. EmptyInv
    BY <1>1 DEF EmptyInv
<1>6. StandInv
    BY <1>1, <1>2 DEF StandInv, Standing, Stands
<1>7. EditorInv /\ LateInv
    BY <1>1, Values DEF EditorInv, LateInv
<1> QED
    BY <1>3, <1>4, <1>5, <1>6, <1>7 DEF Safe

\* The inductive invariant holds in every reachable state.
THEOREM Invariance == Spec => []IInv
<1>1. Init => IInv
  <2>1. Init => ReturnInv
    BY DEF Init, Down, ReturnInv, Held
  <2> QED
    BY <2>1, InitControl, InitSafe DEF IInv
<1>2. IInv /\ [Next]_vars => IInv'
  <2> SUFFICES ASSUME IInv, [Next]_vars PROVE IInv'
    OBVIOUS
  <2>1. TypeOK' /\ ControlInv'
    BY ControlStep DEF IInv
  <2>2. Good' => Good
    BY FailedGrows DEF Good
  <2>3. Good' => Safe'
    BY <2>2, SafeStep DEF IInv
  <2>4. ReturnInv'
    BY ReturnStep DEF IInv
  <2> QED
    BY <2>1, <2>3, <2>4 DEF IInv
<1> QED
    BY <1>1, <1>2, PTL DEF Spec

\* TypeOK: every reachable state has its types, and an operation that works
\* on a held name has one.
THEOREM Types == Spec => []TypeOK
<1>1. IInv => TypeOK
    BY DEF IInv
<1> QED
    BY <1>1, Invariance, PTL

\* DocumentStands: however many saves, edits, crashes and failures there are,
\* none of them Unseeing, the document holds every acknowledged save and every
\* edit at its path that no one wrote over.
THEOREM Document_stands == Spec => []DocumentStands
<1>1. IInv => DocumentStands
  <2> SUFFICES ASSUME IInv, Good,
                      NEW x \in (done \cup (tried \cap Edits)) \ (late \cup forgone)
               PROVE  Document # None /\ x \in content[Document].changes
    BY DEF DocumentStands, Good
  <2>1. Typed /\ Safe
    BY TypeOKTyped DEF IInv
  <2>2. x \in Change /\ Standing(x) /\ x \notin forgone
    BY <2>1, Values DEF Typed, Standing, Inode
  <2>3. Stands(x)
    BY <2>1, <2>2 DEF Safe, StandInv
  <2>4. CASE dest # None /\ x \in content[dest].changes
    BY <2>4 DEF Document
  <2>5. ASSUME dest = None, NEW n \in Saves, Held(n), x \in content[Of(n)].changes
        PROVE  Document # None /\ x \in content[Document].changes
    <3>1. \A m \in Saves : Held(m) => m = n
      BY <2>1, <2>5 DEF Safe, HeldInv
    <3>2. Document = Of(n)
      BY <2>5, <3>1 DEF Document, Of
    <3> QED
      BY <2>1, <2>5, <3>2, NameType, Values DEF Held
  <2> QED
    BY <2>2, <2>3, <2>4, <2>5 DEF Stands
<1> QED
    BY <1>1, Invariance, PTL

\* NothingLost: every change of the user and every acknowledged save is in a
\* file that has a name, unless the user wrote over it, until an Unseeing call
\* fails.
THEOREM Nothing_lost == Spec => []NothingLost
<1>1. IInv => NothingLost
  <2> SUFFICES ASSUME IInv, Good,
                      NEW x \in (tried \cap (Edits \cup {First})) \cup done, x \notin forgone
               PROVE  \E i \in Files : x \in content[i].changes
    BY DEF NothingLost, Good
  <2>1. Typed /\ Safe
    BY TypeOKTyped DEF IInv
  <2>2. \A i \in Inode : Named(i) => i \in Files
    BY Values DEF Named, Files, Of
  <2>3. CASE x \in late
    BY <2>1, <2>2, <2>3 DEF Safe, LateInv
  <2>4. CASE x \notin late
    <3>1. x \in Change /\ Standing(x)
      BY <2>1, <2>4, Values DEF Typed, Standing, Inode
    <3>2. Stands(x)
      BY <2>1, <3>1 DEF Safe, StandInv
    <3>3. CASE dest # None /\ x \in content[dest].changes
      BY <2>1, <3>3 DEF Typed, Files
    <3>4. ASSUME NEW n \in Saves, Held(n), x \in content[Of(n)].changes
          PROVE  \E i \in Files : x \in content[i].changes
      BY <2>1, <2>2, <3>4, NameType DEF Held, Named
    <3> QED
      BY <3>2, <3>3, <3>4 DEF Stands
  <2> QED
    BY <2>3, <2>4
<1> QED
    BY <1>1, Invariance, PTL


\* DocumentReturns: a document taken from its path is back when the operation
\* is over, and no save begins a new one in its absence, until a restoration
\* fails or the names cannot be listed.
THEOREM Document_returns == Spec => []DocumentReturns
<1>1. IInv => DocumentReturns
  <2> SUFFICES ASSUME IInv PROVE DocumentReturns
    OBVIOUS
  <2>1. ASSUME dest = None, Document # None PROVE \E n \in Saves : Held(n)
    BY <2>1 DEF Document
  <2>2. op.pc \in {"idle", "stage", "link"} => op.todo = {}
    BY DEF IInv, ControlInv
  <2> QED
    BY <2>1, <2>2 DEF IInv, ReturnInv, DocumentReturns
<1> QED
    BY <1>1, Invariance, PTL

===============================================================================
