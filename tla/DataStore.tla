------------------------------- MODULE DataStore -------------------------------
(***************************************************************************)
(* A JSON file that the application and its user both write (class         *)
(* DataStore of services/data-store.ts with rejectExternalChanges, as      *)
(* portable-config-core.ts makes three of them).  A save renames the file  *)
(* it has read to a held name, looks whether it is still what was read,    *)
(* and links the new one where the old one was, so that an editor that     *)
(* comes in between wins.  The old file stays beside it for an editor      *)
(* that still has it open; the next start compares it with the hash in     *)
(* its name.  What a crash leaves at a held name is put back by the next   *)
(* read.                                                                   *)
(*                                                                         *)
(* A file is an inode and the names that lead to it.  A step of the store  *)
(* is one change of the directory with the reads before it; the editor and *)
(* a crash come at any point.                                              *)
(***************************************************************************)
EXTENDS Integers, FiniteSets

CONSTANTS
    Edits,      \* saves of the editor
    Saves,      \* mutations of the application, one held name each
    First,      \* what the file was at the beginning
    None,
    Unseen,     \* the diskSnapshot of a file that was not read
    Faults,     \* the calls of the file system that may fail
    MaxTroubles \* a bound on faults and crashes

Change == Edits \cup Saves \cup {First}

\* The file system calls of the store that may fail, by what they are for.
FaultKinds == {"list", "put back", "unlink", "candidate", "read", "stage",
               "hold", "check", "link", "sync", "retire"}

\* Each change makes at most one file, named by it.
Inode == Change
\* What a document says, and whether it parses; a hash stands for it.
Content == [changes : SUBSET Change, ok : BOOLEAN]
\* A name made by a publication: the hash in it, what it means, and whether
\* it is in liveHeldFiles.
Name == [inode : Inode, hash : Content, kind : {"held", "previous"},
         live : BOOLEAN]

ASSUME DataStoreAssumption ==
    /\ Edits \cap Saves = {} /\ First \notin Edits \cup Saves
    /\ None \notin Change \cup Content \cup Name
    /\ Unseen \notin Content \cup {None}
    /\ Faults \subseteq FaultKinds
    /\ MaxTroubles \in Nat

VARIABLES
    content,  \* what is in a file
    dest,     \* the file at the path of the store
    parked,   \* held and predecessor names, by the save that made them
    kept,     \* files with a conflict name
    editor,   \* the file the editor has open, and what it holds
    store,    \* cache, diskSnapshot and corrupt
    op,       \* where the operation of the mutation queue stands
    tried,    \* changes made or begun
    done,     \* saves that were acknowledged
    forgone,  \* changes that a write of the editor took the place of
    late,     \* edits of a file that was not at the path of the store any more
    failed,   \* calls that failed
    troubles

disk == <<content, dest, parked, kept>>
history == <<tried, done, forgone, late>>
vars == <<disk, editor, store, op, history, failed, troubles>>

Closed == [inode |-> None, seen |-> {}]
Unread == [changes |-> {}, snapshot |-> Unseen, corrupt |-> TRUE]
Down == [pc |-> "down", save |-> None, name |-> None, todo |-> {},
         whole |-> FALSE, torn |-> FALSE]

TypeOK ==
    /\ content \in [Inode -> Content]
    /\ dest \in Inode \cup {None}
    /\ parked \in [Saves -> Name \cup {None}]
    /\ kept \subseteq Inode
    /\ editor \in [inode : Inode \cup {None}, seen : SUBSET Change]
    /\ store \in [changes : SUBSET Change, corrupt : BOOLEAN,
                  snapshot : Content \cup {None, Unseen}]
    /\ op \in [pc : {"down", "idle", "list", "recover", "compare", "drop",
                     "put back", "unlink", "read", "stage", "hold", "check",
                     "link", "retire", "commit"},
               save : Saves \cup {None}, name : Saves \cup {None},
               todo : SUBSET Saves, whole : BOOLEAN, torn : BOOLEAN]
    /\ op.pc \in {"compare", "drop", "put back", "unlink", "check", "retire"}
           => op.name # None /\ parked[op.name] # None
    /\ tried \subseteq Change /\ done \subseteq Saves
    /\ forgone \subseteq Change /\ late \subseteq Edits
    /\ failed \subseteq Faults
    /\ troubles \in 0 .. MaxTroubles

Init ==
    /\ content = [i \in Inode |-> [changes |-> {i}, ok |-> TRUE]]
    /\ dest \in {First, None}
    /\ parked = [s \in Saves |-> None]
    /\ kept = {}
    /\ editor = Closed
    /\ store = Unread
    /\ op = Down
    /\ tried = (IF dest = None THEN {} ELSE {First})
    /\ done = {} /\ forgone = {} /\ late = {}
    /\ failed = {}
    /\ troubles = 0

----------------------------------------------------------------------------
(* Pieces.                                                                 *)

\* A call fails.
Fails(kind) ==
    /\ kind \in Faults /\ troubles < MaxTroubles
    /\ failed' = failed \cup {kind}
    /\ troubles' = troubles + 1
Works == UNCHANGED <<failed, troubles>>

\* A file that was taken from the path.
Held(n) == parked[n] # None /\ parked[n].kind = "held"
\* Would take the predecessors of this process for those of an earlier one.
Mutant_Leftover(n) == parked[n] # None
\* A name that no publication of this process has made, or that it gave up.
Leftover(n) == parked[n] # None /\ ~parked[n].live

Goto(pc) == op' = [op EXCEPT !.pc = pc]
Over == op' = [Down EXCEPT !.pc = "idle"]
\* The next name of a recovery, or what follows it.
NextName ==
    LET rest == op.todo \ {op.name} IN
    op' = [op EXCEPT !.todo = rest, !.name = None,
                     !.pc = IF rest = {} THEN "read" ELSE "recover"]

\* A restoration is over: of a recovery, or of a save that was refused.
Resumes == IF op.todo # {} THEN NextName ELSE Over

----------------------------------------------------------------------------
(* Operations of the mutation queue.                                       *)

\* The first load.  By then an editor has closed what it opened before.
Start ==
    /\ op.pc = "down"
    /\ Goto("list")
    /\ editor' = Closed
    /\ UNCHANGED <<disk, store, history, failed, troubles>>

\* reload.
Reload ==
    /\ op.pc = "idle"
    /\ Goto("list")
    /\ UNCHANGED <<disk, editor, store, history, failed, troubles>>

\* update and save reload first.  An update is a change of what it reads, a
\* save is a whole document, made from what was read before.
Mutate(s, whole) ==
    /\ op.pc = "idle" /\ s \notin tried
    /\ op' = [op EXCEPT !.pc = "list", !.save = s, !.whole = whole]
    /\ tried' = tried \cup {s}
    /\ UNCHANGED <<disk, editor, store, done, forgone, late, failed, troubles>>
Update(s) == Mutate(s, FALSE)
Save(s) == Mutate(s, TRUE)

\* recoverHeldFiles: a directory that cannot be listed holds nothing.
List ==
    /\ op.pc = "list"
    /\ \E names \in {{n \in Saves : Leftover(n)}, {}} :
        /\ \/ names = {n \in Saves : Leftover(n)} /\ Works
           \/ names = {} /\ Fails("list")
        /\ op' = [op EXCEPT !.todo = names,
                            !.pc = IF names = {} THEN "read" ELSE "recover"]
    /\ UNCHANGED <<disk, editor, store, history>>

\* One name, in an order the hashes give: a held file comes back to a path
\* that is free, any other is compared with its hash.
Recover(n) ==
    /\ op.pc = "recover" /\ n \in op.todo
    /\ op' = [op EXCEPT !.name = n,
                        !.pc = IF Held(n) /\ dest = None THEN "put back"
                               ELSE "compare"]
    /\ UNCHANGED <<disk, editor, store, history, failed, troubles>>

Compare ==
    /\ op.pc = "compare"
    /\ LET p == parked[op.name] IN
       \/ content[p.inode] = p.hash /\ Goto("drop")
          /\ Works /\ UNCHANGED <<parked, kept>>
       \/ /\ content[p.inode] # p.hash
          /\ parked' = [parked EXCEPT ![op.name] = None]
          /\ kept' = kept \cup {p.inode}
          /\ NextName /\ Works
       \/ Fails("candidate") /\ NextName /\ UNCHANGED <<parked, kept>>
    /\ UNCHANGED <<content, dest, editor, store, history>>

Drop ==
    /\ op.pc = "drop"
    /\ \/ parked' = [parked EXCEPT ![op.name] = None] /\ Works
       \/ UNCHANGED parked /\ Fails("candidate")
    /\ NextName
    /\ UNCHANGED <<content, dest, kept, editor, store, history>>

\* restoreHeldFile links the file where it was, unless there is another one
\* by now.  A failure makes a load read-only; a save lets it lie.
PutBack ==
    /\ op.pc = "put back"
    /\ LET i == parked[op.name].inode IN
       \/ /\ dest = None
          /\ dest' = i /\ Goto("unlink")
          /\ Works /\ UNCHANGED <<parked, kept, store>>
       \/ /\ dest # None
          /\ parked' = [parked EXCEPT ![op.name] = None]
          /\ kept' = kept \cup {i}
          /\ Resumes /\ Works /\ UNCHANGED <<dest, store>>
       \/ /\ Fails("put back")
          /\ parked' = [parked EXCEPT ![op.name].live = FALSE]
          /\ store' = IF op.todo = {} THEN store ELSE Unread
          /\ Over /\ UNCHANGED <<dest, kept>>
    /\ UNCHANGED <<content, editor, history>>

Unlink ==
    /\ op.pc = "unlink"
    /\ parked' = [parked EXCEPT ![op.name] = None]
    /\ \/ Works /\ UNCHANGED kept
       \/ Fails("unlink") /\ kept' = kept \cup {parked[op.name].inode}
    /\ Resumes
    /\ UNCHANGED <<content, dest, editor, store, history>>

\* A file that does not parse, or that cannot be read, is not written, and
\* one that changed has no place in a whole document.
MayWrite ==
    /\ op.save # None
    /\ ~store'.corrupt
    /\ op.whole => store'.changes = store.changes

\* The read of load.
Read ==
    /\ op.pc = "read"
    /\ \/ /\ dest = None /\ Works
          /\ store' = [changes |-> {}, snapshot |-> None, corrupt |-> FALSE]
       \/ /\ dest # None /\ Works
          /\ LET c == content[dest] IN
             store' = [changes |-> IF c.ok THEN c.changes ELSE {},
                       snapshot |-> c, corrupt |-> ~c.ok]
       \/ dest # None /\ Fails("read") /\ store' = Unread
    /\ IF MayWrite THEN Goto("stage") ELSE Over
    /\ UNCHANGED <<disk, editor, history>>

----------------------------------------------------------------------------
(* The publication.                                                        *)

\* writeNow writes the new document to a file of its own.
Stage ==
    /\ op.pc = "stage"
    /\ content' = [content EXCEPT ![op.save] =
                      [changes |-> store.changes \cup {op.save}, ok |-> TRUE]]
    /\ \/ Works /\ Goto(IF store.snapshot = None THEN "link" ELSE "hold")
       \/ Fails("stage") /\ Over
    /\ UNCHANGED <<dest, parked, kept, editor, store, history>>

\* publishProtected takes the file from its path.
Hold ==
    /\ op.pc = "hold"
    /\ \/ /\ dest # None
          /\ parked' = [parked EXCEPT ![op.save] =
                 [inode |-> dest, hash |-> store.snapshot, kind |-> "held",
                  live |-> TRUE]]
          /\ dest' = None
          /\ op' = [op EXCEPT !.pc = "check", !.name = op.save]
          /\ Works
       \/ dest = None /\ Over /\ Works /\ UNCHANGED <<dest, parked>>
       \/ Fails("hold") /\ Over /\ UNCHANGED <<dest, parked>>
    /\ UNCHANGED <<content, kept, editor, store, history>>

\* Would not look again.
Mutant_Matches(n) == TRUE
\* The held bytes are those that were read.
Matches(n) == content[parked[n].inode] = parked[n].hash

Check ==
    /\ op.pc = "check"
    /\ \/ Matches(op.save) /\ Goto("link") /\ Works
       \/ ~Matches(op.save) /\ Goto("put back") /\ Works
       \/ Fails("check") /\ Goto("put back")
    /\ UNCHANGED <<disk, editor, store, history>>

\* A link never replaces a file.
\* Would put back a file although none was held.
Mutant_RefusedUnheld == Goto("put back")
\* Would leave the held file to the next start.
Mutant_RefusedHeld == Over
Refused == IF store.snapshot = None THEN Over ELSE Goto("put back")
Published == IF store.snapshot = None THEN "commit" ELSE "retire"
Link ==
    /\ op.pc = "link"
    /\ \/ dest # None /\ Refused /\ Works /\ UNCHANGED dest
       \/ Fails("link") /\ Refused /\ UNCHANGED dest
       \/ dest = None /\ dest' = op.save /\ Goto(Published) /\ Works
       \/ /\ dest = None /\ dest' = op.save /\ Fails("sync")
          /\ op' = [op EXCEPT !.pc = Published, !.torn = TRUE]
    /\ UNCHANGED <<content, parked, kept, editor, store, history>>

\* The old file becomes a predecessor, live until the next start.
Retire ==
    /\ op.pc = "retire"
    /\ \/ parked' = [parked EXCEPT ![op.save].kind = "previous"] /\ Works
       \/ UNCHANGED parked /\ Fails("retire")
    /\ Goto("commit")
    /\ UNCHANGED <<content, dest, kept, editor, store, history>>

Commit ==
    /\ op.pc = "commit"
    /\ IF op.torn THEN UNCHANGED <<store, done>>
       ELSE /\ store' = [changes |-> content[op.save].changes,
                         snapshot |-> content[op.save], corrupt |-> FALSE]
            /\ done' = done \cup {op.save}
    /\ Over
    /\ UNCHANGED <<disk, editor, tried, forgone, late, failed, troubles>>

Crash ==
    /\ op.pc # "down" /\ troubles < MaxTroubles
    /\ troubles' = troubles + 1
    /\ op' = Down /\ store' = Unread
    /\ parked' = [n \in Saves |-> IF parked[n] = None THEN None
                                 ELSE [parked[n] EXCEPT !.live = FALSE]]
    /\ UNCHANGED <<content, dest, kept, editor, history, failed>>

----------------------------------------------------------------------------
(* The editor of the user.                                                 *)

\* The file that is the user's document: at its path, or held for a save.
Document ==
    IF dest # None THEN dest
    ELSE IF \E n \in Saves : Held(n)
         THEN parked[CHOOSE n \in Saves : Held(n)].inode ELSE None

Open ==
    /\ dest # None
    /\ editor' = [inode |-> dest, seen |-> content[dest].changes]
    /\ UNCHANGED <<disk, store, op, history, failed, troubles>>

\* It writes what it holds and one change more, which may not parse: into
\* the file it has open, into the one at the path, or into a new one that
\* takes its place.  A file may also be made where there is none.
Write(e) ==
    /\ e \notin tried /\ (editor.inode # None \/ dest = None)
    /\ \E ok \in BOOLEAN, file \in {editor.inode, dest, e} \ {None} :
        LET new == [changes |-> editor.seen \cup {e}, ok |-> ok]
            old == IF file = e THEN Document ELSE file
        IN /\ content' = [content EXCEPT ![file] = new]
           /\ dest' = IF file = e THEN e ELSE dest
           /\ editor' = [inode |-> file, seen |-> new.changes]
           /\ forgone' = forgone \cup
                  (IF old = None THEN {} ELSE content[old].changes \ new.changes)
           /\ late' = IF file \in {dest, e} THEN late ELSE late \cup {e}
    /\ tried' = tried \cup {e}
    /\ UNCHANGED <<parked, kept, store, op, done, failed, troubles>>

----------------------------------------------------------------------------
Step ==
    \/ List \/ (\E n \in Saves : Recover(n)) \/ Compare \/ Drop \/ PutBack
    \/ Unlink \/ Read \/ Stage \/ Hold \/ Check \/ Link \/ Retire \/ Commit

Next ==
    \/ Step \/ Start \/ Reload \/ (\E s \in Saves : Update(s) \/ Save(s))
    \/ Crash \/ Open \/ (\E e \in Edits : Write(e))

Spec == Init /\ [][Next]_vars

----------------------------------------------------------------------------
(* Properties.                                                             *)

\* The files a name leads to.
Files ==
    ({dest} \cup {parked[n].inode : n \in {m \in Saves : parked[m] # None}}
        \cup kept) \ {None}

\* The failures after which an older file stays at a held name, or none of
\* them is seen.
Unseeing == {"retire", "candidate", "list"}

\* Every change of the user, and every one the application acknowledged, is
\* in a file with a name, whoever wrote when and whatever crashed or failed
\* but an Unseeing call, unless the user wrote over it: neither a restoration
\* nor the comparison of old files with their hashes throws the only copy of
\* a change away.
NothingLost ==
    failed \cap Unseeing = {} =>
        \A x \in (tried \cap (Edits \cup {First})) \cup done :
            x \in forgone \/ \E i \in Files : x \in content[i].changes

\* The document holds every acknowledged save, and every edit of the file at
\* its path: neither a save, nor what comes back after a refusal or a crash,
\* takes the place of one the application has not read, until an Unseeing
\* call fails.
DocumentStands ==
    failed \cap Unseeing = {} =>
        \A x \in (done \cup (tried \cap Edits)) \ (late \cup forgone) :
            Document # None /\ x \in content[Document].changes

\* A document that was taken from its path is back when the operation is
\* over, by the save or by the recovery, and no save begins a new one in its
\* absence, until a restoration fails or the names cannot be listed.
DocumentReturns ==
    /\ op.pc = "idle" /\ failed \cap {"put back", "list"} = {}
           => dest # None \/ Document = None
    /\ op.pc \in {"stage", "link"} /\ store.snapshot = None /\ "list" \notin failed
           => dest # None \/ Document = None
=============================================================================
