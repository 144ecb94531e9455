--------------------------- MODULE ChatOwnership ---------------------------
(***************************************************************************)
(* What turn admission promises for each chat, and nothing of how: at most *)
(* one turn writes to a chat at a time, from the moment its message is     *)
(* accepted to the end of the response it starts, and a turn that let its  *)
(* chat go never comes back to it.                                         *)
(***************************************************************************)
CONSTANTS
    Chats,    \* chat ids
    Turns,    \* turn ids
    TurnChat  \* the chat a turn is sent to

VARIABLES
    holder,   \* the turn that may write to a chat, or {} for none
    spent     \* the turns that had their chat

vars == <<holder, spent>>

Init ==
    /\ holder = [c \in Chats |-> {}]
    /\ spent = {}

Take(t) ==
    /\ t \notin spent
    /\ holder[TurnChat[t]] = {}
    /\ holder' = [holder EXCEPT ![TurnChat[t]] = {t}]
    /\ spent' = spent \cup {t}

\* Several chats may be let go at once: a renderer document that disappears
\* loses every turn it owns.
LetGo ==
    /\ \E gone \in (SUBSET Chats) \ {{}} :
          holder' = [c \in Chats |-> IF c \in gone THEN {} ELSE holder[c]]
    /\ UNCHANGED spent

Next == LetGo \/ \E t \in Turns : Take(t)

Spec == Init /\ [][Next]_vars
=============================================================================
