------------------------ MODULE MCChatTurnAdmission ------------------------
(* Finite instances of ChatTurnAdmission for TLC. *)
EXTENDS ChatTurnAdmission, TLC

CONSTANTS c1, c2, t1, t2, t3, o1, o2

\* Two turns of one document for one chat, and one for another chat.
DocumentTurnChat == t1 :> c1 @@ t2 :> c1 @@ t3 :> c2
DocumentTurnOwner == t1 :> o1 @@ t2 :> o1 @@ t3 :> o1

\* A document and the scheduler on one chat.
SharedTurnChat == t1 :> c1 @@ t2 :> c1 @@ t3 :> c1
SharedTurnOwner == t1 :> o1 @@ t2 :> o2 @@ t3 :> o2

Payloads == t1 :> 2 @@ t2 :> 1 @@ t3 :> 2
Prompts == t1 :> 1 @@ t2 :> 3 @@ t3 :> 2
=============================================================================
