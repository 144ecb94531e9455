------------------------ MODULE ProviderAuth_proofs ------------------------
(***************************************************************************)
(* Proofs about ProviderAuth, for any flows, documents and prompts.        *)
(*                                                                         *)
(* FlowIntegrity is not inductive: it does not say which session a commit, *)
(* an abort or a prompt belongs to.  SlotInv ties whatever is under way to *)
(* the slot (and, once the service is disposed, to what the shutdown       *)
(* promise waits for), StopInv orders abort, commit and terminal event of  *)
(* a session, PromptInv ties prompts to the slot.                          *)
(***************************************************************************)
EXTENDS ProviderAuth, TLAPS

SlotInv ==
    /\ \A s \in Session : phase[s] \in Live => active = s
    /\ active = None \/ logout = "none"
    /\ disposed /\ active # None => awaited.flow = active
    /\ disposed /\ logout # "none" => awaited.logout

StopInv ==
    \A s \in Session :
        /\ s \in granted => s \in aborted
        /\ s \in aborted => phase[s] \notin Committing /\ s \notin published
        /\ phase[s] = "stored" => s \in published
        /\ s \in published => phase[s] \in {"stored", "finished"}
        /\ told[s] # "none" => phase[s] = "finished"
        /\ told[s] = "done" => s \in published
        /\ told[s] \in {"cancelled", "failed"} => s \notin published

PromptInv ==
    /\ PromptsAreLive
    /\ \A s \in Session : pending[s] # None => active = s

IInv == TypeOK /\ SlotInv /\ StopInv /\ PromptInv

----------------------------------------------------------------------------
(* A coordinator that was just created satisfies the invariant.            *)
LEMMA InitInv == Init => IInv
<1>. SUFFICES ASSUME Init PROVE IInv
  OBVIOUS
<1>1. TypeOK
  BY DEF Init, TypeOK, Live, Open, Settled
<1>2. SlotInv
  BY DEF Init, SlotInv, Live
<1>3. StopInv
  BY DEF Init, StopInv, Committing
<1>4. PromptInv
  BY DEF Init, PromptInv, PromptsAreLive, Open
<1>. QED
  BY <1>1, <1>2, <1>3, <1>4 DEF IInv

(* Every request, continuation, callback, timer and event preserves it.    *)
LEMMA NextInv == IInv /\ [Next]_vars => IInv'
<1>. SUFFICES ASSUME IInv, [Next]_vars PROVE IInv'
  OBVIOUS
<1>. USE DEF IInv, TypeOK, session, stop, service, record, Live, Committing,
             Open, Settled
<1>1. ASSUME NEW d \in Document, NEW s \in Session, Start(d, s)
      PROVE  IInv'
  <2>1. TypeOK' BY <1>1 DEF Start
  <2>2. SlotInv' BY <1>1, ProviderAuthAssumption DEF SlotInv, Start
  <2>3. StopInv' BY <1>1 DEF SlotInv, StopInv, Start
  <2>4. PromptInv'
    BY <1>1, ProviderAuthAssumption DEF SlotInv, PromptInv,
           PromptsAreLive, Start
  <2>. QED BY <2>1, <2>2, <2>3, <2>4
<1>2. ASSUME NEW d \in Document, NEW s \in Session, Cancel(d, s)
      PROVE  IInv'
  <2>1. TypeOK' BY <1>2 DEF Cancel, Abort, Owned, Cancellable, Rejected
  <2>2. SlotInv'
    BY <1>2 DEF SlotInv, Cancel, Abort, Owned, Cancellable, Rejected
  <2>3. StopInv'
    BY <1>2, ProviderAuthAssumption DEF SlotInv, StopInv, Cancel, Abort,
           Owned, Cancellable, Rejected
  <2>4. PromptInv'
    BY <1>2, ProviderAuthAssumption DEF SlotInv, PromptInv,
           PromptsAreLive, Cancel, Abort, Owned, Cancellable, Rejected
  <2>. QED BY <2>1, <2>2, <2>3, <2>4
<1>3. ASSUME NEW d \in Document, NEW s \in Session, NEW p \in Prompt,
             Respond(d, s, p)
      PROVE  IInv'
  <2>1. TypeOK' BY <1>3 DEF Respond, Owned
  <2>2. SlotInv' BY <1>3 DEF SlotInv, Respond, Owned
  <2>3. StopInv' BY <1>3 DEF SlotInv, StopInv, Respond, Owned
  <2>4. PromptInv'
    BY <1>3, ProviderAuthAssumption DEF SlotInv, PromptInv,
           PromptsAreLive, Respond, Owned
  <2>. QED BY <2>1, <2>2, <2>3, <2>4
<1>4. ASSUME NEW s \in Session, Begin(s)
      PROVE  IInv'
  <2>1. TypeOK' BY <1>4 DEF Begin
  <2>2. SlotInv' BY <1>4 DEF SlotInv, Begin
  <2>3. StopInv' BY <1>4 DEF SlotInv, StopInv, Begin
  <2>4. PromptInv'
    BY <1>4, ProviderAuthAssumption DEF SlotInv, PromptInv,
           PromptsAreLive, Begin
  <2>. QED BY <2>1, <2>2, <2>3, <2>4
<1>5. ASSUME NEW s \in Session, StopWins(s)
      PROVE  IInv'
  <2>1. TypeOK' BY <1>5 DEF StopWins
  <2>2. SlotInv' BY <1>5 DEF SlotInv, StopWins
  <2>3. StopInv' BY <1>5 DEF SlotInv, StopInv, StopWins
  <2>4. PromptInv'
    BY <1>5, ProviderAuthAssumption DEF SlotInv, PromptInv,
           PromptsAreLive, StopWins
  <2>. QED BY <2>1, <2>2, <2>3, <2>4
<1>6. ASSUME NEW s \in Session, CleanupEnds(s)
      PROVE  IInv'
  <2>1. TypeOK'
    BY <1>6 DEF CleanupEnds, Finish, Vacated, Rejected, StopEvent,
           CanSend
  <2>2. SlotInv'
    BY <1>6 DEF SlotInv, CleanupEnds, Finish, Vacated, Rejected,
           StopEvent, CanSend
  <2>3. StopInv'
    BY <1>6 DEF SlotInv, StopInv, CleanupEnds, Finish, Vacated,
           Rejected, StopEvent, CanSend
  <2>4. PromptInv'
    BY <1>6, ProviderAuthAssumption DEF SlotInv, PromptInv,
           PromptsAreLive, CleanupEnds, Finish, Vacated, Rejected,
           StopEvent, CanSend
  <2>. QED BY <2>1, <2>2, <2>3, <2>4
<1>7. ASSUME NEW s \in Session, SignInFails(s)
      PROVE  IInv'
  <2>1. TypeOK'
    BY <1>7 DEF SignInFails, Finish, Vacated, Rejected, StopEvent,
           CanSend
  <2>2. SlotInv'
    BY <1>7 DEF SlotInv, SignInFails, Finish, Vacated, Rejected,
           StopEvent, CanSend
  <2>3. StopInv'
    BY <1>7 DEF SlotInv, StopInv, SignInFails, Finish, Vacated,
           Rejected, StopEvent, CanSend
  <2>4. PromptInv'
    BY <1>7, ProviderAuthAssumption DEF SlotInv, PromptInv,
           PromptsAreLive, SignInFails, Finish, Vacated, Rejected,
           StopEvent, CanSend
  <2>. QED BY <2>1, <2>2, <2>3, <2>4
<1>8. ASSUME NEW s \in Session, Commit(s)
      PROVE  IInv'
  <2>1. TypeOK' BY <1>8 DEF Commit
  <2>2. SlotInv' BY <1>8 DEF SlotInv, Commit
  <2>3. StopInv' BY <1>8 DEF SlotInv, StopInv, Commit
  <2>4. PromptInv'
    BY <1>8, ProviderAuthAssumption DEF SlotInv, PromptInv,
           PromptsAreLive, Commit
  <2>. QED BY <2>1, <2>2, <2>3, <2>4
<1>9. ASSUME NEW s \in Session, Publish(s)
      PROVE  IInv'
  <2>1. TypeOK' BY <1>9 DEF Publish
  <2>2. SlotInv' BY <1>9 DEF SlotInv, Publish
  <2>3. StopInv' BY <1>9 DEF SlotInv, StopInv, Publish
  <2>4. PromptInv'
    BY <1>9, ProviderAuthAssumption DEF SlotInv, PromptInv,
           PromptsAreLive, Publish
  <2>. QED BY <2>1, <2>2, <2>3, <2>4
<1>10. ASSUME NEW s \in Session, CommitReturns(s)
      PROVE  IInv'
  <2>1. TypeOK'
    BY <1>10 DEF CommitReturns, Finish, Vacated, Rejected, CanSend
  <2>2. SlotInv'
    BY <1>10 DEF SlotInv, CommitReturns, Finish, Vacated, Rejected,
           CanSend
  <2>3. StopInv'
    BY <1>10 DEF SlotInv, StopInv, CommitReturns, Finish, Vacated,
           Rejected, CanSend
  <2>4. PromptInv'
    BY <1>10, ProviderAuthAssumption DEF SlotInv, PromptInv,
           PromptsAreLive, CommitReturns, Finish, Vacated, Rejected,
           CanSend
  <2>. QED BY <2>1, <2>2, <2>3, <2>4
<1>11. ASSUME NEW s \in Session, NEW result \in Settled, Settle(s, result)
      PROVE  IInv'
  <2>1. TypeOK' BY <1>11 DEF Settle
  <2>2. SlotInv' BY <1>11 DEF SlotInv, Settle
  <2>3. StopInv' BY <1>11 DEF SlotInv, StopInv, Settle
  <2>4. PromptInv'
    BY <1>11, ProviderAuthAssumption DEF SlotInv, PromptInv,
           PromptsAreLive, Settle
  <2>. QED BY <2>1, <2>2, <2>3, <2>4
<1>12. ASSUME NEW s \in Session, NEW p \in Prompt, Ask(s, p)
      PROVE  IInv'
  <2>1. TypeOK' BY <1>12 DEF Ask, Current, CanSend
  <2>2. SlotInv' BY <1>12 DEF SlotInv, Ask, Current, CanSend
  <2>3. StopInv'
    BY <1>12, ProviderAuthAssumption DEF SlotInv, StopInv, Ask, Current,
           CanSend
  <2>4. PromptInv'
    BY <1>12, ProviderAuthAssumption DEF SlotInv, PromptInv,
           PromptsAreLive, Ask, Current, CanSend
  <2>. QED BY <2>1, <2>2, <2>3, <2>4
<1>13. ASSUME NEW s \in Session, Withdraw(s)
      PROVE  IInv'
  <2>1. TypeOK' BY <1>13 DEF Withdraw, Rejected
  <2>2. SlotInv' BY <1>13 DEF SlotInv, Withdraw, Rejected
  <2>3. StopInv' BY <1>13 DEF SlotInv, StopInv, Withdraw, Rejected
  <2>4. PromptInv'
    BY <1>13, ProviderAuthAssumption DEF SlotInv, PromptInv,
           PromptsAreLive, Withdraw, Rejected
  <2>. QED BY <2>1, <2>2, <2>3, <2>4
<1>14. ASSUME NEW s \in Session, NotifyFails(s)
      PROVE  IInv'
  <2>1. TypeOK' BY <1>14 DEF NotifyFails, Abort, Current, Rejected, CanSend
  <2>2. SlotInv'
    BY <1>14 DEF SlotInv, NotifyFails, Abort, Current, Rejected, CanSend
  <2>3. StopInv'
    BY <1>14, ProviderAuthAssumption DEF SlotInv, StopInv, NotifyFails,
           Abort, Current, Rejected, CanSend
  <2>4. PromptInv'
    BY <1>14, ProviderAuthAssumption DEF SlotInv, PromptInv,
           PromptsAreLive, NotifyFails, Abort, Current, Rejected,
           CanSend
  <2>. QED BY <2>1, <2>2, <2>3, <2>4
<1>15. ASSUME NEW s \in Session, FlowTimeout(s)
      PROVE  IInv'
  <2>1. TypeOK' BY <1>15 DEF FlowTimeout, Abort, Rejected
  <2>2. SlotInv' BY <1>15 DEF SlotInv, FlowTimeout, Abort, Rejected
  <2>3. StopInv' BY <1>15 DEF SlotInv, StopInv, FlowTimeout, Abort, Rejected
  <2>4. PromptInv'
    BY <1>15, ProviderAuthAssumption DEF SlotInv, PromptInv,
           PromptsAreLive, FlowTimeout, Abort, Rejected
  <2>. QED BY <2>1, <2>2, <2>3, <2>4
<1>16. ASSUME NEW d \in Document, Vanish(d)
      PROVE  IInv'
  <2>1. TypeOK' BY <1>16 DEF Vanish
  <2>2. SlotInv' BY <1>16 DEF SlotInv, Vanish
  <2>3. StopInv' BY <1>16 DEF SlotInv, StopInv, Vanish
  <2>4. PromptInv'
    BY <1>16, ProviderAuthAssumption DEF SlotInv, PromptInv,
           PromptsAreLive, Vanish
  <2>. QED BY <2>1, <2>2, <2>3, <2>4
<1>17. ASSUME NEW d \in Document, Invalidate(d)
      PROVE  IInv'
  <2>1. TypeOK' BY <1>17 DEF Invalidate, Abort, Rejected
  <2>2. SlotInv' BY <1>17 DEF SlotInv, Invalidate, Abort, Rejected
  <2>3. StopInv' BY <1>17 DEF SlotInv, StopInv, Invalidate, Abort, Rejected
  <2>4. PromptInv'
    BY <1>17, ProviderAuthAssumption DEF SlotInv, PromptInv,
           PromptsAreLive, Invalidate, Abort, Rejected
  <2>. QED BY <2>1, <2>2, <2>3, <2>4
<1>18. ASSUME Logout
      PROVE  IInv'
  <2>1. TypeOK' BY <1>18 DEF Logout
  <2>2. SlotInv' BY <1>18 DEF SlotInv, Logout
  <2>3. StopInv' BY <1>18 DEF SlotInv, StopInv, Logout
  <2>4. PromptInv'
    BY <1>18, ProviderAuthAssumption DEF SlotInv, PromptInv,
           PromptsAreLive, Logout
  <2>. QED BY <2>1, <2>2, <2>3, <2>4
<1>19. ASSUME LogoutDeletes
      PROVE  IInv'
  <2>1. TypeOK' BY <1>19 DEF LogoutDeletes
  <2>2. SlotInv' BY <1>19 DEF SlotInv, LogoutDeletes
  <2>3. StopInv' BY <1>19 DEF SlotInv, StopInv, LogoutDeletes
  <2>4. PromptInv'
    BY <1>19, ProviderAuthAssumption DEF SlotInv, PromptInv,
           PromptsAreLive, LogoutDeletes
  <2>. QED BY <2>1, <2>2, <2>3, <2>4
<1>20. ASSUME LogoutReports
      PROVE  IInv'
  <2>1. TypeOK' BY <1>20 DEF LogoutReports
  <2>2. SlotInv' BY <1>20 DEF SlotInv, LogoutReports
  <2>3. StopInv' BY <1>20 DEF SlotInv, StopInv, LogoutReports
  <2>4. PromptInv'
    BY <1>20, ProviderAuthAssumption DEF SlotInv, PromptInv,
           PromptsAreLive, LogoutReports
  <2>. QED BY <2>1, <2>2, <2>3, <2>4
<1>21. ASSUME Shutdown
      PROVE  IInv'
  <2>1. TypeOK' BY <1>21 DEF Shutdown, Abort, Rejected
  <2>2. SlotInv' BY <1>21 DEF SlotInv, Shutdown, Abort, Rejected
  <2>3. StopInv' BY <1>21 DEF SlotInv, StopInv, Shutdown, Abort, Rejected
  <2>4. PromptInv'
    BY <1>21, ProviderAuthAssumption DEF SlotInv, PromptInv,
           PromptsAreLive, Shutdown, Abort, Rejected
  <2>. QED BY <2>1, <2>2, <2>3, <2>4
<1>22. CASE UNCHANGED vars
  BY <1>22 DEF vars, SlotInv, StopInv, PromptInv, PromptsAreLive
<1>. QED
  BY <1>1, <1>2, <1>3, <1>4, <1>5, <1>6, <1>7, <1>8, <1>9, <1>10, <1>11,
     <1>12, <1>13, <1>14, <1>15, <1>16, <1>17, <1>18, <1>19, <1>20,
     <1>21, <1>22 DEF Next

(* The invariant says what FlowIntegrity promises: a shutdown promise that *)
(* has resolved leaves no session in the slot, since the one it waited for *)
(* is over, and no sign-out.                                               *)
LEMMA InvImplies == IInv => FlowIntegrity
<1>. SUFFICES ASSUME IInv PROVE FlowIntegrity
  OBVIOUS
<1>1. OutcomeAgrees
  BY DEF IInv, StopInv, OutcomeAgrees
<1>2. PromptsAreLive
  BY DEF IInv, PromptInv
<1>3. ShutDown => active = None /\ logout = "none"
  BY DEF IInv, TypeOK, SlotInv, ShutDown, Live
<1>4. OneMutation
  BY <1>3 DEF IInv, SlotInv, OneMutation
<1>. QED
  BY <1>1, <1>2, <1>4 DEF FlowIntegrity

(* The invariant holds in every reachable state.                           *)
LEMMA AlwaysInv == Spec => []IInv
<1>1. Init => IInv
  BY InitInv
<1>2. IInv /\ [Next]_vars => IInv'
  BY NextInv
<1>. QED
  BY <1>1, <1>2, PTL DEF Spec

(* Every state of the coordinator has the declared types.                  *)
THEOREM TypeCorrect == Spec => []TypeOK
<1>1. IInv => TypeOK
  BY DEF IInv
<1>. QED
  BY <1>1, AlwaysInv, PTL

(* The terminal event of every flow agrees with the credential store, an   *)
(* acknowledged cancellation stands, open prompts belong to the live       *)
(* session of the slot, and credential mutations neither overlap nor       *)
(* outlive the shutdown.                                                   *)
THEOREM FlowsKeepIntegrity == Spec => []FlowIntegrity
<1>1. IInv => FlowIntegrity
  BY InvImplies
<1>. QED
  BY <1>1, AlwaysInv, PTL
=============================================================================
