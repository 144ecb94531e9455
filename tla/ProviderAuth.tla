---------------------------- MODULE ProviderAuth ----------------------------
(***************************************************************************)
(* ProviderAuthFlowCoordinator (services/provider-auth-flow-core.ts): one  *)
(* interactive sign-in at a time, driven by a provider library that asks   *)
(* for input when it likes, stops when it likes and may never stop.        *)
(*                                                                         *)
(* A renderer document starts a flow, answers its prompts and cancels it;  *)
(* the flow's timer, the loss of the document, a failing send and the      *)
(* shutdown of the application abort it; a sign-out shares the credential  *)
(* store with it.  The methods are synchronous up to their first await.    *)
(* What follows an await runs before the next timer, call or window event: *)
(* Idle says that no such continuation is due.  Callbacks of the provider  *)
(* can come at any point, also after its flow is over.                     *)
(***************************************************************************)
EXTENDS Integers, FiniteSets

CONSTANTS
    Session,   \* sign-in flows, each started at most once
    Document,  \* renderer documents
    Prompt,    \* prompt ids: a bound on the questions of all providers
    None

ASSUME ProviderAuthAssumption == None \notin Session \cup Document \cup Prompt

Live == {"queued", "authenticating", "cleanup", "committing", "stored"}
\* session.phase = "committing"; the file is replaced between the two.
Committing == {"committing", "stored"}
Open == {"shown", "hidden"}
Settled == {"credential", "error"}

----------------------------------------------------------------------------
VARIABLES
    active,     \* activeSession
    phase,      \* where run(session) stands
    owner,      \* session.owner
    provider,   \* the promise of backend.authenticate
    outcome,    \* the first of: its result, the abort of the flow
    aborted,    \* sessions whose abortController has fired
    timedOut,   \* session.timedOut
    muted,      \* session.suppressNotifications
    pending,    \* session.pendingPrompt
    prompt,     \* the promise of each prompt, and whether the document saw it
    logout,     \* the sign-out in progress
    disposed,   \* shutdown was called
    awaited,    \* what the shutdown promise waits for
    gone,       \* documents that are destroyed or navigated away
    told,       \* the terminal event a document received of a flow
    granted,    \* flows whose cancellation was acknowledged
    published   \* flows whose credential reached the store

session == <<phase, owner, provider>>
stop == <<outcome, aborted, timedOut, muted, pending, prompt>>
service == <<active, logout, disposed, awaited>>
record == <<told, granted, published>>
vars == <<session, stop, service, record, gone>>

TypeOK ==
    /\ active \in Session \cup {None}
    /\ active # None => phase[active] \in Live
    /\ phase \in [Session -> {"unused", "finished"} \cup Live]
    /\ owner \in [Session -> Document \cup {None}]
    /\ provider \in [Session -> {"none", "running"} \cup Settled]
    /\ outcome \in [Session -> {"none", "aborted"} \cup Settled]
    /\ aborted \subseteq Session
    /\ timedOut \subseteq Session
    /\ muted \subseteq Session
    /\ pending \in [Session -> Prompt \cup {None}]
    /\ prompt \in [Prompt -> {"unused", "answered", "rejected"} \cup Open]
    /\ logout \in {"none", "deleting", "reporting"}
    /\ disposed \in BOOLEAN
    /\ awaited \in [flow : Session \cup {None}, logout : BOOLEAN]
    /\ gone \subseteq Document
    /\ told \in [Session -> {"none", "done", "cancelled", "failed"}]
    /\ granted \subseteq Session
    /\ published \subseteq Session

Init ==
    /\ active = None
    /\ phase = [s \in Session |-> "unused"]
    /\ owner = [s \in Session |-> None]
    /\ provider = [s \in Session |-> "none"]
    /\ outcome = [s \in Session |-> "none"]
    /\ aborted = {} /\ timedOut = {} /\ muted = {}
    /\ pending = [s \in Session |-> None]
    /\ prompt = [p \in Prompt |-> "unused"]
    /\ logout = "none"
    /\ disposed = FALSE
    /\ awaited = [flow |-> None, logout |-> FALSE]
    /\ gone = {}
    /\ told = [s \in Session |-> "none"]
    /\ granted = {} /\ published = {}

----------------------------------------------------------------------------
(* Pieces of the methods.                                                  *)

\* A continuation of run(session) is due in the current turn of the event
\* loop.
Due(s) ==
    \/ phase[s] = "queued"
    \/ phase[s] = "authenticating" /\ outcome[s] # "none"
    \/ phase[s] = "cleanup" /\ provider[s] \in Settled
Idle == \A s \in Session : ~Due(s)

\* isCurrentSession.
Current(s) == active = s /\ s \notin aborted

\* safeSend delivers; it can also throw although the document is there.
CanSend(s) == s \notin muted /\ owner[s] \notin gone

\* The prompt of a session is dropped and its promise rejected.
Rejected(s) ==
    [p \in Prompt |-> IF p = pending[s] THEN "rejected" ELSE prompt[p]]

\* abortSession, with the listeners of its signal: the race of authenticate
\* and the pending prompt.
Abort(s) ==
    IF phase[s] \in Committing \/ s \in aborted
    THEN UNCHANGED <<aborted, outcome, pending, prompt>>
    ELSE /\ aborted' = aborted \cup {s}
         /\ outcome' = [outcome EXCEPT ![s] =
                IF phase[s] = "authenticating" /\ @ = "none"
                THEN "aborted" ELSE @]
         /\ pending' = [pending EXCEPT ![s] = None]
         /\ prompt' = Rejected(s)

\* Would keep the slot of a flow that is over.
Mutant_Vacated(s) == active
\* finishSession clears the slot of this session only.
Vacated(s) == IF active = s THEN None ELSE active

\* sendDone or sendError, then finishSession.  A send that throws aborts the
\* session as well, which nothing observes any more.
Finish(s, event) ==
    /\ \/ /\ CanSend(s)
          /\ told' = [told EXCEPT ![s] = event] /\ UNCHANGED muted
       \/ CanSend(s) /\ muted' = muted \cup {s} /\ UNCHANGED told
       \/ ~CanSend(s) /\ UNCHANGED <<told, muted>>
    /\ phase' = [phase EXCEPT ![s] = "finished"]
    /\ pending' = [pending EXCEPT ![s] = None]
    /\ prompt' = Rejected(s)
    /\ active' = Vacated(s)

\* How a flow that was aborted ends.
StopEvent(s) == IF s \in timedOut THEN "failed" ELSE "cancelled"

----------------------------------------------------------------------------
(* Requests of a document.                                                 *)

Start(d, s) ==
    /\ Idle /\ ~disposed /\ d \notin gone
    /\ logout = "none" /\ active = None
    /\ phase[s] = "unused"
    /\ active' = s
    /\ phase' = [phase EXCEPT ![s] = "queued"]
    /\ owner' = [owner EXCEPT ![s] = d]
    /\ UNCHANGED <<provider, stop, logout, disposed, awaited, record, gone>>

\* ownedSession.
Owned(d, s) == ~disposed /\ d \notin gone /\ active = s /\ owner[s] = d

\* An answer is accepted for the prompt it was shown for, while it is open.
Respond(d, s, p) ==
    /\ Idle /\ Owned(d, s)
    /\ pending[s] = p /\ prompt[p] = "shown"
    /\ pending' = [pending EXCEPT ![s] = None]
    /\ prompt' = [prompt EXCEPT ![p] = "answered"]
    /\ UNCHANGED <<session, outcome, aborted, timedOut, muted, service,
                   record, gone>>

\* Would acknowledge a cancellation that comes too late.
Mutant_Cancellable(s) == TRUE
\* cancel answers "finishing", and does nothing, past the point of no return.
Cancellable(s) == phase[s] \notin Committing

Cancel(d, s) ==
    /\ Idle /\ Owned(d, s) /\ Cancellable(s)
    /\ Abort(s)
    /\ granted' = granted \cup {s}
    /\ UNCHANGED <<session, timedOut, muted, service, told, published, gone>>

Logout ==
    /\ Idle /\ ~disposed /\ active = None /\ logout = "none"
    /\ logout' = "deleting"
    /\ UNCHANGED <<session, stop, active, disposed, awaited, record, gone>>

\* backend.logout settles: a failure ends the call, otherwise the status is
\* read again.
LogoutDeletes ==
    /\ Idle /\ logout = "deleting"
    /\ logout' \in {"reporting", "none"}
    /\ UNCHANGED <<session, stop, active, disposed, awaited, record, gone>>

\* backend.snapshot settles, or committedFallback answers for it.
LogoutReports ==
    /\ Idle /\ logout = "reporting"
    /\ logout' = "none"
    /\ UNCHANGED <<session, stop, active, disposed, awaited, record, gone>>

----------------------------------------------------------------------------
(* The run of a session.                                                   *)

\* The microtask of start: run calls authenticate, which calls the provider
\* and races its result with the abort signal.
Begin(s) ==
    /\ phase[s] = "queued"
    /\ phase' = [phase EXCEPT ![s] = "authenticating"]
    /\ provider' = [provider EXCEPT ![s] = "running"]
    /\ outcome' = [outcome EXCEPT ![s] =
                       IF s \in aborted THEN "aborted" ELSE "none"]
    /\ UNCHANGED <<owner, aborted, timedOut, muted, pending, prompt, service,
                   record, gone>>

\* The race is lost: the provider gets a bounded time to clean up.
StopWins(s) ==
    /\ phase[s] = "authenticating" /\ outcome[s] = "aborted"
    /\ phase' = [phase EXCEPT ![s] = "cleanup"]
    /\ UNCHANGED <<owner, provider, stop, service, record, gone>>

\* Would wait for a provider that never settles.
Mutant_CleanedUp(s) == provider[s] \in Settled
\* waitForAuthenticationCleanup: the provider settles, or its time is up.
CleanedUp(s) == provider[s] \in Settled \/ Idle

CleanupEnds(s) ==
    /\ phase[s] = "cleanup" /\ CleanedUp(s)
    /\ Finish(s, StopEvent(s))
    /\ UNCHANGED <<owner, provider, outcome, aborted, timedOut, logout,
                   disposed, awaited, granted, published, gone>>

\* The provider failed, or it signed in after the flow was aborted.
SignInFails(s) ==
    /\ phase[s] = "authenticating"
    /\ \/ outcome[s] = "error"
       \/ outcome[s] = "credential" /\ s \in aborted
    /\ Finish(s, IF s \in aborted THEN StopEvent(s) ELSE "failed")
    /\ UNCHANGED <<owner, provider, outcome, aborted, timedOut, logout,
                   disposed, awaited, granted, published, gone>>

\* The point of no return: the timer is cleared and the commit is called.
Commit(s) ==
    /\ phase[s] = "authenticating"
    /\ outcome[s] = "credential" /\ s \notin aborted
    /\ phase' = [phase EXCEPT ![s] = "committing"]
    /\ UNCHANGED <<owner, provider, stop, service, record, gone>>

\* The credential file is replaced.
Publish(s) ==
    /\ Idle /\ phase[s] = "committing"
    /\ phase' = [phase EXCEPT ![s] = "stored"]
    /\ published' = published \cup {s}
    /\ UNCHANGED <<owner, provider, stop, service, told, granted, gone>>

\* commitCredential settles; it rejects only before the file is replaced.
CommitReturns(s) ==
    /\ Idle /\ phase[s] \in Committing
    /\ Finish(s, IF phase[s] = "stored" THEN "done" ELSE "failed")
    /\ UNCHANGED <<owner, provider, outcome, aborted, timedOut, logout,
                   disposed, awaited, granted, published, gone>>

----------------------------------------------------------------------------
(* The provider library.                                                   *)

\* Its promise settles; the race takes the result if it is still open.
Settle(s, result) ==
    /\ provider[s] = "running"
    /\ provider' = [provider EXCEPT ![s] = result]
    /\ outcome' = [outcome EXCEPT ![s] =
                       IF phase[s] = "authenticating" /\ @ = "none"
                       THEN result ELSE @]
    /\ UNCHANGED <<phase, owner, aborted, timedOut, muted, pending, prompt,
                   service, record, gone>>

\* requestPrompt, which refuses a session that is over, aborted or asking
\* already.  When the prompt cannot be shown the session is aborted, which
\* rejects the prompt; a session that commits only keeps it.
Ask(s, p) ==
    /\ provider[s] # "none" /\ prompt[p] = "unused"
    /\ Current(s) /\ pending[s] = None
    /\ \/ /\ CanSend(s)
          /\ pending' = [pending EXCEPT ![s] = p]
          /\ prompt' = [prompt EXCEPT ![p] = "shown"]
          /\ UNCHANGED <<muted, aborted, outcome>>
       \/ /\ muted' \in IF CanSend(s) THEN {muted \cup {s}} ELSE {muted}
          /\ IF phase[s] \in Committing
             THEN /\ pending' = [pending EXCEPT ![s] = p]
                  /\ prompt' = [prompt EXCEPT ![p] = "hidden"]
                  /\ UNCHANGED <<aborted, outcome>>
             ELSE /\ prompt' = [prompt EXCEPT ![p] = "rejected"]
                  /\ aborted' = aborted \cup {s}
                  /\ outcome' = [outcome EXCEPT ![s] =
                                     IF @ = "none" THEN "aborted" ELSE @]
                  /\ UNCHANGED pending
    /\ UNCHANGED <<session, timedOut, service, record, gone>>

\* The provider withdraws its own prompt.
Withdraw(s) ==
    /\ pending[s] # None
    /\ pending' = [pending EXCEPT ![s] = None]
    /\ prompt' = Rejected(s)
    /\ UNCHANGED <<session, outcome, aborted, timedOut, muted, service,
                   record, gone>>

\* notify, when the event cannot be sent.  One that is sent changes nothing.
NotifyFails(s) ==
    /\ provider[s] # "none" /\ Current(s)
    /\ muted' \in IF CanSend(s) THEN {muted \cup {s}} ELSE {muted}
    /\ Abort(s)
    /\ UNCHANGED <<session, timedOut, service, record, gone>>

----------------------------------------------------------------------------
(* Timers, windows and the end of the application.                         *)

FlowTimeout(s) ==
    /\ Idle /\ phase[s] \in {"authenticating", "cleanup"} /\ s \notin timedOut
    /\ timedOut' = timedOut \cup {s}
    /\ Abort(s)
    /\ UNCHANGED <<session, muted, service, record, gone>>

\* The frame of a document is destroyed or shows another document.
Vanish(d) ==
    /\ Idle /\ d \notin gone
    /\ gone' = gone \cup {d}
    /\ UNCHANGED <<session, stop, service, record>>

\* Its window reports it, and ownerInvalidated runs.
Invalidate(d) ==
    /\ Idle /\ d \in gone /\ active # None /\ owner[active] = d
    /\ muted' = muted \cup {active}
    /\ Abort(active)
    /\ UNCHANGED <<session, timedOut, service, record, gone>>

Shutdown ==
    /\ Idle /\ ~disposed
    /\ disposed' = TRUE
    /\ awaited' = [flow |-> active, logout |-> logout # "none"]
    /\ IF active = None
       THEN UNCHANGED <<muted, aborted, outcome, pending, prompt>>
       ELSE muted' = muted \cup {active} /\ Abort(active)
    /\ UNCHANGED <<session, timedOut, active, logout, record, gone>>

\* The shutdown promise has resolved: the flow and the sign-out it captured
\* are over.
ShutDown ==
    /\ disposed
    /\ awaited.flow # None => phase[awaited.flow] = "finished"
    /\ awaited.logout => logout = "none"

----------------------------------------------------------------------------
Next ==
    \/ \E d \in Document, s \in Session :
          \/ Start(d, s) \/ Cancel(d, s)
          \/ \E p \in Prompt : Respond(d, s, p)
    \/ \E s \in Session :
          \/ Begin(s) \/ StopWins(s) \/ CleanupEnds(s) \/ SignInFails(s)
          \/ Commit(s) \/ Publish(s) \/ CommitReturns(s)
          \/ \E result \in Settled : Settle(s, result)
          \/ \E p \in Prompt : Ask(s, p)
          \/ Withdraw(s) \/ NotifyFails(s) \/ FlowTimeout(s)
    \/ \E d \in Document : Vanish(d) \/ Invalidate(d)
    \/ Logout \/ LogoutDeletes \/ LogoutReports \/ Shutdown

Spec == Init /\ [][Next]_vars

\* Continuations and timers run, and calls of the credential store return.
\* Nothing is assumed of the provider, the documents or the user.
Fairness ==
    /\ \A s \in Session :
          /\ WF_vars(Begin(s)) /\ WF_vars(StopWins(s))
          /\ WF_vars(CleanupEnds(s)) /\ WF_vars(SignInFails(s))
          /\ WF_vars(Commit(s)) /\ WF_vars(CommitReturns(s))
          /\ WF_vars(FlowTimeout(s))
    /\ WF_vars(LogoutDeletes) /\ WF_vars(LogoutReports)
FairSpec == Spec /\ Fairness

----------------------------------------------------------------------------
(* Properties.                                                             *)

\* The terminal event agrees with the store, and a cancellation that was
\* acknowledged stands: no late credential of that flow is ever stored.
OutcomeAgrees ==
    \A s \in Session :
        /\ told[s] = "done" => s \in published
        /\ told[s] \in {"cancelled", "failed"} => s \notin published
        /\ s \in granted => s \notin published

\* A question is open only as the pending prompt of the session in the slot,
\* and only until that session is aborted: no late callback of an earlier
\* flow gets or keeps one, and no provider waits for an answer that cannot
\* come any more.
PromptsAreLive ==
    \A p \in Prompt : prompt[p] \in Open =>
        active # None /\ pending[active] = p /\ active \notin aborted

\* One credential mutation at a time: a commit belongs to the session in the
\* slot and overlaps no sign-out, and none is under way, nor can begin, when
\* the shutdown promise has resolved.
OneMutation ==
    /\ \A s \in Session : phase[s] \in Live => active = s
    /\ active = None \/ logout = "none"
    /\ ShutDown => active = None /\ logout = "none"

FlowIntegrity == OutcomeAgrees /\ PromptsAreLive /\ OneMutation

\* Every flow ends and leaves the slot, and the shutdown promise resolves,
\* although a provider may ignore its signal for ever.
FlowsEnd ==
    /\ active # None ~> active = None
    /\ disposed ~> ShutDown
=============================================================================
