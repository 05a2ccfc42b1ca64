------------------------------ MODULE AuthWizard ------------------------------
(***************************************************************************)
(* WizardEngine (ayx-core/src/auth.rs): the coordinator that drives an     *)
(* AuthStateMachine through the steps of the v0.17 login. It has at most   *)
(* one step pending; the caller performs the step and records what became  *)
(* of it. A step whose request may have taken effect unseen is not to be   *)
(* tried again: a second email, a second token.                            *)
(*                                                                         *)
(* The caller is any caller: it may submit a code or a password whenever   *)
(* the engine takes one, also after FallbackToLegacy.                      *)
(***************************************************************************)
EXTENDS AuthStateMachine

VARIABLES
    pending,    \* the step awaiting its outcome, or None
    reached,    \* what the provider saw: requests that had or may have had an effect
    accepted,   \* the steps accepted with the current passcode
    uncertain   \* the steps whose outcome nobody knows

vars == <<auth, pending, reached, accepted, uncertain>>

\* WizardStep, in the order of a login
Order == <<"send_otp", "validate_otp", "resolve_workspace", "submit_workspace_password",
           "resume_oidc", "mint_pat", "persist">>
Steps == {Order[i] : i \in 1..7}
ASSUME NoneIsNoStep == None \notin Steps
SideEffects == {"send_otp", "mint_pat", "persist"}

TypeOK ==
    /\ auth \in AuthState
    /\ pending \in Steps \cup {None}
    /\ reached \in [SideEffects -> Nat]
    /\ accepted \subseteq Steps
    /\ uncertain \subseteq Steps

Init ==
    /\ AuthInit
    /\ pending = None
    /\ reached = [step \in SideEffects |-> 0]
    /\ accepted = {}
    /\ uncertain = {}

---------------------------------------------------------------------------
(* The caller *)

Start ==
    /\ Accepts(auth, Event("begin"))
    /\ auth' = After(auth, Event("begin"))
    /\ pending' = "send_otp"
    /\ UNCHANGED <<reached, accepted, uncertain>>

\* Mutant of Ready: a code is taken as soon as nothing is pending.
ReadyWhenIdle(phase) == pending = None /\ auth.phase # "idle"

\* The engine takes a code or a password: it is their phase and nothing is pending.
Ready(phase) == pending = None /\ auth.phase = phase

SubmitOtp ==
    /\ Ready("awaiting_otp")
    /\ pending' = "validate_otp"
    /\ UNCHANGED <<auth, reached, accepted, uncertain>>

SubmitWorkspacePassword ==
    /\ Ready("awaiting_workspace_password")
    /\ pending' = "submit_workspace_password"
    /\ UNCHANGED <<auth, reached, accepted, uncertain>>

---------------------------------------------------------------------------
(* record(outcome): the step is no longer pending, whatever follows *)

Reached(step) ==
    reached' = IF step \in SideEffects THEN [reached EXCEPT ![step] = @ + 1] ELSE reached

\* The machine applies e, then next is pending; a refused event is an error and
\* leaves nothing pending.
Applied(e, next) ==
    \/ Accepts(auth, e) /\ auth' = After(auth, e) /\ pending' = next
    \/ ~Accepts(auth, e) /\ auth' = auth /\ pending' = None

\* DefinitelyNotSent: the same step again.
RecordNotSent ==
    /\ pending # None
    /\ UNCHANGED vars

\* Mutant of RecordMayHaveCommitted: a timeout is retried.
RetryUncertain ==
    /\ pending # None
    /\ uncertain' = uncertain \cup {pending}
    /\ Reached(pending)
    /\ UNCHANGED <<auth, pending, accepted>>

\* MayHaveCommitted: FallbackToLegacy.
RecordMayHaveCommitted ==
    /\ pending # None
    /\ uncertain' = uncertain \cup {pending}
    /\ Reached(pending)
    /\ pending' = None
    /\ UNCHANGED <<auth, accepted>>

\* Mutant of NextStep: the token is minted without the OIDC session.
NextStepSkippingOidc(step) ==
    CASE step = "validate_otp"              -> "resolve_workspace"
      [] step = "submit_workspace_password" -> "mint_pat"
      [] step = "mint_pat"                  -> "persist"
      [] OTHER                              -> None

\* What accepted(step) invokes; a prompt or the end of the login otherwise.
NextStep(step) ==
    CASE step = "validate_otp"              -> "resolve_workspace"
      [] step = "submit_workspace_password" -> "resume_oidc"
      [] step = "resume_oidc"               -> "mint_pat"
      [] step = "mint_pat"                  -> "persist"
      [] OTHER                              -> None

\* The event accepted(step) applies. The persist_started before persist_succeeded
\* leaves the machine as it is.
EventOf(step) ==
    CASE step = "send_otp"                  -> Event("otp_sent")
      [] step = "validate_otp"              -> Event("otp_accepted")
      [] step = "resolve_workspace"         -> Event("workspace_resolved")
      [] step = "submit_workspace_password" -> Event("workspace_password_accepted")
      [] step = "mint_pat"                  -> Event("token_exchanged")
      [] step = "persist"                   -> Event("persist_succeeded")

AcceptedStep(step) ==
    \/ step # "resume_oidc" /\ Applied(EventOf(step), NextStep(step))
    \/ step = "resume_oidc" /\ auth' = auth /\ pending' = NextStep(step)

RecordAccepted ==
    /\ pending # None
    /\ AcceptedStep(pending)
    /\ Reached(pending)
    /\ accepted' = accepted \cup {pending}
    /\ UNCHANGED uncertain

\* rejected(step, kind): a wrong or expired code, and the next passcode when the
\* current one is spent.
RejectedOtp(kind) ==
    /\ pending = "validate_otp" /\ kind \in {"invalid_otp", "expired_otp"}
    /\ LET e == OtpRejected(kind = "expired_otp")
           again == After(auth, e).phase = "sending_otp"
       IN  /\ Applied(e, IF again THEN "send_otp" ELSE None)
           /\ accepted' = IF again THEN {} ELSE accepted

RejectedPassword(kind) ==
    /\ pending = "submit_workspace_password" /\ kind = "invalid_workspace_password"
    /\ Applied(Event("workspace_password_rejected"), None)
    /\ UNCHANGED accepted

RejectedForGood(kind) ==
    /\ ~(pending = "validate_otp" /\ kind \in {"invalid_otp", "expired_otp"})
    /\ ~(pending = "submit_workspace_password" /\ kind = "invalid_workspace_password")
    /\ Applied(TerminalFailure(kind), None)
    /\ UNCHANGED accepted

RecordRejected ==
    /\ pending # None
    /\ \E kind \in FailureKinds :
          RejectedOtp(kind) \/ RejectedPassword(kind) \/ RejectedForGood(kind)
    /\ Reached(pending)
    /\ UNCHANGED uncertain

---------------------------------------------------------------------------

\* The steps of the engine other than an idle retry.
Record == RecordMayHaveCommitted \/ RecordAccepted \/ RecordRejected

Next ==
    \/ Start
    \/ SubmitOtp
    \/ SubmitWorkspacePassword
    \/ RecordNotSent
    \/ Record

Spec == Init /\ [][Next]_vars

\* The person answers every prompt and no request is unsent for ever: the engine
\* has no limit of its own for either.
FairSpec ==
    /\ Spec
    /\ WF_vars(Start) /\ WF_vars(SubmitOtp) /\ WF_vars(SubmitWorkspacePassword)
    /\ WF_vars(Record)

---------------------------------------------------------------------------
(* Properties *)

\* Side effects are never repeated beyond their budget, however the outcomes fall:
\* the provider sees no more passcode requests than AuthBudgets allows and one
\* token request per login, and the credential is persisted once.
SideEffectsBounded ==
    /\ reached["send_otp"] <= OtpSends
    /\ reached["mint_pat"] <= 1
    /\ reached["persist"] <= 1

\* The phase a step may be pending in.
PhaseOf(step) ==
    CASE step = "send_otp"                  -> "sending_otp"
      [] step = "validate_otp"              -> "awaiting_otp"
      [] step = "resolve_workspace"         -> "resolving_workspace"
      [] step = "submit_workspace_password" -> "awaiting_workspace_password"
      [] step \in {"resume_oidc", "mint_pat"} -> "exchanging_token"
      [] step = "persist"                   -> "persisting"

\* The engine and its machine agree on where the login is, so that record never
\* fails with an invalid event and loses the outcome it was given.
PendingMatchesPhase == pending # None => auth.phase = PhaseOf(pending)

\* A step is pending only when all the steps before it have been accepted with
\* the current passcode; a complete login has accepted every one.
OrderedSteps ==
    /\ \A i \in 1..7 : pending = Order[i] => {Order[j] : j \in 1..(i - 1)} \subseteq accepted
    /\ auth.phase = "complete" => accepted = Steps

\* A login ends, or leaves something uncertain: the budgets bound every loop
\* through a prompt.
LoginEnds == <>(auth.phase \in Final \/ uncertain # {})
=============================================================================
