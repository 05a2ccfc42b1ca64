-------------------------- MODULE AuthStateMachine --------------------------
(***************************************************************************)
(* AuthStateMachine (ayx-core/src/auth.rs): the phases of an email-OTP     *)
(* login and its retry budgets. It performs no I/O; whoever drives it      *)
(* applies one event for each thing that has happened. Here any event the  *)
(* machine accepts may be applied next.                                    *)
(***************************************************************************)
EXTENDS Naturals

CONSTANTS
    OtpAttempts,        \* AuthBudgets: codes to try for one passcode sent
    OtpSends,           \* passcodes to send
    PasswordAttempts,   \* workspace passwords to try
    TransportAttempts,  \* transient failures to survive
    None                \* no failure

\* AuthBudgets::default() has positive budgets, and nothing else builds one.
ASSUME BudgetsOK ==
    {OtpAttempts, OtpSends, PasswordAttempts, TransportAttempts} \subseteq Nat \ {0}

VARIABLE auth   \* AuthState

\* Without validating_otp and validating_workspace_password, which apply never enters.
Phases == {"idle", "sending_otp", "awaiting_otp", "resolving_workspace",
           "awaiting_workspace_password", "exchanging_token", "persisting",
           "complete", "failed", "cancelled"}
Final == {"complete", "failed", "cancelled"}

FailureKinds == {"invalid_otp", "expired_otp", "invalid_workspace_password",
                 "transient_transport", "stale_credential", "secret_store_unavailable",
                 "cancelled", "protocol", "terminal"}
ASSUME NoneIsNoFailure == None \notin FailureKinds

AuthState == [phase : Phases, otp_attempts : Nat, otp_sends : Nat,
              workspace_password_attempts : Nat, transport_attempt : Nat,
              failure : FailureKinds \cup {None}]

\* AuthEvent
PlainEvents == {"begin", "otp_sent", "otp_accepted", "workspace_resolved",
                "workspace_password_accepted", "workspace_password_rejected",
                "token_exchanged", "persist_started", "persist_succeeded",
                "transient_failure", "cancel"}
Event(type) == [type |-> type]
OtpRejected(expired) == [type |-> "otp_rejected", reference_expired |-> expired]
TerminalFailure(kind) == [type |-> "terminal_failure", kind |-> kind]
AuthEvent == {Event(type) : type \in PlainEvents} \cup {OtpRejected(b) : b \in BOOLEAN}
             \cup {TerminalFailure(kind) : kind \in FailureKinds}

Default == [phase |-> "idle", otp_attempts |-> 0, otp_sends |-> 0,
            workspace_password_attempts |-> 0, transport_attempt |-> 0, failure |-> None]

\* The events of each phase; failures and a cancellation are accepted in all.
Expected(phase) ==
    CASE phase = "idle"                        -> {"begin"}
      [] phase = "sending_otp"                 -> {"otp_sent"}
      [] phase = "awaiting_otp"                -> {"otp_accepted", "otp_rejected"}
      [] phase = "resolving_workspace"         -> {"workspace_resolved"}
      [] phase = "awaiting_workspace_password" -> {"workspace_password_accepted",
                                                   "workspace_password_rejected"}
      [] phase = "exchanging_token"            -> {"token_exchanged"}
      [] phase = "persisting"                  -> {"persist_started", "persist_succeeded"}
      [] OTHER                                 -> {}

Accepts(s, e) ==
    /\ s.phase \notin Final
    /\ e.type \in Expected(s.phase) \cup {"transient_failure", "terminal_failure", "cancel"}

Counted(n) == n + 1

Failed(s, kind) == [s EXCEPT !.phase = "failed", !.failure = kind]
Moved(s, phase) == [s EXCEPT !.phase = phase, !.failure = None]

\* Mutant of SendAgain: the budget of passcodes is tested one too late.
SendAgainOnceMore(s, kind) ==
    IF s.otp_sends > OtpSends THEN Failed(s, kind) ELSE Moved(s, "sending_otp")

\* The passcode is spent: another one is sent, as long as there is a budget.
SendAgain(s, kind) ==
    IF s.otp_sends >= OtpSends THEN Failed(s, kind) ELSE Moved(s, "sending_otp")

PasswordRejected(s) ==
    IF s.workspace_password_attempts >= PasswordAttempts
    THEN Failed(s, "invalid_workspace_password") ELSE Moved(s, s.phase)

\* apply(e): the state after an accepted event. Every event that does not fail
\* the login clears the recorded failure, the cancellation its own.
After(s, e) ==
    CASE e.type = "begin"    -> Moved(s, "sending_otp")
      [] e.type = "otp_sent" -> Moved([s EXCEPT !.otp_sends = Counted(@), !.otp_attempts = 0],
                                      "awaiting_otp")
      [] e.type = "otp_accepted" -> Moved(s, "resolving_workspace")
      [] e.type = "otp_rejected" ->
            LET t == [s EXCEPT !.otp_attempts = Counted(@)]
            IN  IF e.reference_expired THEN SendAgain(t, "expired_otp")
                ELSE IF t.otp_attempts >= OtpAttempts THEN SendAgain(t, "invalid_otp")
                ELSE Moved(t, "awaiting_otp")
      [] e.type = "workspace_resolved" ->
            Moved([s EXCEPT !.workspace_password_attempts = 0], "awaiting_workspace_password")
      [] e.type = "workspace_password_accepted" -> Moved(s, "exchanging_token")
      [] e.type = "workspace_password_rejected" ->
            PasswordRejected([s EXCEPT !.workspace_password_attempts = Counted(@)])
      [] e.type = "token_exchanged"   -> Moved(s, "persisting")
      [] e.type = "persist_started"   -> Moved(s, "persisting")
      [] e.type = "persist_succeeded" -> Moved(s, "complete")
      [] e.type = "transient_failure" ->
            LET t == [s EXCEPT !.transport_attempt = Counted(@)]
            IN  IF t.transport_attempt >= TransportAttempts
                THEN Failed(t, "transient_transport") ELSE Moved(t, s.phase)
      [] e.type = "terminal_failure" -> Failed(s, e.kind)
      [] e.type = "cancel"           -> Moved(s, "cancelled")

---------------------------------------------------------------------------

AuthInit == auth = Default

Apply == \E e \in AuthEvent : Accepts(auth, e) /\ auth' = After(auth, e)

AuthSpec == AuthInit /\ [][Apply]_auth

---------------------------------------------------------------------------
(* Properties *)

\* The budgets hold whatever the order of events: no more passcodes are sent,
\* no more codes are tried for one of them and no more passwords are tried than
\* AuthBudgets allows.
WithinBudgets ==
    /\ auth.otp_sends <= OtpSends
    /\ auth.otp_attempts <= OtpAttempts
    /\ auth.workspace_password_attempts <= PasswordAttempts
    /\ auth.transport_attempt <= TransportAttempts

\* A login that fails says why, and one that has not failed blames nothing.
FailureExplained == auth.phase = "failed" <=> auth.failure # None
=============================================================================
