---------------------------- MODULE OneLogin_proofs ----------------------------
(***************************************************************************)
(* The login, from the inside out, for every budget and every number of    *)
(* attempts of the transport.                                              *)
(*                                                                         *)
(*  1. The machine: an invariant of its state, MachineInv, is kept by      *)
(*     After, so the machine alone and the engine that drives it both have *)
(*     it.                                                                 *)
(*  2. The engine, whoever drives it: IInv for its budgets and its side    *)
(*     effects, OrderInv for the order of its steps.                       *)
(*  3. The command: LoginInv, of the command and of what the provider has  *)
(*     seen; InStep, that the adapter and the engine are at the same step, *)
(*     so that each step of the command is one the engine allows;          *)
(*     MachineOK, that its own machine completes with the store. Together  *)
(*     they are CommandInv.                                                *)
(***************************************************************************)
EXTENDS OneLogin, Integers, TLAPS
---------------------------------------------------------------------------
(* 1. The machine *)

\* What holds of the machine between two events: a login that goes on has something
\* left of every budget, a passcode about to be sent is one it may send, and a
\* code about to be tried one it may try.
MachineInv(s) ==
    /\ s \in AuthState
    /\ s.otp_sends <= OtpSends
    /\ s.otp_attempts <= OtpAttempts
    /\ s.workspace_password_attempts <= PasswordAttempts
    /\ s.transport_attempt <= TransportAttempts
    /\ s.phase \notin Final =>
          /\ s.transport_attempt < TransportAttempts
          /\ s.workspace_password_attempts < PasswordAttempts
    /\ s.phase = "idle" => s.otp_sends = 0
    /\ s.phase = "sending_otp" => s.otp_sends < OtpSends
    /\ s.phase = "awaiting_otp" => s.otp_attempts < OtpAttempts
    /\ s.phase = "failed" <=> s.failure # None

\* Moved and Failed change the phase and the failure, and nothing else.
SameCounters(s, t) ==
    /\ s.otp_attempts = t.otp_attempts
    /\ s.otp_sends = t.otp_sends
    /\ s.workspace_password_attempts = t.workspace_password_attempts
    /\ s.transport_attempt = t.transport_attempt

LEMMA Fields ==
    ASSUME NEW s \in AuthState
    PROVE  /\ s.phase \in Phases
           /\ s.otp_attempts \in Nat /\ s.otp_sends \in Nat
           /\ s.workspace_password_attempts \in Nat /\ s.transport_attempt \in Nat
BY DEF AuthState

LEMMA MovedFields ==
    ASSUME NEW s \in AuthState, NEW p \in Phases
    PROVE  /\ Moved(s, p) \in AuthState
           /\ Moved(s, p).phase = p /\ Moved(s, p).failure = None
           /\ SameCounters(Moved(s, p), s)
BY DEF AuthState, Moved, SameCounters

LEMMA FailedFields ==
    ASSUME NEW s \in AuthState, NEW kind \in FailureKinds
    PROVE  /\ Failed(s, kind) \in AuthState
           /\ Failed(s, kind).phase = "failed" /\ Failed(s, kind).failure = kind
           /\ SameCounters(Failed(s, kind), s)
<1>1. "failed" \in Phases
  BY DEF Phases
<1> QED BY <1>1 DEF AuthState, Failed, SameCounters

\* The machine starts with all its budgets (AuthState::default).
LEMMA DefaultOK == MachineInv(Default)
BY BudgetsOK, NoneIsNoFailure DEF MachineInv, Default, AuthState, Phases, Final

\* The events are the plain ones, a rejected code and a terminal failure.
LEMMA EventCases ==
    ASSUME NEW e \in AuthEvent
    PROVE  \/ e.type \in PlainEvents
           \/ e.type = "otp_rejected" /\ e.reference_expired \in BOOLEAN
           \/ e.type = "terminal_failure" /\ e.kind \in FailureKinds
BY DEF AuthEvent, Event, OtpRejected, TerminalFailure

\* A rejected code: the next passcode is sent within its budget or the login fails.
LEMMA RejectedOtpOK ==
    ASSUME NEW s, MachineInv(s), NEW e, Accepts(s, e), e.type = "otp_rejected",
           e.reference_expired \in BOOLEAN
    PROVE  MachineInv(After(s, e))
<1> DEFINE t == [s EXCEPT !.otp_attempts = Counted(@)]
<1>1. s.phase = "awaiting_otp"
  BY DEF Accepts, Expected
<1>2. /\ t \in AuthState
      /\ t.phase = "awaiting_otp" /\ t.failure = None
      /\ t.otp_attempts <= OtpAttempts
      /\ t.otp_sends <= OtpSends
      /\ t.workspace_password_attempts < PasswordAttempts
      /\ t.transport_attempt < TransportAttempts
  BY <1>1, BudgetsOK DEF MachineInv, AuthState, Counted, Final
<1> HIDE DEF t
<1>3. ASSUME NEW kind \in FailureKinds
      PROVE  MachineInv(SendAgain(t, kind))
  <2>1. CASE t.otp_sends >= OtpSends
    <3>1. SendAgain(t, kind) = Failed(t, kind)
      BY <2>1 DEF SendAgain
    <3> QED
      BY <1>2, <1>3, <3>1, FailedFields, Fields, NoneIsNoFailure, BudgetsOK
      DEF MachineInv, SameCounters, Final
  <2>2. CASE ~(t.otp_sends >= OtpSends)
    <3>1. SendAgain(t, kind) = Moved(t, "sending_otp")
      BY <2>2 DEF SendAgain
    <3>2. "sending_otp" \in Phases
      BY DEF Phases
    <3> DEFINE u == Moved(t, "sending_otp")
    <3>3. u \in AuthState /\ u.phase = "sending_otp" /\ u.failure = None /\ SameCounters(u, t)
      BY <1>2, <3>2, MovedFields
    <3> HIDE DEF u
    <3>4. MachineInv(u)
      BY <1>2, <2>2, <3>3, Fields, BudgetsOK DEF MachineInv, SameCounters, Final
    <3> QED BY <3>1, <3>4 DEF u
  <2> QED BY <2>1, <2>2
<1>4. CASE e.reference_expired
  <2>1. After(s, e) = SendAgain(t, "expired_otp")
    BY <1>4 DEF After, t
  <2> QED BY <1>3, <2>1 DEF FailureKinds
<1>5. CASE ~e.reference_expired /\ t.otp_attempts >= OtpAttempts
  <2>1. After(s, e) = SendAgain(t, "invalid_otp")
    BY <1>5 DEF After, t
  <2> QED BY <1>3, <2>1 DEF FailureKinds
<1>6. CASE ~e.reference_expired /\ ~(t.otp_attempts >= OtpAttempts)
  <2>1. After(s, e) = Moved(t, "awaiting_otp")
    BY <1>6 DEF After, t
  <2>2. "awaiting_otp" \in Phases
    BY DEF Phases
  <2> QED
    BY <2>1, <2>2, <1>2, <1>6, MovedFields, Fields, BudgetsOK
    DEF MachineInv, SameCounters, Final
<1> QED BY <1>4, <1>5, <1>6

\* A transient failure or a rejected password: the login goes on while a try is left.
LEMMA RetryOK ==
    ASSUME NEW s, MachineInv(s), NEW e, Accepts(s, e),
           e.type \in {"transient_failure", "workspace_password_rejected"}
    PROVE  MachineInv(After(s, e))
<1>1. s.phase \notin Final /\ s.failure = None
  BY DEF Accepts, MachineInv, AuthState, Final
<1>2. CASE e.type = "transient_failure"
  <2> DEFINE t == [s EXCEPT !.transport_attempt = Counted(@)]
  <2>1. After(s, e) = IF t.transport_attempt >= TransportAttempts
                      THEN Failed(t, "transient_transport") ELSE Moved(t, s.phase)
    BY <1>2 DEF After
  <2>2. /\ t \in AuthState /\ t.phase = s.phase /\ t.otp_sends = s.otp_sends
        /\ t.otp_attempts = s.otp_attempts
        /\ t.workspace_password_attempts = s.workspace_password_attempts
        /\ t.transport_attempt <= TransportAttempts
    BY <1>1, BudgetsOK DEF MachineInv, AuthState, Counted
  <2> HIDE DEF t
  <2>3. CASE t.transport_attempt >= TransportAttempts
    <3>1. After(s, e) = Failed(t, "transient_transport")
      BY <2>1, <2>3
    <3>2. "transient_transport" \in FailureKinds
      BY DEF FailureKinds
    <3> QED
      BY <1>1, <2>2, <3>1, <3>2, FailedFields, Fields, NoneIsNoFailure, BudgetsOK
      DEF MachineInv, SameCounters, Final
  <2>4. CASE ~(t.transport_attempt >= TransportAttempts)
    <3>1. After(s, e) = Moved(t, s.phase)
      BY <2>1, <2>2, <2>4
    <3> QED
      BY <1>1, <2>2, <2>4, <3>1, MovedFields, Fields, BudgetsOK
      DEF MachineInv, SameCounters, Final
  <2> QED BY <2>3, <2>4
<1>3. CASE e.type = "workspace_password_rejected"
  <2> DEFINE t == [s EXCEPT !.workspace_password_attempts = Counted(@)]
  <2>1. After(s, e) = IF t.workspace_password_attempts >= PasswordAttempts
                      THEN Failed(t, "invalid_workspace_password") ELSE Moved(t, t.phase)
    BY <1>3 DEF After, PasswordRejected
  <2>2. /\ t \in AuthState /\ t.phase = s.phase /\ t.otp_sends = s.otp_sends
        /\ t.otp_attempts = s.otp_attempts
        /\ t.transport_attempt = s.transport_attempt
        /\ t.workspace_password_attempts <= PasswordAttempts
    BY <1>1, BudgetsOK DEF MachineInv, AuthState, Counted
  <2> HIDE DEF t
  <2>3. CASE t.workspace_password_attempts >= PasswordAttempts
    <3>1. After(s, e) = Failed(t, "invalid_workspace_password")
      BY <2>1, <2>3
    <3>2. "invalid_workspace_password" \in FailureKinds
      BY DEF FailureKinds
    <3> QED
      BY <1>1, <2>2, <3>1, <3>2, FailedFields, Fields, NoneIsNoFailure, BudgetsOK
      DEF MachineInv, SameCounters, Final
  <2>4. CASE ~(t.workspace_password_attempts >= PasswordAttempts)
    <3>1. After(s, e) = Moved(t, s.phase)
      BY <2>1, <2>2, <2>4
    <3> QED
      BY <1>1, <2>2, <2>4, <3>1, MovedFields, Fields, BudgetsOK
      DEF MachineInv, SameCounters, Final
  <2> QED BY <2>3, <2>4
<1> QED BY <1>2, <1>3

\* Every accepted event keeps the machine within its budgets.
LEMMA AfterOK ==
    ASSUME NEW s, MachineInv(s), NEW e \in AuthEvent, Accepts(s, e)
    PROVE  MachineInv(After(s, e))
<1>1. CASE e.type = "otp_rejected"
  BY <1>1, EventCases, RejectedOtpOK DEF PlainEvents
<1>2. CASE e.type \in {"transient_failure", "workspace_password_rejected"}
  BY <1>2, RetryOK
<1>3. CASE e.type = "terminal_failure"
  <2>1. After(s, e) = Failed(s, e.kind) /\ e.kind \in FailureKinds
    BY <1>3, EventCases DEF After, PlainEvents
  <2> QED
    BY <2>1, NoneIsNoFailure DEF MachineInv, AuthState, Failed, Final, Phases
<1>4. CASE e.type = "otp_sent"
  <2>1. s.phase = "sending_otp"
    BY <1>4 DEF Accepts, Expected
  <2>2. After(s, e) = Moved([s EXCEPT !.otp_sends = Counted(@), !.otp_attempts = 0],
                            "awaiting_otp")
    BY <1>4 DEF After
  <2> DEFINE t == [s EXCEPT !.otp_sends = Counted(@), !.otp_attempts = 0]
  <2>3. /\ t \in AuthState
        /\ t.otp_sends <= OtpSends /\ t.otp_attempts = 0
        /\ t.workspace_password_attempts = s.workspace_password_attempts
        /\ t.transport_attempt = s.transport_attempt
    <3>1. s \in AuthState /\ s.otp_sends < OtpSends /\ OtpSends \in Nat
      BY <2>1, BudgetsOK DEF MachineInv
    <3>2. s.otp_sends + 1 \in Nat /\ s.otp_sends + 1 <= OtpSends
      BY <3>1, Fields
    <3>3. t = [s EXCEPT !.otp_sends = s.otp_sends + 1, !.otp_attempts = 0]
      BY DEF Counted
    <3>4. t.otp_sends = s.otp_sends + 1 /\ t.otp_attempts = 0
      BY <3>1, <3>3 DEF AuthState
    <3>5. /\ t.workspace_password_attempts = s.workspace_password_attempts
          /\ t.transport_attempt = s.transport_attempt
      BY <3>1, <3>3 DEF AuthState
    <3>6. t \in AuthState
      BY <3>1, <3>2, <3>3 DEF AuthState
    <3> QED BY <3>2, <3>4, <3>5, <3>6
  <2>4. "awaiting_otp" \in Phases /\ s.phase \notin Final
    BY <2>1 DEF Phases, Final
  <2>5. After(s, e) = Moved(t, "awaiting_otp")
    BY <2>2 DEF t
  <2> HIDE DEF t
  <2> QED
    BY <2>3, <2>4, <2>5, MovedFields, Fields, BudgetsOK
    DEF MachineInv, SameCounters, Final
<1>5. CASE e.type = "workspace_resolved"
  <2>1. s.phase = "resolving_workspace"
    BY <1>5 DEF Accepts, Expected
  <2>2. After(s, e) = Moved([s EXCEPT !.workspace_password_attempts = 0],
                            "awaiting_workspace_password")
    BY <1>5 DEF After
  <2> DEFINE t == [s EXCEPT !.workspace_password_attempts = 0]
  <2>3. /\ t \in AuthState
        /\ t.workspace_password_attempts = 0
        /\ t.otp_sends = s.otp_sends /\ t.otp_attempts = s.otp_attempts
        /\ t.transport_attempt = s.transport_attempt
    BY DEF MachineInv, AuthState
  <2>4. "awaiting_workspace_password" \in Phases /\ s.phase \notin Final
    BY <2>1 DEF Phases, Final
  <2>5. After(s, e) = Moved(t, "awaiting_workspace_password")
    BY <2>2 DEF t
  <2> HIDE DEF t
  <2> QED
    BY <2>3, <2>4, <2>5, MovedFields, Fields, BudgetsOK
    DEF MachineInv, SameCounters, Final
<1>6. CASE e.type \in {"begin", "otp_accepted", "workspace_password_accepted",
                       "token_exchanged", "persist_started", "persist_succeeded", "cancel"}
  <2>1. PICK p \in Phases \ {"idle", "awaiting_otp", "failed"} :
          /\ After(s, e) = Moved(s, p)
          /\ p = "sending_otp" => s.phase = "idle"
    BY <1>6 DEF After, Accepts, Expected, Phases
  <2> QED
    BY <2>1, MovedFields, Fields, BudgetsOK DEF MachineInv, SameCounters, Final, Accepts
<1> QED BY <1>1, <1>2, <1>3, <1>4, <1>5, <1>6, EventCases DEF PlainEvents

---------------------------------------------------------------------------
(* The machine alone *)

LEMMA MachineInductive == AuthSpec => []MachineInv(auth)
<1>1. AuthInit => MachineInv(auth)
  BY DefaultOK DEF AuthInit
<1>2. MachineInv(auth) /\ [Apply]_auth => MachineInv(auth)'
  <2> SUFFICES ASSUME MachineInv(auth), [Apply]_auth PROVE MachineInv(auth')
    BY DEF MachineInv
  <2>1. CASE Apply
    BY <2>1, AfterOK DEF Apply
  <2>2. CASE UNCHANGED auth
    BY <2>2
  <2> QED BY <2>1, <2>2
<1> QED BY <1>1, <1>2, PTL DEF AuthSpec

\* Whatever the order of events, the machine keeps to its budgets (apply).
THEOREM BudgetsKept == AuthSpec => []WithinBudgets
<1>1. MachineInv(auth) => WithinBudgets
  BY DEF MachineInv, WithinBudgets
<1> QED BY <1>1, MachineInductive, PTL

\* A failed login says why, and no other does (fail, apply).
THEOREM FailuresExplained == AuthSpec => []FailureExplained
<1>1. MachineInv(auth) => FailureExplained
  BY DEF MachineInv, FailureExplained
<1> QED BY <1>1, MachineInductive, PTL

---------------------------------------------------------------------------
(* 2. The engine *)

\* The steps before the token, and the phases before it is asked for.
BeforeMint == {"idle", "sending_otp", "awaiting_otp", "resolving_workspace",
               "awaiting_workspace_password"}

\* What the provider saw is what the machine counted: a pending side effect is one
\* that has not been requested since its budget was tested.
SideEffectsCounted ==
    /\ pending = "send_otp" \/ auth.phase \notin Final \cup {"sending_otp"} =>
          reached["send_otp"] = auth.otp_sends
    /\ pending \in {"resume_oidc", "mint_pat"} \/ auth.phase \in BeforeMint =>
          reached["mint_pat"] = 0
    /\ pending = "persist" \/ auth.phase \in BeforeMint \cup {"exchanging_token"} =>
          reached["persist"] = 0

IInv ==
    /\ TypeOK
    /\ MachineInv(auth)
    /\ PendingMatchesPhase
    /\ SideEffectsBounded
    /\ SideEffectsCounted

\* An accepted step's event is the one its phase expects, and where it leads.
Leads(step) ==
    CASE step = "send_otp"                  -> "awaiting_otp"
      [] step = "validate_otp"              -> "resolving_workspace"
      [] step = "resolve_workspace"         -> "awaiting_workspace_password"
      [] step = "submit_workspace_password" -> "exchanging_token"
      [] step = "mint_pat"                  -> "persisting"
      [] step = "persist"                   -> "complete"

LEMMA AcceptedMoves ==
    ASSUME IInv, pending \in Steps, pending # "resume_oidc",
           NEW s, s = After(auth, EventOf(pending))
    PROVE  /\ EventOf(pending) \in AuthEvent
           /\ Accepts(auth, EventOf(pending))
           /\ s.phase = Leads(pending)
           /\ s.otp_sends = auth.otp_sends + (IF pending = "send_otp" THEN 1 ELSE 0)
<1>1. auth \in AuthState /\ auth.phase = PhaseOf(pending) /\ auth.otp_sends \in Nat
  <2>1. auth \in AuthState
    BY DEF IInv, MachineInv
  <2> QED BY <2>1, Fields, NoneIsNoStep DEF IInv, PendingMatchesPhase
<1>2. pending \in {"send_otp", "validate_otp", "resolve_workspace",
                  "submit_workspace_password", "mint_pat", "persist"}
  BY DEF Steps, Order
<1>3. EventOf(pending) \in AuthEvent
  <2>1. \A type \in PlainEvents : Event(type) \in AuthEvent
    BY DEF AuthEvent
  <2> QED BY <1>2, <2>1 DEF EventOf, PlainEvents
<1>4. Accepts(auth, EventOf(pending))
  BY <1>1, <1>2 DEF Accepts, Expected, EventOf, Event, PhaseOf, Final
<1>5. CASE pending = "send_otp"
  <2>1. s = Moved([auth EXCEPT !.otp_sends = Counted(@), !.otp_attempts = 0], "awaiting_otp")
    BY <1>5 DEF After, EventOf, Event
  <2> DEFINE t == [auth EXCEPT !.otp_sends = auth.otp_sends + 1, !.otp_attempts = 0]
  <2>2. s = [t EXCEPT !.phase = "awaiting_otp", !.failure = None]
    BY <2>1 DEF Counted, Moved
  <2>3. t \in AuthState /\ t.otp_sends = auth.otp_sends + 1
    <3>1. auth.otp_sends + 1 \in Nat
      BY <1>1
    <3>2. t.otp_sends = auth.otp_sends + 1
      BY <1>1 DEF AuthState
    <3>3. t \in AuthState
      BY <1>1, <3>1 DEF AuthState
    <3> QED BY <3>2, <3>3
  <2> HIDE DEF t
  <2>4. s.phase = "awaiting_otp" /\ s.otp_sends = t.otp_sends
    BY <2>2, <2>3 DEF AuthState
  <2> QED BY <1>3, <1>4, <1>5, <2>3, <2>4 DEF Leads
<1>6. CASE pending = "resolve_workspace"
  <2> DEFINE t == [auth EXCEPT !.workspace_password_attempts = 0]
  <2>1. s = Moved(t, "awaiting_workspace_password")
    BY <1>6 DEF After, EventOf, Event
  <2>2. t \in AuthState /\ t.otp_sends = auth.otp_sends
    BY <1>1 DEF AuthState
  <2>3. "awaiting_workspace_password" \in Phases
    BY DEF Phases
  <2> HIDE DEF t
  <2> QED
    BY <1>1, <1>3, <1>4, <1>6, <2>1, <2>2, <2>3, MovedFields DEF Leads, SameCounters
<1>7. CASE pending \in {"validate_otp", "submit_workspace_password", "mint_pat", "persist"}
  <2>1. s = Moved(auth, Leads(pending))
    BY <1>7 DEF After, EventOf, Event, Leads
  <2>2. Leads(pending) \in Phases
    BY <1>7 DEF Leads, Phases
  <2> QED BY <1>1, <1>3, <1>4, <1>7, <2>1, <2>2, MovedFields DEF SameCounters
<1> QED BY <1>2, <1>5, <1>6, <1>7

\* A rejected step: the login fails, asks again, or sends a passcode within its budget.
LEMMA FailedMoves ==
    ASSUME IInv, pending # None, NEW kind \in FailureKinds
    PROVE  /\ TerminalFailure(kind) \in AuthEvent
           /\ Accepts(auth, TerminalFailure(kind))
           /\ After(auth, TerminalFailure(kind)).phase = "failed"
<1>1. auth \in AuthState /\ auth.phase = PhaseOf(pending) /\ pending \in Steps
  BY DEF IInv, MachineInv, TypeOK, PendingMatchesPhase
<1>2. TerminalFailure(kind) \in AuthEvent
  BY DEF AuthEvent
<1>3. auth.phase \notin Final
  BY <1>1 DEF PhaseOf, Steps, Order, Final
<1>4. After(auth, TerminalFailure(kind)) = Failed(auth, kind)
  BY DEF After, TerminalFailure
<1> QED BY <1>1, <1>2, <1>3, <1>4, FailedFields DEF Accepts, TerminalFailure

LEMMA RejectedOtpMoves ==
    ASSUME IInv, pending = "validate_otp", NEW expired \in BOOLEAN,
           NEW s, s = After(auth, OtpRejected(expired))
    PROVE  /\ OtpRejected(expired) \in AuthEvent
           /\ Accepts(auth, OtpRejected(expired))
           /\ s.phase \in {"awaiting_otp", "sending_otp", "failed"}
           /\ s.otp_sends = auth.otp_sends
<1>1. auth \in AuthState /\ auth.phase = "awaiting_otp"
  BY NoneIsNoStep DEF IInv, MachineInv, PendingMatchesPhase, PhaseOf, Steps, Order
<1>2. OtpRejected(expired) \in AuthEvent /\ Accepts(auth, OtpRejected(expired))
  BY <1>1 DEF AuthEvent, Accepts, Expected, OtpRejected, Final
<1> DEFINE t == [auth EXCEPT !.otp_attempts = Counted(@)]
<1>3. t \in AuthState /\ t.otp_sends = auth.otp_sends
  BY <1>1 DEF AuthState, Counted
<1>4. \/ s = Moved(t, "awaiting_otp")
      \/ s = Moved(t, "sending_otp")
      \/ \E kind \in {"expired_otp", "invalid_otp"} : s = Failed(t, kind)
  BY DEF After, OtpRejected, SendAgain
<1>5. /\ {"awaiting_otp", "sending_otp"} \subseteq Phases
      /\ {"expired_otp", "invalid_otp"} \subseteq FailureKinds
  BY DEF Phases, FailureKinds
<1> HIDE DEF t
<1>6. ASSUME NEW p \in {"awaiting_otp", "sending_otp"}, s = Moved(t, p)
      PROVE  s.phase = p /\ SameCounters(s, t)
  BY <1>3, <1>5, <1>6, MovedFields
<1>7. ASSUME NEW kind \in {"expired_otp", "invalid_otp"}, s = Failed(t, kind)
      PROVE  s.phase = "failed" /\ SameCounters(s, t)
  BY <1>3, <1>5, <1>7, FailedFields
<1>8. s.phase \in {"awaiting_otp", "sending_otp", "failed"} /\ SameCounters(s, t)
  BY <1>4, <1>6, <1>7
<1> QED BY <1>2, <1>3, <1>8 DEF SameCounters

LEMMA RejectedPasswordMoves ==
    ASSUME IInv, pending = "submit_workspace_password",
           NEW s, s = After(auth, Event("workspace_password_rejected"))
    PROVE  /\ Event("workspace_password_rejected") \in AuthEvent
           /\ Accepts(auth, Event("workspace_password_rejected"))
           /\ s.phase \in {"awaiting_workspace_password", "failed"}
           /\ s.otp_sends = auth.otp_sends
<1>1. auth \in AuthState /\ auth.phase = "awaiting_workspace_password"
  BY NoneIsNoStep DEF IInv, MachineInv, PendingMatchesPhase, PhaseOf, Steps, Order
<1>2. /\ Event("workspace_password_rejected") \in AuthEvent
      /\ Accepts(auth, Event("workspace_password_rejected"))
  BY <1>1 DEF AuthEvent, PlainEvents, Accepts, Expected, Event, Final
<1> DEFINE t == [auth EXCEPT !.workspace_password_attempts = Counted(@)]
<1>3. t \in AuthState /\ t.otp_sends = auth.otp_sends
      /\ t.phase = "awaiting_workspace_password"
  BY <1>1 DEF AuthState, Counted
<1>4. \/ s = Moved(t, "awaiting_workspace_password")
      \/ s = Failed(t, "invalid_workspace_password")
  BY <1>3 DEF After, Event, PasswordRejected
<1>5. /\ "awaiting_workspace_password" \in Phases
      /\ "invalid_workspace_password" \in FailureKinds
  BY DEF Phases, FailureKinds
<1> HIDE DEF t
<1>6. CASE s = Moved(t, "awaiting_workspace_password")
  <2>1. s.phase = "awaiting_workspace_password" /\ SameCounters(s, t)
    BY <1>3, <1>5, <1>6, MovedFields
  <2> QED BY <1>2, <1>3, <2>1 DEF SameCounters
<1>7. CASE s = Failed(t, "invalid_workspace_password")
  <2>1. s.phase = "failed" /\ SameCounters(s, t)
    BY <1>3, <1>5, <1>7, FailedFields
  <2> QED BY <1>2, <1>3, <2>1 DEF SameCounters
<1> QED BY <1>4, <1>6, <1>7

---------------------------------------------------------------------------

\* A new wizard has asked nobody for anything.
LEMMA InitOK == Init => IInv
<1> SUFFICES ASSUME Init PROVE IInv
  OBVIOUS
<1>1. MachineInv(auth) /\ auth.phase = "idle" /\ auth.otp_sends = 0
  BY DefaultOK DEF Init, AuthInit, Default
<1>2. reached \in [SideEffects -> Nat] /\ \A step \in SideEffects : reached[step] = 0
  BY DEF Init
<1>3. TypeOK
  BY <1>1, <1>2 DEF Init, TypeOK, MachineInv
<1>4. OtpSends \in Nat
  BY BudgetsOK
<1> QED
  BY <1>1, <1>2, <1>3, <1>4
  DEF Init, IInv, PendingMatchesPhase, SideEffectsBounded, SideEffectsCounted, SideEffects

\* The caller's steps: a step becomes pending in its phase.
LEMMA CallerOK ==
    ASSUME IInv, Start \/ SubmitOtp \/ SubmitWorkspacePassword
    PROVE  IInv'
<1>1. CASE Start
  <2>1. Event("begin") \in AuthEvent /\ Accepts(auth, Event("begin"))
    BY <1>1 DEF Start, AuthEvent, PlainEvents
  <2>2. MachineInv(auth') /\ auth.phase = "idle"
    BY <1>1, <2>1, AfterOK DEF Start, IInv, Accepts, Expected, Event
  <2>3. auth'.phase = "sending_otp" /\ auth'.otp_sends = auth.otp_sends
    <3>1. auth' = Moved(auth, "sending_otp")
      BY <1>1 DEF Start, After, Event
    <3>2. auth \in AuthState /\ "sending_otp" \in Phases
      BY DEF IInv, MachineInv, Phases
    <3> QED BY <3>1, <3>2, MovedFields DEF SameCounters
  <2>4. TypeOK'
    BY <1>1, <2>2 DEF Start, IInv, TypeOK, MachineInv, Steps, Order
  <2>5. /\ reached["send_otp"] = auth.otp_sends /\ reached["mint_pat"] = 0
        /\ reached["persist"] = 0
    BY <2>2 DEF IInv, SideEffectsCounted, BeforeMint, Final
  <2> QED
    BY <1>1, <2>2, <2>3, <2>4, <2>5
    DEF Start, IInv, PendingMatchesPhase, PhaseOf, SideEffectsBounded, SideEffectsCounted,
        BeforeMint, Final
<1>2. CASE SubmitOtp \/ SubmitWorkspacePassword
  <2>1. TypeOK'
    BY <1>2 DEF SubmitOtp, SubmitWorkspacePassword, IInv, TypeOK, Steps, Order
  <2> QED
    BY <1>2, <2>1
    DEF SubmitOtp, SubmitWorkspacePassword, Ready, IInv, PendingMatchesPhase, PhaseOf,
        SideEffectsBounded, SideEffectsCounted, BeforeMint, Final, MachineInv
<1> QED BY <1>1, <1>2

\* A request reaches the provider: its counter goes up, the others stay.
LEMMA ReachedOK ==
    ASSUME IInv, pending # None, Reached(pending)
    PROVE  /\ reached' \in [SideEffects -> Nat]
           /\ \A step \in SideEffects :
                 reached'[step] = reached[step] + (IF step = pending THEN 1 ELSE 0)
BY DEF IInv, TypeOK, Reached

\* A pending side effect is within its budget.
LEMMA WithinBudget ==
    ASSUME IInv, pending # None
    PROVE  /\ pending = "send_otp" => reached["send_otp"] < OtpSends
           /\ pending = "mint_pat" => reached["mint_pat"] = 0
           /\ pending = "persist" => reached["persist"] = 0
BY DEF IInv, MachineInv, PendingMatchesPhase, PhaseOf, SideEffectsCounted

\* Whatever became of the pending step, the provider saw no more than allowed.
LEMMA BoundedOK ==
    ASSUME IInv, pending # None, Reached(pending)
    PROVE  SideEffectsBounded'
<1>1. {"send_otp", "mint_pat", "persist"} = SideEffects
  BY DEF SideEffects
<1>2. reached \in [SideEffects -> Nat] /\ SideEffectsBounded /\ OtpSends \in Nat
  BY BudgetsOK DEF IInv, TypeOK
<1> QED BY <1>1, <1>2, ReachedOK, WithinBudget DEF SideEffectsBounded

LEMMA UncertainOK ==
    ASSUME IInv, RecordMayHaveCommitted
    PROVE  IInv'
<1>1. pending # None /\ Reached(pending) /\ pending' = None /\ auth' = auth
  BY DEF RecordMayHaveCommitted
<1>2. TypeOK'
  BY <1>1, ReachedOK DEF RecordMayHaveCommitted, IInv, TypeOK
<1>3. SideEffectsCounted'
  BY <1>1, ReachedOK, NoneIsNoStep
  DEF IInv, SideEffectsCounted, SideEffects, PendingMatchesPhase, PhaseOf, BeforeMint, Final,
      Steps, Order, TypeOK
<1>4. MachineInv(auth')
  BY <1>1 DEF IInv
<1> QED BY <1>1, <1>2, <1>3, <1>4, BoundedOK DEF IInv, PendingMatchesPhase

\* An accepted step leads to the next phase, with the next step pending or none.
LEMMA AcceptedOK ==
    ASSUME IInv, RecordAccepted
    PROVE  IInv'
<1>1. pending # None /\ pending \in Steps /\ Reached(pending) /\ auth.phase = PhaseOf(pending)
  BY DEF RecordAccepted, IInv, TypeOK, PendingMatchesPhase
<1>2. pending' = NextStep(pending) /\ pending' \in Steps \cup {None}
  <2>1. pending' = NextStep(pending)
    BY <1>1, AcceptedMoves DEF RecordAccepted, AcceptedStep, Applied
  <2> QED BY <2>1 DEF NextStep, Steps, Order
<1>3. CASE pending = "resume_oidc"
  <2>1. auth' = auth /\ pending' = "mint_pat"
    BY <1>2, <1>3 DEF RecordAccepted, AcceptedStep, NextStep
  <2>2. TypeOK'
    BY <1>1, <1>2, <2>1, ReachedOK DEF RecordAccepted, IInv, TypeOK
  <2>3. SideEffectsCounted'
    <3>1. reached' = reached
      BY <1>1, <1>3 DEF Reached, SideEffects
    <3> QED
      BY <1>1, <1>3, <2>1, <3>1 DEF IInv, SideEffectsCounted, PhaseOf, BeforeMint, Final
  <2> QED
    BY <1>1, <1>3, <2>1, <2>2, <2>3, BoundedOK DEF IInv, PendingMatchesPhase, PhaseOf
<1>4. CASE pending # "resume_oidc"
  <2>1. /\ auth' = After(auth, EventOf(pending)) /\ MachineInv(auth')
        /\ auth'.phase = Leads(pending)
        /\ auth'.otp_sends = auth.otp_sends + (IF pending = "send_otp" THEN 1 ELSE 0)
    <3>1. auth' = After(auth, EventOf(pending))
      BY <1>1, <1>4, AcceptedMoves DEF RecordAccepted, AcceptedStep, Applied
    <3> QED BY <1>1, <1>4, <3>1, AcceptedMoves, AfterOK DEF IInv
  <2>2. TypeOK'
    BY <1>1, <1>2, <2>1, ReachedOK DEF RecordAccepted, IInv, TypeOK, MachineInv
  <2>3. PendingMatchesPhase'
    BY <1>1, <1>2, <1>4, <2>1
    DEF PendingMatchesPhase, NextStep, Leads, PhaseOf, Steps, Order
  <2>4. SideEffectsCounted'
    BY <1>1, <1>2, <1>4, <2>1, ReachedOK, NoneIsNoStep
    DEF IInv, SideEffectsCounted, SideEffects, NextStep, Leads, PhaseOf, BeforeMint, Final,
        Steps, Order
  <2> QED BY <1>1, <2>1, <2>2, <2>3, <2>4, BoundedOK DEF IInv
<1> QED BY <1>3, <1>4

\* A rejected step fails the login, asks again or sends the next passcode.
LEMMA RejectedOK ==
    ASSUME IInv, RecordRejected
    PROVE  IInv'
<1>1. pending # None /\ pending \in Steps /\ Reached(pending) /\ auth.phase = PhaseOf(pending)
  BY DEF RecordRejected, IInv, TypeOK, PendingMatchesPhase
<1>2. PICK kind \in FailureKinds :
        RejectedOtp(kind) \/ RejectedPassword(kind) \/ RejectedForGood(kind)
  BY DEF RecordRejected
<1>3. CASE RejectedOtp(kind)
  <2> DEFINE e == OtpRejected(kind = "expired_otp")
  <2>1. /\ e \in AuthEvent /\ Accepts(auth, e)
        /\ After(auth, e).phase \in {"awaiting_otp", "sending_otp", "failed"}
        /\ After(auth, e).otp_sends = auth.otp_sends
    BY <1>3, RejectedOtpMoves DEF RejectedOtp
  <2>2. /\ auth' = After(auth, e)
        /\ pending' = IF auth'.phase = "sending_otp" THEN "send_otp" ELSE None
        /\ accepted' \in {{}, accepted}
    BY <1>3, <2>1 DEF RejectedOtp, Applied
  <2>3. MachineInv(auth')
    BY <2>1, <2>2, AfterOK DEF IInv
  <2>4. pending = "validate_otp" /\ auth.phase = "awaiting_otp"
    BY <1>1, <1>3 DEF RejectedOtp, PhaseOf
  <2> HIDE DEF e
  <2>5. TypeOK'
    BY <1>1, <2>2, <2>3, ReachedOK DEF RecordRejected, IInv, TypeOK, MachineInv, Steps, Order
  <2>6. SideEffectsCounted'
    <3>1. reached' = reached
      BY <1>1, <2>4 DEF Reached, SideEffects
    <3> QED
      BY <2>1, <2>2, <2>4, <3>1, NoneIsNoStep
      DEF IInv, SideEffectsCounted, BeforeMint, Final, Steps, Order
  <2> QED
    BY <1>1, <2>2, <2>3, <2>5, <2>6, BoundedOK DEF IInv, PendingMatchesPhase, PhaseOf
<1>4. CASE RejectedPassword(kind)
  <2> DEFINE e == Event("workspace_password_rejected")
  <2>1. /\ e \in AuthEvent /\ Accepts(auth, e)
        /\ After(auth, e).phase \in {"awaiting_workspace_password", "failed"}
        /\ After(auth, e).otp_sends = auth.otp_sends
    BY <1>4, RejectedPasswordMoves DEF RejectedPassword
  <2>2. auth' = After(auth, e) /\ pending' = None /\ accepted' = accepted
    BY <1>4, <2>1 DEF RejectedPassword, Applied
  <2>3. MachineInv(auth')
    BY <2>1, <2>2, AfterOK DEF IInv
  <2>4. pending = "submit_workspace_password" /\ auth.phase = "awaiting_workspace_password"
    BY <1>1, <1>4 DEF RejectedPassword, PhaseOf
  <2> HIDE DEF e
  <2>5. TypeOK'
    BY <1>1, <2>2, <2>3, ReachedOK DEF RecordRejected, IInv, TypeOK, MachineInv
  <2>6. SideEffectsCounted'
    <3>1. reached' = reached
      BY <1>1, <2>4 DEF Reached, SideEffects
    <3> QED
      BY <2>1, <2>2, <2>4, <3>1, NoneIsNoStep
      DEF IInv, SideEffectsCounted, BeforeMint, Final, Steps, Order
  <2> QED BY <1>1, <2>2, <2>3, <2>5, <2>6, BoundedOK DEF IInv, PendingMatchesPhase
<1>5. CASE RejectedForGood(kind)
  <2> DEFINE e == TerminalFailure(kind)
  <2>1. e \in AuthEvent /\ Accepts(auth, e) /\ After(auth, e).phase = "failed"
    BY <1>1, FailedMoves
  <2>2. auth' = After(auth, e) /\ pending' = None /\ accepted' = accepted
    BY <1>5, <2>1 DEF RejectedForGood, Applied
  <2>3. MachineInv(auth')
    BY <2>1, <2>2, AfterOK DEF IInv
  <2> HIDE DEF e
  <2>5. TypeOK'
    BY <1>1, <2>2, <2>3, ReachedOK DEF RecordRejected, IInv, TypeOK, MachineInv
  <2>6. SideEffectsCounted'
    BY <2>1, <2>2, NoneIsNoStep DEF SideEffectsCounted, BeforeMint, Final, Steps, Order
  <2> QED BY <1>1, <2>2, <2>3, <2>5, <2>6, BoundedOK DEF IInv, PendingMatchesPhase
<1> QED BY <1>2, <1>3, <1>4, <1>5

LEMMA IInvKept ==
    ASSUME IInv, [Next]_vars
    PROVE  IInv'
<1>1. CASE UNCHANGED vars \/ RecordNotSent
  BY <1>1
  DEF RecordNotSent, vars, IInv, TypeOK, MachineInv, PendingMatchesPhase, SideEffectsBounded,
      SideEffectsCounted
<1>2. CASE Start \/ SubmitOtp \/ SubmitWorkspacePassword
  BY <1>2, CallerOK
<1>3. CASE Record
  BY <1>3, UncertainOK, AcceptedOK, RejectedOK DEF Record
<1> QED BY <1>1, <1>2, <1>3 DEF Next

LEMMA IInvInductive == Spec => []IInv
<1>1. IInv /\ [Next]_vars => IInv'
  BY IInvKept
<1> QED BY <1>1, InitOK, PTL DEF Spec

\* For every budget: whatever the outcomes and the order the caller records them
\* in, the provider sees no more passcode requests than AuthBudgets allows, one
\* token request and one persisted credential (WizardEngine::record).
THEOREM EffectsBounded == Spec => []SideEffectsBounded
<1>1. IInv => SideEffectsBounded
  BY DEF IInv
<1> QED BY <1>1, IInvInductive, PTL

\* record is never refused: the pending step is one of the machine's phase.
THEOREM NeverRefused == Spec => []PendingMatchesPhase
<1>1. IInv => PendingMatchesPhase
  BY DEF IInv
<1> QED BY <1>1, IInvInductive, PTL

\* Every state of the wizard is one of its types.
THEOREM WizardTypes == Spec => []TypeOK
<1>1. IInv => TypeOK
  BY DEF IInv
<1> QED BY <1>1, IInvInductive, PTL

---------------------------------------------------------------------------
(* The order of the engine's steps *)

\* The steps accepted on the way to a phase.
Before(phase) ==
    CASE phase = "awaiting_otp"                -> {"send_otp"}
      [] phase = "resolving_workspace"         -> {"send_otp", "validate_otp"}
      [] phase = "awaiting_workspace_password" -> {"send_otp", "validate_otp",
                                                   "resolve_workspace"}
      [] phase = "exchanging_token"            -> {"send_otp", "validate_otp",
                                                   "resolve_workspace",
                                                   "submit_workspace_password"}
      [] phase = "persisting"                  -> Steps \ {"persist"}
      [] phase = "complete"                    -> Steps
      [] OTHER                                 -> {}

OrderInv ==
    /\ Before(auth.phase) \subseteq accepted
    /\ pending = "mint_pat" => "resume_oidc" \in accepted

LEMMA StepsAre ==
    Steps = {"send_otp", "validate_otp", "resolve_workspace", "submit_workspace_password",
             "resume_oidc", "mint_pat", "persist"}
BY DEF Steps, Order

\* Where an accepted step leads.
LEMMA AcceptedLeads ==
    ASSUME IInv, RecordAccepted
    PROVE  /\ pending \in Steps /\ auth.phase = PhaseOf(pending)
           /\ pending' = NextStep(pending) /\ accepted' = accepted \cup {pending}
           /\ auth'.phase = IF pending = "resume_oidc" THEN auth.phase ELSE Leads(pending)
<1>1. pending # None /\ pending \in Steps /\ auth.phase = PhaseOf(pending)
  BY DEF RecordAccepted, IInv, TypeOK, PendingMatchesPhase
<1>2. CASE pending = "resume_oidc"
  BY <1>1, <1>2 DEF RecordAccepted, AcceptedStep
<1>3. CASE pending # "resume_oidc"
  BY <1>1, <1>3, AcceptedMoves DEF RecordAccepted, AcceptedStep, Applied
<1>4. QED BY <1>2, <1>3

\* And a rejected one: the end, the same prompt, or a new passcode.
LEMMA RejectedLeads ==
    ASSUME IInv, RecordRejected
    PROVE  \/ auth'.phase \in {"failed", "sending_otp"}
           \/ auth'.phase = auth.phase /\ accepted' = accepted /\ pending' = None
<1>1. pending # None /\ pending \in Steps /\ auth.phase = PhaseOf(pending)
  BY DEF RecordRejected, IInv, TypeOK, PendingMatchesPhase
<1>2. PICK kind \in FailureKinds :
        RejectedOtp(kind) \/ RejectedPassword(kind) \/ RejectedForGood(kind)
  BY DEF RecordRejected
<1>3. CASE RejectedOtp(kind)
  <2> DEFINE e == OtpRejected(kind = "expired_otp")
  <2>1. /\ Accepts(auth, e)
        /\ After(auth, e).phase \in {"awaiting_otp", "sending_otp", "failed"}
    BY <1>3, RejectedOtpMoves DEF RejectedOtp
  <2>2. auth.phase = "awaiting_otp"
    BY <1>1, <1>3 DEF RejectedOtp, PhaseOf
  <2> QED BY <1>3, <2>1, <2>2 DEF RejectedOtp, Applied
<1>4. CASE RejectedPassword(kind)
  <2> DEFINE e == Event("workspace_password_rejected")
  <2>1. /\ Accepts(auth, e)
        /\ After(auth, e).phase \in {"awaiting_workspace_password", "failed"}
    BY <1>4, RejectedPasswordMoves DEF RejectedPassword
  <2>2. auth.phase = "awaiting_workspace_password"
    BY <1>1, <1>4 DEF RejectedPassword, PhaseOf
  <2> QED BY <1>4, <2>1, <2>2 DEF RejectedPassword, Applied
<1>5. CASE RejectedForGood(kind)
  BY <1>1, <1>5, FailedMoves DEF RejectedForGood, Applied
<1>6. QED BY <1>2, <1>3, <1>4, <1>5

LEMMA OrderOK ==
    ASSUME IInv, OrderInv, [Next]_vars
    PROVE  OrderInv'
<1>1. CASE UNCHANGED vars \/ RecordNotSent
  BY <1>1 DEF RecordNotSent, vars, OrderInv
<1>2. CASE Start
  <2>1. auth'.phase = "sending_otp"
    <3>1. auth' = Moved(auth, "sending_otp")
      BY <1>2 DEF Start, After, Event
    <3>2. auth \in AuthState /\ "sending_otp" \in Phases
      BY DEF IInv, MachineInv, Phases
    <3> QED BY <3>1, <3>2, MovedFields
  <2>2. Before(auth'.phase) = {}
    BY <2>1 DEF Before
  <2> QED BY <1>2, <2>2 DEF Start, OrderInv
<1>3. CASE SubmitOtp \/ SubmitWorkspacePassword \/ RecordMayHaveCommitted
  BY <1>3, NoneIsNoStep, StepsAre
  DEF SubmitOtp, SubmitWorkspacePassword, RecordMayHaveCommitted, OrderInv
<1>4. CASE RecordAccepted
  <2>1. pending' = "mint_pat" => pending = "resume_oidc"
    BY <1>4, AcceptedLeads, NoneIsNoStep, StepsAre DEF NextStep
  <2>2. CASE pending = "resume_oidc"
    BY <1>4, <2>2, AcceptedLeads DEF OrderInv
  <2>3. CASE pending # "resume_oidc"
    <3>1. Before(Leads(pending)) \subseteq
             Before(PhaseOf(pending)) \cup {pending}
                \cup (IF pending = "mint_pat" THEN {"resume_oidc"} ELSE {})
      BY <1>4, <2>3, AcceptedLeads, StepsAre DEF Before, Leads, PhaseOf
    <3> QED BY <1>4, <2>1, <2>3, <3>1, AcceptedLeads DEF OrderInv
  <2> QED BY <2>2, <2>3
<1>5. CASE RecordRejected
  <2>1. pending' # "mint_pat"
    BY <1>5, NoneIsNoStep, StepsAre
    DEF RecordRejected, RejectedOtp, RejectedPassword, RejectedForGood, Applied
  <2>2. Before("failed") = {} /\ Before("sending_otp") = {}
    BY DEF Before
  <2> QED BY <1>5, <2>1, <2>2, RejectedLeads DEF OrderInv
<1>6. QED BY <1>1, <1>2, <1>3, <1>4, <1>5 DEF Next, Record

LEMMA OrderFollows ==
    ASSUME IInv, OrderInv
    PROVE  OrderedSteps
<1>1. accepted \subseteq Steps
  BY DEF IInv, TypeOK
<1>2. auth.phase = "complete" => accepted = Steps
  BY <1>1 DEF OrderInv, Before
<1>3. ASSUME NEW i \in 1..7, pending = Order[i]
      PROVE  {Order[j] : j \in 1..(i - 1)} \subseteq accepted
  <2>1. pending # None /\ auth.phase = PhaseOf(pending)
    BY <1>3, NoneIsNoStep DEF IInv, PendingMatchesPhase, Steps
  <2>2. Before(PhaseOf(pending)) \subseteq accepted
    BY <2>1 DEF OrderInv
  <2>3. SUFFICES ASSUME NEW j \in 1..(i - 1) PROVE Order[j] \in accepted
    OBVIOUS
  <2>4. CASE i \in {1, 2, 3, 4, 5}
    BY <1>3, <2>2, <2>4 DEF Order, PhaseOf, Before
  <2>5. CASE i \in {6, 7}
    BY <1>3, <2>2, <2>5, StepsAre DEF Order, PhaseOf, Before, OrderInv
  <2>6. QED BY <2>4, <2>5
<1>4. QED BY <1>2, <1>3 DEF OrderedSteps

---------------------------------------------------------------------------
(* 3. The command: what it asks of the provider and of the person *)

Seen == [emails : Nat, tokens : Nat, wrong_codes : Nat, passwords : Nat]

\* Before the token is asked for.
Unminted == {"start", "send", "prompt_otp", "validate", "resolve", "prompt_password",
             "password", "resume", "mint"}
\* Before the password is.
Unasked == {"start", "send", "prompt_otp", "validate", "resolve"}

\* How often a password is sent to the provider, transport aside.
Tries(l) == IF l.fixed THEN 1 ELSE PasswordAttempts

\* An email that is being sent is one the provider has not sent yet, and so is a token.
SeenOnce(l, s) ==
    /\ l.sends <= OtpSends /\ s.emails <= l.sends /\ s.tokens <= 1
    /\ l.pc = "start" => l.sends = 0
    /\ l.pc = "send" => s.emails < l.sends
    /\ l.pc \in Unminted => s.tokens = 0

\* A code is asked for again when as many have been refused as were entered.
CodesEarned(l, s) ==
    l.method = "wizard" =>
        /\ l.codes <= s.wrong_codes + 1
        /\ l.pc \in {"start", "send", "prompt_otp"} => l.codes <= s.wrong_codes

\* A password that is being tried has been sent once for each earlier try of it.
PasswordsEarned(l, s) ==
    /\ l.password_attempt <= Tries(l)
    /\ l.pc \in Unasked => l.password_attempt = 0
    /\ l.pc = "prompt_password" => l.password_attempt < Tries(l)
    /\ l.pc # "password" => s.passwords <= RetryAttempts * l.password_attempt
    /\ l.pc = "password" => 
          /\ l.password_attempt > 0
          /\ s.passwords <= RetryAttempts * (l.password_attempt - 1) + l.tries

VerifiedFirst(l) == l.stored # None \/ l.pc \in {"store", "consent"} => l.verified

LoginInv(l, s) ==
    /\ l \in Login /\ s \in Seen
    /\ SeenOnce(l, s) /\ CodesEarned(l, s) /\ PasswordsEarned(l, s) /\ VerifiedFirst(l)

\* An answer after which the provider may have acted.
MayAct(outcome) == outcome \notin {"rejected", "no_connection"}

\* What an answer adds to what the provider has seen.
LEMMA AnsweredAdds ==
    ASSUME seen \in Seen, NEW request, NEW outcome, Answered(request, outcome)
    PROVE  /\ seen' \in Seen /\ login.pc = request
           /\ \/ seen'.emails = seen.emails
              \/ request = "send" /\ MayAct(outcome) /\ seen'.emails = seen.emails + 1
           /\ \/ seen'.tokens = seen.tokens
              \/ request = "mint" /\ MayAct(outcome) /\ seen'.tokens = seen.tokens + 1
           /\ seen'.wrong_codes = seen.wrong_codes
                  + (IF request = "validate" /\ outcome = "rejected" THEN 1 ELSE 0)
           /\ seen'.passwords = seen.passwords
                  + (IF request = "password" /\ outcome # "no_connection" THEN 1 ELSE 0)
<1>1. login.pc = request
  BY DEF Answered, At
<1>2. PICK acted \in Acted(outcome) : Noted(request, outcome, acted)
  BY DEF Answered
<1>3. acted => MayAct(outcome)
  BY <1>2 DEF Acted, MayAct
<1> DEFINE emails == IF request = "send" /\ acted THEN seen.emails + 1 ELSE seen.emails
           tokens == IF request = "mint" /\ acted THEN seen.tokens + 1 ELSE seen.tokens
           wrong_codes == IF request = "validate" /\ outcome = "rejected"
                          THEN seen.wrong_codes + 1 ELSE seen.wrong_codes
           passwords == IF request = "password" /\ outcome # "no_connection"
                        THEN seen.passwords + 1 ELSE seen.passwords
<1>4. seen' = [seen EXCEPT !.emails = emails, !.tokens = tokens, !.wrong_codes = wrong_codes,
                           !.passwords = passwords]
  BY <1>2 DEF Noted
<1>5. emails \in Nat /\ tokens \in Nat /\ wrong_codes \in Nat /\ passwords \in Nat
  BY DEF Seen
<1> HIDE DEF emails, tokens, wrong_codes, passwords
<1>6. /\ seen' \in Seen /\ seen'.emails = emails /\ seen'.tokens = tokens
      /\ seen'.wrong_codes = wrong_codes /\ seen'.passwords = passwords
  BY <1>4, <1>5 DEF Seen
<1>7. \/ emails = seen.emails
      \/ request = "send" /\ MayAct(outcome) /\ emails = seen.emails + 1
  BY <1>3 DEF emails
<1>8. \/ tokens = seen.tokens
      \/ request = "mint" /\ MayAct(outcome) /\ tokens = seen.tokens + 1
  BY <1>3 DEF tokens
<1>9. /\ wrong_codes = seen.wrong_codes
             + (IF request = "validate" /\ outcome = "rejected" THEN 1 ELSE 0)
      /\ passwords = seen.passwords
             + (IF request = "password" /\ outcome # "no_connection" THEN 1 ELSE 0)
  BY DEF wrong_codes, passwords, Seen
<1>10. QED BY <1>1, <1>6, <1>7, <1>8, <1>9

LEMMA GotoIs ==
    ASSUME login \in Login, NEW place
    PROVE  LET l == Goto(place)
           IN  /\ l.pc = place /\ l.tries = 0
               /\ l.method = login.method /\ l.policy = login.policy /\ l.fixed = login.fixed
               /\ l.sends = login.sends /\ l.attempt = login.attempt /\ l.codes = login.codes
               /\ l.password_attempt = login.password_attempt /\ l.verified = login.verified
               /\ l.stored = login.stored /\ l.result = login.result
BY DEF Goto, Login

Places == Requests \cup Prompts \cup {"start", "callback", "poll", "exchange", "minted",
                                      "verify", "store", "done"}

\* A step of the command ends it.
LEMMA EndedOK ==
    ASSUME LoginInv(login, seen), NEW s \in Seen, NEW result \in {"ok", "error", "drifted"},
           s.emails <= login.sends, s.tokens <= 1, s.wrong_codes >= seen.wrong_codes,
           s.passwords <= RetryAttempts * login.password_attempt
    PROVE  LoginInv(Ended(result), s)
<1> DEFINE l == Ended(result)
<1>1. /\ l \in Login /\ l.pc = "done"
      /\ l.method = login.method /\ l.fixed = login.fixed
      /\ l.sends = login.sends /\ l.codes = login.codes
      /\ l.password_attempt = login.password_attempt /\ l.verified = login.verified
      /\ l.stored = login.stored
  BY DEF Ended, Login, LoginInv
<1> HIDE DEF l
<1>2. LoginInv(l, s)
  BY <1>1
  DEF LoginInv, Seen, Login, SeenOnce, CodesEarned, PasswordsEarned, VerifiedFirst, Unminted,
      Unasked, Tries
<1>3. QED BY <1>2 DEF l

TriesLeft == 0..(RetryAttempts - 1)

LEMMA LoginIs ==
    Login = [method : Methods, policy : {"secure", "plaintext"}, fixed : BOOLEAN,
             pc : Places, tries : TriesLeft, sends : Nat, attempt : Nat, codes : Nat,
             password_attempt : Nat, verified : BOOLEAN,
             stored : {"keyring", "inline", None}, result : {"ok", "error", "drifted", None}]
BY DEF Login, Places, TriesLeft

LEMMA GotoIn ==
    ASSUME login \in Login, NEW place \in Places
    PROVE  Goto(place) \in Login
<1>1. 0 \in TriesLeft
  BY RetryAttemptsOK DEF TriesLeft
<1>2. QED
  BY <1>1, LoginIs DEF Goto

\* The parts of LoginInv that a step to another place keeps.
LEMMA PlaceOK ==
    ASSUME LoginInv(login, seen), NEW l \in Login, NEW s \in Seen,
           l.pc \notin {"start", "send", "password", "store", "consent"},
           l.method = login.method, l.fixed = login.fixed, l.sends = login.sends,
           l.verified = login.verified, l.stored = login.stored,
           l.password_attempt = login.password_attempt,
           s.emails <= login.sends, s.tokens <= 1, l.pc \in Unminted => s.tokens = 0,
           CodesEarned(l, s),
           s.passwords <= RetryAttempts * login.password_attempt,
           l.pc \in Unasked => login.password_attempt = 0,
           l.pc = "prompt_password" => login.password_attempt < Tries(login)
    PROVE  LoginInv(l, s)
<1>1. SeenOnce(l, s) /\ VerifiedFirst(l)
  BY DEF LoginInv, SeenOnce, VerifiedFirst
<1>2. PasswordsEarned(l, s)
  BY DEF LoginInv, PasswordsEarned, Tries
<1>3. QED BY <1>1, <1>2 DEF LoginInv

LEMMA GoesOK ==
    ASSUME LoginInv(login, seen), NEW s \in Seen,
           NEW place \in Places \ {"start", "send", "password", "store", "consent"},
           s.emails <= login.sends, s.tokens <= 1, place \in Unminted => s.tokens = 0,
           s.wrong_codes >= seen.wrong_codes,
           login.method = "wizard" /\ place = "prompt_otp" => login.codes <= s.wrong_codes,
           s.passwords <= RetryAttempts * login.password_attempt,
           place \in Unasked => login.password_attempt = 0,
           place = "prompt_password" => login.password_attempt < Tries(login)
    PROVE  LoginInv(Goto(place), s)
<1> DEFINE l == Goto(place)
<1>1. l \in Login
  BY GotoIn DEF LoginInv
<1>2. /\ l.pc = place /\ l.method = login.method /\ l.fixed = login.fixed
      /\ l.sends = login.sends /\ l.codes = login.codes
      /\ l.password_attempt = login.password_attempt /\ l.verified = login.verified
      /\ l.stored = login.stored
  BY GotoIs DEF LoginInv
<1> HIDE DEF l
<1>3. CodesEarned(l, s)
  BY <1>2 DEF CodesEarned, LoginInv, Login, Seen
<1>4. LoginInv(l, s)
  BY <1>1, <1>2, <1>3, PlaceOK
<1>5. QED BY <1>4 DEF l

LEMMA BeginOK ==
    ASSUME LoginInv(login, seen), Begin
    PROVE  LoginInv(login', seen')
<1> DEFINE g == Goto("send")
           l == [g EXCEPT !.sends = 1]
<1>1. At("start") /\ seen' = seen /\ (login' = l \/ login' = Ended("drifted"))
  BY DEF Begin, Drive
<1>2. g \in Login
  BY GotoIn DEF LoginInv, Places, Requests
<1>3. /\ g.pc = "send" /\ g.method = login.method /\ g.fixed = login.fixed
      /\ g.codes = login.codes
      /\ g.password_attempt = login.password_attempt /\ g.verified = login.verified
      /\ g.stored = login.stored
  BY GotoIs DEF LoginInv
<1> HIDE DEF g
<1>4. /\ l \in Login /\ l.pc = "send" /\ l.sends = 1
      /\ l.method = g.method /\ l.fixed = g.fixed /\ l.codes = g.codes
      /\ l.password_attempt = g.password_attempt /\ l.verified = g.verified
      /\ l.stored = g.stored
  BY <1>2, <1>3 DEF Login
<1> HIDE DEF l
<1>5. /\ login.pc = "start" /\ login.sends = 0 /\ seen.emails = 0 /\ seen.tokens = 0
      /\ login.password_attempt = 0 /\ seen.passwords <= 0
  BY <1>1, RetryAttemptsOK
  DEF At, LoginInv, SeenOnce, PasswordsEarned, Unminted, Unasked, Seen, Login
<1>6. SeenOnce(l, seen) /\ VerifiedFirst(l) /\ CodesEarned(l, seen)
  BY <1>3, <1>4, <1>5, BudgetsOK DEF SeenOnce, VerifiedFirst, CodesEarned, LoginInv
<1>7. PasswordsEarned(l, seen)
  BY <1>3, <1>4, <1>5, RetryAttemptsOK DEF LoginInv, PasswordsEarned, Tries
<1>8. LoginInv(l, seen)
  BY <1>4, <1>6, <1>7 DEF LoginInv
<1>9. LoginInv(Ended("drifted"), seen)
  BY <1>5, EndedOK, RetryAttemptsOK DEF LoginInv, SeenOnce, Login, Seen
<1>10. QED BY <1>1, <1>8, <1>9

\* What the provider has seen after an answer that is not about a password.
LEMMA AnswerIs ==
    ASSUME LoginInv(login, seen), NEW request \in Requests \ {"password"}, NEW outcome,
           Answered(request, outcome)
    PROVE  /\ login \in Login /\ seen' \in Seen /\ login.pc = request
           /\ seen'.emails <= login.sends /\ seen'.tokens <= 1
           /\ request # "mint" => seen'.tokens = 0
           /\ seen'.wrong_codes = seen.wrong_codes
                  + (IF request = "validate" /\ outcome = "rejected" THEN 1 ELSE 0)
           /\ seen'.passwords <= RetryAttempts * login.password_attempt
<1>1. /\ seen \in Seen /\ login \in Login /\ seen' \in Seen /\ login.pc = request
      /\ login.pc \in Unminted
  BY AnsweredAdds DEF LoginInv, Requests, Unminted
<1>2. seen'.emails <= login.sends /\ seen'.tokens <= 1 /\ (request # "mint" => seen'.tokens = 0)
  BY <1>1, AnsweredAdds DEF LoginInv, SeenOnce, Seen, Login
<1>3. seen'.passwords <= RetryAttempts * login.password_attempt
  <2>1. seen.passwords <= RetryAttempts * login.password_attempt
    BY <1>1 DEF LoginInv, PasswordsEarned
  <2>2. seen'.passwords = seen.passwords
    BY <1>1, AnsweredAdds DEF Seen
  <2> QED BY <2>1, <2>2
<1>4. QED BY <1>1, <1>2, <1>3, AnsweredAdds

\* An answer after which the login goes on, or ends.
LEMMA AnswerGoesOK ==
    ASSUME LoginInv(login, seen), NEW request \in Requests \ {"password"}, NEW outcome,
           Answered(request, outcome),
           NEW place \in Places \ {"start", "send", "password", "prompt_password", "store",
                                   "consent"},
           place \in Unminted => request # "mint",
           place \in Unasked => request \in Unasked,
           login.method = "wizard" /\ place = "prompt_otp" =>
              request = "send" \/ outcome = "rejected"
    PROVE  LoginInv(Goto(place), seen')
<1>1. login.method = "wizard" /\ place = "prompt_otp" => login.codes <= seen'.wrong_codes
  <2> SUFFICES ASSUME login.method = "wizard", place = "prompt_otp"
               PROVE  login.codes <= seen'.wrong_codes
    OBVIOUS
  <2>1. login.codes \in Nat /\ seen.wrong_codes \in Nat
    BY DEF LoginInv, Login, Seen
  <2>2. CASE request = "send"
    BY <2>1, <2>2, AnswerIs DEF LoginInv, CodesEarned
  <2>3. CASE request = "validate" /\ outcome = "rejected"
    BY <2>1, <2>3, AnswerIs DEF LoginInv, CodesEarned
  <2>4. request \in {"send", "validate"}
    BY DEF Answered, Requests
  <2> QED BY <2>2, <2>3, <2>4
<1>2. seen'.wrong_codes >= seen.wrong_codes
  BY AnswerIs DEF LoginInv, Seen
<1>3. place \in Unasked => login.password_attempt = 0
  BY AnswerIs DEF LoginInv, PasswordsEarned
<1>4. QED BY <1>1, <1>2, <1>3, AnswerIs, GoesOK

LEMMA AnswerEndsOK ==
    ASSUME LoginInv(login, seen), NEW request \in Requests \ {"password"}, NEW outcome,
           Answered(request, outcome), NEW result \in {"ok", "error", "drifted"}
    PROVE  LoginInv(Ended(result), seen')
<1>1. seen'.wrong_codes >= seen.wrong_codes
  BY AnswerIs DEF LoginInv, Seen
<1>2. QED BY <1>1, AnswerIs, EndedOK

\* The prompts for a code are counted for each passcode only.
LEMMA AttemptFree ==
    ASSUME NEW l \in Login, NEW s, NEW n \in Nat, LoginInv(l, s)
    PROVE  LoginInv([l EXCEPT !.attempt = n], s)
<1> DEFINE k == [l EXCEPT !.attempt = n]
<1>1. /\ k \in Login /\ k.pc = l.pc /\ k.tries = l.tries /\ k.method = l.method
      /\ k.fixed = l.fixed /\ k.sends = l.sends /\ k.codes = l.codes
      /\ k.password_attempt = l.password_attempt /\ k.verified = l.verified
      /\ k.stored = l.stored
  BY DEF Login
<1> HIDE DEF k
<1>2. LoginInv(k, s)
  BY <1>1
  DEF LoginInv, SeenOnce, CodesEarned, PasswordsEarned, VerifiedFirst, Tries
<1>3. QED BY <1>2 DEF k

\* Away from a request, nothing is seen.
LEMMA QuietGoesOK ==
    ASSUME LoginInv(login, seen), login.pc # "password",
           NEW place \in Places \ {"start", "send", "password", "store", "consent"},
           place \notin Unminted \cup Unasked
    PROVE  LoginInv(Goto(place), seen)
<1>1. /\ seen \in Seen /\ seen.emails <= login.sends /\ seen.tokens <= 1
      /\ seen.passwords <= RetryAttempts * login.password_attempt
  BY DEF LoginInv, SeenOnce, PasswordsEarned
<1>2. place \notin {"prompt_otp", "prompt_password"} /\ seen.wrong_codes >= seen.wrong_codes
  BY <1>1 DEF Unminted, Seen
<1>3. QED BY <1>1, <1>2, GoesOK

LEMMA QuietEndsOK ==
    ASSUME LoginInv(login, seen), login.pc # "password",
           NEW result \in {"ok", "error", "drifted"}
    PROVE  LoginInv(Ended(result), seen)
<1>1. /\ seen \in Seen /\ seen.emails <= login.sends /\ seen.tokens <= 1
      /\ seen.passwords <= RetryAttempts * login.password_attempt
  BY DEF LoginInv, SeenOnce, PasswordsEarned
<1>2. seen.wrong_codes >= seen.wrong_codes
  BY <1>1 DEF Seen
<1>3. QED BY <1>1, <1>2, EndedOK

LEMMA AgainOK ==
    ASSUME LoginInv(login, seen), Retry
    PROVE  LoginInv(login', seen')
<1>1. PICK request \in Requests, outcome \in Outcomes :
         Answered(request, outcome) /\ Repeats(request, outcome)
  BY DEF Retry
<1> DEFINE l == [login EXCEPT !.tries = @ + 1]
<1>2. login' = l /\ login.tries + 1 < RetryAttempts
  BY DEF Retry
<1>3. login.tries + 1 \in TriesLeft
  BY <1>2, RetryAttemptsOK, LoginIs DEF LoginInv, TriesLeft
<1>4. /\ l \in Login /\ l.pc = login.pc /\ l.tries = login.tries + 1 /\ l.sends = login.sends
      /\ l.method = login.method /\ l.fixed = login.fixed
      /\ l.codes = login.codes
      /\ l.password_attempt = login.password_attempt /\ l.verified = login.verified
      /\ l.stored = login.stored
  BY <1>3, LoginIs DEF LoginInv
<1> HIDE DEF l
<1>5. request \in {"send", "mint"} => outcome = "no_connection"
  BY <1>1 DEF Repeats
<1>6. /\ seen \in Seen /\ seen' \in Seen /\ login.pc = request
      /\ seen'.emails = seen.emails /\ seen'.tokens = seen.tokens
  BY <1>1, <1>5, AnsweredAdds DEF LoginInv, MayAct
<1>7. seen'.wrong_codes >= seen.wrong_codes
  BY <1>1, <1>6, AnsweredAdds DEF Seen
<1>8. seen'.passwords <= seen.passwords + (IF request = "password" THEN 1 ELSE 0)
  BY <1>1, <1>6, AnsweredAdds DEF Seen
<1>9. SeenOnce(l, seen') /\ VerifiedFirst(l)
  BY <1>4, <1>6 DEF LoginInv, SeenOnce, VerifiedFirst
<1>10. CodesEarned(l, seen')
  BY <1>4, <1>6, <1>7 DEF LoginInv, CodesEarned, Login, Seen
<1>11. PasswordsEarned(l, seen')
  <2> DEFINE n == login.password_attempt
  <2>0. n \in Nat
    BY LoginIs DEF LoginInv
  <2>1. RetryAttempts * n \in Int /\ RetryAttempts * (n - 1) \in Int
    <3> HIDE DEF n
    <3> QED BY <2>0, RetryAttemptsOK
  <2>2. login.tries \in Nat /\ seen.passwords \in Nat /\ seen'.passwords \in Nat
    BY <1>6, RetryAttemptsOK DEF LoginInv, Login, Seen
  <2> QED BY <1>4, <1>6, <1>8, <2>1, <2>2 DEF LoginInv, PasswordsEarned, Tries
<1>12. QED BY <1>2, <1>4, <1>6, <1>9, <1>10, <1>11 DEF LoginInv

LEMMA SentOK ==
    ASSUME LoginInv(login, seen), Sent
    PROVE  LoginInv(login', seen')
<1>1. Answered("send", "ok")
  BY DEF Sent, Returns
<1>2. login' = [Goto("prompt_otp") EXCEPT !.attempt = 0] \/ login' = Ended("drifted")
  BY DEF Sent, Drive
<1>3. LoginInv(Goto("prompt_otp"), seen')
  BY <1>1, AnswerGoesOK DEF Requests, Places, Prompts, Unminted, Unasked
<1>4. Goto("prompt_otp") \in Login
  BY <1>3 DEF LoginInv
<1>5. LoginInv([Goto("prompt_otp") EXCEPT !.attempt = 0], seen')
  BY <1>3, <1>4, AttemptFree
<1>6. LoginInv(Ended("drifted"), seen')
  BY <1>1, AnswerEndsOK DEF Requests
<1>7. QED BY <1>2, <1>5, <1>6

\* The answers that lead on.
LEMMA LeadsOnOK ==
    ASSUME LoginInv(login, seen),
           NEW request \in {"validate", "resume", "mint"}, Answered(request, "ok"),
           NEW place, <<request, place>> \in {<<"validate", "resolve">>, <<"resume", "mint">>,
                                              <<"mint", "minted">>},
           login' = Goto(place) \/ login' = Ended("drifted")
    PROVE  LoginInv(login', seen')
<1>1. /\ request \in Requests \ {"password"}
      /\ place \in Places \ {"start", "send", "password", "prompt_password", "store",
                             "consent", "prompt_otp"}
  BY DEF Requests, Places
<1>2. place \in Unminted => request # "mint"
  BY DEF Unminted
<1>3. place \in Unasked => request \in Unasked
  BY DEF Unasked
<1>4. LoginInv(Goto(place), seen')
  BY <1>1, <1>2, <1>3, AnswerGoesOK
<1>5. LoginInv(Ended("drifted"), seen')
  BY <1>1, AnswerEndsOK
<1>6. QED BY <1>4, <1>5

LEMMA ValidatedOK ==
    ASSUME LoginInv(login, seen), Validated \/ Resumed \/ Minted
    PROVE  LoginInv(login', seen')
<1>1. CASE Validated
  BY <1>1, LeadsOnOK DEF Validated, Returns, Drive
<1>2. CASE Resumed
  BY <1>2, LeadsOnOK DEF Resumed, Returns, Drive
<1>3. CASE Minted
  BY <1>3, LeadsOnOK DEF Minted, Returns, Drive
<1>4. QED BY <1>1, <1>2, <1>3

LEMMA RequestFailedOK ==
    ASSUME LoginInv(login, seen), RequestFailed
    PROVE  LoginInv(login', seen')
<1>1. PICK request \in Requests \ {"validate", "password"}, outcome \in Outcomes :
         Answered(request, outcome)
  BY DEF RequestFailed, Returns
<1>2. login' = Ended("error")
  BY DEF RequestFailed, Fails
<1>3. QED BY <1>1, <1>2, AnswerEndsOK

\* A code is entered at its prompt.
LEMMA EnterOtpOK ==
    ASSUME LoginInv(login, seen), EnterOtp
    PROVE  LoginInv(login', seen')
<1> DEFINE g == Goto("validate")
           l == [g EXCEPT !.attempt = @ + 1, !.codes = @ + 1]
<1>1. login.pc = "prompt_otp" /\ seen' = seen /\ (login' = l \/ login' = Ended("drifted"))
  BY DEF EnterOtp, Drive, At
<1>2. g \in Login
  BY GotoIn DEF LoginInv, Places, Requests
<1>3. /\ g.pc = "validate" /\ g.method = login.method /\ g.fixed = login.fixed
      /\ g.sends = login.sends /\ g.codes = login.codes
      /\ g.password_attempt = login.password_attempt /\ g.verified = login.verified
      /\ g.stored = login.stored
  BY GotoIs DEF LoginInv
<1> HIDE DEF g
<1> DEFINE attempt == g.attempt + 1
           codes == g.codes + 1
<1>4. l = [g EXCEPT !.attempt = attempt, !.codes = codes]
  BY DEF l
<1>5. attempt \in Nat /\ codes \in Nat
  BY <1>2, LoginIs
<1> HIDE DEF l, attempt, codes
<1>6. l = [g EXCEPT !.attempt = attempt, !.codes = codes] /\ l \in Login
  BY <1>2, <1>4, <1>5, LoginIs
<1>7. /\ l \in Login /\ l.pc = g.pc /\ l.codes = g.codes + 1
      /\ l.method = g.method /\ l.fixed = g.fixed /\ l.sends = g.sends
      /\ l.password_attempt = g.password_attempt /\ l.verified = g.verified
      /\ l.stored = g.stored
  BY <1>2, <1>4, <1>6, LoginIs DEF codes
<1>8. CodesEarned(l, seen)
  BY <1>1, <1>3, <1>7 DEF LoginInv, CodesEarned, Login, Seen
<1>9. /\ seen.emails <= login.sends /\ seen.tokens <= 1 /\ seen.tokens = 0
      /\ seen.passwords <= RetryAttempts * login.password_attempt
      /\ seen \in Seen
  BY <1>1 DEF LoginInv, SeenOnce, PasswordsEarned, Unminted
<1>10. LoginInv(l, seen)
  <2>1. login.password_attempt = 0 \/ l.pc \notin Unasked
    BY <1>1, <1>3, <1>7
    DEF LoginInv, PasswordsEarned, Unasked
  <2> QED BY <1>3, <1>7, <1>8, <1>9, <2>1, PlaceOK
<1>11. LoginInv(Ended("drifted"), seen)
  BY <1>1, QuietEndsOK
<1>12. QED BY <1>1, <1>10, <1>11

\* Another passcode, as long as there is one to send.
LEMMA SendsAgainOK ==
    ASSUME LoginInv(login, seen), NEW s \in Seen,
           login.pc = "validate", login.method # "wizard", login.sends < OtpSends,
           s.emails = seen.emails, s.tokens = seen.tokens, s.passwords = seen.passwords
    PROVE  LoginInv([Goto("send") EXCEPT !.sends = @ + 1], s)
<1> DEFINE g == Goto("send")
           l == [g EXCEPT !.sends = @ + 1]
<1>1. g \in Login
  BY GotoIn DEF LoginInv, Places, Requests
<1>2. /\ g.pc = "send" /\ g.method = login.method /\ g.fixed = login.fixed
      /\ g.sends = login.sends /\ g.codes = login.codes
      /\ g.password_attempt = login.password_attempt /\ g.verified = login.verified
      /\ g.stored = login.stored
  BY GotoIs DEF LoginInv
<1> HIDE DEF g
<1>3. /\ l \in Login /\ l.pc = g.pc /\ l.sends = g.sends + 1
      /\ l.method = g.method /\ l.fixed = g.fixed
      /\ l.password_attempt = g.password_attempt /\ l.verified = g.verified
      /\ l.stored = g.stored
  BY <1>1 DEF Login
<1> HIDE DEF l
<1>4. login.sends \in Nat /\ seen.emails \in Nat /\ OtpSends \in Nat
  BY BudgetsOK DEF LoginInv, Login, Seen
<1>5. SeenOnce(l, s)
  BY <1>2, <1>3, <1>4 DEF LoginInv, SeenOnce, Unminted
<1>6. CodesEarned(l, s) /\ VerifiedFirst(l)
  BY <1>2, <1>3 DEF LoginInv, CodesEarned, VerifiedFirst
<1>7. PasswordsEarned(l, s)
  BY <1>2, <1>3 DEF LoginInv, PasswordsEarned, Unasked, Tries
<1>8. LoginInv(l, s)
  BY <1>3, <1>5, <1>6, <1>7 DEF LoginInv
<1>9. QED BY <1>8 DEF l, g

LEMMA LegacyFailedOK ==
    ASSUME LoginInv(login, seen), LegacyValidateFailed
    PROVE  LoginInv(login', seen')
<1>1. PICK outcome \in Outcomes \ {"ok"} : Answered("validate", outcome)
  BY DEF LegacyValidateFailed, Returns
<1>2. login.method = "legacy" /\ login.pc = "validate"
  BY <1>1 DEF LegacyValidateFailed, Answered, At
<1>3. \/ login' = Goto("prompt_otp")
      \/ login.sends < OtpSends /\ login' = [Goto("send") EXCEPT !.sends = @ + 1]
      \/ login' = Ended("error")
  BY DEF LegacyValidateFailed, NextOtpAction
<1>4. LoginInv(Goto("prompt_otp"), seen')
  BY <1>1, <1>2, AnswerGoesOK DEF Requests, Places, Prompts, Unminted, Unasked
<1>5. LoginInv(Ended("error"), seen')
  BY <1>1, AnswerEndsOK DEF Requests
<1>6. ASSUME login.sends < OtpSends
      PROVE  LoginInv([Goto("send") EXCEPT !.sends = @ + 1], seen')
  <2>1. /\ seen' \in Seen /\ seen'.emails = seen.emails /\ seen'.tokens = seen.tokens
        /\ seen'.passwords = seen.passwords
    BY <1>1, AnsweredAdds DEF LoginInv, Seen
  <2>2. QED BY <1>2, <1>6, <2>1, SendsAgainOK
<1>7. QED BY <1>3, <1>4, <1>5, <1>6

LEMMA TerminalIs ==
    ASSUME NEW s, NEW kind
    PROVE  After(s, TerminalFailure(kind)) = Failed(s, kind)
<1> DEFINE e == TerminalFailure(kind)
<1>1. e.type = "terminal_failure" /\ e.kind = kind
  BY DEF TerminalFailure
<1> HIDE DEF e
<1>2. After(s, e) = Failed(s, kind)
  BY <1>1 DEF After
<1>3. QED BY <1>2 DEF e

\* A validation that fails for another reason than its code does not lead back to the
\* prompt: the engine's machine has failed.
LEMMA OtherFailureFails ==
    ASSUME auth \in AuthState, EngineRejects("transient_transport")
    PROVE  auth'.phase # "awaiting_otp"
<1>1. Applied(TerminalFailure("transient_transport"), None)
  BY DEF EngineRejects, RejectedOtp, RejectedPassword, RejectedForGood
<1>2. "transient_transport" \in FailureKinds
  BY DEF FailureKinds
<1>3. After(auth, TerminalFailure("transient_transport")) = Failed(auth, "transient_transport")
  BY TerminalIs
<1>4. Failed(auth, "transient_transport").phase = "failed"
  BY DEF Failed, AuthState
<1>5. ~Accepts(auth, TerminalFailure("transient_transport")) => auth.phase \in Final
  BY DEF Accepts, TerminalFailure
<1>6. QED BY <1>1, <1>3, <1>4, <1>5 DEF Applied, Final

LEMMA CodeFailedOK ==
    ASSUME LoginInv(login, seen), auth \in AuthState, WizardCodeFailed
    PROVE  LoginInv(login', seen')
<1>1. PICK outcome \in Outcomes \ {"ok"} :
         /\ Answered("validate", outcome)
         /\ EngineRejects(IF outcome = "rejected" THEN "invalid_otp" ELSE "transient_transport")
  BY DEF WizardCodeFailed, Returns
<1>2. LoginInv(Ended("error"), seen')
  BY <1>1, AnswerEndsOK DEF Requests
<1>3. CASE auth'.phase = "awaiting_otp"
  <2>1. outcome = "rejected"
    BY <1>1, <1>3, OtherFailureFails
  <2>2. LoginInv(Goto("prompt_otp"), seen')
    BY <1>1, <2>1, AnswerGoesOK DEF Requests, Places, Prompts, Unminted, Unasked
  <2> QED BY <1>3, <2>2 DEF WizardCodeFailed
<1>4. CASE auth'.phase # "awaiting_otp"
  BY <1>2, <1>4 DEF WizardCodeFailed
<1>5. QED BY <1>3, <1>4

LEMMA TriesPositive == \A l \in Login : Tries(l) \in Nat \ {0}
BY BudgetsOK DEF Tries

LEMMA ResolvedOK ==
    ASSUME LoginInv(login, seen), ResolvedWorkspace
    PROVE  LoginInv(login', seen')
<1>1. /\ Answered("resolve", "ok")
      /\ login' = Goto("prompt_password") \/ login' = Ended("drifted")
  BY DEF ResolvedWorkspace, Returns, Drive
<1>2. /\ seen' \in Seen /\ seen'.emails <= login.sends /\ seen'.tokens <= 1
      /\ seen'.tokens = 0
      /\ seen'.passwords <= RetryAttempts * login.password_attempt
      /\ login.pc = "resolve"
  BY <1>1, AnswerIs DEF Requests
<1>3. seen'.wrong_codes >= seen.wrong_codes
  BY <1>1, AnswerIs DEF Requests, LoginInv, Seen
<1>4. login.password_attempt = 0 /\ 0 < Tries(login)
  BY <1>2, TriesPositive DEF LoginInv, PasswordsEarned, Unasked
<1>5. LoginInv(Goto("prompt_password"), seen')
  BY <1>2, <1>3, <1>4, GoesOK DEF Places, Prompts
<1>6. LoginInv(Ended("drifted"), seen')
  BY <1>1, AnswerEndsOK DEF Requests
<1>7. QED BY <1>1, <1>5, <1>6

\* A password is entered, or found: one more is tried.
LEMMA PasswordOK ==
    ASSUME LoginInv(login, seen), FixedPassword \/ TypePassword
    PROVE  LoginInv(login', seen')
<1> DEFINE g == Goto("password")
           l == [g EXCEPT !.password_attempt = @ + 1]
<1>1. login.pc = "prompt_password" /\ seen' = seen /\ (login' = l \/ login' = Ended("drifted"))
  BY DEF FixedPassword, TypePassword, Password, Drive, At
<1>2. g \in Login
  BY GotoIn DEF LoginInv, Places, Requests
<1>3. /\ g.pc = "password" /\ g.tries = 0 /\ g.method = login.method /\ g.fixed = login.fixed
      /\ g.sends = login.sends /\ g.codes = login.codes
      /\ g.password_attempt = login.password_attempt /\ g.verified = login.verified
      /\ g.stored = login.stored
  BY GotoIs DEF LoginInv
<1> HIDE DEF g
<1>4. /\ l \in Login /\ l.pc = g.pc /\ l.tries = g.tries
      /\ l.password_attempt = g.password_attempt + 1
      /\ l.method = g.method /\ l.fixed = g.fixed /\ l.sends = g.sends /\ l.codes = g.codes
      /\ l.verified = g.verified /\ l.stored = g.stored
  BY <1>2 DEF Login
<1> HIDE DEF l
<1>5. SeenOnce(l, seen) /\ CodesEarned(l, seen) /\ VerifiedFirst(l)
  BY <1>1, <1>3, <1>4 DEF LoginInv, SeenOnce, Unminted, CodesEarned, VerifiedFirst
<1>6. PasswordsEarned(l, seen)
  <2>1. /\ login.password_attempt \in Nat /\ Tries(login) \in Nat /\ seen.passwords \in Nat
        /\ login.password_attempt < Tries(login)
        /\ seen.passwords <= RetryAttempts * login.password_attempt
    BY <1>1, TriesPositive, LoginIs DEF LoginInv, Seen, PasswordsEarned
  <2>2. /\ l.password_attempt = login.password_attempt + 1 /\ l.tries = 0
        /\ l.pc = "password" /\ Tries(l) = Tries(login)
    BY <1>3, <1>4 DEF Tries
  <2>3. l.password_attempt - 1 = login.password_attempt /\ l.password_attempt > 0
        /\ l.password_attempt <= Tries(login)
    BY <2>1, <2>2
  <2>4. RetryAttempts * login.password_attempt \in Int
    <3> DEFINE n == login.password_attempt
    <3>1. n \in Nat
      BY <2>1
    <3> HIDE DEF n
    <3>2. RetryAttempts * n \in Int
      BY <3>1, RetryAttemptsOK
    <3> QED BY <3>2 DEF n
  <2>5. seen.passwords <= RetryAttempts * (l.password_attempt - 1) + l.tries
    BY <2>1, <2>2, <2>3, <2>4
  <2> QED BY <2>2, <2>3, <2>5 DEF PasswordsEarned, Unasked
<1>7. LoginInv(l, seen)
  BY <1>4, <1>5, <1>6 DEF LoginInv
<1>8. LoginInv(Ended("drifted"), seen)
  BY <1>1, QuietEndsOK
<1>9. QED BY <1>1, <1>7, <1>8

\* The transport sends a password RetryAttempts times at most.
LEMMA PasswordAnswered ==
    ASSUME LoginInv(login, seen), NEW outcome, Answered("password", outcome)
    PROVE  /\ seen' \in Seen /\ seen'.emails = seen.emails /\ seen'.tokens = seen.tokens
           /\ seen'.wrong_codes = seen.wrong_codes /\ login.pc = "password"
           /\ seen'.passwords <= RetryAttempts * login.password_attempt
<1>1. /\ seen' \in Seen /\ seen'.emails = seen.emails /\ seen'.tokens = seen.tokens
      /\ seen'.wrong_codes = seen.wrong_codes /\ login.pc = "password"
      /\ seen'.passwords <= seen.passwords + 1
  BY AnsweredAdds DEF LoginInv, Seen
<1>2. /\ seen.passwords <= RetryAttempts * (login.password_attempt - 1) + login.tries
      /\ login.tries + 1 <= RetryAttempts /\ login.tries \in Nat
      /\ login.password_attempt \in Nat /\ seen.passwords \in Nat /\ seen'.passwords \in Nat
  BY <1>1, LoginIs, RetryAttemptsOK DEF LoginInv, PasswordsEarned, Seen, TriesLeft
<1>3. \A n \in Nat : /\ RetryAttempts * n = RetryAttempts * (n - 1) + RetryAttempts
                     /\ RetryAttempts * (n - 1) \in Int
  BY RetryAttemptsOK
<1>4. QED BY <1>1, <1>2, <1>3, RetryAttemptsOK

LEMMA PasswordAnsweredOK ==
    ASSUME LoginInv(login, seen), PasswordAccepted \/ PasswordFailed
    PROVE  LoginInv(login', seen')
<1>1. PICK outcome : Answered("password", outcome)
  BY DEF PasswordAccepted, PasswordFailed, Returns
<1>2. /\ seen' \in Seen /\ seen'.emails <= login.sends /\ seen'.tokens <= 1
      /\ seen'.tokens = 0
      /\ seen'.passwords <= RetryAttempts * login.password_attempt
      /\ seen'.wrong_codes >= seen.wrong_codes
  BY <1>1, PasswordAnswered DEF LoginInv, SeenOnce, Unminted, Seen
<1>3. \A result \in {"error", "drifted"} : LoginInv(Ended(result), seen')
  BY <1>2, EndedOK
<1>4. LoginInv(Goto("resume"), seen')
  BY <1>2, GoesOK DEF Places, Requests, Unasked
<1>5. ASSUME AskAgain
      PROVE  LoginInv(Goto("prompt_password"), seen')
  <2>1. login.password_attempt < Tries(login)
    BY <1>5 DEF AskAgain, Tries
  <2>2. QED BY <1>2, <2>1, GoesOK DEF Places, Prompts, Unasked
<1>6. \/ login' = Goto("resume") \/ login' = Ended("drifted") \/ login' = Ended("error")
      \/ AskAgain /\ login' = Goto("prompt_password")
  BY DEF PasswordAccepted, PasswordFailed, Drive
<1>7. QED BY <1>3, <1>4, <1>5, <1>6

\* The steps of the program away from a request, without the store.
LEMMA QuietOK ==
    ASSUME LoginInv(login, seen),
           NoSession \/ ReturnToken \/ BeginOther \/ Approved \/ NotApproved \/ ExchangeToken
              \/ PromptFails
    PROVE  LoginInv(login', seen')
<1>1. seen' = seen /\ login.pc # "password"
  BY DEF NoSession, ReturnToken, BeginOther, Approved, NotApproved, ExchangeToken, PromptFails,
         At, Prompts
<1>2. \A result \in {"error", "drifted"} : LoginInv(Ended(result), seen)
  BY <1>1, QuietEndsOK
<1>3. \A place \in {"exchange", "verify", "callback", "poll"} : LoginInv(Goto(place), seen)
  BY <1>1, QuietGoesOK DEF Places, Unminted, Unasked
<1>4. \/ \E result \in {"error", "drifted"} : login' = Ended(result)
      \/ \E place \in {"exchange", "verify", "callback", "poll"} : login' = Goto(place)
  <2>1. CASE BeginOther
    BY <2>1 DEF BeginOther, Methods, Otp
  <2>2. CASE ReturnToken
    BY <2>2 DEF ReturnToken, Drive
  <2>3. CASE NoSession \/ Approved \/ NotApproved \/ ExchangeToken \/ PromptFails
    BY <2>3 DEF NoSession, Approved, NotApproved, ExchangeToken, PromptFails, Fails
  <2> QED BY <2>1, <2>2, <2>3
<1>5. QED BY <1>1, <1>2, <1>3, <1>4

\* What is stored was verified.
LEMMA StoreOK ==
    ASSUME LoginInv(login, seen), Verify \/ Store \/ Consent
    PROVE  LoginInv(login', seen')
<1>1. seen' = seen /\ login.pc \in {"verify", "store", "consent"}
  BY DEF Verify, Store, Consent, At
<1>2. /\ seen \in Seen /\ seen.emails <= login.sends /\ login.sends <= OtpSends
      /\ seen.tokens <= 1
      /\ seen.passwords <= RetryAttempts * login.password_attempt
      /\ login.password_attempt <= Tries(login)
      /\ login.method = "wizard" => login.codes <= seen.wrong_codes + 1
  BY <1>1 DEF LoginInv, SeenOnce, CodesEarned, PasswordsEarned
<1>3. ASSUME NEW l \in Login, l.pc \in {"store", "consent", "done"}, l.method = login.method,
             l.fixed = login.fixed, l.sends = login.sends, l.codes = login.codes,
             l.password_attempt = login.password_attempt,
             l.verified
      PROVE  LoginInv(l, seen)
  <2>1. SeenOnce(l, seen) /\ CodesEarned(l, seen) /\ VerifiedFirst(l)
    BY <1>2, <1>3 DEF SeenOnce, CodesEarned, VerifiedFirst, Unminted
  <2>2. PasswordsEarned(l, seen)
    BY <1>2, <1>3 DEF PasswordsEarned, Tries, Unasked
  <2> QED BY <1>2, <2>1, <2>2 DEF LoginInv
<1>4. CASE login' = Ended("error")
  BY <1>1, <1>4, QuietEndsOK
<1>5. CASE login' = [Goto("store") EXCEPT !.verified = TRUE]
  <2> DEFINE g == Goto("store")
             l == [g EXCEPT !.verified = TRUE]
  <2>1. g \in Login
    BY GotoIn DEF LoginInv, Places
  <2>2. /\ g.pc = "store" /\ g.method = login.method /\ g.fixed = login.fixed
        /\ g.sends = login.sends /\ g.codes = login.codes
        /\ g.password_attempt = login.password_attempt
    BY GotoIs DEF LoginInv
  <2> HIDE DEF g
  <2>3. /\ l \in Login /\ l.pc = g.pc /\ l.method = g.method /\ l.fixed = g.fixed
        /\ l.sends = g.sends /\ l.codes = g.codes
        /\ l.password_attempt = g.password_attempt /\ l.verified
    BY <2>1 DEF Login
  <2> HIDE DEF l
  <2>4. LoginInv(l, seen)
    BY <1>3, <2>2, <2>3
  <2> QED BY <1>1, <1>5, <2>4 DEF l, g
<1>6. CASE login' = Goto("consent") /\ Store
  <2>1. Goto("consent") \in Login
    BY GotoIn DEF LoginInv, Places, Prompts
  <2>2. login.verified
    BY <1>6 DEF Store, At, LoginInv, VerifiedFirst
  <2>3. LoginInv(Goto("consent"), seen)
    BY <1>3, <2>1, <2>2, GotoIs DEF LoginInv
  <2> QED BY <1>1, <1>6, <2>3
<1>7. ASSUME NEW where \in {"keyring", "inline"}, Stored(where), Store \/ Consent
      PROVE  LoginInv(login', seen')
  <2> DEFINE g == Ended("ok")
             l == [g EXCEPT !.stored = where]
  <2>1. login' = l
    BY <1>7 DEF Stored
  <2>2. login.verified
    BY <1>7 DEF Store, Consent, At, LoginInv, VerifiedFirst
  <2>3. LoginInv(g, seen)
    BY <1>1, QuietEndsOK
  <2>4. /\ g.pc = "done" /\ g.method = login.method /\ g.fixed = login.fixed
        /\ g.sends = login.sends /\ g.codes = login.codes
        /\ g.password_attempt = login.password_attempt /\ g.verified = login.verified
    BY DEF LoginInv, Login, Ended
  <2> HIDE DEF g
  <2>5. /\ l \in Login /\ l.pc = g.pc /\ l.method = g.method /\ l.fixed = g.fixed
        /\ l.sends = g.sends /\ l.codes = g.codes
        /\ l.password_attempt = g.password_attempt /\ l.verified = g.verified
    BY <1>7, <2>3 DEF LoginInv, Login
  <2> HIDE DEF l
  <2>6. LoginInv(l, seen)
    BY <1>3, <2>2, <2>4, <2>5
  <2> QED BY <1>1, <2>1, <2>6
<1>8. QED BY <1>4, <1>5, <1>6, <1>7 DEF Verify, Store, Consent, Fails

---------------------------------------------------------------------------
(* The adapter and the engine *)

\* The step the engine waits for while the command is at a place.
Wanted(l) ==
    CASE l.pc = "send"     -> "send_otp"
      [] l.pc = "validate" -> "validate_otp"
      [] l.pc = "resolve"  -> "resolve_workspace"
      [] l.pc = "password" -> "submit_workspace_password"
      [] l.pc = "prompt_password" /\ l.password_attempt > 0 -> "submit_workspace_password"
      [] l.pc = "resume"   -> "resume_oidc"
      [] l.pc = "mint"     -> "mint_pat"
      [] l.pc = "minted"   -> "persist"
      [] OTHER             -> None

\* The adapter at l, with step pending in the engine at phase.
Agree(l, step, phase) ==
    /\ step = Wanted(l)
    /\ l.pc = "start" => phase = "idle"
    /\ l.pc = "prompt_otp" => phase = "awaiting_otp"
    /\ l.pc = "prompt_password" => phase = "awaiting_workspace_password"

InStep ==
    /\ login.result # "drifted"
    /\ login.method = "wizard" /\ login.pc # "done" => Agree(login, pending, auth.phase)

\* The command goes to a place, nothing else that matters to the engine.
MovesTo(l, place) == l.pc = place /\ l.method = login.method /\ l.result = login.result

LEMMA GotoMoves ==
    ASSUME login \in Login, NEW place \in Places
    PROVE  /\ MovesTo(Goto(place), place)
           /\ Goto(place).password_attempt = login.password_attempt
           /\ \A n : MovesTo([Goto(place) EXCEPT !.sends = n], place)
           /\ \A n : MovesTo([Goto(place) EXCEPT !.attempt = n], place)
           /\ \A m, n : MovesTo([Goto(place) EXCEPT !.attempt = m, !.codes = n], place)
           /\ \A n \in Nat : 
                 LET l == [Goto(place) EXCEPT !.password_attempt = n]
                 IN  MovesTo(l, place) /\ l.password_attempt = n
           /\ \A b : MovesTo([Goto(place) EXCEPT !.verified = b], place)
<1> DEFINE g == Goto(place)
<1>1. g \in Login /\ MovesTo(g, place) /\ g.password_attempt = login.password_attempt
  BY GotoIn, GotoIs DEF MovesTo
<1> HIDE DEF g
<1>2. /\ \A n : MovesTo([g EXCEPT !.sends = n], place)
      /\ \A n : MovesTo([g EXCEPT !.attempt = n], place)
      /\ \A b : MovesTo([g EXCEPT !.verified = b], place)
  BY <1>1, LoginIs DEF MovesTo
<1>3. \A m, n : MovesTo([g EXCEPT !.attempt = m, !.codes = n], place)
  BY <1>1, LoginIs DEF MovesTo
<1>4. \A n \in Nat : LET l == [g EXCEPT !.password_attempt = n]
                     IN  MovesTo(l, place) /\ l.password_attempt = n
  BY <1>1, LoginIs DEF MovesTo
<1>5. QED BY <1>1, <1>2, <1>3, <1>4 DEF g

LEMMA EndedIs ==
    ASSUME login \in Login, NEW result
    PROVE  /\ Ended(result).pc = "done" /\ Ended(result).result = result
           /\ Ended(result).method = login.method
BY LoginIs DEF Ended

\* A login that ends, otherwise than by a drift, agrees with any engine.
LEMMA EndedAgrees ==
    ASSUME login \in Login, login' \in {Ended("ok"), Ended("error")}
    PROVE  InStep'
BY EndedIs DEF InStep

\* So does one that has no engine.
LEMMA OthersAgree ==
    ASSUME InStep, NEW place, login.method # "wizard", MovesTo(login', place)
    PROVE  InStep'
BY DEF InStep, MovesTo

\* A step of the adapter that the engine takes as it expects.
LEMMA DrivenAgrees ==
    ASSUME InStep, login \in Login, NEW place, place # "done", NEW ACTION action, NEW step,
           NEW next, MovesTo(next, place), Drive(action, step, next),
           login.method = "wizard" /\ action =>
              pending' = step /\ Agree(next, pending', auth'.phase)
    PROVE  InStep' /\ login' = next
<1>1. CASE login.method = "wizard"
  BY <1>1 DEF Drive, InStep, MovesTo
<1>2. CASE login.method # "wizard"
  BY <1>2 DEF Drive, InStep, MovesTo
<1>3. QED BY <1>1, <1>2

LEMMA BeginAgrees ==
    ASSUME IInv, InStep, login \in Login, Begin
    PROVE  InStep' /\ login' = [Goto("send") EXCEPT !.sends = 1]
<1> DEFINE l == [Goto("send") EXCEPT !.sends = 1]
<1>1. MovesTo(l, "send")
  BY GotoMoves DEF Places, Requests
<1> HIDE DEF l
<1>2. Start => pending' = "send_otp" /\ Agree(l, pending', auth'.phase)
  BY <1>1 DEF Start, Agree, Wanted, MovesTo
<1>3. Drive(Start, "send_otp", l)
  BY DEF Begin, l
<1>4. InStep' /\ login' = l
  BY <1>1, <1>2, <1>3, DrivenAgrees
<1>5. QED BY <1>4 DEF l

LEMMA EnterOtpAgrees ==
    ASSUME IInv, InStep, login \in Login, EnterOtp
    PROVE  InStep' /\ login' = [Goto("validate") EXCEPT !.attempt = @ + 1, !.codes = @ + 1]
<1> DEFINE l == [Goto("validate") EXCEPT !.attempt = @ + 1, !.codes = @ + 1]
<1>1. MovesTo(l, "validate")
  BY GotoMoves DEF Places, Requests
<1>2. Drive(SubmitOtp, "validate_otp", l)
  BY DEF EnterOtp
<1> HIDE DEF l
<1>3. SubmitOtp => pending' = "validate_otp" /\ Agree(l, pending', auth'.phase)
  BY <1>1 DEF SubmitOtp, Agree, Wanted, MovesTo
<1>4. InStep' /\ login' = l
  BY <1>1, <1>2, <1>3, DrivenAgrees
<1>5. QED BY <1>4 DEF l

LEMMA PasswordAgrees ==
    ASSUME IInv, InStep, login \in Login, At("prompt_password"), Password
    PROVE  InStep' /\ login' = [Goto("password") EXCEPT !.password_attempt = @ + 1]
<1> DEFINE l == [Goto("password") EXCEPT !.password_attempt = @ + 1]
           action == IF login.password_attempt = 0 THEN SubmitWorkspacePassword
                     ELSE UNCHANGED engine
<1>1. MovesTo(l, "password")
  <2>1. Goto("password").password_attempt + 1 \in Nat
    <3>1. Goto("password").password_attempt = login.password_attempt
      BY GotoMoves DEF Places, Requests
    <3>2. login.password_attempt \in Nat
      BY LoginIs
    <3> QED BY <3>1, <3>2
  <2> QED BY <2>1, GotoMoves DEF Places, Requests
<1>2. Drive(action, "submit_workspace_password", l)
  BY DEF Password
<1> HIDE DEF l
<1>3. login.method = "wizard" /\ action =>
         pending' = "submit_workspace_password" /\ Agree(l, pending', auth'.phase)
  <2>1. login.method = "wizard" =>
           Agree(login, pending, auth.phase) /\ login.pc = "prompt_password"
    BY DEF InStep, At
  <2>2. login.password_attempt \in Nat
    BY LoginIs
  <2>3. login.method = "wizard" /\ action => pending' = "submit_workspace_password"
    BY <2>1, <2>2 DEF SubmitWorkspacePassword, engine, vars, Agree, Wanted
  <2> QED BY <1>1, <2>3 DEF Agree, Wanted, MovesTo
<1> HIDE DEF action
<1>4. InStep' /\ login' = l
  BY <1>1, <1>2, <1>3, DrivenAgrees
<1>5. QED BY <1>4 DEF l

\* The engine accepts what the adapter was waiting for.
Follows == {<<"send", "prompt_otp">>, <<"validate", "resolve">>,
            <<"resolve", "prompt_password">>, <<"password", "resume">>, <<"resume", "mint">>,
            <<"mint", "minted">>, <<"minted", "verify">>}

LEMMA AcceptedAgrees ==
    ASSUME IInv, InStep, login \in Login, LoginInv(login, seen),
           NEW place, <<login.pc, place>> \in Follows,
           NEW next, MovesTo(next, place),
           place = "prompt_password" => next.password_attempt = login.password_attempt,
           NEW step, step = Wanted(next), Drive(RecordAccepted, step, next)
    PROVE  InStep' /\ login' = next
<1>1. ASSUME login.method = "wizard", RecordAccepted
      PROVE  pending' = step /\ Agree(next, pending', auth'.phase)
  <2>1. pending = Wanted(login)
    BY <1>1 DEF InStep, Agree, Follows
  <2>2. /\ pending' = NextStep(pending)
        /\ auth'.phase = IF pending = "resume_oidc" THEN auth.phase ELSE Leads(pending)
    BY <1>1, AcceptedLeads
  <2>3. login.pc = "resolve" => login.password_attempt = 0
    BY DEF LoginInv, PasswordsEarned, Unasked
  <2>4. \/ login.pc = "send" /\ place = "prompt_otp" /\ pending = "send_otp"
        \/ login.pc = "validate" /\ place = "resolve" /\ pending = "validate_otp"
        \/ login.pc = "resolve" /\ place = "prompt_password" /\ pending = "resolve_workspace"
        \/ login.pc = "password" /\ place = "resume" /\ pending = "submit_workspace_password"
        \/ login.pc = "resume" /\ place = "mint" /\ pending = "resume_oidc"
        \/ login.pc = "mint" /\ place = "minted" /\ pending = "mint_pat"
        \/ login.pc = "minted" /\ place = "verify" /\ pending = "persist"
    BY <2>1 DEF Follows, Wanted
  <2>5. next.pc = place
    BY DEF MovesTo
  <2>6. pending' = Wanted(next)
    BY <2>2, <2>3, <2>4, <2>5 DEF NextStep, Wanted
  <2>7. /\ place = "prompt_otp" => auth'.phase = "awaiting_otp"
        /\ place = "prompt_password" => auth'.phase = "awaiting_workspace_password"
        /\ place # "start"
    BY <2>2, <2>4 DEF Leads
  <2> QED BY <2>5, <2>6, <2>7 DEF Agree
<1>2. place # "done"
  BY DEF Follows
<1>3. QED BY <1>1, <1>2, DrivenAgrees

LEMMA AnswerAt ==
    ASSUME NEW request, NEW outcome, Answered(request, outcome)
    PROVE  login.pc = request
BY DEF Answered, At

\* An answer the adapter tells the engine of, and the token it returns.
LEMMA TellsAgrees ==
    ASSUME IInv, InStep, LoginInv(login, seen),
           Sent \/ Validated \/ ResolvedWorkspace \/ PasswordAccepted \/ Resumed \/ Minted
              \/ ReturnToken
    PROVE  /\ InStep'
           /\ \E place \in Places : login' \in {Goto(place), [Goto(place) EXCEPT !.attempt = 0]}
<1> USE DEF Follows
<1>1. login \in Login
  BY DEF LoginInv
<1>2. ASSUME NEW from, NEW place, <<from, place>> \in Follows, login.pc = from, NEW step,
             Drive(RecordAccepted, step, Goto(place)),
             step = IF place \in {"verify", "prompt_password"} THEN None
                    ELSE CASE place = "resolve" -> "resolve_workspace"
                           [] place = "resume"  -> "resume_oidc"
                           [] place = "mint"    -> "mint_pat"
                           [] place = "minted"  -> "persist",
             place # "prompt_otp"
      PROVE  InStep' /\ place \in Places /\ login' = Goto(place)
  <2>1. place \in Places
    BY <1>2 DEF Places, Requests, Prompts
  <2>2. MovesTo(Goto(place), place) /\ Goto(place).password_attempt = login.password_attempt
    BY <1>1, <2>1, GotoMoves
  <2>3. place = "prompt_password" => login.password_attempt = 0
    BY <1>2 DEF LoginInv, PasswordsEarned, Unasked
  <2>4. Goto(place).pc = place
    BY <2>2 DEF MovesTo
  <2>5. place \in {"verify", "prompt_password", "resolve", "resume", "mint", "minted"}
    BY <1>2
  <2>6. step = Wanted(Goto(place))
    BY <1>2, <2>2, <2>3, <2>4, <2>5 DEF Wanted
  <2> QED BY <1>1, <1>2, <2>1, <2>2, <2>6, AcceptedAgrees
<1>3. CASE Sent
  <2> DEFINE l == [Goto("prompt_otp") EXCEPT !.attempt = 0]
  <2>1. login.pc = "send" /\ Drive(RecordAccepted, None, l)
    BY <1>3, AnswerAt DEF Sent, Returns
  <2>2. MovesTo(l, "prompt_otp")
    BY <1>1, GotoMoves DEF Places, Prompts
  <2> HIDE DEF l
  <2>3. None = Wanted(l)
    BY <2>2 DEF Wanted, MovesTo
  <2>4. InStep' /\ login' = l
    BY <1>1, <2>1, <2>2, <2>3, AcceptedAgrees
  <2> QED BY <2>4 DEF l, Places, Prompts
<1>4. CASE Validated
  BY <1>2, <1>4, AnswerAt DEF Validated, Returns
<1>5. CASE ResolvedWorkspace
  BY <1>2, <1>5, AnswerAt DEF ResolvedWorkspace, Returns
<1>6. CASE PasswordAccepted
  BY <1>2, <1>6, AnswerAt DEF PasswordAccepted, Returns
<1>7. CASE Resumed
  BY <1>2, <1>7, AnswerAt DEF Resumed, Returns
<1>8. CASE Minted
  BY <1>2, <1>8, AnswerAt DEF Minted, Returns
<1>9. CASE ReturnToken
  BY <1>2, <1>9 DEF ReturnToken, At
<1>10. QED BY <1>3, <1>4, <1>5, <1>6, <1>7, <1>8, <1>9

\* A step the engine takes no part in.
LEMMA AloneAgrees ==
    ASSUME IInv, InStep, LoginInv(login, seen),
           BeginOther \/ Retry \/ RequestFailed \/ PasswordFailed \/ NoSession \/ NotApproved
              \/ Approved \/ ExchangeToken \/ Verify \/ Store \/ Consent \/ PromptFails
    PROVE  InStep' /\ UNCHANGED vars
<1>1. login \in Login
  BY DEF LoginInv
<1>2. UNCHANGED vars
  BY DEF BeginOther, Retry, RequestFailed, PasswordFailed, NoSession, NotApproved, Approved,
         ExchangeToken, Verify, Store, Consent, PromptFails, Fails, Stored, engine
<1> SUFFICES InStep'
  BY <1>2
<1>3. CASE login' = Ended("error")
  BY <1>1, <1>3, EndedAgrees
<1>4. CASE BeginOther
  <2>1. login.method # "wizard"
    BY <1>4 DEF BeginOther, Otp
  <2>2. \E place \in Places : login' = Goto(place)
    BY <1>4 DEF BeginOther, Methods, Otp, Places
  <2> QED BY <1>1, <2>1, <2>2, GotoMoves, OthersAgree
<1>5. CASE Retry
  <2>1. /\ login'.pc = login.pc /\ login'.method = login.method
        /\ login'.result = login.result /\ login'.password_attempt = login.password_attempt
    BY <1>1, <1>5, LoginIs DEF Retry
  <2> QED BY <1>2, <2>1 DEF vars, InStep, Agree, Wanted
<1>6. ASSUME NEW place \in {"exchange", "verify", "store", "consent"}, MovesTo(login', place),
             login.pc \in {"callback", "poll", "exchange", "verify", "store"}
      PROVE  InStep'
  BY <1>2, <1>6 DEF vars, InStep, Agree, Wanted, MovesTo
<1>7. CASE Approved \/ ExchangeToken
  <2>1. \/ login' = Ended("error")
        \/ \E place \in {"exchange", "verify"} : login' = Goto(place)
    BY <1>7 DEF Approved, ExchangeToken
  <2>2. login.pc \in {"callback", "poll", "exchange"}
    BY <1>7 DEF Approved, ExchangeToken, At
  <2>3. {"exchange", "verify"} \subseteq Places
    BY DEF Places
  <2>4. \A place \in {"exchange", "verify"} : MovesTo(Goto(place), place)
    BY <1>1, <2>3, GotoMoves
  <2> QED BY <1>3, <1>6, <2>1, <2>2, <2>4
<1>8. CASE Verify
  <2>1. login' = Ended("error") \/ login' = [Goto("store") EXCEPT !.verified = TRUE]
    BY <1>8 DEF Verify, Fails
  <2>2. MovesTo([Goto("store") EXCEPT !.verified = TRUE], "store")
    BY <1>1, GotoMoves DEF Places
  <2>3. login.pc = "verify"
    BY <1>8 DEF Verify, At
  <2> QED BY <1>3, <1>6, <2>1, <2>2, <2>3
<1>9. CASE Store \/ Consent
  <2>1. login.pc \in {"store", "consent"}
    BY <1>9 DEF Store, Consent, At
  <2>2. \/ login' = Ended("error")
        \/ \E where : Stored(where)
        \/ login.pc = "store" /\ login' = Goto("consent")
    BY <1>9 DEF Store, Consent, Fails, At
  <2>3. ASSUME NEW where, Stored(where)
        PROVE  InStep'
    <3>1. login'.pc = "done" /\ login'.result = "ok"
      BY <1>1, <2>3, LoginIs DEF Ended, Stored
    <3> QED BY <3>1 DEF InStep
  <2>4. MovesTo(Goto("consent"), "consent")
    BY <1>1, GotoMoves DEF Places, Prompts
  <2> QED BY <1>3, <1>6, <2>2, <2>3, <2>4
<1>10. CASE PasswordFailed
  <2>1. login.pc = "password"
    BY <1>10, AnswerAt DEF PasswordFailed, Returns
  <2>2. CASE login' = Goto("prompt_password")
    <3>1. /\ MovesTo(login', "prompt_password")
          /\ login'.password_attempt = login.password_attempt
      BY <1>1, <2>2, GotoMoves DEF Places, Prompts
    <3>2. login.password_attempt > 0
      BY <2>1 DEF LoginInv, PasswordsEarned
    <3>3. login.method = "wizard" =>
             pending = "submit_workspace_password" /\ auth.phase = "awaiting_workspace_password"
      BY <2>1, NoneIsNoStep, StepsAre
      DEF InStep, Agree, Wanted, IInv, PendingMatchesPhase, PhaseOf
    <3> QED BY <1>2, <3>1, <3>2, <3>3 DEF vars, InStep, Agree, Wanted, MovesTo
  <2> QED BY <1>3, <1>10, <2>2 DEF PasswordFailed
<1>11. CASE RequestFailed \/ NoSession \/ NotApproved \/ PromptFails
  BY <1>3, <1>11 DEF RequestFailed, NoSession, NotApproved, PromptFails, Fails
<1>12. QED BY <1>2, <1>4, <1>5, <1>7, <1>8, <1>9, <1>10, <1>11

\* Another passcode, the code again, or the end, after a code has failed.
LEMMA CodeFailedAgrees ==
    ASSUME IInv, InStep, LoginInv(login, seen), LegacyValidateFailed \/ WizardCodeFailed
    PROVE  InStep' /\ [Next]_vars
<1>1. login \in Login
  BY DEF LoginInv
<1>2. ASSUME login' = Ended("error") PROVE InStep'
  BY <1>1, <1>2, EndedAgrees
<1>3. CASE LegacyValidateFailed
  <2>1. UNCHANGED vars /\ login.method # "wizard"
    BY <1>3 DEF LegacyValidateFailed, engine
  <2>2. \/ login' = Ended("error")
        \/ login' = Goto("prompt_otp")
        \/ login' = [Goto("send") EXCEPT !.sends = @ + 1]
    BY <1>3 DEF LegacyValidateFailed, NextOtpAction
  <2>3. /\ MovesTo(Goto("prompt_otp"), "prompt_otp")
        /\ MovesTo([Goto("send") EXCEPT !.sends = @ + 1], "send")
    BY <1>1, GotoMoves DEF Places, Requests, Prompts
  <2> QED BY <1>2, <2>1, <2>2, <2>3, OthersAgree
<1>4. CASE WizardCodeFailed
  <2>1. PICK kind \in {"invalid_otp", "transient_transport"} : EngineRejects(kind)
    BY <1>4 DEF WizardCodeFailed
  <2>2. login.pc = "validate" /\ login.method = "wizard"
    BY <1>4, AnswerAt DEF WizardCodeFailed, Returns
  <2>3. pending = "validate_otp"
    BY <2>2 DEF InStep, Agree, Wanted
  <2>4. RecordRejected
    BY <2>1, <2>3, NoneIsNoStep, StepsAre DEF EngineRejects, RecordRejected, FailureKinds
  <2>5. CASE auth'.phase = "awaiting_otp"
    <3>1. login' = Goto("prompt_otp")
      BY <1>4, <2>5 DEF WizardCodeFailed
    <3>2. MovesTo(login', "prompt_otp")
      BY <1>1, <3>1, GotoMoves DEF Places, Prompts
    <3>3. pending' = None
      BY <2>4, <2>5, RejectedLeads
    <3> QED BY <2>4, <2>5, <3>2, <3>3 DEF InStep, Agree, Wanted, MovesTo, Next, Record
  <2>6. CASE auth'.phase # "awaiting_otp"
    BY <1>2, <1>4, <2>4, <2>6 DEF WizardCodeFailed, Next, Record
  <2> QED BY <2>5, <2>6
<1>5. QED BY <1>3, <1>4

\* Every step of the command is a step of its engine, as any caller might take it, and
\* leaves the two at the same place.
LEMMA StepsAgree ==
    ASSUME IInv, InStep, LoginInv(login, seen), LoginNext
    PROVE  InStep' /\ [Next]_vars
<1>1. login \in Login
  BY DEF LoginInv
<1>2. CASE Begin
  <2>1. InStep'
    BY <1>1, <1>2, BeginAgrees
  <2>2. Start \/ UNCHANGED vars
    BY <1>2 DEF Begin, Drive, engine
  <2> QED BY <2>1, <2>2 DEF Next
<1>3. CASE EnterOtp
  <2>1. InStep'
    BY <1>1, <1>3, EnterOtpAgrees
  <2>2. SubmitOtp \/ UNCHANGED vars
    BY <1>3 DEF EnterOtp, Drive, engine
  <2> QED BY <2>1, <2>2 DEF Next
<1>4. CASE FixedPassword \/ TypePassword
  <2>1. InStep'
    BY <1>1, <1>4, PasswordAgrees DEF FixedPassword, TypePassword
  <2>2. SubmitWorkspacePassword \/ UNCHANGED vars
    BY <1>4 DEF FixedPassword, TypePassword, Password, Drive, engine
  <2> QED BY <2>1, <2>2 DEF Next
<1>5. CASE Sent \/ Validated \/ ResolvedWorkspace \/ PasswordAccepted \/ Resumed \/ Minted
              \/ ReturnToken
  <2>1. InStep'
    BY <1>5, TellsAgrees
  <2>2. RecordAccepted \/ UNCHANGED vars
    BY <1>5
    DEF Sent, Validated, ResolvedWorkspace, PasswordAccepted, Resumed, Minted, ReturnToken,
        Drive, engine
  <2> QED BY <2>1, <2>2 DEF Next, Record
<1>6. CASE LegacyValidateFailed \/ WizardCodeFailed
  BY <1>6, CodeFailedAgrees
<1>7. CASE BeginOther \/ Retry \/ RequestFailed \/ PasswordFailed \/ NoSession \/ NotApproved
              \/ Approved \/ ExchangeToken \/ Verify \/ Store \/ Consent \/ PromptFails
  BY <1>7, AloneAgrees
<1>8. CASE LibraryStep(Next)
  BY <1>8 DEF LibraryStep, InStep
<1>9. QED BY <1>2, <1>3, <1>4, <1>5, <1>6, <1>7, <1>8 DEF LoginNext, PersonStep, ProgramStep

\* Every step of the command keeps to what it has been promised.
LEMMA StepsKeep ==
    ASSUME LoginInv(login, seen), auth \in AuthState, LoginNext
    PROVE  LoginInv(login', seen')
<1>1. CASE PersonStep
  BY <1>1, EnterOtpOK, PasswordOK, QuietOK, StoreOK DEF PersonStep
<1>2. CASE ProgramStep
  BY <1>2, BeginOK, QuietOK, AgainOK, RequestFailedOK, SentOK, ValidatedOK, LegacyFailedOK,
     CodeFailedOK, ResolvedOK, PasswordOK, PasswordAnsweredOK, StoreOK
  DEF ProgramStep
<1>3. CASE LibraryStep(Next)
  BY <1>3 DEF LibraryStep
<1>4. QED BY <1>1, <1>2, <1>3 DEF LoginNext

\* The machine of the command completes with the store.
MachineOK ==
    /\ machine \in AuthState
    /\ machine.phase = "complete" => login.stored # None

LEMMA AfterPhase ==
    ASSUME NEW s \in AuthState,
           NEW type \in {"begin", "otp_sent", "otp_accepted", "workspace_resolved",
                         "workspace_password_accepted", "token_exchanged", "persist_started",
                         "persist_succeeded"}
    PROVE  /\ After(s, Event(type)) \in AuthState
           /\ type # "persist_succeeded" => After(s, Event(type)).phase # "complete"
<1> DEFINE e == Event(type)
<1>1. e.type = type
  BY DEF Event
<1> HIDE DEF e
<1>2. CASE type \in {"begin", "otp_accepted", "workspace_password_accepted", "token_exchanged",
                     "persist_started", "persist_succeeded"}
  <2>1. PICK p \in Phases :
           After(s, e) = Moved(s, p) /\ (p = "complete" => type = "persist_succeeded")
    BY <1>1, <1>2 DEF After, Phases
  <2> QED BY <2>1, MovedFields DEF e
<1>3. CASE type = "otp_sent"
  <2> DEFINE t == [s EXCEPT !.otp_sends = Counted(@), !.otp_attempts = 0]
  <2>1. After(s, e) = Moved(t, "awaiting_otp")
    BY <1>1, <1>3 DEF After
  <2>2. t \in AuthState
    <3>1. s.otp_sends + 1 \in Nat
      BY Fields
    <3> QED BY <3>1 DEF AuthState, Counted
  <2> HIDE DEF t
  <2> QED BY <1>3, <2>1, <2>2, MovedFields DEF Phases, e
<1>4. CASE type = "workspace_resolved"
  <2> DEFINE t == [s EXCEPT !.workspace_password_attempts = 0]
  <2>1. After(s, e) = Moved(t, "awaiting_workspace_password")
    BY <1>1, <1>4 DEF After
  <2>2. t \in AuthState
    BY DEF AuthState
  <2> HIDE DEF t
  <2> QED BY <1>4, <2>1, <2>2, MovedFields DEF Phases, e
<1>5. QED BY <1>2, <1>3, <1>4

\* Nothing but the store sets stored.
LEMMA StoredIs ==
    ASSUME LoginInv(login, seen), LoginNext
    PROVE  login'.stored = login.stored \/ \E where \in {"keyring", "inline"} : Stored(where)
<1>1. login \in Login
  BY DEF LoginInv
<1>2. \A result : Ended(result).stored = login.stored
  BY <1>1, LoginIs DEF Ended
<1>3. ASSUME NEW place \in Places
      PROVE  /\ Goto(place).stored = login.stored
             /\ \A n : [Goto(place) EXCEPT !.sends = n].stored = login.stored
             /\ \A n : [Goto(place) EXCEPT !.attempt = n].stored = login.stored
             /\ \A m, n : [Goto(place) EXCEPT !.attempt = m, !.codes = n].stored = login.stored
             /\ \A n : [Goto(place) EXCEPT !.password_attempt = n].stored = login.stored
             /\ \A b : [Goto(place) EXCEPT !.verified = b].stored = login.stored
  <2> DEFINE g == Goto(place)
  <2>1. g \in Login /\ g.stored = login.stored
    BY <1>1, GotoIn, GotoIs
  <2> HIDE DEF g
  <2>2. /\ \A n : [g EXCEPT !.sends = n].stored = login.stored
        /\ \A n : [g EXCEPT !.attempt = n].stored = login.stored
        /\ \A m, n : [g EXCEPT !.attempt = m, !.codes = n].stored = login.stored
        /\ \A n : [g EXCEPT !.password_attempt = n].stored = login.stored
        /\ \A b : [g EXCEPT !.verified = b].stored = login.stored
    BY <2>1, LoginIs
  <2> QED BY <2>1, <2>2 DEF g
<1>4. {"send", "prompt_otp", "validate", "resolve", "prompt_password", "password", "resume",
       "mint", "minted", "verify", "exchange", "callback", "poll", "store", "consent"}
         \subseteq Places
  BY DEF Places, Requests, Prompts
<1> DEFINE Fine == login'.stored = login.stored
<1>5. Begin \/ EnterOtp \/ FixedPassword \/ TypePassword \/ Sent => Fine
  <2>1. Begin => Fine
    <3>1. [Goto("send") EXCEPT !.sends = 1].stored = login.stored
      BY <1>3, <1>4
    <3> QED BY <1>2, <3>1 DEF Begin, Drive
  <2>2. EnterOtp => Fine
    <3>1. [Goto("validate") EXCEPT !.attempt = @ + 1, !.codes = @ + 1].stored = login.stored
      BY <1>3, <1>4
    <3> QED BY <1>2, <3>1 DEF EnterOtp, Drive
  <2>3. FixedPassword \/ TypePassword => Fine
    <3>1. [Goto("password") EXCEPT !.password_attempt = @ + 1].stored = login.stored
      BY <1>3, <1>4
    <3> QED BY <1>2, <3>1 DEF FixedPassword, TypePassword, Password, Drive
  <2>4. Sent => Fine
    <3>1. [Goto("prompt_otp") EXCEPT !.attempt = 0].stored = login.stored
      BY <1>3, <1>4
    <3> QED BY <1>2, <3>1 DEF Sent, Drive
  <2> QED BY <2>1, <2>2, <2>3, <2>4
<1>6. Validated \/ ResolvedWorkspace \/ PasswordAccepted \/ Resumed \/ Minted
         \/ ReturnToken => Fine
  <2>1. Validated \/ ResolvedWorkspace \/ PasswordAccepted \/ Resumed \/ Minted
           \/ ReturnToken =>
           \/ login' = Ended("drifted")
           \/ \E place \in {"resolve", "prompt_password", "resume", "mint", "minted",
                            "verify"} : login' = Goto(place)
    BY DEF Validated, ResolvedWorkspace, PasswordAccepted, Resumed, Minted, ReturnToken, Drive
  <2> QED BY <1>2, <1>3, <1>4, <2>1
<1>7. LegacyValidateFailed \/ WizardCodeFailed \/ PasswordFailed => Fine
  <2>1. LegacyValidateFailed \/ WizardCodeFailed \/ PasswordFailed =>
           \/ login' = Ended("error")
           \/ login' = [Goto("send") EXCEPT !.sends = @ + 1]
           \/ \E place \in {"prompt_otp", "prompt_password"} : login' = Goto(place)
    BY DEF LegacyValidateFailed, NextOtpAction, WizardCodeFailed, PasswordFailed
  <2>2. [Goto("send") EXCEPT !.sends = @ + 1].stored = login.stored
    BY <1>3, <1>4
  <2> QED BY <1>2, <1>3, <1>4, <2>1, <2>2
<1>8. RequestFailed \/ NoSession \/ NotApproved \/ PromptFails \/ ExchangeToken
         \/ Approved => Fine
  <2>1. RequestFailed \/ NoSession \/ NotApproved \/ PromptFails \/ ExchangeToken
           \/ Approved =>
           \/ login' = Ended("error")
           \/ \E place \in {"verify", "exchange"} : login' = Goto(place)
    BY DEF RequestFailed, NoSession, NotApproved, PromptFails, ExchangeToken, Approved, Fails
  <2> QED BY <1>2, <1>3, <1>4, <2>1
<1>9. BeginOther => Fine
  <2>1. BeginOther =>
           \E place \in {"exchange", "verify", "callback", "poll"} : login' = Goto(place)
    BY DEF BeginOther, Methods, Otp
  <2> QED BY <1>3, <1>4, <2>1
<1>10. Retry => Fine
  BY <1>1, LoginIs DEF Retry
<1>11. Verify => Fine
  <2>1. Verify => login' = Ended("error") \/ login' = [Goto("store") EXCEPT !.verified = TRUE]
    BY DEF Verify, Fails
  <2>2. [Goto("store") EXCEPT !.verified = TRUE].stored = login.stored
    BY <1>3, <1>4
  <2> QED BY <1>2, <2>1, <2>2
<1>12. Store \/ Consent => Fine \/ \E where \in {"keyring", "inline"} : Stored(where)
  <2>1. Store \/ Consent => \/ \E where \in {"keyring", "inline"} : Stored(where)
                            \/ login' = Ended("error") \/ login' = Goto("consent")
    BY DEF Store, Consent, Fails
  <2> QED BY <1>2, <1>3, <1>4, <2>1
<1>13. LibraryStep(Next) => Fine
  BY DEF LibraryStep
<1> HIDE DEF Fine
<1>14. QED
  BY <1>5, <1>6, <1>7, <1>8, <1>9, <1>10, <1>11, <1>12, <1>13
  DEF LoginNext, PersonStep, ProgramStep, Fine

\* The events of login() for its own machine.
LEMMA MachineStep ==
    ASSUME LoginNext, machine \in AuthState
    PROVE  /\ machine' \in AuthState
           /\ \/ machine' = machine \/ machine'.phase # "complete"
              \/ \E where \in {"keyring", "inline"} : Stored(where)
<1>1. ASSUME NEW s \in AuthState,
             NEW first \in {"begin", "otp_accepted", "workspace_password_accepted"},
             NEW second \in {"otp_sent", "workspace_resolved", "token_exchanged"}
      PROVE  /\ AfterBoth(s, Event(first), Event(second)) \in AuthState
             /\ AfterBoth(s, Event(first), Event(second)).phase # "complete"
  BY AfterPhase DEF AfterBoth
<1>2. CASE Begin
  BY <1>1, <1>2 DEF Begin
<1>3. CASE ReturnToken
  BY <1>1, <1>3 DEF ReturnToken
<1>4. CASE Verify
  BY <1>4, AfterPhase DEF Verify, Fails
<1>5. CASE Store \/ Consent
  BY <1>5, AfterPhase DEF Store, Consent, Stored, Fails
<1>6. CASE ~(Begin \/ ReturnToken \/ Verify \/ Store \/ Consent)
  BY <1>6
  DEF LoginNext, PersonStep, ProgramStep, LibraryStep, EnterOtp, TypePassword, FixedPassword,
      Password, Approved, PromptFails, BeginOther, Retry, RequestFailed, Sent, Validated,
      LegacyValidateFailed, WizardCodeFailed, ResolvedWorkspace, PasswordAccepted,
      PasswordFailed, Resumed, NoSession, Minted, NotApproved, ExchangeToken, Fails
<1>7. QED BY <1>2, <1>3, <1>4, <1>5, <1>6

LEMMA StoresFirst ==
    ASSUME LoginInv(login, seen), MachineOK, LoginNext
    PROVE  MachineOK'
<1>1. machine' \in AuthState
  BY MachineStep DEF MachineOK
<1>2. CASE \E where \in {"keyring", "inline"} : Stored(where)
  <2>1. PICK where \in {"keyring", "inline"} : Stored(where)
    BY <1>2
  <2>2. login'.stored = where
    BY <2>1, LoginIs DEF LoginInv, Stored, Ended
  <2> QED BY <1>1, <2>2, NoneIsNoResult DEF MachineOK
<1>3. CASE ~\E where \in {"keyring", "inline"} : Stored(where)
  BY <1>1, <1>3, StoredIs, MachineStep DEF MachineOK
<1>4. QED BY <1>2, <1>3

---------------------------------------------------------------------------
(* The whole command *)

CommandInv ==
    /\ IInv /\ OrderInv
    /\ InStep
    /\ LoginInv(login, seen)
    /\ MachineOK

LEMMA CommandInit == LoginInit => CommandInv
<1> SUFFICES ASSUME LoginInit PROVE CommandInv
  OBVIOUS
<1>1. IInv
  BY InitOK DEF LoginInit
<1>2. auth.phase = "idle" /\ pending = None /\ accepted = {}
  BY DEF LoginInit, Init, AuthInit, Default
<1>3. OrderInv
  BY <1>2, NoneIsNoStep, StepsAre DEF OrderInv, Before
<1>4. PICK method \in Methods, policy \in {"secure", "plaintext"}, fixed \in BOOLEAN :
         login = [method |-> method, policy |-> policy, fixed |-> fixed, pc |-> "start",
                  tries |-> 0, sends |-> 0, attempt |-> 0, codes |-> 0,
                  password_attempt |-> 0, verified |-> FALSE, stored |-> None,
                  result |-> None]
  BY DEF LoginInit
<1>5. login \in Login
  <2>1. 0 \in TriesLeft /\ "start" \in Places
    BY RetryAttemptsOK DEF TriesLeft, Places
  <2> QED BY <1>4, <2>1, LoginIs
<1>6. /\ login.pc = "start" /\ login.sends = 0 /\ login.codes = 0
      /\ login.password_attempt = 0 /\ login.stored = None /\ login.result = None
  BY <1>4
<1>7. /\ seen \in Seen /\ seen.emails = 0 /\ seen.tokens = 0 /\ seen.wrong_codes = 0
      /\ seen.passwords = 0
  BY DEF LoginInit, Seen
<1>8. LoginInv(login, seen)
  <2>1. SeenOnce(login, seen) /\ CodesEarned(login, seen) /\ VerifiedFirst(login)
    BY <1>6, <1>7, BudgetsOK DEF SeenOnce, CodesEarned, VerifiedFirst
  <2>2. PasswordsEarned(login, seen)
    BY <1>5, <1>6, <1>7, TriesPositive, RetryAttemptsOK DEF PasswordsEarned
  <2> QED BY <1>5, <1>7, <2>1, <2>2 DEF LoginInv
<1>9. InStep
  BY <1>2, <1>6, NoneIsNoResult DEF InStep, Agree, Wanted
<1>10. MachineOK
  BY DefaultOK DEF LoginInit, MachineOK, MachineInv, Default
<1>11. QED BY <1>1, <1>3, <1>8, <1>9, <1>10 DEF CommandInv

LEMMA CommandKept ==
    ASSUME CommandInv, [LoginNext]_allVars
    PROVE  CommandInv' /\ [Next]_vars
<1>1. CASE LoginNext
  <2>1. IInv /\ OrderInv /\ InStep /\ LoginInv(login, seen) /\ MachineOK
    BY DEF CommandInv
  <2>2. InStep' /\ [Next]_vars
    BY <1>1, <2>1, StepsAgree
  <2>3. IInv' /\ OrderInv'
    BY <2>1, <2>2, IInvKept, OrderOK
  <2>4. LoginInv(login', seen')
    BY <1>1, <2>1, StepsKeep DEF IInv, MachineInv
  <2>5. MachineOK'
    BY <1>1, <2>1, StoresFirst
  <2> QED BY <2>2, <2>3, <2>4, <2>5 DEF CommandInv
<1>2. CASE UNCHANGED allVars
  <2>1. UNCHANGED vars /\ login' = login /\ machine' = machine /\ seen' = seen
    BY <1>2 DEF allVars, engine
  <2>2. IInv' /\ OrderInv'
    BY <2>1, IInvKept, OrderOK DEF CommandInv
  <2>3. InStep' /\ MachineOK' /\ LoginInv(login', seen')
    BY <2>1 DEF CommandInv, InStep, MachineOK, vars
  <2> QED BY <2>1, <2>2, <2>3 DEF CommandInv
<1>3. QED BY <1>1, <1>2

LEMMA CommandInductive == LoginSpec => []CommandInv
<1>1. CommandInv /\ [LoginNext]_allVars => CommandInv'
  BY CommandKept
<1>2. QED BY <1>1, CommandInit, PTL DEF LoginSpec

\* The engine goes through its steps in order, whoever drives it: a token is not asked for
\* before its session is resumed, and a complete login has skipped nothing
\* (WizardEngine::accepted).
THEOREM StepsInOrder == Spec => []OrderedSteps
<1>1. Init => OrderInv
  BY NoneIsNoStep, StepsAre DEF Init, AuthInit, Default, OrderInv, Before
<1>2. IInv /\ OrderInv /\ [Next]_vars => OrderInv'
  BY OrderOK
<1>3. IInv /\ OrderInv => OrderedSteps
  BY OrderFollows
<1>4. QED BY <1>1, <1>2, <1>3, IInvInductive, PTL DEF Spec

\* The login command is one of the callers the engine is specified for (otp_compat.rs
\* against WizardEngine).
THEOREM CommandIsACaller == LoginSpec => Spec
<1>1. LoginInit => Init
  BY DEF LoginInit
<1>2. CommandInv /\ [LoginNext]_allVars => [Next]_vars
  BY CommandKept
<1>3. QED BY <1>1, <1>2, CommandInductive, PTL DEF LoginSpec, Spec

\* So its engine keeps to the budgets of its side effects, and never refuses an outcome.
THEOREM EngineKeepsItsWord ==
    LoginSpec => [](SideEffectsBounded /\ PendingMatchesPhase /\ WithinBudgets)
<1>1. IInv => WithinBudgets
  BY DEF IInv, MachineInv, WithinBudgets
<1>2. QED
  BY <1>1, CommandIsACaller, IInvInductive, EffectsBounded, NeverRefused, PTL

\* Every state of the command is one of its types.
THEOREM LoginTypes == LoginSpec => []LoginTypeOK
<1>1. CommandInv => LoginTypeOK
  BY DEF CommandInv, LoginInv, MachineOK, IInv, LoginTypeOK, Seen
<1>2. QED BY <1>1, CommandInductive, PTL

\* The adapter and the engine never drift apart (otp_compat.rs).
THEOREM AdapterNeverDrifts == LoginSpec => []NeverDrifts
<1>1. CommandInv => NeverDrifts
  BY OrderFollows DEF CommandInv, NeverDrifts, InStep
<1>2. QED BY <1>1, CommandInductive, PTL

\* Whatever is lost, no email and no token is asked for twice (email_otp.rs, otp_compat.rs,
\* retry_transient).
THEOREM NoRepeatedRequest == LoginSpec => []NothingRepeated
<1>1. CommandInv => NothingRepeated
  BY DEF CommandInv, LoginInv, SeenOnce, NothingRepeated
<1>2. QED BY <1>1, CommandInductive, PTL

\* A code or a password is tried again only as the provider's answers allow
\* (next_otp_action, should_retry_workspace_password).
THEOREM RetriesEarned == LoginSpec => []RetriesAreEarned
<1>1. ASSUME CommandInv PROVE RetriesAreEarned
  <2>1. LoginInv(login, seen)
    BY <1>1 DEF CommandInv
  <2>2. login.method = "wizard" => login.codes <= seen.wrong_codes + 1
    BY <2>1 DEF LoginInv, CodesEarned
  <2>3. seen.passwords <= RetryAttempts * Tries(login)
    <3>1. /\ login.password_attempt \in Nat /\ Tries(login) \in Nat /\ seen.passwords \in Nat
          /\ login.password_attempt <= Tries(login) /\ login.tries \in Nat
          /\ login.tries <= RetryAttempts
      BY <2>1, TriesPositive, LoginIs, RetryAttemptsOK
      DEF LoginInv, Seen, PasswordsEarned, TriesLeft
    <3>2. seen.passwords <= RetryAttempts * login.password_attempt
      <4>1. CASE login.pc # "password"
        BY <2>1, <4>1 DEF LoginInv, PasswordsEarned
      <4>2. CASE login.pc = "password"
        <5>1. seen.passwords <= RetryAttempts * (login.password_attempt - 1) + login.tries
          BY <2>1, <4>2 DEF LoginInv, PasswordsEarned
        <5>2. \A n \in Nat : /\ RetryAttempts * n = RetryAttempts * (n - 1) + RetryAttempts
                             /\ RetryAttempts * (n - 1) \in Int
          BY RetryAttemptsOK
        <5> QED BY <3>1, <5>1, <5>2, RetryAttemptsOK
      <4> QED BY <4>1, <4>2
    <3>3. \A m, n \in Nat : m <= n => /\ RetryAttempts * m <= RetryAttempts * n
                                      /\ RetryAttempts * m \in Nat /\ RetryAttempts * n \in Nat
      BY RetryAttemptsOK
    <3> QED BY <3>1, <3>2, <3>3
  <2> QED BY <2>2, <2>3 DEF RetriesAreEarned, Tries
<1>2. QED BY <1>1, CommandInductive, PTL

\* login() reports nothing complete that is not stored, and stores nothing that is not
\* verified.
THEOREM CompletedIsStored == LoginSpec => []CompleteIsStored
<1>1. CommandInv => CompleteIsStored
  BY DEF CommandInv, LoginInv, VerifiedFirst, MachineOK, CompleteIsStored
<1>2. QED BY <1>1, CommandInductive, PTL
=============================================================================
