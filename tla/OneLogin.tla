------------------------------ MODULE OneLogin ------------------------------
(***************************************************************************)
(* `ayx one login` (ayx-rs/src/cmd/one_platform/auth.rs) with the two      *)
(* email-OTP transports of ayx-one-api: the legacy loop of email_otp.rs    *)
(* and the adapter of otp_compat.rs, which drives a WizardEngine. A token  *)
(* is obtained by one of several methods, verified and stored. The engine  *)
(* is also a library: its other caller is any caller, see AuthWizard.      *)
(*                                                                         *)
(* Every request may fail, or be acted upon and its answer lost.           *)
(***************************************************************************)
EXTENDS AuthWizard

CONSTANT RetryAttempts  \* TRANSIENT_RETRY_ATTEMPTS
ASSUME RetryAttemptsOK == RetryAttempts \in Nat \ {0}
ASSUME NoneIsNoResult == None \notin {"keyring", "inline", "drifted"}

VARIABLES
    login,      \* the command
    machine,    \* its own AuthStateMachine, which follows an email-OTP login
    seen        \* what the provider has seen of it

engine == vars
allVars == <<engine, login, machine, seen>>

Otp == {"legacy", "wizard"}
Methods == Otp \cup {"library", "refresh", "access", "browser", "device"}

\* Requests that retry_transient sends. resolve and resume follow redirects.
Requests == {"send", "validate", "resolve", "password", "resume", "mint"}

\* Where a login waits for a person.
Prompts == {"prompt_otp", "prompt_password", "consent"}

\* sends, attempt and password_attempt are the counters of the loops; codes counts the
\* prompts for a code; fixed is a password of the profile or the environment.
Login == [method : Methods, policy : {"secure", "plaintext"}, fixed : BOOLEAN,
          pc : Requests \cup Prompts \cup {"start", "callback", "poll", "exchange", "minted",
                                           "verify", "store", "done"},
          tries : 0..(RetryAttempts - 1), sends : Nat, attempt : Nat, codes : Nat,
          password_attempt : Nat, verified : BOOLEAN,
          stored : {"keyring", "inline", None}, result : {"ok", "error", "drifted", None}]

LoginTypeOK ==
    /\ TypeOK
    /\ login \in Login
    /\ machine \in AuthState
    /\ seen \in [emails : Nat, tokens : Nat, wrong_codes : Nat, passwords : Nat]

LoginInit ==
    /\ Init
    /\ \E method \in Methods, policy \in {"secure", "plaintext"}, fixed \in BOOLEAN :
          /\ fixed => method \in Otp
          /\ method = "library" => policy = "secure"
          /\ login = [method |-> method, policy |-> policy, fixed |-> fixed, pc |-> "start",
                      tries |-> 0, sends |-> 0, attempt |-> 0, codes |-> 0,
                      password_attempt |-> 0, verified |-> FALSE, stored |-> None,
                      result |-> None]
    /\ machine = Default
    /\ seen = [emails |-> 0, tokens |-> 0, wrong_codes |-> 0, passwords |-> 0]

---------------------------------------------------------------------------
(* Control *)

At(place) == login.pc = place
Goto(place) == [login EXCEPT !.pc = place, !.tries = 0]
Ended(result) == [login EXCEPT !.pc = "done", !.result = result]

Fails == login' = Ended("error") /\ UNCHANGED <<engine, machine>>

\* The wizard adapter has the engine take a step, and expects step to be pending then;
\* the other methods have no engine.
Drive(action, step, next) ==
    IF login.method = "wizard"
    THEN action /\ login' = IF pending' = step THEN next ELSE Ended("drifted")
    ELSE login' = next /\ UNCHANGED engine

\* record(Rejected { kind })
EngineRejects(kind) ==
    /\ RejectedOtp(kind) \/ RejectedPassword(kind) \/ RejectedForGood(kind)
    /\ Reached(pending)
    /\ UNCHANGED uncertain

---------------------------------------------------------------------------
(* Requests *)

\* What becomes of one attempt: 2xx, a refusal of the code or the password, 429 or 5xx,
\* a connection that fails at once, a timeout, anything else.
Outcomes == {"ok", "rejected", "busy", "no_connection", "timeout", "other"}

\* Has the provider acted upon it?
Acted(outcome) ==
    CASE outcome = "ok" -> {TRUE}
      [] outcome \in {"rejected", "no_connection"} -> {FALSE}
      [] OTHER -> BOOLEAN

Noted(request, outcome, acted) ==
    seen' = [seen EXCEPT
        !.emails      = IF request = "send" /\ acted THEN @ + 1 ELSE @,
        !.tokens      = IF request = "mint" /\ acted THEN @ + 1 ELSE @,
        !.wrong_codes = IF request = "validate" /\ outcome = "rejected" THEN @ + 1 ELSE @,
        !.passwords   = IF request = "password" /\ outcome # "no_connection" THEN @ + 1 ELSE @]

\* Mutant of Repeats: a timeout is taken for a request that was never sent.
RepeatsTimeouts(request, outcome) ==
    \/ outcome \in {"no_connection", "timeout"}
    \/ request \notin {"send", "mint"} /\ outcome = "busy"

\* is_pre_send_failure for an email and a token, is_transient_transport_error and
\* retryable_status_response for the rest.
Repeats(request, outcome) ==
    \/ outcome = "no_connection"
    \/ request \notin {"send", "mint"} /\ outcome \in {"timeout", "busy"}

Answered(request, outcome) ==
    /\ At(request)
    /\ outcome = "rejected" => request \in {"validate", "password"}
    /\ \E acted \in Acted(outcome) : Noted(request, outcome, acted)

\* retry_transient: another attempt.
Retry ==
    /\ \E request \in Requests, outcome \in Outcomes :
          Answered(request, outcome) /\ Repeats(request, outcome)
    /\ login.tries + 1 < RetryAttempts
    /\ login' = [login EXCEPT !.tries = @ + 1]
    /\ UNCHANGED <<engine, machine>>

\* retry_transient returns.
Returns(request, outcome) ==
    /\ Answered(request, outcome)
    /\ ~(Repeats(request, outcome) /\ login.tries + 1 < RetryAttempts)

---------------------------------------------------------------------------
(* Email OTP *)

\* Two events in a row.
AfterBoth(s, first, second) == After(After(s, first), second)

\* login() tells its own machine that the passcode is sent before anything is sent.
Begin ==
    /\ At("start") /\ login.method \in Otp
    /\ machine' = AfterBoth(machine, Event("begin"), Event("otp_sent"))
    /\ Drive(Start, "send_otp", [Goto("send") EXCEPT !.sends = 1])
    /\ UNCHANGED seen

Sent ==
    /\ Returns("send", "ok")
    /\ Drive(RecordAccepted, None, [Goto("prompt_otp") EXCEPT !.attempt = 0])
    /\ UNCHANGED machine

\* Any other end of a request that is not the validation of a code or a password: the
\* wizard's engine is left as it is.
RequestFailed ==
    /\ \E request \in Requests \ {"validate", "password"}, outcome \in Outcomes \ {"ok"} :
          Returns(request, outcome)
    /\ Fails

\* get_otp
EnterOtp ==
    /\ At("prompt_otp")
    /\ Drive(SubmitOtp, "validate_otp",
             [Goto("validate") EXCEPT !.attempt = @ + 1, !.codes = @ + 1])
    /\ UNCHANGED <<machine, seen>>

Validated ==
    /\ Returns("validate", "ok")
    /\ Drive(RecordAccepted, "resolve_workspace", Goto("resolve"))
    /\ UNCHANGED machine

\* next_otp_action: the code again, another passcode, or the end.
NextOtpAction ==
    IF login.attempt < OtpAttempts THEN Goto("prompt_otp")
    ELSE IF login.sends < OtpSends THEN [Goto("send") EXCEPT !.sends = @ + 1]
    ELSE Ended("error")

\* The legacy loop: whatever is wrong with the answer, a code is used up.
LegacyValidateFailed ==
    /\ login.method = "legacy"
    /\ \E outcome \in Outcomes \ {"ok"} : Returns("validate", outcome)
    /\ login' = NextOtpAction
    /\ UNCHANGED <<engine, machine>>

\* Mutant of WizardCodeFailed: every failure of a validation asks for another code.
AnyCodeFailed ==
    /\ login.method = "wizard"
    /\ \E outcome \in Outcomes \ {"ok"} : Returns("validate", outcome)
    /\ EngineRejects("invalid_otp")
    /\ login' = IF auth'.phase = "awaiting_otp" THEN Goto("prompt_otp") ELSE Ended("error")
    /\ UNCHANGED machine

\* The wizard adapter: only a refused code is asked for again, and only while the engine
\* does not want another passcode.
WizardCodeFailed ==
    /\ login.method = "wizard"
    /\ \E outcome \in Outcomes \ {"ok"} :
          /\ Returns("validate", outcome)
          /\ EngineRejects(IF outcome = "rejected" THEN "invalid_otp" ELSE "transient_transport")
    /\ login' = IF auth'.phase = "awaiting_otp" THEN Goto("prompt_otp") ELSE Ended("error")
    /\ UNCHANGED machine

\* The name of the workspace, and the way to its password page.
ResolvedWorkspace ==
    /\ Returns("resolve", "ok")
    /\ Drive(RecordAccepted, None, Goto("prompt_password"))
    /\ UNCHANGED machine

\* The engine learns of the first password only, the reprompts stay in the session.
Password ==
    /\ Drive(IF login.password_attempt = 0 THEN SubmitWorkspacePassword ELSE UNCHANGED engine,
             "submit_workspace_password",
             [Goto("password") EXCEPT !.password_attempt = @ + 1])
    /\ UNCHANGED <<machine, seen>>

FixedPassword == At("prompt_password") /\ login.fixed /\ Password
TypePassword == At("prompt_password") /\ ~login.fixed /\ Password

PasswordAccepted ==
    /\ Returns("password", "ok")
    /\ Drive(RecordAccepted, "resume_oidc", Goto("resume"))
    /\ UNCHANGED machine

\* Mutant of AskAgain: a fixed password is tried as often as a typed one.
AskAgainWhatever == login.password_attempt < PasswordAttempts

\* should_retry_workspace_password
AskAgain == ~login.fixed /\ login.password_attempt < PasswordAttempts

PasswordFailed ==
    /\ \E outcome \in Outcomes \ {"ok"} :
          /\ Returns("password", outcome)
          /\ login' = IF outcome = "rejected" /\ AskAgain THEN Goto("prompt_password")
                      ELSE Ended("error")
    /\ UNCHANGED <<engine, machine>>

Resumed ==
    /\ Returns("resume", "ok")
    /\ Drive(RecordAccepted, "mint_pat", Goto("mint"))
    /\ UNCHANGED machine

\* The cookie that carries the workspace session is missing.
NoSession == At("mint") /\ login.tries = 0 /\ Fails /\ UNCHANGED seen

Minted ==
    /\ Returns("mint", "ok")
    /\ Drive(RecordAccepted, "persist", Goto("minted"))
    /\ UNCHANGED machine

\* The adapter records that the token is persisted, returns it, and login() tells its own
\* machine what has happened.
ReturnToken ==
    /\ At("minted")
    /\ Drive(RecordAccepted, None, Goto("verify"))
    /\ machine' = AfterBoth(
            AfterBoth(machine, Event("otp_accepted"), Event("workspace_resolved")),
            Event("workspace_password_accepted"), Event("token_exchanged"))
    /\ UNCHANGED seen

---------------------------------------------------------------------------
(* The other methods *)

BeginOther ==
    /\ At("start") /\ login.method \in Methods \ (Otp \cup {"library"})
    /\ login' = Goto(CASE login.method = "refresh" -> "exchange"
                       [] login.method = "access"  -> "verify"
                       [] login.method = "browser" -> "callback"
                       [] login.method = "device"  -> "poll")
    /\ UNCHANGED <<engine, machine, seen>>

\* parse_browser_callback: anything but the callback is ignored. device: still pending.
Approved ==
    /\ \/ At("callback") /\ login' = Goto("exchange")
       \/ At("poll")     /\ login' = Goto("verify")
    /\ UNCHANGED <<engine, machine, seen>>

\* Mutant of NotApproved: every callback that is ignored renews the deadline.
NeverTooLate ==
    /\ At("callback") \/ At("poll")
    /\ UNCHANGED allVars

\* A wrong state, a refusal, or the deadline of the wait.
NotApproved ==
    /\ At("callback") \/ At("poll")
    /\ Fails /\ UNCHANGED seen

\* refresh_one_tokens, exchange_auth_code: one attempt.
ExchangeToken ==
    /\ At("exchange")
    /\ login' = Goto("verify") \/ login' = Ended("error")
    /\ UNCHANGED <<engine, machine, seen>>

---------------------------------------------------------------------------
(* Verify and store *)

\* verify_authenticated_workspace, and the bindings of the profile.
Verify ==
    /\ At("verify")
    /\ \/ /\ login' = [Goto("store") EXCEPT !.verified = TRUE]
          /\ machine' = IF login.method \in Otp THEN After(machine, Event("persist_started"))
                        ELSE machine
          /\ UNCHANGED engine
       \/ Fails
    /\ UNCHANGED seen

Stored(where) ==
    /\ login' = [Ended("ok") EXCEPT !.stored = where]
    /\ machine' = IF login.method \in Otp THEN After(machine, Event("persist_succeeded"))
                  ELSE machine

\* Mutant of Store: the machine is told before the store is known to have worked.
StoreAnnounced ==
    /\ At("store")
    /\ machine' = IF login.method \in Otp THEN After(machine, Event("persist_succeeded"))
                  ELSE machine
    /\ \/ login' = [Ended("ok") EXCEPT
                       !.stored = IF login.policy = "secure" THEN "keyring" ELSE "inline"]
       \/ login' = IF login.policy = "secure" THEN Goto("consent") ELSE Ended("error")
    /\ UNCHANGED <<engine, seen>>

\* write_config...: KeyringTxn. Under the secure policy a person may be asked for the
\* fallback, on a terminal.
Store ==
    /\ At("store")
    /\ \/ Stored(IF login.policy = "secure" THEN "keyring" ELSE "inline") /\ UNCHANGED engine
       \/ login.policy = "secure" /\ login' = Goto("consent") /\ UNCHANGED <<engine, machine>>
       \/ Fails
    /\ UNCHANGED seen

\* interactive_secret_fallback: yes, and the second write works.
Consent ==
    /\ At("consent")
    /\ Stored("inline")
    /\ UNCHANGED <<engine, seen>>

\* The input fails at a prompt, or the answer is no; or the second write fails.
PromptFails ==
    /\ login.pc \in Prompts
    /\ At("prompt_password") => ~login.fixed
    /\ Fails /\ UNCHANGED seen

---------------------------------------------------------------------------

PersonStep == EnterOtp \/ TypePassword \/ Approved \/ Consent \/ PromptFails

ProgramStep ==
    \/ Begin \/ BeginOther \/ Retry \/ RequestFailed
    \/ Sent \/ Validated \/ LegacyValidateFailed \/ WizardCodeFailed
    \/ ResolvedWorkspace \/ FixedPassword \/ PasswordAccepted \/ PasswordFailed
    \/ Resumed \/ NoSession \/ Minted \/ ReturnToken
    \/ NotApproved \/ ExchangeToken \/ Verify \/ Store

\* Another program that uses the engine.
LibraryStep(action) == login.method = "library" /\ action /\ UNCHANGED <<login, machine, seen>>

LoginNext == PersonStep \/ ProgramStep \/ LibraryStep(Next)

LoginSpec == LoginInit /\ [][LoginNext]_allVars

\* Requests and waits have a timeout; a person need not answer. The fairness of the other
\* caller is that of AuthWizard.
LoginFairSpec ==
    /\ LoginSpec
    /\ WF_allVars(ProgramStep)
    /\ WF_allVars(LibraryStep(Start)) /\ WF_allVars(LibraryStep(SubmitOtp))
    /\ WF_allVars(LibraryStep(SubmitWorkspacePassword)) /\ WF_allVars(LibraryStep(Record))

---------------------------------------------------------------------------
(* Properties *)

\* A lost answer is never made up for by a second email or a second token: the provider
\* has sent one passcode at most for each the login meant to send, and minted one token
\* ("a retry after the request reached the server risks sending a second passcode email").
NothingRepeated == seen.emails <= login.sends /\ login.sends <= OtpSends /\ seen.tokens <= 1

\* A secret is tried again only for a reason. The wizard asks for a code once more only when
\* the provider has refused one: transient failures "must not silently consume another OTP
\* prompt" (the legacy loop does not keep to it). The provider gets to see a fixed password
\* for one prompt, a typed one for three, each repeated by the transport at most: an account
\* is not locked by a password nobody typed.
RetriesAreEarned ==
    /\ login.method = "wizard" => login.codes <= seen.wrong_codes + 1
    /\ seen.passwords <= RetryAttempts * (IF login.fixed THEN 1 ELSE PasswordAttempts)

\* The adapter and the engine are never at different steps ("Wizard transition drifted"),
\* and whoever drives the engine, it does not get ahead of the provider.
NeverDrifts == login.result # "drifted" /\ OrderedSteps

\* login() reports a complete login only when the credential is stored, and stores only
\* what was verified.
CompleteIsStored ==
    /\ machine.phase = "complete" => login.stored # None
    /\ login.stored # None => login.verified

\* A login ends, or waits for a person for ever. So does that of another caller of the
\* engine, or it leaves something uncertain.
LoginReturns ==
    /\ login.method # "library" => (<>At("done") \/ <>[](login.pc \in Prompts))
    /\ login.method = "library" => LoginEnds
=============================================================================
