----------------------------- MODULE OneRequest -----------------------------
(***************************************************************************)
(* One live request to Alteryx One (one_api_live_request_with_body in      *)
(* ayx-one-api/src/lib.rs): the preflight of a mutation, the choice of an  *)
(* access token, and the loop that retries a read and renews its token     *)
(* once. The service answers as it likes. How a refresh token is exchanged *)
(* is the subject of CredentialRotation.                                   *)
(***************************************************************************)
EXTENDS Naturals, FiniteSets

CONSTANTS
    MaxAttempts,    \* attempts at a read, 4 in the code
    None

ASSUME MaxAttemptsOK == MaxAttempts \in Nat \ {0}

VARIABLES
    config,     \* what the request reads of the loaded Config, which no refresh updates
    rq          \* the request

\* auth_mode; the access token in the profile (stale: its exp is at most 30 s away);
\* whether there is a refresh token; whether the active workspace credential has the
\* verified id, gid and name; --apply.
Configs == [mode : {"user", "sp"}, access : {"absent", "valid", "stale"},
            refresh : BOOLEAN, verified : BOOLEAN, apply : BOOLEAN]

\* Access tokens: 0 is the one of config, the others are numbered as they are minted.
\* A read mints at most one to begin with and one more after a 401, a mutation one for
\* the preflight and one for itself.
AccessTokens == 0..2

\* page and nothing are envelopes with ok: true, with and without a JSON body; failed is
\* an envelope with ok: false, error an Err.
Answers == {"dry_run", "page", "nothing", "failed", "error"}

ASSUME NoneOK == None \notin AccessTokens /\ None \notin Answers

Request == [pc : {"start", "preflight", "verify", "resolve", "send", "renew", "done"},
            mutating : BOOLEAN, attempt : 0..(MaxAttempts + 1), refreshed_once : BOOLEAN,
            preflight_token : AccessTokens \cup {None}, token : AccessTokens \cup {None},
            minted : AccessTokens, checked : SUBSET AccessTokens,
            answer : Answers \cup {None}]

\* one_api_live_request_with_body is called.
Called(mutating) ==
    [pc |-> "start", mutating |-> mutating, attempt |-> 0, refreshed_once |-> FALSE,
     preflight_token |-> None, token |-> None, minted |-> 0, checked |-> {}, answer |-> None]

RequestOK == config \in Configs /\ rq \in Request

At(place) == rq.pc = place
Goto(place) == rq' = [rq EXCEPT !.pc = place]
Return(answer) == rq' = [rq EXCEPT !.pc = "done", !.answer = answer]

\* one_can_renew_access_token
CanRenew == config.mode = "sp" \/ config.refresh

\* one_access_token_needs_refresh
NeedsRefresh == config.mode = "user" /\ config.access = "stale"

---------------------------------------------------------------------------
(* Before the request *)

\* The safety gate: a mutation that is not applied is only described.
Start ==
    /\ At("start")
    /\ IF rq.mutating /\ ~config.apply THEN Return("dry_run")
       ELSE Goto(IF rq.mutating THEN "preflight" ELSE "resolve")
    /\ UNCHANGED config

\* preflight_applied_mutation: no verified workspace, or OneLoginExpired.
PreflightRefused ==
    /\ At("preflight")
    /\ ~config.verified \/ (NeedsRefresh /\ ~CanRenew)
    /\ Return("error")
    /\ UNCHANGED config

\* preflight_applied_mutation: a stale access token is renewed, which may fail.
PreflightRefresh ==
    /\ At("preflight") /\ config.verified
    /\ NeedsRefresh /\ CanRenew
    /\ \/ rq' = [rq EXCEPT !.pc = "verify", !.minted = 1, !.preflight_token = 1]
       \/ Return("error")
    /\ UNCHANGED config

PreflightValid ==
    /\ At("preflight") /\ config.verified /\ ~NeedsRefresh
    /\ Goto("verify")
    /\ UNCHANGED config

\* What resolve_one_access_token returns and how many tokens there are then. A service
\* principal with a user credential, and a user with no token at all, get none.
Resolved ==
    IF config.mode = "user" /\ config.access # "absent" THEN {<<0, rq.minted>>}
    ELSE IF CanRenew THEN {<<rq.minted + 1, rq.minted + 1>>}
    ELSE {}

\* The workspace of token t is the expected one.
Verified(t, minted) ==
    [rq EXCEPT !.pc = "resolve", !.minted = minted, !.checked = @ \cup {t}]

\* verify_workspace_identity: GET /v4/workspaces/current with the preflight token, or
\* with one resolved for it. Any failure ends the request.
VerifyWorkspace ==
    /\ At("verify")
    /\ \/ \E r \in IF rq.preflight_token # None
                   THEN {<<rq.preflight_token, rq.minted>>} ELSE Resolved :
             rq' = Verified(r[1], r[2])
       \/ Return("error")
    /\ UNCHANGED config

\* Mutant of UseToken: the token of the preflight is not used.
ResolveAgain == \E r \in Resolved :
    rq' = [rq EXCEPT !.pc = "send", !.token = r[1], !.minted = r[2]]

\* The token of the preflight, or else one is resolved.
UseToken ==
    \/ /\ rq.preflight_token # None
       /\ rq' = [rq EXCEPT !.pc = "send", !.token = rq.preflight_token]
    \/ /\ rq.preflight_token = None
       /\ \E r \in Resolved : rq' = [rq EXCEPT !.pc = "send", !.token = r[1], !.minted = r[2]]

ResolveToken == At("resolve") /\ UseToken /\ UNCHANGED config

\* The token cannot be had, or a reference does not belong to the active workspace
\* (validate_active_credential_bindings).
ResolveFailed ==
    /\ At("resolve") /\ rq.preflight_token = None
    /\ Return("error")
    /\ UNCHANGED config

---------------------------------------------------------------------------
(* The loop *)

Attempts == IF rq.mutating THEN 1 ELSE MaxAttempts

\* Mutant of Again: what failed on the way is sent once more.
AgainAnyway == rq.attempt + 1 < MaxAttempts

\* May this attempt be followed by another? Never one at a mutation.
Again == ~rq.mutating /\ rq.attempt + 1 < Attempts

Attempted(place, answer) ==
    rq' = [rq EXCEPT !.attempt = @ + 1, !.pc = place, !.answer = answer]

\* 2xx. A body of text that is not JSON and not HTML is a success; one that is empty, or
\* that cannot be read to its end, is taken for null.
SendOk ==
    /\ At("send")
    /\ \E answer \in {"page", "nothing"} : Attempted("done", answer)
    /\ UNCHANGED config

\* HTML or broken JSON with a 2xx, or any status that is not retried.
SendFailed ==
    /\ At("send")
    /\ Attempted("done", "failed")
    /\ UNCHANGED config

\* 429, 500, 502, 503, 504 or no answer at all.
SendTransient ==
    /\ At("send")
    /\ IF Again THEN Attempted("send", None) ELSE Attempted("done", "failed")
    /\ UNCHANGED config

MayRenew == ~rq.mutating /\ ~rq.refreshed_once /\ CanRenew

\* 401 for the first time: renew, whatever the attempt.
SendUnauthorized ==
    /\ At("send") /\ MayRenew
    /\ Attempted("renew", None)
    /\ UNCHANGED config

\* The renewal and `continue`, or its error through `?`.
Renew ==
    /\ At("renew")
    /\ \/ rq' = [rq EXCEPT !.pc = "send", !.refreshed_once = TRUE,
                           !.minted = @ + 1, !.token = rq.minted + 1]
       \/ Return("error")
    /\ UNCHANGED config

RequestStep ==
    \/ Start \/ PreflightRefused \/ PreflightRefresh \/ PreflightValid
    \/ VerifyWorkspace \/ ResolveToken \/ ResolveFailed
    \/ SendOk \/ SendFailed \/ SendTransient \/ SendUnauthorized \/ Renew

---------------------------------------------------------------------------
(* Properties *)

\* A mutation reaches the service once at most, and only when it was to be applied and a
\* token of the verified workspace was seen to belong to it: no transient status, lost
\* answer or 401 sends it again.
MutationSentOnce ==
    rq.mutating => /\ rq.attempt <= 1
                   /\ rq.attempt = 1 => config.apply /\ config.verified /\ rq.checked # {}

\* The token a mutation travels with is the one whose workspace was verified, unless the
\* configuration holds none: then one is minted to verify and another one to send.
VerifiedTokenSent ==
    rq.mutating /\ rq.attempt = 1 =>
        \/ rq.token \in rq.checked
        \/ config.mode = "sp" \/ config.access = "absent"
=============================================================================
