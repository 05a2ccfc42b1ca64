----------------------------- MODULE ServerApi -----------------------------
(***************************************************************************)
(* The client of the Alteryx Server API (ayx-server-api/src/lib.rs): the   *)
(* safety gate, the bearer token and its cache, and the three loops that   *)
(* send a request: request_json, request_multipart (the upload of          *)
(* designer workflow publish) and download_bytes. One process makes its    *)
(* requests one after the other; the server and the clock do as they like. *)
(*                                                                         *)
(* Time is counted in units of 10 seconds. A token is the time at which    *)
(* the server stops accepting it.                                          *)
(***************************************************************************)
EXTENDS Naturals

CONSTANTS
    MAX_RETRIES,    \* 3 in the code
    Margin,         \* how long before its deadline a token leaves the cache, 1 in the code
    Lifetimes,      \* what expires_in may say
    MaxDelay,       \* the timeout of the client (api.timeout_ms), 3 by default: how long the
                    \* reply with a token may be under way
    MaxTime,        \* bound: the clock
    MaxCalls,       \* bound: requests of the process
    Absent

ASSUME NumbersOK ==
    /\ MAX_RETRIES \in Nat \ {0} /\ Margin \in Nat /\ Lifetimes \subseteq Nat
    /\ MaxDelay \in Nat /\ MaxTime \in Nat /\ MaxCalls \in Nat /\ Absent \notin Nat

VARIABLES
    mode,       \* api.auth.mode
    apply,      \* SERVER_APPLY, --apply of the command
    now,
    cache,      \* TOKEN_CACHE: the token of the profile and its expires_at
    calls,      \* requests so far
    rq          \* the request

apiVars == <<mode, apply, now, cache, calls, rq>>

\* read and mutation go through api_request, upload and download do not.
Kinds == {"read", "mutation", "upload", "download"}
Mutating(kind) == kind \in {"mutation", "upload"}
Answers == {"dry_run", "ok", "error"}

ASSUME AbsentNoAnswer == Absent \notin Answers

Request == [pc : {"idle", "gate", "resolve", "issued", "send"}, kind : Kinds,
            attempt : 0..MAX_RETRIES, token : Nat, expires_in : Nat, sent : Nat,
            performed : Nat, answer : Answers \cup {Absent}]

ApiInit ==
    /\ mode \in {"pat", "oauth2"} /\ apply \in BOOLEAN
    /\ now = 0 /\ cache = Absent /\ calls = 0
    /\ rq = [pc |-> "idle", kind |-> "read", attempt |-> 0, token |-> 0, expires_in |-> 0,
             sent |-> 0, performed |-> 0, answer |-> Absent]

RequestAt(place) == rq.pc = place
Return(answer) == rq' = [rq EXCEPT !.pc = "idle", !.answer = answer]

Call(kind) ==
    /\ RequestAt("idle") /\ calls < MaxCalls
    /\ calls' = calls + 1
    /\ rq' = [pc |-> "gate", kind |-> kind, attempt |-> 0, token |-> 0, expires_in |-> 0,
              sent |-> 0, performed |-> 0, answer |-> Absent]
    /\ UNCHANGED <<mode, apply, now, cache>>

\* The gate is in api_request.
Gated(kind) == kind = "mutation"

Gate ==
    /\ RequestAt("gate")
    /\ IF Gated(rq.kind) /\ ~apply THEN Return("dry_run")
       ELSE rq' = [rq EXCEPT !.pc = "resolve"]
    /\ UNCHANGED <<mode, apply, now, cache, calls>>

---------------------------------------------------------------------------
(* resolve_bearer_token *)

\* The first attempt with a token at hand.
Use(token) == rq' = [rq EXCEPT !.pc = "send", !.attempt = 1, !.token = token]

\* A personal access token does not expire while the process runs.
UsePat ==
    /\ RequestAt("resolve") /\ mode = "pat"
    /\ Use(MaxTime + 1)
    /\ UNCHANGED <<mode, apply, now, cache, calls>>

\* Mutant of Fresh: without the margin.
FreshToTheEnd == cache # Absent /\ cache.expires_at > now

Fresh == cache # Absent /\ cache.expires_at > now + Margin

UseCached ==
    /\ RequestAt("resolve") /\ mode = "oauth2" /\ Fresh
    /\ Use(cache.token)
    /\ UNCHANGED <<mode, apply, now, cache, calls>>

\* The token request reaches the server, which issues a token.
IssueToken ==
    /\ RequestAt("resolve") /\ mode = "oauth2" /\ ~Fresh
    /\ \E life \in Lifetimes :
           rq' = [rq EXCEPT !.pc = "issued", !.token = now + life, !.expires_in = life]
    /\ UNCHANGED <<mode, apply, now, cache, calls>>

\* expires_at is counted from the arrival of the reply.
ReceiveToken ==
    /\ RequestAt("issued")
    /\ cache' = [token |-> rq.token, expires_at |-> now + rq.expires_in]
    /\ Use(rq.token)
    /\ UNCHANGED <<mode, apply, now, calls>>

\* No token: the request was refused, the reply was lost or makes no sense, or the profile has
\* no personal access token or client secret. The cache keeps what it has.
NoToken ==
    /\ \/ RequestAt("resolve") /\ (mode = "pat" \/ ~Fresh)
       \/ RequestAt("issued")
    /\ Return("error")
    /\ UNCHANGED <<mode, apply, now, cache, calls>>

---------------------------------------------------------------------------
(* The loops that send *)

\* Mutant of Retryable: a mutation like any other.
AnyRetryable(kind) == TRUE

\* What is sent again after 429 or 5xx: request_json spares mutations, the others do not.
Retryable(kind) == kind # "mutation"

\* A response ends the loop unless it says 429 or 5xx ("busy") and attempts are left; a request
\* that fails to go through ("lost") is an error at once, whatever the server did.
\* A server does not perform what it refuses.
Exchange(status, performed) ==
    /\ RequestAt("send")
    /\ now >= rq.token => status # "ok" /\ ~performed
    /\ performed => Mutating(rq.kind) /\ status # "refused"
    /\ status = "ok" /\ Mutating(rq.kind) => performed
    /\ LET again == status = "busy" /\ Retryable(rq.kind) /\ rq.attempt < MAX_RETRIES
       IN rq' = [rq EXCEPT !.sent = @ + 1,
                           !.performed = IF performed THEN @ + 1 ELSE @,
                           !.attempt = IF again THEN @ + 1 ELSE @,
                           !.pc = IF again THEN "send" ELSE "idle",
                           !.answer = IF again THEN @ ELSE IF status = "ok" THEN "ok" ELSE "error"]
    /\ UNCHANGED <<mode, apply, now, cache, calls>>

\* The body of a download breaks off after its status was read.
DownloadCut ==
    /\ RequestAt("send") /\ rq.kind = "download" /\ now < rq.token
    /\ rq' = [rq EXCEPT !.sent = @ + 1, !.pc = "idle", !.answer = "error"]
    /\ UNCHANGED <<mode, apply, now, cache, calls>>

\* Time passes between any two steps and while replies are under way.
Tick ==
    /\ now < MaxTime
    /\ RequestAt("issued") => now + rq.expires_in < rq.token + MaxDelay
    /\ now' = now + 1
    /\ UNCHANGED <<mode, apply, cache, calls, rq>>

Step ==
    \/ Gate \/ UsePat \/ UseCached \/ IssueToken \/ ReceiveToken \/ NoToken \/ DownloadCut
    \/ \E status \in {"ok", "refused", "busy", "lost"}, performed \in BOOLEAN :
           Exchange(status, performed)

ApiNext == (\E kind \in Kinds : Call(kind)) \/ Step \/ Tick

ApiSpec == ApiInit /\ [][ApiNext]_apiVars

---------------------------------------------------------------------------
(* Properties *)

ApiTypeOK ==
    /\ mode \in {"pat", "oauth2"} /\ apply \in BOOLEAN /\ now \in 0..MaxTime
    /\ cache \in [token : Nat, expires_at : Nat] \cup {Absent}
    /\ calls \in 0..MaxCalls /\ rq \in Request

\* A mutation that goes through api_request leaves the process at most once, and only with
\* --apply; it is answered ok when the server has performed it, so that what is in doubt (5xx
\* after the fact, a lost reply) is an error and never a second request.
MutationSentOnce ==
    rq.kind = "mutation" =>
        /\ rq.sent <= 1
        /\ rq.sent > 0 => apply
        /\ rq.answer = "ok" => rq.performed = 1

\* The deadline in the cache is counted from the arrival of the reply, the token ends
\* earlier. A cached token whose own reply took no longer than the margin is still accepted
\* when it is used; any other is used less than MaxDelay - Margin after its end (20 seconds
\* with the default timeout), however long the process has had it.
StalenessBounded ==
    [][RequestAt("resolve") /\ mode = "oauth2" /\ rq'.pc = "send" =>
          /\ now + Margin < rq'.token + MaxDelay
          /\ cache.expires_at <= cache.token + Margin => now < rq'.token]_apiVars

\* An upload is performed at most once.
UploadPerformedOnce == rq.kind = "upload" => rq.performed <= 1

\* Nothing that mutates is sent without --apply.
NothingWithoutApply == rq.sent > 0 /\ Mutating(rq.kind) => apply
=============================================================================
