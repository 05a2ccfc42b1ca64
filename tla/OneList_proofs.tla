--------------------------- MODULE OneList_proofs ---------------------------
(***************************************************************************)
(* Requests and lists for any number of attempts, any continuation tokens  *)
(* a service may chain in any way, and any cap.                            *)
(*                                                                         *)
(* RequestInv follows one request: how far it is decides how many attempts *)
(* and tokens there were (Counted), and what a mutation has been through   *)
(* (Mutation). ListInv follows a list: until it ends, its pages are a      *)
(* chain from the first one without repetition, and the continuation to    *)
(* fetch next is not among them.                                           *)
(***************************************************************************)
EXTENDS OneList, TLAPS

---------------------------------------------------------------------------
(* One request *)

\* The attempts there were and the tokens minted.
Counted ==
    /\ rq.pc \notin {"send", "renew", "done"} => rq.attempt = 0
    /\ rq.pc \in {"preflight", "verify"} => rq.mutating
    /\ rq.pc \in {"start", "preflight"} => rq.minted = 0 /\ rq.preflight_token = None
    /\ rq.pc = "verify" => rq.minted = IF rq.preflight_token = None THEN 0 ELSE 1
    /\ rq.pc = "resolve" => rq.minted <= IF rq.mutating THEN 1 ELSE 0
    /\ rq.pc \in {"send", "renew"} =>
          /\ rq.minted <= IF rq.mutating \/ rq.refreshed_once THEN 2 ELSE 1
          /\ rq.attempt <= MaxAttempts
    /\ rq.pc = "send" => rq.refreshed_once \/ rq.attempt < MaxAttempts
    /\ rq.pc = "renew" => ~rq.mutating /\ ~rq.refreshed_once

\* The token was checked, or there was none to check.
TokenChecked == rq.token \in rq.checked \/ config.mode = "sp" \/ config.access = "absent"

\* What a mutation has been through.
Mutation ==
    rq.mutating =>
        /\ rq.pc # "done" => rq.attempt = 0
        /\ rq.attempt <= 1
        /\ rq.pc \in {"preflight", "verify", "resolve", "send"} => config.apply
        /\ rq.pc \in {"verify", "resolve", "send"} => config.verified
        /\ rq.pc = "resolve" =>
              /\ rq.checked # {}
              /\ rq.preflight_token # None => rq.preflight_token \in rq.checked
              /\ rq.preflight_token = None /\ config.mode = "user" /\ config.access # "absent"
                    => 0 \in rq.checked
        /\ rq.pc = "send" \/ rq.attempt = 1 =>
              config.apply /\ config.verified /\ rq.checked # {} /\ TokenChecked

RequestInv == RequestOK /\ Counted /\ Mutation

LEMMA CalledOK ==
    ASSUME NEW mutating \in BOOLEAN, rq = Called(mutating), config \in Configs
    PROVE  RequestInv
<1>1. rq \in Request
  BY MaxAttemptsOK DEF Called, Request, AccessTokens
<1>2. Counted
  BY DEF Counted, Called
<1>3. Mutation
  BY DEF Mutation, Called
<1>4. QED BY <1>1, <1>2, <1>3 DEF RequestInv, RequestOK

LEMMA CalledPrimeOK ==
    ASSUME rq' = Called(FALSE), config' \in Configs
    PROVE  RequestInv'
<1>1. rq' \in Request
  BY MaxAttemptsOK DEF Called, Request, AccessTokens
<1>2. Counted'
  BY DEF Counted, Called
<1>3. Mutation'
  BY DEF Mutation, Called
<1>4. QED BY <1>1, <1>2, <1>3 DEF RequestInv, RequestOK

\* The end of a request before its first attempt.
LEMMA RefusedOK ==
    ASSUME RequestInv, NEW answer \in Answers, Return(answer), rq.attempt = 0 \/ ~rq.mutating,
           UNCHANGED config
    PROVE  RequestInv'
<1>1. rq' \in Request /\ rq'.pc = "done" /\ rq'.attempt = rq.attempt /\ rq'.mutating = rq.mutating
  BY DEF Return, RequestInv, RequestOK, Request
<1>2. Counted'
  BY <1>1 DEF Counted
<1>3. Mutation'
  BY <1>1 DEF Mutation
<1>4. QED BY <1>1, <1>2, <1>3 DEF RequestInv, RequestOK

LEMMA StartOK == ASSUME RequestInv, Start PROVE RequestInv'
<1>1. At("start") /\ UNCHANGED config /\ rq \in Request /\ rq.attempt = 0
  BY DEF Start, At, RequestInv, RequestOK, Counted
<1>2. CASE rq.mutating /\ ~config.apply
  BY <1>1, <1>2, RefusedOK DEF Start, Answers
<1>3. CASE ~(rq.mutating /\ ~config.apply)
  <2>1. rq' = [rq EXCEPT !.pc = IF rq.mutating THEN "preflight" ELSE "resolve"]
    BY <1>3 DEF Start, Goto
  <2>2. /\ rq' \in Request /\ rq'.pc = (IF rq.mutating THEN "preflight" ELSE "resolve")
        /\ rq'.attempt = rq.attempt /\ rq'.mutating = rq.mutating /\ rq'.minted = rq.minted
        /\ rq'.preflight_token = rq.preflight_token
    BY <1>1, <2>1 DEF Request
  <2>3. Counted'
    BY <1>1, <2>2 DEF Counted, RequestInv, At
  <2>4. Mutation'
    BY <1>1, <1>3, <2>2 DEF Mutation
  <2>5. QED BY <1>1, <2>2, <2>3, <2>4 DEF RequestInv, RequestOK
<1>4. QED BY <1>2, <1>3

LEMMA PreflightOK ==
    ASSUME RequestInv, PreflightRefused \/ PreflightRefresh \/ PreflightValid
    PROVE  RequestInv'
<1>1. /\ rq.pc = "preflight" /\ UNCHANGED config /\ rq \in Request /\ rq.attempt = 0
      /\ rq.minted = 0 /\ rq.preflight_token = None /\ rq.mutating
  BY DEF PreflightRefused, PreflightRefresh, PreflightValid, At, RequestInv, RequestOK, Counted
<1>2. CASE Return("error")
  BY <1>1, <1>2, RefusedOK DEF Answers
<1>3. CASE ~Return("error")
  <2>1. /\ config.verified
        /\ \/ rq' = [rq EXCEPT !.pc = "verify", !.minted = 1, !.preflight_token = 1]
           \/ rq' = [rq EXCEPT !.pc = "verify"]
    BY <1>3 DEF PreflightRefused, PreflightRefresh, PreflightValid, Goto
  <2>2. /\ rq' \in Request /\ rq'.pc = "verify"
        /\ rq'.attempt = 0 /\ rq'.mutating /\ rq'.mutating = rq.mutating
        /\ rq'.minted = IF rq'.preflight_token = None THEN 0 ELSE 1
    <3>1. CASE rq' = [rq EXCEPT !.pc = "verify", !.minted = 1, !.preflight_token = 1]
      <4>1. /\ rq'.pc = "verify" /\ rq'.minted = 1 /\ rq'.preflight_token = 1
            /\ rq'.attempt = 0 /\ rq'.mutating /\ rq'.mutating = rq.mutating
        BY <1>1, <3>1 DEF Request
      <4>2. rq' \in Request
        <5>1. 1 \in AccessTokens
          BY DEF AccessTokens
        <5>2. QED BY <1>1, <3>1, <5>1 DEF Request
      <4>3. None # 1
        BY NoneOK DEF AccessTokens
      <4>4. QED BY <4>1, <4>2, <4>3
    <3>2. CASE rq' = [rq EXCEPT !.pc = "verify"]
      <4>1. /\ rq'.pc = "verify" /\ rq'.minted = 0 /\ rq'.preflight_token = None
            /\ rq'.attempt = 0 /\ rq'.mutating /\ rq'.mutating = rq.mutating
        BY <1>1, <3>2 DEF Request
      <4>2. rq' \in Request
        BY <1>1, <3>2 DEF Request
      <4>3. QED BY <4>1, <4>2
    <3>3. QED BY <2>1, <3>1, <3>2
  <2>3. Counted'
    BY <2>2 DEF Counted
  <2>4. Mutation'
    BY <1>1, <2>1, <2>2 DEF Mutation, RequestInv
  <2>5. QED BY <1>1, <2>2, <2>3, <2>4 DEF RequestInv, RequestOK
<1>4. QED BY <1>2, <1>3

\* The token that is resolved is the one of the profile, or the next one to be minted.
LEMMA ResolvedOK ==
    ASSUME NEW r \in Resolved
    PROVE  /\ r[1] = 0 \/ r[1] = rq.minted + 1
           /\ r[2] = rq.minted \/ r[2] = rq.minted + 1
           /\ config.mode = "user" /\ config.access # "absent" => r[1] = 0 /\ r[2] = rq.minted
BY DEF Resolved

LEMMA VerifyWorkspaceOK == ASSUME RequestInv, VerifyWorkspace PROVE RequestInv'
<1>1. /\ rq.pc = "verify" /\ UNCHANGED config /\ rq \in Request /\ rq.attempt = 0
      /\ rq.minted = (IF rq.preflight_token = None THEN 0 ELSE 1) /\ rq.mutating
  BY DEF VerifyWorkspace, At, RequestInv, RequestOK, Counted
<1>2. CASE Return("error")
  BY <1>1, <1>2, RefusedOK DEF Answers
<1>3. ASSUME NEW t \in AccessTokens, NEW minted \in 0..1, rq' = Verified(t, minted),
             rq.preflight_token # None => t = rq.preflight_token,
             rq.preflight_token = None /\ config.mode = "user" /\ config.access # "absent"
                => t = 0
      PROVE  RequestInv'
  <2>1. /\ rq'.pc = "resolve" /\ rq'.minted = minted /\ rq'.checked = rq.checked \cup {t}
        /\ rq'.attempt = 0 /\ rq'.mutating = rq.mutating
        /\ rq'.preflight_token = rq.preflight_token
    BY <1>1, <1>3 DEF Verified, Request
  <2>2. rq' \in Request
    <3>1. minted \in AccessTokens /\ rq.checked \cup {t} \in SUBSET AccessTokens
      BY <1>1, <1>3 DEF AccessTokens, Request
    <3>2. QED BY <1>1, <1>3, <3>1 DEF Verified, Request
  <2>3. Counted'
    BY <1>1, <1>3, <2>1 DEF Counted
  <2>4. Mutation'
    BY <1>1, <1>3, <2>1 DEF Mutation, RequestInv
  <2>5. QED BY <1>1, <2>2, <2>3, <2>4 DEF RequestInv, RequestOK
<1>4. CASE ~Return("error")
  <2>1. CASE rq.preflight_token # None
    <3>1. rq' = Verified(rq.preflight_token, rq.minted)
      BY <1>4, <2>1 DEF VerifyWorkspace
    <3>2. rq.preflight_token \in AccessTokens /\ rq.minted \in 0..1
      BY <1>1, <2>1 DEF Request
    <3>3. QED BY <1>3, <2>1, <3>1, <3>2
  <2>2. CASE rq.preflight_token = None
    <3>1. PICK r \in Resolved : rq' = Verified(r[1], r[2])
      BY <1>4, <2>2 DEF VerifyWorkspace
    <3>2. /\ r[1] \in {0, 1} /\ r[2] \in 0..1
          /\ config.mode = "user" /\ config.access # "absent" => r[1] = 0
      BY <1>1, <2>2, ResolvedOK
    <3>3. r[1] \in AccessTokens
      BY <3>2 DEF AccessTokens
    <3>4. QED BY <1>3, <2>2, <3>1, <3>2, <3>3
  <2>3. QED BY <2>1, <2>2
<1>5. QED BY <1>2, <1>4

LEMMA ResolveTokenOK == ASSUME RequestInv, ResolveToken PROVE RequestInv'
<1>1. /\ rq.pc = "resolve" /\ UNCHANGED config /\ rq \in Request /\ rq.attempt = 0
      /\ rq.minted \in Nat /\ rq.minted <= IF rq.mutating THEN 1 ELSE 0
      /\ config \in Configs
  BY DEF ResolveToken, At, RequestInv, RequestOK, Counted, Request, AccessTokens
<1>2. ASSUME NEW t \in AccessTokens, NEW minted \in AccessTokens,
             rq' = [rq EXCEPT !.pc = "send", !.token = t, !.minted = minted],
             minted <= IF rq.mutating THEN 2 ELSE 1,
             rq.preflight_token # None => t = rq.preflight_token,
             rq.preflight_token = None /\ config.mode = "user" /\ config.access # "absent"
                => t = 0
      PROVE  RequestInv'
  <2>1. /\ rq'.pc = "send" /\ rq'.minted = minted /\ rq'.token = t
        /\ rq'.attempt = 0 /\ rq'.mutating = rq.mutating /\ rq'.checked = rq.checked
        /\ rq'.refreshed_once = rq.refreshed_once
    BY <1>1, <1>2 DEF Request
  <2>2. rq' \in Request
    BY <1>1, <1>2 DEF Request
  <2>3. Counted'
    <3>1. 0 < MaxAttempts /\ 0 <= MaxAttempts
      BY MaxAttemptsOK
    <3>2. minted <= IF rq.mutating \/ rq.refreshed_once THEN 2 ELSE 1
      BY <1>2 DEF AccessTokens
    <3>3. QED BY <2>1, <3>1, <3>2 DEF Counted
  <2>4. Mutation'
    <3>1. rq.mutating => TokenChecked'
      BY <1>1, <1>2, <2>1 DEF Mutation, RequestInv, TokenChecked, Configs
    <3>2. QED BY <1>1, <2>1, <3>1 DEF Mutation, RequestInv
  <2>5. QED BY <1>1, <2>2, <2>3, <2>4 DEF RequestInv, RequestOK
<1>3. CASE rq.preflight_token # None /\ rq' = [rq EXCEPT !.pc = "send", !.token = rq.preflight_token]
  <2>1. rq' = [rq EXCEPT !.pc = "send", !.token = rq.preflight_token, !.minted = rq.minted]
    BY <1>1, <1>3 DEF Request
  <2>2. rq.preflight_token \in AccessTokens /\ rq.minted \in AccessTokens
    BY <1>1, <1>3 DEF Request
  <2>3. rq.minted <= IF rq.mutating THEN 2 ELSE 1
    BY <1>1
  <2>4. QED BY <1>2, <1>3, <2>1, <2>2, <2>3
<1>4. CASE rq.preflight_token = None
  <2>1. PICK r \in Resolved : rq' = [rq EXCEPT !.pc = "send", !.token = r[1], !.minted = r[2]]
    BY <1>4 DEF ResolveToken, UseToken
  <2>2. r[1] \in AccessTokens /\ r[2] \in AccessTokens /\ r[2] <= IF rq.mutating THEN 2 ELSE 1
    BY <1>1, ResolvedOK DEF AccessTokens
  <2>3. QED BY <1>2, <1>4, <2>1, <2>2, ResolvedOK
<1>5. QED BY <1>3, <1>4 DEF ResolveToken, UseToken

\* An attempt that was the last one.
LEMMA AttemptedLast ==
    ASSUME RequestInv, NEW answer \in Answers, At("send"), Attempted("done", answer),
           UNCHANGED config
    PROVE  RequestInv'
<1>1. /\ rq.pc = "send" /\ rq \in Request /\ rq.attempt \in Nat /\ rq.attempt <= MaxAttempts
      /\ rq.mutating => rq.attempt = 0
  BY DEF At, RequestInv, RequestOK, Counted, Mutation, Request
<1>2. rq' = [rq EXCEPT !.attempt = rq.attempt + 1, !.pc = "done", !.answer = answer]
  BY <1>1 DEF Attempted, Request
<1>3. rq.attempt + 1 \in 0..(MaxAttempts + 1)
  BY <1>1, MaxAttemptsOK
<1>4. rq' \in Request
  BY <1>1, <1>2, <1>3 DEF Request
<1>5. /\ rq'.pc = "done" /\ rq'.attempt = rq.attempt + 1 /\ rq'.mutating = rq.mutating
      /\ rq'.checked = rq.checked /\ rq'.token = rq.token
  BY <1>1, <1>2 DEF Request
<1>6. Counted'
  BY <1>5 DEF Counted
<1>7. Mutation'
  BY <1>1, <1>5 DEF Mutation, TokenChecked, RequestInv
<1>8. QED BY <1>4, <1>6, <1>7 DEF RequestInv, RequestOK

\* An attempt at a read that is followed by another, at once or after a renewal.
LEMMA AttemptedAgain ==
    ASSUME RequestInv, NEW place \in {"send", "renew"}, At("send"), ~rq.mutating,
           Attempted(place, None), UNCHANGED config,
           place = "send" => rq.attempt + 1 < MaxAttempts,
           place = "renew" => ~rq.refreshed_once
    PROVE  RequestInv'
<1>1. /\ rq.pc = "send" /\ rq \in Request /\ rq.attempt \in Nat
      /\ rq.minted <= IF rq.refreshed_once THEN 2 ELSE 1
      /\ rq.refreshed_once \/ rq.attempt < MaxAttempts
  BY DEF At, RequestInv, RequestOK, Counted, Request
<1>2. rq' = [rq EXCEPT !.attempt = rq.attempt + 1, !.pc = place, !.answer = None]
  BY <1>1 DEF Attempted, Request
<1>3. rq.attempt + 1 <= MaxAttempts /\ rq.attempt + 1 \in 0..(MaxAttempts + 1)
  BY <1>1, MaxAttemptsOK
<1>4. rq' \in Request
  BY <1>1, <1>2, <1>3 DEF Request
<1>5. /\ rq'.pc = place /\ rq'.attempt = rq.attempt + 1 /\ ~rq'.mutating
      /\ rq'.minted = rq.minted /\ rq'.refreshed_once = rq.refreshed_once
  BY <1>1, <1>2 DEF Request
<1>6. Counted'
  BY <1>1, <1>3, <1>5 DEF Counted
<1>7. Mutation'
  BY <1>5 DEF Mutation
<1>8. QED BY <1>4, <1>6, <1>7 DEF RequestInv, RequestOK

LEMMA SendOK ==
    ASSUME RequestInv, SendOk \/ SendFailed \/ SendTransient \/ SendUnauthorized
    PROVE  RequestInv'
<1>1. At("send") /\ UNCHANGED config
  BY DEF SendOk, SendFailed, SendTransient, SendUnauthorized
<1>2. CASE \E answer \in Answers : Attempted("done", answer)
  BY <1>1, <1>2, AttemptedLast
<1>3. CASE Again /\ Attempted("send", None)
  BY <1>1, <1>3, AttemptedAgain DEF Again, Attempts
<1>4. CASE MayRenew /\ Attempted("renew", None)
  BY <1>1, <1>4, AttemptedAgain DEF MayRenew
<1>5. QED BY <1>2, <1>3, <1>4 DEF SendOk, SendFailed, SendTransient, SendUnauthorized, Answers

LEMMA RenewOK == ASSUME RequestInv, Renew PROVE RequestInv'
<1>1. /\ rq.pc = "renew" /\ UNCHANGED config /\ rq \in Request /\ ~rq.mutating
      /\ rq.minted \in Nat /\ rq.minted <= 1 /\ rq.attempt <= MaxAttempts
  BY DEF Renew, At, RequestInv, RequestOK, Counted, Request, AccessTokens
<1>2. CASE Return("error")
  BY <1>1, <1>2, RefusedOK DEF Answers
<1>3. CASE ~Return("error")
  <2>1. rq' = [rq EXCEPT !.pc = "send", !.refreshed_once = TRUE,
                         !.minted = rq.minted + 1, !.token = rq.minted + 1]
    BY <1>1, <1>3 DEF Renew, Request
  <2>2. rq.minted + 1 \in AccessTokens /\ rq.minted + 1 <= 2
    BY <1>1 DEF AccessTokens
  <2>3. rq' \in Request
    BY <1>1, <2>1, <2>2 DEF Request
  <2>4. /\ rq'.pc = "send" /\ rq'.refreshed_once /\ rq'.minted = rq.minted + 1
        /\ rq'.attempt = rq.attempt /\ ~rq'.mutating
    BY <1>1, <2>1 DEF Request
  <2>5. Counted'
    BY <1>1, <2>2, <2>4 DEF Counted
  <2>6. Mutation'
    BY <2>4 DEF Mutation
  <2>7. QED BY <1>1, <2>3, <2>5, <2>6 DEF RequestInv, RequestOK
<1>4. QED BY <1>2, <1>3

LEMMA RequestStepOK == ASSUME RequestInv, RequestStep PROVE RequestInv'
<1>1. CASE ResolveFailed
  <2>1. Return("error") /\ UNCHANGED config /\ (rq.attempt = 0)
    BY <1>1 DEF ResolveFailed, At, RequestInv, Counted
  <2>2. QED BY <2>1, RefusedOK DEF Answers
<1>2. QED BY <1>1, StartOK, PreflightOK, VerifyWorkspaceOK, ResolveTokenOK, SendOK, RenewOK
          DEF RequestStep

---------------------------------------------------------------------------
(* A list *)

\* The pages received are a chain from the first one, each page once.
Chain ==
    LET pages == list.pages
        n == Len(pages)
    IN  /\ n > 0 => pages[1] = None
        /\ \A i \in 1..(n - 1) : pages[i + 1] = next[pages[i]]
        /\ \A i, j \in 1..n : i # j => pages[i] # pages[j]

\* A list that goes on: it has every page it was given, and it is to fetch the
\* continuation of the last one, which it has seen and not fetched.
GoesOn ==
    LET pages == list.pages
        n == Len(pages)
    IN  list.result = None =>
            /\ n = list.pages_fetched
            /\ Chain
            /\ n = 0 => list.current = None /\ list.last_next = None
            /\ n > 0 =>
                  /\ list.auto_all
                  /\ list.last_next = next[pages[n]] /\ list.current = list.last_next
                  /\ list.current # None /\ list.current \in list.seen
                  /\ \A i \in 1..n : pages[i] # list.current
            /\ \A i \in 1..n : pages[i] = None \/ pages[i] \in list.seen

ListInv ==
    /\ next \in [Pages -> Pages]
    /\ list \in ListState
    /\ GoesOn
    /\ OkIsComplete

Inv == RequestInv /\ ListInv

LEMMA InitOK == Init => Inv
<1> SUFFICES ASSUME Init PROVE Inv
  OBVIOUS
<1>1. RequestInv
  BY CalledOK DEF Init
<1>2. PICK all \in BOOLEAN, cap \in Caps :
          list = [auto_all |-> all, max_pages |-> cap, current |-> None, pages |-> <<>>,
                  pages_fetched |-> 0, last_next |-> None, seen |-> {}, result |-> None]
  BY DEF Init
<1>3. list \in ListState /\ list.result = None /\ list.pages = <<>> /\ Len(list.pages) = 0
      /\ list.pages_fetched = 0 /\ list.current = None /\ list.last_next = None
  <2>1. <<>> \in Seq(Pages) /\ Len(<<>>) = 0 /\ None \in Pages
    BY DEF Pages
  <2>2. QED BY <1>2, <2>1 DEF ListState
<1>4. GoesOn
  BY <1>3 DEF GoesOn, Chain
<1>5. OkIsComplete
  BY <1>3, NoneIsNone DEF OkIsComplete, Results
<1>6. QED BY <1>1, <1>3, <1>4, <1>5 DEF Init, Inv, ListInv

\* A list that ends with the pages it has.
LEMMA EndOK ==
    ASSUME ListInv, NEW result \in Results, list' = [list EXCEPT !.result = result],
           UNCHANGED next,
           result = "ok" /\ list.auto_all => list.max_pages = 0,
           result = "incomplete" => ~Complete
    PROVE  ListInv'
<1>1. list \in ListState
  BY DEF ListInv
<1>2. /\ list' \in ListState /\ list'.result = result /\ list'.pages = list.pages
      /\ list'.auto_all = list.auto_all /\ list'.max_pages = list.max_pages
  BY <1>1 DEF ListState
<1>3. GoesOn'
  BY <1>2, NoneIsNone DEF GoesOn
<1>4. OkIsComplete'
  BY <1>2 DEF OkIsComplete, Complete
<1>5. QED BY <1>2, <1>3, <1>4 DEF ListInv

LEMMA StopAtCapOK == ASSUME ListInv, StopAtCap PROVE ListInv'
<1>1. /\ list \in ListState /\ list.result = None /\ list.pages_fetched >= list.max_pages
      /\ UNCHANGED next /\ GoesOn
  BY DEF StopAtCap, Listing, ListInv
<1>2. /\ list.pages_fetched = Len(list.pages) /\ list.pages \in Seq(Pages)
      /\ list.max_pages \in Nat /\ Len(list.pages) \in Nat
  BY <1>1, CapsOK DEF GoesOn, ListState
<1>3. CASE list.auto_all /\ list.last_next # None
  <2>1. list' = [list EXCEPT !.result = "incomplete"]
    BY <1>3 DEF StopAtCap, CapReached
  <2>2. Len(list.pages) > 0 /\ next[list.pages[Len(list.pages)]] # None
    BY <1>1, <1>2, <1>3 DEF GoesOn
  <2>3. QED BY <1>1, <2>1, <2>2, EndOK DEF Complete, Results
<1>4. CASE ~(list.auto_all /\ list.last_next # None)
  <2>1. list' = [list EXCEPT !.result = "ok"]
    BY <1>4 DEF StopAtCap, CapReached
  <2>2. list.auto_all => Len(list.pages) = 0
    BY <1>1, <1>2, <1>4 DEF GoesOn
  <2>3. list.auto_all => list.max_pages = 0
    BY <1>1, <1>2, <2>2
  <2>4. QED BY <1>1, <2>1, <2>3, EndOK DEF Results
<1>5. QED BY <1>3, <1>4

LEMMA StopAtFailureOK == ASSUME ListInv, StopAtFailure PROVE ListInv'
<1>1. UNCHANGED next
  BY DEF StopAtFailure
<1>2. PICK result \in {"error", "failed", "partial"} : list' = [list EXCEPT !.result = result]
  BY DEF StopAtFailure, PageFailed
<1>3. QED BY <1>1, <1>2, EndOK DEF Results

\* A response without a body ends the list.
LEMMA NothingOK ==
    ASSUME ListInv, Listing, rq.answer = "nothing", list' = Continued(Received),
           UNCHANGED next
    PROVE  ListInv' /\ list'.result = "ok"
<1>1. list \in ListState /\ Len(list.pages) = list.pages_fetched /\ list.pages_fetched \in Nat
      /\ list.pages \in Seq(Pages)
  BY DEF ListInv, GoesOn, Listing, ListState
<1>2. Received = [list EXCEPT !.pages_fetched = list.pages_fetched + 1, !.last_next = None]
  BY <1>1 DEF Received, ListState
<1>3. Received.last_next = None
  BY <1>1, <1>2 DEF ListState
<1>4. list' = [Received EXCEPT !.result = "ok"]
  BY <1>3 DEF Continued
<1>5. /\ list'.result = "ok" /\ list'.pages = list.pages
      /\ list'.pages_fetched = list.pages_fetched + 1
  BY <1>1, <1>2, <1>4 DEF ListState
<1>6. list' \in ListState
  <2>1. list.pages_fetched + 1 \in Nat /\ None \in Pages /\ "ok" \in Results \cup {None}
    BY <1>1 DEF Pages, Results
  <2>2. Received \in ListState
    BY <1>1, <1>2, <2>1 DEF ListState
  <2>3. QED BY <1>4, <2>1, <2>2 DEF ListState
<1>7. Len(list'.pages) # list'.pages_fetched
  BY <1>1, <1>5
<1>8. GoesOn'
  BY <1>5, NoneIsNone DEF GoesOn, Results
<1>9. OkIsComplete'
  BY <1>5, <1>7 DEF OkIsComplete
<1>10. QED BY <1>5, <1>6, <1>8, <1>9 DEF ListInv

\* A page is added to the chain.
LEMMA PageOK ==
    ASSUME ListInv, Listing, rq.answer = "page", list' = Continued(Received),
           UNCHANGED next
    PROVE  ListInv'
<1> DEFINE page == list.current
           pages == Append(list.pages, page)
           n == Len(list.pages)
<1>1. /\ list \in ListState /\ GoesOn /\ list.result = None
      /\ n = list.pages_fetched /\ n \in Nat /\ list.pages \in Seq(Pages)
      /\ page \in Pages /\ next \in [Pages -> Pages] /\ next[page] \in Pages
  BY DEF ListInv, GoesOn, Listing, ListState
<1>2. /\ pages \in Seq(Pages) /\ Len(pages) = n + 1 /\ pages[n + 1] = page
      /\ \A i \in 1..n : pages[i] = list.pages[i]
  BY <1>1
<1>3. Received = [list EXCEPT !.pages_fetched = n + 1, !.pages = pages,
                              !.last_next = next[page]]
  BY <1>1 DEF Received, ListState
<1> HIDE DEF pages
<1>4. /\ Received.pages = pages /\ Received.pages_fetched = n + 1
      /\ Received.last_next = next[page] /\ Received.seen = list.seen
      /\ Received.auto_all = list.auto_all /\ Received.result = None
      /\ Received.max_pages = list.max_pages
  BY <1>1, <1>3 DEF ListState
<1>5. Received \in ListState
  <2>1. n + 1 \in Nat
    BY <1>1
  <2>2. QED BY <1>1, <1>2, <1>3, <2>1 DEF ListState
<1>6. /\ pages[1] = None
      /\ \A i \in 1..n : pages[i + 1] = next[pages[i]]
      /\ \A i, j \in 1..(n + 1) : i # j => pages[i] # pages[j]
      /\ \A i \in 1..(n + 1) : pages[i] = None \/ pages[i] \in list.seen
  <2>1. CASE n = 0
    BY <1>1, <1>2, <2>1 DEF GoesOn
  <2>2. CASE n > 0
    <3>1. /\ Chain /\ page = next[list.pages[n]] /\ page \in list.seen
          /\ \A i \in 1..n : list.pages[i] # page
          /\ \A i \in 1..n : list.pages[i] = None \/ list.pages[i] \in list.seen
      BY <1>1, <2>2 DEF GoesOn
    <3>2. /\ list.pages[1] = None
          /\ \A i \in 1..(n - 1) : list.pages[i + 1] = next[list.pages[i]]
          /\ \A i, j \in 1..n : i # j => list.pages[i] # list.pages[j]
      BY <2>2, <3>1 DEF Chain
    <3>3. pages[1] = None
      BY <1>1, <1>2, <2>2, <3>2
    <3>4. ASSUME NEW i \in 1..n PROVE pages[i + 1] = next[pages[i]]
      <4>1. CASE i = n
        BY <1>2, <3>1, <4>1
      <4>2. CASE i # n
        <5>1. i \in 1..(n - 1) /\ i + 1 \in 1..n
          BY <1>1, <4>2
        <5>2. QED BY <1>2, <3>2, <5>1
      <4>3. QED BY <4>1, <4>2
    <3>5. ASSUME NEW i \in 1..(n + 1), NEW j \in 1..(n + 1), i # j
          PROVE  pages[i] # pages[j]
      <4>1. (i \in 1..n \/ i = n + 1) /\ (j \in 1..n \/ j = n + 1)
        BY <1>1
      <4>2. QED BY <1>2, <3>1, <3>2, <3>5, <4>1
    <3>6. ASSUME NEW i \in 1..(n + 1) PROVE pages[i] = None \/ pages[i] \in list.seen
      <4>1. i \in 1..n \/ i = n + 1
        BY <1>1
      <4>2. QED BY <1>2, <3>1, <4>1
    <3>7. QED BY <3>3, <3>4, <3>5, <3>6
  <2>3. QED BY <1>1, <2>1, <2>2
<1>7. CASE ~list.auto_all \/ next[page] = None
  <2>1. list' = [Received EXCEPT !.result = "ok"]
    BY <1>4, <1>7 DEF Continued
  <2>2. /\ list' \in ListState /\ list'.result = "ok" /\ list'.pages = pages
        /\ list'.auto_all = list.auto_all
    BY <1>4, <1>5, <2>1 DEF ListState, Results
  <2>3. GoesOn'
    BY <2>2, NoneIsNone DEF GoesOn, Results
  <2>4. list.auto_all => Complete'
    <3>1. Len(pages) > 0 /\ Len(pages) - 1 = n
      BY <1>1, <1>2
    <3>2. list.auto_all => next[pages[Len(pages)]] = None
      BY <1>2, <1>7
    <3>3. QED BY <1>2, <1>6, <2>2, <3>1, <3>2 DEF Complete
  <2>5. OkIsComplete'
    BY <2>2, <2>4 DEF OkIsComplete
  <2>6. QED BY <1>1, <2>2, <2>3, <2>5 DEF ListInv
<1>8. CASE list.auto_all /\ next[page] # None /\ next[page] \in list.seen
  <2>1. list' = [Received EXCEPT !.result = "incomplete"]
    BY <1>4, <1>8 DEF Continued
  <2>2. list' \in ListState /\ list'.result = "incomplete" /\ list'.pages = pages
    BY <1>4, <1>5, <2>1 DEF ListState, Results
  <2>3. GoesOn'
    BY <2>2, NoneIsNone DEF GoesOn, Results
  <2>4. OkIsComplete'
    BY <1>2, <1>8, <2>2 DEF OkIsComplete, Complete
  <2>5. QED BY <1>1, <2>2, <2>3, <2>4 DEF ListInv
<1>9. CASE list.auto_all /\ next[page] # None /\ next[page] \notin list.seen
  <2>1. list' = [Received EXCEPT !.seen = list.seen \cup {next[page]}, !.current = next[page]]
    BY <1>4, <1>5, <1>9 DEF Continued, ListState
  <2>2. next[page] \in PageTokens /\ list.seen \cup {next[page]} \in SUBSET PageTokens
    BY <1>1, <1>9 DEF Pages, ListState
  <2>3. list' \in ListState
    BY <1>1, <1>5, <2>1, <2>2 DEF ListState
  <2>4. /\ list'.result = None /\ list'.pages = pages /\ list'.pages_fetched = n + 1
        /\ list'.last_next = next[page] /\ list'.current = next[page]
        /\ list'.seen = list.seen \cup {next[page]} /\ list'.auto_all
    BY <1>4, <1>5, <1>9, <2>1 DEF ListState
  <2>5. Chain'
    <3>1. Len(pages) - 1 = n
      BY <1>1, <1>2
    <3>2. QED BY <1>2, <1>6, <2>4, <3>1 DEF Chain
  <2>6. \A i \in 1..(n + 1) : pages[i] # next[page]
    BY <1>6, <1>9
  <2>7. GoesOn'
    <3>1. Len(pages) = n + 1 /\ Len(pages) > 0
      BY <1>1, <1>2
    <3>2. QED BY <1>2, <1>6, <1>9, <2>4, <2>5, <2>6, <3>1 DEF GoesOn
  <2>8. OkIsComplete'
    BY <2>4, NoneIsNone DEF OkIsComplete, Results
  <2>9. QED BY <1>1, <2>3, <2>7, <2>8 DEF ListInv
<1>10. QED BY <1>7, <1>8, <1>9

LEMMA StepOK == Inv /\ [Next]_vars => Inv'
<1> SUFFICES ASSUME Inv, [Next]_vars PROVE Inv'
  OBVIOUS
<1>1. CASE UNCHANGED vars
  BY <1>1 DEF vars, Inv, RequestInv, RequestOK, Counted, Mutation, TokenChecked, ListInv,
              GoesOn, Chain, OkIsComplete, Complete
<1>2. CASE StopAtCap
  <2>1. RequestInv'
    BY <1>2 DEF StopAtCap, Inv, RequestInv, RequestOK, Counted, Mutation, TokenChecked
  <2>2. QED BY <1>2, <2>1, StopAtCapOK DEF Inv
<1>3. CASE FetchPage
  <2>1. ListInv'
    BY <1>3 DEF FetchPage, Inv, ListInv, GoesOn, Chain, OkIsComplete, Complete
  <2>2. QED BY <1>3, <2>1, RequestStepOK DEF FetchPage, Inv
<1>4. CASE StopAtFailure
  <2>1. RequestInv'
    BY <1>4 DEF StopAtFailure, Inv, RequestInv, RequestOK, Counted, Mutation, TokenChecked
  <2>2. QED BY <1>4, <2>1, StopAtFailureOK DEF Inv
<1>5. CASE TakePage
  <2>1. ListInv'
    BY <1>5, NothingOK, PageOK DEF TakePage, Inv
  <2>2. RequestInv'
    <3>1. config \in Configs /\ config' = config
      BY <1>5 DEF TakePage, Inv, RequestInv, RequestOK
    <3>2. CASE rq' = rq
      BY <3>1, <3>2 DEF Inv, RequestInv, RequestOK, Counted, Mutation, TokenChecked
    <3>3. CASE rq' = Called(FALSE)
      BY <3>1, <3>3, CalledPrimeOK
    <3>4. QED BY <1>5, <3>2, <3>3 DEF TakePage
  <2>3. QED BY <2>1, <2>2 DEF Inv
<1>6. QED BY <1>1, <1>2, <1>3, <1>4, <1>5 DEF Next

\* The types of a request and of a list: its attempts and its tokens stay in their
\* bounds, whatever the service answers.
THEOREM TypeCorrect == Spec => []TypeOK
<1>1. Inv => TypeOK
  BY DEF Inv, RequestInv, ListInv, TypeOK
<1>2. QED BY InitOK, StepOK, <1>1, PTL DEF Spec

\* However many attempts the code allows a read, no transient status, lost answer or 401
\* sends a mutation a second time, and none is sent unapplied or unverified.
THEOREM SentOnce == Spec => []MutationSentOnce
<1>1. Inv => MutationSentOnce
  BY DEF Inv, RequestInv, Mutation, MutationSentOnce
<1>2. QED BY InitOK, StepOK, <1>1, PTL DEF Spec

\* The token sent with a mutation is the one its workspace was verified with, unless
\* there was none to begin with.
THEOREM SendsVerified == Spec => []VerifiedTokenSent
<1>1. Inv => VerifiedTokenSent
  BY DEF Inv, RequestInv, Mutation, TokenChecked, VerifiedTokenSent
<1>2. QED BY InitOK, StepOK, <1>1, PTL DEF Spec

\* However the service chains its pages, in a line or in a circle, and whatever the cap:
\* a list that succeeds with --all is the whole collection, and one called incomplete is
\* not.
THEOREM ListsWhole == Spec => []OkIsComplete
<1>1. Inv => OkIsComplete
  BY DEF Inv, ListInv
<1>2. QED BY InitOK, StepOK, <1>1, PTL DEF Spec
=============================================================================
