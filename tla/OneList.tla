------------------------------ MODULE OneList ------------------------------
(***************************************************************************)
(* one_api_list_request (ayx-one-api/src/lib.rs): a collection fetched     *)
(* page after page, each page by a whole request. The service may continue *)
(* a collection in a circle. A command is one list, or one mutation.       *)
(***************************************************************************)
EXTENDS OneRequest, Sequences

CONSTANTS
    PageTokens,     \* continuation tokens
    Caps            \* max_pages: of --max-pages, or 50 with --all and 1 without

ASSUME CapsOK == Caps \subseteq Nat

VARIABLES
    next,       \* the service: the continuation of each page, None at the end
    list        \* the list

vars == <<config, rq, next, list>>

\* The page of None is the first one.
Pages == PageTokens \cup {None}

Results == {"ok", "incomplete", "partial", "failed", "error"}
ASSUME NoneIsNone == None \notin PageTokens /\ None \notin Results

ListState == [auto_all : BOOLEAN, max_pages : Caps, current : Pages, pages : Seq(Pages),
              pages_fetched : Nat, last_next : Pages, seen : SUBSET PageTokens,
              result : Results \cup {None}]

TypeOK ==
    /\ RequestOK
    /\ next \in [Pages -> Pages]
    /\ list \in ListState

\* A list has no use for the metadata and the consent a mutation needs.
Init ==
    /\ \E mutating \in BOOLEAN :
          /\ config \in {c \in Configs : mutating \/ (~c.verified /\ ~c.apply)}
          /\ rq = Called(mutating)
    /\ next \in [Pages -> Pages]
    /\ \E all \in BOOLEAN, cap \in Caps :
          list = [auto_all |-> all, max_pages |-> cap, current |-> None, pages |-> <<>>,
                  pages_fetched |-> 0, last_next |-> None, seen |-> {}, result |-> None]

Listing == ~rq.mutating /\ list.result = None

\* Mutant of CapReached: the loop is not left.
CapIgnored == list

\* The cap: incomplete when the last page read has a continuation.
CapReached ==
    [list EXCEPT !.result = IF list.auto_all /\ list.last_next # None
                            THEN "incomplete" ELSE "ok"]

StopAtCap ==
    /\ Listing /\ rq.pc = "start"
    /\ list.pages_fetched >= list.max_pages
    /\ list' = CapReached
    /\ UNCHANGED <<config, rq, next>>

FetchPage ==
    /\ rq.mutating \/ (Listing /\ ~(rq.pc = "start" /\ list.pages_fetched >= list.max_pages))
    /\ RequestStep
    /\ UNCHANGED <<next, list>>

\* Mutant of PageFailed: the pages there are will do.
PageFailedQuietly == [list EXCEPT !.result = IF list.pages_fetched = 0 THEN "failed" ELSE "ok"]

\* A page that fails: the failure itself, or a failure with the items so far.
PageFailed == [list EXCEPT !.result = IF list.pages_fetched = 0 THEN "failed" ELSE "partial"]

StopAtFailure ==
    /\ Listing /\ rq.pc = "done" /\ rq.answer \in {"failed", "error"}
    /\ list' = IF rq.answer = "error" THEN [list EXCEPT !.result = "error"] ELSE PageFailed
    /\ UNCHANGED <<config, rq, next>>

\* The page as it was received: its items and its continuation. A response without a
\* JSON body has neither.
Received ==
    LET page == list.current
        body == rq.answer = "page"
    IN  [list EXCEPT !.pages_fetched = @ + 1,
                     !.pages = IF body THEN Append(@, page) ELSE @,
                     !.last_next = IF body THEN next[page] ELSE None]

\* What follows a page: the end, a continuation seen before, or the next page.
Continued(l) ==
    IF ~l.auto_all \/ l.last_next = None THEN [l EXCEPT !.result = "ok"]
    ELSE IF l.last_next \in l.seen THEN [l EXCEPT !.result = "incomplete"]
    ELSE [l EXCEPT !.seen = @ \cup {l.last_next}, !.current = l.last_next]

TakePage ==
    /\ Listing /\ rq.pc = "done" /\ rq.answer \in {"page", "nothing"}
    /\ list' = Continued(Received)
    /\ rq' = IF list'.result = None THEN Called(FALSE) ELSE rq
    /\ UNCHANGED <<config, next>>

Next == StopAtCap \/ FetchPage \/ StopAtFailure \/ TakePage

Spec == Init /\ [][Next]_vars

\* The process goes on: requests have a timeout, and the delays between them an end.
FairSpec == Spec /\ WF_vars(Next)

---------------------------------------------------------------------------
(* Properties *)

\* The pages received are the whole collection, each page once and in order.
Complete ==
    LET pages == list.pages
        n == Len(pages)
    IN  /\ n > 0 /\ pages[1] = None /\ next[pages[n]] = None
        /\ \A i \in 1..(n - 1) : pages[i + 1] = next[pages[i]]
        /\ \A i, j \in 1..n : i # j => pages[i] # pages[j]

\* --all succeeds only with the whole collection, when every page had its body and at
\* least one was to be read: not with the pages before a failure, a cap or a circle. And
\* a complete list is not called incomplete: not when its last page is also the last one
\* the cap admits.
OkIsComplete ==
    /\ list.result = "ok" /\ list.auto_all /\ list.max_pages > 0
           /\ Len(list.pages) = list.pages_fetched
       => Complete
    /\ list.result = "incomplete" => ~Complete

\* A command ends whatever the service answers, also when its continuations never end.
CommandEnds == <>(IF rq.mutating THEN rq.pc = "done" ELSE list.result # None)

\* "partial data must never read as `ok: true`" (one_api_list_request).
PartialNeverOk == list.result = "ok" /\ list.auto_all /\ list.max_pages > 0 => Complete
=============================================================================
