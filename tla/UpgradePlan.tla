---------------------------- MODULE UpgradePlan ----------------------------
(***************************************************************************)
(* ayx server upgrade path, plan and precheck (ayx-server/src/upgrade):    *)
(* the breadth-first search for a route of supported upgrades, and the     *)
(* known issues a precheck warns of. A version is the sequence of its      *)
(* numeric parts.                                                          *)
(***************************************************************************)
EXTENDS Integers, Sequences, FiniteSets

CONSTANTS
    Versions,       \* sequences of numbers
    Deployments,    \* with "default", the key of the edges of all others
    Tables,         \* contents of version_paths.yaml: edges by deployment
    IssueFiles      \* contents of known_issues.yaml: a form and a set of issues

Edges == Versions \X Versions

\* deployment is "any" when the file names none. A bound that is absent is <<>>.
Issues == [id : STRING, deployment : Deployments \cup {"any"},
           source_gte : Versions \cup {<<>>}, source_lte : Versions \cup {<<>>},
           target_gte : Versions \cup {<<>>}, target_lte : Versions \cup {<<>>}]

ASSUME VersionsOK == Versions \subseteq Seq(Nat) \ {<<>>}
ASSUME TablesOK == \A t \in Tables : DOMAIN t \subseteq Deployments /\ \A d \in DOMAIN t : t[d] \subseteq Edges
ASSUME FilesOK == \A f \in IssueFiles : f.form \in {"list", "mapping"} /\ f.issues \subseteq Issues

VARIABLES
    table,          \* version_paths.yaml, empty when it cannot be read
    known,          \* known_issues.yaml
    request,        \* the source, the target and the deployment asked for
    queue,          \* paths to continue
    seen,           \* versions some path has reached
    path,           \* the path being continued, <<>> if none
    rest,           \* the neighbours of its end still to be looked at
    route,          \* the answer, <<>> if there is none
    issues,         \* the known issues a precheck found
    pc

vars == <<table, known, request, queue, seen, path, rest, route, issues, pc>>
files == <<table, known, request>>

Init ==
    /\ table \in Tables
    /\ known \in IssueFiles
    /\ request \in [source : Versions, target : Versions, deployment : Deployments]
    /\ queue = <<>> /\ seen = {} /\ path = <<>> /\ rest = {}
    /\ route = <<>> /\ issues = {}
    /\ pc = "start"

EdgesFor(deployment) ==
    IF deployment \in DOMAIN table THEN table[deployment]
    ELSE IF "default" \in DOMAIN table THEN table["default"] ELSE {}

\* The order in which the file names them decides only between routes of the same length.
Neighbours(v) == {e[2] : e \in {x \in EdgesFor(request.deployment) : x[1] = v}}

Last(p) == p[Len(p)]

---------------------------------------------------------------------------
(* The search: resolve_path *)

\* No search when nothing is to be upgraded, whether the version is known or not.
SameVersion ==
    /\ pc = "start" /\ request.source = request.target
    /\ route' = <<request.source>>
    /\ pc' = "found"
    /\ UNCHANGED <<files, queue, seen, path, rest, issues>>

Start ==
    /\ pc = "start" /\ request.source # request.target
    /\ queue' = <<<<request.source>>>>
    /\ seen' = {request.source}
    /\ pc' = "search"
    /\ UNCHANGED <<files, path, rest, route, issues>>

\* Mutant of PopFront: pop_back, a stack in place of the queue.
PopBack ==
    /\ pc = "search" /\ queue # <<>>
    /\ path' = Last(queue)
    /\ queue' = SubSeq(queue, 1, Len(queue) - 1)
    /\ rest' = Neighbours(Last(Last(queue)))
    /\ pc' = "extend"
    /\ UNCHANGED <<files, seen, route, issues>>

\* Mutant of PopFront: front, which leaves the path in the queue.
PeekFront ==
    /\ pc = "search" /\ queue # <<>>
    /\ path' = Head(queue)
    /\ rest' = Neighbours(Last(Head(queue)))
    /\ pc' = "extend"
    /\ UNCHANGED <<files, queue, seen, route, issues>>

PopFront ==
    /\ pc = "search" /\ queue # <<>>
    /\ path' = Head(queue)
    /\ queue' = Tail(queue)
    /\ rest' = Neighbours(Last(Head(queue)))
    /\ pc' = "extend"
    /\ UNCHANGED <<files, seen, route, issues>>

\* Mutant of Extend: break where the code says continue.
StopsAtSeen(v) ==
    /\ pc = "extend" /\ v \in rest
    /\ rest' = IF v \in seen THEN {} ELSE rest \ {v}
    /\ IF v \in seen THEN UNCHANGED <<queue, seen, route, pc>>
       ELSE IF v = request.target
       THEN /\ route' = Append(path, v) /\ pc' = "found"
            /\ UNCHANGED <<queue, seen>>
       ELSE /\ seen' = seen \cup {v}
            /\ queue' = Append(queue, Append(path, v))
            /\ UNCHANGED <<route, pc>>
    /\ UNCHANGED <<files, path, issues>>

\* A neighbour that was reached before is skipped, the target ends the search.
Extend(v) ==
    /\ pc = "extend" /\ v \in rest
    /\ rest' = rest \ {v}
    /\ IF v \in seen THEN UNCHANGED <<queue, seen, route, pc>>
       ELSE IF v = request.target
       THEN /\ route' = Append(path, v) /\ pc' = "found"
            /\ UNCHANGED <<queue, seen>>
       ELSE /\ seen' = seen \cup {v}
            /\ queue' = Append(queue, Append(path, v))
            /\ UNCHANGED <<route, pc>>
    /\ UNCHANGED <<files, path, issues>>

Exhausted ==
    /\ pc = "extend" /\ rest = {}
    /\ path' = <<>>
    /\ pc' = "search"
    /\ UNCHANGED <<files, queue, seen, rest, route, issues>>

NoRoute ==
    /\ pc = "search" /\ queue = <<>>
    /\ pc' = "none"
    /\ UNCHANGED <<files, queue, seen, path, rest, route, issues>>

---------------------------------------------------------------------------
(* The known issues: matching_issues *)

\* -1, 0 or 1: the first part that differs decides, then the number of parts.
CompareVersion(left, right) ==
    LET differ == {i \in DOMAIN left \cap DOMAIN right : left[i] # right[i]}
        first == CHOOSE i \in differ : \A j \in differ : i <= j
    IN IF differ # {} THEN IF left[first] < right[first] THEN -1 ELSE 1
       ELSE IF Len(left) < Len(right) THEN -1 ELSE IF Len(left) > Len(right) THEN 1 ELSE 0

VersionInRange(version, min, max) ==
    /\ min # <<>> => CompareVersion(version, min) >= 0
    /\ max # <<>> => CompareVersion(version, max) <= 0

Applies(issue) ==
    /\ issue.deployment \in {"any", request.deployment}
    /\ VersionInRange(request.source, issue.source_gte, issue.source_lte)
    /\ VersionInRange(request.target, issue.target_gte, issue.target_lte)

\* read_optional_yaml::<Vec<IssueDefinition>>: what is not a list is dropped in silence.
LoadedIssues == IF known.form = "list" THEN known.issues ELSE {}

\* A precheck goes on to the known issues, with or without a route; path and plan do not.
Precheck ==
    /\ pc \in {"found", "none"}
    /\ issues' = {issue.id : issue \in {i \in LoadedIssues : Applies(i)}}
    /\ pc' = IF pc = "found" THEN "prechecked" ELSE "refused"
    /\ UNCHANGED <<files, queue, seen, path, rest, route>>

Next == SameVersion \/ Start \/ PopFront \/ (\E v \in Versions : Extend(v)) \/ Exhausted
        \/ NoRoute \/ Precheck

Spec == Init /\ [][Next]_vars
FairSpec == Spec /\ WF_vars(Next)

---------------------------------------------------------------------------
(* Properties *)

TypeOK ==
    /\ table \in Tables /\ known \in IssueFiles
    /\ request \in [source : Versions, target : Versions, deployment : Deployments]
    /\ queue \in Seq(Seq(Versions) \ {<<>>}) /\ path \in Seq(Versions) /\ route \in Seq(Versions)
    /\ seen \subseteq Versions /\ rest \subseteq Versions
    /\ pc \in {"start", "search", "extend", "found", "none", "prechecked", "refused"}

IsWalk(p) ==
    /\ p # <<>> /\ p[1] = request.source
    /\ \A i \in 1..(Len(p) - 1) : <<p[i], p[i + 1]>> \in EdgesFor(request.deployment)

Closed(S) == \A v \in S : Neighbours(v) \subseteq S

\* A route that resolve_path answers begins at the source, ends at the target and takes only
\* hops the file lists for the deployment; when it answers none, there is none: some set of
\* versions has the source, not the target, and no hop that leaves it. Skipping what was seen
\* and stopping at an empty queue lose nothing.
RouteIsSupported ==
    /\ pc \in {"found", "prechecked"} => IsWalk(route) /\ Last(route) = request.target
    /\ pc \in {"none", "refused"} =>
           \E S \in SUBSET Versions : request.source \in S /\ request.target \notin S /\ Closed(S)

\* Some walk with at most n stops, the source included, ends at v.
WalkTo(v, n) == \E k \in 1..n : \E p \in [1..k -> Versions] : IsWalk(p) /\ Last(p) = v

\* No supported route has fewer stops than the one resolve_path answers: the pit stops of the
\* plan are all needed.
RouteIsShortest ==
    pc \in {"found", "prechecked"} => ~WalkTo(request.target, Len(route) - 1)

\* The search ends, on a file with cycles too.
SearchEnds == <>(pc \in {"found", "none", "prechecked", "refused"})

\* Every issue of known_issues.yaml that concerns the deployment, the source and the target is
\* in the results of the precheck.
KnownIssuesReported ==
    pc \in {"prechecked", "refused"} =>
        issues = {issue.id : issue \in {i \in known.issues : Applies(i)}}
=============================================================================
