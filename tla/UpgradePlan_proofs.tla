------------------------- MODULE UpgradePlan_proofs -------------------------
(***************************************************************************)
(* Proofs about UpgradePlan. What the search keeps: all its paths are      *)
(* walks from the source, and a hop that leaves the versions seen so far   *)
(* starts at the end of a path that is still in the queue, or is among     *)
(* those the present path has yet to look at. When the queue is empty no   *)
(* hop leaves them. That the route is shortest needs the layers of the     *)
(* search, after that.                                                     *)
(***************************************************************************)
EXTENDS UpgradePlan, TLAPS

Searching == pc \in {"search", "extend"}

Reached ==
    Searching => request.source \in seen /\ request.target \notin seen

Walks ==
    /\ Searching => \A i \in DOMAIN queue : IsWalk(queue[i])
    /\ pc = "extend" => IsWalk(path) /\ rest \subseteq Neighbours(Last(path))

Queued(v) == \E i \in DOMAIN queue : Last(queue[i]) = v

Frontier ==
    /\ Searching => \A v \in seen :
           Neighbours(v) \subseteq seen \/ Queued(v) \/ (pc = "extend" /\ v = Last(path))
    /\ pc = "extend" => Neighbours(Last(path)) \subseteq seen \cup rest

IInv == TypeOK /\ Reached /\ Walks /\ Frontier /\ RouteIsSupported

---------------------------------------------------------------------------
(* Edges, walks and sequences *)

LEMMA EdgesTyped ==
  ASSUME TypeOK, NEW d
  PROVE  EdgesFor(d) \subseteq Edges
  BY TablesOK DEF TypeOK, EdgesFor

LEMMA NeighbourIsHop ==
  ASSUME TypeOK, NEW v, NEW w
  PROVE  /\ Neighbours(v) \subseteq Versions
         /\ w \in Neighbours(v) => <<v, w>> \in EdgesFor(request.deployment)
<1>1. EdgesFor(request.deployment) \subseteq Versions \X Versions
  BY EdgesTyped DEF Edges
<1>2. ASSUME NEW e \in EdgesFor(request.deployment)
      PROVE  e = <<e[1], e[2]>> /\ e[1] \in Versions /\ e[2] \in Versions
  BY <1>1
<1> QED
  BY <1>2 DEF Neighbours

LEMMA WalkGrows ==
  ASSUME NEW p \in Seq(Versions), IsWalk(p), NEW v \in Versions,
         <<Last(p), v>> \in EdgesFor(request.deployment)
  PROVE  /\ Append(p, v) \in Seq(Versions) \ {<<>>}
         /\ IsWalk(Append(p, v)) /\ Last(Append(p, v)) = v
<1>1. Len(p) \in Nat /\ Len(p) > 0
  BY DEF IsWalk
<1>2. /\ Append(p, v) \in Seq(Versions) /\ Len(Append(p, v)) = Len(p) + 1
      /\ \A i \in 1..Len(p) : Append(p, v)[i] = p[i]
      /\ Append(p, v)[Len(p) + 1] = v
  BY <1>1
<1>3. ASSUME NEW i \in 1..Len(p)
      PROVE  <<Append(p, v)[i], Append(p, v)[i + 1]>> \in EdgesFor(request.deployment)
  <2>1. CASE i = Len(p)
    BY <2>1, <1>1, <1>2 DEF Last
  <2>2. CASE i # Len(p)
    <3>1. i \in 1..(Len(p) - 1) /\ i + 1 \in 1..Len(p)
      BY <1>1, <2>2
    <3>2. <<p[i], p[i + 1]>> \in EdgesFor(request.deployment)
      BY <3>1 DEF IsWalk
    <3> QED
      BY <1>2, <3>1, <3>2
  <2> QED
    BY <2>1, <2>2
<1> QED
  BY <1>1, <1>2, <1>3 DEF IsWalk, Last

Paths == Seq(Versions) \ {<<>>}

LEMMA HeadAndTail ==
  ASSUME NEW q \in Seq(Paths), q # <<>>
  PROVE  /\ Head(q) = q[1] /\ 1 \in DOMAIN q /\ Head(q) \in Paths
         /\ Tail(q) \in Seq(Paths)
         /\ \A i \in DOMAIN Tail(q) : i + 1 \in DOMAIN q /\ Tail(q)[i] = q[i + 1]
         /\ \A i \in DOMAIN q : i = 1 \/ (i - 1 \in DOMAIN Tail(q) /\ Tail(q)[i - 1] = q[i])
  OBVIOUS

LEMMA AppendToQueue ==
  ASSUME NEW q \in Seq(Paths), NEW p \in Paths
  PROVE  /\ Append(q, p) \in Seq(Paths)
         /\ \A i \in DOMAIN q : i \in DOMAIN Append(q, p) /\ Append(q, p)[i] = q[i]
         /\ Len(q) + 1 \in DOMAIN Append(q, p) /\ Append(q, p)[Len(q) + 1] = p
         /\ \A i \in DOMAIN Append(q, p) : i \in DOMAIN q \/ i = Len(q) + 1
  OBVIOUS

---------------------------------------------------------------------------
(* The invariant *)

LEMMA InitIInv == Init => IInv
<1> SUFFICES ASSUME Init PROVE IInv
  OBVIOUS
<1>1. TypeOK
  BY DEF Init, TypeOK
<1> QED
  BY <1>1 DEF Init, IInv, Reached, Walks, Frontier, Searching, RouteIsSupported

LEMMA SameVersionIInv ==
  ASSUME IInv, SameVersion
  PROVE  IInv'
<1>1. request.source \in Versions
  BY DEF IInv, TypeOK
<1>2. <<request.source>> \in Seq(Versions) /\ Len(<<request.source>>) = 1
  BY <1>1
<1>3. TypeOK'
  BY <1>2 DEF IInv, TypeOK, SameVersion, files
<1>4. RouteIsSupported'
  <2>1. route' = <<request.source>> /\ pc' = "found" /\ request' = request /\ table' = table
    BY DEF SameVersion, files
  <2>2. IsWalk(route)' /\ Last(route)' = request.source
    BY <2>1, <1>2 DEF IsWalk, Last
  <2> QED
    BY <2>1, <2>2 DEF RouteIsSupported, SameVersion
<1> QED
  BY <1>3, <1>4 DEF IInv, SameVersion, Reached, Walks, Frontier, Searching

LEMMA StartIInv ==
  ASSUME IInv, Start
  PROVE  IInv'
<1> DEFINE first == <<request.source>>
<1>1. request.source \in Versions
  BY DEF IInv, TypeOK
<1>2. first \in Paths /\ Len(first) = 1 /\ first[1] = request.source
  BY <1>1 DEF Paths
<1>3. <<first>> \in Seq(Paths) /\ DOMAIN <<first>> = {1} /\ <<first>>[1] = first
  BY <1>2
<1>4. /\ queue' = <<first>> /\ seen' = {request.source} /\ pc' = "search"
      /\ request' = request /\ table' = table /\ known' = known /\ path' = path /\ rest' = rest
      /\ route' = route /\ pc = "start" /\ request.source # request.target
  BY DEF Start, files
<1>5. TypeOK'
  BY <1>1, <1>3, <1>4 DEF IInv, TypeOK, Paths
<1>6. Walks'
  BY <1>2, <1>3, <1>4 DEF Walks, IsWalk
<1>7. Frontier'
  BY <1>2, <1>3, <1>4 DEF Frontier, Queued, Last
<1> QED
  BY <1>4, <1>5, <1>6, <1>7 DEF IInv, Reached, RouteIsSupported

\* The path that is taken leaves the queue and becomes the one that is continued.
LEMMA PopFrontIInv ==
  ASSUME IInv, PopFront
  PROVE  IInv'
<1>1. /\ path' = Head(queue) /\ queue' = Tail(queue) /\ rest' = Neighbours(Last(Head(queue)))
      /\ pc = "search" /\ pc' = "extend" /\ queue # <<>>
      /\ seen' = seen /\ route' = route /\ table' = table /\ known' = known /\ request' = request
  BY DEF PopFront, files
<1>2. queue \in Seq(Paths)
  BY DEF IInv, TypeOK, Paths
<1>3. /\ Head(queue) = queue[1] /\ 1 \in DOMAIN queue /\ Head(queue) \in Paths
      /\ Tail(queue) \in Seq(Paths)
      /\ \A i \in DOMAIN Tail(queue) : i + 1 \in DOMAIN queue /\ Tail(queue)[i] = queue[i + 1]
      /\ \A i \in DOMAIN queue :
             i = 1 \/ (i - 1 \in DOMAIN Tail(queue) /\ Tail(queue)[i - 1] = queue[i])
  BY <1>1, <1>2, HeadAndTail
<1>4. rest' \subseteq Versions
  BY <1>1, NeighbourIsHop DEF IInv
<1>5. TypeOK'
  BY <1>1, <1>3, <1>4 DEF IInv, TypeOK, Paths
<1>6. Reached'
  BY <1>1 DEF IInv, Reached, Searching
<1>7. Walks'
  <2>1. \A i \in DOMAIN queue : IsWalk(queue[i])
    BY <1>1 DEF IInv, Walks, Searching
  <2>2. \A i \in DOMAIN queue' : IsWalk(queue'[i])
    BY <1>1, <1>3, <2>1
  <2>3. IsWalk(path')
    BY <1>1, <1>3, <2>1
  <2>4. (rest \subseteq Neighbours(Last(path)))'
    BY <1>1 DEF Neighbours, EdgesFor, Last
  <2>5. (\A i \in DOMAIN queue : IsWalk(queue[i]))' /\ IsWalk(path)'
    BY <1>1, <2>2, <2>3 DEF IsWalk, EdgesFor
  <2> QED
    BY <2>4, <2>5 DEF Walks
<1>8. Frontier'
  <2>1. \A v : Neighbours(v)' = Neighbours(v)
    BY <1>1 DEF Neighbours, EdgesFor
  <2>2. ASSUME NEW v \in seen, Queued(v)
        PROVE  Queued(v)' \/ v = Last(path')
    <3>1. PICK i \in DOMAIN queue : Last(queue[i]) = v
      BY <2>2 DEF Queued
    <3>2. CASE i = 1
      BY <1>1, <1>3, <3>1, <3>2
    <3>3. CASE i # 1
      BY <1>1, <1>3, <3>1, <3>3 DEF Queued
    <3> QED
      BY <3>2, <3>3
  <2>3. \A v \in seen : Neighbours(v) \subseteq seen \/ Queued(v)
    BY <1>1 DEF IInv, Frontier, Searching
  <2> QED
    BY <1>1, <2>1, <2>2, <2>3 DEF Frontier, Neighbours, EdgesFor
<1>9. RouteIsSupported'
  BY <1>1 DEF RouteIsSupported
<1> QED
  BY <1>5, <1>6, <1>7, <1>8, <1>9 DEF IInv

LEMMA ExhaustedIInv ==
  ASSUME IInv, Exhausted
  PROVE  IInv'
<1>1. /\ pc = "extend" /\ pc' = "search" /\ rest = {} /\ path' = <<>> /\ rest' = rest
      /\ queue' = queue /\ seen' = seen /\ route' = route /\ issues' = issues
      /\ table' = table /\ known' = known /\ request' = request
  BY DEF Exhausted, files
<1>2. TypeOK'
  BY <1>1 DEF IInv, TypeOK
<1>3. Reached' /\ RouteIsSupported'
  BY <1>1 DEF IInv, Reached, Searching, RouteIsSupported
<1>4. Walks'
  BY <1>1 DEF IInv, Walks, Searching, IsWalk, EdgesFor
<1>5. Frontier'
  <2>1. \A v \in seen : Neighbours(v) \subseteq seen \/ Queued(v)
    BY <1>1 DEF IInv, Frontier, Searching
  <2> QED
    BY <1>1, <2>1 DEF Frontier, Neighbours, EdgesFor, Queued
<1> QED
  BY <1>2, <1>3, <1>4, <1>5 DEF IInv

\* With an empty queue the versions seen are the set that shows there is no route.
LEMMA NoRouteIInv ==
  ASSUME IInv, NoRoute
  PROVE  IInv'
<1>1. /\ pc = "search" /\ pc' = "none" /\ queue = <<>> /\ seen \subseteq Versions
      /\ UNCHANGED <<table, known, request, queue, seen, path, rest, route, issues>>
  BY DEF NoRoute, files, IInv, TypeOK
<1>2. \A v \in seen : Neighbours(v) \subseteq seen
  <2>1. DOMAIN queue = {}
    BY <1>1
  <2> QED
    BY <1>1, <2>1 DEF IInv, Frontier, Searching, Queued
<1>3. request.source \in seen /\ request.target \notin seen
  BY <1>1 DEF IInv, Reached, Searching
<1>4. Closed(seen)'
  BY <1>1, <1>2 DEF Closed, Neighbours, EdgesFor
<1>5. RouteIsSupported'
  BY <1>1, <1>3, <1>4 DEF RouteIsSupported
<1>6. TypeOK'
  BY <1>1 DEF IInv, TypeOK
<1> QED
  BY <1>1, <1>5, <1>6 DEF IInv, Reached, Walks, Frontier, Searching

LEMMA PrecheckIInv ==
  ASSUME IInv, Precheck
  PROVE  IInv'
<1>1. /\ \/ pc = "found" /\ pc' = "prechecked"
         \/ pc = "none" /\ pc' = "refused"
      /\ UNCHANGED <<table, known, request, queue, seen, path, rest, route>>
  BY DEF Precheck, files
<1>2. TypeOK'
  BY <1>1 DEF IInv, TypeOK
<1>3. RouteIsSupported'
  BY <1>1 DEF IInv, RouteIsSupported, IsWalk, Closed, Neighbours, EdgesFor
<1> QED
  BY <1>1, <1>2, <1>3 DEF IInv, Reached, Walks, Frontier, Searching

LEMMA ExtendIInv ==
  ASSUME IInv, NEW v \in Versions, Extend(v)
  PROVE  IInv'
<1>1. /\ pc = "extend" /\ v \in rest /\ rest' = rest \ {v} /\ path' = path
      /\ table' = table /\ known' = known /\ request' = request
  BY DEF Extend, files
<1>2. path \in Seq(Versions) /\ IsWalk(path) /\ queue \in Seq(Paths)
      /\ <<Last(path), v>> \in EdgesFor(request.deployment)
  BY <1>1, NeighbourIsHop DEF IInv, TypeOK, Walks, Paths
<1> DEFINE longer == Append(path, v)
<1>3. longer \in Paths /\ IsWalk(longer) /\ Last(longer) = v
  BY <1>2, WalkGrows DEF Paths
<1>5. /\ \A i \in DOMAIN queue : IsWalk(queue[i])
      /\ rest \subseteq Neighbours(Last(path)) /\ Neighbours(Last(path)) \subseteq seen \cup rest
      /\ \A w \in seen : Neighbours(w) \subseteq seen \/ Queued(w) \/ w = Last(path)
      /\ request.source \in seen /\ request.target \notin seen
  BY <1>1 DEF IInv, Walks, Frontier, Reached, Searching
<1>a. CASE v \in seen
  <2>1. queue' = queue /\ seen' = seen /\ route' = route /\ pc' = pc
    BY <1>a DEF Extend
  <2>2. TypeOK'
    BY <1>1, <2>1 DEF IInv, TypeOK
  <2>3. Walks'
    BY <1>1, <1>2, <1>5, <2>1 DEF Walks, IsWalk, Neighbours, EdgesFor
  <2>4. Frontier'
    BY <1>1, <1>5, <1>a, <2>1 DEF Frontier, Queued, Neighbours, EdgesFor
  <2> QED
    BY <1>1, <1>5, <2>1, <2>2, <2>3, <2>4 DEF IInv, Reached, RouteIsSupported
<1>b. CASE v \notin seen /\ v = request.target
  <2>1. queue' = queue /\ seen' = seen /\ route' = longer /\ pc' = "found"
    BY <1>b DEF Extend
  <2>2. TypeOK'
    BY <1>1, <1>3, <2>1 DEF IInv, TypeOK, Paths
  <2>3. RouteIsSupported'
    <3>1. IsWalk(longer)' /\ Last(longer) = request.target
      BY <1>1, <1>3, <1>b DEF IsWalk, EdgesFor
    <3> QED
      BY <1>1, <2>1, <3>1 DEF RouteIsSupported, IsWalk, Last
  <2> QED
    BY <2>1, <2>2, <2>3 DEF IInv, Reached, Walks, Frontier, Searching
<1>c. CASE v \notin seen /\ v # request.target
  <2>1. queue' = Append(queue, longer) /\ seen' = seen \cup {v} /\ route' = route /\ pc' = pc
    BY <1>c DEF Extend
  <2>2. /\ Append(queue, longer) \in Seq(Paths)
        /\ \A i \in DOMAIN queue : i \in DOMAIN queue' /\ queue'[i] = queue[i]
        /\ Len(queue) + 1 \in DOMAIN queue' /\ queue'[Len(queue) + 1] = longer
        /\ \A i \in DOMAIN queue' : i \in DOMAIN queue \/ i = Len(queue) + 1
    BY <1>2, <1>3, <2>1, AppendToQueue
  <2>3. TypeOK'
    BY <1>1, <2>1, <2>2 DEF IInv, TypeOK, Paths
  <2>4. Walks'
    <3>1. \A i \in DOMAIN queue' : IsWalk(queue'[i])
      BY <1>3, <1>5, <2>2
    <3>2. (\A i \in DOMAIN queue : IsWalk(queue[i]))' /\ IsWalk(path)'
      BY <1>1, <1>2, <3>1 DEF IsWalk, EdgesFor
    <3>3. (rest \subseteq Neighbours(Last(path)))'
      BY <1>1, <1>5 DEF Neighbours, EdgesFor
    <3> QED
      BY <3>2, <3>3 DEF Walks
  <2>5. Frontier'
    <3>1. \A w : Queued(w) => Queued(w)'
      BY <2>2 DEF Queued
    <3>2. Queued(v)'
      BY <1>3, <2>2 DEF Queued
    <3>3. \A w \in seen' : Neighbours(w) \subseteq seen' \/ Queued(w)' \/ w = Last(path)
      BY <1>5, <2>1, <3>1, <3>2
    <3>4. Neighbours(Last(path)) \subseteq seen' \cup rest'
      BY <1>1, <1>5, <2>1
    <3> QED
      BY <1>1, <2>1, <3>3, <3>4 DEF Frontier, Neighbours, EdgesFor
  <2> QED
    BY <1>1, <1>5, <1>c, <2>1, <2>3, <2>4, <2>5 DEF IInv, Reached, RouteIsSupported
<1> QED
  BY <1>a, <1>b, <1>c

LEMMA NextIInv ==
  ASSUME IInv, [Next]_vars
  PROVE  IInv'
<1>1. CASE Next
  BY <1>1, SameVersionIInv, StartIInv, PopFrontIInv, ExtendIInv, ExhaustedIInv, NoRouteIInv,
     PrecheckIInv DEF Next
<1>2. CASE UNCHANGED vars
  <2>1. TypeOK' /\ RouteIsSupported'
    BY <1>2 DEF vars, IInv, TypeOK, RouteIsSupported, IsWalk, Closed, Neighbours, EdgesFor
  <2>2. Reached' /\ Walks' /\ Frontier'
    BY <1>2 DEF vars, IInv, Reached, Walks, Frontier, Searching, Queued, IsWalk, Neighbours, EdgesFor
  <2> QED
    BY <2>1, <2>2 DEF IInv
<1> QED
  BY <1>1, <1>2

LEMMA InvariantHolds == Spec => []IInv
  BY InitIInv, NextIInv, PTL DEF Spec

\* Every variable has its type.
THEOREM TypeCorrect == Spec => []TypeOK
<1>1. IInv => TypeOK
  BY DEF IInv
<1> QED
  BY <1>1, InvariantHolds, PTL

\* The search is right about every file and every request: a route it answers is supported from
\* end to end, and when it answers none there is none.
THEOREM RouteSupported == Spec => []RouteIsSupported
<1>1. IInv => RouteIsSupported
  BY DEF IInv
<1> QED
  BY <1>1, InvariantHolds, PTL

---------------------------------------------------------------------------
(* The route is shortest. The search goes by layers: the queue is in the   *)
(* order of the lengths of its paths, which differ by one at most; what a  *)
(* path in the queue has reached, no shorter walk reaches; and what a walk *)
(* as short as the present path reaches has been seen.                     *)

Ordered ==
    /\ Searching => \A i, j \in DOMAIN queue : i <= j =>
           Len(queue[i]) <= Len(queue[j]) /\ Len(queue[j]) <= Len(queue[i]) + 1
    /\ pc = "extend" => \A i \in DOMAIN queue :
           Len(path) <= Len(queue[i]) /\ Len(queue[i]) <= Len(path) + 1

Nearest ==
    Searching => \A i \in DOMAIN queue : ~WalkTo(Last(queue[i]), Len(queue[i]) - 1)

Covered ==
    /\ pc = "search" /\ queue # <<>> => \A v \in Versions : WalkTo(v, Len(queue[1])) => v \in seen
    /\ pc = "extend" => \A v \in Versions : WalkTo(v, Len(path)) => v \in seen

Layers == Ordered /\ Nearest /\ Covered /\ RouteIsShortest

LEMMA WalksStay ==
  ASSUME table' = table, request' = request
  PROVE  \A v, n : WalkTo(v, n)' <=> WalkTo(v, n)
  BY DEF WalkTo, IsWalk, Last, EdgesFor

LEMMA WalkOfOne ==
  ASSUME NEW v, WalkTo(v, 1)
  PROVE  v = request.source
<1>1. PICK k \in 1..1 : \E p \in [1..k -> Versions] : IsWalk(p) /\ Last(p) = v
  BY DEF WalkTo
<1>2. k = 1
  BY <1>1
<1>3. PICK p \in [1..1 -> Versions] : IsWalk(p) /\ Last(p) = v
  BY <1>1, <1>2
<1>4. Len(p) = 1
  BY <1>3
<1> QED
  BY <1>3, <1>4 DEF IsWalk, Last

LEMMA WalkLonger ==
  ASSUME NEW v, NEW m \in Int, NEW n \in Int, m <= n, WalkTo(v, m)
  PROVE  WalkTo(v, n)
<1>1. PICK k \in 1..m : \E p \in [1..k -> Versions] : IsWalk(p) /\ Last(p) = v
  BY DEF WalkTo
<1>2. k \in 1..n
  BY <1>1
<1> QED
  BY <1>1, <1>2 DEF WalkTo

\* A walk that is not shorter comes by its last stop but one.
LEMMA WalkByAnother ==
  ASSUME TypeOK, NEW v, NEW n \in Nat \ {0}, WalkTo(v, n + 1), ~WalkTo(v, n)
  PROVE  \E u \in Versions : WalkTo(u, n) /\ v \in Neighbours(u)
<1>1. PICK k \in 1..(n + 1) : \E p \in [1..k -> Versions] : IsWalk(p) /\ Last(p) = v
  BY DEF WalkTo
<1>2. PICK p \in [1..k -> Versions] : IsWalk(p) /\ Last(p) = v
  BY <1>1
<1>3. k = n + 1
  <2>1. k \notin 1..n
    BY <1>2 DEF WalkTo
  <2> QED
    BY <2>1
<1> DEFINE front == [i \in 1..n |-> p[i]]
<1>4. Len(p) = n + 1 /\ p \in Seq(Versions)
  BY <1>3
<1>5. front \in [1..n -> Versions] /\ Len(front) = n /\ front # <<>> /\ front \in Seq(Versions)
  BY <1>3
<1>6. \A i \in 1..n : front[i] = p[i]
  OBVIOUS
<1> HIDE DEF front
<1>7. IsWalk(front)
  <2>1. front[1] = request.source
    BY <1>2, <1>6 DEF IsWalk
  <2>2. ASSUME NEW i \in 1..(n - 1)
        PROVE  <<front[i], front[i + 1]>> \in EdgesFor(request.deployment)
    <3>1. i \in 1..n /\ i + 1 \in 1..n /\ i \in 1..(Len(p) - 1)
      BY <1>4
    <3>2. <<p[i], p[i + 1]>> \in EdgesFor(request.deployment)
      BY <1>2, <3>1 DEF IsWalk
    <3> QED
      BY <1>6, <3>1, <3>2
  <2> QED
    BY <1>5, <2>1, <2>2 DEF IsWalk
<1> DEFINE u == p[n]
<1>8. u \in Versions /\ Last(front) = u
  BY <1>3, <1>5, <1>6 DEF Last
<1>9. <<u, v>> \in EdgesFor(request.deployment)
  <2>1. n \in 1..(Len(p) - 1)
    BY <1>4
  <2>2. <<p[n], p[n + 1]>> \in EdgesFor(request.deployment)
    BY <1>2, <2>1 DEF IsWalk
  <2>3. p[n + 1] = v
    BY <1>2, <1>4 DEF Last
  <2> QED
    BY <2>2, <2>3
<1>10. v \in Neighbours(u)
  <2>1. <<u, v>>[1] = u /\ <<u, v>>[2] = v
    OBVIOUS
  <2> QED
    BY <1>9, <2>1 DEF Neighbours
<1>11. WalkTo(u, n)
  <2>1. n \in 1..n
    OBVIOUS
  <2> QED
    BY <1>5, <1>7, <1>8, <2>1 DEF WalkTo
<1> QED
  BY <1>8, <1>10, <1>11

LEMMA InitLayers == Init => Layers
  BY DEF Init, Layers, Ordered, Nearest, Covered, Searching, RouteIsShortest

LEMMA SameVersionLayers ==
  ASSUME IInv, SameVersion
  PROVE  Layers'
<1>1. Len(route') - 1 = 0 /\ pc' = "found"
  BY DEF SameVersion
<1>2. RouteIsShortest'
  <2>1. ~WalkTo(request.target, 0)
    BY DEF WalkTo
  <2> QED
    BY <1>1, <2>1, WalksStay DEF RouteIsShortest, SameVersion, files
<1> QED
  BY <1>1, <1>2 DEF Layers, Ordered, Nearest, Covered, Searching

LEMMA StartLayers ==
  ASSUME IInv, Start
  PROVE  Layers'
<1> DEFINE first == <<request.source>>
<1>1. queue' = <<first>> /\ seen' = {request.source} /\ pc' = "search"
      /\ request' = request /\ table' = table
  BY DEF Start, files
<1>2. DOMAIN queue' = {1} /\ queue'[1] = first /\ Len(first) = 1
  BY <1>1
<1>3. \A v, n : WalkTo(v, n)' <=> WalkTo(v, n)
  BY <1>1, WalksStay
<1>4. Ordered'
  BY <1>1, <1>2 DEF Ordered
<1>5. Nearest'
  BY <1>1, <1>2 DEF Nearest, WalkTo
<1>6. Covered'
  <2>1. \A v : WalkTo(v, 1) => v \in seen'
    BY <1>1, WalkOfOne
  <2> QED
    BY <1>1, <1>2, <1>3, <2>1 DEF Covered
<1> QED
  BY <1>1, <1>4, <1>5, <1>6 DEF Layers, RouteIsShortest

LEMMA PopFrontLayers ==
  ASSUME IInv, Layers, PopFront
  PROVE  Layers'
<1>1. /\ path' = Head(queue) /\ queue' = Tail(queue)
      /\ pc = "search" /\ pc' = "extend" /\ queue # <<>>
      /\ seen' = seen /\ table' = table /\ request' = request
  BY DEF PopFront, files
<1>2. queue \in Seq(Paths)
  BY DEF IInv, TypeOK, Paths
<1>3. /\ Head(queue) = queue[1] /\ 1 \in DOMAIN queue
      /\ \A i \in DOMAIN queue' : i + 1 \in DOMAIN queue /\ queue'[i] = queue[i + 1]
  BY <1>1, <1>2, HeadAndTail
<1>4. \A v, n : WalkTo(v, n)' <=> WalkTo(v, n)
  BY <1>1, WalksStay
<1>5. DOMAIN queue \subseteq Nat /\ \A i \in DOMAIN queue : 1 <= i
  BY <1>2
<1>6. \A i, j \in DOMAIN queue : i <= j =>
          Len(queue[i]) <= Len(queue[j]) /\ Len(queue[j]) <= Len(queue[i]) + 1
  BY <1>1 DEF Layers, Ordered, Searching
<1>7. Ordered'
  <2>1. ASSUME NEW i \in DOMAIN queue', NEW j \in DOMAIN queue', i <= j
        PROVE  Len(queue'[i]) <= Len(queue'[j]) /\ Len(queue'[j]) <= Len(queue'[i]) + 1
    <3>1. DOMAIN queue' \subseteq Nat
      BY <1>1, <1>2
    <3>2. i + 1 <= j + 1
      BY <2>1, <3>1
    <3> QED
      BY <1>3, <1>6, <3>2
  <2>2. ASSUME NEW i \in DOMAIN queue'
        PROVE  Len(path') <= Len(queue'[i]) /\ Len(queue'[i]) <= Len(path') + 1
    BY <1>1, <1>3, <1>5, <1>6
  <2> QED
    BY <2>1, <2>2 DEF Ordered
<1>8. Nearest'
  <2>1. \A i \in DOMAIN queue : ~WalkTo(Last(queue[i]), Len(queue[i]) - 1)
    BY <1>1 DEF Layers, Nearest, Searching
  <2>2. \A i \in DOMAIN queue' : ~WalkTo(Last(queue'[i]), Len(queue'[i]) - 1)
    BY <1>3, <2>1
  <2>3. \A i \in DOMAIN queue' : Last(queue[i])' = Last(queue'[i])
    BY DEF Last
  <2> QED
    BY <1>4, <2>2, <2>3 DEF Nearest
<1>9. Covered'
  BY <1>1, <1>3, <1>4 DEF Layers, Covered
<1> QED
  BY <1>1, <1>7, <1>8, <1>9 DEF Layers, RouteIsShortest

\* When the present path is done with and the next one is longer, the versions of the layer of
\* the present path are all done with: none of them ends a path in the queue.
LEMMA ExhaustedLayers ==
  ASSUME IInv, Layers, Exhausted
  PROVE  Layers'
<1>1. /\ pc = "extend" /\ pc' = "search" /\ rest = {}
      /\ queue' = queue /\ seen' = seen /\ table' = table /\ request' = request
  BY DEF Exhausted, files
<1>2. queue \in Seq(Paths) /\ path \in Seq(Versions) /\ path # <<>>
  BY <1>1 DEF IInv, TypeOK, Walks, IsWalk, Paths
<1>3. \A v, n : WalkTo(v, n)' <=> WalkTo(v, n)
  BY <1>1, WalksStay
<1>4. Ordered'
  BY <1>1 DEF Layers, Ordered, Searching
<1>5. Nearest'
  BY <1>1, <1>3 DEF Layers, Nearest, Searching, Last
<1>6. ASSUME queue # <<>>, NEW v \in Versions, WalkTo(v, Len(queue[1]))
      PROVE  v \in seen
  <2>1. /\ \A w \in Versions : WalkTo(w, Len(path)) => w \in seen
        /\ \A i \in DOMAIN queue : Len(path) <= Len(queue[i]) /\ Len(queue[i]) <= Len(path) + 1
        /\ \A i \in DOMAIN queue : ~WalkTo(Last(queue[i]), Len(queue[i]) - 1)
        /\ \A i, j \in DOMAIN queue : i <= j =>
               Len(queue[i]) <= Len(queue[j]) /\ Len(queue[j]) <= Len(queue[i]) + 1
    BY <1>1 DEF Layers, Covered, Ordered, Nearest, Searching
  <2>2. /\ Len(path) \in Nat \ {0} /\ 1 \in DOMAIN queue /\ Len(queue[1]) \in Nat
        /\ DOMAIN queue \subseteq Nat /\ \A i \in DOMAIN queue : 1 <= i /\ Len(queue[i]) \in Nat
    BY <1>2, <1>6 DEF Paths
  <2>a. CASE WalkTo(v, Len(path))
    BY <2>a, <2>1
  <2>b. CASE ~WalkTo(v, Len(path))
    <3>1. Len(queue[1]) = Len(path) + 1
      BY <1>6, <2>1, <2>2, <2>b
    <3>2. PICK u \in Versions : WalkTo(u, Len(path)) /\ v \in Neighbours(u)
      BY <1>6, <2>2, <2>b, <3>1, WalkByAnother DEF IInv
    <3>3. u \in seen
      BY <2>1, <3>2
    <3>4. ~Queued(u)
      <4>1. SUFFICES ASSUME NEW i \in DOMAIN queue, Last(queue[i]) = u PROVE FALSE
        BY DEF Queued
      <4>2. Len(path) <= Len(queue[i]) - 1
        BY <2>1, <2>2, <3>1
      <4>3. WalkTo(u, Len(queue[i]) - 1)
        BY <2>2, <3>2, <4>2, WalkLonger
      <4> QED
        BY <2>1, <4>1, <4>3
    <3>5. Neighbours(u) \subseteq seen
      BY <1>1, <3>3, <3>4 DEF IInv, Frontier, Searching
    <3> QED
      BY <3>2, <3>5
  <2> QED
    BY <2>a, <2>b
<1>7. Covered'
  BY <1>1, <1>3, <1>6 DEF Covered
<1> QED
  BY <1>1, <1>4, <1>5, <1>7 DEF Layers, RouteIsShortest

LEMMA ExtendLayers ==
  ASSUME IInv, Layers, NEW v \in Versions, Extend(v)
  PROVE  Layers'
<1>1. pc = "extend" /\ path' = path /\ table' = table /\ request' = request
  BY DEF Extend, files
<1>2. path \in Seq(Versions) /\ path # <<>> /\ queue \in Seq(Paths) /\ request.target \notin seen
      /\ request.target \in Versions
  BY <1>1 DEF IInv, TypeOK, Walks, IsWalk, Paths, Reached, Searching
<1> DEFINE longer == Append(path, v)
<1>3. longer \in Paths /\ Len(longer) = Len(path) + 1 /\ Last(longer) = v /\ Len(path) \in Nat \ {0}
  BY <1>2 DEF Paths, Last
<1>4. \A w, n : WalkTo(w, n)' <=> WalkTo(w, n)
  BY <1>1, WalksStay
<1>5. /\ \A w \in Versions : WalkTo(w, Len(path)) => w \in seen
      /\ \A i \in DOMAIN queue : Len(path) <= Len(queue[i]) /\ Len(queue[i]) <= Len(path) + 1
      /\ \A i \in DOMAIN queue : ~WalkTo(Last(queue[i]), Len(queue[i]) - 1)
      /\ \A i, j \in DOMAIN queue : i <= j =>
             Len(queue[i]) <= Len(queue[j]) /\ Len(queue[j]) <= Len(queue[i]) + 1
  BY <1>1 DEF Layers, Covered, Ordered, Nearest, Searching
<1> HIDE DEF longer
<1>a. CASE v \in seen
  <2>1. queue' = queue /\ seen' = seen /\ pc' = pc
    BY <1>a DEF Extend
  <2>2. Ordered' /\ Covered'
    BY <1>1, <1>4, <1>5, <2>1 DEF Ordered, Covered
  <2>3. Nearest'
    BY <1>1, <1>4, <1>5, <2>1 DEF Nearest, Last
  <2> QED
    BY <1>1, <2>1, <2>2, <2>3 DEF Layers, RouteIsShortest
<1>b. CASE v \notin seen /\ v = request.target
  <2>1. route' = longer /\ pc' = "found"
    BY <1>b DEF Extend, longer
  <2>2. Len(route') - 1 = Len(path)
    BY <1>3, <2>1
  <2>3. ~WalkTo(request.target, Len(path))
    BY <1>2, <1>5
  <2>4. RouteIsShortest'
    BY <1>1, <1>4, <2>2, <2>3 DEF RouteIsShortest
  <2> QED
    BY <2>1, <2>4 DEF Layers, Ordered, Nearest, Covered, Searching
<1>c. CASE v \notin seen /\ v # request.target
  <2>1. queue' = Append(queue, longer) /\ seen' = seen \cup {v} /\ pc' = pc
    BY <1>c DEF Extend, longer
  <2>2. /\ \A i \in DOMAIN queue : i \in DOMAIN queue' /\ queue'[i] = queue[i]
        /\ Len(queue) + 1 \in DOMAIN queue' /\ queue'[Len(queue) + 1] = longer
        /\ \A i \in DOMAIN queue' : i \in DOMAIN queue \/ i = Len(queue) + 1
    BY <1>2, <1>3, <2>1, AppendToQueue
  <2>3. /\ DOMAIN queue \subseteq Nat /\ \A i \in DOMAIN queue : i < Len(queue) + 1
        /\ \A i \in DOMAIN queue : Len(queue[i]) \in Nat
    BY <1>2 DEF Paths
  <2>4. Ordered'
    <3>1. ASSUME NEW i \in DOMAIN queue', NEW j \in DOMAIN queue', i <= j
          PROVE  Len(queue'[i]) <= Len(queue'[j]) /\ Len(queue'[j]) <= Len(queue'[i]) + 1
      <4>a. CASE i \in DOMAIN queue /\ j \in DOMAIN queue
        BY <1>5, <2>2, <3>1, <4>a
      <4>b. CASE i \in DOMAIN queue /\ j = Len(queue) + 1
        BY <1>3, <1>5, <2>2, <2>3, <4>b
      <4>c. CASE i = Len(queue) + 1 /\ j = Len(queue) + 1
        BY <1>3, <2>2, <4>c
      <4>d. CASE i = Len(queue) + 1 /\ j \in DOMAIN queue
        BY <1>2, <2>3, <3>1, <4>d
      <4> QED
        BY <2>2, <4>a, <4>b, <4>c, <4>d
    <3>2. ASSUME NEW i \in DOMAIN queue'
          PROVE  Len(path') <= Len(queue'[i]) /\ Len(queue'[i]) <= Len(path') + 1
      BY <1>1, <1>3, <1>5, <2>2
    <3> QED
      BY <3>1, <3>2 DEF Ordered
  <2>5. Nearest'
    <3>1. ~WalkTo(Last(longer), Len(longer) - 1)
      BY <1>3, <1>5, <1>c
    <3>2. ASSUME NEW i \in DOMAIN queue'
          PROVE  ~WalkTo(Last(queue'[i]), Len(queue'[i]) - 1)
      BY <1>5, <2>2, <3>1
    <3>3. \A i \in DOMAIN queue' : Last(queue[i])' = Last(queue'[i])
      BY DEF Last
    <3> QED
      BY <1>4, <3>2, <3>3 DEF Nearest
  <2>6. Covered'
    BY <1>1, <1>4, <1>5, <2>1 DEF Covered
  <2> QED
    BY <1>1, <2>1, <2>4, <2>5, <2>6 DEF Layers, RouteIsShortest
<1> QED
  BY <1>a, <1>b, <1>c

LEMMA NextLayers ==
  ASSUME IInv, Layers, [Next]_vars
  PROVE  Layers'
<1>1. CASE NoRoute
  <2>1. pc' = "none"
    BY <1>1 DEF NoRoute
  <2> QED
    BY <2>1 DEF Layers, Ordered, Nearest, Covered, Searching, RouteIsShortest
<1>2. CASE Precheck
  <2>1. /\ (pc = "found" /\ pc' = "prechecked") \/ (pc = "none" /\ pc' = "refused")
        /\ table' = table /\ request' = request /\ route' = route
    BY <1>2 DEF Precheck, files
  <2>2. RouteIsShortest'
    BY <2>1, WalksStay DEF Layers, RouteIsShortest
  <2> QED
    BY <2>1, <2>2 DEF Layers, Ordered, Nearest, Covered, Searching
<1>3. CASE UNCHANGED vars
  <2>1. UNCHANGED <<table, request, queue, seen, path, route, pc>>
    BY <1>3 DEF vars
  <2>2. \A v, n : WalkTo(v, n)' <=> WalkTo(v, n)
    BY <2>1, WalksStay
  <2>3. Ordered' /\ Covered' /\ RouteIsShortest'
    BY <2>1, <2>2 DEF Layers, Ordered, Covered, RouteIsShortest, Searching
  <2>4. Nearest'
    BY <2>1, <2>2 DEF Layers, Nearest, Searching, Last
  <2> QED
    BY <2>3, <2>4 DEF Layers
<1> QED
  BY <1>1, <1>2, <1>3, SameVersionLayers, StartLayers, PopFrontLayers, ExtendLayers,
     ExhaustedLayers DEF Next

\* The route the search answers is a shortest one, for every file and every request: a
\* breadth-first search that skips what was seen never takes a longer way.
THEOREM RouteShortest == Spec => []RouteIsShortest
<1>1. Init => Layers
  BY InitLayers
<1>2. IInv /\ Layers /\ [Next]_vars => Layers'
  BY NextLayers
<1>3. Layers => RouteIsShortest
  BY DEF Layers
<1> QED
  BY <1>1, <1>2, <1>3, InvariantHolds, PTL DEF Spec
=============================================================================
