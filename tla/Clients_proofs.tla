--------------------------- MODULE Clients_proofs ---------------------------
(***************************************************************************)
(* Proofs about the two clients of a remote service, McpSession and        *)
(* ServerApi. They share nothing, their theorems only a module.            *)
(*                                                                         *)
(* A session numbers its requests, and a message that bears the number the *)
(* client waits for is the one it waits for (IdsOK), whatever else the     *)
(* server writes; what looks like an answer was read by the server         *)
(* (AnswersOK). So a completed call was performed, and a page is the one   *)
(* that was asked for: the pages so far begin every inventory the limits   *)
(* admit (Agrees).                                                         *)
(***************************************************************************)
EXTENDS McpSession, ServerApi, TLAPS

---------------------------------------------------------------------------
(* The invariant of a session *)

\* The child lives with the session of a stdio server and never longer.
ChildOK ==
    /\ At("start") \/ ~Stdio => child = "none"
    /\ At("done") => child \in {"none", "reaped"}

\* Which steps a session takes, and with which method.
PlaceOK ==
    /\ c.method \in {"initialize", "notifications/initialized", cmd.kind}
    /\ At("writing") \/ At("await") => Stdio /\ IsRequest
    /\ At("posting") \/ At("body") => ~Stdio
    /\ At("writing") => c.method = "tools/call"
    /\ c.result = None <=> ~At("done")
    /\ At("start") => c.method = "initialize"

\* The message of the step has its number.
IsNumbered == IsRequest /\ ~At("start") /\ ~At("request")

\* Requests are numbered in their order: the handshake, then the pages or the call.
NumberingOK ==
    /\ c.id < c.next_id
    /\ ~At("done") =>
           c.next_id = (IF c.method = "initialize" THEN 1 ELSE 2 + Len(c.pages))
                       + (IF IsNumbered THEN 1 ELSE 0)
    /\ ~At("done") /\ IsNumbered => c.id + 1 = c.next_id

\* All messages of the client bear the session that the server knows.
SessionOK == c.session = server.session /\ \A i \in DOMAIN inp : inp[i].session = c.session

\* The client waits for the response to this message.
Waits == IsRequest /\ (At("await") \/ At("posting") \/ At("body"))
IsCurrent(m) == m.method = c.method /\ (c.method = "tools/list" => m.page = c.cursor)

\* A message that was sent: its number is an earlier one, or the one the client waits for.
SentOK(m) ==
    /\ m.id < c.next_id
    /\ m.method = "tools/call" => m.id > 0
    /\ At("writing") => m.id < c.id
    /\ Waits /\ m.id = c.id => IsCurrent(m)

IdsOK ==
    /\ \A i \in DOMAIN inp : SentOK(inp[i])
    /\ \A m \in server.got : m.id > 0 /\ SentOK(m)

IsCall(m) == m.method = "tools/call"

\* At most one call is under way or performed, the one the client waits for or has waited for.
CallsOK ==
    /\ server.calls <= 1
    /\ cmd.kind = "tools/call" /\ ~At("start") /\ ~At("done") => cmd.apply /\ cmd.consent
    /\ \A i \in DOMAIN inp : IsCall(inp[i]) =>
           /\ server.calls = 0
           /\ \A j \in DOMAIN inp : IsCall(inp[j]) => j = i
    /\ server.calls = 1 \/ (\E i \in DOMAIN inp : IsCall(inp[i])) =>
           /\ cmd.apply /\ cmd.consent /\ c.method = "tools/call"
           /\ ~At("start") /\ ~At("request") /\ ~At("writing")
    /\ \A m \in server.got : IsCall(m) => server.calls = 1

\* The notification is read before the call.
Told == server.ready \/ \E i \in DOMAIN inp : inp[i].id = 0
ReadyOK ==
    /\ c.method \in {"tools/list", "tools/call"} => Told
    /\ c.method = "notifications/initialized" /\ (At("posting") \/ At("body")) => Told
    /\ \A j \in DOMAIN inp : IsCall(inp[j]) =>
           server.ready \/ \E i \in DOMAIN inp : i < j /\ inp[i].id = 0
    /\ server.calls = 1 => server.ready
    /\ ~Stdio /\ (At("start") \/ At("request") \/ At("body")) => inp = <<>>

\* What has the shape of an answer is one to a message that the server has read.
Backed(line) ==
    line.kind = "answer" =>
        \E m \in server.got : m.id = line.id /\ m.method = line.method /\ m.page = line.page
AnswersOK == \A i \in DOMAIN out : Backed(out[i])

CallDone == cmd.kind = "tools/call" /\ c.result = "ok" => server.calls = 1

\* The pages read so far, and how many tools are on them.
Chained ==
    /\ c.pages # <<>> => c.pages[1] = None
    /\ \A i \in 1..(Len(c.pages) - 1) :
           c.pages[i + 1] = server.next[c.pages[i]] /\ c.pages[i + 1] # None
    /\ c.cursor = IF c.pages = <<>> THEN None ELSE server.next[c.pages[Len(c.pages)]]
Totals(total) ==
    /\ total[0] = 0 /\ total[Len(c.pages)] = c.tools
    /\ \A i \in 1..Len(c.pages) : total[i] = total[i - 1] + server.size[c.pages[i]]
Counted == \E total \in [0..Len(c.pages) -> 0..MaxTools] : Totals(total)

\* Whatever inventory the limits admit begins with the pages read so far.
Begins(n, pages, tools) ==
    /\ Len(c.pages) <= n
    /\ \A i \in 1..Len(c.pages) : pages[i] = c.pages[i]
    /\ tools[Len(c.pages)] = c.tools
Agrees ==
    \A n \in 1..MaxPages :
        \A pages \in [1..n -> Pages], tools \in [0..n -> 0..MaxTools] :
            Inventory(n, pages, tools) => Begins(n, pages, tools)

PagesOK ==
    /\ c.method # "tools/list" => c.pages = <<>>
    /\ ~At("done") => Len(c.pages) < MaxPages /\ (c.pages # <<>> => c.cursor # None)
    /\ Chained /\ Counted /\ Agrees

IInv ==
    /\ TypeOK /\ ChildOK /\ PlaceOK /\ NumberingOK /\ SessionOK /\ IdsOK /\ CallsOK /\ ReadyOK
    /\ AnswersOK /\ CallDone /\ PagesOK /\ ListIsWhole

---------------------------------------------------------------------------
(* Sequences *)

LEMMA Appended ==
  ASSUME NEW S, NEW q \in Seq(S), NEW e \in S
  PROVE  /\ Append(q, e) \in Seq(S)
         /\ Len(q) \in Nat /\ Len(Append(q, e)) = Len(q) + 1
         /\ DOMAIN q = 1..Len(q) /\ DOMAIN Append(q, e) = 1..(Len(q) + 1)
         /\ \A i \in 1..Len(q) : Append(q, e)[i] = q[i]
         /\ Append(q, e)[Len(q) + 1] = e
  OBVIOUS

LEMMA TailOf ==
  ASSUME NEW S, NEW q \in Seq(S), q # <<>>
  PROVE  /\ Tail(q) \in Seq(S) /\ Head(q) \in S /\ Head(q) = q[1]
         /\ Len(q) \in Nat \ {0} /\ Len(Tail(q)) = Len(q) - 1
         /\ DOMAIN q = 1..Len(q) /\ DOMAIN Tail(q) = 1..(Len(q) - 1)
         /\ \A i \in 1..(Len(q) - 1) : Tail(q)[i] = q[i + 1]
  OBVIOUS

---------------------------------------------------------------------------
(* The server's inventory stays what it is *)

LEMMA InventoryKept ==
  ASSUME server'.next = server.next, server'.size = server.size
  PROVE  /\ \A n, pages, tools : Inventory(n, pages, tools)' <=> Inventory(n, pages, tools)
         /\ Fits' <=> Fits
<1>1. \A n, pages, tools : Inventory(n, pages, tools)' <=> Inventory(n, pages, tools)
  BY DEF Inventory
<1> QED
  BY <1>1 DEF Fits

\* The pages stay, and the session may end.
LEMMA PagesKept ==
  ASSUME PagesOK, server'.next = server.next, server'.size = server.size,
         c'.pages = c.pages, c'.tools = c.tools, c'.cursor = c.cursor,
         c'.method # "tools/list" => c.pages = <<>>, c'.pc # "done" => c.pc # "done"
  PROVE  PagesOK'
<1>1. Chained'
  BY DEF PagesOK, Chained
<1>2. Counted'
  BY DEF PagesOK, Counted, Totals
<1>3. Agrees'
  BY InventoryKept DEF PagesOK, Agrees, Begins
<1> QED
  BY <1>1, <1>2, <1>3 DEF PagesOK, At

LEMMA WholeKept ==
  ASSUME ListIsWhole, server'.next = server.next, server'.size = server.size, cmd' = cmd,
         c'.pages = c.pages,
         c'.result # c.result => /\ c'.result = "ok" => cmd.kind # "tools/list"
                                 /\ c'.result = "limit" => ~Fits
  PROVE  ListIsWhole'
  BY InventoryKept DEF ListIsWhole

---------------------------------------------------------------------------
(* The client *)

LEMMA InitIInv == Init => IInv
<1> SUFFICES ASSUME Init PROVE IInv
  OBVIOUS
<1>1. TypeOK
  BY LimitsOK DEF Init, TypeOK, Commands, Client, Methods, Pages, MaxId, Sessions, Server,
     Messages, Lines
<1>2. /\ ChildOK /\ PlaceOK /\ NumberingOK /\ SessionOK /\ IdsOK /\ CallsOK /\ ReadyOK
      /\ AnswersOK /\ CallDone
  BY NoneIsNoResult DEF Init, ChildOK, PlaceOK, NumberingOK, SessionOK, IdsOK, CallsOK,
     ReadyOK, AnswersOK,
     CallDone, At, IsNumbered, IsRequest, Results
<1>3. PagesOK
  <2>1. c.pages = <<>> /\ c.tools = 0 /\ c.cursor = None /\ Len(c.pages) = 0
    BY DEF Init
  <2>2. Counted
    <3>1. [i \in 0..0 |-> 0] \in [0..Len(c.pages) -> 0..MaxTools]
      BY <2>1, LimitsOK
    <3>2. Totals([i \in 0..0 |-> 0])
      BY <2>1 DEF Totals
    <3> QED
      BY <3>1, <3>2 DEF Counted
  <2>3. Agrees
    BY <2>1 DEF Agrees, Begins, Inventory
  <2> QED
    BY <2>1, <2>2, <2>3, LimitsOK DEF PagesOK, Chained
<1>4. ListIsWhole
  BY NoneIsNoResult DEF Init, ListIsWhole, Results
<1> QED
  BY <1>1, <1>2, <1>3, <1>4 DEF IInv

\* A command that returns.
LEMMA ReturnIInv ==
  ASSUME IInv, NEW r \in Results, c' = Returned(r), UNCHANGED <<cmd, inp, server>>,
         child' \in {"none", "reaped"}, ~Stdio => child' = "none",
         out' \in Seq(Lines), AnswersOK',
         r = "ok" => cmd.kind = "tools/call" /\ server.calls = 1, r = "limit" => ~Fits
  PROVE  IInv'
<1>1. /\ c' \in Client /\ c'.pc = "done" /\ c'.result = r
      /\ c'.method = c.method /\ c'.id = c.id /\ c'.next_id = c.next_id
      /\ c'.cursor = c.cursor /\ c'.pages = c.pages /\ c'.tools = c.tools
      /\ c'.session = c.session
  BY DEF IInv, TypeOK, Client, Returned
<1>2. TypeOK'
  BY <1>1 DEF IInv, TypeOK
<1>3. ChildOK' /\ PlaceOK'
  BY <1>1, NoneIsNoResult DEF IInv, ChildOK, PlaceOK, At, Stdio, IsRequest
<1>4. NumberingOK' /\ SessionOK'
  BY <1>1 DEF IInv, NumberingOK, SessionOK, At
<1>5. IdsOK'
  BY <1>1 DEF IInv, IdsOK, SentOK, Waits, At
<1>6. CallsOK'
  BY <1>1 DEF IInv, CallsOK, IsCall, At
<1>7. ReadyOK'
  BY <1>1 DEF IInv, ReadyOK, Told, IsCall, At, Stdio
<1>8. CallDone'
  BY <1>1 DEF IInv, CallDone
<1>9. PagesOK'
  BY <1>1, PagesKept DEF IInv, PagesOK
<1>10. ListIsWhole'
  BY <1>1, WholeKept DEF IInv
<1> QED
  BY <1>2, <1>3, <1>4, <1>5, <1>6, <1>7, <1>8, <1>9, <1>10 DEF IInv

LEMMA DroppedOK ==
  ASSUME IInv
  PROVE  Dropped \in {"none", "reaped"} /\ (~Stdio => Dropped = "none")
  BY DEF IInv, ChildOK, Dropped

\* It returns an error.
LEMMA ErrorIInv ==
  ASSUME IInv, Becomes(Returned("error")), UNCHANGED <<cmd, inp, server>>,
         out' \in Seq(Lines), AnswersOK'
  PROVE  IInv'
<1>1. c' = Returned("error") /\ "error" \in Results /\ Returned("error").pc = "done"
  BY DEF Becomes, Returned, Results, IInv, TypeOK, Client
<1>2. child' = Dropped
  BY <1>1 DEF Becomes
<1> QED
  BY <1>1, <1>2, DroppedOK, ReturnIInv

LEMMA AnswersKept ==
  ASSUME AnswersOK, out' = out, server' = server
  PROVE  AnswersOK'
  BY DEF AnswersOK, Backed

LEMMA StartIInv ==
  ASSUME IInv, Start
  PROVE  IInv'
<1> UNCHANGED <<cmd, inp, out, server>> /\ At("start") /\ child = "none"
  BY DEF Start, IInv, ChildOK
<1>1. AnswersOK' /\ out' \in Seq(Lines)
  BY AnswersKept DEF IInv, TypeOK
<1>2. CASE c' = Returned("not_sent") /\ UNCHANGED child
  BY <1>1, <1>2, ReturnIInv DEF Results
<1>3. CASE c' = Returned("error") /\ child' \in IF Stdio THEN {"none", "reaped"} ELSE {child}
  BY <1>1, <1>3, ReturnIInv DEF Results
<1>4. CASE /\ ~Withheld
           /\ c' = [c EXCEPT !.pc = "request"]
           /\ child' = IF Stdio THEN "running" ELSE child
  <2>1. /\ c' \in Client /\ c.pc = "start" /\ c'.pc = "request" /\ c'.result = c.result
        /\ c'.method = c.method /\ c'.id = c.id /\ c'.next_id = c.next_id
        /\ c'.cursor = c.cursor /\ c'.pages = c.pages /\ c'.tools = c.tools
        /\ c'.session = c.session /\ c.method = "initialize"
    BY <1>4 DEF IInv, TypeOK, Client, At, PlaceOK
  <2>2. TypeOK'
    BY <1>4, <2>1 DEF IInv, TypeOK
  <2>3. ChildOK' /\ PlaceOK'
    BY <1>4, <2>1 DEF IInv, ChildOK, PlaceOK, At, Stdio, IsRequest
  <2>4. NumberingOK' /\ SessionOK'
    BY <2>1 DEF IInv, NumberingOK, IsNumbered, SessionOK, At, IsRequest
  <2>5. IdsOK'
    BY <2>1 DEF IInv, IdsOK, SentOK, Waits, At
  <2>6. CallsOK'
    BY <1>4, <2>1 DEF IInv, CallsOK, IsCall, At, Withheld
  <2>7. ReadyOK'
    BY <2>1 DEF IInv, ReadyOK, Told, IsCall, At, Stdio
  <2>8. CallDone'
    BY <2>1 DEF IInv, CallDone
  <2>9. PagesOK'
    BY <2>1, PagesKept DEF IInv, PagesOK
  <2>10. ListIsWhole'
    BY <2>1, WholeKept DEF IInv
  <2> QED
    BY <1>1, <2>2, <2>3, <2>4, <2>5, <2>6, <2>7, <2>8, <2>9, <2>10 DEF IInv
<1> QED
  BY <1>2, <1>3, <1>4 DEF Start

\* What a session about to send makes of its message.
LEMMA MessageOK ==
  ASSUME IInv, At("request")
  PROVE  /\ Message \in Messages /\ Message.method = c.method /\ Message.session = c.session
         /\ IsRequest => c.next_id \in 1..MaxId /\ Message.id = c.next_id
         /\ ~IsRequest => Message.id = 0
         /\ c.method = "tools/list" => Message.page = c.cursor
<1>1. /\ c.method \in Methods /\ c.session \in Sessions /\ c.cursor \in Pages /\ None \in Pages
      /\ c.next_id \in 1..(MaxId + 1) /\ Len(c.pages) \in Nat /\ MaxId = MaxPages + 1
      /\ MaxPages \in Nat \ {0}
  BY LimitsOK DEF IInv, TypeOK, Client, Pages, MaxId
<1>2. IsRequest => c.next_id \in 1..MaxId
  <2>1. c.pc = "request"
    BY DEF At
  <2>2. c.next_id = IF c.method = "initialize" THEN 1 ELSE 2 + Len(c.pages)
    BY <1>1, <2>1 DEF IInv, NumberingOK, IsNumbered, At
  <2>3. Len(c.pages) < MaxPages
    BY <2>1 DEF IInv, PagesOK, At
  <2> QED
    BY <1>1, <2>2, <2>3
<1>3. (IF IsRequest THEN c.next_id ELSE 0) \in 0..MaxId
  BY <1>1, <1>2
<1>4. (IF c.method = "tools/list" THEN c.cursor ELSE None) \in Pages
  BY <1>1
<1> QED
  BY <1>1, <1>2, <1>3, <1>4 DEF Message, Messages

LEMMA NumberedOK ==
  ASSUME IInv, At("request"), IsRequest, NEW p \in {"writing", "await", "posting"},
         c' = [Numbered EXCEPT !.pc = p]
  PROVE  /\ c' \in Client /\ c'.pc = p /\ c'.result = c.result /\ c.pc = "request"
         /\ c'.method = c.method /\ c'.id = c.next_id /\ c'.next_id = c.next_id + 1
         /\ c'.cursor = c.cursor /\ c'.pages = c.pages /\ c'.tools = c.tools
         /\ c'.session = c.session /\ c.next_id \in 1..MaxId /\ MaxId \in Nat
<1>1. c.next_id \in 1..MaxId /\ MaxId \in Nat
  BY MessageOK, LimitsOK DEF MaxId
<1>2. c.next_id \in 0..MaxId /\ c.next_id + 1 \in 1..(MaxId + 1)
  BY <1>1
<1>3. c' = [c EXCEPT !.id = c.next_id, !.next_id = c.next_id + 1, !.pc = p]
  BY DEF Numbered, IInv, TypeOK, Client
<1> QED
  BY <1>1, <1>2, <1>3 DEF IInv, TypeOK, Client, At

LEMMA SentTyped ==
  ASSUME IInv
  PROVE  (\A i \in DOMAIN inp : inp[i].id \in Nat) /\ \A m \in server.got : m.id \in Nat
<1>1. \A m \in Messages : m.id \in Nat
  BY LimitsOK DEF Messages, MaxId
<1>2. (\A i \in DOMAIN inp : inp[i] \in Messages) /\ server.got \subseteq Messages
  BY DEF IInv, TypeOK, Server
<1> QED
  BY <1>1, <1>2

\* A session about to send has not sent the call.
LEMMA NoCallYet ==
  ASSUME IInv, At("request")
  PROVE  server.calls = 0 /\ \A i \in DOMAIN inp : ~IsCall(inp[i])
<1>1. server.calls \in 0..1
  BY DEF IInv, TypeOK, Server, CallsOK
<1> QED
  BY <1>1 DEF IInv, CallsOK

\* A message into the pipe.
LEMMA WriteIInv ==
  ASSUME IInv, Write
  PROVE  IInv'
<1> UNCHANGED <<cmd, out, server>> /\ At("request") /\ Stdio /\ c.pc = "request"
  BY DEF Write, At
<1> inp \in Seq(Messages) /\ Len(inp) \in Nat /\ DOMAIN inp = 1..Len(inp)
  BY DEF IInv, TypeOK
<1>1. AnswersOK' /\ out' \in Seq(Lines)
  BY AnswersKept DEF IInv, TypeOK
<1>2. CASE Becomes(Returned("error")) /\ UNCHANGED inp
  BY <1>1, <1>2, ErrorIInv
<1>3. CASE c.method = "tools/call" /\ Becomes([Numbered EXCEPT !.pc = "writing"]) /\ UNCHANGED inp
  <2>1. IsRequest /\ c' = [Numbered EXCEPT !.pc = "writing"]
    BY <1>3 DEF IsRequest, Becomes
  <2>2. /\ c' \in Client /\ c'.pc = "writing" /\ c'.result = c.result
        /\ c'.method = c.method /\ c'.id = c.next_id /\ c'.next_id = c.next_id + 1
        /\ c'.cursor = c.cursor /\ c'.pages = c.pages /\ c'.tools = c.tools
        /\ c'.session = c.session /\ c.next_id \in 1..MaxId /\ MaxId \in Nat
    BY <2>1, NumberedOK
  <2>3. child' = child
    BY <1>3, <2>1, <2>2 DEF Becomes
  <2>4. TypeOK'
    BY <1>3, <2>2, <2>3 DEF IInv, TypeOK
  <2>5. ChildOK' /\ PlaceOK'
    BY <1>3, <2>2, <2>3 DEF IInv, ChildOK, PlaceOK, At, Stdio, IsRequest
  <2>6. NumberingOK'
    <3>1. c.next_id = 2 + Len(c.pages)
      BY <1>3 DEF IInv, NumberingOK, IsNumbered, At
    <3>2. c'.next_id = 2 + Len(c'.pages) + 1 /\ c'.id < c'.next_id /\ c'.id + 1 = c'.next_id
      BY <2>2, <3>1
    <3>3. c'.method # "initialize" /\ IsNumbered'
      BY <1>3, <2>2 DEF IsNumbered, IsRequest, At
    <3> QED
      BY <3>2, <3>3 DEF NumberingOK
  <2>7. SessionOK'
    BY <1>3, <2>2 DEF IInv, SessionOK
  <2>8. IdsOK'
    <3>1. (\A i \in DOMAIN inp : inp[i].id \in Nat) /\ \A m \in server.got : m.id \in Nat
      BY SentTyped
    <3> QED
      BY <1>3, <2>2, <3>1 DEF IInv, IdsOK, SentOK, Waits, At
  <2>9. CallsOK'
    BY <1>3, <2>2 DEF IInv, CallsOK, IsCall, At
  <2>10. ReadyOK'
    BY <1>3, <2>2 DEF IInv, ReadyOK, Told, IsCall, At, Stdio
  <2>11. CallDone' /\ PagesOK' /\ ListIsWhole'
    BY <2>2, PagesKept, WholeKept DEF IInv, CallDone, PagesOK
  <2> QED
    BY <1>1, <2>4, <2>5, <2>6, <2>7, <2>8, <2>9, <2>10, <2>11 DEF IInv
<1>4. CASE IsRequest /\ Becomes([Numbered EXCEPT !.pc = "await"]) /\ inp' = Append(inp, Message)
  <2>1. c' = [Numbered EXCEPT !.pc = "await"]
    BY <1>4 DEF Becomes
  <2>2. /\ c' \in Client /\ c'.pc = "await" /\ c'.result = c.result
        /\ c'.method = c.method /\ c'.id = c.next_id /\ c'.next_id = c.next_id + 1
        /\ c'.cursor = c.cursor /\ c'.pages = c.pages /\ c'.tools = c.tools
        /\ c'.session = c.session /\ c.next_id \in 1..MaxId /\ MaxId \in Nat
    BY <1>4, <2>1, NumberedOK
  <2>3. child' = child
    BY <1>4, <2>1, <2>2 DEF Becomes
  <2>4. /\ Message \in Messages /\ Message.method = c.method /\ Message.session = c.session
        /\ Message.id = c.next_id /\ (c.method = "tools/list" => Message.page = c.cursor)
    BY <1>4, MessageOK
  <2>5. /\ inp' \in Seq(Messages) /\ DOMAIN inp' = 1..(Len(inp) + 1)
        /\ \A i \in 1..Len(inp) : inp'[i] = inp[i]
        /\ inp'[Len(inp) + 1] = Message
    BY <1>4, <2>4, Appended
  <2>6. TypeOK'
    BY <2>2, <2>3, <2>5 DEF IInv, TypeOK
  <2>7. ChildOK' /\ PlaceOK'
    BY <1>4, <2>2, <2>3 DEF IInv, ChildOK, PlaceOK, At, Stdio, IsRequest
  <2>8. NumberingOK'
    <3>1. c.next_id = IF c.method = "initialize" THEN 1 ELSE 2 + Len(c.pages)
      BY DEF IInv, NumberingOK, IsNumbered, At
    <3> QED
      BY <1>4, <2>2, <3>1 DEF NumberingOK, At, IsNumbered, IsRequest
  <2>9. SessionOK'
    BY <2>2, <2>4, <2>5 DEF IInv, SessionOK
  <2>10. IdsOK'
    <3>1. (\A i \in DOMAIN inp : inp[i].id \in Nat) /\ \A m \in server.got : m.id \in Nat
      BY SentTyped
    <3>2. \A i \in DOMAIN inp : SentOK(inp[i])'
      BY <2>2, <2>5, <3>1 DEF IInv, IdsOK, SentOK, Waits, At
    <3>3. \A m \in server.got : SentOK(m)'
      BY <2>2, <3>1 DEF IInv, IdsOK, SentOK, Waits, At
    <3>4. \A i \in DOMAIN inp' : i = Len(inp) + 1 => SentOK(inp[i])'
      BY <2>2, <2>4, <2>5 DEF SentOK, Waits, IsCurrent, At
    <3> QED
      BY <2>5, <3>2, <3>3, <3>4 DEF IInv, IdsOK
  <2>11. CallsOK'
    <3>1. server.calls = 0 /\ \A i \in DOMAIN inp : ~IsCall(inp[i])
      BY NoCallYet
    <3>2. IsCall(Message) => cmd.kind = "tools/call" /\ c.method = "tools/call"
      BY <2>4 DEF IInv, PlaceOK, IsCall
    <3>3. \A i \in DOMAIN inp' : IsCall(inp'[i]) => i = Len(inp) + 1 /\ IsCall(Message)
      BY <2>5, <3>1
    <3> QED
      BY <2>2, <3>1, <3>2, <3>3 DEF IInv, CallsOK, IsCall, At
  <2>12. ReadyOK'
    <3>1. server.calls = 0 /\ \A i \in DOMAIN inp : ~IsCall(inp[i])
      BY NoCallYet
    <3>2. Told => server.ready \/ \E i \in DOMAIN inp : i < Len(inp) + 1 /\ inp[i].id = 0
      BY DEF Told
    <3>3. Told => server.ready \/ \E i \in DOMAIN inp' : i < Len(inp) + 1 /\ inp'[i].id = 0
      BY <2>5, <3>2
    <3>4. Told => Told'
      BY <3>3 DEF Told
    <3>5. \A j \in DOMAIN inp' : IsCall(inp'[j]) => j = Len(inp) + 1 /\ c.method = "tools/call"
      BY <2>4, <2>5, <3>1 DEF IsCall
    <3>6. c.method \in {"tools/list", "tools/call"} => Told
      BY DEF IInv, ReadyOK
    <3>7. \A j \in DOMAIN inp' : IsCall(inp'[j]) =>
             server.ready \/ \E i \in DOMAIN inp' : i < j /\ inp'[i].id = 0
      BY <3>3, <3>5, <3>6
    <3> QED
      BY <2>2, <3>1, <3>4, <3>6, <3>7 DEF ReadyOK, IsCall, At, Stdio
  <2>13. CallDone' /\ PagesOK' /\ ListIsWhole'
    BY <2>2, PagesKept, WholeKept DEF IInv, CallDone, PagesOK
  <2> QED
    BY <1>1, <2>6, <2>7, <2>8, <2>9, <2>10, <2>11, <2>12, <2>13 DEF IInv
<1>5. CASE ~IsRequest /\ Becomes(Ready) /\ inp' = Append(inp, Message)
  <2>1. /\ Ready \in Client /\ Ready.pc = "request" /\ Ready.result = c.result
        /\ Ready.method = cmd.kind /\ Ready.id = c.id /\ Ready.next_id = c.next_id
        /\ Ready.cursor = c.cursor /\ Ready.pages = c.pages /\ Ready.tools = c.tools
        /\ Ready.session = c.session /\ cmd.kind \in {"tools/list", "tools/call"}
    BY DEF Ready, IInv, TypeOK, Client, Commands, Methods
  <2>2. c' = Ready /\ child' = child
    BY <1>5, <2>1 DEF Becomes
  <2>3. c.method = "notifications/initialized"
    BY <1>5 DEF IsRequest
  <2>4. /\ Message \in Messages /\ Message.method = c.method /\ Message.session = c.session
        /\ Message.id = 0
    BY <1>5, MessageOK
  <2>5. /\ inp' \in Seq(Messages) /\ DOMAIN inp' = 1..(Len(inp) + 1)
        /\ \A i \in 1..Len(inp) : inp'[i] = inp[i]
        /\ inp'[Len(inp) + 1] = Message
    BY <1>5, <2>4, Appended
  <2>6. TypeOK'
    BY <2>1, <2>2, <2>5 DEF IInv, TypeOK
  <2>7. ChildOK' /\ PlaceOK'
    BY <2>1, <2>2 DEF IInv, ChildOK, PlaceOK, At, Stdio, IsRequest
  <2>8. NumberingOK'
    BY <2>1, <2>2, <2>3 DEF IInv, NumberingOK, At, IsNumbered, IsRequest
  <2>9. SessionOK'
    BY <2>1, <2>2, <2>4, <2>5 DEF IInv, SessionOK
  <2>10. IdsOK'
    <3>1. c.next_id > 0
      BY DEF IInv, TypeOK, Client
    <3>2. \A i \in DOMAIN inp : SentOK(inp[i])'
      BY <2>1, <2>2, <2>5 DEF IInv, IdsOK, SentOK, Waits, At
    <3>3. \A m \in server.got : SentOK(m)'
      BY <2>1, <2>2 DEF IInv, IdsOK, SentOK, Waits, At
    <3>4. \A i \in DOMAIN inp' : i = Len(inp) + 1 => SentOK(inp[i])'
      BY <2>1, <2>2, <2>3, <2>4, <2>5, <3>1 DEF SentOK, Waits, At
    <3> QED
      BY <2>5, <3>2, <3>3, <3>4 DEF IInv, IdsOK
  <2>11. CallsOK'
    <3>1. server.calls = 0 /\ \A i \in DOMAIN inp : ~IsCall(inp[i])
      BY NoCallYet
    <3>2. \A i \in DOMAIN inp' : ~IsCall(inp'[i])
      BY <2>3, <2>4, <2>5, <3>1 DEF IsCall
    <3> QED
      BY <2>1, <2>2, <3>1, <3>2 DEF IInv, CallsOK, IsCall, At
  <2>12. ReadyOK'
    <3>1. Told'
      BY <2>4, <2>5 DEF Told
    <3> QED
      BY <2>1, <2>2, <2>3, <2>4, <2>5, <3>1 DEF IInv, ReadyOK, IsCall, At, Stdio
  <2>13. CallDone' /\ PagesOK' /\ ListIsWhole'
    BY <2>1, <2>2, <2>3, PagesKept, WholeKept DEF IInv, CallDone, PagesOK
  <2> QED
    BY <1>1, <2>6, <2>7, <2>8, <2>9, <2>10, <2>11, <2>12, <2>13 DEF IInv
<1> QED
  BY <1>2, <1>3, <1>4, <1>5 DEF Write, Becomes

LEMMA WriteBrokenIInv ==
  ASSUME IInv, WriteBroken
  PROVE  IInv'
<1>1. AnswersOK' /\ out' \in Seq(Lines)
  BY AnswersKept DEF IInv, TypeOK, WriteBroken
<1> QED
  BY <1>1, ErrorIInv DEF WriteBroken

\* The call that did not fit into the pipe is there in full.
LEMMA DrainIInv ==
  ASSUME IInv, Drain
  PROVE  IInv'
<1> UNCHANGED <<cmd, child, out, server>> /\ At("writing") /\ Stdio /\ c.pc = "writing"
  BY DEF Drain, At, IInv, PlaceOK
<1> inp \in Seq(Messages) /\ Len(inp) \in Nat /\ DOMAIN inp = 1..Len(inp)
  BY DEF IInv, TypeOK
<1> DEFINE m == [Message EXCEPT !.id = c.id]
<1>1. AnswersOK' /\ out' \in Seq(Lines)
  BY AnswersKept DEF IInv, TypeOK
<1>2. /\ c' \in Client /\ c'.pc = "await" /\ c'.result = c.result
      /\ c'.method = c.method /\ c'.id = c.id /\ c'.next_id = c.next_id
      /\ c'.cursor = c.cursor /\ c'.pages = c.pages /\ c'.tools = c.tools
      /\ c'.session = c.session /\ c.method = "tools/call" /\ c.id \in 0..MaxId
  BY DEF Drain, IInv, TypeOK, Client, PlaceOK
<1>3. IsRequest /\ IsNumbered
  BY <1>2 DEF IsRequest, IsNumbered, At
<1>4. c.next_id = 2 + Len(c.pages) + 1 /\ c.id + 1 = c.next_id /\ c.id > 0
  <2>1. c.next_id = 2 + Len(c.pages) + 1 /\ c.id + 1 = c.next_id
    BY <1>2, <1>3 DEF IInv, NumberingOK, At
  <2>2. Len(c.pages) \in Nat /\ c.id \in Nat
    BY <1>2, LimitsOK DEF IInv, TypeOK, Client, MaxId
  <2> QED
    BY <2>1, <2>2
<1>5. /\ m \in Messages /\ m.id = c.id /\ m.method = "tools/call" /\ m.session = c.session
  <2>1. c.session \in Sessions /\ None \in Pages /\ "tools/call" \in Methods
    BY DEF IInv, TypeOK, Client, Pages, Methods
  <2>2. m = [id |-> c.id, method |-> "tools/call", page |-> None, session |-> c.session]
    BY <1>2 DEF Message
  <2> QED
    BY <1>2, <2>1, <2>2 DEF Messages
<1>6. /\ inp' \in Seq(Messages) /\ DOMAIN inp' = 1..(Len(inp) + 1)
      /\ \A i \in 1..Len(inp) : inp'[i] = inp[i]
      /\ inp'[Len(inp) + 1] = m
  <2>1. inp' = Append(inp, m)
    BY DEF Drain
  <2> HIDE DEF m
  <2> QED
    BY <2>1, <1>5, Appended
<1> HIDE DEF m
<1>7. TypeOK'
  BY <1>2, <1>6 DEF IInv, TypeOK
<1>8. ChildOK' /\ PlaceOK'
  BY <1>2, <1>3 DEF IInv, ChildOK, PlaceOK, At, Stdio, IsRequest
<1>9. NumberingOK'
  BY <1>2, <1>3, <1>4 DEF IInv, NumberingOK, IsNumbered, IsRequest, At
<1>10. SessionOK'
  BY <1>2, <1>5, <1>6 DEF IInv, SessionOK
<1>11. IdsOK'
  <2>1. \A i \in DOMAIN inp : SentOK(inp[i])'
    BY <1>2, <1>6, SentTyped DEF IInv, IdsOK, SentOK, Waits, At
  <2>2. \A x \in server.got : SentOK(x)'
    BY <1>2, SentTyped DEF IInv, IdsOK, SentOK, Waits, At
  <2>3. \A i \in DOMAIN inp' : i = Len(inp) + 1 => SentOK(inp[i])'
    BY <1>2, <1>4, <1>5, <1>6 DEF IInv, NumberingOK, SentOK, IsCurrent, At
  <2> QED
    BY <1>6, <2>1, <2>2, <2>3 DEF IInv, IdsOK
<1>12. server.calls = 0 /\ \A i \in DOMAIN inp : ~IsCall(inp[i])
  <2>1. server.calls \in 0..1
    BY DEF IInv, TypeOK, Server, CallsOK
  <2> QED
    BY <2>1 DEF IInv, CallsOK
<1>13. CallsOK'
  <2>1. cmd.kind = "tools/call"
    BY <1>2 DEF IInv, PlaceOK
  <2>2. \A i \in DOMAIN inp' : IsCall(inp'[i]) => i = Len(inp) + 1
    BY <1>6, <1>12
  <2>3. cmd.apply /\ cmd.consent
    BY <2>1 DEF IInv, CallsOK, At
  <2> QED
    BY <1>2, <1>12, <2>2, <2>3 DEF IInv, CallsOK, At
<1>14. ReadyOK'
  BY <1>2, <1>6, <1>12 DEF IInv, ReadyOK, Told, IsCall, At, Stdio
<1>15. CallDone' /\ PagesOK' /\ ListIsWhole'
  BY <1>2, PagesKept, WholeKept DEF IInv, CallDone, PagesOK
<1> QED
  BY <1>1, <1>7, <1>8, <1>9, <1>10, <1>11, <1>13, <1>14, <1>15 DEF IInv

\* One message to a gateway.
LEMMA PostIInv ==
  ASSUME IInv, Post
  PROVE  IInv'
<1> UNCHANGED <<cmd, server>> /\ At("request") /\ ~Stdio /\ c.pc = "request" /\ inp = <<>>
  BY DEF Post, At, IInv, ReadyOK
<1> DOMAIN inp = {}
  OBVIOUS
<1>1. out' = <<>> /\ out' \in Seq(Lines) /\ AnswersOK'
  BY DEF Post, AnswersOK
<1>2. /\ Message \in Messages /\ Message.method = c.method /\ Message.session = c.session
      /\ IsRequest => c.next_id \in 1..MaxId /\ Message.id = c.next_id
      /\ ~IsRequest => Message.id = 0
      /\ c.method = "tools/list" => Message.page = c.cursor
  BY MessageOK
<1>3. inp' \in Seq(Messages) /\ DOMAIN inp' = {1} /\ inp'[1] = Message
  <2>1. inp' = <<Message>>
    BY DEF Post
  <2> QED
    BY <1>2, <2>1
<1>4. CASE IsRequest
  <2>1. c' = [Numbered EXCEPT !.pc = "posting"]
    BY DEF Post, Becomes
  <2>2. /\ c' \in Client /\ c'.pc = "posting" /\ c'.result = c.result
        /\ c'.method = c.method /\ c'.id = c.next_id /\ c'.next_id = c.next_id + 1
        /\ c'.cursor = c.cursor /\ c'.pages = c.pages /\ c'.tools = c.tools
        /\ c'.session = c.session /\ c.next_id \in 1..MaxId /\ MaxId \in Nat
    BY <1>4, <2>1, NumberedOK
  <2>3. child' = child
    BY <2>1, <2>2 DEF Post, Becomes
  <2>4. TypeOK'
    BY <1>1, <1>3, <2>2, <2>3 DEF IInv, TypeOK
  <2>5. ChildOK' /\ PlaceOK'
    BY <2>2, <2>3 DEF IInv, ChildOK, PlaceOK, At, Stdio, IsRequest
  <2>6. NumberingOK'
    <3>1. c.next_id = IF c.method = "initialize" THEN 1 ELSE 2 + Len(c.pages)
      BY DEF IInv, NumberingOK, IsNumbered, At
    <3> QED
      BY <1>4, <2>2, <3>1 DEF NumberingOK, At, IsNumbered, IsRequest
  <2>7. SessionOK'
    BY <1>2, <1>3, <2>2 DEF IInv, SessionOK
  <2>8. IdsOK'
    <3>1. \A m \in server.got : SentOK(m)'
      BY <2>2, SentTyped DEF IInv, IdsOK, SentOK, Waits, At
    <3>2. SentOK(inp[1])'
      BY <1>2, <1>3, <1>4, <2>2 DEF SentOK, Waits, IsCurrent, At
    <3> QED
      BY <1>3, <3>1, <3>2 DEF IInv, IdsOK
  <2>9. CallsOK'
    <3>1. server.calls = 0
      BY NoCallYet
    <3>2. IsCall(Message) => cmd.kind = "tools/call" /\ c.method = "tools/call"
      BY <1>2 DEF IInv, PlaceOK, IsCall
    <3> QED
      BY <1>3, <2>2, <3>1, <3>2 DEF IInv, CallsOK, IsCall, At
  <2>10. ReadyOK'
    BY <1>2, <1>3, <1>4, <2>2 DEF IInv, ReadyOK, Told, IsCall, At, Stdio, IsRequest
  <2>11. CallDone' /\ PagesOK' /\ ListIsWhole'
    BY <2>2, PagesKept, WholeKept DEF IInv, CallDone, PagesOK
  <2> QED
    BY <1>1, <2>4, <2>5, <2>6, <2>7, <2>8, <2>9, <2>10, <2>11 DEF IInv
<1>5. CASE ~IsRequest
  <2>1. c' = [c EXCEPT !.pc = "posting"] /\ c.method = "notifications/initialized"
    BY <1>5 DEF Post, Becomes, Numbered, IsRequest
  <2>2. /\ c' \in Client /\ c'.pc = "posting" /\ c'.result = c.result
        /\ c'.method = c.method /\ c'.id = c.id /\ c'.next_id = c.next_id
        /\ c'.cursor = c.cursor /\ c'.pages = c.pages /\ c'.tools = c.tools
        /\ c'.session = c.session
    BY <2>1 DEF IInv, TypeOK, Client
  <2>3. child' = child
    <3>1. [Numbered EXCEPT !.pc = "posting"].pc = "posting"
      BY <1>5 DEF Numbered, IInv, TypeOK, Client
    <3> QED
      BY <3>1 DEF Post, Becomes
  <2>4. TypeOK'
    BY <1>1, <1>3, <2>2, <2>3 DEF IInv, TypeOK
  <2>5. ChildOK' /\ PlaceOK'
    BY <2>2, <2>3 DEF IInv, ChildOK, PlaceOK, At, Stdio, IsRequest
  <2>6. NumberingOK'
    BY <1>5, <2>2 DEF IInv, NumberingOK, At, IsNumbered, IsRequest
  <2>7. SessionOK'
    BY <1>2, <1>3, <2>2 DEF IInv, SessionOK
  <2>8. IdsOK'
    <3>1. \A m \in server.got : SentOK(m)'
      BY <1>5, <2>2, SentTyped DEF IInv, IdsOK, SentOK, Waits, At, IsRequest
    <3>2. c.next_id \in Nat \ {0}
      BY LimitsOK DEF IInv, TypeOK, Client
    <3>3. SentOK(inp[1])'
      BY <1>2, <1>3, <1>5, <2>1, <2>2, <3>2 DEF SentOK, Waits, At, IsRequest
    <3> QED
      BY <1>3, <3>1, <3>3 DEF IInv, IdsOK
  <2>9. CallsOK'
    <3>1. server.calls = 0
      BY NoCallYet
    <3> QED
      BY <1>2, <1>3, <2>1, <2>2, <3>1 DEF IInv, CallsOK, IsCall, At
  <2>10. ReadyOK'
    BY <1>2, <1>3, <1>5, <2>1, <2>2 DEF IInv, ReadyOK, Told, IsCall, At, Stdio
  <2>11. CallDone' /\ PagesOK' /\ ListIsWhole'
    BY <2>2, PagesKept, WholeKept DEF IInv, CallDone, PagesOK
  <2> QED
    BY <1>1, <2>4, <2>5, <2>6, <2>7, <2>8, <2>9, <2>10, <2>11 DEF IInv
<1> QED
  BY <1>4, <1>5

\* No response, none in time, or none any more.
LEMMA FailedIInv ==
  ASSUME IInv, PostFailed \/ Timeout \/ Closed
  PROVE  IInv'
<1>1. Becomes(Returned("error")) /\ UNCHANGED <<cmd, inp, out, server>>
  BY DEF PostFailed, Timeout, Closed
<1>2. AnswersOK' /\ out' \in Seq(Lines)
  BY <1>1, AnswersKept DEF IInv, TypeOK
<1> QED
  BY <1>1, <1>2, ErrorIInv

---------------------------------------------------------------------------
(* The next page of tools *)

Longer == Append(c.pages, c.cursor)
Total == c.tools + server.size[c.cursor]

LEMMA LongerOK ==
  ASSUME IInv
  PROVE  /\ c.pages \in Seq(Pages) /\ Len(c.pages) \in Nat /\ c.cursor \in Pages
         /\ Longer \in Seq(Pages) /\ Len(Longer) = Len(c.pages) + 1
         /\ \A i \in 1..Len(c.pages) : Longer[i] = c.pages[i]
         /\ Longer[Len(c.pages) + 1] = c.cursor
         /\ server.size[c.cursor] \in {1, 2} /\ server.next[c.cursor] \in Pages
         /\ c.tools \in Nat /\ Total \in Nat
         /\ server.next \in [Pages -> Pages] /\ server.size \in [Pages -> {1, 2}]
<1>1. c.pages \in Seq(Pages) /\ c.cursor \in Pages /\ c.tools \in Nat
  BY DEF IInv, TypeOK, Client
<1>2. server.next \in [Pages -> Pages] /\ server.size \in [Pages -> {1, 2}]
  BY DEF IInv, TypeOK, Server
<1>3. server.size[c.cursor] \in {1, 2} /\ server.next[c.cursor] \in Pages
  BY <1>1, <1>2
<1> QED
  BY <1>1, <1>2, <1>3, Appended DEF Longer, Total

\* The pages with the next one are a chain.
LEMMA LongerChained ==
  ASSUME IInv, ~At("done")
  PROVE  /\ Longer[1] = None
         /\ \A i \in 1..Len(c.pages) :
                Longer[i + 1] = server.next[Longer[i]] /\ Longer[i + 1] # None
<1> DEFINE k == Len(c.pages)
<1>1. /\ k \in Nat /\ (k = 0 <=> c.pages = <<>>)
      /\ \A i \in 1..k : Longer[i] = c.pages[i]
      /\ Longer[k + 1] = c.cursor
  BY LongerOK
<1>2. /\ k > 0 => c.pages[1] = None /\ c.cursor = server.next[c.pages[k]] /\ c.cursor # None
      /\ k = 0 => c.cursor = None
      /\ \A i \in 1..(k - 1) : c.pages[i + 1] = server.next[c.pages[i]] /\ c.pages[i + 1] # None
  <2>1. PagesOK
    BY DEF IInv
  <2> QED
    BY <1>1, <2>1 DEF PagesOK, Chained
<1> HIDE DEF k
<1>3. Longer[1] = None
  BY <1>1, <1>2
<1>4. ASSUME NEW i \in 1..k
      PROVE  Longer[i + 1] = server.next[Longer[i]] /\ Longer[i + 1] # None
  <2>1. CASE i = k
    BY <1>1, <1>2, <2>1
  <2>2. CASE i # k
    <3>1. i \in 1..(k - 1) /\ i + 1 \in 1..k
      BY <1>1, <2>2
    <3> QED
      BY <1>1, <1>2, <3>1
  <2> QED
    BY <2>1, <2>2
<1> QED
  BY <1>3, <1>4 DEF k

\* So are their totals.
LEMMA LongerCounted ==
  ASSUME IInv, Total <= MaxTools
  PROVE  \E total \in [0..(Len(c.pages) + 1) -> 0..MaxTools] :
             /\ total[0] = 0 /\ total[Len(c.pages) + 1] = Total
             /\ \A i \in 1..(Len(c.pages) + 1) : total[i] = total[i - 1] + server.size[Longer[i]]
<1> DEFINE k == Len(c.pages)
<1>1. /\ k \in Nat /\ Total \in Nat /\ Total = c.tools + server.size[c.cursor]
      /\ \A i \in 1..k : Longer[i] = c.pages[i]
      /\ Longer[k + 1] = c.cursor
  BY LongerOK DEF Total
<1>2. PICK old \in [0..k -> 0..MaxTools] :
          /\ old[0] = 0 /\ old[k] = c.tools
          /\ \A i \in 1..k : old[i] = old[i - 1] + server.size[c.pages[i]]
  BY DEF IInv, PagesOK, Counted, Totals
<1> HIDE DEF k
<1> DEFINE total == [i \in 0..(k + 1) |-> IF i = k + 1 THEN Total ELSE old[i]]
<1>3. total \in [0..(k + 1) -> 0..MaxTools]
  <2>1. \A i \in 0..(k + 1) : i # k + 1 => i \in 0..k
    BY <1>1
  <2> QED
    BY <1>1, <1>2, <2>1, LimitsOK
<1>4. total[k + 1] = Total /\ \A i \in 0..k : total[i] = old[i]
  BY <1>1
<1>5. ASSUME NEW i \in 1..(k + 1)
      PROVE  total[i] = total[i - 1] + server.size[Longer[i]]
  <2> HIDE DEF total
  <2>1. CASE i = k + 1
    <3>1. i - 1 = k /\ k \in 0..k
      BY <1>1, <2>1
    <3>2. total[i - 1] = c.tools
      BY <1>2, <1>4, <3>1
    <3> QED
      BY <1>1, <1>4, <2>1, <3>2
  <2>2. CASE i # k + 1
    <3>1. i \in 1..k /\ i \in 0..k /\ i - 1 \in 0..k
      BY <1>1, <2>2
    <3> QED
      BY <1>1, <1>2, <1>4, <3>1
  <2> QED
    BY <2>1, <2>2
<1>6. total[0] = 0
  BY <1>1, <1>2, <1>4
<1> HIDE DEF total
<1> QED
  BY <1>3, <1>4, <1>5, <1>6 DEF k

\* An inventory that the limits admit goes on with the next page, and ends with it only if
\* that page is the last one.
LEMMA LongerBegins ==
  ASSUME IInv, ~At("done"), NEW n \in 1..MaxPages, NEW pages \in [1..n -> Pages],
         NEW tools \in [0..n -> 0..MaxTools], Inventory(n, pages, tools)
  PROVE  /\ Len(c.pages) + 1 <= n
         /\ \A i \in 1..(Len(c.pages) + 1) : pages[i] = Longer[i]
         /\ tools[Len(c.pages) + 1] = Total /\ Total <= MaxTools
         /\ Len(c.pages) + 1 = n => server.next[c.cursor] = None
<1> DEFINE k == Len(c.pages)
<1>1. /\ k \in Nat /\ (k = 0 <=> c.pages = <<>>) /\ Total = c.tools + server.size[c.cursor]
      /\ \A i \in 1..k : Longer[i] = c.pages[i]
      /\ Longer[k + 1] = c.cursor
  BY LongerOK DEF Total
<1>2. /\ k > 0 => c.cursor = server.next[c.pages[k]] /\ c.cursor # None
      /\ k = 0 => c.cursor = None
  BY <1>1 DEF IInv, PagesOK, Chained
<1>3. k <= n /\ (\A i \in 1..k : pages[i] = c.pages[i]) /\ tools[k] = c.tools
  BY DEF IInv, PagesOK, Agrees, Begins
<1>4. /\ pages[1] = None /\ server.next[pages[n]] = None /\ n \in Nat \ {0}
      /\ \A i \in 1..(n - 1) : pages[i + 1] = server.next[pages[i]]
      /\ \A i \in 1..n : tools[i] = tools[i - 1] + server.size[pages[i]]
  BY LimitsOK DEF Inventory
<1> HIDE DEF k
<1>5. k + 1 <= n
  <2> SUFFICES ASSUME k = n
               PROVE  FALSE
    BY <1>1, <1>3, <1>4
  <2>1. k > 0 /\ k \in 1..k
    BY <1>1, <1>4
  <2> QED
    BY <1>2, <1>3, <1>4, <2>1
<1>6. pages[k + 1] = c.cursor
  <2>1. CASE k = 0
    BY <1>2, <1>4, <2>1
  <2>2. CASE k > 0
    <3>1. k \in 1..(n - 1) /\ k \in 1..k
      BY <1>1, <1>4, <1>5, <2>2
    <3> QED
      BY <1>2, <1>3, <1>4, <2>2, <3>1
  <2> QED
    BY <1>1, <2>1, <2>2
<1>7. \A i \in 1..(k + 1) : pages[i] = Longer[i]
  <2>1. \A i \in 1..(k + 1) : i = k + 1 \/ i \in 1..k
    BY <1>1
  <2> QED
    BY <1>1, <1>3, <1>6, <2>1
<1>8. tools[k + 1] = Total /\ Total <= MaxTools
  <2>1. k + 1 \in 1..n /\ k + 1 \in 0..n /\ (k + 1) - 1 = k
    BY <1>1, <1>4, <1>5
  <2>2. tools[k + 1] = tools[(k + 1) - 1] + server.size[pages[k + 1]]
    BY <1>4, <2>1
  <2>3. tools[k + 1] = Total
    BY <1>1, <1>3, <1>6, <2>1, <2>2
  <2>4. tools[k + 1] \in 0..MaxTools
    BY <2>1
  <2> QED
    BY <2>3, <2>4, LimitsOK
<1>9. k + 1 = n => server.next[c.cursor] = None
  BY <1>4, <1>6
<1> QED
  BY <1>5, <1>7, <1>8, <1>9 DEF k

\* The invariant on the pages, when the next one has been added.
LEMMA LongerPages ==
  ASSUME IInv, ~At("done"), Total <= MaxTools, server' = server, c'.method = "tools/list",
         c'.pages = Longer, c'.tools = Total, c'.cursor = server.next[c.cursor],
         c'.pc # "done" => Len(c.pages) + 1 < MaxPages /\ c'.cursor # None
  PROVE  PagesOK'
<1> DEFINE k == Len(c.pages)
<1>1. k \in Nat /\ Len(c'.pages) = k + 1 /\ c'.pages[k + 1] = c.cursor /\ c'.pages # <<>>
  BY LongerOK
<1>2. Chained'
  <2>1. (k + 1) - 1 = k
    BY <1>1
  <2> QED
    BY <1>1, <2>1, LongerChained DEF Chained
<1>3. Counted'
  BY <1>1, LongerCounted DEF Counted, Totals
<1>4. Agrees'
  <2> SUFFICES ASSUME NEW n \in 1..MaxPages, NEW pages \in [1..n -> Pages],
                      NEW tools \in [0..n -> 0..MaxTools], Inventory(n, pages, tools)'
               PROVE  Begins(n, pages, tools)'
    BY DEF Agrees
  <2>1. Inventory(n, pages, tools)
    BY InventoryKept
  <2> QED
    BY <1>1, <2>1, LongerBegins DEF Begins
<1> QED
  BY <1>1, <1>2, <1>3, <1>4 DEF PagesOK, At

---------------------------------------------------------------------------
(* The response *)

\* The client goes on with its next request, or ends with the whole list: what is left of
\* the invariant when the parts on the pages are known.
LEMMA OnwardIInv ==
  ASSUME IInv, Waits, At("await") \/ At("body"), UNCHANGED <<cmd, inp, server>>,
         out' \in Seq(Lines), AnswersOK',
         c' \in Client, c'.pc \in {"request", "done"}, c'.result = None <=> c'.pc # "done",
         c'.id = c.id, c'.next_id = c.next_id, c'.session = c.session,
         child' = IF c'.pc = "done" THEN Dropped ELSE child,
         \/ c.method = "initialize" /\ c'.method = "notifications/initialized" /\ c'.pc = "request"
            /\ c'.pages = c.pages
         \/ c.method = "tools/list" /\ c'.method = "tools/list" /\ Len(c'.pages) = Len(c.pages) + 1,
         PagesOK', ListIsWhole'
  PROVE  IInv'
<1>1. /\ c.method \in {"initialize", "tools/list"} /\ c'.method # "tools/call"
      /\ c'.method # "initialize" /\ ~At("done") /\ ~At("start") /\ ~At("request") /\ IsRequest
  BY DEF At, Waits
<1>2. TypeOK'
  BY DroppedOK DEF IInv, TypeOK
<1>3. ChildOK'
  BY DroppedOK DEF IInv, ChildOK, At, Stdio
<1>4. PlaceOK'
  BY DEF IInv, PlaceOK, At, Stdio, IsRequest
<1>5. NumberingOK'
  <2>1. c.next_id = (IF c.method = "initialize" THEN 1 ELSE 2 + Len(c.pages)) + 1
    BY <1>1 DEF IInv, NumberingOK, IsNumbered
  <2>2. Len(c.pages) \in Nat /\ (c.method = "initialize" => Len(c.pages) = 0)
    BY DEF IInv, TypeOK, Client, PagesOK
  <2>3. c'.next_id = 2 + Len(c'.pages)
    BY <2>1, <2>2
  <2>4. c'.pc # "done" => ~IsNumbered'
    BY DEF IsNumbered, At
  <2> QED
    BY <1>1, <2>3, <2>4 DEF IInv, TypeOK, Client, NumberingOK, At
<1>6. SessionOK'
  BY DEF IInv, SessionOK
<1>7. IdsOK'
  BY DEF IInv, IdsOK, SentOK, Waits, At
<1>8. CallsOK'
  BY <1>1 DEF IInv, CallsOK, IsCall, At
<1>9. ReadyOK'
  <2>1. ~Stdio => inp = <<>>
    BY DEF IInv, PlaceOK, ReadyOK, At
  <2>2. c'.method = "tools/list" => c.method = "tools/list"
    OBVIOUS
  <2> QED
    BY <1>1, <2>1, <2>2 DEF IInv, ReadyOK, Told, IsCall, At, Stdio
<1>10. CallDone'
  <2>1. cmd.kind = "tools/call" => c.method # "tools/list"
    BY DEF IInv, PlaceOK
  <2>2. cmd.kind = "tools/call" => c'.pc # "done"
    BY <2>1
  <2> QED
    BY <2>2, NoneIsNoResult DEF CallDone, Results
<1> QED
  BY <1>2, <1>3, <1>4, <1>5, <1>6, <1>7, <1>8, <1>9, <1>10 DEF IInv

\* A page.
LEMMA ListedIInv ==
  ASSUME IInv, Waits, At("await") \/ At("body"), c.method = "tools/list",
         Becomes(Listed(c.cursor)), UNCHANGED <<cmd, inp, server>>,
         out' \in Seq(Lines), AnswersOK'
  PROVE  IInv'
<1> DEFINE k == Len(c.pages)
           l == [c EXCEPT !.pages = Longer, !.tools = Total,
                          !.cursor = server.next[c.cursor], !.pc = "request"]
<1>1. /\ ~At("done") /\ c.pc # "done" /\ c \in Client /\ c.result = None
      /\ k \in Nat /\ k < MaxPages /\ MaxPages \in Nat /\ MaxTools \in Nat
  BY LimitsOK DEF At, IInv, TypeOK, Client, PagesOK, PlaceOK
<1>2. /\ Longer \in Seq(Pages) /\ Len(Longer) = k + 1 /\ Total \in Nat
      /\ server.next[c.cursor] \in Pages
  BY LongerOK
<1>3. Listed(c.cursor) =
        IF Total > MaxTools THEN Returned("limit")
        ELSE IF server.next[c.cursor] = None THEN [l EXCEPT !.pc = "done", !.result = "ok"]
        ELSE IF k + 1 = MaxPages THEN Returned("limit")
        ELSE l
  <2>1. l = [c EXCEPT !.pages = Append(@, c.cursor), !.tools = @ + server.size[c.cursor],
                      !.cursor = server.next[c.cursor], !.pc = "request"]
    BY <1>1 DEF Longer, Total, Client
  <2>2. l.tools = Total /\ l.cursor = server.next[c.cursor] /\ Len(l.pages) = k + 1
    BY <1>1, <1>2 DEF Client
  <2> HIDE DEF l
  <2> QED
    BY <2>1, <2>2 DEF Listed
<1>4. /\ l \in Client /\ l.pc = "request" /\ l.result = None /\ l.method = "tools/list"
      /\ l.id = c.id /\ l.next_id = c.next_id /\ l.session = c.session
      /\ l.pages = Longer /\ l.tools = Total /\ l.cursor = server.next[c.cursor]
  BY <1>1, <1>2 DEF Client
<1> HIDE DEF l
<1>5. CASE Total > MaxTools \/ (server.next[c.cursor] # None /\ k + 1 = MaxPages)
  <2>1. Listed(c.cursor) = Returned("limit")
    BY <1>1, <1>2, <1>3, <1>5
  <2>2. ~Fits
    <3> SUFFICES ASSUME NEW n \in 1..MaxPages, NEW pages \in [1..n -> Pages],
                        NEW tools \in [0..n -> 0..MaxTools], Inventory(n, pages, tools)
                 PROVE  FALSE
      BY DEF Fits
    <3>1. k + 1 <= n /\ Total <= MaxTools /\ (k + 1 = n => server.next[c.cursor] = None)
      BY <1>1, LongerBegins
    <3> QED
      BY <1>1, <1>2, <1>5, <3>1
  <2>3. c' = Returned("limit") /\ Returned("limit").pc = "done"
    BY <1>1, <2>1 DEF Becomes, Returned, Client
  <2>4. child' = Dropped
    BY <2>1, <2>3 DEF Becomes
  <2> QED
    BY <2>2, <2>3, <2>4, DroppedOK, ReturnIInv DEF Results
<1>6. CASE Total <= MaxTools /\ server.next[c.cursor] = None
  <2>1. Listed(c.cursor) = [l EXCEPT !.pc = "done", !.result = "ok"]
    BY <1>1, <1>2, <1>3, <1>6
  <2>2. /\ c' \in Client /\ c'.pc = "done" /\ c'.result = "ok" /\ c'.method = "tools/list"
        /\ c'.id = c.id /\ c'.next_id = c.next_id /\ c'.session = c.session
        /\ c'.pages = Longer /\ c'.tools = Total /\ c'.cursor = server.next[c.cursor]
    BY <1>4, <2>1 DEF Becomes, Client, Results
  <2>3. child' = Dropped
    BY <2>1, <2>2 DEF Becomes
  <2>4. PagesOK'
    BY <1>1, <1>6, <2>2, LongerPages
  <2>5. ListIsWhole'
    <3>1. Len(c'.pages) = k + 1 /\ k + 1 \in 1..MaxPages
      BY <1>1, <1>2, <2>2
    <3>2. PICK total \in [0..(k + 1) -> 0..MaxTools] :
             /\ total[0] = 0 /\ total[k + 1] = Total
             /\ \A i \in 1..(k + 1) : total[i] = total[i - 1] + server.size[Longer[i]]
      BY <1>6, LongerCounted
    <3>3. Inventory(k + 1, Longer, total)
      <4>1. Longer[1] = None /\ server.next[Longer[k + 1]] = None
        BY <1>1, <1>6, LongerOK, LongerChained
      <4>2. \A i \in 1..((k + 1) - 1) :
               Longer[i + 1] = server.next[Longer[i]] /\ Longer[i + 1] # None
        BY <1>1, LongerChained
      <4> QED
        BY <3>2, <4>1, <4>2 DEF Inventory
    <3> QED
      BY <2>2, <3>1, <3>2, <3>3, InventoryKept DEF ListIsWhole
  <2> QED
    BY <2>2, <2>3, <2>4, <2>5, <1>2, OnwardIInv, NoneIsNoResult DEF Results
<1>7. CASE Total <= MaxTools /\ server.next[c.cursor] # None /\ k + 1 # MaxPages
  <2>1. c' = l /\ child' = child
    <3>1. Listed(c.cursor) = l
      BY <1>1, <1>2, <1>3, <1>7
    <3> QED
      BY <1>4, <3>1 DEF Becomes
  <2>2. PagesOK'
    BY <1>1, <1>4, <1>7, <2>1, LongerPages
  <2>3. ListIsWhole'
    BY <1>4, <2>1, NoneIsNoResult DEF ListIsWhole, Results
  <2> QED
    BY <1>2, <1>4, <2>1, <2>2, <2>3, OnwardIInv
<1> QED
  BY <1>1, <1>2, <1>5, <1>6, <1>7

\* The response to the request.
LEMMA AcceptedIInv ==
  ASSUME IInv, Waits, At("await") \/ At("body"), NEW line \in Lines, IsReply(line), Backed(line),
         Becomes(Accepted(line)), UNCHANGED <<cmd, inp, server>>,
         out' \in Seq(Lines), AnswersOK'
  PROVE  IInv'
<1>1. CASE line.kind # "answer"
  BY <1>1, ErrorIInv DEF Accepted
<1>2. CASE line.kind = "answer"
  <2>1. PICK m \in server.got : m.id = line.id /\ m.method = line.method /\ m.page = line.page
    BY <1>2 DEF Backed
  <2>2. m.method = c.method /\ (c.method = "tools/list" => m.page = c.cursor)
    BY <2>1 DEF IInv, IdsOK, SentOK, IsReply, IsCurrent
  <2>3. CASE c.method = "initialize"
    <3>1. Accepted(line) = [c EXCEPT !.pc = "request", !.method = "notifications/initialized"]
      BY <1>2, <2>3 DEF Accepted
    <3>2. /\ c' \in Client /\ c'.pc = "request" /\ c'.result = c.result
          /\ c'.method = "notifications/initialized" /\ c'.id = c.id /\ c'.next_id = c.next_id
          /\ c'.cursor = c.cursor /\ c'.pages = c.pages /\ c'.tools = c.tools
          /\ c'.session = c.session /\ c.pc # "done" /\ c.result = None
      BY <3>1 DEF Becomes, IInv, TypeOK, Client, Methods, At, PlaceOK
    <3>3. child' = child
      BY <3>1, <3>2 DEF Becomes
    <3>4. PagesOK' /\ ListIsWhole'
      BY <2>3, <3>2, PagesKept, WholeKept DEF IInv, PagesOK
    <3> QED
      BY <2>3, <3>2, <3>3, <3>4, OnwardIInv
  <2>4. CASE c.method = "tools/list"
    <3>1. Accepted(line) = Listed(c.cursor)
      BY <1>2, <2>1, <2>2, <2>4 DEF Accepted
    <3> QED
      BY <2>4, <3>1, ListedIInv
  <2>5. CASE c.method \notin {"initialize", "tools/list"}
    <3>1. Accepted(line) = Returned("ok")
      BY <1>2, <2>5 DEF Accepted
    <3>2. c.method = "tools/call" /\ cmd.kind = "tools/call"
      BY <2>5 DEF Waits, IsRequest, IInv, TypeOK, Client, Methods, PlaceOK, Commands
    <3>3. server.calls = 1
      BY <2>1, <2>2, <3>2 DEF IInv, CallsOK, IsCall
    <3>4. c' = Returned("ok") /\ Returned("ok").pc = "done"
      BY <3>1 DEF Becomes, Returned, IInv, TypeOK, Client
    <3>5. child' = Dropped
      BY <3>1, <3>4 DEF Becomes
    <3> QED
      BY <3>2, <3>3, <3>4, <3>5, DroppedOK, ReturnIInv DEF Results
  <2> QED
    BY <2>3, <2>4, <2>5
<1> QED
  BY <1>1, <1>2

\* A line of the child.
LEMMA TakeLineIInv ==
  ASSUME IInv, TakeLine
  PROVE  IInv'
<1> UNCHANGED <<cmd, inp, server>> /\ At("await") /\ out # <<>> /\ out' = Tail(out)
  BY DEF TakeLine
<1>1. /\ out \in Seq(Lines) /\ Head(out) \in Lines /\ Head(out) = out[1] /\ 1 \in DOMAIN out
      /\ out' \in Seq(Lines) /\ DOMAIN out' = 1..(Len(out) - 1) /\ DOMAIN out = 1..Len(out)
      /\ Len(out) \in Nat /\ \A i \in 1..(Len(out) - 1) : out'[i] = out[i + 1]
  BY TailOf DEF IInv, TypeOK
<1>2. AnswersOK'
  <2> SUFFICES ASSUME NEW i \in DOMAIN out'
               PROVE  Backed(out[i])'
    BY DEF AnswersOK
  <2>1. i + 1 \in DOMAIN out /\ out'[i] = out[i + 1]
    BY <1>1
  <2>2. Backed(out[i + 1])
    BY <2>1 DEF IInv, AnswersOK
  <2> QED
    BY <2>1, <2>2 DEF Backed
<1>3. Backed(Head(out))
  BY <1>1 DEF IInv, AnswersOK
<1>4. Waits
  BY DEF IInv, PlaceOK, Waits
<1>5. CASE Becomes(Returned("error"))
  BY <1>1, <1>2, <1>5, ErrorIInv
<1>6. CASE IsReply(Head(out)) /\ Becomes(Accepted(Head(out)))
  BY <1>1, <1>2, <1>3, <1>4, <1>6, AcceptedIInv
<1>7. CASE Becomes(c)
  <2>1. c' = c /\ child' = child
    BY <1>7 DEF Becomes, At
  <2>2. TypeOK' /\ ChildOK' /\ PlaceOK' /\ NumberingOK' /\ SessionOK'
    BY <1>1, <2>1 DEF IInv, TypeOK, ChildOK, PlaceOK, NumberingOK, IsNumbered, SessionOK, At,
       Stdio, IsRequest
  <2>3. IdsOK' /\ CallsOK' /\ ReadyOK' /\ CallDone'
    BY <2>1 DEF IInv, IdsOK, SentOK, Waits, IsRequest, IsCurrent, CallsOK, IsCall, ReadyOK,
       Told,
                CallDone, At, Stdio
  <2>4. PagesOK' /\ ListIsWhole'
    BY <2>1, PagesKept, WholeKept DEF IInv, PagesOK
  <2> QED
    BY <1>2, <2>2, <2>3, <2>4 DEF IInv
<1> QED
  BY <1>5, <1>6, <1>7 DEF TakeLine

\* The body of a gateway's response.
LEMMA TakeBodyIInv ==
  ASSUME IInv, TakeBody
  PROVE  IInv'
<1> UNCHANGED <<cmd, inp, out, server>> /\ At("body") /\ c.pc = "body" /\ ~Stdio /\ inp = <<>>
  BY DEF TakeBody, At, IInv, PlaceOK, ReadyOK
<1>1. AnswersOK' /\ out' \in Seq(Lines)
  BY AnswersKept DEF IInv, TypeOK
<1>2. CASE Becomes(Returned("error"))
  BY <1>1, <1>2, ErrorIInv
<1>3. CASE ~IsRequest /\ Becomes(Ready)
  <2>1. /\ Ready \in Client /\ Ready.pc = "request" /\ Ready.result = c.result
        /\ Ready.method = cmd.kind /\ Ready.id = c.id /\ Ready.next_id = c.next_id
        /\ Ready.cursor = c.cursor /\ Ready.pages = c.pages /\ Ready.tools = c.tools
        /\ Ready.session = c.session /\ cmd.kind \in {"tools/list", "tools/call"}
    BY DEF Ready, IInv, TypeOK, Client, Commands, Methods
  <2>2. c' = Ready /\ child' = child
    BY <1>3, <2>1 DEF Becomes
  <2>3. c.method = "notifications/initialized"
    BY <1>3 DEF IsRequest
  <2>4. TypeOK' /\ ChildOK' /\ PlaceOK'
    BY <1>1, <2>1, <2>2 DEF IInv, TypeOK, ChildOK, PlaceOK, At, Stdio, IsRequest
  <2>5. NumberingOK' /\ SessionOK'
    BY <2>1, <2>2, <2>3 DEF IInv, NumberingOK, IsNumbered, SessionOK, At, IsRequest
  <2>6. IdsOK'
    BY <2>1, <2>2, <2>3 DEF IInv, IdsOK, SentOK, Waits, At
  <2>7. CallsOK'
    BY <2>1, <2>2, <2>3 DEF IInv, CallsOK, IsCall, At
  <2>8. ReadyOK'
    BY <2>1, <2>2, <2>3 DEF IInv, ReadyOK, Told, IsCall, At, Stdio
  <2>9. CallDone' /\ PagesOK' /\ ListIsWhole'
    BY <2>1, <2>2, <2>3, PagesKept, WholeKept DEF IInv, CallDone, PagesOK
  <2> QED
    BY <1>1, <2>4, <2>5, <2>6, <2>7, <2>8, <2>9 DEF IInv
<1>4. CASE IsRequest /\ \E i \in Replies : Becomes(Accepted(out[i]))
  <2>1. PICK i \in Replies : Becomes(Accepted(out[i]))
    BY <1>4
  <2>2. i \in DOMAIN out /\ out[i] \in Lines /\ IsReply(out[i])
    BY DEF Replies, IInv, TypeOK
  <2>3. Backed(out[i])
    BY <2>2 DEF IInv, AnswersOK
  <2>4. Waits
    BY <1>4 DEF Waits
  <2> QED
    BY <1>1, <2>1, <2>2, <2>3, <2>4, AcceptedIInv
<1> QED
  BY <1>2, <1>3, <1>4 DEF TakeBody

---------------------------------------------------------------------------
(* The server *)

LEMMA ReadsIInv ==
  ASSUME IInv, ServerReads
  PROVE  IInv'
<1> UNCHANGED <<cmd, c, child, out>> /\ inp # <<>> /\ inp' = Tail(inp)
  BY DEF ServerReads
<1>1. /\ inp \in Seq(Messages) /\ Head(inp) \in Messages /\ Head(inp) = inp[1]
      /\ inp' \in Seq(Messages) /\ Len(inp) \in Nat \ {0} /\ DOMAIN inp = 1..Len(inp)
      /\ DOMAIN inp' = 1..(Len(inp) - 1) /\ \A i \in 1..(Len(inp) - 1) : inp'[i] = inp[i + 1]
  BY TailOf DEF IInv, TypeOK
<1>2. /\ 1 \in DOMAIN inp
      /\ \A i \in DOMAIN inp' : i + 1 \in DOMAIN inp /\ i + 1 # 1 /\ inp'[i] = inp[i + 1]
      /\ \A i \in DOMAIN inp : i # 1 => i - 1 \in DOMAIN inp' /\ inp'[i - 1] = inp[i]
  <2>1. \A i \in 1..(Len(inp) - 1) : i + 1 \in 1..Len(inp) /\ i + 1 # 1
    BY <1>1
  <2>2. \A i \in 1..Len(inp) : i # 1 => i - 1 \in 1..(Len(inp) - 1) /\ (i - 1) + 1 = i
    BY <1>1
  <2> QED
    BY <1>1, <2>1, <2>2
<1> DEFINE m == inp[1]
<1>3. /\ server' \in Server /\ server'.next = server.next /\ server'.size = server.size
      /\ server'.got = IF m.id = 0 THEN server.got ELSE server.got \cup {m}
      /\ server'.ready = (server.ready \/ m.id = 0)
      /\ server'.calls = IF IsCall(m) THEN server.calls + 1 ELSE server.calls
      /\ server'.session = server.session
      /\ IsCall(m) => server.calls = 0
  <2>1. m.session = server.session
    BY <1>2 DEF IInv, SessionOK
  <2>2. IsCall(m) => server.calls = 0
    BY <1>2 DEF IInv, CallsOK
  <2>3. server \in Server /\ m \in Messages
    BY <1>1 DEF IInv, TypeOK
  <2>4. (IF m.id = 0 THEN server.got ELSE server.got \cup {m}) \in SUBSET Messages
    BY <2>3 DEF Server
  <2>5. (IF IsCall(m) THEN server.calls + 1 ELSE server.calls) \in Nat
    BY <2>2, <2>3 DEF Server
  <2>6. (server.ready \/ m.id = 0) \in BOOLEAN
    OBVIOUS
  <2>7. server' = [server EXCEPT !.got = IF m.id = 0 THEN server.got ELSE server.got \cup {m},
                                 !.ready = server.ready \/ m.id = 0,
                                 !.calls = IF IsCall(m) THEN server.calls + 1 ELSE server.calls]
    <3>1. m = Head(inp)
      BY <1>1
    <3> QED
      BY <2>1, <2>3, <3>1 DEF ServerReads, IsCall, Server
  <2> HIDE DEF m
  <2> QED
    BY <2>2, <2>3, <2>4, <2>5, <2>6, <2>7 DEF Server
<1>4. TypeOK'
  BY <1>1, <1>3 DEF IInv, TypeOK
<1>5. ChildOK' /\ PlaceOK' /\ NumberingOK'
  BY DEF IInv, ChildOK, PlaceOK, NumberingOK, IsNumbered, IsRequest, At, Stdio
<1>6. SessionOK'
  BY <1>2, <1>3 DEF IInv, SessionOK
<1>7. IdsOK'
  <2>1. \A x : SentOK(x)' <=> SentOK(x)
    BY DEF SentOK, Waits, IsRequest, IsCurrent, At
  <2>2. \A i \in DOMAIN inp' : SentOK(inp'[i])
    BY <1>2 DEF IInv, IdsOK
  <2>3. \A x \in server'.got : x \in server.got \/ (x = m /\ m.id # 0)
    BY <1>3
  <2>4. SentOK(m) /\ (m.id # 0 => m.id > 0)
    BY <1>2, SentTyped DEF IInv, IdsOK
  <2>5. \A x \in server'.got : x.id > 0 /\ SentOK(x)
    BY <2>3, <2>4 DEF IInv, IdsOK
  <2> QED
    BY <2>1, <2>2, <2>5 DEF IdsOK
<1>8. CallsOK'
  <2>0. server'.calls <= 1
    BY <1>3 DEF IInv, CallsOK
  <2>1. \A i \in DOMAIN inp' : IsCall(inp'[i]) =>
           /\ server.calls = 0 /\ ~IsCall(m)
           /\ \A j \in DOMAIN inp' : IsCall(inp'[j]) => j = i
    <3> TAKE i \in DOMAIN inp'
    <3> HAVE IsCall(inp'[i])
    <3>1. IsCall(inp[i + 1]) /\ i + 1 \in DOMAIN inp /\ i + 1 # 1
      BY <1>2
    <3>2. server.calls = 0 /\ \A j \in DOMAIN inp : IsCall(inp[j]) => j = i + 1
      BY <3>1 DEF IInv, CallsOK
    <3>3. ~IsCall(m)
      BY <1>2, <3>1, <3>2
    <3>4. ASSUME NEW j \in DOMAIN inp', IsCall(inp'[j])
          PROVE  j = i
      <4>1. j + 1 = i + 1
        BY <1>2, <3>2, <3>4
      <4> QED
        BY <1>1, <4>1
    <3> QED
      BY <3>2, <3>3, <3>4
  <2>2. server'.calls = 1 => server.calls = 1 \/ IsCall(m)
    BY <1>3
  <2>3. \A x \in server'.got : IsCall(x) => server'.calls = 1
    BY <1>2, <1>3 DEF IInv, CallsOK
  <2>4. server'.calls = 1 \/ (\E i \in DOMAIN inp' : IsCall(inp'[i])) =>
           server.calls = 1 \/ (\E i \in DOMAIN inp : IsCall(inp[i]))
    BY <1>2, <2>2
  <2>5. server'.calls = 1 \/ (\E i \in DOMAIN inp' : IsCall(inp'[i])) =>
           /\ cmd.apply /\ cmd.consent /\ c.method = "tools/call"
           /\ ~At("start") /\ ~At("request") /\ ~At("writing")
    BY <2>4 DEF IInv, CallsOK
  <2>6. \A x : IsCall(x)' <=> IsCall(x)
    BY DEF IsCall
  <2>7. \A i \in DOMAIN inp' : IsCall(inp'[i]) => server'.calls = 0
    BY <1>3, <2>1
  <2> QED
    BY <2>0, <2>1, <2>3, <2>5, <2>7 DEF IInv, CallsOK, At, IsCall
<1>9. ReadyOK'
  <2>1. Told => Told'
    BY <1>2, <1>3 DEF Told
  <2>2. ASSUME NEW j \in DOMAIN inp', IsCall(inp'[j])
        PROVE  server'.ready \/ \E i \in DOMAIN inp' : i < j /\ inp'[i].id = 0
    <3>1. j + 1 \in DOMAIN inp /\ IsCall(inp[j + 1])
      BY <1>2, <2>2
    <3>2. server.ready \/ \E i \in DOMAIN inp : i < j + 1 /\ inp[i].id = 0
      BY <3>1 DEF IInv, ReadyOK
    <3>3. CASE server.ready
      BY <1>3, <3>3
    <3>4. CASE \E i \in DOMAIN inp : i < j + 1 /\ inp[i].id = 0
      <4>1. PICK i \in DOMAIN inp : i < j + 1 /\ inp[i].id = 0
        BY <3>4
      <4>2. CASE i = 1
        BY <1>3, <4>1, <4>2
      <4>3. CASE i # 1
        <5>1. i - 1 \in DOMAIN inp' /\ inp'[i - 1] = inp[i]
          BY <1>2, <4>3
        <5>2. i - 1 < j
          BY <1>1, <4>1
        <5> QED
          BY <4>1, <5>1, <5>2
      <4> QED
        BY <4>2, <4>3
    <3> QED
      BY <3>2, <3>3, <3>4
  <2>3. server'.calls = 1 => server'.ready
    <3>1. IsCall(m) => server.ready \/ \E i \in DOMAIN inp : i < 1 /\ inp[i].id = 0
      BY <1>2 DEF IInv, ReadyOK
    <3>2. IsCall(m) => server.ready
      BY <1>1, <3>1
    <3> QED
      BY <1>3, <3>2 DEF IInv, ReadyOK
  <2> QED
    BY <2>1, <2>2, <2>3 DEF IInv, ReadyOK, IsCall, At, Stdio
<1>10. AnswersOK' /\ CallDone'
  BY <1>2, <1>3 DEF IInv, AnswersOK, Backed, CallDone, CallsOK
<1>11. PagesOK' /\ ListIsWhole'
  BY <1>3, PagesKept, WholeKept DEF IInv, PagesOK
<1> QED
  BY <1>4, <1>5, <1>6, <1>7, <1>8, <1>9, <1>10, <1>11 DEF IInv

LEMMA SpeaksIInv ==
  ASSUME IInv, ServerSpeaks
  PROVE  IInv'
<1> UNCHANGED <<cmd, c, child, inp, server>>
  BY DEF ServerSpeaks
<1>1. PICK line : /\ out' = Append(out, line)
                  /\ line \in [kind : {"unasked", "invalid"}]
                         \cup {[kind |-> kind, id |-> m.id, method |-> m.method, page |-> m.page] :
                                 kind \in {"answer", "error"}, m \in server.got}
                         \cup {[kind |-> "hollow", id |-> id, method |-> "initialize", page |-> None] :
                                 id \in 1..MaxId}
  BY DEF ServerSpeaks
<1>2. line \in Lines /\ Backed(line)
  <2>1. CASE line \in [kind : {"unasked", "invalid"}]
    BY <2>1 DEF Lines, Backed
  <2>2. CASE line \in {[kind |-> kind, id |-> m.id, method |-> m.method, page |-> m.page] :
                          kind \in {"answer", "error"}, m \in server.got}
    <3>1. PICK kind \in {"answer", "error"}, m \in server.got :
             line = [kind |-> kind, id |-> m.id, method |-> m.method, page |-> m.page]
      BY <2>2
    <3>2. m \in Messages /\ m.id > 0
      BY DEF IInv, TypeOK, Server, IdsOK
    <3>3. m.id \in 1..MaxId /\ m.method \in Methods /\ m.page \in Pages
      BY <3>2, LimitsOK DEF Messages, MaxId
    <3> QED
      BY <3>1, <3>3 DEF Lines, Backed
  <2>3. CASE line \in {[kind |-> "hollow", id |-> id, method |-> "initialize", page |-> None] :
                          id \in 1..MaxId}
    BY <2>3 DEF Lines, Backed, Methods, Pages
  <2> QED
    BY <1>1, <2>1, <2>2, <2>3
<1>3. /\ out \in Seq(Lines) /\ out' \in Seq(Lines) /\ Len(out) \in Nat
      /\ DOMAIN out = 1..Len(out) /\ DOMAIN out' = 1..(Len(out) + 1)
      /\ \A i \in 1..Len(out) : out'[i] = out[i]
      /\ out'[Len(out) + 1] = line
  BY <1>1, <1>2, Appended DEF IInv, TypeOK
<1>4. AnswersOK'
  <2>1. \A i \in DOMAIN out' : Backed(out'[i])
    BY <1>2, <1>3 DEF IInv, AnswersOK
  <2> QED
    BY <2>1 DEF AnswersOK, Backed
<1>5. TypeOK' /\ ChildOK' /\ PlaceOK' /\ NumberingOK' /\ SessionOK'
  BY <1>3 DEF IInv, TypeOK, ChildOK, PlaceOK, NumberingOK, IsNumbered, SessionOK, At, Stdio,
     IsRequest
<1>6. IdsOK' /\ CallsOK' /\ ReadyOK' /\ CallDone'
  BY DEF IInv, IdsOK, SentOK, Waits, IsRequest, IsCurrent, CallsOK, IsCall, ReadyOK, Told,
         CallDone, At, Stdio
<1>7. PagesOK' /\ ListIsWhole'
  BY PagesKept, WholeKept DEF IInv, PagesOK
<1> QED
  BY <1>4, <1>5, <1>6, <1>7 DEF IInv

LEMMA ExitsIInv ==
  ASSUME IInv, ServerExits
  PROVE  IInv'
<1> child = "running" /\ child' = "gone" /\ UNCHANGED <<cmd, c, inp, out, server>>
  BY DEF ServerExits
<1>1. TypeOK' /\ PlaceOK' /\ NumberingOK' /\ SessionOK'
  BY DEF IInv, TypeOK, PlaceOK, NumberingOK, IsNumbered, SessionOK, At, Stdio, IsRequest
<1>2. ChildOK'
  BY DEF IInv, ChildOK, At, Stdio
<1>3. IdsOK' /\ CallsOK' /\ ReadyOK' /\ CallDone'
  BY DEF IInv, IdsOK, SentOK, Waits, IsRequest, IsCurrent, CallsOK, IsCall, ReadyOK, Told,
         CallDone, At, Stdio
<1>4. AnswersOK' /\ PagesOK' /\ ListIsWhole'
  BY AnswersKept, PagesKept, WholeKept DEF IInv, PagesOK
<1> QED
  BY <1>1, <1>2, <1>3, <1>4 DEF IInv

LEMMA RespondsIInv ==
  ASSUME IInv, GatewayResponds
  PROVE  IInv'
<1> UNCHANGED <<cmd, child, inp, out>> /\ At("posting") /\ c.pc = "posting" /\ inp = <<>>
  BY DEF GatewayResponds, At
<1>1. PICK session \in Sessions :
          server' = [server EXCEPT !.session = session] /\ c' = Responded(session)
  BY DEF GatewayResponds
<1>2. /\ c' \in Client /\ c'.pc = "body" /\ c'.result = c.result
      /\ c'.method = c.method /\ c'.id = c.id /\ c'.next_id = c.next_id
      /\ c'.cursor = c.cursor /\ c'.pages = c.pages /\ c'.tools = c.tools
      /\ c'.session = session
  BY <1>1 DEF Responded, IInv, TypeOK, Client
<1>3. /\ server' \in Server /\ server'.next = server.next /\ server'.size = server.size
      /\ server'.got = server.got /\ server'.ready = server.ready
      /\ server'.calls = server.calls /\ server'.session = session
  BY <1>1 DEF IInv, TypeOK, Server
<1>4. TypeOK' /\ ChildOK' /\ PlaceOK'
  BY <1>2, <1>3 DEF IInv, TypeOK, ChildOK, PlaceOK, At, Stdio, IsRequest
<1>5. NumberingOK' /\ SessionOK'
  <2>1. IsNumbered' <=> IsNumbered
    BY <1>2 DEF IsNumbered, IsRequest, At
  <2>2. DOMAIN inp' = {}
    OBVIOUS
  <2> QED
    BY <1>2, <1>3, <2>1, <2>2 DEF IInv, NumberingOK, SessionOK, At
<1>6. IdsOK' /\ CallsOK'
  BY <1>2, <1>3 DEF IInv, IdsOK, SentOK, Waits, IsRequest, IsCurrent, CallsOK, IsCall, At
<1>7. ReadyOK'
  BY <1>2, <1>3 DEF IInv, ReadyOK, Told, IsCall, At, Stdio
<1>8. AnswersOK' /\ CallDone'
  BY <1>2, <1>3 DEF IInv, AnswersOK, Backed, CallDone
<1>9. PagesOK' /\ ListIsWhole'
  BY <1>2, <1>3, PagesKept, WholeKept DEF IInv, PagesOK
<1> QED
  BY <1>4, <1>5, <1>6, <1>7, <1>8, <1>9 DEF IInv

---------------------------------------------------------------------------
(* The theorems on a session *)

LEMMA NextIInv ==
  ASSUME IInv, [Next]_vars
  PROVE  IInv'
<1>1. CASE ClientStep
  BY <1>1, StartIInv, WriteIInv, WriteBrokenIInv, PostIInv, FailedIInv, TakeLineIInv,
     TakeBodyIInv
  DEF ClientStep
<1>2. CASE Drain \/ ServerReads \/ ServerSpeaks \/ ServerExits \/ GatewayResponds
  BY <1>2, DrainIInv, ReadsIInv, SpeaksIInv, ExitsIInv, RespondsIInv
<1>3. CASE UNCHANGED vars
  <2> UNCHANGED <<cmd, c, child, inp, out, server>>
    BY <1>3 DEF vars
  <2>1. TypeOK' /\ ChildOK' /\ PlaceOK' /\ NumberingOK' /\ SessionOK'
    BY DEF IInv, TypeOK, ChildOK, PlaceOK, NumberingOK, IsNumbered, SessionOK, At, Stdio,
       IsRequest
  <2>2. IdsOK' /\ CallsOK' /\ ReadyOK' /\ CallDone'
    BY DEF IInv, IdsOK, SentOK, Waits, IsRequest, IsCurrent, CallsOK, IsCall, ReadyOK, Told,
           CallDone, At, Stdio
  <2>3. AnswersOK' /\ PagesOK' /\ ListIsWhole'
    BY AnswersKept, PagesKept, WholeKept DEF IInv, PagesOK
  <2> QED
    BY <2>1, <2>2, <2>3 DEF IInv
<1> QED
  BY <1>1, <1>2, <1>3 DEF Next

LEMMA InvariantHolds == Spec => []IInv
  BY InitIInv, NextIInv, PTL DEF Spec

\* Every variable of a session has its type, for every inventory and all limits.
THEOREM SessionTypes == Spec => []TypeOK
<1>1. IInv => TypeOK
  BY DEF IInv
<1> QED
  BY <1>1, InvariantHolds, PTL

\* A call is made at most once, with --apply, with consent and after the handshake, and is
\* reported as completed only if the server performed it: headless.rs, request and read_line.
THEOREM CallsGuarded == Spec => []CallGuarded
<1>1. IInv => CallGuarded
  <2> SUFFICES ASSUME IInv PROVE CallGuarded
    OBVIOUS
  <2>1. server.calls \in Nat /\ server.calls <= 1
    BY DEF IInv, TypeOK, Server, CallsOK
  <2>2. server.calls > 0 => server.calls = 1
    BY <2>1
  <2> QED
    BY <2>1, <2>2 DEF IInv, CallsOK, ReadyOK, CallDone, CallGuarded
<1> QED
  BY <1>1, InvariantHolds, PTL

\* The list of tools is the whole inventory, and one that the limits admit is never called
\* too large, for all limits: headless.rs, list_tools.
THEOREM ListsWhole == Spec => []ListIsWhole
<1>1. IInv => ListIsWhole
  BY DEF IInv
<1> QED
  BY <1>1, InvariantHolds, PTL

\* The server of a command that has returned does no more, because its child is reaped:
\* headless.rs, drop.
THEOREM StopsAtReturn == Spec => NothingAfterReturn
<1>1. IInv /\ [Next]_vars => [At("done") /\ Stdio => UNCHANGED server]_vars
  <2> SUFFICES ASSUME IInv, Next, At("done"), Stdio
               PROVE  UNCHANGED server
    OBVIOUS
  <2>1. child \in {"none", "reaped"}
    BY DEF IInv, ChildOK
  <2> QED
    BY <2>1 DEF Next, ClientStep, Start, Write, WriteBroken, Post, PostFailed, TakeLine,
       Timeout,
                Closed, TakeBody, Drain, ServerReads, Alive, ServerSpeaks, ServerExits,
                GatewayResponds, At
<1> QED
  BY <1>1, InvariantHolds, PTL DEF Spec, NothingAfterReturn

---------------------------------------------------------------------------
(* The client of the Server API. Its invariant: the age of a token is      *)
(* bounded at two places, while the reply is under way by the timeout of   *)
(* the client (MaxDelay), and in the cache, whose deadline is then at most MaxDelay   *)
(* late.                                                                   *)

\* A deadline is never later than MaxDelay after the server's own.
DeadlineBehind ==
    /\ cache # Absent => cache.expires_at <= cache.token + MaxDelay
    /\ RequestAt("issued") => now + rq.expires_in <= rq.token + MaxDelay

\* Where the request is says how often it was sent.
SentOfMutation ==
    rq.kind = "mutation" =>
        /\ RequestAt("gate") \/ RequestAt("resolve") \/ RequestAt("issued") \/ RequestAt("send")
               => rq.sent = 0 /\ rq.performed = 0 /\ rq.answer = Absent
        /\ RequestAt("resolve") \/ RequestAt("issued") \/ RequestAt("send") => apply

ApiInv == ApiTypeOK /\ DeadlineBehind /\ SentOfMutation /\ MutationSentOnce

LEMMA ApiInitInv == ApiInit => ApiInv
  BY NumbersOK DEF ApiInit, ApiInv, ApiTypeOK, DeadlineBehind, SentOfMutation,
     MutationSentOnce, Request,
                   Kinds, Answers, RequestAt

LEMMA CallInv ==
  ASSUME ApiInv, NEW kind \in Kinds, Call(kind)
  PROVE  ApiInv'
<1>1. rq' = [pc |-> "gate", kind |-> kind, attempt |-> 0, token |-> 0, expires_in |-> 0,
             sent |-> 0, performed |-> 0, answer |-> Absent]
  BY NumbersOK DEF Call, ApiInv, ApiTypeOK, Request, Kinds, Answers
<1>2. rq' \in Request
  BY <1>1, NumbersOK DEF ApiInv, ApiTypeOK, Request
<1>3. ApiTypeOK'
  BY <1>2, NumbersOK DEF Call, ApiInv, ApiTypeOK
<1>4. DeadlineBehind'
  BY <1>1 DEF Call, ApiInv, DeadlineBehind, RequestAt
<1>5. SentOfMutation' /\ MutationSentOnce'
  <2>1. rq'.pc = "gate" /\ rq'.sent = 0 /\ rq'.performed = 0 /\ rq'.answer = Absent
    BY <1>1
  <2> QED
    BY <2>1, AbsentNoAnswer DEF Answers, SentOfMutation, MutationSentOnce, RequestAt
<1> QED
  BY <1>3, <1>4, <1>5 DEF ApiInv

LEMMA GateInv ==
  ASSUME ApiInv, Gate
  PROVE  ApiInv'
  BY ZenonT(40), NumbersOK DEF ApiInv, ApiTypeOK, DeadlineBehind, SentOfMutation,
     MutationSentOnce, Request,
                   Kinds, Answers, RequestAt, Gate, Gated, Return

LEMMA UsePatInv ==
  ASSUME ApiInv, UsePat
  PROVE  ApiInv'
<1>1. /\ rq' = [rq EXCEPT !.pc = "send", !.attempt = 1, !.token = MaxTime + 1]
      /\ 1 \in 0..MAX_RETRIES /\ MaxTime + 1 \in Nat
  BY NumbersOK DEF UsePat, ApiInv, ApiTypeOK, Request, Kinds, Answers, Use
<1>2. rq' \in Request
  BY <1>1, NumbersOK DEF ApiInv, ApiTypeOK, Request
<1>3. ApiTypeOK'
  BY <1>2, NumbersOK DEF UsePat, ApiInv, ApiTypeOK
<1>4. DeadlineBehind' /\ SentOfMutation' /\ MutationSentOnce'
  BY <1>1, NumbersOK DEF UsePat, ApiInv, ApiTypeOK, Request, DeadlineBehind, SentOfMutation,
     MutationSentOnce, RequestAt, Use
<1> QED
  BY <1>3, <1>4 DEF ApiInv

LEMMA UseCachedInv ==
  ASSUME ApiInv, UseCached
  PROVE  ApiInv'
<1>1. /\ rq' = [rq EXCEPT !.pc = "send", !.attempt = 1, !.token = cache.token]
      /\ 1 \in 0..MAX_RETRIES /\ cache.token \in Nat
  BY NumbersOK DEF UseCached, ApiInv, ApiTypeOK, Request, Kinds, Answers, Use, Fresh
<1>2. rq' \in Request
  BY <1>1, NumbersOK DEF ApiInv, ApiTypeOK, Request
<1>3. ApiTypeOK'
  BY <1>2, NumbersOK DEF UseCached, ApiInv, ApiTypeOK
<1>4. DeadlineBehind' /\ SentOfMutation' /\ MutationSentOnce'
  BY <1>1, NumbersOK DEF UseCached, ApiInv, ApiTypeOK, Request, DeadlineBehind, SentOfMutation,
     MutationSentOnce, RequestAt, Use, Fresh
<1> QED
  BY <1>3, <1>4 DEF ApiInv

LEMMA IssueInv ==
  ASSUME ApiInv, IssueToken
  PROVE  ApiInv'
<1>1. PICK life \in Lifetimes :
          rq' = [rq EXCEPT !.pc = "issued", !.token = now + life, !.expires_in = life]
  BY DEF IssueToken
<1>2. life \in Nat /\ now \in Nat /\ now + life \in Nat /\ MaxDelay \in Nat
  BY NumbersOK DEF ApiInv, ApiTypeOK
<1>3. rq' \in Request
  BY <1>1, <1>2 DEF ApiInv, ApiTypeOK, Request
<1>4. ApiTypeOK'
  BY <1>3 DEF IssueToken, ApiInv, ApiTypeOK
<1>5. DeadlineBehind'
  <2>1. now' = now /\ cache' = cache
    BY DEF IssueToken
  <2>2. rq'.token = now + life /\ rq'.expires_in = life
    BY <1>1 DEF ApiInv, ApiTypeOK, Request
  <2> QED
    BY <1>2, <2>1, <2>2 DEF ApiInv, DeadlineBehind, RequestAt
<1>6. SentOfMutation' /\ MutationSentOnce'
  BY <1>1 DEF IssueToken, ApiInv, ApiTypeOK, Request, SentOfMutation, MutationSentOnce,
     RequestAt
<1> QED
  BY <1>4, <1>5, <1>6 DEF ApiInv

LEMMA ReceiveInv ==
  ASSUME ApiInv, ReceiveToken
  PROVE  ApiInv'
<1>1. /\ rq' = [rq EXCEPT !.pc = "send", !.attempt = 1, !.token = rq.token]
      /\ 1 \in 0..MAX_RETRIES /\ rq.token \in Nat
  BY NumbersOK DEF ReceiveToken, ApiInv, ApiTypeOK, Request, Kinds, Answers, Use
<1>2. rq' \in Request
  BY <1>1, NumbersOK DEF ApiInv, ApiTypeOK, Request
<1>3. ApiTypeOK'
  <2>1. now + rq.expires_in \in Nat /\ rq.token \in Nat
    BY DEF ApiInv, ApiTypeOK, Request
  <2>2. cache' \in [token : Nat, expires_at : Nat]
    BY <2>1 DEF ReceiveToken
  <2> QED
    BY <1>2, <2>2 DEF ReceiveToken, ApiInv, ApiTypeOK
<1>4. DeadlineBehind' /\ SentOfMutation' /\ MutationSentOnce'
  BY <1>1, NumbersOK DEF ReceiveToken, ApiInv, ApiTypeOK, Request, DeadlineBehind,
     SentOfMutation, MutationSentOnce, RequestAt, Use
<1> QED
  BY <1>3, <1>4 DEF ApiInv

LEMMA NoTokenInv ==
  ASSUME ApiInv, NoToken
  PROVE  ApiInv'
  BY NumbersOK DEF ApiInv, ApiTypeOK, DeadlineBehind, SentOfMutation, MutationSentOnce, Request,
                   Kinds, Answers, RequestAt, NoToken, Return

LEMMA CutInv ==
  ASSUME ApiInv, DownloadCut
  PROVE  ApiInv'
<1>1. rq' = [rq EXCEPT !.sent = @ + 1, !.pc = "idle", !.answer = "error"] /\ rq.sent + 1 \in Nat
  BY NumbersOK DEF DownloadCut, ApiInv, ApiTypeOK, Request, Kinds, Answers
<1>2. rq' \in Request
  BY <1>1, NumbersOK DEF ApiInv, ApiTypeOK, Request, Answers
<1>3. ApiTypeOK'
  BY <1>2, NumbersOK DEF DownloadCut, ApiInv, ApiTypeOK
<1>4. DeadlineBehind' /\ SentOfMutation' /\ MutationSentOnce'
  BY <1>1, NumbersOK DEF DownloadCut, ApiInv, ApiTypeOK, Request, DeadlineBehind,
     SentOfMutation, MutationSentOnce, RequestAt
<1> QED
  BY <1>3, <1>4 DEF ApiInv

\* The response decides alone whether a mutation is done with: it is not sent again.
LEMMA ExchangeInv ==
  ASSUME ApiInv, NEW status \in {"ok", "refused", "busy", "lost"}, NEW performed \in BOOLEAN,
         Exchange(status, performed)
  PROVE  ApiInv'
<1> DEFINE again == status = "busy" /\ Retryable(rq.kind) /\ rq.attempt < MAX_RETRIES
<1>1. rq' = [rq EXCEPT !.sent = @ + 1,
                       !.performed = IF performed THEN @ + 1 ELSE @,
                       !.attempt = IF again THEN @ + 1 ELSE @,
                       !.pc = IF again THEN "send" ELSE "idle",
                       !.answer = IF again THEN @ ELSE IF status = "ok" THEN "ok" ELSE "error"]
  BY DEF Exchange
<1>2. /\ mode' = mode /\ apply' = apply /\ now' = now /\ cache' = cache /\ calls' = calls
      /\ RequestAt("send") /\ (status = "ok" /\ Mutating(rq.kind) => performed)
  BY DEF Exchange
<1>3. again => rq.kind # "mutation"
  BY DEF Retryable
<1>4. ApiTypeOK'
  <2>1. /\ rq.sent + 1 \in Nat /\ (IF performed THEN rq.performed + 1 ELSE rq.performed) \in Nat
        /\ (IF again THEN rq.attempt + 1 ELSE rq.attempt) \in 0..MAX_RETRIES
    BY NumbersOK DEF ApiInv, ApiTypeOK, Request
  <2>2. /\ (IF again THEN "send" ELSE "idle") \in {"idle", "gate", "resolve", "issued", "send"}
        /\ (IF again THEN rq.answer ELSE IF status = "ok" THEN "ok" ELSE "error") \in Answers \cup {Absent}
    BY DEF ApiInv, ApiTypeOK, Request, Answers
  <2>3. rq' \in Request
    BY ZenonT(40), <1>1, <2>1, <2>2 DEF ApiInv, ApiTypeOK, Request, Answers
  <2> QED
    BY <1>2, <2>3 DEF ApiInv, ApiTypeOK
<1>5. DeadlineBehind'
  BY <1>1, <1>2 DEF ApiInv, ApiTypeOK, Request, DeadlineBehind, RequestAt
<1>6. SentOfMutation' /\ MutationSentOnce'
  <2> SUFFICES ASSUME rq.kind = "mutation"
               PROVE  SentOfMutation' /\ MutationSentOnce'
    BY <1>1 DEF ApiInv, ApiTypeOK, Request, SentOfMutation, MutationSentOnce
  <2>1. ~again /\ rq.sent = 0 /\ rq.performed = 0 /\ apply
    BY <1>2, <1>3 DEF ApiInv, SentOfMutation
  <2>2. rq'.pc = "idle" /\ rq'.sent = 1 /\ (rq'.answer = "ok" => status = "ok")
    BY <1>1, <2>1 DEF ApiInv, ApiTypeOK, Request
  <2>3. status = "ok" => rq'.performed = 1
    BY <1>1, <1>2, <2>1 DEF ApiInv, ApiTypeOK, Request, Mutating
  <2> QED
    BY <1>2, <2>1, <2>2, <2>3 DEF SentOfMutation, MutationSentOnce, RequestAt
<1> QED
  BY <1>4, <1>5, <1>6 DEF ApiInv

LEMMA TickInv ==
  ASSUME ApiInv, Tick
  PROVE  ApiInv'
  BY NumbersOK DEF ApiInv, ApiTypeOK, DeadlineBehind, SentOfMutation, MutationSentOnce,
     Request, RequestAt, Tick

LEMMA ApiNextInv ==
  ASSUME ApiInv, [ApiNext]_apiVars
  PROVE  ApiInv'
<1>1. CASE \E kind \in Kinds : Call(kind)
  BY <1>1, CallInv
<1>2. CASE Step
  BY <1>2, GateInv, UsePatInv, UseCachedInv, IssueInv, ReceiveInv, NoTokenInv, CutInv,
     ExchangeInv DEF Step
<1>3. CASE Tick
  BY <1>3, TickInv
<1>4. CASE UNCHANGED apiVars
  BY <1>4 DEF apiVars, ApiInv, ApiTypeOK, DeadlineBehind, SentOfMutation, MutationSentOnce,
     RequestAt
<1> QED
  BY <1>1, <1>2, <1>3, <1>4 DEF ApiNext

LEMMA ApiInvariantHolds == ApiSpec => []ApiInv
  BY ApiInitInv, ApiNextInv, PTL DEF ApiSpec

\* Every variable of the Server API client has its type.
THEOREM ApiTypes == ApiSpec => []ApiTypeOK
<1>1. ApiInv => ApiTypeOK
  BY DEF ApiInv
<1> QED
  BY <1>1, ApiInvariantHolds, PTL

\* A mutation is sent once and with --apply, for any number of retries: api_request and
\* request_json of ayx-server-api.
THEOREM SentOnce == ApiSpec => []MutationSentOnce
<1>1. ApiInv => MutationSentOnce
  BY DEF ApiInv
<1> QED
  BY <1>1, ApiInvariantHolds, PTL

\* A cached token is used less than the client's timeout minus the margin after its end, and
\* not after it if its reply came within the margin: for every timeout, margin and lifetime,
\* resolve_bearer_token of ayx-server-api.
THEOREM CacheBarelyStale == ApiSpec => StalenessBounded
<1>1. ApiInv /\ [ApiNext]_apiVars =>
         [RequestAt("resolve") /\ mode = "oauth2" /\ rq'.pc = "send" =>
             /\ now + Margin < rq'.token + MaxDelay
             /\ cache.expires_at <= cache.token + Margin => now < rq'.token]_apiVars
  <2> SUFFICES ASSUME ApiInv, ApiNext, RequestAt("resolve"), mode = "oauth2", rq'.pc = "send"
               PROVE  /\ now + Margin < rq'.token + MaxDelay
                      /\ cache.expires_at <= cache.token + Margin => now < rq'.token
    OBVIOUS
  <2>1. UseCached
    <3>1. CASE \E kind \in Kinds : Call(kind)
      BY <3>1 DEF Call, RequestAt
    <3>2. CASE Step
      BY <3>2 DEF Step, Gate, UsePat, IssueToken, ReceiveToken, NoToken, DownloadCut, Exchange,
                  Return, RequestAt, ApiInv, ApiTypeOK, Request
    <3>3. CASE Tick
      BY <3>3 DEF Tick, RequestAt
    <3> QED
      BY <3>1, <3>2, <3>3 DEF ApiNext
  <2>2. rq'.token = cache.token /\ cache # Absent /\ cache.expires_at > now + Margin
    BY <2>1 DEF UseCached, Use, Fresh, ApiInv, ApiTypeOK, Request
  <2>3. cache.expires_at <= cache.token + MaxDelay
    BY <2>2 DEF ApiInv, DeadlineBehind
  <2>4. cache.expires_at \in Nat /\ cache.token \in Nat /\ now \in Nat
    BY <2>2, NumbersOK DEF ApiInv, ApiTypeOK
  <2> QED
    BY <2>2, <2>3, <2>4, NumbersOK
<1> QED
  BY <1>1, ApiInvariantHolds, PTL DEF ApiSpec, StalenessBounded
=============================================================================
