----------------------------- MODULE McpSession -----------------------------
(***************************************************************************)
(* A command that talks to an MCP server (ayx-rs/src/headless.rs and       *)
(* cmd/headless.rs): the handshake, then either the tools page by page or  *)
(* one tool call. The server is a child process (stdio: a pipe to it, its  *)
(* lines through a reader thread and a channel) or a remote gateway (one   *)
(* HTTP exchange for each message). It reads, answers, answers again,      *)
(* speaks unasked and exits as it likes.                                   *)
(***************************************************************************)
EXTENDS Naturals, Sequences

CONSTANTS
    PageTokens,     \* cursors
    MaxPages,       \* MAX_TOOL_PAGES, 100 in the code
    MaxTools,       \* MAX_TOOLS, 2000 in the code
    MaxLines,       \* bound: lines the server has written and nobody has read
    None

ASSUME LimitsOK == MaxPages \in Nat \ {0} /\ MaxTools \in Nat \ {0} /\ MaxLines \in Nat \ {0}
ASSUME NoneIsNoCursor == None \notin PageTokens

Results == {"ok", "not_sent", "limit", "error"}
ASSUME NoneIsNoResult == None \notin Results

VARIABLES
    cmd,        \* the command
    c,          \* the client: McpSession or GatewaySession
    child,      \* the process of a stdio server
    inp,        \* messages on their way to the server
    out,        \* lines on their way to the client; the body of a gateway's response
    server

vars == <<cmd, c, child, inp, out, server>>

Pages == PageTokens \cup {None}
MaxId == MaxPages + 1
Sessions == 0..2    \* bound: 0 is no session id, 1 and 2 are ids a gateway gives out

\* big: the message of the call exceeds what the pipe to the child holds.
Commands == [transport : {"stdio", "gateway"}, kind : {"tools/list", "tools/call"},
             apply : BOOLEAN, consent : BOOLEAN, big : BOOLEAN]
Methods == {"initialize", "notifications/initialized", "tools/list", "tools/call"}
Messages == [id : 0..MaxId, method : Methods, page : Pages, session : Sessions]

\* answer: a result of the right shape; hollow: anything else with that id, a request of
\* the server's own included; unasked: no id; invalid: not JSON, or too long.
Lines == [kind : {"answer", "error", "hollow"}, id : 1..MaxId, method : Methods, page : Pages]
            \cup [kind : {"unasked", "invalid"}]

Client == [pc : {"start", "request", "writing", "await", "posting", "body", "done"},
           method : Methods, id : 0..MaxId, next_id : 1..(MaxId + 1), cursor : Pages,
           pages : Seq(Pages), tools : Nat, session : Sessions,
           result : Results \cup {None}]

\* What a server does: the inventory it publishes, what it has read, whether it has been
\* told that the client is ready, and how often it has performed a call.
Server == [next : [Pages -> Pages], size : [Pages -> {1, 2}], got : SUBSET Messages,
           ready : BOOLEAN, calls : Nat, session : Sessions]

\* Every variable has its type.
TypeOK ==
    /\ cmd \in Commands /\ c \in Client
    /\ child \in {"none", "running", "gone", "reaped"}
    /\ inp \in Seq(Messages) /\ out \in Seq(Lines)
    /\ server \in Server

Init ==
    /\ cmd \in {x \in Commands : x.kind = "tools/list" => ~x.apply /\ ~x.consent /\ ~x.big}
    /\ c = [pc |-> "start", method |-> "initialize", id |-> 0, next_id |-> 1, cursor |-> None,
            pages |-> <<>>, tools |-> 0, session |-> 0, result |-> None]
    /\ child = "none" /\ inp = <<>> /\ out = <<>>
    /\ \E next \in [Pages -> Pages], size \in [Pages -> {1, 2}] :
          /\ cmd.kind = "tools/call" => next = [p \in Pages |-> None] /\ size = [p \in Pages |-> 1]
          /\ server = [next |-> next, size |-> size, got |-> {}, ready |-> FALSE,
                       calls |-> 0, session |-> 0]

At(place) == c.pc = place
Stdio == cmd.transport = "stdio"

---------------------------------------------------------------------------
(* The command and its session *)

\* Mutant of Dropped: a session that never got ready keeps its child.
DroppedWhenReady == IF c.method = "tools/call" THEN "reaped" ELSE child

\* Drop: the child is killed and waited for.
Dropped == IF child = "none" THEN "none" ELSE "reaped"

\* The client is now as in new; a command that returns drops its session.
Becomes(new) == c' = new /\ child' = IF new.pc = "done" THEN Dropped ELSE child

Returned(result) == [c EXCEPT !.pc = "done", !.result = result]

\* A call without --apply is only described, one nobody confirms is refused.
Withheld == cmd.kind = "tools/call" /\ ~(cmd.apply /\ cmd.consent)

\* execute_call, execute_tools: the gates, then McpSession::spawn, which kills the child
\* when a reader thread cannot be started, or GatewaySession::connect.
Start ==
    /\ At("start")
    /\ \/ Withheld /\ c' = Returned("not_sent") /\ UNCHANGED child
       \/ ~Withheld /\ c' = Returned("error") /\ child' \in IF Stdio THEN {"none", "reaped"} ELSE {child}
       \/ /\ ~Withheld
          /\ c' = [c EXCEPT !.pc = "request"]
          /\ child' = IF Stdio THEN "running" ELSE child
    /\ UNCHANGED <<cmd, inp, out, server>>

IsRequest == c.method # "notifications/initialized"

\* The message of this step and the client that has numbered it.
Message == [id |-> IF IsRequest THEN c.next_id ELSE 0, method |-> c.method,
            page |-> IF c.method = "tools/list" THEN c.cursor ELSE None, session |-> c.session]
Numbered == IF IsRequest THEN [c EXCEPT !.id = c.next_id, !.next_id = @ + 1] ELSE c

\* What follows the notification of the handshake.
Ready == [c EXCEPT !.pc = "request", !.method = cmd.kind]

\* write_message: into the pipe, as far as it goes in, or EPIPE.
Write ==
    /\ At("request") /\ Stdio
    /\ IF child = "gone" THEN Becomes(Returned("error")) /\ UNCHANGED inp
       ELSE IF cmd.big /\ c.method = "tools/call"
       THEN Becomes([Numbered EXCEPT !.pc = "writing"]) /\ UNCHANGED inp
       ELSE /\ Becomes(IF IsRequest THEN [Numbered EXCEPT !.pc = "await"] ELSE Ready)
            /\ inp' = Append(inp, Message)
    /\ UNCHANGED <<cmd, out, server>>

\* write_all has no timeout: it ends when the server has read the rest or is gone.
WriteBroken ==
    /\ At("writing") /\ child = "gone"
    /\ Becomes(Returned("error"))
    /\ UNCHANGED <<cmd, inp, out, server>>

Drain ==
    /\ At("writing") /\ child = "running"
    /\ c' = [c EXCEPT !.pc = "await"]
    /\ inp' = Append(inp, [Message EXCEPT !.id = c.id])
    /\ UNCHANGED <<cmd, child, out, server>>

\* post: one message, one response.
Post ==
    /\ At("request") /\ ~Stdio
    /\ Becomes([Numbered EXCEPT !.pc = "posting"])
    /\ inp' = <<Message>> /\ out' = <<>>
    /\ UNCHANGED <<cmd, server>>

\* No response, a status that is not 2xx, or a response that is too long. The message
\* may be on its way all the same.
PostFailed ==
    /\ At("posting")
    /\ Becomes(Returned("error"))
    /\ UNCHANGED <<cmd, inp, out, server>>

\* Mutant of Listed: what the limit admits is the inventory.
Truncated(page) ==
    LET l == [c EXCEPT !.pages = Append(@, page), !.tools = @ + server.size[page],
                       !.cursor = server.next[page], !.pc = "request"]
    IN  IF l.tools > MaxTools THEN Returned("limit")
        ELSE IF l.cursor = None \/ Len(l.pages) = MaxPages
        THEN [l EXCEPT !.pc = "done", !.result = "ok"]
        ELSE l

\* The page of tools and whether there is another one.
Listed(page) ==
    LET l == [c EXCEPT !.pages = Append(@, page), !.tools = @ + server.size[page],
                       !.cursor = server.next[page], !.pc = "request"]
    IN  IF l.tools > MaxTools THEN Returned("limit")
        ELSE IF l.cursor = None THEN [l EXCEPT !.pc = "done", !.result = "ok"]
        ELSE IF Len(l.pages) = MaxPages THEN Returned("limit")
        ELSE l

\* The result of the request; a list of tools is looked for in the result.
Accepted(line) ==
    IF line.kind # "answer" THEN Returned("error")
    ELSE IF c.method = "initialize"
    THEN [c EXCEPT !.pc = "request", !.method = "notifications/initialized"]
    ELSE IF c.method = "tools/list"
    THEN IF line.method = "tools/list" THEN Listed(line.page) ELSE Returned("error")
    ELSE Returned("ok")

\* Notifications and unrelated responses are passed over.
IsReply(line) == line.kind \notin {"unasked", "invalid"} /\ line.id = c.id

\* read_line: one line of the channel. A line that is not JSON ends the session.
TakeLine ==
    /\ At("await") /\ out # <<>>
    /\ LET line == Head(out)
       IN  Becomes(IF line.kind = "invalid" THEN Returned("error")
                   ELSE IF IsReply(line) THEN Accepted(line) ELSE c)
    /\ out' = Tail(out)
    /\ UNCHANGED <<cmd, inp, server>>

\* Mutants of Timeout: the request is sent again; recv without a timeout.
TimeoutResends ==
    /\ At("await")
    /\ Becomes([c EXCEPT !.pc = "request"])
    /\ UNCHANGED <<cmd, inp, out, server>>

NoTimeout == FALSE /\ UNCHANGED vars

\* recv_timeout: a whole period without a line.
Timeout ==
    /\ At("await")
    /\ Becomes(Returned("error"))
    /\ UNCHANGED <<cmd, inp, out, server>>

\* The channel is empty and its sender gone.
Closed ==
    /\ At("await") /\ out = <<>> /\ child = "gone"
    /\ Becomes(Returned("error"))
    /\ UNCHANGED <<cmd, inp, out, server>>

\* The body: the first message with the id; what is not JSON is passed over. The response
\* to the notification is empty or has a message.
Replies == {i \in DOMAIN out : IsReply(out[i])}
TakeBody ==
    /\ At("body")
    /\ IF ~IsRequest
       THEN Becomes(IF out = <<>> \/ \E i \in DOMAIN out : out[i].kind # "invalid"
                    THEN Ready ELSE Returned("error"))
       ELSE \/ Replies = {} /\ Becomes(Returned("error"))
            \/ \E i \in Replies : (\A j \in Replies : i <= j) /\ Becomes(Accepted(out[i]))
    /\ UNCHANGED <<cmd, inp, out, server>>

ClientStep ==
    Start \/ Write \/ WriteBroken \/ Post \/ PostFailed \/ TakeLine \/ Timeout \/ Closed \/ TakeBody

---------------------------------------------------------------------------
(* The server *)

\* A child runs; a gateway is there, also for a message whose sender has left.
Alive == IF Stdio THEN child = "running" ELSE TRUE

\* It reads a message and does what it says. A gateway refuses another session's.
ServerReads ==
    /\ Alive /\ inp # <<>>
    /\ LET m == Head(inp)
           accepted == m.session = server.session
       IN  server' =
             IF ~accepted THEN server
             ELSE [server EXCEPT !.got = IF m.id = 0 THEN @ ELSE @ \cup {m},
                                 !.ready = @ \/ m.id = 0,
                                 !.calls = IF m.method = "tools/call" THEN @ + 1 ELSE @]
    /\ inp' = Tail(inp)
    /\ UNCHANGED <<cmd, c, child, out>>

\* It writes a line: an answer to any message it has read, for the first or another time,
\* or something nobody asked for, perhaps a request of its own under any id.
ServerSpeaks ==
    /\ Alive /\ Len(out) < MaxLines /\ (Stdio \/ At("posting"))
    /\ \E line \in [kind : {"unasked", "invalid"}]
            \cup {[kind |-> kind, id |-> m.id, method |-> m.method, page |-> m.page] :
                    kind \in {"answer", "error"}, m \in server.got}
            \cup {[kind |-> "hollow", id |-> id, method |-> "initialize", page |-> None] :
                    id \in 1..MaxId} :
          out' = Append(out, line)
    /\ UNCHANGED <<cmd, c, child, inp, server>>

ServerExits ==
    /\ child = "running"
    /\ child' = "gone"
    /\ UNCHANGED <<cmd, c, inp, out, server>>

\* The response is there in full, with a session id or without.
Responded(session) == [c EXCEPT !.pc = "body", !.session = session]

GatewayResponds ==
    /\ At("posting") /\ inp = <<>>
    /\ \E session \in {s \in Sessions : s \in server.session..(server.session + 1)} :
          /\ server' = [server EXCEPT !.session = session]
          /\ c' = Responded(session)
    /\ UNCHANGED <<cmd, child, inp, out>>

Next ==
    \/ ClientStep
    \/ Drain \/ ServerReads \/ ServerSpeaks \/ ServerExits \/ GatewayResponds

Spec == Init /\ [][Next]_vars

\* The client goes on; the server owes nothing.
FairSpec == Spec /\ WF_vars(ClientStep)

---------------------------------------------------------------------------
(* Properties *)

\* A tool is called at most once, whatever becomes of the answer, only with --apply and consent, by a client that has
\* ended the handshake ("MCP session must be initialized before tool operations"), and a
\* call is reported as completed only if it was performed: not for an answer to another
\* request that came late or twice.
CallGuarded ==
    /\ server.calls <= 1
    /\ server.calls > 0 => cmd.apply /\ cmd.consent /\ server.ready
    /\ cmd.kind = "tools/call" /\ c.result = "ok" => server.calls = 1

\* The inventory, page by page: n pages, each the next of the one before it, and how many
\* tools there are up to each.
Inventory(n, pages, tools) ==
    /\ pages[1] = None /\ server.next[pages[n]] = None
    /\ \A i \in 1..(n - 1) : pages[i + 1] = server.next[pages[i]] /\ pages[i + 1] # None
    /\ tools[0] = 0
    /\ \A i \in 1..n : tools[i] = tools[i - 1] + server.size[pages[i]]

\* The limits admit it.
Fits ==
    \E n \in 1..MaxPages :
        \E pages \in [1..n -> Pages], tools \in [0..n -> 0..MaxTools] : Inventory(n, pages, tools)

\* Tools are listed, or found missing, from the whole inventory, each page once, whatever
\* else the server says in between. It is called too large only if it is: not when its
\* last page, or its last tool, is the last one the limits admit.
ListIsWhole ==
    /\ cmd.kind = "tools/list" /\ c.result = "ok" =>
           LET n == Len(c.pages)
           IN  /\ n \in 1..MaxPages
               /\ \E tools \in [0..n -> 0..MaxTools] : Inventory(n, c.pages, tools)
    /\ c.result = "limit" => ~Fits

\* Nothing goes on behind a command that has returned: a child that is slow, or was sent
\* a call and timed out, does no more.
NothingAfterReturn == [][At("done") /\ Stdio => UNCHANGED server]_vars

\* A command ends, unless its server never stops to speak or never reads a message that
\* is too long for the pipe.
CommandEnds == <>At("done") \/ []<><<ServerSpeaks>>_vars \/ <>[]At("writing")
=============================================================================
