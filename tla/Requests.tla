------------------------------ MODULE Requests ------------------------------
(***************************************************************************)
(* Requests on one connection of the JSON-RPC server: httpserver.py takes    *)
(* them from what networkserver.py reads, jsonrpcserver.py answers them.    *)
(* A client may send the next before it has the answer; a read may end      *)
(* anywhere.  Work is done by the event loop alone.                         *)
(*                                                                         *)
(* A request is [auth, malformed, target, body, close]: the user its        *)
(* Authorization header is good for (None without one, Bad if it cannot be   *)
(* read), whether another header cannot be read, what it asks for, whether   *)
(* there is a body, and whether the connection is to end with it.           *)
(***************************************************************************)
EXTENDS Naturals, Sequences, FiniteSets

CONSTANTS
  Kinds,        \* the requests a client may send
  MaxRequests,  \* bound on them
  None, Bad

VARIABLES
  requests,   \* history: what was sent
  wire,       \* the header blocks and bodies that were sent and not read
  con,        \* the JSONRPCHandler
  answers,    \* history: [n, status] of each answer pushed, n the request's place
  executed    \* history: [n, user] of each call made

vars == <<requests, wire, con, answers, executed>>

Targets == {"call", "longpoll", "source", "nowhere", "nomethod"}

NewHandler ==
  [open |-> TRUE, closeme |-> FALSE, wbuf |-> FALSE, task |-> "timeout",
   buffer |-> <<>>, expects |-> "headers", garbled |-> FALSE,
   n |-> 0, user |-> None, closing |-> FALSE, replySent |-> FALSE, LP |-> FALSE]
Init ==
  /\ requests = <<>> /\ wire = <<>>
  /\ con = NewHandler
  /\ answers = <<>> /\ executed = <<>>

-----------------------------------------------------------------------------
\* What several steps do to a handler h.

\* close: with something left to send, that goes first.
CloseSocket(h) ==
  IF h.wbuf THEN [h EXCEPT !.closeme = TRUE]
  ELSE [h EXCEPT !.open = FALSE, !.task = IF h.open THEN None ELSE @]
HandleClose(h) == CloseSocket([h EXCEPT !.wbuf = FALSE, !.LP = FALSE])

\* push: sent at once, or kept, or too much for the write buffer.
Pushed(h) ==
  (IF h.wbuf THEN {} ELSE {h}) \cup {[h EXCEPT !.wbuf = TRUE], HandleClose(h)}

\* (The time-out is left to the first request.)
ResetNoTimer(h) ==
  LET fresh == [h EXCEPT !.replySent = FALSE, !.expects = "headers", !.garbled = FALSE, !.LP = FALSE]
  IN IF h.closing THEN CloseSocket(fresh) ELSE fresh
ResetRequest(h) ==
  LET fresh == [h EXCEPT !.replySent = FALSE, !.expects = "headers", !.garbled = FALSE,
                         !.LP = FALSE, !.task = "timeout"]
  IN IF h.closing THEN CloseSocket(fresh) ELSE fresh

\* sendReply for the request in hand.  On a closed socket push raises.
Replied(h, status) == answers' = Append(answers, [n |-> h.n, status |-> status])
SendReply(h, status) ==
  IF h.open
  THEN /\ \E sent \in Pushed([h EXCEPT !.replySent = TRUE]) : con' = ResetRequest(sent)
       /\ Replied(h, status)
  ELSE con' = [h EXCEPT !.replySent = TRUE] /\ UNCHANGED answers

-----------------------------------------------------------------------------
\* The client.

Send(kind) ==
  LET n == Len(requests) + 1
      part(p) == [n |-> n, part |-> p]
  IN /\ n <= MaxRequests
     /\ requests' = Append(requests, kind)
     /\ wire' = wire \o (IF kind.body THEN <<part("headers"), part("body")>> ELSE <<part("headers")>>)
     /\ UNCHANGED <<con, answers, executed>>

-----------------------------------------------------------------------------
\* handle_read and handle_readbuf.

InLoop == con.buffer = <<>>      \* nothing is being handled
\* All input of a socket that is to be closed is ignored.
Read(k) ==
  /\ InLoop /\ con.open
  /\ k \in 1 .. Len(wire)
  /\ wire' = SubSeq(wire, k + 1, Len(wire))
  /\ con' = IF con.closeme THEN con ELSE [con EXCEPT !.buffer = SubSeq(wire, 1, k)]
  /\ UNCHANGED <<requests, answers, executed>>

Next_part == Head(con.buffer)
Taken(h) == [h EXCEPT !.buffer = Tail(@)]

\* No terminator: it is all collected, and never looked at.  A body without the
\* header it belongs to becomes the beginning of the next request.
Collect ==
  /\ ~ InLoop
  /\ \/ con.expects = "nothing" /\ con' = Taken(con)
     \/ con.expects = "headers" /\ Next_part.part = "body" /\ con' = [Taken(con) EXCEPT !.garbled = TRUE]
  /\ UNCHANGED <<requests, wire, answers, executed>>

\* (The user name of the request before stays.)
KeptUser(kind) == IF kind.auth \in {None, Bad} THEN con.user ELSE kind.auth
UserOf(kind) == IF kind.auth = Bad THEN None ELSE kind.auth

\* parse_headers.  A bad Authorization header is answered at once, and the
\* request handled all the same; another one that cannot be read ends it.
Parsed(kind, close) ==
  [Taken(con) EXCEPT !.n = Next_part.n, !.user = UserOf(kind), !.closing = close,
                     !.expects = IF kind.body THEN "body" ELSE "handle"]
Unreadable(h) == [HandleClose(h) EXCEPT !.buffer = <<>>, !.expects = "headers"]
HeadersRead(kind, h) ==
  \/ /\ kind.malformed \/ (kind.auth = Bad /\ ~ h.open)
     /\ con' = Unreadable(h) /\ UNCHANGED answers
  \/ /\ ~ kind.malformed /\ kind.auth # Bad
     /\ con' = h /\ UNCHANGED answers
  \/ /\ ~ kind.malformed /\ kind.auth = Bad /\ h.open
     /\ con' \in Pushed([h EXCEPT !.replySent = TRUE])
     /\ Replied(h, 500)
ParseHeaders ==
  /\ ~ InLoop /\ con.expects = "headers" /\ Next_part.part = "headers"
  /\ LET kind == requests[Next_part.n]
     IN \E close \in {kind.close} \cup (IF con.garbled THEN {TRUE} ELSE {}) :
          HeadersRead(kind, Parsed(kind, close))
  /\ UNCHANGED <<requests, wire, executed>>

TakeBody ==
  /\ ~ InLoop /\ con.expects = "body"
  /\ con' = [Taken(con) EXCEPT !.expects = "handle"]
  /\ UNCHANGED <<requests, wire, answers, executed>>

-----------------------------------------------------------------------------
\* found_terminator and handle_request.

Handling == con.expects = "handle"
InHand == requests[con.n]
\* No terminator from now on; what is raised other than RequestHandled is
\* logged, and leaves it so.
Listening(h) == [h EXCEPT !.expects = "nothing"]

\* What cannot be handled, and what needs no user.
Refusal ==
  IF con.garbled \/ InHand.target = "nomethod" THEN 405
  ELSE IF InHand.target = "nowhere" THEN 404
  ELSE IF InHand.target = "source" THEN 200
  ELSE IF con.user = None THEN 401
  ELSE IF InHand.target = "call" /\ ~ InHand.body THEN 500
  ELSE 0

AlreadyHandled ==
  /\ Handling /\ con.replySent
  /\ con' = Listening(con)
  /\ UNCHANGED <<requests, wire, answers, executed>>
Refuse ==
  /\ Handling /\ ~ con.replySent /\ Refusal # 0
  /\ SendReply(Listening(con), Refusal)
  /\ UNCHANGED <<requests, wire, executed>>

\* The call is made, or raises.
Execute == executed' = Append(executed, [n |-> con.n, user |-> con.user])
Call ==
  /\ Handling /\ ~ con.replySent /\ Refusal = 0 /\ InHand.target = "call"
  /\ Execute
  /\ \E status \in {200, 500} : SendReply(Listening(con), status)
  /\ UNCHANGED <<requests, wire>>

\* doLongpoll: no time-out while it waits.
DoLongpoll ==
  /\ Handling /\ ~ con.replySent /\ Refusal = 0 /\ InHand.target = "longpoll"
  /\ con' = [Listening(con) EXCEPT !.LP = TRUE, !.task = None]
  /\ UNCHANGED <<requests, wire, answers, executed>>

\* wakeLongpoll: there is new work.  The request is reset, whatever happens.
WakeLongpoll ==
  /\ InLoop /\ con.LP
  /\ Execute
  /\ IF con.open THEN SendReply(con, 200)
     ELSE con' = ResetRequest(con) /\ UNCHANGED answers
  /\ UNCHANGED <<requests, wire>>

-----------------------------------------------------------------------------
\* handle_timeout, handle_write, and what ends a connection.

Timeout ==
  /\ InLoop /\ con.task = "timeout"
  /\ con' = CloseSocket([con EXCEPT !.task = None])
  /\ UNCHANGED <<requests, wire, answers, executed>>
Write ==
  /\ InLoop /\ con.open /\ con.wbuf
  /\ LET h == [con EXCEPT !.wbuf = FALSE] IN con' = IF h.closeme THEN CloseSocket(h) ELSE h
  /\ UNCHANGED <<requests, wire, answers, executed>>
Drop ==
  /\ InLoop /\ con.open
  /\ con' = HandleClose(con)
  /\ UNCHANGED <<requests, wire, answers, executed>>

Next ==
  \/ \E kind \in Kinds : Send(kind)
  \/ \E k \in 1 .. 2 * MaxRequests : Read(k)
  \/ Collect \/ ParseHeaders \/ TakeBody
  \/ AlreadyHandled \/ Refuse \/ Call \/ DoLongpoll \/ WakeLongpoll
  \/ Timeout \/ Write \/ Drop
Spec == Init /\ [][Next]_vars

-----------------------------------------------------------------------------
\* What a request may be answered, looked at by itself.  (405 is also the
\* answer to one that begins with the body of another.)
OwnAnswers(kind) ==
  {405} \cup
  (IF kind.auth = Bad THEN {500}
   ELSE IF kind.target = "nowhere" THEN {404}
   ELSE IF kind.target = "source" THEN {200}
   ELSE IF kind.target = "nomethod" THEN {}
   ELSE IF kind.auth = None THEN {401}
   ELSE {200, 500})

\* Whatever is sent behind whatever else, on a connection that is kept, ends or
\* has ended: calls are made in the order they were sent and answers go out in
\* that order, at most one for each request and its own; each call is made with
\* the name that its request carried, and a call's answer says it was made.
EachItsOwn ==
  /\ \A i, j \in DOMAIN answers : i < j => answers[i].n < answers[j].n
  /\ \A i, j \in DOMAIN executed : i < j => executed[i].n < executed[j].n
  /\ \A i \in DOMAIN answers : answers[i].status \in OwnAnswers(requests[answers[i].n])
  /\ \A i \in DOMAIN executed : executed[i].user = requests[executed[i].n].auth /\ executed[i].user \notin {None, Bad}
  /\ \A i \in DOMAIN answers :
       answers[i].status = 200 /\ requests[answers[i].n].target \in {"call", "longpoll"}
         => \E j \in DOMAIN executed : executed[j].n = answers[i].n

\* A connection that is open and no longer listens (its request failed, or was
\* answered before it was handled) is closed before long, unless it waits in a
\* longpoll, or has only to send what is left.
DeafIsTimed ==
  con.open /\ con.expects = "nothing" => con.LP \/ con.closeme \/ con.task = "timeout"
=============================================================================
