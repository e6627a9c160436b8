------------------------------ MODULE Longpoll ------------------------------
(***************************************************************************)
(* Longpolls of the JSON-RPC server (jsonrpcserver.py): requests that wait   *)
(* for new work, woken all at once by the event loop some time after the    *)
(* threads that follow the chain have called wakeLongpoll.                  *)
(***************************************************************************)
EXTENDS Naturals, FiniteSets

CONSTANTS
  Clients,      \* connections
  Announcers,   \* threads that call wakeLongpoll
  MaxId,        \* bound on announcements that are not ignored
  None

VARIABLES
  LPRequest,  \* 0: False; 1: asked for; 2: scheduled
  LPId,       \* the number in server.LPId
  resting,    \* _LPWaitTime has not come yet
  due,        \* _actualLP is scheduled
  con,        \* the JSONRPCHandler of each connection
  tracked,    \* LPTracking (one address, one user)
  loop,       \* where the event loop is
  thread      \* where the other threads are

server == <<LPRequest, LPId, resting, due>>
vars == <<server, con, tracked, loop, thread>>

Closed == [open |-> FALSE, lp |-> FALSE, known |-> FALSE, early |-> FALSE,
           wake |-> FALSE, byId |-> FALSE, id |-> None]
Idle == [pc |-> "idle", con |-> None, left |-> {}]
\* A reply of _actualLP goes on there, any other one ends its turn of the loop.
Back(pc, left) == IF pc = "lp" THEN [Idle EXCEPT !.pc = pc, !.left = left] ELSE Idle
At(pc) == loop.pc = pc

-----------------------------------------------------------------------------
\* wakeLongpoll, called by blockChanged (wantClear) and updateBlocks. Which template
\* the woken clients then get is not modelled here.

Announce(t) ==
  /\ thread[t] = "idle" /\ LPId < MaxId
  /\ thread' = [thread EXCEPT ![t] = "wake"]
  /\ UNCHANGED <<server, con, tracked, loop>>

Goto(t, pc) == thread' = [thread EXCEPT ![t] = pc]
Test(t) ==
  /\ thread[t] = "wake"
  /\ Goto(t, IF LPRequest # 0 THEN "idle" ELSE "id")
  /\ UNCHANGED <<server, con, tracked, loop>>
NewId(t) ==
  /\ thread[t] = "id"
  /\ LPId' = LPId + 1
  /\ Goto(t, "request")
  /\ UNCHANGED <<LPRequest, resting, due, con, tracked, loop>>
Ask(t) ==
  /\ thread[t] = "request"
  /\ LPRequest' = 1
  /\ Goto(t, "idle")
  /\ UNCHANGED <<LPId, resting, due, con, tracked, loop>>
WakeLongpoll(t) == Test(t) \/ NewId(t) \/ Ask(t)

-----------------------------------------------------------------------------
\* Requests.

Connect(c) ==
  /\ At("idle") /\ ~con[c].open
  /\ con' = [con EXCEPT ![c] = [Closed EXCEPT !.open = TRUE]]
  /\ UNCHANGED <<server, tracked, loop, thread>>

\* doLongpoll: the handler waits (again), not to be woken before MinWait is over.
Waiting(h) == [h EXCEPT !.lp = TRUE, !.known = TRUE, !.early = TRUE, !.wake = FALSE]

\* getblocktemplate takes the work first, then (Reply) the id it is to be told from.
Work(c, pc, left) == loop' = [pc |-> pc, con |-> c, left |-> left]
GetTemplate(c) ==
  /\ At("idle") /\ con[c].open /\ ~con[c].lp
  /\ Work(c, "reply", {})
  /\ UNCHANGED <<server, con, tracked, thread>>

\* /LP without parameters, or getblocktemplate with a longpollid (processLP)
\* that is still the present one.
LongpollAlways(c) ==
  /\ At("idle") /\ con[c].open /\ ~con[c].lp
  /\ con' = [con EXCEPT ![c] = [Waiting(@) EXCEPT !.byId = FALSE]]
  /\ tracked' = tracked + 1
  /\ UNCHANGED <<server, loop, thread>>
LongpollById(c) ==
  /\ At("idle") /\ con[c].open /\ ~con[c].lp
  /\ IF con[c].id = LPId
       THEN /\ con' = [con EXCEPT ![c] = [Waiting(@) EXCEPT !.byId = TRUE]]
            /\ tracked' = tracked + 1
            /\ UNCHANGED loop
       ELSE Work(c, "reply", {}) /\ UNCHANGED <<con, tracked>>
  /\ UNCHANGED <<server, thread>>

\* The reply, with the id of this moment; reset_request ends the longpoll.
Reply ==
  /\ loop.con # None
  /\ con' = [con EXCEPT ![loop.con] = [@ EXCEPT !.lp = FALSE, !.id = LPId]]
  /\ loop' = Back(loop.pc, loop.left)
  /\ UNCHANGED <<server, tracked, thread>>

\* handle_close: cleanupLP of a handler that is in a longpoll.
Close(c) ==
  /\ At("idle") /\ con[c].open
  /\ tracked' = IF con[c].lp THEN tracked - 1 ELSE tracked
  /\ con' = [con EXCEPT ![c] = Closed]
  /\ UNCHANGED <<server, loop, thread>>
MinWaitOver(c) ==
  /\ con[c].early
  /\ con' = [con EXCEPT ![c].early = FALSE]
  /\ UNCHANGED <<server, tracked, loop, thread>>

-----------------------------------------------------------------------------
\* The event loop wakes the handlers.

\* _LPsch, in pre_schedule: at once, or when the last longpoll is long enough ago.
\* (The task is not scheduled.)
OnlyMark ==
  /\ At("idle") /\ LPRequest = 1 /\ resting
  /\ LPRequest' = 2
  /\ UNCHANGED <<due, LPId, resting, con, tracked, loop, thread>>
LPsch ==
  /\ At("idle") /\ LPRequest = 1 /\ resting
  /\ due' = TRUE /\ LPRequest' = 2
  /\ UNCHANGED <<LPId, resting, con, tracked, loop, thread>>

\* _actualLP takes the handlers out before it wakes them: some wait again at once.
ActualLP ==
  /\ At("idle") /\ ~resting /\ (LPRequest = 1 \/ due)
  /\ LPRequest' = 0
  /\ due' = (due /\ LPRequest = 1)
  /\ LET waiting == {c \in Clients : con[c].known} IN
     loop' = IF waiting = {} THEN Idle ELSE Back("lp", waiting)
  /\ con' = [c \in Clients |-> [con[c] EXCEPT !.known = FALSE]]
  /\ UNCHANGED <<LPId, resting, tracked, thread>>
RestOver ==
  /\ resting /\ resting' = FALSE
  /\ UNCHANGED <<LPRequest, LPId, due, con, tracked, loop, thread>>

\* Handler.wakeLongpoll: the call is made again, with its longpollid; what waits
\* for the present id goes on waiting.
Woken(c, pc, left) ==
  IF con[c].byId /\ con[c].id = LPId
    THEN /\ con' = [con EXCEPT ![c] = Waiting(@)]
         /\ loop' = Back(pc, left)
         /\ UNCHANGED tracked
    ELSE /\ con' = [con EXCEPT ![c].wake = FALSE]
         /\ tracked' = tracked - 1
         /\ Work(c, IF pc = "lp" THEN pc ELSE "reply", left)
\* (A handler that is woken too early is passed over.)
DropEarly(c) ==
  LET left == loop.left \ {c} IN
  /\ At("lp") /\ loop.con = None /\ c \in loop.left
  /\ IF con[c].early
       THEN loop' = Back("lp", left) /\ UNCHANGED <<con, tracked>>
       ELSE Woken(c, "lp", left)
  /\ UNCHANGED <<server, thread>>
WakeNext(c) ==
  LET left == loop.left \ {c} IN
  /\ At("lp") /\ loop.con = None /\ c \in loop.left
  /\ IF con[c].early
       THEN /\ con' = [con EXCEPT ![c].wake = TRUE]
            /\ loop' = Back("lp", left)
            /\ UNCHANGED tracked
       ELSE Woken(c, "lp", left)
  /\ UNCHANGED <<server, thread>>
\* The task of a handler that was woken too early.
WakeLater(c) ==
  /\ At("idle") /\ con[c].wake /\ ~con[c].early
  /\ Woken(c, "idle", {})
  /\ UNCHANGED <<server, thread>>
Done ==
  /\ At("lp") /\ loop.con = None /\ loop.left = {}
  /\ loop' = Idle
  /\ resting' = TRUE
  /\ UNCHANGED <<LPRequest, LPId, due, con, tracked, thread>>

-----------------------------------------------------------------------------
Init ==
  /\ LPRequest = 0 /\ LPId = 0 /\ resting = TRUE /\ due = FALSE
  /\ con = [c \in Clients |-> Closed]
  /\ tracked = 0
  /\ loop = Idle
  /\ thread = [t \in Announcers |-> "idle"]

Next ==
  \/ \E t \in Announcers : Announce(t)
  \/ \E t \in Announcers : WakeLongpoll(t)
  \/ \E c \in Clients : Connect(c)
  \/ \E c \in Clients : GetTemplate(c)
  \/ \E c \in Clients : LongpollAlways(c)
  \/ \E c \in Clients : LongpollById(c)
  \/ \E c \in Clients : Close(c)
  \/ \E c \in Clients : MinWaitOver(c)
  \/ \E c \in Clients : WakeNext(c)
  \/ \E c \in Clients : WakeLater(c)
  \/ LPsch
  \/ ActualLP
  \/ RestOver
  \/ Reply
  \/ Done

\* Threads and the event loop go on; every turn of the loop calls pre_schedule and
\* runs what is due, whatever the clients send.
Fairness ==
  /\ \A t \in Announcers : WF_vars(WakeLongpoll(t))
  /\ \A c \in Clients : WF_vars(MinWaitOver(c)) /\ WF_vars(WakeNext(c)) /\ SF_vars(WakeLater(c))
  /\ SF_vars(LPsch) /\ SF_vars(ActualLP) /\ WF_vars(RestOver) /\ WF_vars(Reply) /\ WF_vars(Done)

Spec == Init /\ [][Next]_vars
FairSpec == Spec /\ Fairness

-----------------------------------------------------------------------------
Waits(c) == con[c].open /\ con[c].lp /\ loop.con # c

\* LPTracking counts the requests that wait: none is counted twice when its call
\* is made again, none is left behind by a connection that closes while it is
\* still to be woken.
Tracked == tracked = Cardinality({c \in Clients : Waits(c)})

\* A request that waits can be woken: its handler is in _LPClients, or has its own
\* task, or is still to come in _actualLP - also when it waits again while
\* _actualLP goes through the others.
WaitersKnown ==
  \A c \in Clients : Waits(c) => con[c].known \/ con[c].wake \/ c \in loop.left

\* A client that waits when new work is announced is answered (or has gone away),
\* however often it has to wait for X-Minimum-Wait or for the rest between two
\* longpolls - unless it waits for what has just been announced.
Called(c) == Waits(c) /\ con[c].known /\ LPRequest = 1 /\ ~(con[c].byId /\ con[c].id = LPId)
WaitersAnswered == \A c \in Clients : Called(c) ~> ~con[c].lp
=============================================================================
