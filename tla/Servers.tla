------------------------------ MODULE Servers ------------------------------
(***************************************************************************)
(* Connections to the two servers, which share no state here, in one        *)
(* instance: a behaviour is one of the sessions of the stratum server or    *)
(* one of the longpolls of the JSON-RPC server, or one of the requests on a *)
(* single connection of it (part says which), and the others stand still.   *)
(***************************************************************************)
EXTENDS Naturals

CONSTANTS None,
  Handlers, Loop, Booters, MaxSid,  \* Sessions
  Clients, Announcers, MaxId,   \* Longpoll
  Kinds, Bad, MaxRequests       \* Requests

VARIABLES part,
  con, FreeIDs, NextID, at,
  LPRequest, LPId, resting, due, polls, tracked, waker, thread,
  requests, wire, http, answers, executed

sesVars == <<con, FreeIDs, NextID, at>>
lpVars == <<LPRequest, LPId, resting, due, polls, tracked, waker, thread>>
reqVars == <<requests, wire, http, answers, executed>>
vars == <<part, sesVars, lpVars, reqVars>>

Ses == INSTANCE Sessions
Lp == INSTANCE Longpoll WITH con <- polls, loop <- waker
Req == INSTANCE Requests WITH con <- http

Init == part \in {"sessions", "longpolls", "requests"} /\ Ses!Init /\ Lp!Init /\ Req!Init

InSes == part = "sessions" /\ UNCHANGED <<part, lpVars, reqVars>>
InLp == part = "longpolls" /\ UNCHANGED <<part, sesVars, reqVars>>
InReq == part = "requests" /\ UNCHANGED <<part, sesVars, lpVars>>

Next ==
  \/ InSes /\ \E c \in Handlers : Ses!Connect(c)
  \/ InSes /\ \E c \in Handlers : Ses!Read(c)
  \/ InSes /\ \E c \in Handlers : Ses!Drop(c)
  \/ InSes /\ \E c \in Handlers : Ses!Write(c)
  \/ InSes /\ \E c \in Handlers : Ses!RunTask(c)
  \/ InSes /\ \E c \in Handlers : Ses!WakeNode(c)
  \/ InSes /\ Ses!SubscribeAgain
  \/ InSes /\ Ses!SubscribeFreed
  \/ InSes /\ Ses!SubscribeNew
  \/ InSes /\ Ses!OtherMessage
  \/ InSes /\ Ses!BadMessage
  \/ InSes /\ Ses!EndRead
  \/ InSes /\ \E t \in Ses!Threads : Ses!Close(t)
  \/ InSes /\ \E t \in Ses!Threads : Ses!BootAll(t)
  \/ InSes /\ \E t \in Ses!Threads : Ses!BootNext(t)
  \/ InLp /\ \E t \in Announcers : Lp!Announce(t)
  \/ InLp /\ \E t \in Announcers : Lp!WakeLongpoll(t)
  \/ InLp /\ \E c \in Clients : Lp!Connect(c)
  \/ InLp /\ \E c \in Clients : Lp!GetTemplate(c)
  \/ InLp /\ \E c \in Clients : Lp!LongpollAlways(c)
  \/ InLp /\ \E c \in Clients : Lp!LongpollById(c)
  \/ InLp /\ \E c \in Clients : Lp!Close(c)
  \/ InLp /\ \E c \in Clients : Lp!MinWaitOver(c)
  \/ InLp /\ \E c \in Clients : Lp!WakeNext(c)
  \/ InLp /\ \E c \in Clients : Lp!WakeLater(c)
  \/ InLp /\ Lp!LPsch
  \/ InLp /\ Lp!ActualLP
  \/ InLp /\ Lp!RestOver
  \/ InLp /\ Lp!Reply
  \/ InLp /\ Lp!Done
  \/ InReq /\ \E kind \in Kinds : Req!Send(kind)
  \/ InReq /\ \E k \in 1 .. 2 * MaxRequests : Req!Read(k)
  \/ InReq /\ Req!Collect
  \/ InReq /\ Req!ParseHeaders
  \/ InReq /\ Req!TakeBody
  \/ InReq /\ Req!AlreadyHandled
  \/ InReq /\ Req!Refuse
  \/ InReq /\ Req!Call
  \/ InReq /\ Req!DoLongpoll
  \/ InReq /\ Req!WakeLongpoll
  \/ InReq /\ Req!Timeout
  \/ InReq /\ Req!Write
  \/ InReq /\ Req!Drop

\* The fairness of each part (see the modules).
Fairness ==
  /\ SF_vars(InSes /\ Ses!EndRead)
  /\ WF_vars(InSes /\ Ses!Close(Loop))
  /\ WF_vars(InSes /\ Ses!BootNext(Loop))
  /\ \A c \in Handlers : SF_vars(InSes /\ Ses!RunTask(c))
  /\ \A t \in Announcers : WF_vars(InLp /\ Lp!WakeLongpoll(t))
  /\ \A c \in Clients : WF_vars(InLp /\ Lp!MinWaitOver(c))
  /\ \A c \in Clients : WF_vars(InLp /\ Lp!WakeNext(c))
  /\ \A c \in Clients : SF_vars(InLp /\ Lp!WakeLater(c))
  /\ SF_vars(InLp /\ Lp!LPsch)
  /\ SF_vars(InLp /\ Lp!ActualLP)
  /\ WF_vars(InLp /\ Lp!RestOver)
  /\ WF_vars(InLp /\ Lp!Reply)
  /\ WF_vars(InLp /\ Lp!Done)
Spec == Init /\ [][Next]_vars
FairSpec == Spec /\ Fairness

-----------------------------------------------------------------------------
\* The properties, as the modules state them.

\* Every session id is free or with one handler.
EachSidOnce == Ses!EachSidOnce
\* A closed handler does not stay among the clients.
ClosedIsForgotten == Ses!ClosedIsForgotten
\* Every request that waits can still be woken.
WaitersKnown == Lp!WaitersKnown
\* Every request that waits when new work is announced is answered.
WaitersAnswered == Lp!WaitersAnswered
\* Requests sent behind each other each get their own user, call and answer.
EachItsOwn == Req!EachItsOwn
\* A connection that no longer listens has its time-out.
DeafIsTimed == Req!DeafIsTimed
=============================================================================
