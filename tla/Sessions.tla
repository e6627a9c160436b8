------------------------------ MODULE Sessions ------------------------------
(***************************************************************************)
(* Socket handlers of the stratum server and their session ids             *)
(* (networkserver.SocketHandler, stratumserver.StratumHandler,             *)
(* util.UniqueSessionIdManager): what is freed when a connection is closed, *)
(* in the middle of its messages, by its tasks, by a full write buffer, or  *)
(* by the boot_all of another thread.                                      *)
(***************************************************************************)
EXTENDS Naturals, Sequences, FiniteSets

CONSTANTS
  Handlers,   \* handler objects; one that nothing refers to may be a new one
  Loop,       \* the thread of the event loop
  Booters,    \* other threads that run boot_all (updateJobOnly on merkleMaker's)
  MaxSid,     \* the largest session id, UniqueSessionIdManager._max
  None

VARIABLES
  con,        \* the StratumHandler objects
  FreeIDs,    \* session ids that were put back, in that order
  NextID,     \* the next new session id
  at          \* where each thread is

vars == <<con, FreeIDs, NextID, at>>
Sids == 0 .. MaxSid
Threads == Booters \cup {Loop}

Gone == [open |-> FALSE, closeme |-> FALSE, wbuf |-> "empty", task |-> FALSE,
         client |-> FALSE, sid |-> None]
Idle == [pc |-> "idle", con |-> None, left |-> {}, then |-> "idle"]
At(t, pc) == at[t].pc = pc
Refers(t, c) == at[t].con = c \/ c \in at[t].left
Set(c, field, value) == con' = [con EXCEPT ![c] = [con[c] EXCEPT ![field] = value]]
Go(t, pc) == at' = [at EXCEPT ![t].pc = pc]

\* close() and handle_close() of a handler by a thread, and what it does then.
Closing(t, c, then) ==
  at' = [at EXCEPT ![t] = [@ EXCEPT !.pc = "close", !.con = c, !.then = then]]
Return(t) ==
  at' = [at EXCEPT ![t] = [@ EXCEPT !.pc = at[t].then, !.then = "idle",
                                    !.con = IF at[t].then = "read" THEN at[t].con ELSE None]]

-----------------------------------------------------------------------------
\* StratumHandler.close.

Check(t) ==
  /\ At(t, "close")
  /\ Go(t, IF con[at[t].con].sid = None THEN "forget" ELSE "put")
  /\ UNCHANGED <<con, FreeIDs, NextID>>
\* Another thread may have deleted _sid meanwhile: AttributeError.
Put(t) ==
  LET sid == con[at[t].con].sid IN
  /\ At(t, "put")
  /\ IF sid = None THEN Return(t) /\ UNCHANGED FreeIDs
     ELSE FreeIDs' = Append(FreeIDs, sid) /\ Go(t, "delattr")
  /\ UNCHANGED <<con, NextID>>
\* (The handler keeps its _sid.)
KeepSid(t) ==
  /\ At(t, "delattr")
  /\ Go(t, "forget")
  /\ UNCHANGED <<con, FreeIDs, NextID>>
DelAttr(t) ==
  /\ At(t, "delattr")
  /\ IF con[at[t].con].sid = None THEN Return(t) /\ UNCHANGED con
     ELSE Set(at[t].con, "sid", None) /\ Go(t, "forget")
  /\ UNCHANGED <<FreeIDs, NextID>>
Forget(t) ==
  /\ At(t, "forget")
  /\ Set(at[t].con, "client", FALSE)
  /\ Go(t, "socket")
  /\ UNCHANGED <<FreeIDs, NextID>>
\* SocketHandler.close: not before the write buffer is empty, and only once.
CloseSocket(t) ==
  LET c == at[t].con IN
  /\ At(t, "socket")
  /\ con' = [con EXCEPT ![c] =
       IF @.wbuf = "some" THEN [@ EXCEPT !.closeme = TRUE]
       ELSE IF ~@.open THEN @
       ELSE [@ EXCEPT !.open = FALSE, !.task = FALSE]]
  /\ Return(t)
  /\ UNCHANGED <<FreeIDs, NextID>>
Close(t) == Check(t) \/ Put(t) \/ DelAttr(t) \/ Forget(t) \/ CloseSocket(t)

-----------------------------------------------------------------------------
\* push(data) to a handler: what becomes of the write buffer, and whether the
\* handler is closed for being slow, or the call raises.  A closed handler has
\* no buffer (TypeError), or no descriptor to register (ValueError).

Pushed(wbuf, slow, raises) == [wbuf |-> wbuf, slow |-> slow, raises |-> raises]
Outcomes(c) ==
  CASE con[c].wbuf = "none"  -> {Pushed("none", FALSE, TRUE)}
    [] con[c].wbuf = "some"  -> {Pushed("some", FALSE, FALSE), Pushed("none", TRUE, FALSE)}
    [] con[c].wbuf = "empty" -> IF con[c].open
         THEN {Pushed("empty", FALSE, FALSE), Pushed("some", FALSE, FALSE)}
         ELSE {Pushed("some", FALSE, TRUE)}

\* h is the handler as the call found it otherwise; a raise is answered by
\* handle_close when closes says so.
Push(t, c, h, here, closes) ==
  \E o \in Outcomes(c) :
    LET ends == o.raises /\ closes IN
    /\ con' = [con EXCEPT ![c] = [h EXCEPT !.wbuf = IF ends THEN "none" ELSE o.wbuf]]
    /\ IF o.slow THEN Closing(t, c, here)
       ELSE IF ends THEN Closing(t, c, "idle")
       ELSE at' = [at EXCEPT ![t].pc = IF o.raises THEN "idle" ELSE here]

-----------------------------------------------------------------------------
\* The event loop.

\* A new object: nothing knows the old one any more.
Connect(c) ==
  /\ At(Loop, "idle")
  /\ ~con[c].open /\ ~con[c].task /\ ~con[c].client /\ con[c].sid = None
  /\ \A t \in Threads : ~Refers(t, c)
  /\ con' = [con EXCEPT ![c] = [Gone EXCEPT !.open = TRUE]]
  /\ UNCHANGED <<FreeIDs, NextID, at>>

\* handle_read: the messages of one read are handled one after the other, also
\* when one of them has closed the handler; a handler to be closed is not read.
Read(c) ==
  /\ At(Loop, "idle") /\ con[c].open /\ ~con[c].closeme
  /\ at' = [at EXCEPT ![Loop] = [Idle EXCEPT !.pc = "read", !.con = c]]
  /\ UNCHANGED <<con, FreeIDs, NextID>>
EndRead ==
  /\ At(Loop, "read")
  /\ at' = [at EXCEPT ![Loop] = Idle]
  /\ UNCHANGED <<con, FreeIDs, NextID>>
\* A message that cannot be read: boot(); the rest of the read is dropped.
BadMessage ==
  /\ At(Loop, "read")
  /\ Closing(Loop, at[Loop].con, "idle")
  /\ UNCHANGED <<con, FreeIDs, NextID>>

\* mining.subscribe; a request without an id is not answered.  The check for a
\* duplicate looks in _Clients under the session id, where handlers are kept
\* under their own: it finds nothing.
Holding(c, sid) == [con[c] EXCEPT !.sid = sid, !.client = TRUE, !.task = TRUE]
Answered(c, sid) ==
  \/ Push(Loop, c, Holding(c, sid), "read", TRUE)
  \/ con' = [con EXCEPT ![c] = Holding(c, sid)] /\ UNCHANGED at
SubscribeAgain ==
  LET c == at[Loop].con IN
  /\ At(Loop, "read") /\ con[c].sid # None
  /\ Answered(c, con[c].sid)
  /\ UNCHANGED <<FreeIDs, NextID>>
SubscribeFreed ==
  LET c == at[Loop].con IN
  /\ At(Loop, "read") /\ con[c].sid = None /\ FreeIDs # <<>>
  /\ FreeIDs' = Tail(FreeIDs)
  /\ Answered(c, Head(FreeIDs))
  /\ UNCHANGED NextID
\* (get() that hands out ids without end.)
SubscribeAny ==
  LET c == at[Loop].con IN
  /\ At(Loop, "read") /\ con[c].sid = None /\ FreeIDs = <<>>
  /\ NextID' = IF NextID > MaxSid THEN NextID ELSE NextID + 1
  /\ Answered(c, NextID)
  /\ UNCHANGED FreeIDs
SubscribeNew ==
  LET c == at[Loop].con IN
  /\ At(Loop, "read") /\ con[c].sid = None /\ FreeIDs = <<>>
  /\ NextID <= MaxSid
  /\ NextID' = NextID + 1
  /\ Answered(c, NextID)
  /\ UNCHANGED FreeIDs
\* No session id is left, or any other message: a reply, no more.
OtherMessage ==
  LET c == at[Loop].con IN
  /\ At(Loop, "read")
  /\ Push(Loop, c, con[c], "read", TRUE)
  /\ UNCHANGED <<FreeIDs, NextID>>

\* The peer has gone, or reading failed: handle_close.
Drop(c) ==
  /\ At(Loop, "idle") /\ con[c].open
  /\ Set(c, "wbuf", "none")
  /\ Closing(Loop, c, "idle")
  /\ UNCHANGED <<FreeIDs, NextID>>
\* handle_write empties the buffer.
Write(c) ==
  /\ At(Loop, "idle") /\ con[c].open /\ con[c].wbuf = "some"
  /\ Set(c, "wbuf", "empty")
  /\ IF con[c].closeme THEN Closing(Loop, c, "idle") ELSE UNCHANGED at
  /\ UNCHANGED <<FreeIDs, NextID>>

\* The task of a handler, sendJob: what it raises closes the handler.
\* (The task scheduled without an errHandler.)
TaskAlone(c) ==
  /\ At(Loop, "idle") /\ con[c].task
  /\ Push(Loop, c, [con[c] EXCEPT !.task = FALSE], "idle", FALSE)
  /\ UNCHANGED <<FreeIDs, NextID>>
RunTask(c) ==
  /\ At(Loop, "idle") /\ con[c].task
  /\ Push(Loop, c, [con[c] EXCEPT !.task = FALSE], "idle", TRUE)
  /\ UNCHANGED <<FreeIDs, NextID>>
\* sendJob from _wakeNodes, which lets go what it raises.
WakeNode(c) ==
  /\ At(Loop, "idle") /\ con[c].client
  /\ Push(Loop, c, con[c], "idle", FALSE)
  /\ UNCHANGED <<FreeIDs, NextID>>

\* boot_all, by the loop (doQuickUpdate, updateJob) or another thread.
BootAll(t) ==
  /\ At(t, "idle")
  /\ \E c \in Handlers : con[c].open
  /\ at' = [at EXCEPT ![t] = [Idle EXCEPT !.pc = "boot", !.left = {c \in Handlers : con[c].open}]]
  /\ UNCHANGED <<con, FreeIDs, NextID>>
BootNext(t) ==
  /\ At(t, "boot")
  /\ \/ /\ at[t].left = {}
        /\ at' = [at EXCEPT ![t] = Idle]
     \/ \E c \in at[t].left :
          at' = [at EXCEPT ![t] = [pc |-> "close", con |-> c, left |-> @.left \ {c}, then |-> "boot"]]
  /\ UNCHANGED <<con, FreeIDs, NextID>>

-----------------------------------------------------------------------------
Init ==
  /\ con = [c \in Handlers |-> Gone]
  /\ FreeIDs = <<>> /\ NextID = 0
  /\ at = [t \in Threads |-> Idle]

Messages == SubscribeAgain \/ SubscribeFreed \/ SubscribeNew \/ OtherMessage \/ BadMessage
InLoop == EndRead \/ Close(Loop) \/ BootNext(Loop)
Next ==
  \/ \E c \in Handlers : Connect(c) \/ Read(c) \/ Drop(c) \/ Write(c) \/ RunTask(c) \/ WakeNode(c)
  \/ Messages \/ InLoop
  \/ \E t \in Threads : BootAll(t)
  \/ \E t \in Booters : Close(t) \/ BootNext(t)
Spec == Init /\ [][Next]_vars

\* A read ends, closing and booting go on, tasks are run in the order of their times.
Fairness ==
  /\ SF_vars(EndRead) /\ WF_vars(Close(Loop)) /\ WF_vars(BootNext(Loop))
  /\ \A c \in Handlers : SF_vars(RunTask(c))
FairSpec == Spec /\ Fairness

-----------------------------------------------------------------------------
TypeOK ==
  /\ \A c \in Handlers :
       /\ con[c].wbuf \in {"empty", "some", "none"}
       /\ con[c].sid \in Sids \cup {None}
  /\ NextID \in 0 .. MaxSid + 1
  /\ \A i \in DOMAIN FreeIDs : FreeIDs[i] \in Sids

\* A session id that was given out is in one place: free, or with one handler
\* (the one that has put it back is about to delete it).  No two miners search
\* the same extranonces, and no id leaks.
Holders(sid) == {c \in Handlers :
  con[c].sid = sid /\ \A t \in Threads : ~(At(t, "delattr") /\ at[t].con = c)}
EachSidOnce ==
  \A sid \in 0 .. NextID - 1 :
    Cardinality({i \in DOMAIN FreeIDs : FreeIDs[i] = sid}) + Cardinality(Holders(sid)) = 1

\* A handler that was closed in the middle of its messages, and has then
\* subscribed, does not stay among the clients: its task fails and closes it.
ClosedIsForgotten ==
  \A c \in Handlers : ~con[c].open /\ con[c].client ~> ~con[c].client
=============================================================================
