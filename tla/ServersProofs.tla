---------------------------- MODULE ServersProofs ----------------------------
(***************************************************************************)
(* What the two servers do for their connections, for any number of them:   *)
(* the session ids of the stratum server (Sessions), the longpolls of the   *)
(* JSON-RPC server (Longpoll) and the requests on one connection of it, of  *)
(* whatever kinds (Requests).                                               *)
(***************************************************************************)
EXTENDS Servers, Sequences, FiniteSets, FiniteSetTheorems, SequenceTheorems, TLAPS

CONSTANTS Names     \* the users that requests may name

-----------------------------------------------------------------------------
\* Longpolls

Handler == [open : BOOLEAN, lp : BOOLEAN, known : BOOLEAN, early : BOOLEAN,
            wake : BOOLEAN, byId : BOOLEAN, id : Nat \cup {None}]

\* _actualLP has handlers left to wake only while it runs, and no request is
\* being answered between two turns of the event loop.
WakerOK(w) ==
  /\ w \in [pc : {"idle", "reply", "lp"}, con : Clients \cup {None}, left : SUBSET Clients]
  /\ w.pc = "idle" => w.con = None
  /\ w.pc # "lp" => w.left = {}
LpType == polls \in [Clients -> Handler] /\ LPId \in Nat /\ WakerOK(waker)
LpInv == LpType /\ Lp!WaitersKnown

LEMMA LpInit == Lp!Init => LpInv
BY DEF Lp!Init, Lp!Closed, Lp!Idle, LpInv, LpType, WakerOK, Handler, Lp!WaitersKnown, Lp!Waits

LEMMA LpServer == ASSUME LpInv, UNCHANGED <<LPId, polls, waker>> PROVE LpInv'
BY DEF LpInv, LpType, WakerOK, Lp!WaitersKnown, Lp!Waits

\* A step for one handler, which becomes h.
LEMMA LpOne ==
  ASSUME LpInv, NEW c \in Clients, NEW h \in Handler, polls' = [polls EXCEPT ![c] = h],
         LPId' = LPId, WakerOK(waker)',
         h.open /\ h.lp => waker'.con = c \/ h.known \/ h.wake \/ c \in waker'.left,
         \A d \in Clients \ {c} :
           waker.con = d \/ d \in waker.left => waker'.con = d \/ d \in waker'.left
  PROVE  LpInv'
<1>1. polls' \in [Clients -> Handler] /\ polls'[c] = h /\ \A d \in Clients \ {c} : polls'[d] = polls[d]
  BY DEF LpInv, LpType
<1>2. Lp!WaitersKnown'
  BY <1>1 DEF LpInv, Lp!WaitersKnown, Lp!Waits
<1> QED
  BY <1>1, <1>2 DEF LpInv, LpType

\* The handlers that a step makes of one.
LEMMA LpHandlers ==
  ASSUME NEW h \in Handler, NEW id \in Nat
  PROVE  /\ Lp!Closed \in Handler /\ ~Lp!Closed.open
         /\ [Lp!Closed EXCEPT !.open = TRUE] \in Handler /\ ~[Lp!Closed EXCEPT !.open = TRUE].lp
         /\ Lp!Waiting(h) \in Handler /\ Lp!Waiting(h).known
         /\ \A b \in BOOLEAN : /\ [Lp!Waiting(h) EXCEPT !.byId = b] \in Handler
                               /\ [Lp!Waiting(h) EXCEPT !.byId = b].known
         /\ [h EXCEPT !.lp = FALSE, !.id = id] \in Handler /\ ~[h EXCEPT !.lp = FALSE, !.id = id].lp
         /\ \A b \in BOOLEAN : /\ [h EXCEPT !.early = b] \in Handler
                               /\ [h EXCEPT !.early = b].open = h.open
                               /\ [h EXCEPT !.early = b].lp = h.lp
                               /\ [h EXCEPT !.early = b].known = h.known
                               /\ [h EXCEPT !.early = b].wake = h.wake
         /\ \A b \in BOOLEAN : [h EXCEPT !.wake = b] \in Handler /\ [h EXCEPT !.wake = b].wake = b
         /\ [h EXCEPT !.known = FALSE] \in Handler
BY DEF Handler, Lp!Closed, Lp!Waiting

LEMMA LpRequests ==
  ASSUME LpInv, None \notin Clients, NEW c \in Clients,
         Lp!Connect(c) \/ Lp!GetTemplate(c) \/ Lp!LongpollAlways(c) \/ Lp!LongpollById(c)
         \/ Lp!Close(c) \/ Lp!MinWaitOver(c)
  PROVE  LpInv'
<1>1. polls[c] \in Handler /\ LPId \in Nat /\ WakerOK(waker)
  BY DEF LpInv, LpType
<1>2. CASE Lp!Connect(c)
  BY <1>1, <1>2, LpOne, LpHandlers DEF Lp!Connect, Lp!server, WakerOK
<1>3. ASSUME Lp!At("idle"), ~polls[c].lp, Lp!Work(c, "reply", {}), UNCHANGED <<LPId, polls>>
      PROVE  LpInv'
  <2>1. WakerOK(waker)' /\ waker.con = None /\ waker.left = {} /\ waker'.con = c
    BY <1>1, <1>3 DEF WakerOK, Lp!At, Lp!Work
  <2> QED
    BY <1>1, <1>3, <2>1 DEF LpInv, LpType, Lp!WaitersKnown, Lp!Waits
<1>4. CASE Lp!GetTemplate(c)
  BY <1>3, <1>4 DEF Lp!GetTemplate, Lp!server
<1>5. ASSUME NEW b \in BOOLEAN, polls' = [polls EXCEPT ![c] = [Lp!Waiting(@) EXCEPT !.byId = b]],
             UNCHANGED <<LPId, waker>>
      PROVE  LpInv'
  BY <1>1, <1>5, LpOne, LpHandlers DEF WakerOK
<1>6. CASE Lp!LongpollAlways(c)
  BY <1>5, <1>6 DEF Lp!LongpollAlways, Lp!server
<1>7. CASE Lp!LongpollById(c)
  BY <1>3, <1>5, <1>7 DEF Lp!LongpollById, Lp!server
<1>8. CASE Lp!Close(c)
  BY <1>1, <1>8, LpOne, LpHandlers DEF Lp!Close, Lp!server, WakerOK
<1>9. CASE Lp!MinWaitOver(c)
  <2>1. PICK h : h = [polls[c] EXCEPT !.early = FALSE]
    OBVIOUS
  <2>2. polls' = [polls EXCEPT ![c] = h] /\ UNCHANGED <<LPId, waker>>
    BY <1>9, <2>1 DEF Lp!MinWaitOver, Lp!server
  <2>3. h \in Handler /\ h.open = polls[c].open /\ h.lp = polls[c].lp
        /\ h.known = polls[c].known /\ h.wake = polls[c].wake
    BY <1>1, <2>1, LpHandlers
  <2>4. polls[c].open /\ polls[c].lp => waker.con = c \/ polls[c].known \/ polls[c].wake \/ c \in waker.left
    BY DEF LpInv, Lp!WaitersKnown, Lp!Waits
  <2> QED
    BY <1>1, <2>2, <2>3, <2>4, LpOne DEF WakerOK
<1> QED
  BY <1>2, <1>4, <1>6, <1>7, <1>8, <1>9

LEMMA LpReply == ASSUME LpInv, None \notin Clients, Lp!Reply PROVE LpInv'
<1>1. polls \in [Clients -> Handler] /\ LPId \in Nat /\ WakerOK(waker)
  BY DEF LpInv, LpType
<1>2. PICK c \in Clients : waker.con = c
  BY <1>1 DEF Lp!Reply, WakerOK
<1>3. WakerOK(waker)' /\ waker'.left = waker.left
  BY <1>1 DEF Lp!Reply, Lp!Back, Lp!Idle, WakerOK
<1>4. polls' = [polls EXCEPT ![c] = [polls[c] EXCEPT !.lp = FALSE, !.id = LPId]] /\ LPId' = LPId
  BY <1>2 DEF Lp!Reply, Lp!server
<1> QED
  BY <1>1, <1>2, <1>3, <1>4, LpOne, LpHandlers

LEMMA LpTakeAll == ASSUME LpInv, None \notin Clients, Lp!ActualLP PROVE LpInv'
<1>1. polls \in [Clients -> Handler] /\ LPId \in Nat /\ WakerOK(waker)
  BY DEF LpInv, LpType
<1>2. waker.left = {} /\ waker.con = None /\ LPId' = LPId
  BY <1>1 DEF Lp!ActualLP, Lp!At, WakerOK
<1>3. WakerOK(waker)' /\ waker'.left = {c \in Clients : polls[c].known}
  BY DEF Lp!ActualLP, Lp!Back, Lp!Idle, WakerOK
<1>4. ASSUME NEW c \in Clients
      PROVE  polls'[c] \in Handler /\ polls'[c].open = polls[c].open /\ polls'[c].lp = polls[c].lp
             /\ polls'[c].wake = polls[c].wake
  BY <1>1 DEF Lp!ActualLP, Handler
<1>5. polls' \in [Clients -> Handler]
  BY <1>1, LpHandlers DEF Lp!ActualLP
<1>6. Lp!WaitersKnown'
  BY <1>2, <1>3, <1>4 DEF LpInv, Lp!WaitersKnown, Lp!Waits
<1> QED
  BY <1>1, <1>2, <1>3, <1>5, <1>6 DEF LpInv, LpType

LEMMA LpWoken ==
  ASSUME LpInv, None \notin Clients, NEW c \in Clients, waker.con = None, LPId' = LPId,
         NEW pc \in {"idle", "lp"}, NEW left \in SUBSET Clients,
         left = waker.left \ {c}, pc = "idle" => left = {}, Lp!Woken(c, pc, left)
  PROVE  LpInv'
<1>1. polls[c] \in Handler /\ LPId \in Nat /\ WakerOK(waker)
  BY DEF LpInv, LpType
<1>2. CASE polls' = [polls EXCEPT ![c] = Lp!Waiting(@)] /\ waker' = Lp!Back(pc, left)
  <2>1. WakerOK(waker)' /\ waker'.left = left
    BY <1>2 DEF Lp!Back, Lp!Idle, WakerOK
  <2>2. PICK h : h = Lp!Waiting(polls[c])
    OBVIOUS
  <2>3. h \in Handler /\ h.known
    BY <1>1, <2>2, LpHandlers
  <2> QED
    BY <1>2, <2>1, <2>2, <2>3, LpOne
<1>3. CASE polls' = [polls EXCEPT ![c].wake = FALSE] /\ Lp!Work(c, IF pc = "lp" THEN pc ELSE "reply", left)
  <2>1. WakerOK(waker)' /\ waker'.left = left /\ waker'.con = c
    BY <1>3 DEF Lp!Work, WakerOK
  <2>2. PICK h : h = [polls[c] EXCEPT !.wake = FALSE]
    OBVIOUS
  <2>3. h \in Handler /\ polls' = [polls EXCEPT ![c] = h]
    BY <1>1, <1>3, <2>2, LpHandlers
  <2> QED
    BY <2>1, <2>3, LpOne
<1> QED
  BY <1>2, <1>3 DEF Lp!Woken

LEMMA LpWake ==
  ASSUME LpInv, None \notin Clients, NEW c \in Clients, Lp!WakeNext(c) \/ Lp!WakeLater(c)
  PROVE  LpInv'
<1>1. polls[c] \in Handler /\ LPId' = LPId /\ WakerOK(waker)
  BY DEF LpInv, LpType, Lp!WakeNext, Lp!WakeLater, Lp!server
<1>2. CASE Lp!WakeLater(c)
  <2>1. waker.con = None /\ waker.left = {} /\ Lp!Woken(c, "idle", {})
    BY <1>1, <1>2 DEF WakerOK, Lp!At, Lp!WakeLater
  <2> QED
    BY <1>1, <2>1, LpWoken
<1>3. CASE Lp!WakeNext(c) /\ ~polls[c].early
  BY <1>1, <1>3, LpWoken DEF WakerOK, Lp!WakeNext
<1>4. CASE Lp!WakeNext(c) /\ polls[c].early
  <2>1. PICK h : h = [polls[c] EXCEPT !.wake = TRUE]
    OBVIOUS
  <2>2. h \in Handler /\ h.wake /\ polls' = [polls EXCEPT ![c] = h]
    BY <1>1, <1>4, <2>1, LpHandlers DEF Lp!WakeNext
  <2>3. waker' = Lp!Back("lp", waker.left \ {c}) /\ waker.con = None
    BY <1>4 DEF Lp!WakeNext
  <2>4. WakerOK(waker)' /\ waker'.left = waker.left \ {c}
    BY <1>1, <2>3 DEF Lp!Back, Lp!Idle, WakerOK
  <2> QED
    BY <1>1, <2>2, <2>3, <2>4, LpOne
<1> QED
  BY <1>2, <1>3, <1>4

LEMMA LpDone == ASSUME LpInv, Lp!Done PROVE LpInv'
BY DEF LpInv, LpType, WakerOK, Lp!WaitersKnown, Lp!Waits, Lp!At, Lp!Done, Lp!Idle

LEMMA LpStep == ASSUME LpInv, None \notin Clients, [Lp!Next]_(Lp!vars) PROVE LpInv'
<1>1. CASE UNCHANGED Lp!vars
  BY <1>1, LpServer DEF Lp!vars, Lp!server
<1>2. ASSUME NEW t \in Announcers, Lp!Announce(t) \/ Lp!WakeLongpoll(t) PROVE LpInv'
  BY <1>2 DEF LpInv, LpType, WakerOK, Lp!WaitersKnown, Lp!Waits, Lp!Announce, Lp!WakeLongpoll,
              Lp!Test, Lp!NewId, Lp!Ask, Lp!server
<1>3. CASE Lp!LPsch \/ Lp!RestOver
  BY <1>3, LpServer DEF Lp!LPsch, Lp!RestOver
<1> QED
  BY <1>1, <1>2, <1>3, LpRequests, LpReply, LpTakeAll, LpWake, LpDone DEF Lp!Next

LEMMA LpSafe ==
  ASSUME None \notin Clients PROVE Lp!Spec => []Lp!WaitersKnown
<1>1. LpInv /\ [Lp!Next]_(Lp!vars) => LpInv'
  BY LpStep
<1>2. LpInv => Lp!WaitersKnown
  BY DEF LpInv
<1> QED
  BY <1>1, <1>2, LpInit, PTL DEF Lp!Spec

-----------------------------------------------------------------------------
\* Session ids, when the event loop alone closes handlers

Wbufs == {"empty", "some", "none"}
Socket == [open : BOOLEAN, closeme : BOOLEAN, wbuf : Wbufs, task : BOOLEAN,
           client : BOOLEAN, sid : Nat \cup {None}]
Place == [pc : {"idle", "read", "boot", "close", "put", "delattr", "forget", "socket"},
          con : Handlers \cup {None}, left : SUBSET Handlers, then : {"idle", "read", "boot"}]
PlaceOK ==
  /\ at \in [{Loop} -> Place]
  /\ at[Loop].pc \notin {"idle", "boot"} => at[Loop].con \in Handlers
SesType ==
  /\ con \in [Handlers -> Socket] /\ PlaceOK
  /\ NextID \in Nat /\ FreeIDs \in Seq(Nat)

\* A handler holds its id until it has put it back.
Holds(c) == con[c].sid # None /\ ~(at[Loop].pc = "delattr" /\ at[Loop].con = c)
IsFree(sid) == \E i \in 1 .. Len(FreeIDs) : FreeIDs[i] = sid

FreeOnce ==
  /\ \A i \in 1 .. Len(FreeIDs) : FreeIDs[i] < NextID
  /\ \A i, j \in 1 .. Len(FreeIDs) : FreeIDs[i] = FreeIDs[j] => i = j
HeldOnce ==
  /\ \A c \in Handlers : Holds(c) => con[c].sid < NextID /\ ~IsFree(con[c].sid)
  /\ \A c, d \in Handlers : Holds(c) /\ Holds(d) /\ con[c].sid = con[d].sid => c = d
NoneLeaks ==
  \A sid \in Nat : sid < NextID => IsFree(sid) \/ \E c \in Handlers : Holds(c) /\ con[c].sid = sid
SesInv == SesType /\ FreeOnce /\ HeldOnce /\ NoneLeaks

LEMMA SesInit == ASSUME Booters = {} PROVE Ses!Init => SesInv
BY DEF Ses!Init, Ses!Gone, Ses!Idle, Ses!Threads, SesInv, SesType, PlaceOK, Place, Socket, Wbufs,
       FreeOnce, HeldOnce, NoneLeaks, Holds, IsFree

\* A step that gives nobody an id and takes none.
LEMMA SesQuiet ==
  ASSUME SesInv, UNCHANGED <<FreeIDs, NextID>>, con' \in [Handlers -> Socket], PlaceOK',
         \A c \in Handlers : con'[c].sid = con[c].sid /\ (Holds(c)' <=> Holds(c))
  PROVE  SesInv'
<1>1. \A sid : IsFree(sid)' <=> IsFree(sid)
  BY DEF IsFree
<1> QED
  BY <1>1 DEF SesInv, SesType, FreeOnce, HeldOnce, NoneLeaks

\* One that changes one handler only, not its id, and does not come to delete one.
LEMMA SesOne ==
  ASSUME SesInv, UNCHANGED <<FreeIDs, NextID>>, PlaceOK', NEW c \in Handlers, NEW h \in Socket,
         con' = [con EXCEPT ![c] = h], h.sid = con[c].sid,
         at[Loop].pc # "delattr", at'[Loop].pc # "delattr"
  PROVE  SesInv'
<1>1. con' \in [Handlers -> Socket] /\ \A d \in Handlers : con'[d].sid = con[d].sid
  BY DEF SesInv, SesType
<1> QED
  BY <1>1, SesQuiet DEF Holds
LEMMA SesGoes ==
  ASSUME SesInv, UNCHANGED <<con, FreeIDs, NextID>>, PlaceOK',
         at[Loop].pc # "delattr", at'[Loop].pc # "delattr"
  PROVE  SesInv'
<1>1. con' \in [Handlers -> Socket]
  BY DEF SesInv, SesType
<1> QED
  BY <1>1, SesQuiet DEF Holds

\* What close() and push() do to the place of the loop.
LEMMA SesClosing ==
  ASSUME PlaceOK, NEW c \in Handlers, NEW then \in {"idle", "read", "boot"}, Ses!Closing(Loop, c, then)
  PROVE  PlaceOK' /\ at'[Loop].pc = "close"
BY DEF PlaceOK, Place, Ses!Closing
LEMMA SesReturn ==
  ASSUME PlaceOK, at[Loop].pc \notin {"idle", "boot"}, Ses!Return(Loop)
  PROVE  PlaceOK' /\ at'[Loop].pc \in {"idle", "read", "boot"}
<1>1. PICK p : p = [at[Loop] EXCEPT !.pc = at[Loop].then, !.then = "idle",
                     !.con = IF at[Loop].then = "read" THEN at[Loop].con ELSE None]
  OBVIOUS
<1>2. /\ p \in Place /\ p.pc \in {"idle", "read", "boot"}
      /\ p.pc = "read" => p.con = at[Loop].con
  BY <1>1 DEF PlaceOK, Place
<1>3. at' = [at EXCEPT ![Loop] = p]
  BY <1>1 DEF Ses!Return
<1>4. at' \in [{Loop} -> Place] /\ at'[Loop] = p
  BY <1>2, <1>3 DEF PlaceOK
<1> QED
  BY <1>2, <1>4 DEF PlaceOK
LEMMA SesGo ==
  ASSUME PlaceOK, at[Loop].pc \notin {"idle", "boot"},
         NEW pc \in {"idle", "put", "delattr", "forget", "socket"}, Ses!Go(Loop, pc)
  PROVE  PlaceOK' /\ at'[Loop].pc = pc /\ at'[Loop].con = at[Loop].con
BY DEF PlaceOK, Place, Ses!Go

LEMMA SesPush ==
  ASSUME SesType, NEW c \in Handlers, NEW h \in Socket, NEW here,
         here = "idle" \/ (here = "read" /\ at[Loop].con = c),
         Ses!Push(Loop, c, h, here, TRUE) \/ Ses!Push(Loop, c, h, here, FALSE)
  PROVE  /\ PlaceOK' /\ at'[Loop].pc # "delattr"
         /\ \E p \in Socket : p.sid = h.sid /\ con' = [con EXCEPT ![c] = p]
<1>1. \A o \in Ses!Outcomes(c) : o.wbuf \in Wbufs
  BY DEF SesType, Socket, Wbufs, Ses!Outcomes, Ses!Pushed
<1>2. PICK o \in Ses!Outcomes(c), w \in Wbufs :
        /\ con' = [con EXCEPT ![c] = [h EXCEPT !.wbuf = w]]
        /\ \/ Ses!Closing(Loop, c, here) \/ Ses!Closing(Loop, c, "idle")
           \/ at' = [at EXCEPT ![Loop].pc = IF o.raises THEN "idle" ELSE here]
  <2>1. CASE Ses!Push(Loop, c, h, here, TRUE)
    <3>1. PICK o \in Ses!Outcomes(c) :
            /\ con' = [con EXCEPT ![c] = [h EXCEPT !.wbuf = IF o.raises THEN "none" ELSE o.wbuf]]
            /\ \/ Ses!Closing(Loop, c, here) \/ Ses!Closing(Loop, c, "idle")
               \/ at' = [at EXCEPT ![Loop].pc = IF o.raises THEN "idle" ELSE here]
      BY <2>1 DEF Ses!Push
    <3> QED
      BY <1>1, <3>1 DEF Wbufs
  <2>2. CASE Ses!Push(Loop, c, h, here, FALSE)
    <3>1. PICK o \in Ses!Outcomes(c) :
            /\ con' = [con EXCEPT ![c] = [h EXCEPT !.wbuf = o.wbuf]]
            /\ \/ Ses!Closing(Loop, c, here) \/ Ses!Closing(Loop, c, "idle")
               \/ at' = [at EXCEPT ![Loop].pc = IF o.raises THEN "idle" ELSE here]
      BY <2>2 DEF Ses!Push
    <3> QED
      BY <1>1, <3>1
  <2> QED
    BY <2>1, <2>2
<1>3. PICK p : p = [h EXCEPT !.wbuf = w]
  OBVIOUS
<1>4. p \in Socket /\ p.sid = h.sid /\ con' = [con EXCEPT ![c] = p]
  BY <1>1, <1>2, <1>3 DEF Socket, Wbufs
<1>5. CASE Ses!Closing(Loop, c, here) \/ Ses!Closing(Loop, c, "idle")
  BY <1>4, <1>5, SesClosing DEF SesType
<1>6. CASE at' = [at EXCEPT ![Loop].pc = IF o.raises THEN "idle" ELSE here]
  <2>1. PlaceOK' /\ at'[Loop].pc # "delattr"
    BY <1>6 DEF SesType, PlaceOK, Place
  <2> QED
    BY <1>4, <2>1
<1> QED
  BY <1>2, <1>5, <1>6

LEMMA SesPut == ASSUME SesInv, Ses!Put(Loop) PROVE SesInv'
<1>0. PICK c, sid : c = at[Loop].con /\ sid = con[c].sid
  OBVIOUS
<1>1. c \in Handlers /\ at[Loop].pc = "put" /\ UNCHANGED <<con, NextID>> /\ PlaceOK
  BY <1>0 DEF SesInv, SesType, PlaceOK, Ses!Put, Ses!At
<1>2. CASE sid = None
  BY <1>0, <1>1, <1>2, SesReturn, SesGoes DEF Ses!Put
<1>3. CASE sid # None
  <2>1. PlaceOK' /\ at'[Loop].pc = "delattr" /\ at'[Loop].con = c
    BY <1>0, <1>1, <1>3, SesGo DEF Ses!Put
  <2>2. sid \in Nat /\ sid < NextID /\ ~IsFree(sid) /\ FreeIDs \in Seq(Nat)
    BY <1>0, <1>1, <1>3 DEF SesInv, SesType, Socket, HeldOnce, Holds
  <2>3. FreeIDs' = Append(FreeIDs, sid)
    BY <1>0, <1>3 DEF Ses!Put
  <2>4. /\ FreeIDs' \in Seq(Nat) /\ Len(FreeIDs') = Len(FreeIDs) + 1
        /\ \A i \in 1 .. Len(FreeIDs) : FreeIDs'[i] = FreeIDs[i]
        /\ FreeIDs'[Len(FreeIDs) + 1] = sid
    BY <2>2, <2>3
  <2>5. \A x : IsFree(x)' <=> IsFree(x) \/ x = sid
    BY <2>2, <2>4 DEF IsFree
  <2>6. \A d \in Handlers : con'[d] = con[d] /\ (Holds(d)' <=> Holds(d) /\ d # c)
    BY <1>0, <1>1, <2>1 DEF Holds
  <2>7. SesType'
    BY <1>1, <2>1, <2>4 DEF SesInv, SesType
  <2>8. FreeOnce'
    <3>1. \A i \in 1 .. Len(FreeIDs) : FreeIDs[i] # sid
      BY <2>2 DEF IsFree
    <3>2. Len(FreeIDs) \in Nat /\ NextID' = NextID
      BY <1>1, <2>2
    <3>3. \A i \in 1 .. Len(FreeIDs') : i = Len(FreeIDs) + 1 \/ (i \in 1 .. Len(FreeIDs) /\ FreeIDs'[i] = FreeIDs[i])
      BY <2>4, <3>2
    <3>4. \A i \in 1 .. Len(FreeIDs') : FreeIDs'[i] < NextID
      BY <2>2, <2>4, <3>3 DEF SesInv, FreeOnce
    <3>5. ASSUME NEW i \in 1 .. Len(FreeIDs'), NEW j \in 1 .. Len(FreeIDs'), FreeIDs'[i] = FreeIDs'[j]
          PROVE  i = j
      BY <2>4, <3>1, <3>3, <3>5 DEF SesInv, FreeOnce
    <3> QED
      BY <3>2, <3>4, <3>5 DEF FreeOnce
  <2>9. Holds(c)
    BY <1>0, <1>1, <1>3 DEF Holds
  <2>10. HeldOnce'
    BY <1>0, <1>1, <2>5, <2>6, <2>9 DEF SesInv, HeldOnce
  <2>11. NoneLeaks'
    BY <1>0, <1>1, <2>5, <2>6 DEF SesInv, NoneLeaks
  <2> QED
    BY <2>7, <2>8, <2>10, <2>11 DEF SesInv
<1> QED
  BY <1>2, <1>3

LEMMA SesDelAttr == ASSUME SesInv, Ses!DelAttr(Loop) PROVE SesInv'
<1>0. PICK c : c = at[Loop].con
  OBVIOUS
<1>1. c \in Handlers /\ at[Loop].pc = "delattr" /\ UNCHANGED <<FreeIDs, NextID>> /\ PlaceOK
  BY <1>0 DEF SesInv, SesType, PlaceOK, Ses!DelAttr, Ses!At
<1>2. ~Holds(c)
  BY <1>0, <1>1 DEF Holds
<1>3. CASE con[c].sid = None
  <2>1. con' = con /\ PlaceOK' /\ at'[Loop].pc # "delattr"
    BY <1>0, <1>1, <1>3, SesReturn DEF Ses!DelAttr
  <2>2. \A d \in Handlers : con'[d].sid = con[d].sid /\ (Holds(d)' <=> Holds(d))
    BY <1>0, <1>1, <1>3, <2>1 DEF Holds
  <2> QED
    BY <1>1, <2>1, <2>2, SesQuiet DEF SesInv, SesType
<1>4. CASE con[c].sid # None
  <2>1. PlaceOK' /\ at'[Loop].pc = "forget"
    BY <1>0, <1>1, <1>4, SesGo DEF Ses!DelAttr
  <2>2. con' = [con EXCEPT ![c] = [con[c] EXCEPT !.sid = None]]
    BY <1>0, <1>4 DEF Ses!DelAttr, Ses!Set
  <2>3. con[c] \in Socket
    BY <1>1 DEF SesInv, SesType
  <2>4. [con[c] EXCEPT !.sid = None] \in Socket /\ [con[c] EXCEPT !.sid = None].sid = None
    BY <2>3 DEF Socket
  <2>5. con' \in [Handlers -> Socket] /\ con'[c].sid = None /\ \A d \in Handlers : d # c => con'[d] = con[d]
    BY <1>1, <2>2, <2>4 DEF SesInv, SesType
  <2>6. \A d \in Handlers : Holds(d)' <=> Holds(d)
    BY <1>0, <1>1, <1>2, <2>1, <2>5 DEF Holds
  <2>7. ~Holds(c)'
    BY <2>5 DEF Holds
  <2>8. \A d \in Handlers : Holds(d) => con'[d].sid = con[d].sid
    BY <1>2, <2>5
  <2>9. \A sid : IsFree(sid)' <=> IsFree(sid)
    BY <1>1 DEF IsFree
  <2>10. SesType'
    BY <1>1, <2>1, <2>5 DEF SesInv, SesType
  <2>11. FreeOnce'
    BY <1>1 DEF SesInv, FreeOnce
  <2>12. HeldOnce'
    BY <1>1, <2>6, <2>8, <2>9 DEF SesInv, HeldOnce
  <2>13. NoneLeaks'
    BY <1>1, <2>6, <2>8, <2>9 DEF SesInv, NoneLeaks
  <2> QED
    BY <2>10, <2>11, <2>12, <2>13 DEF SesInv
<1> QED
  BY <1>3, <1>4

LEMMA SesClose == ASSUME SesInv, Ses!Close(Loop) PROVE SesInv'
<1>1. SesType /\ PlaceOK
  BY DEF SesInv, SesType
<1>2. CASE Ses!Check(Loop)
  <2>1. PlaceOK' /\ at'[Loop].pc \in {"forget", "put"} /\ at[Loop].pc = "close"
    <3>1. at[Loop].pc = "close" /\ (Ses!Go(Loop, "forget") \/ Ses!Go(Loop, "put"))
      BY <1>2 DEF Ses!Check, Ses!At
    <3> QED
      BY <1>1, <3>1, SesGo
  <2> QED
    BY <1>2, <2>1, SesGoes DEF Ses!Check
<1>3. CASE Ses!Forget(Loop)
  <2>1. at[Loop].pc = "forget" /\ Ses!Go(Loop, "socket") /\ UNCHANGED <<FreeIDs, NextID>>
        /\ con' = [con EXCEPT ![at[Loop].con] = [con[at[Loop].con] EXCEPT !.client = FALSE]]
    BY <1>3 DEF Ses!Forget, Ses!At, Ses!Set
  <2>2. PlaceOK' /\ at'[Loop].pc = "socket" /\ at[Loop].con \in Handlers
    BY <1>1, <2>1, SesGo DEF PlaceOK
  <2>3. PICK h : h = [con[at[Loop].con] EXCEPT !.client = FALSE]
    OBVIOUS
  <2>4. h \in Socket /\ h.sid = con[at[Loop].con].sid
    BY <1>1, <2>2, <2>3 DEF SesType, Socket
  <2> QED
    BY <2>1, <2>2, <2>3, <2>4, SesOne
<1>4. CASE Ses!CloseSocket(Loop)
  <2>1. at[Loop].pc = "socket" /\ Ses!Return(Loop) /\ UNCHANGED <<FreeIDs, NextID>>
    BY <1>4 DEF Ses!CloseSocket, Ses!At
  <2>2. PlaceOK' /\ at'[Loop].pc # "delattr" /\ at[Loop].con \in Handlers
    BY <1>1, <2>1, SesReturn DEF PlaceOK
  <2>3. PICK k : k = con[at[Loop].con]
    OBVIOUS
  <2>4. PICK h : h = IF k.wbuf = "some" THEN [k EXCEPT !.closeme = TRUE]
                     ELSE IF ~k.open THEN k
                     ELSE [k EXCEPT !.open = FALSE, !.task = FALSE]
    OBVIOUS
  <2>5. con' = [con EXCEPT ![at[Loop].con] = h]
    BY <1>4, <2>3, <2>4 DEF Ses!CloseSocket
  <2>6. k \in Socket
    BY <1>1, <2>2, <2>3 DEF SesType
  <2>7. h \in Socket /\ h.sid = k.sid
    BY <2>4, <2>6 DEF Socket
  <2> QED
    BY <2>1, <2>2, <2>3, <2>5, <2>7, SesOne
<1> QED
  BY <1>2, <1>3, <1>4, SesPut, SesDelAttr DEF Ses!Close

\* What a message leaves of its handler, when that has id sid.
LEMMA SesAnswered ==
  ASSUME SesInv, at[Loop].pc = "read", NEW c \in Handlers, c = at[Loop].con, NEW sid \in Nat,
         Ses!Answered(c, sid)
  PROVE  /\ PlaceOK' /\ at'[Loop].pc # "delattr"
         /\ \E p \in Socket : p.sid = sid /\ con' = [con EXCEPT ![c] = p]
<1>1. SesType /\ PlaceOK /\ con[c] \in Socket
  BY DEF SesInv, SesType
<1>2. PICK h : h = Ses!Holding(c, sid)
  OBVIOUS
<1>3. h \in Socket /\ h.sid = sid
  BY <1>1, <1>2 DEF Ses!Holding, Socket
<1>4. CASE Ses!Push(Loop, c, h, "read", TRUE)
  <2>1. h \in Socket /\ SesType
    BY <1>1, <1>3
  <2>2. /\ PlaceOK' /\ at'[Loop].pc # "delattr"
         /\ \E p \in Socket : p.sid = h.sid /\ con' = [con EXCEPT ![c] = p]
    BY <1>4, <2>1, SesPush
  <2> QED
    BY <1>3, <2>2
<1>5. CASE con' = [con EXCEPT ![c] = h] /\ UNCHANGED at
  BY <1>1, <1>3, <1>5 DEF PlaceOK
<1> QED
  BY <1>2, <1>4, <1>5 DEF Ses!Answered

\* The handler in hand gets an id, free until now or new.
LEMMA SesSubscribe == ASSUME SesInv, None \notin Nat, Ses!SubscribeFreed \/ Ses!SubscribeNew PROVE SesInv'
<1>1. PICK c, sid : /\ c = at[Loop].con /\ Ses!Answered(c, sid)
                    /\ \/ FreeIDs # <<>> /\ FreeIDs' = Tail(FreeIDs) /\ sid = Head(FreeIDs) /\ NextID' = NextID
                       \/ FreeIDs = <<>> /\ FreeIDs' = FreeIDs /\ sid = NextID /\ NextID' = NextID + 1
  BY DEF Ses!SubscribeFreed, Ses!SubscribeNew
<1>2. at[Loop].pc = "read" /\ c \in Handlers /\ con[c].sid = None /\ SesType
  BY <1>1 DEF SesInv, SesType, PlaceOK, Ses!SubscribeFreed, Ses!SubscribeNew, Ses!At
<1>3. sid \in Nat /\ NextID \in Nat /\ FreeIDs \in Seq(Nat)
  BY <1>1, <1>2 DEF SesType
<1>4. PICK p \in Socket : p.sid = sid /\ con' = [con EXCEPT ![c] = p] /\ PlaceOK' /\ at'[Loop].pc # "delattr"
  BY <1>1, <1>2, <1>3, SesAnswered
<1>5. con' \in [Handlers -> Socket] /\ con'[c].sid = sid /\ \A d \in Handlers \ {c} : con'[d] = con[d]
  BY <1>2, <1>4 DEF SesType
<1>6. \A d \in Handlers : Holds(d)' <=> (d = c /\ sid # None) \/ (d # c /\ Holds(d))
  BY <1>2, <1>4, <1>5 DEF Holds
<1>7. ~Holds(c)
  BY <1>2 DEF Holds
<1>8. /\ FreeIDs' \in Seq(Nat) /\ NextID' \in Nat
      /\ \A x \in Nat : IsFree(x)' <=> IsFree(x) /\ x # sid
      /\ FreeOnce'
      /\ \A x \in Nat : x < NextID' <=> x < NextID \/ x = sid
      /\ \A d \in Handlers : Holds(d) => con[d].sid # sid
  <2>1. CASE FreeIDs # <<>> /\ FreeIDs' = Tail(FreeIDs) /\ sid = Head(FreeIDs) /\ NextID' = NextID
    <3>1. /\ FreeIDs' \in Seq(Nat) /\ Len(FreeIDs) \in Nat /\ Len(FreeIDs) >= 1 /\ Len(FreeIDs') = Len(FreeIDs) - 1
          /\ \A i \in 1 .. Len(FreeIDs') : FreeIDs'[i] = FreeIDs[i + 1]
          /\ sid = FreeIDs[1]
      BY <1>3, <2>1
    <3>2. \A i \in 1 .. Len(FreeIDs') : i + 1 \in 1 .. Len(FreeIDs) /\ i + 1 # 1
      BY <3>1
    <3>3. \A i \in 1 .. Len(FreeIDs) : i = 1 \/ (i - 1 \in 1 .. Len(FreeIDs') /\ i = (i - 1) + 1)
      BY <3>1
    <3>4. 1 \in 1 .. Len(FreeIDs) /\ IsFree(sid)
      BY <3>1 DEF IsFree
    <3>5. ASSUME NEW x \in Nat PROVE IsFree(x)' <=> IsFree(x) /\ x # sid
      <4>1. IsFree(x)' => IsFree(x) /\ x # sid
        BY <3>1, <3>2, <3>4 DEF IsFree, SesInv, FreeOnce
      <4>2. ASSUME IsFree(x), x # sid PROVE IsFree(x)'
        <5>1. PICK i \in 1 .. Len(FreeIDs) : FreeIDs[i] = x
          BY <4>2 DEF IsFree
        <5>2. i # 1
          BY <3>1, <4>2, <5>1
        <5> QED
          BY <3>1, <3>3, <5>1, <5>2 DEF IsFree
      <4> QED
        BY <4>1, <4>2
    <3>6. FreeOnce'
      <4>1. \A i \in 1 .. Len(FreeIDs') : FreeIDs'[i] < NextID'
        BY <2>1, <3>1, <3>2 DEF SesInv, FreeOnce
      <4>2. ASSUME NEW i \in 1 .. Len(FreeIDs'), NEW j \in 1 .. Len(FreeIDs'), FreeIDs'[i] = FreeIDs'[j]
            PROVE  i = j
        <5>1. i + 1 = j + 1
          BY <3>1, <3>2, <4>2 DEF SesInv, FreeOnce
        <5> QED
          BY <3>1, <5>1
      <4> QED
        BY <4>1, <4>2 DEF FreeOnce
    <3>7. sid < NextID /\ \A d \in Handlers : Holds(d) => con[d].sid # sid
      BY <3>1, <3>4 DEF SesInv, FreeOnce, HeldOnce
    <3> QED
      BY <1>3, <2>1, <3>1, <3>5, <3>6, <3>7
  <2>2. CASE FreeIDs = <<>> /\ FreeIDs' = FreeIDs /\ sid = NextID /\ NextID' = NextID + 1
    <3>1. Len(FreeIDs) = 0 /\ Len(FreeIDs') = 0
      BY <2>2
    <3>2. \A x : ~IsFree(x) /\ ~IsFree(x)'
      BY <3>1 DEF IsFree
    <3>3. FreeOnce'
      BY <3>1 DEF FreeOnce
    <3>4. \A d \in Handlers : Holds(d) => con[d].sid # sid
      BY <1>3, <2>2 DEF SesInv, HeldOnce
    <3> QED
      BY <1>3, <2>2, <3>2, <3>3, <3>4
  <2> QED
    BY <1>1, <2>1, <2>2
<1>9. SesType'
  BY <1>4, <1>5, <1>8 DEF SesType
<1>10. \A d \in Handlers : Holds(d) => con[d].sid \in Nat
  BY <1>2 DEF SesType, Socket, Holds
<1>11. ASSUME NEW d \in Handlers, Holds(d)' PROVE con'[d].sid < NextID' /\ (~IsFree(con[d].sid))'
  <2>1. CASE d = c
    <3>1. con'[d].sid = sid /\ ~IsFree(sid)' /\ sid < NextID'
      BY <1>3, <1>5, <1>8, <2>1
    <3> QED
      BY <3>1 DEF IsFree
  <2>2. CASE d # c
    <3>1. con'[d] = con[d] /\ Holds(d)
      BY <1>5, <1>6, <1>11, <2>2
    <3>2. con[d].sid \in Nat /\ con[d].sid < NextID /\ ~IsFree(con[d].sid)
      BY <1>10, <3>1 DEF SesInv, HeldOnce
    <3>3. PICK x \in Nat : x = con[d].sid
      BY <3>2
    <3>4. con'[d].sid = x /\ ~IsFree(x)' /\ x < NextID'
      BY <1>8, <3>1, <3>2, <3>3
    <3> QED
      BY <3>4 DEF IsFree
  <2> QED
    BY <2>1, <2>2
<1>12. \A d, e \in Handlers : Holds(d)' /\ Holds(e)' /\ con'[d].sid = con'[e].sid => d = e
  BY <1>5, <1>6, <1>8 DEF SesInv, HeldOnce
<1>13. ASSUME NEW x \in Nat, x < NextID'
       PROVE  IsFree(x)' \/ \E d \in Handlers : Holds(d)' /\ con'[d].sid = x
  <2>2. CASE x = sid /\ sid # None
    BY <1>2, <1>5, <1>6, <2>2
  <2>3. CASE x # sid
    <3>1. x < NextID
      BY <1>8, <1>13, <2>3
    <3>2. IsFree(x) \/ \E d \in Handlers : Holds(d) /\ con[d].sid = x
      BY <3>1 DEF SesInv, NoneLeaks
    <3>3. ASSUME NEW d \in Handlers, Holds(d), con[d].sid = x
          PROVE  Holds(d)' /\ con'[d].sid = x
      <4>1. d # c
        BY <1>7, <3>3
      <4> QED
        BY <1>5, <1>6, <3>3, <4>1
    <3>4. IsFree(x) => IsFree(x)'
      BY <1>8, <2>3
    <3> QED
      BY <3>2, <3>3, <3>4
  <2>1. sid # None
    BY <1>3
  <2> QED
    BY <2>1, <2>2, <2>3
<1> QED
  BY <1>9, <1>8, <1>11, <1>12, <1>13 DEF SesInv, HeldOnce, NoneLeaks

\* The other messages of a read, and its beginning and end.
LEMMA SesRead ==
  ASSUME SesInv, Ses!SubscribeAgain \/ Ses!OtherMessage \/ Ses!BadMessage \/ Ses!EndRead
  PROVE  SesInv'
<1>1. PICK c : c = at[Loop].con
  OBVIOUS
<1>2. /\ at[Loop].pc = "read" /\ c \in Handlers /\ SesType /\ PlaceOK /\ UNCHANGED <<FreeIDs, NextID>>
      /\ con[c] \in Socket
  BY <1>1 DEF SesInv, SesType, PlaceOK, Ses!SubscribeAgain, Ses!OtherMessage, Ses!BadMessage, Ses!EndRead, Ses!At
<1>3. CASE Ses!SubscribeAgain
  <2>1. PICK sid \in Nat : sid = con[c].sid /\ Ses!Answered(c, sid)
    BY <1>1, <1>2, <1>3 DEF Ses!SubscribeAgain, Socket
  <2>2. PICK p \in Socket : p.sid = sid /\ con' = [con EXCEPT ![c] = p] /\ PlaceOK' /\ at'[Loop].pc # "delattr"
    BY <1>1, <1>2, <2>1, SesAnswered
  <2> QED
    BY <1>2, <2>1, <2>2, SesOne
<1>4. CASE Ses!OtherMessage
  <2>1. Ses!Push(Loop, c, con[c], "read", TRUE)
    BY <1>1, <1>4 DEF Ses!OtherMessage
  <2>2. PICK p \in Socket : p.sid = con[c].sid /\ con' = [con EXCEPT ![c] = p] /\ PlaceOK' /\ at'[Loop].pc # "delattr"
    BY <1>1, <1>2, <2>1, SesPush
  <2> QED
    BY <1>2, <2>2, SesOne
<1>5. CASE Ses!BadMessage
  <2>1. PlaceOK' /\ at'[Loop].pc = "close" /\ UNCHANGED con
    BY <1>1, <1>2, <1>5, SesClosing DEF Ses!BadMessage
  <2> QED
    BY <1>2, <2>1, SesGoes
<1>6. CASE Ses!EndRead
  <2>1. PlaceOK' /\ at'[Loop].pc = "idle" /\ UNCHANGED con
    BY <1>2, <1>6 DEF Ses!EndRead, Ses!Idle, PlaceOK, Place
  <2> QED
    BY <1>2, <2>1, SesGoes
<1> QED
  BY <1>3, <1>4, <1>5, <1>6

LEMMA SesIdle ==
  ASSUME SesInv, NEW c \in Handlers,
         Ses!Connect(c) \/ Ses!Read(c) \/ Ses!Drop(c) \/ Ses!Write(c) \/ Ses!RunTask(c) \/ Ses!WakeNode(c)
  PROVE  SesInv'
<1>1. PICK k : k = con[c]
  OBVIOUS
<1>2. /\ at[Loop].pc = "idle" /\ k \in Socket /\ SesType /\ PlaceOK /\ UNCHANGED <<FreeIDs, NextID>>
  BY <1>1 DEF SesInv, SesType, Ses!Connect, Ses!Read, Ses!Drop, Ses!Write, Ses!RunTask, Ses!WakeNode, Ses!At
<1>3. CASE Ses!Connect(c)
  <2>1. PICK h : h = [Ses!Gone EXCEPT !.open = TRUE]
    OBVIOUS
  <2>2. h \in Socket /\ h.sid = None
    BY <2>1 DEF Ses!Gone, Socket, Wbufs
  <2>3. con' = [con EXCEPT ![c] = h] /\ con[c].sid = None /\ at' = at /\ PlaceOK'
    BY <1>2, <1>3, <2>1 DEF Ses!Connect, PlaceOK
  <2> QED
    BY <1>2, <2>2, <2>3, SesOne
<1>4. CASE Ses!Read(c)
  <2>1. PlaceOK' /\ at'[Loop].pc = "read" /\ UNCHANGED con
    BY <1>2, <1>4 DEF Ses!Read, Ses!Idle, PlaceOK, Place
  <2> QED
    BY <1>2, <2>1, SesGoes
<1>5. CASE Ses!Drop(c)
  <2>1. PICK h : h = [k EXCEPT !.wbuf = "none"]
    OBVIOUS
  <2>2. h \in Socket /\ h.sid = k.sid
    BY <1>2, <2>1 DEF Socket, Wbufs
  <2>3. con' = [con EXCEPT ![c] = h]
    BY <1>1, <1>5, <2>1 DEF Ses!Drop, Ses!Set
  <2>4. PlaceOK' /\ at'[Loop].pc = "close"
    BY <1>2, <1>5, SesClosing DEF Ses!Drop
  <2> QED
    BY <1>1, <1>2, <2>2, <2>3, <2>4, SesOne
<1>6. CASE Ses!Write(c)
  <2>1. PICK h : h = [k EXCEPT !.wbuf = "empty"]
    OBVIOUS
  <2>2. h \in Socket /\ h.sid = k.sid
    BY <1>2, <2>1 DEF Socket, Wbufs
  <2>3. con' = [con EXCEPT ![c] = h]
    BY <1>1, <1>6, <2>1 DEF Ses!Write, Ses!Set
  <2>4. PlaceOK' /\ at'[Loop].pc \in {"idle", "close"}
    <3>1. Ses!Closing(Loop, c, "idle") \/ UNCHANGED at
      BY <1>6 DEF Ses!Write
    <3>2. CASE Ses!Closing(Loop, c, "idle")
      BY <1>2, <3>2, SesClosing
    <3>3. CASE UNCHANGED at
      BY <1>2, <3>3 DEF PlaceOK
    <3> QED
      BY <3>1, <3>2, <3>3
  <2> QED
    BY <1>1, <1>2, <2>2, <2>3, <2>4, SesOne
<1>7. CASE Ses!RunTask(c)
  <2>1. PICK h : h = [k EXCEPT !.task = FALSE]
    OBVIOUS
  <2>2. h \in Socket /\ h.sid = k.sid
    BY <1>2, <2>1 DEF Socket
  <2>3. Ses!Push(Loop, c, h, "idle", TRUE)
    BY <1>1, <1>7, <2>1 DEF Ses!RunTask
  <2>4. PICK p \in Socket : p.sid = h.sid /\ con' = [con EXCEPT ![c] = p] /\ PlaceOK' /\ at'[Loop].pc # "delattr"
    BY <1>2, <2>2, <2>3, SesPush
  <2> QED
    BY <1>1, <1>2, <2>2, <2>4, SesOne
<1>8. CASE Ses!WakeNode(c)
  <2>1. Ses!Push(Loop, c, k, "idle", FALSE)
    BY <1>1, <1>8 DEF Ses!WakeNode
  <2>2. PICK p \in Socket : p.sid = k.sid /\ con' = [con EXCEPT ![c] = p] /\ PlaceOK' /\ at'[Loop].pc # "delattr"
    BY <1>2, <2>1, SesPush
  <2> QED
    BY <1>1, <1>2, <2>2, SesOne
<1> QED
  BY <1>3, <1>4, <1>5, <1>6, <1>7, <1>8

LEMMA SesBoot == ASSUME SesInv, Ses!BootAll(Loop) \/ Ses!BootNext(Loop) PROVE SesInv'
<1>1. at[Loop].pc \in {"idle", "boot"} /\ UNCHANGED <<con, FreeIDs, NextID>> /\ PlaceOK
  BY DEF SesInv, SesType, Ses!BootAll, Ses!BootNext, Ses!At
<1>2. PICK p : p \in Place /\ (p.pc = "close" => p.con \in Handlers) /\ p.pc \in {"boot", "idle", "close"}
               /\ at' = [at EXCEPT ![Loop] = p]
  <2>1. CASE Ses!BootAll(Loop)
    BY <2>1 DEF Ses!BootAll, Ses!Idle, Place
  <2>2. CASE Ses!BootNext(Loop) /\ at' = [at EXCEPT ![Loop] = Ses!Idle]
    BY <2>2 DEF Ses!Idle, Place
  <2>3. CASE \E c \in at[Loop].left :
               at' = [at EXCEPT ![Loop] = [pc |-> "close", con |-> c, left |-> at[Loop].left \ {c}, then |-> "boot"]]
    BY <1>1, <2>3 DEF PlaceOK, Place
  <2> QED
    BY <2>1, <2>2, <2>3 DEF Ses!BootNext
<1>3. PlaceOK' /\ at'[Loop].pc # "delattr"
  BY <1>1, <1>2 DEF PlaceOK
<1> QED
  BY <1>1, <1>3, SesGoes

LEMMA SesStep ==
  ASSUME Booters = {}, None \notin Nat, SesInv, [Ses!Next]_(Ses!vars) PROVE SesInv'
<1>1. CASE UNCHANGED Ses!vars
  <2>1. PlaceOK'
    BY <1>1 DEF Ses!vars, SesInv, SesType, PlaceOK
  <2>2. \A c \in Handlers : con'[c].sid = con[c].sid /\ (Holds(c)' <=> Holds(c))
    BY <1>1 DEF Ses!vars, Holds
  <2> QED
    BY <1>1, <2>1, <2>2, SesQuiet DEF Ses!vars, SesInv, SesType
<1>2. CASE \E c \in Handlers : Ses!Connect(c) \/ Ses!Read(c) \/ Ses!Drop(c) \/ Ses!Write(c)
                               \/ Ses!RunTask(c) \/ Ses!WakeNode(c)
  BY <1>2, SesIdle
<1>3. CASE Ses!Messages
  BY <1>3, SesRead, SesSubscribe DEF Ses!Messages
<1>4. CASE Ses!InLoop
  BY <1>4, SesRead, SesClose, SesBoot DEF Ses!InLoop
<1>5. CASE \E t \in Ses!Threads : Ses!BootAll(t)
  BY <1>5, SesBoot DEF Ses!Threads
<1> QED
  BY <1>1, <1>2, <1>3, <1>4, <1>5 DEF Ses!Next

\* What the invariant says of one id, counted.
LEMMA SesCardinality == \A S : Ses!Cardinality(S) = Cardinality(S)
BY DEF Ses!Cardinality, Cardinality, Ses!IsFiniteSet, IsFiniteSet

LEMMA SesCounted == ASSUME Booters = {}, None \notin Nat, SesInv PROVE Ses!EachSidOnce
<1> SUFFICES ASSUME NEW sid \in 0 .. NextID - 1
             PROVE  Cardinality({i \in DOMAIN FreeIDs : FreeIDs[i] = sid}) + Cardinality(Ses!Holders(sid)) = 1
  BY SesCardinality DEF Ses!EachSidOnce
<1>1. sid \in Nat /\ sid < NextID /\ sid # None
  BY DEF SesInv, SesType
<1>2. Ses!Holders(sid) = {c \in Handlers : con[c].sid = sid /\ Holds(c)}
  BY <1>1 DEF Ses!Holders, Ses!Threads, Ses!At, Holds
<1>3. DOMAIN FreeIDs = 1 .. Len(FreeIDs)
  BY DEF SesInv, SesType
<1>4. CASE IsFree(sid)
  <2>1. PICK k \in 1 .. Len(FreeIDs) : FreeIDs[k] = sid
    BY <1>4 DEF IsFree
  <2>2. {i \in DOMAIN FreeIDs : FreeIDs[i] = sid} = {k}
    BY <1>3, <2>1 DEF SesInv, FreeOnce
  <2>3. Ses!Holders(sid) = {}
    BY <1>2, <1>4 DEF SesInv, HeldOnce
  <2>4. Cardinality({k}) = 1 /\ Cardinality({}) = 0
    BY FS_EmptySet, FS_Singleton
  <2>5. Cardinality({i \in DOMAIN FreeIDs : FreeIDs[i] = sid}) = 1
    BY <2>2, <2>4
  <2>6. Cardinality(Ses!Holders(sid)) = 0
    BY <2>3, <2>4
  <2> QED
    BY <2>5, <2>6
<1>5. CASE ~IsFree(sid)
  <2>1. PICK c \in Handlers : Holds(c) /\ con[c].sid = sid
    BY <1>1, <1>5 DEF SesInv, NoneLeaks
  <2>2. Ses!Holders(sid) = {c}
    BY <1>2, <2>1 DEF SesInv, HeldOnce
  <2>3. {i \in DOMAIN FreeIDs : FreeIDs[i] = sid} = {}
    BY <1>3, <1>5 DEF IsFree
  <2>4. Cardinality({c}) = 1 /\ Cardinality({}) = 0
    BY FS_EmptySet, FS_Singleton
  <2> QED
    BY <2>2, <2>3, <2>4
<1> QED
  BY <1>4, <1>5

LEMMA SesSafe ==
  ASSUME Booters = {}, None \notin Nat PROVE Ses!Spec => []Ses!EachSidOnce
<1>1. SesInv /\ [Ses!Next]_(Ses!vars) => SesInv'
  BY SesStep
<1>2. SesInv => Ses!EachSidOnce
  BY SesCounted
<1> QED
  BY <1>1, <1>2, SesInit, PTL DEF Ses!Spec

-----------------------------------------------------------------------------
\* Requests on one connection

Kind == [auth : Names \cup {None, Bad}, malformed : BOOLEAN, target : Req!Targets,
         body : BOOLEAN, close : BOOLEAN]
Part == [n : Nat, part : {"headers", "body"}]
Conn == [open : BOOLEAN, closeme : BOOLEAN, wbuf : BOOLEAN, task : {None, "timeout"},
         buffer : Seq(Part), expects : {"headers", "body", "handle", "nothing"},
         garbled : BOOLEAN, n : Nat, user : Names \cup {None, Bad}, closing : BOOLEAN,
         replySent : BOOLEAN, LP : BOOLEAN]
Answer == [n : Nat, status : Nat]
Made == [n : Nat, user : Names \cup {None, Bad}]
ReqType ==
  /\ requests \in Seq(Kind) /\ wire \in Seq(Part) /\ http \in Conn
  /\ answers \in Seq(Answer)
  /\ executed \in Seq(Made)

\* An open handler has its timer, unless it waits or has only to send.
Timed(h) == h.open => h.LP \/ h.closeme \/ h.task = "timeout"

\* The request in hand is still to be answered.
Pending(h) == (h.expects \in {"body", "handle"} /\ ~h.replySent) \/ h.LP
InHandOK ==
  /\ http.n <= Len(requests)
  /\ http.LP => http.expects = "nothing"
  /\ Pending(http) => /\ 1 <= http.n
                      /\ requests[http.n].auth # Bad /\ http.user = requests[http.n].auth
  /\ http.LP => requests[http.n].target = "longpoll" /\ http.user # None

\* The header blocks that were not handled yet are behind the request in hand, in
\* the order they were sent.
Ahead(p) == 1 <= p.n /\ p.n <= Len(requests) /\ (p.part = "headers" => http.n < p.n)
InOrder(p, q) == p.part = "headers" /\ q.part = "headers" => p.n < q.n
PartsOK ==
  /\ \A i \in 1 .. Len(http.buffer) : Ahead(http.buffer[i])
  /\ \A i \in 1 .. Len(wire) : Ahead(wire[i])
  /\ \A i, j \in 1 .. Len(http.buffer) : i < j => InOrder(http.buffer[i], http.buffer[j])
  /\ \A i, j \in 1 .. Len(wire) : i < j => InOrder(wire[i], wire[j])
  /\ \A i \in 1 .. Len(http.buffer), j \in 1 .. Len(wire) : InOrder(http.buffer[i], wire[j])

\* What was answered and executed is before what is pending.
Past(n) == 1 <= n /\ n <= http.n /\ (Pending(http) => n < http.n)
AnsweredOK ==
  /\ \A i \in 1 .. Len(answers) : Past(answers[i].n)
  /\ \A i, j \in 1 .. Len(answers) : i < j => answers[i].n < answers[j].n
  /\ \A i \in 1 .. Len(answers) : answers[i].status \in Req!OwnAnswers(requests[answers[i].n])
ExecutedOK ==
  /\ \A i \in 1 .. Len(executed) : Past(executed[i].n)
  /\ \A i, j \in 1 .. Len(executed) : i < j => executed[i].n < executed[j].n
  /\ \A i \in 1 .. Len(executed) :
       executed[i].user = requests[executed[i].n].auth /\ executed[i].user \notin {None, Bad}
CallsMade ==
  \A i \in 1 .. Len(answers) :
    answers[i].status = 200 /\ requests[answers[i].n].target \in {"call", "longpoll"}
      => \E j \in 1 .. Len(executed) : executed[j].n = answers[i].n
ReqInv == ReqType /\ Timed(http) /\ InHandOK /\ PartsOK /\ AnsweredOK /\ ExecutedOK /\ CallsMade

LEMMA ReqInit == Req!Init => ReqInv
<1> SUFFICES ASSUME Req!Init PROVE ReqInv
  OBVIOUS
<1>1. <<>> \in Seq(Kind) /\ <<>> \in Seq(Part) /\ <<>> \in Seq(Answer)
      /\ <<>> \in Seq(Made)
  OBVIOUS
<1>2. http \in Conn /\ http.buffer = <<>> /\ Timed(http) /\ ~Pending(http) /\ ~http.LP /\ http.n = 0
  BY <1>1 DEF Req!Init, Req!NewHandler, Conn, Timed, Pending
<1>3. requests = <<>> /\ wire = <<>> /\ answers = <<>> /\ executed = <<>>
  BY DEF Req!Init
<1>4. \A s : s = <<>> => Len(s) = 0
  OBVIOUS
<1>5. 1 .. 0 = {}
  OBVIOUS
<1>6. ReqType
  BY <1>1, <1>2, <1>3 DEF ReqType
<1>7. InHandOK
  BY <1>2, <1>3, <1>4 DEF InHandOK
<1>8. PartsOK /\ AnsweredOK /\ ExecutedOK /\ CallsMade
  BY <1>2, <1>3, <1>4, <1>5 DEF PartsOK, AnsweredOK, ExecutedOK, CallsMade
<1> QED
  BY <1>2, <1>6, <1>7, <1>8 DEF ReqInv

\* What closing, pushing and resetting do to a handler.
Keeps(h, g) == g \in Conn /\ g.n = h.n /\ g.user = h.user /\ g.buffer = h.buffer
LEMMA ReqCloses ==
  ASSUME NEW h \in Conn
  PROVE  /\ Keeps(h, Req!CloseSocket(h)) /\ Timed(Req!CloseSocket(h))
         /\ Pending(Req!CloseSocket(h)) <=> Pending(h)
         /\ Req!CloseSocket(h).LP = h.LP /\ Req!CloseSocket(h).expects = h.expects
         /\ Keeps(h, Req!HandleClose(h)) /\ Timed(Req!HandleClose(h))
         /\ ~Req!HandleClose(h).LP /\ Req!HandleClose(h).expects = h.expects
         /\ Req!HandleClose(h).replySent = h.replySent
<1>1. \A k \in Conn : /\ Keeps(k, Req!CloseSocket(k)) /\ Timed(Req!CloseSocket(k))
                      /\ Req!CloseSocket(k).LP = k.LP /\ Req!CloseSocket(k).expects = k.expects
                      /\ Req!CloseSocket(k).replySent = k.replySent
  BY DEF Keeps, Conn, Req!CloseSocket, Timed
<1>2. Pending(Req!CloseSocket(h)) <=> Pending(h)
  BY <1>1 DEF Pending
<1>3. PICK k : k = [h EXCEPT !.wbuf = FALSE, !.LP = FALSE]
  OBVIOUS
<1>4. k \in Conn /\ Keeps(h, k) /\ ~k.LP /\ k.expects = h.expects /\ k.replySent = h.replySent
  BY <1>3 DEF Conn, Keeps
<1>5. Req!HandleClose(h) = Req!CloseSocket(k)
  BY <1>3 DEF Req!HandleClose
<1>6. Keeps(h, Req!HandleClose(h))
  BY <1>1, <1>4, <1>5 DEF Keeps
<1> QED
  BY <1>1, <1>2, <1>4, <1>5, <1>6

LEMMA ReqPushes ==
  ASSUME NEW h \in Conn, NEW g \in Req!Pushed(h)
  PROVE  /\ Keeps(h, g) /\ (Timed(h) => Timed(g)) /\ (g.LP => h.LP)
         /\ g.expects = h.expects /\ g.replySent = h.replySent
<1>1. g = h \/ g = [h EXCEPT !.wbuf = TRUE] \/ g = Req!HandleClose(h)
  BY DEF Req!Pushed
<1>2. CASE g = h
  BY <1>2 DEF Keeps
<1>3. CASE g = [h EXCEPT !.wbuf = TRUE]
  BY <1>3 DEF Conn, Keeps, Timed
<1>4. CASE g = Req!HandleClose(h)
  BY <1>4, ReqCloses
<1> QED
  BY <1>1, <1>2, <1>3, <1>4

LEMMA ReqResets ==
  ASSUME NEW h \in Conn
  PROVE  /\ Keeps(h, Req!ResetRequest(h)) /\ Timed(Req!ResetRequest(h))
         /\ ~Pending(Req!ResetRequest(h)) /\ ~Req!ResetRequest(h).LP
<1>1. PICK k : k = [h EXCEPT !.replySent = FALSE, !.expects = "headers", !.garbled = FALSE,
                             !.LP = FALSE, !.task = "timeout"]
  OBVIOUS
<1>2. k \in Conn /\ Keeps(h, k) /\ Timed(k) /\ ~Pending(k) /\ ~k.LP
  BY <1>1 DEF Conn, Keeps, Timed, Pending
<1>3. Req!ResetRequest(h) = IF h.closing THEN Req!CloseSocket(k) ELSE k
  BY <1>1 DEF Req!ResetRequest
<1> QED
  BY <1>2, <1>3, ReqCloses DEF Keeps

\* What a step must leave behind that answers and executes nothing.
LEMMA ReqQuiet ==
  ASSUME ReqInv, UNCHANGED <<requests, answers, executed>>, wire' \in Seq(Part),
         http' \in Conn, Timed(http'), PartsOK', http'.n = http.n, http'.user = http.user,
         Pending(http') => Pending(http), http'.LP => http.LP /\ http'.expects = "nothing"
  PROVE  ReqInv'
<1>1. ReqType' /\ Timed(http)'
  BY DEF ReqInv, ReqType
<1>2. InHandOK'
  BY DEF ReqInv, InHandOK, Pending
<1>3. \A n : Past(n) => Past(n)'
  BY DEF Past, Pending
<1>4. AnsweredOK' /\ ExecutedOK' /\ CallsMade'
  BY <1>3 DEF ReqInv, AnsweredOK, ExecutedOK, CallsMade, Req!OwnAnswers
<1> QED
  BY <1>1, <1>2, <1>4 DEF ReqInv

LEMMA ReqPartsKept ==
  ASSUME PartsOK, http'.buffer = http.buffer, http'.n = http.n, UNCHANGED <<requests, wire>>
  PROVE  PartsOK'
BY DEF PartsOK, Ahead

\* Likewise, of one that handles no part.
LEMMA ReqSettles ==
  ASSUME ReqInv, UNCHANGED <<requests, wire, answers, executed>>, Keeps(http, http'), Timed(http'),
         Pending(http') => Pending(http), http'.LP => http.LP /\ http'.expects = "nothing"
  PROVE  ReqInv'
<1>1. PartsOK'
  BY ReqPartsKept DEF ReqInv, Keeps
<1>2. wire' \in Seq(Part)
  BY DEF ReqInv, ReqType
<1> QED
  BY <1>1, <1>2, ReqQuiet DEF Keeps

\* The next part is taken; a header block is now the request in hand.
LEMMA ReqPartsTaken ==
  ASSUME ReqType, PartsOK, http.buffer # <<>>, http'.buffer = Tail(http.buffer),
         \/ http'.n = http.n
         \/ http'.n = Head(http.buffer).n /\ Head(http.buffer).part = "headers",
         UNCHANGED <<requests, wire>>
  PROVE  /\ PartsOK' /\ http'.buffer \in Seq(Part)
         /\ Head(http.buffer).part = "headers" =>
              Head(http.buffer).n \in Nat /\ http.n < Head(http.buffer).n /\ Head(http.buffer).n <= Len(requests)
<1>1. PICK b \in Seq(Part) : b = http.buffer
  BY DEF ReqType, Conn
<1>2. /\ Len(b) \in Nat /\ Len(b) >= 1 /\ b[1] = Head(b) /\ b[1] \in Part
      /\ Tail(b) \in Seq(Part) /\ Len(Tail(b)) = Len(b) - 1
      /\ \A i \in 1 .. Len(Tail(b)) : Tail(b)[i] = b[i + 1] /\ i + 1 \in 1 .. Len(b) /\ 1 < i + 1
  BY <1>1
<1>3. Ahead(b[1]) /\ \A i \in 1 .. Len(b) : Ahead(b[i])
  BY <1>1, <1>2 DEF PartsOK
<1>4. \A i \in 1 .. Len(Tail(b)) : InOrder(b[1], b[i + 1])
  BY <1>1, <1>2 DEF PartsOK
<1>5. \A j \in 1 .. Len(wire) : InOrder(b[1], wire[j])
  BY <1>1, <1>2 DEF PartsOK
<1>6. \A p : Ahead(p) /\ InOrder(b[1], p) => Ahead(p)'
  BY <1>1, <1>2 DEF Ahead, InOrder
<1>7. \A i \in 1 .. Len(Tail(b)) : Ahead(Tail(b)[i])'
  BY <1>2, <1>3, <1>4, <1>6
<1>8. \A j \in 1 .. Len(wire) : Ahead(wire[j])'
  BY <1>5, <1>6 DEF PartsOK
<1>9. \A i, j \in 1 .. Len(Tail(b)) : i < j => InOrder(Tail(b)[i], Tail(b)[j])
  <2> SUFFICES ASSUME NEW i \in 1 .. Len(Tail(b)), NEW j \in 1 .. Len(Tail(b)), i < j
               PROVE  InOrder(Tail(b)[i], Tail(b)[j])
    OBVIOUS
  <2>1. i + 1 < j + 1 /\ i + 1 \in 1 .. Len(b) /\ j + 1 \in 1 .. Len(b)
    BY <1>2
  <2> QED
    BY <1>1, <1>2, <2>1 DEF PartsOK
<1>10. \A i \in 1 .. Len(Tail(b)), j \in 1 .. Len(wire) : InOrder(Tail(b)[i], wire[j])
  BY <1>1, <1>2 DEF PartsOK
<1>11. http'.buffer = Tail(b) /\ wire' = wire
  BY <1>1
<1>12. PartsOK'
  BY <1>7, <1>8, <1>9, <1>10, <1>11 DEF PartsOK
<1>13. b[1].n \in Nat /\ (b[1].part = "headers" => http.n < b[1].n /\ b[1].n <= Len(requests))
  BY <1>2, <1>3 DEF Ahead, Part
<1> QED
  BY <1>1, <1>2, <1>11, <1>12, <1>13

LEMMA ReqEnds == ASSUME ReqInv, Req!Timeout \/ Req!Write \/ Req!Drop PROVE ReqInv'
<1>1. http \in Conn /\ Timed(http) /\ (http.LP => http.expects = "nothing")
      /\ UNCHANGED <<requests, wire, answers, executed>>
  BY DEF ReqInv, ReqType, InHandOK, Req!Timeout, Req!Write, Req!Drop
<1>2. CASE Req!Timeout
  <2>1. PICK k : k = [http EXCEPT !.task = None]
    OBVIOUS
  <2>2. k \in Conn /\ Keeps(http, k) /\ k.LP = http.LP /\ (Pending(k) <=> Pending(http)) /\ k.expects = http.expects
    BY <1>1, <2>1 DEF Conn, Keeps, Pending
  <2>3. http' = Req!CloseSocket(k)
    BY <1>2, <2>1 DEF Req!Timeout
  <2>4. /\ Keeps(http, http') /\ Timed(http')
        /\ (Pending(http') => Pending(http)) /\ (http'.LP => http.LP) /\ http'.expects = http.expects
    BY <2>2, <2>3, ReqCloses DEF Keeps
  <2> QED
    BY <1>1, <2>4, ReqSettles
<1>3. CASE Req!Write
  <2>1. PICK k : k = [http EXCEPT !.wbuf = FALSE]
    OBVIOUS
  <2>2. k \in Conn /\ Keeps(http, k) /\ k.LP = http.LP /\ (Pending(k) <=> Pending(http))
        /\ k.expects = http.expects /\ Timed(k)
    BY <1>1, <2>1 DEF Conn, Keeps, Pending, Timed
  <2>3. http' = IF k.closeme THEN Req!CloseSocket(k) ELSE k
    BY <1>3, <2>1 DEF Req!Write
  <2>4. /\ Keeps(http, http') /\ Timed(http')
        /\ (Pending(http') => Pending(http)) /\ (http'.LP => http.LP) /\ http'.expects = http.expects
    BY <2>2, <2>3, ReqCloses DEF Keeps
  <2> QED
    BY <1>1, <2>4, ReqSettles
<1>4. CASE Req!Drop
  <2>1. http' = Req!HandleClose(http)
    BY <1>4 DEF Req!Drop
  <2>2. /\ Keeps(http, http') /\ Timed(http') /\ ~http'.LP
        /\ http'.expects = http.expects /\ http'.replySent = http.replySent
    BY <1>1, <2>1, ReqCloses
  <2>3. Pending(http') => Pending(http)
    BY <2>2 DEF Pending
  <2> QED
    BY <1>1, <2>2, <2>3, ReqSettles
<1> QED
  BY <1>2, <1>3, <1>4

LEMMA ReqSend == ASSUME ReqInv, Kinds \subseteq Kind, NEW kind \in Kinds, Req!Send(kind) PROVE ReqInv'
<1>1. /\ requests \in Seq(Kind) /\ wire \in Seq(Part) /\ http \in Conn /\ Len(requests) \in Nat /\ Len(wire) \in Nat
      /\ UNCHANGED <<http, answers, executed>> /\ kind \in Kind
  BY DEF ReqInv, ReqType, Req!Send
<1>2. requests' = Append(requests, kind)
  BY DEF Req!Send
<1>3. /\ requests' \in Seq(Kind) /\ Len(requests') = Len(requests) + 1
      /\ \A n \in Nat : 1 <= n /\ n <= Len(requests) => requests'[n] = requests[n]
  BY <1>1, <1>2
<1>4. PICK new \in Seq(Part) :
        /\ wire' = wire \o new /\ Len(new) \in {1, 2}
        /\ \A i \in 1 .. Len(new) : new[i].n = Len(requests) + 1 /\ (new[i].part = "headers" => i = 1)
  <2>1. CASE kind.body
    <3>1. PICK new : new = <<[n |-> Len(requests) + 1, part |-> "headers"], [n |-> Len(requests) + 1, part |-> "body"]>>
      OBVIOUS
    <3>2. /\ [n |-> Len(requests) + 1, part |-> "headers"] \in Part
          /\ [n |-> Len(requests) + 1, part |-> "body"] \in Part
      BY <1>1 DEF Part
    <3>3. new \in Seq(Part) /\ Len(new) = 2
      BY <3>1, <3>2
    <3>4. new[1].n = Len(requests) + 1 /\ new[2].n = Len(requests) + 1 /\ new[2].part = "body"
      BY <3>1
    <3>5. \A i \in 1 .. Len(new) : i = 1 \/ i = 2
      BY <3>3
    <3>6. wire' = wire \o new
      BY <2>1, <3>1 DEF Req!Send
    <3> QED
      BY <3>3, <3>4, <3>5, <3>6
  <2>2. CASE ~kind.body
    <3>1. PICK new : new = <<[n |-> Len(requests) + 1, part |-> "headers"]>>
      OBVIOUS
    <3>2. new \in Seq(Part) /\ Len(new) = 1 /\ new[1].n = Len(requests) + 1
      BY <1>1, <3>1 DEF Part
    <3>3. wire' = wire \o new
      BY <2>2, <3>1 DEF Req!Send
    <3> QED
      BY <3>2, <3>3
  <2> QED
    BY <2>1, <2>2
<1>5. wire' \in Seq(Part) /\ Len(wire') = Len(wire) + Len(new)
  BY <1>1, <1>4
<1>6. \A i \in 1 .. Len(wire') :
        \/ i \in 1 .. Len(wire) /\ wire'[i] = wire[i]
        \/ i - Len(wire) \in 1 .. Len(new) /\ i > Len(wire) /\ wire'[i] = new[i - Len(wire)]
  BY <1>1, <1>4
<1>7. http.n \in Nat /\ http.n <= Len(requests)
  BY <1>1 DEF ReqInv, InHandOK, Conn
<1>8. \A p \in Part : Ahead(p) => Ahead(p)' /\ p.n < Len(requests) + 1
  BY <1>1, <1>3 DEF Ahead, Part
<1>9. PartsOK'
  <2>1. /\ http.buffer \in Seq(Part) /\ http'.buffer = http.buffer /\ Len(http.buffer) \in Nat
        /\ \A i \in 1 .. Len(http.buffer) : http.buffer[i] \in Part
        /\ \A i \in 1 .. Len(wire) : wire[i] \in Part
    BY <1>1 DEF Conn
  <2>2. \A i \in 1 .. Len(new) : new[i] \in Part /\ Ahead(new[i])'
    BY <1>1, <1>3, <1>4, <1>7 DEF Ahead
  <2>3. \A p \in Part : \A i \in 1 .. Len(new) : Ahead(p) => InOrder(p, new[i])
    BY <1>4, <1>8 DEF InOrder
  <2>4. \A i, j \in 1 .. Len(new) : i < j => InOrder(new[i], new[j])
    BY <1>4 DEF InOrder
  <2>5. \A i \in 1 .. Len(http.buffer) : Ahead(http.buffer[i])'
    BY <1>8, <2>1 DEF ReqInv, PartsOK
  <2>6. \A i \in 1 .. Len(wire') : Ahead(wire[i])'
    BY <1>6, <1>8, <2>1, <2>2 DEF ReqInv, PartsOK
  <2>7. \A i, j \in 1 .. Len(wire') : i < j => InOrder(wire'[i], wire'[j])
    <3> SUFFICES ASSUME NEW i \in 1 .. Len(wire'), NEW j \in 1 .. Len(wire'), i < j
                 PROVE  InOrder(wire'[i], wire'[j])
      OBVIOUS
    <3>1. CASE i \in 1 .. Len(wire) /\ j \in 1 .. Len(wire)
      <4>1. wire'[i] = wire[i] /\ wire'[j] = wire[j]
        BY <1>1, <1>6, <3>1
      <4>2. InOrder(wire[i], wire[j])
        BY <3>1 DEF ReqInv, PartsOK
      <4> QED
        BY <4>1, <4>2
    <3>2. CASE i \in 1 .. Len(wire) /\ j > Len(wire)
      <4>1. wire'[i] = wire[i] /\ Ahead(wire[i]) /\ wire[i] \in Part
        BY <1>1, <1>6, <2>1, <3>2 DEF ReqInv, PartsOK
      <4>2. j - Len(wire) \in 1 .. Len(new) /\ wire'[j] = new[j - Len(wire)]
        BY <1>1, <1>6, <3>2
      <4> QED
        BY <2>3, <4>1, <4>2
    <3>3. CASE i > Len(wire)
      <4>1. j > Len(wire)
        BY <1>1, <1>5, <3>3
      <4>2. /\ i - Len(wire) \in 1 .. Len(new) /\ wire'[i] = new[i - Len(wire)]
            /\ j - Len(wire) \in 1 .. Len(new) /\ wire'[j] = new[j - Len(wire)]
        BY <1>1, <1>6, <3>3, <4>1
      <4>3. i - Len(wire) < j - Len(wire)
        BY <1>1, <1>5
      <4> QED
        BY <2>4, <4>2, <4>3
    <3> QED
      BY <1>1, <1>6, <3>1, <3>2, <3>3
  <2>8. \A i \in 1 .. Len(http.buffer), j \in 1 .. Len(wire') : InOrder(http.buffer[i], wire'[j])
    <3> SUFFICES ASSUME NEW i \in 1 .. Len(http.buffer), NEW j \in 1 .. Len(wire')
                 PROVE  InOrder(http.buffer[i], wire'[j])
      OBVIOUS
    <3>1. CASE j \in 1 .. Len(wire) /\ wire'[j] = wire[j]
      BY <3>1 DEF ReqInv, PartsOK
    <3>2. CASE j - Len(wire) \in 1 .. Len(new) /\ wire'[j] = new[j - Len(wire)]
      BY <2>1, <2>3, <3>2 DEF ReqInv, PartsOK
    <3> QED
      BY <1>6, <3>1, <3>2
  <2>9. \A i, j \in 1 .. Len(http.buffer) : i < j => InOrder(http.buffer[i], http.buffer[j])
    BY DEF ReqInv, PartsOK
  <2> QED
    BY <2>1, <2>5, <2>6, <2>7, <2>8, <2>9 DEF PartsOK
<1>10. Pending(http)' <=> Pending(http)
  BY <1>1 DEF Pending
<1>11. http'.LP => Pending(http)
  BY <1>1 DEF Pending
<1>12. InHandOK'
  <2>1. Pending(http) => requests'[http.n] = requests[http.n]
    BY <1>3, <1>7 DEF ReqInv, InHandOK
  <2> QED
    BY <1>1, <1>3, <1>7, <1>10, <1>11, <2>1 DEF ReqInv, InHandOK
<1>13. \A n : Past(n)' <=> Past(n)
  BY <1>1, <1>10 DEF Past
<1>14. \A n \in Nat : Past(n) => requests'[n] = requests[n]
  BY <1>3, <1>7 DEF Past
<1>15. /\ answers' = answers /\ \A i \in 1 .. Len(answers) : answers[i].n \in Nat
       /\ executed' = executed /\ \A i \in 1 .. Len(executed) : executed[i].n \in Nat
  <2>1. answers \in Seq(Answer) /\ executed \in Seq(Made)
    BY DEF ReqInv, ReqType
  <2>2. \A i \in 1 .. Len(answers) : answers[i] \in Answer
    BY <2>1
  <2>3. \A i \in 1 .. Len(executed) : executed[i] \in Made
    BY <2>1
  <2> QED
    BY <1>1, <2>2, <2>3 DEF Answer, Made
<1>16. /\ \A i \in 1 .. Len(answers) : requests'[answers[i].n] = requests[answers[i].n]
       /\ \A i \in 1 .. Len(executed) : requests'[executed[i].n] = requests[executed[i].n]
  BY <1>14, <1>15 DEF ReqInv, AnsweredOK, ExecutedOK
<1>17. AnsweredOK'
  BY <1>13, <1>15, <1>16 DEF ReqInv, AnsweredOK, Req!OwnAnswers
<1>18. ExecutedOK'
  BY <1>13, <1>15, <1>16 DEF ReqInv, ExecutedOK
<1>19. CallsMade'
  BY <1>15, <1>16 DEF ReqInv, CallsMade
<1> QED
  BY <1>1, <1>3, <1>5, <1>9, <1>12, <1>17, <1>18, <1>19 DEF ReqInv, ReqType, Timed

LEMMA ReqRead == ASSUME ReqInv, NEW k \in Nat, Req!Read(k) PROVE ReqInv'
<1>1. /\ wire \in Seq(Part) /\ http \in Conn /\ Len(wire) \in Nat /\ k >= 1 /\ k <= Len(wire)
      /\ UNCHANGED <<requests, answers, executed>> /\ http.buffer = <<>> /\ Timed(http)
  BY DEF ReqInv, ReqType, Req!Read, Req!InLoop
<1>2. PICK rest \in Seq(Part) : rest = SubSeq(wire, k + 1, Len(wire))
  <2>1. k + 1 \in Int /\ Len(wire) \in Int /\ \A i \in k + 1 .. Len(wire) : wire[i] \in Part
    BY <1>1
  <2> QED
    BY <2>1, SubSeqProperties
<1>3. PICK got \in Seq(Part) : got = SubSeq(wire, 1, k)
  <2>1. 1 \in Int /\ k \in Int /\ \A i \in 1 .. k : wire[i] \in Part
    BY <1>1
  <2> QED
    BY <2>1, SubSeqProperties
<1>4. /\ Len(rest) = Len(wire) - k /\ Len(got) = k
      /\ \A i \in 1 .. Len(rest) : rest[i] = wire[k + i] /\ k + i \in 1 .. Len(wire)
      /\ \A i \in 1 .. Len(got) : got[i] = wire[i] /\ i \in 1 .. Len(wire)
  BY <1>1, <1>2, <1>3
<1>5. wire' = rest
  BY <1>2 DEF Req!Read
<1>6. PICK b \in Seq(Part) : b = http'.buffer /\ (b = <<>> \/ b = got)
  <2>1. http' = http \/ http' = [http EXCEPT !.buffer = got]
    BY <1>3 DEF Req!Read
  <2>2. http'.buffer = http.buffer \/ http'.buffer = got
    BY <1>1, <2>1 DEF Conn
  <2>3. <<>> \in Seq(Part)
    OBVIOUS
  <2> QED
    BY <1>1, <1>3, <2>2, <2>3
<1>7. /\ http' \in Conn /\ Timed(http') /\ http'.n = http.n /\ http'.user = http.user
      /\ http'.LP = http.LP /\ http'.expects = http.expects /\ http'.replySent = http.replySent
  <2>1. http' = http \/ http' = [http EXCEPT !.buffer = got]
    BY <1>3 DEF Req!Read
  <2>2. CASE http' = http
    BY <1>1, <2>2
  <2>3. CASE http' = [http EXCEPT !.buffer = got]
    BY <1>1, <2>3 DEF Conn, Timed
  <2> QED
    BY <2>1, <2>2, <2>3
<1>8. \A p : Ahead(p) => Ahead(p)'
  BY <1>1, <1>7 DEF Ahead
<1>9. \A i, j \in 1 .. Len(wire) : i < j => InOrder(wire[i], wire[j])
  BY DEF ReqInv, PartsOK
<1>10. \A i \in 1 .. Len(b) : b[i] = wire[i] /\ i \in 1 .. Len(wire) /\ i <= k
  BY <1>1, <1>4, <1>6
<1>11. PartsOK'
  <2>1. \A i \in 1 .. Len(b) : Ahead(b[i])'
    BY <1>8, <1>10 DEF ReqInv, PartsOK
  <2>2. \A i \in 1 .. Len(rest) : Ahead(rest[i])'
    BY <1>4, <1>8 DEF ReqInv, PartsOK
  <2>3. \A i, j \in 1 .. Len(b) : i < j => InOrder(b[i], b[j])
    BY <1>9, <1>10
  <2>4. \A i, j \in 1 .. Len(rest) : i < j => InOrder(rest[i], rest[j])
    <3> SUFFICES ASSUME NEW i \in 1 .. Len(rest), NEW j \in 1 .. Len(rest), i < j
                 PROVE  InOrder(rest[i], rest[j])
      OBVIOUS
    <3>1. k + i < k + j
      BY <1>4
    <3> QED
      BY <1>4, <1>9, <3>1
  <2>5. \A i \in 1 .. Len(b), j \in 1 .. Len(rest) : InOrder(b[i], rest[j])
    <3> SUFFICES ASSUME NEW i \in 1 .. Len(b), NEW j \in 1 .. Len(rest)
                 PROVE  InOrder(b[i], rest[j])
      OBVIOUS
    <3>1. i < k + j
      BY <1>4, <1>10
    <3> QED
      BY <1>4, <1>9, <1>10, <3>1
  <2> QED
    BY <1>5, <1>6, <2>1, <2>2, <2>3, <2>4, <2>5 DEF PartsOK
<1>12. (Pending(http') => Pending(http)) /\ (http'.LP => http.LP /\ http'.expects = "nothing")
  BY <1>7 DEF Pending, ReqInv, InHandOK
<1> QED
  BY <1>1, <1>5, <1>7, <1>11, <1>12, ReqQuiet

\* A part is taken that begins no request, or a request that was answered already.
LEMMA ReqTake == ASSUME ReqInv, Req!Collect \/ Req!TakeBody \/ Req!AlreadyHandled PROVE ReqInv'
<1>1. /\ http \in Conn /\ Timed(http) /\ wire' \in Seq(Part) /\ PartsOK /\ ReqType
      /\ (http.LP => http.expects = "nothing")
      /\ UNCHANGED <<requests, wire, answers, executed>>
  BY DEF ReqInv, ReqType, InHandOK, Req!Collect, Req!TakeBody, Req!AlreadyHandled
<1>2. CASE Req!AlreadyHandled
  <2>1. http' = [http EXCEPT !.expects = "nothing"] /\ http.expects = "handle"
    BY <1>2 DEF Req!AlreadyHandled, Req!Listening, Req!Handling
  <2>2. Keeps(http, http') /\ Timed(http') /\ http'.LP = http.LP /\ http'.expects = "nothing"
    BY <1>1, <2>1 DEF Conn, Keeps, Timed
  <2>3. Pending(http') => Pending(http)
    BY <2>2 DEF Pending
  <2> QED
    BY <1>1, <2>2, <2>3, ReqSettles
<1>3. CASE Req!Collect \/ Req!TakeBody
  <2>1. PICK t : t = [http EXCEPT !.buffer = Tail(http.buffer)]
    OBVIOUS
  <2>2. http.buffer # <<>> /\ Tail(http.buffer) \in Seq(Part)
    BY <1>1, <1>3 DEF Conn, Req!Collect, Req!TakeBody, Req!InLoop
  <2>3. /\ t \in Conn /\ t.n = http.n /\ t.user = http.user /\ t.LP = http.LP /\ t.expects = http.expects
        /\ t.replySent = http.replySent /\ Timed(t) /\ t.buffer = Tail(http.buffer)
    BY <1>1, <2>1, <2>2 DEF Conn, Timed
  <2>4. \/ http' = t /\ http.expects = "nothing"
        \/ http' = [t EXCEPT !.garbled = TRUE] /\ http.expects = "headers"
        \/ http' = [t EXCEPT !.expects = "handle"] /\ http.expects = "body"
    BY <1>3, <2>1 DEF Req!Collect, Req!TakeBody, Req!Taken
  <2>5. /\ http' \in Conn /\ http'.n = t.n /\ http'.user = t.user /\ http'.LP = t.LP
        /\ http'.replySent = t.replySent /\ Timed(http') /\ http'.buffer = t.buffer
        /\ http'.expects = t.expects \/ (t.expects = "body" /\ http'.expects = "handle")
    BY <2>3, <2>4 DEF Conn, Timed
  <2>6. PartsOK'
    BY <1>1, <2>2, <2>3, <2>5, ReqPartsTaken
  <2>7. (Pending(http') => Pending(http)) /\ (http'.LP => http.LP /\ http'.expects = "nothing")
    BY <1>1, <2>3, <2>5 DEF Pending
  <2> QED
    BY <1>1, <2>3, <2>5, <2>6, <2>7, ReqQuiet
<1> QED
  BY <1>2, <1>3

\* What is answered and executed for a request that is settled.
LEMMA ReqAnswer ==
  ASSUME ReqInv, UNCHANGED requests, http'.n \in Nat, 1 <= http'.n, ~Pending(http'),
         NEW status \in Nat, status \in Req!OwnAnswers(requests[http'.n]),
         \A i \in 1 .. Len(answers) : 1 <= answers[i].n /\ answers[i].n < http'.n,
         answers' = Append(answers, [n |-> http'.n, status |-> status]),
         Len(executed) <= Len(executed'), Len(executed) \in Nat, Len(executed') \in Nat,
         \A j \in 1 .. Len(executed) : executed'[j] = executed[j],
         status = 200 /\ requests[http'.n].target \in {"call", "longpoll"}
           => \E j \in 1 .. Len(executed') : executed'[j].n = http'.n
  PROVE  answers' \in Seq(Answer) /\ AnsweredOK' /\ CallsMade'
<1>1. PICK a \in Answer : a = [n |-> http'.n, status |-> status] /\ a.n = http'.n /\ a.status = status
  BY DEF Answer
<1>2. answers \in Seq(Answer) /\ Len(answers) \in Nat
  BY DEF ReqInv, ReqType
<1>3. /\ answers' \in Seq(Answer) /\ Len(answers') = Len(answers) + 1 /\ answers'[Len(answers) + 1] = a
      /\ \A i \in 1 .. Len(answers) : answers'[i] = answers[i]
  BY <1>1, <1>2
<1>4. \A i \in 1 .. Len(answers') : i \in 1 .. Len(answers) \/ (i = Len(answers) + 1 /\ answers'[i] = a)
  BY <1>2, <1>3
<1>5. \A i \in 1 .. Len(answers) : answers[i].n \in Nat
  <2>1. \A i \in 1 .. Len(answers) : answers[i] \in Answer
    BY <1>2
  <2> QED
    BY <2>1 DEF Answer
<1>6. \A m \in Nat : 1 <= m /\ m <= http'.n => Past(m)'
  BY DEF Past, Pending
<1>7. AnsweredOK'
  <2>1. \A i \in 1 .. Len(answers') : Past(answers[i].n)'
    BY <1>1, <1>3, <1>4, <1>5, <1>6
  <2>2. \A i, j \in 1 .. Len(answers') : i < j => answers'[i].n < answers'[j].n
    <3> SUFFICES ASSUME NEW i \in 1 .. Len(answers'), NEW j \in 1 .. Len(answers'), i < j
                 PROVE  answers'[i].n < answers'[j].n
      OBVIOUS
    <3>1. i \in 1 .. Len(answers) /\ answers'[i] = answers[i]
      BY <1>2, <1>3
    <3>2. CASE j \in 1 .. Len(answers)
      BY <1>3, <3>1, <3>2 DEF ReqInv, AnsweredOK
    <3>3. CASE answers'[j] = a
      BY <1>1, <3>1, <3>3
    <3> QED
      BY <1>4, <3>2, <3>3
  <2>3. \A i \in 1 .. Len(answers') : answers'[i].status \in Req!OwnAnswers(requests[answers'[i].n])
    BY <1>1, <1>3, <1>4 DEF ReqInv, AnsweredOK
  <2>4. \A k : Req!OwnAnswers(k)' = Req!OwnAnswers(k)
    BY DEF Req!OwnAnswers
  <2> QED
    BY <2>1, <2>2, <2>3, <2>4 DEF AnsweredOK
<1>8. CallsMade'
  <2> SUFFICES ASSUME NEW i \in 1 .. Len(answers'), answers'[i].status = 200,
                      requests[answers'[i].n].target \in {"call", "longpoll"}
               PROVE  \E j \in 1 .. Len(executed') : executed'[j].n = answers'[i].n
    BY DEF CallsMade
  <2>1. CASE i \in 1 .. Len(answers)
    <3>1. PICK j \in 1 .. Len(executed) : executed[j].n = answers[i].n
      BY <1>3, <2>1 DEF ReqInv, CallsMade
    <3>2. j \in 1 .. Len(executed') /\ executed'[j].n = answers'[i].n
      BY <1>3, <2>1, <3>1
    <3> QED
      BY <3>2
  <2>2. CASE answers'[i] = a
    BY <1>1, <2>2
  <2> QED
    BY <1>4, <2>1, <2>2
<1> QED
  BY <1>3, <1>7, <1>8

\* A header block is read: the request in hand is a later one than any before.
LEMMA ReqParsed ==
  ASSUME ReqInv, UNCHANGED <<requests, wire, executed>>, http' \in Conn, Timed(http'), PartsOK',
         http.n < http'.n, http'.n <= Len(requests), ~http'.LP, ~Pending(http),
         Pending(http') => requests[http'.n].auth # Bad /\ http'.user = requests[http'.n].auth,
         \/ UNCHANGED answers
         \/ /\ answers' = Append(answers, [n |-> http'.n, status |-> 500])
            /\ ~Pending(http') /\ requests[http'.n].auth = Bad
  PROVE  ReqInv'
<1>1. /\ http.n \in Nat /\ http'.n \in Nat /\ Len(requests) \in Nat /\ Len(executed) \in Nat /\ http \in Conn
      /\ executed' \in Seq(Made) /\ answers \in Seq(Answer)
  BY DEF ReqInv, ReqType, Conn
<1>2. \A m \in Nat : Past(m) => 1 <= m /\ m < http'.n
  BY <1>1 DEF Past
<1>3. \A m \in Nat : Past(m) => Past(m)'
  BY <1>1, <1>2 DEF Past, Pending
<1>4. /\ \A i \in 1 .. Len(answers) : answers[i].n \in Nat
      /\ \A i \in 1 .. Len(executed) : executed[i].n \in Nat
  <2>1. \A i \in 1 .. Len(answers) : answers[i] \in Answer
    BY <1>1
  <2>2. \A i \in 1 .. Len(executed) : executed[i] \in Made
    BY <1>1
  <2> QED
    BY <2>1, <2>2 DEF Answer, Made
<1>5. ExecutedOK'
  BY <1>3, <1>4 DEF ReqInv, ExecutedOK
<1>6. answers' \in Seq(Answer) /\ AnsweredOK' /\ CallsMade'
  <2>1. CASE UNCHANGED answers
    <3>1. AnsweredOK'
      BY <1>3, <1>4, <2>1 DEF ReqInv, AnsweredOK, Req!OwnAnswers
    <3>2. CallsMade'
      BY <2>1 DEF ReqInv, CallsMade
    <3> QED
      BY <1>1, <2>1, <3>1, <3>2
  <2>2. CASE answers' = Append(answers, [n |-> http'.n, status |-> 500]) /\ ~Pending(http') /\ requests[http'.n].auth = Bad
    <3>1. 500 \in Req!OwnAnswers(requests[http'.n]) /\ 500 \in Nat /\ 500 # 200
      BY <2>2 DEF Req!OwnAnswers
    <3>2. \A i \in 1 .. Len(answers) : 1 <= answers[i].n /\ answers[i].n < http'.n
      BY <1>2, <1>4 DEF ReqInv, AnsweredOK
    <3>3. 1 <= http'.n /\ Len(executed') \in Nat /\ Len(executed) <= Len(executed')
      BY <1>1
    <3> QED
      BY <1>1, <2>2, <3>1, <3>2, <3>3, ReqAnswer
  <2> QED
    BY <2>1, <2>2
<1>7. InHandOK'
  BY <1>1 DEF InHandOK, Pending
<1>8. ReqType' /\ Timed(http)'
  BY <1>1, <1>6 DEF ReqInv, ReqType
<1> QED
  BY <1>5, <1>6, <1>7, <1>8 DEF ReqInv

LEMMA ReqParse == ASSUME ReqInv, Req!ParseHeaders PROVE ReqInv'
<1>1. /\ http \in Conn /\ Timed(http) /\ ReqType /\ PartsOK /\ requests \in Seq(Kind)
      /\ UNCHANGED <<requests, wire, executed>>
      /\ http.buffer # <<>> /\ http.buffer \in Seq(Part) /\ http.expects = "headers" /\ ~http.LP /\ ~Pending(http)
      /\ Head(http.buffer).part = "headers"
  BY DEF ReqInv, ReqType, InHandOK, Pending, Conn, Req!ParseHeaders, Req!InLoop, Req!Next_part
<1>2. PICK m : m = Head(http.buffer).n
  OBVIOUS
<1>3. m \in Nat /\ http.n < m /\ m <= Len(requests) /\ http.n \in Nat
  <2>1. PICK t : t = Tail(http.buffer)
    OBVIOUS
  <2>2. \A i \in 1 .. Len(http.buffer) : Ahead(http.buffer[i])
    BY <1>1 DEF PartsOK
  <2>3. Head(http.buffer) = http.buffer[1] /\ 1 \in 1 .. Len(http.buffer) /\ Head(http.buffer) \in Part
    BY <1>1
  <2> QED
    BY <1>1, <1>2, <2>2, <2>3 DEF Ahead, Part, Conn
<1>4. PICK kind \in Kind : kind = requests[m]
  BY <1>1, <1>3
<1>5. PICK close \in BOOLEAN : Req!HeadersRead(kind, Req!Parsed(kind, close))
  <2>1. kind.close \in BOOLEAN
    BY <1>4 DEF Kind
  <2> QED
    BY <1>2, <1>4, <2>1 DEF Req!ParseHeaders, Req!Next_part
<1>6. PICK t : t = Req!Taken(http)
  OBVIOUS
<1>7. /\ t \in Conn /\ ~t.LP /\ Timed(t) /\ t.buffer = Tail(http.buffer) /\ Tail(http.buffer) \in Seq(Part)
  <2>1. Tail(http.buffer) \in Seq(Part)
    BY <1>1
  <2> QED
    BY <1>1, <1>6, <2>1 DEF Req!Taken, Conn, Timed
<1>8. PICK u \in Names \cup {None, Bad} : u = Req!UserOf(kind) /\ (kind.auth # Bad => u = kind.auth)
  BY <1>4 DEF Req!UserOf, Kind
<1>9. PICK h \in Conn : /\ ~h.LP /\ Timed(h) /\ h.buffer = Tail(http.buffer) /\ h.n = m /\ h.user = u
                        /\ h = Req!Parsed(kind, close)
  <2>1. PICK e \in {"body", "handle"} : e = IF kind.body THEN "body" ELSE "handle"
    OBVIOUS
  <2>2. PICK h : h = [t EXCEPT !.n = m, !.user = u, !.closing = close, !.expects = e]
    OBVIOUS
  <2>3. h = Req!Parsed(kind, close)
    BY <1>2, <1>6, <1>8, <2>1, <2>2 DEF Req!Parsed, Req!Next_part
  <2>4. h \in Conn /\ ~h.LP /\ Timed(h) /\ h.buffer = Tail(http.buffer) /\ h.n = m /\ h.user = u
    BY <1>3, <1>7, <2>2 DEF Conn, Timed
  <2> QED
    BY <2>3, <2>4
<1>10. /\ http' \in Conn /\ Timed(http') /\ ~http'.LP /\ http'.n = m
       /\ Pending(http') => kind.auth # Bad /\ http'.user = kind.auth
       /\ \/ UNCHANGED answers
          \/ /\ answers' = Append(answers, [n |-> m, status |-> 500])
             /\ ~Pending(http') /\ kind.auth = Bad
       /\ http'.buffer = Tail(http.buffer) \/ http'.buffer = <<>>
  <2>1. CASE http' = Req!Unreadable(h) /\ UNCHANGED answers
    <3>1. PICK g : g = Req!HandleClose(h)
      OBVIOUS
    <3>2. g \in Conn /\ g.n = m /\ ~g.LP /\ Timed(g) /\ <<>> \in Seq(Part)
      BY <1>9, <3>1, ReqCloses DEF Keeps
    <3>3. http' = [g EXCEPT !.buffer = <<>>, !.expects = "headers"]
      BY <2>1, <3>1 DEF Req!Unreadable
    <3> QED
      BY <2>1, <3>2, <3>3 DEF Conn, Timed, Pending
  <2>2. CASE kind.auth # Bad /\ http' = h /\ UNCHANGED answers
    <3>1. http' \in Conn /\ Timed(http') /\ ~http'.LP /\ http'.n = m /\ http'.buffer = Tail(http.buffer)
      BY <1>9, <2>2
    <3>2. http'.user = kind.auth
      BY <1>8, <1>9, <2>2
    <3> QED
      BY <2>2, <3>1, <3>2
  <2>3. CASE kind.auth = Bad /\ http' \in Req!Pushed([h EXCEPT !.replySent = TRUE]) /\ Req!Replied(h, 500)
    <3>1. PICK g : g = [h EXCEPT !.replySent = TRUE]
      OBVIOUS
    <3>2. g \in Conn /\ ~g.LP /\ Timed(g) /\ g.replySent = TRUE /\ g.buffer = h.buffer /\ g.n = m
      BY <1>9, <3>1 DEF Conn, Timed
    <3>3. http' \in Req!Pushed(g)
      BY <2>3, <3>1
    <3>4. /\ http' \in Conn /\ Timed(http') /\ ~http'.LP /\ http'.n = m /\ http'.replySent = TRUE
          /\ http'.buffer = h.buffer
      BY <3>2, <3>3, ReqPushes DEF Keeps
    <3>5. answers' = Append(answers, [n |-> m, status |-> 500])
      BY <1>9, <2>3 DEF Req!Replied
    <3> QED
      BY <1>9, <2>3, <3>4, <3>5 DEF Pending
  <2> QED
    BY <1>5, <1>9, <2>1, <2>2, <2>3 DEF Req!HeadersRead
<1>11. PartsOK'
  <2>1. CASE http'.buffer = Tail(http.buffer)
    BY <1>1, <1>2, <1>10, <2>1, ReqPartsTaken
  <2>2. CASE http'.buffer = <<>>
    <3>1. \A j \in 1 .. Len(wire) : InOrder(Head(http.buffer), wire[j])
      <4>1. Head(http.buffer) = http.buffer[1] /\ 1 \in 1 .. Len(http.buffer)
        BY <1>1
      <4> QED
        BY <1>1, <4>1 DEF PartsOK
    <3>2. \A p : Ahead(p) /\ InOrder(Head(http.buffer), p) => Ahead(p)'
      BY <1>1, <1>2, <1>3, <1>10 DEF Ahead, InOrder
    <3>3. \A j \in 1 .. Len(wire) : Ahead(wire[j])'
      BY <1>1, <3>1, <3>2 DEF PartsOK
    <3>4. 1 .. Len(http'.buffer) = {}
      BY <2>2
    <3> QED
      BY <1>1, <3>3, <3>4 DEF PartsOK
  <2> QED
    BY <1>10, <2>1, <2>2
<1> QED
  BY <1>1, <1>3, <1>4, <1>10, <1>11, ReqParsed

\* The handler after sendReply: no longer pending, whether or not it could answer.
LEMMA ReqReplies ==
  ASSUME NEW h \in Conn, NEW status \in Nat, h.expects = "nothing", h.open \/ ~h.LP,
         Req!SendReply(h, status)
  PROVE  /\ Keeps(h, http') /\ Timed(http') /\ ~Pending(http')
         /\ UNCHANGED answers \/ answers' = Append(answers, [n |-> h.n, status |-> status])
<1>1. PICK r : r = [h EXCEPT !.replySent = TRUE]
  OBVIOUS
<1>2. r \in Conn /\ Keeps(h, r) /\ r.LP = h.LP /\ r.expects = "nothing"
  BY <1>1 DEF Conn, Keeps
<1>3. CASE h.open
  <2>1. PICK sent \in Req!Pushed(r) : http' = Req!ResetRequest(sent)
    BY <1>1, <1>3 DEF Req!SendReply
  <2>2. Keeps(r, sent)
    BY <1>2, ReqPushes
  <2>3. Keeps(sent, http') /\ Timed(http') /\ ~Pending(http')
    BY <2>1, <2>2, ReqResets DEF Keeps
  <2>4. answers' = Append(answers, [n |-> h.n, status |-> status])
    BY <1>3 DEF Req!SendReply, Req!Replied
  <2> QED
    BY <1>2, <2>2, <2>3, <2>4 DEF Keeps
<1>4. CASE ~h.open
  <2>1. http' = r /\ UNCHANGED answers
    BY <1>1, <1>4 DEF Req!SendReply
  <2>2. ~r.open
    BY <1>1, <1>4 DEF Conn
  <2> QED
    BY <1>2, <1>4, <2>1, <2>2 DEF Pending, Timed
<1> QED
  BY <1>3, <1>4

\* The call of the request in hand is made, and the request settled.
LEMMA ReqExecute ==
  ASSUME ReqInv, UNCHANGED requests, Pending(http), ~Pending(http'), http'.n = http.n,
         http.user \notin {None, Bad}, Req!Execute
  PROVE  /\ executed' \in Seq(Made) /\ ExecutedOK'
         /\ Len(executed) \in Nat /\ Len(executed') \in Nat /\ Len(executed) <= Len(executed')
         /\ \A j \in 1 .. Len(executed) : executed'[j] = executed[j]
         /\ \E j \in 1 .. Len(executed') : executed'[j].n = http'.n
<1>1. http \in Conn /\ http.n \in Nat /\ 1 <= http.n /\ executed \in Seq(Made) /\ Len(executed) \in Nat
  BY DEF ReqInv, ReqType, InHandOK, Conn
<1>2. PICK e : e = [n |-> http.n, user |-> http.user]
  OBVIOUS
<1>3. e \in Made /\ e.n = http.n /\ e.user = http.user
  BY <1>1, <1>2 DEF Made, Conn
<1>4. executed' = Append(executed, e)
  BY <1>2 DEF Req!Execute
<1>5. /\ executed' \in Seq(Made) /\ Len(executed') = Len(executed) + 1 /\ executed'[Len(executed) + 1] = e
      /\ \A j \in 1 .. Len(executed) : executed'[j] = executed[j]
  BY <1>1, <1>3, <1>4
<1>6. \A j \in 1 .. Len(executed') : j \in 1 .. Len(executed) \/ (j = Len(executed) + 1 /\ executed'[j] = e)
  BY <1>1, <1>5
<1>7. \A j \in 1 .. Len(executed) : Past(executed[j].n) /\ executed[j].n \in Nat /\ executed[j].n < http.n
  <2>1. \A j \in 1 .. Len(executed) : executed[j] \in Made
    BY <1>1
  <2> QED
    BY <2>1 DEF Made, Past, ReqInv, ExecutedOK
<1>8. \A j \in 1 .. Len(executed') : Past(executed[j].n)'
  BY <1>1, <1>3, <1>5, <1>6, <1>7 DEF Past, Pending
<1>9. \A i, j \in 1 .. Len(executed') : i < j => executed'[i].n < executed'[j].n
  <2> SUFFICES ASSUME NEW i \in 1 .. Len(executed'), NEW j \in 1 .. Len(executed'), i < j
               PROVE  executed'[i].n < executed'[j].n
    OBVIOUS
  <2>1. i \in 1 .. Len(executed) /\ executed'[i] = executed[i]
    BY <1>1, <1>5
  <2>2. CASE j \in 1 .. Len(executed)
    BY <1>5, <2>1, <2>2 DEF ReqInv, ExecutedOK
  <2>3. CASE executed'[j] = e
    BY <1>3, <1>7, <2>1, <2>3
  <2> QED
    BY <1>6, <2>2, <2>3
<1>10. e.user = requests[e.n].auth /\ e.user \notin {None, Bad}
  BY <1>3 DEF ReqInv, InHandOK
<1>11. \A j \in 1 .. Len(executed') :
         executed'[j].user = requests[executed'[j].n].auth /\ executed'[j].user \notin {None, Bad}
  BY <1>5, <1>6, <1>10 DEF ReqInv, ExecutedOK
<1>12. ExecutedOK'
  BY <1>8, <1>9, <1>11 DEF ExecutedOK
<1>13. Len(executed) + 1 \in 1 .. Len(executed') /\ executed'[Len(executed) + 1].n = http'.n
  BY <1>1, <1>3, <1>5
<1>14. \E j \in 1 .. Len(executed') : executed'[j].n = http'.n
  BY <1>13
<1> QED
  BY <1>1, <1>5, <1>12, <1>14

\* The request in hand is settled: its call made or not, its answer sent or not.
LEMMA ReqSettled ==
  ASSUME ReqInv, UNCHANGED <<requests, wire>>, Pending(http), ~Pending(http'), Keeps(http, http'), Timed(http'),
         NEW status \in Nat, status \in Req!OwnAnswers(requests[http.n]),
         UNCHANGED answers \/ answers' = Append(answers, [n |-> http.n, status |-> status]),
         UNCHANGED executed \/ (Req!Execute /\ http.user \notin {None, Bad}),
         status = 200 /\ requests[http.n].target \in {"call", "longpoll"} => Req!Execute
  PROVE  ReqInv'
<1>1. /\ http \in Conn /\ http' \in Conn /\ http'.n = http.n /\ http.n \in Nat /\ 1 <= http.n /\ http.n <= Len(requests)
      /\ Len(executed) \in Nat /\ answers \in Seq(Answer)
  BY DEF ReqInv, ReqType, InHandOK, Conn, Keeps
<1>2. \A m \in Nat : Past(m) => Past(m)'
  BY <1>1 DEF Past, Pending
<1>3. \A i \in 1 .. Len(answers) : answers[i].n \in Nat /\ Past(answers[i].n) /\ 1 <= answers[i].n /\ answers[i].n < http'.n
  <2>1. \A i \in 1 .. Len(answers) : answers[i] \in Answer
    BY <1>1
  <2> QED
    BY <1>1, <2>1 DEF Answer, Past, ReqInv, AnsweredOK
<1>4. /\ executed' \in Seq(Made) /\ ExecutedOK'
      /\ Len(executed') \in Nat /\ Len(executed) <= Len(executed')
      /\ \A j \in 1 .. Len(executed) : executed'[j] = executed[j]
  <2>1. CASE Req!Execute /\ http.user \notin {None, Bad}
    BY <1>1, <2>1, ReqExecute
  <2>2. CASE UNCHANGED executed
    <3>1. executed \in Seq(Made)
      BY DEF ReqInv, ReqType
    <3>2. \A i \in 1 .. Len(executed) : executed[i].n \in Nat
      <4>1. \A i \in 1 .. Len(executed) : executed[i] \in Made
        BY <3>1
      <4> QED
        BY <4>1 DEF Made
    <3>3. ExecutedOK'
      BY <1>2, <2>2, <3>2 DEF ReqInv, ExecutedOK
    <3> QED
      BY <1>1, <2>2, <3>1, <3>3
  <2> QED
    BY <2>1, <2>2
<1>5. status = 200 /\ requests[http'.n].target \in {"call", "longpoll"}
        => \E j \in 1 .. Len(executed') : executed'[j].n = http'.n
  <2> SUFFICES ASSUME status = 200, requests[http'.n].target \in {"call", "longpoll"}
               PROVE  \E j \in 1 .. Len(executed') : executed'[j].n = http'.n
    OBVIOUS
  <2>1. Req!Execute
    BY <1>1
  <2>2. PICK e : e = [n |-> http.n, user |-> http.user]
    OBVIOUS
  <2>3. executed' = Append(executed, e) /\ executed \in Seq(Made) /\ e.n = http.n
    BY <2>1, <2>2 DEF Req!Execute, ReqInv, ReqType
  <2>4. Len(executed) + 1 \in 1 .. Len(executed') /\ executed'[Len(executed) + 1].n = http'.n
    BY <1>1, <2>2, <2>3
  <2> QED
    BY <2>4
<1>6. answers' \in Seq(Answer) /\ AnsweredOK' /\ CallsMade'
  <2>1. CASE answers' = Append(answers, [n |-> http.n, status |-> status])
    BY <1>1, <1>3, <1>4, <1>5, <2>1, ReqAnswer
  <2>2. CASE UNCHANGED answers
    <3>1. AnsweredOK'
      BY <1>2, <1>3, <2>2 DEF ReqInv, AnsweredOK, Req!OwnAnswers
    <3>2. CallsMade'
      <4> SUFFICES ASSUME NEW i \in 1 .. Len(answers), answers[i].status = 200,
                          requests[answers[i].n].target \in {"call", "longpoll"}
                   PROVE  \E j \in 1 .. Len(executed') : executed'[j].n = answers[i].n
        BY <2>2 DEF CallsMade
      <4>1. PICK j \in 1 .. Len(executed) : executed[j].n = answers[i].n
        BY DEF ReqInv, CallsMade
      <4>2. j \in 1 .. Len(executed') /\ executed'[j].n = answers[i].n
        BY <1>1, <1>4, <4>1
      <4> QED
        BY <4>2
    <3> QED
      BY <1>1, <2>2, <3>1, <3>2
  <2> QED
    BY <2>1, <2>2
<1>7. PartsOK'
  BY ReqPartsKept DEF ReqInv, Keeps
<1>8. ~http'.LP
  BY DEF Pending
<1>9. InHandOK'
  BY <1>1, <1>8 DEF InHandOK, Pending
<1>10. ReqType'
  BY <1>1, <1>4, <1>6 DEF ReqInv, ReqType
<1> QED
  BY <1>4, <1>6, <1>7, <1>9, <1>10 DEF ReqInv

LEMMA ReqHandled == ASSUME ReqInv, Bad # None, Req!Refuse \/ Req!Call PROVE ReqInv'
<1>1. PICK h : h = Req!Listening(http)
  OBVIOUS
<1>2. /\ http \in Conn /\ http.expects = "handle" /\ ~http.LP /\ Pending(http) /\ UNCHANGED <<requests, wire>>
      /\ Req!InHand = requests[http.n] /\ requests[http.n] \in Kind
      /\ requests[http.n].auth # Bad /\ http.user = requests[http.n].auth
  <2>1. /\ http \in Conn /\ http.expects = "handle" /\ ~http.LP /\ Pending(http) /\ UNCHANGED <<requests, wire>>
        /\ requests \in Seq(Kind) /\ http.n \in Nat
    BY DEF Req!Refuse, Req!Call, Req!Handling, ReqInv, ReqType, InHandOK, Pending, Conn
  <2> QED
    BY <2>1 DEF ReqInv, InHandOK, Req!InHand
<1>3. h \in Conn /\ h.expects = "nothing" /\ ~h.LP /\ Keeps(http, h)
  BY <1>1, <1>2 DEF Req!Listening, Conn, Keeps
<1>4. CASE Req!Refuse
  <2>1. PICK status \in Nat : /\ status = Req!Refusal /\ status \in Req!OwnAnswers(requests[http.n])
                              /\ ~(status = 200 /\ requests[http.n].target \in {"call", "longpoll"})
    BY <1>2, <1>4 DEF Req!Refuse, Req!Refusal, Req!OwnAnswers, Kind, Req!Targets
  <2>2. Req!SendReply(h, status) /\ UNCHANGED executed
    BY <1>1, <1>4, <2>1 DEF Req!Refuse
  <2>3. /\ Keeps(http, http') /\ Timed(http') /\ ~Pending(http')
        /\ UNCHANGED answers \/ answers' = Append(answers, [n |-> http.n, status |-> status])
    BY <1>3, <2>2, ReqReplies DEF Keeps
  <2> QED
    BY <1>2, <2>1, <2>2, <2>3, ReqSettled
<1>5. CASE Req!Call
  <2>1. PICK status \in {200, 500} : Req!SendReply(h, status)
    BY <1>1, <1>5 DEF Req!Call
  <2>2. Req!Execute /\ http.user \notin {None, Bad} /\ status \in Nat /\ status \in Req!OwnAnswers(requests[http.n])
    BY <1>2, <1>5 DEF Req!Call, Req!Refusal, Req!OwnAnswers
  <2>3. /\ Keeps(http, http') /\ Timed(http') /\ ~Pending(http')
        /\ UNCHANGED answers \/ answers' = Append(answers, [n |-> http.n, status |-> status])
    BY <1>3, <2>1, <2>2, ReqReplies DEF Keeps
  <2> QED
    BY <1>2, <2>2, <2>3, ReqSettled
<1> QED
  BY <1>4, <1>5

LEMMA ReqWaits == ASSUME ReqInv, Req!DoLongpoll PROVE ReqInv'
<1>1. /\ http \in Conn /\ http.expects = "handle" /\ ~http.LP /\ Pending(http)
      /\ UNCHANGED <<requests, wire, answers, executed>>
      /\ requests[http.n].target = "longpoll" /\ http.user # None
  BY DEF Req!DoLongpoll, Req!Handling, Req!Refusal, Req!InHand, ReqInv, ReqType, InHandOK, Pending
<1>2. http' = [http EXCEPT !.expects = "nothing", !.LP = TRUE, !.task = None]
  BY DEF Req!DoLongpoll, Req!Listening
<1>3. /\ http' \in Conn /\ http'.n = http.n /\ http'.user = http.user /\ http'.buffer = http.buffer
      /\ http'.LP /\ http'.expects = "nothing"
  BY <1>1, <1>2 DEF Conn
<1>4. Timed(http') /\ Pending(http')
  BY <1>3 DEF Timed, Pending
<1>5. InHandOK'
  BY <1>1, <1>3 DEF ReqInv, InHandOK
<1>6. \A m : Past(m) => Past(m)'
  BY <1>1, <1>3 DEF Past
<1>7. AnsweredOK' /\ ExecutedOK' /\ CallsMade'
  BY <1>1, <1>6 DEF ReqInv, AnsweredOK, ExecutedOK, CallsMade, Req!OwnAnswers
<1>8. PartsOK'
  BY <1>1, <1>3, ReqPartsKept DEF ReqInv
<1> QED
  BY <1>1, <1>3, <1>4, <1>5, <1>7, <1>8 DEF ReqInv, ReqType

LEMMA ReqWake == ASSUME ReqInv, Bad # None, Req!WakeLongpoll PROVE ReqInv'
<1>1. /\ http \in Conn /\ http.LP /\ http.expects = "nothing" /\ Pending(http)
      /\ UNCHANGED <<requests, wire>> /\ Req!Execute
      /\ requests[http.n].target = "longpoll" /\ http.user \notin {None, Bad}
      /\ requests[http.n].auth # Bad /\ http.user = requests[http.n].auth
  BY DEF Req!WakeLongpoll, ReqInv, ReqType, InHandOK, Pending
<1>2. 200 \in Nat /\ 200 \in Req!OwnAnswers(requests[http.n])
  BY <1>1 DEF Req!OwnAnswers
<1>3. /\ Keeps(http, http') /\ Timed(http') /\ ~Pending(http')
      /\ UNCHANGED answers \/ answers' = Append(answers, [n |-> http.n, status |-> 200])
  <2>1. CASE http.open
    <3>1. Req!SendReply(http, 200)
      BY <2>1 DEF Req!WakeLongpoll
    <3> QED
      BY <1>1, <1>2, <2>1, <3>1, ReqReplies
  <2>2. CASE ~http.open
    <3>1. http' = Req!ResetRequest(http) /\ UNCHANGED answers
      BY <2>2 DEF Req!WakeLongpoll
    <3> QED
      BY <1>1, <3>1, ReqResets
  <2> QED
    BY <2>1, <2>2
<1> QED
  BY <1>1, <1>2, <1>3, ReqSettled

LEMMA ReqStep ==
  ASSUME Kinds \subseteq Kind, MaxRequests \in Nat, Bad # None, ReqInv, [Req!Next]_(Req!vars) PROVE ReqInv'
<1>1. CASE UNCHANGED Req!vars
  <2>1. /\ Keeps(http, http') /\ Timed(http') /\ (Pending(http') => Pending(http))
        /\ (http'.LP => http.LP /\ http'.expects = "nothing")
    BY <1>1 DEF Req!vars, Keeps, Pending, ReqInv, ReqType, InHandOK
  <2> QED
    BY <1>1, <2>1, ReqSettles DEF Req!vars
<1>2. CASE \E kind \in Kinds : Req!Send(kind)
  BY <1>2, ReqSend
<1>3. CASE \E k \in 1 .. 2 * MaxRequests : Req!Read(k)
  BY <1>3, ReqRead
<1>4. CASE Req!ParseHeaders
  BY <1>4, ReqParse
<1>5. CASE Req!Collect \/ Req!TakeBody \/ Req!AlreadyHandled
  BY <1>5, ReqTake
<1>6. CASE Req!Refuse \/ Req!Call
  BY <1>6, ReqHandled
<1>7. CASE Req!DoLongpoll \/ Req!WakeLongpoll
  BY <1>7, ReqWaits, ReqWake
<1>8. CASE Req!Timeout \/ Req!Write \/ Req!Drop
  BY <1>8, ReqEnds
<1> QED
  BY <1>1, <1>2, <1>3, <1>4, <1>5, <1>6, <1>7, <1>8 DEF Req!Next

LEMMA ReqTellsAll == ASSUME ReqInv PROVE Req!EachItsOwn
<1>1. DOMAIN answers = 1 .. Len(answers) /\ DOMAIN executed = 1 .. Len(executed)
  BY DEF ReqInv, ReqType
<1> QED
  BY <1>1 DEF ReqInv, AnsweredOK, ExecutedOK, CallsMade, Req!EachItsOwn

LEMMA ReqOwn ==
  ASSUME Kinds \subseteq Kind, MaxRequests \in Nat, Bad # None PROVE Req!Spec => []Req!EachItsOwn
<1>1. ReqInv /\ [Req!Next]_(Req!vars) => ReqInv'
  BY ReqStep
<1>2. ReqInv => Req!EachItsOwn
  BY ReqTellsAll
<1> QED
  BY <1>1, <1>2, ReqInit, PTL DEF Req!Spec

LEMMA ReqTimed ==
  ASSUME Kinds \subseteq Kind, MaxRequests \in Nat, Bad # None PROVE Req!Spec => []Req!DeafIsTimed
<1>1. ReqInv /\ [Req!Next]_(Req!vars) => ReqInv'
  BY ReqStep
<1>2. ReqInv => Req!DeafIsTimed
  BY DEF ReqInv, Timed, Req!DeafIsTimed
<1> QED
  BY <1>1, <1>2, ReqInit, PTL DEF Req!Spec

-----------------------------------------------------------------------------
\* The servers

LEMMA Parts == Spec => Ses!Spec /\ Lp!Spec /\ Req!Spec
<1>1. Init => Ses!Init /\ Lp!Init /\ Req!Init
  BY DEF Init
<1>2. /\ Next => InSes \/ InLp \/ InReq
      /\ ~(InSes /\ InLp) /\ ~(InSes /\ InReq) /\ ~(InLp /\ InReq)
  <2>1. Next => InSes \/ InLp \/ InReq
    BY DEF Next
  <2> QED
    BY <2>1 DEF InSes, InLp, InReq
<1>3. [Next]_vars => [Ses!Next]_(Ses!vars)
  <2>1. InSes /\ Next => Ses!Next
    <3>1. InSes /\ Next =>
            \/ \E c \in Handlers : Ses!Connect(c) \/ Ses!Read(c) \/ Ses!Drop(c) \/ Ses!Write(c)
                                   \/ Ses!RunTask(c) \/ Ses!WakeNode(c)
            \/ Ses!SubscribeAgain \/ Ses!SubscribeFreed \/ Ses!SubscribeNew \/ Ses!OtherMessage
            \/ Ses!BadMessage \/ Ses!EndRead
            \/ \E t \in Ses!Threads : Ses!Close(t) \/ Ses!BootAll(t) \/ Ses!BootNext(t)
      BY <1>2 DEF Next
    <3>2. Ses!Threads = {Loop} \cup Booters
      BY DEF Ses!Threads
    <3> QED
      BY <3>1, <3>2 DEF Ses!Next, Ses!Messages, Ses!InLoop
  <2>2. UNCHANGED vars \/ InLp \/ InReq => UNCHANGED Ses!vars
    BY DEF vars, InLp, InReq, sesVars, Ses!vars
  <2> QED
    BY <1>2, <2>1, <2>2
<1>4. [Next]_vars => [Lp!Next]_(Lp!vars)
  <2>1. InLp /\ Next => Lp!Next
    BY <1>2 DEF Next, Lp!Next
  <2>2. UNCHANGED vars \/ InSes \/ InReq => UNCHANGED Lp!vars
    BY DEF vars, InSes, InReq, lpVars, Lp!vars, Lp!server
  <2> QED
    BY <1>2, <2>1, <2>2
<1>5. [Next]_vars => [Req!Next]_(Req!vars)
  <2>1. InReq /\ Next => Req!Next
    BY <1>2 DEF Next, Req!Next
  <2>2. UNCHANGED vars \/ InSes \/ InLp => UNCHANGED Req!vars
    BY DEF vars, InSes, InLp, reqVars, Req!vars
  <2> QED
    BY <1>2, <2>1, <2>2
<1> QED
  BY <1>1, <1>3, <1>4, <1>5, PTL DEF Spec, Ses!Spec, Lp!Spec, Req!Spec

\* No session id leaks or is with two miners, whatever a handler is in the middle
\* of when it is closed - as long as only the event loop closes handlers.
THEOREM SidsAreOnce == ASSUME Booters = {}, None \notin Nat PROVE Spec => []EachSidOnce
BY Parts, SesSafe, PTL DEF EachSidOnce

\* A client that waits in a longpoll is never lost between the server's set, its own
\* task and the announcement that is going through them.
THEOREM WaitersAreKnown == ASSUME None \notin Clients PROVE Spec => []WaitersKnown
BY Parts, LpSafe, PTL DEF WaitersKnown

\* However requests are split and sent behind one another, calls are made and
\* answered in their order, once, and under the name of the request itself.
THEOREM RequestsAreTheirOwn ==
  ASSUME Kinds \subseteq Kind, MaxRequests \in Nat, Bad # None PROVE Spec => []EachItsOwn
BY Parts, ReqOwn, PTL DEF EachItsOwn

\* A handler that no longer listens never stays without its timer.
THEOREM DeafAreTimed ==
  ASSUME Kinds \subseteq Kind, MaxRequests \in Nat, Bad # None PROVE Spec => []DeafIsTimed
BY Parts, ReqTimed, PTL DEF DeafIsTimed
=============================================================================
