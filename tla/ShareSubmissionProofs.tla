------------------------ MODULE ShareSubmissionProofs ------------------------
(***************************************************************************)
(* Proofs about ShareSubmission, for any receivers, pollers, shares,       *)
(* upstreams and number of restarts.                                       *)
(***************************************************************************)
EXTENDS ShareSubmission, TLAPS

USE DEF chain, works, shares, life, history, vars

LEMMA ServersType == Servers \in Seq(Upstreams) /\ Servers # <<>>
BY OthersAssumption DEF Upstreams

LEMMA NoOfferType == NoOffer \in Offers
<1>1. <<>> \in Seq(Upstreams)
  OBVIOUS
<1> QED
  BY <1>1 DEF NoOffer, Offers, OfferPlaces

-----------------------------------------------------------------------------
\* A part of the type that a step does not touch is kept.

LEMMA ChainKept == ChainType /\ UNCHANGED chain => ChainType'
BY DEF ChainType

LEMMA WorkKept == WorkType /\ UNCHANGED <<works, dupes, forgotten, file>> => WorkType'
BY DEF WorkType

LEMMA ShareKept ==
  ShareType /\ UNCHANGED <<shares, reason, passed, early, straddled>> => ShareType'
BY DEF ShareType, At, Share

LEMMA OfferKept == OfferType /\ UNCHANGED <<offer, up>> => OfferType'
BY DEF OfferType

LEMMA LifeKept ==
  LifeType /\ UNCHANGED <<running, process, delay, orderly, lives>> => LifeType'
BY DEF LifeType

LEMMA LogType ==
  ASSUME ShareType, NEW i \in Submissions, LogShare(i) PROVE logged' \in [Submissions -> Nat]
<1>1. logged \in [Submissions -> Nat]
  BY DEF ShareType
<1>2. logged[i] + 1 \in Nat
  BY <1>1
<1> QED
  BY <1>1, <1>2 DEF LogShare

LEMMA TypeInit == Init => TypeOK
<1> SUFFICES ASSUME Init PROVE TypeOK
  OBVIOUS
<1>1. ChainType
  BY DEF Init, ChainType
<1>2. WorkType
  BY DEF Init, WorkType, NoState, State
<1>3. ShareType
  BY DEF Init, ShareType, Places, Statuses, At, Share
<1>4. OfferType
  BY NoOfferType DEF Init, OfferType
<1>5. LifeType
  BY OthersAssumption DEF Init, LifeType
<1> QED
  BY <1>1, <1>2, <1>3, <1>4, <1>5 DEF TypeOK

-----------------------------------------------------------------------------
\* The pollers and the work log

LEMMA TypePoller == TypeOK /\ PollerStep => TypeOK'
<1> SUFFICES ASSUME TypeOK, PollerStep PROVE TypeOK'
  OBVIOUS
<1>1. ASSUME NEW p \in Pollers, Poll(p) PROVE TypeOK'
  <2>1. Foreign \cup Solved \subseteq Blocks
    BY DEF Solved, Blocks
  <2>2. ChainType'
    BY <1>1, <2>1 DEF Poll, TypeOK, ChainType
  <2> QED
    BY <1>1, <2>2, WorkKept, ShareKept, OfferKept, LifeKept DEF Poll, TypeOK
<1>2. ASSUME NEW p \in Pollers, ResetDupes(p) PROVE TypeOK'
  <2>1. InCheck \subseteq Submissions
    BY DEF InCheck, Share, At, TypeOK, ShareType
  <2>2. ChainType'
    BY <1>2 DEF ResetDupes, TypeOK, ChainType
  <2>3. WorkType'
    BY <1>2 DEF ResetDupes, TypeOK, WorkType
  <2>4. straddled' \subseteq Submissions
    BY <1>2, <2>1 DEF ResetDupes, TypeOK, ShareType
  <2>5. ShareType'
    BY <1>2, <2>4 DEF ResetDupes, TypeOK, ShareType, At, Share
  <2> QED
    BY <1>2, <2>2, <2>3, <2>5, OfferKept, LifeKept DEF ResetDupes, TypeOK
<1>3. ASSUME NEW p \in Pollers, ClearWork(p) PROVE TypeOK'
  <2>1. ChainType' /\ WorkType'
    BY <1>3 DEF ClearWork, TypeOK, ChainType, WorkType
  <2> QED
    BY <1>3, <2>1, ShareKept, OfferKept, LifeKept DEF ClearWork, TypeOK
<1> QED
  BY <1>1, <1>2, <1>3 DEF PollerStep

LEMMA TypeWork == TypeOK /\ WorkStep => TypeOK'
<1> SUFFICES ASSUME TypeOK, NEW w \in Works, Register(w) \/ Prune(w) PROVE TypeOK'
  BY DEF WorkStep
<1>1. {block, last} \ {None, Unknown} \subseteq Blocks
  BY DEF TypeOK, ChainType
<1>2. WorkType'
  BY <1>1 DEF Register, Prune, TypeOK, WorkType
<1>3. UNCHANGED <<chain, shares, reason, passed, early, straddled, offer, up, life, orderly>>
  BY DEF Register, Prune
<1> QED
  BY <1>2, <1>3, ChainKept, ShareKept, OfferKept, LifeKept DEF TypeOK

-----------------------------------------------------------------------------
\* A receiver

\* Where a receiver goes is where its share type allows it to be.
LEMMA GotoType ==
  ASSUME ShareType, NEW r \in Receivers, ~At(r, "idle"), NEW where \in Places, Goto(r, where),
         where \in {"submit", "mark", "update"} => DataOf[Share(r)] \in Solutions
  PROVE  /\ place' \in [Receivers -> Places] /\ current' \in [Receivers -> Submissions \cup {None}]
         /\ \A q \in Receivers : ~At(q, "idle")' => Share(q)' \in Submissions
         /\ \A q \in Receivers :
              place'[q] \in {"submit", "mark", "update"} => DataOf[Share(q)'] \in Solutions
BY DEF ShareType, Goto, At, Share

LEMMA TypeReceiver == ASSUME NEW r \in Receivers, TypeOK, ReceiverStep(r) PROVE TypeOK'
<1> USE DEF TypeOK
<1>s. ASSUME ~At(r, "idle") PROVE Share(r) \in Submissions
  BY <1>s DEF ShareType
<1>1. ASSUME NEW i \in Submissions, Receive(r, i) PROVE TypeOK'
  <2>1. status' \in [Submissions -> Statuses] /\ straddled' \subseteq Submissions
    BY <1>1 DEF Receive, ShareType, Statuses
  <2>2. \E where \in {"prev", "log"} : Start(r, i, where)
    BY <1>1 DEF Receive
  <2>3. /\ place' \in [Receivers -> Places] /\ current' \in [Receivers -> Submissions \cup {None}]
        /\ \A q \in Receivers : ~At(q, "idle")' => Share(q)' \in Submissions
        /\ \A q \in Receivers :
             place'[q] \in {"submit", "mark", "update"} => DataOf[Share(q)'] \in Solutions
    BY <2>2 DEF Start, ShareType, Places, At, Share
  <2>4. ShareType'
    BY <1>1, <2>1, <2>3 DEF Receive, ShareType
  <2> QED
    BY <1>1, <2>4, ChainKept, WorkKept, OfferKept, LifeKept DEF Receive
<1>2. CASE CheckPrevBlock(r)
  <2>1. ~At(r, "idle")
    BY <1>2 DEF CheckPrevBlock, At
  <2>2. status' \in [Submissions -> Statuses]
    BY <1>2, <2>1, <1>s DEF CheckPrevBlock, Judge, ShareType, Statuses
  <2>3. \E where \in {"dupe", "log"} : Goto(r, where)
    BY <1>2 DEF CheckPrevBlock, Judge
  <2>4. ShareType'
    BY <1>2, <2>1, <2>2, <2>3, GotoType DEF CheckPrevBlock, ShareType, Places
  <2> QED
    BY <1>2, <2>4, ChainKept, WorkKept, OfferKept, LifeKept DEF CheckPrevBlock
<1>3. CASE CheckDupe(r)
  <2>1. ~At(r, "idle")
    BY <1>3 DEF CheckDupe, At
  <2>2. status' \in [Submissions -> Statuses] /\ passed' \subseteq Submissions
    BY <1>3, <2>1, <1>s DEF CheckDupe, Judge, ShareType, Statuses
  <2>3. \E where \in {"log", "submit", "judge"} :
          Goto(r, where) /\ (where = "submit" => DataOf[Share(r)] \in Solutions)
    BY <1>3 DEF CheckDupe, Judge
  <2>4. ShareType'
    BY <1>3, <2>1, <2>2, <2>3, GotoType DEF CheckDupe, ShareType, Places
  <2>5. WorkType'
    <3>1. DataOf[Share(r)] \in Data
      BY <2>1, <1>s, SharesAssumption
    <3> QED
      BY <1>3, <3>1 DEF CheckDupe, WorkType
  <2> QED
    BY <1>3, <2>4, <2>5, ChainKept, OfferKept, LifeKept DEF CheckDupe
<1>4. CASE Submit(r)
  <2>1. ~At(r, "idle") /\ At(r, "submit") /\ Goto(r, "mark")
    BY <1>4 DEF Submit, At
  <2>2. ShareType'
    BY <1>4, <2>1, GotoType DEF Submit, ShareType, Places, At
  <2>3. [NoOffer EXCEPT !.pc = "ask", !.servers = Servers] \in Offers
    BY ServersType, NoOfferType DEF NoOffer, Offers, OfferPlaces
  <2>4. OfferType'
    BY <1>4, <2>3 DEF Submit, OfferType
  <2> QED
    BY <1>4, <2>2, <2>4, ChainKept, WorkKept, LifeKept DEF Submit
<1>5. CASE Mark(r)
  <2>1. ~At(r, "idle") /\ At(r, "mark") /\ Goto(r, "update")
    BY <1>5 DEF Mark, At
  <2>2. reason' \in [Submissions -> {"unset", "pending", "answered", "abandoned"}]
    BY <1>5, <2>1, <1>s DEF Mark, ShareType
  <2>3. ShareType'
    BY <1>5, <2>1, <2>2, GotoType DEF Mark, ShareType, Places, At
  <2> QED
    BY <1>5, <2>3, ChainKept, WorkKept, OfferKept, LifeKept DEF Mark
<1>6. CASE UpdateBlock(r)
  <2>1. ~At(r, "idle") /\ At(r, "update")
    BY <1>6 DEF UpdateBlock, At
  <2>2. BlockHash(Share(r)) \in Blocks
    BY <2>1 DEF BlockHash, Blocks, ShareType, At
  <2>3. ChainType'
    BY <1>6, <2>2 DEF UpdateBlock, NewBlock, ChainType
  <2>4. \E where \in {"judge", "log"} : Goto(r, where)
    BY <1>6 DEF UpdateBlock, Judge
  <2>5. status' \in [Submissions -> Statuses]
    BY <1>6, <2>1, <1>s DEF UpdateBlock, Judge, ShareType, Statuses
  <2>6. ShareType'
    BY <1>6, <2>1, <2>4, <2>5, GotoType DEF UpdateBlock, ShareType, Places
  <2> QED
    BY <1>6, <2>3, <2>6, WorkKept, OfferKept, LifeKept DEF UpdateBlock
<1>7. CASE JudgeShare(r)
  <2>1. ~At(r, "idle") /\ Goto(r, "log")
    BY <1>7 DEF JudgeShare, Judge, At
  <2>2. status' \in [Submissions -> Statuses]
    BY <1>7, <2>1, <1>s DEF JudgeShare, Judge, ShareType, Statuses
  <2>3. ShareType'
    BY <1>7, <2>1, <2>2, GotoType DEF JudgeShare, ShareType, Places
  <2> QED
    BY <1>7, <2>3, ChainKept, WorkKept, OfferKept, LifeKept DEF JudgeShare
<1>8. CASE Finish(r)
  <2>1. Share(r) \in Submissions
    BY <1>8, <1>s DEF Finish, At
  <2>2. logged' \in [Submissions -> Nat]
    BY <1>8, <2>1, LogType DEF Finish, ShareType
  <2>3. ShareType'
    BY <1>8, <2>2 DEF Finish, Start, ShareType, Places, At, Share
  <2> QED
    BY <1>8, <2>3, ChainKept, WorkKept, OfferKept, LifeKept DEF Finish
<1> QED
  BY <1>1, <1>2, <1>3, <1>4, <1>5, <1>6, <1>7, <1>8 DEF ReceiverStep, Handle

-----------------------------------------------------------------------------
\* The thread that offers a block

LEMMA TypeOffer == ASSUME NEW i \in Submissions, TypeOK, OfferStep(i) PROVE TypeOK'
<1> USE DEF TypeOK
<1>o. offer[i] \in Offers
  BY DEF OfferType
<1>t. ASSUME NEW where \in OfferPlaces, NEW answer \in {"answered", "abandoned"}, Tell(i, where, answer)
      PROVE TypeOK'
  <2>1. OfferType'
    BY <1>t, <1>o DEF Tell, OfferType, Offers, OfferPlaces
  <2>2. reason' \in [Submissions -> {"unset", "pending", "answered", "abandoned"}]
    BY <1>t DEF Tell, ShareType
  <2>3. logged' \in [Submissions -> Nat]
    BY <1>t, LogType DEF Tell, ShareType
  <2>4. early' \subseteq Submissions
    BY <1>t DEF Tell, ShareType
  <2>5. ShareType'
    BY <1>t, <2>2, <2>3, <2>4 DEF Tell, ShareType, At, Share
  <2> QED
    BY <1>t, <2>1, <2>5, ChainKept, WorkKept, LifeKept DEF Tell
<1>1. CASE Ask(i)
  <2>1. Head(offer[i].servers) \in Upstreams /\ Tail(offer[i].servers) \in Seq(Upstreams)
    BY <1>1, <1>o DEF Ask, Offers
  <2>2. Append(Tail(offer[i].servers), Head(offer[i].servers)) \in Seq(Upstreams)
    BY <2>1
  <2>3. Try(offer[i].tries) \in Nat
    BY <1>o DEF Try, Offers
  <2>4. offer' \in [Submissions -> Offers]
    <3>1. PICK o : offer' = [offer EXCEPT ![i] = o]
                   /\ \/ o = [offer[i] EXCEPT !.tries = Try(offer[i].tries),
                          !.asked = @ \cup {Head(offer[i].servers)}, !.servers = Tail(offer[i].servers),
                          !.pc = "answered", !.heard = @ \cup {Head(offer[i].servers)}]
                      \/ o = [offer[i] EXCEPT !.tries = Try(offer[i].tries),
                          !.asked = @ \cup {Head(offer[i].servers)}, !.servers = Tail(offer[i].servers),
                          !.pc = "refused"]
                      \/ o = [offer[i] EXCEPT !.tries = Try(offer[i].tries),
                          !.asked = @ \cup {Head(offer[i].servers)},
                          !.servers = Append(Tail(offer[i].servers), Head(offer[i].servers))]
      BY <1>1, <1>o DEF Ask, Offers
    <3>2. offer[i].asked \cup {Head(offer[i].servers)} \in SUBSET Upstreams
      BY <2>1, <1>o DEF Offers
    <3>3. offer[i].heard \cup {Head(offer[i].servers)} \in SUBSET Upstreams
      BY <2>1, <1>o DEF Offers
    <3>4. o \in Offers
      <4> DEFINE h == Head(offer[i].servers)
      <4> DEFINE t == Try(offer[i].tries)
      <4>1. PICK a, b \in SUBSET Upstreams : a = offer[i].asked \cup {h} /\ b = offer[i].heard \cup {h}
        BY <3>2, <3>3
      <4>2. PICK left, again \in Seq(Upstreams) :
              left = Tail(offer[i].servers) /\ again = Append(Tail(offer[i].servers), h)
        BY <2>1, <2>2
      <4>3. PICK n \in Nat : n = t
        BY <2>3
      <4>4. \/ o = [offer[i] EXCEPT !.tries = n, !.asked = a, !.servers = left, !.pc = "answered", !.heard = b]
            \/ o = [offer[i] EXCEPT !.tries = n, !.asked = a, !.servers = left, !.pc = "refused"]
            \/ o = [offer[i] EXCEPT !.tries = n, !.asked = a, !.servers = again]
        BY <3>1, <4>1, <4>2, <4>3
      <4> HIDE DEF h, t
      <4> QED
        BY <4>4, <1>o DEF Offers, OfferPlaces
    <3> QED
      BY <3>1, <3>4 DEF OfferType
  <2>5. OfferType'
    BY <1>1, <2>4 DEF Ask, OfferType
  <2> QED
    BY <1>1, <2>5, ChainKept, WorkKept, ShareKept, LifeKept DEF Ask
<1>2. CASE Answered(i)
  BY <1>2, <1>t DEF Answered, OfferPlaces
<1>3. CASE GiveUp(i)
  BY <1>3, <1>t DEF GiveUp, OfferPlaces
<1>4. CASE AllAsked(i)
  <2>1. OfferType'
    BY <1>4, <1>o DEF AllAsked, OfferType, Offers, OfferPlaces
  <2> QED
    BY <1>4, <2>1, ChainKept, WorkKept, ShareKept, LifeKept DEF AllAsked
<1> QED
  BY <1>1, <1>2, <1>3, <1>4 DEF OfferStep

LEMMA TypeChange == ASSUME NEW s \in Upstreams, TypeOK, Change(s) PROVE TypeOK'
<1>1. OfferType'
  BY DEF Change, TypeOK, OfferType
<1> QED
  BY <1>1, ChainKept, WorkKept, ShareKept, LifeKept DEF Change, TypeOK

-----------------------------------------------------------------------------
\* The end and the start of the process

LEMMA TypeBegin == TypeOK /\ Begin /\ orderly' \in BOOLEAN => TypeOK'
<1> SUFFICES ASSUME TypeOK, Begin, orderly' \in BOOLEAN PROVE TypeOK'
  OBVIOUS
<1> USE DEF TypeOK
<1>1. ChainType'
  BY DEF Begin, ChainType
<1>2. WorkType'
  <2>1. file \in State
    BY DEF WorkType
  <2>2. dupes' \subseteq Data /\ workLog' \subseteq Works
    BY <2>1 DEF Begin, State
  <2>3. {DataOf[i] : i \in passed} \subseteq Data
    BY SharesAssumption DEF ShareType
  <2>4. forgotten' \subseteq Data
    BY <2>3 DEF Begin, WorkType
  <2> QED
    BY <2>2, <2>4 DEF Begin, WorkType
<1>3. ShareType'
  <2>1. status' \in [Submissions -> Statuses]
    BY DEF Begin, ShareType, Statuses
  <2> QED
    BY <2>1 DEF Begin, ShareType, Places, At, Share
<1>4. OfferType'
  <2>1. ASSUME NEW i \in Submissions PROVE [offer[i] EXCEPT !.pc = "killed"] \in Offers
    BY DEF OfferType, Offers, OfferPlaces
  <2> QED
    BY <2>1 DEF Begin, OfferType
<1>5. LifeType'
  BY DEF Begin, LifeType
<1> QED
  BY <1>1, <1>2, <1>3, <1>4, <1>5

LEMMA TypeExit == TypeOK /\ ExitStep => TypeOK'
<1> SUFFICES ASSUME TypeOK, ExitStep PROVE TypeOK'
  OBVIOUS
<1> USE DEF TypeOK
<1>1. CASE StopServers \/ ServersStopped \/ \E r \in Receivers : ServerEnds(r)
  <2>1. LifeType'
    BY <1>1 DEF StopServers, ServersStopped, ServerEnds, LifeType
  <2>2. UNCHANGED <<chain, works, dupes, shares, reason, offer, up, file, passed, early, straddled, forgotten>>
    BY <1>1 DEF StopServers, ServersStopped, ServerEnds
  <2> QED
    BY <2>1, <2>2, ChainKept, WorkKept, ShareKept, OfferKept
<1>2. CASE SaveState \/ SaveFails
  <2>1. LifeType'
    BY <1>2 DEF SaveState, SaveFails, LifeType
  <2>2. WorkType'
    BY <1>2 DEF SaveState, SaveFails, WorkType, State, NoState
  <2>3. UNCHANGED <<chain, shares, reason, offer, up, passed, early, straddled>>
    BY <1>2 DEF SaveState, SaveFails
  <2> QED
    BY <2>1, <2>2, <2>3, ChainKept, ShareKept, OfferKept
<1>3. CASE Restart \/ Crash
  BY <1>3, TypeBegin DEF Restart, Crash, LifeType
<1> QED
  BY <1>1, <1>2, <1>3 DEF ExitStep

LEMMA TypeStep == TypeOK /\ [Next]_vars => TypeOK'
<1> SUFFICES ASSUME TypeOK, [Next]_vars PROVE TypeOK'
  OBVIOUS
<1>1. CASE UNCHANGED vars
  BY <1>1, ChainKept, WorkKept, ShareKept, OfferKept, LifeKept DEF TypeOK
<1>2. CASE Next
  BY <1>2, TypePoller, TypeWork, TypeExit, TypeReceiver, TypeOffer, TypeChange DEF Next
<1> QED
  BY <1>1, <1>2

\* Every variable keeps its type, whatever is sent, found, stopped or lost.
THEOREM TypeCorrect == Spec => []TypeOK
BY TypeInit, TypeStep, PTL DEF Spec

-----------------------------------------------------------------------------
\* Nobody is paid twice for the same data.

LEMMA CreditKept ==
  CreditOK /\ UNCHANGED <<passed, issued, workLog, dupes, forgotten, changing, place, current, straddled, status>>
  => CreditOK'
BY DEF CreditOK, SeenOK, CheckOK, PassedOK, AcceptedOK, Seen, InBlockChanged, Share

LEMMA CreditInit == Init => CreditOK
BY DEF Init, CreditOK, SeenOK, CheckOK, PassedOK, AcceptedOK

LEMMA WorkType2 == ASSUME TypeOK, NEW i \in Submissions PROVE Work(i) \in Works /\ DataOf[i] \in Data
BY SharesAssumption DEF Work

LEMMA CreditPoller == TypeOK /\ CreditOK /\ PollerStep => CreditOK'
<1> SUFFICES ASSUME TypeOK, CreditOK, PollerStep PROVE CreditOK'
  OBVIOUS
<1> USE DEF CreditOK
<1>t. changing \in [Pollers -> {"no", "reset", "clear"}]
  BY DEF TypeOK, ChainType
<1>1. ASSUME NEW p \in Pollers, Poll(p) PROVE CreditOK'
  <2>1. \A q \in Pollers : changing[q] = "clear" => changing'[q] = "clear"
    BY <1>1, <1>t DEF Poll
  <2>2. SeenOK'
    BY <1>1, <2>1 DEF Poll, SeenOK, Seen, InBlockChanged
  <2>3. CheckOK' /\ PassedOK' /\ AcceptedOK'
    BY <1>1 DEF Poll, CheckOK, PassedOK, AcceptedOK, Seen, Share
  <2> QED
    BY <2>2, <2>3
<1>2. ASSUME NEW p \in Pollers, ResetDupes(p) PROVE CreditOK'
  <2>1. CASE last = None
    <3>1. \A q \in Pollers : changing[q] = "clear" => changing'[q] = "clear"
      BY <1>2, <1>t, <2>1 DEF ResetDupes
    <3>2. UNCHANGED <<passed, issued, workLog, dupes, forgotten, place, current, straddled, status>>
      BY <1>2, <2>1 DEF ResetDupes
    <3>3. SeenOK'
      BY <3>1, <3>2 DEF SeenOK, Seen, InBlockChanged
    <3>4. CheckOK' /\ PassedOK' /\ AcceptedOK'
      BY <3>2 DEF CheckOK, PassedOK, AcceptedOK, Seen, Share
    <3> QED
      BY <3>3, <3>4
  <2>2. CASE last # None
    <3>1. changing'[p] = "clear"
      BY <1>2, <1>t, <2>2 DEF ResetDupes
    <3>2. straddled' = straddled \cup InCheck /\ UNCHANGED <<passed, issued, workLog, forgotten, place, current, status>>
      BY <1>2, <2>2 DEF ResetDupes
    <3>3. SeenOK'
      BY <3>1, <3>2 DEF SeenOK, InBlockChanged
    <3>4. CheckOK'
      BY <3>2 DEF CheckOK, InCheck, Share
    <3>5. PassedOK' /\ AcceptedOK'
      BY <3>2 DEF PassedOK, AcceptedOK, Share
    <3> QED
      BY <3>3, <3>4, <3>5
  <2> QED
    BY <2>1, <2>2
<1>3. ASSUME NEW p \in Pollers, ClearWork(p) PROVE CreditOK'
  <2>1. SeenOK'
    BY <1>3 DEF ClearWork, SeenOK
  <2>2. CheckOK' /\ PassedOK' /\ AcceptedOK'
    BY <1>3 DEF ClearWork, CheckOK, PassedOK, AcceptedOK, Seen, Share
  <2> QED
    BY <2>1, <2>2
<1> QED
  BY <1>1, <1>2, <1>3 DEF PollerStep

\* Work is registered once, so nothing was let through before that.
LEMMA CreditWork == TypeOK /\ CreditOK /\ WorkStep => CreditOK'
<1> SUFFICES ASSUME TypeOK, CreditOK, NEW w \in Works, Register(w) \/ Prune(w) PROVE CreditOK'
  BY DEF WorkStep
<1> USE DEF CreditOK
<1>1. passed \subseteq Submissions /\ issued \in [Works -> Blocks \cup {None}]
  BY DEF TypeOK, ShareType, WorkType
<1>2. \A v \in Works : issued[v] # None => issued'[v] # None /\ (v \in workLog' => v \in workLog)
  BY <1>1 DEF Register, Prune
<1>3. UNCHANGED <<passed, dupes, forgotten, changing, place, current, straddled, status>>
  BY DEF Register, Prune
<1>4. SeenOK'
  BY <1>1, <1>2, <1>3, WorkType2 DEF SeenOK, Seen, InBlockChanged, Work
<1>5. CheckOK'
  <2>1. \A r \in Receivers : place[r] \in {"prev", "dupe"} => Share(r) \in Submissions
    BY DEF TypeOK, ShareType, At
  <2> QED
    BY <1>2, <1>3, <2>1, WorkType2 DEF CheckOK, Seen, Share, Work
<1>6. PassedOK' /\ AcceptedOK'
  BY <1>3 DEF PassedOK, AcceptedOK, Share
<1> QED
  BY <1>4, <1>5, <1>6

LEMMA CreditReceiver == ASSUME NEW r \in Receivers, TypeOK, CreditOK, ReceiverStep(r) PROVE CreditOK'
<1> USE DEF CreditOK
<1>s. ASSUME ~At(r, "idle") PROVE Share(r) \in Submissions
  BY <1>s DEF TypeOK, ShareType
<1>t. /\ place \in [Receivers -> Places] /\ current \in [Receivers -> Submissions \cup {None}]
      /\ status \in [Submissions -> Statuses] /\ passed \subseteq Submissions
  BY DEF TypeOK, ShareType
\* A step that refuses a share or takes it further, without letting it through.
<1>m. ASSUME NEW where \in {"dupe", "mark", "update", "judge", "log"}, Goto(r, where),
             where = "dupe" => At(r, "prev"),
             where \in {"mark", "update", "judge"} => place[r] \in {"submit", "mark", "update"},
             \A i \in Submissions : status'[i] = "accepted" => status[i] = "accepted" \/ (At(r, "judge") /\ i = Share(r)),
             UNCHANGED <<passed, issued, workLog, dupes, forgotten, changing, straddled>>
      PROVE  CreditOK'
  <2>1. UNCHANGED current /\ \A q \in Receivers : place'[q] = IF q = r THEN where ELSE place[q]
    BY <1>m, <1>t DEF Goto
  <2>2. SeenOK' /\ PassedOK'
    BY <1>m DEF SeenOK, PassedOK, Seen, InBlockChanged
  <2>3. CheckOK'
    BY <1>m, <2>1 DEF CheckOK, Seen, Share, At
  <2>4. AcceptedOK'
    BY <1>m, <2>1 DEF AcceptedOK, Share, At
  <2> QED
    BY <2>2, <2>3, <2>4
<1>1. ASSUME NEW i \in Submissions, Receive(r, i) PROVE CreditOK'
  <2>1. CASE Work(i) \in workLog /\ Start(r, i, "prev") /\ status' = [status EXCEPT ![i] = "checking"]
             /\ straddled' = IF InBlockChanged THEN straddled \cup {i} ELSE straddled
    <3>1. UNCHANGED <<passed, issued, workLog, dupes, forgotten, changing>>
      BY <1>1 DEF Receive
    <3>2. \A q \in Receivers :
            place'[q] = (IF q = r THEN "prev" ELSE place[q]) /\ Share(q)' = (IF q = r THEN i ELSE Share(q))
      BY <2>1, <1>t DEF Start, Share
    <3>3. SeenOK' /\ PassedOK'
      BY <2>1, <3>1 DEF SeenOK, PassedOK, Seen, InBlockChanged
    <3>4. issued[Work(i)] # None
      BY <1>1 DEF Receive
    <3>5. \A j \in passed : DataOf[j] = DataOf[i] => Seen(DataOf[j]) \/ i \in straddled'
      BY <2>1 DEF SeenOK, Work
    <3>6. CheckOK'
      BY <2>1, <3>1, <3>2, <3>4, <3>5 DEF CheckOK, Seen
    <3>7. AcceptedOK'
      BY <2>1, <3>1, <3>2, <1>t DEF AcceptedOK
    <3> QED
      BY <3>3, <3>6, <3>7
  <2>2. CASE Start(r, i, "log") /\ status' = [status EXCEPT ![i] = "rejected"] /\ UNCHANGED straddled
    <3>1. UNCHANGED <<passed, issued, workLog, dupes, forgotten, changing>>
      BY <1>1 DEF Receive
    <3>2. \A q \in Receivers :
            place'[q] = (IF q = r THEN "log" ELSE place[q]) /\ Share(q)' = (IF q = r THEN i ELSE Share(q))
      BY <2>2, <1>t DEF Start, Share
    <3>3. SeenOK' /\ PassedOK' /\ CheckOK'
      BY <2>2, <3>1, <3>2 DEF SeenOK, PassedOK, CheckOK, Seen, InBlockChanged
    <3>4. AcceptedOK'
      BY <2>2, <3>1, <3>2, <1>t DEF AcceptedOK
    <3> QED
      BY <3>3, <3>4
  <2> QED
    BY <1>1, <2>1, <2>2 DEF Receive, InBlockChanged
<1>2. CASE CheckPrevBlock(r)
  <2>1. ~At(r, "idle") /\ At(r, "prev")
    BY <1>2 DEF CheckPrevBlock, At
  <2>2. \A i \in Submissions : status'[i] = "accepted" => status[i] = "accepted"
    BY <1>2, <1>t DEF CheckPrevBlock, Judge
  <2>3. \E where \in {"dupe", "log"} : Goto(r, where)
    BY <1>2 DEF CheckPrevBlock, Judge
  <2> QED
    BY <1>2, <2>1, <2>2, <2>3, <1>m DEF CheckPrevBlock
<1>3. CASE CheckDupe(r)
  <2>1. ~At(r, "idle") /\ At(r, "dupe") /\ Share(r) \in Submissions
    BY <1>3, <1>s DEF CheckDupe, At
  <2>2. CASE DataOf[Share(r)] \in dupes
    <3>1. Goto(r, "log") /\ UNCHANGED <<passed, issued, workLog, dupes, forgotten, changing, straddled>>
      BY <1>3, <2>2 DEF CheckDupe, Judge
    <3>2. \A i \in Submissions : status'[i] = "accepted" => status[i] = "accepted"
      BY <1>3, <2>2, <1>t DEF CheckDupe, Judge
    <3> QED
      BY <3>1, <3>2, <1>m
  <2>3. CASE DataOf[Share(r)] \notin dupes
    <3>1. /\ dupes' = dupes \cup {DataOf[Share(r)]} /\ passed' = passed \cup {Share(r)}
          /\ UNCHANGED <<issued, workLog, forgotten, changing, straddled, status>>
      BY <1>3, <2>3 DEF CheckDupe
    <3>2. UNCHANGED current /\ \A q \in Receivers \ {r} : place'[q] = place[q]
      BY <1>3, <2>3, <1>t DEF CheckDupe, Goto
    <3>3. place'[r] \in {"submit", "judge"}
      BY <1>3, <2>3, <1>t DEF CheckDupe, Goto
    <3>4. issued[Work(Share(r))] # None
      BY <2>1 DEF CheckOK, At
    <3>5. SeenOK'
      BY <3>1, <3>4 DEF SeenOK, Seen, InBlockChanged
    <3>6. CheckOK'
      BY <3>1, <3>2, <3>3 DEF CheckOK, Seen, Share
    <3>7. \A i \in passed : DataOf[i] = DataOf[Share(r)] => DataOf[i] \in forgotten \/ Share(r) \in straddled
      BY <2>1, <2>3 DEF CheckOK, Seen, At
    <3>8. PassedOK'
      BY <3>1, <3>7 DEF PassedOK
    <3>9. AcceptedOK'
      BY <3>1, <3>2 DEF AcceptedOK, Share
    <3> QED
      BY <3>5, <3>6, <3>8, <3>9
  <2> QED
    BY <2>2, <2>3
<1>4. CASE Submit(r)
  BY <1>4, <1>m DEF Submit, At
<1>5. CASE Mark(r)
  BY <1>5, <1>m DEF Mark, At
<1>6. CASE UpdateBlock(r)
  <2>1. \A i \in Submissions : status'[i] = "accepted" => status[i] = "accepted"
    BY <1>6, <1>t DEF UpdateBlock, Judge
  <2>2. \E where \in {"judge", "log"} : Goto(r, where)
    BY <1>6 DEF UpdateBlock, Judge
  <2> QED
    BY <1>6, <2>1, <2>2, <1>m DEF UpdateBlock, At
<1>7. CASE JudgeShare(r)
  <2>1. \A i \in Submissions : status'[i] = "accepted" => status[i] = "accepted" \/ i = Share(r)
    BY <1>7, <1>t DEF JudgeShare, Judge
  <2>2. Goto(r, "log") /\ At(r, "judge")
    BY <1>7 DEF JudgeShare, Judge
  <2> QED
    BY <1>7, <2>1, <2>2, <1>m DEF JudgeShare, At
<1>8. CASE Finish(r)
  <2>1. UNCHANGED <<passed, issued, workLog, dupes, forgotten, changing, straddled, status>>
    BY <1>8 DEF Finish
  <2>2. \A q \in Receivers :
          place'[q] = (IF q = r THEN "idle" ELSE place[q]) /\ (q # r => Share(q)' = Share(q))
    BY <1>8, <1>t DEF Finish, Start, Share
  <2>3. SeenOK' /\ PassedOK' /\ CheckOK' /\ AcceptedOK'
    BY <2>1, <2>2 DEF SeenOK, PassedOK, CheckOK, AcceptedOK, Seen, InBlockChanged
  <2> QED
    BY <2>3
<1> QED
  BY <1>1, <1>2, <1>3, <1>4, <1>5, <1>6, <1>7, <1>8 DEF ReceiverStep, Handle

\* A start forgets no credit but what it counts as forgotten.
LEMMA CreditBegin == TypeOK /\ CreditOK /\ Begin => CreditOK'
<1> SUFFICES ASSUME TypeOK, CreditOK, Begin PROVE CreditOK'
  OBVIOUS
<1> USE DEF CreditOK
<1>1. UNCHANGED <<passed, issued, straddled>> /\ forgotten \subseteq forgotten'
  BY DEF Begin
<1>2. SeenOK'
  <2>1. \A i \in passed : Work(i) \in workLog' => DataOf[i] \in dupes' \/ DataOf[i] \in forgotten'
    BY DEF Begin, Work
  <2> QED
    BY <1>1, <2>1 DEF SeenOK, Seen
<1>3. \A r \in Receivers : place'[r] = "idle"
  BY DEF Begin
<1>4. CheckOK' /\ PassedOK'
  BY <1>1, <1>3 DEF CheckOK, PassedOK
<1>5. \A i \in Submissions : status'[i] = "accepted" => status[i] = "accepted"
  BY DEF Begin
<1>6. AcceptedOK'
  BY <1>1, <1>3, <1>5 DEF AcceptedOK
<1> QED
  BY <1>2, <1>4, <1>6

LEMMA CreditStep == TypeOK /\ CreditOK /\ [Next]_vars => CreditOK'
<1> SUFFICES ASSUME TypeOK, CreditOK, [Next]_vars PROVE CreditOK'
  OBVIOUS
<1>1. CASE UNCHANGED vars
  BY <1>1, CreditKept
<1>2. CASE ExitStep
  <2>1. CASE Restart \/ Crash
    BY <2>1, CreditBegin DEF Restart, Crash
  <2>2. CASE StopServers \/ ServersStopped \/ SaveState \/ SaveFails \/ \E r \in Receivers : ServerEnds(r)
    <3>1. UNCHANGED <<passed, issued, workLog, dupes, forgotten, changing, place, current, straddled, status>>
      BY <2>2 DEF StopServers, ServersStopped, SaveState, SaveFails, ServerEnds
    <3> QED
      BY <3>1, CreditKept
  <2> QED
    BY <1>2, <2>1, <2>2 DEF ExitStep
<1>3. ASSUME NEW i \in Submissions, OfferStep(i) PROVE CreditOK'
  <2>1. UNCHANGED <<passed, issued, workLog, dupes, forgotten, changing, place, current, straddled, status>>
    BY <1>3 DEF OfferStep, Ask, Answered, GiveUp, AllAsked, Tell
  <2> QED
    BY <2>1, CreditKept
<1>4. ASSUME NEW s \in Upstreams, Change(s) PROVE CreditOK'
  BY <1>4, CreditKept DEF Change
<1> QED
  BY <1>1, <1>2, <1>3, <1>4, CreditPoller, CreditWork, CreditReceiver DEF Next

LEMMA CreditImplied == CreditOK => CreditedOnce
BY DEF CreditOK, PassedOK, AcceptedOK, CreditedOnce

\* Whatever blockChanged, the pruner, an exit, a crash and a start do, the same
\* data are credited once, unless one submission straddled the resets of
\* blockChanged or a start brought back their work without them.
THEOREM PaidOnce == Spec => []CreditedOnce
<1>1. Init => TypeOK /\ CreditOK
  BY TypeInit, CreditInit
<1>2. TypeOK /\ CreditOK /\ [Next]_vars => TypeOK' /\ CreditOK'
  BY TypeStep, CreditStep
<1> QED
  BY <1>1, <1>2, CreditImplied, PTL DEF Spec

-----------------------------------------------------------------------------
\* An orderly exit forgets nothing.

LEMMA SaveKept ==
  SaveOK /\ UNCHANGED <<place, running, orderly, forgotten, process, passed, file>> => SaveOK'
BY DEF SaveOK, At

\* While the state is saved in order, no receiver takes a step.
LEMMA SaveReceiver == ASSUME NEW r \in Receivers, TypeOK, SaveOK, ReceiverStep(r) PROVE SaveOK'
<1>1. r \in running
  BY DEF ReceiverStep, Handle, Receive, CheckPrevBlock, CheckDupe, Submit, Mark, UpdateBlock,
         JudgeShare, Finish, SaveOK, At
<1>2. UNCHANGED <<running, orderly, forgotten, process, file>>
  BY DEF ReceiverStep, Handle, Receive, CheckPrevBlock, CheckDupe, Submit, Mark, UpdateBlock,
         JudgeShare, Finish
<1>3. place \in [Receivers -> Places]
  BY DEF TypeOK, ShareType
<1>4. \A q \in Receivers \ {r} : place'[q] = place[q]
  <2>1. \A where : Goto(r, where) => \A q \in Receivers \ {r} : place'[q] = place[q]
    BY <1>3 DEF Goto
  <2>2. \A i, where : Start(r, i, where) => \A q \in Receivers \ {r} : place'[q] = place[q]
    BY <1>3 DEF Start
  <2> QED
    BY <2>1, <2>2 DEF ReceiverStep, Handle, Receive, CheckPrevBlock, CheckDupe, Submit, Mark,
                      UpdateBlock, JudgeShare, Finish, Judge
<1> QED
  BY <1>1, <1>2, <1>4 DEF SaveOK, At

LEMMA SaveExit == TypeOK /\ CreditOK /\ SaveOK /\ ExitStep => SaveOK'
<1> SUFFICES ASSUME TypeOK, CreditOK, SaveOK, ExitStep PROVE SaveOK'
  OBVIOUS
<1>1. CASE StopServers
  BY <1>1 DEF StopServers, SaveOK, At
<1>2. ASSUME NEW r \in Receivers, ServerEnds(r) PROVE SaveOK'
  BY <1>2 DEF ServerEnds, SaveOK, At
<1>3. CASE ServersStopped
  BY <1>3 DEF ServersStopped, SaveOK, At, TypeOK, LifeType
<1>4. CASE SaveState
  <2>1. file' = [dupes |-> dupes, workLog |-> workLog]
    BY <1>4 DEF SaveState
  <2>2. ASSUME orderly' PROVE \A i \in passed : Work(i) \in workLog => DataOf[i] \in dupes
    <3>1. orderly /\ ~InBlockChanged
      BY <1>4, <2>2 DEF SaveState, InBlockChanged
    <3>2. forgotten = {}
      BY <3>1 DEF SaveOK
    <3> QED
      BY <3>1, <3>2 DEF CreditOK, SeenOK, Seen
  <2>3. orderly' => orderly
    BY <1>4 DEF SaveState
  <2>4. process = "save" /\ UNCHANGED <<place, running, forgotten, passed>>
    BY <1>4 DEF SaveState
  <2> QED
    BY <2>1, <2>2, <2>3, <2>4 DEF SaveOK, At, Work
<1>5. CASE SaveFails
  BY <1>5 DEF SaveFails, SaveOK, At
<1>6. CASE Restart
  <2>1. ASSUME orderly PROVE forgotten' = {}
    <3>1. \A i \in passed : Work(i) \in file.workLog => DataOf[i] \in file.dupes
      BY <1>6, <2>1 DEF Restart, SaveOK
    <3>2. workLog' \subseteq file.workLog /\ dupes' = file.dupes
      BY <1>6 DEF Restart, Begin
    <3>3. forgotten = {}
      BY <2>1 DEF SaveOK
    <3> QED
      BY <1>6, <3>1, <3>2, <3>3 DEF Restart, Begin, Work
  <2> QED
    BY <1>6, <2>1 DEF Restart, Begin, SaveOK, At
<1>7. CASE Crash
  BY <1>7 DEF Crash, Begin, SaveOK, At
<1> QED
  BY <1>1, <1>2, <1>3, <1>4, <1>5, <1>6, <1>7 DEF ExitStep

LEMMA SaveStep == TypeOK /\ CreditOK /\ SaveOK /\ [Next]_vars => SaveOK'
<1> SUFFICES ASSUME TypeOK, CreditOK, SaveOK, [Next]_vars PROVE SaveOK'
  OBVIOUS
<1>1. CASE UNCHANGED vars
  BY <1>1, SaveKept
<1>2. CASE PollerStep \/ WorkStep
  BY <1>2, SaveKept DEF PollerStep, WorkStep, Poll, ResetDupes, ClearWork, Register, Prune
<1>3. ASSUME NEW i \in Submissions, OfferStep(i) PROVE SaveOK'
  BY <1>3, SaveKept DEF OfferStep, Ask, Answered, GiveUp, AllAsked, Tell
<1>4. ASSUME NEW s \in Upstreams, Change(s) PROVE SaveOK'
  BY <1>4, SaveKept DEF Change
<1> QED
  BY <1>1, <1>2, <1>3, <1>4, SaveExit, SaveReceiver DEF Next

LEMMA SaveInit == Init => SaveOK
BY DEF Init, SaveOK, At

\* What was credited is known after every exit that waited for the servers and
\* did not fall between the two resets of blockChanged.
THEOREM NothingForgotten == Spec => []ExitForgetsNothing
<1>1. Init => IInv
  BY TypeInit, CreditInit, SaveInit DEF IInv
<1>2. IInv /\ [Next]_vars => IInv'
  BY TypeStep, CreditStep, SaveStep DEF IInv
<1>3. IInv => ExitForgetsNothing
  BY DEF IInv, SaveOK, ExitForgetsNothing
<1> QED
  BY <1>1, <1>2, <1>3, PTL DEF Spec

-----------------------------------------------------------------------------
\* The threads that offer blocks: how often a share is logged by its receiver and
\* by them, and when they give a block up.

\* A submission is in the hands of the receiver of its data, if of any.
LEMMA OneReceiver ==
  ASSUME LogOK, NEW r \in Receivers, NEW q \in Receivers, ~At(r, "idle"), ~At(q, "idle"),
         Share(q) = Share(r)
  PROVE  q = r
BY DEF LogOK, ReceiverOK

LEMMA LogInit == Init => LogOK
<1> SUFFICES ASSUME Init PROVE LogOK
  OBVIOUS
<1>1. \A i \in Submissions : ~Checking(i)
  BY DEF Init, Checking, At
<1>2. ReceiverOK
  BY DEF Init, ReceiverOK, Checking, At, Waits, NoOffer
<1>3. LinesOK
  BY <1>1 DEF Init, LinesOK, Settled
<1> QED
  BY <1>2, <1>3 DEF LogOK

LEMMA LogKept ==
  LogOK /\ UNCHANGED <<place, current, status, reason, logged, offer, delay, early>> => LogOK'
<1> SUFFICES ASSUME LogOK, UNCHANGED <<place, current, status, reason, logged, offer, delay, early>>
             PROVE  LogOK'
  OBVIOUS
<1>1. \A i : /\ (Checking(i)' <=> Checking(i)) /\ (Settled(i)' <=> Settled(i))
              /\ (Waits(i)' <=> Waits(i)) /\ (Live(i)' <=> Live(i)) /\ (Began(i)' <=> Began(i))
  BY DEF Checking, At, Share, Settled, Waits, Live, Began
<1>2. ReceiverOK'
  BY <1>1 DEF LogOK, ReceiverOK, At, Share
<1>3. LinesOK'
  BY <1>1 DEF LogOK, LinesOK
<1> QED
  BY <1>2, <1>3 DEF LogOK

-----------------------------------------------------------------------------
\* A receiver

\* What a step must leave behind for its submission i when receiver r still has it.
LEMMA LogGoto ==
  ASSUME TypeOK, LogOK, NEW r \in Receivers, ~At(r, "idle"),
         NEW where \in Places \ {"idle"}, Goto(r, where),
         UNCHANGED <<logged, delay, early>>,
         \A i \in Submissions \ {Share(r)} :
           status'[i] = status[i] /\ reason'[i] = reason[i] /\ offer'[i] = offer[i],
         status'[Share(r)] \notin {"new", "cut"},
         where = "log" => status'[Share(r)] # "checking",
         where \in {"prev", "dupe", "submit"} => offer'[Share(r)].pc = "none" /\ reason'[Share(r)] = "unset",
         where = "mark" => offer'[Share(r)].pc # "none" /\ reason'[Share(r)] = "unset",
         reason'[Share(r)] = "pending" => delay /\ offer'[Share(r)].pc # "none",
         Share(r) \notin early /\ delay =>
           /\ offer'[Share(r)].pc \in {"none", "ask", "answered", "refused"}
           /\ offer'[Share(r)].pc = "ask" => offer'[Share(r)].servers # <<>>
  PROVE  LogOK'
<1>1. Share(r) \in Submissions /\ Checking(Share(r))
  BY DEF TypeOK, ShareType, Checking
<1>2. UNCHANGED current /\ \A q \in Receivers : place'[q] = IF q = r THEN where ELSE place[q]
  BY DEF Goto, TypeOK, ShareType
<1>3. \A i \in Submissions : Checking(i)' <=> Checking(i)
  BY <1>2 DEF Checking, At, Share
<1>4. \A q \in Receivers : Share(q)' = Share(q) /\ (At(q, "idle")' <=> At(q, "idle"))
  BY <1>2 DEF At, Share
<1>5. ASSUME NEW q \in Receivers, q # r, ~At(q, "idle")
      PROVE  /\ Share(q) \in Submissions \ {Share(r)} /\ place'[q] = place[q]
             /\ status'[Share(q)] = status[Share(q)] /\ reason'[Share(q)] = reason[Share(q)]
             /\ offer'[Share(q)] = offer[Share(q)]
  <2>1. Share(q) \in Submissions /\ Share(q) # Share(r)
    BY <1>5, OneReceiver DEF TypeOK, ShareType
  <2> QED
    BY <1>2, <1>5, <2>1
<1>6. ReceiverOK'
  <2>1. ASSUME NEW q \in Receivers, place'[q] # "idle"
        PROVE  /\ ReceiverOf[DataOf[Share(q)]] = q /\ status'[Share(q)] \notin {"new", "cut"}
               /\ place'[q] \in {"prev", "dupe", "submit"} =>
                    offer'[Share(q)].pc = "none" /\ reason'[Share(q)] = "unset"
               /\ place'[q] = "mark" => offer'[Share(q)].pc # "none" /\ reason'[Share(q)] = "unset"
               /\ place'[q] = "log" => status'[Share(q)] # "checking"
    <3>1. CASE q = r
      BY <1>2, <3>1 DEF LogOK, ReceiverOK
    <3>2. CASE q # r
      <4>1. ~At(q, "idle") /\ place'[q] = place[q]
        BY <1>2, <2>1, <3>2 DEF At
      <4>2. /\ status'[Share(q)] = status[Share(q)] /\ reason'[Share(q)] = reason[Share(q)]
            /\ offer'[Share(q)] = offer[Share(q)]
        BY <1>5, <3>2, <4>1
      <4>3. /\ ReceiverOf[DataOf[Share(q)]] = q /\ status[Share(q)] \notin {"new", "cut"}
            /\ place[q] \in {"prev", "dupe", "submit"} =>
                 offer[Share(q)].pc = "none" /\ reason[Share(q)] = "unset"
            /\ place[q] = "mark" => offer[Share(q)].pc # "none" /\ reason[Share(q)] = "unset"
            /\ place[q] = "log" => status[Share(q)] # "checking"
        BY <4>1 DEF LogOK, ReceiverOK, At
      <4> QED
        BY <4>1, <4>2, <4>3
    <3> QED
      BY <3>1, <3>2
  <2>2. \A i \in Submissions :
          /\ status'[i] = "checking" => Checking(i)'
          /\ status'[i] = "new" => offer'[i].pc = "none" /\ reason'[i] = "unset"
          /\ Waits(i)' => delay' /\ offer'[i].pc # "none"
    BY <1>1, <1>3 DEF LogOK, ReceiverOK, Waits
  <2> QED
    BY <1>2, <2>1, <2>2 DEF ReceiverOK, At, Share
<1>7. LinesOK'
  <2>1. ASSUME NEW i \in Submissions \ early, i # Share(r)
        PROVE  /\ status'[i] = "new" => logged'[i] = 0
               /\ status'[i] = "cut" => logged'[i] = 0 /\ ~Began(i)'
               /\ Checking(i)' => logged'[i] = 0 /\ (delay' => Live(i)')
               /\ Settled(i)' /\ Waits(i)' => logged'[i] = 0 /\ (Live(i)' \/ offer'[i].pc = "killed")
               /\ Settled(i)' /\ ~Waits(i)' => logged'[i] = 1
    BY <1>3, <2>1 DEF LogOK, LinesOK, Settled, Waits, Live, Began
  <2>2. ASSUME Share(r) \notin early PROVE logged'[Share(r)] = 0 /\ (delay => \A i \in Submissions : i = Share(r) => Live(i)')
    <3>1. logged[Share(r)] = 0
      BY <1>1, <2>2 DEF LogOK, LinesOK
    <3>2. Share(r)' = Share(r)
      BY <1>4
    <3>3. \A i \in Submissions : i = Share(r) /\ delay => Live(i)'
      BY <2>2 DEF Live
    <3> QED
      BY <3>1, <3>2, <3>3, <1>1
  <2> QED
    BY <1>1, <1>3, <1>4, <2>1, <2>2 DEF LinesOK, Settled
<1> QED
  BY <1>6, <1>7 DEF LogOK

LEMMA LogReceive ==
  ASSUME TypeOK, LogOK, NEW r \in Receivers, NEW i \in Submissions, Receive(r, i) PROVE LogOK'
<1>1. PICK where \in {"prev", "log"} :
        Start(r, i, where) /\ status' = [status EXCEPT ![i] = IF where = "prev" THEN "checking" ELSE "rejected"]
  BY DEF Receive
<1>2. /\ At(r, "idle") /\ status[i] = "new" /\ ReceiverOf[DataOf[i]] = r
      /\ UNCHANGED <<logged, reason, offer, delay, early>>
  BY DEF Receive
<1>3. /\ place' = [place EXCEPT ![r] = where] /\ place'[r] = where
      /\ \A q \in Receivers \ {r} : place'[q] = place[q]
      /\ current'[r] = i /\ \A q \in Receivers \ {r} : current'[q] = current[q]
      /\ status'[i] = (IF where = "prev" THEN "checking" ELSE "rejected")
      /\ \A j \in Submissions \ {i} : status'[j] = status[j]
  BY <1>1 DEF Start, TypeOK, ShareType
<1>4. /\ ~Checking(i) /\ offer[i].pc = "none" /\ reason[i] = "unset"
      /\ \A q \in Receivers : ~At(q, "idle") => current[q] \in Submissions \ {i} /\ q # r
  <2>1. offer[i].pc = "none" /\ reason[i] = "unset"
    BY <1>2 DEF LogOK, ReceiverOK
  <2>2. \A q \in Receivers : ~At(q, "idle") => Share(q) # i /\ q # r
    BY <1>2 DEF LogOK, ReceiverOK
  <2>3. ~Checking(i)
    BY <2>2 DEF Checking
  <2>4. \A q \in Receivers : ~At(q, "idle") => Share(q) \in Submissions
    BY DEF TypeOK, ShareType
  <2> QED
    BY <2>1, <2>2, <2>3, <2>4 DEF Share
<1>5. Checking(i)' /\ \A j \in Submissions \ {i} : Checking(j)' <=> Checking(j)
  <2>1. Checking(i)'
    BY <1>3 DEF Checking, At, Share
  <2>2. ASSUME NEW j \in Submissions \ {i} PROVE Checking(j)' <=> Checking(j)
    BY <1>2, <1>3 DEF Checking, At, Share
  <2> QED
    BY <2>1, <2>2
<1>6. ReceiverOK'
  <2>1. ASSUME NEW q \in Receivers, place'[q] # "idle"
        PROVE  /\ ReceiverOf[DataOf[current'[q]]] = q /\ status'[current'[q]] \notin {"new", "cut"}
               /\ place'[q] \in {"prev", "dupe", "submit"} =>
                    offer'[current'[q]].pc = "none" /\ reason'[current'[q]] = "unset"
               /\ place'[q] = "mark" => offer'[current'[q]].pc # "none" /\ reason'[current'[q]] = "unset"
               /\ place'[q] = "log" => status'[current'[q]] # "checking"
    <3>1. CASE q = r
      BY <1>2, <1>3, <1>4, <3>1
    <3>2. CASE q # r
      <4>1. ~At(q, "idle") /\ place'[q] = place[q] /\ current'[q] = current[q]
        BY <1>3, <2>1, <3>2 DEF At
      <4>2. status'[current[q]] = status[current[q]]
        BY <1>3, <1>4, <4>1
      <4>3. /\ ReceiverOf[DataOf[current[q]]] = q /\ status[current[q]] \notin {"new", "cut"}
            /\ place[q] \in {"prev", "dupe", "submit"} =>
                 offer[current[q]].pc = "none" /\ reason[current[q]] = "unset"
            /\ place[q] = "mark" => offer[current[q]].pc # "none" /\ reason[current[q]] = "unset"
            /\ place[q] = "log" => status[current[q]] # "checking"
        BY <4>1 DEF LogOK, ReceiverOK, At, Share
      <4> QED
        BY <1>2, <4>1, <4>2, <4>3
    <3> QED
      BY <3>1, <3>2
  <2>2. \A j \in Submissions :
          /\ status'[j] = "checking" => Checking(j)'
          /\ status'[j] = "new" => offer'[j].pc = "none" /\ reason'[j] = "unset"
          /\ Waits(j)' => delay' /\ offer'[j].pc # "none"
    BY <1>2, <1>3, <1>5 DEF LogOK, ReceiverOK, Waits
  <2> QED
    BY <2>1, <2>2 DEF ReceiverOK, At, Share
<1>7. LinesOK'
  <2>1. ASSUME NEW j \in Submissions \ early, j # i
        PROVE  /\ status'[j] = "new" => logged'[j] = 0
               /\ status'[j] = "cut" => logged'[j] = 0 /\ ~Began(j)'
               /\ Checking(j)' => logged'[j] = 0 /\ (delay' => Live(j)')
               /\ Settled(j)' /\ Waits(j)' => logged'[j] = 0 /\ (Live(j)' \/ offer'[j].pc = "killed")
               /\ Settled(j)' /\ ~Waits(j)' => logged'[j] = 1
    BY <1>2, <1>3, <1>5, <2>1 DEF LogOK, LinesOK, Settled, Waits, Live, Began
  <2>2. ASSUME i \notin early
        PROVE  logged'[i] = 0 /\ Live(i)' /\ status'[i] \notin {"new", "cut"} /\ ~Settled(i)'
    BY <1>2, <1>3, <1>4, <1>5, <2>2 DEF LogOK, LinesOK, Live, Settled
  <2> QED
    BY <1>2, <2>1, <2>2 DEF LinesOK
<1> QED
  BY <1>6, <1>7 DEF LogOK

LEMMA LogFinish ==
  ASSUME TypeOK, LogOK, NEW r \in Receivers, Finish(r) PROVE LogOK'
<1>1. /\ At(r, "log") /\ ~At(r, "idle") /\ Share(r) \in Submissions /\ Checking(Share(r))
  BY DEF Finish, At, TypeOK, ShareType, Checking
<1>2. /\ place'[r] = "idle" /\ \A q \in Receivers \ {r} : place'[q] = place[q] /\ Share(q)' = Share(q)
      /\ UNCHANGED <<status, reason, offer, delay, early>>
  BY DEF Finish, Start, Share, TypeOK, ShareType
<1>3. /\ \A j \in Submissions \ {Share(r)} : logged'[j] = logged[j]
      /\ logged'[Share(r)] = IF Waits(Share(r)) THEN logged[Share(r)] ELSE logged[Share(r)] + 1
  BY <1>1 DEF Finish, LogShare, Waits, TypeOK, ShareType
<1>4. \A q \in Receivers \ {r} : ~At(q, "idle") => Share(q) # Share(r)
  BY <1>1, OneReceiver
<1>5. /\ \A j \in Submissions : j = Share(r) => ~Checking(j)'
      /\ \A j \in Submissions \ {Share(r)} : Checking(j)' <=> Checking(j)
  BY <1>2, <1>4 DEF Checking, At
<1>6. /\ status[Share(r)] \in {"accepted", "rejected"}
  BY <1>1 DEF LogOK, ReceiverOK, TypeOK, ShareType, Statuses
<1>7. ReceiverOK'
  <2>1. \A q \in Receivers : ~At(q, "idle")' =>
          /\ q # r /\ ~At(q, "idle") /\ place'[q] = place[q] /\ Share(q)' = Share(q)
    BY <1>2 DEF At
  <2>2. \A j \in Submissions : status[j] = "checking" => Checking(j)'
    BY <1>5, <1>6 DEF LogOK, ReceiverOK
  <2> QED
    BY <1>2, <2>1, <2>2 DEF LogOK, ReceiverOK, At, Waits
<1>8. LinesOK'
  <2>1. ASSUME NEW j \in Submissions \ early, j # Share(r)
        PROVE  /\ status'[j] = "new" => logged'[j] = 0
               /\ status'[j] = "cut" => logged'[j] = 0 /\ ~Began(j)'
               /\ Checking(j)' => logged'[j] = 0 /\ (delay' => Live(j)')
               /\ Settled(j)' /\ Waits(j)' => logged'[j] = 0 /\ (Live(j)' \/ offer'[j].pc = "killed")
               /\ Settled(j)' /\ ~Waits(j)' => logged'[j] = 1
    BY <1>2, <1>3, <1>5, <2>1 DEF LogOK, LinesOK, Settled, Waits, Live, Began
  <2>2. ASSUME NEW j \in Submissions \ early, j = Share(r)
        PROVE  /\ status'[j] \notin {"new", "cut"} /\ ~Checking(j)'
               /\ Waits(j)' => logged'[j] = 0 /\ Live(j)'
               /\ ~Waits(j)' => logged'[j] = 1
    <3>1. logged[j] = 0 /\ (delay => Live(j))
      BY <1>1, <2>2 DEF LogOK, LinesOK
    <3>2. Waits(j) => delay
      BY DEF LogOK, ReceiverOK
    <3>3. logged'[j] = IF Waits(j) THEN 0 ELSE 1
      BY <1>3, <2>2, <3>1
    <3>4. status'[j] \notin {"new", "cut"} /\ ~Checking(j)'
      BY <1>2, <1>5, <1>6, <2>2
    <3> QED
      BY <1>2, <3>1, <3>2, <3>3, <3>4 DEF Waits, Live
  <2> QED
    BY <1>2, <2>1, <2>2 DEF LinesOK
<1> QED
  BY <1>7, <1>8 DEF LogOK

LEMMA LogReceiver == ASSUME TypeOK, LogOK, NEW r \in Receivers, ReceiverStep(r) PROVE LogOK'
<1>t. status \in [Submissions -> Statuses] /\ Places \ {"idle"} = {"prev", "dupe", "submit", "mark", "update", "judge", "log"}
  BY DEF TypeOK, ShareType, Places
\* What is known of the share of a receiver that is not idle.
<1>s. ASSUME ~At(r, "idle")
      PROVE  /\ Share(r) \in Submissions /\ status[Share(r)] \notin {"new", "cut"}
             /\ place[r] \in {"prev", "dupe", "submit"} =>
                  offer[Share(r)].pc = "none" /\ reason[Share(r)] = "unset"
             /\ place[r] = "mark" => offer[Share(r)].pc # "none" /\ reason[Share(r)] = "unset"
             /\ reason[Share(r)] = "pending" => delay /\ offer[Share(r)].pc # "none"
             /\ Share(r) \notin early /\ delay =>
                  /\ offer[Share(r)].pc \in {"none", "ask", "answered", "refused"}
                  /\ offer[Share(r)].pc = "ask" => offer[Share(r)].servers # <<>>
  <2>1. Share(r) \in Submissions /\ Checking(Share(r))
    BY <1>s DEF TypeOK, ShareType, Checking
  <2>2. /\ status[Share(r)] \notin {"new", "cut"}
        /\ reason[Share(r)] = "pending" => delay /\ offer[Share(r)].pc # "none"
    BY <1>s, <2>1 DEF LogOK, ReceiverOK, Waits
  <2>3. /\ place[r] \in {"prev", "dupe", "submit"} =>
             offer[Share(r)].pc = "none" /\ reason[Share(r)] = "unset"
        /\ place[r] = "mark" => offer[Share(r)].pc # "none" /\ reason[Share(r)] = "unset"
    BY DEF LogOK, ReceiverOK, At
  <2>4. Share(r) \notin early /\ delay => Live(Share(r))
    BY <2>1 DEF LogOK, LinesOK
  <2> QED
    BY <2>1, <2>2, <2>3, <2>4 DEF Live
\* A step that changes no more than the verdict and the place.
<1>g. ASSUME ~At(r, "idle"), NEW where \in Places \ {"idle"}, Goto(r, where),
             UNCHANGED <<logged, delay, early, reason, offer>>,
             \/ UNCHANGED status /\ where # "log"
             \/ \E verdict \in {"accepted", "rejected"} : status' = [status EXCEPT ![Share(r)] = verdict],
             where \in {"prev", "dupe", "submit"} => place[r] \in {"prev", "dupe", "submit"},
             where # "mark"
      PROVE  LogOK'
  <2>1. /\ \A i \in Submissions \ {Share(r)} : status'[i] = status[i]
        /\ status'[Share(r)] \notin {"new", "cut"} /\ (where = "log" => status'[Share(r)] # "checking")
    BY <1>g, <1>s, <1>t
  <2> QED
    BY <1>g, <1>s, <2>1, LogGoto
<1>2. CASE CheckPrevBlock(r)
  <2>1. /\ place[r] = "prev" /\ ~At(r, "idle")
        /\ UNCHANGED <<logged, delay, early, reason, offer>>
        /\ \/ Goto(r, "dupe") /\ UNCHANGED status
           \/ Goto(r, "log") /\ status' = [status EXCEPT ![Share(r)] = "rejected"]
    BY <1>2 DEF CheckPrevBlock, Judge, At
  <2> QED
    BY <2>1, <1>g, <1>t
<1>3. CASE CheckDupe(r)
  <2>1. /\ place[r] = "dupe" /\ ~At(r, "idle")
        /\ UNCHANGED <<logged, delay, early, reason, offer>>
        /\ \/ Goto(r, "submit") /\ UNCHANGED status
           \/ Goto(r, "judge") /\ UNCHANGED status
           \/ Goto(r, "log") /\ status' = [status EXCEPT ![Share(r)] = "rejected"]
    BY <1>3 DEF CheckDupe, Judge, At
  <2> QED
    BY <2>1, <1>g, <1>t
<1>4. CASE Submit(r)
  <2>1. /\ place[r] = "submit" /\ ~At(r, "idle") /\ Goto(r, "mark")
        /\ UNCHANGED <<logged, delay, early, reason, status>>
        /\ offer' = [offer EXCEPT ![Share(r)] = [NoOffer EXCEPT !.pc = "ask", !.servers = Servers]]
    BY <1>4 DEF Submit, At
  <2>2. /\ \A i \in Submissions \ {Share(r)} : offer'[i] = offer[i]
        /\ offer'[Share(r)].pc = "ask" /\ offer'[Share(r)].servers # <<>>
    BY <2>1, <1>s, ServersType DEF TypeOK, OfferType, NoOffer
  <2> QED
    BY <2>1, <2>2, <1>s, <1>t, LogGoto
<1>5. CASE Mark(r)
  <2>1. /\ place[r] = "mark" /\ ~At(r, "idle") /\ Goto(r, "update")
        /\ UNCHANGED <<logged, delay, early, offer, status>>
        /\ reason' = [reason EXCEPT ![Share(r)] = IF delay THEN "pending" ELSE "answered"]
    BY <1>5 DEF Mark, At
  <2>2. /\ \A i \in Submissions \ {Share(r)} : reason'[i] = reason[i]
        /\ reason'[Share(r)] = "pending" => delay
    BY <2>1, <1>s DEF TypeOK, ShareType
  <2> QED
    BY <2>1, <2>2, <1>s, <1>t, LogGoto
<1>6. CASE UpdateBlock(r)
  <2>1. /\ ~At(r, "idle") /\ UNCHANGED <<logged, delay, early, reason, offer>>
        /\ \/ Goto(r, "judge") /\ UNCHANGED status
           \/ Goto(r, "log") /\ status' = [status EXCEPT ![Share(r)] = "rejected"]
    BY <1>6 DEF UpdateBlock, Judge, At
  <2> QED
    BY <2>1, <1>g, <1>t
<1>7. CASE JudgeShare(r)
  <2>1. /\ ~At(r, "idle") /\ UNCHANGED <<logged, delay, early, reason, offer>> /\ Goto(r, "log")
        /\ \E verdict \in {"accepted", "rejected"} : status' = [status EXCEPT ![Share(r)] = verdict]
    BY <1>7 DEF JudgeShare, Judge, At
  <2> QED
    BY <2>1, <1>g, <1>t
<1> QED
  BY <1>2, <1>3, <1>4, <1>5, <1>6, <1>7, LogReceive, LogFinish DEF ReceiverStep, Handle

-----------------------------------------------------------------------------
\* The thread that offers a block

\* What a step must leave behind for its submission i.
LEMMA LogOther ==
  ASSUME TypeOK, LogOK, NEW i \in Submissions, offer[i].pc # "none", offer'[i].pc # "none",
         UNCHANGED <<place, current, status, delay>>, early \subseteq early',
         \A j \in Submissions \ {i} :
           reason'[j] = reason[j] /\ logged'[j] = logged[j] /\ offer'[j] = offer[j],
         reason[i] = "unset" => reason'[i] = "unset",
         Waits(i)' => Waits(i),
         i \notin early' =>
           /\ Checking(i) => logged'[i] = 0 /\ (delay => Live(i)')
           /\ Settled(i) /\ Waits(i)' => logged'[i] = 0 /\ Live(i)'
           /\ Settled(i) /\ ~Waits(i)' => logged'[i] = 1,
         i \notin early' => status[i] # "cut"
  PROVE  LogOK'
<1>1. /\ \A j \in Submissions : (Checking(j)' <=> Checking(j)) /\ (Settled(j)' <=> Settled(j))
      /\ \A q \in Receivers : Share(q)' = Share(q)
  BY DEF Checking, Settled, At, Share
<1>2. status[i] # "new"
  BY DEF LogOK, ReceiverOK
<1>3. ReceiverOK'
  <2>1. ASSUME NEW q \in Receivers, place[q] # "idle"
        PROVE  /\ ReceiverOf[DataOf[Share(q)]] = q /\ status[Share(q)] \notin {"new", "cut"}
               /\ place[q] \in {"prev", "dupe", "submit"} =>
                    offer'[Share(q)].pc = "none" /\ reason'[Share(q)] = "unset"
               /\ place[q] = "mark" => offer'[Share(q)].pc # "none" /\ reason'[Share(q)] = "unset"
               /\ place[q] = "log" => status[Share(q)] # "checking"
    <3>1. /\ ReceiverOf[DataOf[Share(q)]] = q /\ status[Share(q)] \notin {"new", "cut"}
          /\ place[q] \in {"prev", "dupe", "submit"} =>
               offer[Share(q)].pc = "none" /\ reason[Share(q)] = "unset"
          /\ place[q] = "mark" => offer[Share(q)].pc # "none" /\ reason[Share(q)] = "unset"
          /\ place[q] = "log" => status[Share(q)] # "checking"
      BY <2>1 DEF LogOK, ReceiverOK, At
    <3>2. Share(q) \in Submissions
      BY <2>1 DEF TypeOK, ShareType, At
    <3> QED
      BY <3>1, <3>2
  <2>2. \A j \in Submissions :
          /\ status[j] = "checking" => Checking(j)
          /\ status[j] = "new" => offer'[j].pc = "none" /\ reason'[j] = "unset"
          /\ reason'[j] = "pending" => delay /\ offer'[j].pc # "none"
    BY <1>2 DEF LogOK, ReceiverOK, Waits
  <2> QED
    BY <1>1, <2>1, <2>2 DEF ReceiverOK, At, Share, Waits
<1>4. LinesOK'
  <2>1. ASSUME NEW j \in Submissions \ early', j # i
        PROVE  /\ status'[j] = "new" => logged'[j] = 0
               /\ status'[j] = "cut" => logged'[j] = 0 /\ ~Began(j)'
               /\ Checking(j)' => logged'[j] = 0 /\ (delay' => Live(j)')
               /\ Settled(j)' /\ Waits(j)' => logged'[j] = 0 /\ (Live(j)' \/ offer'[j].pc = "killed")
               /\ Settled(j)' /\ ~Waits(j)' => logged'[j] = 1
    <3>1. j \in Submissions \ early /\ reason'[j] = reason[j] /\ logged'[j] = logged[j] /\ offer'[j] = offer[j]
      BY <2>1
    <3> QED
      BY <1>1, <3>1 DEF LogOK, LinesOK, Settled, Waits, Live, Began
  <2> QED
    BY <1>1, <1>2, <2>1 DEF LinesOK
<1> QED
  BY <1>3, <1>4 DEF LogOK

LEMMA LogTell ==
  ASSUME TypeOK, LogOK, NEW i \in Submissions, offer[i].pc \in {"answered", "refused"},
         NEW where \in {"ask", "abandoned"}, NEW told \in {"answered", "abandoned"}, Tell(i, where, told)
  PROVE  LogOK'
<1>1. /\ UNCHANGED <<place, current, status, delay>> /\ early \subseteq early'
      /\ i \notin early' => ~(delay /\ Checking(i)) /\ i \notin early
  BY DEF Tell
<1>2. /\ offer'[i].pc \in {"died", "ask", "abandoned"}
      /\ \A j \in Submissions \ {i} : reason'[j] = reason[j] /\ logged'[j] = logged[j] /\ offer'[j] = offer[j]
  BY DEF Tell, LogShare, TypeOK, ShareType, OfferType, Offers
<1>3. CASE Waits(i)
  <2>1. reason'[i] = told /\ logged'[i] = logged[i] + 1
    BY <1>3 DEF Tell, LogShare, TypeOK, ShareType
  <2>2. delay
    BY <1>3 DEF LogOK, ReceiverOK
  <2>3. i \notin early' => status[i] # "cut" /\ ~Checking(i)
    BY <1>1, <2>2 DEF LogOK, LinesOK, Began
  <2>4. i \notin early' /\ Settled(i) => logged'[i] = 1
    <3>1. i \notin early' /\ Settled(i) => logged[i] = 0
      BY <1>1, <1>3 DEF LogOK, LinesOK
    <3> QED
      BY <2>1, <3>1
  <2>5. ~Waits(i)' /\ reason[i] # "unset"
    BY <1>3, <2>1 DEF Waits
  <2> QED
    BY <1>1, <1>2, <2>3, <2>4, <2>5, LogOther
<1>4. CASE ~Waits(i)
  <2>1. reason' = reason /\ logged' = logged /\ ~Waits(i)'
    BY <1>4 DEF Tell, Waits
  <2>2. i \notin early' => status[i] # "cut"
    BY <1>1 DEF LogOK, LinesOK, Began
  <2>3. i \notin early' => (Checking(i) => logged[i] = 0 /\ ~delay) /\ (Settled(i) => logged[i] = 1)
    BY <1>1, <1>4 DEF LogOK, LinesOK
  <2> QED
    BY <1>1, <1>2, <2>1, <2>2, <2>3, LogOther
<1> QED
  BY <1>3, <1>4

LEMMA LogOffer == ASSUME TypeOK, LogOK, NEW i \in Submissions, OfferStep(i) PROVE LogOK'
<1>1. CASE Ask(i)
  <2>1. /\ offer[i].pc = "ask" /\ UNCHANGED <<place, current, status, delay, early, reason, logged>>
        /\ \A j \in Submissions \ {i} : offer'[j] = offer[j]
    BY <1>1 DEF Ask, TypeOK, OfferType
  <2>2. Append(Tail(offer[i].servers), Head(offer[i].servers)) # <<>>
    <3>1. offer[i].servers \in Seq(Upstreams) /\ offer[i].servers # <<>>
      BY <1>1 DEF Ask, TypeOK, OfferType, Offers
    <3> QED
      BY <3>1
  <2>3. Live(i)' /\ offer'[i].pc # "none"
    <3>1. PICK o : offer' = [offer EXCEPT ![i] = o]
                   /\ \/ o = [offer[i] EXCEPT !.tries = Try(offer[i].tries),
                          !.asked = @ \cup {Head(offer[i].servers)}, !.servers = Tail(offer[i].servers),
                          !.pc = "answered", !.heard = @ \cup {Head(offer[i].servers)}]
                      \/ o = [offer[i] EXCEPT !.tries = Try(offer[i].tries),
                          !.asked = @ \cup {Head(offer[i].servers)}, !.servers = Tail(offer[i].servers),
                          !.pc = "refused"]
                      \/ o = [offer[i] EXCEPT !.tries = Try(offer[i].tries),
                          !.asked = @ \cup {Head(offer[i].servers)},
                          !.servers = Append(Tail(offer[i].servers), Head(offer[i].servers))]
      <4>1. offer[i] \in Offers
        BY DEF TypeOK, OfferType
      <4> QED
        BY <1>1, <4>1 DEF Ask, Offers
    <3>2. offer[i] \in Offers /\ offer'[i] = o
      BY <3>1 DEF TypeOK, OfferType
    <3>3. PICK again : again = Append(Tail(offer[i].servers), Head(offer[i].servers)) /\ again # <<>>
      BY <2>2
    <3>4. \/ offer'[i].pc \in {"answered", "refused"}
          \/ offer'[i].pc = "ask" /\ offer'[i].servers = again
      BY <2>1, <3>1, <3>2, <3>3 DEF Offers
    <3> QED
      BY <3>3, <3>4 DEF Live
  <2>4. i \notin early => status[i] # "cut"
    BY <2>1 DEF LogOK, LinesOK, Began
  <2>5. Waits(i)' <=> Waits(i)
    BY <2>1 DEF Waits
  <2>6. i \notin early =>
          /\ Checking(i) => logged[i] = 0
          /\ Settled(i) /\ Waits(i) => logged[i] = 0
          /\ Settled(i) /\ ~Waits(i) => logged[i] = 1
    BY DEF LogOK, LinesOK
  <2> QED
    BY <2>1, <2>3, <2>4, <2>5, <2>6, LogOther
<1>2. CASE Answered(i)
  BY <1>2, LogTell DEF Answered
<1>3. CASE GiveUp(i)
  BY <1>3, LogTell DEF GiveUp
<1>4. CASE AllAsked(i)
  <2>1. /\ offer[i].pc = "ask" /\ UNCHANGED <<place, current, status, delay, early, reason, logged>>
        /\ offer'[i].pc = "done" /\ \A j \in Submissions \ {i} : offer'[j] = offer[j]
    BY <1>4 DEF AllAsked, TypeOK, OfferType, Offers
  <2>2. ~Live(i) /\ offer[i].pc # "killed"
    BY <1>4 DEF AllAsked, Live
  <2>3. i \notin early => status[i] # "cut"
    BY <2>1 DEF LogOK, LinesOK, Began
  <2>4. Waits(i)' <=> Waits(i)
    BY <2>1 DEF Waits
  <2>5. i \notin early =>
          /\ Checking(i) => logged[i] = 0 /\ ~delay
          /\ ~(Settled(i) /\ Waits(i))
          /\ Settled(i) /\ ~Waits(i) => logged[i] = 1
    BY <2>2 DEF LogOK, LinesOK
  <2> QED
    BY <2>1, <2>3, <2>4, <2>5, LogOther
<1> QED
  BY <1>1, <1>2, <1>3, <1>4 DEF OfferStep

-----------------------------------------------------------------------------
\* A start, and the theorem

LEMMA LogBegin == TypeOK /\ LogOK /\ Begin => LogOK'
<1> SUFFICES ASSUME TypeOK, LogOK, Begin PROVE LogOK'
  OBVIOUS
<1>1. /\ \A r \in Receivers : place'[r] = "idle"
      /\ \A i \in Submissions : status'[i] = IF Dead(i) THEN "cut" ELSE status[i]
      /\ \A i \in Submissions :
           offer'[i] = IF Began(i) THEN [offer[i] EXCEPT !.pc = "killed"] ELSE offer[i]
      /\ UNCHANGED <<reason, logged, delay, early>>
  BY DEF Begin
<1>2. \A i \in Submissions : ~Checking(i)'
  BY <1>1 DEF Checking, At
<1>3. \A i \in Submissions :
        /\ Began(i) => offer'[i].pc = "killed"
        /\ ~Began(i) => offer'[i] = offer[i]
  BY <1>1 DEF TypeOK, OfferType, Offers
<1>4. ReceiverOK'
  <2>1. ASSUME NEW i \in Submissions
        PROVE  /\ status'[i] # "checking"
               /\ status'[i] = "new" => offer'[i].pc = "none" /\ reason'[i] = "unset"
               /\ Waits(i)' => delay' /\ offer'[i].pc # "none"
    <3>1. status[i] = "checking" => Dead(i)
      BY DEF LogOK, ReceiverOK, Dead
    <3>2. /\ status[i] = "new" => offer[i].pc = "none" /\ reason[i] = "unset"
          /\ reason[i] = "pending" => delay /\ offer[i].pc # "none"
      BY DEF LogOK, ReceiverOK, Waits
    <3> QED
      BY <1>1, <1>3, <3>1, <3>2 DEF Waits, Began
  <2> QED
    BY <1>1, <2>1 DEF ReceiverOK, At
<1>5. LinesOK'
  <2>1. ASSUME NEW i \in Submissions \ early
        PROVE  /\ status'[i] = "new" => logged'[i] = 0
               /\ status'[i] = "cut" => logged'[i] = 0 /\ ~Began(i)'
               /\ Settled(i)' /\ Waits(i)' => logged'[i] = 0 /\ offer'[i].pc = "killed"
               /\ Settled(i)' /\ ~Waits(i)' => logged'[i] = 1
    <3>1. ~Began(i)'
      BY <1>3 DEF Began
    <3>2. CASE Dead(i)
      BY <1>1, <3>1, <3>2 DEF Dead, LogOK, LinesOK, Settled
    <3>3. CASE ~Dead(i)
      <4>1. status'[i] = status[i] /\ (Waits(i)' <=> Waits(i)) /\ logged'[i] = logged[i]
        BY <1>1, <3>3 DEF Waits
      <4>2. Settled(i)' => Settled(i)
        BY <3>3, <4>1 DEF Settled, Dead
      <4>3. Settled(i) /\ Waits(i) => logged[i] = 0 /\ (Began(i) \/ offer[i].pc = "killed")
        BY DEF LogOK, LinesOK, ReceiverOK, Live, Began
      <4> QED
        BY <1>3, <3>1, <4>1, <4>2, <4>3 DEF LogOK, LinesOK
    <3> QED
      BY <3>2, <3>3
  <2> QED
    BY <1>1, <1>2, <2>1 DEF LinesOK
<1> QED
  BY <1>4, <1>5 DEF LogOK

LEMMA LogStep == TypeOK /\ LogOK /\ [Next]_vars => LogOK'
<1> SUFFICES ASSUME TypeOK, LogOK, [Next]_vars PROVE LogOK'
  OBVIOUS
<1>1. CASE UNCHANGED vars
  BY <1>1, LogKept
<1>2. CASE PollerStep \/ WorkStep
  BY <1>2, LogKept DEF PollerStep, WorkStep, Poll, ResetDupes, ClearWork, Register, Prune
<1>3. CASE ExitStep
  <2>1. CASE Restart \/ Crash
    BY <2>1, LogBegin DEF Restart, Crash
  <2>2. CASE StopServers \/ ServersStopped \/ SaveState \/ SaveFails \/ \E r \in Receivers : ServerEnds(r)
    <3>1. UNCHANGED <<place, current, status, reason, logged, offer, delay, early>>
      BY <2>2 DEF StopServers, ServersStopped, SaveState, SaveFails, ServerEnds
    <3> QED
      BY <3>1, LogKept
  <2> QED
    BY <1>3, <2>1, <2>2 DEF ExitStep
<1>4. ASSUME NEW s \in Upstreams, Change(s) PROVE LogOK'
  BY <1>4, LogKept DEF Change
<1> QED
  BY <1>1, <1>2, <1>3, <1>4, LogReceiver, LogOffer DEF Next

LEMMA LogImplied == TypeOK /\ LogOK => ExactlyOneLogs
<1> SUFFICES ASSUME TypeOK, LogOK, NEW i \in Submissions \ early
             PROVE  /\ logged[i] <= 1
                    /\ Settled(i) /\ logged[i] = 0 =>
                         Waits(i) /\ offer[i].pc \in {"ask", "answered", "refused", "killed"}
  BY DEF ExactlyOneLogs
<1>1. status[i] \in {"new", "checking", "accepted", "rejected", "cut"}
  BY DEF TypeOK, ShareType, Statuses
<1>2. status[i] = "checking" => Checking(i)
  BY DEF LogOK, ReceiverOK
<1>3. Settled(i) \/ logged[i] = 0
  <2>1. ~Settled(i) => status[i] \in {"new", "cut"} \/ Checking(i)
    BY <1>1, <1>2 DEF Settled
  <2> QED
    BY <2>1 DEF LogOK, LinesOK
<1>4. Settled(i) => logged[i] = IF Waits(i) THEN 0 ELSE 1
  BY DEF LogOK, LinesOK
<1>5. logged[i] <= 1
  BY <1>3, <1>4
<1>6. Settled(i) /\ Waits(i) => offer[i].pc \in {"ask", "answered", "refused", "killed"}
  <2>1. Settled(i) /\ Waits(i) => (Live(i) \/ offer[i].pc = "killed")
    BY DEF LogOK, LinesOK
  <2>2. Waits(i) => offer[i].pc # "none"
    BY DEF LogOK, ReceiverOK
  <2> QED
    BY <2>1, <2>2 DEF Live
<1>7. Settled(i) /\ logged[i] = 0 => Waits(i)
  BY <1>4
<1> QED
  BY <1>5, <1>6, <1>7

\* Whoever is to write the line of a share - its receiver, or the thread that
\* offers its block - writes it once, through every exit, crash and start, unless
\* that thread has its answer before the receiver is done.
THEOREM LoggedOnceOnly == Spec => []ExactlyOneLogs
<1>1. Init => TypeOK /\ LogOK
  BY TypeInit, LogInit
<1>2. TypeOK /\ LogOK /\ [Next]_vars => TypeOK' /\ LogOK'
  BY TypeStep, LogStep
<1>3. TypeOK /\ LogOK => ExactlyOneLogs
  BY LogImplied
<1> QED
  BY <1>1, <1>2, <1>3, PTL DEF Spec

-----------------------------------------------------------------------------
\* When a block is given up

LEMMA RoundInit == Init => RoundOK
BY DEF Init, RoundOK, NoOffer

LEMMA RoundKept == RoundOK /\ UNCHANGED offer => RoundOK'
BY DEF RoundOK

\* The list after one more try: nothing of it is lost, and what was asked is one more.
LEMMA Turn ==
  ASSUME NEW list \in Seq(Upstreams), NEW t \in Nat, t < Len(Servers), Len(list) = Len(Servers),
         \A k \in 1..(Len(Servers) - t) : list[k] = Servers[t + k]
  PROVE  /\ list # <<>> /\ Head(list) = Servers[t + 1]
         /\ Len(Tail(list)) = Len(Servers) - 1
         /\ Append(Tail(list), Head(list)) \in Seq(Upstreams)
         /\ Len(Append(Tail(list), Head(list))) = Len(Servers)
         /\ \A k \in 1..(Len(Servers) - (t + 1)) : Append(Tail(list), Head(list))[k] = Servers[t + 1 + k]
<1>n. PICK n \in Nat : n = Len(Servers)
  BY ServersType
<1>1. list # <<>> /\ Len(list) = n
  BY <1>n
<1>2. Head(list) = list[1] /\ Head(list) \in Upstreams
  BY <1>1
<1>3. list[1] = Servers[t + 1]
  BY <1>n
<1>4. Tail(list) \in Seq(Upstreams) /\ Len(Tail(list)) = n - 1
  BY <1>1, <1>n
<1>5. \A k \in 1..(n - 1) : Tail(list)[k] = list[k + 1]
  BY <1>1, <1>4, <1>n
<1>6. /\ Append(Tail(list), Head(list)) \in Seq(Upstreams) /\ Len(Append(Tail(list), Head(list))) = n
      /\ \A k \in 1..(n - 1) : Append(Tail(list), Head(list))[k] = Tail(list)[k]
  BY <1>2, <1>4, <1>n
<1>7. ASSUME NEW k \in 1..(n - (t + 1)) PROVE Append(Tail(list), Head(list))[k] = Servers[t + 1 + k]
  <2>1. k \in 1..(n - 1) /\ k + 1 \in 1..(n - t) /\ t + (k + 1) = t + 1 + k
    BY <1>7, <1>n
  <2>2. list[k + 1] = Servers[t + (k + 1)]
    BY <2>1, <1>n
  <2> QED
    BY <2>1, <2>2, <1>5, <1>6
<1> QED
  BY <1>n, <1>1, <1>2, <1>3, <1>4, <1>6, <1>7

LEMMA RoundAsk == ASSUME TypeOK, RoundOK, NEW i \in Submissions, Ask(i) PROVE RoundOK'
<1>o. offer \in [Submissions -> Offers] /\ offer[i] \in Offers
  BY DEF TypeOK, OfferType
<1>1. PICK list \in Seq(Upstreams), t \in Nat, asked \in SUBSET Upstreams :
        list = offer[i].servers /\ t = offer[i].tries /\ asked = offer[i].asked
  BY <1>o DEF Offers
<1>2. PICK h, left, next : h = Head(list) /\ left = Tail(list) /\ next = Append(left, h)
  OBVIOUS
<1>3. offer[i].pc = "ask"
  BY DEF Ask
<1>4. \/ offer'[i].pc = "answered" /\ offer'[i].heard = offer[i].heard \cup {h}
      \/ /\ GivesUp(i, Try(t), left) /\ offer'[i].pc = "refused"
         /\ offer'[i].heard = offer[i].heard /\ offer'[i].asked = asked \cup {h}
      \/ /\ offer'[i].pc = "ask" /\ offer'[i].heard = offer[i].heard /\ offer'[i].asked = asked \cup {h}
         /\ offer'[i].tries = Try(t) /\ offer'[i].servers = next
  <2>1. PICK o : offer' = [offer EXCEPT ![i] = o]
                 /\ \/ o = [offer[i] EXCEPT !.tries = Try(t), !.asked = @ \cup {h}, !.servers = left,
                              !.pc = "answered", !.heard = @ \cup {h}]
                    \/ /\ GivesUp(i, Try(t), left)
                       /\ o = [offer[i] EXCEPT !.tries = Try(t), !.asked = @ \cup {h}, !.servers = left,
                                 !.pc = "refused"]
                    \/ o = [offer[i] EXCEPT !.tries = Try(t), !.asked = @ \cup {h}, !.servers = next]
    BY <1>1, <1>2, <1>o DEF Ask, Offers
  <2>2. offer'[i] = o
    BY <1>o, <2>1
  <2> QED
    BY <1>1, <1>3, <1>o, <2>1, <2>2 DEF Offers
<1>5. CASE offer[i].heard # {}
  <2>1. offer'[i].heard # {}
    BY <1>4, <1>5
  <2> QED
    BY <1>4, <2>1, <1>o DEF RoundOK, Ask
<1>6. CASE offer[i].heard = {}
  <2>1. /\ Len(list) = Len(Servers) /\ t <= Len(Servers)
        /\ \A k \in 1..t : Servers[k] \in asked
        /\ \A k \in 1..(Len(Servers) - t) : list[k] = Servers[t + k]
    BY <1>1, <1>3, <1>6 DEF RoundOK
  <2>2. /\ Len(left) = Len(Servers) - 1 /\ Len(next) = Len(Servers)
        /\ Try(t) \in Nat /\ Try(t) <= Len(Servers)
        /\ \A k \in 1..Try(t) : Servers[k] \in asked \cup {h}
        /\ \A k \in 1..(Len(Servers) - Try(t)) : next[k] = Servers[Try(t) + k]
    <3>1. CASE t < Len(Servers)
      <4>1. Try(t) = t + 1
        BY <3>1 DEF Try
      <4>2. /\ h = Servers[t + 1] /\ Len(left) = Len(Servers) - 1 /\ Len(next) = Len(Servers)
            /\ \A k \in 1..(Len(Servers) - (t + 1)) : next[k] = Servers[t + 1 + k]
        BY <1>2, <2>1, <3>1, Turn
      <4>3. \A k \in 1..(t + 1) : k \in 1..t \/ k = t + 1
        OBVIOUS
      <4>4. Len(Servers) \in Nat
        BY ServersType
      <4> QED
        BY <2>1, <3>1, <4>1, <4>2, <4>3, <4>4
    <3>2. CASE t = Len(Servers)
      <4>1. Try(t) = t
        BY <3>2 DEF Try
      <4>2. list # <<>>
        BY <1>1 DEF Ask
      <4>3. h \in Upstreams /\ left \in Seq(Upstreams) /\ Len(left) = Len(list) - 1
        BY <1>2, <4>2
      <4>4. Len(next) = Len(list)
        BY <1>2, <4>3, <4>2
      <4>5. 1..(Len(Servers) - Try(t)) = {}
        BY <3>2, <4>1
      <4> QED
        BY <2>1, <3>2, <4>1, <4>3, <4>4, <4>5
    <3> QED
      BY <2>1, <3>1, <3>2, ServersType
  \* More tries than upstreams are left: every one was tried.
  <2>3. GivesUp(i, Try(t), left) => asked \cup {h} = Upstreams
    <3>1. ASSUME GivesUp(i, Try(t), left) PROVE \A k \in 1..Len(Servers) : Servers[k] \in asked \cup {h}
      <4>1. Try(t) > Len(Servers) - 1
        BY <3>1, <2>2 DEF GivesUp
      <4>2. Try(t) = Len(Servers)
        BY <4>1, <2>2, ServersType
      <4> QED
        BY <2>2, <4>2
    <3>2. Upstreams = {Servers[k] : k \in 1..Len(Servers)}
      <4>1. DOMAIN Servers = 1..Len(Servers)
        BY ServersType
      <4> QED
        BY <4>1 DEF Upstreams, Range
    <3>3. h \in Upstreams
      <4>1. list # <<>>
        BY <1>1 DEF Ask
      <4> QED
        BY <4>1, <1>2
    <3> QED
      BY <3>1, <3>2, <3>3
  <2>4. /\ offer'[i].pc = "answered" => offer'[i].heard # {}
        /\ offer'[i].pc = "ask" /\ offer'[i].heard = {} =>
             /\ Len(offer'[i].servers) = Len(Servers) /\ offer'[i].tries <= Len(Servers)
             /\ \A k \in 1..offer'[i].tries : Servers[k] \in offer'[i].asked
             /\ \A k \in 1..(Len(Servers) - offer'[i].tries) :
                  offer'[i].servers[k] = Servers[offer'[i].tries + k]
        /\ offer'[i].pc \in {"refused", "abandoned"} => offer'[i].asked = Upstreams
    <3>1. CASE offer'[i].pc = "answered" /\ offer'[i].heard = offer[i].heard \cup {h}
      BY <3>1
    <3>2. CASE /\ GivesUp(i, Try(t), left) /\ offer'[i].pc = "refused"
               /\ offer'[i].asked = asked \cup {h}
      BY <3>2, <2>3
    <3>3. CASE /\ offer'[i].pc = "ask" /\ offer'[i].asked = asked \cup {h}
               /\ offer'[i].tries = Try(t) /\ offer'[i].servers = next
      BY <3>3, <2>2
    <3> QED
      BY <1>4, <3>1, <3>2, <3>3
  <2>5. \A j \in Submissions \ {i} : offer'[j] = offer[j]
    BY <1>o DEF Ask
  <2> QED
    BY <2>4, <2>5 DEF RoundOK
<1> QED
  BY <1>5, <1>6

LEMMA RoundOffer == ASSUME TypeOK, RoundOK, NEW i \in Submissions, OfferStep(i) PROVE RoundOK'
<1>o. offer \in [Submissions -> Offers] /\ offer[i] \in Offers
  BY DEF TypeOK, OfferType
<1>t. ASSUME NEW where \in {"ask", "abandoned"}, NEW told, Tell(i, where, told),
             offer[i].pc = (IF where = "ask" THEN "answered" ELSE "refused")
      PROVE  RoundOK'
  <2>1. PICK pc \in {"died", where} : offer' = [offer EXCEPT ![i].pc = pc]
    BY <1>t DEF Tell
  <2>2. /\ offer'[i].pc = pc /\ offer'[i].heard = offer[i].heard /\ offer'[i].asked = offer[i].asked
        /\ \A j \in Submissions \ {i} : offer'[j] = offer[j]
    BY <1>o, <2>1 DEF Offers
  <2>3. where = "ask" => offer[i].heard # {}
    BY <1>t DEF RoundOK
  <2>4. where = "abandoned" /\ offer[i].heard = {} => offer[i].asked = Upstreams
    BY <1>t DEF RoundOK
  <2> QED
    BY <2>1, <2>2, <2>3, <2>4 DEF RoundOK
<1>1. CASE Ask(i)
  BY <1>1, RoundAsk
<1>2. CASE Answered(i)
  BY <1>2, <1>t DEF Answered
<1>3. CASE GiveUp(i)
  BY <1>3, <1>t DEF GiveUp
<1>4. CASE AllAsked(i)
  <2>1. offer'[i].pc = "done" /\ \A j \in Submissions \ {i} : offer'[j] = offer[j]
    BY <1>4, <1>o DEF AllAsked, Offers
  <2> QED
    BY <2>1 DEF RoundOK
<1> QED
  BY <1>1, <1>2, <1>3, <1>4 DEF OfferStep

LEMMA RoundSubmit == ASSUME TypeOK, RoundOK, NEW r \in Receivers, Submit(r) PROVE RoundOK'
<1>1. PICK o : o = [NoOffer EXCEPT !.pc = "ask", !.servers = Servers] /\ offer' = [offer EXCEPT ![Share(r)] = o]
  BY DEF Submit
<1>2. o.pc = "ask" /\ o.servers = Servers /\ o.tries = 0
  BY <1>1 DEF NoOffer
<1>3. Len(Servers) \in Nat
  BY ServersType
<1>4. \A i \in Submissions : offer'[i] = offer[i] \/ offer'[i] = o
  BY <1>1 DEF TypeOK, OfferType
<1>5. /\ Len(o.servers) = Len(Servers) /\ o.tries <= Len(Servers)
      /\ \A k \in 1..o.tries : Servers[k] \in o.asked
      /\ \A k \in 1..(Len(Servers) - o.tries) : o.servers[k] = Servers[o.tries + k]
  BY <1>2, <1>3
<1> QED
  BY <1>2, <1>4, <1>5 DEF RoundOK

LEMMA RoundBegin == TypeOK /\ RoundOK /\ Begin => RoundOK'
<1> SUFFICES ASSUME TypeOK, RoundOK, Begin PROVE RoundOK'
  OBVIOUS
<1>1. \A i \in Submissions : offer'[i].pc = "killed" \/ offer'[i] = offer[i]
  BY DEF Begin, TypeOK, OfferType, Offers
<1> QED
  BY <1>1 DEF RoundOK

LEMMA RoundStep == TypeOK /\ RoundOK /\ [Next]_vars => RoundOK'
<1> SUFFICES ASSUME TypeOK, RoundOK, [Next]_vars PROVE RoundOK'
  OBVIOUS
<1>1. CASE UNCHANGED vars
  BY <1>1, RoundKept
<1>2. CASE PollerStep \/ WorkStep
  BY <1>2, RoundKept DEF PollerStep, WorkStep, Poll, ResetDupes, ClearWork, Register, Prune
<1>3. CASE ExitStep
  BY <1>3, RoundKept, RoundBegin DEF ExitStep, Restart, Crash, StopServers, ServersStopped, SaveState,
     SaveFails, ServerEnds
<1>4. ASSUME NEW r \in Receivers, ReceiverStep(r) PROVE RoundOK'
  <2>1. Submit(r) \/ UNCHANGED offer
    BY <1>4 DEF ReceiverStep, Handle, Receive, CheckPrevBlock, CheckDupe, Mark, UpdateBlock, JudgeShare, Finish
  <2> QED
    BY <2>1, RoundKept, RoundSubmit
<1>5. ASSUME NEW s \in Upstreams, Change(s) PROVE RoundOK'
  BY <1>5, RoundKept DEF Change
<1> QED
  BY <1>1, <1>2, <1>3, <1>4, <1>5, RoundOffer DEF Next

\* However long the list of upstreams, however they go and come back, and however
\* the chain moves, a block nobody has answered for is given up only after every
\* upstream was tried.
THEOREM GivenUpLast == Spec => []GivenUpByAll
<1>1. Init => TypeOK /\ RoundOK
  BY TypeInit, RoundInit
<1>2. TypeOK /\ RoundOK /\ [Next]_vars => TypeOK' /\ RoundOK'
  BY TypeStep, RoundStep
<1>3. RoundOK => GivenUpByAll
  BY DEF RoundOK, GivenUpByAll
<1> QED
  BY <1>1, <1>2, <1>3, PTL DEF Spec
=============================================================================
