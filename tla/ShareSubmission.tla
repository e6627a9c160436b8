--------------------------- MODULE ShareSubmission ---------------------------
(***************************************************************************)
(* eloipool.py, from a miner's share to the share log and the upstream     *)
(* daemons.  A server thread checks a share against the work log and the   *)
(* current block, refuses data it has seen (DupeShareHACK), and logs the   *)
(* share.  A share that solves a block also gets a thread of its own that  *)
(* offers the block to one upstream after another.  Meanwhile the threads  *)
(* that poll for templates change the current block and, in blockChanged,  *)
(* reset DupeShareHACK and clear the work log.  The process may be stopped *)
(* and started again, with its state in a file, or die.                    *)
(*                                                                         *)
(* The reason why a share is refused does not matter here, and the checks  *)
(* of its content (target, time, coinbase, transactions) may go either     *)
(* way.                                                                    *)
(***************************************************************************)
EXTENDS Integers, Sequences, FiniteSets, Functions

CONSTANTS
  Receivers,    \* the server threads that receive shares (JSON-RPC, stratum)
  Pollers,      \* the threads that poll for templates
  Works,        \* what workLog may hold
  Submissions,  \* the calls of receiveShare
  Data,         \* the block headers that miners send
  DataOf,       \* the header that a submission is about
  WorkOf,       \* the work that a header solves
  ReceiverOf,   \* the thread that a header is sent to
  Solutions,    \* the headers that solve a block and are submitted
  Foreign,      \* the blocks that others find
  Servers,      \* the upstreams that a block is offered to, in this order
  Delays,       \* the values of DelayLogForUpstream
  MaxLives,     \* bound: how often the process is started (the last is not stopped)
  None,         \* no block yet
  Unknown       \* currentBlock[0] between a block and the bits of the next one

ASSUME SharesAssumption ==
  /\ DataOf \in [Submissions -> Data] /\ WorkOf \in [Data -> Works]
  /\ ReceiverOf \in [Data -> Receivers] /\ Solutions \subseteq Data
ASSUME BlocksAssumption == {None, Unknown} \cap (Foreign \cup Solutions) = {}
ASSUME OthersAssumption ==
  /\ Servers \in Seq(Range(Servers)) /\ Servers # <<>>
  /\ Delays \subseteq BOOLEAN /\ MaxLives \in Nat

VARIABLES
  block,      \* MM.currentBlock[0]
  last,       \* MM.lastBlock[0]
  changing,   \* where each poller is in blockChanged
  issued,     \* the previous block of each work, None before it is made
  workLog,    \* workLog
  dupes,      \* DupeShareHACK
  place,      \* each server thread's place in receiveShare
  current,    \* the submission it is about
  status,     \* what became of each submission
  reason,     \* its upstreamRejectReason
  logged,     \* how often it was logged
  offer,      \* its blockSubmissionThread
  up,         \* the upstreams that answer
  delay,      \* DelayLogForUpstream
  process,    \* how far exit or restart is
  running,    \* the servers that still run
  file,       \* the saved state
  lives,      \* how often the process was started
  passed,     \* history: the submissions that were no duplicates
  early,      \* history: answered before the receiver was done, DelayLogForUpstream set
  straddled,  \* history: in between while blockChanged went on
  forgotten,  \* history: data whose work was restored without them
  orderly     \* history: all servers had stopped and no block changed at a save

chain == <<block, last, changing>>
works == <<issued, workLog>>
shares == <<place, current, status, logged>>
life == <<delay, process, running, file, lives>>
history == <<passed, early, straddled, forgotten, orderly>>
vars == <<chain, works, dupes, shares, reason, offer, up, life, history>>

Blocks == Foreign \cup Solutions
Upstreams == Range(Servers)
NoState == [dupes |-> {}, workLog |-> {}]
NoOffer == [pc |-> "none", servers |-> <<>>, tries |-> 0, asked |-> {}, heard |-> {}]

At(r, where) == place[r] = where
Share(r) == current[r]
InCheck == {Share(r) : r \in {q \in Receivers : place[q] \in {"prev", "dupe"}}}

-----------------------------------------------------------------------------
\* Blocks and work

\* updateMerkleTree: a template names the block it builds on.  (When blockChanged
\* is called after it is the subject of MerkleMaker.)
Solved == {DataOf[i] : i \in passed} \cap Solutions
Poll(p) ==
  /\ changing[p] = "no"
  /\ \E b \in Foreign \cup Solved :
       /\ block' = b
       /\ last' = IF b = block THEN last ELSE block
  /\ \E where \in {"no", "reset"} : changing' = [changing EXCEPT ![p] = where]
  /\ UNCHANGED <<works, dupes, shares, reason, offer, up, life, history>>

\* blockChanged, first DupeShareHACK, ...
ResetDupes(p) ==
  /\ changing[p] = "reset"
  /\ \/ /\ last = None
        /\ changing' = [changing EXCEPT ![p] = "no"]
        /\ UNCHANGED <<dupes, straddled>>
     \/ /\ last # None
        /\ dupes' = {}
        /\ changing' = [changing EXCEPT ![p] = "clear"]
        /\ straddled' = straddled \cup InCheck
  /\ UNCHANGED <<block, last, works, shares, reason, offer, up, life, passed, early, forgotten, orderly>>

\* (The work log is left alone.)
KeepWork(p) ==
  /\ changing[p] = "clear"
  /\ changing' = [changing EXCEPT ![p] = "no"]
  /\ UNCHANGED <<block, last, works, dupes, shares, reason, offer, up, life, history>>

\* ... then the work log.
ClearWork(p) ==
  /\ changing[p] = "clear"
  /\ workLog' = {}
  /\ changing' = [changing EXCEPT ![p] = "no"]
  /\ UNCHANGED <<block, last, issued, dupes, shares, reason, offer, up, life, history>>

\* RegisterWork, getStratumJob: work for the current block, or, when the block
\* changed since getMRD or getMC, for the one before.
Register(w) ==
  /\ issued[w] = None
  /\ \E b \in {block, last} \ {None, Unknown} : issued' = [issued EXCEPT ![w] = b]
  /\ workLog' = workLog \cup {w}
  /\ UNCHANGED <<chain, dupes, shares, reason, offer, up, life, history>>

\* _WorkLogPruner_I, after StaleWorkTimeout.
Prune(w) ==
  /\ w \in workLog
  /\ workLog' = workLog \ {w}
  /\ UNCHANGED <<chain, issued, dupes, shares, reason, offer, up, life, history>>

-----------------------------------------------------------------------------
\* A receiver: receiveShare, checkShare

Goto(r, where) == place' = [place EXCEPT ![r] = where] /\ UNCHANGED current
Start(r, i, where) == place' = [place EXCEPT ![r] = where] /\ current' = [current EXCEPT ![r] = i]
Judge(r, verdict) ==
  /\ status' = [status EXCEPT ![Share(r)] = verdict]
  /\ Goto(r, "log")

\* gotworkReady and LookupWork.  What is between the two resets of blockChanged
\* is counted as straddling them.
Work(i) == WorkOf[DataOf[i]]
Receive(r, i) ==
  /\ r \in running /\ At(r, "idle")
  /\ status[i] = "new" /\ ReceiverOf[DataOf[i]] = r /\ issued[Work(i)] # None
  /\ \/ /\ Work(i) \in workLog
        /\ Start(r, i, "prev")
        /\ status' = [status EXCEPT ![i] = "checking"]
        /\ straddled' = IF \E p \in Pollers : changing[p] = "clear" THEN straddled \cup {i} ELSE straddled
     \/ /\ Start(r, i, "log")
        /\ status' = [status EXCEPT ![i] = "rejected"]
        /\ UNCHANGED straddled
  /\ UNCHANGED <<chain, works, dupes, logged, reason, offer, up, life, passed, early, forgotten, orderly>>

\* stale-prevblk, bad-prevblk
CheckPrevBlock(r) ==
  /\ At(r, "prev")
  /\ \/ /\ block = issued[Work(Share(r))]
        /\ Goto(r, "dupe")
        /\ UNCHANGED status
     \/ /\ block # issued[Work(Share(r))]
        /\ Judge(r, "rejected")
  /\ UNCHANGED <<chain, works, dupes, logged, reason, offer, up, life, history>>

\* duplicate.  (That the global is read twice makes no difference: a receiver
\* that found it empty only adds to the newer one.)
CheckDupe(r) ==
  /\ At(r, "dupe")
  /\ LET d == DataOf[Share(r)] IN
     \/ /\ d \in dupes
        /\ Judge(r, "rejected")
        /\ UNCHANGED <<dupes, passed>>
     \/ /\ d \notin dupes
        /\ dupes' = dupes \cup {d}
        /\ passed' = passed \cup {Share(r)}
        /\ Goto(r, IF d \in Solutions THEN "submit" ELSE "judge")
        /\ UNCHANGED status
  /\ UNCHANGED <<chain, works, logged, reason, offer, up, life, early, straddled, forgotten, orderly>>

\* blakehash(data).
BlockHash(i) == DataOf[i]

\* The thread for the block is started ...
Submit(r) ==
  /\ At(r, "submit")
  /\ offer' = [offer EXCEPT ![Share(r)] = [NoOffer EXCEPT !.pc = "ask", !.servers = Servers]]
  /\ Goto(r, "mark")
  /\ UNCHANGED <<chain, works, dupes, status, logged, reason, up, life, history>>

\* ... before the share says whether its log waits for the upstream.
Mark(r) ==
  /\ At(r, "mark")
  /\ reason' = [reason EXCEPT ![Share(r)] = IF delay THEN "pending" ELSE "answered"]
  /\ Goto(r, "update")
  /\ UNCHANGED <<chain, works, dupes, status, logged, offer, up, life, history>>

\* MM.updateBlock: the block is the new one, or unknown until its bits are; it
\* may raise when the block is set.
NewBlock(i) ==
  /\ block # BlockHash(i)
  /\ block' \in {BlockHash(i), Unknown}
  /\ last' = block
UpdateBlock(r) ==
  /\ At(r, "update")
  /\ \/ /\ \/ NewBlock(Share(r))
           \/ block = BlockHash(Share(r)) /\ UNCHANGED <<block, last>>
        /\ Goto(r, "judge")
        /\ UNCHANGED status
     \/ /\ NewBlock(Share(r)) /\ block' # Unknown
        /\ Judge(r, "rejected")
  /\ UNCHANGED <<changing, works, dupes, logged, reason, offer, up, life, history>>

\* high-hash, time-too-old, bad-txnmrklroot and the others, also for a block.
JudgeShare(r) ==
  /\ At(r, "judge")
  /\ \E verdict \in {"accepted", "rejected"} : Judge(r, verdict)
  /\ UNCHANGED <<chain, works, dupes, logged, reason, offer, up, life, history>>

LogShare(i) == logged' = [logged EXCEPT ![i] = @ + 1]

\* (Whatever comes of the block, the share is logged.)
FinishAlways(r) ==
  /\ At(r, "log")
  /\ LogShare(Share(r))
  /\ Start(r, None, "idle")
  /\ UNCHANGED <<chain, works, dupes, status, reason, offer, up, life, history>>

\* The finally of receiveShare: logged, unless the upstream's answer is pending.
Finish(r) ==
  /\ At(r, "log")
  /\ \/ reason[Share(r)] # "pending" /\ LogShare(Share(r))
     \/ reason[Share(r)] = "pending" /\ UNCHANGED logged
  /\ Start(r, None, "idle")
  /\ UNCHANGED <<chain, works, dupes, status, reason, offer, up, life, history>>

-----------------------------------------------------------------------------
\* blockSubmissionThread

\* The upstream is tried again at the end of the list, or the thread gives up:
\* the chain has moved on and more tries were made than upstreams are left.
\* (tries is only compared with their number, so it stops growing there.)
Stale(i) == block \notin {BlockHash(i), issued[Work(i)]}
Try(tries) == IF tries < Len(Servers) THEN tries + 1 ELSE tries

\* (One try too few.)
GivesUpSoon(i, tries, left) == Stale(i) /\ tries >= Len(left)

GivesUp(i, tries, left) == Stale(i) /\ tries > Len(left)

\* (The upstream that failed is tried again at once.)
AskAgain(i) ==
  /\ offer[i].pc = "ask" /\ offer[i].servers # <<>>
  /\ LET s == Head(offer[i].servers)
         left == Tail(offer[i].servers)
         tries == Try(offer[i].tries)
         now == [offer[i] EXCEPT !.tries = tries, !.asked = @ \cup {s}]
     IN
     \/ /\ s \in up
        /\ offer' = [offer EXCEPT ![i] =
             [now EXCEPT !.pc = "answered", !.servers = left, !.heard = @ \cup {s}]]
     \/ /\ s \notin up
        /\ offer' = [offer EXCEPT ![i] =
             IF GivesUp(i, tries, left) THEN [now EXCEPT !.pc = "refused", !.servers = left]
             ELSE now]
  /\ UNCHANGED <<chain, works, dupes, shares, reason, up, life, history>>

\* submitblock, and getmemorypool when that fails.
Ask(i) ==
  /\ offer[i].pc = "ask" /\ offer[i].servers # <<>>
  /\ LET s == Head(offer[i].servers)
         left == Tail(offer[i].servers)
         tries == Try(offer[i].tries)
         now == [offer[i] EXCEPT !.tries = tries, !.asked = @ \cup {s}, !.servers = left]
     IN
     \/ /\ s \in up
        /\ offer' = [offer EXCEPT ![i] = [now EXCEPT !.pc = "answered", !.heard = @ \cup {s}]]
     \/ /\ s \notin up
        /\ offer' = [offer EXCEPT ![i] =
             IF GivesUp(i, tries, left) THEN [now EXCEPT !.pc = "refused"]
             ELSE [now EXCEPT !.servers = Append(left, s)]]
  /\ UNCHANGED <<chain, works, dupes, shares, reason, up, life, history>>

\* The share is told, and logged, if it waits; if upstreamRejectReason is not
\* there yet, the KeyError ends the thread.
Waits(i) == reason[i] = "pending"
Checking(i) == \E r \in Receivers : ~At(r, "idle") /\ Share(r) = i
Tell(i, where, answer) ==
  /\ \/ /\ Waits(i)
        /\ reason' = [reason EXCEPT ![i] = answer]
        /\ LogShare(i)
     \/ /\ ~Waits(i)
        /\ UNCHANGED <<reason, logged>>
  /\ offer' = [offer EXCEPT ![i].pc = IF reason[i] = "unset" THEN "died" ELSE where]
  /\ early' = IF delay /\ Checking(i) THEN early \cup {i} ELSE early
  /\ UNCHANGED <<chain, works, dupes, place, current, status, up, life, passed, straddled, forgotten, orderly>>

Answered(i) == offer[i].pc = "answered" /\ Tell(i, "ask", "answered")
GiveUp(i) == offer[i].pc = "refused" /\ Tell(i, "abandoned", "abandoned")
AllAsked(i) ==
  /\ offer[i].pc = "ask" /\ offer[i].servers = <<>>
  /\ offer' = [offer EXCEPT ![i].pc = "done"]
  /\ UNCHANGED <<chain, works, dupes, shares, reason, up, life, history>>

-----------------------------------------------------------------------------
\* Upstreams go and come back.  (That matters only for the one that is asked next.)

Change(s) ==
  /\ \E i \in Submissions : offer[i].pc = "ask" /\ offer[i].servers # <<>> /\ Head(offer[i].servers) = s
  /\ up' = IF s \in up THEN up \ {s} ELSE up \cup {s}
  /\ UNCHANGED <<chain, works, dupes, shares, reason, offer, life, history>>

-----------------------------------------------------------------------------
\* exit, restart: stopServers, stopLoggers, saveState; then the process goes.

StopServers ==
  /\ process = "runs" /\ lives < MaxLives
  /\ process' = "stopping"
  /\ UNCHANGED <<chain, works, dupes, shares, reason, offer, up, delay, running, file, lives, history>>

ServerEnds(r) ==
  /\ process # "runs" /\ r \in running /\ At(r, "idle")
  /\ running' = running \ {r}
  /\ UNCHANGED <<chain, works, dupes, shares, reason, offer, up, delay, process, file, lives, history>>

\* All servers have stopped, or it took too long.
ServersStopped ==
  /\ process = "stopping"
  /\ process' = "save"
  /\ orderly' = (orderly /\ running = {})
  /\ UNCHANGED <<chain, works, dupes, shares, reason, offer, up, delay, running, file, lives,
                 passed, early, straddled, forgotten>>

\* (DupeShareHACK is not saved.)
SaveWorkOnly ==
  /\ process = "save"
  /\ file' = [dupes |-> {}, workLog |-> workLog]
  /\ process' = "saved"
  /\ orderly' = (orderly /\ \A p \in Pollers : changing[p] # "clear")
  /\ UNCHANGED <<chain, works, dupes, shares, reason, offer, up, delay, running, lives,
                 passed, early, straddled, forgotten>>

SaveState ==
  /\ process = "save"
  /\ file' = [dupes |-> dupes, workLog |-> workLog]
  /\ process' = "saved"
  /\ orderly' = (orderly /\ \A p \in Pollers : changing[p] # "clear")
  /\ UNCHANGED <<chain, works, dupes, shares, reason, offer, up, delay, running, lives,
                 passed, early, straddled, forgotten>>

\* The file cannot be written: it is unlinked, and tried again for ever.
SaveFails ==
  /\ process = "save"
  /\ file' = NoState
  /\ UNCHANGED <<chain, works, dupes, shares, reason, offer, up, delay, process, running, lives, history>>

\* A new process.  restoreState takes what the file holds, however old it is,
\* but the work log only if StaleWorkTimeout is not over.  What the old one was
\* doing is cut off.
Began(i) == offer[i].pc \in {"ask", "answered", "refused"}
Dead(i) == status[i] # "new" /\ Checking(i)
Begin ==
  /\ lives < MaxLives /\ lives' = lives + 1
  /\ dupes' = file.dupes
  /\ workLog' \in {file.workLog, {}}
  /\ forgotten' = forgotten \cup
       {d \in {DataOf[i] : i \in passed} : WorkOf[d] \in workLog' /\ d \notin dupes'}
  /\ block' = None /\ last' = None /\ changing' = [p \in Pollers |-> "no"]
  /\ place' = [r \in Receivers |-> "idle"] /\ current' = [r \in Receivers |-> None]
  /\ running' = Receivers /\ process' = "runs"
  /\ status' = [i \in Submissions |-> IF Dead(i) THEN "cut" ELSE status[i]]
  /\ offer' = [i \in Submissions |-> IF Began(i) THEN [offer[i] EXCEPT !.pc = "killed"] ELSE offer[i]]
  /\ UNCHANGED <<issued, reason, logged, up, delay, file, passed, early, straddled>>
Restart == process = "saved" /\ Begin /\ UNCHANGED orderly
Crash == process # "saved" /\ Begin /\ orderly' = FALSE

-----------------------------------------------------------------------------
Init ==
  /\ block = None /\ last = None /\ changing = [p \in Pollers |-> "no"]
  /\ issued = [w \in Works |-> None] /\ workLog = {} /\ dupes = {}
  /\ place = [r \in Receivers |-> "idle"] /\ current = [r \in Receivers |-> None]
  /\ status = [i \in Submissions |-> "new"]
  /\ reason = [i \in Submissions |-> "unset"] /\ logged = [i \in Submissions |-> 0]
  /\ offer = [i \in Submissions |-> NoOffer] /\ up = Upstreams /\ delay \in Delays
  /\ process = "runs" /\ running = Receivers /\ file = NoState /\ lives = 1
  /\ passed = {} /\ early = {} /\ straddled = {} /\ forgotten = {} /\ orderly = TRUE

PollerStep == \E p \in Pollers : Poll(p) \/ ResetDupes(p) \/ ClearWork(p)
WorkStep == \E w \in Works : Register(w) \/ Prune(w)
Handle(r) ==
  \/ CheckPrevBlock(r) \/ CheckDupe(r) \/ Submit(r) \/ Mark(r)
  \/ UpdateBlock(r) \/ JudgeShare(r) \/ Finish(r)
ReceiverStep(r) == Handle(r) \/ \E i \in Submissions : Receive(r, i)
OfferStep(i) == Ask(i) \/ Answered(i) \/ GiveUp(i) \/ AllAsked(i)
ExitStep == \/ StopServers \/ ServersStopped \/ SaveState \/ SaveFails \/ Restart \/ Crash
            \/ \E r \in Receivers : ServerEnds(r)
Next == \/ PollerStep \/ WorkStep \/ ExitStep
        \/ \E r \in Receivers : ReceiverStep(r)
        \/ \E i \in Submissions : OfferStep(i)
        \/ \E s \in Upstreams : Change(s)

Spec == Init /\ [][Next]_vars
\* The threads that offer blocks go on; nothing is assumed of upstreams, miners
\* and the operator.
FairSpec == Spec /\ \A i \in Submissions : WF_vars(OfferStep(i))
-----------------------------------------------------------------------------
\* Properties

Statuses == {"new", "checking", "accepted", "rejected", "cut"}
Places == {"idle", "prev", "dupe", "submit", "mark", "update", "judge", "log"}
OfferPlaces == {"none", "ask", "answered", "refused", "abandoned", "died", "done", "killed"}
State == [dupes : SUBSET Data, workLog : SUBSET Works]
Offers == [pc : OfferPlaces, servers : Seq(Upstreams), tries : Nat,
           asked : SUBSET Upstreams, heard : SUBSET Upstreams]

ChainType ==
  /\ block \in Blocks \cup {None, Unknown} /\ last \in Blocks \cup {None, Unknown}
  /\ changing \in [Pollers -> {"no", "reset", "clear"}]
WorkType ==
  /\ issued \in [Works -> Blocks \cup {None}] /\ workLog \subseteq Works
  /\ dupes \subseteq Data /\ forgotten \subseteq Data /\ file \in State
\* (Only a solution is submitted.)
ShareType ==
  /\ place \in [Receivers -> Places] /\ current \in [Receivers -> Submissions \cup {None}]
  /\ \A r \in Receivers : ~At(r, "idle") => Share(r) \in Submissions
  /\ \A r \in Receivers : place[r] \in {"submit", "mark", "update"} => DataOf[Share(r)] \in Solutions
  /\ status \in [Submissions -> Statuses] /\ logged \in [Submissions -> Nat]
  /\ reason \in [Submissions -> {"unset", "pending", "answered", "abandoned"}]
  /\ passed \subseteq Submissions /\ early \subseteq Submissions /\ straddled \subseteq Submissions
OfferType == offer \in [Submissions -> Offers] /\ up \subseteq Upstreams
LifeType ==
  /\ running \subseteq Receivers /\ process \in {"runs", "stopping", "save", "saved"}
  /\ delay \in BOOLEAN /\ orderly \in BOOLEAN /\ lives \in Nat
TypeOK == ChainType /\ WorkType /\ ShareType /\ OfferType /\ LifeType

\* Nobody is paid twice for the same data, whatever blockChanged, the pruner and
\* a stop and start do, except when the check of one submission straddled the two
\* resets of blockChanged, or the state file lost the data but not their work.
CreditedOnce ==
  \A i, j \in Submissions :
    i # j /\ DataOf[i] = DataOf[j] /\ status[i] = "accepted" /\ status[j] = "accepted" =>
      {i, j} \cap straddled # {} \/ DataOf[i] \in forgotten

\* The order of exit() keeps DupeShareHACK whole: when the servers stop before the
\* state is saved, what is credited is refused after the start.
ExitForgetsNothing == orderly => forgotten = {}

\* Why the two hold.  Data that were let through stay in DupeShareHACK as long as
\* their work can be looked up; a submission whose work was looked up will find
\* them there; a submission is credited only after it was let through.
Seen(d) == d \in dupes \/ d \in forgotten
InBlockChanged == \E p \in Pollers : changing[p] = "clear"
SeenOK ==
  \A i \in passed :
    issued[Work(i)] # None /\ (Seen(DataOf[i]) \/ Work(i) \notin workLog \/ InBlockChanged)
CheckOK ==
  \A r \in Receivers : place[r] \in {"prev", "dupe"} =>
    /\ issued[Work(Share(r))] # None
    /\ \A i \in passed : DataOf[i] = DataOf[Share(r)] => Seen(DataOf[i]) \/ Share(r) \in straddled
PassedOK ==
  \A i, j \in passed : i # j /\ DataOf[i] = DataOf[j] =>
    {i, j} \cap straddled # {} \/ DataOf[i] \in forgotten
AcceptedOK ==
  /\ \A r \in Receivers : place[r] \in {"submit", "mark", "update", "judge"} => Share(r) \in passed
  /\ \A i \in Submissions : status[i] = "accepted" => i \in passed
CreditOK == SeenOK /\ CheckOK /\ PassedOK /\ AcceptedOK

\* An orderly exit saves when no server runs, and all that was let through.
SaveOK ==
  /\ \A r \in Receivers \ running : At(r, "idle")
  /\ orderly =>
       /\ forgotten = {}
       /\ process \in {"save", "saved"} => running = {}
       /\ process = "saved" =>
            \A i \in passed : Work(i) \in file.workLog => DataOf[i] \in file.dupes

IInv == TypeOK /\ CreditOK /\ SaveOK

\* A share is logged once, by the receiver or, when DelayLogForUpstream makes it
\* wait, by the thread that offers the block, unless that thread has its answer
\* before the receiver is done with the share.
Settled(i) == status[i] \in {"accepted", "rejected"} /\ ~Checking(i)
ExactlyOneLogs ==
  \A i \in Submissions \ early :
    /\ logged[i] <= 1
    /\ Settled(i) /\ logged[i] = 0 =>
         Waits(i) /\ offer[i].pc \in {"ask", "answered", "refused", "killed"}

\* Why it holds.  A share has one receiver, a thread that offers its block only
\* after it was let through, and waits only once that thread is there; while the
\* thread has told nothing it goes on, with an upstream to ask.
Live(i) ==
  /\ offer[i].pc \in {"none", "ask", "answered", "refused"}
  /\ offer[i].pc = "ask" => offer[i].servers # <<>>
ReceiverOK ==
  /\ \A r \in Receivers : ~At(r, "idle") =>
       ReceiverOf[DataOf[Share(r)]] = r /\ status[Share(r)] \notin {"new", "cut"}
  /\ \A r \in Receivers : place[r] \in {"prev", "dupe", "submit"} =>
       offer[Share(r)].pc = "none" /\ reason[Share(r)] = "unset"
  /\ \A r \in Receivers : At(r, "mark") =>
       offer[Share(r)].pc # "none" /\ reason[Share(r)] = "unset"
  /\ \A r \in Receivers : At(r, "log") => status[Share(r)] # "checking"
  /\ \A i \in Submissions :
       /\ status[i] = "checking" => Checking(i)
       /\ status[i] = "new" => offer[i].pc = "none" /\ reason[i] = "unset"
       /\ Waits(i) => delay /\ offer[i].pc # "none"
LinesOK ==
  \A i \in Submissions \ early :
    /\ status[i] = "new" => logged[i] = 0
    /\ status[i] = "cut" => logged[i] = 0 /\ ~Began(i)
    /\ Checking(i) => logged[i] = 0 /\ (delay => Live(i))
    /\ Settled(i) /\ Waits(i) => logged[i] = 0 /\ (Live(i) \/ offer[i].pc = "killed")
    /\ Settled(i) /\ ~Waits(i) => logged[i] = 1
LogOK == ReceiverOK /\ LinesOK

\* What DelayLogForUpstream is for: shares "wait for a response from an upstream
\* server before logging them" (config.py.example).  So a share has no second line,
\* and it has one when the thread that offers its block is over.
LoggedWithAnswer ==
  \A i \in Submissions :
    /\ logged[i] <= 1
    /\ Settled(i) /\ offer[i].pc \in {"abandoned", "died", "done"} => logged[i] = 1

\* A block is given up only when every upstream was tried, if none has answered.
GivenUpByAll ==
  \A i \in Submissions :
    offer[i].pc \in {"refused", "abandoned"} /\ offer[i].heard = {} => offer[i].asked = Upstreams

\* Why it holds.  Before any answer the list is Servers, turned by one per try.
RoundOK ==
  \A i \in Submissions :
    /\ offer[i].pc = "answered" => offer[i].heard # {}
    /\ offer[i].pc = "ask" /\ offer[i].heard = {} =>
         /\ Len(offer[i].servers) = Len(Servers) /\ offer[i].tries <= Len(Servers)
         /\ \A k \in 1..offer[i].tries : Servers[k] \in offer[i].asked
         /\ \A k \in 1..(Len(Servers) - offer[i].tries) : offer[i].servers[k] = Servers[offer[i].tries + k]
    /\ offer[i].pc \in {"refused", "abandoned"} /\ offer[i].heard = {} => offer[i].asked = Upstreams

\* A block reaches every upstream that stays up, unless the thread ends before: one
\* that is down does not keep it from the others.
BlockHeard ==
  \A i \in Submissions, s \in Upstreams :
    offer[i].pc = "ask" ~>
      s \in offer[i].heard \/ s \notin up \/ offer[i].pc \notin {"ask", "answered"}
=============================================================================
