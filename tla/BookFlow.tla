------------------------------- MODULE BookFlow -------------------------------
(***************************************************************************)
(* How a change of one order book wakes the trading loop.                  *)
(*                                                                         *)
(* The io thread of the market WSS and the threads that ask for books over *)
(* REST all run LiveBookPublisher::ParseObject: read the book the hub      *)
(* shows, publish the new one, and call TradingLoop::RequestTick if the    *)
(* two differ.  The hub keeps two buffers per token and the index of the   *)
(* one that is shown; it has no lock.  The loop reads the book in TickAll, *)
(* then sleeps until a request, or until the heartbeat.                    *)
(*                                                                         *)
(* A buffer is a struct that is copied field by field: it has a head       *)
(* (times, bids) and a tail (asks), and a copy takes one step for each.    *)
(* What a copy that races with a write yields is any mix of the two.       *)
(***************************************************************************)
EXTENDS Naturals, Sequences

CONSTANTS
  Io,         \* the io thread of the WSS
  Pollers,    \* the threads that ask over REST
  Loop,       \* loop_thread_
  SigOf,      \* the content (BookSig) of each book the exchange comes to have
  NoBook      \* content of a slot nothing was published to

Writers == {Io} \cup Pollers
Threads == Writers \cup {Loop}

ASSUME BookFlowAssumption ==
  /\ Io \notin Pollers /\ Loop \notin Writers
  /\ Len(SigOf) \in Nat /\ \A i \in 1..Len(SigOf) : SigOf[i] # NoBook

(* A frame is named by its place in the history of the exchange's book.     *)
Frames == 1..Len(SigOf)
None == 0
Books == [head : Frames \cup {None}, tail : Frames \cup {None}]
Whole(f) == [head |-> f, tail |-> f]
Sig(f) == IF f = None THEN NoBook ELSE SigOf[f]
Content(b) == <<Sig(b.head), Sig(b.tail)>>

VARIABLES
  market,         \* the exchange's book
  sent,           \* the book the WSS has sent last
  buf, front,     \* OrderBookSnapshotHub's slot of the token
  pc,             \* what each thread does next
  idx, seen,      \* per thread: the buffer it works on, the head it has copied
  feat, changed,  \* per writer: the book it parsed, book_changed
  tick_pending_,
  stop_requested_,
  decided,        \* the book the loop's last tick saw
  lapped,         \* history: a publish was completed since the loop chose its buffer
  overlapped      \* history: two threads were between read and publish at once

vars == <<market, sent, buf, front, pc, idx, seen, feat, changed,
          tick_pending_, stop_requested_, decided, lapped, overlapped>>

Shown == Content(buf[front])
Torn(b) == b.head # b.tail

(* Between the read of the shown book and the end of Publish.               *)
Publishing == {"copy", "put", "putTail", "flip"}

-----------------------------------------------------------------------------
Init ==
  /\ market = None
  /\ sent = None
  /\ buf = [i \in {0, 1} |-> Whole(None)]
  /\ front = 0
  /\ pc = [t \in Threads |-> IF t = Loop THEN "read" ELSE "idle"]
  /\ idx = [t \in Threads |-> 0]
  /\ seen = [t \in Threads |-> None]
  /\ feat = [w \in Writers |-> None]
  /\ changed = [w \in Writers |-> FALSE]
  /\ tick_pending_ = FALSE
  /\ stop_requested_ = FALSE
  /\ decided = Whole(None)
  /\ lapped = FALSE
  /\ overlapped = FALSE

Goto(t, at) == pc' = [pc EXCEPT ![t] = at]

(* The exchange's book changes.                                             *)
MarketMoves ==
  /\ market < Len(SigOf)
  /\ market' = market + 1
  /\ UNCHANGED <<sent, buf, front, pc, idx, seen, feat, changed,
                 tick_pending_, stop_requested_, decided, lapped, overlapped>>

-----------------------------------------------------------------------------
(* Reading the hub: choose the buffer and copy its head; then its tail.     *)

BeginCopy(t) ==
  /\ pc[t] = "read"
  /\ idx' = [idx EXCEPT ![t] = front]
  /\ seen' = [seen EXCEPT ![t] = buf[front].head]
  /\ Goto(t, "copy")

Copied(t) == [head |-> seen[t], tail |-> buf[idx[t]].tail]

-----------------------------------------------------------------------------
(* A writer.                                                                *)

(* A frame of the WSS or an answer to a REST request holds the book the     *)
(* exchange had when it sent it, and may be parsed much later.  The WSS     *)
(* sends a book once and may lose it.                                       *)
Receive(w) ==
  /\ pc[w] = "idle"
  /\ market # None
  /\ IF w = Io THEN sent # market /\ sent' = market ELSE UNCHANGED sent
  /\ feat' = [feat EXCEPT ![w] = market]
  /\ Goto(w, "read")
  /\ UNCHANGED <<market, buf, front, idx, seen, changed, tick_pending_,
                 stop_requested_, decided, lapped, overlapped>>

(* hub_.Read before the publish.                                            *)
ReadPrev(w) ==
  /\ BeginCopy(w)
  /\ overlapped' = (overlapped \/ \E v \in Writers \ {w} : pc[v] \in Publishing)
  /\ UNCHANGED <<market, sent, buf, front, feat, changed, tick_pending_,
                 stop_requested_, decided, lapped>>

(* book_changed: nothing shown yet, or another content.                     *)
Compare(w) ==
  /\ pc[w] = "copy"
  /\ changed' = [changed EXCEPT ![w] = Content(Copied(w)) # Content(Whole(feat[w]))]
  /\ seen' = [seen EXCEPT ![w] = None]
  /\ Goto(w, "put")
  /\ UNCHANGED <<market, sent, buf, front, idx, feat, tick_pending_,
                 stop_requested_, decided, lapped, overlapped>>

(* OrderBookSnapshotHub::Publish.                                           *)
(* mutant: writes the buffer that is shown *)
PutHeadInPlace(w) ==
  /\ pc[w] = "put"
  /\ idx' = [idx EXCEPT ![w] = front]
  /\ buf' = [buf EXCEPT ![front].head = feat[w]]
  /\ Goto(w, "putTail")
  /\ UNCHANGED <<market, sent, front, seen, feat, changed, tick_pending_,
                 stop_requested_, decided, lapped, overlapped>>

PutHead(w) ==
  /\ pc[w] = "put"
  /\ idx' = [idx EXCEPT ![w] = 1 - front]
  /\ buf' = [buf EXCEPT ![1 - front].head = feat[w]]
  /\ Goto(w, "putTail")
  /\ UNCHANGED <<market, sent, front, seen, feat, changed, tick_pending_,
                 stop_requested_, decided, lapped, overlapped>>

PutTail(w) ==
  /\ pc[w] = "putTail"
  /\ buf' = [buf EXCEPT ![idx[w]].tail = feat[w]]
  /\ Goto(w, "flip")
  /\ UNCHANGED <<market, sent, front, idx, seen, feat, changed, tick_pending_,
                 stop_requested_, decided, lapped, overlapped>>

(* mutant: the index does not wrap around *)
FlipUnwrapped(w) ==
  /\ pc[w] = "flip"
  /\ front' = front + 1
  /\ lapped' = (lapped \/ pc[Loop] = "copy")
  /\ Goto(w, IF changed[w] THEN "notify" ELSE "idle")
  /\ UNCHANGED <<market, sent, buf, idx, feat, changed, seen, tick_pending_,
                 stop_requested_, decided, overlapped>>

Flip(w) ==
  /\ pc[w] = "flip"
  /\ front' = idx[w]
  /\ lapped' = (lapped \/ pc[Loop] = "copy")
  /\ Goto(w, IF changed[w] THEN "notify" ELSE "idle")
  /\ idx' = [idx EXCEPT ![w] = 0]
  /\ changed' = [changed EXCEPT ![w] = FALSE]
  /\ feat' = [feat EXCEPT ![w] = None]
  /\ UNCHANGED <<market, sent, buf, seen, tick_pending_, stop_requested_,
                 decided, overlapped>>

(* on_publish_ -> TradingLoop::RequestTick.                                 *)
RequestTick(w) ==
  /\ pc[w] = "notify"
  /\ tick_pending_' = TRUE
  /\ Goto(w, "idle")
  /\ UNCHANGED <<market, sent, buf, front, idx, seen, feat, changed,
                 stop_requested_, decided, lapped, overlapped>>

-----------------------------------------------------------------------------
(* The loop.                                                                *)

BeginTick ==
  /\ BeginCopy(Loop)
  /\ lapped' = FALSE
  /\ UNCHANGED <<market, sent, buf, front, feat, changed, tick_pending_,
                 stop_requested_, decided, overlapped>>

(* The tick decides on what it has read; then RunLoop takes the lock.       *)
(* mutant: the request is consumed after the tick *)
DecideAndConsume ==
  /\ pc[Loop] = "copy"
  /\ decided' = Copied(Loop)
  /\ seen' = [seen EXCEPT ![Loop] = None]
  /\ idx' = [idx EXCEPT ![Loop] = 0]
  /\ Goto(Loop, "check")
  /\ tick_pending_' = FALSE
  /\ UNCHANGED <<market, sent, buf, front, feat, changed, stop_requested_,
                 lapped, overlapped>>

Decide ==
  /\ pc[Loop] = "copy"
  /\ decided' = Copied(Loop)
  /\ seen' = [seen EXCEPT ![Loop] = None]
  /\ idx' = [idx EXCEPT ![Loop] = 0]
  /\ Goto(Loop, "check")
  /\ UNCHANGED <<market, sent, buf, front, feat, changed, tick_pending_,
                 stop_requested_, lapped, overlapped>>

(* RunLoop leaves wait_for with the lock held: it consumes the request and  *)
(* looks at the stop.                                                       *)
(* mutant: the stop is not looked at *)
LeaveWaitOn ==
  /\ tick_pending_' = FALSE
  /\ lapped' = FALSE
  /\ Goto(Loop, "read")
  /\ UNCHANGED <<market, sent, buf, front, idx, seen, feat, changed,
                 stop_requested_, decided, overlapped>>

LeaveWait ==
  /\ tick_pending_' = FALSE
  /\ lapped' = FALSE
  /\ Goto(Loop, IF stop_requested_ THEN "ended" ELSE "read")
  /\ UNCHANGED <<market, sent, buf, front, idx, seen, feat, changed,
                 stop_requested_, decided, overlapped>>

(* The predicate of wait_for already holds when the loop gets there.        *)
DoNotWait ==
  /\ pc[Loop] = "check"
  /\ tick_pending_ \/ stop_requested_
  /\ LeaveWait

FallAsleep ==
  /\ pc[Loop] = "check"
  /\ ~ tick_pending_ /\ ~ stop_requested_
  /\ lapped' = FALSE
  /\ Goto(Loop, "asleep")
  /\ UNCHANGED <<market, sent, buf, front, idx, seen, feat, changed,
                 tick_pending_, stop_requested_, decided, overlapped>>

(* A notify follows every request.  Stop notifies nobody.                   *)
Woken ==
  /\ pc[Loop] = "asleep"
  /\ tick_pending_
  /\ LeaveWait

(* tick_interval_ms has passed.                                             *)
(* mutant: only a request wakes the loop *)
NoHeartbeat ==
  /\ pc[Loop] = "asleep"
  /\ tick_pending_
  /\ LeaveWait

Heartbeat ==
  /\ pc[Loop] = "asleep"
  /\ LeaveWait

(* TraderDaemon::Shutdown: a poller sees the request to stop between two    *)
(* requests; once all are joined comes TradingLoop::Stop.  The transport is *)
(* closed after that.                                                       *)
PollerEnds(w) ==
  /\ w \in Pollers /\ pc[w] = "idle"
  /\ Goto(w, "ended")
  /\ UNCHANGED <<market, sent, buf, front, idx, seen, feat, changed,
                 tick_pending_, stop_requested_, decided, lapped, overlapped>>

PollersJoined == \A w \in Pollers : pc[w] = "ended"

Stop ==
  /\ PollersJoined /\ ~ stop_requested_
  /\ stop_requested_' = TRUE
  /\ UNCHANGED <<market, sent, buf, front, pc, idx, seen, feat, changed,
                 tick_pending_, decided, lapped, overlapped>>

-----------------------------------------------------------------------------
Publish(w) == PutHead(w) \/ PutTail(w) \/ Flip(w)
ParseObject(w) == ReadPrev(w) \/ Compare(w) \/ Publish(w) \/ RequestTick(w)
TickAll == BeginTick \/ Decide
RunLoop == TickAll \/ DoNotWait \/ FallAsleep \/ Woken \/ Heartbeat

Next ==
  \/ MarketMoves \/ RunLoop \/ Stop
  \/ \E w \in Writers : Receive(w) \/ ParseObject(w) \/ PollerEnds(w)

Spec == Init /\ [][Next]_vars

(* The threads run, the pollers go on asking, a shutdown proceeds.  Nothing *)
(* is assumed of the exchange and of the WSS, which may lose every frame,   *)
(* and nobody has to shut down.                                             *)
FairSpec ==
  /\ Spec
  /\ WF_vars(RunLoop) /\ WF_vars(Stop)
  /\ WF_vars(ParseObject(Io))
  /\ \A w \in Pollers : WF_vars(Receive(w) \/ ParseObject(w))

-----------------------------------------------------------------------------
(* Properties.                                                              *)

(* Slots, indices and program counters keep their shape; a slot holds       *)
(* pieces of books the exchange had, and nothing else.                      *)
TypeOK ==
  /\ market \in Frames \cup {None} /\ sent \in Frames \cup {None}
  /\ buf \in [{0, 1} -> Books]
  /\ front \in {0, 1}
  /\ pc \in [Threads -> Publishing \cup {"idle", "read", "notify", "check", "asleep",
                                           "ended"}]
  /\ idx \in [Threads -> {0, 1}]
  /\ seen \in [Threads -> Frames \cup {None}]
  /\ feat \in [Writers -> Frames \cup {None}]
  /\ changed \in [Writers -> BOOLEAN]
  /\ tick_pending_ \in BOOLEAN /\ stop_requested_ \in BOOLEAN
  /\ decided \in Books
  /\ lapped \in BOOLEAN
  /\ overlapped \in BOOLEAN

WillNotify(w) == changed[w] \/ pc[w] = "notify"

(* The loop has decided on what is shown now, or the tick under way will.   *)
LoopSees ==
  \/ pc[Loop] = "read"
  \/ pc[Loop] = "copy" /\ Content(Copied(Loop)) = Shown
  \/ pc[Loop] \notin {"read", "copy"} /\ Content(decided) = Shown

(* Whatever book the hub shows, the loop has decided on it, is about to, or *)
(* will be woken for it.                                                    *)
NoChangeMissed ==
  pc[Loop] = "ended" \/ LoopSees \/ tick_pending_ \/ \E w \in Writers : WillNotify(w)

(* As long as no two threads were between reading the shown book and        *)
(* publishing theirs at once, no change is missed: the comparison with the  *)
(* shown book and the request consumed before the tick suffice, without     *)
(* the heartbeat.                                                           *)
NoChangeMissedAlone == overlapped \/ NoChangeMissed

(* The loop decides on a mix of two books only if a publish was completed   *)
(* while it copied, or two publishes overlapped: the double buffer takes    *)
(* one slow writer, and no more.                                            *)
WholeUnlessLapped ==
  pc[Loop] = "check" => (~ Torn(decided) \/ lapped \/ overlapped)

(* Once the exchange's book stops moving, the loop comes to decide on it    *)
(* and stays there, whatever was lost, overtaken or torn before: pollers    *)
(* and the heartbeat make up for it.                                        *)
CatchesUp ==
  <>[](Content(decided) = Content(Whole(market)) \/ \E w \in Pollers : pc[w] = "ended")

(* A shutdown gets the loop to end, although nothing notifies the loop of   *)
(* the stop.                                                                *)
ShutdownEnds == PollersJoined ~> pc[Loop] = "ended"

=============================================================================
