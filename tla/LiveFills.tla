------------------------------ MODULE LiveFills ------------------------------
(***************************************************************************)
(* How the live trading loop keeps its ledger in step with the trades its  *)
(* orders cause on the exchange.                                           *)
(*                                                                         *)
(* Loop thread: TickAll first drains the user-fill queue (DrainUserFills), *)
(* then decides.  An order is posted synchronously; the loop waits for the *)
(* answer, at most three seconds.  A "matched" answer is booked at once    *)
(* and the order id is remembered as synced.  Any other answer, a delayed  *)
(* match, a refusal or a time-out, books nothing and cools the token down. *)
(* io thread: every CONFIRMED trade pushed on the user channel is          *)
(* deduplicated by trade id and queued for the loop, which books it unless *)
(* the order it belongs to is remembered as synced.                        *)
(* The process may be restarted: its memory is gone, the ledger is seeded  *)
(* from the positions the chain reports, and the channel connects again.   *)
(*                                                                         *)
(* The exchange is external.  One token is modelled, one share per trade.  *)
(***************************************************************************)
EXTENDS Integers, Sequences, FiniteSets

CONSTANTS
  Orders,          \* orders the loop may post
  Sells,           \* the ones that sell
  TradesPerOrder,  \* bound: trades one order can be matched as
  TradesMayFail,   \* whether a matched trade can fail on chain
  MaxPushes,       \* bound: CONFIRMED pushes of one trade
  MaxRestarts,     \* bound: restarts of the process
  ChannelMayDie,   \* whether the user channel can break
  kMaxQueue,       \* capacity of the user-fill queue
  kSeenCap,        \* trade ids the feed remembers
  kOrderIdMemoryCap, \* order ids the loop remembers as synced
  NoOrder

ASSUME LiveFillsAssumption ==
  /\ IsFiniteSet(Orders) /\ Sells \subseteq Orders /\ NoOrder \notin Orders
  /\ TradesPerOrder \in Nat \ {0} /\ MaxPushes \in Nat /\ MaxRestarts \in Nat
  /\ TradesMayFail \in BOOLEAN /\ ChannelMayDie \in BOOLEAN
  /\ kMaxQueue \in Nat \ {0} /\ kSeenCap \in Nat \ {0} /\ kOrderIdMemoryCap \in Nat \ {0}

VARIABLES
  order,     \* exchange: state of each order
  trade,     \* exchange: state of each trade
  pushes,    \* exchange: CONFIRMED pushes of a trade on the wire
  sent,      \* exchange: CONFIRMED pushes of a trade so far
  link,      \* the user channel of this process
  queue_,    \* LiveUserFillFeed: trades waiting for the loop
  seen_,     \* LiveUserFillFeed: trade ids remembered, oldest first
  pc,        \* where the loop thread is
  posted,    \* the order the loop is waiting for
  held,      \* PositionLedger: net shares of the token
  synced_order_ids_, \* TradingLoop: order ids remembered, oldest first
  cooling,   \* hard_reject_until_ns_ of the token lies in the future
  restarts,
  times,     \* history: how often the ledger counts a trade
  lost,      \* history: trades with a push that had no receiver
  evicted    \* history: order ids forgotten because the memory was full

exchange == <<order, trade, pushes, sent>>
feed == <<queue_, seen_>>
loop == <<pc, posted, held, synced_order_ids_, cooling, times, evicted>>
vars == <<exchange, link, feed, loop, restarts, lost>>

Trade == Orders \X (1..TradesPerOrder)
SellTrade == {t \in Trade : t[1] \in Sells}
Executed == {t \in Trade : trade[t] # "none"}
Confirmed == {t \in Trade : trade[t] = "confirmed"}
Booked == {t \in Trade : times[t] > 0}

Net(T) == Cardinality(T \ SellTrade) - Cardinality(T \cap SellTrade)
InSeq(x, s) == \E i \in DOMAIN s : s[i] = x

(* mutant: the memory forgets nothing *)
RememberUnbounded(memory, id, cap) ==
  IF InSeq(id, memory) THEN memory ELSE Append(memory, id)

(* A bounded first-in first-out memory of ids.                              *)
Remember(memory, id, cap) ==
  IF InSeq(id, memory) THEN memory
  ELSE IF Len(memory) < cap THEN Append(memory, id)
  ELSE Append(Tail(memory), id)

Forgotten(memory, id, cap) ==
  IF InSeq(id, memory) \/ Len(memory) < cap THEN {} ELSE {Head(memory)}

-----------------------------------------------------------------------------
(* The exchange.                                                            *)

(* FOK: the whole order is matched at once, as one or several trades, while *)
(* its answer is on the way, after it or without one.                       *)
Match(o, n) ==
  /\ order[o] = "posted"
  /\ o \in Sells => Net({t \in Executed : trade[t] # "failed"}) >= n
  /\ order' = [order EXCEPT ![o] = "matched"]
  /\ trade' = [t \in Trade |-> IF t[1] = o /\ t[2] <= n THEN "matched" ELSE trade[t]]
  /\ UNCHANGED <<pushes, sent, link, feed, loop, restarts, lost>>

Kill(o) ==
  /\ order[o] = "posted"
  /\ order' = [order EXCEPT ![o] = "dead"]
  /\ UNCHANGED <<trade, pushes, sent, link, feed, loop, restarts, lost>>

Fail(t) ==
  /\ TradesMayFail /\ trade[t] = "matched"
  /\ trade' = [trade EXCEPT ![t] = "failed"]
  /\ UNCHANGED <<order, pushes, sent, link, feed, loop, restarts, lost>>

(* A CONFIRMED push reaches the wire when the channel is up; nobody hears   *)
(* it otherwise.                                                            *)
Push(t) ==
  /\ sent' = [sent EXCEPT ![t] = @ + 1]
  /\ IF link = "up"
     THEN pushes' = [pushes EXCEPT ![t] = @ + 1] /\ UNCHANGED lost
     ELSE lost' = lost \cup {t} /\ UNCHANGED pushes

Confirm(t) ==
  /\ trade[t] = "matched"
  /\ trade' = [trade EXCEPT ![t] = "confirmed"]
  /\ Push(t)
  /\ UNCHANGED <<order, link, feed, loop, restarts>>

(* The same trade is pushed several times.                                  *)
PushAgain(t) ==
  /\ trade[t] = "confirmed" /\ link = "up" /\ sent[t] < MaxPushes
  /\ Push(t)
  /\ UNCHANGED <<order, trade, link, feed, loop, restarts>>

-----------------------------------------------------------------------------
(* The io thread of LiveUserFillFeed.                                       *)

(* OnFrame with a CONFIRMED trade; every other frame changes nothing.  The  *)
(* id is remembered before the queue is tried.                              *)
OnFrame(t) ==
  /\ link = "up" /\ pushes[t] > 0
  /\ pushes' = [pushes EXCEPT ![t] = @ - 1]
  /\ IF InSeq(t, seen_)
     THEN UNCHANGED <<feed, lost>>
     ELSE /\ seen_' = Remember(seen_, t, kSeenCap)
          /\ IF Len(queue_) < kMaxQueue
             THEN queue_' = Append(queue_, t) /\ UNCHANGED lost
             ELSE lost' = lost \cup {t} /\ UNCHANGED queue_
  /\ UNCHANGED <<order, trade, sent, link, loop, restarts>>

InFlight == {t \in Trade : pushes[t] > 0}

(* The channel breaks.  The watchdog only reports it.                       *)
Disconnect ==
  /\ ChannelMayDie /\ link = "up"
  /\ link' = "down"
  /\ pushes' = [t \in Trade |-> 0]
  /\ lost' = lost \cup InFlight
  /\ UNCHANGED <<order, trade, sent, feed, loop, restarts>>

-----------------------------------------------------------------------------
(* The loop thread.                                                         *)

(* mutant: a fill is booked without asking whether its order is synced *)
DrainUserFillsUnchecked ==
  /\ pc = "drain" /\ queue_ # <<>>
  /\ queue_' = Tail(queue_)
  /\ LET t == Head(queue_)
     IN  /\ times' = [times EXCEPT ![t] = @ + 1]
         /\ held' = held + Net({t})
         /\ synced_order_ids_' = Remember(synced_order_ids_, t[1], kOrderIdMemoryCap)
  /\ UNCHANGED <<exchange, link, seen_, pc, posted, cooling, restarts, lost, evicted>>

(* mutant: a fill of a synced order is not taken off the queue *)
DrainUserFillsStuck ==
  /\ pc = "drain" /\ queue_ # <<>>
  /\ LET t == Head(queue_)
     IN  /\ ~InSeq(t[1], synced_order_ids_)
         /\ queue_' = Tail(queue_)
         /\ times' = [times EXCEPT ![t] = @ + 1]
         /\ held' = held + Net({t})
         /\ synced_order_ids_' = Remember(synced_order_ids_, t[1], kOrderIdMemoryCap)
  /\ UNCHANGED <<exchange, link, seen_, pc, posted, cooling, restarts, lost, evicted>>

(* One round of DrainUserFills: the fill of a synced order is only logged;  *)
(* any other is booked (RecoverMissedFill) and its order becomes synced.    *)
DrainUserFills ==
  /\ pc = "drain" /\ queue_ # <<>>
  /\ queue_' = Tail(queue_)
  /\ LET t == Head(queue_)
     IN  IF InSeq(t[1], synced_order_ids_)
         THEN UNCHANGED <<times, held, synced_order_ids_, evicted>>
         ELSE /\ times' = [times EXCEPT ![t] = @ + 1]
              /\ held' = held + Net({t})
              /\ synced_order_ids_' = Remember(synced_order_ids_, t[1], kOrderIdMemoryCap)
              /\ evicted' = evicted \cup Forgotten(synced_order_ids_, t[1], kOrderIdMemoryCap)
  /\ UNCHANGED <<exchange, link, seen_, pc, posted, cooling, restarts, lost>>

EndDrain ==
  /\ pc = "drain" /\ queue_ = <<>>
  /\ pc' = "decide"
  /\ UNCHANGED <<exchange, link, feed, posted, held, synced_order_ids_, cooling,
                 restarts, times, lost, evicted>>

(* A token that is held may be sold, even more of it than is held.          *)
PostOrder(o) ==
  /\ pc = "decide" /\ ~cooling
  /\ order[o] = "new"
  /\ o \in Sells => held > 0
  /\ order' = [order EXCEPT ![o] = "posted"]
  /\ pc' = "posting" /\ posted' = o
  /\ UNCHANGED <<trade, pushes, sent, link, feed, held, synced_order_ids_, cooling,
                 restarts, times, lost, evicted>>

NoOrderThisTick ==
  /\ pc = "decide"
  /\ pc' = "drain"
  /\ UNCHANGED <<exchange, link, feed, posted, held, synced_order_ids_, cooling,
                 restarts, times, lost, evicted>>

TradesOf(o) == {t \in Executed : t[1] = o}

(* status "matched": the answer's amounts cover every trade of the order.   *)
AnswerMatched(o) ==
  /\ pc = "posting" /\ posted = o /\ order[o] = "matched"
  /\ times' = [t \in Trade |-> IF t \in TradesOf(o) THEN times[t] + 1 ELSE times[t]]
  /\ held' = held + Net(TradesOf(o))
  /\ synced_order_ids_' = Remember(synced_order_ids_, o, kOrderIdMemoryCap)
  /\ evicted' = evicted \cup Forgotten(synced_order_ids_, o, kOrderIdMemoryCap)
  /\ cooling' = FALSE
  /\ pc' = "drain" /\ posted' = NoOrder
  /\ UNCHANGED <<exchange, link, feed, restarts, lost>>

(* mutant: an order that was not booked is remembered as synced *)
AnswerWithoutFillSynced(o) ==
  /\ pc = "posting" /\ posted = o
  /\ synced_order_ids_' = Remember(synced_order_ids_, o, kOrderIdMemoryCap)
  /\ cooling' = TRUE
  /\ pc' = "drain" /\ posted' = NoOrder
  /\ UNCHANGED <<exchange, link, feed, held, restarts, times, lost, evicted>>

(* "delayed", "unmatched", a refusal, or no answer in time: the order may   *)
(* be dead, matched already, or be matched later.                           *)
AnswerWithoutFill(o) ==
  /\ pc = "posting" /\ posted = o
  /\ cooling' = TRUE
  /\ pc' = "drain" /\ posted' = NoOrder
  /\ UNCHANGED <<exchange, link, feed, held, synced_order_ids_, restarts, times, lost, evicted>>

(* The cooldown runs out, whatever became of the order.                     *)
CooldownEnds ==
  /\ cooling /\ cooling' = FALSE
  /\ UNCHANGED <<exchange, link, feed, pc, posted, held, synced_order_ids_,
                 restarts, times, lost, evicted>>

-----------------------------------------------------------------------------
(* Restart.                                                                 *)

(* The process stops: queue, ids and ledger are gone.                       *)
Restart ==
  /\ restarts < MaxRestarts
  /\ restarts' = restarts + 1
  /\ link' = "connecting" /\ pc' = "seeding" /\ posted' = NoOrder
  /\ queue_' = <<>> /\ seen_' = <<>>
  /\ held' = 0 /\ synced_order_ids_' = <<>> /\ cooling' = FALSE
  /\ times' = [t \in Trade |-> 0]
  /\ pushes' = [t \in Trade |-> 0]
  /\ lost' = lost \cup InFlight
  /\ UNCHANGED <<order, trade, sent, evicted>>

(* SeedLivePositionsFromOnchain: the positions the chain reports show every *)
(* confirmed trade and possibly matched ones.                               *)
SeedLivePositionsFromOnchain(T) ==
  /\ pc = "seeding"
  /\ Confirmed \subseteq T
  /\ \A t \in T : trade[t] \in {"matched", "confirmed"}
  /\ Net(T) >= 0
  /\ times' = [t \in Trade |-> IF t \in T THEN 1 ELSE 0]
  /\ held' = Net(T)
  /\ pc' = "drain"
  /\ UNCHANGED <<exchange, link, feed, posted, synced_order_ids_, cooling,
                 restarts, lost, evicted>>

(* Three reads fail: the loop starts with an empty ledger.                  *)
SeedFails ==
  /\ pc = "seeding"
  /\ lost' = lost \cup Confirmed
  /\ pc' = "drain"
  /\ UNCHANGED <<exchange, link, feed, posted, held, synced_order_ids_, cooling,
                 restarts, times, evicted>>

(* Start connects the user channel once per process, after the seed.        *)
OnConnected ==
  /\ link = "connecting" /\ pc # "seeding"
  /\ link' = "up"
  /\ UNCHANGED <<exchange, feed, loop, restarts, lost>>

-----------------------------------------------------------------------------
Init ==
  /\ order = [o \in Orders |-> "new"]
  /\ trade = [t \in Trade |-> "none"]
  /\ pushes = [t \in Trade |-> 0] /\ sent = [t \in Trade |-> 0]
  /\ link = "up"
  /\ queue_ = <<>> /\ seen_ = <<>>
  /\ pc = "drain" /\ posted = NoOrder
  /\ held = 0 /\ synced_order_ids_ = <<>> /\ cooling = FALSE
  /\ restarts = 0
  /\ times = [t \in Trade |-> 0] /\ lost = {} /\ evicted = {}

ExchangeStep ==
  \/ \E o \in Orders : (\E n \in 1..TradesPerOrder : Match(o, n)) \/ Kill(o)
  \/ \E t \in Trade : Fail(t) \/ Confirm(t) \/ PushAgain(t)

IoStep == \E t \in Trade : OnFrame(t)

Answer == \E o \in Orders : AnswerMatched(o) \/ AnswerWithoutFill(o)

LoopStep ==
  \/ DrainUserFills
  \/ EndDrain
  \/ NoOrderThisTick
  \/ Answer
  \/ \E o \in Orders : PostOrder(o)

Seed == SeedFails \/ \E T \in SUBSET Trade : SeedLivePositionsFromOnchain(T)

Next ==
  \/ ExchangeStep \/ IoStep \/ LoopStep \/ Restart \/ Seed
  \/ Disconnect \/ OnConnected \/ CooldownEnds

Spec == Init /\ [][Next]_vars

(* The loop ticks for ever (its heart beat needs no event), a request is    *)
(* answered or timed out, the io thread reads what has arrived, and a start *)
(* gets past the seed (three reads, each with a time-out).                  *)
Fairness == WF_vars(LoopStep) /\ WF_vars(IoStep) /\ WF_vars(Seed)
FairSpec == Spec /\ Fairness

-----------------------------------------------------------------------------
(* Properties.                                                              *)

(* The state keeps its shape, and the queue and both memories of ids keep   *)
(* their caps.                                                              *)
TypeOK ==
  /\ order \in [Orders -> {"new", "posted", "matched", "dead"}]
  /\ trade \in [Trade -> {"none", "matched", "confirmed", "failed"}]
  /\ pushes \in [Trade -> Nat] /\ sent \in [Trade -> Nat]
  /\ link \in {"connecting", "up", "down"}
  /\ queue_ \in Seq(Trade) /\ seen_ \in Seq(Trade)
  /\ pc \in {"drain", "decide", "posting", "seeding"}
  /\ posted \in Orders \cup {NoOrder}
  /\ held \in Int /\ cooling \in BOOLEAN /\ restarts \in Nat
  /\ synced_order_ids_ \in Seq(Orders)
  /\ times \in [Trade -> Nat]
  /\ lost \subseteq Trade /\ evicted \subseteq Orders
  /\ Len(queue_) <= kMaxQueue /\ Len(seen_) <= kSeenCap
  /\ Len(synced_order_ids_) <= kOrderIdMemoryCap

InLedger(o) == \E t \in Booked : t[1] = o

(* A trade that is confirmed on chain and not in the ledger is still on its *)
(* way to it, on the wire or in the queue, or its push had no receiver, or  *)
(* its order was recovered from another of its trades: the drain remembers  *)
(* orders, and books one trade of an order the answer did not tell of.      *)
(* Neither the deduplication by trade id nor the one by order id may        *)
(* swallow the whole of an order.                                           *)
NoTradeLost ==
  pc # "seeding" =>
    \A t \in Confirmed \ Booked :
      t \in lost \/ pushes[t] > 0 \/ InSeq(t, queue_) \/ InLedger(t[1])

(* Within one process, and as long as no order id was forgotten, the answer *)
(* to an order and the pushes of its trades, in any order and any number,   *)
(* never count a trade twice.                                               *)
BookedAtMostOnce ==
  restarts = 0 /\ evicted = {} => \A t \in Trade : times[t] <= 1

(* Every order with a confirmed trade is in the ledger in the end, by that  *)
(* trade or by another, unless the push had no receiver.                    *)
EventuallyBooked ==
  \A t \in Trade : trade[t] = "confirmed" ~> InLedger(t[1]) \/ t \in lost

(* The ledger of the first process implements the book of executed trades,  *)
(* as long as no order id was forgotten (a restart seeds the next one from  *)
(* the chain, see SeedNeverDoubles).                                        *)
Chain == INSTANCE ChainBook
           WITH executed <- Executed, book <- Booked, position <- held
ImplementsChainBook ==
  /\ Chain!BookInit
  /\ [][restarts' = 0 /\ evicted = {} => Chain!BookNext]_(Chain!bookVars)

(* RecoverMissedFill: with the deduplication by trade id and by order id a  *)
(* trade is counted twice only if the ids of the two sources differ in      *)
(* format (here they never do), and the seed at start-up heals it.          *)
SeedNeverDoubles == \A t \in Trade : times[t] <= 1
=============================================================================
