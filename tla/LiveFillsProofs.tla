-------------------------- MODULE LiveFillsProofs --------------------------
(***************************************************************************)
(* Proofs about LiveFills, for any set of orders, any queue and memory     *)
(* sizes, any number of pushes, restarts and failures of the channel.      *)
(*                                                                         *)
(* Once: why nothing is counted twice.  A counted trade belongs to an      *)
(* order that is remembered as synced, so no push of it is booked again;   *)
(* and an order whose answer is awaited has no counted trade, because      *)
(* nothing is drained meanwhile.                                           *)
(* Complete: why nothing is lost when an order is one trade.  A trade id   *)
(* the feed remembers is queued or accounted for, and an order id the loop *)
(* remembers as synced is one whose trade is counted.                      *)
(*                                                                         *)
(* The further sections are about the rest of Deliveries: the threads of a *)
(* connection (WssTransport), the channels of the subscriber               *)
(* (ClobSubscriber), the files that what was booked is written to          *)
(* (Journal), and the whole.                                               *)
(***************************************************************************)
EXTENDS Deliveries, SumTheorems

(* What is on the wire, in the queue or in the ledger was executed.         *)
KnownIsExecuted ==
  \A t \in Trade : pushes[t] > 0 \/ InSeq(t, queue_) \/ times[t] > 0 => trade[t] # "none"

(* An order has trades exactly when it was matched.                         *)
TradesOfMatched ==
  /\ \A t \in Trade : order[t[1]] # "matched" => trade[t] = "none"
  /\ \A o \in Orders : order[o] = "matched" => trade[<<o, 1>>] # "none"

SeedingIsFresh ==
  pc = "seeding" => link = "connecting" /\ queue_ = <<>> /\ seen_ = <<>> /\ synced_order_ids_ = <<>>
                    /\ restarts > 0

(* Nothing of the order the loop waits for is in the ledger yet.            *)
AwaitedIsUncounted ==
  pc = "posting" => /\ posted \in Orders /\ order[posted] # "new"
                    /\ \A t \in Trade : t[1] = posted => times[t] = 0

CountedIsSynced ==
  restarts = 0 /\ evicted = {} =>
    \A t \in Trade : times[t] <= 1 /\ (times[t] > 0 => InSeq(t[1], synced_order_ids_))

Once ==
  /\ TypeOK /\ KnownIsExecuted /\ TradesOfMatched
  /\ SeedingIsFresh /\ AwaitedIsUncounted /\ CountedIsSynced

SeenIsAccounted ==
  \A t \in Trade : InSeq(t, seen_) => InLedger(t[1]) \/ t \in lost \/ InSeq(t, queue_)

SyncedIsCounted ==
  \A o \in Orders : InSeq(o, synced_order_ids_) => InLedger(o)

(* NoTradeLost, said of what is in the ledger as well.                      *)
OnItsWay ==
  pc # "seeding" =>
    \A t \in Trade : trade[t] = "confirmed" =>
      t \in lost \/ pushes[t] > 0 \/ InSeq(t, queue_) \/ InLedger(t[1])

Complete == Once /\ SeenIsAccounted /\ SyncedIsCounted /\ OnItsWay

-----------------------------------------------------------------------------
(* Sequences.                                                               *)

(* What an appended sequence holds.                                         *)
LEMMA InAppend ==
  ASSUME NEW S, NEW s \in Seq(S), NEW x \in S, NEW y
  PROVE  InSeq(y, Append(s, x)) <=> InSeq(y, s) \/ y = x
  <1>1. /\ Len(Append(s, x)) = Len(s) + 1
        /\ \A i \in 1..Len(s) : Append(s, x)[i] = s[i]
        /\ Append(s, x)[Len(s) + 1] = x
        OBVIOUS
  <1>2. DOMAIN s = 1..Len(s) /\ DOMAIN Append(s, x) = 1..(Len(s) + 1) /\ Len(s) \in Nat
        OBVIOUS
  <1> QED BY <1>1, <1>2 DEF InSeq

(* What is left of a sequence without its head.                             *)
LEMMA InTail ==
  ASSUME NEW S, NEW s \in Seq(S), s # <<>>, NEW y
  PROVE  /\ Tail(s) \in Seq(S) /\ Head(s) \in S
         /\ InSeq(Head(s), s)
         /\ InSeq(y, s) <=> y = Head(s) \/ InSeq(y, Tail(s))
  <1>1. /\ Len(s) \in Nat \ {0} /\ DOMAIN s = 1..Len(s) /\ Head(s) = s[1]
        /\ Tail(s) \in Seq(S) /\ Len(Tail(s)) = Len(s) - 1
        /\ DOMAIN Tail(s) = 1..(Len(s) - 1)
        /\ \A i \in 1..(Len(s) - 1) : Tail(s)[i] = s[i + 1]
        OBVIOUS
  <1>2. InSeq(y, s) => y = Head(s) \/ InSeq(y, Tail(s))
        <2> SUFFICES ASSUME NEW i \in 1..Len(s), s[i] = y, i # 1
                     PROVE  InSeq(y, Tail(s))
            BY <1>1 DEF InSeq
        <2>1. i - 1 \in 1..(Len(s) - 1) /\ Tail(s)[i - 1] = y
              BY <1>1
        <2> QED BY <1>1, <2>1 DEF InSeq
  <1>3. InSeq(y, Tail(s)) => InSeq(y, s)
        <2> SUFFICES ASSUME NEW i \in 1..(Len(s) - 1), Tail(s)[i] = y
                     PROVE  InSeq(y, s)
            BY <1>1 DEF InSeq
        <2>1. i + 1 \in 1..Len(s) /\ s[i + 1] = y
              BY <1>1
        <2> QED BY <1>1, <2>1 DEF InSeq
  <1>4. InSeq(Head(s), s)
        BY <1>1 DEF InSeq
  <1> QED BY <1>1, <1>2, <1>3, <1>4

(* A bounded memory holds the new id, nothing unknown, and all it did not   *)
(* have to forget.                                                          *)
LEMMA RememberHolds ==
  ASSUME NEW S, NEW memory \in Seq(S), NEW id \in S, NEW cap \in Nat \ {0}
  PROVE  /\ Remember(memory, id, cap) \in Seq(S)
         /\ InSeq(id, Remember(memory, id, cap))
         /\ \A y : InSeq(y, Remember(memory, id, cap)) => InSeq(y, memory) \/ y = id
         /\ Forgotten(memory, id, cap) = {} =>
              \A y : InSeq(y, memory) => InSeq(y, Remember(memory, id, cap))
         /\ Forgotten(memory, id, cap) \subseteq S
         /\ Len(memory) <= cap => Len(Remember(memory, id, cap)) <= cap
  <1>1. CASE InSeq(id, memory)
        BY <1>1 DEF Remember, Forgotten
  <1>2. CASE ~InSeq(id, memory) /\ Len(memory) < cap
        <2>1. Append(memory, id) \in Seq(S) /\ Len(Append(memory, id)) = Len(memory) + 1
              OBVIOUS
        <2> QED BY <1>2, <2>1, InAppend DEF Remember, Forgotten
  <1>3. CASE ~InSeq(id, memory) /\ ~(Len(memory) < cap)
        <2>1. memory # <<>>
              BY <1>3
        <2>2. Tail(memory) \in Seq(S) /\ Head(memory) \in S
              BY <2>1, InTail
        <2>3. /\ Append(Tail(memory), id) \in Seq(S)
              /\ Len(Append(Tail(memory), id)) = Len(memory)
              BY <2>1, <2>2
        <2>4. \A y : InSeq(y, Append(Tail(memory), id)) <=> InSeq(y, Tail(memory)) \/ y = id
              BY <2>2, InAppend
        <2>5. \A y : InSeq(y, Tail(memory)) => InSeq(y, memory)
              BY <2>1, InTail
        <2> QED BY <1>3, <2>2, <2>3, <2>4, <2>5 DEF Remember, Forgotten
  <1> QED BY <1>1, <1>2, <1>3

-----------------------------------------------------------------------------
(* Every step keeps Once.                                                   *)

(* What a trade id is made of.                                             *)
LEMMA TradeParts ==
  /\ \A t \in Trade : t[1] \in Orders
  /\ \A o \in Orders : <<o, 1>> \in Trade
  BY LiveFillsAssumption DEF Trade

(* The signed size of a set of trades is an integer.                        *)
LEMMA NetIsInt ==
  ASSUME NEW T \in SUBSET Trade
  PROVE  Net(T) \in Int
  <1>1. IsFiniteSet(1..TradesPerOrder)
        BY FS_Interval, LiveFillsAssumption
  <1>2. IsFiniteSet(Trade)
        BY <1>1, FS_Product, LiveFillsAssumption DEF Trade
  <1>3. IsFiniteSet(T \ SellTrade) /\ IsFiniteSet(T \cap SellTrade)
        BY <1>2, FS_Subset
  <1> QED BY <1>3, FS_CardinalityType DEF Net

(* A fresh process with an idle exchange has counted nothing.              *)
LEMMA InitOnce == Init => Once
  <1> SUFFICES ASSUME Init PROVE Once
      OBVIOUS
  <1>1. TypeOK
        <2>1. <<>> \in Seq(Trade) /\ <<>> \in Seq(Orders)
              OBVIOUS
        <2>2. /\ order \in [Orders -> {"new", "posted", "matched", "dead"}]
              /\ trade \in [Trade -> {"none", "matched", "confirmed", "failed"}]
              /\ pushes \in [Trade -> Nat] /\ sent \in [Trade -> Nat] /\ times \in [Trade -> Nat]
              BY DEF Init
        <2>3. queue_ \in Seq(Trade) /\ seen_ \in Seq(Trade) /\ synced_order_ids_ \in Seq(Orders)
              BY <2>1 DEF Init
        <2>4. /\ link \in {"connecting", "up", "down"}
              /\ pc \in {"drain", "decide", "posting", "seeding"}
              /\ posted \in Orders \cup {NoOrder}
              /\ held \in Int /\ restarts \in Nat
              /\ lost \subseteq Trade /\ evicted \subseteq Orders
              BY DEF Init
        <2>5. cooling \in BOOLEAN
              BY Zenon DEF Init
        <2>6. /\ Len(queue_) <= kMaxQueue /\ Len(seen_) <= kSeenCap
              /\ Len(synced_order_ids_) <= kOrderIdMemoryCap
              BY LiveFillsAssumption DEF Init
        <2> QED BY <2>2, <2>3, <2>4, <2>5, <2>6 DEF TypeOK
  <1>2. KnownIsExecuted /\ TradesOfMatched /\ SeedingIsFresh /\ AwaitedIsUncounted
        BY TradeParts DEF Init, KnownIsExecuted, TradesOfMatched, SeedingIsFresh,
           AwaitedIsUncounted, InSeq
  <1>3. CountedIsSynced
        BY DEF Init, CountedIsSynced
  <1> QED BY <1>1, <1>2, <1>3 DEF Once

(* Answers, pushes, drains, evictions and restarts all keep Once.          *)
LEMMA NextOnce == Once /\ [Next]_vars => Once'
  <1> SUFFICES ASSUME Once, [Next]_vars PROVE Once'
      OBVIOUS
  <1> USE TradeParts DEF Once, exchange, feed, loop
  <1>1. ASSUME NEW o \in Orders, NEW n \in 1..TradesPerOrder, Match(o, n)
        PROVE  Once'
        <2>1. TypeOK'
              BY <1>1 DEF Match, TypeOK
        <2>2. KnownIsExecuted'
              BY <1>1 DEF Match, TypeOK, KnownIsExecuted
        <2>3. TradesOfMatched'
              BY <1>1 DEF Match, TypeOK, TradesOfMatched
        <2>4. SeedingIsFresh' /\ AwaitedIsUncounted' /\ CountedIsSynced'
              BY <1>1 DEF Match, TypeOK, SeedingIsFresh, AwaitedIsUncounted, CountedIsSynced
        <2> QED BY <2>1, <2>2, <2>3, <2>4
  <1>2. ASSUME NEW o \in Orders, Kill(o)
        PROVE  Once'
        BY <1>2, ZenonT(60) DEF Kill, TypeOK, KnownIsExecuted, TradesOfMatched, SeedingIsFresh,
           AwaitedIsUncounted, CountedIsSynced
  <1>3. ASSUME NEW t \in Trade, Fail(t)
        PROVE  Once'
        BY <1>3, ZenonT(60) DEF Fail, TypeOK, KnownIsExecuted, TradesOfMatched, SeedingIsFresh,
           AwaitedIsUncounted, CountedIsSynced
  <1>4. ASSUME NEW t \in Trade, Confirm(t) \/ PushAgain(t)
        PROVE  Once'
        <2>1. TypeOK'
              <3>1. /\ pushes \in [Trade -> Nat] /\ sent \in [Trade -> Nat]
                    /\ sent' = [sent EXCEPT ![t] = @ + 1]
                    /\ \/ pushes' = [pushes EXCEPT ![t] = @ + 1] /\ lost' = lost
                       \/ pushes' = pushes /\ lost' = lost \cup {t}
                    BY <1>4 DEF Confirm, PushAgain, Push, TypeOK
              <3>2. pushes[t] + 1 \in Nat /\ sent[t] + 1 \in Nat
                    BY <3>1
              <3>3. pushes' \in [Trade -> Nat] /\ sent' \in [Trade -> Nat]
                    BY <3>1, <3>2
              <3>4. lost' \subseteq Trade
                    BY <3>1 DEF TypeOK
              <3>5. trade' \in [Trade -> {"none", "matched", "confirmed", "failed"}]
                    BY <1>4 DEF Confirm, PushAgain, TypeOK
              <3>6. UNCHANGED <<order, link, feed, loop, restarts>>
                    BY <1>4 DEF Confirm, PushAgain
              <3> QED BY <3>3, <3>4, <3>5, <3>6 DEF TypeOK
        <2>2. /\ trade[t] # "none"
              /\ \A u \in Trade : trade'[u] = "none" <=> trade[u] = "none"
              /\ \A u \in Trade : u # t => pushes'[u] = pushes[u]
              /\ UNCHANGED <<order, link, feed, loop, restarts>>
              BY <1>4 DEF Confirm, PushAgain, Push, TypeOK
        <2>3. KnownIsExecuted'
              BY <2>2 DEF KnownIsExecuted
        <2>4. TradesOfMatched' /\ SeedingIsFresh' /\ AwaitedIsUncounted' /\ CountedIsSynced'
              BY <2>2 DEF TradesOfMatched, SeedingIsFresh, AwaitedIsUncounted, CountedIsSynced
        <2> QED BY <2>1, <2>3, <2>4
  <1>5. ASSUME NEW t \in Trade, OnFrame(t)
        PROVE  Once'
        <2>1. /\ Remember(seen_, t, kSeenCap) \in Seq(Trade)
              /\ Len(Remember(seen_, t, kSeenCap)) <= kSeenCap
              /\ Append(queue_, t) \in Seq(Trade)
              /\ \A y : InSeq(y, Append(queue_, t)) <=> InSeq(y, queue_) \/ y = t
              <3>1. /\ seen_ \in Seq(Trade) /\ queue_ \in Seq(Trade) /\ kSeenCap \in Nat \ {0}
                    /\ Len(seen_) <= kSeenCap
                    BY LiveFillsAssumption DEF TypeOK
              <3>2. /\ Remember(seen_, t, kSeenCap) \in Seq(Trade)
                    /\ Len(Remember(seen_, t, kSeenCap)) <= kSeenCap
                    BY <3>1, RememberHolds
              <3>3. \A y : InSeq(y, Append(queue_, t)) <=> InSeq(y, queue_) \/ y = t
                    BY <3>1, InAppend
              <3>4. Append(queue_, t) \in Seq(Trade)
                    BY <3>1
              <3> QED BY <3>2, <3>3, <3>4
        <2>2. TypeOK'
              <3>1. pushes' \in [Trade -> Nat]
                    <4>1. pushes[t] \in Nat /\ pushes[t] > 0
                          BY <1>5 DEF OnFrame, TypeOK
                    <4>2. pushes[t] - 1 \in Nat
                          BY <4>1
                    <4> QED BY <1>5, <4>2 DEF OnFrame, TypeOK
              <3>2. queue_' \in Seq(Trade) /\ seen_' \in Seq(Trade) /\ lost' \subseteq Trade
                    BY <1>5, <2>1 DEF OnFrame, TypeOK
              <3>3. Len(seen_') <= kSeenCap
                    BY <1>5, <2>1 DEF OnFrame, TypeOK
              <3>4. Len(queue_') <= kMaxQueue
                    <4>1. Len(Append(queue_, t)) = Len(queue_) + 1 /\ Len(queue_) \in Nat
                          BY DEF TypeOK
                    <4> QED BY <1>5, <4>1, LiveFillsAssumption DEF OnFrame, TypeOK
              <3> QED BY <1>5, <3>1, <3>2, <3>3, <3>4 DEF OnFrame, TypeOK
        <2>3. KnownIsExecuted'
              BY <1>5, <2>1 DEF OnFrame, TypeOK, KnownIsExecuted
        <2>4. TradesOfMatched' /\ SeedingIsFresh' /\ AwaitedIsUncounted' /\ CountedIsSynced'
              BY <1>5 DEF OnFrame, TypeOK, TradesOfMatched, SeedingIsFresh, AwaitedIsUncounted,
                 CountedIsSynced
        <2> QED BY <2>2, <2>3, <2>4
  <1>6. CASE DrainUserFills
        <2> DEFINE t == Head(queue_)
        <2>1. /\ t \in Trade /\ InSeq(t, queue_) /\ Tail(queue_) \in Seq(Trade)
              /\ \A y : InSeq(y, Tail(queue_)) => InSeq(y, queue_)
              BY <1>6, InTail DEF DrainUserFills, TypeOK
        <2>0. Len(Tail(queue_)) <= kMaxQueue
              <3>1. Len(Tail(queue_)) = Len(queue_) - 1 /\ Len(queue_) \in Nat
                    BY <1>6 DEF DrainUserFills, TypeOK
              <3> QED BY <3>1, LiveFillsAssumption DEF TypeOK
        <2>2. CASE InSeq(t[1], synced_order_ids_)
              <3>1. /\ queue_' = Tail(queue_) /\ pc = "drain"
                    /\ UNCHANGED <<exchange, link, seen_, pc, posted, cooling, restarts, lost,
                                   times, held, synced_order_ids_, evicted>>
                    BY <1>6, <2>2 DEF DrainUserFills
              <3> HIDE DEF t
              <3>2. TypeOK'
                    BY <2>0, <2>1, <3>1 DEF TypeOK
              <3>3. KnownIsExecuted'
                    BY <2>1, <3>1 DEF KnownIsExecuted
              <3>4. TradesOfMatched' /\ SeedingIsFresh'
                    BY <3>1 DEF TradesOfMatched, SeedingIsFresh
              <3>5. AwaitedIsUncounted' /\ CountedIsSynced'
                    BY <3>1 DEF AwaitedIsUncounted, CountedIsSynced
              <3> QED BY <3>2, <3>3, <3>4, <3>5
        <2>3. CASE ~InSeq(t[1], synced_order_ids_)
              <3> DEFINE ids == Remember(synced_order_ids_, t[1], kOrderIdMemoryCap)
                         out == Forgotten(synced_order_ids_, t[1], kOrderIdMemoryCap)
              <3>1. /\ ids \in Seq(Orders) /\ InSeq(t[1], ids) /\ out \subseteq Orders
                    /\ Len(ids) <= kOrderIdMemoryCap
                    /\ out = {} => \A y : InSeq(y, synced_order_ids_) => InSeq(y, ids)
                    <4>1. /\ synced_order_ids_ \in Seq(Orders) /\ t[1] \in Orders
                          /\ Len(synced_order_ids_) <= kOrderIdMemoryCap
                          /\ kOrderIdMemoryCap \in Nat \ {0}
                          BY <2>1, LiveFillsAssumption DEF TypeOK
                    <4> HIDE DEF t
                    <4> QED BY <4>1, RememberHolds
              <3>2. /\ times' = [times EXCEPT ![t] = @ + 1]
                    /\ held' = held + Net({t}) /\ synced_order_ids_' = ids
                    /\ evicted' = evicted \cup out
                    /\ queue_' = Tail(queue_) /\ pc = "drain"
                    /\ UNCHANGED <<exchange, link, seen_, pc, posted, cooling, restarts, lost>>
                    BY <1>6, <2>3 DEF DrainUserFills
              <3>3. Net({t}) \in Int
                    BY <2>1, NetIsInt
              <3>4. TypeOK'
                    <4> HIDE DEF t, ids, out
                    <4>1. times \in [Trade -> Nat] /\ times[t] + 1 \in Nat
                          BY <2>1 DEF TypeOK
                    <4>2. times' \in [Trade -> Nat]
                          BY <3>2, <4>1
                    <4>3. held' \in Int /\ evicted' \subseteq Orders
                          BY <3>1, <3>2, <3>3 DEF TypeOK
                    <4> QED BY <2>0, <2>1, <3>1, <3>2, <4>2, <4>3 DEF TypeOK
              <3>5. KnownIsExecuted'
                    BY <2>1, <3>2 DEF TypeOK, KnownIsExecuted
              <3>6. TradesOfMatched' /\ SeedingIsFresh' /\ AwaitedIsUncounted'
                    BY <2>1, <3>2 DEF TypeOK, TradesOfMatched, SeedingIsFresh, AwaitedIsUncounted
              <3>7. CountedIsSynced'
                    <4> SUFFICES ASSUME restarts = 0, evicted' = {}, NEW u \in Trade
                                 PROVE  /\ times'[u] <= 1
                                        /\ times'[u] > 0 => InSeq(u[1], ids)
                        BY <3>2 DEF CountedIsSynced
                    <4>1. evicted = {} /\ out = {}
                          BY <3>2
                    <4>2. times[u] <= 1 /\ (times[u] > 0 => InSeq(u[1], synced_order_ids_))
                          BY <4>1 DEF CountedIsSynced
                    <4>3. times[u] \in Nat /\ times'[u] = IF u = t THEN times[u] + 1 ELSE times[u]
                          BY <2>1, <3>2 DEF TypeOK
                    <4> QED BY <2>3, <3>1, <4>1, <4>2, <4>3
              <3> QED BY <3>4, <3>5, <3>6, <3>7
        <2> QED BY <2>2, <2>3
  <1>7. CASE EndDrain \/ NoOrderThisTick \/ CooldownEnds
        <2>1. /\ UNCHANGED <<exchange, link, feed, posted, held, synced_order_ids_, restarts, times,
                             lost, evicted>>
              /\ cooling' \in {cooling, FALSE}
              /\ pc' \in {pc, "decide", "drain"}
              BY <1>7 DEF EndDrain, NoOrderThisTick, CooldownEnds
        <2>2. TypeOK'
              BY <2>1 DEF TypeOK
        <2>3. KnownIsExecuted' /\ TradesOfMatched'
              BY <2>1 DEF KnownIsExecuted, TradesOfMatched
        <2>4. SeedingIsFresh' /\ AwaitedIsUncounted' /\ CountedIsSynced'
              BY <2>1 DEF SeedingIsFresh, AwaitedIsUncounted, CountedIsSynced
        <2> QED BY <2>2, <2>3, <2>4
  <1>8. ASSUME NEW o \in Orders, PostOrder(o)
        PROVE  Once'
        <2>1. TypeOK' /\ KnownIsExecuted' /\ TradesOfMatched' /\ SeedingIsFresh' /\ CountedIsSynced'
              BY <1>8 DEF PostOrder, TypeOK, KnownIsExecuted, TradesOfMatched, SeedingIsFresh,
                 CountedIsSynced
        <2>2. AwaitedIsUncounted'
              <3>1. \A t \in Trade : t[1] = o => trade[t] = "none" /\ times[t] \in Nat /\ ~(times[t] > 0)
                    BY <1>8 DEF PostOrder, TypeOK, KnownIsExecuted, TradesOfMatched
              <3>2. posted' = o /\ order'[o] # "new" /\ times' = times
                    BY <1>8 DEF PostOrder, TypeOK
              <3> QED BY <3>1, <3>2 DEF AwaitedIsUncounted
        <2> QED BY <2>1, <2>2
  <1>9. ASSUME NEW o \in Orders, AnswerMatched(o)
        PROVE  Once'
        <2> DEFINE ids == Remember(synced_order_ids_, o, kOrderIdMemoryCap)
                   out == Forgotten(synced_order_ids_, o, kOrderIdMemoryCap)
        <2>1. /\ ids \in Seq(Orders) /\ InSeq(o, ids) /\ out \subseteq Orders
              /\ Len(ids) <= kOrderIdMemoryCap
              /\ out = {} => \A y : InSeq(y, synced_order_ids_) => InSeq(y, ids)
              <3>1. /\ synced_order_ids_ \in Seq(Orders) /\ o \in Orders
                    /\ Len(synced_order_ids_) <= kOrderIdMemoryCap
                    /\ kOrderIdMemoryCap \in Nat \ {0}
                    BY <1>9, LiveFillsAssumption DEF TypeOK
              <3> QED BY <3>1, RememberHolds
        <2>2. /\ times' = [t \in Trade |-> IF t \in TradesOf(o) THEN times[t] + 1 ELSE times[t]]
              /\ held' = held + Net(TradesOf(o)) /\ synced_order_ids_' = ids
              /\ evicted' = evicted \cup out /\ cooling' = FALSE
              /\ pc' = "drain" /\ posted' = NoOrder /\ pc = "posting" /\ posted = o
              /\ UNCHANGED <<exchange, link, feed, restarts, lost>>
              BY <1>9 DEF AnswerMatched
        <2>3. Net(TradesOf(o)) \in Int
              BY NetIsInt DEF TradesOf, Executed
        <2>4. \A t \in Trade : t \in TradesOf(o) => t[1] = o /\ times[t] = 0 /\ trade[t] # "none"
              BY <2>2 DEF AwaitedIsUncounted, TradesOf, Executed
        <2>5. TypeOK'
              <3>1. times' \in [Trade -> Nat] /\ held' \in Int /\ evicted' \subseteq Orders
                    BY <2>1, <2>2, <2>3 DEF TypeOK
              <3> QED BY <2>1, <2>2, <3>1 DEF TypeOK
        <2>6. KnownIsExecuted'
              BY <2>2, <2>4 DEF TypeOK, KnownIsExecuted
        <2>7. TradesOfMatched' /\ SeedingIsFresh' /\ AwaitedIsUncounted'
              BY <2>2 DEF TypeOK, TradesOfMatched, SeedingIsFresh, AwaitedIsUncounted
        <2>8. CountedIsSynced'
              BY <2>1, <2>2, <2>4 DEF TypeOK, CountedIsSynced
        <2> QED BY <2>5, <2>6, <2>7, <2>8
  <1>10. ASSUME NEW o \in Orders, AnswerWithoutFill(o)
         PROVE  Once'
         BY <1>10 DEF AnswerWithoutFill, TypeOK, KnownIsExecuted, TradesOfMatched, SeedingIsFresh,
            AwaitedIsUncounted, CountedIsSynced
  <1>11. CASE Restart
         <2>1. TypeOK'
               <3>1. <<>> \in Seq(Trade) /\ <<>> \in Seq(Orders)
                     OBVIOUS
               <3>2. /\ times' \in [Trade -> Nat] /\ pushes' \in [Trade -> Nat]
                     /\ lost' \subseteq Trade /\ restarts' \in Nat
                     BY <1>11 DEF Restart, TypeOK, InFlight
               <3>3. /\ queue_' \in Seq(Trade) /\ seen_' \in Seq(Trade)
                     /\ synced_order_ids_' \in Seq(Orders)
                     BY <1>11, <3>1 DEF Restart
               <3>4. /\ link' \in {"connecting", "up", "down"}
                     /\ pc' \in {"drain", "decide", "posting", "seeding"}
                     /\ posted' \in Orders \cup {NoOrder}
                     /\ held' \in Int
                     BY <1>11 DEF Restart
               <3>5. cooling' \in BOOLEAN
                     BY <1>11, Zenon DEF Restart
               <3>6. UNCHANGED <<order, trade, sent, evicted>>
                     BY <1>11 DEF Restart
               <3>7. /\ Len(queue_') <= kMaxQueue /\ Len(seen_') <= kSeenCap
                     /\ Len(synced_order_ids_') <= kOrderIdMemoryCap
                     BY <1>11, LiveFillsAssumption DEF Restart
               <3> QED BY <3>2, <3>3, <3>4, <3>5, <3>6, <3>7 DEF TypeOK
         <2>2. KnownIsExecuted'
               BY <1>11 DEF Restart, KnownIsExecuted, InSeq
         <2>3. TradesOfMatched' /\ SeedingIsFresh' /\ AwaitedIsUncounted' /\ CountedIsSynced'
               BY <1>11 DEF Restart, TypeOK, TradesOfMatched, SeedingIsFresh, AwaitedIsUncounted,
                  CountedIsSynced
         <2> QED BY <2>1, <2>2, <2>3
  <1>12. ASSUME NEW T \in SUBSET Trade, SeedLivePositionsFromOnchain(T)
         PROVE  Once'
         <2>1. Net(T) \in Int
               BY NetIsInt
         <2>2. TypeOK'
               BY <1>12, <2>1 DEF SeedLivePositionsFromOnchain, TypeOK
         <2>3. KnownIsExecuted'
               <3>1. \A t \in Trade : times'[t] = IF t \in T THEN 1 ELSE 0
                     BY <1>12 DEF SeedLivePositionsFromOnchain
               <3>2. \A t \in T : trade[t] # "none"
                     BY <1>12 DEF SeedLivePositionsFromOnchain
               <3>3. UNCHANGED <<pushes, queue_, trade>>
                     BY <1>12 DEF SeedLivePositionsFromOnchain
               <3> QED BY <3>1, <3>2, <3>3 DEF KnownIsExecuted
         <2>5. TradesOfMatched' /\ SeedingIsFresh' /\ AwaitedIsUncounted'
               BY <1>12 DEF SeedLivePositionsFromOnchain, TradesOfMatched, SeedingIsFresh, AwaitedIsUncounted
         <2>4. CountedIsSynced'
               BY <1>12 DEF SeedLivePositionsFromOnchain, SeedingIsFresh, CountedIsSynced
         <2> QED BY <2>2, <2>3, <2>4, <2>5
  <1>13. CASE SeedFails
         BY <1>13 DEF SeedFails, Confirmed, TypeOK, KnownIsExecuted, TradesOfMatched, SeedingIsFresh,
            AwaitedIsUncounted, CountedIsSynced
  <1>14. CASE Disconnect
         BY <1>14 DEF Disconnect, InFlight, TypeOK, KnownIsExecuted, TradesOfMatched, SeedingIsFresh,
            AwaitedIsUncounted, CountedIsSynced
  <1>15. CASE OnConnected
         BY <1>15 DEF OnConnected, TypeOK, KnownIsExecuted, TradesOfMatched, SeedingIsFresh,
            AwaitedIsUncounted, CountedIsSynced
  <1>16. CASE UNCHANGED vars
         BY <1>16 DEF vars, TypeOK, KnownIsExecuted, TradesOfMatched, SeedingIsFresh,
            AwaitedIsUncounted, CountedIsSynced
  <1> QED BY <1>1, <1>2, <1>3, <1>4, <1>5, <1>6, <1>7, <1>8, <1>9, <1>10, <1>11, <1>12, <1>13,
             <1>14, <1>15, <1>16 DEF Next, ExchangeStep, IoStep, LoopStep, Answer, Seed

-----------------------------------------------------------------------------
(* Every step keeps Complete.                                               *)

(* What is booked stays booked within a process: so does its order.         *)
LEMMA LedgerKeeps ==
  ASSUME \A u \in Trade : times[u] > 0 => times'[u] > 0
  PROVE  /\ \A o : InLedger(o) => InLedger(o)'
         /\ \A u \in Trade : times'[u] > 0 => InLedger(u[1])'
  BY DEF InLedger, Booked

(* No trade is confirmed at first.                                         *)
LEMMA InitComplete == Init => Complete
  <1> SUFFICES ASSUME Init PROVE Complete
      OBVIOUS
  <1>1. Once
        BY InitOnce
  <1>2. SeenIsAccounted /\ SyncedIsCounted /\ OnItsWay
        BY DEF Init, SeenIsAccounted, SyncedIsCounted, OnItsWay, InSeq
  <1> QED BY <1>1, <1>2 DEF Complete

(* No step loses sight of a confirmed trade of an order that is not booked. *)
LEMMA NextComplete == Complete /\ [Next]_vars => Complete'
  <1> SUFFICES ASSUME Complete, [Next]_vars
               PROVE  SeenIsAccounted' /\ SyncedIsCounted' /\ OnItsWay'
      BY NextOnce DEF Complete
  <1> USE TradeParts DEF Complete, Once, exchange, feed, loop, Confirmed
  <1>a. ASSUME UNCHANGED times PROVE \A o : InLedger(o) <=> InLedger(o)'
        BY <1>a DEF InLedger, Booked
  <1>1. ASSUME NEW o \in Orders, NEW n \in 1..TradesPerOrder, Match(o, n)
        PROVE  SeenIsAccounted' /\ SyncedIsCounted' /\ OnItsWay'
        BY <1>a, <1>1 DEF Match, TypeOK, SeenIsAccounted, SyncedIsCounted, OnItsWay
  <1>2. ASSUME NEW o \in Orders, Kill(o)
        PROVE  SeenIsAccounted' /\ SyncedIsCounted' /\ OnItsWay'
        BY <1>a, <1>2 DEF Kill, SeenIsAccounted, SyncedIsCounted, OnItsWay
  <1>3. ASSUME NEW t \in Trade, Fail(t)
        PROVE  SeenIsAccounted' /\ SyncedIsCounted' /\ OnItsWay'
        BY <1>a, <1>3 DEF Fail, TypeOK, SeenIsAccounted, SyncedIsCounted, OnItsWay
  <1>4. ASSUME NEW t \in Trade, Confirm(t) \/ PushAgain(t)
        PROVE  SeenIsAccounted' /\ SyncedIsCounted' /\ OnItsWay'
        <2>1. UNCHANGED <<link, feed, loop>>
              BY <1>4 DEF Confirm, PushAgain
        <2>2. \A u \in Trade : u # t => trade'[u] = trade[u]
              BY <1>4 DEF Confirm, PushAgain, TypeOK
        <2>3. /\ pushes \in [Trade -> Nat]
              /\ \/ pushes' = [pushes EXCEPT ![t] = @ + 1] /\ lost' = lost
                 \/ pushes' = pushes /\ lost' = lost \cup {t}
              BY <1>4 DEF Confirm, PushAgain, Push, TypeOK
        <2>4. /\ lost \subseteq lost' /\ \A u \in Trade : pushes[u] > 0 => pushes'[u] > 0
              /\ t \in lost' \/ pushes'[t] > 0
              BY <2>3
        <2> QED BY <1>a, <2>1, <2>2, <2>4 DEF SeenIsAccounted, SyncedIsCounted, OnItsWay
  <1>5. ASSUME NEW t \in Trade, OnFrame(t)
        PROVE  SeenIsAccounted' /\ SyncedIsCounted' /\ OnItsWay'
        <2>1. /\ \A y : InSeq(y, Remember(seen_, t, kSeenCap)) => InSeq(y, seen_) \/ y = t
              /\ \A y : InSeq(y, Append(queue_, t)) <=> InSeq(y, queue_) \/ y = t
              <3>1. seen_ \in Seq(Trade) /\ queue_ \in Seq(Trade) /\ kSeenCap \in Nat \ {0}
                    BY LiveFillsAssumption DEF TypeOK
              <3>2. \A y : InSeq(y, Remember(seen_, t, kSeenCap)) => InSeq(y, seen_) \/ y = t
                    BY <3>1, RememberHolds
              <3>3. \A y : InSeq(y, Append(queue_, t)) <=> InSeq(y, queue_) \/ y = t
                    BY <3>1, InAppend
              <3> QED BY <3>2, <3>3
        <2>2. /\ UNCHANGED <<trade, times, synced_order_ids_, pc>>
              /\ lost \subseteq lost' /\ \A y : InSeq(y, queue_) => InSeq(y, queue_')
              /\ \A y : InSeq(y, seen_') => InSeq(y, seen_) \/ y = t
              BY <1>5, <2>1 DEF OnFrame
        <2>3. InLedger(t[1]) \/ t \in lost' \/ InSeq(t, queue_')
              BY <1>5, <2>1 DEF OnFrame, SeenIsAccounted
        <2>4. \A u \in Trade : u # t => pushes'[u] = pushes[u]
              BY <1>5 DEF OnFrame, TypeOK
        <2> QED BY <1>a, <2>2, <2>3, <2>4 DEF SeenIsAccounted, SyncedIsCounted, OnItsWay
  <1>6. CASE DrainUserFills
        <2>0. PICK t : t = Head(queue_)
              OBVIOUS
        <2>1. /\ t \in Trade
              /\ \A y : InSeq(y, queue_) <=> y = t \/ InSeq(y, Tail(queue_))
              BY <1>6, <2>0, InTail DEF DrainUserFills, TypeOK
        <2>2. UNCHANGED <<trade, pushes, seen_, lost, pc>> /\ queue_' = Tail(queue_)
              BY <1>6 DEF DrainUserFills
        <2>3. InLedger(t[1])' /\ \A o : InLedger(o) => InLedger(o)'
              <3>1. times \in [Trade -> Nat] /\ t[1] \in Orders
                    BY <2>1 DEF TypeOK
              <3>2. CASE InSeq(t[1], synced_order_ids_)
                    <4>1. InLedger(t[1])
                          BY <3>1, <3>2 DEF SyncedIsCounted
                    <4>2. UNCHANGED times
                          BY <1>6, <2>0, <3>2 DEF DrainUserFills
                    <4> QED BY <1>a, <4>1, <4>2
              <3>3. CASE ~InSeq(t[1], synced_order_ids_)
                    <4>1. times' = [times EXCEPT ![t] = @ + 1]
                          BY <1>6, <2>0, <3>3 DEF DrainUserFills
                    <4>2. times'[t] > 0 /\ \A u \in Trade : times[u] > 0 => times'[u] > 0
                          BY <2>1, <3>1, <4>1
                    <4> QED BY <2>1, <4>2, LedgerKeeps
              <3> QED BY <3>2, <3>3
        <2>4. \A y : InSeq(y, synced_order_ids_') => InSeq(y, synced_order_ids_) \/ y = t[1]
              <3>1. synced_order_ids_ \in Seq(Orders) /\ kOrderIdMemoryCap \in Nat \ {0}
                    /\ t[1] \in Orders
                    BY <2>1, LiveFillsAssumption DEF TypeOK
              <3>2. \A y : InSeq(y, Remember(synced_order_ids_, t[1], kOrderIdMemoryCap)) =>
                             InSeq(y, synced_order_ids_) \/ y = t[1]
                    BY <3>1, RememberHolds
              <3> QED BY <1>6, <2>0, <3>2 DEF DrainUserFills
        <2>5. \A y : InSeq(y, queue_) => y = t \/ InSeq(y, queue_')
              BY <2>1, <2>2
        <2>6. SeenIsAccounted' /\ OnItsWay'
              BY <2>2, <2>3, <2>5 DEF SeenIsAccounted, OnItsWay
        <2>7. SyncedIsCounted'
              BY <2>3, <2>4 DEF SyncedIsCounted
        <2> QED BY <2>6, <2>7
  <1>7. CASE EndDrain \/ NoOrderThisTick \/ CooldownEnds
        BY <1>a, <1>7 DEF EndDrain, NoOrderThisTick, CooldownEnds, SeenIsAccounted, SyncedIsCounted,
           OnItsWay
  <1>8. ASSUME NEW o \in Orders, PostOrder(o) \/ AnswerWithoutFill(o)
        PROVE  SeenIsAccounted' /\ SyncedIsCounted' /\ OnItsWay'
        BY <1>a, <1>8 DEF PostOrder, AnswerWithoutFill, SeenIsAccounted, SyncedIsCounted, OnItsWay
  <1>9. ASSUME NEW o \in Orders, AnswerMatched(o)
        PROVE  SeenIsAccounted' /\ SyncedIsCounted' /\ OnItsWay'
        <2>1. /\ UNCHANGED <<trade, pushes, feed, lost>> /\ pc = "posting" /\ order[o] = "matched"
              /\ times' = [t \in Trade |-> IF t \in TradesOf(o) THEN times[t] + 1 ELSE times[t]]
              /\ synced_order_ids_' = Remember(synced_order_ids_, o, kOrderIdMemoryCap)
              BY <1>9 DEF AnswerMatched
        <2>2. \A y : InSeq(y, synced_order_ids_') => InSeq(y, synced_order_ids_) \/ y = o
              BY <2>1, LiveFillsAssumption, RememberHolds DEF TypeOK
        <2>3. InLedger(o)' /\ \A q : InLedger(q) => InLedger(q)'
              <3>1. <<o, 1>> \in Trade /\ <<o, 1>> \in TradesOf(o)
                    BY <2>1 DEF TradesOfMatched, TradesOf, Executed
              <3>2. times \in [Trade -> Nat]
                    BY DEF TypeOK
              <3>3. times'[<<o, 1>>] > 0 /\ \A u \in Trade : times[u] > 0 => times'[u] > 0
                    BY <2>1, <3>1, <3>2
              <3>4. InLedger(<<o, 1>>[1])'
                    BY <3>1, <3>3, LedgerKeeps
              <3> QED BY <3>3, <3>4, LedgerKeeps
        <2> QED BY <2>1, <2>2, <2>3 DEF SeenIsAccounted, SyncedIsCounted, OnItsWay
  <1>10. CASE Restart
         BY <1>10 DEF Restart, SeenIsAccounted, SyncedIsCounted, OnItsWay, InSeq
  <1>11. ASSUME NEW T \in SUBSET Trade, SeedLivePositionsFromOnchain(T)
         PROVE  SeenIsAccounted' /\ SyncedIsCounted' /\ OnItsWay'
         <2>1. /\ Confirmed \subseteq T /\ UNCHANGED <<trade, seen_, synced_order_ids_>>
               /\ seen_ = <<>> /\ synced_order_ids_ = <<>>
               /\ \A t \in Trade : times'[t] = IF t \in T THEN 1 ELSE 0
               BY <1>11 DEF SeedLivePositionsFromOnchain, SeedingIsFresh
         <2>2. \A t \in Trade : trade[t] = "confirmed" => InLedger(t[1])'
               BY <2>1 DEF InLedger, Booked
         <2> QED BY <2>1, <2>2 DEF SeenIsAccounted, SyncedIsCounted, OnItsWay, InSeq
  <1>12. CASE SeedFails
         BY <1>a, <1>12 DEF SeedFails, SeenIsAccounted, SyncedIsCounted, OnItsWay
  <1>13. CASE Disconnect
         BY <1>a, <1>13 DEF Disconnect, InFlight, SeenIsAccounted, SyncedIsCounted, OnItsWay
  <1>14. CASE OnConnected \/ UNCHANGED vars
         BY <1>a, <1>14 DEF OnConnected, vars, SeenIsAccounted, SyncedIsCounted, OnItsWay
  <1> QED BY <1>1, <1>2, <1>3, <1>4, <1>5, <1>6, <1>7, <1>8, <1>9, <1>10, <1>11, <1>12, <1>13,
             <1>14 DEF Next, ExchangeStep, IoStep, LoopStep, Answer, Seed

-----------------------------------------------------------------------------
(* The theorems.                                                            *)

(* In every reachable state the loop's memory of order ids covers what the  *)
(* ledger counts.                                                           *)
LEMMA SpecOnce == Spec => []Once
  BY InitOnce, NextOnce, PTL DEF Spec

(* The state keeps its shape, whatever the exchange and the channel do.     *)
THEOREM SpecTypeOK == Spec => []TypeOK
  <1>1. Once => TypeOK
        BY DEF Once
  <1> QED BY <1>1, SpecOnce, PTL

(* DrainUserFills and the booking of an answer never count a trade twice in *)
(* one process, as long as no order id was forgotten.                       *)
THEOREM SpecBookedAtMostOnce == Spec => []BookedAtMostOnce
  <1>1. Once => BookedAtMostOnce
        BY DEF Once, CountedIsSynced, BookedAtMostOnce
  <1> QED BY <1>1, SpecOnce, PTL

(* However many trades an order is matched as, none of a whole order falls  *)
(* between the feed's deduplication by trade and the loop's by order.       *)
THEOREM SpecNoTradeLost == Spec => []NoTradeLost
  <1>1. Init => Complete
        BY InitComplete
  <1>2. Complete /\ [Next]_vars => Complete'
        BY NextComplete
  <1>3. Complete => NoTradeLost
        BY DEF Complete, OnItsWay, NoTradeLost, Confirmed
  <1> QED BY <1>1, <1>2, <1>3, PTL DEF Spec

-----------------------------------------------------------------------------
(* The ledger implements the book of executed trades.                       *)

(* Nothing executed, nothing booked: the initial abstract book.            *)
LEMMA InitImplements == Init => Chain!BookInit
  BY DEF Init, Chain!BookInit, Executed, Booked

(* Within one process every step executes trades, books executed ones that  *)
(* were not booked, or leaves the abstract book alone.                      *)
LEMMA StepImplements ==
  ASSUME Once, evicted = {}, [Next]_vars, restarts' = 0
  PROVE  [Chain!BookNext]_(Chain!bookVars)
  <1> USE TradeParts DEF Once, exchange, feed, loop
  <1>first. restarts = 0 /\ ~Restart
        <2>1. ~Restart
              BY DEF Restart, TypeOK
        <2>2. ExchangeStep => UNCHANGED restarts
              BY DEF ExchangeStep, Match, Kill, Fail, Confirm, PushAgain
        <2>3. IoStep => UNCHANGED restarts
              BY DEF IoStep, OnFrame
        <2>4. LoopStep => UNCHANGED restarts
              BY DEF LoopStep, Answer, DrainUserFills, EndDrain, NoOrderThisTick, AnswerMatched,
                     AnswerWithoutFill, PostOrder
        <2>5. Seed => UNCHANGED restarts
              BY DEF Seed, SeedFails, SeedLivePositionsFromOnchain
        <2>6. Disconnect \/ OnConnected \/ CooldownEnds \/ UNCHANGED vars => UNCHANGED restarts
              BY DEF Disconnect, OnConnected, CooldownEnds, vars
        <2> QED BY <2>1, <2>2, <2>3, <2>4, <2>5, <2>6 DEF Next
  <1> DEFINE Stutters == UNCHANGED <<Executed, Booked, held>>
  <1>0. Stutters => [Chain!BookNext]_(Chain!bookVars)
        BY DEF Chain!bookVars
  <1>1. ASSUME NEW o \in Orders, NEW n \in 1..TradesPerOrder, Match(o, n)
        PROVE  [Chain!BookNext]_(Chain!bookVars)
        <2> DEFINE T == {t \in Trade : t[1] = o /\ t[2] <= n}
        <2>1. T \in SUBSET Trade /\ <<o, 1>> \in T
              BY LiveFillsAssumption
        <2>2. T \cap Executed = {}
              BY <1>1 DEF Match, TradesOfMatched, Executed
        <2>3. Executed' = Executed \cup T
              BY <1>1 DEF Match, TypeOK, Executed
        <2>4. UNCHANGED <<Booked, held, restarts>>
              BY <1>1 DEF Match, Booked
        <2>5. Chain!Execute(T)
              BY <2>2, <2>3, <2>4 DEF Chain!Execute
        <2> QED BY <2>1, <2>4, <2>5 DEF Chain!BookNext
  <1>2. ASSUME NEW t \in Trade, Fail(t) \/ Confirm(t) \/ PushAgain(t) \/ OnFrame(t)
        PROVE  Stutters
        <2>1. \A u \in Trade : trade'[u] = "none" <=> trade[u] = "none"
              BY <1>2 DEF Fail, Confirm, PushAgain, OnFrame, TypeOK
        <2>2. UNCHANGED <<times, held, restarts>>
              BY <1>2 DEF Fail, Confirm, PushAgain, OnFrame
        <2> QED BY <2>1, <2>2 DEF Executed, Booked
  <1>3. ASSUME NEW o \in Orders, Kill(o) \/ PostOrder(o) \/ AnswerWithoutFill(o)
        PROVE  Stutters
        BY <1>3 DEF Kill, PostOrder, AnswerWithoutFill, Executed, Booked
  <1>4. CASE EndDrain \/ NoOrderThisTick \/ CooldownEnds \/ Disconnect \/ OnConnected \/ UNCHANGED vars
        <2> Stutters
            BY <1>4 DEF EndDrain, NoOrderThisTick, CooldownEnds, Disconnect, OnConnected, vars,
               Executed, Booked
        <2> QED BY <1>0
  <1>5. CASE DrainUserFills
        <2> DEFINE t == Head(queue_)
        <2>1. t \in Trade /\ InSeq(t, queue_)
              BY <1>5, InTail DEF DrainUserFills, TypeOK
        <2>2. UNCHANGED <<trade, restarts>>
              BY <1>5 DEF DrainUserFills
        <2>3. CASE InSeq(t[1], synced_order_ids_)
              <3>1. Stutters
                  BY <1>5, <2>2, <2>3 DEF DrainUserFills, Executed, Booked
              <3> QED BY <1>0, <3>1
        <2>4. CASE ~InSeq(t[1], synced_order_ids_)
              <3>1. times' = [times EXCEPT ![t] = @ + 1] /\ held' = held + Net({t})
                    BY <1>5, <2>4 DEF DrainUserFills
              <3>2. times \in [Trade -> Nat] /\ ~(times[t] > 0)
                    BY <1>first, <2>1, <2>4 DEF CountedIsSynced, TypeOK
              <3>3. Booked' = Booked \cup {t}
                    BY <2>1, <3>1, <3>2 DEF Booked
              <3>4. {t} \subseteq Executed \ Booked
                    BY <2>1, <3>2 DEF Executed, Booked, KnownIsExecuted
              <3>5. Executed' = Executed
                    BY <2>2 DEF Executed
              <3>6. Chain!Book({t})
                    BY <3>1, <3>3, <3>4, <3>5 DEF Chain!Book
              <3>7. {t} \in (SUBSET Trade) \ {{}}
                    BY <2>1
              <3> QED BY <3>6, <3>7 DEF Chain!BookNext
        <2> QED BY <2>3, <2>4
  <1>6. ASSUME NEW o \in Orders, AnswerMatched(o)
        PROVE  [Chain!BookNext]_(Chain!bookVars)
        <2>1. /\ times' = [t \in Trade |-> IF t \in TradesOf(o) THEN times[t] + 1 ELSE times[t]]
              /\ held' = held + Net(TradesOf(o)) /\ UNCHANGED <<trade, restarts>>
              /\ pc = "posting" /\ posted = o /\ order[o] = "matched"
              BY <1>6 DEF AnswerMatched
        <2>2. times \in [Trade -> Nat] /\ TradesOf(o) \subseteq Executed
              BY DEF TypeOK, TradesOf
        <2>3. Booked' = Booked \cup TradesOf(o) /\ Executed' = Executed
              BY <2>1, <2>2 DEF Booked, Executed
        <2>4. TradesOf(o) \subseteq Executed \ Booked
              <3>1. \A t \in TradesOf(o) : t \in Trade /\ t[1] = o
                    BY DEF TradesOf, Executed
              <3>2. \A t \in TradesOf(o) : times[t] = 0
                    BY <2>1, <3>1 DEF AwaitedIsUncounted
              <3> QED BY <2>2, <3>2 DEF Booked
        <2>5. TradesOf(o) \in (SUBSET Trade) \ {{}}
              <3>1. <<o, 1>> \in TradesOf(o)
                    BY <2>1 DEF TradesOfMatched, TradesOf, Executed
              <3> QED BY <3>1 DEF TradesOf, Executed
        <2>6. Chain!Book(TradesOf(o))
              BY <2>1, <2>3, <2>4 DEF Chain!Book
        <2> QED BY <2>1, <2>5, <2>6 DEF Chain!BookNext
  <1>7. ~Seed
        BY <1>first DEF Seed, SeedFails, SeedLivePositionsFromOnchain, SeedingIsFresh
  <1> QED BY <1>0, <1>1, <1>2, <1>3, <1>4, <1>5, <1>6, <1>7, <1>first
          DEF Next, ExchangeStep, IoStep, LoopStep, Answer

(* Until a restart, and as long as no order id was forgotten, every         *)
(* behaviour of the loop is one of the abstract book: what is booked was    *)
(* executed, is booked once, and the net position is its signed sum.        *)
THEOREM SpecImplementsChainBook == Spec => ImplementsChainBook
  <1>1. Init => Chain!BookInit
        BY InitImplements
  <1>2. Once /\ [Next]_vars
          => [restarts' = 0 /\ evicted = {} => Chain!BookNext]_(Chain!bookVars)
        BY StepImplements
  <1> QED BY <1>1, <1>2, SpecOnce, PTL DEF Spec, ImplementsChainBook

-----------------------------------------------------------------------------
(* The threads of a connection.                                             *)

(* A connection exists from the handshake to the end of CleanupSsl, and the *)
(* send thread lives within: it starts after OnConnected and is joined      *)
(* before the connection is freed.                                          *)
ThreadsInv ==
  /\ owner \in {"idle", "reconnecting", "closing", "cleaning"}
  /\ io \in {"none", "connecting", "handshake", "greeting", "reading", "leaving",
             "joining", "reporting", "done"}
  /\ send \in {"none", "awake", "tested", "asleep", "writing", "done"}
  /\ {wsStop, connected_, ssl_, peer} \subseteq BOOLEAN
  /\ io \in {"handshake", "greeting", "reading", "leaving", "joining"} => ssl_
  /\ io \notin {"reading", "leaving", "joining"} => send = "none"

(* Only a message and a connection that was opened put something into the   *)
(* queue.                                                                   *)
Greets == IF io \in {"connecting", "handshake", "greeting"} THEN 1 ELSE 0
Reopens == IF owner = "reconnecting" THEN 1 ELSE 0
WaitsInv ==
  /\ {send_queue_, messages, connects} \subseteq Nat
  /\ messages <= MaxMessages /\ connects <= MaxConnects
  /\ send_queue_ + Greets + Reopens <= messages + connects

TransportInv == ThreadsInv /\ WaitsInv

(* Every step, one case per action.                                         *)
LEMMA ThreadsNext == ThreadsInv /\ [WT!Next]_(WT!vars) => ThreadsInv'
  <1> SUFFICES ASSUME ThreadsInv, [WT!Next]_(WT!vars) PROVE ThreadsInv'
      OBVIOUS
  <1> USE DEF ThreadsInv
  <1>1. CASE WT!AsyncConnect
        BY <1>1 DEF WT!AsyncConnect, WT!StartIo
  <1>2. CASE WT!OwnerStep
        BY <1>2 DEF WT!OwnerStep, WT!Reconnect, WT!CloseJoined, WT!StartIo
  <1>3. CASE WT!Close \/ WT!AsyncSendText
        BY <1>3 DEF WT!Close, WT!AsyncSendText, WT!Notified
  <1>4. CASE WT!TcpConnect \/ WT!WsHandshake
        BY <1>4 DEF WT!TcpConnect, WT!WsHandshake
  <1>5. CASE WT!OnConnected \/ WT!RecvLoop
        BY <1>5 DEF WT!OnConnected, WT!RecvLoop
  <1>6. CASE WT!LeaveIoLoop \/ WT!CleanupSsl
        BY <1>6 DEF WT!LeaveIoLoop, WT!CleanupSsl, WT!Notified
  <1>7. CASE WT!SendStep
        BY <1>7 DEF WT!SendStep, WT!SendTest, WT!SendWsText, WT!SendSleeps
  <1>8. CASE WT!PeerCloses \/ UNCHANGED WT!vars
        BY <1>8 DEF WT!PeerCloses, WT!vars, WT!threads
  <1> QED BY <1>1, <1>2, <1>3, <1>4, <1>5, <1>6, <1>7, <1>8 DEF WT!Next, WT!IoStep

LEMMA WaitsNext ==
  ASSUME WT!WssTransportAssumption, WaitsInv, [WT!Next]_(WT!vars)
  PROVE  WaitsInv'
  <1>0. /\ MaxMessages \in Nat /\ MaxConnects \in Nat
        /\ Greets \in {0, 1} /\ Reopens \in {0, 1}
        /\ {send_queue_, messages, connects} \subseteq Nat
        /\ messages <= MaxMessages /\ connects <= MaxConnects
        /\ send_queue_ + Greets + Reopens <= messages + connects
        BY DEF WT!WssTransportAssumption, WaitsInv, Greets, Reopens
  <1>1. CASE WT!AsyncConnect
        <2>1. /\ connects' = connects + 1 /\ connects < MaxConnects
              /\ UNCHANGED <<send_queue_, messages>>
              BY <1>1 DEF WT!AsyncConnect
        <2>2. \/ Greets' = 1 /\ Greets = 0 /\ Reopens' = Reopens
              \/ Greets' = Greets /\ Reopens = 0 /\ Reopens' = 1
              BY <1>1 DEF WT!AsyncConnect, WT!StartIo, Greets, Reopens
        <2> QED BY <1>0, <2>1, <2>2 DEF WaitsInv
  <1>2. CASE WT!Reconnect
        <2>1. /\ Greets' = 1 /\ Greets = 0 /\ Reopens' = 0 /\ Reopens = 1
              /\ UNCHANGED <<send_queue_, messages, connects>>
              BY <1>2 DEF WT!Reconnect, WT!StartIo, Greets, Reopens
        <2> QED BY <1>0, <2>1 DEF WaitsInv
  <1>3. CASE WT!AsyncSendText
        <2>1. /\ send_queue_' = send_queue_ + 1 /\ messages' = messages + 1
              /\ messages < MaxMessages /\ Greets' = Greets /\ Reopens' = Reopens
              /\ UNCHANGED connects
              BY <1>3 DEF WT!AsyncSendText, Greets, Reopens
        <2> QED BY <1>0, <2>1 DEF WaitsInv
  <1>4. CASE WT!OnConnected
        <2>1. /\ send_queue_' = send_queue_ + 1 /\ Greets' = 0 /\ Greets = 1
              /\ Reopens' = Reopens /\ UNCHANGED <<connects, messages>>
              BY <1>4 DEF WT!OnConnected, Greets, Reopens
        <2> QED BY <1>0, <2>1 DEF WaitsInv
  <1>5. CASE WT!SendTest
        <2>1. /\ send_queue_' = send_queue_ \/ (send_queue_' = send_queue_ - 1 /\ send_queue_ # 0)
              /\ Greets' = Greets /\ Reopens' = Reopens /\ UNCHANGED <<connects, messages>>
              BY <1>5 DEF WT!SendTest, Greets, Reopens
        <2> QED BY <1>0, <2>1 DEF WaitsInv
  <1>6. ASSUME Greets' = Greets \/ Greets' = 0, Reopens' = Reopens \/ Reopens' = 0,
               UNCHANGED <<send_queue_, connects, messages>>
        PROVE  WaitsInv'
        BY <1>0, <1>6 DEF WaitsInv
  <1>7. CASE WT!CloseJoined \/ WT!Close \/ WT!SendWsText \/ WT!SendSleeps
        BY <1>6, <1>7 DEF WT!CloseJoined, WT!Close, WT!SendWsText, WT!SendSleeps, Greets, Reopens
  <1>8. CASE WT!TcpConnect \/ WT!WsHandshake \/ WT!RecvLoop
        BY <1>6, <1>8 DEF WT!TcpConnect, WT!WsHandshake, WT!RecvLoop, Greets, Reopens
  <1>9. CASE WT!LeaveIoLoop \/ WT!CleanupSsl
        BY <1>6, <1>9 DEF WT!LeaveIoLoop, WT!CleanupSsl, Greets, Reopens
  <1>10. CASE WT!PeerCloses \/ UNCHANGED WT!vars
        BY <1>6, <1>10 DEF WT!PeerCloses, WT!vars, WT!threads, Greets, Reopens
  <1> QED BY <1>1, <1>2, <1>3, <1>4, <1>5, <1>7, <1>8, <1>9, <1>10
          DEF WT!Next, WT!OwnerStep, WT!IoStep, WT!SendStep

TransportHolds == WT!TypeOK /\ WT!NoUseAfterFree

(* Whoever reads or writes a connection has one that nobody has freed, and  *)
(* the queue holds no more than was sent and asked for, over any number of  *)
(* messages and connections (IoLoop, SendLoop, Close and AsyncConnect of    *)
(* LiveWssTransport).                                                       *)
THEOREM SpecNoUseAfterFree ==
  ASSUME WT!WssTransportAssumption
  PROVE  WT!Spec => []TransportHolds
  <1>0. MaxMessages \in Nat /\ MaxConnects \in Nat
        BY DEF WT!WssTransportAssumption
  <1>1. WT!Init => TransportInv
        <2> SUFFICES ASSUME WT!Init PROVE TransportInv
            OBVIOUS
        <2>1. ThreadsInv
              BY DEF WT!Init, ThreadsInv
        <2>2. Greets = 0 /\ Reopens = 0
              BY DEF WT!Init, Greets, Reopens
        <2>3. WaitsInv
              BY <1>0, <2>2 DEF WT!Init, WaitsInv
        <2> QED BY <2>1, <2>3 DEF TransportInv
  <1>2. TransportInv /\ [WT!Next]_(WT!vars) => TransportInv'
        BY ThreadsNext, WaitsNext DEF TransportInv
  <1>3. TransportInv => TransportHolds
        <2> SUFFICES ASSUME TransportInv PROVE TransportHolds
            OBVIOUS
        <2>1. send_queue_ \in 0..(MaxMessages + MaxConnects)
              <3>1. Greets \in {0, 1} /\ Reopens \in {0, 1}
                    BY DEF Greets, Reopens
              <3> QED BY <1>0, <3>1 DEF TransportInv, WaitsInv
        <2> QED BY <2>1 DEF TransportInv, ThreadsInv, TransportHolds, WT!TypeOK, WT!NoUseAfterFree
  <1> QED BY <1>1, <1>2, <1>3, PTL DEF WT!Spec

-----------------------------------------------------------------------------
(* The two channels of the subscriber.                                      *)

(* Nothing wanted is forgotten, and the connection that is up was asked.    *)
UserInv ==
  /\ wanted \subseteq user_condition_ids_
  /\ userLink = "up" => wanted \subseteq userTold \cup userServed

(* The oldest frame of a wire, and a frame more at its end.                 *)
LEMMA FrameTaken ==
  ASSUME NEW S, NEW w \in Seq(S), w # << >>
  PROVE  /\ Head(w) \in S /\ Tail(w) \in Seq(S) /\ Len(Tail(w)) = Len(w) - 1
         /\ Len(w) \in Nat
  OBVIOUS

LEMMA FrameSent ==
  ASSUME NEW S, NEW w \in Seq(S), NEW f \in S
  PROVE  Append(w, f) \in Seq(S) /\ Len(Append(w, f)) = Len(w) + 1 /\ Len(w) \in Nat
  OBVIOUS

LEMMA SendsKeepType ==
  ASSUME CS!ClobSubscriberAssumption, CS!TypeOK, NEW t \in Tokens,
         NEW topic \in {"book", "price_change"}, CS!Sends(t, topic)
  PROVE  no' \in [Tokens -> 0..MaxNo] /\ wire' \in Seq(CS!Frame)
  <1>1. /\ no \in [Tokens -> 0..MaxNo] /\ wire \in Seq(CS!Frame) /\ MaxNo \in Nat
        /\ no[t] < MaxNo /\ no' = [no EXCEPT ![t] = @ + 1]
        BY DEF CS!TypeOK, CS!Sends, CS!ClobSubscriberAssumption
  <1>2. no[t] \in 0..MaxNo
        BY <1>1
  <1>3. no[t] + 1 \in 1..MaxNo /\ no[t] + 1 \in 0..MaxNo
        BY <1>1, <1>2
  <1>4. no' \in [Tokens -> 0..MaxNo] /\ no'[t] \in 1..MaxNo
        BY <1>1, <1>3
  <1>5. PICK shown \in BOOLEAN :
          wire' = Append(wire, [token |-> t, topic |-> topic, no |-> no'[t], shown |-> shown])
        BY DEF CS!Sends
  <1>6. PICK f \in CS!Frame :
          f = [token |-> t, topic |-> topic, no |-> no'[t], shown |-> shown]
        BY <1>4 DEF CS!Frame
  <1> QED BY <1>1, <1>4, <1>5, <1>6, FrameSent

(* The history of what did not get in.                                      *)
LEMMA NotesKeepType ==
  ASSUME CS!ClobSubscriberAssumption, CS!TypeOK, NEW f, f.token \in Tokens, f.no \in 0..MaxNo,
         CS!Notes(f) \/ CS!Misses(f)
  PROVE  missed' \in [Tokens -> 0..MaxNo] /\ hole' \subseteq Tokens
  <1>1. missed \in [Tokens -> 0..MaxNo] /\ hole \subseteq Tokens /\ MaxNo \in Nat
        BY DEF CS!TypeOK, CS!ClobSubscriberAssumption
  <1>2. CASE CS!Notes(f)
        BY <1>1, <1>2 DEF CS!Notes
  <1>3. CASE CS!Misses(f)
        BY <1>1, <1>3 DEF CS!Misses
  <1> QED BY <1>2, <1>3

LEMMA MarketFrameKeepsType ==
  ASSUME CS!ClobSubscriberAssumption, CS!TypeOK, NEW skew \in Skews, CS!OnMarketFrame(skew)
  PROVE  CS!TypeOK'
  <1>1. /\ wire # << >> /\ wire' = Tail(wire)
        /\ UNCHANGED <<csLink, served, no, adapter, breaks, userLink, user_condition_ids_,
                       userTold, userServed, wanted>>
        BY DEF CS!OnMarketFrame, CS!user
  <1>2. PICK f : f = Head(wire)
        OBVIOUS
  <1>3. f \in CS!Frame /\ wire' \in Seq(CS!Frame)
        BY <1>1, <1>2, FrameTaken DEF CS!TypeOK
  <1>4. f.token \in Tokens /\ f.no \in 0..MaxNo /\ QueueCap \in Nat
        BY <1>3 DEF CS!Frame, CS!ClobSubscriberAssumption
  <1>7. missed' \in [Tokens -> 0..MaxNo] /\ hole' \subseteq Tokens
        <2>1. CS!Notes(f) \/ CS!Misses(f)
              BY <1>2 DEF CS!OnMarketFrame
        <2> QED BY <1>4, <2>1, NotesKeepType
  <1>5. CASE UNCHANGED <<token_seq_map_, told, snapshot_received_, queue>>
        BY <1>1, <1>3, <1>5, <1>7 DEF CS!TypeOK
  <1>6. CASE CS!ParseFrame(f) /\ CS!TryPush(f)
        <2>1. token_seq_map_' \in [Tokens -> 0..MaxNo]
              BY <1>4, <1>6 DEF CS!TypeOK, CS!ParseFrame
        <2>2. told' \subseteq Tokens
              BY <1>4, <1>6 DEF CS!TypeOK, CS!ParseFrame, CS!TriggerResubscribe, CS!Asks
        <2>3. snapshot_received_' \subseteq Tokens
              BY <1>4, <1>6 DEF CS!TypeOK, CS!ParseFrame
        <2>4. queue' \in Seq(CS!WssEvent) /\ Len(queue') <= QueueCap
              <3>1. queue \in Seq(CS!WssEvent) /\ Len(queue) <= QueueCap
                    BY DEF CS!TypeOK
              <3>2. PICK ev \in CS!WssEvent : ev = [token |-> f.token, topic |-> f.topic]
                    BY <1>3 DEF CS!Frame, CS!WssEvent
              <3>3. Append(queue, ev) \in Seq(CS!WssEvent) /\ Len(Append(queue, ev)) = Len(queue) + 1
                    /\ Len(queue) \in Nat
                    BY <3>1, FrameSent
              <3>4. queue' = IF Len(queue) < QueueCap THEN Append(queue, ev) ELSE queue
                    BY <1>6, <3>2 DEF CS!TryPush
              <3> QED BY <1>4, <3>1, <3>3, <3>4
        <2> QED BY <1>1, <1>3, <1>7, <2>1, <2>2, <2>3, <2>4 DEF CS!TypeOK
  <1> QED BY <1>2, <1>5, <1>6 DEF CS!OnMarketFrame

LEMMA ClobKeepsType ==
  ASSUME CS!ClobSubscriberAssumption, CS!TypeOK, [CS!Next]_(CS!vars)
  PROVE  CS!TypeOK'
  <1>0. /\ Initial \subseteq Tokens /\ MaxNo \in Nat /\ MaxBreaks \in Nat /\ QueueCap \in Nat
        /\ << >> \in Seq(CS!Frame) /\ << >> \in Seq(CS!WssEvent)
        BY DEF CS!ClobSubscriberAssumption
  <1>z. CS!Zero \in [Tokens -> 0..MaxNo]
        BY <1>0 DEF CS!Zero
  <1>1. CASE CS!Start
        BY <1>1 DEF CS!Start, CS!TypeOK, CS!Links
  <1>2. CASE CS!OnMarketConnected
        BY <1>0, <1>z, <1>2 DEF CS!OnMarketConnected, CS!TypeOK, CS!Links, CS!user
  <1>b. CASE CS!OnMarketDisconnected
        <2>1. breaks' \in 0..MaxBreaks
              BY <1>0, <1>b DEF CS!OnMarketDisconnected, CS!TypeOK
        <2> QED BY <1>0, <1>z, <1>b, <2>1 DEF CS!OnMarketDisconnected, CS!TypeOK, CS!Links, CS!user
  <1>3. CASE CS!Exchange
        <2>1. PICK t \in Tokens : CS!Answer(t) \/ CS!Change(t)
              BY <1>3 DEF CS!Exchange
        <2>2. no' \in [Tokens -> 0..MaxNo] /\ wire' \in Seq(CS!Frame)
              BY <2>1, SendsKeepType DEF CS!Answer, CS!Change
        <2> QED BY <2>1, <2>2 DEF CS!Answer, CS!Change, CS!TypeOK, CS!user
  <1>4. CASE CS!Lose
        <2>1. wire' \in Seq(CS!Frame)
              BY <1>4, FrameTaken DEF CS!Lose, CS!TypeOK
        <2>2. breaks' \in 0..MaxBreaks
              BY <1>0, <1>4 DEF CS!Lose, CS!TypeOK
        <2>3. missed' \in [Tokens -> 0..MaxNo] /\ hole' \subseteq Tokens
              <3>1. Head(wire) \in CS!Frame
                    BY <1>4, FrameTaken DEF CS!Lose, CS!TypeOK
              <3>2. Head(wire).token \in Tokens /\ Head(wire).no \in 0..MaxNo
                    BY <1>0, <3>1 DEF CS!Frame
              <3>3. CS!Misses(Head(wire))
                    BY <1>4 DEF CS!Lose
              <3> QED BY <3>2, <3>3, NotesKeepType
        <2> QED BY <1>4, <2>1, <2>2, <2>3 DEF CS!Lose, CS!TypeOK, CS!user
  <1>5. ASSUME NEW tokens \in SUBSET Tokens, CS!SubscribeMarketTokens(tokens) PROVE CS!TypeOK'
        BY <1>5 DEF CS!SubscribeMarketTokens, CS!Asks, CS!TypeOK, CS!user
  <1>6. CASE CS!Frames
        BY <1>6, MarketFrameKeepsType DEF CS!Frames
  <1>7. CASE CS!OnEvent
        <2>1. PICK f : f = Head(queue)
              OBVIOUS
        <2>2. queue # << >> /\ queue' = Tail(queue)
              BY <1>7 DEF CS!OnEvent
        <2>3. f \in CS!WssEvent /\ queue' \in Seq(CS!WssEvent) /\ Len(queue') <= QueueCap
              BY <1>0, <2>1, <2>2, FrameTaken DEF CS!TypeOK
        <2>4. adapter' \in [Tokens -> {"none", "waiting", "live"}]
              <3>1. \/ adapter' = adapter
                    \/ adapter' = [adapter EXCEPT ![f.token] = "live"]
                    \/ adapter' = [adapter EXCEPT ![f.token] = "waiting"]
                    BY <1>7, <2>1 DEF CS!OnEvent
              <3> QED BY <3>1 DEF CS!TypeOK
        <2> QED BY <1>7, <2>3, <2>4 DEF CS!OnEvent, CS!TypeOK, CS!user
  <1>8. CASE CS!OnUserConnected \/ CS!AnswerUser
        BY <1>8 DEF CS!OnUserConnected, CS!AnswerUser, CS!TypeOK, CS!Links, CS!market
  <1>9. CASE CS!OnUserDisconnected
        BY <1>0, <1>9 DEF CS!OnUserDisconnected, CS!TypeOK, CS!Links, CS!market
  <1>10. ASSUME NEW conditions \in SUBSET Conditions, CS!SubscribeUserMarkets(conditions)
         PROVE  CS!TypeOK'
        BY <1>10 DEF CS!SubscribeUserMarkets, CS!Remember, CS!Asks, CS!TypeOK, CS!market
  <1>11. CASE UNCHANGED CS!vars
        BY <1>11 DEF CS!vars, CS!market, CS!user, CS!TypeOK
  <1> QED BY <1>1, <1>2, <1>b, <1>3, <1>4, <1>5, <1>6, <1>7, <1>8, <1>9, <1>10, <1>11 DEF CS!Next

(* What the steps do to the user channel.                                   *)
LEMMA UserNext == UserInv /\ [CS!Next]_(CS!vars) => UserInv'
  <1> SUFFICES ASSUME UserInv, [CS!Next]_(CS!vars) PROVE UserInv'
      OBVIOUS
  <1>1. ASSUME UNCHANGED CS!user PROVE UserInv'
        BY <1>1 DEF CS!user, UserInv
  <1>2. CASE CS!Start
        BY <1>2 DEF CS!Start, UserInv
  <1>3. CASE CS!OnMarketConnected \/ CS!OnMarketDisconnected \/ CS!Lose \/ CS!OnEvent
        BY <1>1, <1>3 DEF CS!OnMarketConnected, CS!OnMarketDisconnected, CS!Lose, CS!OnEvent
  <1>4. CASE CS!Exchange \/ CS!Frames
        BY <1>1, <1>4 DEF CS!Exchange, CS!Answer, CS!Change, CS!Frames, CS!OnMarketFrame
  <1>5. ASSUME NEW tokens \in SUBSET Tokens, CS!SubscribeMarketTokens(tokens) PROVE UserInv'
        BY <1>1, <1>5 DEF CS!SubscribeMarketTokens
  <1>6. CASE CS!OnUserConnected
        BY <1>6 DEF CS!OnUserConnected, UserInv
  <1>7. CASE CS!OnUserDisconnected \/ CS!AnswerUser
        BY <1>7 DEF CS!OnUserDisconnected, CS!AnswerUser, UserInv
  <1>8. ASSUME NEW conditions \in SUBSET Conditions, CS!SubscribeUserMarkets(conditions)
        PROVE  UserInv'
        BY <1>8 DEF CS!SubscribeUserMarkets, CS!Remember, CS!Asks, UserInv
  <1>9. CASE UNCHANGED CS!vars
        BY <1>1, <1>9 DEF CS!vars
  <1> QED BY <1>2, <1>3, <1>4, <1>5, <1>6, <1>7, <1>8, <1>9 DEF CS!Next

ClobHolds == CS!TypeOK /\ CS!UserAsksForAll

(* Whatever condition the user channel was told of, before a connection or  *)
(* between two, is asked for on the one that is up, however often the       *)
(* connection breaks (OnUserConnected and SubscribeUserMarkets of           *)
(* PolymarketCLOBSubscriber).                                               *)
THEOREM SpecUserAsksForAll ==
  ASSUME CS!ClobSubscriberAssumption
  PROVE  CS!Spec => []ClobHolds
  <1>1. CS!Init => CS!TypeOK /\ UserInv
        <2> SUFFICES ASSUME CS!Init PROVE CS!TypeOK /\ UserInv
            OBVIOUS
        <2>1. << >> \in Seq(CS!Frame) /\ << >> \in Seq(CS!WssEvent) /\ Len(<< >>) = 0
              /\ CS!Zero \in [Tokens -> 0..MaxNo]
              /\ 0 \in 0..MaxBreaks /\ 0 <= QueueCap
              BY DEF CS!Zero, CS!ClobSubscriberAssumption
        <2>2. CS!TypeOK
              BY <2>1 DEF CS!Init, CS!TypeOK, CS!Links
        <2> QED BY <2>2 DEF CS!Init, UserInv
  <1>2. CS!TypeOK /\ UserInv /\ [CS!Next]_(CS!vars) => CS!TypeOK' /\ UserInv'
        BY ClobKeepsType, UserNext
  <1>3. CS!TypeOK /\ UserInv => ClobHolds
        BY DEF UserInv, ClobHolds, CS!UserAsksForAll
  <1> QED BY <1>1, <1>2, <1>3, PTL DEF CS!Spec

-----------------------------------------------------------------------------
(* Journal.                                                                 *)

(* What the writer is told of is in the order of its numbers, each kind     *)
(* for itself.                                                              *)
Kinds == {"line", "replace"}
InOrder(kind, s) ==
  \A i, j \in DOMAIN s : i < j /\ s[i].kind = kind /\ s[j].kind = kind => s[i].n < s[j].n
Ascending(s) == \A i, j \in DOMAIN s : i < j => s[i] < s[j]
Before(S, T) == \A m \in S, n \in T : m < n

(* Nothing is queued while a Flush waits, so it waits for all there is; the *)
(* counts are those of the items, and what it asked for is in the file or   *)
(* on its way, with nothing older behind it.                                *)
QueueInv ==
  /\ q_ \in Seq(JO!Item) /\ batch \in Seq(JO!Item) /\ Len(q_) <= WriterQueue
  /\ {fills, saves, enqueued_, processed_, taken, savedFile, requested, errors} \subseteq Nat
  /\ writer \in {"waiting", "writing", "flushing", "done", "ended"}
  /\ writer = "writing" <=> batch # << >>
  /\ writer = "waiting" => taken = 0
  /\ Len(batch) <= taken /\ enqueued_ = processed_ + taken + Len(q_)
  /\ target # JO!None => target = enqueued_
  /\ \A kind \in Kinds :
       /\ InOrder(kind, batch) /\ InOrder(kind, q_)
       /\ Before(JO!Of(kind, batch), JO!Of(kind, q_))
  /\ savedFile <= saves
  /\ \A n \in JO!Pending("replace") : savedFile < n /\ n <= saves
  /\ target # JO!None /\ requested > savedFile => requested \in JO!Pending("replace")

(* A writer that was told to stop has taken all there will ever be, and     *)
(* writes its buffer before it ends.                                        *)
StopInv ==
  /\ {journalAlive, writerStop, stopping} \subseteq BOOLEAN
  /\ stopping => writerStop /\ q_ = << >>
  /\ ~journalAlive => q_ = << >> /\ writer = "waiting" /\ lines = << >>
  /\ writer = "ended" => stopping
  /\ writer = "ended" \/ (writer = "done" /\ stopping) => lines = << >>

(* File, buffer, batch and queue are one ascending row of fills; only the   *)
(* end of the file is ever torn.                                            *)
FileLine == [n : Nat, state : {"whole", "torn", "merged"}]
TornIsLast(f) == \A i \in DOMAIN f : f[i].state = "torn" => i = Len(f)
NumbersOf(f) == {f[i].n : i \in DOMAIN f}

RowsInv ==
  /\ lines \in Seq(Nat) /\ file \in Seq(FileLine) /\ TornIsLast(file)
  /\ Ascending(lines) /\ Ascending(JO!Rows(file))
  /\ Before(NumbersOf(file), JO!ToSet(lines))
  /\ Before(NumbersOf(file) \cup JO!ToSet(lines), JO!Pending("line"))
  /\ NumbersOf(file) \cup JO!ToSet(lines) \cup JO!Pending("line") \subseteq 1..fills
  /\ JO!NoRowVanishes

(* The ring is ascending too.                                               *)
RingInv ==
  /\ fills_ring_ \in Seq(Nat) /\ Len(fills_ring_) <= kFillsRingCap
  /\ Ascending(fills_ring_) /\ JO!ToSet(fills_ring_) \subseteq 1..fills
  /\ JO!NoHoleInRing

JournalInv == QueueInv /\ StopInv /\ RowsInv /\ RingInv

-----------------------------------------------------------------------------
(* Sequences.                                                               *)

(* What an item more, and what an item less, changes.                       *)
LEMMA OfAppend ==
  ASSUME NEW s \in Seq(JO!Item), NEW x \in JO!Item, NEW kind
  PROVE  /\ Append(s, x) \in Seq(JO!Item) /\ Len(Append(s, x)) = Len(s) + 1
         /\ JO!Of(kind, Append(s, x)) = JO!Of(kind, s) \cup (IF x.kind = kind THEN {x.n} ELSE {})
         /\ /\ InOrder(kind, s)
            /\ x.kind = kind => \A n \in JO!Of(kind, s) : n < x.n
            => InOrder(kind, Append(s, x))
  <1> DEFINE t == Append(s, x)
  <1>1. /\ t \in Seq(JO!Item) /\ Len(t) = Len(s) + 1 /\ Len(s) \in Nat
        /\ DOMAIN s = 1..Len(s) /\ DOMAIN t = 1..(Len(s) + 1)
        /\ \A i \in DOMAIN s : t[i] = s[i]
        /\ t[Len(s) + 1] = x
        OBVIOUS
  <1> HIDE DEF t
  <1>2. \A i \in DOMAIN t : i \in DOMAIN s \/ i = Len(s) + 1
        BY <1>1
  <1>3. JO!ToSet(t) = JO!ToSet(s) \cup {x}
        <2>1. \A i \in DOMAIN t : t[i] \in JO!ToSet(s) \cup {x}
              BY <1>1, <1>2 DEF JO!ToSet
        <2>2. \A i \in DOMAIN s : i \in DOMAIN t /\ s[i] = t[i]
              BY <1>1
        <2>3. Len(s) + 1 \in DOMAIN t
              BY <1>1
        <2> QED BY <1>1, <2>1, <2>2, <2>3 DEF JO!ToSet
  <1>4. JO!Of(kind, t) = JO!Of(kind, s) \cup (IF x.kind = kind THEN {x.n} ELSE {})
        BY <1>3 DEF JO!Of
  <1>5. ASSUME InOrder(kind, s), x.kind = kind => \A n \in JO!Of(kind, s) : n < x.n
        PROVE  InOrder(kind, t)
        <2> SUFFICES ASSUME NEW i \in DOMAIN t, NEW j \in DOMAIN t, i < j,
                            t[i].kind = kind, t[j].kind = kind
                     PROVE  t[i].n < t[j].n
            BY DEF InOrder
        <2>1. i \in DOMAIN s
              BY <1>1, <1>2
        <2>2. CASE j \in DOMAIN s
              BY <1>1, <1>5, <2>1, <2>2 DEF InOrder
        <2>3. CASE j = Len(s) + 1
              <3>1. s[i].n \in JO!Of(kind, s)
                    BY <1>1, <2>1 DEF JO!Of, JO!ToSet
              <3> QED BY <1>1, <1>5, <2>1, <2>3, <3>1
        <2> QED BY <1>2, <2>2, <2>3
  <1> QED BY <1>1, <1>4, <1>5 DEF t

LEMMA OfTail ==
  ASSUME NEW s \in Seq(JO!Item), s # << >>, NEW kind
  PROVE  /\ Head(s) \in JO!Item /\ Tail(s) \in Seq(JO!Item) /\ Len(Tail(s)) = Len(s) - 1
         /\ JO!Of(kind, s) = JO!Of(kind, Tail(s)) \cup (IF Head(s).kind = kind THEN {Head(s).n} ELSE {})
         /\ InOrder(kind, s) =>
              /\ InOrder(kind, Tail(s))
              /\ Head(s).kind = kind => \A n \in JO!Of(kind, Tail(s)) : Head(s).n < n
  <1> DEFINE t == Tail(s)
             x == Head(s)
  <1>1. /\ t \in Seq(JO!Item) /\ Len(t) = Len(s) - 1 /\ Len(s) \in Nat \ {0}
        /\ DOMAIN s = 1..Len(s) /\ DOMAIN t = 1..(Len(s) - 1)
        /\ \A i \in DOMAIN t : t[i] = s[i + 1]
        /\ x = s[1] /\ x \in JO!Item
        OBVIOUS
  <1> HIDE DEF t, x
  <1>2. \A i \in DOMAIN s : i = 1 \/ (i - 1 \in DOMAIN t /\ t[i - 1] = s[i])
        BY <1>1
  <1>3. \A i \in DOMAIN t : i + 1 \in DOMAIN s /\ t[i] = s[i + 1] /\ i + 1 > 1
        BY <1>1
  <1>4. JO!ToSet(s) = JO!ToSet(t) \cup {x}
        <2>1. \A i \in DOMAIN s : s[i] \in JO!ToSet(t) \cup {x}
              BY <1>1, <1>2 DEF JO!ToSet
        <2>2. \A i \in DOMAIN t : t[i] \in JO!ToSet(s)
              BY <1>3 DEF JO!ToSet
        <2>3. x \in JO!ToSet(s)
              <3>1. 1 \in DOMAIN s
                    BY <1>1
              <3> QED BY <1>1, <3>1 DEF JO!ToSet
        <2> QED BY <2>1, <2>2, <2>3 DEF JO!ToSet
  <1>5. JO!Of(kind, s) = JO!Of(kind, t) \cup (IF x.kind = kind THEN {x.n} ELSE {})
        BY <1>4 DEF JO!Of
  <1>6. ASSUME InOrder(kind, s) PROVE InOrder(kind, t)
        BY <1>1, <1>3, <1>6, SMTT(30) DEF InOrder
  <1>7. ASSUME InOrder(kind, s), x.kind = kind, NEW n \in JO!Of(kind, t) PROVE x.n < n
        <2>1. PICK i \in DOMAIN t : t[i].kind = kind /\ t[i].n = n
              BY DEF JO!Of, JO!ToSet
        <2>2. i + 1 \in DOMAIN s /\ 1 \in DOMAIN s /\ 1 < i + 1 /\ s[i + 1] = t[i]
              BY <1>1, <1>3
        <2> QED BY <1>1, <1>7, <2>1, <2>2 DEF InOrder
  <1> QED BY <1>1, <1>5, <1>6, <1>7 DEF t, x

LEMMA OfEmpty ==
  ASSUME NEW kind
  PROVE  JO!Of(kind, << >>) = {} /\ InOrder(kind, << >>) /\ << >> \in Seq(JO!Item)
         /\ Len(<< >>) = 0
  BY DEF JO!Of, JO!ToSet, InOrder

(* A number more at the end.                                                *)
LEMMA AppendAscends ==
  ASSUME NEW s \in Seq(Nat), NEW x \in Nat, Ascending(s), \A n \in JO!ToSet(s) : n < x
  PROVE  /\ Append(s, x) \in Seq(Nat) /\ Len(Append(s, x)) = Len(s) + 1
         /\ Ascending(Append(s, x)) /\ JO!ToSet(Append(s, x)) = JO!ToSet(s) \cup {x}
  <1> DEFINE t == Append(s, x)
  <1>1. /\ t \in Seq(Nat) /\ Len(t) = Len(s) + 1 /\ Len(s) \in Nat
        /\ DOMAIN s = 1..Len(s) /\ DOMAIN t = 1..(Len(s) + 1)
        /\ \A i \in DOMAIN s : t[i] = s[i]
        /\ t[Len(s) + 1] = x
        OBVIOUS
  <1> HIDE DEF t
  <1>2. \A i \in DOMAIN t : i \in DOMAIN s \/ i = Len(s) + 1
        BY <1>1
  <1>3. JO!ToSet(t) = JO!ToSet(s) \cup {x}
        <2>1. \A i \in DOMAIN t : t[i] \in JO!ToSet(s) \cup {x}
              BY <1>1, <1>2 DEF JO!ToSet
        <2>2. \A i \in DOMAIN s : i \in DOMAIN t /\ s[i] = t[i]
              BY <1>1
        <2>3. Len(s) + 1 \in DOMAIN t
              BY <1>1
        <2> QED BY <1>1, <2>1, <2>2, <2>3 DEF JO!ToSet
  <1>4. Ascending(t)
        <2> SUFFICES ASSUME NEW i \in DOMAIN t, NEW j \in DOMAIN t, i < j PROVE t[i] < t[j]
            BY DEF Ascending
        <2>1. i \in DOMAIN s
              BY <1>1, <1>2
        <2>2. s[i] \in JO!ToSet(s)
              BY <2>1 DEF JO!ToSet
        <2> QED BY <1>1, <1>2, <2>1, <2>2 DEF Ascending
  <1> QED BY <1>1, <1>3, <1>4 DEF t

(* The last of a sequence, up to a number of them.                          *)
LastOfBy(t, s, d, S, cap) ==
  /\ d \in Nat /\ d <= Len(s) /\ Len(s) - d <= cap
  /\ t \in Seq(S) /\ Len(t) = Len(s) - d
  /\ \A i \in 1..(Len(s) - d) : t[i] = s[i + d]

LEMMA LastOfIs ==
  ASSUME NEW S, NEW s \in Seq(S), NEW cap \in Nat
  PROVE  \E d \in 0..Len(s) : LastOfBy(JO!LastOf(s, cap), s, d, S, cap)
  <1>1. CASE Len(s) <= cap
        <2>1. JO!LastOf(s, cap) = s
              BY <1>1 DEF JO!LastOf
        <2>2. 0 \in 0..Len(s) /\ Len(s) - 0 = Len(s) /\ \A i \in 1..Len(s) : i + 0 = i
              OBVIOUS
        <2>3. LastOfBy(JO!LastOf(s, cap), s, 0, S, cap)
              BY <1>1, <2>1, <2>2 DEF LastOfBy
        <2> QED BY <2>2, <2>3
  <1>2. CASE ~(Len(s) <= cap)
        <2> DEFINE d == Len(s) - cap
                   t == SubSeq(s, d + 1, Len(s))
        <2>1. d \in 1..Len(s) /\ Len(s) \in Nat /\ JO!LastOf(s, cap) = t
              BY <1>2 DEF JO!LastOf
        <2>2. \A i \in (d + 1)..Len(s) : s[i] \in S
              BY <2>1
        <2>3. t \in Seq(S) /\ Len(t) = Len(s) - d /\ \A i \in 1..(Len(s) - d) : t[i] = s[i + d]
              <3> HIDE DEF d
              <3>1. t \in Seq(S) /\ Len(t) = Len(s) - (d + 1) + 1
                    BY <2>1, <2>2
              <3>2. \A i \in 1..(Len(s) - d) : t[i] = s[(d + 1) + i - 1]
                    BY <2>1
              <3>3. \A i \in 1..(Len(s) - d) : (d + 1) + i - 1 = i + d
                    BY <2>1
              <3> QED BY <2>1, <3>1, <3>2, <3>3
        <2>4. Len(s) - d <= cap /\ d \in 0..Len(s)
              BY <2>1
        <2> HIDE DEF d, t
        <2>5. LastOfBy(JO!LastOf(s, cap), s, d, S, cap)
              BY <2>1, <2>3, <2>4 DEF LastOfBy
        <2> QED BY <2>4, <2>5
  <1> QED BY <1>1, <1>2

(* What a write makes of a file: a line more for each number, but for the   *)
(* first one if the file's end is torn.                                     *)
Wholes(f) == {n \in Nat : \E i \in DOMAIN f : f[i].state = "whole" /\ f[i].n = n}
Torn(f) == f # << >> /\ f[Len(f)].state = "torn"

WrittenAs(W, f, ns, d) ==
  /\ d = 1 <=> Torn(f) /\ ns # << >>
  /\ d <= Len(ns)
  /\ W \in Seq(FileLine) /\ Len(W) = Len(f) + Len(ns) - d
  /\ \A i \in 1..Len(f) : W[i].n = f[i].n /\ (f[i].state # "torn" => W[i] = f[i])
  /\ d = 1 => W[Len(f)].state = "merged"
  /\ \A k \in 1..(Len(ns) - d) : W[Len(f) + k] = [n |-> ns[k + d], state |-> "whole"]

LEMMA ConcatIs ==
  \A s, t \in Seq(FileLine) :
    /\ s \o t \in Seq(FileLine) /\ Len(s \o t) = Len(s) + Len(t)
    /\ \A i \in 1..Len(s) : (s \o t)[i] = s[i]
    /\ \A k \in 1..Len(t) : (s \o t)[Len(s) + k] = t[k]
  <1> TAKE s, t \in Seq(FileLine)
  <1> DEFINE c == s \o t
  <1>1. Len(s) \in Nat /\ Len(t) \in Nat /\ c \in Seq(FileLine) /\ Len(c) = Len(s) + Len(t)
        OBVIOUS
  <1>2. ASSUME NEW i \in 1..Len(s) PROVE c[i] = s[i]
        BY <1>1, <1>2
  <1>3. ASSUME NEW k \in 1..Len(t) PROVE c[Len(s) + k] = t[k]
        <2>1. Len(s) + k \in 1..(Len(s) + Len(t)) /\ ~(Len(s) + k <= Len(s)) /\ (Len(s) + k) - Len(s) = k
              BY <1>1
        <2> QED BY <1>1, <2>1
  <1> HIDE DEF c
  <1>4. /\ c \in Seq(FileLine) /\ Len(c) = Len(s) + Len(t)
        /\ \A i \in 1..Len(s) : c[i] = s[i]
        /\ \A k \in 1..Len(t) : c[Len(s) + k] = t[k]
        BY <1>1, <1>2, <1>3
  <1> QED BY <1>4, Zenon DEF c

LEMMA WrittenLines ==
  ASSUME NEW f \in Seq(FileLine), NEW ns \in Seq(Nat), TornIsLast(f),
         NEW W, W = JO!Written(f, ns)
  PROVE  \E d \in {0, 1} : WrittenAs(W, f, ns, d)
  <1>0. f \in Seq(FileLine)
        OBVIOUS
  <1>1. Len(f) \in Nat /\ Len(ns) \in Nat /\ DOMAIN f = 1..Len(f) /\ DOMAIN ns = 1..Len(ns)
        /\ (\A i \in 1..Len(f) : f[i] \in FileLine) /\ (\A k \in 1..Len(ns) : ns[k] \in Nat)
        OBVIOUS
  <1>2. CASE ns = << >>
        <2>1. W = f /\ Len(ns) = 0
              BY <1>2 DEF JO!Written
        <2>2. ~(Torn(f) /\ ns # << >>)
              BY <1>2
        <2>4. WrittenAs(W, f, ns, 0)
              BY <1>1, <2>1, <2>2 DEF WrittenAs
        <2> QED BY <2>4
  <1>3. CASE ns # << >> /\ Torn(f)
        <2> DEFINE a == SubSeq(f, 1, Len(f) - 1)
                   m == [f[Len(f)] EXCEPT !.state = "merged"]
                   b == [k \in 1..(Len(ns) - 1) |-> JO!Line(ns[k + 1])]
        <2>1. W = a \o <<m>> \o b
              BY <1>3 DEF JO!Written, Torn
        <2>2. Len(f) \in Nat \ {0} /\ Len(ns) \in Nat \ {0}
              BY <1>1, <1>3 DEF Torn
        <2>3. m \in FileLine /\ m.n = f[Len(f)].n /\ m.state = "merged"
              <3>1. f[Len(f)] \in FileLine
                    BY <1>1, <2>2
              <3> QED BY <3>1 DEF FileLine
        <2>4. a \in Seq(FileLine) /\ Len(a) = Len(f) - 1 /\ \A i \in 1..(Len(f) - 1) : a[i] = f[i]
              BY <1>1, <2>2
        <2>5. b \in Seq(FileLine) /\ Len(b) = Len(ns) - 1
              /\ \A k \in 1..(Len(ns) - 1) : b[k] = [n |-> ns[k + 1], state |-> "whole"]
              <3>1. \A k \in 1..(Len(ns) - 1) : k + 1 \in 1..Len(ns)
                    BY <2>2
              <3>2. \A k \in 1..(Len(ns) - 1) : JO!Line(ns[k + 1]) \in FileLine
                    BY <1>1, <3>1 DEF JO!Line, FileLine
              <3>3. Len(ns) - 1 \in Nat
                    BY <2>2
              <3> QED BY <3>2, <3>3 DEF JO!Line
        <2> HIDE DEF a, m, b
        <2>6. DEFINE c == a \o <<m>>
        <2>7. c \in Seq(FileLine) /\ Len(c) = Len(f) /\ c[Len(f)] = m
              /\ \A i \in 1..(Len(f) - 1) : c[i] = f[i]
              <3>1. <<m>> \in Seq(FileLine) /\ Len(<<m>>) = 1 /\ <<m>>[1] = m
                    BY <2>3
              <3>2. c \in Seq(FileLine) /\ Len(c) = Len(a) + 1
                    /\ \A i \in 1..(Len(a) + 1) : c[i] = IF i <= Len(a) THEN a[i] ELSE <<m>>[i - Len(a)]
                    BY <2>4, <3>1
              <3> HIDE DEF c
              <3>3. Len(a) + 1 = Len(f)
                    BY <2>2, <2>4
              <3>4. c[Len(f)] = m
                    <4>1. ~(Len(f) <= Len(a)) /\ Len(f) - Len(a) = 1 /\ Len(f) \in 1..(Len(a) + 1)
                          BY <2>2, <2>4
                    <4> QED BY <3>1, <3>2, <4>1
              <3>5. \A i \in 1..(Len(f) - 1) : c[i] = f[i]
                    BY <2>2, <2>4, <3>2, SMTT(30)
              <3> QED BY <3>2, <3>3, <3>4, <3>5
        <2> HIDE DEF c
        <2>8. W = c \o b
              BY <2>1 DEF c
        <2>9. W \in Seq(FileLine) /\ Len(W) = Len(f) + Len(ns) - 1
              /\ (\A i \in 1..Len(f) : W[i] = c[i])
              /\ \A k \in 1..(Len(ns) - 1) : W[Len(f) + k] = b[k]
              <3>q. b \in Seq(FileLine) /\ c \in Seq(FileLine)
                    BY <2>5, <2>7
              <3>r. /\ c \o b \in Seq(FileLine) /\ Len(c \o b) = Len(c) + Len(b)
                    /\ \A i \in 1..Len(c) : (c \o b)[i] = c[i]
                    /\ \A k \in 1..Len(b) : (c \o b)[Len(c) + k] = b[k]
                    BY <3>q, ConcatIs, Zenon
              <3>1. /\ W \in Seq(FileLine) /\ Len(W) = Len(c) + Len(b)
                    /\ \A i \in 1..Len(c) : W[i] = c[i]
                    /\ \A k \in 1..Len(b) : W[Len(c) + k] = b[k]
                    BY <2>8, <3>r
              <3> QED BY <2>2, <2>5, <2>7, <3>1
        <2>10. \A i \in 1..Len(f) : W[i].n = f[i].n /\ (f[i].state # "torn" => W[i] = f[i])
              <3> TAKE i \in 1..Len(f)
              <3>1. CASE i = Len(f)
                    BY <1>3, <2>3, <2>7, <2>9, <3>1 DEF Torn
              <3>2. CASE i # Len(f)
                    <4>1. i \in 1..(Len(f) - 1)
                          BY <2>2, <3>2
                    <4> QED BY <2>7, <2>9, <4>1
              <3> QED BY <3>1, <3>2
        <2>11. W[Len(f)].state = "merged"
              BY <2>2, <2>3, <2>7, <2>9
        <2>12. \A k \in 1..(Len(ns) - 1) : W[Len(f) + k] = [n |-> ns[k + 1], state |-> "whole"]
              BY <2>5, <2>9
        <2>13. 1 <= Len(ns)
              BY <2>2
        <2> QED BY <1>3, <2>9, <2>10, <2>11, <2>12, <2>13 DEF WrittenAs
  <1>4. CASE ns # << >> /\ ~Torn(f)
        <2> DEFINE b == [k \in DOMAIN ns |-> JO!Line(ns[k])]
        <2>1. W = f \o b
              BY <1>4 DEF JO!Written, Torn
        <2>2. b \in Seq(FileLine) /\ Len(b) = Len(ns)
              /\ \A k \in 1..Len(ns) : b[k] = [n |-> ns[k], state |-> "whole"]
              <3>1. \A k \in 1..Len(ns) : JO!Line(ns[k]) \in FileLine
                    BY <1>1 DEF JO!Line, FileLine
              <3> QED BY <1>1, <3>1 DEF JO!Line
        <2> HIDE DEF b
        <2>q. b \in Seq(FileLine)
              BY <2>2
        <2>r. /\ f \o b \in Seq(FileLine) /\ Len(f \o b) = Len(f) + Len(b)
              /\ \A i \in 1..Len(f) : (f \o b)[i] = f[i]
              /\ \A k \in 1..Len(b) : (f \o b)[Len(f) + k] = b[k]
              BY <1>0, <2>q, ConcatIs, Zenon
        <2>3. /\ W \in Seq(FileLine) /\ Len(W) = Len(f) + Len(b)
              /\ \A i \in 1..Len(f) : W[i] = f[i]
              /\ \A k \in 1..Len(b) : W[Len(f) + k] = b[k]
              BY <2>1, <2>r
        <2>5. \A k \in 1..Len(ns) : W[Len(f) + k] = [n |-> ns[k], state |-> "whole"]
              BY <2>2, <2>3
        <2>6. \A k \in 1..(Len(ns) - 0) : k + 0 = k /\ k \in 1..Len(ns)
              BY <1>1
        <2>7. Len(f) + Len(ns) - 0 = Len(f) + Len(ns) /\ 0 <= Len(ns)
              BY <1>1
        <2> QED BY <1>1, <1>4, <2>2, <2>3, <2>5, <2>6, <2>7 DEF WrittenAs
  <1> QED BY <1>2, <1>3, <1>4

LEMMA WrittenHolds ==
  ASSUME NEW f \in Seq(FileLine), NEW ns \in Seq(Nat), TornIsLast(f),
         NEW W, W = JO!Written(f, ns)
  PROVE  /\ W \in Seq(FileLine) /\ TornIsLast(W)
         /\ ns # << >> \/ ~Torn(f) => \A i \in DOMAIN W : W[i].state # "torn"
         /\ NumbersOf(W) \subseteq NumbersOf(f) \cup JO!ToSet(ns)
         /\ /\ Ascending(JO!Rows(f)) /\ Ascending(ns) /\ Before(NumbersOf(f), JO!ToSet(ns))
            => Ascending(JO!Rows(W))
         /\ Wholes(f) \subseteq Wholes(W)
         /\ JO!ToSet(ns) \ JO!Swallowed(f, ns) \subseteq Wholes(W)
         /\ ns = << >> => W = f
  <1>1. PICK d \in {0, 1} : WrittenAs(W, f, ns, d)
        BY WrittenLines
  <1>d. d = 0 \/ d = 1
        OBVIOUS
  <1>w. /\ d = 1 <=> Torn(f) /\ ns # << >>
        /\ d <= Len(ns)
        /\ W \in Seq(FileLine) /\ Len(W) = Len(f) + Len(ns) - d
        /\ \A i \in 1..Len(f) : W[i].n = f[i].n /\ (f[i].state # "torn" => W[i] = f[i])
        /\ d = 1 => W[Len(f)].state = "merged"
        /\ \A k \in 1..(Len(ns) - d) : W[Len(f) + k] = [n |-> ns[k + d], state |-> "whole"]
        BY <1>1 DEF WrittenAs
  <1>2. /\ Len(f) \in Nat /\ Len(ns) \in Nat /\ DOMAIN f = 1..Len(f) /\ DOMAIN ns = 1..Len(ns)
        /\ DOMAIN W = 1..(Len(f) + Len(ns) - d) /\ d \in Nat /\ d <= 1
        /\ (\A i \in 1..Len(f) : f[i] \in FileLine) /\ (\A k \in 1..Len(ns) : ns[k] \in Nat)
        BY <1>d, <1>w
  <1>3. \A i \in DOMAIN W : i \in 1..Len(f) \/ (i - Len(f) \in 1..(Len(ns) - d) /\ i = Len(f) + (i - Len(f)))
        <2> DEFINE p == Len(f)
                   q == Len(ns)
        <2>1. p \in Nat /\ q \in Nat /\ d \in Nat /\ d <= q /\ DOMAIN W = 1..(p + q - d)
              BY <1>w, <1>2
        <2> HIDE DEF p, q
        <2>2. \A i \in 1..(p + q - d) : i \in 1..p \/ (i - p \in 1..(q - d) /\ i = p + (i - p))
              BY <2>1
        <2> QED BY <2>1, <2>2 DEF p, q
  <1>4. \A k \in 1..(Len(ns) - d) : Len(f) + k \in DOMAIN W /\ k + d \in DOMAIN ns
        BY <1>d, <1>w, <1>2, SMTT(30)
  <1>5. \A i \in 1..Len(f) : i \in DOMAIN W
        BY <1>d, <1>w, <1>2
  <1>6. ASSUME ns # << >> \/ ~Torn(f), NEW i \in DOMAIN W PROVE W[i].state # "torn"
        <2>1. CASE i \in 1..Len(f)
              <3>1. CASE f[i].state # "torn"
                    BY <1>d, <1>w, <2>1, <3>1
              <3>2. CASE f[i].state = "torn"
                    <4>1. i = Len(f) /\ f # << >>
                          BY <1>2, <2>1, <3>2 DEF TornIsLast
                    <4>2. d = 1
                          BY <1>d, <1>w, <1>6, <3>2, <4>1 DEF Torn
                    <4> QED BY <1>d, <1>w, <4>1, <4>2
              <3> QED BY <3>1, <3>2
        <2>2. CASE i - Len(f) \in 1..(Len(ns) - d) /\ i = Len(f) + (i - Len(f))
              <3> DEFINE k == i - Len(f)
              <3>1. k \in 1..(Len(ns) - d) /\ i = Len(f) + k
                    BY <2>2
              <3>2. W[Len(f) + k] = [n |-> ns[k + d], state |-> "whole"]
                    BY <1>w, <3>1
              <3> HIDE DEF k
              <3> QED BY <3>1, <3>2
        <2> QED BY <1>3, <2>1, <2>2
  <1>7. ns = << >> => W = f
        BY DEF JO!Written
  <1>8. TornIsLast(W)
        <2>1. CASE ns = << >> /\ Torn(f)
              BY <1>7, <2>1
        <2>2. CASE ~(ns = << >> /\ Torn(f))
              BY <1>6, <2>2 DEF TornIsLast
        <2> QED BY <2>1, <2>2
  <1>9. \A i \in DOMAIN W : \/ i \in DOMAIN f /\ W[i].n = f[i].n
                            \/ \E k \in 1..(Len(ns) - d) : i = Len(f) + k /\ W[i].n = ns[k + d]
        <2> TAKE i \in DOMAIN W
        <2>1. CASE i \in 1..Len(f)
              BY <1>d, <1>w, <1>2, <2>1
        <2>2. CASE i - Len(f) \in 1..(Len(ns) - d) /\ i = Len(f) + (i - Len(f))
              <3> DEFINE k == i - Len(f)
              <3>1. k \in 1..(Len(ns) - d) /\ i = Len(f) + k
                    BY <2>2
              <3>2. W[Len(f) + k] = [n |-> ns[k + d], state |-> "whole"]
                    BY <1>w, <3>1
              <3> HIDE DEF k
              <3>3. W[i].n = ns[k + d]
                    BY <3>1, <3>2
              <3> QED BY <3>1, <3>3
        <2> QED BY <1>3, <2>1, <2>2
  <1>10. NumbersOf(W) \subseteq NumbersOf(f) \cup JO!ToSet(ns)
        <2>1. ASSUME NEW i \in DOMAIN W PROVE W[i].n \in NumbersOf(f) \cup JO!ToSet(ns)
              BY <1>4, <1>9 DEF NumbersOf, JO!ToSet
        <2> QED BY <2>1 DEF NumbersOf
  <1>11. ASSUME Ascending(JO!Rows(f)), Ascending(ns), Before(NumbersOf(f), JO!ToSet(ns))
         PROVE  Ascending(JO!Rows(W))
        <2>1. \A i, j \in DOMAIN f : i < j => f[i].n < f[j].n
              BY <1>11 DEF Ascending, JO!Rows
        <2>2. ASSUME NEW i \in DOMAIN W, NEW j \in DOMAIN W, i < j PROVE W[i].n < W[j].n
              <3>1. CASE i \in DOMAIN f /\ W[i].n = f[i].n /\ j \in DOMAIN f /\ W[j].n = f[j].n
                    BY <2>1, <2>2, <3>1
              <3>2. CASE /\ i \in DOMAIN f /\ W[i].n = f[i].n
                         /\ \E k \in 1..(Len(ns) - d) : j = Len(f) + k /\ W[j].n = ns[k + d]
                    <4>1. W[i].n \in NumbersOf(f) /\ W[j].n \in JO!ToSet(ns)
                          BY <1>4, <3>2 DEF NumbersOf, JO!ToSet
                    <4> QED BY <1>11, <4>1 DEF Before
              <3>3. CASE \E k \in 1..(Len(ns) - d) : i = Len(f) + k /\ W[i].n = ns[k + d]
                    <4>1. PICK k \in 1..(Len(ns) - d) : i = Len(f) + k /\ W[i].n = ns[k + d]
                          BY <3>3
                    <4>2. j \notin DOMAIN f
                          BY <1>2, <2>2, <4>1
                    <4>3. PICK l \in 1..(Len(ns) - d) : j = Len(f) + l /\ W[j].n = ns[l + d]
                          BY <1>9, <4>2
                    <4>4. k + d < l + d
                          BY <1>2, <2>2, <4>1, <4>3
                    <4> QED BY <1>4, <1>11, <4>1, <4>3, <4>4 DEF Ascending
              <3> QED BY <1>9, <3>1, <3>2, <3>3
        <2> QED BY <2>2 DEF Ascending, JO!Rows
  <1>12. Wholes(f) \subseteq Wholes(W)
        <2> SUFFICES ASSUME NEW n \in Nat, NEW i \in DOMAIN f, f[i].state = "whole", f[i].n = n
                     PROVE  n \in Wholes(W)
            BY DEF Wholes
        <2>1. W[i] = f[i] /\ i \in DOMAIN W
              BY <1>d, <1>w, <1>2, <1>5
        <2> QED BY <2>1 DEF Wholes
  <1>13. JO!ToSet(ns) \ JO!Swallowed(f, ns) \subseteq Wholes(W)
        <2> SUFFICES ASSUME NEW k \in DOMAIN ns, ns[k] \notin JO!Swallowed(f, ns)
                     PROVE  ns[k] \in Wholes(W)
            BY DEF JO!ToSet
        <2>1. ns # << >> /\ Head(ns) = ns[1]
              BY <1>2
        <2>2. k - d \in 1..(Len(ns) - d)
              <3>1. d = 1 => k # 1
                    BY <1>d, <1>w, <2>1 DEF JO!Swallowed, Torn
              <3> QED BY <1>2, <3>1
        <2>3. W[Len(f) + (k - d)] = [n |-> ns[(k - d) + d], state |-> "whole"] /\ (k - d) + d = k
              <3> DEFINE l == k - d
              <3>1. l \in 1..(Len(ns) - d) /\ l + d = k
                    BY <1>2, <2>2
              <3> HIDE DEF l
              <3>2. W[Len(f) + l] = [n |-> ns[l + d], state |-> "whole"]
                    BY <1>w, <3>1
              <3> QED BY <3>1, <3>2 DEF l
        <2>4. Len(f) + (k - d) \in DOMAIN W
              BY <1>4, <2>2
        <2> QED BY <1>2, <2>3, <2>4, SMTT(30) DEF Wholes
  <1> QED BY <1>w, <1>6, <1>7, <1>8, <1>10, <1>11, <1>12, <1>13

LEMMA OnDiskIs ==
  ASSUME file \in Seq(FileLine)
  PROVE  JO!OnDisk = Wholes(file)
  <1>1. \A i \in DOMAIN file : file[i].n \in Nat
        <2>1. \A i \in DOMAIN file : file[i] \in FileLine
              OBVIOUS
        <2> QED BY <2>1 DEF FileLine
  <1> QED BY <1>1 DEF JO!OnDisk, Wholes, JO!ToSet

(* The last of an ascending row: what is above one of them is one of them.  *)
LEMMA LastAscends ==
  ASSUME NEW s \in Seq(Nat), Ascending(s), NEW cap \in Nat, NEW t, t = JO!LastOf(s, cap)
  PROVE  /\ t \in Seq(Nat) /\ Len(t) <= cap /\ Ascending(t) /\ JO!ToSet(t) \subseteq JO!ToSet(s)
         /\ \A n \in JO!ToSet(t), m \in JO!ToSet(s) : n <= m => m \in JO!ToSet(t)
  <1>1. PICK d \in 0..Len(s) : LastOfBy(JO!LastOf(s, cap), s, d, Nat, cap)
        BY LastOfIs
  <1>2. /\ t \in Seq(Nat) /\ Len(t) = Len(s) - d /\ Len(s) - d <= cap
        /\ d \in Nat /\ d <= Len(s)
        /\ \A i \in 1..(Len(s) - d) : t[i] = s[i + d]
        BY <1>1 DEF LastOfBy
  <1>s. /\ Len(s) \in Nat /\ DOMAIN s = 1..Len(s) /\ DOMAIN t = 1..(Len(s) - d)
        /\ (\A i \in DOMAIN s : s[i] \in Nat) /\ d \in Nat /\ d <= Len(s)
        BY <1>2
  <1>3. \A i \in DOMAIN t : i + d \in DOMAIN s /\ t[i] = s[i + d]
        <2> DEFINE p == Len(s)
        <2>1. p \in Nat /\ d \in Nat /\ d <= p /\ DOMAIN s = 1..p /\ DOMAIN t = 1..(p - d)
              BY <1>s
        <2> HIDE DEF p
        <2>2. \A i \in 1..(p - d) : i + d \in 1..p
              BY <2>1
        <2> QED BY <1>2, <2>1, <2>2 DEF p
  <1>4. Ascending(t)
        BY <1>s, <1>3 DEF Ascending
  <1>5. JO!ToSet(t) \subseteq JO!ToSet(s)
        BY <1>3 DEF JO!ToSet
  <1>6. ASSUME NEW i \in DOMAIN t, NEW k \in DOMAIN s, t[i] <= s[k] PROVE s[k] \in JO!ToSet(t)
        <2>1. i + d <= k
              <3> SUFFICES ASSUME ~(i + d <= k) PROVE FALSE
                  OBVIOUS
              <3>1. i + d \in DOMAIN s /\ t[i] = s[i + d] /\ k < i + d
                    BY <1>s, <1>3
              <3>2. s[k] < s[i + d] /\ s[k] \in Nat /\ s[i + d] \in Nat
                    BY <1>s, <3>1 DEF Ascending
              <3> QED BY <1>6, <3>1, <3>2
        <2>2. k - d \in DOMAIN t /\ (k - d) + d = k
              BY <1>s, <2>1, SMTT(30)
        <2>3. t[k - d] = s[k]
              BY <1>3, <2>2
        <2> QED BY <2>2, <2>3 DEF JO!ToSet
  <1>7. \A n \in JO!ToSet(t), m \in JO!ToSet(s) : n <= m => m \in JO!ToSet(t)
        BY <1>6 DEF JO!ToSet
  <1> QED BY <1>2, <1>4, <1>5, <1>7

(* The largest of some numbers up to a bound.                               *)
LEMMA MostOfRange ==
  ASSUME NEW n \in Nat, NEW S, S \subseteq 0..n, S # {}
  PROVE  \E x \in S : \A y \in S : x >= y
  <1>1. IsFiniteSet(S)
        <2>1. IsFiniteSet(0..n)
              BY FS_Interval
        <2> QED BY <2>1, FS_Subset
  <1> DEFINE f == [x \in S |-> x]
  <1>2. \A x \in S : f[x] \in Int
        OBVIOUS
  <1>3. PICK m \in S : \A x \in S : f[x] <= f[m]
        <2> HIDE DEF f
        <2> QED BY <1>1, <1>2, FiniteHasMost
  <1> QED BY <1>3

(* What the parts of the invariant say of the numbers' types.               *)
LEMMA JournalTypes ==
  ASSUME JournalInv
  PROVE  /\ \A kind : JO!Of(kind, q_) \subseteq Nat /\ JO!Of(kind, batch) \subseteq Nat
         /\ \A kind : JO!Pending(kind) = JO!Of(kind, batch) \cup JO!Of(kind, q_)
         /\ NumbersOf(file) \subseteq Nat /\ JO!ToSet(lines) \subseteq Nat
         /\ fills \in Nat /\ saves \in Nat /\ JO!OnDisk = Wholes(file)
         /\ q_ = << >> => \A kind : JO!Of(kind, q_) = {}
         /\ batch = << >> => \A kind : JO!Of(kind, batch) = {}
  <1>1. ASSUME NEW s \in Seq(JO!Item), NEW kind PROVE JO!Of(kind, s) \subseteq Nat
        <2>1. \A i \in DOMAIN s : s[i] \in JO!Item
              OBVIOUS
        <2> QED BY <2>1 DEF JO!Of, JO!ToSet, JO!Item
  <1>2. q_ \in Seq(JO!Item) /\ batch \in Seq(JO!Item) /\ fills \in Nat /\ saves \in Nat
        BY DEF JournalInv, QueueInv
  <1>3. lines \in Seq(Nat) /\ file \in Seq(FileLine)
        BY DEF JournalInv, RowsInv
  <1>4. \A i \in DOMAIN file : file[i] \in FileLine
        BY <1>3
  <1>5. \A i \in DOMAIN lines : lines[i] \in Nat
        BY <1>3
  <1>6. JO!Of("line", << >>) = {} /\ \A kind : JO!Of(kind, << >>) = {}
        BY OfEmpty
  <1>7. \A kind : JO!Of(kind, q_) \subseteq Nat /\ JO!Of(kind, batch) \subseteq Nat
        BY <1>1, <1>2
  <1>8. NumbersOf(file) \subseteq Nat
        BY <1>4 DEF NumbersOf, FileLine
  <1>9. JO!ToSet(lines) \subseteq Nat
        BY <1>5 DEF JO!ToSet
  <1> QED BY <1>2, <1>3, <1>6, <1>7, <1>8, <1>9, OnDiskIs DEF JO!Pending

-----------------------------------------------------------------------------
(* The steps.                                                               *)
LEMMA JournalInit ==
  ASSUME JO!JournalAssumption, JO!Init
  PROVE  JournalInv
  <1>1. \A kind : JO!Of(kind, << >>) = {} /\ InOrder(kind, << >>) /\ << >> \in Seq(JO!Item)
                  /\ Len(<< >>) = 0
        BY OfEmpty
  <1>2. /\ << >> \in Seq(Nat) /\ << >> \in Seq(FileLine) /\ << >> \in Seq(JO!Item)
        /\ Len(<< >>) = 0 /\ DOMAIN << >> = {}
        OBVIOUS
  <1>3. Ascending(<< >>) /\ JO!ToSet(<< >>) = {} /\ TornIsLast(<< >>) /\ NumbersOf(<< >>) = {}
        /\ JO!Rows(<< >>) = << >>
        BY DEF Ascending, JO!ToSet, TornIsLast, NumbersOf, JO!Rows
  <1>4. WriterQueue \in Nat /\ kFillsRingCap \in Nat
        BY DEF JO!JournalAssumption
  <1>5. /\ journalAlive = TRUE /\ fills = 0 /\ fills_ring_ = << >> /\ saves = 0
        /\ q_ = << >> /\ enqueued_ = 0 /\ processed_ = 0 /\ writerStop = FALSE
        /\ writer = "waiting" /\ batch = << >> /\ taken = 0 /\ stopping = FALSE /\ lines = << >>
        /\ target = JO!None /\ file = << >> /\ savedFile = 0
        /\ requested = 0 /\ crashes = 0 /\ errors = 0
        BY DEF JO!Init
  <1>6. QueueInv
        BY <1>1, <1>2, <1>4, <1>5 DEF QueueInv, Before, JO!Pending
  <1>7. StopInv
        BY <1>5 DEF StopInv
  <1>8. RowsInv
        <2>1. JO!NoRowVanishes
              BY <1>5 DEF JO!NoRowVanishes
        <2> QED BY <1>1, <1>2, <1>3, <1>5, <2>1 DEF RowsInv, Before, JO!Pending
  <1>9. RingInv
        BY <1>2, <1>3, <1>4, <1>5 DEF RingInv, JO!NoHoleInRing
  <1> QED BY <1>6, <1>7, <1>8, <1>9 DEF JournalInv

(* One more item, behind all the others of its kind.                        *)
LEMMA EnqueueIs ==
  ASSUME QueueInv, NEW item \in JO!Item, JO!Enqueue(item), target = JO!None,
         UNCHANGED <<batch, processed_, writer, taken, target, requested, errors, savedFile>>,
         {fills', saves'} \subseteq Nat, savedFile <= saves', JO!JournalAssumption,
         \A n \in JO!Pending(item.kind) : n < item.n,
         \A n \in JO!Pending("replace") : n <= saves',
         item.kind = "replace" => savedFile < item.n /\ item.n <= saves'
  PROVE  /\ QueueInv'
         /\ \A kind : JO!Pending(kind)' \subseteq JO!Pending(kind) \cup
                        (IF item.kind = kind THEN {item.n} ELSE {})
         /\ \A kind : JO!Pending(kind) \subseteq JO!Pending(kind)'
         /\ Len(q_) < WriterQueue => item.n \in JO!Pending(item.kind)'
  <1>1. /\ q_ \in Seq(JO!Item) /\ batch \in Seq(JO!Item) /\ Len(q_) <= WriterQueue
        /\ {enqueued_, processed_, taken, savedFile, requested, errors} \subseteq Nat
        /\ enqueued_ = processed_ + taken + Len(q_) /\ Len(q_) \in Nat /\ Len(batch) <= taken
        BY DEF QueueInv
  <1>2. WriterQueue \in Nat
        BY DEF JO!JournalAssumption
  <1>3. CASE UNCHANGED <<q_, enqueued_>> /\ Len(q_) >= WriterQueue
        <2>1. \A kind : JO!Pending(kind)' = JO!Pending(kind) /\ JO!Of(kind, q_)' = JO!Of(kind, q_)
                        /\ JO!Of(kind, batch)' = JO!Of(kind, batch)
                        /\ InOrder(kind, q_)' = InOrder(kind, q_)
                        /\ InOrder(kind, batch)' = InOrder(kind, batch)
              BY <1>3 DEF JO!Pending, JO!Of, InOrder
        <2>2. QueueInv'
              BY <1>1, <1>3, <2>1 DEF QueueInv
        <2> QED BY <1>1, <1>2, <1>3, <2>1, <2>2
  <1>4. CASE q_' = Append(q_, item) /\ enqueued_' = enqueued_ + 1 /\ ~(Len(q_) >= WriterQueue)
        <2>1. \A kind : JO!Pending(kind) = JO!Of(kind, batch) \cup JO!Of(kind, q_)
                        /\ JO!Pending(kind)' = JO!Of(kind, batch) \cup JO!Of(kind, q_')
              BY DEF JO!Pending, JO!Of
        <2>2. ASSUME NEW kind
              PROVE  /\ q_' \in Seq(JO!Item) /\ Len(q_') = Len(q_) + 1
                     /\ JO!Of(kind, q_') = JO!Of(kind, q_) \cup (IF item.kind = kind THEN {item.n} ELSE {})
                     /\ InOrder(kind, q_) => InOrder(kind, q_')
              <3>1. item.kind = kind => \A n \in JO!Of(kind, q_) : n < item.n
                    BY <2>1
              <3> QED BY <1>1, <1>4, <3>1, OfAppend
        <2>3. ASSUME NEW kind \in Kinds
              PROVE  /\ InOrder(kind, batch)' /\ InOrder(kind, q_)'
                     /\ Before(JO!Of(kind, batch), JO!Of(kind, q_))'
              <3>1. InOrder(kind, batch) /\ InOrder(kind, q_)
                    /\ Before(JO!Of(kind, batch), JO!Of(kind, q_))
                    BY DEF QueueInv
              <3>2. InOrder(kind, batch') /\ InOrder(kind, q_')
                    BY <2>2, <3>1
              <3>3. Before(JO!Of(kind, batch), JO!Of(kind, q_'))
                    BY <2>1, <2>2, <3>1 DEF Before
              <3>4. JO!Of(kind, batch') = JO!Of(kind, batch)
                    BY DEF JO!Of
              <3> QED BY <3>2, <3>3, <3>4 DEF InOrder, JO!Of
        <2>4. \A n \in JO!Pending("replace")' : savedFile < n /\ n <= saves'
              BY <2>1, <2>2 DEF QueueInv
        <2>5. Len(q_') <= WriterQueue /\ enqueued_' = processed_' + taken' + Len(q_') /\ enqueued_' \in Nat
              <3>1. q_' \in Seq(JO!Item) /\ Len(q_') = Len(q_) + 1
                    BY <2>2
              <3> QED BY <1>1, <1>2, <1>4, <3>1, SMTT(30)
        <2>6. QueueInv'
              BY <1>1, <2>2, <2>3, <2>4, <2>5 DEF QueueInv
        <2> QED BY <2>1, <2>2, <2>6
  <1> QED BY <1>3, <1>4 DEF JO!Enqueue


(* What a step that leaves a part's variables alone leaves of the part.     *)
LEMMA QueueStands ==
  ASSUME QueueInv,
         UNCHANGED <<fills, saves, q_, batch, enqueued_, processed_, taken, savedFile>>,
         errors' \in Nat,
         writer' = writer \/ {writer, writer'} \subseteq {"flushing", "done", "ended"},
         \/ UNCHANGED <<target, requested>>
         \/ target' = JO!None /\ requested' = 0
  PROVE  QueueInv'
  <1>1. \A kind : JO!Of(kind, q_)' = JO!Of(kind, q_) /\ JO!Of(kind, batch)' = JO!Of(kind, batch)
                  /\ JO!Pending(kind)' = JO!Pending(kind)
                  /\ InOrder(kind, q_)' = InOrder(kind, q_)
                  /\ InOrder(kind, batch)' = InOrder(kind, batch)
        BY DEF JO!Of, JO!Pending, InOrder
  <1>2. requested' \in Nat /\ (target' # JO!None => UNCHANGED <<target, requested>>)
        BY SMTT(30) DEF QueueInv
  <1>3. /\ writer' \in {"waiting", "writing", "flushing", "done", "ended"}
        /\ writer' = "writing" <=> batch' # << >>
        /\ writer' = "waiting" => taken' = 0
        BY DEF QueueInv
  <1> QED BY <1>1, <1>2, <1>3, ZenonT(60) DEF QueueInv, Before

LEMMA RowsStand ==
  ASSUME RowsInv, UNCHANGED <<lines, file, fills>>, fillsLost \subseteq fillsLost',
         JO!Pending("line")' = JO!Pending("line"),
         \/ writer' # "ended" \/ writer' = writer
         \/ JO!ToSet(lines) \cup JO!Pending("line") = {}
  PROVE  RowsInv'
  <1>1. JO!OnDisk' = JO!OnDisk /\ JO!ToSet(lines)' = JO!ToSet(lines)
        BY DEF JO!OnDisk, JO!ToSet
  <1>2. JO!NoRowVanishes'
        BY <1>1 DEF RowsInv, JO!NoRowVanishes
  <1> QED BY <1>1, <1>2 DEF RowsInv, Before, TornIsLast, Ascending, NumbersOf, JO!Rows

LEMMA RingStands ==
  ASSUME RingInv, UNCHANGED <<fills_ring_, fills, journalAlive>>, fillsLost \subseteq fillsLost'
  PROVE  RingInv'
  <1>1. JO!ToSet(fills_ring_)' = JO!ToSet(fills_ring_)
        BY DEF JO!ToSet
  <1> QED BY <1>1 DEF RingInv, JO!NoHoleInRing, Ascending

LEMMA PendingStands ==
  ASSUME UNCHANGED <<q_, batch>>
  PROVE  \A kind : JO!Pending(kind)' = JO!Pending(kind)
  BY DEF JO!Pending, JO!Of

(* A fill is the youngest row there is; it enters the ring, and the queue   *)
(* unless that is full.                                                     *)
LEMMA AppendLineKeeps ==
  ASSUME JO!JournalAssumption, JournalInv, JO!AppendLine
  PROVE  JournalInv'
  <1>0. PICK n \in Nat : n = fills + 1
        BY DEF JournalInv, QueueInv
  <1> DEFINE item == [kind |-> "line", n |-> n]
  <1>1. /\ journalAlive /\ ~writerStop /\ target = JO!None /\ fills' = n
        /\ fills_ring_' = JO!LastOf(Append(fills_ring_, n), kFillsRingCap)
        /\ JO!Enqueue(item)
        /\ fillsLost' = IF Len(q_) >= WriterQueue THEN fillsLost \cup {n} ELSE fillsLost
        /\ UNCHANGED <<journalAlive, saves, processed_, writerStop, writer, batch, taken,
                       stopping, lines, target, file, savedFile, requested, errors>>
        BY <1>0 DEF JO!AppendLine, JO!Free, JO!thread, JO!disk, JO!bounds
  <1>2. QueueInv /\ StopInv /\ RowsInv /\ RingInv
        BY DEF JournalInv
  <1>3. /\ fills \in Nat /\ saves \in Nat /\ n \in Nat /\ savedFile <= saves
        /\ n > fills /\ item \in JO!Item /\ item.kind = "line" /\ item.n = n
        BY <1>0, <1>2, SMTT(30) DEF QueueInv, JO!Item
  <1>4. /\ \A m \in JO!Pending("line") : m < n
        /\ \A m \in JO!Pending("replace") : m <= saves'
        /\ \A m \in NumbersOf(file) \cup JO!ToSet(lines) : m < n
        /\ \A m \in JO!ToSet(fills_ring_) : m < n
        <2>1. /\ \A m \in JO!Pending("line") : m \in 1..fills
              /\ \A m \in NumbersOf(file) \cup JO!ToSet(lines) : m \in 1..fills
              /\ \A m \in JO!ToSet(fills_ring_) : m \in 1..fills
              BY <1>2 DEF RowsInv, RingInv
        <2>2. \A m \in 1..fills : m < n
              BY <1>3
        <2>3. \A m \in JO!Pending("replace") : m <= saves
              BY <1>2 DEF QueueInv
        <2> QED BY <1>1, <2>1, <2>2, <2>3
  <1> HIDE DEF item
  <1>5. /\ QueueInv'
        /\ \A kind : JO!Pending(kind)' \subseteq JO!Pending(kind) \cup
                        (IF item.kind = kind THEN {item.n} ELSE {})
        /\ \A kind : JO!Pending(kind) \subseteq JO!Pending(kind)'
        /\ Len(q_) < WriterQueue => item.n \in JO!Pending(item.kind)'
        <2>1. {fills', saves'} \subseteq Nat /\ savedFile <= saves'
              BY <1>1, <1>3
        <2>2. /\ \A m \in JO!Pending(item.kind) : m < item.n
              /\ item.kind = "replace" => savedFile < item.n /\ item.n <= saves'
              BY <1>3, <1>4
        <2> QED BY <1>1, <1>2, <1>3, <1>4, <2>1, <2>2, EnqueueIs
  <1>6. StopInv'
        BY <1>1, <1>2 DEF StopInv
  <1>7. /\ JO!Pending("line")' \subseteq JO!Pending("line") \cup {n}
        /\ JO!Pending("line") \subseteq JO!Pending("line")'
        /\ n \in JO!Pending("line")' \/ n \in fillsLost'
        <2>1. Len(q_) \in Nat /\ WriterQueue \in Nat
              BY <1>2 DEF QueueInv, JO!JournalAssumption
        <2>2. CASE Len(q_) >= WriterQueue
              BY <1>1, <1>3, <1>5, <2>2
        <2>3. CASE Len(q_) < WriterQueue
              BY <1>3, <1>5, <2>3
        <2> QED BY <2>1, <2>2, <2>3
  <1>8. 1..fills' \subseteq 1..fills \cup {n} /\ 1..fills \subseteq 1..fills' /\ n \in 1..fills'
        BY <1>0, <1>1, <1>3
  <1>9. RowsInv'
        <2>1. /\ JO!OnDisk' = JO!OnDisk /\ JO!ToSet(lines)' = JO!ToSet(lines)
              /\ NumbersOf(file)' = NumbersOf(file) /\ JO!Rows(file)' = JO!Rows(file)
              BY <1>1 DEF JO!OnDisk, JO!ToSet, NumbersOf, JO!Rows
        <2>2. writer # "ended" /\ fillsLost \subseteq fillsLost'
              BY <1>1, <1>2 DEF StopInv
        <2>3. JO!NoRowVanishes'
              BY <1>1, <1>2, <1>7, <1>8, <2>1, <2>2 DEF RowsInv, JO!NoRowVanishes
        <2>4. Before(NumbersOf(file) \cup JO!ToSet(lines), JO!Pending("line"))'
              BY <1>2, <1>4, <1>7, <2>1 DEF RowsInv, Before
        <2>5. (NumbersOf(file) \cup JO!ToSet(lines) \cup JO!Pending("line") \subseteq 1..fills)'
              BY <1>2, <1>7, <1>8, <2>1 DEF RowsInv
        <2> QED BY <1>1, <1>2, <2>1, <2>3, <2>4, <2>5 DEF RowsInv, Before, TornIsLast, Ascending
  <1>10. RingInv'
        <2> DEFINE a == Append(fills_ring_, n)
                   t == JO!LastOf(a, kFillsRingCap)
        <2>1. fills_ring_ \in Seq(Nat) /\ Ascending(fills_ring_)
              BY <1>2 DEF RingInv
        <2>2. a \in Seq(Nat) /\ Ascending(a) /\ JO!ToSet(a) = JO!ToSet(fills_ring_) \cup {n}
              BY <1>3, <1>4, <2>1, AppendAscends
        <2> HIDE DEF a
        <2>3. /\ t \in Seq(Nat) /\ Len(t) <= kFillsRingCap /\ Ascending(t)
              /\ JO!ToSet(t) \subseteq JO!ToSet(a)
              /\ \A k \in JO!ToSet(t), m \in JO!ToSet(a) : k <= m => m \in JO!ToSet(t)
              <3>1. kFillsRingCap \in Nat
                    BY DEF JO!JournalAssumption
              <3> HIDE DEF t
              <3>2. t = JO!LastOf(a, kFillsRingCap)
                    BY DEF t
              <3> QED BY <2>2, <3>1, <3>2, LastAscends
        <2>4. fills_ring_' = t
              BY <1>1 DEF a
        <2> HIDE DEF t
        <2>5. \A m \in JO!ToSet(a) : m \in Nat /\ m \in 1..fills'
              BY <1>2, <1>8, <2>2 DEF RingInv
        <2>6. \A k \in JO!ToSet(t) : k..fills' \subseteq JO!ToSet(t) \cup fillsLost'
              <3> SUFFICES ASSUME NEW k \in JO!ToSet(t), NEW m \in k..fills', m \notin fillsLost'
                           PROVE  m \in JO!ToSet(t)
                  OBVIOUS
              <3>1. k \in JO!ToSet(a) /\ k \in Nat /\ k <= m /\ m <= fills' /\ m \in Nat
                    BY <1>1, <1>3, <2>3, <2>5
              <3>2. CASE m = n
                    BY <2>2, <2>3, <3>1, <3>2
              <3>3. CASE m # n
                    <4>1. m \in k..fills /\ k \in JO!ToSet(fills_ring_)
                          BY <1>1, <1>3, <2>2, <1>0, <3>1, <3>3
                    <4>2. m \in JO!ToSet(fills_ring_)
                          BY <1>1, <1>2, <4>1 DEF RingInv, JO!NoHoleInRing
                    <4> QED BY <2>2, <2>3, <3>1, <4>2
              <3> QED BY <3>2, <3>3
        <2>7. JO!NoHoleInRing'
              <3>1. JO!ToSet(fills_ring_)' = JO!ToSet(t)
                    BY <2>4 DEF JO!ToSet
              <3> QED BY <2>6, <3>1 DEF JO!NoHoleInRing
        <2>8. JO!ToSet(t) \subseteq 1..fills'
              BY <2>3, <2>5
        <2> QED BY <2>3, <2>4, <2>7, <2>8 DEF RingInv, Ascending, JO!ToSet
  <1> QED BY <1>5, <1>6, <1>9, <1>10 DEF JournalInv

LEMMA WriteFileAtomicKeeps ==
  ASSUME JO!JournalAssumption, JournalInv, JO!WriteFileAtomic
  PROVE  JournalInv'
  <1>0. PICK n \in Nat : n = saves + 1
        BY DEF JournalInv, QueueInv
  <1> DEFINE item == [kind |-> "replace", n |-> n]
  <1>1. /\ journalAlive /\ ~writerStop /\ target = JO!None /\ saves' = n /\ JO!Enqueue(item)
        /\ UNCHANGED <<journalAlive, fills, fills_ring_, processed_, writerStop, writer, batch,
                       taken, stopping, lines, target, file, savedFile, fillsLost, requested,
                       errors>>
        BY <1>0 DEF JO!WriteFileAtomic, JO!Free, JO!thread, JO!disk, JO!bounds
  <1>2. QueueInv /\ StopInv /\ RowsInv /\ RingInv
        BY DEF JournalInv
  <1>3. /\ fills \in Nat /\ saves \in Nat /\ savedFile \in Nat /\ n \in Nat /\ savedFile < n
        /\ n > saves /\ item \in JO!Item /\ item.kind = "replace" /\ item.n = n
        BY <1>0, <1>2, SMTT(30) DEF QueueInv, JO!Item
  <1>4. \A m \in JO!Pending("replace") : m < n /\ m <= saves'
        <2>1. \A m \in JO!Pending("replace") : m <= saves /\ m \in Nat
              BY <1>2, JournalTypes DEF QueueInv
        <2> QED BY <1>1, <1>3, <2>1
  <1> HIDE DEF item
  <1>5. /\ QueueInv'
        /\ \A kind : JO!Pending(kind)' \subseteq JO!Pending(kind) \cup
                        (IF item.kind = kind THEN {item.n} ELSE {})
        /\ \A kind : JO!Pending(kind) \subseteq JO!Pending(kind)'
        <2>1. {fills', saves'} \subseteq Nat /\ savedFile <= saves' /\ item.n <= saves'
              BY <1>1, <1>3
        <2> QED BY <1>1, <1>2, <1>3, <1>4, <2>1, EnqueueIs
  <1>6. StopInv'
        BY <1>1, <1>2 DEF StopInv
  <1>7. JO!Pending("line")' = JO!Pending("line")
        BY <1>3, <1>5
  <1>8. RowsInv'
        BY <1>1, <1>2, <1>7, RowsStand
  <1>9. RingInv'
        BY <1>1, <1>2, RingStands
  <1> QED BY <1>5, <1>6, <1>8, <1>9 DEF JournalInv

(* A Flush asks for the youngest snapshot on its way.                       *)
LEMMA FlushKeeps ==
  ASSUME JournalInv, JO!Flush
  PROVE  JournalInv'
  <1> DEFINE P == JO!Pending("replace")
  <1>1. UNCHANGED <<journalAlive, fills, fills_ring_, saves, q_, enqueued_, processed_, writerStop,
                    writer, batch, taken, stopping, lines, file, savedFile, fillsLost, errors>>
        /\ target' = enqueued_ /\ requested' = JO!Max({0} \cup P)
        BY DEF JO!Flush, JO!queue, JO!thread, JO!disk, JO!bounds
  <1>2. QueueInv /\ StopInv /\ RowsInv /\ RingInv /\ saves \in Nat /\ savedFile \in Nat
        BY DEF JournalInv, QueueInv
  <1>3. P \subseteq 0..saves
        BY <1>2, JournalTypes DEF QueueInv
  <1>4. requested' \in {0} \cup P
        <2> HIDE DEF P
        <2>1. {0} \cup P \subseteq 0..saves /\ {0} \cup P # {}
              BY <1>2, <1>3
        <2>2. JO!Max({0} \cup P) \in {0} \cup P
              BY <1>2, <2>1, MostOfRange DEF JO!Max
        <2> QED BY <1>1, <2>2
  <1>5. requested' \in Nat /\ (requested' > savedFile => requested' \in P)
        BY <1>2, <1>3, <1>4
  <1>6. \A kind : JO!Of(kind, q_)' = JO!Of(kind, q_) /\ JO!Of(kind, batch)' = JO!Of(kind, batch)
                  /\ JO!Pending(kind)' = JO!Pending(kind)
                  /\ InOrder(kind, q_)' = InOrder(kind, q_)
                  /\ InOrder(kind, batch)' = InOrder(kind, batch)
        BY <1>1 DEF JO!Of, JO!Pending, InOrder
  <1>7. QueueInv'
        BY <1>1, <1>2, <1>5, <1>6 DEF QueueInv, Before
  <1>8. StopInv'
        BY <1>1, <1>2 DEF StopInv
  <1>9. RowsInv' /\ RingInv'
        BY <1>1, <1>2, <1>6, RowsStand, RingStands
  <1> QED BY <1>7, <1>8, <1>9 DEF JournalInv


(* The queue changes hands.                                                 *)
LEMMA TakeBatchKeeps ==
  ASSUME JO!JournalAssumption, JournalInv, JO!TakeBatch
  PROVE  JournalInv'
  <1>1. /\ writer = "waiting" /\ writer' = IF q_ = << >> THEN "flushing" ELSE "writing"
        /\ batch' = q_ /\ q_' = << >> /\ taken' = Len(q_) /\ stopping' = writerStop
        /\ journalAlive
        /\ UNCHANGED <<journalAlive, fills, fills_ring_, saves, enqueued_, processed_, writerStop,
                       lines, target, file, savedFile, fillsLost, requested, errors>>
        BY DEF JO!TakeBatch, JO!Takes, JO!disk, JO!bounds
  <1>2. QueueInv /\ StopInv /\ RowsInv /\ RingInv
        BY DEF JournalInv
  <1>3. batch = << >> /\ taken = 0 /\ q_ \in Seq(JO!Item) /\ Len(q_) \in Nat /\ processed_ \in Nat
        BY <1>1, <1>2 DEF QueueInv
  <1>4. \A kind : /\ JO!Of(kind, << >>) = {} /\ InOrder(kind, << >>)
                  /\ << >> \in Seq(JO!Item) /\ Len(<< >>) = 0
        BY OfEmpty
  <1>5. \A kind : /\ JO!Of(kind, q_)' = {} /\ JO!Of(kind, batch)' = JO!Of(kind, q_)
                  /\ JO!Of(kind, batch) = {}
                  /\ JO!Pending(kind) = JO!Of(kind, q_)
                  /\ InOrder(kind, q_)' /\ InOrder(kind, batch)' = InOrder(kind, q_)
        BY <1>1, <1>3, <1>4 DEF JO!Of, JO!Pending, InOrder
  <1>6. \A kind : JO!Pending(kind)' = JO!Pending(kind)
        BY <1>1, <1>4, <1>5 DEF JO!Pending, JO!Of
  <1>7. QueueInv'
        <2>1. enqueued_' = processed_' + taken' + Len(q_') /\ Len(batch') <= taken'
              /\ taken' \in Nat /\ Len(q_') <= WriterQueue
              <3>1. enqueued_ = processed_ + 0 + Len(q_) /\ Len(q_) <= WriterQueue
                    BY <1>2, <1>3 DEF QueueInv
              <3>2. Len(<< >>) = 0 /\ WriterQueue \in Nat
                    BY DEF JO!JournalAssumption
              <3> QED BY <1>1, <1>3, <3>1, <3>2
        <2>2. /\ \A kind \in Kinds : /\ InOrder(kind, batch)' /\ InOrder(kind, q_)'
                                     /\ Before(JO!Of(kind, batch), JO!Of(kind, q_))'
              BY <1>2, <1>5 DEF QueueInv, Before
        <2>3. (writer' = "writing" <=> batch' # << >>) /\ writer' # "waiting"
              BY <1>1
        <2> QED BY <1>1, <1>2, <1>3, <1>4, <1>6, <2>1, <2>2, <2>3 DEF QueueInv
  <1>8. StopInv'
        BY <1>1, <1>2 DEF StopInv
  <1>9. RowsInv' /\ RingInv'
        BY <1>1, <1>2, <1>6, RowsStand, RingStands
  <1> QED BY <1>7, <1>8, <1>9 DEF JournalInv

(* The first item is older than all the others of its kind: a line goes to  *)
(* the end of the buffer, a snapshot replaces an older one.                 *)
LEMMA WriteItemKeeps ==
  ASSUME JournalInv, JO!WriteItem
  PROVE  JournalInv'
  <1>0. PICK x : x = Head(batch)
        OBVIOUS
  <1>1. /\ journalAlive /\ writer = "writing" /\ batch' = Tail(batch)
        /\ writer' = IF batch' = << >> THEN "flushing" ELSE "writing"
        /\ UNCHANGED <<journalAlive, fills, fills_ring_, saves, q_, enqueued_, processed_,
                       writerStop, taken, stopping, target, file, fillsLost>>
        /\ \/ x.kind = "line" /\ lines' = Append(lines, x.n)
              /\ UNCHANGED <<savedFile, requested, errors>>
           \/ x.kind = "replace" /\ savedFile' = x.n /\ UNCHANGED <<lines, requested, errors>>
           \/ x.kind = "replace" /\ requested' = 0 /\ errors' = errors + 1
              /\ UNCHANGED <<lines, savedFile>>
        BY <1>0 DEF JO!WriteItem, JO!queue, JO!Fails
  <1>2. QueueInv /\ StopInv /\ RowsInv /\ RingInv
        BY DEF JournalInv
  <1>3. batch \in Seq(JO!Item) /\ batch # << >> /\ Len(batch) \in Nat /\ taken \in Nat
        BY <1>1, <1>2 DEF QueueInv
  <1>4. \A kind : /\ x \in JO!Item /\ batch' \in Seq(JO!Item) /\ Len(batch') = Len(batch) - 1
                  /\ JO!Of(kind, batch) = JO!Of(kind, batch') \cup (IF x.kind = kind THEN {x.n} ELSE {})
                  /\ InOrder(kind, batch) =>
                       /\ InOrder(kind, batch')
                       /\ x.kind = kind => \A n \in JO!Of(kind, batch') : x.n < n
        BY <1>0, <1>1, <1>3, OfTail
  <1>5. x.n \in Nat /\ x.kind \in Kinds
        BY <1>4 DEF JO!Item, Kinds
  <1>6. \A kind : /\ JO!Of(kind, q_)' = JO!Of(kind, q_) /\ JO!Of(kind, batch)' = JO!Of(kind, batch')
                  /\ InOrder(kind, q_)' = InOrder(kind, q_)
                  /\ InOrder(kind, batch)' = InOrder(kind, batch')
        BY <1>1 DEF JO!Of, InOrder
  <1>7. \A kind : /\ JO!Pending(kind)' = JO!Of(kind, batch') \cup JO!Of(kind, q_)
                  /\ JO!Pending(kind) = JO!Of(kind, batch) \cup JO!Of(kind, q_)
        BY <1>6 DEF JO!Pending
  <1>8. \A kind : /\ JO!Pending(kind) = JO!Pending(kind)' \cup (IF x.kind = kind THEN {x.n} ELSE {})
                  /\ x.kind # kind => JO!Pending(kind)' = JO!Pending(kind)
        BY <1>4, <1>7
  <1>9. \A n \in JO!Pending(x.kind)' : x.n < n
        <2>1. /\ InOrder(x.kind, batch)
              /\ Before(JO!Of(x.kind, batch), JO!Of(x.kind, q_))
              BY <1>2, <1>5 DEF QueueInv
        <2>2. x.n \in JO!Of(x.kind, batch)
              BY <1>4
        <2> QED BY <1>4, <1>7, <2>1, <2>2 DEF Before
  <1>10. \A kind \in Kinds : /\ InOrder(kind, batch)' /\ InOrder(kind, q_)'
                             /\ Before(JO!Of(kind, batch), JO!Of(kind, q_))'
        <2> SUFFICES ASSUME NEW kind \in Kinds
                     PROVE  /\ InOrder(kind, batch)' /\ InOrder(kind, q_)'
                            /\ Before(JO!Of(kind, batch), JO!Of(kind, q_))'
            OBVIOUS
        <2>1. /\ InOrder(kind, batch) /\ InOrder(kind, q_)
              /\ Before(JO!Of(kind, batch), JO!Of(kind, q_))
              BY <1>2 DEF QueueInv
        <2>2. InOrder(kind, batch') /\ JO!Of(kind, batch') \subseteq JO!Of(kind, batch)
              BY <1>4, <2>1
        <2> QED BY <1>6, <2>1, <2>2 DEF Before
  <1>11. /\ Len(batch') <= taken' /\ writer' \in {"writing", "flushing"}
         /\ (writer' = "writing" <=> batch' # << >>)
         /\ enqueued_' = processed_' + taken' + Len(q_')
        <2>1. Len(batch) <= taken /\ enqueued_ = processed_ + taken + Len(q_)
              BY <1>2 DEF QueueInv
        <2> QED BY <1>1, <1>3, <1>4, <2>1
  <1>12. /\ {savedFile', requested', errors'} \subseteq Nat /\ savedFile' <= saves'
         /\ \A n \in JO!Pending("replace")' : savedFile' < n /\ n <= saves'
         /\ target' # JO!None /\ requested' > savedFile' => requested' \in JO!Pending("replace")'
        <2>1. /\ {savedFile, saves, requested, errors} \subseteq Nat /\ savedFile <= saves
              /\ \A n \in JO!Pending("replace") : savedFile < n /\ n <= saves
              /\ target # JO!None /\ requested > savedFile => requested \in JO!Pending("replace")
              BY <1>2 DEF QueueInv
        <2>2. CASE x.kind = "line" /\ UNCHANGED <<savedFile, requested, errors>>
              BY <1>1, <1>8, <2>1, <2>2
        <2>3. CASE x.kind = "replace" /\ savedFile' = x.n /\ UNCHANGED <<lines, requested, errors>>
              <3>1. x.n \in JO!Pending("replace") /\ savedFile < x.n /\ x.n <= saves
                    BY <1>8, <2>1, <2>3
              <3>2. \A n \in JO!Pending("replace")' : x.n < n /\ n <= saves
                    BY <1>8, <1>9, <2>1, <2>3
              <3>3. requested > x.n => requested > savedFile /\ requested # x.n
                    BY <1>5, <2>1, <3>1
              <3> QED BY <1>1, <1>5, <1>8, <2>1, <2>3, <3>1, <3>2, <3>3
        <2>4. CASE /\ x.kind = "replace" /\ requested' = 0 /\ errors' = errors + 1
                   /\ UNCHANGED <<lines, savedFile>>
              BY <1>1, <1>8, <2>1, <2>4
        <2> QED BY <1>1, <2>2, <2>3, <2>4
  <1>13. QueueInv'
        <2>1. /\ q_' \in Seq(JO!Item) /\ batch' \in Seq(JO!Item) /\ Len(q_') <= WriterQueue
              /\ {fills', saves', enqueued_', processed_', taken'} \subseteq Nat
              /\ target' # JO!None => target' = enqueued_'
              BY <1>1, <1>2, <1>4 DEF QueueInv
        <2> QED BY <1>1, <1>10, <1>11, <1>12, <2>1 DEF QueueInv
  <1>14. StopInv'
        BY <1>1, <1>2, <1>11 DEF StopInv
  <1>15. RowsInv'
        <2>1. CASE x.kind = "replace" /\ lines' = lines
              <3>1. JO!Pending("line")' = JO!Pending("line")
                    BY <1>8, <2>1
              <3> QED BY <1>1, <1>2, <1>11, <2>1, <3>1, RowsStand
        <2>2. CASE x.kind = "line" /\ lines' = Append(lines, x.n)
              <3>1. /\ x.n \in JO!Pending("line") /\ \A n \in JO!Pending("line")' : x.n < n
                    /\ JO!Pending("line") = JO!Pending("line")' \cup {x.n}
                    BY <1>8, <1>9, <2>2
              <3>2. \A n \in JO!ToSet(lines) \cup NumbersOf(file) : n < x.n
                    BY <1>2, <3>1 DEF RowsInv, Before
              <3>3. /\ lines' \in Seq(Nat) /\ Ascending(lines')
                    /\ JO!ToSet(lines') = JO!ToSet(lines) \cup {x.n}
                    BY <1>2, <1>5, <2>2, <3>2, AppendAscends DEF RowsInv
              <3>4. /\ JO!ToSet(lines)' = JO!ToSet(lines') /\ Ascending(lines)' = Ascending(lines')
                    /\ NumbersOf(file)' = NumbersOf(file) /\ JO!Rows(file)' = JO!Rows(file)
                    /\ JO!OnDisk' = JO!OnDisk /\ TornIsLast(file)' = TornIsLast(file)
                    BY <1>1 DEF JO!ToSet, Ascending, NumbersOf, JO!Rows, JO!OnDisk, TornIsLast
              <3>5. Before(NumbersOf(file), JO!ToSet(lines))'
                    BY <1>2, <3>2, <3>3, <3>4 DEF RowsInv, Before
              <3>6. Before(NumbersOf(file) \cup JO!ToSet(lines), JO!Pending("line"))'
                    BY <1>2, <3>1, <3>3, <3>4 DEF RowsInv, Before
              <3>7. JO!NoRowVanishes'
                    <4>1. \A n \in 1..fills : n \in JO!OnDisk \cup fillsLost
                                              \/ n \in JO!ToSet(lines) \cup JO!Pending("line")
                          BY <1>2 DEF RowsInv, JO!NoRowVanishes
                    <4> QED BY <1>1, <1>11, <3>1, <3>3, <3>4, <4>1 DEF JO!NoRowVanishes
              <3>8. (NumbersOf(file) \cup JO!ToSet(lines) \cup JO!Pending("line") \subseteq 1..fills)'
                    BY <1>1, <1>2, <3>1, <3>3, <3>4 DEF RowsInv
              <3>9. Ascending(JO!Rows(file))' = Ascending(JO!Rows(file))
                    BY <3>4 DEF Ascending
              <3> QED BY <1>1, <1>2, <3>3, <3>4, <3>5, <3>6, <3>7, <3>8, <3>9 DEF RowsInv
        <2> QED BY <1>1, <2>1, <2>2
  <1>16. RingInv'
        BY <1>1, <1>2, RingStands
  <1> QED BY <1>13, <1>14, <1>15, <1>16 DEF JournalInv

(* What the file becomes when a buffer of which nothing is on its way any   *)
(* more is written.                                                         *)
LEMMA SinkKeeps ==
  ASSUME JournalInv, JO!FlushSink \/ JO!KeepSink
  PROVE  JournalInv'
  <1>1. /\ journalAlive /\ writer = "flushing" /\ writer' = "done"
        /\ UNCHANGED <<journalAlive, fills, fills_ring_, saves, q_, enqueued_, processed_,
                       writerStop, batch, taken, stopping, target, savedFile, requested>>
        /\ errors' = errors \/ errors' = errors + 1
        /\ \/ /\ lines' = << >> /\ file' = JO!Written(file, lines)
              /\ fillsLost' = fillsLost \cup JO!Swallowed(file, lines)
           \/ lines' = << >> /\ file' = file /\ fillsLost' = fillsLost \cup JO!ToSet(lines)
           \/ ~stopping /\ UNCHANGED <<lines, file, fillsLost>>
        BY DEF JO!FlushSink, JO!KeepSink, JO!queue, JO!Fails, JO!disk, JO!bounds
  <1>2. QueueInv /\ StopInv /\ RowsInv /\ RingInv
        BY DEF JournalInv
  <1>3. \A kind : JO!Pending(kind)' = JO!Pending(kind)
        BY <1>1, PendingStands
  <1>4. fillsLost \subseteq fillsLost'
        BY <1>1
  <1>5. QueueInv'
        <2>1. errors' \in Nat
              BY <1>1, <1>2 DEF QueueInv
        <2> QED BY <1>1, <1>2, <2>1, QueueStands
  <1>6. StopInv'
        BY <1>1, <1>2 DEF StopInv
  <1>7. RingInv'
        BY <1>1, <1>2, <1>4, RingStands
  <1>8. JO!ToSet(<< >>) = {} /\ Ascending(<< >>) /\ << >> \in Seq(Nat)
        BY DEF JO!ToSet, Ascending
  <1>9. lines \in Seq(Nat) /\ file \in Seq(FileLine) /\ TornIsLast(file)
        BY <1>2 DEF RowsInv
  <1>10. ASSUME NEW F, file' = F, lines' = << >>, F \in Seq(FileLine), TornIsLast(F),
                Ascending(JO!Rows(F)),
                NumbersOf(F) \subseteq NumbersOf(file) \cup JO!ToSet(lines),
                Wholes(file) \subseteq Wholes(F),
                JO!ToSet(lines) \subseteq Wholes(F) \cup fillsLost'
         PROVE  RowsInv'
        <2>1. /\ JO!ToSet(lines)' = {} /\ Ascending(lines)' /\ lines' \in Seq(Nat)
              /\ NumbersOf(file)' = NumbersOf(F) /\ Ascending(JO!Rows(file))'
              /\ TornIsLast(file)'
              BY <1>8, <1>10 DEF JO!ToSet, Ascending, NumbersOf, JO!Rows, TornIsLast
        <2>2. JO!OnDisk = Wholes(file) /\ JO!OnDisk' = Wholes(F)
              <3>1. \A i \in DOMAIN F : F[i].n \in Nat
                    <4>1. \A i \in DOMAIN F : F[i] \in FileLine
                          BY <1>10
                    <4> QED BY <4>1 DEF FileLine
              <3>2. JO!OnDisk' = Wholes(F)
                    BY <1>10, <3>1 DEF JO!OnDisk, Wholes, JO!ToSet
              <3> QED BY <1>9, <3>2, OnDiskIs
        <2>3. JO!NoRowVanishes'
              BY <1>1, <1>2, <1>3, <1>4, <1>10, <2>2 DEF RowsInv, JO!NoRowVanishes
        <2>4. Before(NumbersOf(file), JO!ToSet(lines))'
              BY <2>1 DEF Before
        <2>5. Before(NumbersOf(file) \cup JO!ToSet(lines), JO!Pending("line"))'
              BY <1>2, <1>3, <1>10, <2>1 DEF RowsInv, Before
        <2>6. (NumbersOf(file) \cup JO!ToSet(lines) \cup JO!Pending("line") \subseteq 1..fills)'
              BY <1>1, <1>2, <1>3, <1>10, <2>1 DEF RowsInv
        <2> QED BY <1>10, <2>1, <2>3, <2>4, <2>5, <2>6 DEF RowsInv
  <1>11. ASSUME lines' = << >>, file' = JO!Written(file, lines),
                fillsLost' = fillsLost \cup JO!Swallowed(file, lines)
         PROVE  RowsInv'
        <2>1. PICK W : W = JO!Written(file, lines)
              OBVIOUS
        <2>2. /\ W \in Seq(FileLine) /\ TornIsLast(W)
              /\ NumbersOf(W) \subseteq NumbersOf(file) \cup JO!ToSet(lines)
              /\ Ascending(JO!Rows(W))
              /\ Wholes(file) \subseteq Wholes(W)
              /\ JO!ToSet(lines) \ JO!Swallowed(file, lines) \subseteq Wholes(W)
              BY <1>2, <1>9, <2>1, WrittenHolds DEF RowsInv
        <2>3. file' = W /\ JO!ToSet(lines) \subseteq Wholes(W) \cup fillsLost'
              BY <1>11, <2>1, <2>2
        <2> QED BY <1>10, <1>11, <2>2, <2>3
  <1>12. ASSUME lines' = << >>, file' = file, fillsLost' = fillsLost \cup JO!ToSet(lines)
         PROVE  RowsInv'
        <2>1. Ascending(JO!Rows(file))
              BY <1>2 DEF RowsInv
        <2>2. PICK F : F = file
              OBVIOUS
        <2>3. /\ file' = F /\ F \in Seq(FileLine) /\ TornIsLast(F) /\ Ascending(JO!Rows(F))
              /\ NumbersOf(F) \subseteq NumbersOf(file) \cup JO!ToSet(lines)
              /\ Wholes(file) \subseteq Wholes(F)
              /\ JO!ToSet(lines) \subseteq Wholes(F) \cup fillsLost'
              BY <1>9, <1>12, <2>1, <2>2
        <2> QED BY <1>10, <1>12, <2>3
  <1>13. ASSUME UNCHANGED <<lines, file, fillsLost>>
         PROVE  RowsInv'
        <2>1. JO!Pending("line")' = JO!Pending("line") /\ writer' # "ended"
              BY <1>1, <1>3
        <2> QED BY <1>1, <1>2, <1>4, <1>13, <2>1, RowsStand
  <1>14. RowsInv'
        BY <1>1, <1>11, <1>12, <1>13
  <1> QED BY <1>5, <1>6, <1>7, <1>14 DEF JournalInv

(* A writer that ends has nothing left.                                     *)
LEMMA MarkProcessedKeeps ==
  ASSUME JournalInv, JO!MarkProcessed
  PROVE  JournalInv'
  <1>1. /\ journalAlive /\ writer = "done" /\ processed_' = processed_ + taken /\ taken' = 0
        /\ writer' = IF stopping THEN "ended" ELSE "waiting"
        /\ UNCHANGED <<journalAlive, fills, fills_ring_, saves, q_, enqueued_, writerStop, batch,
                       stopping, lines, target, file, savedFile, fillsLost, requested, errors>>
        BY DEF JO!MarkProcessed, JO!disk, JO!bounds
  <1>2. QueueInv /\ StopInv /\ RowsInv /\ RingInv
        BY DEF JournalInv
  <1>3. \A kind : JO!Pending(kind)' = JO!Pending(kind)
        BY <1>1, PendingStands
  <1>4. \A kind : JO!Of(kind, q_)' = JO!Of(kind, q_) /\ JO!Of(kind, batch)' = JO!Of(kind, batch)
                  /\ InOrder(kind, q_)' = InOrder(kind, q_)
                  /\ InOrder(kind, batch)' = InOrder(kind, batch)
        BY <1>1 DEF JO!Of, InOrder
  <1>5. QueueInv'
        <2>1. /\ {processed_, taken, enqueued_} \subseteq Nat /\ batch = << >>
              /\ enqueued_ = processed_ + taken + Len(q_) /\ q_ \in Seq(JO!Item)
              BY <1>1, <1>2 DEF QueueInv
        <2>2. /\ processed_' \in Nat /\ enqueued_' = processed_' + taken' + Len(q_')
              /\ Len(batch') <= taken'
              BY <1>1, <2>1
        <2>3. writer' \in {"waiting", "ended"}
              BY <1>1
        <2> QED BY <1>1, <1>2, <1>3, <1>4, <2>1, <2>2, <2>3, SMTT(30) DEF QueueInv, Before
  <1>6. StopInv'
        BY <1>1, <1>2 DEF StopInv
  <1>7. RingInv'
        BY <1>1, <1>2, RingStands
  <1>8. RowsInv'
        <2>1. CASE ~stopping
              BY <1>1, <1>2, <1>3, <2>1, RowsStand
        <2>2. CASE stopping
              <3>1. q_ = << >> /\ batch = << >> /\ lines = << >>
                    BY <1>1, <1>2, <2>2 DEF StopInv, QueueInv
              <3>2. JO!Pending("line") = {} /\ JO!ToSet(lines) = {}
                    BY <3>1, JournalTypes DEF JO!ToSet
              <3> QED BY <1>1, <1>2, <1>3, <3>2, RowsStand
        <2> QED BY <2>1, <2>2
  <1> QED BY <1>5, <1>6, <1>7, <1>8 DEF JournalInv


LEMMA FlushReturnsKeeps ==
  ASSUME JournalInv, JO!FlushReturns \/ JO!Stop
  PROVE  JournalInv'
  <1>1. /\ UNCHANGED <<journalAlive, fills, fills_ring_, saves, q_, enqueued_, processed_, writer,
                       batch, taken, stopping, lines, file, savedFile, fillsLost, errors>>
        /\ writerStop' = writerStop \/ writerStop' = TRUE
        /\ UNCHANGED <<target, requested>> \/ (target' = JO!None /\ requested' = 0)
        BY DEF JO!FlushReturns, JO!Stop, JO!queue, JO!thread, JO!disk, JO!bounds
  <1>2. QueueInv /\ StopInv /\ RowsInv /\ RingInv
        BY DEF JournalInv
  <1>3. JO!Pending("line")' = JO!Pending("line") /\ errors' \in Nat
        BY <1>1, <1>2, PendingStands DEF QueueInv
  <1>4. QueueInv'
        BY <1>1, <1>2, <1>3, QueueStands
  <1>5. StopInv'
        BY <1>1, <1>2 DEF StopInv
  <1>6. RowsInv' /\ RingInv'
        BY <1>1, <1>2, <1>3, RowsStand, RingStands
  <1> QED BY <1>4, <1>5, <1>6 DEF JournalInv

(* A torn line at the end of whole ones.                                    *)
LEMMA AddTorn ==
  ASSUME NEW W \in Seq(FileLine), NEW x \in Nat, NEW V, V = W \o <<JO!Torn(x)>>,
         \A i \in DOMAIN W : W[i].state # "torn",
         Ascending(JO!Rows(W)), \A n \in NumbersOf(W) : n < x
  PROVE  /\ V \in Seq(FileLine) /\ TornIsLast(V) /\ Ascending(JO!Rows(V))
         /\ NumbersOf(V) = NumbersOf(W) \cup {x}
  <1>1. PICK y \in FileLine : y = JO!Torn(x) /\ y.n = x /\ y.state = "torn"
        BY DEF JO!Torn, FileLine
  <1>2. /\ V \in Seq(FileLine) /\ Len(V) = Len(W) + 1 /\ Len(W) \in Nat
        /\ DOMAIN W = 1..Len(W) /\ DOMAIN V = 1..(Len(W) + 1)
        /\ (\A i \in DOMAIN W : V[i] = W[i]) /\ V[Len(W) + 1] = y
        <2>1. <<y>> \in Seq(FileLine) /\ Len(<<y>>) = 1 /\ <<y>>[1] = y /\ V = W \o <<y>>
              BY <1>1
        <2>2. W \in Seq(FileLine)
              OBVIOUS
        <2>3. /\ W \o <<y>> \in Seq(FileLine) /\ Len(W \o <<y>>) = Len(W) + Len(<<y>>)
              /\ \A i \in 1..Len(W) : (W \o <<y>>)[i] = W[i]
              /\ \A k \in 1..Len(<<y>>) : (W \o <<y>>)[Len(W) + k] = <<y>>[k]
              BY <2>1, <2>2, ConcatIs, Zenon
        <2>4. V[Len(W) + 1] = y
              BY <2>1, <2>3
        <2> QED BY <2>1, <2>2, <2>3, <2>4
  <1>3. \A i \in DOMAIN V : i \in DOMAIN W \/ i = Len(W) + 1
        BY <1>2
  <1>4. \A i \in DOMAIN W : W[i].n \in NumbersOf(W)
        BY DEF NumbersOf
  <1>5. TornIsLast(V)
        BY <1>2, <1>3 DEF TornIsLast
  <1>6. Ascending(JO!Rows(V))
        <2>1. \A i, j \in DOMAIN W : i < j => W[i].n < W[j].n
              BY DEF Ascending, JO!Rows
        <2>2. ASSUME NEW i \in DOMAIN V, NEW j \in DOMAIN V, i < j PROVE V[i].n < V[j].n
              <3>1. i \in DOMAIN W
                    BY <1>2, <2>2
              <3>2. CASE j \in DOMAIN W
                    BY <1>2, <2>1, <2>2, <3>1, <3>2
              <3>3. CASE j = Len(W) + 1
                    BY <1>1, <1>2, <1>4, <3>1, <3>3
              <3> QED BY <1>3, <3>2, <3>3
        <2> QED BY <2>2 DEF Ascending, JO!Rows
  <1>7. NumbersOf(V) = NumbersOf(W) \cup {x}
        <2>1. \A i \in DOMAIN V : V[i].n \in NumbersOf(W) \cup {x}
              BY <1>1, <1>2, <1>3, <1>4
        <2>2. \A i \in DOMAIN W : W[i].n \in NumbersOf(V)
              BY <1>2 DEF NumbersOf
        <2>3. x \in NumbersOf(V)
              <3>1. Len(W) + 1 \in DOMAIN V /\ V[Len(W) + 1].n = x
                    BY <1>1, <1>2
              <3> QED BY <3>1 DEF NumbersOf
        <2>4. NumbersOf(V) \subseteq NumbersOf(W) \cup {x}
              BY <2>1 DEF NumbersOf
        <2>5. NumbersOf(W) \subseteq NumbersOf(V)
              BY <2>2 DEF NumbersOf
        <2> QED BY <2>3, <2>4, <2>5
  <1> QED BY <1>2, <1>5, <1>6, <1>7

(* A crash leaves a file in order, and counts as lost what is not in it.    *)
LEMMA CrashKeeps ==
  ASSUME JO!JournalAssumption, JournalInv, JO!Crash
  PROVE  JournalInv'
  <1>1. /\ journalAlive' = FALSE /\ fills_ring_' = << >> /\ q_' = << >> /\ enqueued_' = 0
        /\ processed_' = 0 /\ writerStop' = FALSE /\ writer' = "waiting" /\ batch' = << >>
        /\ taken' = 0 /\ stopping' = FALSE /\ lines' = << >> /\ target' = JO!None
        /\ requested' = 0 /\ UNCHANGED <<fills, saves, savedFile, errors>>
        /\ fillsLost' = (1..fills) \ JO!OnDisk'
        BY DEF JO!Crash, JO!OnDisk
  <1>2. QueueInv /\ RowsInv
        BY DEF JournalInv
  <1>3. /\ lines \in Seq(Nat) /\ Ascending(lines) /\ file \in Seq(FileLine) /\ TornIsLast(file)
        /\ Ascending(JO!Rows(file)) /\ Before(NumbersOf(file), JO!ToSet(lines))
        /\ NumbersOf(file) \cup JO!ToSet(lines) \subseteq 1..fills /\ fills \in Nat
        BY <1>2 DEF QueueInv, RowsInv
  <1>4. PICK F : F = file'
        OBVIOUS
  <1>5. F \in Seq(FileLine) /\ TornIsLast(F) /\ Ascending(JO!Rows(F)) /\ NumbersOf(F) \subseteq 1..fills
        <2>1. CASE F = file
              BY <1>3, <2>1
        <2>2. ASSUME NEW k \in 1..Len(lines),
                     F = JO!Written(file, SubSeq(lines, 1, k - 1))
                           \o IF k = 1 /\ file # << >> /\ file[Len(file)].state = "torn"
                              THEN << >> ELSE <<JO!Torn(lines[k])>>
              PROVE  F \in Seq(FileLine) /\ TornIsLast(F) /\ Ascending(JO!Rows(F))
                     /\ NumbersOf(F) \subseteq 1..fills
              <3>1. PICK ns : ns = SubSeq(lines, 1, k - 1)
                    OBVIOUS
              <3>2. PICK W : W = JO!Written(file, ns)
                    OBVIOUS
              <3>3. /\ Len(lines) \in Nat /\ DOMAIN lines = 1..Len(lines)
                    /\ (\A i \in 1..Len(lines) : lines[i] \in Nat)
                    /\ k \in Nat /\ 1 <= k /\ k <= Len(lines)
                    BY <1>3
              <3>4. /\ ns \in Seq(Nat) /\ Len(ns) = k - 1 /\ DOMAIN ns = 1..(k - 1)
                    /\ \A i \in 1..(k - 1) : ns[i] = lines[i] /\ i \in DOMAIN lines /\ i < k
                    BY <3>1, <3>3
              <3>5. /\ Ascending(ns) /\ JO!ToSet(ns) \subseteq JO!ToSet(lines)
                    /\ \A n \in JO!ToSet(ns) : n < lines[k]
                    /\ lines[k] \in JO!ToSet(lines)
                    <4>1. Ascending(ns)
                          BY <1>3, <3>4 DEF Ascending
                    <4>2. \A i \in DOMAIN ns : ns[i] \in JO!ToSet(lines) /\ ns[i] < lines[k]
                          <5>1. k \in DOMAIN lines
                                BY <3>3
                          <5>2. ASSUME NEW i \in DOMAIN ns
                                PROVE  ns[i] \in JO!ToSet(lines) /\ ns[i] < lines[k]
                                <6>1. ns[i] = lines[i] /\ i \in DOMAIN lines /\ i < k
                                      BY <3>4
                                <6> QED BY <1>3, <5>1, <6>1 DEF Ascending, JO!ToSet
                          <5> QED BY <5>2
                    <4>3. lines[k] \in JO!ToSet(lines)
                          BY <3>3 DEF JO!ToSet
                    <4> QED BY <4>1, <4>2, <4>3 DEF JO!ToSet
              <3>6. /\ W \in Seq(FileLine) /\ TornIsLast(W)
                    /\ ns # << >> \/ ~Torn(file) => \A i \in DOMAIN W : W[i].state # "torn"
                    /\ NumbersOf(W) \subseteq NumbersOf(file) \cup JO!ToSet(ns)
                    /\ Ascending(JO!Rows(W))
                    /\ ns = << >> => W = file
                    <4>1. Before(NumbersOf(file), JO!ToSet(ns))
                          BY <1>3, <3>5 DEF Before
                    <4> QED BY <1>3, <3>2, <3>4, <3>5, <4>1, WrittenHolds, ZenonT(60)
              <3>7. CASE k = 1 /\ Torn(file)
                    <4>1. ns = << >>
                          BY <3>4, <3>7
                    <4>2. F = file \o << >>
                          BY <2>2, <3>1, <3>2, <3>6, <3>7, <4>1 DEF Torn
                    <4>3. F = file
                          BY <1>3, <4>2
                    <4> QED BY <1>3, <4>3
              <3>8. CASE ~(k = 1 /\ Torn(file))
                    <4>1. F = W \o <<JO!Torn(lines[k])>>
                          BY <2>2, <3>1, <3>2, <3>8 DEF Torn
                    <4>2. ns # << >> \/ ~Torn(file)
                          BY <3>4, <3>8
                    <4>3. \A n \in NumbersOf(W) : n < lines[k]
                          BY <1>3, <3>5, <3>6 DEF Before
                    <4>4. PICK x \in Nat : x = lines[k]
                          BY <3>3
                    <4>w. \A i \in DOMAIN W : W[i].state # "torn"
                          BY <3>6, <4>2
                    <4>v. F = W \o <<JO!Torn(x)>> /\ \A n \in NumbersOf(W) : n < x
                          BY <4>1, <4>3, <4>4
                    <4>5. /\ F \in Seq(FileLine) /\ TornIsLast(F) /\ Ascending(JO!Rows(F))
                          /\ NumbersOf(F) = NumbersOf(W) \cup {x}
                          <5>1. W \in Seq(FileLine) /\ Ascending(JO!Rows(W)) /\ x \in Nat
                                BY <3>6, <4>4
                          <5> QED BY <4>v, <4>w, <5>1, AddTorn, Zenon
                    <4> QED BY <1>3, <3>5, <3>6, <4>4, <4>5
              <3> QED BY <3>7, <3>8
        <2>3. \/ F = file
              \/ \E k \in 1..Len(lines) :
                   F = JO!Written(file, SubSeq(lines, 1, k - 1))
                         \o IF k = 1 /\ file # << >> /\ file[Len(file)].state = "torn"
                            THEN << >> ELSE <<JO!Torn(lines[k])>>
              BY <1>4 DEF JO!Crash
        <2> QED BY <2>1, <2>2, <2>3
  <1>6. \A kind : /\ JO!Of(kind, q_)' = {} /\ JO!Of(kind, batch)' = {} /\ JO!Pending(kind)' = {}
                  /\ InOrder(kind, q_)' /\ InOrder(kind, batch)'
        BY <1>1, OfEmpty DEF JO!Of, InOrder, JO!Pending, JO!ToSet
  <1>7. << >> \in Seq(JO!Item) /\ << >> \in Seq(Nat) /\ Len(<< >>) = 0 /\ JO!ToSet(<< >>) = {}
        /\ Ascending(<< >>) /\ WriterQueue \in Nat /\ kFillsRingCap \in Nat
        BY DEF JO!ToSet, Ascending, JO!JournalAssumption
  <1>8. QueueInv'
        <2>1. {fills', saves', savedFile', errors'} \subseteq Nat /\ savedFile' <= saves'
              BY <1>1, <1>2 DEF QueueInv
        <2> QED BY <1>1, <1>6, <1>7, <2>1 DEF QueueInv, Before
  <1>9. StopInv'
        BY <1>1 DEF StopInv
  <1>10. RowsInv'
        <2>1. JO!NoRowVanishes'
              BY <1>1 DEF JO!NoRowVanishes
        <2>2. /\ JO!ToSet(lines)' = {} /\ Ascending(lines)' /\ lines' \in Seq(Nat)
              /\ NumbersOf(file)' = NumbersOf(F) /\ Ascending(JO!Rows(file))'
              /\ TornIsLast(file)' /\ file' \in Seq(FileLine)
              BY <1>1, <1>4, <1>5, <1>7 DEF JO!ToSet, Ascending, NumbersOf, JO!Rows, TornIsLast
        <2> QED BY <1>1, <1>5, <1>6, <2>1, <2>2 DEF RowsInv, Before
  <1>11. RingInv'
        <2>1. JO!ToSet(fills_ring_)' = {} /\ Ascending(fills_ring_)'
              BY <1>1 DEF JO!ToSet, Ascending
        <2> QED BY <1>1, <1>7, <2>1 DEF RingInv, JO!NoHoleInRing
  <1> QED BY <1>8, <1>9, <1>10, <1>11 DEF JournalInv

(* What a start reads, with or without the torn end of the file.            *)
ReadAs(f, d, e) ==
  /\ d \in Nat /\ e \in {0, 1} /\ d + e <= Len(file) /\ Len(file) - (d + e) <= kFillsRingCap
  /\ f \in Seq(FileLine) /\ Len(f) = Len(file) - (d + e)
  /\ \A i \in 1..Len(f) : f[i] = file[i + d]
  /\ e = 1 => file[Len(file)].state = "torn"

LEMMA ReadingsAre ==
  ASSUME JO!JournalAssumption, file \in Seq(FileLine),
         NEW f \in JO!Readings(JO!LastOf(file, kFillsRingCap))
  PROVE  \E d \in 0..Len(file), e \in {0, 1} : ReadAs(f, d, e)
  <1>1. PICK t : t = JO!LastOf(file, kFillsRingCap)
        OBVIOUS
  <1>2. PICK d \in 0..Len(file) : LastOfBy(t, file, d, FileLine, kFillsRingCap)
        <2>1. kFillsRingCap \in Nat
              BY DEF JO!JournalAssumption
        <2> QED BY <1>1, <2>1, LastOfIs
  <1>3. /\ Len(file) \in Nat /\ d \in Nat /\ d <= Len(file) /\ Len(file) - d <= kFillsRingCap
        /\ t \in Seq(FileLine) /\ Len(t) = Len(file) - d
        /\ \A i \in 1..Len(t) : t[i] = file[i + d]
        /\ kFillsRingCap \in Nat
        BY <1>2 DEF LastOfBy, JO!JournalAssumption
  <1>4. CASE f = t
        <2>1. d + 0 = d /\ 0 \in {0, 1} /\ 0 # 1
              BY <1>3
        <2>2. ReadAs(f, d, 0)
              BY <1>3, <1>4, <2>1 DEF ReadAs
        <2> QED BY <2>2
  <1>5. CASE t # << >> /\ t[Len(t)].state = "torn" /\ f = SubSeq(t, 1, Len(t) - 1)
        <2>1. Len(t) \in Nat \ {0}
              BY <1>3, <1>5
        <2>2. f \in Seq(FileLine) /\ Len(f) = Len(t) - 1 /\ \A i \in 1..(Len(t) - 1) : f[i] = t[i]
              BY <1>3, <1>5, <2>1
        <2>3. Len(t) \in 1..Len(t) /\ Len(t) + d = Len(file)
              BY <1>3, <2>1
        <2>4. file[Len(file)].state = "torn"
              BY <1>3, <1>5, <2>3
        <2>5. \A i \in 1..(Len(t) - 1) : i \in 1..Len(t)
              BY <2>1
        <2>6. /\ d + 1 <= Len(file) /\ Len(file) - (d + 1) <= kFillsRingCap
              /\ Len(t) - 1 = Len(file) - (d + 1)
              <3> DEFINE p == Len(file)
                         q == Len(t)
              <3>1. /\ p \in Nat /\ d \in Nat /\ q \in Nat /\ q # 0 /\ q = p - d
                    /\ p - d <= kFillsRingCap /\ kFillsRingCap \in Nat
                    BY <1>3, <2>1
              <3> HIDE DEF p, q
              <3>2. d + 1 <= p /\ p - (d + 1) <= kFillsRingCap /\ q - 1 = p - (d + 1)
                    BY <3>1
              <3> QED BY <3>2 DEF p, q
        <2>7. ReadAs(f, d, 1)
              BY <1>3, <2>2, <2>4, <2>5, <2>6 DEF ReadAs
        <2> QED BY <2>7
  <1>6. f = t \/ (t # << >> /\ t[Len(t)].state = "torn" /\ f = SubSeq(t, 1, Len(t) - 1))
        BY <1>1 DEF JO!Readings
  <1> QED BY <1>4, <1>5, <1>6

(* With no memory, the rows above the oldest one that is read are read too, *)
(* or lost.                                                                 *)
LEMMA RestoreKeeps ==
  ASSUME JO!JournalAssumption, JournalInv, JO!RestoreFillsJournalTail
  PROVE  JournalInv'
  <1>1. /\ ~journalAlive /\ journalAlive' = TRUE
        /\ UNCHANGED <<fills, saves, q_, enqueued_, processed_, writerStop, writer, batch, taken,
                       stopping, lines, target, file, savedFile, fillsLost, requested, errors>>
        BY DEF JO!RestoreFillsJournalTail, JO!Reads, JO!queue, JO!thread, JO!disk, JO!bounds
  <1>2. QueueInv /\ StopInv /\ RowsInv /\ RingInv
        BY DEF JournalInv
  <1>3. q_ = << >> /\ batch = << >> /\ lines = << >>
        BY <1>1, <1>2 DEF StopInv, QueueInv
  <1>4. JO!Pending("line") = {} /\ JO!ToSet(lines) = {} /\ JO!OnDisk = Wholes(file)
        BY <1>3, JournalTypes DEF JO!ToSet
  <1>5. \A n \in 1..fills : n \in Wholes(file) \cup fillsLost
        BY <1>2, <1>4 DEF RowsInv, JO!NoRowVanishes
  <1>6. JO!Pending("line")' = JO!Pending("line")
        BY <1>1, PendingStands
  <1>7. QueueInv'
        <2>1. errors' \in Nat
              BY <1>1, <1>2 DEF QueueInv
        <2> QED BY <1>1, <1>2, <2>1, QueueStands
  <1>8. StopInv'
        BY <1>1, <1>2, <1>3 DEF StopInv
  <1>9. RowsInv'
        BY <1>1, <1>2, <1>6, RowsStand
  <1>10. PICK f \in JO!Readings(JO!LastOf(file, kFillsRingCap)) : fills_ring_' = JO!Rows(f)
        BY DEF JO!RestoreFillsJournalTail, JO!Reads
  <1>11. file \in Seq(FileLine) /\ fills \in Nat
        BY <1>2 DEF RowsInv, QueueInv
  <1>12. PICK d \in 0..Len(file), e \in {0, 1} : ReadAs(f, d, e)
        BY <1>11, ReadingsAre
  <1>13. PICK r : r = JO!Rows(f)
        OBVIOUS
  <1>14. /\ d \in Nat /\ (e = 0 \/ e = 1) /\ d + e <= Len(file) /\ Len(file) \in Nat
         /\ DOMAIN file = 1..Len(file) /\ Len(file) - (d + e) <= kFillsRingCap
         /\ r \in Seq(Nat) /\ Len(r) = Len(file) - (d + e) /\ DOMAIN r = 1..(Len(file) - (d + e))
         /\ \A i \in DOMAIN r : r[i] = file[i + d].n
         /\ e = 1 => file[Len(file)].state = "torn"
         /\ \A i \in DOMAIN file : file[i].n \in Nat
        <2>1. /\ d \in Nat /\ (e = 0 \/ e = 1) /\ d + e <= Len(file) /\ Len(file) \in Nat
              /\ DOMAIN file = 1..Len(file) /\ Len(file) - (d + e) <= kFillsRingCap
              /\ f \in Seq(FileLine) /\ Len(f) = Len(file) - (d + e)
              /\ DOMAIN f = 1..Len(f)
              /\ \A i \in DOMAIN f : f[i] = file[i + d] /\ f[i] \in FileLine
              /\ e = 1 => file[Len(file)].state = "torn"
              /\ \A i \in DOMAIN file : file[i] \in FileLine
              BY <1>11, <1>12 DEF ReadAs
        <2>2. r = [i \in 1..Len(f) |-> f[i].n] /\ \A i \in 1..Len(f) : f[i].n \in Nat
              BY <1>13, <2>1 DEF JO!Rows, FileLine
        <2>3. Len(f) \in Nat
              BY <2>1
        <2>4. r \in Seq(Nat) /\ Len(r) = Len(f) /\ DOMAIN r = 1..Len(f)
              /\ \A i \in 1..Len(f) : r[i] = f[i].n
              BY <2>2, <2>3
        <2>5. \A i \in DOMAIN file : file[i].n \in Nat
              BY <2>1 DEF FileLine
        <2> QED BY <2>1, <2>4, <2>5
  <1>15. \A i \in DOMAIN r : i + d \in DOMAIN file
        BY <1>14
  <1>16. \A i, j \in DOMAIN file : i < j => file[i].n < file[j].n
        BY <1>2 DEF RowsInv, Ascending, JO!Rows
  <1>17. Ascending(r) /\ JO!ToSet(r) \subseteq 1..fills /\ Len(r) <= kFillsRingCap
        <2>1. Ascending(r)
              <3>1. \A i, j \in DOMAIN r : i < j => i + d < j + d
                    BY <1>14
              <3>2. \A i, j \in DOMAIN r : i < j => file[i + d].n < file[j + d].n
                    BY <1>15, <1>16, <3>1
              <3> QED BY <1>14, <3>2 DEF Ascending
        <2>2. \A i \in DOMAIN file : file[i].n \in 1..fills
              BY <1>2 DEF RowsInv, NumbersOf
        <2>3. JO!ToSet(r) \subseteq 1..fills
              BY <1>14, <1>15, <2>2 DEF JO!ToSet
        <2> QED BY <1>14, <2>1, <2>3
  <1>18. ASSUME NEW i \in DOMAIN r, NEW m \in r[i]..fills, m \notin fillsLost
         PROVE  m \in JO!ToSet(r)
        <2>1. i + d \in DOMAIN file /\ r[i] = file[i + d].n /\ r[i] \in Nat /\ m \in Nat /\ r[i] <= m
              BY <1>11, <1>14, <1>15, <1>18, SMTT(30)
        <2>2. m \in 1..fills
              <3>1. r[i] \in 1..fills
                    BY <1>17 DEF JO!ToSet
              <3> QED BY <1>11, <2>1, <3>1, <1>18
        <2>3. PICK k \in DOMAIN file : file[k].state = "whole" /\ file[k].n = m
              BY <1>5, <1>18, <2>2 DEF Wholes
        <2>4. i + d <= k
              <3> SUFFICES ASSUME ~(i + d <= k) PROVE FALSE
                  OBVIOUS
              <3>1. k < i + d
                    BY <1>14, <2>1
              <3> QED BY <1>14, <1>16, <2>1, <2>3, <3>1, SMTT(30)
        <2>5. k <= Len(file) - e
              <3>1. CASE e = 0
                    BY <1>14, <3>1
              <3>2. CASE e = 1
                    <4>1. k # Len(file)
                          BY <1>14, <2>3, <3>2
                    <4> QED BY <1>14, <3>2, <4>1
              <3> QED BY <1>14, <3>1, <3>2
        <2>6. k - d \in DOMAIN r /\ (k - d) + d = k
              BY <1>14, <2>4, <2>5, SMTT(30)
        <2>7. r[k - d] = m
              BY <1>14, <2>3, <2>6
        <2> QED BY <2>6, <2>7 DEF JO!ToSet
  <1>19. RingInv'
        <2>1. \A n \in JO!ToSet(r) : n..fills \subseteq JO!ToSet(r) \cup fillsLost
              BY <1>18 DEF JO!ToSet
        <2>2. fills_ring_' = r
              BY <1>10, <1>13
        <2>3. JO!ToSet(fills_ring_)' = JO!ToSet(r) /\ Ascending(fills_ring_)'
              BY <1>17, <2>2 DEF JO!ToSet, Ascending
        <2> QED BY <1>1, <1>14, <1>17, <2>1, <2>2, <2>3 DEF RingInv, JO!NoHoleInRing
  <1> QED BY <1>7, <1>8, <1>9, <1>19 DEF JournalInv

LEMMA JournalNext ==
  ASSUME JO!JournalAssumption, JournalInv, [JO!Next]_(JO!vars)
  PROVE  JournalInv'
  <1>1. CASE JO!Next
        BY <1>1, AppendLineKeeps, WriteFileAtomicKeeps, FlushKeeps, FlushReturnsKeeps,
           TakeBatchKeeps, WriteItemKeeps, SinkKeeps, MarkProcessedKeeps, CrashKeeps, RestoreKeeps
        DEF JO!Next, JO!Writer
  <1>2. CASE UNCHANGED JO!vars
        <2>1. UNCHANGED <<journalAlive, fills, fills_ring_, saves, q_, enqueued_, processed_, writer,
                          batch, taken, stopping, lines, file, savedFile, fillsLost, errors,
                          writerStop, target, requested>>
              BY <1>2 DEF JO!vars, JO!queue, JO!thread, JO!disk, JO!bounds
        <2>2. QueueInv /\ StopInv /\ RowsInv /\ RingInv
              BY DEF JournalInv
        <2>3. JO!Pending("line")' = JO!Pending("line") /\ errors' \in Nat
              BY <2>1, <2>2, PendingStands DEF QueueInv
        <2>4. StopInv'
              BY <2>1, <2>2 DEF StopInv
        <2>5. QueueInv'
              BY <2>1, <2>2, <2>3, QueueStands
        <2>6. RowsInv' /\ RingInv'
              BY <2>1, <2>2, <2>3, RowsStand, RingStands
        <2> QED BY <2>4, <2>5, <2>6 DEF JournalInv
  <1> QED BY <1>1, <1>2

JournalHolds == JO!TypeOK /\ JO!NoRowVanishes /\ JO!FlushedIsWritten /\ JO!NoHoleInRing

LEMMA JournalSays ==
  ASSUME JournalInv
  PROVE  JournalHolds
  <1>1. QueueInv /\ StopInv /\ RowsInv /\ RingInv
        BY DEF JournalInv
  <1>2. JO!TypeOK
        BY <1>1 DEF QueueInv, StopInv, RowsInv, RingInv, JO!TypeOK
  <1>3. JO!FlushedIsWritten
        <2> SUFFICES ASSUME target # JO!None, processed_ >= target
                     PROVE  savedFile >= requested
            BY DEF JO!FlushedIsWritten
        <2>1. /\ {enqueued_, processed_, taken, savedFile, requested} \subseteq Nat
              /\ q_ \in Seq(JO!Item) /\ batch \in Seq(JO!Item)
              /\ Len(batch) <= taken /\ enqueued_ = processed_ + taken + Len(q_)
              /\ target = enqueued_
              BY <1>1 DEF QueueInv
        <2>2. Len(q_) \in Nat /\ Len(batch) \in Nat
              BY <2>1
        <2>3. Len(q_) = 0 /\ Len(batch) = 0
              BY <2>1, <2>2
        <2>4. q_ = << >> /\ batch = << >>
              BY <2>1, <2>3
        <2>5. JO!Pending("replace") = {}
              BY <2>4, JournalTypes
        <2>6. ~(requested > savedFile)
              BY <1>1, <2>5 DEF QueueInv
        <2> QED BY <2>1, <2>6
  <1> QED BY <1>1, <1>2, <1>3 DEF RowsInv, RingInv, JournalHolds

(* A fill's line, a snapshot that was flushed and the ring of fills are     *)
(* whole but for what a named event lost (NoRowVanishes, FlushedIsWritten,  *)
(* NoHoleInRing).                                                           *)
THEOREM SpecJournalHolds ==
  ASSUME JO!JournalAssumption
  PROVE  JO!Spec => []JournalHolds
  <1>1. JO!Init => JournalInv
        BY JournalInit
  <1>2. JournalInv /\ [JO!Next]_(JO!vars) => JournalInv'
        BY JournalNext
  <1>3. JournalInv => JournalHolds
        BY JournalSays
  <1> QED BY <1>1, <1>2, <1>3, PTL DEF JO!Spec

-----------------------------------------------------------------------------
(* Deliveries.                                                              *)

(* A behaviour of the whole is one of each component.                       *)
LEMMA DeliveriesAreEach == DeliveriesSpec => WT!Spec /\ CS!Spec /\ JO!Spec /\ Spec
  <1>1. DeliveriesInit => WT!Init /\ CS!Init /\ JO!Init /\ Init
        BY DEF DeliveriesInit
  <1>2. [DeliveriesNext]_deliveryVars => [WT!Next]_(WT!vars)
        BY DEF DeliveriesNext, deliveryVars, transport, WT!vars, WT!threads
  <1>3. [DeliveriesNext]_deliveryVars => [CS!Next]_(CS!vars)
        BY DEF DeliveriesNext, deliveryVars, clob, CS!vars, CS!market, CS!user
  <1>4. [DeliveriesNext]_deliveryVars => [JO!Next]_(JO!vars)
        BY DEF DeliveriesNext, deliveryVars, journal, JO!vars, JO!queue, JO!thread, JO!disk,
               JO!bounds
  <1>5. [DeliveriesNext]_deliveryVars => [Next]_vars
        BY DEF DeliveriesNext, deliveryVars
  <1> QED BY <1>1, <1>2, <1>3, <1>4, <1>5, PTL
          DEF DeliveriesSpec, WT!Spec, CS!Spec, JO!Spec, Spec

(* Nobody uses a connection that is freed, the user channel asks for every  *)
(* condition it was told of, and rows, snapshots, the ring of fills and the *)
(* orders with trades on the chain are whole but for what a named event     *)
(* lost.                                                                    *)
THEOREM SpecNothingVanishes == DeliveriesSpec => []NothingVanishes
  <1>1. WT!Spec => []TransportHolds
        BY SpecNoUseAfterFree, DeliveriesAssumption
  <1>2. CS!Spec => []ClobHolds
        BY SpecUserAsksForAll, DeliveriesAssumption
  <1>3. JO!Spec => []JournalHolds
        BY SpecJournalHolds, DeliveriesAssumption
  <1>4. Spec => []NoTradeLost
        BY SpecNoTradeLost
  <1>5. TransportHolds /\ ClobHolds /\ JournalHolds /\ TypeOK /\ NoTradeLost => NothingVanishes
        BY DEF TransportHolds, ClobHolds, JournalHolds, NothingVanishes
  <1> QED BY <1>1, <1>2, <1>3, <1>4, <1>5, SpecTypeOK, DeliveriesAreEach, PTL
=============================================================================
