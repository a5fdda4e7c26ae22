---------------------------- MODULE ClobSubscriber ----------------------------
(***************************************************************************)
(* The two channels of PolymarketCLOBSubscriber and the OrderBookAdapter   *)
(* behind its queue.                                                       *)
(*                                                                         *)
(* The exchange may write a frame's number on it, or leave it out; a frame *)
(* may be lost, or be thrown away for its time stamp.  The subscriber      *)
(* compares the numbers it reads and asks for the token again when one is  *)
(* missing between two of them: neither the loss of the first book nor one *)
(* among frames without numbers is noticed.                                *)
(* The user channel asks, on every connection, for every condition it was  *)
(* ever told of; the market channel for those of its configuration only.   *)
(***************************************************************************)
EXTENDS Integers, Sequences, FiniteSets

CONSTANTS
  Tokens,
  Initial,      \* cfg_.initial_market_token_ids
  Conditions,
  Skews,        \* source time minus receive time, seconds; Missing: no time
  kFutureGuard, \* seconds a frame may be ahead
  QueueCap,     \* of the sink
  AdapterCap,   \* cfg_.max_tokens of the adapter
  MaxNo,        \* bound: frames the exchange sends of a token on a connection
  MaxBreaks     \* bound: connections that break, frames that get lost

Missing == 1000
Links == {"off", "connecting", "up"}

(* Assumed of the constants where the module is instantiated.              *)
ClobSubscriberAssumption ==
  /\ Initial \subseteq Tokens /\ Skews \subseteq Int
  /\ {kFutureGuard, QueueCap, AdapterCap, MaxNo, MaxBreaks} \subseteq Nat

VARIABLES
  link,               \* of the market channel
  told,               \* subscribe frames under way to the exchange
  served,             \* tokens the exchange sends on this connection
  no,                 \* number of the last frame it sent of a token
  wire,               \* frames under way, oldest first
  token_seq_map_,     \* number of the last frame taken; 0: none
  snapshot_received_,
  queue,              \* market_sink_
  adapter,            \* per token: none, waiting for a book, or live
  missed,             \* history: last frame of a token that did not get in, since the last book
  hole,               \* history: tokens whose numbers show that, and no book came since
  breaks,
  userLink, user_condition_ids_, userTold, userServed,
  wanted              \* history: conditions the user channel was told of

market == <<link, told, served, no, wire, token_seq_map_, snapshot_received_, queue, adapter,
            missed, hole>>
user == <<userLink, user_condition_ids_, userTold, userServed, wanted>>
vars == <<market, breaks, user>>

Frame == [token : Tokens, topic : {"book", "price_change"}, no : 1..MaxNo, shown : BOOLEAN]
WssEvent == [token : Tokens, topic : {"book", "price_change"}]

TypeOK ==
  /\ {link, userLink} \subseteq Links
  /\ {told, served, snapshot_received_, hole} \subseteq SUBSET Tokens
  /\ {no, token_seq_map_, missed} \subseteq [Tokens -> 0..MaxNo]
  /\ wire \in Seq(Frame) /\ queue \in Seq(WssEvent) /\ Len(queue) <= QueueCap
  /\ adapter \in [Tokens -> {"none", "waiting", "live"}] /\ breaks \in 0..MaxBreaks
  /\ {user_condition_ids_, userTold, userServed, wanted} \subseteq SUBSET Conditions

Zero == [t \in Tokens |-> 0]

Init ==
  /\ link = "off" /\ told = {} /\ served = {} /\ no = Zero /\ wire = <<>>
  /\ token_seq_map_ = Zero /\ snapshot_received_ = {} /\ queue = <<>>
  /\ adapter = [t \in Tokens |-> "none"] /\ missed = Zero /\ hole = {} /\ breaks = 0
  /\ userLink = "off" /\ user_condition_ids_ \in SUBSET Conditions
  /\ userTold = {} /\ userServed = {} /\ wanted = user_condition_ids_

-----------------------------------------------------------------------------
(* The connections.  A closed connection is opened again at once.           *)
Start ==
  /\ link = "off" /\ userLink = "off" /\ link' = "connecting" /\ userLink' = "connecting"
  /\ UNCHANGED <<told, served, no, wire, token_seq_map_, snapshot_received_, queue,
                 adapter, missed, hole, breaks, user_condition_ids_, userTold, userServed, wanted>>

OnMarketConnected ==
  /\ link = "connecting" /\ link' = "up"
  /\ snapshot_received_' = {} /\ token_seq_map_' = Zero /\ told' = Initial
  /\ served' = {} /\ no' = Zero /\ wire' = <<>> /\ missed' = Zero /\ hole' = {}
  /\ UNCHANGED <<queue, adapter, breaks, user>>

(* A break, or a silence the heartbeat check answers with Close.            *)
OnMarketDisconnected ==
  /\ link = "up" /\ breaks < MaxBreaks /\ breaks' = breaks + 1 /\ link' = "connecting"
  /\ told' = {} /\ served' = {} /\ no' = Zero /\ wire' = <<>> /\ missed' = Zero /\ hole' = {}
  /\ UNCHANGED <<token_seq_map_, snapshot_received_, queue, adapter, user>>

(* A subscribe frame sent while the link is down is lost.                   *)
Asks(channel, under_way, more) == IF channel = "up" THEN under_way \cup more ELSE under_way

SubscribeMarketTokens(tokens) ==
  /\ tokens # {} /\ told' = Asks(link, told, tokens)
  /\ UNCHANGED <<link, served, no, wire, token_seq_map_, snapshot_received_, queue,
                 adapter, missed, hole, breaks, user>>

-----------------------------------------------------------------------------
(* The exchange: a book for every token asked for, then its changes.        *)
Sends(t, topic) ==
  /\ no[t] < MaxNo /\ no' = [no EXCEPT ![t] = @ + 1]
  /\ \E shown \in BOOLEAN :
       wire' = Append(wire, [token |-> t, topic |-> topic, no |-> no'[t], shown |-> shown])

Answer(t) ==
  /\ t \in told /\ told' = told \ {t} /\ served' = served \cup {t} /\ Sends(t, "book")
  /\ UNCHANGED <<link, token_seq_map_, snapshot_received_, queue, adapter, missed, hole,
                 breaks, user>>

Change(t) ==
  /\ t \in served /\ no[t] + 1 < MaxNo /\ Sends(t, "price_change")
  /\ UNCHANGED <<link, told, served, token_seq_map_, snapshot_received_, queue, adapter,
                 missed, hole, breaks, user>>

(* History: the frame does not get in, and with a book the answer is gone.  *)
Misses(f) ==
  /\ missed' = [missed EXCEPT ![f.token] = f.no]
  /\ hole' = IF f.topic = "book" THEN hole \ {f.token} ELSE hole

Lose ==
  /\ wire # <<>> /\ breaks < MaxBreaks /\ breaks' = breaks + 1 /\ wire' = Tail(wire)
  /\ Misses(Head(wire))
  /\ UNCHANGED <<link, told, served, no, token_seq_map_, snapshot_received_, queue, adapter,
                 user>>

-----------------------------------------------------------------------------
(* FillBaseTs and the guard: a frame needs a time, not too far ahead; the   *)
(* receive time is moved up to it.                                          *)
TimeAccepted(skew) == skew # Missing /\ skew <= kFutureGuard

(* Mutant: only a number that goes back counts as a gap.                    *)
CheckSequenceBack(t, n) == n = 0 \/ token_seq_map_[t] = 0 \/ n > token_seq_map_[t]

(* 0: the frame does not show its number; it is not compared.               *)
CheckSequenceGap(t, n) == n = 0 \/ token_seq_map_[t] = 0 \/ n = token_seq_map_[t] + 1

(* A token with a gap asks for its book again and loses its snapshot mark.  *)
TriggerResubscribe(t) == Asks(link, told, {t})

(* The snapshot mark is cleared by a gap and set by a book, gap or not; a   *)
(* change is passed on whether or not a book came before it.                *)
ParseFrame(f) ==
  LET gap == ~CheckSequenceGap(f.token, IF f.shown THEN f.no ELSE 0)
      left == IF gap THEN snapshot_received_ \ {f.token} ELSE snapshot_received_
  IN  /\ token_seq_map_' = IF f.shown THEN [token_seq_map_ EXCEPT ![f.token] = f.no]
                           ELSE token_seq_map_
      /\ told' = IF gap THEN TriggerResubscribe(f.token) ELSE told
      /\ snapshot_received_' = IF f.topic = "book" THEN left \cup {f.token} ELSE left

(* History: one frame with its number came before the one that is missing,  *)
(* one with its number after it.                                            *)
Reveals(f) ==
  f.shown /\ token_seq_map_[f.token] # 0 /\ missed[f.token] > token_seq_map_[f.token]
Notes(f) ==
  IF f.topic = "book" THEN missed' = [missed EXCEPT ![f.token] = 0] /\ hole' = hole \ {f.token}
  ELSE missed' = missed /\ hole' = IF Reveals(f) THEN hole \cup {f.token} ELSE hole

(* A full queue drops the event, after the marks have been set.             *)
TryPush(f) ==
  queue' = IF Len(queue) < QueueCap
           THEN Append(queue, [token |-> f.token, topic |-> f.topic]) ELSE queue

OnMarketFrame(skew) ==
  /\ wire # <<>> /\ wire' = Tail(wire)
  /\ IF TimeAccepted(skew)
     THEN ParseFrame(Head(wire)) /\ Notes(Head(wire)) /\ TryPush(Head(wire))
     ELSE Misses(Head(wire)) /\ UNCHANGED <<token_seq_map_, told, snapshot_received_, queue>>
  /\ UNCHANGED <<link, served, no, adapter, breaks, user>>

(* OrderBookAdapter::OnEvent of the consumer; a full table takes no new     *)
(* token, and nothing resets it when the connection is a new one.           *)
OnEvent ==
  /\ queue # <<>> /\ queue' = Tail(queue)
  /\ LET f == Head(queue)
         known == {t \in Tokens : adapter[t] # "none"}
     IN  adapter' = CASE f.token \notin known /\ Cardinality(known) >= AdapterCap -> adapter
                      [] f.topic = "book"      -> [adapter EXCEPT ![f.token] = "live"]
                      [] f.token \notin known -> [adapter EXCEPT ![f.token] = "waiting"]
                      [] OTHER                 -> adapter
  /\ UNCHANGED <<link, told, served, no, wire, token_seq_map_, snapshot_received_, missed,
                 hole, breaks, user>>

-----------------------------------------------------------------------------
(* The user channel.                                                        *)
OnUserConnected ==
  /\ userLink = "connecting" /\ userLink' = "up" /\ userTold' = user_condition_ids_
  /\ userServed' = {}
  /\ UNCHANGED <<market, breaks, user_condition_ids_, wanted>>

OnUserDisconnected ==
  /\ userLink = "up" /\ breaks < MaxBreaks /\ breaks' = breaks + 1
  /\ userLink' = "connecting" /\ userTold' = {} /\ userServed' = {}
  /\ UNCHANGED <<market, user_condition_ids_, wanted>>

(* Mutant: a condition is remembered when its frame could be sent.          *)
RememberSent(conditions) == IF userLink = "up" THEN conditions ELSE {}

Remember(conditions) == conditions

SubscribeUserMarkets(conditions) ==
  /\ conditions # {}
  /\ user_condition_ids_' = user_condition_ids_ \cup Remember(conditions)
  /\ userTold' = Asks(userLink, userTold, conditions)
  /\ wanted' = wanted \cup conditions
  /\ UNCHANGED <<market, breaks, userLink, userServed>>

AnswerUser ==
  /\ userTold # {} /\ userServed' = userServed \cup userTold /\ userTold' = {}
  /\ UNCHANGED <<market, breaks, userLink, user_condition_ids_, wanted>>

-----------------------------------------------------------------------------
Exchange == \E t \in Tokens : Answer(t) \/ Change(t)
Frames == \E skew \in Skews : OnMarketFrame(skew)

Next ==
  \/ Start \/ OnMarketConnected \/ OnMarketDisconnected \/ Exchange \/ Lose
  \/ \E tokens \in SUBSET Tokens : SubscribeMarketTokens(tokens)
  \/ Frames \/ OnEvent
  \/ OnUserConnected \/ OnUserDisconnected \/ AnswerUser
  \/ \E conditions \in SUBSET Conditions : SubscribeUserMarkets(conditions)

Spec == Init /\ [][Next]_vars

(* The transport connects and delivers, the exchange answers and goes on,   *)
(* and the consumer empties the queue.                                      *)
Fairness ==
  /\ WF_vars(OnMarketConnected) /\ WF_vars(OnUserConnected) /\ WF_vars(AnswerUser)
  /\ \A t \in Tokens : WF_vars(Answer(t)) /\ WF_vars(Change(t))
  /\ WF_vars(Frames) /\ WF_vars(OnEvent)

FairSpec == Spec /\ Fairness

-----------------------------------------------------------------------------
(* A frame that is missing between two that show their numbers is made up   *)
(* for: the exchange is asked and sends a whole book, unless that is lost   *)
(* in its turn, or the connection breaks (a bounded exchange may have       *)
(* nothing left to send).  Of a first book that is lost, and of frames      *)
(* without numbers, the code promises nothing; nor that the sink has room.  *)
GapHeals ==
  \A t \in Tokens : t \in hole ~> (t \notin hole \/ (no[t] = MaxNo /\ wire = <<>>))

(* Whatever condition the user channel was ever told of, before a connection*)
(* or between two, is asked for on the one that is up.                      *)
UserAsksForAll == userLink = "up" => wanted \subseteq userTold \cup userServed
=============================================================================
