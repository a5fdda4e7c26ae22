------------------------------ MODULE OrderFlow ------------------------------
(***************************************************************************)
(* The live order path of the trading loop in time: which orders leave the *)
(* process while the fate of earlier ones is still unknown.                *)
(*                                                                         *)
(* A tick first books the confirmed trades in the queue, then decides      *)
(* token by token.  An order passes the cooldown of its token, the storm   *)
(* halt, the pause after the token's last order and the caps of the risk   *)
(* gateway, which only sees what is booked.  Posting blocks the loop until *)
(* the answer or a time-out.  An order whose answer settles nothing is     *)
(* open: it dies, or its trade is confirmed later and waits in the queue   *)
(* for the next tick.                                                      *)
(*                                                                         *)
(* Time is counted in units of the shortest pause.  How long an answer     *)
(* takes, how long a tick lasts and how long a fate stays unknown is bound *)
(* by nothing: what the cooldowns achieve is said of orders whose verdict  *)
(* comes before they are over, and of the others that they are overdue.    *)
(*                                                                         *)
(* Amounts are money, and a trade moves the exposure by the amount of its  *)
(* order: all prices are one.  What a sale at another price leaves of a    *)
(* position is the subject of Account and Exposure.                        *)
(***************************************************************************)
EXTENDS Integers, Sequences, FiniteSets, Functions

CONSTANTS
  Tokens, Conditions, ConditionOf, Events, NoEvent,
  EventOf,          \* the event of a market
  Sizes,            \* order sizes, pUSD
  per_order_cap_usdc, per_outcome_cap_usdc, market_exposure_cap_usdc,
  event_exposure_cap_usdc, bankroll_usdc,
  kHardRejectCooldownNs, kLivePendingConfirmCooldownNs, kLiveTokenSerializeNs,
  kStormWindowNs, kStormMaxLiveOrders,
  MaxTime,          \* bound: the clock
  MaxOrders         \* bound: orders posted

ASSUME OrderFlowAssumption ==
  /\ ConditionOf \in [Tokens -> Conditions]
  /\ NoEvent \notin Events /\ EventOf \in [Conditions -> Events \cup {NoEvent}]
  /\ Sizes \subseteq Nat \ {0}
  /\ per_order_cap_usdc \in Nat /\ per_outcome_cap_usdc \in Nat /\ market_exposure_cap_usdc \in Nat
  /\ event_exposure_cap_usdc \in Nat /\ bankroll_usdc \in Nat
  /\ kHardRejectCooldownNs \in Nat \ {0} /\ kLivePendingConfirmCooldownNs \in Nat \ {0}
  /\ kLiveTokenSerializeNs \in Nat /\ kStormWindowNs \in Nat /\ kStormMaxLiveOrders \in Nat
  /\ MaxTime \in Nat /\ MaxOrders \in Nat

VARIABLES
  now,
  pc,                     \* where the loop thread is
  posting,                \* the order waiting for its answer, if any
  hard_reject_until_ns_,  \* per token; 0 is an erased entry
  live_token_next_ok_ns_,
  live_exec_times_ns_,    \* the storm window
  live_storm_halt_,
  exposure,               \* PositionLedger: booked notional per token
  open,                   \* orders whose fate is unknown
  queue_,                 \* orders whose trade is confirmed and not booked
  executed,               \* history: when each order was answered
  overdue                 \* history: tokens with an order unbooked for a whole cooldown

gates == <<hard_reject_until_ns_, live_token_next_ok_ns_, live_exec_times_ns_, live_storm_halt_>>
vars == <<now, pc, posting, gates, exposure, open, queue_, executed, overdue>>

Order == [token : Tokens, side : {"Buy", "Sell"}, size : Sizes, at : Nat]

(* Orders the exchange has or may have matched and the ledger does not show. *)
Unbooked == posting \cup open \cup queue_

(* The cooldown an order leaves behind when its answer settles nothing is   *)
(* at least this long, from the time it was posted.                         *)
Cooldown ==
  IF kHardRejectCooldownNs <= kLivePendingConfirmCooldownNs THEN kHardRejectCooldownNs
  ELSE kLivePendingConfirmCooldownNs

-----------------------------------------------------------------------------
(* The gateway's rules on what the loop has fed it.                          *)

ExposureOf(c) == FoldFunctionOnSet(+, 0, exposure, {t \in Tokens : ConditionOf[t] = c})
GrossOf(e) == FoldFunctionOnSet(+, 0, exposure, {t \in Tokens : EventOf[ConditionOf[t]] = e})

RM == INSTANCE RiskGateway WITH
        Signals <- {}, Exposures <- {}, Pnls <- {}, Bankrolls <- {}, OperatorStates <- {},
        Faults <- {}, daily_loss_halt_usdc <- 0, daily_loss_soft_pct <- 0,
        daily_loss_hard_pct <- 0,
        state_ <- "RUNNING", daily_pnl_usdc_ <- 0, bankroll_usdc_ <- bankroll_usdc,
        condition_exposure_usdc <- [c \in Conditions |-> ExposureOf(c)],
        token_exposure_usdc <- exposure,
        condition_event <- EventOf,
        event_gross_usdc <- [e \in Events |-> GrossOf(e)],
        seen_signal_ids <- {}, approvals <- <<>>, killed <- FALSE

Approved(o) == ~RM!PositionCapHit(o)

-----------------------------------------------------------------------------
(* Time and the exchange.                                                    *)

Advance ==
  /\ now < MaxTime /\ now' = now + 1
  /\ overdue' = overdue \cup {o.token : o \in {p \in open \cup queue_ : now' >= p.at + Cooldown}}
  /\ UNCHANGED <<pc, posting, gates, exposure, open, queue_, executed>>

Confirm(o) ==
  /\ o \in open
  /\ open' = open \ {o}
  /\ queue_' = queue_ \cup {o}
  /\ UNCHANGED <<now, pc, posting, gates, exposure, executed, overdue>>

Die(o) ==
  /\ o \in open
  /\ open' = open \ {o}
  /\ UNCHANGED <<now, pc, posting, gates, exposure, queue_, executed, overdue>>

-----------------------------------------------------------------------------
(* The loop.                                                                 *)

Filled(e, o) ==
  [e EXCEPT ![o.token] = IF o.side = "Buy" THEN @ + o.size ELSE @ - o.size]

DrainUserFills(o) ==
  /\ pc = "drain" /\ o \in queue_
  /\ queue_' = queue_ \ {o}
  /\ exposure' = Filled(exposure, o)
  /\ UNCHANGED <<now, pc, posting, gates, open, executed, overdue>>

BeginDecide ==
  /\ pc = "drain" /\ queue_ = {}
  /\ pc' = "decide"
  /\ UNCHANGED <<now, posting, gates, exposure, open, queue_, executed, overdue>>

EndTick ==
  /\ pc = "decide" /\ pc' = "drain"
  /\ UNCHANGED <<now, posting, gates, exposure, open, queue_, executed, overdue>>

(* mutant: the cooldown of the token is not asked *)
MayOrderUncooled(t) == ~live_storm_halt_ /\ now >= live_token_next_ok_ns_[t]

MayOrder(t) ==
  /\ now >= hard_reject_until_ns_[t]
  /\ ~live_storm_halt_
  /\ now >= live_token_next_ok_ns_[t]

(* mutant: a sale is not clamped to the money that is held *)
PostOrderUnclamped(o) ==
  /\ pc = "decide" /\ o.at = now
  /\ Len(executed) < MaxOrders
  /\ MayOrder(o.token)
  /\ Approved(o)
  /\ pc' = "posting" /\ posting' = {o}
  /\ UNCHANGED <<now, gates, exposure, open, queue_, executed, overdue>>

(* ExecuteControllerSide up to the call of the executor.  Sales are clamped  *)
(* to the money that is held, at cost.                                       *)
PostOrder(o) ==
  /\ pc = "decide" /\ o.at = now
  /\ Len(executed) < MaxOrders
  /\ MayOrder(o.token)
  /\ o.side = "Sell" => o.size <= exposure[o.token]
  /\ Approved(o)
  /\ pc' = "posting" /\ posting' = {o}
  /\ UNCHANGED <<now, gates, exposure, open, queue_, executed, overdue>>

(* mutant: the window keeps its newest entry only *)
FirstInWindowNewest(times, k) == k = Len(times)

(* Popping from the front stops at k.                                        *)
FirstInWindow(times, k) ==
  /\ now - times[k] <= kStormWindowNs
  /\ \A j \in 1..(k - 1) : now - times[j] > kStormWindowNs

(* The answer is there: the token pauses, the window moves, and too many     *)
(* orders in it stop everything.                                             *)
Answered(o) ==
  /\ pc = "posting" /\ o \in posting
  /\ pc' = "decide" /\ posting' = {}
  /\ live_token_next_ok_ns_' = [live_token_next_ok_ns_ EXCEPT ![o.token] = now + kLiveTokenSerializeNs]
  /\ LET times == Append(live_exec_times_ns_, now)
     IN  \E k \in DOMAIN times :
           /\ FirstInWindow(times, k)
           /\ live_exec_times_ns_' = SubSeq(times, k, Len(times))
  /\ live_storm_halt_' = (live_storm_halt_ \/ Len(live_exec_times_ns_') > kStormMaxLiveOrders)
  /\ executed' = Append(executed, now)
  /\ UNCHANGED <<now, queue_, overdue>>

AnswerMatched(o) ==
  /\ Answered(o)
  /\ exposure' = Filled(exposure, o)
  /\ hard_reject_until_ns_' = [hard_reject_until_ns_ EXCEPT ![o.token] = 0]
  /\ UNCHANGED open

(* ClobRejected: the exchange refused the order, or the request failed or    *)
(* timed out, which says nothing of the order.                               *)
AnswerRejected(o) ==
  /\ Answered(o)
  /\ \/ open' = open
     \/ open' = open \cup {o}
  /\ hard_reject_until_ns_' = [hard_reject_until_ns_ EXCEPT ![o.token] = now + kHardRejectCooldownNs]
  /\ UNCHANGED exposure

(* mutant: an unknown fate starts no cooldown *)
AnswerUnknownUncooled(o) ==
  /\ Answered(o)
  /\ open' = open \cup {o}
  /\ UNCHANGED <<exposure, hard_reject_until_ns_>>

(* BernoulliMissed: delayed or unmatched.                                    *)
AnswerUnknown(o) ==
  /\ Answered(o)
  /\ open' = open \cup {o}
  /\ hard_reject_until_ns_' =
       [hard_reject_until_ns_ EXCEPT ![o.token] = now + kLivePendingConfirmCooldownNs]
  /\ UNCHANGED exposure

-----------------------------------------------------------------------------
Init ==
  /\ now = 0 /\ pc = "drain" /\ posting = {}
  /\ hard_reject_until_ns_ = [t \in Tokens |-> 0]
  /\ live_token_next_ok_ns_ = [t \in Tokens |-> 0]
  /\ live_exec_times_ns_ = <<>> /\ live_storm_halt_ = FALSE
  /\ exposure = [t \in Tokens |-> 0]
  /\ open = {} /\ queue_ = {} /\ executed = <<>> /\ overdue = {}

Answer(o) == AnswerMatched(o) \/ AnswerRejected(o) \/ AnswerUnknown(o)

Next ==
  \/ Advance \/ BeginDecide \/ EndTick
  \/ \E o \in open : Confirm(o) \/ Die(o)
  \/ \E o \in queue_ : DrainUserFills(o)
  \/ \E o \in posting : Answer(o)
  \/ \E t \in Tokens, side \in {"Buy", "Sell"}, size \in Sizes :
       PostOrder([token |-> t, side |-> side, size |-> size, at |-> now])

Spec == Init /\ [][Next]_vars

-----------------------------------------------------------------------------
(* Properties.                                                               *)

(* The members keep their shape.                                             *)
TypeOK ==
  /\ now \in Nat /\ pc \in {"drain", "decide", "posting"}
  /\ posting \subseteq Order /\ open \subseteq Order /\ queue_ \subseteq Order
  /\ hard_reject_until_ns_ \in [Tokens -> Nat] /\ live_token_next_ok_ns_ \in [Tokens -> Nat]
  /\ live_exec_times_ns_ \in Seq(Nat) /\ live_storm_halt_ \in BOOLEAN
  /\ exposure \in [Tokens -> Int] /\ executed \in Seq(Nat) /\ overdue \subseteq Tokens

(* The storm halt bounds the damage of any retry bug: of the orders of one   *)
(* process, at most kStormMaxLiveOrders + 1 are answered within a window,    *)
(* wherever the window starts.                                               *)
StormBounded ==
  \A i \in DOMAIN executed :
    i + kStormMaxLiveOrders + 1 \in DOMAIN executed
      => executed[i + kStormMaxLiveOrders + 1] - executed[i] > kStormWindowNs

(* Two orders of one token of which the ledger knows nothing are a whole     *)
(* cooldown apart, whatever the exchange answers, when and in which order.   *)
UnbookedApart ==
  \A o1, o2 \in Unbooked :
    o1.token = o2.token /\ o1 # o2 =>
      o1.at + Cooldown <= o2.at \/ o2.at + Cooldown <= o1.at

(* per_outcome_cap_usdc holds on the exchange and not only in the ledger: a  *)
(* token stays within its cap when an unbooked order turns out matched, as   *)
(* long as no order of it was ever left unbooked for a whole cooldown.       *)
TokenCapOnChain ==
  per_outcome_cap_usdc > 0 =>
    \A t \in Tokens \ overdue :
      /\ exposure[t] \in 0..per_outcome_cap_usdc
      /\ \A o \in Unbooked : o.token = t => Filled(exposure, o)[t] \in 0..per_outcome_cap_usdc
=============================================================================
