------------------------------ MODULE PaperTick ------------------------------
(***************************************************************************)
(* TradingLoop::TickOne on the paper path: the loop decides one binary     *)
(* market, drives the token of the selected outcome to its target and, if  *)
(* the other outcome is held too, sells that one.  Signing, matching and   *)
(* booking happen inside the call, so a tick is one step.                  *)
(*                                                                         *)
(* Targets and orders are amounts of money, positions are shares: a target *)
(* is compared with what the holding cost, an order of some amount moves   *)
(* amount / price shares.  Amounts and shares are whole units here and the *)
(* divisions round as the code's do.  A price is a number of ticks.        *)
(*                                                                         *)
(* The two books of a market mirror each other.  The paper matcher's       *)
(* slippage of half a tick is left out, and so is the stop on a crash      *)
(* (frozen_hard_stop_pct), which the daemon turns off.                     *)
(***************************************************************************)
EXTENDS Integers

CONSTANTS
  kOne,                     \* ticks of a full payout
  Books,                    \* the YES book: [bid, ask]
  Fairs,                    \* fair price of YES
  Kellys,                   \* amounts the sizing asks for; 0 without the odds feed
  Drawdowns,                \* dd_mult_, in halves
  Goals,                    \* is there a fresh goal the order flow confirms
  Turned,                   \* sides whose book can turn down
  FillRates,                \* halves of an order the matcher fills
  RestoredCost, RestoredPrice,   \* a position the last process may have left
  margin,                   \* fee and required margin around the fair price
  min_rebalance_floor_pusd, kClobMinNotionalUsd, kClobMinShares,
  per_order_cap_usdc, must_win_lock_usdc,
  min_open_fair, kMaxOpenAsk, loss_cut_fair_band, force_cross_fair_delta,
  kGameDecidedMaxPx,
  MaxTrades                 \* bound: executed orders

Sides == {"Yes", "No"}
Market == [book : Books, fair : Fairs, decided : {-1, 0, 1},
           kelly : Kellys, dd : Drawdowns, goal : Goals, down : Turned]

ASSUME PaperTickAssumption ==
  /\ kOne \in Nat \ {0} /\ margin \in Nat /\ MaxTrades \in Nat
  /\ Books \subseteq [bid : 1..(kOne - 1), ask : 1..(kOne - 1)]
  /\ \A b \in Books : b.bid < b.ask
  /\ Fairs \subseteq 1..(kOne - 1) /\ Kellys \subseteq Nat /\ Drawdowns \subseteq 0..2
  /\ FillRates \subseteq 0..2 /\ Goals \subseteq BOOLEAN /\ Turned \subseteq Sides \cup {"none"}
  /\ RestoredCost \in Nat \ {0} /\ RestoredPrice \in 1..(kOne - 1)
  /\ per_order_cap_usdc \in Nat \ {0} /\ must_win_lock_usdc \in Nat
  /\ min_rebalance_floor_pusd \in Nat /\ kClobMinNotionalUsd \in Nat /\ kClobMinShares \in Nat

VARIABLES
  positions,     \* PositionLedger: Sides -> [listed, shares, avg]
  last_p_fair_,  \* fair price of the tick before; 0 is no entry
  tick,          \* history: the prices the last tick saw, and the sides it bought
  trades         \* history: executed orders

vars == <<positions, last_p_fair_, tick, trades>>

LP == INSTANCE PositionLedger WITH
        Conditions <- {}, Engines <- {}, NoEngine <- "", Modes <- {0}, accepted_mode_tag <- 0,
        Sizes <- {}, PriceTicks <- {}, MaxShares <- 0, MaxFills <- 0,
        token_positions_ <- positions, condition_exposure_ <- <<>>, engine_pos_ <- <<>>,
        ledger_snapshot <- <<>>, paid <- <<>>, fills <- 0

-----------------------------------------------------------------------------
(* Amounts, shares and prices.                                               *)

Smaller(a, b) == IF a <= b THEN a ELSE b
Larger(a, b) == IF a >= b THEN a ELSE b
Magnitude(a) == Larger(a, -a)

(* llround: to the nearest, halves away from zero.                           *)
Rounded(n, d) == IF n >= 0 THEN (2 * n + d) \div (2 * d) ELSE -((d - 2 * n) \div (2 * d))

(* get_engine_position_notional: what the holding cost.                      *)
Cost(pv) == Rounded(pv.shares * pv.avg.num, pv.avg.den * kOne)

SharesFor(amount, price) == Rounded(amount * kOne, price)

Held(pos, s) == pos[s].shares # 0
BothHeld(pos) == Held(pos, "Yes") /\ Held(pos, "No")
Below(price, pv) == pv.avg.num > 0 /\ price * pv.avg.den < pv.avg.num

Other(s) == IF s = "Yes" THEN "No" ELSE "Yes"
Bid(m, s) == IF s = "Yes" THEN m.book.bid ELSE kOne - m.book.ask
Ask(m, s) == IF s = "Yes" THEN m.book.ask ELSE kOne - m.book.bid
Fair(m, s) == IF s = "Yes" THEN m.fair ELSE kOne - m.fair

(* Twice the market's own probability of s.                                  *)
Devig2(m, s) == Bid(m, s) + Ask(m, s)

Loses(m, s) == m.decided = (IF s = "Yes" THEN -1 ELSE 1)
Wins(m, s) == Loses(m, Other(s))
LocksWin(m, s) == Wins(m, s) /\ must_win_lock_usdc > 0

-----------------------------------------------------------------------------
(* Which outcome, and how much of it.                                        *)

(* mutant: the edge alone selects *)
SelectSideUnlocked(m, pos) == IF 2 * m.fair >= Devig2(m, "Yes") THEN "Yes" ELSE "No"

(* The underpriced outcome, unless one of them is already held.              *)
SelectSide(m, pos) ==
  IF Held(pos, "Yes") # Held(pos, "No")
  THEN CHOOSE s \in Sides : Held(pos, s)
  ELSE IF 2 * m.fair >= Devig2(m, "Yes") THEN "Yes" ELSE "No"

(* New money needs a likely winner.                                          *)
KellyTarget(m, s) == IF Fair(m, s) >= min_open_fair THEN m.kelly ELSE 0

(* A decided loser is sold once the market agrees, a decided winner bought;  *)
(* otherwise what is held is held until settlement.                          *)
SelectedTarget(m, s, pos) ==
  LET held == Magnitude(Cost(pos[s]))
  IN  IF Loses(m, s) /\ Devig2(m, s) <= 2 * kGameDecidedMaxPx THEN 0
      ELSE IF Wins(m, s) THEN Larger(KellyTarget(m, s), must_win_lock_usdc)
      ELSE Larger(KellyTarget(m, s), held)

(* The other side is sold when that loses nothing, or when the game is over. *)
SellsOther(m, s, pos) ==
  /\ Held(pos, s)
  /\ m.decided = 0 => ~Below(Bid(m, s), pos[s])

ForceCross(m) ==
  \/ last_p_fair_ # 0 /\ Magnitude(m.fair - last_p_fair_) > force_cross_fair_delta
  \/ m.goal

-----------------------------------------------------------------------------
(* One token to its target: position_controller.hpp and the gates after it.  *)

(* mutant: the drawdown shrinks the whole target *)
DrawnDownWhole(target, current, dd) == (dd * target) \div 2

(* A drawdown slows purchases and forces no sale.                            *)
DrawnDown(target, current, dd) ==
  IF target > current THEN current + (dd * (target - current)) \div 2 ELSE target

(* A tenth of the target, before the drawdown.                               *)
Deadband(target) == Larger(min_rebalance_floor_pusd, target \div 10)

MinOrder(ask) == Larger(kClobMinNotionalUsd, Rounded(kClobMinShares * ask, kOne))

BuySize(gap, current, minOrder) ==
  LET size == Smaller(gap, per_order_cap_usdc)
  IN  IF size >= minOrder THEN size
      ELSE IF per_order_cap_usdc < minOrder \/ current >= minOrder THEN 0
      ELSE minOrder

(* mutant: a sale takes any bid *)
DecideTakes(target, current, fair, bid, ask, deadband, minOrder, force) ==
  LET gap == target - current
  IN  IF ~force /\ Magnitude(gap) < deadband THEN 0
      ELSE IF gap > 0
           THEN IF ask <= fair - margin THEN BuySize(gap, current, minOrder) ELSE 0
      ELSE IF bid > 0
           THEN -Smaller(Smaller(-gap, per_order_cap_usdc), Larger(0, current)) ELSE 0

(* Decide: the amount to buy, or minus the amount to sell, or nothing.       *)
Decide(target, current, fair, bid, ask, deadband, minOrder, force) ==
  LET gap == target - current
  IN  IF ~force /\ Magnitude(gap) < deadband THEN 0
      ELSE IF gap > 0
           THEN IF ask <= fair - margin THEN BuySize(gap, current, minOrder) ELSE 0
      ELSE IF bid >= fair + margin
           THEN -Smaller(Smaller(-gap, per_order_cap_usdc), Larger(0, current)) ELSE 0

(* A loss is cut only when the fair price fell with the bid, a profit taken  *)
(* only when the book turns, a dear token bought only on a jump.             *)
Gated(size, m, s, pv, force) ==
  \/ size < 0 /\ Below(Bid(m, s), pv)
       /\ (Fair(m, s) + loss_cut_fair_band) * pv.avg.den > pv.avg.num
  \/ size < 0 /\ pv.avg.num > 0 /\ ~Below(Bid(m, s), pv) /\ m.down # s
  \/ size > 0 /\ ~force /\ Ask(m, s) > kMaxOpenAsk

(* The order of one side: an amount, signed.                                 *)
Order(m, s, pos, target, force) ==
  LET current == Cost(pos[s])
      size == Decide(DrawnDown(target, current, m.dd), current, Fair(m, s), Bid(m, s), Ask(m, s),
                     Deadband(target), MinOrder(Ask(m, s)), force)
  IN  IF Gated(size, m, s, pos[s], force) THEN 0 ELSE size

(* What the matcher fills of it, rate halves of the order at the touch; a    *)
(* rate of 0 stands for every refusal between the gates and the match.       *)
Executed(m, s, pos, amount, rate) ==
  LET price == IF amount > 0 THEN Ask(m, s) ELSE Bid(m, s)
      shares == Rounded(SharesFor(Magnitude(amount), price) * rate, 2)
  IN  IF amount = 0 \/ shares = 0 THEN pos
      ELSE [pos EXCEPT ![s] = LP!UpdatedPosition(@, IF amount > 0 THEN shares ELSE -shares,
                                                 LP!Ticks(price))]

ExecuteControllerSide(m, s, pos, target, force, rate) ==
  Executed(m, s, pos, Order(m, s, pos, target, force), rate)

-----------------------------------------------------------------------------
Bought(before, after) == {s \in Sides : after[s].shares > before[s].shares}
Seen(m, bought) == [book |-> m.book, fair |-> m.fair, decided |-> m.decided, bought |-> bought]
Traded(before, after) == IF before = after THEN 0 ELSE 1

TickOne(m, rate, otherRate) ==
  LET s == SelectSide(m, positions)
      o == Other(s)
      mid == ExecuteControllerSide(m, s, positions, SelectedTarget(m, s, positions),
                                   ForceCross(m) \/ LocksWin(m, s), rate)
      after == IF SellsOther(m, o, mid)
               THEN ExecuteControllerSide(m, o, mid, 0, ForceCross(m), otherRate) ELSE mid
  IN  /\ trades + Traded(positions, mid) + Traded(mid, after) <= MaxTrades
      /\ positions' = after
      /\ last_p_fair_' = m.fair
      /\ tick' = Seen(m, Bought(positions, after))
      /\ trades' = trades + Traded(positions, mid) + Traded(mid, after)

(* A new process holds nothing, or what the snapshot of the last one lists.  *)
Init ==
  /\ \E held \in SUBSET Sides :
       positions = [s \in Sides |->
         IF s \in held
         THEN LP!UpdatedPosition(LP!NoPosition, SharesFor(RestoredCost, RestoredPrice),
                                 LP!Ticks(RestoredPrice))
         ELSE LP!NoPosition]
  /\ last_p_fair_ = 0 /\ trades = 0
  /\ tick = Seen(CHOOSE m \in Market : TRUE, {})

Next == \E m \in Market, rate, otherRate \in FillRates : TickOne(m, rate, otherRate)

Spec == Init /\ [][Next]_vars

-----------------------------------------------------------------------------
(* Properties.                                                               *)

(* The loop never buys into the outcome opposite to one it holds: both are   *)
(* held only if they were from the start.                                    *)
NeverSwitches == [][BothHeld(positions') => BothHeld(positions)]_vars

(* Hold to settlement: while the game is undecided nothing is sold, neither  *)
(* on a smaller target nor on a drawdown nor when the odds feed is lost,     *)
(* but a side held beside the other one, and that at no loss.                *)
RideToSettlement ==
  [][tick'.decided = 0 =>
       \A s \in Sides :
         positions'[s].shares < positions[s].shares
           => BothHeld(positions) /\ ~Below(Bid(tick', s), positions[s])]_vars

(* The margins around the fair price keep the loop from selling in one tick  *)
(* what it bought in the tick before: the book or the fair price moves first.*)
NoChurn ==
  [][\A s \in tick.bought :
       positions'[s].shares < positions[s].shares
         => <<tick'.book, tick'.fair>> # <<tick.book, tick.fair>>]_vars
=============================================================================
