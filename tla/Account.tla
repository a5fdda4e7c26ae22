------------------------------ MODULE Account -------------------------------
(***************************************************************************)
(* The money of the trading loop.                                          *)
(*                                                                         *)
(* The loop knows its cash as one identity over four numbers: the gross    *)
(* capital, what its open positions cost, the profit it has realised and   *)
(* the fees it has paid (account_equity).  Purchases are checked against   *)
(* the cash frozen at the entry of the tick and scaled by a multiplier     *)
(* that follows the drawdown with a hysteresis.  A restart restores the    *)
(* numbers from the snapshot; in live mode the positions and the capital   *)
(* come from the chain instead (SeedLivePositionsFromOnchain).             *)
(*                                                                         *)
(* A sale is limited in money, at cost: below the entry price it is more   *)
(* shares than are held, and on paper nothing refuses it.  A position is a *)
(* number of either sign, and what it cost has the sign of its shares.     *)
(*                                                                         *)
(* `wallet' and `chain' are what the exchange has: the true cash and the   *)
(* true shares.  In paper mode they are what an exchange would have had    *)
(* that lets shares be owed.                                               *)
(***************************************************************************)
EXTENDS Integers, FiniteSetsExt, Functions

CONSTANTS
  Tokens,
  Dollar,          \* ticks of a dollar: what a winning share pays
  Prices,          \* prices inside (0, Dollar)
  Fee,             \* fee of one share
  Verdicts,        \* how a token may be decided
  Deposit,         \* the capital at the first start
  T1, T2, Halt, Band,  \* drawdown tiers and hysteresis band, in percent
  MaxBuysPerTick,  \* bound on the purchases of one tick
  MaxTrades, MaxRestarts

(* Assumed of the constants where the module is instantiated.              *)
AccountAssumption ==
  /\ IsFiniteSet(Tokens) /\ Dollar \in Nat \ {0} /\ Prices \subseteq 1..(Dollar - 1)
  /\ Fee \in Nat /\ Verdicts \subseteq {"won", "lost", "void"} /\ Deposit \in Nat \ {0}
  /\ {T1, T2, Halt, Band} \subseteq 0..100 /\ T1 < T2 /\ T2 < Halt
  /\ {MaxBuysPerTick, MaxTrades, MaxRestarts} \subseteq Nat

Outcomes == {"open", "won", "lost", "void"}
None == 0           \* no mark seen: no price is 0
Flat == [t \in Tokens |-> [qty |-> 0, cost |-> 0]]

VARIABLES
  mode,        \* ExecutionContext::Mode
  alive,
  ticking, cash_at_entry, equity_at_entry,  \* tick_equity_
  bought,      \* purchases of this tick
  fee_at_entry,  \* history: the fees booked before this tick
  oversold,    \* history: a token was short at some moment of this tick
  bankroll,    \* cfg_.bankroll_usdc
  pos,         \* the ledger: shares and what they cost
  realized, fee,       \* cum_realized_pnl_pusd_, cum_fee_pusd_
  mark,        \* microprice of the book, or the last mid seen
  peak, recorded, dd_mult,  \* portfolio_metrics_, dd_mult_ in quarters
  snapshot,    \* the ledger snapshot
  wallet, chain, outcome,   \* the exchange
  unseen,      \* history: what the loop's cash is too high by
  trades, restarts

ledger == <<bankroll, pos, realized, fee>>
tick == <<ticking, cash_at_entry, equity_at_entry, bought, fee_at_entry, oversold>>
drawdown == <<peak, recorded, dd_mult>>
exchange == <<wallet, chain, outcome>>
vars == <<mode, alive, tick, ledger, mark, drawdown, snapshot, exchange, unseen, trades,
          restarts>>

-----------------------------------------------------------------------------
(* account_equity: only what is held long locks cash.                       *)
LockedCost ==
  SumFunctionOnSet([t \in Tokens |-> IF pos[t].qty > 0 THEN pos[t].cost ELSE 0], Tokens)
CashAvailable == bankroll - LockedCost + realized - fee

(* A position without a mark is valued at what it cost.                     *)
Value(t) == IF mark[t] = None THEN pos[t].cost ELSE mark[t] * pos[t].qty
EquityMark ==
  bankroll + realized - fee + SumFunctionOnSet([t \in Tokens |-> Value(t) - pos[t].cost], Tokens)

(* DrawdownTierMultiplier of the drawdown from `top' to `e', widened by     *)
(* `extra' percent; current_drawdown is zero without a positive peak.       *)
DrawdownTierMultiplier(top, e, extra) ==
  LET reaches(tier) == LET fall == IF top > 0 /\ e < top THEN top - e ELSE 0
                       IN  100 * fall + extra * top >= tier * top
  IN  IF top <= 0 THEN 4
      ELSE IF reaches(Halt) THEN 0
      ELSE IF reaches(T2) THEN 1
      ELSE IF reaches(T1) THEN 2 ELSE 4

TypeOK ==
  /\ mode \in {"paper", "live"} /\ {alive, ticking} \subseteq BOOLEAN
  /\ \A p \in {pos, chain} : p \in [Tokens -> [qty : Int, cost : Int]]
  /\ {realized, bankroll, wallet, cash_at_entry, unseen} \subseteq Int /\ fee \in Nat
  /\ mark \in [Tokens -> Prices \cup {None}]
  /\ outcome \in [Tokens -> Outcomes]
  /\ dd_mult \in {0, 1, 2, 4}

NoSnapshot == [pos |-> Flat, realized |-> 0, fee |-> 0,
               wallet |-> Deposit, chain |-> Flat, unseen |-> 0]

Init ==
  /\ mode \in {"paper", "live"} /\ alive = TRUE
  /\ ticking = FALSE /\ cash_at_entry = 0 /\ equity_at_entry = 0 /\ bought = 0
  /\ fee_at_entry = 0 /\ oversold = FALSE
  /\ bankroll = Deposit /\ pos = Flat /\ realized = 0 /\ fee = 0
  /\ mark = [t \in Tokens |-> None]
  /\ peak = 0 /\ recorded = 0 /\ dd_mult = 4
  /\ snapshot = NoSnapshot
  /\ wallet = Deposit /\ chain = Flat /\ outcome = [t \in Tokens |-> "open"]
  /\ unseen = 0 /\ trades = 0 /\ restarts = 0

-----------------------------------------------------------------------------
(* The exchange.                                                            *)
Payoff(t) == CASE outcome[t] = "won" -> Dollar
               [] outcome[t] = "void" -> Dollar \div 2
               [] OTHER -> 0
Decided(t) == outcome[t] # "open"

Quote(t, p) ==
  /\ alive /\ ~ticking /\ ~Decided(t)
  /\ mark' = [mark EXCEPT ![t] = p]
  /\ UNCHANGED <<mode, alive, tick, ledger, drawdown, snapshot, exchange, unseen, trades,
                 restarts>>

Resolve(t, o) ==
  /\ ~Decided(t)
  /\ outcome' = [outcome EXCEPT ![t] = o]
  /\ UNCHANGED <<mode, alive, tick, ledger, mark, drawdown, snapshot, wallet, chain,
                 unseen, trades, restarts>>

(* In live mode somebody redeems the shares of a decided token, before or   *)
(* after the loop has settled it.                                           *)
Redeem(t) ==
  /\ mode = "live" /\ Decided(t) /\ chain[t].qty > 0
  /\ wallet' = wallet + chain[t].qty * Payoff(t)
  /\ chain' = [chain EXCEPT ![t] = Flat[t]]
  /\ UNCHANGED <<mode, alive, tick, ledger, mark, drawdown, snapshot, outcome, unseen, trades,
                 restarts>>

-----------------------------------------------------------------------------
(* A tick.                                                                  *)

(* Mutant: the fees are not in the file.                                    *)
SaveWithoutFees ==
  [pos |-> pos, realized |-> realized, fee |-> 0,
   wallet |-> wallet, chain |-> chain, unseen |-> unseen]

(* TickAll freezes the equity, and saves the ledger once a minute: one      *)
(* thread writes positions, profit and fees of the same moment.             *)
SaveLedgerSnapshot ==
  [pos |-> pos, realized |-> realized, fee |-> fee,
   wallet |-> wallet, chain |-> chain, unseen |-> unseen]

TickBegin(save) ==
  /\ alive /\ ~ticking
  /\ ticking' = TRUE /\ bought' = 0
  /\ cash_at_entry' = CashAvailable /\ equity_at_entry' = EquityMark
  /\ fee_at_entry' = fee /\ oversold' = \E t \in Tokens : pos[t].qty < 0
  /\ snapshot' = IF save THEN SaveLedgerSnapshot ELSE snapshot
  /\ UNCHANGED <<mode, alive, ledger, mark, drawdown, exchange, unseen, trades, restarts>>

(* What q shares cost at the mean entry price of a position, long or short; *)
(* the model trades the amounts for which this is a whole number of ticks.  *)
Magnitude(x) == IF x < 0 THEN -x ELSE x
CostOf(p, t, q) == (Magnitude(p[t].cost) * q) \div Magnitude(p[t].qty)
Exact(t, q) == (Magnitude(pos[t].cost) * q) % Magnitude(pos[t].qty) = 0

(* A purchase adds its price to the cost, or keeps the entry price when it  *)
(* buys back what is owed; a sale takes its part of the cost out.           *)
CostAdded(p, t, q, px) == IF p[t].qty < 0 THEN CostOf(p, t, q) ELSE q * px
Bought(p, t, q, px) ==
  [p EXCEPT ![t] = [qty |-> @.qty + q, cost |-> @.cost + CostAdded(p, t, q, px)]]
Sold(p, t, q) == [p EXCEPT ![t] = [qty |-> @.qty - q, cost |-> @.cost - CostOf(p, t, q)]]

Buyable(t, q) == pos[t].qty < 0 => Exact(t, q)

(* The clamp of the controller is in money at cost; the exchange sells what *)
(* there is.                                                                *)
Sellable(t, q, px) ==
  /\ pos[t].qty > 0 /\ Exact(t, q)
  /\ q * px <= pos[t].cost
  /\ mode = "live" => chain[t].qty >= q

(* A trade that was recovered is one the exchange has made.                 *)
Recoverable(t, q) == pos[t].qty > 0 /\ Exact(t, q) /\ chain[t].qty >= q

(* apply_fill of a purchase or a sale, with what the exchange does.         *)
BookBuy(t, q, px) ==
  /\ pos' = Bought(pos, t, q, px) /\ chain' = Bought(chain, t, q, px)
  /\ wallet' = wallet - q * px - q * Fee
  /\ UNCHANGED realized
BookSellRealized(t, q, px) ==
  /\ realized' = realized + q * px - CostOf(pos, t, q)
  /\ pos' = Sold(pos, t, q) /\ chain' = Sold(chain, t, q)
  /\ wallet' = wallet + q * px - q * Fee

(* PublishLedgerSnapshot adds the fee of a fill to cum_fee_pusd_.           *)
PublishLedgerSnapshot(q) == fee' = fee + q * Fee

(* Mutant: the fee is not part of the price.                                *)
CashCoversNet(q, px) == q * px <= cash_at_entry

(* The gate of ExecuteControllerSide: the cash at the entry of the tick.    *)
(* The fee it reckons with is the rate of the fee times the money of the    *)
(* order, q * px * Fee / Dollar: the part px / Dollar of the one that is    *)
(* booked for its shares.  A multiplier of zero leaves no target above what *)
(* is held.  The exchange fills what the wallet can pay.                    *)
CashCovers(q, px) == Dollar * (q * px) + Fee * (q * px) <= Dollar * cash_at_entry

Buy(t, q, px) ==
  /\ ticking /\ ~Decided(t) /\ trades < MaxTrades /\ bought < MaxBuysPerTick
  /\ dd_mult > 0 /\ CashCovers(q, px) /\ Buyable(t, q)
  /\ mode = "live" => wallet >= q * px + q * Fee
  /\ BookBuy(t, q, px) /\ PublishLedgerSnapshot(q)
  /\ bought' = bought + 1 /\ trades' = trades + 1
  /\ unseen' = unseen + q * px - CostAdded(pos, t, q, px)
  /\ UNCHANGED <<mode, alive, ticking, cash_at_entry, equity_at_entry, fee_at_entry, oversold,
                 bankroll, mark, drawdown, snapshot, outcome, restarts>>

Sell(t, q, px) ==
  /\ ticking /\ ~Decided(t) /\ trades < MaxTrades
  /\ Sellable(t, q, px)
  /\ BookSellRealized(t, q, px) /\ PublishLedgerSnapshot(q)
  /\ oversold' = (oversold \/ q > pos[t].qty)
  /\ trades' = trades + 1
  /\ UNCHANGED <<mode, alive, ticking, cash_at_entry, equity_at_entry, bought, fee_at_entry,
                 bankroll, mark, drawdown, snapshot, outcome, unseen, restarts>>

(* A trade whose answer was lost, booked from its push at the head of a     *)
(* tick: the exchange took a fee, the loop books none.                      *)
RecoverMissedFill(t, q, px) ==
  /\ mode = "live" /\ alive /\ ~ticking
  /\ ~Decided(t) /\ trades < MaxTrades
  /\ BookBuy(t, q, px) \/ (Recoverable(t, q) /\ BookSellRealized(t, q, px))
  /\ unseen' = unseen + q * Fee /\ trades' = trades + 1
  /\ UNCHANGED <<mode, alive, tick, bankroll, fee, mark, drawdown, snapshot, outcome, restarts>>

(* SettleToken, of what is held or owed; on the chain the shares wait to be *)
(* redeemed.                                                                *)
SettleToken(t) ==
  /\ ticking /\ Decided(t) /\ pos[t].qty # 0
  /\ realized' = realized + pos[t].qty * Payoff(t) - pos[t].cost
  /\ pos' = [pos EXCEPT ![t] = Flat[t]]
  /\ IF mode = "live" THEN UNCHANGED <<wallet, chain>>
     ELSE /\ wallet' = wallet + chain[t].qty * Payoff(t)
          /\ chain' = [chain EXCEPT ![t] = Flat[t]]
  /\ UNCHANGED <<mode, alive, tick, bankroll, fee, mark, drawdown, snapshot, outcome,
                 unseen, trades, restarts>>

(* Mutant: the band is taken off the drawdown.                              *)
NextMultiplierEager(m, top, e) ==
  LET drop == DrawdownTierMultiplier(top, e, 0)
      restore == DrawdownTierMultiplier(top, e, 0 - Band)
  IN  IF drop < m THEN drop ELSE IF restore > m THEN restore ELSE m

(* The end of TickAll: the equity of the entry is recorded; the multiplier  *)
(* falls at once and rises only when the drawdown and the band allow it.    *)
NextMultiplier(m, top, e) ==
  LET drop == DrawdownTierMultiplier(top, e, 0)
      restore == DrawdownTierMultiplier(top, e, Band)
  IN  IF drop < m THEN drop ELSE IF restore > m THEN restore ELSE m

TickEnd ==
  /\ ticking /\ ticking' = FALSE
  /\ recorded' = equity_at_entry
  /\ peak' = IF equity_at_entry > peak THEN equity_at_entry ELSE peak
  /\ dd_mult' = NextMultiplier(dd_mult, peak', recorded')
  /\ bought' = 0 /\ cash_at_entry' = 0 /\ equity_at_entry' = 0
  /\ fee_at_entry' = 0 /\ oversold' = FALSE
  /\ UNCHANGED <<mode, alive, ledger, mark, snapshot, exchange, unseen, trades, restarts>>

-----------------------------------------------------------------------------
(* Crash and restart.  The peak and the multiplier are not saved; a         *)
(* snapshot older than a day is not read.                                   *)
Crash ==
  /\ alive /\ restarts < MaxRestarts
  /\ alive' = FALSE /\ restarts' = restarts + 1
  /\ ticking' = FALSE /\ bought' = 0 /\ cash_at_entry' = 0 /\ equity_at_entry' = 0
  /\ fee_at_entry' = 0 /\ oversold' = FALSE
  /\ peak' = 0 /\ recorded' = 0 /\ dd_mult' = 4
  /\ pos' = Flat /\ realized' = 0 /\ fee' = 0 /\ bankroll' = Deposit
  /\ UNCHANGED <<mode, mark, snapshot, exchange, unseen, trades>>

RestoreLedgerSnapshot(s) ==
  /\ mode = "paper" /\ ~alive /\ alive' = TRUE
  /\ pos' = s.pos /\ realized' = s.realized /\ fee' = s.fee
  /\ wallet' = s.wallet /\ chain' = s.chain /\ unseen' = s.unseen
  /\ UNCHANGED <<mode, tick, bankroll, mark, drawdown, snapshot, outcome, trades, restarts>>

(* The positions that are open on the chain are seeded, the others wait to  *)
(* be redeemed.  The capital is taken back from the cash only if something  *)
(* was seeded.                                                              *)
Seeded == {t \in Tokens : ~Decided(t) /\ chain[t].qty > 0}
Anchor(cost, r, f) == IF Seeded # {} THEN wallet + cost - r + f ELSE wallet

SeedLivePositionsFromOnchain(s) ==
  /\ mode = "live" /\ ~alive /\ alive' = TRUE
  /\ pos' = [t \in Tokens |-> IF t \in Seeded THEN chain[t] ELSE Flat[t]]
  /\ realized' = s.realized /\ fee' = s.fee
  /\ bankroll' = Anchor(SumFunctionOnSet([t \in Tokens |-> chain[t].cost], Seeded),
                        s.realized, s.fee)
  /\ unseen' = IF Seeded # {} THEN 0 ELSE s.realized - s.fee
  /\ UNCHANGED <<mode, tick, mark, drawdown, snapshot, exchange, trades, restarts>>

Restart == \E s \in {snapshot, NoSnapshot} :
             RestoreLedgerSnapshot(s) \/ SeedLivePositionsFromOnchain(s)

Next ==
  \/ \E t \in Tokens : \/ \E p \in Prices : Quote(t, p)
                       \/ \E o \in Verdicts : Resolve(t, o)
                       \/ Redeem(t)
  \/ \E save \in BOOLEAN : TickBegin(save)
  \/ \E t \in Tokens, q \in 1..2, px \in Prices :
       Buy(t, q, px) \/ Sell(t, q, px) \/ RecoverMissedFill(t, q, px)
  \/ \E t \in Tokens : SettleToken(t)
  \/ TickEnd
  \/ Crash \/ Restart

Spec == Init /\ [][Next]_vars

-----------------------------------------------------------------------------
(* What a decided token still owes for shares the books have settled, less  *)
(* what has been redeemed before the books knew.                            *)
Owed ==
  SumFunctionOnSet([t \in Tokens |-> (chain[t].qty - pos[t].qty) * Payoff(t)], Tokens)

(* What the shares that are owed were entered at.                           *)
ShortCost ==
  SumFunctionOnSet([t \in Tokens |-> IF pos[t].qty < 0 THEN -pos[t].cost ELSE 0], Tokens)

(* On paper the loop has exactly the cash its trades have left, but for the *)
(* tokens it oversold: it counts their entry cost against its cash, and     *)
(* buying them back realises nothing, so their price beyond the entry price *)
(* stays unseen.  Live it believes to have no more than the wallet holds    *)
(* and is owed and what it cannot see: the fees of the fills it recovered,  *)
(* of which RecoverMissedFill books none, and, after a restart without      *)
(* positions, the profit of before it, which SeedLivePositionsFromOnchain   *)
(* adds to a capital that has it.                                           *)
BooksBalance ==
  alive => /\ mode = "live" => CashAvailable <= wallet + Owed + unseen
           /\ mode = "paper" => CashAvailable + ShortCost = wallet + unseen

(* Whatever path the equity took, the multiplier allows no more than the    *)
(* drawdown recorded last allows, and no less than it would allow with the  *)
(* band on top.                                                             *)
DrawdownBetween ==
  alive /\ peak > 0 =>
    /\ dd_mult <= DrawdownTierMultiplier(peak, recorded, 0)
    /\ dd_mult >= DrawdownTierMultiplier(peak, recorded, Band)

(* The purchases of a tick are all checked against its frozen cash.  Two of *)
(* them may overdraw it, but each takes less than that cash, the fee aside, *)
(* and nothing is bought in a tick that begins overdrawn.  The fees of the  *)
(* tick come on top: the gate reckons with a smaller one than is booked.  A *)
(* tick in which a token is short is not spoken of: overselling takes the   *)
(* cost of what is owed, and its settlement the payoff, out of the cash.    *)
EachPurchaseCovered ==
  alive /\ ticking /\ ~oversold =>
    LET left == CashAvailable + (fee - fee_at_entry)
    IN  /\ left >= cash_at_entry - bought * Max({cash_at_entry, 0})
        /\ bought > 0 => cash_at_entry > 0
        /\ bought > 0 /\ Fee > 0 => left > cash_at_entry - bought * cash_at_entry

(* "On the same cash, conservative": so only with one purchase in a tick.   *)
CashNeverOverdrawn == alive /\ trades > 0 => CashAvailable >= 0
=============================================================================
