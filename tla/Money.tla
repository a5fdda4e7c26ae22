------------------------------- MODULE Money --------------------------------
(***************************************************************************)
(* The money of the loop (Account) and the caps on what it holds           *)
(* (Exposure), side by side.                                               *)
(***************************************************************************)
EXTENDS Integers

CONSTANTS
  \* Account
  AccountTokens, Dollar, AccountPrices, Fee, Decisions, Deposit, T1, T2, DrawdownHalt,
  Band, MaxBuysPerTick, MaxAccountTrades, MaxAccountRestarts,
  \* Exposure
  GatewayConditions, TokenIds, ConditionOf, Events, NoEvent, ParentRef, Prices, Lots, Amounts,
  Pnls, GatewayBankroll, per_order_cap_usdc, market_exposure_cap_usdc, per_outcome_cap_usdc,
  event_exposure_cap_usdc, daily_loss_halt_usdc, MaxOrders, MaxUpsets

VARIABLES
  moneyPart,  \* the component a behaviour follows; the other stands still
  \* Account
  mode, accountAlive, accountTicking, cash_at_entry, equity_at_entry, bought, bankroll, pos,
  realized, fee, mark, peak, recorded, dd_mult, accountSnapshot, wallet, chain, outcome,
  unseen, fee_at_entry, oversold, accountTrades, accountRestarts,
  \* Exposure
  positions, ledger_file, known, order, state_, daily_pnl_usdc_, bankroll_usdc_,
  condition_exposure_usdc, token_exposure_usdc, condition_event, event_gross_usdc,
  seen_signal_ids, approvals, killed, outside, blind, recovered, engineRestarts

account == <<mode, accountAlive, accountTicking, cash_at_entry, equity_at_entry, bought,
  bankroll, pos, realized, fee, mark, peak, recorded, dd_mult, accountSnapshot, wallet,
  chain, outcome, unseen, fee_at_entry, oversold, accountTrades, accountRestarts>>
exposure == <<positions, ledger_file, known, order, state_, daily_pnl_usdc_, bankroll_usdc_,
  condition_exposure_usdc, token_exposure_usdc, condition_event, event_gross_usdc,
  seen_signal_ids, approvals, killed, outside, blind, recovered, engineRestarts>>
moneyVars == <<moneyPart, account, exposure>>

-----------------------------------------------------------------------------
AC == INSTANCE Account WITH
  Tokens <- AccountTokens, Prices <- AccountPrices, Verdicts <- Decisions,
  Halt <- DrawdownHalt, MaxTrades <- MaxAccountTrades, MaxRestarts <- MaxAccountRestarts,
  alive <- accountAlive, ticking <- accountTicking, snapshot <- accountSnapshot,
  trades <- accountTrades, restarts <- accountRestarts

EX == INSTANCE Exposure WITH
  Conditions <- GatewayConditions, Tokens <- TokenIds, Bankroll <- GatewayBankroll,
  catalog <- known, restarts <- engineRestarts

ASSUME MoneyAssumption == AC!AccountAssumption /\ EX!ExposureAssumption

MoneyInit == AC!Init /\ EX!Init

MoneyNext ==
  \/ moneyPart = "account" /\ AC!Next /\ UNCHANGED <<moneyPart, exposure>>
  \/ moneyPart = "exposure" /\ EX!Next /\ UNCHANGED <<moneyPart, account>>

MoneySpec == MoneyInit /\ [][MoneyNext]_moneyVars

-----------------------------------------------------------------------------
(* The loop never believes to have more cash than the wallet holds, is owed *)
(* and hides from it, a purchase takes at most the cash it was checked      *)
(* against, the multiplier of the sizes follows the drawdown within its     *)
(* band, and the caps the gateway enforces are the caps of what is held.    *)
MoneyHolds ==
  /\ moneyPart = "account" =>
       AC!TypeOK /\ AC!BooksBalance /\ AC!EachPurchaseCovered /\ AC!DrawdownBetween
  /\ moneyPart = "exposure" => EX!ExposureHolds
=============================================================================
