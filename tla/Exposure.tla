------------------------------ MODULE Exposure ------------------------------
(***************************************************************************)
(* The ledger and the risk gateway together: whether the caps the gateway  *)
(* enforces on what it was told are the caps of what is held.              *)
(*                                                                         *)
(* The gateway does not read the ledger.  Every handler of the loop that   *)
(* books something (a match, a fill recovered from its push, a settlement, *)
(* a restored snapshot) ends in FeedRiskGateway, which tells the gateway   *)
(* the cost of all tokens and markets afresh; the sum of an event is kept  *)
(* by the gateway, in increments, over the markets that TickAll has        *)
(* registered so far.  A restart forgets the gateway and the registrations *)
(* and keeps the positions.                                                *)
(*                                                                         *)
(* Amounts are shares times ticks.  The profit that is fed along (Account) *)
(* is any of Pnls.                                                         *)
(***************************************************************************)
EXTENDS Integers, FiniteSets, Functions

CONSTANTS
  Conditions, Tokens, ConditionOf, Events, NoEvent,
  ParentRef,     \* the event of a market in the catalog
  Prices, Lots,  \* prices and shares of a fill
  Amounts,       \* order sizes
  Pnls, Bankroll,
  per_order_cap_usdc, market_exposure_cap_usdc, per_outcome_cap_usdc,
  event_exposure_cap_usdc, daily_loss_halt_usdc,
  MaxOrders,     \* bound: signals of one process
  MaxUpsets      \* bound: recovered fills and restarts

ExposureAssumption ==
  /\ IsFiniteSet(Conditions) /\ IsFiniteSet(Tokens)
  /\ ConditionOf \in [Tokens -> Conditions] /\ ParentRef \in [Conditions -> Events]
  /\ NoEvent \notin Events /\ Pnls \subseteq Int /\ Bankroll \in Nat
  /\ (Prices \cup Lots \cup Amounts) \subseteq Nat \ {0}
  /\ \A n \in {MaxOrders, MaxUpsets, per_order_cap_usdc,
               market_exposure_cap_usdc, per_outcome_cap_usdc, event_exposure_cap_usdc,
               daily_loss_halt_usdc} : n \in Nat

VARIABLES
  positions,   \* the ledger: Tokens -> [listed, shares, avg]
  ledger_file, \* the positions of the last snapshot
  catalog,     \* markets of the current catalog
  order,       \* the approved order that TickOne is matching, or {}
  state_, daily_pnl_usdc_, bankroll_usdc_, condition_exposure_usdc, token_exposure_usdc,
  condition_event, event_gross_usdc, seen_signal_ids, approvals, killed,
  outside,     \* history: markets with a fill no approval preceded, or oversold
  blind,       \* history: events bought into while a market of theirs was unregistered
  recovered, restarts

exposures == <<condition_exposure_usdc, token_exposure_usdc, condition_event, event_gross_usdc>>
gateway == <<state_, daily_pnl_usdc_, bankroll_usdc_, exposures, seen_signal_ids, approvals,
             killed>>
bounds == <<recovered, restarts>>
vars == <<positions, ledger_file, catalog, order, gateway, outside, blind, bounds>>

LP == INSTANCE PositionLedger WITH
        Engines <- {}, NoEngine <- "", Modes <- {0}, accepted_mode_tag <- 0,
        Sizes <- Lots, PriceTicks <- Prices, MaxShares <- 0, MaxFills <- 0,
        token_positions_ <- positions, condition_exposure_ <- <<>>, engine_pos_ <- <<>>,
        ledger_snapshot <- <<>>, paid <- <<>>, fills <- 0

RG == INSTANCE RiskGateway WITH
        Signals <- 1..MaxOrders, Sizes <- Amounts, Exposures <- Int, Bankrolls <- {Bankroll},
        OperatorStates <- {}, Faults <- {}, daily_loss_soft_pct <- 100, daily_loss_hard_pct <- 100

-----------------------------------------------------------------------------
(* What the gateway is told.                                                *)

(* llround of shares times entry price.                                     *)
Notional(pv) ==
  LET n == pv.shares * pv.avg.num
  IN  IF n >= 0 THEN (2 * n + pv.avg.den) \div (2 * pv.avg.den)
      ELSE -((pv.avg.den - 2 * n) \div (2 * pv.avg.den))

TokensOf(c) == {t \in Tokens : ConditionOf[t] = c}

(* mutant: the shares themselves *)
SharesHeld(pos, t) == pos[t].shares

get_per_outcome_notional(pos, t) == Notional(pos[t])

get_per_condition_notional(pos, c) ==
  SumFunctionOnSet([t \in Tokens |-> get_per_outcome_notional(pos, t)], TokensOf(c))

(* mutant: flat positions are left out of the feed *)
FedHeld(pv) == pv.shares # 0

(* The maps have an entry of every token that was ever booked.              *)
Fed(pv) == pv.listed

(* mutant: the gross exposure of an event follows purchases only *)
GrossMovedUp(before, after) ==
  [e \in Events |-> event_gross_usdc[e]
     + SumFunctionOnSet([c \in Conditions |->
                           IF RG!Magnitude(after[c]) > RG!Magnitude(before[c])
                           THEN RG!Magnitude(after[c]) - RG!Magnitude(before[c]) ELSE 0],
                        {c \in Conditions : condition_event[c] = e})]

GrossMoved(before, after) ==
  [e \in Events |-> event_gross_usdc[e]
     + SumFunctionOnSet([c \in Conditions |->
                           RG!Magnitude(after[c]) - RG!Magnitude(before[c])],
                        {c \in Conditions : condition_event[c] = e})]

FeedRiskGateway(pos) ==
  LET fed == [c \in Conditions |->
                IF \E t \in TokensOf(c) : Fed(pos[t]) THEN get_per_condition_notional(pos, c)
                ELSE condition_exposure_usdc[c]]
  IN  /\ token_exposure_usdc' = [t \in Tokens |->
            IF Fed(pos[t]) THEN get_per_outcome_notional(pos, t) ELSE token_exposure_usdc[t]]
      /\ condition_exposure_usdc' = fed
      /\ event_gross_usdc' = GrossMoved(condition_exposure_usdc, fed)
      /\ daily_pnl_usdc_' \in Pnls
      /\ UNCHANGED <<state_, bankroll_usdc_, condition_event, seen_signal_ids, approvals, killed>>

-----------------------------------------------------------------------------
(* The tick.                                                                *)

Booked(t, shares, price) ==
  [positions EXCEPT ![t] = LP!UpdatedPosition(@, shares, price)]
Flat(C) ==
  [t \in Tokens |-> IF ConditionOf[t] \in C /\ positions[t].shares # 0
                    THEN LP!UpdatedPosition(positions[t], -positions[t].shares, LP!Zero)
                    ELSE positions[t]]
HeldIn(c) == \E t \in TokensOf(c) : positions[t].shares # 0

(* TickAll is about to register the market, before it decides it.           *)
Due(c) == condition_event[c] = NoEvent

RegisterEvent(c) ==
  /\ order = {} /\ c \in catalog /\ Due(c)
  /\ RG!SetConditionEvent(c, ParentRef[c])
  /\ UNCHANGED <<positions, ledger_file, catalog, order, outside, blind, bounds>>

(* A market of the same event is held and not counted.                      *)
Unseen(c) ==
  \E d \in Conditions : ParentRef[d] = ParentRef[c] /\ condition_event[d] = NoEvent /\ HeldIn(d)

(* The order of a purchase is an amount to pay, of a sale at most the cost  *)
(* of what is held.                                                         *)
Evaluate(it) ==
  /\ order = {} /\ ConditionOf[it.token] \in catalog /\ ~Due(ConditionOf[it.token])
  /\ it.signal \notin seen_signal_ids /\ \A s \in 1..(it.signal - 1) : s \in seen_signal_ids
  /\ it.side = "Sell" => it.size <= Notional(positions[it.token])
  /\ RG!Evaluate(it)
  /\ order' = IF approvals' = approvals THEN {} ELSE {it}
  /\ blind' = IF approvals' # approvals /\ it.side = "Buy" /\ Unseen(ConditionOf[it.token])
              THEN blind \cup {ParentRef[ConditionOf[it.token]]} ELSE blind
  /\ UNCHANGED <<positions, ledger_file, catalog, outside, bounds>>

(* The order is filled in whole or in part: money buys shares at the price, *)
(* and below the entry price it sells more of them than are held.           *)
Match(shares, price) ==
  /\ \E it \in order :
       /\ shares * price <= it.size
       /\ positions' = Booked(it.token, IF it.side = "Sell" THEN -shares ELSE shares,
                              LP!Ticks(price))
       /\ outside' = IF it.side = "Sell" /\ shares > positions[it.token].shares
                     THEN outside \cup {ConditionOf[it.token]} ELSE outside
  /\ FeedRiskGateway(positions')
  /\ order' = {}
  /\ UNCHANGED <<ledger_file, catalog, blind, bounds>>

Missed ==
  /\ order # {} /\ order' = {}
  /\ UNCHANGED <<positions, ledger_file, catalog, gateway, outside, blind, bounds>>

(* A fill whose order got no answer is booked from its push.                *)
RecoverMissedFill(t, shares, price) ==
  /\ order = {} /\ recovered + restarts < MaxUpsets
  /\ positions' = Booked(t, shares, LP!Ticks(price))
  /\ FeedRiskGateway(positions')
  /\ outside' = outside \cup {ConditionOf[t]}
  /\ recovered' = recovered + 1
  /\ UNCHANGED <<ledger_file, catalog, order, blind, restarts>>

(* mutant: the sweep of orphans books without feeding *)
SettleOrphansUnfed(C) ==
  /\ order = {} /\ C # {} /\ C \cap catalog = {} /\ \A c \in C : HeldIn(c)
  /\ positions' = Flat(C)
  /\ UNCHANGED <<ledger_file, catalog, order, gateway, outside, blind, bounds>>

(* Held markets that are resolved and no longer in the catalog.             *)
SettleOrphans(C) ==
  /\ order = {} /\ C # {} /\ C \cap catalog = {} /\ \A c \in C : HeldIn(c)
  /\ positions' = Flat(C)
  /\ FeedRiskGateway(positions')
  /\ UNCHANGED <<ledger_file, catalog, order, outside, blind, bounds>>

SettleCondition(c) ==
  /\ order = {} /\ c \in catalog
  /\ positions' = Flat({c})
  /\ FeedRiskGateway(positions')
  /\ UNCHANGED <<ledger_file, catalog, order, outside, blind, bounds>>

-----------------------------------------------------------------------------
(* The mapping thread publishes a catalog with one market more or less.     *)
SetPaperCatalog(c) ==
  /\ catalog' = IF c \in catalog THEN catalog \ {c} ELSE catalog \cup {c}
  /\ UNCHANGED <<positions, ledger_file, order, gateway, outside, blind, bounds>>

(* Nothing reads a file that no restart is left for.                        *)
SaveLedgerSnapshot ==
  /\ order = {} /\ recovered + restarts < MaxUpsets
  /\ ledger_file' = positions
  /\ UNCHANGED <<positions, catalog, order, gateway, outside, blind, bounds>>

(* A new process: a gateway that has been told nothing, the positions of    *)
(* the file, one feed, and RUNNING.                                         *)
NewGateway ==
  /\ state_' = "RUNNING" /\ daily_pnl_usdc_' \in Pnls /\ bankroll_usdc_' = Bankroll
  /\ condition_event' = [c \in Conditions |-> NoEvent]
  /\ event_gross_usdc' = [e \in Events |-> 0]
  /\ seen_signal_ids' = {} /\ approvals' = [s \in 1..MaxOrders |-> 0] /\ killed' = FALSE

(* mutant: the restored positions are not fed *)
RestoreUnfed ==
  /\ recovered + restarts < MaxUpsets /\ restarts' = restarts + 1
  /\ positions' = ledger_file
  /\ NewGateway
  /\ token_exposure_usdc' = [t \in Tokens |-> 0]
  /\ condition_exposure_usdc' = [c \in Conditions |-> 0]
  /\ catalog' = {} /\ order' = {}
  /\ UNCHANGED <<ledger_file, outside, blind, recovered>>

RestoreLedgerSnapshot ==
  /\ recovered + restarts < MaxUpsets /\ restarts' = restarts + 1
  /\ positions' = [t \in Tokens |->
        IF ledger_file[t].shares # 0
        THEN LP!UpdatedPosition(LP!NoPosition, ledger_file[t].shares, ledger_file[t].avg)
        ELSE LP!NoPosition]
  /\ NewGateway
  /\ token_exposure_usdc' = [t \in Tokens |-> get_per_outcome_notional(positions', t)]
  /\ condition_exposure_usdc' = [c \in Conditions |-> get_per_condition_notional(positions', c)]
  /\ catalog' = {} /\ order' = {}
  /\ UNCHANGED <<ledger_file, outside, blind, recovered>>

-----------------------------------------------------------------------------
Init ==
  /\ positions = [t \in Tokens |-> LP!NoPosition] /\ ledger_file = positions
  /\ catalog = {} /\ order = {}
  /\ state_ = "RUNNING" /\ daily_pnl_usdc_ = 0 /\ bankroll_usdc_ = Bankroll
  /\ condition_exposure_usdc = [c \in Conditions |-> 0]
  /\ token_exposure_usdc = [t \in Tokens |-> 0]
  /\ condition_event = [c \in Conditions |-> NoEvent]
  /\ event_gross_usdc = [e \in Events |-> 0]
  /\ seen_signal_ids = {} /\ approvals = [s \in 1..MaxOrders |-> 0] /\ killed = FALSE
  /\ outside = {} /\ blind = {} /\ recovered = 0 /\ restarts = 0

Next ==
  \/ \E c \in Conditions : RegisterEvent(c) \/ SettleCondition(c) \/ SetPaperCatalog(c)
  \/ \E it \in RG!Intent : Evaluate(it)
  \/ \E shares \in Lots, price \in Prices :
       \/ Match(shares, price)
       \/ \E t \in Tokens : RecoverMissedFill(t, shares, price)
                            \/ RecoverMissedFill(t, -shares, price)
  \/ Missed
  \/ \E C \in SUBSET Conditions : SettleOrphans(C)
  \/ SaveLedgerSnapshot \/ RestoreLedgerSnapshot

Spec == Init /\ [][Next]_vars

-----------------------------------------------------------------------------
(* The variables keep their shape.                                          *)
TypeOK ==
  /\ positions \in [Tokens -> LP!PositionView] /\ ledger_file \in [Tokens -> LP!PositionView]
  /\ {catalog, outside} \subseteq SUBSET Conditions /\ blind \subseteq Events
  /\ order \subseteq RG!Intent
  /\ RG!TypeOK

MarketsOf(e) == {c \in Conditions : ParentRef[c] = e}
Cost(C) == SumFunctionOnSet([t \in Tokens |-> Notional(positions[t])],
                            {t \in Tokens : ConditionOf[t] \in C})

(* Whenever an order can be evaluated, the gateway's exposures are the cost *)
(* of what the ledger holds, token by token and market by market, and the   *)
(* gross sum of an event is that of its registered markets, whatever was    *)
(* booked, settled, swept, restored and registered before, in whatever      *)
(* order, and also when more was sold than was held.                        *)
ExposuresAreLedger ==
  /\ \A t \in Tokens : token_exposure_usdc[t] = Notional(positions[t])
  /\ \A c \in Conditions : condition_exposure_usdc[c] = Cost({c})
  /\ \A e \in Events :
       event_gross_usdc[e] = SumFunctionOnSet([c \in Conditions |-> RG!Magnitude(Cost({c}))],
                                              {c \in Conditions : condition_event[c] = e})

(* The caps hold on the ledger itself: what an outcome, a market and the    *)
(* markets of an event cost stays within their caps across restarts, unless *)
(* a recovered fill came past the gateway or more was sold than was held;   *)
(* for an event, unless it was bought into while a held market of it was    *)
(* not registered (after a restart, before TickAll has come to that market, *)
(* or when that market has left the catalog).                               *)
CapsHoldOnLedger ==
  /\ \A t \in Tokens : ConditionOf[t] \notin outside
                         => Notional(positions[t]) <= per_outcome_cap_usdc
  /\ \A c \in Conditions \ outside : Cost({c}) <= market_exposure_cap_usdc
  /\ \A e \in Events \ blind :
       MarketsOf(e) \cap outside = {} => Cost(MarketsOf(e)) <= event_exposure_cap_usdc

ExposureHolds == TypeOK /\ ExposuresAreLedger /\ CapsHoldOnLedger
=============================================================================
