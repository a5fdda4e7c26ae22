--------------------------- MODULE PositionLedger ---------------------------
(***************************************************************************)
(* risk::PositionLedger: the in-memory book of net shares and volume-      *)
(* weighted entry price per outcome token, with two aggregates kept beside *)
(* it by the same update: the signed exposure per condition (the binary    *)
(* market that owns the YES and the NO token) and the split of a token     *)
(* between the strategy engines that bought it.                            *)
(*                                                                         *)
(* The ledger has one writer (the trading loop) and takes its unique lock  *)
(* for a whole update, so an update is one step.  The environment of this  *)
(* module is the paper trading loop: it buys; it sells for an amount of    *)
(* money that is at most what the engine's shares cost (the controller's   *)
(* clamp), which below the entry price is more shares than it holds and    *)
(* leaves the token short; it closes a token whole at settlement, saves a  *)
(* snapshot file and, after a restart, rebuilds the ledger from the last   *)
(* one.                                                                    *)
(***************************************************************************)
EXTENDS Integers, FiniteSets, Functions

CONSTANTS
  Conditions,         \* binary markets
  Engines,            \* strategy engines a fill can be attributed to
  NoEngine,           \* the empty engine label: the split is not touched
  Modes,              \* execution modes a fill can carry (paper, live)
  accepted_mode_tag,  \* the mode this ledger instance accepts
  Sizes,              \* shares of one fill
  PriceTicks,         \* prices of one fill, in ticks
  MaxShares,          \* bound: shares of one token, long or short
  MaxFills            \* bound: fills in a behaviour

ASSUME LedgerAssumption ==
  /\ IsFiniteSet(Engines) /\ NoEngine \notin Engines
  /\ accepted_mode_tag \in Modes
  /\ Sizes \subseteq Nat \ {0}
  /\ PriceTicks \subseteq Nat \ {0}
  /\ MaxShares \in Nat
  /\ MaxFills \in Nat

VARIABLES
  token_positions_,     \* Token -> [listed, shares, avg]
  condition_exposure_,  \* Conditions -> signed shares
  engine_pos_,          \* Token \X Engines -> shares; 0 is an erased key
  ledger_snapshot,      \* the last snapshot file: its P and PE lines
  paid,                 \* history: prices paid for a token since it was flat
  fills                 \* history: number of fills so far

ledger == <<token_positions_, condition_exposure_, engine_pos_>>
vars == <<ledger, ledger_snapshot, paid, fills>>

Outcomes == {"Yes", "No"}
Token == Conditions \X Outcomes

-----------------------------------------------------------------------------
(* A price is a fraction: the mean of two prices is not a whole tick.       *)

Fraction == [num : Nat, den : Nat \ {0}]
Zero == [num |-> 0, den |-> 1]
Ticks(n) == [num |-> n, den |-> 1]

(* mutant: the added shares are missing from the divisor *)
WeightedMeanByOldSize(s, a, k, p) ==
  [num |-> s * a.num * p.den + k * p.num * a.den,
   den |-> s * (a.den * p.den)]

(* s shares at price a together with k shares at price p.                   *)
WeightedMean(s, a, k, p) ==
  [num |-> s * a.num * p.den + k * p.num * a.den,
   den |-> (s + k) * (a.den * p.den)]

(* No entry in the map.  An entry stays in the map once it is flat.         *)
NoPosition == [listed |-> FALSE, shares |-> 0, avg |-> Zero]
PositionView == [listed : BOOLEAN, shares : Int, avg : Fraction]

Shares(t) == token_positions_[t].shares

(* What the risk gateway is fed for a token.                                *)
Notional(pv) == [num |-> pv.shares * pv.avg.num, den |-> pv.avg.den]

-----------------------------------------------------------------------------
(* The update.                                                              *)

Fill == [token : Token, engine : Engines \cup {NoEngine}, reject : {"Ok", "Missed"},
         size : Int, price : Fraction, mode : Modes]

(* Only an executed fill of this ledger's own mode reaches the book.        *)
Accepted(f) == f.reject = "Ok" /\ f.mode = accepted_mode_tag /\ f.size # 0

(* mutant: a sale is averaged in like a purchase *)
EntryPriceAveragesSales(pv, size, price) ==
  IF ~pv.listed THEN price ELSE WeightedMean(pv.shares, pv.avg, size, price)

(* mutant: a closed position keeps its price *)
EntryPriceKeptWhenFlat(pv, size, price) ==
  IF ~pv.listed THEN price
  ELSE IF size > 0 THEN WeightedMean(pv.shares, pv.avg, size, price)
  ELSE pv.avg

EntryPrice(pv, size, price) ==
  IF ~pv.listed THEN IF price.num > 0 THEN price ELSE Zero
  ELSE IF pv.shares + size = 0 THEN Zero
  ELSE IF size > 0 /\ pv.shares = 0 /\ price.num > 0 THEN price
  ELSE IF size > 0 /\ pv.shares > 0 /\ price.num > 0
       THEN WeightedMean(pv.shares, pv.avg, size, price)
  ELSE pv.avg

UpdatedPosition(pv, size, price) ==
  [listed |-> TRUE, shares |-> pv.shares + size, avg |-> EntryPrice(pv, size, price)]

(* mutant: only the selling engine's share goes when the token is closed *)
UpdatedSplitOwnOnly(split, t, e, size, newShares) ==
  IF e = NoEngine THEN split ELSE [split EXCEPT ![<<t, e>>] = @ + size]

(* A token that is flat drops every engine's share; otherwise the fill's    *)
(* engine moves by the size of the fill.                                    *)
UpdatedSplit(split, t, e, size, newShares) ==
  IF e = NoEngine THEN split
  ELSE IF newShares = 0
       THEN [k \in Token \X Engines |-> IF k[1] = t THEN 0 ELSE split[k]]
  ELSE [split EXCEPT ![<<t, e>>] = @ + size]

(* mutant: a closing fill skips the condition aggregate *)
UpdatePositionCloseSkipped(f) ==
  LET t  == f.token
      pv == UpdatedPosition(token_positions_[t], f.size, f.price)
  IN  /\ token_positions_' = [token_positions_ EXCEPT ![t] = pv]
      /\ condition_exposure_' =
           IF pv.shares = 0 THEN condition_exposure_
           ELSE [condition_exposure_ EXCEPT ![t[1]] = @ + f.size]
      /\ engine_pos_' = UpdatedSplit(engine_pos_, t, f.engine, f.size, pv.shares)

UpdatePosition(f) ==
  LET t  == f.token
      pv == UpdatedPosition(token_positions_[t], f.size, f.price)
  IN  /\ token_positions_' = [token_positions_ EXCEPT ![t] = pv]
      /\ condition_exposure_' = [condition_exposure_ EXCEPT ![t[1]] = @ + f.size]
      /\ engine_pos_' = UpdatedSplit(engine_pos_, t, f.engine, f.size, pv.shares)

ApplyFill(f) == IF Accepted(f) THEN UpdatePosition(f) ELSE UNCHANGED ledger

-----------------------------------------------------------------------------
(* The trading loop and the snapshot file.                                  *)

EmptyLedger ==
  /\ token_positions_ = [t \in Token |-> NoPosition]
  /\ condition_exposure_ = [c \in Conditions |-> 0]
  /\ engine_pos_ = [k \in Token \X Engines |-> 0]

(* A missing file, and one saved more than 24 hours ago, restore nothing.   *)
NoSnapshot == [p |-> [t \in Token |-> NoPosition],
               pe |-> [k \in Token \X Engines |-> 0],
               paid |-> [t \in Token |-> {}]]

Init ==
  /\ EmptyLedger
  /\ ledger_snapshot = NoSnapshot
  /\ paid = [t \in Token |-> {}]
  /\ fills = 0

Labelled(t, e, size, price, m, r) ==
  [token |-> t, engine |-> e, reject |-> r, size |-> size, price |-> price, mode |-> m]

(* history: the prices paid for what is held now *)
Paid(t, price) == IF Shares(t)' = 0 THEN {}
                  ELSE IF Shares(t)' > Shares(t) THEN paid[t] \cup {price} ELSE paid[t]

Execute(f) ==
  /\ fills < MaxFills
  /\ ApplyFill(f)
  /\ paid' = [paid EXCEPT ![f.token] = Paid(f.token, f.price)]
  /\ fills' = fills + 1
  /\ UNCHANGED ledger_snapshot

Buy(t, e, k, n, m, r) ==
  /\ Shares(t) + k <= MaxShares
  /\ Execute(Labelled(t, e, k, Ticks(n), m, r))

(* get_engine_position_notional: what an engine's shares cost.              *)
CostOfShare(t, e) == [num |-> engine_pos_[<<t, e>>] * token_positions_[t].avg.num,
                      den |-> token_positions_[t].avg.den]

(* A sale is clamped in money: it brings in at most what the engine's       *)
(* shares cost.  The matcher turns the money into shares at the bid, and    *)
(* nothing compares those with the shares that are held.                    *)
Sell(t, e, k, n, m, r) ==
  /\ k * n * CostOfShare(t, e).den <= CostOfShare(t, e).num
  /\ Shares(t) - k >= -MaxShares
  /\ Execute(Labelled(t, e, -k, Ticks(n), m, r))

(* Settlement closes whatever the token holds or owes, under one engine's   *)
(* label.                                                                   *)
Settle(t, e, payout) ==
  /\ Shares(t) # 0
  /\ Execute(Labelled(t, e, -Shares(t), payout, accepted_mode_tag, "Ok"))

(* SaveLedgerSnapshot writes a P line for every position that is not flat   *)
(* and a PE line for every engine share.  The writer thread replaces the    *)
(* file later or, in a crash, never: then the step did not happen.          *)
SaveLedgerSnapshot ==
  /\ ledger_snapshot' = [p |-> [t \in Token |-> IF Shares(t) # 0 THEN token_positions_[t] ELSE NoPosition],
                         pe |-> engine_pos_,
                         paid |-> paid]
  /\ UNCHANGED <<ledger, paid, fills>>

(* RestoreLedgerSnapshot in a new process: the ledger starts empty, each P  *)
(* line is a fill of the whole position at its mean price with no engine,   *)
(* and each PE line then puts one engine's share back.                      *)
RestoreLedgerSnapshot(file) ==
  /\ token_positions_' = [t \in Token |->
        IF file.p[t].shares # 0
        THEN UpdatedPosition(NoPosition, file.p[t].shares, file.p[t].avg)
        ELSE NoPosition]
  /\ condition_exposure_' = [c \in Conditions |->
        file.p[<<c, "Yes">>].shares + file.p[<<c, "No">>].shares]
  /\ engine_pos_' = file.pe
  /\ paid' = file.paid
  /\ UNCHANGED <<ledger_snapshot, fills>>

Next ==
  \/ \E t \in Token, e \in Engines, k \in Sizes, n \in PriceTicks,
        m \in Modes, r \in {"Ok", "Missed"} :
        Buy(t, e, k, n, m, r) \/ Sell(t, e, k, n, m, r)
  \/ \E t \in Token, e \in Engines, payout \in {Zero, Ticks(1)} : Settle(t, e, payout)
  \/ SaveLedgerSnapshot
  \/ \E file \in {ledger_snapshot, NoSnapshot} : RestoreLedgerSnapshot(file)

Spec == Init /\ [][Next]_vars

-----------------------------------------------------------------------------
(* Properties.                                                              *)

(* Every variable keeps the shape the C++ members have.                     *)
TypeOK ==
  /\ token_positions_ \in [Token -> PositionView]
  /\ condition_exposure_ \in [Conditions -> Int]
  /\ engine_pos_ \in [Token \X Engines -> Int]
  /\ ledger_snapshot \in [p : [Token -> PositionView], pe : [Token \X Engines -> Int],
                          paid : [Token -> SUBSET Fraction]]
  /\ paid \in [Token -> SUBSET Fraction]
  /\ fills \in Nat

(* The condition aggregate, which is only ever moved by increments, is the  *)
(* sum of the two tokens it aggregates, through every fill, every close and *)
(* every restart (update_position_locked_, RestoreLedgerSnapshot).          *)
ExposureIsSum ==
  \A c \in Conditions :
    condition_exposure_[c] = Shares(<<c, "Yes">>) + Shares(<<c, "No">>)

(* What is held, long or short, has a notional of its sign and what is flat *)
(* has no entry price.  The risk gateway is fed the notional and the loop's *)
(* controller decides on it: a position without an entry price would be one *)
(* that no cap can see and that the loop takes for none, and an old price   *)
(* left on a flat token would poison the next purchase.                     *)
HeldIffPriced ==
  \A t \in Token :
    /\ Shares(t) > 0 => Notional(token_positions_[t]).num > 0
    /\ Shares(t) < 0 => Notional(token_positions_[t]).num < 0
    /\ Shares(t) = 0 => token_positions_[t].avg.num = 0

(* The entry price lies between the cheapest and the dearest price paid for *)
(* the token since it was flat, whatever was sold, oversold, bought back,   *)
(* settled or restored in between.                                          *)
AvgWithinPaid ==
  \A t \in Token :
    LET a == token_positions_[t].avg
    IN  Shares(t) # 0 => /\ \E p \in paid[t] : p.num * a.den <= a.num * p.den
                         /\ \E p \in paid[t] : a.num * p.den <= p.num * a.den

(* The engines' shares of a token add up to the token, and no engine is     *)
(* left with shares, or a debt, of a token that is flat: what one engine    *)
(* sells is gone from the aggregate too, and what the controller takes for  *)
(* its position is not a share of a token that was settled.                 *)
EngineSplitIsAggregate ==
  \A t \in Token :
    /\ SumFunctionOnSet([e \in Engines |-> engine_pos_[<<t, e>>]], Engines) = Shares(t)
    /\ Shares(t) = 0 => \A e \in Engines : engine_pos_[<<t, e>>] = 0
=============================================================================
