----------------------------- MODULE RiskGateway -----------------------------
(***************************************************************************)
(* RiskGateway: the last gate before an order is signed.                   *)
(*                                                                         *)
(* The trading loop feeds it exposures, profit and bankroll and asks it to *)
(* evaluate one intent at a time; loop and gateway share a thread, so an   *)
(* evaluation is one step.  The rules are tried in a fixed order and the   *)
(* first one that is hit rejects.  An evaluation that gets past the first  *)
(* two rules consumes its signal id, whatever its result.  A rejection for *)
(* the hard daily loss halts the gateway; only set_state leaves HALTED.    *)
(*                                                                         *)
(* Amounts are small integers.  The rules on data nobody feeds in this     *)
(* program (stale or inactive markets, losses in a row, liquidity, signal  *)
(* quality) appear as the fault an intent carries.                         *)
(***************************************************************************)
EXTENDS Integers, FiniteSets, Functions

CONSTANTS
  Conditions,      \* markets
  Tokens,          \* outcome tokens
  ConditionOf,     \* the market of a token
  Events,          \* sports events that group markets
  NoEvent,         \* a market that is not registered yet
  Signals,         \* signal ids
  Sizes,           \* order sizes, pUSD
  Exposures,       \* exposures the loop feeds, pUSD
  Pnls,            \* daily profits the loop feeds
  Bankrolls,       \* bankrolls the loop feeds
  OperatorStates,  \* states set_state is called with
  Faults,          \* data faults an intent can carry
  per_order_cap_usdc, market_exposure_cap_usdc, per_outcome_cap_usdc,
  event_exposure_cap_usdc,
  daily_loss_halt_usdc, daily_loss_soft_pct, daily_loss_hard_pct

RmState == {"RUNNING", "WARNING", "HALTED", "SAFE_MODE", "DRAIN"}

ASSUME RiskGatewayAssumption ==
  /\ IsFiniteSet(Conditions) /\ ConditionOf \in [Tokens -> Conditions]
  /\ NoEvent \notin Events
  /\ Sizes \subseteq Nat \ {0} /\ Exposures \subseteq Int
  /\ Pnls \subseteq Int /\ Bankrolls \subseteq Nat /\ OperatorStates \subseteq RmState
  /\ \A cap \in {per_order_cap_usdc, market_exposure_cap_usdc, per_outcome_cap_usdc,
                 event_exposure_cap_usdc, daily_loss_halt_usdc, daily_loss_soft_pct,
                 daily_loss_hard_pct} : cap \in Nat

VARIABLES
  state_, daily_pnl_usdc_, bankroll_usdc_,
  condition_exposure_usdc, token_exposure_usdc,
  condition_event,   \* the event a market is registered with
  event_gross_usdc,  \* per event, kept by increments
  seen_signal_ids,
  approvals,         \* history: how often a signal was approved
  killed             \* history: a hard loss halted the gateway, nobody has unlocked it

exposures == <<condition_exposure_usdc, token_exposure_usdc, condition_event, event_gross_usdc>>
money == <<daily_pnl_usdc_, bankroll_usdc_>>
vars == <<state_, money, exposures, seen_signal_ids, approvals, killed>>

Intent == [signal : Signals, token : Tokens, side : {"Buy", "Sell"}, size : Sizes,
           fault : Faults \cup {"none"}]

Magnitude(x) == IF x < 0 THEN -x ELSE x

-----------------------------------------------------------------------------
(* The feeds.                                                               *)

HardThreshold ==
  IF daily_loss_halt_usdc > 0 THEN daily_loss_halt_usdc
  ELSE (bankroll_usdc_ * daily_loss_hard_pct) \div 100

SoftThreshold == (bankroll_usdc_ * daily_loss_soft_pct) \div 100

HardLoss == daily_pnl_usdc_ < 0 /\ -daily_pnl_usdc_ >= HardThreshold
SoftLoss == daily_pnl_usdc_ < 0 /\ -daily_pnl_usdc_ >= SoftThreshold

SetState(s) ==
  /\ state_' = s
  /\ killed' = FALSE
  /\ UNCHANGED <<money, exposures, seen_signal_ids, approvals>>

SetDailyPnl(v) ==
  /\ daily_pnl_usdc_' = v
  /\ UNCHANGED <<state_, bankroll_usdc_, exposures, seen_signal_ids, approvals, killed>>

SetBankroll(v) ==
  /\ bankroll_usdc_' = v
  /\ UNCHANGED <<state_, daily_pnl_usdc_, exposures, seen_signal_ids, approvals, killed>>

SetConditionExposure(c, v) ==
  /\ condition_exposure_usdc' = [condition_exposure_usdc EXCEPT ![c] = v]
  /\ event_gross_usdc' =
       IF condition_event[c] = NoEvent THEN event_gross_usdc
       ELSE [event_gross_usdc EXCEPT ![condition_event[c]] =
               @ + Magnitude(v) - Magnitude(condition_exposure_usdc[c])]
  /\ UNCHANGED <<state_, money, token_exposure_usdc, condition_event, seen_signal_ids,
                 approvals, killed>>

(* mutant: a market that moves is not taken out of its old event *)
SetConditionEventKept(c, e) ==
  /\ condition_event[c] # e
  /\ condition_event' = [condition_event EXCEPT ![c] = e]
  /\ event_gross_usdc' = [event_gross_usdc EXCEPT ![e] =
                            @ + Magnitude(condition_exposure_usdc[c])]
  /\ UNCHANGED <<state_, money, condition_exposure_usdc, token_exposure_usdc,
                 seen_signal_ids, approvals, killed>>

(* mutant: the old event is debited although there may be none *)
SetConditionEventUnguarded(c, e) ==
  /\ condition_event[c] # e
  /\ condition_event' = [condition_event EXCEPT ![c] = e]
  /\ LET held == Magnitude(condition_exposure_usdc[c])
         gross(x) == IF x \in Events THEN event_gross_usdc[x] ELSE 0
     IN  event_gross_usdc' = [x \in Events \cup {condition_event[c]} |->
           gross(x) + (IF x = e THEN held ELSE 0)
                    - (IF x = condition_event[c] THEN held ELSE 0)]
  /\ UNCHANGED <<state_, money, condition_exposure_usdc, token_exposure_usdc,
                 seen_signal_ids, approvals, killed>>

(* A market is registered with its event, or moved to another one, with the *)
(* exposure it has at that moment.                                          *)
SetConditionEvent(c, e) ==
  /\ condition_event[c] # e
  /\ condition_event' = [condition_event EXCEPT ![c] = e]
  /\ LET held == Magnitude(condition_exposure_usdc[c])
     IN  event_gross_usdc' = [x \in Events |->
           event_gross_usdc[x] + (IF x = e THEN held ELSE 0)
                               - (IF x = condition_event[c] THEN held ELSE 0)]
  /\ UNCHANGED <<state_, money, condition_exposure_usdc, token_exposure_usdc,
                 seen_signal_ids, approvals, killed>>

SetOutcomeExposure(t, v) ==
  /\ token_exposure_usdc' = [token_exposure_usdc EXCEPT ![t] = v]
  /\ UNCHANGED <<state_, money, condition_exposure_usdc, condition_event, event_gross_usdc,
                 seen_signal_ids, approvals, killed>>

-----------------------------------------------------------------------------
(* The rules.                                                               *)

(* The loop marks exactly the sales as closing orders.                      *)
IsClose(it) == it.side = "Sell"

StateHit(it) ==
  \/ state_ = "HALTED"
  \/ state_ \in {"DRAIN", "SAFE_MODE"} /\ ~IsClose(it)

Delta(it) == IF it.side = "Sell" THEN -it.size ELSE it.size

Grows(old, new) == Magnitude(new) > Magnitude(old)
CrossesZero(old, new) == old # 0 /\ new # 0 /\ (old > 0) # (new > 0)

(* mutant: the exposure before the order is compared *)
ConditionCapHitBefore(it) ==
  LET cur == condition_exposure_usdc[ConditionOf[it.token]]
      new == cur + Delta(it)
  IN  \/ CrossesZero(cur, new)
      \/ Grows(cur, new) /\ Magnitude(cur) > market_exposure_cap_usdc

ConditionCapHit(it) ==
  LET cur == condition_exposure_usdc[ConditionOf[it.token]]
      new == cur + Delta(it)
  IN  \/ CrossesZero(cur, new)
      \/ Grows(cur, new) /\ Magnitude(new) > market_exposure_cap_usdc

(* mutant: the order is not added to the gross exposure *)
EventCapHitBefore(it) ==
  LET c == ConditionOf[it.token]
      cur == condition_exposure_usdc[c]
      new == cur + Delta(it)
  IN  /\ event_exposure_cap_usdc > 0 /\ condition_event[c] # NoEvent
      /\ Grows(cur, new)
      /\ event_gross_usdc[condition_event[c]] > event_exposure_cap_usdc

(* The part of the market is replaced in the gross exposure of its event.   *)
EventCapHit(it) ==
  LET c == ConditionOf[it.token]
      cur == condition_exposure_usdc[c]
      new == cur + Delta(it)
  IN  /\ event_exposure_cap_usdc > 0 /\ condition_event[c] # NoEvent
      /\ Grows(cur, new)
      /\ event_gross_usdc[condition_event[c]] - Magnitude(cur) + Magnitude(new)
           > event_exposure_cap_usdc

OutcomeCapHit(it) ==
  LET cur == token_exposure_usdc[it.token]
      new == cur + Delta(it)
  IN  /\ per_outcome_cap_usdc > 0
      /\ \/ CrossesZero(cur, new)
         \/ Grows(cur, new) /\ Magnitude(new) > per_outcome_cap_usdc

PositionCapHit(it) ==
  \/ ~IsClose(it) /\ it.size > per_order_cap_usdc
  \/ ConditionCapHit(it) \/ EventCapHit(it) \/ OutcomeCapHit(it)
  \/ it.size > bankroll_usdc_

-----------------------------------------------------------------------------
(* evaluate, one action per way out.                                        *)

(* mutant: closing orders are not remembered *)
ConsumesOpening(it) ==
  ~StateHit(it) /\ it.fault # "invalid" /\ it.signal \notin seen_signal_ids /\ ~IsClose(it)

(* The signal id gets into seen_signal_ids.                                 *)
Consumes(it) == ~StateHit(it) /\ it.fault # "invalid" /\ it.signal \notin seen_signal_ids

Remembered(it) == IF Consumes(it) THEN seen_signal_ids \cup {it.signal} ELSE seen_signal_ids

(* The rules from the fourth to the caps.                                   *)
Stopped(it) ==
  \/ StateHit(it) \/ it.fault = "invalid" \/ it.signal \in seen_signal_ids
  \/ it.fault \in {"stale", "market"}
  \/ PositionCapHit(it)

(* mutant: the rejection leaves the gateway running *)
HaltRejectOnly(it) ==
  /\ ~Stopped(it) /\ HardLoss
  /\ seen_signal_ids' = Remembered(it)
  /\ killed' = TRUE
  /\ UNCHANGED <<state_, money, exposures, approvals>>

(* Rejected for the hard daily loss: evaluate stores HALTED.                *)
Halt(it) ==
  /\ ~Stopped(it) /\ HardLoss
  /\ state_' = "HALTED" /\ killed' = TRUE
  /\ seen_signal_ids' = Remembered(it)
  /\ UNCHANGED <<money, exposures, approvals>>

Passes(it) ==
  /\ ~Stopped(it) /\ ~HardLoss
  /\ SoftLoss => IsClose(it)
  /\ it.fault \notin {"consec", "liquidity", "signal", "decayed"}

(* Rejected by any other rule, or passed by all of them and rejected        *)
(* because the audit record could not be written.                           *)
Reject(it) ==
  /\ Stopped(it) \/ ~HardLoss
  /\ seen_signal_ids' = Remembered(it)
  /\ UNCHANGED <<state_, money, exposures, approvals, killed>>

Approve(it) ==
  /\ Passes(it)
  /\ seen_signal_ids' = Remembered(it)
  /\ approvals' = [approvals EXCEPT ![it.signal] = @ + 1]
  /\ UNCHANGED <<state_, money, exposures, killed>>

Evaluate(it) == Halt(it) \/ Reject(it) \/ Approve(it)

-----------------------------------------------------------------------------
Init ==
  /\ state_ = "SAFE_MODE" /\ daily_pnl_usdc_ = 0 /\ bankroll_usdc_ \in Bankrolls
  /\ condition_exposure_usdc = [c \in Conditions |-> 0]
  /\ token_exposure_usdc = [t \in Tokens |-> 0]
  /\ condition_event = [c \in Conditions |-> NoEvent]
  /\ event_gross_usdc = [e \in Events |-> 0]
  /\ seen_signal_ids = {} /\ approvals = [s \in Signals |-> 0]
  /\ killed = FALSE

Feed ==
  \/ \E s \in OperatorStates : SetState(s)
  \/ \E v \in Pnls : SetDailyPnl(v)
  \/ \E v \in Bankrolls : SetBankroll(v)
  \/ \E c \in Conditions, v \in Exposures : SetConditionExposure(c, v)
  \/ \E c \in Conditions, e \in Events : SetConditionEvent(c, e)
  \/ \E t \in Tokens, v \in Exposures : SetOutcomeExposure(t, v)

Next == Feed \/ \E it \in Intent : Evaluate(it)

Spec == Init /\ [][Next]_vars

-----------------------------------------------------------------------------
(* Properties.                                                              *)

(* The gateway's members keep their shape.                                  *)
TypeOK ==
  /\ state_ \in RmState
  /\ daily_pnl_usdc_ \in Int /\ bankroll_usdc_ \in Nat
  /\ condition_exposure_usdc \in [Conditions -> Int]
  /\ token_exposure_usdc \in [Tokens -> Int]
  /\ condition_event \in [Conditions -> Events \cup {NoEvent}]
  /\ event_gross_usdc \in [Events -> Int]
  /\ seen_signal_ids \subseteq Signals /\ approvals \in [Signals -> Nat]
  /\ killed \in BOOLEAN

GrossOf(exposure, e) ==
  SumFunctionOnSet([c \in Conditions |-> Magnitude(exposure[c])],
                   {c \in Conditions : condition_event[c] = e})

(* R6.2c: the gross exposure of an event, which only ever moves by          *)
(* increments, is the sum over its markets, whatever the order of feeds,    *)
(* first registrations and moves of a market to another event.              *)
EventGrossIsSum ==
  \A e \in Events : event_gross_usdc[e] = GrossOf(condition_exposure_usdc, e)

Grants(it) == Approve(it) /\ approvals'[it.signal] > approvals[it.signal]

(* What the exposures become when the order is filled in full.              *)
AfterFill(it) ==
  [condition_exposure_usdc EXCEPT ![ConditionOf[it.token]] = @ + Delta(it)]

WithinConditionAndOutcomeCap(it) ==
  LET c == ConditionOf[it.token]
      tok == token_exposure_usdc[it.token] + Delta(it)
  IN  /\ AfterFill(it)[c] > condition_exposure_usdc[c] /\ condition_exposure_usdc[c] >= 0
           => AfterFill(it)[c] <= market_exposure_cap_usdc
      /\ per_outcome_cap_usdc > 0
           /\ tok > token_exposure_usdc[it.token] /\ token_exposure_usdc[it.token] >= 0
           => tok <= per_outcome_cap_usdc

(* R6.2a and R6.2b: an approved order that adds to a long position leaves   *)
(* its market and its token within their caps once it is filled in full,    *)
(* in any state of the gateway.                                             *)
ApprovedWithinCaps ==
  [][\A it \in Intent : Grants(it) => WithinConditionAndOutcomeCap(it)]_vars

(* R6.2c: an approved purchase leaves the markets of its event together     *)
(* within the event's cap, measured on the markets and not on the gateway's *)
(* running total.                                                           *)
ApprovedWithinEventCap ==
  [][\A it \in Intent :
       LET c == ConditionOf[it.token]
       IN  Grants(it) /\ event_exposure_cap_usdc > 0 /\ condition_event[c] # NoEvent
             /\ it.side = "Buy" /\ condition_exposure_usdc[c] >= 0
           => GrossOf(AfterFill(it), condition_event[c]) <= event_exposure_cap_usdc]_vars

(* No signal id is approved twice, across rejections, halts and unlocks:    *)
(* the id is consumed before the caps are asked.                            *)
ApprovedOnce == \A s \in Signals : approvals[s] <= 1

(* The hard kill: from the moment an order was rejected for the hard loss,  *)
(* and while the loss lasts, nothing is approved, closing orders included,  *)
(* whatever is fed, until set_state is called.                              *)
KillIsFinal == [][killed \/ HardLoss => approvals' = approvals]_vars
=============================================================================
