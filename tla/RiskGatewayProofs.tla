-------------------------- MODULE RiskGatewayProofs --------------------------
(***************************************************************************)
(* What RiskGateway promises for any number of markets, signals and caps.  *)
(*                                                                         *)
(* Inductive invariant: an approved signal is remembered, it was approved  *)
(* once, a gateway killed by a loss is HALTED until it is unlocked, and    *)
(* the running total of every event is the sum over the markets registered *)
(* with it.  The last one is a sum over a set of unknown size that loses   *)
(* and gains members: SumTheorems says what each of the two feeds does to  *)
(* it.                                                                     *)
(***************************************************************************)
EXTENDS RiskGateway, SumTheorems

ApprovedIsSeen == \A s \in Signals : approvals[s] = 0 \/ (approvals[s] = 1 /\ s \in seen_signal_ids)
KilledIsHalted == killed => state_ = "HALTED"

(* Signals and states, which the exposures do not touch.                    *)
SignalsInv == TypeOK /\ ApprovedIsSeen /\ KilledIsHalted

IInv == SignalsInv /\ EventGrossIsSum

(* What a market adds to its event, and the markets of an event.            *)
Gross(exposure) == [c \in Conditions |-> Magnitude(exposure[c])]
MarketsOf(event, e) == {c \in Conditions : event[c] = e}

-----------------------------------------------------------------------------
(* The thresholds and changes are numbers.                                  *)
LEMMA DeltaIsInt ==
  ASSUME NEW it \in Intent
  PROVE  Delta(it) \in Int /\ ConditionOf[it.token] \in Conditions /\ it.token \in Tokens
         /\ it.signal \in Signals
<1>1. it.token \in Tokens /\ it.signal \in Signals /\ it.size \in Sizes
      BY DEF Intent
<1>2. Sizes \subseteq Int /\ ConditionOf \in [Tokens -> Conditions]
      BY RiskGatewayAssumption
<1>3. it.size \in Int
      BY <1>1, <1>2, Zenon
<1> QED BY <1>1, <1>2, <1>3 DEF Delta

(* An approval gets past every rule.                                        *)
LEMMA PassesMeans ==
  ASSUME NEW it, Passes(it)
  PROVE  /\ state_ # "HALTED" /\ ~HardLoss
         /\ it.signal \notin seen_signal_ids
         /\ Remembered(it) = seen_signal_ids \cup {it.signal}
         /\ ~ConditionCapHit(it) /\ ~OutcomeCapHit(it)
  BY DEF Passes, Stopped, PositionCapHit, StateHit, Remembered, Consumes

(* A gateway that was never asked anything.                                 *)
LEMMA InitSignals == Init => SignalsInv
<1> SUFFICES ASSUME Init PROVE SignalsInv
    OBVIOUS
<1>1. Bankrolls \subseteq Nat
      BY RiskGatewayAssumption
<1>2. killed \in BOOLEAN /\ KilledIsHalted
      BY DEF Init, KilledIsHalted
<1>3. TypeOK
      BY <1>1, <1>2 DEF Init, TypeOK, RmState
<1>4. ApprovedIsSeen
      BY DEF Init, ApprovedIsSeen
<1> QED BY <1>2, <1>3, <1>4 DEF SignalsInv

(* What the loop feeds changes neither signals nor approvals, and only      *)
(* set_state moves a halted gateway.                                        *)
LEMMA FeedKeepsSignals ==
  ASSUME SignalsInv, Feed
  PROVE  SignalsInv'
<1> USE RiskGatewayAssumption DEF SignalsInv, TypeOK, ApprovedIsSeen, KilledIsHalted
<1>1. ASSUME NEW s \in OperatorStates, SetState(s) PROVE SignalsInv'
      BY <1>1 DEF SetState, money, exposures
<1>2. ASSUME NEW v \in Pnls, SetDailyPnl(v) PROVE SignalsInv'
      BY <1>2 DEF SetDailyPnl, exposures
<1>3. ASSUME NEW v \in Bankrolls, SetBankroll(v) PROVE SignalsInv'
      BY <1>3 DEF SetBankroll, exposures
<1>4. ASSUME NEW c \in Conditions, NEW v \in Exposures, SetConditionExposure(c, v) PROVE SignalsInv'
      <2>1. Magnitude(v) \in Int /\ Magnitude(condition_exposure_usdc[c]) \in Int
            BY DEF Magnitude
      <2>2. event_gross_usdc' \in [Events -> Int]
            BY <1>4, <2>1 DEF SetConditionExposure
      <2> QED BY <1>4, <2>2 DEF SetConditionExposure, money
<1>5. ASSUME NEW c \in Conditions, NEW e \in Events, SetConditionEvent(c, e) PROVE SignalsInv'
      <2>1. Magnitude(condition_exposure_usdc[c]) \in Int
            BY DEF Magnitude
      <2>2. event_gross_usdc' \in [Events -> Int]
            BY <1>5, <2>1 DEF SetConditionEvent
      <2> QED BY <1>5, <2>2 DEF SetConditionEvent, money
<1>6. ASSUME NEW t \in Tokens, NEW v \in Exposures, SetOutcomeExposure(t, v) PROVE SignalsInv'
      BY <1>6 DEF SetOutcomeExposure, money
<1> QED BY <1>1, <1>2, <1>3, <1>4, <1>5, <1>6 DEF Feed

(* No way out of evaluate breaks the invariant: an approval consumes a      *)
(* fresh signal, a kill halts.                                              *)
LEMMA EvaluateKeepsSignals ==
  ASSUME SignalsInv, NEW it \in Intent, Evaluate(it)
  PROVE  SignalsInv'
<1> USE DEF SignalsInv, TypeOK, ApprovedIsSeen, KilledIsHalted
<1>1. it.signal \in Signals
      BY DeltaIsInt
<1>2. Remembered(it) \subseteq Signals /\ seen_signal_ids \subseteq Remembered(it)
      BY <1>1 DEF Remembered
<1>3. CASE Halt(it)
      BY <1>2, <1>3 DEF Halt, money, exposures, RmState
<1>4. CASE Reject(it)
      BY <1>2, <1>4 DEF Reject, money, exposures
<1>5. CASE Approve(it)
      <2>1. it.signal \notin seen_signal_ids /\ it.signal \in Remembered(it)
            BY <1>5, PassesMeans DEF Approve
      <2>2. approvals[it.signal] = 0
            BY <1>1, <2>1
      <2>3. approvals' \in [Signals -> Nat] /\ ApprovedIsSeen'
            BY <1>1, <1>2, <1>5, <2>1, <2>2 DEF Approve
      <2> QED BY <1>2, <1>5, <2>3 DEF Approve, money, exposures
<1> QED BY <1>3, <1>4, <1>5 DEF Evaluate

-----------------------------------------------------------------------------
(* The gross exposure of an event.                                          *)

(* A magnitude is a natural number.                                         *)
LEMMA MagnitudeIsNat ==
  \A x \in Int : Magnitude(x) \in Nat
  BY DEF Magnitude

(* What the totals are sums of, and over what.                              *)
LEMMA GrossIsSum ==
  ASSUME NEW exposure \in [Conditions -> Int], NEW event, NEW e
  PROVE  /\ IsFiniteSet(MarketsOf(event, e)) /\ MarketsOf(event, e) \subseteq Conditions
         /\ \A c \in Conditions : Gross(exposure)[c] \in Int
                                 /\ Gross(exposure)[c] = Magnitude(exposure[c])
<1>1. IsFiniteSet(Conditions)
      BY RiskGatewayAssumption
<1>2. IsFiniteSet(MarketsOf(event, e)) /\ MarketsOf(event, e) \subseteq Conditions
      BY <1>1, FS_Subset DEF MarketsOf
<1> QED BY <1>2, MagnitudeIsNat DEF Gross

(* What moves neither exposures nor registrations leaves the totals alone.  *)
LEMMA GrossKept ==
  ASSUME EventGrossIsSum,
         UNCHANGED <<condition_exposure_usdc, condition_event, event_gross_usdc>>
  PROVE  EventGrossIsSum'
<1>1. \A e : GrossOf(condition_exposure_usdc, e)' = GrossOf(condition_exposure_usdc, e)
      BY DEF GrossOf
<1> QED BY <1>1 DEF EventGrossIsSum

(* The feeds keep every running total equal to its sum.                     *)
LEMMA FeedKeepsGross ==
  ASSUME TypeOK, EventGrossIsSum, Feed
  PROVE  EventGrossIsSum'
<1>1. CASE \/ \E s \in OperatorStates : SetState(s)
           \/ \E v \in Pnls : SetDailyPnl(v)
           \/ \E v \in Bankrolls : SetBankroll(v)
           \/ \E t \in Tokens, v \in Exposures : SetOutcomeExposure(t, v)
      <2>1. UNCHANGED <<condition_exposure_usdc, condition_event, event_gross_usdc>>
            BY <1>1 DEF SetState, SetDailyPnl, SetBankroll, SetOutcomeExposure, exposures
      <2> QED BY <2>1, GrossKept
<1>2. ASSUME NEW c \in Conditions, NEW v \in Exposures, SetConditionExposure(c, v)
      PROVE  EventGrossIsSum'
      <2> SUFFICES ASSUME NEW e \in Events
                   PROVE  event_gross_usdc'[e] = GrossOf(condition_exposure_usdc, e)'
          BY DEF EventGrossIsSum
      <2> DEFINE S == MarketsOf(condition_event, e)
                 f == Gross(condition_exposure_usdc)
                 g == Gross(condition_exposure_usdc')
      <2>1. /\ v \in Int /\ condition_exposure_usdc \in [Conditions -> Int]
            /\ condition_event \in [Conditions -> Events \cup {NoEvent}]
            /\ event_gross_usdc \in [Events -> Int] /\ NoEvent \notin Events
            BY RiskGatewayAssumption DEF TypeOK
      <2>2. /\ condition_exposure_usdc' \in [Conditions -> Int] /\ condition_event' = condition_event
            /\ condition_exposure_usdc'[c] = v
            /\ \A y \in Conditions : y # c => condition_exposure_usdc'[y] = condition_exposure_usdc[y]
            BY <1>2, <2>1 DEF SetConditionExposure
      <2>3. /\ IsFiniteSet(S) /\ S \subseteq Conditions
            /\ \A y \in Conditions : f[y] \in Int /\ g[y] \in Int
            /\ f[c] = Magnitude(condition_exposure_usdc[c]) /\ g[c] = Magnitude(v)
            /\ \A y \in Conditions : y # c => g[y] = f[y]
            BY <2>1, <2>2, GrossIsSum
      <2>4. c \in S <=> condition_event[c] = e
            BY DEF MarketsOf
      <2>5. /\ event_gross_usdc[e] = SumFunctionOnSet(f, S)
            /\ GrossOf(condition_exposure_usdc, e)' = SumFunctionOnSet(g, S)
            <3>1. event_gross_usdc[e] = SumFunctionOnSet(f, S)
                  BY DEF EventGrossIsSum, GrossOf, Gross, MarketsOf
            <3>2. GrossOf(condition_exposure_usdc, e)' = SumFunctionOnSet(g, S)
                  BY <2>2 DEF GrossOf, Gross, MarketsOf
            <3> QED BY <3>1, <3>2
      <2>6. event_gross_usdc'[e] =
              IF condition_event[c] = e
              THEN event_gross_usdc[e] + Magnitude(v) - Magnitude(condition_exposure_usdc[c])
              ELSE event_gross_usdc[e]
            BY <1>2, <2>1 DEF SetConditionExposure
      <2>7. event_gross_usdc[e] \in Int /\ f[c] \in Int /\ g[c] \in Int
            BY <2>1, <2>3
      <2> HIDE DEF S, f, g
      <2>8. CASE c \in S
            <3>1. SumFunctionOnSet(g, S) = SumFunctionOnSet(f, S) - f[c] + g[c]
                  BY <2>3, <2>8, SumChanges
            <3> QED BY <3>1, <2>3, <2>4, <2>5, <2>6, <2>7, <2>8
      <2>9. CASE c \notin S
            <3>1. SumFunctionOnSet(g, S) = SumFunctionOnSet(f, S)
                  BY <2>3, <2>9, SumSame
            <3> QED BY <3>1, <2>4, <2>5, <2>6, <2>9
      <2> QED BY <2>8, <2>9
<1>3. ASSUME NEW c \in Conditions, NEW e \in Events, SetConditionEvent(c, e)
      PROVE  EventGrossIsSum'
      <2> SUFFICES ASSUME NEW x \in Events
                   PROVE  event_gross_usdc'[x] = GrossOf(condition_exposure_usdc, x)'
          BY DEF EventGrossIsSum
      <2> DEFINE S == MarketsOf(condition_event, x)
                 T == MarketsOf(condition_event', x)
                 f == Gross(condition_exposure_usdc)
                 held == Magnitude(condition_exposure_usdc[c])
                 own == condition_event[c]
      <2>1. /\ IsFiniteSet(S) /\ IsFiniteSet(T) /\ S \subseteq Conditions /\ T \subseteq Conditions
            /\ \A y \in Conditions : f[y] \in Int
            /\ f[c] = held
            BY GrossIsSum DEF TypeOK
      <2>2. /\ condition_event' = [condition_event EXCEPT ![c] = e] /\ e # own
            /\ condition_exposure_usdc' = condition_exposure_usdc
            BY <1>3 DEF SetConditionEvent
      <2>3. /\ event_gross_usdc[x] = SumFunctionOnSet(f, S)
            /\ GrossOf(condition_exposure_usdc, x)' = SumFunctionOnSet(f, T)
            BY <2>2 DEF EventGrossIsSum, GrossOf, Gross, MarketsOf
      <2>4. event_gross_usdc'[x] = event_gross_usdc[x] + (IF x = e THEN held ELSE 0)
                                                       - (IF x = own THEN held ELSE 0)
            BY <1>3 DEF SetConditionEvent
      <2>5. condition_event \in [Conditions -> Events \cup {NoEvent}] /\ event_gross_usdc[x] \in Int
            BY DEF TypeOK
      <2>6. CASE x = e
            <3>1. c \notin S /\ T = S \cup {c} /\ x # own
                  BY <2>2, <2>5, <2>6 DEF MarketsOf
            <3> HIDE DEF S, T, f, held, own
            <3>2. SumFunctionOnSet(f, T) = held + SumFunctionOnSet(f, S)
                  BY <2>1, <3>1, SumGains
            <3>3. held \in Int
                  BY <2>1
            <3> QED BY <2>3, <2>4, <2>5, <2>6, <3>1, <3>2, <3>3
      <2>7. CASE x = own
            <3>1. c \in S /\ T = S \ {c} /\ x # e
                  BY <2>2, <2>5, <2>7 DEF MarketsOf
            <3> HIDE DEF S, T, f, held, own
            <3>2. SumFunctionOnSet(f, S) = held + SumFunctionOnSet(f, T)
                  BY <2>1, <3>1, SumTakesOut
            <3>3. held \in Int /\ SumFunctionOnSet(f, T) \in Int
                  BY <2>1, SumType
            <3> QED BY <2>3, <2>4, <2>5, <2>7, <3>1, <3>2, <3>3
      <2>8. CASE x # e /\ x # own
            <3>1. T = S
                  BY <2>2, <2>5, <2>8 DEF MarketsOf
            <3> HIDE DEF S, T, f, held, own
            <3> QED BY <2>3, <2>4, <2>5, <2>8, <3>1
      <2> QED BY <2>6, <2>7, <2>8
<1> QED BY <1>1, <1>2, <1>3 DEF Feed

-----------------------------------------------------------------------------
(* The invariant is inductive.                                              *)

(* Nothing is held and nothing is registered.                               *)
LEMMA InitIInv == Init => IInv
<1> SUFFICES ASSUME Init PROVE EventGrossIsSum
    BY InitSignals DEF IInv
<1> SUFFICES ASSUME NEW e \in Events PROVE GrossOf(condition_exposure_usdc, e) = 0
    BY DEF EventGrossIsSum, Init
<1>1. {c \in Conditions : condition_event[c] = e} = {}
      BY RiskGatewayAssumption DEF Init
<1> QED BY <1>1, SumEmpty DEF GrossOf

(* Every step keeps the invariant.                                          *)
LEMMA NextIInv == IInv /\ [Next]_vars => IInv'
<1> SUFFICES ASSUME IInv, [Next]_vars PROVE IInv'
    OBVIOUS
<1>1. CASE Feed
      BY <1>1, FeedKeepsSignals, FeedKeepsGross DEF IInv, SignalsInv
<1>2. ASSUME NEW it \in Intent, Evaluate(it) PROVE IInv'
      <2>1. UNCHANGED exposures
            BY <1>2 DEF Evaluate, Halt, Reject, Approve
      <2>2. EventGrossIsSum'
            BY <2>1, GrossKept DEF IInv, exposures
      <2> QED BY <1>2, <2>2, EvaluateKeepsSignals DEF IInv
<1>3. CASE UNCHANGED vars
      <2>1. EventGrossIsSum'
            BY <1>3, GrossKept DEF IInv, vars, exposures
      <2> QED BY <1>3, <2>1 DEF IInv, SignalsInv, TypeOK, ApprovedIsSeen, KilledIsHalted,
                               vars, money, exposures
<1> QED BY <1>1, <1>2, <1>3 DEF Next

-----------------------------------------------------------------------------
(* Every reachable gateway satisfies the strengthened invariant.            *)
THEOREM SpecIInv == Spec => []IInv
  BY InitIInv, NextIInv, PTL DEF Spec

(* The members keep their shape under every feed and evaluation.            *)
THEOREM SpecTypeOK == Spec => []TypeOK
<1>1. IInv => TypeOK
      BY DEF IInv, SignalsInv
<1> QED BY <1>1, SpecIInv, PTL

(* check_duplicate_ runs before the rules that can still reject, so a       *)
(* signal is approved at most once whatever is fed in between.              *)
THEOREM SpecApprovedOnce == Spec => []ApprovedOnce
<1>1. IInv => ApprovedOnce
      BY DEF IInv, SignalsInv, ApprovedIsSeen, ApprovedOnce
<1> QED BY <1>1, SpecIInv, PTL

(* The hard kill: while the loss lasts, and after an order was rejected for *)
(* it until set_state, nothing is approved.                                 *)
THEOREM SpecKillIsFinal == Spec => KillIsFinal
<1>1. IInv /\ [Next]_vars => [killed \/ HardLoss => approvals' = approvals]_vars
      <2> SUFFICES ASSUME IInv, Next, killed \/ HardLoss PROVE approvals' = approvals
          OBVIOUS
      <2>1. ASSUME NEW it \in Intent, Evaluate(it) PROVE approvals' = approvals
            <3>1. ~Approve(it)
                  BY PassesMeans DEF Approve, IInv, SignalsInv, KilledIsHalted
            <3> QED BY <2>1, <3>1 DEF Evaluate, Halt, Reject
      <2>2. CASE Feed
            BY <2>2 DEF Feed, SetState, SetDailyPnl, SetBankroll, SetConditionExposure,
                        SetConditionEvent, SetOutcomeExposure
      <2> QED BY <2>1, <2>2 DEF Next
<1> QED BY <1>1, SpecIInv, PTL DEF Spec, KillIsFinal

(* check_position_caps_: a purchase approved in any state leaves its market *)
(* and its token within their caps once filled.                             *)
THEOREM SpecApprovedWithinCaps == Spec => ApprovedWithinCaps
<1>1. ASSUME IInv, NEW it \in Intent, Grants(it)
      PROVE  WithinConditionAndOutcomeCap(it)
      <2> DEFINE c == ConditionOf[it.token]
                 cur == condition_exposure_usdc[c]
                 tok == token_exposure_usdc[it.token]
      <2>1. /\ cur \in Int /\ tok \in Int /\ Delta(it) \in Int
            /\ AfterFill(it)[c] = cur + Delta(it)
            BY <1>1, DeltaIsInt DEF IInv, SignalsInv, TypeOK, AfterFill
      <2>2. market_exposure_cap_usdc \in Nat /\ per_outcome_cap_usdc \in Nat
            BY RiskGatewayAssumption
      <2>3. ~ConditionCapHit(it) /\ ~OutcomeCapHit(it)
            BY <1>1, PassesMeans DEF Grants, Approve
      <2>4. ~(Grows(cur, cur + Delta(it)) /\ Magnitude(cur + Delta(it)) > market_exposure_cap_usdc)
            BY <2>3 DEF ConditionCapHit
      <2>5. per_outcome_cap_usdc > 0 =>
              ~(Grows(tok, tok + Delta(it)) /\ Magnitude(tok + Delta(it)) > per_outcome_cap_usdc)
            BY <2>3 DEF OutcomeCapHit
      <2>6. cur + Delta(it) > cur /\ cur >= 0 => cur + Delta(it) <= market_exposure_cap_usdc
            BY <2>1, <2>2, <2>4 DEF Grows, Magnitude
      <2>7. per_outcome_cap_usdc > 0 /\ tok + Delta(it) > tok /\ tok >= 0
              => tok + Delta(it) <= per_outcome_cap_usdc
            BY <2>1, <2>2, <2>5 DEF Grows, Magnitude
      <2> QED BY <2>1, <2>6, <2>7 DEF WithinConditionAndOutcomeCap
<1>2. IInv /\ [Next]_vars =>
        [\A it \in Intent : Grants(it) => WithinConditionAndOutcomeCap(it)]_vars
      BY <1>1
<1> QED BY <1>2, SpecIInv, PTL DEF Spec, ApprovedWithinCaps

(* The running total of an event is the sum over the markets registered     *)
(* with it, for any number of markets and events and any order of feeds,    *)
(* registrations and moves (set_condition_exposure, set_condition_event).   *)
THEOREM SpecEventGrossIsSum == Spec => []EventGrossIsSum
<1>1. IInv => EventGrossIsSum
      BY DEF IInv
<1> QED BY <1>1, SpecIInv, PTL

(* check_position_caps_: an approved purchase of a market that is not short *)
(* leaves the markets of its event, summed one by one, within the event's   *)
(* cap.                                                                     *)
THEOREM SpecApprovedWithinEventCap == Spec => ApprovedWithinEventCap
<1> DEFINE Within(it) ==
             LET c == ConditionOf[it.token]
             IN  Grants(it) /\ event_exposure_cap_usdc > 0 /\ condition_event[c] # NoEvent
                   /\ it.side = "Buy" /\ condition_exposure_usdc[c] >= 0
                 => GrossOf(AfterFill(it), condition_event[c]) <= event_exposure_cap_usdc
<1>1. ASSUME IInv, NEW it \in Intent PROVE Within(it)
      <2> DEFINE c == ConditionOf[it.token]
                 cur == condition_exposure_usdc[c]
                 e == condition_event[c]
      <2> SUFFICES ASSUME Grants(it), event_exposure_cap_usdc > 0, e # NoEvent,
                          it.side = "Buy", cur >= 0
                   PROVE  GrossOf(AfterFill(it), e) <= event_exposure_cap_usdc
          OBVIOUS
      <2>1. /\ c \in Conditions /\ e \in Events /\ cur \in Int
            /\ condition_exposure_usdc \in [Conditions -> Int]
            /\ event_gross_usdc[e] \in Int
            BY <1>1, DeltaIsInt DEF IInv, SignalsInv, TypeOK
      <2>2. it.size \in Nat \ {0} /\ Delta(it) = it.size
            <3>1. it.size \in Sizes /\ Sizes \subseteq Nat \ {0}
                  BY RiskGatewayAssumption DEF Intent
            <3> QED BY <3>1 DEF Delta
      <2>3. cur + Delta(it) \in Int /\ Grows(cur, cur + Delta(it))
            BY <2>1, <2>2 DEF Grows, Magnitude
      <2>4. ~EventCapHit(it)
            BY DEF Grants, Approve, Passes, Stopped, PositionCapHit
      <2>5. ~(event_gross_usdc[e] - Magnitude(cur) + Magnitude(cur + Delta(it))
                > event_exposure_cap_usdc)
            BY <2>3, <2>4 DEF EventCapHit
      <2>6. event_gross_usdc[e] = GrossOf(condition_exposure_usdc, e)
            BY <1>1, <2>1 DEF IInv, EventGrossIsSum
      <2> DEFINE S == MarketsOf(condition_event, e)
                 f == Gross(condition_exposure_usdc)
                 g == Gross(AfterFill(it))
      <2>7. /\ GrossOf(condition_exposure_usdc, e) = SumFunctionOnSet(f, S)
            /\ GrossOf(AfterFill(it), e) = SumFunctionOnSet(g, S)
            /\ c \in S
            BY <2>1 DEF GrossOf, Gross, MarketsOf
      <2>8. /\ AfterFill(it) \in [Conditions -> Int] /\ AfterFill(it)[c] = cur + Delta(it)
            /\ \A y \in Conditions : y # c => AfterFill(it)[y] = condition_exposure_usdc[y]
            BY <2>1, <2>3 DEF AfterFill
      <2>9. /\ IsFiniteSet(S) /\ S \subseteq Conditions
            /\ \A y \in Conditions : f[y] \in Int /\ g[y] \in Int
            /\ f[c] = Magnitude(cur) /\ g[c] = Magnitude(cur + Delta(it))
            /\ \A y \in Conditions : y # c => g[y] = f[y]
            BY <2>1, <2>8, GrossIsSum
      <2>10. event_exposure_cap_usdc \in Int
            BY RiskGatewayAssumption
      <2> HIDE DEF S, f, g
      <2>11. SumFunctionOnSet(g, S) = SumFunctionOnSet(f, S) - f[c] + g[c]
            BY <2>1, <2>7, <2>9, SumChanges
      <2>12. f[c] \in Int /\ g[c] \in Int
            BY <2>1, <2>9
      <2> QED BY <2>1, <2>5, <2>6, <2>7, <2>9, <2>10, <2>11, <2>12
<1>2. IInv /\ [Next]_vars => [\A it \in Intent : Within(it)]_vars
      BY <1>1
<1> QED BY <1>2, SpecIInv, PTL DEF Spec, ApprovedWithinEventCap
=============================================================================
