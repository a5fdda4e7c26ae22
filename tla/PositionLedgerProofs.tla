------------------------ MODULE PositionLedgerProofs ------------------------
(***************************************************************************)
(* Proofs about PositionLedger, for every set of markets, engines, modes,  *)
(* fill sizes and prices and for every bound.                              *)
(*                                                                         *)
(* No safety invariant is inductive alone.  HeldIffPriced has to hold of   *)
(* the positions in the snapshot file as well, because a restart makes     *)
(* them the ledger, and it needs to know that a token with no entry in the *)
(* map holds nothing.  Both are conjuncts of IInv.  Two layers stand on    *)
(* it: SplitInv, that the engines' shares add up to the token in the       *)
(* ledger and in the file, and PriceInv, that entry prices lie between the *)
(* prices paid, in the ledger and in the file.                             *)
(*                                                                         *)
(* The last sections are about the money of the loop: its books (Account)  *)
(* and the caps that are asked against them (Exposure), each with an       *)
(* inductive invariant of its own, and both side by side (Money).          *)
(***************************************************************************)
EXTENDS PositionLedger, Money, SumTheorems

(* One position: priced when held or owed, unpriced when flat.              *)
Sound(pv) ==
  /\ pv.shares # 0 => pv.avg.num > 0
  /\ pv.shares = 0 => pv.avg.num = 0
  /\ ~pv.listed => pv.shares = 0

IInv ==
  /\ TypeOK
  /\ ExposureIsSum
  /\ \A t \in Token : Sound(token_positions_[t])
  /\ \A t \in Token : Sound(ledger_snapshot.p[t])

-----------------------------------------------------------------------------

(* The product of two positive numbers is positive: the fact about          *)
(* multiplication the weighted mean rests on.                               *)
LEMMA PositiveProduct ==
  ASSUME NEW x \in Nat \ {0}, NEW y \in Nat \ {0}
  PROVE  x * y \in Nat \ {0}
  OBVIOUS

(* The volume-weighted price of held shares and a purchase is again a       *)
(* fraction, and it is positive when the old price was.                     *)
LEMMA WeightedMeanIsFraction ==
  ASSUME NEW s \in Nat \ {0}, NEW k \in Nat \ {0},
         NEW a \in Fraction, NEW p \in Fraction, a.num > 0
  PROVE  /\ WeightedMean(s, a, k, p) \in Fraction
         /\ WeightedMean(s, a, k, p).num > 0
  <1>1. /\ a.num \in Nat \ {0} /\ a.den \in Nat \ {0}
        /\ p.num \in Nat /\ p.den \in Nat \ {0}
        BY DEF Fraction
  <1>2. s * a.num * p.den \in Nat \ {0}
        <2>1. s * a.num \in Nat \ {0} BY <1>1, PositiveProduct
        <2> QED BY <1>1, <2>1, PositiveProduct
  <1>3. k * p.num * a.den \in Nat
        <2>1. k * p.num \in Nat BY <1>1
        <2> QED BY <1>1, <2>1
  <1>4. (s + k) * (a.den * p.den) \in Nat \ {0}
        <2>1. a.den * p.den \in Nat \ {0} BY <1>1, PositiveProduct
        <2>2. s + k \in Nat \ {0} OBVIOUS
        <2> QED BY <2>1, <2>2, PositiveProduct
  <1> QED BY <1>2, <1>3, <1>4 DEF WeightedMean, Fraction

(* A fill that keeps a position sound: a purchase, or the restored line of  *)
(* a file, at a positive price, and a sale or a close of what is not flat.  *)
Proper(pv, size, price) ==
  /\ size # 0
  /\ \/ price.num > 0 /\ (size > 0 \/ ~pv.listed)
     \/ pv.shares # 0 /\ (size < 0 \/ pv.shares + size = 0)

(* Such a fill keeps a position sound, whichever side of zero it is on and  *)
(* whichever it leaves it on.                                               *)
LEMMA UpdateIsSound ==
  ASSUME NEW pv \in PositionView, NEW size \in Int, NEW price \in Fraction,
         Sound(pv), Proper(pv, size, price)
  PROVE  /\ UpdatedPosition(pv, size, price) \in PositionView
         /\ Sound(UpdatedPosition(pv, size, price))
  <1> DEFINE new == UpdatedPosition(pv, size, price)
  <1>1. /\ pv.shares \in Int /\ pv.listed \in BOOLEAN
        /\ pv.avg \in Fraction /\ pv.avg.num \in Nat /\ price.num \in Nat
        BY DEF PositionView, Fraction
  <1>2. Zero \in Fraction /\ Zero.num = 0
        BY DEF Zero, Fraction
  <1>3. /\ EntryPrice(pv, size, price) \in Fraction
        /\ pv.shares + size # 0 => EntryPrice(pv, size, price).num > 0
        /\ pv.shares + size = 0 => EntryPrice(pv, size, price).num = 0
        <2>1. CASE ~pv.listed
              <3>1. pv.shares = 0 /\ price.num > 0 /\ size # 0
                    BY <2>1 DEF Proper, Sound
              <3> QED BY <2>1, <3>1, <1>1 DEF EntryPrice
        <2>2. CASE pv.listed /\ pv.shares + size = 0
              BY <2>2, <1>1, <1>2 DEF EntryPrice
        <2>3. CASE pv.listed /\ pv.shares + size # 0 /\ size > 0 /\ pv.shares = 0
              BY <2>3, <1>1 DEF EntryPrice, Proper
        <2>4. CASE pv.listed /\ pv.shares + size # 0 /\ size > 0 /\ pv.shares > 0
              <3>1. pv.shares \in Nat \ {0} /\ size \in Nat \ {0} /\ pv.avg.num > 0
                    BY <2>4, <1>1 DEF Sound
              <3>2. EntryPrice(pv, size, price) = WeightedMean(pv.shares, pv.avg, size, price)
                    BY <2>4, <1>1, <3>1 DEF EntryPrice, Proper
              <3> QED BY <3>1, <3>2, <1>1, <2>4, WeightedMeanIsFraction
        <2>5. CASE pv.listed /\ pv.shares + size # 0 /\ (size < 0 \/ pv.shares < 0)
              <3>1. EntryPrice(pv, size, price) = pv.avg
                    BY <2>5, <1>1 DEF EntryPrice
              <3>2. pv.avg.num > 0
                    BY <2>5, <1>1 DEF Sound, Proper
              <3> QED BY <1>1, <2>5, <3>1, <3>2
        <2>6. size \in Int /\ size # 0
              BY DEF Proper
        <2> QED BY <2>1, <2>2, <2>3, <2>4, <2>5, <2>6, <1>1
  <1>4. /\ new.listed = TRUE /\ new.shares = pv.shares + size
        /\ new.avg = EntryPrice(pv, size, price)
        BY DEF UpdatedPosition
  <1>5. new \in PositionView
        BY <1>1, <1>3 DEF UpdatedPosition, PositionView
  <1>6. Sound(new)
        BY <1>1, <1>3, <1>4 DEF Sound
  <1> QED BY <1>5, <1>6

(* The executed-fill step, whatever its sign: the part every trading action *)
(* shares.                                                                  *)
LEMMA ExecuteKeeps ==
  ASSUME IInv, NEW f \in Fill, Execute(f),
         Accepted(f) => Proper(token_positions_[f.token], f.size, f.price)
  PROVE  IInv'
  <1> USE DEF IInv, Execute
  <1> DEFINE t == f.token
             old == token_positions_[t]
             pv == UpdatedPosition(old, f.size, f.price)
  <1>0. /\ t \in Token /\ f.size \in Int /\ f.price \in Fraction
        /\ f.engine \in Engines \cup {NoEngine}
        /\ old \in PositionView /\ old.shares \in Int
        BY DEF Fill, TypeOK, PositionView
  <1>1. ledger_snapshot' = ledger_snapshot /\ \A u \in Token : Sound(ledger_snapshot'.p[u])
        OBVIOUS
  <1>2. paid' \in [Token -> SUBSET Fraction] /\ fills' \in Nat
        BY <1>0, LedgerAssumption DEF TypeOK, Paid
  <1>3. CASE ~Accepted(f)
        <2>1. UNCHANGED ledger
              BY <1>3 DEF ApplyFill
        <2> QED BY <2>1, <1>1, <1>2 DEF TypeOK, ExposureIsSum, Shares, ledger
  <1>4. CASE Accepted(f)
        <2>1. /\ token_positions_' = [token_positions_ EXCEPT ![t] = pv]
              /\ condition_exposure_' = [condition_exposure_ EXCEPT ![t[1]] = @ + f.size]
              /\ engine_pos_' = UpdatedSplit(engine_pos_, t, f.engine, f.size, pv.shares)
              BY <1>4 DEF ApplyFill, UpdatePosition
        <2>2. pv \in PositionView /\ Sound(pv)
              BY <1>0, <1>4, UpdateIsSound
        <2>3. pv.shares = old.shares + f.size
              BY DEF UpdatedPosition
        <2>4. TypeOK'
              <3>1. token_positions_' \in [Token -> PositionView]
                    BY <2>1, <2>2, <1>0 DEF TypeOK
              <3>2. condition_exposure_' \in [Conditions -> Int]
                    BY <2>1, <1>0 DEF TypeOK, Token
              <3>3. engine_pos_' \in [Token \X Engines -> Int]
                    <4>1. CASE f.engine = NoEngine
                          BY <4>1, <2>1 DEF UpdatedSplit, TypeOK
                    <4>2. CASE f.engine # NoEngine /\ pv.shares = 0
                          BY <4>2, <2>1 DEF UpdatedSplit, TypeOK
                    <4>3. CASE f.engine # NoEngine /\ pv.shares # 0
                          <5>1. <<t, f.engine>> \in Token \X Engines
                                BY <4>3, <1>0
                          <5>2. engine_pos_' = [engine_pos_ EXCEPT ![<<t, f.engine>>] = @ + f.size]
                                BY <4>3, <2>1 DEF UpdatedSplit
                          <5> QED BY <5>1, <5>2, <1>0 DEF TypeOK
                    <4> QED BY <4>1, <4>2, <4>3
              <3> QED BY <3>1, <3>2, <3>3, <1>1, <1>2 DEF TypeOK
        <2>5. ExposureIsSum'
              <3> SUFFICES ASSUME NEW c \in Conditions
                           PROVE  condition_exposure_'[c] =
                                    token_positions_'[<<c, "Yes">>].shares
                                      + token_positions_'[<<c, "No">>].shares
                  BY DEF ExposureIsSum, Shares
              <3>1. /\ <<c, "Yes">> \in Token /\ <<c, "No">> \in Token
                    /\ <<c, "Yes">> # <<c, "No">>
                    BY DEF Token, Outcomes
              <3>2. condition_exposure_[c] = token_positions_[<<c, "Yes">>].shares
                                             + token_positions_[<<c, "No">>].shares
                    BY DEF ExposureIsSum, Shares
              <3>3. /\ token_positions_[<<c, "Yes">>].shares \in Int
                    /\ token_positions_[<<c, "No">>].shares \in Int
                    /\ condition_exposure_[c] \in Int
                    BY <3>1 DEF TypeOK, PositionView
              <3>4. CASE t[1] = c
                    <4>1. t = <<c, "Yes">> \/ t = <<c, "No">>
                          BY <3>4, <1>0 DEF Token, Outcomes
                    <4>2. condition_exposure_'[c] = condition_exposure_[c] + f.size
                          BY <3>4, <2>1 DEF TypeOK
                    <4>3. CASE t = <<c, "Yes">>
                          <5>1. token_positions_'[<<c, "Yes">>] = pv
                                BY <4>3, <2>1, <1>0 DEF TypeOK
                          <5>2. token_positions_'[<<c, "No">>] = token_positions_[<<c, "No">>]
                                BY <4>3, <2>1, <3>1 DEF TypeOK
                          <5> QED BY <5>1, <5>2, <4>2, <4>3, <2>3, <3>2, <3>3, <1>0
                    <4>4. CASE t = <<c, "No">>
                          <5>1. token_positions_'[<<c, "No">>] = pv
                                BY <4>4, <2>1, <1>0 DEF TypeOK
                          <5>2. token_positions_'[<<c, "Yes">>] = token_positions_[<<c, "Yes">>]
                                BY <4>4, <2>1, <3>1 DEF TypeOK
                          <5> QED BY <5>1, <5>2, <4>2, <4>4, <2>3, <3>2, <3>3, <1>0
                    <4> QED BY <4>1, <4>3, <4>4
              <3>5. CASE t[1] # c
                    <4>1. condition_exposure_'[c] = condition_exposure_[c]
                          BY <3>5, <2>1 DEF TypeOK
                    <4>2. t # <<c, "Yes">> /\ t # <<c, "No">>
                          BY <3>5
                    <4> QED BY <4>1, <4>2, <2>1, <3>1, <3>2 DEF TypeOK
              <3> QED BY <3>4, <3>5
        <2>6. \A u \in Token : Sound(token_positions_'[u])
              BY <2>1, <2>2, <1>0 DEF TypeOK
        <2> QED BY <2>4, <2>5, <2>6, <1>1
  <1> QED BY <1>3, <1>4

-----------------------------------------------------------------------------
(* The invariant is inductive.                                              *)

(* The empty ledger is sound.                                              *)
LEMMA InitIInv ==
  Init => IInv
  <1> SUFFICES ASSUME Init PROVE IInv
      OBVIOUS
  <1>1. NoPosition \in PositionView /\ Sound(NoPosition)
        BY DEF NoPosition, PositionView, Sound, Zero, Fraction
  <1>2. TypeOK
        BY <1>1 DEF Init, EmptyLedger, NoSnapshot, TypeOK
  <1>3. ExposureIsSum
        BY DEF Init, EmptyLedger, ExposureIsSum, Shares, NoPosition, Token, Outcomes
  <1> QED BY <1>1, <1>2, <1>3 DEF IInv, Init, EmptyLedger, NoSnapshot

(* What brings in money at cost has a cost: nothing is sold from flat.      *)
LEMMA SellNeedsShares ==
  ASSUME IInv, NEW t \in Token, NEW e \in Engines, NEW k \in Sizes, NEW n \in PriceTicks,
         NEW m, NEW r, Sell(t, e, k, n, m, r)
  PROVE  Shares(t) # 0
  <1> SUFFICES ASSUME Shares(t) = 0 PROVE FALSE
      OBVIOUS
  <1> DEFINE avg == token_positions_[t].avg
             share == engine_pos_[<<t, e>>]
  <1>1. /\ k \in Nat \ {0} /\ n \in Nat \ {0} /\ avg.den \in Nat \ {0} /\ avg.num = 0
        /\ share \in Int
        BY LedgerAssumption DEF IInv, TypeOK, PositionView, Fraction, Sound, Shares
  <1>2. k * n * avg.den <= share * avg.num
        BY DEF Sell, CostOfShare
  <1> HIDE DEF avg, share
  <1>3. share * avg.num = 0
        BY <1>1
  <1>4. k * n \in Nat \ {0}
        BY <1>1, PositiveProduct
  <1>5. k * n * avg.den \in Nat \ {0}
        BY <1>1, <1>4, PositiveProduct
  <1> QED BY <1>2, <1>3, <1>5

(* Fills, settlements, saves and restarts keep the ledger sound.           *)
LEMMA NextIInv ==
  IInv /\ [Next]_vars => IInv'
  <1> SUFFICES ASSUME IInv, [Next]_vars PROVE IInv'
      OBVIOUS
  <1>0. ASSUME NEW n \in PriceTicks
        PROVE  Ticks(n) \in Fraction /\ Ticks(n).num > 0
        BY LedgerAssumption DEF Ticks, Fraction
  <1>1. ASSUME NEW t \in Token, NEW e \in Engines, NEW k \in Sizes, NEW n \in PriceTicks,
               NEW m \in Modes, NEW r \in {"Ok", "Missed"}, Buy(t, e, k, n, m, r)
        PROVE  IInv'
        <2> DEFINE f == Labelled(t, e, k, Ticks(n), m, r)
        <2>1. /\ f \in Fill /\ f.token = t /\ f.size = k /\ f.price = Ticks(n) /\ k \in Nat \ {0}
              BY <1>0, LedgerAssumption DEF Labelled, Fill
        <2>2. Proper(token_positions_[t], f.size, f.price)
              BY <2>1, <1>0 DEF Proper
        <2>3. Execute(f)
              BY <1>1 DEF Buy
        <2> QED BY <2>1, <2>2, <2>3, ExecuteKeeps
  <1>2. ASSUME NEW t \in Token, NEW e \in Engines, NEW k \in Sizes, NEW n \in PriceTicks,
               NEW m \in Modes, NEW r \in {"Ok", "Missed"}, Sell(t, e, k, n, m, r)
        PROVE  IInv'
        <2> DEFINE f == Labelled(t, e, -k, Ticks(n), m, r)
        <2>1. /\ f \in Fill /\ f.token = t /\ f.size = -k /\ k \in Nat \ {0}
              BY <1>0, LedgerAssumption DEF Labelled, Fill
        <2>2. Shares(t) # 0
              BY <1>2, SellNeedsShares
        <2>3. Proper(token_positions_[t], f.size, f.price)
              BY <2>1, <2>2 DEF Proper, Shares
        <2>4. Execute(f)
              BY <1>2 DEF Sell
        <2> QED BY <2>1, <2>3, <2>4, ExecuteKeeps
  <1>3. ASSUME NEW t \in Token, NEW e \in Engines, NEW payout \in {Zero, Ticks(1)},
               Settle(t, e, payout)
        PROVE  IInv'
        <2> DEFINE f == Labelled(t, e, -Shares(t), payout, accepted_mode_tag, "Ok")
        <2>1. Shares(t) \in Int /\ Shares(t) # 0
              BY <1>3 DEF IInv, TypeOK, PositionView, Shares, Settle
        <2>2. payout \in Fraction
              BY DEF Zero, Ticks, Fraction
        <2>3. /\ f \in Fill /\ f.token = t /\ f.size = -Shares(t)
              BY <2>1, <2>2, LedgerAssumption DEF Labelled, Fill
        <2>4. Proper(token_positions_[t], f.size, f.price)
              BY <2>1, <2>3 DEF Proper, Shares
        <2>5. Execute(f)
              BY <1>3 DEF Settle
        <2> QED BY <2>3, <2>4, <2>5, ExecuteKeeps
  <1>4. CASE SaveLedgerSnapshot
        <2>1. UNCHANGED <<token_positions_, condition_exposure_, engine_pos_, paid, fills>>
              BY <1>4 DEF SaveLedgerSnapshot, ledger
        <2>2. NoPosition \in PositionView /\ Sound(NoPosition)
              BY DEF NoPosition, PositionView, Sound, Zero, Fraction
        <2> DEFINE p == [t \in Token |-> IF Shares(t) # 0 THEN token_positions_[t] ELSE NoPosition]
        <2>3. p \in [Token -> PositionView] /\ \A t \in Token : Sound(p[t])
              BY <2>2 DEF IInv, TypeOK
        <2>4. ledger_snapshot' = [p |-> p, pe |-> engine_pos_, paid |-> paid]
              BY <1>4 DEF SaveLedgerSnapshot
        <2>5. TypeOK'
              BY <2>1, <2>3, <2>4 DEF IInv, TypeOK
        <2>6. ExposureIsSum'
              BY <2>1 DEF IInv, ExposureIsSum, Shares
        <2> QED BY <2>1, <2>3, <2>4, <2>5, <2>6 DEF IInv
  <1>5. ASSUME NEW file \in {ledger_snapshot, NoSnapshot}, RestoreLedgerSnapshot(file)
        PROVE  IInv'
        <2> DEFINE saved == file.p
                   back(t) == IF saved[t].shares # 0
                              THEN UpdatedPosition(NoPosition, saved[t].shares, saved[t].avg)
                              ELSE NoPosition
        <2>1. /\ token_positions_' = [t \in Token |-> back(t)]
              /\ condition_exposure_' = [c \in Conditions |->
                     saved[<<c, "Yes">>].shares + saved[<<c, "No">>].shares]
              /\ engine_pos_' = file.pe
              /\ paid' = file.paid
              /\ ledger_snapshot' = ledger_snapshot /\ fills' = fills
              BY <1>5 DEF RestoreLedgerSnapshot
        <2>2. NoPosition \in PositionView /\ Sound(NoPosition) /\ NoPosition.shares = 0
              BY DEF NoPosition, PositionView, Sound, Zero, Fraction
        <2>0. /\ saved \in [Token -> PositionView] /\ \A t \in Token : Sound(saved[t])
              /\ file.pe \in [Token \X Engines -> Int] /\ file.paid \in [Token -> SUBSET Fraction]
              <3>1. CASE file = ledger_snapshot
                    BY <3>1 DEF IInv, TypeOK
              <3>2. CASE file = NoSnapshot
                    BY <3>2, <2>2 DEF NoSnapshot
              <3> QED BY <3>1, <3>2
        <2>3. ASSUME NEW t \in Token
              PROVE  back(t) \in PositionView /\ Sound(back(t)) /\ back(t).shares = saved[t].shares
              <3>1. /\ saved[t] \in PositionView /\ Sound(saved[t])
                    /\ saved[t].shares \in Int /\ saved[t].avg \in Fraction
                    BY <2>0 DEF PositionView
              <3>2. CASE saved[t].shares = 0
                    BY <3>2, <2>2
              <3>3. CASE saved[t].shares # 0
                    <4>1. Proper(NoPosition, saved[t].shares, saved[t].avg)
                          BY <3>1, <3>3 DEF Sound, Proper, NoPosition
                    <4>2. /\ UpdatedPosition(NoPosition, saved[t].shares, saved[t].avg) \in PositionView
                          /\ Sound(UpdatedPosition(NoPosition, saved[t].shares, saved[t].avg))
                          BY <3>1, <4>1, <2>2, UpdateIsSound
                    <4>3. UpdatedPosition(NoPosition, saved[t].shares, saved[t].avg).shares
                            = saved[t].shares
                          BY <2>2, <3>1 DEF UpdatedPosition
                    <4> QED BY <3>3, <4>2, <4>3
              <3> QED BY <3>2, <3>3
        <2>4. ASSUME NEW c \in Conditions
              PROVE  /\ <<c, "Yes">> \in Token /\ saved[<<c, "Yes">>].shares \in Int
                     /\ <<c, "No">> \in Token /\ saved[<<c, "No">>].shares \in Int
              <3>1. <<c, "Yes">> \in Token /\ <<c, "No">> \in Token
                    BY DEF Token, Outcomes
              <3> QED BY <3>1, <2>0 DEF PositionView
        <2>5. token_positions_' \in [Token -> PositionView]
              BY <2>1, <2>3
        <2>6. condition_exposure_' \in [Conditions -> Int]
              BY <2>1, <2>4
        <2>7. TypeOK'
              BY <2>0, <2>1, <2>5, <2>6 DEF IInv, TypeOK
        <2>8. ExposureIsSum'
              BY <2>1, <2>3, <2>4 DEF ExposureIsSum, Shares
        <2> QED BY <2>1, <2>3, <2>7, <2>8 DEF IInv
  <1>6. CASE UNCHANGED vars
        BY <1>6 DEF IInv, vars, ledger, TypeOK, ExposureIsSum, Shares
  <1> QED BY <1>1, <1>2, <1>3, <1>4, <1>5, <1>6 DEF Next

-----------------------------------------------------------------------------

(* Every reachable ledger satisfies the strengthened invariant.             *)
THEOREM SpecIInv == Spec => []IInv
  <1> QED BY InitIInv, NextIInv, PTL DEF Spec

(* The C++ members keep their shape through every fill, save and restart.   *)
THEOREM SpecTypeOK == Spec => []TypeOK
  <1>1. IInv => TypeOK
        BY DEF IInv
  <1> QED BY <1>1, SpecIInv, PTL

(* The exposure a condition accumulates by increments is the sum of its two *)
(* tokens, for any number of markets, engines and fills and across every    *)
(* save and restart.                                                        *)
THEOREM SpecExposureIsSum == Spec => []ExposureIsSum
  <1>1. IInv => ExposureIsSum
        BY DEF IInv
  <1> QED BY <1>1, SpecIInv, PTL

(* What is held, long or short, has a notional of its sign and what is flat *)
(* has no entry price: no position is invisible to the caps fed with        *)
(* notionals, and an oversold one is fed as the debt it is.                 *)
THEOREM SpecHeldIffPriced == Spec => []HeldIffPriced
  <1>1. ASSUME IInv PROVE HeldIffPriced
        <2> SUFFICES ASSUME NEW t \in Token
                     PROVE  /\ Shares(t) > 0 => Notional(token_positions_[t]).num > 0
                            /\ Shares(t) < 0 => Notional(token_positions_[t]).num < 0
                            /\ Shares(t) = 0 => token_positions_[t].avg.num = 0
            BY DEF HeldIffPriced
        <2> DEFINE pv == token_positions_[t]
        <2>1. pv \in PositionView /\ Sound(pv)
              BY <1>1 DEF IInv, TypeOK
        <2>2. pv.shares \in Int /\ pv.avg.num \in Nat
              BY <2>1 DEF PositionView, Fraction
        <2>3. ASSUME pv.shares > 0
              PROVE  pv.shares * pv.avg.num > 0
              <3>1. pv.shares \in Nat \ {0} /\ pv.avg.num \in Nat \ {0}
                    BY <2>1, <2>2, <2>3 DEF Sound
              <3> QED BY <3>1, PositiveProduct
        <2>4. ASSUME pv.shares < 0
              PROVE  pv.shares * pv.avg.num < 0
              <3>1. -pv.shares \in Nat \ {0} /\ pv.avg.num \in Nat \ {0}
                    BY <2>1, <2>2, <2>4 DEF Sound
              <3>2. (-pv.shares) * pv.avg.num \in Nat \ {0}
                    BY <3>1, PositiveProduct
              <3>3. pv.shares * pv.avg.num = -((-pv.shares) * pv.avg.num)
                    BY <2>2
              <3>4. pv.shares * pv.avg.num \in Int
                    BY <2>2
              <3> QED BY <3>2, <3>3, <3>4
        <2> QED BY <2>1, <2>3, <2>4 DEF Sound, Shares, Notional
  <1> QED BY <1>1, SpecIInv, PTL

-----------------------------------------------------------------------------
(* The split between the engines.                                           *)

Split(pe, t) == [e \in Engines |-> pe[<<t, e>>]]

(* The engines hold or owe together what the token does, and each of them   *)
(* nothing of a token that is flat.                                         *)
SplitsUp(pe, t, shares) ==
  /\ shares = 0 => \A e \in Engines : pe[<<t, e>>] = 0
  /\ SumFunctionOnSet(Split(pe, t), Engines) = shares

SplitInv ==
  /\ \A t \in Token : SplitsUp(engine_pos_, t, token_positions_[t].shares)
  /\ \A t \in Token : SplitsUp(ledger_snapshot.pe, t, ledger_snapshot.p[t].shares)

(* A split of nothing.                                                      *)
LEMMA NothingSplitsUp ==
  ASSUME NEW pe, NEW t, \A e \in Engines : pe[<<t, e>>] = 0
  PROVE  SplitsUp(pe, t, 0)
  <1>1. IsFiniteSet(Engines)
        BY LedgerAssumption
  <1>2. \A e \in Engines : Split(pe, t)[e] = 0
        BY DEF Split
  <1>3. SumFunctionOnSet(Split(pe, t), Engines) = 0
        BY <1>1, <1>2, SumOfZeroes
  <1> QED BY <1>3 DEF SplitsUp

(* Only the shares of the token itself count.                               *)
LEMMA SplitKept ==
  ASSUME NEW pe, NEW qe, NEW t, NEW shares, SplitsUp(pe, t, shares),
         \A e \in Engines : qe[<<t, e>>] = pe[<<t, e>>]
  PROVE  SplitsUp(qe, t, shares)
  <1>1. Split(qe, t) = Split(pe, t)
        BY DEF Split
  <1> QED BY <1>1 DEF SplitsUp

(* The engine of a fill that does not close the token moves with it.        *)
LEMMA SplitMoves ==
  ASSUME NEW pe, NEW qe, NEW t, NEW shares \in Int, SplitsUp(pe, t, shares),
         NEW e \in Engines, NEW size \in Int,
         \A x \in Engines : pe[<<t, x>>] \in Int,
         \A x \in Engines : x # e => qe[<<t, x>>] = pe[<<t, x>>],
         qe[<<t, e>>] = pe[<<t, e>>] + size, shares + size # 0
  PROVE  SplitsUp(qe, t, shares + size)
  <1> DEFINE f == Split(pe, t)
             g == Split(qe, t)
  <1>1. IsFiniteSet(Engines)
        BY LedgerAssumption
  <1>2. /\ \A x \in Engines : f[x] \in Int /\ g[x] \in Int
        /\ \A x \in Engines : x # e => g[x] = f[x]
        /\ g[e] = f[e] + size /\ f[e] \in Int
        BY DEF Split
  <1>3. SumFunctionOnSet(f, Engines) = shares
        BY DEF SplitsUp
  <1> HIDE DEF f, g
  <1>5. SumFunctionOnSet(g, Engines) = SumFunctionOnSet(f, Engines) - f[e] + g[e]
        BY <1>1, <1>2, SumChanges
  <1>6. SumFunctionOnSet(g, Engines) = shares + size
        BY <1>2, <1>3, <1>5
  <1> QED BY <1>6 DEF SplitsUp, g

(* Any fill that carries an engine's label.                                 *)
LEMMA ExecuteKeepsSplit ==
  ASSUME IInv, SplitInv, NEW f \in Fill, f.engine \in Engines, Execute(f)
  PROVE  SplitInv'
  <1> DEFINE t == f.token
             e == f.engine
             pv == UpdatedPosition(token_positions_[t], f.size, f.price)
  <1>0. /\ t \in Token /\ f.size \in Int
        /\ token_positions_ \in [Token -> PositionView]
        /\ engine_pos_ \in [Token \X Engines -> Int]
        /\ token_positions_[t].shares \in Int
        BY DEF IInv, TypeOK, Fill, PositionView
  <1>1. ledger_snapshot' = ledger_snapshot
        BY DEF Execute
  <1>2. \A u \in Token : SplitsUp(ledger_snapshot'.pe, u, ledger_snapshot'.p[u].shares)
        BY <1>1 DEF SplitInv
  <1>3. CASE ~Accepted(f)
        <2>1. token_positions_' = token_positions_ /\ engine_pos_' = engine_pos_
              BY <1>3 DEF Execute, ApplyFill, ledger
        <2> QED BY <1>2, <2>1 DEF SplitInv
  <1>4. CASE Accepted(f)
        <2>1. /\ token_positions_' = [token_positions_ EXCEPT ![t] = pv]
              /\ engine_pos_' = UpdatedSplit(engine_pos_, t, e, f.size, pv.shares)
              /\ pv.shares = token_positions_[t].shares + f.size
              BY <1>4 DEF Execute, ApplyFill, UpdatePosition, UpdatedPosition
        <2>2. e # NoEngine
              BY LedgerAssumption
        <2>3. /\ token_positions_'[t].shares = pv.shares
              /\ \A u \in Token : u # t => token_positions_'[u].shares = token_positions_[u].shares
              BY <2>1, <1>0
        <2>4. ASSUME NEW u \in Token, u # t
              PROVE  SplitsUp(engine_pos_', u, token_positions_'[u].shares)
              <3>1. \A x \in Engines : engine_pos_'[<<u, x>>] = engine_pos_[<<u, x>>]
                    BY <1>0, <2>1, <2>2, <2>4 DEF UpdatedSplit
              <3>2. SplitsUp(engine_pos_, u, token_positions_[u].shares)
                    BY DEF SplitInv
              <3> QED BY <2>3, <2>4, <3>1, <3>2, SplitKept
        <2>5. SplitsUp(engine_pos_', t, token_positions_'[t].shares)
              <3>1. CASE pv.shares = 0
                    <4>1. \A x \in Engines : engine_pos_'[<<t, x>>] = 0
                          BY <1>0, <2>1, <2>2, <3>1 DEF UpdatedSplit
                    <4> QED BY <2>3, <3>1, <4>1, NothingSplitsUp
              <3>2. CASE pv.shares # 0
                    <4>1. engine_pos_' = [engine_pos_ EXCEPT ![<<t, e>>] = @ + f.size]
                          BY <2>1, <2>2, <3>2 DEF UpdatedSplit
                    <4>2. token_positions_[t].shares + f.size # 0
                          BY <2>1, <3>2
                    <4>3. /\ \A x \in Engines : engine_pos_[<<t, x>>] \in Int
                          /\ \A x \in Engines : x # e => engine_pos_'[<<t, x>>] = engine_pos_[<<t, x>>]
                          /\ engine_pos_'[<<t, e>>] = engine_pos_[<<t, e>>] + f.size
                          BY <1>0, <4>1
                    <4>4. SplitsUp(engine_pos_, t, token_positions_[t].shares)
                          BY <1>0 DEF SplitInv
                    <4>5. SplitsUp(engine_pos_', t, token_positions_[t].shares + f.size)
                          <5> DEFINE qe == engine_pos_'
                          <5> HIDE DEF qe, t, e
                          <5>1. /\ \A x \in Engines : x # e => qe[<<t, x>>] = engine_pos_[<<t, x>>]
                                /\ qe[<<t, e>>] = engine_pos_[<<t, e>>] + f.size
                                BY <4>3 DEF qe
                          <5>2. e \in Engines
                                BY DEF e
                          <5>3. SplitsUp(qe, t, token_positions_[t].shares + f.size)
                                BY <1>0, <4>2, <4>3, <4>4, <5>1, <5>2, SplitMoves
                          <5> QED BY <5>3 DEF qe
                    <4> QED BY <2>1, <2>3, <4>5
              <3> QED BY <3>1, <3>2
        <2>6. \A u \in Token : SplitsUp(engine_pos_', u, token_positions_'[u].shares)
              BY <2>4, <2>5
        <2> QED BY <1>2, <2>6 DEF SplitInv
  <1> QED BY <1>3, <1>4

(* The empty ledger splits nothing.                                         *)
LEMMA InitSplit == Init => SplitInv
  <1> SUFFICES ASSUME Init, NEW t \in Token
               PROVE  /\ SplitsUp(engine_pos_, t, token_positions_[t].shares)
                      /\ SplitsUp(ledger_snapshot.pe, t, ledger_snapshot.p[t].shares)
      BY DEF SplitInv
  <1>1. /\ token_positions_[t].shares = 0 /\ ledger_snapshot.p[t].shares = 0
        /\ \A e \in Engines : engine_pos_[<<t, e>>] = 0 /\ ledger_snapshot.pe[<<t, e>>] = 0
        BY DEF Init, EmptyLedger, NoSnapshot, NoPosition
  <1> QED BY <1>1, NothingSplitsUp
(* Every step keeps the split: a fill moves its engine with the token or    *)
(* closes both, a snapshot file has the split of its positions and a        *)
(* restart takes both from the same file.                                   *)
LEMMA NextSplit == IInv /\ SplitInv /\ [Next]_vars => SplitInv'
  <1> SUFFICES ASSUME IInv, SplitInv, [Next]_vars PROVE SplitInv'
      OBVIOUS
  <1>0. /\ token_positions_ \in [Token -> PositionView]
        /\ engine_pos_ \in [Token \X Engines -> Int]
        /\ \A t \in Token : Shares(t) \in Int
        /\ \A n \in PriceTicks : Ticks(n) \in Fraction
        BY LedgerAssumption DEF IInv, TypeOK, PositionView, Shares, Ticks, Fraction
  <1>1. ASSUME NEW t \in Token, NEW e \in Engines, NEW k \in Sizes, NEW n \in PriceTicks,
               NEW m \in Modes, NEW r \in {"Ok", "Missed"},
               Buy(t, e, k, n, m, r) \/ Sell(t, e, k, n, m, r)
        PROVE  SplitInv'
        <2>1. k \in Nat \ {0}
              BY LedgerAssumption
        <2>2. CASE Buy(t, e, k, n, m, r)
              <3> DEFINE f == Labelled(t, e, k, Ticks(n), m, r)
              <3>1. f \in Fill /\ f.token = t /\ f.engine = e /\ f.size = k
                    BY <1>0, <2>1 DEF Labelled, Fill
              <3>2. Execute(f)
                    BY <2>2 DEF Buy
              <3> HIDE DEF f
              <3> QED BY <3>1, <3>2, ExecuteKeepsSplit
        <2>3. CASE Sell(t, e, k, n, m, r)
              <3> DEFINE f == Labelled(t, e, -k, Ticks(n), m, r)
              <3>1. f \in Fill /\ f.token = t /\ f.engine = e /\ f.size = -k
                    BY <1>0, <2>1 DEF Labelled, Fill
              <3>2. Execute(f)
                    BY <2>3 DEF Sell
              <3> HIDE DEF f
              <3> QED BY <3>1, <3>2, ExecuteKeepsSplit
        <2> QED BY <1>1, <2>2, <2>3
  <1>2. ASSUME NEW t \in Token, NEW e \in Engines, NEW payout \in {Zero, Ticks(1)},
               Settle(t, e, payout)
        PROVE  SplitInv'
        <2> DEFINE f == Labelled(t, e, -Shares(t), payout, accepted_mode_tag, "Ok")
        <2>1. f \in Fill /\ f.token = t /\ f.engine = e /\ f.size = -Shares(t)
              BY <1>0, LedgerAssumption DEF Labelled, Fill, Zero, Ticks, Fraction
        <2>2. Execute(f)
              BY <1>2 DEF Settle
        <2> HIDE DEF f
        <2> QED BY <2>1, <2>2, ExecuteKeepsSplit
  <1>3. CASE SaveLedgerSnapshot
        <2>1. /\ token_positions_' = token_positions_ /\ engine_pos_' = engine_pos_
              /\ ledger_snapshot'.pe = engine_pos_
              /\ \A t \in Token : ledger_snapshot'.p[t].shares = token_positions_[t].shares
              BY <1>3 DEF SaveLedgerSnapshot, ledger, Shares, NoPosition
        <2> QED BY <2>1 DEF SplitInv
  <1>4. ASSUME NEW file \in {ledger_snapshot, NoSnapshot}, RestoreLedgerSnapshot(file)
        PROVE  SplitInv'
        <2>1. /\ ledger_snapshot' = ledger_snapshot /\ engine_pos_' = file.pe
              /\ \A t \in Token : token_positions_'[t].shares = 0 + file.p[t].shares
              BY <1>4 DEF RestoreLedgerSnapshot, UpdatedPosition, NoPosition
        <2>2. ASSUME NEW t \in Token
              PROVE  file.p[t].shares \in Int /\ SplitsUp(file.pe, t, file.p[t].shares)
              <3>1. CASE file = ledger_snapshot
                    BY <3>1 DEF IInv, TypeOK, PositionView, SplitInv
              <3>2. CASE file = NoSnapshot
                    <4>1. \A e \in Engines : NoSnapshot.pe[<<t, e>>] = 0
                          BY DEF NoSnapshot
                    <4>2. NoSnapshot.p[t].shares = 0
                          BY DEF NoSnapshot, NoPosition
                    <4> QED BY <3>2, <4>1, <4>2, NothingSplitsUp
              <3> QED BY <3>1, <3>2
        <2> QED BY <2>1, <2>2 DEF SplitInv
  <1>5. CASE UNCHANGED vars
        BY <1>5 DEF SplitInv, vars, ledger
  <1> QED BY <1>1, <1>2, <1>3, <1>4, <1>5 DEF Next

(* The engines' shares of a token, long or short, add up to the token and   *)
(* none is left of a token that is flat, for any number of engines and      *)
(* through every fill, oversale, close, save and restart                    *)
(* (update_position_locked_, RestoreLedgerSnapshot): what one engine sells  *)
(* is never another one's.                                                  *)
THEOREM SpecEngineSplitIsAggregate == Spec => []EngineSplitIsAggregate
  <1>1. SplitInv => EngineSplitIsAggregate
        BY DEF SplitInv, SplitsUp, Split, EngineSplitIsAggregate, Shares
  <1> QED BY <1>1, SpecIInv, InitSplit, NextSplit, PTL DEF Spec

-----------------------------------------------------------------------------
(* The entry price.                                                         *)

(* x <= y for fractions, without dividing.                                  *)
AtMost(x, y) == x.num * y.den <= y.num * x.den

(* a lies between two of the prices.                                        *)
Between(a, prices) ==
  /\ \E p \in prices : AtMost(p, a)
  /\ \E p \in prices : AtMost(a, p)

PriceInv ==
  /\ \A t \in Token : token_positions_[t].shares # 0 => Between(token_positions_[t].avg, paid[t])
  /\ \A t \in Token : ledger_snapshot.p[t].shares # 0
                         => Between(ledger_snapshot.p[t].avg, ledger_snapshot.paid[t])

(* A product grows with its factor.                                         *)
LEMMA ProductGrows ==
  ASSUME NEW c \in Nat, NEW x \in Nat, NEW y \in Nat, x <= y
  PROVE  c * x <= c * y
  <1>1. PICK d \in Nat : y = x + d
        <2>1. y - x \in Nat /\ y = x + (y - x)
              OBVIOUS
        <2> QED BY <2>1
  <1>2. c * y = c * x + c * d
        BY <1>1
  <1>3. c * d \in Nat /\ c * x \in Nat
        OBVIOUS
  <1> QED BY <1>2, <1>3

(* A positive factor may be cancelled.                                      *)
LEMMA ProductCancels ==
  ASSUME NEW c \in Nat \ {0}, NEW x \in Nat, NEW y \in Nat, c * x <= c * y
  PROVE  x <= y
  <1> SUFFICES ASSUME y + 1 <= x PROVE FALSE
      OBVIOUS
  <1>1. c * (y + 1) <= c * x
        BY ProductGrows
  <1>2. c * (y + 1) = c * y + c /\ c * y \in Nat /\ c * x \in Nat
        OBVIOUS
  <1> QED BY <1>1, <1>2

(* The order of fractions is transitive.                                    *)
LEMMA AtMostTransitive ==
  ASSUME NEW x \in Fraction, NEW y \in Fraction, NEW z \in Fraction, AtMost(x, y), AtMost(y, z)
  PROVE  AtMost(x, z)
  <1> DEFINE a == x.num  b == x.den  c == y.num  d == y.den  e == z.num  f == z.den
  <1>1. /\ a \in Nat /\ b \in Nat \ {0} /\ c \in Nat /\ d \in Nat \ {0}
        /\ e \in Nat /\ f \in Nat \ {0}
        BY DEF Fraction
  <1>2. a * d <= c * b /\ c * f <= e * d
        BY DEF AtMost
  <1> HIDE DEF a, b, c, d, e, f
  <1>3. f * (a * d) <= f * (c * b)
        <2>1. a * d \in Nat /\ c * b \in Nat BY <1>1
        <2> QED BY <1>1, <1>2, <2>1, ProductGrows
  <1>4. b * (c * f) <= b * (e * d)
        <2>1. c * f \in Nat /\ e * d \in Nat BY <1>1
        <2> QED BY <1>1, <1>2, <2>1, ProductGrows
  <1>5. /\ f * (a * d) = d * (a * f) /\ f * (c * b) = b * (c * f)
        /\ b * (e * d) = d * (e * b)
        BY <1>1
  <1>6. d * (a * f) <= d * (e * b)
        <2>1. d * (a * f) \in Nat /\ b * (c * f) \in Nat /\ d * (e * b) \in Nat
              BY <1>1
        <2> QED BY <1>3, <1>4, <1>5, <2>1
  <1>7. a * f <= e * b
        <2>1. a * f \in Nat /\ e * b \in Nat BY <1>1
        <2> QED BY <1>1, <1>6, <2>1, ProductCancels
  <1> QED BY <1>7 DEF AtMost, a, b, e, f

(* The mean of two fractions lies between them, whichever is the smaller.   *)
LEMMA MeanIsBetween ==
  ASSUME NEW s \in Nat \ {0}, NEW k \in Nat \ {0}, NEW a \in Fraction, NEW p \in Fraction
  PROVE  /\ AtMost(a, p) => AtMost(a, WeightedMean(s, a, k, p)) /\ AtMost(WeightedMean(s, a, k, p), p)
         /\ AtMost(p, a) => AtMost(p, WeightedMean(s, a, k, p)) /\ AtMost(WeightedMean(s, a, k, p), a)
  <1> DEFINE an == a.num  ad == a.den  pn == p.num  pd == p.den
             A == an * pd
             P == pn * ad
             num == s * a.num * p.den + k * p.num * a.den
             den == (s + k) * (a.den * p.den)
  <1>1. an \in Nat /\ ad \in Nat \ {0} /\ pn \in Nat /\ pd \in Nat \ {0}
        BY DEF Fraction
  <1>2. WeightedMean(s, a, k, p).num = num /\ WeightedMean(s, a, k, p).den = den
        BY DEF WeightedMean
  <1>3. /\ an * den = ad * (s * A + k * A)
        /\ num * ad = ad * (s * A + k * P)
        /\ pn * den = pd * (s * P + k * P)
        /\ num * pd = pd * (s * A + k * P)
        BY <1>1
  <1>4. A \in Nat /\ P \in Nat
        BY <1>1
  <1>5. s * A \in Nat /\ k * A \in Nat /\ s * P \in Nat /\ k * P \in Nat
        BY <1>4
  <1>6. AtMost(a, p) <=> A <= P
        BY DEF AtMost
  <1>7. AtMost(p, a) <=> P <= A
        BY DEF AtMost
  <1> HIDE DEF an, ad, pn, pd, A, P, num, den
  <1>8. ASSUME A <= P
        PROVE  /\ ad * (s * A + k * A) <= ad * (s * A + k * P)
               /\ pd * (s * A + k * P) <= pd * (s * P + k * P)
        <2>1. s * A <= s * P /\ k * A <= k * P
              BY <1>4, <1>8, ProductGrows
        <2>2. /\ s * A + k * A \in Nat /\ s * A + k * P \in Nat /\ s * P + k * P \in Nat
              /\ s * A + k * A <= s * A + k * P /\ s * A + k * P <= s * P + k * P
              BY <2>1, <1>5
        <2> QED BY <1>1, <2>2, ProductGrows
  <1>9. ASSUME P <= A
        PROVE  /\ ad * (s * A + k * P) <= ad * (s * A + k * A)
               /\ pd * (s * P + k * P) <= pd * (s * A + k * P)
        <2>1. s * P <= s * A /\ k * P <= k * A
              BY <1>4, <1>9, ProductGrows
        <2>2. /\ s * A + k * A \in Nat /\ s * A + k * P \in Nat /\ s * P + k * P \in Nat
              /\ s * A + k * P <= s * A + k * A /\ s * P + k * P <= s * A + k * P
              BY <2>1, <1>5
        <2> QED BY <1>1, <2>2, ProductGrows
  <1>10. ASSUME AtMost(a, p)
         PROVE  AtMost(a, WeightedMean(s, a, k, p)) /\ AtMost(WeightedMean(s, a, k, p), p)
        <2>1. an * den <= num * ad /\ num * pd <= pn * den
              BY <1>3, <1>6, <1>8, <1>10
        <2> QED BY <1>2, <2>1 DEF AtMost, an, ad, pn, pd
  <1>11. ASSUME AtMost(p, a)
         PROVE  AtMost(p, WeightedMean(s, a, k, p)) /\ AtMost(WeightedMean(s, a, k, p), a)
        <2>1. num * ad <= an * den /\ pn * den <= num * pd
              BY <1>3, <1>7, <1>9, <1>11
        <2> QED BY <1>2, <2>1 DEF AtMost, an, ad, pn, pd
  <1> QED BY <1>10, <1>11

(* A purchase at p moves a price that lay between those paid to one that    *)
(* lies between those paid and p.                                           *)
LEMMA MeanStaysBetween ==
  ASSUME NEW s \in Nat \ {0}, NEW k \in Nat \ {0}, NEW a \in Fraction, NEW p \in Fraction,
         a.num > 0, NEW prices \in SUBSET Fraction, Between(a, prices)
  PROVE  Between(WeightedMean(s, a, k, p), prices \cup {p})
  <1> DEFINE m == WeightedMean(s, a, k, p)
  <1>1. m \in Fraction
        BY WeightedMeanIsFraction
  <1>2. PICK lo \in prices : AtMost(lo, a)
        BY DEF Between
  <1>3. PICK hi \in prices : AtMost(a, hi)
        BY DEF Between
  <1>4. AtMost(a, p) \/ AtMost(p, a)
        <2>1. a.num * p.den \in Nat /\ p.num * a.den \in Nat
              BY DEF Fraction
        <2> QED BY <2>1 DEF AtMost
  <1>5. CASE AtMost(a, p)
        <2>1. AtMost(a, m) /\ AtMost(m, p)
              BY <1>5, MeanIsBetween
        <2> HIDE DEF m
        <2>2. AtMost(lo, m)
              BY <1>1, <1>2, <2>1, AtMostTransitive
        <2> QED BY <2>1, <2>2 DEF Between, m
  <1>6. CASE AtMost(p, a)
        <2>1. AtMost(p, m) /\ AtMost(m, a)
              BY <1>6, MeanIsBetween
        <2> HIDE DEF m
        <2>2. AtMost(m, hi)
              BY <1>1, <1>3, <2>1, AtMostTransitive
        <2> QED BY <2>1, <2>2 DEF Between, m
  <1> QED BY <1>4, <1>5, <1>6
(* A fill prices what it leaves between the prices paid.                    *)
LEMMA ExecuteKeepsPrices ==
  ASSUME IInv, PriceInv, NEW f \in Fill, Execute(f),
         Proper(token_positions_[f.token], f.size, f.price),
         f.size > 0 \/ Shares(f.token) # 0
  PROVE  PriceInv'
  <1> DEFINE t == f.token
             old == token_positions_[t]
             pv == UpdatedPosition(old, f.size, f.price)
  <1>0. /\ t \in Token /\ f.size \in Int /\ f.price \in Fraction
        /\ token_positions_ \in [Token -> PositionView] /\ Sound(old)
        /\ old \in PositionView /\ old.shares \in Int /\ old.avg \in Fraction
        /\ paid \in [Token -> SUBSET Fraction]
        BY DEF IInv, TypeOK, Fill, PositionView
  <1>1. /\ ledger_snapshot' = ledger_snapshot
        /\ paid' = [paid EXCEPT ![t] = Paid(t, f.price)]
        BY DEF Execute
  <1>2. \A u \in Token : ledger_snapshot'.p[u].shares # 0
                          => Between(ledger_snapshot'.p[u].avg, ledger_snapshot'.paid[u])
        BY <1>1 DEF PriceInv
  <1>3. \A u \in Token : u # t => paid'[u] = paid[u]
        BY <1>0, <1>1
  <1>4. paid'[t] = IF token_positions_'[t].shares = 0 THEN {}
                   ELSE IF token_positions_'[t].shares > old.shares THEN paid[t] \cup {f.price}
                   ELSE paid[t]
        BY <1>0, <1>1 DEF Paid, Shares
  <1>5. CASE ~Accepted(f)
        <2>1. token_positions_' = token_positions_
              BY <1>5 DEF Execute, ApplyFill, ledger
        <2>2. old.shares # 0 => paid'[t] = paid[t]
              BY <1>0, <1>4, <2>1
        <2> QED BY <1>2, <1>3, <2>1, <2>2 DEF PriceInv
  <1>6. CASE Accepted(f)
        <2>1. /\ token_positions_' = [token_positions_ EXCEPT ![t] = pv]
              /\ pv.shares = old.shares + f.size /\ pv.avg = EntryPrice(old, f.size, f.price)
              /\ f.size # 0
              BY <1>6 DEF Execute, ApplyFill, UpdatePosition, UpdatedPosition, Accepted
        <2>2. /\ token_positions_'[t] = pv
              /\ \A u \in Token : u # t => token_positions_'[u] = token_positions_[u]
              BY <2>1, <1>0
        <2>3. ASSUME NEW u \in Token, u # t, token_positions_'[u].shares # 0
              PROVE  Between(token_positions_'[u].avg, paid'[u])
              BY <1>3, <2>2, <2>3 DEF PriceInv
        <2>4. ASSUME pv.shares # 0
              PROVE  Between(pv.avg, paid'[t])
              <3>1. CASE f.size > 0
                    <4>1. paid'[t] = paid[t] \cup {f.price}
                          BY <1>0, <1>4, <2>1, <2>2, <2>4, <3>1
                    <4>2. CASE ~old.listed \/ old.shares = 0
                          <5>1. pv.avg = f.price
                                BY <1>0, <2>1, <2>4, <3>1, <4>2 DEF EntryPrice, Proper
                          <5>2. AtMost(f.price, f.price)
                                BY <1>0 DEF AtMost, Fraction
                          <5> QED BY <4>1, <5>1, <5>2 DEF Between
                    <4>3. CASE old.listed /\ old.shares > 0
                          <5>1. old.shares \in Nat \ {0} /\ f.size \in Nat \ {0} /\ old.avg.num > 0
                                BY <1>0, <3>1, <4>3 DEF Sound
                          <5>2. pv.avg = WeightedMean(old.shares, old.avg, f.size, f.price)
                                BY <2>1, <2>4, <3>1, <4>3, <5>1 DEF EntryPrice, Proper
                          <5>3. Between(old.avg, paid[t]) /\ paid[t] \in SUBSET Fraction
                                BY <1>0, <5>1 DEF PriceInv
                          <5> HIDE DEF old, pv, t
                          <5> QED BY <1>0, <4>1, <5>1, <5>2, <5>3, MeanStaysBetween
                    <4>4. CASE old.listed /\ old.shares < 0
                          <5>1. pv.avg = old.avg
                                BY <1>0, <2>1, <2>4, <3>1, <4>4 DEF EntryPrice
                          <5>2. Between(old.avg, paid[t])
                                BY <1>0, <4>4 DEF PriceInv
                          <5> QED BY <4>1, <5>1, <5>2 DEF Between
                    <4> QED BY <1>0, <4>2, <4>3, <4>4
              <3>2. CASE ~(f.size > 0) /\ old.listed
                    <4>1. old.shares # 0
                          BY <1>0, <2>1, <2>4, <3>2 DEF Proper
                    <4>2. pv.avg = old.avg /\ paid'[t] = paid[t]
                          BY <1>0, <1>4, <2>1, <2>2, <2>4, <3>2, <4>1 DEF EntryPrice
                    <4> QED BY <1>0, <4>1, <4>2 DEF PriceInv
              <3>3. old.listed \/ f.size > 0
                    BY <1>0 DEF Shares, Sound
              <3> QED BY <3>1, <3>2, <3>3
        <2>5. \A u \in Token : token_positions_'[u].shares # 0
                                => Between(token_positions_'[u].avg, paid'[u])
              BY <2>2, <2>3, <2>4
        <2> QED BY <1>2, <2>5 DEF PriceInv
  <1> QED BY <1>5, <1>6

(* Nothing is held.                                                         *)
LEMMA InitPrices == Init => PriceInv
  BY DEF Init, EmptyLedger, NoSnapshot, NoPosition, PriceInv

(* Every step keeps entry prices between the prices paid: a snapshot takes  *)
(* the price with the position, and the fill a restart restores it by is a  *)
(* purchase at that price.                                                  *)
LEMMA NextPrices == IInv /\ PriceInv /\ [Next]_vars => PriceInv'
  <1> SUFFICES ASSUME IInv, PriceInv, [Next]_vars PROVE PriceInv'
      OBVIOUS
  <1>0. /\ \A t \in Token : Shares(t) \in Int
        /\ \A n \in PriceTicks : Ticks(n) \in Fraction /\ Ticks(n).num > 0
        /\ Sizes \subseteq Nat \ {0}
        BY LedgerAssumption DEF IInv, TypeOK, Sound, PositionView, Shares, Ticks, Fraction
  <1>1. ASSUME NEW t \in Token, NEW e \in Engines, NEW k \in Sizes, NEW n \in PriceTicks,
               NEW m \in Modes, NEW r \in {"Ok", "Missed"}, Buy(t, e, k, n, m, r)
        PROVE  PriceInv'
        <2> DEFINE f == Labelled(t, e, k, Ticks(n), m, r)
        <2>1. f \in Fill /\ f.token = t /\ f.size = k /\ f.price = Ticks(n)
              BY <1>0 DEF Labelled, Fill
        <2>2. Execute(f) /\ f.size > 0 /\ Proper(token_positions_[t], f.size, f.price)
              BY <1>0, <1>1, <2>1 DEF Buy, Proper
        <2> HIDE DEF f
        <2> QED BY <2>1, <2>2, ExecuteKeepsPrices
  <1>2. ASSUME NEW t \in Token, NEW e \in Engines, NEW k \in Sizes, NEW n \in PriceTicks,
               NEW m \in Modes, NEW r \in {"Ok", "Missed"}, Sell(t, e, k, n, m, r)
        PROVE  PriceInv'
        <2> DEFINE f == Labelled(t, e, -k, Ticks(n), m, r)
        <2>1. f \in Fill /\ f.token = t /\ f.size = -k
              BY <1>0 DEF Labelled, Fill
        <2>2. Execute(f) /\ Shares(t) # 0
              BY <1>2, SellNeedsShares DEF Sell
        <2>3. Proper(token_positions_[t], f.size, f.price)
              BY <1>0, <2>1, <2>2 DEF Proper, Shares
        <2> HIDE DEF f
        <2> QED BY <2>1, <2>2, <2>3, ExecuteKeepsPrices
  <1>3. ASSUME NEW t \in Token, NEW e \in Engines, NEW payout \in {Zero, Ticks(1)},
               Settle(t, e, payout)
        PROVE  PriceInv'
        <2> DEFINE f == Labelled(t, e, -Shares(t), payout, accepted_mode_tag, "Ok")
        <2>1. f \in Fill /\ f.token = t /\ f.size = -Shares(t)
              BY <1>0, LedgerAssumption DEF Labelled, Fill, Zero, Ticks, Fraction
        <2>2. Execute(f) /\ Shares(t) # 0
              BY <1>3 DEF Settle
        <2>3. Proper(token_positions_[t], f.size, f.price)
              BY <1>0, <2>1, <2>2 DEF Proper, Shares
        <2> HIDE DEF f
        <2> QED BY <2>1, <2>2, <2>3, ExecuteKeepsPrices
  <1>4. CASE SaveLedgerSnapshot
        <2>1. /\ token_positions_' = token_positions_ /\ paid' = paid
              /\ ledger_snapshot'.paid = paid
              /\ \A t \in Token : ledger_snapshot'.p[t].shares # 0 =>
                    /\ token_positions_[t].shares # 0
                    /\ ledger_snapshot'.p[t].avg = token_positions_[t].avg
              BY <1>4 DEF SaveLedgerSnapshot, ledger, Shares, NoPosition
        <2> QED BY <2>1 DEF PriceInv
  <1>5. ASSUME NEW file \in {ledger_snapshot, NoSnapshot}, RestoreLedgerSnapshot(file)
        PROVE  PriceInv'
        <2>1. ledger_snapshot' = ledger_snapshot /\ paid' = file.paid
              BY <1>5 DEF RestoreLedgerSnapshot
        <2>2. ASSUME NEW t \in Token, token_positions_'[t].shares # 0
              PROVE  /\ file.p[t].shares # 0
                     /\ token_positions_'[t].avg = file.p[t].avg
              <3>1. file.p[t] \in PositionView /\ Sound(file.p[t])
                    <4>1. NoPosition \in PositionView /\ Sound(NoPosition)
                          BY DEF NoPosition, PositionView, Sound, Zero, Fraction
                    <4> QED BY <4>1 DEF IInv, TypeOK, NoSnapshot
              <3>2. token_positions_'[t] =
                      IF file.p[t].shares # 0
                      THEN UpdatedPosition(NoPosition, file.p[t].shares, file.p[t].avg)
                      ELSE NoPosition
                    BY <1>5 DEF RestoreLedgerSnapshot
              <3>3. file.p[t].shares # 0 /\ file.p[t].shares \in Int
                    BY <2>2, <3>1, <3>2 DEF NoPosition, PositionView
              <3>4. file.p[t].avg.num > 0
                    BY <3>1, <3>3 DEF Sound
              <3> QED BY <3>2, <3>3, <3>4 DEF UpdatedPosition, EntryPrice, NoPosition
        <2>3. ASSUME NEW t \in Token, file.p[t].shares # 0
              PROVE  Between(file.p[t].avg, file.paid[t])
              BY <2>3 DEF PriceInv, NoSnapshot, NoPosition
        <2> QED BY <2>1, <2>2, <2>3 DEF PriceInv
  <1>6. CASE UNCHANGED vars
        BY <1>6 DEF PriceInv, vars, ledger
  <1> QED BY <1>1, <1>2, <1>3, <1>4, <1>5, <1>6 DEF Next

(* The entry price of what is held lies between the cheapest and the        *)
(* dearest price paid for it, for fractions of any size and through every   *)
(* purchase, sale, settlement, save and restart (the weighted mean of       *)
(* update_position_locked_ and the P lines of the snapshot).                *)
THEOREM SpecAvgWithinPaid == Spec => []AvgWithinPaid
  <1>1. PriceInv => AvgWithinPaid
        BY DEF PriceInv, Between, AtMost, AvgWithinPaid, Shares
  <1> QED BY <1>1, SpecIInv, InitPrices, NextPrices, PTL DEF Spec
-----------------------------------------------------------------------------
(* The money of the loop.                                                   *)

(* What shares cost has their sign.                                         *)
Holding ==
  {h \in [qty : Int, cost : Int] : (h.qty >= 0 => h.cost >= 0) /\ (h.qty <= 0 => h.cost <= 0)}
PaidFor(o) == CASE o = "won" -> Dollar [] o = "void" -> Dollar \div 2 [] OTHER -> 0
Locked(p) == SumFunctionOnSet([t \in AccountTokens |-> p[t].cost], AccountTokens)
Due(p, c, o, t) == (c[t].qty - p[t].qty) * PaidFor(o[t])
OwedFor(p, c, o) == SumFunctionOnSet([t \in AccountTokens |-> Due(p, c, o, t)], AccountTokens)
(* The books with longs and shorts counted alike: the cash and the cost of  *)
(* what is owed.                                                            *)
CashOf(bank, p, r, f) == bank - Locked(p) + r - f
ShortOf(p) ==
  SumFunctionOnSet([t \in AccountTokens |-> IF p[t].qty < 0 THEN -p[t].cost ELSE 0], AccountTokens)

(* A snapshot of a loop on paper accounts for its cash to the tick.         *)
SavedWell(s) ==
  /\ s.pos \in [AccountTokens -> Holding] /\ s.chain \in [AccountTokens -> Holding]
  /\ s.realized \in Int /\ s.fee \in Int /\ s.wallet \in Int /\ s.unseen \in Int
  /\ mode = "paper" => /\ s.chain = s.pos
                       /\ CashOf(Deposit, s.pos, s.realized, s.fee) = s.wallet + s.unseen

(* While a token is open the books hold what the chain holds, so all that   *)
(* the exchange owes comes from decided ones; the chain is never short.     *)
BooksInv ==
  /\ mode \in {"paper", "live"} /\ accountAlive \in BOOLEAN
  /\ accountTicking \in BOOLEAN /\ (accountTicking => accountAlive)
  /\ pos \in [AccountTokens -> Holding] /\ chain \in [AccountTokens -> Holding]
  /\ bankroll \in Int /\ realized \in Int /\ fee \in Int /\ wallet \in Int /\ unseen \in Int
  /\ outcome \in [AccountTokens -> {"open", "won", "lost", "void"}]
  /\ mode = "paper" => bankroll = Deposit
  /\ mode = "live" => \A t \in AccountTokens : chain[t].qty >= 0
  /\ SavedWell(accountSnapshot)
  /\ accountAlive /\ mode = "paper" =>
       chain = pos /\ CashOf(bankroll, pos, realized, fee) = wallet + unseen
  /\ accountAlive /\ mode = "live" =>
       /\ \A t \in AccountTokens : outcome[t] = "open" => chain[t].qty = pos[t].qty
       /\ CashOf(bankroll, pos, realized, fee) <= wallet + OwedFor(pos, chain, outcome) + unseen

(* The assumptions on the constants, in the operators of this module.       *)
LEMMA AccountFinite ==
  ASSUME AC!AccountAssumption
  PROVE  IsFiniteSet(AccountTokens) /\ Dollar \in Nat \ {0} /\ Fee \in Nat /\ Deposit \in Nat
         /\ AccountPrices \subseteq Nat /\ Decisions \subseteq {"won", "lost", "void"}
  <1>1. \A S : AC!IsFiniteSet(S) => IsFiniteSet(S)
        BY DEF AC!IsFiniteSet, IsFiniteSet
  <1> QED BY <1>1 DEF AC!AccountAssumption

(* What is known of a holding.                                              *)
LEMMA HoldingIs ==
  ASSUME NEW x \in Holding
  PROVE  /\ x.qty \in Int /\ x.cost \in Int
         /\ x.qty >= 0 => x.cost >= 0
         /\ x.qty <= 0 => x.cost <= 0
  <1>1. x \in [qty : Int, cost : Int]
        BY DEF Holding
  <1>2. (x.qty >= 0 => x.cost >= 0) /\ (x.qty <= 0 => x.cost <= 0)
        BY DEF Holding
  <1> QED BY <1>1, <1>2

(* An open token pays nothing.                                              *)
LEMMA PaidForIs ==
  ASSUME AC!AccountAssumption, NEW o
  PROVE  PaidFor(o) \in Nat /\ (o = "open" => PaidFor(o) = 0)
  BY AccountFinite DEF PaidFor

(* The sum the specification writes is the sum of these lemmas.             *)
LEMMA AccountSum ==
  ASSUME NEW f, NEW S
  PROVE  AC!SumFunctionOnSet(f, S) = SumFunctionOnSet(f, S)
  BY DEF SumFunctionOnSet, FoldFunctionOnSet, MapThenFoldSet,
         AC!SumFunctionOnSet, AC!FoldFunctionOnSet, AC!MapThenFoldSet

(* The cash the specification computes is CashOf of the variables, less     *)
(* what shorts cost; without one, it is CashOf.                             *)
LEMMA CashIs ==
  ASSUME AC!AccountAssumption, pos \in [AccountTokens -> Holding],
         bankroll \in Int, realized \in Int, fee \in Int
  PROVE  /\ AC!CashAvailable = CashOf(bankroll, pos, realized, fee) - ShortOf(pos)
         /\ AC!CashAvailable \in Int /\ CashOf(bankroll, pos, realized, fee) \in Int
         /\ AC!ShortCost = ShortOf(pos) /\ ShortOf(pos) \in Nat
         /\ (\A t \in AccountTokens : pos[t].qty >= 0) => ShortOf(pos) = 0
         /\ AC!Owed = OwedFor(pos, chain, outcome)
  <1> DEFINE f == [t \in AccountTokens |-> pos[t].cost]
             g == [t \in AccountTokens |-> IF pos[t].qty < 0 THEN -pos[t].cost ELSE 0]
             h == [t \in AccountTokens |-> IF pos[t].qty > 0 THEN pos[t].cost ELSE 0]
  <1>1. \A t : AC!Payoff(t) = PaidFor(outcome[t])
        BY DEF AC!Payoff, PaidFor
  <1>2. /\ IsFiniteSet(AccountTokens)
        /\ \A t \in AccountTokens : f[t] \in Int /\ g[t] \in Nat /\ h[t] = f[t] + g[t]
        <2>1. ASSUME NEW t \in AccountTokens
              PROVE  f[t] \in Int /\ g[t] \in Nat /\ h[t] = f[t] + g[t]
              <3>1. /\ pos[t].qty \in Int /\ pos[t].cost \in Int
                    /\ pos[t].qty >= 0 => pos[t].cost >= 0
                    /\ pos[t].qty <= 0 => pos[t].cost <= 0
                    BY HoldingIs
              <3> QED BY <3>1
        <2> QED BY <2>1, AccountFinite
  <1>3. (\A t \in AccountTokens : pos[t].qty >= 0) => \A t \in AccountTokens : g[t] = 0
        BY DEF Holding
  <1>4. /\ AC!LockedCost = SumFunctionOnSet(h, AccountTokens)
        /\ AC!ShortCost = SumFunctionOnSet(g, AccountTokens)
        /\ Locked(pos) = SumFunctionOnSet(f, AccountTokens)
        /\ ShortOf(pos) = SumFunctionOnSet(g, AccountTokens)
        BY AccountSum DEF AC!LockedCost, AC!ShortCost, Locked, ShortOf
  <1> HIDE DEF f, g, h
  <1>5. /\ SumFunctionOnSet(h, AccountTokens)
             = SumFunctionOnSet(f, AccountTokens) + SumFunctionOnSet(g, AccountTokens)
        /\ SumFunctionOnSet(f, AccountTokens) \in Int
        BY <1>2, SumAdds, SumType
  <1>6. SumFunctionOnSet(g, AccountTokens) \in Nat
        BY <1>2, SumOfNaturals
  <1>7. (\A t \in AccountTokens : pos[t].qty >= 0) => SumFunctionOnSet(g, AccountTokens) = 0
        BY <1>2, <1>3, SumOfZeroes
  <1>8. AC!Owed = OwedFor(pos, chain, outcome)
        BY <1>1, AccountSum DEF AC!Owed, OwedFor, Due
  <1> QED BY <1>4, <1>5, <1>6, <1>7, <1>8 DEF AC!CashAvailable, CashOf

(* The sums are integers.                                                   *)
LEMMA LockedIsInt ==
  ASSUME AC!AccountAssumption, NEW p \in [AccountTokens -> Holding]
  PROVE  Locked(p) \in Int
  <1> DEFINE f == [t \in AccountTokens |-> p[t].cost]
  <1>1. IsFiniteSet(AccountTokens) /\ \A t \in AccountTokens : f[t] \in Int
        BY AccountFinite DEF Holding
  <1> HIDE DEF f
  <1>2. SumFunctionOnSet(f, AccountTokens) \in Int
        BY <1>1, SumType
  <1> QED BY <1>2 DEF Locked, f

(* One position changes its cost.                                           *)
LEMMA LockedMoves ==
  ASSUME AC!AccountAssumption, NEW p \in [AccountTokens -> Holding], NEW q \in [AccountTokens -> Holding],
         NEW t \in AccountTokens, \A u \in AccountTokens : u # t => q[u].cost = p[u].cost
  PROVE  Locked(q) = Locked(p) - p[t].cost + q[t].cost
  <1> DEFINE f == [u \in AccountTokens |-> p[u].cost]
             g == [u \in AccountTokens |-> q[u].cost]
  <1>1. /\ IsFiniteSet(AccountTokens) /\ \A u \in AccountTokens : f[u] \in Int /\ g[u] \in Int
        /\ \A u \in AccountTokens : u # t => g[u] = f[u]
        /\ f[t] = p[t].cost /\ g[t] = q[t].cost
        BY AccountFinite DEF Holding
  <1> HIDE DEF f, g
  <1>2. SumFunctionOnSet(g, AccountTokens) = SumFunctionOnSet(f, AccountTokens) - f[t] + g[t]
        BY <1>1, SumChanges
  <1> QED BY <1>1, <1>2 DEF Locked, f, g

(* What is owed is a number.                                               *)
LEMMA OwedIsInt ==
  ASSUME AC!AccountAssumption, NEW p \in [AccountTokens -> Holding], NEW c \in [AccountTokens -> Holding], NEW o
  PROVE  OwedFor(p, c, o) \in Int /\ \A t \in AccountTokens : Due(p, c, o, t) \in Int
  <1> DEFINE f == [t \in AccountTokens |-> Due(p, c, o, t)]
  <1>1. ASSUME NEW t \in AccountTokens PROVE Due(p, c, o, t) \in Int
        <2>1. c[t].qty \in Int /\ p[t].qty \in Int /\ PaidFor(o[t]) \in Int
              BY PaidForIs DEF Holding
        <2> QED BY <2>1 DEF Due
  <1>2. IsFiniteSet(AccountTokens) /\ \A t \in AccountTokens : f[t] \in Int
        BY <1>1, AccountFinite
  <1> HIDE DEF f
  <1>3. SumFunctionOnSet(f, AccountTokens) \in Int
        BY <1>1, <1>2, SumType
  <1> QED BY <1>1, <1>3 DEF OwedFor, f

(* Nothing changes in what is due for a token, nor in what is owed.         *)
LEMMA OwedSame ==
  ASSUME AC!AccountAssumption, NEW p, NEW c, NEW o, NEW q, NEW d, NEW v,
         \A t \in AccountTokens : Due(q, d, v, t) = Due(p, c, o, t)
  PROVE  OwedFor(q, d, v) = OwedFor(p, c, o)
  BY AccountFinite DEF OwedFor

(* What is due for one token changes.                                       *)
LEMMA OwedMoves ==
  ASSUME AC!AccountAssumption, NEW p \in [AccountTokens -> Holding], NEW c \in [AccountTokens -> Holding], NEW o,
         NEW q \in [AccountTokens -> Holding], NEW d \in [AccountTokens -> Holding], NEW v, NEW t \in AccountTokens,
         \A u \in AccountTokens : u # t => Due(q, d, v, u) = Due(p, c, o, u)
  PROVE  OwedFor(q, d, v) = OwedFor(p, c, o) - Due(p, c, o, t) + Due(q, d, v, t)
  <1> DEFINE f == [u \in AccountTokens |-> Due(p, c, o, u)]
             g == [u \in AccountTokens |-> Due(q, d, v, u)]
  <1>1. /\ IsFiniteSet(AccountTokens) /\ \A u \in AccountTokens : f[u] \in Int /\ g[u] \in Int
        /\ \A u \in AccountTokens : u # t => g[u] = f[u]
        /\ f[t] = Due(p, c, o, t) /\ g[t] = Due(q, d, v, t)
        BY AccountFinite, OwedIsInt
  <1> HIDE DEF f, g
  <1>2. SumFunctionOnSet(g, AccountTokens) = SumFunctionOnSet(f, AccountTokens) - f[t] + g[t]
        BY <1>1, SumChanges
  <1> QED BY <1>1, <1>2 DEF OwedFor, f, g

(* Nothing is held and nothing is owed.                                     *)
LEMMA BooksInit == AC!AccountAssumption /\ AC!Init => BooksInv
  <1> SUFFICES ASSUME AC!AccountAssumption, AC!Init PROVE BooksInv
      OBVIOUS
  <1>1. /\ AC!Flat \in [AccountTokens -> Holding] /\ Deposit \in Int
        /\ \A t \in AccountTokens : AC!Flat[t].qty = 0 /\ AC!Flat[t].cost = 0
        BY AccountFinite DEF AC!Flat, Holding
  <1>2. Locked(AC!Flat) = 0
        BY <1>1, AccountFinite, SumOfZeroes DEF Locked
  <1>3. OwedFor(AC!Flat, AC!Flat, outcome) = 0
        <2>1. \A t \in AccountTokens : Due(AC!Flat, AC!Flat, outcome, t) = 0
              BY <1>1, PaidForIs DEF Due
        <2> QED BY <2>1, AccountFinite, SumOfZeroes DEF OwedFor
  <1>4. SavedWell(accountSnapshot)
        BY <1>1, <1>2 DEF AC!Init, AC!NoSnapshot, SavedWell, CashOf
  <1>5. CashOf(bankroll, pos, realized, fee) = wallet + unseen
        BY <1>1, <1>2 DEF AC!Init, CashOf
  <1>6. /\ mode \in {"paper", "live"} /\ accountAlive = TRUE /\ accountTicking = FALSE
        /\ bankroll = Deposit /\ pos = AC!Flat /\ chain = AC!Flat /\ realized = 0 /\ fee = 0
        /\ wallet = Deposit /\ unseen = 0 /\ \A t \in AccountTokens : outcome[t] = "open"
        /\ outcome \in [AccountTokens -> {"open", "won", "lost", "void"}]
        BY DEF AC!Init
  <1>7. /\ CashOf(bankroll, pos, realized, fee) <= wallet + OwedFor(pos, chain, outcome) + unseen
        /\ \A t \in AccountTokens : chain[t].qty >= 0
        BY <1>1, <1>3, <1>5, <1>6
  <1>8. /\ pos \in [AccountTokens -> Holding] /\ chain \in [AccountTokens -> Holding]
        /\ bankroll \in Int /\ realized \in Int /\ fee \in Int /\ wallet \in Int /\ unseen \in Int
        BY <1>1, <1>6
  <1>9. chain = pos /\ accountAlive \in BOOLEAN /\ accountTicking \in BOOLEAN
        /\ (accountTicking => accountAlive)
        BY <1>6
  <1> QED BY <1>4, <1>5, <1>6, <1>7, <1>8, <1>9 DEF BooksInv

(* Marks and peaks move nothing; a tick may save what is on the books.      *)
LEMMA BooksStand ==
  ASSUME BooksInv, accountTicking' \in BOOLEAN, accountTicking' => accountAlive,
         UNCHANGED <<mode, accountAlive, bankroll, pos, realized, fee, wallet, chain, outcome,
                     unseen>>,
         \/ accountSnapshot' = accountSnapshot
         \/ accountAlive /\ accountSnapshot' = AC!SaveLedgerSnapshot
  PROVE  BooksInv'
  <1>1. SavedWell(accountSnapshot)'
        <2>1. CASE accountSnapshot' = accountSnapshot
              BY <2>1 DEF BooksInv, SavedWell
        <2>2. CASE accountAlive /\ accountSnapshot' = AC!SaveLedgerSnapshot
              BY <2>2 DEF BooksInv, SavedWell, AC!SaveLedgerSnapshot
        <2> QED BY <2>1, <2>2
  <1> QED BY <1>1 DEF BooksInv

(* A token is decided: until now the books and the chain held the same.     *)
LEMMA DecidedKeeps ==
  ASSUME AC!AccountAssumption, BooksInv, NEW t \in AccountTokens, NEW o \in {"won", "lost", "void"},
         AC!Resolve(t, o)
  PROVE  BooksInv'
  <1>1. /\ outcome[t] = "open" /\ outcome' = [outcome EXCEPT ![t] = o]
        /\ UNCHANGED <<mode, accountAlive, accountTicking, bankroll, pos, realized, fee, wallet,
                       chain, unseen, accountSnapshot>>
        BY DEF AC!Resolve, AC!Decided, AC!tick, AC!ledger
  <1>2. /\ outcome' \in [AccountTokens -> {"open", "won", "lost", "void"}] /\ outcome'[t] = o
        /\ \A u \in AccountTokens : u # t => outcome'[u] = outcome[u]
        /\ pos \in [AccountTokens -> Holding] /\ chain \in [AccountTokens -> Holding]
        BY <1>1 DEF BooksInv
  <1>3. ASSUME accountAlive, mode = "live"
        PROVE  OwedFor(pos, chain, outcome') = OwedFor(pos, chain, outcome)
        <2>1. chain[t].qty = pos[t].qty /\ chain[t].qty \in Int
              BY <1>1, <1>2, <1>3 DEF BooksInv, Holding
        <2>2. Due(pos, chain, outcome', t) = 0 /\ Due(pos, chain, outcome, t) = 0
              BY <2>1, PaidForIs DEF Due
        <2>3. \A u \in AccountTokens : Due(pos, chain, outcome', u) = Due(pos, chain, outcome, u)
              <3>1. \A u \in AccountTokens : u # t => Due(pos, chain, outcome', u) = Due(pos, chain, outcome, u)
                    BY <1>2 DEF Due
              <3> QED BY <2>2, <3>1
        <2> QED BY <2>3, OwedSame
  <1>4. SavedWell(accountSnapshot)'
        BY <1>1 DEF BooksInv, SavedWell
  <1> QED BY <1>1, <1>2, <1>3, <1>4 DEF BooksInv

(* The cash goes from x to y as the wallet goes from a to b and what is not *)
(* seen from c to d; the cash is no more than the wallet, what is owed and  *)
(* what is not seen.                                                        *)
CashMoves(x, y, a, b, c, d) == y - x = (b - a) + (d - c)
CashEqual(x, a, c) == x = a + c
CashBelow(x, a, o, c) == x <= a + o + c

LEMMA StaysEqual ==
  ASSUME NEW x \in Int, NEW y \in Int, NEW a \in Int, NEW b \in Int, NEW c \in Int, NEW d \in Int,
         CashMoves(x, y, a, b, c, d), CashEqual(x, a, c)
  PROVE  CashEqual(y, b, d)
  BY DEF CashMoves, CashEqual

LEMMA StaysBelow ==
  ASSUME NEW x \in Int, NEW y \in Int, NEW a \in Int, NEW b \in Int, NEW c \in Int, NEW d \in Int,
         CashMoves(x, y, a, b, c, d), NEW o \in Int, CashBelow(x, a, o, c)
  PROVE  CashBelow(y, b, o, d)
  BY DEF CashMoves, CashBelow

(* A trade in an open token: what it takes from the cash it takes from the  *)
(* wallet.                                                                  *)
LEMMA TradeKeeps ==
  ASSUME AC!AccountAssumption, BooksInv, accountAlive, NEW t \in AccountTokens, outcome[t] = "open",
         UNCHANGED <<mode, accountAlive, accountTicking, bankroll, outcome, accountSnapshot>>,
         pos' \in [AccountTokens -> Holding], chain' \in [AccountTokens -> Holding],
         \A u \in AccountTokens : u # t => pos'[u] = pos[u] /\ chain'[u] = chain[u],
         chain = pos => chain' = pos', chain'[t].qty = pos'[t].qty,
         realized' \in Int, fee' \in Int, wallet' \in Int, unseen' \in Int,
         mode = "live" => chain'[t].qty >= 0,
         (pos[t].cost - pos'[t].cost) + (realized' - realized) - (fee' - fee)
           = (wallet' - wallet) + (unseen' - unseen)
  PROVE  BooksInv'
  <1>1. /\ pos \in [AccountTokens -> Holding] /\ chain \in [AccountTokens -> Holding]
        /\ bankroll \in Int /\ realized \in Int /\ fee \in Int /\ wallet \in Int /\ unseen \in Int
        BY DEF BooksInv
  <1>2. Locked(pos') = Locked(pos) - pos[t].cost + pos'[t].cost
        BY <1>1, LockedMoves
  <1>3. /\ CashMoves(CashOf(bankroll, pos, realized, fee), CashOf(bankroll, pos', realized', fee'),
                     wallet, wallet', unseen, unseen')
        /\ CashOf(bankroll, pos, realized, fee) \in Int /\ CashOf(bankroll, pos', realized', fee') \in Int
        <2>1. Locked(pos) \in Int /\ pos[t].cost \in Int /\ pos'[t].cost \in Int
              BY <1>1, LockedIsInt DEF Holding
        <2> QED BY <1>1, <1>2, <2>1 DEF CashOf, CashMoves
  <1>4. ASSUME mode = "live"
        PROVE  OwedFor(pos', chain', outcome) = OwedFor(pos, chain, outcome)
               /\ OwedFor(pos, chain, outcome) \in Int
        <2>1. Due(pos, chain, outcome, t) = 0 /\ Due(pos', chain', outcome, t) = 0
              <3>1. PaidFor(outcome[t]) = 0
                    BY PaidForIs
              <3>2. chain[t].qty - pos[t].qty \in Int /\ chain'[t].qty - pos'[t].qty \in Int
                    BY <1>1 DEF Holding
              <3> QED BY <3>1, <3>2 DEF Due
        <2>2. \A u \in AccountTokens : Due(pos', chain', outcome, u) = Due(pos, chain, outcome, u)
              <3>1. \A u \in AccountTokens : u # t => Due(pos', chain', outcome, u) = Due(pos, chain, outcome, u)
                    BY DEF Due
              <3> QED BY <2>1, <3>1
        <2>3. OwedFor(pos, chain, outcome) \in Int
              BY <1>1, OwedIsInt
        <2> QED BY <2>2, <2>3, OwedSame
  <1>5. SavedWell(accountSnapshot)'
        BY DEF BooksInv, SavedWell
  <1>6. CASE mode = "paper"
        <2>1. chain' = pos' /\ CashOf(bankroll, pos', realized', fee') = wallet' + unseen'
              <3>1. chain = pos /\ CashOf(bankroll, pos, realized, fee) = wallet + unseen
                    BY <1>6 DEF BooksInv
              <3>2. chain' = pos'
                    BY <3>1
              <3>3. CashOf(bankroll, pos', realized', fee') = wallet' + unseen'
                    <4> DEFINE x == CashOf(bankroll, pos, realized, fee)
                               y == CashOf(bankroll, pos', realized', fee')
                    <4>1. /\ x \in Int /\ y \in Int /\ x = wallet + unseen
                          /\ CashMoves(x, y, wallet, wallet', unseen, unseen')
                          BY <1>3, <3>1
                    <4> HIDE DEF x, y
                    <4>2. CashEqual(x, wallet, unseen)
                          BY <4>1 DEF CashEqual
                    <4>3. CashEqual(y, wallet', unseen')
                          BY <1>1, <4>1, <4>2, StaysEqual
                    <4> QED BY <4>3 DEF y, CashEqual
              <3> QED BY <3>2, <3>3
        <2> QED BY <1>5, <1>6, <2>1 DEF BooksInv
  <1>7. CASE mode = "live"
        <2>1. \A u \in AccountTokens : /\ outcome[u] = "open" => chain'[u].qty = pos'[u].qty
                                       /\ chain'[u].qty >= 0
              BY <1>7 DEF BooksInv
        <2>2. CashBelow(CashOf(bankroll, pos, realized, fee), wallet, OwedFor(pos, chain, outcome),
                        unseen)
              BY <1>7 DEF BooksInv, CashBelow
        <2>3. CashBelow(CashOf(bankroll, pos', realized', fee'), wallet',
                        OwedFor(pos, chain, outcome), unseen')
              <3> DEFINE x == CashOf(bankroll, pos, realized, fee)
                         y == CashOf(bankroll, pos', realized', fee')
                         o == OwedFor(pos, chain, outcome)
              <3>1. /\ x \in Int /\ y \in Int /\ o \in Int /\ CashBelow(x, wallet, o, unseen)
                    /\ CashMoves(x, y, wallet, wallet', unseen, unseen')
                    BY <1>3, <1>4, <1>7, <2>2
              <3> HIDE DEF x, y, o
              <3>2. CashBelow(y, wallet', o, unseen')
                    BY <1>1, <3>1, StaysBelow
              <3> QED BY <3>2 DEF y, o
        <2> QED BY <1>4, <1>5, <1>7, <2>1, <2>3 DEF BooksInv, CashBelow
  <1> QED BY <1>6, <1>7 DEF BooksInv

(* What both books hold of an open token.                                   *)
LEMMA OpenHolds ==
  ASSUME BooksInv, accountAlive, NEW t \in AccountTokens, outcome[t] = "open"
  PROVE  /\ pos[t].qty \in Int /\ pos[t].cost \in Int /\ chain[t].cost \in Int
         /\ chain[t].qty = pos[t].qty /\ (mode = "live" => pos[t].qty >= 0)
         /\ pos \in [AccountTokens -> Holding] /\ chain \in [AccountTokens -> Holding]
         /\ realized \in Int /\ fee \in Int /\ wallet \in Int /\ unseen \in Int
  BY DEF BooksInv, Holding

(* A part of what was paid is no more than that, and more than the whole no *)
(* less.                                                                    *)
LEMMA PartOfCost ==
  ASSUME NEW x \in Nat, NEW n \in Nat \ {0}, NEW q \in Nat
  PROVE  /\ (x * q) \div n \in Nat
         /\ q <= n => (x * q) \div n <= x
         /\ q >= n => (x * q) \div n >= x
  <1>1. \A a, b \in Nat : a * b \in Nat
        OBVIOUS
  <1>2. x * q \in Nat /\ x * n \in Nat
        BY <1>1
  <1>3. ASSUME q <= n PROVE x * q <= x * n
        <2>1. (n - q) \in Nat
              BY <1>3
        <2>2. x * (n - q) \in Nat /\ x * (n - q) = x * n - x * q
              BY <1>1, <2>1
        <2> QED BY <1>2, <2>2
  <1>4. ASSUME q >= n PROVE x * q >= x * n
        <2>1. (q - n) \in Nat
              BY <1>4
        <2>2. x * (q - n) \in Nat /\ x * (q - n) = x * q - x * n
              BY <1>1, <2>1
        <2> QED BY <1>2, <2>2
  <1>5. ASSUME NEW y \in Nat, NEW z \in Nat, z = x * n
        PROVE  y \div n \in Nat /\ (y <= z => y \div n <= x) /\ (y >= z => y \div n >= x)
        BY <1>5
  <1> QED BY <1>2, <1>3, <1>4, <1>5

(* Shares of a position cost no less than nothing; a part of it no more,    *)
(* and more than it no less, than the whole.                                *)
LEMMA CostOfIs ==
  ASSUME NEW p \in [AccountTokens -> Holding], NEW t \in AccountTokens, p[t].qty # 0, NEW q \in Nat
  PROVE  /\ AC!CostOf(p, t, q) \in Nat
         /\ p[t].qty > 0 => /\ q <= p[t].qty => AC!CostOf(p, t, q) <= p[t].cost
                            /\ q >= p[t].qty => AC!CostOf(p, t, q) >= p[t].cost
         /\ p[t].qty < 0 => /\ q <= -p[t].qty => AC!CostOf(p, t, q) <= -p[t].cost
                            /\ q >= -p[t].qty => AC!CostOf(p, t, q) >= -p[t].cost
  <1> DEFINE x == AC!Magnitude(p[t].cost)
             n == AC!Magnitude(p[t].qty)
  <1>1. /\ p[t].qty \in Int /\ p[t].cost \in Int
        /\ p[t].qty >= 0 => p[t].cost >= 0
        /\ p[t].qty <= 0 => p[t].cost <= 0
        BY HoldingIs
  <1>2. /\ x \in Nat /\ n \in Nat \ {0}
        /\ p[t].qty > 0 => x = p[t].cost /\ n = p[t].qty
        /\ p[t].qty < 0 => x = -p[t].cost /\ n = -p[t].qty
        BY <1>1 DEF AC!Magnitude
  <1>3. AC!CostOf(p, t, q) = (x * q) \div n
        BY DEF AC!CostOf
  <1> HIDE DEF x, n
  <1>4. /\ (x * q) \div n \in Nat
        /\ q <= n => (x * q) \div n <= x
        /\ q >= n => (x * q) \div n >= x
        BY <1>2, PartOfCost
  <1> QED BY <1>2, <1>3, <1>4

(* What a purchase makes of a position, long or short.                      *)
LEMMA BoughtIs ==
  ASSUME AC!AccountAssumption, NEW p \in [AccountTokens -> Holding], NEW t \in AccountTokens,
         NEW q \in 1..2, NEW px \in AccountPrices
  PROVE  /\ AC!CostAdded(p, t, q, px) \in Nat
         /\ p[t].qty >= 0 => AC!CostAdded(p, t, q, px) = q * px
         /\ AC!Bought(p, t, q, px) \in [AccountTokens -> Holding]
         /\ AC!Bought(p, t, q, px)[t].qty = p[t].qty + q
         /\ AC!Bought(p, t, q, px)[t].cost = p[t].cost + AC!CostAdded(p, t, q, px)
         /\ \A u \in AccountTokens : u # t => AC!Bought(p, t, q, px)[u] = p[u]
  <1> DEFINE a == AC!CostAdded(p, t, q, px)
  <1>1. q \in Nat /\ px \in Nat /\ q * px \in Nat
        BY AccountFinite
  <1>2. /\ p[t].qty \in Int /\ p[t].cost \in Int
        /\ p[t].qty >= 0 => p[t].cost >= 0
        /\ p[t].qty <= 0 => p[t].cost <= 0
        BY HoldingIs
  <1>3. p[t].qty >= 0 => a = q * px
        BY <1>2 DEF AC!CostAdded
  <1>4. p[t].qty < 0 => /\ a \in Nat
                        /\ q <= -p[t].qty => a <= -p[t].cost
                        /\ q >= -p[t].qty => a >= -p[t].cost
        BY <1>1, <1>2, CostOfIs DEF AC!CostAdded
  <1>5. AC!Bought(p, t, q, px) = [p EXCEPT ![t] = [qty |-> p[t].qty + q, cost |-> p[t].cost + a]]
        BY DEF AC!Bought
  <1> HIDE DEF a
  <1>6. a \in Nat
        BY <1>1, <1>2, <1>3, <1>4
  <1>7. /\ p[t].qty + q >= 0 => p[t].cost + a >= 0
        /\ p[t].qty + q <= 0 => p[t].cost + a <= 0
        <2>1. CASE p[t].qty >= 0
              BY <1>1, <1>2, <1>6, <2>1
        <2>2. CASE p[t].qty < 0
              BY <1>1, <1>2, <1>4, <1>6, <2>2
        <2> QED BY <1>2, <2>1, <2>2
  <1>8. [qty |-> p[t].qty + q, cost |-> p[t].cost + a] \in Holding
        BY <1>1, <1>2, <1>6, <1>7 DEF Holding
  <1> QED BY <1>3, <1>5, <1>6, <1>8 DEF a

(* What a sale out of a position makes of it, within it or beyond.          *)
LEMMA SoldIs ==
  ASSUME NEW p \in [AccountTokens -> Holding], NEW t \in AccountTokens, p[t].qty > 0, NEW q \in 1..2
  PROVE  /\ AC!CostOf(p, t, q) \in Nat
         /\ AC!Sold(p, t, q) \in [AccountTokens -> Holding]
         /\ AC!Sold(p, t, q)[t].qty = p[t].qty - q
         /\ AC!Sold(p, t, q)[t].cost = p[t].cost - AC!CostOf(p, t, q)
         /\ \A u \in AccountTokens : u # t => AC!Sold(p, t, q)[u] = p[u]
  <1> DEFINE a == AC!CostOf(p, t, q)
  <1>1. /\ q \in Nat /\ p[t].qty \in Int /\ p[t].cost \in Int
        BY DEF Holding
  <1>2. /\ a \in Nat
        /\ q <= p[t].qty => a <= p[t].cost
        /\ q >= p[t].qty => a >= p[t].cost
        BY <1>1, CostOfIs
  <1>3. AC!Sold(p, t, q) = [p EXCEPT ![t] = [qty |-> p[t].qty - q, cost |-> p[t].cost - a]]
        BY DEF AC!Sold
  <1> HIDE DEF a
  <1>4. [qty |-> p[t].qty - q, cost |-> p[t].cost - a] \in Holding
        BY <1>1, <1>2 DEF Holding
  <1> QED BY <1>2, <1>3, <1>4 DEF a

(* The fee of a trade is booked, or it is one the loop does not see; so is  *)
(* what a purchase pays beyond the entry price of shares that were owed.    *)
FeeMoves(q, hidden) ==
  \/ fee' = fee + q * Fee /\ unseen' = unseen + hidden
  \/ mode = "live" /\ fee' = fee /\ unseen' = unseen + q * Fee

(* A purchase moves its cost from the cash into the position, its fee out.  *)
LEMMA BuyKeeps ==
  ASSUME AC!AccountAssumption, BooksInv, accountAlive, NEW t \in AccountTokens, outcome[t] = "open",
         NEW q \in 1..2, NEW px \in AccountPrices, AC!BookBuy(t, q, px),
         FeeMoves(q, q * px - AC!CostAdded(pos, t, q, px)),
         UNCHANGED <<mode, accountAlive, accountTicking, bankroll, outcome, accountSnapshot>>
  PROVE  BooksInv'
  <1> DEFINE v == q * px
             a == AC!CostAdded(pos, t, q, px)
  <1>1. v \in Nat /\ q * Fee \in Nat /\ q \in Nat
        BY AccountFinite
  <1>2. /\ pos' = AC!Bought(pos, t, q, px) /\ chain' = AC!Bought(chain, t, q, px)
        /\ wallet' = wallet - v - q * Fee /\ realized' = realized
        BY DEF AC!BookBuy
  <1>3. /\ pos[t].qty \in Int /\ pos[t].cost \in Int /\ chain[t].cost \in Int
        /\ chain[t].qty = pos[t].qty /\ (mode = "live" => pos[t].qty >= 0)
        /\ pos \in [AccountTokens -> Holding] /\ chain \in [AccountTokens -> Holding]
        /\ realized \in Int /\ fee \in Int /\ wallet \in Int /\ unseen \in Int
        BY OpenHolds
  <1>4. /\ pos' \in [AccountTokens -> Holding] /\ chain' \in [AccountTokens -> Holding]
        /\ \A u \in AccountTokens : u # t => pos'[u] = pos[u] /\ chain'[u] = chain[u]
        /\ chain = pos => chain' = pos'
        /\ pos'[t].qty = pos[t].qty + q /\ chain'[t].qty = pos'[t].qty
        /\ pos'[t].cost = pos[t].cost + a /\ a \in Nat
        /\ pos[t].qty >= 0 => a = v
        BY <1>2, <1>3, BoughtIs
  <1>5. \/ fee' = fee + q * Fee /\ unseen' = unseen + (v - a)
        \/ mode = "live" /\ fee' = fee /\ unseen' = unseen + q * Fee
        BY DEF FeeMoves
  <1> HIDE DEF v, a
  <1>6. mode = "live" => a = v /\ chain'[t].qty >= 0
        BY <1>1, <1>3, <1>4
  <1>7. /\ realized' \in Int /\ fee' \in Int /\ wallet' \in Int /\ unseen' \in Int
        /\ (pos[t].cost - pos'[t].cost) + (realized' - realized) - (fee' - fee)
             = (wallet' - wallet) + (unseen' - unseen)
        BY <1>1, <1>2, <1>3, <1>4, <1>5, <1>6
  <1> QED BY <1>4, <1>6, <1>7, TradeKeeps

(* A sale out of a position moves its proceeds into the cash, be it more    *)
(* than the position; the exchange does not sell what it has not.           *)
LEMMA SellKeeps ==
  ASSUME AC!AccountAssumption, BooksInv, accountAlive, NEW t \in AccountTokens, outcome[t] = "open",
         NEW q \in 1..2, NEW px \in AccountPrices, pos[t].qty > 0, mode = "live" => chain[t].qty >= q,
         AC!BookSellRealized(t, q, px), FeeMoves(q, 0),
         UNCHANGED <<mode, accountAlive, accountTicking, bankroll, outcome, accountSnapshot>>
  PROVE  BooksInv'
  <1> DEFINE v == q * px
             a == AC!CostOf(pos, t, q)
  <1>1. v \in Nat /\ q * Fee \in Nat /\ q \in Nat
        BY AccountFinite
  <1>2. /\ pos' = AC!Sold(pos, t, q) /\ chain' = AC!Sold(chain, t, q)
        /\ wallet' = wallet + v - q * Fee /\ realized' = realized + v - a
        BY DEF AC!BookSellRealized
  <1>3. /\ pos[t].qty \in Int /\ pos[t].cost \in Int /\ chain[t].cost \in Int
        /\ chain[t].qty = pos[t].qty
        /\ pos \in [AccountTokens -> Holding] /\ chain \in [AccountTokens -> Holding]
        /\ realized \in Int /\ fee \in Int /\ wallet \in Int /\ unseen \in Int
        BY OpenHolds
  <1>4. /\ pos' \in [AccountTokens -> Holding] /\ chain' \in [AccountTokens -> Holding]
        /\ \A u \in AccountTokens : u # t => pos'[u] = pos[u] /\ chain'[u] = chain[u]
        /\ chain = pos => chain' = pos'
        /\ pos'[t].qty = pos[t].qty - q /\ chain'[t].qty = pos'[t].qty
        /\ pos'[t].cost = pos[t].cost - a /\ a \in Nat
        BY <1>2, <1>3, SoldIs
  <1>5. \/ fee' = fee + q * Fee /\ unseen' = unseen + 0
        \/ mode = "live" /\ fee' = fee /\ unseen' = unseen + q * Fee
        BY DEF FeeMoves
  <1> HIDE DEF v, a
  <1>6. mode = "live" => chain'[t].qty >= 0
        BY <1>1, <1>3, <1>4
  <1>7. /\ realized' \in Int /\ fee' \in Int /\ wallet' \in Int /\ unseen' \in Int
        /\ (pos[t].cost - pos'[t].cost) + (realized' - realized) - (fee' - fee)
             = (wallet' - wallet) + (unseen' - unseen)
        BY <1>1, <1>2, <1>3, <1>4, <1>5
  <1> QED BY <1>4, <1>6, <1>7, TradeKeeps

(* A decided token is settled: the books stop counting its cost and expect  *)
(* its payoff instead; on paper it is paid at once.                         *)
LEMMA SettleKeeps ==
  ASSUME AC!AccountAssumption, BooksInv, NEW t \in AccountTokens, AC!SettleToken(t)
  PROVE  BooksInv'
  <1> DEFINE pay == PaidFor(outcome[t])
  <1>1. /\ accountAlive /\ outcome[t] # "open"
        /\ realized' = realized + pos[t].qty * pay - pos[t].cost
        /\ pos' = [pos EXCEPT ![t] = AC!Flat[t]]
        /\ IF mode = "live" THEN wallet' = wallet /\ chain' = chain
           ELSE /\ wallet' = wallet + chain[t].qty * pay
                /\ chain' = [chain EXCEPT ![t] = AC!Flat[t]]
        /\ UNCHANGED <<mode, accountAlive, accountTicking, bankroll, fee, unseen, accountSnapshot,
                       outcome>>
        BY DEF AC!SettleToken, AC!Decided, AC!tick, AC!Payoff, PaidFor, BooksInv
  <1>2. /\ pos \in [AccountTokens -> Holding] /\ chain \in [AccountTokens -> Holding]
        /\ bankroll \in Int /\ realized \in Int /\ fee \in Int /\ wallet \in Int /\ unseen \in Int
        /\ pos[t].qty \in Int /\ pos[t].cost \in Int /\ chain[t].qty \in Int /\ pay \in Int
        /\ pos[t].qty * pay \in Int /\ chain[t].qty * pay \in Int
        BY PaidForIs DEF BooksInv, Holding
  <1> HIDE DEF pay
  <1>3. AC!Flat[t] = [qty |-> 0, cost |-> 0] /\ AC!Flat[t] \in Holding
        BY DEF AC!Flat, Holding
  <1>4. /\ pos' \in [AccountTokens -> Holding] /\ pos'[t] = [qty |-> 0, cost |-> 0]
        /\ \A u \in AccountTokens : u # t => pos'[u] = pos[u]
        BY <1>1, <1>2, <1>3
  <1>5. Locked(pos') = Locked(pos) - pos[t].cost /\ Locked(pos) \in Int
        <2>1. Locked(pos') = Locked(pos) - pos[t].cost + pos'[t].cost
              BY <1>2, <1>4, LockedMoves
        <2>2. pos'[t].cost = 0 /\ Locked(pos) \in Int
              BY <1>2, <1>4, LockedIsInt
        <2> QED BY <1>2, <2>1, <2>2
  <1>6. CashOf(bankroll, pos', realized', fee) = CashOf(bankroll, pos, realized, fee) + pos[t].qty * pay
        /\ CashOf(bankroll, pos, realized, fee) \in Int /\ realized' \in Int
        BY <1>1, <1>2, <1>5 DEF CashOf
  <1>7. SavedWell(accountSnapshot)'
        BY <1>1 DEF BooksInv, SavedWell
  <1>8. CASE mode = "paper"
        <2>1. /\ chain = pos /\ CashOf(bankroll, pos, realized, fee) = wallet + unseen /\ mode # "live"
              /\ bankroll = Deposit
              BY <1>1, <1>8 DEF BooksInv
        <2>2. chain' = pos' /\ wallet' = wallet + pos[t].qty * pay
              BY <1>1, <2>1
        <2>3. CashOf(bankroll, pos', realized', fee) = wallet' + unseen /\ wallet' \in Int
              BY <1>2, <1>6, <2>1, <2>2
        <2> QED BY <1>1, <1>2, <1>4, <1>6, <1>7, <1>8, <2>1, <2>2, <2>3 DEF BooksInv
  <1>9. CASE mode = "live"
        <2>1. wallet' = wallet /\ chain' = chain
              BY <1>1, <1>9
        <2>2. Due(pos', chain, outcome, t) = Due(pos, chain, outcome, t) + pos[t].qty * pay
              /\ Due(pos, chain, outcome, t) \in Int
              <3>1. pos'[t].qty = 0
                    BY <1>4
              <3>2. Due(pos', chain, outcome, t) = (chain[t].qty - 0) * pay
                    /\ Due(pos, chain, outcome, t) = (chain[t].qty - pos[t].qty) * pay
                    BY <3>1 DEF Due, pay
              <3>3. (chain[t].qty - pos[t].qty) * pay = chain[t].qty * pay - pos[t].qty * pay
                    BY <1>2
              <3> QED BY <1>2, <3>2, <3>3
        <2>3. \A u \in AccountTokens : u # t => Due(pos', chain, outcome, u) = Due(pos, chain, outcome, u)
              BY <1>4 DEF Due
        <2>4. OwedFor(pos', chain, outcome) = OwedFor(pos, chain, outcome) + pos[t].qty * pay
              /\ OwedFor(pos, chain, outcome) \in Int
              <3>1. OwedFor(pos', chain, outcome) = OwedFor(pos, chain, outcome)
                      - Due(pos, chain, outcome, t) + Due(pos', chain, outcome, t)
                    BY <1>2, <1>4, <2>3, OwedMoves
              <3>2. OwedFor(pos, chain, outcome) \in Int
                    BY <1>2, OwedIsInt
              <3> QED BY <1>2, <2>2, <3>1, <3>2
        <2>5. CashOf(bankroll, pos, realized, fee) <= wallet + OwedFor(pos, chain, outcome) + unseen
              /\ \A u \in AccountTokens : /\ outcome[u] = "open" => chain[u].qty = pos[u].qty
                                          /\ chain[u].qty >= 0
              BY <1>1, <1>9 DEF BooksInv
        <2>6. CashOf(bankroll, pos', realized', fee) <= wallet + OwedFor(pos', chain, outcome) + unseen
              <3> DEFINE x == CashOf(bankroll, pos, realized, fee)
                         y == OwedFor(pos, chain, outcome)
                         z == pos[t].qty * pay
              <3>1. /\ x \in Int /\ y \in Int /\ z \in Int /\ wallet \in Int /\ unseen \in Int
                    /\ x <= wallet + y + unseen
                    BY <1>2, <1>6, <2>4, <2>5
              <3>2. x + z <= wallet + (y + z) + unseen
                    <4> HIDE DEF x, y, z
                    <4> QED BY <3>1
              <3> QED BY <1>6, <2>4, <3>2
        <2>7. \A u \in AccountTokens : /\ outcome[u] = "open" => chain[u].qty = pos'[u].qty
                                       /\ chain[u].qty >= 0
              BY <1>1, <1>4, <2>5
        <2> QED BY <1>1, <1>2, <1>4, <1>6, <1>7, <1>9, <2>1, <2>6, <2>7 DEF BooksInv
  <1> QED BY <1>8, <1>9 DEF BooksInv

(* Shares are redeemed: what was owed for the token is in the wallet, or    *)
(* is owed back until the books know.                                       *)
LEMMA RedeemKeeps ==
  ASSUME AC!AccountAssumption, BooksInv, NEW t \in AccountTokens, AC!Redeem(t)
  PROVE  BooksInv'
  <1> DEFINE pay == PaidFor(outcome[t])
  <1>1. /\ mode = "live" /\ outcome[t] # "open"
        /\ wallet' = wallet + chain[t].qty * pay
        /\ chain' = [chain EXCEPT ![t] = AC!Flat[t]]
        /\ UNCHANGED <<mode, accountAlive, accountTicking, bankroll, pos, realized, fee, unseen,
                       accountSnapshot, outcome>>
        BY DEF AC!Redeem, AC!Decided, AC!tick, AC!ledger, AC!Payoff, PaidFor
  <1>2. /\ pos \in [AccountTokens -> Holding] /\ chain \in [AccountTokens -> Holding]
        /\ bankroll \in Int /\ realized \in Int /\ fee \in Int /\ wallet \in Int /\ unseen \in Int
        /\ pos[t].qty \in Int /\ chain[t].qty \in Int /\ pay \in Int
        /\ pos[t].qty * pay \in Int /\ chain[t].qty * pay \in Int
        BY PaidForIs DEF BooksInv, Holding
  <1> HIDE DEF pay
  <1>3. AC!Flat[t] = [qty |-> 0, cost |-> 0] /\ AC!Flat[t] \in Holding
        BY DEF AC!Flat, Holding
  <1>4. /\ chain' \in [AccountTokens -> Holding] /\ chain'[t] = [qty |-> 0, cost |-> 0]
        /\ \A u \in AccountTokens : u # t => chain'[u] = chain[u]
        BY <1>1, <1>2, <1>3
  <1>5. Due(pos, chain', outcome, t) = Due(pos, chain, outcome, t) - chain[t].qty * pay
        /\ Due(pos, chain, outcome, t) \in Int
        <2>1. chain'[t].qty = 0
              BY <1>4
        <2>2. Due(pos, chain', outcome, t) = (0 - pos[t].qty) * pay
              /\ Due(pos, chain, outcome, t) = (chain[t].qty - pos[t].qty) * pay
              BY <2>1 DEF Due, pay
        <2>3. /\ (chain[t].qty - pos[t].qty) * pay = chain[t].qty * pay - pos[t].qty * pay
              /\ (0 - pos[t].qty) * pay = 0 - pos[t].qty * pay
              BY <1>2
        <2> QED BY <1>2, <2>2, <2>3
  <1>6. \A u \in AccountTokens : u # t => Due(pos, chain', outcome, u) = Due(pos, chain, outcome, u)
        BY <1>4 DEF Due
  <1>7. OwedFor(pos, chain', outcome) = OwedFor(pos, chain, outcome) - chain[t].qty * pay
        /\ OwedFor(pos, chain, outcome) \in Int
        <2>1. OwedFor(pos, chain', outcome) = OwedFor(pos, chain, outcome)
                - Due(pos, chain, outcome, t) + Due(pos, chain', outcome, t)
              BY <1>2, <1>4, <1>6, OwedMoves
        <2>2. OwedFor(pos, chain, outcome) \in Int
              BY <1>2, OwedIsInt
        <2> QED BY <1>2, <1>5, <2>1, <2>2
  <1>8. wallet' + OwedFor(pos, chain', outcome) = wallet + OwedFor(pos, chain, outcome)
        /\ wallet' \in Int
        BY <1>1, <1>2, <1>7
  <1>9. SavedWell(accountSnapshot)'
        BY <1>1 DEF BooksInv, SavedWell
  <1>10. \A u \in AccountTokens : /\ outcome[u] = "open" => chain'[u] = chain[u]
                                 /\ chain'[u].qty >= 0
        BY <1>1, <1>4 DEF BooksInv
  <1> QED BY <1>1, <1>4, <1>8, <1>9, <1>10 DEF BooksInv

(* A crash forgets the books; the file and the exchange stay.               *)
LEMMA CrashKeeps ==
  ASSUME AC!AccountAssumption, BooksInv, AC!Crash
  PROVE  BooksInv'
  <1>1. SavedWell(accountSnapshot)'
        BY DEF AC!Crash, BooksInv, SavedWell
  <1>2. AC!Flat \in [AccountTokens -> Holding]
        BY DEF AC!Flat, Holding
  <1>3. /\ UNCHANGED <<mode, chain, wallet, outcome, unseen, accountSnapshot>>
        /\ accountAlive' = FALSE /\ accountTicking' = FALSE /\ bankroll' = Deposit /\ Deposit \in Int
        /\ pos' = AC!Flat /\ realized' = 0 /\ fee' = 0
        BY AccountFinite DEF AC!Crash, AC!exchange
  <1>4. /\ mode' \in {"paper", "live"} /\ chain' \in [AccountTokens -> Holding] /\ wallet' \in Int
        /\ unseen' \in Int
        /\ outcome' \in [AccountTokens -> {"open", "won", "lost", "void"}]
        BY <1>3 DEF BooksInv
  <1>5. /\ pos' \in [AccountTokens -> Holding] /\ realized' \in Int /\ fee' \in Int /\ bankroll' \in Int
        /\ accountAlive' = FALSE /\ accountTicking' = FALSE /\ bankroll' = Deposit
        BY <1>2, <1>3
  <1>6. /\ mode' = "paper" => bankroll' = Deposit
        /\ mode' = "live" => \A t \in AccountTokens : chain'[t].qty >= 0
        BY <1>3 DEF BooksInv
  <1> QED BY <1>1, <1>4, <1>5, <1>6 DEF BooksInv

(* Nothing to restore is a snapshot, too.                                   *)
LEMMA SavedOrNone ==
  ASSUME AC!AccountAssumption, BooksInv, NEW s \in {accountSnapshot, AC!NoSnapshot}
  PROVE  SavedWell(s)
  <1>1. /\ AC!Flat \in [AccountTokens -> Holding] /\ Deposit \in Int
        /\ \A t \in AccountTokens : AC!Flat[t].cost = 0
        BY AccountFinite DEF AC!Flat, Holding
  <1>2. Locked(AC!Flat) = 0
        BY <1>1, AccountFinite, SumOfZeroes DEF Locked
  <1>3. SavedWell(AC!NoSnapshot)
        BY <1>1, <1>2 DEF AC!NoSnapshot, SavedWell, CashOf
  <1> QED BY <1>3 DEF BooksInv

(* On paper a restart takes up what the snapshot accounts for.              *)
LEMMA RestoreOnPaperKeeps ==
  ASSUME AC!AccountAssumption, BooksInv, NEW s, SavedWell(s), AC!RestoreLedgerSnapshot(s)
  PROVE  BooksInv'
  <1>1. /\ mode = "paper" /\ bankroll = Deposit /\ accountAlive' = TRUE
        /\ pos' = s.pos /\ realized' = s.realized /\ fee' = s.fee
        /\ wallet' = s.wallet /\ chain' = s.chain /\ unseen' = s.unseen
        /\ UNCHANGED <<mode, accountTicking, bankroll, accountSnapshot, outcome>>
        BY DEF AC!RestoreLedgerSnapshot, AC!tick, BooksInv
  <1>2. SavedWell(accountSnapshot)'
        BY <1>1 DEF BooksInv, SavedWell
  <1> QED BY <1>1, <1>2 DEF BooksInv, SavedWell

(* The positions of the chain are seeded and the capital is taken back from *)
(* the wallet; what the chain holds of decided tokens is still owed.        *)
LEMMA SeedKeeps ==
  ASSUME AC!AccountAssumption, BooksInv, NEW s, SavedWell(s),
         AC!SeedLivePositionsFromOnchain(s)
  PROVE  BooksInv'
  <1> DEFINE S == AC!Seeded
             f == [t \in AccountTokens |-> chain[t].cost]
             g == [t \in AccountTokens |-> pos'[t].cost]
             cost == SumFunctionOnSet(f, S)
  <1>1. /\ mode = "live" /\ accountAlive' = TRUE
        /\ pos' = [t \in AccountTokens |-> IF t \in S THEN chain[t] ELSE AC!Flat[t]]
        /\ realized' = s.realized /\ fee' = s.fee
        /\ bankroll' = IF S # {} THEN wallet + cost - s.realized + s.fee ELSE wallet
        /\ unseen' = IF S # {} THEN 0 ELSE s.realized - s.fee
        /\ UNCHANGED <<mode, accountTicking, accountSnapshot, wallet, chain, outcome>>
        BY AccountSum DEF AC!SeedLivePositionsFromOnchain, AC!Anchor, AC!tick, AC!exchange
  <1>2. /\ IsFiniteSet(AccountTokens) /\ S \subseteq AccountTokens /\ IsFiniteSet(S) /\ IsFiniteSet(AccountTokens \ S)
        /\ S \cup (AccountTokens \ S) = AccountTokens /\ S \cap (AccountTokens \ S) = {}
        /\ \A t \in S : outcome[t] = "open"
        /\ \A t \in AccountTokens : outcome[t] = "open" /\ t \notin S => ~(chain[t].qty > 0)
        BY AccountFinite, FS_Subset, FS_Difference DEF AC!Seeded, AC!Decided
  <1>3. /\ s.realized \in Int /\ s.fee \in Int /\ wallet \in Int
        /\ chain \in [AccountTokens -> Holding]
        /\ \A t \in AccountTokens : chain[t].qty \in Nat /\ chain[t].cost \in Int
        BY <1>1 DEF SavedWell, BooksInv, Holding
  <1>4. /\ \A t \in AccountTokens : AC!Flat[t] = [qty |-> 0, cost |-> 0] /\ AC!Flat[t] \in Holding
        BY DEF AC!Flat, Holding
  <1> HIDE DEF S
  <1>5. /\ pos' \in [AccountTokens -> Holding]
        /\ \A t \in S : pos'[t] = chain[t]
        /\ \A t \in AccountTokens \ S : pos'[t].qty = 0 /\ pos'[t].cost = 0
        BY <1>1, <1>2, <1>3, <1>4
  <1>6. Locked(pos') = cost /\ cost \in Int
        <2>1. /\ \A t \in AccountTokens : f[t] \in Int /\ g[t] \in Int
              /\ \A t \in S : g[t] = f[t]
              /\ \A t \in AccountTokens \ S : g[t] = 0
              BY <1>2, <1>3, <1>5 DEF Holding
        <2> HIDE DEF f, g
        <2>2. SumFunctionOnSet(g, S \cup (AccountTokens \ S))
                = SumFunctionOnSet(g, S) + SumFunctionOnSet(g, AccountTokens \ S)
              BY <1>2, <2>1, SumSplits
        <2>3. SumFunctionOnSet(g, S) = cost
              BY <1>2, <2>1, SumSame
        <2>4. SumFunctionOnSet(g, AccountTokens \ S) = 0
              BY <1>2, <2>1, SumOfZeroes
        <2>5. cost \in Int
              BY <1>2, <2>1, SumType
        <2>6. Locked(pos') = SumFunctionOnSet(g, AccountTokens)
              BY DEF Locked, g
        <2> HIDE DEF cost
        <2> QED BY <1>2, <2>2, <2>3, <2>4, <2>5, <2>6
  <1> HIDE DEF cost
  <1>7. /\ CashOf(bankroll', pos', realized', fee') = wallet + unseen'
        /\ bankroll' \in Int /\ unseen' \in Int
        <2>1. CASE S # {}
              <3>1. bankroll' = wallet + cost - s.realized + s.fee /\ unseen' = 0
                    BY <1>1, <2>1
              <3> QED BY <1>1, <1>3, <1>6, <3>1 DEF CashOf
        <2>2. CASE S = {}
              <3>1. IsFiniteSet(S) /\ \A t \in S : f[t] = 0
                    BY <1>2, <2>2
              <3>2. cost = 0
                    <4> HIDE DEF f
                    <4> QED BY <3>1, SumOfZeroes DEF cost
              <3>3. bankroll' = wallet /\ unseen' = s.realized - s.fee
                    BY <1>1, <2>2
              <3> QED BY <1>1, <1>3, <1>6, <3>2, <3>3 DEF CashOf
        <2> QED BY <2>1, <2>2
  <1>8. OwedFor(pos', chain, outcome) \in Nat
        <2>1. ASSUME NEW t \in AccountTokens PROVE Due(pos', chain, outcome, t) \in Nat
              <3>1. PaidFor(outcome[t]) \in Nat /\ chain[t].qty - pos'[t].qty \in Nat
                    BY <1>3, <1>5, PaidForIs
              <3>2. \A a, b \in Nat : a * b \in Nat
                    OBVIOUS
              <3> QED BY <3>1, <3>2 DEF Due
        <2> DEFINE h == [t \in AccountTokens |-> Due(pos', chain, outcome, t)]
        <2>2. \A t \in AccountTokens : h[t] \in Nat
              BY <2>1
        <2>3. SumFunctionOnSet(h, AccountTokens) \in Nat
              <3> HIDE DEF h
              <3> QED BY <1>2, <2>2, SumOfNaturals
        <2> QED BY <2>3 DEF OwedFor
  <1>9. \A t \in AccountTokens : outcome[t] = "open" => chain[t].qty = pos'[t].qty
        BY <1>2, <1>3, <1>5
  <1>10. SavedWell(accountSnapshot)'
        BY <1>1 DEF BooksInv, SavedWell
  <1>11. CashOf(bankroll', pos', realized', fee') <= wallet + OwedFor(pos', chain, outcome) + unseen'
        BY <1>3, <1>7, <1>8
  <1> QED BY <1>1, <1>3, <1>5, <1>7, <1>9, <1>10, <1>11 DEF BooksInv

(* Every step, one case per action.                                         *)
LEMMA BooksNext ==
  ASSUME AC!AccountAssumption, BooksInv, [AC!Next]_AC!vars
  PROVE  BooksInv'
  <1>1. ASSUME NEW t \in AccountTokens, NEW p \in AccountPrices, AC!Quote(t, p) PROVE BooksInv'
        BY <1>1, BooksStand DEF AC!Quote, AC!tick, AC!ledger, AC!exchange, BooksInv
  <1>2. ASSUME NEW t \in AccountTokens, NEW o \in Decisions, AC!Resolve(t, o) PROVE BooksInv'
        BY <1>2, AccountFinite, DecidedKeeps
  <1>3. ASSUME NEW save \in BOOLEAN, AC!TickBegin(save) PROVE BooksInv'
        BY <1>3, BooksStand DEF AC!TickBegin, AC!ledger, AC!exchange
  <1>4. ASSUME NEW t \in AccountTokens, NEW q \in 1..2, NEW px \in AccountPrices, AC!Buy(t, q, px) PROVE BooksInv'
        <2>1. /\ accountAlive /\ outcome[t] = "open" /\ AC!BookBuy(t, q, px)
              /\ UNCHANGED <<mode, accountAlive, accountTicking, bankroll, outcome, accountSnapshot>>
              BY <1>4 DEF AC!Buy, AC!Decided, BooksInv
        <2>2. /\ fee' = fee + q * Fee
              /\ unseen' = unseen + q * px - AC!CostAdded(pos, t, q, px)
              BY <1>4 DEF AC!Buy, AC!PublishLedgerSnapshot
        <2>3. /\ unseen \in Int /\ q * px \in Int /\ AC!CostAdded(pos, t, q, px) \in Int
              BY <2>1, AccountFinite, OpenHolds, BoughtIs
        <2>4. FeeMoves(q, q * px - AC!CostAdded(pos, t, q, px))
              BY <2>2, <2>3 DEF FeeMoves
        <2> QED BY <2>1, <2>4, BuyKeeps
  <1>5. ASSUME NEW t \in AccountTokens, NEW q \in 1..2, NEW px \in AccountPrices, AC!Sell(t, q, px) PROVE BooksInv'
        <2>1. /\ accountAlive /\ outcome[t] = "open" /\ AC!BookSellRealized(t, q, px)
              /\ pos[t].qty > 0 /\ (mode = "live" => chain[t].qty >= q)
              /\ UNCHANGED <<mode, accountAlive, accountTicking, bankroll, outcome, accountSnapshot>>
              BY <1>5 DEF AC!Sell, AC!Sellable, AC!Decided, BooksInv
        <2>2. FeeMoves(q, 0)
              BY <1>5 DEF AC!Sell, AC!PublishLedgerSnapshot, FeeMoves, BooksInv
        <2> QED BY <2>1, <2>2, SellKeeps
  <1>6. ASSUME NEW t \in AccountTokens, NEW q \in 1..2, NEW px \in AccountPrices, AC!RecoverMissedFill(t, q, px)
        PROVE  BooksInv'
        <2>1. accountAlive /\ outcome[t] = "open"
              BY <1>6 DEF AC!RecoverMissedFill, AC!Decided
        <2>2. FeeMoves(q, q * px - AC!CostAdded(pos, t, q, px)) /\ FeeMoves(q, 0)
              BY <1>6 DEF AC!RecoverMissedFill, FeeMoves
        <2>3. UNCHANGED <<mode, accountAlive, accountTicking, bankroll, outcome, accountSnapshot>>
              BY <1>6 DEF AC!RecoverMissedFill, AC!tick
        <2>4. \/ AC!BookBuy(t, q, px)
              \/ AC!BookSellRealized(t, q, px) /\ pos[t].qty > 0 /\ chain[t].qty >= q
              BY <1>6 DEF AC!RecoverMissedFill, AC!Recoverable
        <2> QED BY <2>1, <2>2, <2>3, <2>4, BuyKeeps, SellKeeps
  <1>7. CASE AC!TickEnd
        BY <1>7, BooksStand DEF AC!TickEnd, AC!ledger, AC!exchange
  <1>8. CASE AC!Restart
        BY <1>8, SavedOrNone, RestoreOnPaperKeeps, SeedKeeps DEF AC!Restart
  <1>9. CASE UNCHANGED AC!vars
        BY <1>9, BooksStand DEF AC!vars, AC!tick, AC!ledger, AC!exchange, BooksInv
  <1> QED BY <1>1, <1>2, <1>3, <1>4, <1>5, <1>6, <1>7, <1>8, <1>9, SettleKeeps, RedeemKeeps, CrashKeeps
          DEF AC!Next

(* The loop never believes to have more cash than the wallet holds and is   *)
(* owed and than what it cannot see, and on paper it has exactly that but   *)
(* for the cost of what it owes, whatever is traded, oversold, bought back, *)
(* recovered, settled, redeemed and restarted, in any number of tokens (account_equity, *)
(* SaveLedgerSnapshot, RestoreLedgerSnapshot, RecoverMissedFill and         *)
(* SeedLivePositionsFromOnchain).                                           *)
THEOREM SpecBooksBalance ==
  ASSUME AC!AccountAssumption
  PROVE  AC!Spec => []AC!BooksBalance
  <1>1. BooksInv => AC!BooksBalance
        <2> SUFFICES ASSUME BooksInv, accountAlive
                     PROVE  /\ mode = "live" => AC!CashAvailable <= wallet + AC!Owed + unseen
                            /\ mode = "paper" => AC!CashAvailable + AC!ShortCost = wallet + unseen
            BY DEF AC!BooksBalance
        <2>1. /\ AC!CashAvailable = CashOf(bankroll, pos, realized, fee) - ShortOf(pos)
              /\ CashOf(bankroll, pos, realized, fee) \in Int
              /\ AC!ShortCost = ShortOf(pos) /\ ShortOf(pos) \in Nat
              /\ AC!Owed = OwedFor(pos, chain, outcome)
              BY CashIs DEF BooksInv
        <2>2. OwedFor(pos, chain, outcome) \in Int
              BY OwedIsInt DEF BooksInv
        <2> QED BY <2>1, <2>2 DEF BooksInv
  <1>2. AC!Init => BooksInv
        BY BooksInit
  <1>3. BooksInv /\ [AC!Next]_AC!vars => BooksInv'
        BY BooksNext
  <1> QED BY <1>1, <1>2, <1>3, PTL DEF AC!Spec

(* What the drawdown allows, and what it allows with the band on top.       *)
Allowed(top, e) == AC!DrawdownTierMultiplier(top, e, 0)
AllowedWithBand(top, e) == AC!DrawdownTierMultiplier(top, e, Band)

(* Dead or alive: a crash forgets the peak with the multiplier.             *)
BetweenInv ==
  /\ peak \in Int /\ recorded \in Int /\ equity_at_entry \in Int
  /\ dd_mult \in {0, 1, 2, 4}
  /\ peak > 0 => dd_mult <= Allowed(peak, recorded) /\ dd_mult >= AllowedWithBand(peak, recorded)

(* The multiplier is one of the four, and a drawdown that counts for more   *)
(* never allows more.                                                       *)
LEMMA BandAllowsLess ==
  ASSUME AC!AccountAssumption, NEW top \in Int, NEW e \in Int, top > 0
  PROVE  /\ Allowed(top, e) \in {0, 1, 2, 4} /\ AllowedWithBand(top, e) \in {0, 1, 2, 4}
         /\ AllowedWithBand(top, e) <= Allowed(top, e)
  <1> DEFINE fall == IF top > 0 /\ e < top THEN top - e ELSE 0
             bare(tier) == 100 * fall + 0 * top >= tier * top
             wide(tier) == 100 * fall + Band * top >= tier * top
  <1>1. Band \in Nat /\ T1 \in Nat /\ T2 \in Nat /\ DrawdownHalt \in Nat
        BY DEF AC!AccountAssumption
  <1>2. fall \in Int /\ Band * top \in Int /\ 0 * top = 0 /\ Band * top >= 0
        <2>1. \A a \in Nat, b \in Nat : a * b \in Nat
              OBVIOUS
        <2>2. top \in Nat /\ Band * top \in Nat
              BY <1>1, <2>1
        <2> QED BY <2>2
  <1>3. ASSUME NEW tier \in Nat, bare(tier) PROVE wide(tier)
        <2>1. tier * top \in Int
              BY <1>1
        <2> HIDE DEF fall
        <2> QED BY <1>2, <1>3, <2>1
  <1>4. /\ Allowed(top, e) = IF bare(DrawdownHalt) THEN 0 ELSE IF bare(T2) THEN 1
                             ELSE IF bare(T1) THEN 2 ELSE 4
        /\ AllowedWithBand(top, e) = IF wide(DrawdownHalt) THEN 0 ELSE IF wide(T2) THEN 1
                                     ELSE IF wide(T1) THEN 2 ELSE 4
        BY DEF Allowed, AllowedWithBand, AC!DrawdownTierMultiplier
  <1>5. (bare(DrawdownHalt) => wide(DrawdownHalt)) /\ (bare(T2) => wide(T2)) /\ (bare(T1) => wide(T1))
        BY <1>1, <1>3
  <1> HIDE DEF fall, bare, wide
  <1> QED BY <1>4, <1>5

(* The end of a tick, from any multiplier.                                  *)
LEMMA MultiplierFollows ==
  ASSUME AC!AccountAssumption, BetweenInv, AC!TickEnd, equity_at_entry' \in Int
  PROVE  BetweenInv'
  <1>1. /\ recorded' = equity_at_entry /\ peak' = IF equity_at_entry > peak THEN equity_at_entry ELSE peak
        /\ dd_mult' = AC!NextMultiplier(dd_mult, peak', recorded')
        BY DEF AC!TickEnd
  <1>2. /\ peak \in Int /\ equity_at_entry \in Int /\ dd_mult \in {0, 1, 2, 4}
        /\ peak' \in Int /\ recorded' \in Int
        BY <1>1 DEF BetweenInv
  <1> DEFINE drop == Allowed(peak', recorded')
             restore == AllowedWithBand(peak', recorded')
  <1>3. dd_mult' = IF drop < dd_mult THEN drop ELSE IF restore > dd_mult THEN restore ELSE dd_mult
        BY <1>1 DEF AC!NextMultiplier, Allowed, AllowedWithBand
  <1>4. CASE peak' > 0
        <2>1. drop \in {0, 1, 2, 4} /\ restore \in {0, 1, 2, 4} /\ restore <= drop
              BY <1>2, <1>4, BandAllowsLess
        <2> HIDE DEF drop, restore
        <2>2. dd_mult' \in {0, 1, 2, 4} /\ dd_mult' <= drop /\ dd_mult' >= restore
              BY <1>2, <1>3, <2>1
        <2> QED BY <1>2, <2>2 DEF BetweenInv, drop, restore
  <1>5. CASE ~(peak' > 0)
        <2>1. drop = 4 /\ restore = 4
              BY <1>2, <1>5 DEF Allowed, AllowedWithBand, AC!DrawdownTierMultiplier
        <2> HIDE DEF drop, restore
        <2>2. dd_mult' \in {0, 1, 2, 4}
              BY <1>2, <1>3, <2>1
        <2> QED BY <1>2, <1>5, <2>2 DEF BetweenInv
  <1> QED BY <1>4, <1>5

(* A mark is a price or none.                                               *)
MarksInv == mark \in [AccountTokens -> Int]

(* Only a quote moves a mark.                                               *)
LEMMA MarksNext ==
  ASSUME AC!AccountAssumption, MarksInv, [AC!Next]_AC!vars
  PROVE  MarksInv'
  <1>1. ASSUME NEW t \in AccountTokens, NEW p \in AccountPrices, AC!Quote(t, p) PROVE MarksInv'
        <2>1. p \in Int
              BY AccountFinite
        <2> QED BY <1>1, <2>1 DEF AC!Quote, MarksInv
  <1>2. mark' = mark => MarksInv'
        BY DEF MarksInv
  <1>3. (\E s : AC!RestoreLedgerSnapshot(s) \/ AC!SeedLivePositionsFromOnchain(s)) => mark' = mark
        BY DEF AC!RestoreLedgerSnapshot, AC!SeedLivePositionsFromOnchain
  <1>4. AC!Restart => mark' = mark
        BY <1>3 DEF AC!Restart
  <1>5. ASSUME NEW t \in AccountTokens,
               \/ \E o \in Decisions : AC!Resolve(t, o)
               \/ AC!Redeem(t) \/ AC!SettleToken(t)
               \/ \E q \in 1..2, px \in AccountPrices :
                    AC!Buy(t, q, px) \/ AC!Sell(t, q, px) \/ AC!RecoverMissedFill(t, q, px)
        PROVE  mark' = mark
        BY <1>5 DEF AC!Resolve, AC!Redeem, AC!SettleToken, AC!Buy, AC!Sell, AC!RecoverMissedFill
  <1>6. (\E save \in BOOLEAN : AC!TickBegin(save)) \/ AC!TickEnd \/ AC!Crash => mark' = mark
        BY DEF AC!TickBegin, AC!TickEnd, AC!Crash
  <1>7. UNCHANGED AC!vars => mark' = mark
        BY DEF AC!vars
  <1> QED BY <1>1, <1>2, <1>4, <1>5, <1>6, <1>7 DEF AC!Next

(* A live loop knows its equity.                                            *)
LEMMA EquityIsInt ==
  ASSUME AC!AccountAssumption, BooksInv, MarksInv
  PROVE  AC!EquityMark \in Int
  <1> DEFINE f == [t \in AccountTokens |-> AC!Value(t) - pos[t].cost]
  <1>1. /\ mark \in [AccountTokens -> Int] /\ \A t \in AccountTokens : pos[t].qty \in Int /\ pos[t].cost \in Int
        /\ bankroll \in Int /\ realized \in Int /\ fee \in Int
        BY DEF BooksInv, MarksInv, Holding
  <1>2. ASSUME NEW t \in AccountTokens PROVE f[t] \in Int
        <2>1. \A a, b \in Int : a * b \in Int
              OBVIOUS
        <2>2. mark[t] * pos[t].qty \in Int
              BY <1>1, <2>1
        <2>3. AC!Value(t) = pos[t].cost \/ AC!Value(t) = mark[t] * pos[t].qty
              BY DEF AC!Value
        <2>4. AC!Value(t) \in Int
              BY <1>1, <2>2, <2>3
        <2> QED BY <1>1, <2>4
  <1>3. SumFunctionOnSet(f, AccountTokens) \in Int
        <2> HIDE DEF f
        <2> QED BY <1>2, AccountFinite, SumType
  <1> QED BY <1>1, <1>3, AccountSum DEF AC!EquityMark

(* Only the two ends of a tick and a crash move what the multiplier is      *)
(* judged by.                                                               *)
LEMMA BetweenNext ==
  ASSUME AC!AccountAssumption, BooksInv, MarksInv, BetweenInv, [AC!Next]_AC!vars
  PROVE  BetweenInv'
  <1>1. ASSUME UNCHANGED <<peak, recorded, dd_mult>>, equity_at_entry' \in Int PROVE BetweenInv'
        BY <1>1 DEF BetweenInv, Allowed, AllowedWithBand, AC!DrawdownTierMultiplier
  <1>2. equity_at_entry \in Int
        BY DEF BetweenInv
  <1>3. ASSUME NEW t \in AccountTokens, NEW p \in AccountPrices, AC!Quote(t, p) PROVE BetweenInv'
        BY <1>1, <1>2, <1>3 DEF AC!Quote, AC!tick, AC!drawdown
  <1>4. ASSUME NEW t \in AccountTokens, NEW o \in Decisions, AC!Resolve(t, o) PROVE BetweenInv'
        BY <1>1, <1>2, <1>4 DEF AC!Resolve, AC!tick, AC!drawdown
  <1>5. ASSUME NEW t \in AccountTokens, AC!Redeem(t) \/ AC!SettleToken(t) PROVE BetweenInv'
        BY <1>1, <1>2, <1>5 DEF AC!Redeem, AC!SettleToken, AC!tick, AC!drawdown
  <1>6. ASSUME NEW save \in BOOLEAN, AC!TickBegin(save) PROVE BetweenInv'
        <2>1. AC!EquityMark \in Int
              BY EquityIsInt
        <2> QED BY <1>1, <1>6, <2>1 DEF AC!TickBegin, AC!drawdown
  <1>7. ASSUME NEW t \in AccountTokens, NEW q \in 1..2, NEW px \in AccountPrices,
               AC!Buy(t, q, px) \/ AC!Sell(t, q, px) \/ AC!RecoverMissedFill(t, q, px)
        PROVE  BetweenInv'
        BY <1>1, <1>2, <1>7 DEF AC!Buy, AC!Sell, AC!RecoverMissedFill, AC!tick, AC!drawdown
  <1>8. CASE AC!TickEnd
        <2>1. equity_at_entry' \in Int
              BY <1>8 DEF AC!TickEnd
        <2> QED BY <1>8, <2>1, MultiplierFollows
  <1>9. CASE AC!Crash
        BY <1>9 DEF AC!Crash, BetweenInv
  <1>10. CASE AC!Restart
        BY <1>1, <1>2, <1>10 DEF AC!Restart, AC!RestoreLedgerSnapshot,
              AC!SeedLivePositionsFromOnchain, AC!tick, AC!drawdown
  <1>11. CASE UNCHANGED AC!vars
        BY <1>1, <1>2, <1>11 DEF AC!vars, AC!tick, AC!drawdown
  <1> QED BY <1>3, <1>4, <1>5, <1>6, <1>7, <1>8, <1>9, <1>10, <1>11 DEF AC!Next

(* Whatever path the equity took, across any number of crashes and for any  *)
(* tiers and band: the multiplier allows no more than the drawdown recorded *)
(* last allows, and no less than it would with the band on top (the end of  *)
(* TickAll, DrawdownTierMultiplier).                                        *)
THEOREM SpecDrawdownBetween ==
  ASSUME AC!AccountAssumption
  PROVE  AC!Spec => []AC!DrawdownBetween
  <1>1. AC!Init => BooksInv /\ MarksInv /\ BetweenInv
        BY BooksInit DEF AC!Init, AC!None, MarksInv, BetweenInv
  <1>2. BooksInv /\ MarksInv /\ BetweenInv /\ [AC!Next]_AC!vars => BooksInv' /\ MarksInv' /\ BetweenInv'
        BY BooksNext, MarksNext, BetweenNext
  <1>3. BetweenInv => AC!DrawdownBetween
        BY DEF BetweenInv, AC!DrawdownBetween, Allowed, AllowedWithBand
  <1> QED BY <1>1, <1>2, <1>3, PTL DEF AC!Spec

Positive(x) == IF x > 0 THEN x ELSE 0

(* The cash a tick has left before its fees, against the cash it began with,*)
(* as long as nothing is short.                                             *)
Left == CashOf(bankroll, pos, realized, fee) + (fee - fee_at_entry)
CoveredInv ==
  /\ cash_at_entry \in Int /\ fee_at_entry \in Int /\ bought \in Nat
  /\ accountTicking /\ ~oversold =>
       /\ \A t \in AccountTokens : pos[t].qty >= 0
       /\ Left >= cash_at_entry - bought * Positive(cash_at_entry)
       /\ bought > 0 => cash_at_entry > 0
       /\ bought > 0 /\ Fee > 0 => Left > cash_at_entry - bought * cash_at_entry

(* A booking in a tick takes no more than it may from the cash.             *)
LEMMA BookingCovered ==
  ASSUME AC!AccountAssumption, BooksInv, BooksInv', CoveredInv, accountTicking, ~oversold,
         NEW t \in AccountTokens, pos'[t].qty >= 0,
         \A u \in AccountTokens : u # t => pos'[u] = pos[u],
         UNCHANGED <<bankroll, cash_at_entry, fee_at_entry>>,
         NEW taken \in Int,
         (pos[t].cost - pos'[t].cost) + (realized' - realized) >= 0 - taken,
         \/ bought' = bought /\ taken <= 0
         \/ /\ bought' = bought + 1 /\ taken <= cash_at_entry /\ cash_at_entry > 0
            /\ Fee > 0 => taken < cash_at_entry
  PROVE  CoveredInv'
  <1> DEFINE x == Left
             y == Left'
             most == Positive(cash_at_entry)
             used == bought * most
  <1>1. /\ cash_at_entry \in Int /\ fee_at_entry \in Int /\ bought \in Nat /\ most \in Nat /\ used \in Int
        /\ x >= cash_at_entry - used
        /\ bought > 0 => cash_at_entry > 0
        /\ bought > 0 /\ Fee > 0 => x > cash_at_entry - used
        /\ \A u \in AccountTokens : pos'[u].qty >= 0
        <2>1. bought > 0 => used = bought * cash_at_entry
              BY DEF CoveredInv, Positive
        <2> QED BY <2>1 DEF CoveredInv, Positive
  <1>2. x \in Int /\ y \in Int /\ y >= x - taken
        <2>1. /\ pos \in [AccountTokens -> Holding] /\ pos' \in [AccountTokens -> Holding]
              /\ bankroll \in Int /\ realized \in Int /\ fee \in Int
              /\ realized' \in Int /\ fee' \in Int
              BY DEF BooksInv
        <2>2. Locked(pos') = Locked(pos) - pos[t].cost + pos'[t].cost
              BY <2>1, LockedMoves
        <2>3. Locked(pos) \in Int /\ pos[t].cost \in Int /\ pos'[t].cost \in Int
              BY <2>1, LockedIsInt DEF Holding
        <2> QED BY <1>1, <2>1, <2>2, <2>3 DEF Left, CashOf
  <1>3. bought' \in Nat /\ (bought' > 0 => cash_at_entry > 0)
        BY <1>1
  <1>4. /\ y >= cash_at_entry - bought' * most
        /\ bought' > 0 /\ Fee > 0 => y > cash_at_entry - bought' * most
        <2>1. CASE bought' = bought /\ taken <= 0
              <3>1. bought' * most = used
                    BY <2>1
              <3> HIDE DEF x, y, most, used
              <3> QED BY <1>1, <1>2, <2>1, <3>1
        <2>2. CASE /\ bought' = bought + 1 /\ taken <= cash_at_entry /\ cash_at_entry > 0
                   /\ Fee > 0 => taken < cash_at_entry
              <3>1. most = cash_at_entry
                    BY <2>2 DEF Positive
              <3>2. bought' * most = used + most
                    <4>1. \A a, b \in Int : (a + 1) * b = a * b + b
                          OBVIOUS
                    <4> HIDE DEF most
                    <4> QED BY <1>1, <2>2, <4>1
              <3> HIDE DEF x, y, most, used
              <3> QED BY <1>1, <1>2, <2>2, <3>1, <3>2
        <2> QED BY <2>1, <2>2
  <1>5. bought' > 0 => most = cash_at_entry
        BY <1>3 DEF Positive
  <1>6. most = Positive(cash_at_entry)'
        BY DEF Positive
  <1> HIDE DEF x, most
  <1>7. /\ y >= cash_at_entry' - bought' * Positive(cash_at_entry')
        /\ bought' > 0 => cash_at_entry' > 0
        /\ bought' > 0 /\ Fee > 0 => y > cash_at_entry' - bought' * cash_at_entry'
        BY <1>3, <1>4, <1>5, <1>6
  <1> QED BY <1>1, <1>3, <1>7 DEF CoveredInv

(* The money an order may spend, of the cash: the gate leaves room for the  *)
(* fee it reckons with.                                                     *)
LEMMA GateLeavesRoom ==
  ASSUME NEW d \in Nat \ {0}, NEW f \in Nat, NEW v \in Nat \ {0}, NEW c \in Int,
         d * v + f * v <= d * c
  PROVE  v <= c /\ (f > 0 => v < c)
  <1>1. \A a, b \in Nat : a * b \in Nat
        OBVIOUS
  <1>2. d * v \in Nat /\ f * v \in Nat /\ d * c \in Int
        BY <1>1
  <1>3. ASSUME v > c PROVE FALSE
        <2>1. d * (v - c) \in Nat \ {0}
              <3>1. v - c \in Nat \ {0}
                    BY <1>3
              <3> QED BY <3>1, PositiveProduct
        <2>2. d * (v - c) = d * v - d * c
              OBVIOUS
        <2> QED BY <1>2, <2>1, <2>2
  <1>4. ASSUME f > 0, v = c PROVE FALSE
        <2>1. f * v \in Nat \ {0}
              BY <1>4, PositiveProduct
        <2> QED BY <1>2, <1>4, <2>1
  <1> QED BY <1>3, <1>4

(* Only a tick spends against the cash it began with.                       *)
LEMMA CoveredNext ==
  ASSUME AC!AccountAssumption, BooksInv, BooksInv', CoveredInv, [AC!Next]_AC!vars
  PROVE  CoveredInv'
  <1>1. ASSUME accountTicking' = accountTicking, ~accountTicking,
               UNCHANGED <<cash_at_entry, fee_at_entry, bought>>
        PROVE  CoveredInv'
        BY <1>1 DEF CoveredInv
  <1>2. ASSUME UNCHANGED <<accountTicking, cash_at_entry, fee_at_entry, oversold, bought, bankroll, pos,
                           realized, fee>>
        PROVE  CoveredInv'
        BY <1>2 DEF CoveredInv, Left
  <1>0. ASSUME accountTicking, oversold', UNCHANGED <<cash_at_entry, fee_at_entry>>,
               bought' = bought \/ bought' = bought + 1
        PROVE  CoveredInv'
        BY <1>0 DEF CoveredInv
  <1>3. ASSUME NEW t \in AccountTokens, NEW p \in AccountPrices, AC!Quote(t, p) PROVE CoveredInv'
        BY <1>2, <1>3 DEF AC!Quote, AC!tick, AC!ledger
  <1>4. ASSUME NEW t \in AccountTokens, NEW o \in Decisions, AC!Resolve(t, o) PROVE CoveredInv'
        BY <1>2, <1>4 DEF AC!Resolve, AC!tick, AC!ledger
  <1>5. ASSUME NEW t \in AccountTokens, AC!Redeem(t) PROVE CoveredInv'
        BY <1>2, <1>5 DEF AC!Redeem, AC!tick, AC!ledger
  <1>6. ASSUME NEW save \in BOOLEAN, AC!TickBegin(save) PROVE CoveredInv'
        <2>1. /\ bought' = 0 /\ cash_at_entry' = AC!CashAvailable /\ fee_at_entry' = fee
              /\ oversold' = \E t \in AccountTokens : pos[t].qty < 0
              /\ UNCHANGED <<bankroll, pos, realized, fee>>
              BY <1>6 DEF AC!TickBegin, AC!ledger
        <2>2. /\ AC!CashAvailable = CashOf(bankroll, pos, realized, fee) - ShortOf(pos)
              /\ AC!CashAvailable \in Int /\ CashOf(bankroll, pos, realized, fee) \in Int
              /\ (\A t \in AccountTokens : pos[t].qty >= 0) => ShortOf(pos) = 0
              /\ fee \in Int /\ \A t \in AccountTokens : pos[t].qty \in Int
              BY CashIs DEF BooksInv, Holding
        <2>3. ~oversold' => \A t \in AccountTokens : pos[t].qty >= 0
              BY <2>1, <2>2
        <2>4. ~oversold' => Left' = cash_at_entry'
              BY <2>1, <2>2, <2>3 DEF Left
        <2>5. bought' * Positive(cash_at_entry') = 0
              BY <2>1, <2>2 DEF Positive
        <2> QED BY <2>1, <2>2, <2>3, <2>4, <2>5 DEF CoveredInv
  <1>7. ASSUME NEW t \in AccountTokens, NEW q \in 1..2, NEW px \in AccountPrices, AC!Buy(t, q, px) PROVE CoveredInv'
        <2>1. /\ accountTicking /\ bankroll' = bankroll /\ oversold' = oversold
              /\ AC!BookBuy(t, q, px) /\ Dollar * (q * px) + Fee * (q * px) <= Dollar * cash_at_entry
              /\ bought' = bought + 1 /\ cash_at_entry' = cash_at_entry /\ fee_at_entry' = fee_at_entry
              BY <1>7 DEF AC!Buy, AC!CashCovers
        <2>2. CASE oversold
              BY <1>0, <2>1, <2>2
        <2>3. CASE ~oversold
              <3> DEFINE v == q * px
              <3>1. /\ v \in Nat \ {0} /\ Fee \in Nat /\ Dollar \in Nat \ {0} /\ q \in Nat
                    <4>1. q \in Nat \ {0} /\ px \in Nat \ {0}
                          BY DEF AC!AccountAssumption
                    <4> QED BY <4>1, AccountFinite, PositiveProduct
              <3>2. /\ pos \in [AccountTokens -> Holding] /\ pos[t].qty >= 0 /\ pos[t].qty \in Int
                    /\ pos[t].cost \in Int /\ realized \in Int /\ cash_at_entry \in Int
                    BY <2>1, <2>3 DEF BooksInv, Holding, CoveredInv
              <3>3. /\ realized' = realized /\ pos'[t].cost = pos[t].cost + v
                    /\ pos'[t].qty = pos[t].qty + q
                    /\ \A u \in AccountTokens : u # t => pos'[u] = pos[u]
                    BY <2>1, <3>2, BoughtIs DEF AC!BookBuy
              <3>4. v <= cash_at_entry /\ (Fee > 0 => v < cash_at_entry)
                    <4>1. Dollar * v + Fee * v <= Dollar * cash_at_entry
                          BY <2>1
                    <4> HIDE DEF v
                    <4> QED BY <3>1, <3>2, <4>1, GateLeavesRoom
              <3> HIDE DEF v
              <3>5. /\ (pos[t].cost - pos'[t].cost) + (realized' - realized) >= 0 - v
                    /\ cash_at_entry > 0 /\ pos'[t].qty >= 0
                    BY <3>1, <3>2, <3>3, <3>4
              <3> QED BY <2>1, <2>3, <3>1, <3>3, <3>4, <3>5, BookingCovered
        <2> QED BY <2>2, <2>3
  <1>8. ASSUME NEW t \in AccountTokens, NEW q \in 1..2, NEW px \in AccountPrices, AC!Sell(t, q, px) PROVE CoveredInv'
        <2>1. /\ accountTicking /\ bankroll' = bankroll /\ oversold' = (oversold \/ q > pos[t].qty)
              /\ pos[t].qty > 0 /\ AC!BookSellRealized(t, q, px)
              /\ bought' = bought /\ cash_at_entry' = cash_at_entry /\ fee_at_entry' = fee_at_entry
              BY <1>8 DEF AC!Sell, AC!Sellable
        <2>2. CASE oversold'
              BY <1>0, <2>1, <2>2
        <2>3. CASE ~oversold'
              <3>1. /\ q * px \in Nat /\ q \in Nat /\ 0 \in Int
                    BY AccountFinite
              <3>2. /\ pos \in [AccountTokens -> Holding] /\ pos[t].qty \in Int
                    /\ pos[t].cost \in Int /\ realized \in Int
                    BY DEF BooksInv, Holding
              <3>3. /\ pos'[t].qty = pos[t].qty - q /\ realized' = realized + q * px - AC!CostOf(pos, t, q)
                    /\ pos'[t].cost = pos[t].cost - AC!CostOf(pos, t, q) /\ AC!CostOf(pos, t, q) \in Nat
                    /\ \A u \in AccountTokens : u # t => pos'[u] = pos[u]
                    BY <2>1, <3>2, SoldIs DEF AC!BookSellRealized
              <3>4. /\ (pos[t].cost - pos'[t].cost) + (realized' - realized) >= 0 - 0
                    /\ pos'[t].qty >= 0 /\ ~oversold
                    <4> DEFINE v == q * px
                               a == AC!CostOf(pos, t, q)
                    <4>1. /\ v \in Nat /\ a \in Nat /\ realized' = realized + v - a
                          /\ pos'[t].cost = pos[t].cost - a
                          BY <3>1, <3>3
                    <4> HIDE DEF v, a
                    <4>2. (pos[t].cost - pos'[t].cost) + (realized' - realized) >= 0 - 0
                          BY <3>2, <4>1
                    <4>3. ~oversold /\ ~(q > pos[t].qty)
                          BY <2>1, <2>3, Zenon
                    <4>4. pos'[t].qty >= 0
                          BY <3>1, <3>2, <3>3, <4>3
                    <4> QED BY <4>2, <4>3, <4>4
              <3> QED BY <2>1, <3>1, <3>3, <3>4, BookingCovered
        <2> QED BY <2>2, <2>3
  <1>9. ASSUME NEW t \in AccountTokens, NEW q \in 1..2, NEW px \in AccountPrices, AC!RecoverMissedFill(t, q, px)
        PROVE  CoveredInv'
        BY <1>1, <1>9 DEF AC!RecoverMissedFill, AC!tick
  <1>10. ASSUME NEW t \in AccountTokens, AC!SettleToken(t) PROVE CoveredInv'
        <2>1. /\ accountTicking /\ bankroll' = bankroll /\ oversold' = oversold
              /\ bought' = bought /\ cash_at_entry' = cash_at_entry /\ fee_at_entry' = fee_at_entry
              /\ realized' = realized + pos[t].qty * PaidFor(outcome[t]) - pos[t].cost
              /\ pos' = [pos EXCEPT ![t] = AC!Flat[t]]
              BY <1>10 DEF AC!SettleToken, AC!tick, AC!Payoff, PaidFor
        <2>2. CASE oversold
              BY <1>0, <2>1, <2>2
        <2>3. CASE ~oversold
              <3>1. /\ pos \in [AccountTokens -> Holding] /\ pos[t].qty \in Nat
                    /\ pos[t].cost \in Int /\ realized \in Int /\ 0 \in Int
                    BY <2>1, <2>3 DEF BooksInv, Holding, CoveredInv
              <3>2. pos[t].qty * PaidFor(outcome[t]) \in Nat
                    <4>1. \A a, b \in Nat : a * b \in Nat
                          OBVIOUS
                    <4>2. PaidFor(outcome[t]) \in Nat
                          BY PaidForIs
                    <4> QED BY <3>1, <4>1, <4>2
              <3>3. /\ pos'[t].cost = 0 /\ pos'[t].qty = 0 /\ \A u \in AccountTokens : u # t => pos'[u] = pos[u]
                    BY <2>1, <3>1 DEF AC!Flat
              <3>4. (pos[t].cost - pos'[t].cost) + (realized' - realized) >= 0 - 0
                    BY <2>1, <3>1, <3>2, <3>3
              <3> QED BY <2>1, <2>3, <3>1, <3>3, <3>4, BookingCovered
        <2> QED BY <2>2, <2>3
  <1>11. CASE AC!TickEnd \/ AC!Crash
        BY <1>11 DEF AC!TickEnd, AC!Crash, CoveredInv
  <1>12. CASE AC!Restart
        BY <1>1, <1>12 DEF AC!Restart, AC!RestoreLedgerSnapshot, AC!SeedLivePositionsFromOnchain,
              AC!tick, BooksInv
  <1>13. CASE UNCHANGED AC!vars
        BY <1>2, <1>13 DEF AC!vars, AC!tick, AC!ledger
  <1> QED BY <1>3, <1>4, <1>5, <1>6, <1>7, <1>8, <1>9, <1>10, <1>11, <1>12, <1>13 DEF AC!Next

(* Each purchase of a tick takes less than the cash the tick began with,    *)
(* fees aside, and a tick that begins overdrawn buys nothing, for any       *)
(* number of purchases, sales and settlements in between, unless a token is *)
(* short in it (account_equity frozen by TickAll, the cash gate of          *)
(* ExecuteControllerSide).                                                  *)
THEOREM SpecEachPurchaseCovered ==
  ASSUME AC!AccountAssumption
  PROVE  AC!Spec => []AC!EachPurchaseCovered
  <1>1. AC!Init => BooksInv /\ CoveredInv
        BY BooksInit DEF AC!Init, CoveredInv
  <1>2. BooksInv /\ CoveredInv /\ [AC!Next]_AC!vars => BooksInv' /\ CoveredInv'
        BY BooksNext, CoveredNext
  <1>3. BooksInv /\ CoveredInv => AC!EachPurchaseCovered
        <2> SUFFICES ASSUME BooksInv, CoveredInv, accountTicking, ~oversold
                     PROVE  LET left == AC!CashAvailable + (fee - fee_at_entry)
                            IN  /\ left >= cash_at_entry - bought * AC!Max({cash_at_entry, 0})
                                /\ bought > 0 => cash_at_entry > 0
                                /\ bought > 0 /\ Fee > 0 => left > cash_at_entry - bought * cash_at_entry
            BY DEF AC!EachPurchaseCovered
        <2>1. ASSUME NEW x \in Int PROVE AC!Max({x, 0}) = Positive(x)
              BY DEF AC!Max, Positive
        <2>2. AC!CashAvailable = CashOf(bankroll, pos, realized, fee)
              <3>1. /\ AC!CashAvailable = CashOf(bankroll, pos, realized, fee) - ShortOf(pos)
                    /\ CashOf(bankroll, pos, realized, fee) \in Int
                    /\ (\A t \in AccountTokens : pos[t].qty >= 0) => ShortOf(pos) = 0
                    BY CashIs DEF BooksInv
              <3>2. \A t \in AccountTokens : pos[t].qty >= 0
                    BY DEF CoveredInv
              <3> QED BY <3>1, <3>2
        <2>3. AC!CashAvailable + (fee - fee_at_entry) = Left
              BY <2>2 DEF Left
        <2>4. cash_at_entry \in Int
              BY DEF CoveredInv
        <2> QED BY <2>1, <2>3, <2>4 DEF CoveredInv
  <1> QED BY <1>1, <1>2, <1>3, PTL DEF AC!Spec

-----------------------------------------------------------------------------
(* Exposure: what the gateway counts against its caps is what the ledger    *)
(* holds, and an approved order is filled within the caps. The book, the    *)
(* gateway and the loop between them are an instance with variables of its  *)
(* own.                                                                     *)
(* Division rounds down.                                                    *)
LEMMA DivScales ==
  ASSUME NEW a \in Nat, NEW b \in Nat \ {0}, NEW m \in Nat \ {0}
  PROVE  (m * a) \div (m * b) = a \div b
  OBVIOUS

(* Whole multiples of the divisor come out.                                 *)
LEMMA DivShifts ==
  ASSUME NEW a \in Nat, NEW b \in Nat \ {0}, NEW k \in Nat
  PROVE  (a + k * b) \div b = (a \div b) + k
  OBVIOUS

(* A larger numerator gives no smaller quotient.                            *)
LEMMA DivGrows ==
  ASSUME NEW a \in Nat, NEW c \in Nat, NEW b \in Nat \ {0}, a <= c
  PROVE  a \div b \in Nat /\ a \div b <= c \div b
  OBVIOUS

(* What the ledger says of a token, long or short: nothing before the first *)
(* booking.                                                                 *)
Typed(pv) ==
  /\ pv \in EX!LP!PositionView
  /\ ~pv.listed => pv.shares = 0

(* And of one that was not oversold: it is never short.                     *)
Costed(pv) ==
  /\ pv \in EX!LP!PositionView
  /\ pv.shares >= 0
  /\ ~pv.listed => pv.shares = 0

(* That is all the difference.                                              *)
LEMMA CostedIsTyped ==
  ASSUME NEW pv
  PROVE  Costed(pv) <=> Typed(pv) /\ pv.shares >= 0
  BY DEF Costed, Typed

(* What a token costs, long or short, is a whole number of ticks.           *)
LEMMA NotionalIsInt ==
  ASSUME NEW pv, Typed(pv)
  PROVE  EX!Notional(pv) \in Int /\ (pv.shares = 0 => EX!Notional(pv) = 0)
  <1> DEFINE n == pv.shares * pv.avg.num
             d == pv.avg.den
  <1>1. n \in Int /\ d \in Nat \ {0} /\ (pv.shares = 0 => n = 0)
        BY DEF Typed, EX!LP!PositionView, EX!LP!Fraction
  <1>2. EX!Notional(pv) = IF n >= 0 THEN (2 * n + d) \div (2 * d) ELSE -((d - 2 * n) \div (2 * d))
        BY DEF EX!Notional
  <1>3. /\ 2 * n + d \in Int /\ d - 2 * n \in Int /\ 2 * d \in Nat \ {0}
        /\ n = 0 => (2 * n + d) \div (2 * d) = 0
        <2> HIDE DEF n, d
        <2> QED BY <1>1
  <1>4. ASSUME NEW a \in Int, NEW b \in Nat \ {0} PROVE a \div b \in Int /\ -(a \div b) \in Int
        OBVIOUS
  <1>5. (2 * n + d) \div (2 * d) \in Int /\ -((d - 2 * n) \div (2 * d)) \in Int
        <2> HIDE DEF n, d
        <2> QED BY <1>3, <1>4
  <1> HIDE DEF n, d
  <1> QED BY <1>1, <1>2, <1>3, <1>5

(* A booking of any size, long or short, leaves a position.                 *)
LEMMA UpdatedIsTyped ==
  ASSUME NEW pv, Typed(pv), NEW k \in Int, NEW price \in EX!LP!Fraction
  PROVE  LET new == EX!LP!UpdatedPosition(pv, k, price)
         IN  Typed(new) /\ new.listed = TRUE /\ new.shares = pv.shares + k
  <1>1. /\ pv.shares \in Int /\ pv.avg \in EX!LP!Fraction /\ price.num \in Nat
        /\ pv.avg.num \in Nat /\ pv.avg.den \in Nat \ {0} /\ price.den \in Nat \ {0}
        BY DEF Typed, EX!LP!PositionView, EX!LP!Fraction
  <1>2. EX!LP!Zero \in EX!LP!Fraction
        BY DEF EX!LP!Zero, EX!LP!Fraction
  <1>3. ASSUME k > 0, pv.shares > 0
        PROVE  EX!LP!WeightedMean(pv.shares, pv.avg, k, price) \in EX!LP!Fraction
        <2> DEFINE s == pv.shares
        <2>1. s \in Nat \ {0} /\ k \in Nat \ {0} /\ s + k \in Nat \ {0}
              BY <1>1, <1>3
        <2>2. ASSUME NEW a \in Nat, NEW b \in Nat PROVE a * b \in Nat /\ a + b \in Nat
              OBVIOUS
        <2>3. ASSUME NEW a \in Nat \ {0}, NEW b \in Nat \ {0} PROVE a * b \in Nat \ {0}
              OBVIOUS
        <2>4. s * pv.avg.num * price.den + k * price.num * pv.avg.den \in Nat
              <3> HIDE DEF s
              <3> QED BY <1>1, <2>1, <2>2
        <2>5. (s + k) * (pv.avg.den * price.den) \in Nat \ {0}
              <3> HIDE DEF s
              <3> QED BY <1>1, <2>1, <2>3
        <2> QED BY <2>4, <2>5 DEF EX!LP!WeightedMean, EX!LP!Fraction
  <1>4. EX!LP!EntryPrice(pv, k, price) \in EX!LP!Fraction
        BY <1>1, <1>2, <1>3 DEF EX!LP!EntryPrice
  <1>5. pv.shares + k \in Int
        BY <1>1
  <1> QED BY <1>4, <1>5 DEF EX!LP!UpdatedPosition, Typed, EX!LP!PositionView

(* The fields of a sound position, typed.                                   *)
LEMMA SoundHas ==
  ASSUME NEW pv, Costed(pv)
  PROVE  /\ pv.shares \in Nat /\ pv.avg.num \in Nat /\ pv.avg.den \in Nat \ {0}
         /\ pv.shares * pv.avg.num \in Nat /\ pv.listed \in BOOLEAN
  BY DEF Costed, EX!LP!PositionView, EX!LP!Fraction

(* A listed position that is not short is sound.                            *)
LEMMA PositionIsSound ==
  ASSUME NEW n \in Nat, NEW price \in EX!LP!Fraction
  PROVE  Costed([listed |-> TRUE, shares |-> n, avg |-> price])
  BY DEF Costed, EX!LP!PositionView

(* A record of two naturals is a mean price.                                *)
LEMMA FractionIs ==
  ASSUME NEW n \in Nat, NEW d \in Nat \ {0}
  PROVE  [num |-> n, den |-> d] \in EX!LP!Fraction
  BY DEF EX!LP!Fraction

(* The cost of what is held is rounded half up.                             *)
LEMMA NotionalOfHeld ==
  ASSUME NEW pv, Costed(pv)
  PROVE  /\ EX!Notional(pv) = (2 * (pv.shares * pv.avg.num) + pv.avg.den) \div (2 * pv.avg.den)
         /\ EX!Notional(pv) \in Nat
         /\ pv.shares = 0 => EX!Notional(pv) = 0
  <1>1. /\ pv.shares \in Nat /\ pv.avg.num \in Nat /\ pv.avg.den \in Nat \ {0}
        /\ pv.shares * pv.avg.num \in Nat
        BY SoundHas
  <1>2. EX!Notional(pv) = (2 * (pv.shares * pv.avg.num) + pv.avg.den) \div (2 * pv.avg.den)
        BY <1>1 DEF EX!Notional
  <1>3. ASSUME NEW a \in Nat, NEW d \in Nat \ {0}
        PROVE  (2 * a + d) \div (2 * d) \in Nat /\ (a = 0 => (2 * a + d) \div (2 * d) = 0)
        OBVIOUS
  <1>4. EX!Notional(pv) \in Nat
        BY <1>1, <1>2, <1>3
  <1>5. pv.shares = 0 => EX!Notional(pv) = 0
        <2>1. pv.shares = 0 => pv.shares * pv.avg.num = 0
              BY <1>1
        <2> QED BY <1>1, <1>2, <1>3, <2>1
  <1> QED BY <1>2, <1>4, <1>5

(* A purchase adds exactly what it cost, whatever the mean price becomes:   *)
(* the mean is kept as a fraction and the two roundings agree.              *)
LEMMA PurchaseAdds ==
  ASSUME NEW pv, Costed(pv), NEW k \in Nat \ {0}, NEW p \in Nat \ {0}
  PROVE  LET new == EX!LP!UpdatedPosition(pv, k, EX!LP!Ticks(p))
         IN  Costed(new) /\ EX!Notional(new) = EX!Notional(pv) + k * p
  <1> DEFINE new == EX!LP!UpdatedPosition(pv, k, EX!LP!Ticks(p))
             s == pv.shares
             n == pv.avg.num
             d == pv.avg.den
  <1>1. s \in Nat /\ n \in Nat /\ d \in Nat \ {0} /\ k * p \in Nat /\ s * n \in Nat
        BY SoundHas
  <1>2. new.listed = TRUE /\ new.shares = s + k /\ new.avg = EX!LP!EntryPrice(pv, k, EX!LP!Ticks(p))
        /\ new = [listed |-> TRUE, shares |-> new.shares, avg |-> new.avg]
        BY DEF EX!LP!UpdatedPosition
  <1>3. CASE s = 0
        <2>1. new.avg = [num |-> p, den |-> 1]
              BY <1>2, <1>3 DEF EX!LP!EntryPrice, EX!LP!Ticks
        <2>2. new.shares = k /\ new.avg.num = p /\ new.avg.den = 1
              BY <1>2, <1>3, <2>1
        <2>3. Costed(new)
              <3>1. [num |-> p, den |-> 1] \in EX!LP!Fraction
                    BY FractionIs
              <3>2. new = [listed |-> TRUE, shares |-> k, avg |-> [num |-> p, den |-> 1]]
                    BY <1>2, <2>1, <2>2
              <3> QED BY <3>1, <3>2, PositionIsSound
        <2>4. EX!Notional(new) = (2 * (k * p) + 1) \div (2 * 1)
              <3> HIDE DEF new
              <3> QED BY <2>2, <2>3, NotionalOfHeld
        <2>5. ASSUME NEW a \in Nat PROVE (2 * a + 1) \div (2 * 1) = a
              OBVIOUS
        <2>6. EX!Notional(pv) = 0
              BY <1>3, NotionalOfHeld
        <2>7. EX!Notional(new) = EX!Notional(pv) + k * p
              <3> HIDE DEF new
              <3>1. EX!Notional(new) = k * p
                    BY <1>1, <2>4, <2>5
              <3> QED BY <1>1, <2>6, <3>1
        <2> QED BY <2>3, <2>7
  <1>4. CASE s # 0
        <2>1. pv.listed = TRUE
              BY <1>4, SoundHas DEF Costed
        <2>2. new.avg = [num |-> s * n * 1 + k * p * d, den |-> (s + k) * (d * 1)]
              BY <1>1, <1>2, <1>4, <2>1 DEF EX!LP!EntryPrice, EX!LP!Ticks, EX!LP!WeightedMean
        <2> DEFINE x == s * n + k * p * d
                   m == s + k
        <2>3. x \in Nat /\ m \in Nat \ {0} /\ m * d \in Nat \ {0} /\ m * x \in Nat
              <3>1. k * p * d \in Nat /\ m \in Nat \ {0}
                    BY <1>1
              <3>2. x \in Nat
                    BY <1>1, <3>1
              <3> HIDE DEF x, m
              <3> QED BY <1>1, <3>1, <3>2
        <2>4. new.shares = m /\ new.avg = [num |-> x, den |-> m * d]
              <3>1. s * n * 1 = s * n /\ d * 1 = d
                    BY <1>1
              <3> QED BY <1>2, <2>2, <3>1
        <2>5. Costed(new)
              <3> HIDE DEF x, m
              <3>1. [num |-> x, den |-> m * d] \in EX!LP!Fraction
                    BY <2>3, FractionIs
              <3>2. new = [listed |-> TRUE, shares |-> m, avg |-> [num |-> x, den |-> m * d]]
                    BY <1>2, <2>4
              <3> QED BY <2>3, <3>1, <3>2, PositionIsSound
        <2>6. EX!Notional(new) = (2 * (m * x) + m * d) \div (2 * (m * d))
              <3>1. new.avg.num = x /\ new.avg.den = m * d
                    BY <2>4
              <3> HIDE DEF new, x, m
              <3> QED BY <2>4, <2>5, <3>1, NotionalOfHeld
        <2>7. 2 * (m * x) + m * d = m * (2 * x + d) /\ 2 * (m * d) = m * (2 * d)
              <3> HIDE DEF x, m
              <3> QED BY <1>1, <2>3
        <2>8. EX!Notional(new) = (2 * x + d) \div (2 * d)
              <3>1. 2 * x + d \in Nat /\ 2 * d \in Nat \ {0}
                    <4> HIDE DEF x
                    <4> QED BY <1>1, <2>3
              <3> DEFINE a == 2 * x + d
                         b == 2 * d
              <3>2. EX!Notional(new) = (m * a) \div (m * b) /\ a \in Nat /\ b \in Nat \ {0}
                    BY <2>6, <2>7, <3>1
              <3>3. EX!Notional(new) = a \div b
                    <4> HIDE DEF a, b, m, new
                    <4> QED BY <2>3, <3>2, DivScales
              <3> QED BY <3>3
        <2>9. 2 * x + d = (2 * (s * n) + d) + (k * p) * (2 * d)
              <3>1. 2 * (k * p * d) = (k * p) * (2 * d)
                    BY <1>1
              <3> QED BY <1>1, <3>1
        <2>10. EX!Notional(new) = ((2 * (s * n) + d) \div (2 * d)) + k * p
              <3> DEFINE a == 2 * (s * n) + d
                         b == 2 * d
              <3>1. a \in Nat /\ b \in Nat \ {0} /\ k * p \in Nat
                    BY <1>1
              <3>2. EX!Notional(new) = (a + (k * p) * b) \div b
                    BY <2>8, <2>9
              <3> HIDE DEF a, b, new
              <3>3. EX!Notional(new) = (a \div b) + k * p
                    BY <3>1, <3>2, DivShifts
              <3> QED BY <3>3 DEF a, b
        <2>11. EX!Notional(pv) = (2 * (s * n) + d) \div (2 * d)
              BY NotionalOfHeld
        <2> QED BY <2>5, <2>10, <2>11
  <1> QED BY <1>3, <1>4

(* A sale, at whatever price, takes cost away.                              *)
LEMMA SaleTakes ==
  ASSUME NEW pv, Costed(pv), NEW k \in Nat \ {0}, k <= pv.shares, NEW price
  PROVE  LET new == EX!LP!UpdatedPosition(pv, -k, price)
         IN  /\ Costed(new) /\ new.shares = pv.shares - k
             /\ EX!Notional(new) <= EX!Notional(pv)
  <1> DEFINE new == EX!LP!UpdatedPosition(pv, -k, price)
             s == pv.shares
             n == pv.avg.num
             d == pv.avg.den
  <1>1. s \in Nat /\ n \in Nat /\ d \in Nat \ {0} /\ s * n \in Nat /\ pv.listed = TRUE
        BY SoundHas DEF Costed
  <1>2. /\ new = [listed |-> TRUE, shares |-> s - k, avg |-> EX!LP!EntryPrice(pv, -k, price)]
        /\ pv.avg \in EX!LP!Fraction
        BY <1>1 DEF EX!LP!UpdatedPosition, Costed, EX!LP!PositionView
  <1>3. CASE k = s
        <2>1. EX!LP!EntryPrice(pv, -k, price) = EX!LP!Zero
              BY <1>1, <1>3 DEF EX!LP!EntryPrice
        <2>2. Costed(new) /\ new.shares = 0
              <3>1. EX!LP!Zero \in EX!LP!Fraction
                    BY FractionIs DEF EX!LP!Zero
              <3>2. s - k = 0
                    BY <1>1, <1>3
              <3>3. new = [listed |-> TRUE, shares |-> 0, avg |-> EX!LP!Zero]
                    BY <1>2, <2>1, <3>2
              <3> QED BY <3>1, <3>3, PositionIsSound
        <2>3. EX!Notional(new) = 0 /\ EX!Notional(pv) \in Nat
              <3> HIDE DEF new
              <3> QED BY <2>2, NotionalOfHeld
        <2> QED BY <1>1, <1>3, <2>2, <2>3
  <1>4. CASE k # s
        <2>0. EX!LP!EntryPrice(pv, -k, price) = pv.avg
              BY <1>1, <1>4 DEF EX!LP!EntryPrice
        <2>1. new.avg = pv.avg
              BY <1>2, <2>0
        <2>2. Costed(new) /\ new.shares = s - k
              <3>1. new = [listed |-> TRUE, shares |-> s - k, avg |-> pv.avg]
                    BY <1>2, <2>0
              <3>2. s - k \in Nat
                    BY <1>1
              <3> QED BY <3>2, <1>2, <3>1, PositionIsSound
        <2>3. (s - k) * n \in Nat /\ (s - k) * n <= s * n
              BY <1>1
        <2>4. /\ EX!Notional(new) = (2 * ((s - k) * n) + d) \div (2 * d)
              /\ EX!Notional(pv) = (2 * (s * n) + d) \div (2 * d)
              <3> HIDE DEF new
              <3> QED BY <2>1, <2>2, NotionalOfHeld
        <2>5. ASSUME NEW a \in Nat, NEW b \in Nat, a <= b
              PROVE  (2 * a + d) \div (2 * d) <= (2 * b + d) \div (2 * d)
              <3>1. 2 * a + d \in Nat /\ 2 * b + d \in Nat /\ 2 * a + d <= 2 * b + d
                    /\ 2 * d \in Nat \ {0}
                    BY <1>1, <2>5, SMTT(30)
              <3> QED BY <3>1, DivGrows
        <2>6. EX!Notional(new) <= EX!Notional(pv)
              <3> HIDE DEF new
              <3> QED BY <1>1, <2>3, <2>4, <2>5
        <2> QED BY <2>2, <2>6
  <1> QED BY <1>3, <1>4

(* A snapshot's position is booked as one fill of all its shares at its     *)
(* mean price: it costs what it cost.                                       *)
LEMMA RestoredCosts ==
  ASSUME NEW pv, Typed(pv)
  PROVE  LET new == IF pv.shares # 0
                    THEN EX!LP!UpdatedPosition(EX!LP!NoPosition, pv.shares, pv.avg)
                    ELSE EX!LP!NoPosition
         IN  Typed(new) /\ EX!Notional(new) = EX!Notional(pv) /\ new.shares = pv.shares
  <1>1. /\ pv.shares \in Int /\ pv.avg.num \in Nat /\ pv.avg.den \in Nat \ {0}
        /\ pv.avg \in EX!LP!Fraction
        BY DEF Typed, EX!LP!PositionView, EX!LP!Fraction
  <1>2. Typed(EX!LP!NoPosition) /\ EX!LP!NoPosition.shares = 0
        BY DEF EX!LP!NoPosition, Typed, EX!LP!PositionView, EX!LP!Fraction, EX!LP!Zero
  <1>3. CASE pv.shares = 0
        BY <1>2, <1>3, NotionalIsInt
  <1>4. CASE pv.shares # 0
        <2> DEFINE new == EX!LP!UpdatedPosition(EX!LP!NoPosition, pv.shares, pv.avg)
        <2>1. Typed(new)
              BY <1>1, <1>2, UpdatedIsTyped
        <2>2. /\ new.shares = pv.shares
              /\ new.avg = IF pv.avg.num > 0 THEN pv.avg ELSE EX!LP!Zero
              BY <1>1 DEF EX!LP!UpdatedPosition, EX!LP!NoPosition, EX!LP!EntryPrice
        <2>3. EX!Notional(new) = EX!Notional(pv)
              <3>1. CASE pv.avg.num > 0
                    BY <2>2, <3>1 DEF EX!Notional
              <3>2. CASE pv.avg.num = 0
                    <4>1. new.avg.num = 0 /\ new.avg.den = 1
                          BY <2>2, <3>2 DEF EX!LP!Zero
                    <4>2. pv.shares * 0 = 0
                          BY <1>1
                    <4>3. ASSUME NEW d \in Nat \ {0} PROVE (2 * 0 + d) \div (2 * d) = 0
                          OBVIOUS
                    <4>4. EX!Notional(pv) = (2 * 0 + pv.avg.den) \div (2 * pv.avg.den)
                          BY <3>2, <4>2 DEF EX!Notional
                    <4>5. EX!Notional(new) = (2 * 0 + 1) \div (2 * 1)
                          <5> HIDE DEF new
                          <5> QED BY <2>2, <4>1, <4>2 DEF EX!Notional
                    <4>6. EX!Notional(pv) = 0 /\ EX!Notional(new) = 0
                          <5> HIDE DEF new
                          <5> QED BY <1>1, <4>3, <4>4, <4>5
                    <4> QED BY <4>6
              <3> QED BY <1>1, <3>1, <3>2
        <2> QED BY <1>4, <2>1, <2>2, <2>3
  <1> QED BY <1>3, <1>4

-----------------------------------------------------------------------------
(* What the tokens of some markets cost together, for any costs n of the    *)
(* tokens.                                                                  *)
TokensIn(C) == {t \in TokenIds : ConditionOf[t] \in C}
CostIn(n, C) == SumFunctionOnSet(n, TokensIn(C))
Costs == [TokenIds -> Int]

(* There are finitely many tokens and markets.                              *)
LEMMA ConstantsFinite ==
  ASSUME EX!ExposureAssumption
  PROVE  IsFiniteSet(TokenIds) /\ IsFiniteSet(GatewayConditions)
  <1>1. \A S : EX!IsFiniteSet(S) => IsFiniteSet(S)
        BY DEF EX!IsFiniteSet, IsFiniteSet
  <1> QED BY <1>1 DEF EX!ExposureAssumption

(* So a set of markets has finitely many tokens.                            *)
LEMMA TokensFinite ==
  ASSUME EX!ExposureAssumption, NEW C
  PROVE  IsFiniteSet(TokensIn(C)) /\ TokensIn(C) \subseteq TokenIds
  <1>1. TokensIn(C) \subseteq TokenIds
        BY DEF TokensIn
  <1> QED BY <1>1, ConstantsFinite, FS_Subset

(* Costs are whole numbers.                                                 *)
LEMMA CostIsInt ==
  ASSUME EX!ExposureAssumption, NEW n \in Costs, NEW C
  PROVE  CostIn(n, C) \in Int
  <1> DEFINE T == TokensIn(C)
  <1>1. IsFiniteSet(T) /\ \A t \in T : n[t] \in Int
        BY TokensFinite DEF Costs
  <1>2. SumFunctionOnSet(n, T) \in Int
        <2> HIDE DEF T
        <2> QED BY <1>1, SumType
  <1> QED BY <1>2 DEF CostIn

(* Where nothing was oversold they are not negative.                        *)
LEMMA CostIsNat ==
  ASSUME EX!ExposureAssumption, NEW n, NEW C, \A t \in TokensIn(C) : n[t] \in Nat
  PROVE  CostIn(n, C) \in Nat
  <1> DEFINE T == TokensIn(C)
  <1>1. IsFiniteSet(T) /\ \A t \in T : n[t] \in Nat
        BY TokensFinite
  <1>2. SumFunctionOnSet(n, T) \in Nat
        <2> HIDE DEF T
        <2> QED BY <1>1, SumOfNaturals
  <1> QED BY <1>2 DEF CostIn

(* Nothing costs less, nor do the markets.                                  *)
LEMMA CostGrows ==
  ASSUME EX!ExposureAssumption, NEW n \in Costs, NEW m \in Costs, NEW C,
         \A t \in TokensIn(C) : n[t] <= m[t]
  PROVE  CostIn(n, C) <= CostIn(m, C)
  <1> DEFINE T == TokensIn(C)
  <1>1. IsFiniteSet(T) /\ \A t \in T : n[t] \in Int /\ m[t] \in Int /\ n[t] <= m[t]
        BY TokensFinite DEF Costs
  <1>2. SumFunctionOnSet(n, T) <= SumFunctionOnSet(m, T)
        <2> HIDE DEF T
        <2> QED BY <1>1, SumMonotone
  <1> QED BY <1>2 DEF CostIn

(* The cost of markets looks at their own tokens only.                      *)
LEMMA CostSame ==
  ASSUME EX!ExposureAssumption, NEW n, NEW m, NEW C, \A t \in TokensIn(C) : n[t] = m[t]
  PROVE  CostIn(n, C) = CostIn(m, C)
  <1>1. IsFiniteSet(TokensIn(C))
        BY TokensFinite
  <1> QED BY <1>1, SumSame DEF CostIn

(* One token costs v more.                                                  *)
LEMMA CostMoves ==
  ASSUME EX!ExposureAssumption, NEW n \in Costs, NEW m \in Costs, NEW C, NEW t \in TokensIn(C),
         NEW v \in Int, m[t] = n[t] + v, \A u \in TokenIds : u # t => m[u] = n[u]
  PROVE  CostIn(m, C) = CostIn(n, C) + v
  <1> DEFINE T == TokensIn(C)
  <1>1. /\ IsFiniteSet(T) /\ t \in T /\ n[t] \in Int
        /\ \A u \in T : n[u] \in Int /\ m[u] \in Int
        /\ \A u \in T : u # t => m[u] = n[u]
        BY TokensFinite DEF Costs
  <1>2. SumFunctionOnSet(n, T) \in Int
        <2> HIDE DEF T
        <2> QED BY <1>1, SumType
  <1>3. SumFunctionOnSet(m, T) = SumFunctionOnSet(n, T) - n[t] + m[t]
        <2> HIDE DEF T
        <2> QED BY <1>1, SumChanges
  <1>4. SumFunctionOnSet(m, T) = SumFunctionOnSet(n, T) + v
        <2> HIDE DEF T
        <2> QED BY <1>1, <1>2, <1>3
  <1> QED BY <1>4 DEF CostIn

(* The costs of markets that share nothing add up.                          *)
LEMMA CostOfBoth ==
  ASSUME EX!ExposureAssumption, NEW n \in Costs, NEW C, NEW D, C \cap D = {}
  PROVE  CostIn(n, C \cup D) = CostIn(n, C) + CostIn(n, D)
  <1> DEFINE S == TokensIn(C)
             T == TokensIn(D)
  <1>1. /\ IsFiniteSet(S) /\ IsFiniteSet(T) /\ S \cap T = {}
        /\ \A x \in S \cup T : n[x] \in Int
        <2>1. IsFiniteSet(S) /\ IsFiniteSet(T)
              BY TokensFinite
        <2>2. S \cap T = {}
              BY DEF TokensIn
        <2>3. S \cup T \subseteq TokenIds
              BY DEF TokensIn
        <2>4. \A x \in TokenIds : n[x] \in Int
              BY DEF Costs
        <2> QED BY <2>1, <2>2, <2>3, <2>4
  <1>2. TokensIn(C \cup D) = S \cup T
        BY DEF TokensIn
  <1>3. SumFunctionOnSet(n, S \cup T) = SumFunctionOnSet(n, S) + SumFunctionOnSet(n, T)
        <2> HIDE DEF S, T
        <2> QED BY <1>1, SumSplits
  <1> QED BY <1>2, <1>3 DEF CostIn

(* Markets that hold nothing cost nothing.                                  *)
LEMMA CostOfNone ==
  ASSUME EX!ExposureAssumption, NEW n, NEW C, \A t \in TokensIn(C) : n[t] = 0
  PROVE  CostIn(n, C) = 0
  <1>1. IsFiniteSet(TokensIn(C))
        BY TokensFinite
  <1> QED BY <1>1, SumOfZeroes DEF CostIn

(* Markets that hold nothing may be left out.                               *)
LEMMA CostOfSome ==
  ASSUME EX!ExposureAssumption, NEW n \in Costs, NEW C, NEW D, C \subseteq D,
         \A t \in TokensIn(D \ C) : n[t] = 0
  PROVE  CostIn(n, D) = CostIn(n, C)
  <1> DEFINE R == D \ C
  <1>1. C \cup R = D /\ C \cap R = {}
        OBVIOUS
  <1>2. CostIn(n, C \cup R) = CostIn(n, C) + CostIn(n, R) /\ CostIn(n, R) = 0 /\ CostIn(n, C) \in Int
        <2>1. \A t \in TokensIn(R) : n[t] = 0
              OBVIOUS
        <2> HIDE DEF R
        <2> QED BY <1>1, <2>1, CostOfBoth, CostOfNone, CostIsInt
  <1>3. CostIn(n, C) + CostIn(n, R) = CostIn(n, C)
        <2> HIDE DEF R
        <2> QED BY <1>2
  <1> QED BY <1>1, <1>2, <1>3

(* The cost of markets is the sum of what each of them costs.               *)
LEMMA CostPerMarket ==
  ASSUME EX!ExposureAssumption, NEW n \in Costs, NEW C \in SUBSET GatewayConditions,
         NEW f, \A c \in GatewayConditions : f[c] = CostIn(n, {c})
  PROVE  CostIn(n, C) = SumFunctionOnSet(f, C)
  <1> DEFINE Good == {D \in SUBSET GatewayConditions : CostIn(n, D) = SumFunctionOnSet(f, D)}
  <1>0. IsFiniteSet(GatewayConditions) /\ \A c \in GatewayConditions : f[c] \in Int
        <2>1. ASSUME NEW c \in GatewayConditions PROVE f[c] \in Int
              <3>1. CostIn(n, {c}) \in Int
                    BY CostIsInt
              <3> QED BY <3>1
        <2> QED BY <2>1, ConstantsFinite
  <1>1. ASSUME NEW D \in SUBSET GatewayConditions, \A U \in SUBSET D : U # D => U \in Good
        PROVE  D \in Good
        <2>1. CASE D = {}
              <3>1. \A t \in TokensIn({}) : n[t] = 0
                    BY DEF TokensIn
              <3> QED BY <2>1, <3>1, CostOfNone, SumEmpty
        <2>2. CASE D # {}
              <3>1. PICK c : c \in D
                    BY <2>2
              <3> DEFINE U == D \ {c}
              <3>2. /\ U \in Good /\ U \cup {c} = D /\ U \cap {c} = {} /\ IsFiniteSet(D)
                    /\ c \in GatewayConditions /\ \A d \in D : f[d] \in Int
                    BY <1>0, <1>1, <3>1, FS_Subset
              <3>3. SumFunctionOnSet(f, D) = f[c] + SumFunctionOnSet(f, U)
                    BY <3>1, <3>2, SumTakesOut
              <3>4. CostIn(n, U \cup {c}) = CostIn(n, U) + CostIn(n, {c})
                    <4> HIDE DEF U
                    <4> QED BY <3>2, CostOfBoth
              <3>5. CostIn(n, U) \in Int /\ CostIn(n, {c}) \in Int
                    BY CostIsInt
              <3>6. CostIn(n, D) = CostIn(n, U) + CostIn(n, {c}) /\ f[c] = CostIn(n, {c})
                    BY <3>2, <3>4
              <3>7. CostIn(n, U) = SumFunctionOnSet(f, U)
                    BY <3>2
              <3> QED BY <3>3, <3>5, <3>6, <3>7
        <2> QED BY <2>1, <2>2
  <1>2. SUBSET GatewayConditions \subseteq Good
        <2> HIDE DEF Good
        <2> QED BY <1>0, <1>1, SubsetInduction
  <1> QED BY <1>2

-----------------------------------------------------------------------------
(* The gateway knows the costs n: of each token, of each market, and what   *)
(* the markets registered with each event cost, each for itself and without *)
(* its sign.                                                                *)
CostOf(hold) == [t \in TokenIds |-> EX!Notional(hold[t])]
RegisteredWith(ev, e) == {c \in GatewayConditions : ev[c] = e}
Grossed(n) == [c \in GatewayConditions |-> EX!RG!Magnitude(CostIn(n, {c}))]
Told(n, tok, con, ev, gross) ==
  /\ \A t \in TokenIds : tok[t] = n[t]
  /\ \A c \in GatewayConditions : con[c] = CostIn(n, {c})
  /\ \A e \in Events : gross[e] = SumFunctionOnSet(Grossed(n), RegisteredWith(ev, e))

(* Only what was oversold, or came past the gateway, can be short.          *)
Held(hold, out) ==
  /\ hold \in [TokenIds -> EX!LP!PositionView]
  /\ \A t \in TokenIds : Typed(hold[t]) /\ (ConditionOf[t] \notin out => Costed(hold[t]))

ExposureInv ==
  /\ EX!TypeOK
  /\ Held(positions, outside) /\ Held(ledger_file, outside)
  /\ \A c \in GatewayConditions : condition_event[c] \in {NoEvent, ParentRef[c]}
  /\ Told(CostOf(positions), token_exposure_usdc, condition_exposure_usdc, condition_event,
          event_gross_usdc)

(* What is held stays held when more has been oversold.                     *)
LEMMA HeldMore ==
  ASSUME NEW hold, NEW out, NEW more, Held(hold, out), out \subseteq more
  PROVE  Held(hold, more)
  BY DEF Held

(* A magnitude is a number.                                                 *)
LEMMA MagnitudeIsInt ==
  ASSUME NEW x \in Int
  PROVE  EX!RG!Magnitude(x) \in Int
  BY DEF EX!RG!Magnitude

(* So is what a market costs without its sign, and so are their sums.       *)
LEMMA GrossedIsInt ==
  ASSUME EX!ExposureAssumption, NEW n \in Costs, NEW C \in SUBSET GatewayConditions
  PROVE  /\ IsFiniteSet(C) /\ \A c \in GatewayConditions : Grossed(n)[c] \in Int
         /\ SumFunctionOnSet(Grossed(n), C) \in Int
  <1>1. IsFiniteSet(C)
        BY ConstantsFinite, FS_Subset
  <1>2. ASSUME NEW c \in GatewayConditions PROVE Grossed(n)[c] \in Int
        <2>1. CostIn(n, {c}) \in Int
              BY CostIsInt
        <2> QED BY <2>1, MagnitudeIsInt DEF Grossed
  <1> DEFINE f == Grossed(n)
  <1>3. SumFunctionOnSet(f, C) \in Int
        <2>1. \A c \in C : f[c] \in Int
              BY <1>2
        <2> HIDE DEF f
        <2> QED BY <1>1, <2>1, SumType
  <1> QED BY <1>1, <1>2, <1>3

(* The sum the specification writes is the sum of these lemmas.             *)
LEMMA SameSum ==
  ASSUME NEW f, NEW S
  PROVE  EX!SumFunctionOnSet(f, S) = SumFunctionOnSet(f, S)
  BY DEF SumFunctionOnSet, FoldFunctionOnSet, MapThenFoldSet,
         EX!SumFunctionOnSet, EX!FoldFunctionOnSet, EX!MapThenFoldSet

(* What is held costs a whole number, token by token, and none below zero   *)
(* where nothing was oversold.                                              *)
LEMMA CostOfHeld ==
  ASSUME NEW hold, NEW out, Held(hold, out)
  PROVE  /\ CostOf(hold) \in Costs
         /\ \A t \in TokenIds : ConditionOf[t] \notin out => CostOf(hold)[t] \in Nat
  <1>1. \A t \in TokenIds : EX!Notional(hold[t]) \in Int
        BY NotionalIsInt DEF Held
  <1>2. \A t \in TokenIds : ConditionOf[t] \notin out => EX!Notional(hold[t]) \in Nat
        BY NotionalOfHeld DEF Held
  <1> QED BY <1>1, <1>2 DEF CostOf, Costs

(* Told, of the variables, is the property the run checks.                  *)
LEMMA ToldIsLedger ==
  Told(CostOf(positions), token_exposure_usdc, condition_exposure_usdc, condition_event,
       event_gross_usdc) <=> EX!ExposuresAreLedger
  <1>1. \A C : EX!Cost(C) = CostIn(CostOf(positions), C)
        BY SameSum DEF EX!Cost, CostIn, CostOf, TokensIn
  <1>2. \A t \in TokenIds : CostOf(positions)[t] = EX!Notional(positions[t])
        BY DEF CostOf
  <1>3. Grossed(CostOf(positions))
          = [c \in GatewayConditions |-> EX!RG!Magnitude(EX!Cost({c}))]
        BY <1>1 DEF Grossed
  <1> DEFINE f == Grossed(CostOf(positions))
  <1>4. \A e : EX!SumFunctionOnSet(f, RegisteredWith(condition_event, e))
                = SumFunctionOnSet(f, RegisteredWith(condition_event, e))
        BY SameSum
  <1>5. EX!ExposuresAreLedger <=>
          /\ \A t \in TokenIds : token_exposure_usdc[t] = EX!Notional(positions[t])
          /\ \A c \in GatewayConditions : condition_exposure_usdc[c] = EX!Cost({c})
          /\ \A e \in Events : event_gross_usdc[e]
                                 = EX!SumFunctionOnSet(f, RegisteredWith(condition_event, e))
        BY <1>3 DEF EX!ExposuresAreLedger, RegisteredWith
  <1> QED BY <1>1, <1>2, <1>4, <1>5 DEF Told

(* The sum the feed takes is the cost of the one market.                    *)
LEMMA ConditionCost ==
  ASSUME NEW hold, NEW c
  PROVE  EX!get_per_condition_notional(hold, c) = CostIn(CostOf(hold), {c})
  <1>1. EX!TokensOf(c) = TokensIn({c})
        BY DEF EX!TokensOf, TokensIn
  <1>2. [t \in TokenIds |-> EX!get_per_outcome_notional(hold, t)] = CostOf(hold)
        BY DEF EX!get_per_outcome_notional, CostOf
  <1> QED BY <1>1, <1>2, SameSum DEF EX!get_per_condition_notional, CostIn

(* A feed after a booking: the tokens that are not in the ledger have not   *)
(* moved, so what the gateway keeps of their markets is still right.        *)
LEMMA MarketTold ==
  ASSUME EX!ExposureAssumption, NEW n \in Costs, NEW m \in Costs, NEW listed,
         \A t \in TokenIds : ~listed[t] => m[t] = n[t],
         NEW c \in GatewayConditions, NEW fed, fed = CostIn(n, {c})
  PROVE  (IF \E t \in TokensIn({c}) : listed[t] THEN CostIn(m, {c}) ELSE fed) = CostIn(m, {c})
  <1>1. CASE \A t \in TokensIn({c}) : ~listed[t]
        <2>1. \A t \in TokensIn({c}) : m[t] = n[t]
              BY <1>1, TokensFinite
        <2>2. CostIn(m, {c}) = CostIn(n, {c})
              BY <2>1, CostSame
        <2> QED BY <2>2
  <1> QED BY <1>1

(* The handlers that book: whatever they do to the positions soundly, their *)
(* feed leaves the gateway with the costs of what is held.                  *)
LEMMA FeedKeeps ==
  ASSUME EX!ExposureAssumption, ExposureInv, Held(positions', outside'), EX!FeedRiskGateway(positions'),
         \A t \in TokenIds : ~positions'[t].listed => positions'[t] = positions[t],
         ledger_file' = ledger_file, known' = known, order' \subseteq order,
         outside \subseteq outside', outside' \subseteq GatewayConditions, blind' = blind
  PROVE  ExposureInv'
  <1> DEFINE ncon == condition_exposure_usdc'
  <1>1. /\ token_exposure_usdc' = [t \in TokenIds |->
              IF positions'[t].listed THEN EX!Notional(positions'[t]) ELSE token_exposure_usdc[t]]
        /\ ncon = [c \in GatewayConditions |->
              IF \E t \in TokensIn({c}) : positions'[t].listed
              THEN CostIn(CostOf(positions'), {c}) ELSE condition_exposure_usdc[c]]
        /\ daily_pnl_usdc_' \in Pnls
        /\ UNCHANGED <<state_, bankroll_usdc_, condition_event, seen_signal_ids, approvals, killed>>
        <2>1. \A c : EX!TokensOf(c) = TokensIn({c})
              BY DEF EX!TokensOf, TokensIn
        <2> QED BY <2>1, ConditionCost DEF EX!FeedRiskGateway, EX!Fed, EX!get_per_outcome_notional
  <1>2. event_gross_usdc' = [e \in Events |-> event_gross_usdc[e]
           + SumFunctionOnSet([c \in GatewayConditions |-> EX!RG!Magnitude(ncon[c])
                                                    - EX!RG!Magnitude(condition_exposure_usdc[c])],
                              RegisteredWith(condition_event, e))]
        BY <1>1, SameSum DEF EX!FeedRiskGateway, EX!GrossMoved, RegisteredWith, EX!Fed,
                             EX!TokensOf, TokensIn
  <1>3. Told(CostOf(positions), token_exposure_usdc, condition_exposure_usdc, condition_event,
             event_gross_usdc) /\ Held(positions, outside)
        BY DEF ExposureInv
  <1> DEFINE n == CostOf(positions)
             m == CostOf(positions')
  <1>4. n \in Costs /\ m \in Costs
        BY <1>3, CostOfHeld
  <1>5. ASSUME NEW c \in GatewayConditions
        PROVE  /\ condition_exposure_usdc[c] = CostIn(n, {c}) /\ ncon[c] = CostIn(m, {c})
               /\ ncon[c] \in Int
        <2> DEFINE listed == [t \in TokenIds |-> positions'[t].listed]
        <2>1. condition_exposure_usdc[c] = CostIn(n, {c})
              BY <1>3 DEF Told
        <2>2. ncon[c] = IF \E t \in TokensIn({c}) : listed[t]
                        THEN CostIn(m, {c}) ELSE condition_exposure_usdc[c]
              <3>1. \A t \in TokensIn({c}) : listed[t] = positions'[t].listed
                    BY DEF TokensIn
              <3> QED BY <1>1, <3>1
        <2>3. \A t \in TokenIds : ~listed[t] => m[t] = n[t]
              BY DEF CostOf
        <2>4. ncon[c] = CostIn(m, {c})
              <3> HIDE DEF n, m, listed, ncon
              <3> QED BY <1>4, <2>1, <2>2, <2>3, MarketTold
        <2>5. CostIn(m, {c}) \in Int
              <3> HIDE DEF m
              <3> QED BY <1>4, CostIsInt
        <2> QED BY <2>1, <2>4, <2>5
  <1>6. ASSUME NEW e \in Events
        PROVE  /\ event_gross_usdc'[e] = SumFunctionOnSet(Grossed(m), RegisteredWith(condition_event, e))
               /\ event_gross_usdc'[e] \in Int
        <2> DEFINE C == RegisteredWith(condition_event, e)
                   f == Grossed(n)
                   g == Grossed(m)
                   d == [c \in GatewayConditions |-> EX!RG!Magnitude(ncon[c])
                                                - EX!RG!Magnitude(condition_exposure_usdc[c])]
        <2>1. event_gross_usdc'[e] = event_gross_usdc[e] + SumFunctionOnSet(d, C)
              BY <1>2
        <2>2. event_gross_usdc[e] = SumFunctionOnSet(f, C)
              BY <1>3 DEF Told
        <2>3. C \in SUBSET GatewayConditions
              BY DEF RegisteredWith
        <2>4. /\ IsFiniteSet(C) /\ \A c \in C : f[c] \in Int /\ g[c] \in Int
              /\ SumFunctionOnSet(g, C) \in Int
              <3> HIDE DEF n, m, C
              <3> QED BY <1>4, <2>3, GrossedIsInt
        <2>5. ASSUME NEW c \in C PROVE d[c] \in Int /\ g[c] = f[c] + d[c]
              <3>1. c \in GatewayConditions /\ f[c] \in Int /\ g[c] \in Int
                    BY <2>3, <2>4
              <3>2. /\ f[c] = EX!RG!Magnitude(condition_exposure_usdc[c])
                    /\ g[c] = EX!RG!Magnitude(ncon[c])
                    BY <1>5, <3>1 DEF Grossed
              <3>3. d[c] = g[c] - f[c]
                    BY <3>1, <3>2
              <3> HIDE DEF d, f, g
              <3> QED BY <3>1, <3>3
        <2>6. SumFunctionOnSet(g, C) = SumFunctionOnSet(f, C) + SumFunctionOnSet(d, C)
              <3> HIDE DEF C, d, f, g
              <3> QED BY <2>4, <2>5, SumAdds
        <2> QED BY <2>1, <2>2, <2>4, <2>6
  <1>7. Told(CostOf(positions'), token_exposure_usdc', condition_exposure_usdc', condition_event,
             event_gross_usdc')
        <2>1. \A t \in TokenIds : token_exposure_usdc'[t] = m[t]
              BY <1>1, <1>3 DEF Told, CostOf
        <2> QED BY <1>5, <1>6, <2>1 DEF Told
  <1>8. EX!TypeOK'
        <2>1. token_exposure_usdc' \in [TokenIds -> Int]
              <3>1. \A t \in TokenIds : token_exposure_usdc'[t] \in Int
                    BY <1>7, NotionalIsInt DEF Told, CostOf, Held
              <3> QED BY <1>1, <3>1
        <2>2. condition_exposure_usdc' \in [GatewayConditions -> Int]
              <3>1. ncon = [c \in GatewayConditions |-> ncon[c]]
                    BY <1>1
              <3> HIDE DEF ncon, n, m
              <3>2. \A c \in GatewayConditions : ncon[c] \in Int
                    BY <1>5
              <3>3. ncon \in [GatewayConditions -> Int]
                    BY <3>1, <3>2
              <3> QED BY <3>3 DEF ncon
        <2>3. event_gross_usdc' \in [Events -> Int]
              BY <1>2, <1>6
        <2>4. daily_pnl_usdc_' \in Int
              BY <1>1 DEF EX!ExposureAssumption
        <2> QED BY <1>1, <2>1, <2>2, <2>3, <2>4 DEF ExposureInv, EX!TypeOK, EX!RG!TypeOK, Held
  <1>9. Held(ledger_file', outside')
        BY HeldMore DEF ExposureInv
  <1> QED BY <1>1, <1>7, <1>8, <1>9 DEF ExposureInv

(* A fill of one token.  A sale of more than is held takes its market       *)
(* outside the caps.                                                        *)
LEMMA BookedIsHeld ==
  ASSUME EX!ExposureAssumption, Held(positions, outside), NEW t \in TokenIds, NEW p \in Prices,
         NEW shares \in Int, shares # 0, outside \subseteq outside',
         ConditionOf[t] \notin outside' => positions[t].shares + shares >= 0,
         positions' = EX!Booked(t, shares, EX!LP!Ticks(p))
  PROVE  /\ Held(positions', outside')
         /\ \A u \in TokenIds : ~positions'[u].listed => positions'[u] = positions[u]
         /\ \A u \in TokenIds : u # t => CostOf(positions')[u] = CostOf(positions)[u]
         /\ ConditionOf[t] \notin outside' /\ shares > 0
              => CostOf(positions')[t] = CostOf(positions)[t] + shares * p
         /\ ConditionOf[t] \notin outside' /\ shares < 0
              => CostOf(positions')[t] <= CostOf(positions)[t]
  <1> DEFINE new == EX!LP!UpdatedPosition(positions[t], shares, EX!LP!Ticks(p))
  <1>1. positions' = [positions EXCEPT ![t] = new] /\ p \in Nat \ {0}
        BY DEF EX!Booked, EX!ExposureAssumption
  <1>2. EX!LP!Ticks(p) \in EX!LP!Fraction
        BY <1>1, FractionIs DEF EX!LP!Ticks
  <1>3. Typed(new) /\ new.listed = TRUE /\ new.shares = positions[t].shares + shares
        BY <1>2, UpdatedIsTyped DEF Held
  <1>4. ASSUME ConditionOf[t] \notin outside'
        PROVE  /\ Costed(new)
               /\ shares > 0 => EX!Notional(new) = EX!Notional(positions[t]) + shares * p
               /\ shares < 0 => EX!Notional(new) <= EX!Notional(positions[t])
        <2>0. Costed(positions[t]) /\ positions[t].shares \in Nat
              BY <1>4, SoundHas DEF Held
        <2>1. CASE shares > 0
              BY <1>1, <2>0, <2>1, PurchaseAdds
        <2>2. CASE shares < 0
              <3> DEFINE k == -shares
              <3>1. k \in Nat \ {0} /\ k <= positions[t].shares /\ shares = -k
                    BY <1>4, <2>0, <2>2
              <3>2. /\ Costed(EX!LP!UpdatedPosition(positions[t], -k, EX!LP!Ticks(p)))
                    /\ EX!Notional(EX!LP!UpdatedPosition(positions[t], -k, EX!LP!Ticks(p)))
                         <= EX!Notional(positions[t])
                    <4> HIDE DEF k
                    <4> QED BY <2>0, <3>1, SaleTakes
              <3> QED BY <2>2, <3>1, <3>2
        <2> QED BY <2>1, <2>2
  <1> HIDE DEF new
  <1>5. new \in EX!LP!PositionView
        BY <1>3 DEF Typed
  <1>6. /\ positions'[t] = new /\ \A u \in TokenIds : u # t => positions'[u] = positions[u]
        /\ positions' \in [TokenIds -> EX!LP!PositionView]
        BY <1>1, <1>5 DEF Held
  <1>7. Held(positions', outside')
        <2>1. ASSUME NEW u \in TokenIds
              PROVE  Typed(positions'[u]) /\ (ConditionOf[u] \notin outside' => Costed(positions'[u]))
              <3>1. CASE u = t
                    BY <1>3, <1>4, <1>6, <3>1
              <3>2. CASE u # t
                    BY <1>6, <3>2 DEF Held
              <3> QED BY <3>1, <3>2
        <2> QED BY <1>6, <2>1 DEF Held
  <1>8. /\ \A u \in TokenIds : ~positions'[u].listed => positions'[u] = positions[u]
        /\ \A u \in TokenIds : u # t => CostOf(positions')[u] = CostOf(positions)[u]
        BY <1>3, <1>6 DEF CostOf
  <1>9. CostOf(positions')[t] = EX!Notional(new) /\ CostOf(positions)[t] = EX!Notional(positions[t])
        BY <1>6 DEF CostOf
  <1> QED BY <1>4, <1>7, <1>8, <1>9

(* Markets that are closed, whatever is held of them.                       *)
LEMMA FlatIsHeld ==
  ASSUME EX!ExposureAssumption, Held(positions, outside), NEW C, positions' = EX!Flat(C)
  PROVE  /\ Held(positions', outside)
         /\ \A t \in TokenIds : ~positions'[t].listed => positions'[t] = positions[t]
         /\ \A t \in TokenIds : ConditionOf[t] \notin outside
                                  => CostOf(positions')[t] <= CostOf(positions)[t]
  <1>1. ASSUME NEW t \in TokenIds
        PROVE  /\ Typed(positions'[t])
               /\ ConditionOf[t] \notin outside
                    => /\ Costed(positions'[t])
                       /\ EX!Notional(positions'[t]) <= EX!Notional(positions[t])
               /\ ~positions'[t].listed => positions'[t] = positions[t]
        <2> DEFINE k == positions[t].shares
                   new == EX!LP!UpdatedPosition(positions[t], -k, EX!LP!Zero)
        <2>1. positions'[t] = IF ConditionOf[t] \in C /\ k # 0 THEN new ELSE positions[t]
              BY DEF EX!Flat
        <2>2. /\ Typed(positions[t]) /\ k \in Int /\ -k \in Int
              /\ ConditionOf[t] \notin outside => Costed(positions[t]) /\ k \in Nat
              <3>1. Typed(positions[t]) /\ (ConditionOf[t] \notin outside => Costed(positions[t]))
                    BY DEF Held
              <3>2. k \in Int
                    BY <3>1 DEF Typed, EX!LP!PositionView
              <3> HIDE DEF k
              <3> QED BY <3>1, <3>2, SoundHas DEF k
        <2>3. CASE ConditionOf[t] \in C /\ k # 0
              <3>1. EX!LP!Zero \in EX!LP!Fraction
                    BY FractionIs DEF EX!LP!Zero
              <3>2. Typed(new) /\ new.listed = TRUE
                    <4> HIDE DEF k
                    <4> QED BY <2>2, <3>1, UpdatedIsTyped
              <3>3. ASSUME ConditionOf[t] \notin outside
                    PROVE  Costed(new) /\ EX!Notional(new) <= EX!Notional(positions[t])
                    BY <2>2, <2>3, <3>3, SaleTakes
              <3> HIDE DEF new
              <3> QED BY <2>1, <2>3, <3>2, <3>3
        <2>4. CASE ~(ConditionOf[t] \in C /\ k # 0)
              <3>1. EX!Notional(positions[t]) \in Int
                    BY <2>2, NotionalIsInt
              <3>2. positions'[t] = positions[t]
                    BY <2>1, <2>4
              <3> QED BY <2>2, <3>1, <3>2
        <2> QED BY <2>3, <2>4
  <1>2. positions' = [t \in TokenIds |-> positions'[t]]
        BY DEF EX!Flat
  <1>3. \A t \in TokenIds : positions'[t] \in EX!LP!PositionView
        BY <1>1 DEF Typed
  <1>4. positions' \in [TokenIds -> EX!LP!PositionView]
        BY <1>2, <1>3
  <1> QED BY <1>1, <1>4 DEF Held, CostOf

(* A market is registered: its event costs what it cost and the market.     *)
LEMMA RegisterKeeps ==
  ASSUME EX!ExposureAssumption, ExposureInv, NEW c \in GatewayConditions, EX!RegisterEvent(c)
  PROVE  ExposureInv'
  <1> DEFINE n == CostOf(positions)
             e == ParentRef[c]
             v == EX!RG!Magnitude(condition_exposure_usdc[c])
  <1>1. /\ condition_event[c] = NoEvent /\ c \in GatewayConditions
        /\ e \in Events /\ NoEvent \notin Events
        /\ condition_event' = [condition_event EXCEPT ![c] = e]
        /\ condition_event \in [GatewayConditions -> Events \cup {NoEvent}]
        BY DEF EX!RegisterEvent, EX!Due, EX!RG!SetConditionEvent, EX!ExposureAssumption,
               ExposureInv, EX!TypeOK, EX!RG!TypeOK
  <1>2. /\ n \in Costs /\ Told(n, token_exposure_usdc, condition_exposure_usdc, condition_event,
                               event_gross_usdc)
        BY CostOfHeld DEF ExposureInv
  <1>3. v = Grossed(n)[c] /\ v \in Int
        <2>1. v = Grossed(n)[c]
              BY <1>2 DEF Told, Grossed
        <2>2. Grossed(n)[c] \in Int
              <3> HIDE DEF n
              <3> QED BY <1>2, GrossedIsInt
        <2> QED BY <2>1, <2>2
  <1>4. /\ UNCHANGED <<positions, ledger_file, known, order, outside, blind, state_, daily_pnl_usdc_,
                       bankroll_usdc_, condition_exposure_usdc, token_exposure_usdc,
                       seen_signal_ids, approvals, killed>>
        /\ event_gross_usdc' = [x \in Events |-> event_gross_usdc[x] + (IF x = e THEN v ELSE 0) - 0]
        <2> QED BY <1>1 DEF EX!RegisterEvent, EX!RG!SetConditionEvent, EX!RG!money, EX!bounds
  <1>5. ASSUME NEW x \in Events
        PROVE  event_gross_usdc'[x] = SumFunctionOnSet(Grossed(n), RegisteredWith(condition_event', x))
               /\ event_gross_usdc'[x] \in Int
        <2> DEFINE C == RegisteredWith(condition_event, x)
                   f == Grossed(n)
        <2>1. event_gross_usdc[x] = SumFunctionOnSet(f, C)
              BY <1>2 DEF Told
        <2>2. /\ C \in SUBSET GatewayConditions /\ IsFiniteSet(C)
              /\ \A d \in GatewayConditions : f[d] \in Int
              /\ SumFunctionOnSet(f, C) \in Int
              <3>1. C \in SUBSET GatewayConditions
                    BY DEF RegisteredWith
              <3> HIDE DEF n, C
              <3> QED BY <1>2, <3>1, GrossedIsInt
        <2>3. CASE x = e
              <3>1. RegisteredWith(condition_event', x) = C \cup {c} /\ c \notin C
                    BY <1>1, <2>3 DEF RegisteredWith
              <3>2. SumFunctionOnSet(f, C \cup {c}) = f[c] + SumFunctionOnSet(f, C)
                    <4>1. \A d \in C \cup {c} : f[d] \in Int
                          BY <1>1, <2>2
                    <4> HIDE DEF f, C
                    <4> QED BY <2>2, <3>1, <4>1, SumGains
              <3>3. event_gross_usdc'[x] = event_gross_usdc[x] + v
                    BY <1>3, <1>4, <2>1, <2>2, <2>3
              <3> HIDE DEF f, C, v, e
              <3> QED BY <1>3, <2>1, <2>2, <3>1, <3>2, <3>3 DEF f
        <2>4. CASE x # e
              <3>1. RegisteredWith(condition_event', x) = C
                    BY <1>1, <2>4 DEF RegisteredWith
              <3>2. event_gross_usdc'[x] = event_gross_usdc[x]
                    BY <1>3, <1>4, <2>1, <2>2, <2>4
              <3> QED BY <2>1, <2>2, <3>1, <3>2
        <2> QED BY <2>3, <2>4
  <1>6. Told(CostOf(positions'), token_exposure_usdc', condition_exposure_usdc', condition_event',
             event_gross_usdc')
        BY <1>2, <1>4, <1>5 DEF Told
  <1>7. event_gross_usdc' \in [Events -> Int]
        BY <1>4, <1>5
  <1>8. /\ condition_event' \in [GatewayConditions -> Events \cup {NoEvent}]
        /\ \A d \in GatewayConditions : condition_event'[d] \in {NoEvent, ParentRef[d]}
        BY <1>1 DEF ExposureInv
  <1> QED BY <1>4, <1>6, <1>7, <1>8 DEF ExposureInv, EX!TypeOK, EX!RG!TypeOK

(* A new process is fed the costs of the restored positions, and nothing   *)
(* is registered.                                                           *)
LEMMA RestoreKeeps ==
  ASSUME EX!ExposureAssumption, ExposureInv, EX!RestoreLedgerSnapshot
  PROVE  /\ ExposureInv'
         /\ \A t \in TokenIds : CostOf(positions')[t] = CostOf(ledger_file)[t]
  <1>1. ASSUME NEW t \in TokenIds
        PROVE  /\ Typed(positions'[t]) /\ EX!Notional(positions'[t]) = EX!Notional(ledger_file[t])
               /\ ConditionOf[t] \notin outside => Costed(positions'[t])
        <2>1. Typed(ledger_file[t]) /\ (ConditionOf[t] \notin outside => Costed(ledger_file[t]))
              BY DEF ExposureInv, Held
        <2>2. positions'[t] = IF ledger_file[t].shares # 0
                THEN EX!LP!UpdatedPosition(EX!LP!NoPosition, ledger_file[t].shares, ledger_file[t].avg)
                ELSE EX!LP!NoPosition
              BY DEF EX!RestoreLedgerSnapshot
        <2>3. /\ Typed(positions'[t]) /\ EX!Notional(positions'[t]) = EX!Notional(ledger_file[t])
              /\ positions'[t].shares = ledger_file[t].shares
              BY <2>1, <2>2, RestoredCosts
        <2> QED BY <2>1, <2>3, CostedIsTyped
  <1>2. Held(positions', outside)
        <2>1. positions' = [t \in TokenIds |-> positions'[t]]
              BY DEF EX!RestoreLedgerSnapshot
        <2>2. \A t \in TokenIds : positions'[t] \in EX!LP!PositionView
              BY <1>1 DEF Typed
        <2>3. positions' \in [TokenIds -> EX!LP!PositionView]
              BY <2>1, <2>2
        <2> QED BY <1>1, <2>3 DEF Held
  <1> DEFINE m == CostOf(positions')
  <1>3. m \in Costs
        BY <1>2, CostOfHeld
  <1>4. /\ token_exposure_usdc' = [t \in TokenIds |-> EX!Notional(positions'[t])]
        /\ condition_exposure_usdc' = [c \in GatewayConditions |-> CostIn(m, {c})]
        /\ condition_event' = [c \in GatewayConditions |-> NoEvent]
        /\ event_gross_usdc' = [e \in Events |-> 0]
        /\ state_' = "RUNNING" /\ daily_pnl_usdc_' \in Pnls /\ bankroll_usdc_' = GatewayBankroll
        /\ seen_signal_ids' = {} /\ approvals' = [s \in 1..MaxOrders |-> 0] /\ killed' = FALSE
        /\ known' = {} /\ order' = {} /\ UNCHANGED <<ledger_file, outside, blind>>
        BY ConditionCost DEF EX!RestoreLedgerSnapshot, EX!NewGateway, EX!get_per_outcome_notional
  <1>5. \A c \in GatewayConditions : CostIn(m, {c}) \in Int
        <2> SUFFICES ASSUME NEW c \in GatewayConditions PROVE CostIn(m, {c}) \in Int
            OBVIOUS
        <2> HIDE DEF m
        <2> QED BY <1>3, CostIsInt
  <1>6. ASSUME NEW e \in Events PROVE event_gross_usdc'[e] = SumFunctionOnSet(Grossed(m), RegisteredWith(condition_event', e))
        <2>1. RegisteredWith(condition_event', e) = {}
              BY <1>4 DEF RegisteredWith, EX!ExposureAssumption
        <2> QED BY <1>4, <2>1, SumEmpty
  <1>7. Told(CostOf(positions'), token_exposure_usdc', condition_exposure_usdc', condition_event',
             event_gross_usdc')
        BY <1>4, <1>6 DEF Told, CostOf
  <1>8. EX!TypeOK'
        <2>1. token_exposure_usdc' \in [TokenIds -> Int]
              <3>1. \A t \in TokenIds : EX!Notional(positions'[t]) \in Int
                    BY <1>1, NotionalIsInt
              <3> QED BY <1>4, <3>1
        <2>2. condition_exposure_usdc' \in [GatewayConditions -> Int]
              <3> HIDE DEF m
              <3> QED BY <1>4, <1>5
        <2>3. /\ daily_pnl_usdc_' \in Int /\ bankroll_usdc_' \in Nat /\ state_' \in EX!RG!RmState
              /\ event_gross_usdc' \in [Events -> Int] /\ approvals' \in [1..MaxOrders -> Nat]
              /\ condition_event' \in [GatewayConditions -> Events \cup {NoEvent}]
              BY <1>4 DEF EX!ExposureAssumption, EX!RG!RmState
        <2> QED BY <1>2, <1>4, <2>1, <2>2, <2>3 DEF ExposureInv, EX!TypeOK, EX!RG!TypeOK, Held
  <1>9. \A c \in GatewayConditions : condition_event'[c] \in {NoEvent, ParentRef[c]}
        BY <1>4
  <1>10. \A t \in TokenIds : CostOf(positions')[t] = CostOf(ledger_file)[t]
         BY <1>1 DEF CostOf
  <1>11. Held(ledger_file', outside') /\ Held(positions', outside')
         BY <1>2, <1>4 DEF ExposureInv
  <1> QED BY <1>7, <1>8, <1>9, <1>10, <1>11 DEF ExposureInv

(* Nothing is held and the gateway counts nothing.                          *)
LEMMA ExposureInit ==
  ASSUME EX!ExposureAssumption, EX!Init
  PROVE  ExposureInv
  <1>1. Costed(EX!LP!NoPosition) /\ Typed(EX!LP!NoPosition) /\ EX!LP!NoPosition \in EX!LP!PositionView
        /\ EX!LP!NoPosition.shares = 0
        BY FractionIs DEF EX!LP!NoPosition, Costed, Typed, EX!LP!PositionView, EX!LP!Zero
  <1>2. Held(positions, outside) /\ Held(ledger_file, outside) /\ \A t \in TokenIds : CostOf(positions)[t] = 0
        BY <1>1, NotionalOfHeld DEF EX!Init, Held, CostOf
  <1>3. ASSUME NEW C PROVE CostIn(CostOf(positions), C) = 0
        BY <1>2, TokensFinite, CostOfNone
  <1>4. Told(CostOf(positions), token_exposure_usdc, condition_exposure_usdc, condition_event,
             event_gross_usdc)
        <2>1. \A e \in Events : RegisteredWith(condition_event, e) = {}
              BY DEF RegisteredWith, EX!Init, EX!ExposureAssumption
        <2> QED BY <1>2, <1>3, <2>1, SumEmpty DEF Told, EX!Init
  <1>5. EX!TypeOK
        <2>1. /\ state_ \in EX!RG!RmState /\ daily_pnl_usdc_ \in Int /\ bankroll_usdc_ \in Nat
              /\ condition_exposure_usdc \in [GatewayConditions -> Int] /\ token_exposure_usdc \in [TokenIds -> Int]
              /\ event_gross_usdc \in [Events -> Int] /\ approvals \in [1..MaxOrders -> Nat]
              /\ condition_event \in [GatewayConditions -> Events \cup {NoEvent}]
              /\ seen_signal_ids = {} /\ killed = FALSE
              BY DEF EX!Init, EX!RG!RmState, EX!ExposureAssumption
        <2>2. /\ known = {} /\ order = {} /\ outside = {} /\ blind = {}
              BY DEF EX!Init
        <2> QED BY <1>2, <2>1, <2>2 DEF EX!TypeOK, EX!RG!TypeOK, Held
  <1> QED BY <1>2, <1>4, <1>5 DEF ExposureInv, EX!Init

(* An answer of the gateway moves nothing the ledger says.                  *)
LEMMA EvaluateKeeps ==
  ASSUME EX!ExposureAssumption, ExposureInv, NEW it \in EX!RG!Intent, EX!Evaluate(it)
  PROVE  /\ ExposureInv'
         /\ UNCHANGED <<positions, ledger_file, outside, condition_event>>
         /\ order' \subseteq {it} /\ (order' # {} => EX!RG!Passes(it))
         /\ blind' = IF order' # {} /\ it.side = "Buy" /\ EX!Unseen(ConditionOf[it.token])
                     THEN blind \cup {ParentRef[ConditionOf[it.token]]} ELSE blind
  <1>1. /\ UNCHANGED <<positions, ledger_file, known, outside, bankroll_usdc_, daily_pnl_usdc_,
                       condition_exposure_usdc, token_exposure_usdc, condition_event,
                       event_gross_usdc>>
        /\ EX!RG!Evaluate(it) /\ order' = IF approvals' = approvals THEN {} ELSE {it}
        /\ blind' = IF approvals' # approvals /\ it.side = "Buy" /\ EX!Unseen(ConditionOf[it.token])
                    THEN blind \cup {ParentRef[ConditionOf[it.token]]} ELSE blind
        BY DEF EX!Evaluate, EX!RG!Evaluate, EX!RG!Halt, EX!RG!Reject, EX!RG!Approve, EX!RG!money,
               EX!RG!exposures
  <1>2. /\ state_' \in {state_, "HALTED"} /\ seen_signal_ids' \subseteq seen_signal_ids \cup {it.signal}
        /\ approvals' # approvals => EX!RG!Passes(it)
        /\ approvals' \in {approvals, [approvals EXCEPT ![it.signal] = @ + 1]}
        /\ killed' \in {killed, TRUE}
        BY <1>1 DEF EX!RG!Evaluate, EX!RG!Halt, EX!RG!Reject, EX!RG!Approve, EX!RG!Remembered
  <1>3. it.signal \in 1..MaxOrders /\ it.token \in TokenIds
        BY DEF EX!RG!Intent
  <1>4. blind' \subseteq Events
        <2>1. ParentRef[ConditionOf[it.token]] \in Events
              BY <1>3 DEF EX!ExposureAssumption
        <2> QED BY <1>1, <2>1 DEF ExposureInv, EX!TypeOK
  <1>5. EX!TypeOK'
        <2>1. /\ state_' \in EX!RG!RmState /\ seen_signal_ids' \subseteq 1..MaxOrders
              /\ approvals' \in [1..MaxOrders -> Nat] /\ killed' \in BOOLEAN
              <3>1. /\ state_ \in EX!RG!RmState /\ seen_signal_ids \subseteq 1..MaxOrders
                    /\ approvals \in [1..MaxOrders -> Nat] /\ killed \in BOOLEAN
                    BY DEF ExposureInv, EX!TypeOK, EX!RG!TypeOK
              <3>2. [approvals EXCEPT ![it.signal] = @ + 1] \in [1..MaxOrders -> Nat]
                    BY <1>3, <3>1
              <3> QED BY <1>2, <1>3, <3>1, <3>2 DEF EX!RG!RmState
        <2> QED BY <1>1, <1>4, <2>1 DEF ExposureInv, EX!TypeOK, EX!RG!TypeOK
  <1> QED BY <1>1, <1>2, <1>5 DEF ExposureInv

(* Every step, one case per action.                                         *)
LEMMA ExposureNext ==
  ASSUME EX!ExposureAssumption, ExposureInv, [EX!Next]_EX!vars
  PROVE  ExposureInv'
  <1>0. /\ Held(positions, outside) /\ (Prices \cup Lots \cup Amounts) \subseteq Nat \ {0}
        /\ outside \subseteq GatewayConditions /\ ConditionOf \in [TokenIds -> GatewayConditions]
        BY DEF ExposureInv, EX!TypeOK, EX!ExposureAssumption
  <1>1. ASSUME NEW c \in GatewayConditions, EX!RegisterEvent(c) PROVE ExposureInv'
        BY <1>1, RegisterKeeps
  <1>2. ASSUME NEW C \in SUBSET GatewayConditions, EX!FeedRiskGateway(positions'), positions' = EX!Flat(C),
               UNCHANGED <<ledger_file, known, order, outside, blind>>
        PROVE  ExposureInv'
        <2>1. /\ Held(positions', outside')
              /\ \A t \in TokenIds : ~positions'[t].listed => positions'[t] = positions[t]
              BY <1>0, <1>2, FlatIsHeld
        <2> QED BY <1>0, <1>2, <2>1, FeedKeeps
  <1>3. ASSUME NEW t \in TokenIds, NEW p \in Prices, NEW shares \in Int, shares # 0,
               ConditionOf[t] \notin outside' => positions[t].shares + shares >= 0,
               outside \subseteq outside',
               positions' = EX!Booked(t, shares, EX!LP!Ticks(p)), EX!FeedRiskGateway(positions'),
               ledger_file' = ledger_file, known' = known, order' \subseteq order, blind' = blind,
               outside' \subseteq outside \cup {ConditionOf[t]}
        PROVE  ExposureInv'
        <2>1. /\ Held(positions', outside')
              /\ \A u \in TokenIds : ~positions'[u].listed => positions'[u] = positions[u]
              BY <1>0, <1>3, BookedIsHeld
        <2>2. outside' \subseteq GatewayConditions
              BY <1>0, <1>3
        <2> QED BY <1>3, <2>1, <2>2, FeedKeeps
  <1>4. ASSUME NEW c \in GatewayConditions, EX!SettleCondition(c) PROVE ExposureInv'
        BY <1>2, <1>4 DEF EX!SettleCondition, EX!bounds
  <1>5. ASSUME NEW C \in SUBSET GatewayConditions, EX!SettleOrphans(C) PROVE ExposureInv'
        BY <1>2, <1>5 DEF EX!SettleOrphans, EX!bounds
  <1>6. ASSUME NEW c \in GatewayConditions, EX!SetPaperCatalog(c) PROVE ExposureInv'
        <2>1. /\ known' \subseteq GatewayConditions
              /\ UNCHANGED <<positions, ledger_file, order, state_, daily_pnl_usdc_, bankroll_usdc_,
                             condition_exposure_usdc, token_exposure_usdc, condition_event,
                             event_gross_usdc, seen_signal_ids, approvals, killed, outside, blind>>
              BY <1>6 DEF EX!SetPaperCatalog, EX!gateway, EX!exposures, ExposureInv, EX!TypeOK
        <2> QED BY <2>1 DEF ExposureInv, EX!TypeOK, EX!RG!TypeOK
  <1>7. ASSUME NEW it \in EX!RG!Intent, EX!Evaluate(it) PROVE ExposureInv'
        BY <1>7, EvaluateKeeps
  <1>8. ASSUME NEW k \in Lots, NEW p \in Prices, EX!Match(k, p) PROVE ExposureInv'
        <2>1. PICK it \in order :
                /\ positions' = EX!Booked(it.token, IF it.side = "Sell" THEN -k ELSE k, EX!LP!Ticks(p))
                /\ outside' = IF it.side = "Sell" /\ k > positions[it.token].shares
                              THEN outside \cup {ConditionOf[it.token]} ELSE outside
              BY <1>8 DEF EX!Match
        <2>2. /\ it.token \in TokenIds /\ k \in Nat \ {0} /\ positions[it.token].shares \in Int
              /\ ConditionOf[it.token] \notin outside => positions[it.token].shares \in Nat
              <3>1. it.token \in TokenIds /\ k \in Nat \ {0}
                    BY <1>0 DEF ExposureInv, EX!TypeOK, EX!RG!Intent
              <3>2. positions[it.token].shares \in Int
                    BY <1>0, <3>1 DEF Held, Typed, EX!LP!PositionView
              <3> QED BY <1>0, <3>1, <3>2, SoundHas DEF Held
        <2> DEFINE shares == IF it.side = "Sell" THEN -k ELSE k
        <2>3. /\ shares \in Int /\ shares # 0 /\ outside \subseteq outside'
              /\ outside' \subseteq outside \cup {ConditionOf[it.token]}
              /\ ConditionOf[it.token] \notin outside' => positions[it.token].shares + shares >= 0
              <3>1. /\ outside \subseteq outside' /\ outside' \subseteq outside \cup {ConditionOf[it.token]}
                    /\ (ConditionOf[it.token] \notin outside' /\ it.side = "Sell")
                         => k <= positions[it.token].shares
                    BY <2>1, <2>2
              <3> QED BY <2>2, <3>1
        <2>4. /\ EX!FeedRiskGateway(positions') /\ order' = {}
              /\ UNCHANGED <<ledger_file, known, blind>>
              BY <1>8 DEF EX!Match
        <2>5. positions' = EX!Booked(it.token, shares, EX!LP!Ticks(p))
              BY <2>1
        <2> HIDE DEF shares
        <2> QED BY <1>3, <2>2, <2>3, <2>4, <2>5
  <1>9. ASSUME NEW k \in Lots, NEW p \in Prices, NEW t \in TokenIds, NEW shares \in {k, -k},
               EX!RecoverMissedFill(t, shares, p)
        PROVE  ExposureInv'
        <2>1. shares \in Int /\ shares # 0
              BY <1>0
        <2> QED BY <1>3, <1>9, <2>1 DEF EX!RecoverMissedFill
  <1>10. CASE EX!Missed
         <2>1. /\ order' = {}
               /\ UNCHANGED <<positions, ledger_file, known, state_, daily_pnl_usdc_, bankroll_usdc_,
                             condition_exposure_usdc, token_exposure_usdc, condition_event,
                             event_gross_usdc, seen_signal_ids, approvals, killed, outside, blind>>
               BY <1>10 DEF EX!Missed, EX!gateway, EX!exposures
         <2> QED BY <2>1 DEF ExposureInv, EX!TypeOK, EX!RG!TypeOK
  <1>11. CASE EX!SaveLedgerSnapshot
         <2>1. /\ ledger_file' = positions
               /\ UNCHANGED <<positions, known, order, state_, daily_pnl_usdc_, bankroll_usdc_,
                             condition_exposure_usdc, token_exposure_usdc, condition_event,
                             event_gross_usdc, seen_signal_ids, approvals, killed, outside, blind>>
               BY <1>11 DEF EX!SaveLedgerSnapshot, EX!gateway, EX!exposures
         <2> QED BY <2>1 DEF ExposureInv, EX!TypeOK, EX!RG!TypeOK
  <1>12. CASE EX!RestoreLedgerSnapshot
         BY <1>12, RestoreKeeps
  <1>13. CASE UNCHANGED EX!vars
         <2>1. UNCHANGED <<positions, ledger_file, known, order, state_, daily_pnl_usdc_,
                           bankroll_usdc_, condition_exposure_usdc, token_exposure_usdc,
                           condition_event, event_gross_usdc, seen_signal_ids, approvals, killed,
                           outside, blind>>
               BY <1>13 DEF EX!vars, EX!gateway, EX!exposures
         <2> QED BY <2>1 DEF ExposureInv, EX!TypeOK, EX!RG!TypeOK
  <1> QED BY <1>1, <1>4, <1>5, <1>6, <1>7, <1>8, <1>9, <1>10, <1>11, <1>12, <1>13 DEF EX!Next

(* Whatever is booked, settled, swept, restored and registered, in whatever *)
(* order and for any markets: the exposures the gateway judges an order by  *)
(* are the costs of what the ledger holds (FeedRiskGateway,                 *)
(* RestoreLedgerSnapshot, SetConditionExposure and RegisterConditionEvent). *)
THEOREM SpecExposuresAreLedger ==
  ASSUME EX!ExposureAssumption
  PROVE  EX!Spec => []EX!ExposuresAreLedger
  <1>1. ExposureInv => EX!ExposuresAreLedger
        BY ToldIsLedger DEF ExposureInv
  <1>2. EX!Init => ExposureInv
        BY ExposureInit
  <1>3. ExposureInv /\ [EX!Next]_EX!vars => ExposureInv'
        BY ExposureNext
  <1> QED BY <1>1, <1>2, <1>3, PTL DEF EX!Spec

-----------------------------------------------------------------------------
(* The caps, for any costs of the tokens: of outcomes and markets no fill   *)
(* came past the gateway for, and of events that were not bought into       *)
(* blindly.                                                                 *)
Within(n, out, bl) ==
  /\ \A t \in TokenIds : ConditionOf[t] \notin out => n[t] <= per_outcome_cap_usdc
  /\ \A c \in GatewayConditions \ out : CostIn(n, {c}) <= market_exposure_cap_usdc
  /\ \A e \in Events \ bl :
       EX!MarketsOf(e) \cap out = {} => CostIn(n, EX!MarketsOf(e)) <= event_exposure_cap_usdc

(* An approved purchase, filled in full, stays within all three caps: by    *)
(* what is held at that moment, unless something of them came past the      *)
(* gateway or was oversold.                                                 *)
Room(n, it, bl, out) ==
  LET c == ConditionOf[it.token]
      e == ParentRef[c]
  IN  it.side = "Buy" =>
        /\ c \notin out => /\ n[it.token] + it.size <= per_outcome_cap_usdc
                          /\ CostIn(n, {c}) + it.size <= market_exposure_cap_usdc
        /\ e \notin bl /\ EX!MarketsOf(e) \cap out = {}
             => CostIn(n, EX!MarketsOf(e)) + it.size <= event_exposure_cap_usdc

(* The snapshot file is within the caps too, or a restart would break them; *)
(* and from the approval to the match the room stays what it was.           *)
CapsInv ==
  /\ Within(CostOf(positions), outside, blind)
  /\ Within(CostOf(ledger_file), outside, blind)
  /\ \A it \in order : Room(CostOf(positions), it, blind, outside)

(* A cap of 0 is a cap that is switched off.                                *)
CapsOn == per_outcome_cap_usdc > 0 /\ event_exposure_cap_usdc > 0

(* Within, of the variables, is the property the run checks.                *)
LEMMA WithinIsCaps ==
  Within(CostOf(positions), outside, blind) <=> EX!CapsHoldOnLedger
  <1>1. \A C : EX!Cost(C) = CostIn(CostOf(positions), C)
        BY SameSum DEF EX!Cost, CostIn, CostOf, TokensIn
  <1>2. \A t \in TokenIds : CostOf(positions)[t] = EX!Notional(positions[t])
        BY DEF CostOf
  <1> QED BY <1>1, <1>2 DEF Within, EX!CapsHoldOnLedger

(* Costs that only fall, except where a fill came past the gateway.         *)
LEMMA WithinShrinks ==
  ASSUME EX!ExposureAssumption, NEW n \in Costs, NEW m \in Costs,
         NEW out, NEW bl, NEW out2, NEW bl2, Within(n, out, bl),
         out \subseteq out2, bl \subseteq bl2,
         \A t \in TokenIds : ConditionOf[t] \notin out2 => m[t] <= n[t]
  PROVE  Within(m, out2, bl2)
  <1>0. \A c : per_outcome_cap_usdc \in Nat /\ market_exposure_cap_usdc \in Nat
               /\ event_exposure_cap_usdc \in Nat
        BY DEF EX!ExposureAssumption
  <1>1. ASSUME NEW C, C \cap out2 = {}
        PROVE  /\ CostIn(m, C) <= CostIn(n, C)
               /\ CostIn(m, C) \in Int /\ CostIn(n, C) \in Int
        <2>1. \A t \in TokensIn(C) : m[t] <= n[t]
              BY <1>1 DEF TokensIn
        <2>2. CostIn(m, C) <= CostIn(n, C)
              BY <2>1, CostGrows
        <2>3. CostIn(m, C) \in Int
              BY CostIsInt
        <2>4. CostIn(n, C) \in Int
              BY CostIsInt
        <2> QED BY <2>2, <2>3, <2>4
  <1>2. ASSUME NEW t \in TokenIds, ConditionOf[t] \notin out2 PROVE m[t] <= per_outcome_cap_usdc
        <2>1. n[t] \in Int /\ m[t] \in Int /\ m[t] <= n[t] /\ n[t] <= per_outcome_cap_usdc
              BY <1>2 DEF Costs, Within
        <2> QED BY <1>0, <2>1
  <1>3. ASSUME NEW c \in GatewayConditions \ out2 PROVE CostIn(m, {c}) <= market_exposure_cap_usdc
        <2> DEFINE C == {c}
        <2>1. C \cap out2 = {} /\ CostIn(n, C) <= market_exposure_cap_usdc
              BY DEF Within
        <2>2. CostIn(m, C) <= market_exposure_cap_usdc
              <3> HIDE DEF C
              <3> QED BY <1>0, <1>1, <2>1
        <2> QED BY <2>2
  <1>4. ASSUME NEW e \in Events \ bl2, EX!MarketsOf(e) \cap out2 = {}
        PROVE  CostIn(m, EX!MarketsOf(e)) <= event_exposure_cap_usdc
        <2> DEFINE C == EX!MarketsOf(e)
        <2>1. C \cap out2 = {} /\ CostIn(n, C) <= event_exposure_cap_usdc
              BY <1>4 DEF Within
        <2>2. CostIn(m, C) <= event_exposure_cap_usdc
              <3> HIDE DEF C
              <3> QED BY <1>0, <1>1, <2>1
        <2> QED BY <2>2
  <1> QED BY <1>2, <1>3, <1>4 DEF Within

(* What the rules of the gateway leave of a purchase they pass: its         *)
(* exposures are the costs of what is held, and the markets of the event it *)
(* does not count hold nothing.                                             *)
LEMMA PassesMakesRoom ==
  ASSUME EX!ExposureAssumption, CapsOn, ExposureInv, NEW it \in EX!RG!Intent, EX!RG!Passes(it),
         condition_event[ConditionOf[it.token]] # NoEvent, it.side = "Buy", NEW bl,
         EX!Unseen(ConditionOf[it.token]) => ParentRef[ConditionOf[it.token]] \in bl
  PROVE  Room(CostOf(positions), it, bl, outside)
  <1> DEFINE t == it.token
             c == ConditionOf[t]
             e == ParentRef[c]
             n == CostOf(positions)
             v == it.size
  <1>1. /\ t \in TokenIds /\ c \in GatewayConditions /\ e \in Events /\ NoEvent \notin Events
        /\ v \in Nat \ {0} /\ condition_event[c] = e
        /\ per_outcome_cap_usdc \in Nat /\ event_exposure_cap_usdc \in Nat
        /\ market_exposure_cap_usdc \in Nat
        BY DEF EX!RG!Intent, EX!ExposureAssumption, ExposureInv
  <1>2. n \in Costs /\ Told(n, token_exposure_usdc, condition_exposure_usdc, condition_event,
                            event_gross_usdc)
        /\ \A u \in TokenIds : ConditionOf[u] \notin outside => n[u] \in Nat
        BY CostOfHeld DEF ExposureInv
  <1>3. /\ ~EX!RG!ConditionCapHit(it) /\ ~EX!RG!EventCapHit(it) /\ ~EX!RG!OutcomeCapHit(it)
        /\ EX!RG!Delta(it) = v
        BY DEF EX!RG!Passes, EX!RG!Stopped, EX!RG!PositionCapHit, EX!RG!Delta
  <1>4. ASSUME NEW x \in Nat
        PROVE  /\ EX!RG!Grows(x, x + v) /\ ~EX!RG!CrossesZero(x, x + v)
               /\ EX!RG!Magnitude(x + v) = x + v /\ EX!RG!Magnitude(x) = x
        BY <1>1 DEF EX!RG!Grows, EX!RG!CrossesZero, EX!RG!Magnitude
  <1>5. ASSUME c \notin outside PROVE n[t] + v <= per_outcome_cap_usdc
        <2>1. token_exposure_usdc[t] = n[t] /\ n[t] \in Nat
              BY <1>1, <1>2, <1>5 DEF Told
        <2> HIDE DEF n, v, t
        <2> QED BY <1>1, <1>3, <1>4, <2>1 DEF EX!RG!OutcomeCapHit, CapsOn, t
  <1>6. ASSUME c \notin outside
        PROVE  CostIn(n, {c}) + v <= market_exposure_cap_usdc /\ condition_exposure_usdc[c] \in Nat
        <2>1. condition_exposure_usdc[c] = CostIn(n, {c})
              BY <1>1, <1>2 DEF Told
        <2>2. CostIn(n, {c}) \in Nat
              <3>1. \A u \in TokensIn({c}) : n[u] \in Nat
                    BY <1>2, <1>6 DEF TokensIn
              <3> HIDE DEF n, c
              <3> QED BY <3>1, CostIsNat
        <2> HIDE DEF n, v
        <2> QED BY <1>1, <1>3, <1>4, <2>1, <2>2 DEF EX!RG!ConditionCapHit
  <1>7. ASSUME e \notin bl, EX!MarketsOf(e) \cap outside = {}
        PROVE  CostIn(n, EX!MarketsOf(e)) + v <= event_exposure_cap_usdc
        <2> DEFINE C == RegisteredWith(condition_event, e)
                   D == EX!MarketsOf(e)
        <2>0. c \notin outside /\ condition_exposure_usdc[c] \in Nat
              <3>1. c \notin outside
                    BY <1>1, <1>7 DEF EX!MarketsOf
              <3> QED BY <1>6, <3>1
        <2>3. C \subseteq D /\ C \in SUBSET GatewayConditions /\ C \cap outside = {}
              BY <1>1, <1>7 DEF RegisteredWith, EX!MarketsOf, ExposureInv
        <2>2. CostIn(n, C) \in Nat
              <3>1. \A u \in TokensIn(C) : n[u] \in Nat
                    BY <1>2, <2>3 DEF TokensIn
              <3> HIDE DEF n, C
              <3> QED BY <3>1, CostIsNat
        <2>1. event_gross_usdc[e] = CostIn(n, C)
              <3> DEFINE f == Grossed(n)
                         g == [d \in GatewayConditions |-> CostIn(n, {d})]
              <3>1. event_gross_usdc[e] = SumFunctionOnSet(f, C)
                    BY <1>1, <1>2 DEF Told
              <3>2. ASSUME NEW d \in C PROVE f[d] = g[d]
                    <4>1. d \in GatewayConditions /\ \A u \in TokensIn({d}) : n[u] \in Nat
                          BY <1>2, <2>3 DEF TokensIn
                    <4>2. CostIn(n, {d}) \in Nat
                          <5> HIDE DEF n
                          <5> QED BY <4>1, CostIsNat
                    <4> QED BY <4>1, <4>2 DEF Grossed, EX!RG!Magnitude
              <3>3. IsFiniteSet(C)
                    <4> HIDE DEF C
                    <4> QED BY <2>3, ConstantsFinite, FS_Subset
              <3>4. SumFunctionOnSet(f, C) = SumFunctionOnSet(g, C)
                    <4> HIDE DEF f, g, C
                    <4> QED BY <3>2, <3>3, SumSame
              <3>5. CostIn(n, C) = SumFunctionOnSet(g, C)
                    <4>1. \A d \in GatewayConditions : g[d] = CostIn(n, {d})
                          OBVIOUS
                    <4> HIDE DEF n, g, C
                    <4> QED BY <1>2, <2>3, <4>1, CostPerMarket
              <3> QED BY <3>1, <3>4, <3>5
        <2>4. ASSUME NEW u \in TokensIn(D \ C) PROVE n[u] = 0
              <3>1. /\ u \in TokenIds /\ ConditionOf[u] \in GatewayConditions
                    /\ ParentRef[ConditionOf[u]] = e /\ condition_event[ConditionOf[u]] = NoEvent
                    BY <1>1 DEF TokensIn, EX!MarketsOf, RegisteredWith, ExposureInv
              <3>2. ~EX!HeldIn(ConditionOf[u])
                    BY <1>7, <3>1 DEF EX!Unseen
              <3>3. positions[u].shares = 0 /\ Costed(positions[u])
                    BY <1>7, <3>1, <3>2 DEF EX!HeldIn, EX!TokensOf, EX!MarketsOf, ExposureInv, Held
              <3> QED BY <3>1, <3>3, NotionalOfHeld DEF CostOf
        <2>5. CostIn(n, D) = CostIn(n, C)
              <3> HIDE DEF n, C, D
              <3> QED BY <1>2, <2>3, <2>4, CostOfSome
        <2>6. event_gross_usdc[e] - EX!RG!Magnitude(condition_exposure_usdc[c])
                + EX!RG!Magnitude(condition_exposure_usdc[c] + v) <= event_exposure_cap_usdc
              <3>1. EX!RG!Grows(condition_exposure_usdc[c], condition_exposure_usdc[c] + v)
                    <4> HIDE DEF v, c
                    <4> QED BY <1>4, <2>0
              <3>2. /\ EX!RG!Magnitude(condition_exposure_usdc[c]) \in Int
                    /\ EX!RG!Magnitude(condition_exposure_usdc[c] + v) \in Int
                    /\ event_gross_usdc[e] \in Int
                    BY <1>1, <2>0, <2>1, <2>2 DEF EX!RG!Magnitude
              <3> QED BY <1>1, <1>3, <3>1, <3>2 DEF EX!RG!EventCapHit, CapsOn
        <2>7. /\ EX!RG!Magnitude(condition_exposure_usdc[c]) = condition_exposure_usdc[c]
              /\ EX!RG!Magnitude(condition_exposure_usdc[c] + v) = condition_exposure_usdc[c] + v
              <3> HIDE DEF v, c
              <3> QED BY <1>4, <2>0
        <2> HIDE DEF n, C, D, v, c, e
        <2> QED BY <1>1, <2>0, <2>1, <2>2, <2>5, <2>6, <2>7 DEF D
  <1> QED BY <1>5, <1>6, <1>7 DEF Room

(* The fill of an approved order uses the room it was given.                *)
LEMMA FillWithinRoom ==
  ASSUME EX!ExposureAssumption, NEW n \in Costs, NEW m \in Costs, NEW out \in SUBSET GatewayConditions,
         NEW bl, Within(n, out, bl), NEW it \in EX!RG!Intent, it.side = "Buy", Room(n, it, bl, out),
         NEW v \in Nat, v <= it.size, m[it.token] = n[it.token] + v,
         \A u \in TokenIds : u # it.token => m[u] = n[u]
  PROVE  Within(m, out, bl)
  <1> DEFINE t == it.token
             c == ConditionOf[t]
             e == ParentRef[c]
  <1>1. /\ t \in TokenIds /\ c \in GatewayConditions /\ e \in Events /\ it.size \in Nat
        /\ per_outcome_cap_usdc \in Nat /\ event_exposure_cap_usdc \in Nat
        /\ market_exposure_cap_usdc \in Nat /\ n[t] \in Int /\ m[t] = n[t] + v
        BY DEF EX!RG!Intent, EX!ExposureAssumption, Costs
  <1>2. /\ c \notin out => /\ n[t] + it.size <= per_outcome_cap_usdc
                          /\ CostIn(n, {c}) + it.size <= market_exposure_cap_usdc
        /\ e \notin bl /\ EX!MarketsOf(e) \cap out = {}
             => CostIn(n, EX!MarketsOf(e)) + it.size <= event_exposure_cap_usdc
        BY DEF Room
  <1>3. ASSUME NEW C
        PROVE  /\ CostIn(n, C) \in Int
               /\ c \in C => CostIn(m, C) = CostIn(n, C) + v
               /\ c \notin C => CostIn(m, C) = CostIn(n, C)
        <2>1. CostIn(n, C) \in Int
              BY CostIsInt
        <2>2. CASE c \in C
              <3>1. t \in TokensIn(C) /\ v \in Int /\ m[t] = n[t] + v
                    /\ \A u \in TokenIds : u # t => m[u] = n[u]
                    BY <1>1, <2>2 DEF TokensIn
              <3>2. CostIn(m, C) = CostIn(n, C) + v
                    <4> HIDE DEF t
                    <4> QED BY <3>1, CostMoves
              <3> QED BY <2>1, <2>2, <3>2
        <2>3. CASE c \notin C
              <3>1. \A u \in TokensIn(C) : n[u] = m[u]
                    BY <2>3 DEF TokensIn
              <3>2. CostIn(n, C) = CostIn(m, C)
                    BY <3>1, CostSame
              <3> QED BY <2>1, <2>3, <3>2
        <2> QED BY <2>2, <2>3
  <1>4. ASSUME NEW u \in TokenIds, ConditionOf[u] \notin out PROVE m[u] <= per_outcome_cap_usdc
        <2>1. CASE u = t
              <3>1. c \notin out
                    BY <1>4, <2>1
              <3> HIDE DEF t
              <3> QED BY <1>1, <1>2, <2>1, <3>1
        <2>2. CASE u # t
              <3>1. m[u] = n[u] /\ n[u] <= per_outcome_cap_usdc
                    BY <1>4, <2>2 DEF Within
              <3> QED BY <3>1
        <2> QED BY <2>1, <2>2
  <1>5. ASSUME NEW d \in GatewayConditions \ out PROVE CostIn(m, {d}) <= market_exposure_cap_usdc
        <2>1. CASE d = c
              <3>1. CostIn(n, {d}) \in Int /\ CostIn(m, {d}) = CostIn(n, {d}) + v
                    BY <1>3, <2>1
              <3> QED BY <1>1, <1>2, <2>1, <3>1
        <2>2. CASE d # c
              <3>1. CostIn(m, {d}) = CostIn(n, {d})
                    BY <1>3, <2>2
              <3> QED BY <3>1 DEF Within
        <2> QED BY <2>1, <2>2
  <1>6. ASSUME NEW x \in Events \ bl, EX!MarketsOf(x) \cap out = {}
        PROVE  CostIn(m, EX!MarketsOf(x)) <= event_exposure_cap_usdc
        <2>1. c \in EX!MarketsOf(x) <=> x = e
              BY <1>1 DEF EX!MarketsOf
        <2>2. CASE x = e
              <3>1. /\ CostIn(n, EX!MarketsOf(x)) \in Int
                    /\ CostIn(m, EX!MarketsOf(x)) = CostIn(n, EX!MarketsOf(x)) + v
                    BY <1>3, <2>1, <2>2
              <3> QED BY <1>1, <1>2, <1>6, <2>2, <3>1
        <2>3. CASE x # e
              <3>1. CostIn(m, EX!MarketsOf(x)) = CostIn(n, EX!MarketsOf(x))
                    BY <1>3, <2>1, <2>3
              <3> QED BY <1>6, <3>1 DEF Within
        <2> QED BY <2>2, <2>3
  <1> QED BY <1>4, <1>5, <1>6 DEF Within

(* Nothing is held: every cap has room.                                     *)
LEMMA CapsInit ==
  ASSUME EX!ExposureAssumption, EX!Init
  PROVE  CapsInv
  <1>1. ExposureInv /\ positions = ledger_file /\ order = {}
        BY ExposureInit DEF EX!Init
  <1>2. \A t \in TokenIds : EX!Notional(positions[t]) = 0
        <2>1. Costed(EX!LP!NoPosition) /\ EX!LP!NoPosition.shares = 0
              BY FractionIs DEF EX!LP!NoPosition, Costed, EX!LP!PositionView, EX!LP!Zero
        <2> QED BY <2>1, NotionalOfHeld DEF EX!Init
  <1> DEFINE n == CostOf(positions)
  <1>3. \A t \in TokenIds : n[t] = 0
        BY <1>2 DEF CostOf
  <1>4. ASSUME NEW C PROVE CostIn(n, C) = 0
        <2> HIDE DEF n
        <2> QED BY <1>3, TokensFinite, CostOfNone
  <1>5. Within(n, outside, blind)
        <2> HIDE DEF n
        <2> QED BY <1>3, <1>4 DEF Within, EX!ExposureAssumption
  <1> QED BY <1>1, <1>5 DEF CapsInv

(* Nothing is bought, and what came past the gateway is only more.          *)
LEMMA CapsKept ==
  ASSUME EX!ExposureAssumption, ExposureInv, ExposureInv', CapsInv,
         order' = {} \/ (order' = order /\ positions' = positions),
         outside \subseteq outside', blind \subseteq blind',
         ledger_file' = ledger_file \/ ledger_file' = positions,
         \/ \A t \in TokenIds : ConditionOf[t] \notin outside'
                                => CostOf(positions')[t] <= CostOf(positions)[t]
         \/ \A t \in TokenIds : CostOf(positions')[t] = CostOf(ledger_file)[t]
  PROVE  CapsInv'
  <1> DEFINE n == CostOf(positions)
             m == CostOf(positions')
             f == CostOf(ledger_file)
             g == CostOf(ledger_file')
             out == outside'
             bl == blind'
  <1>1. n \in Costs /\ m \in Costs /\ f \in Costs /\ g \in Costs
        BY CostOfHeld DEF ExposureInv
  <1>2. Within(n, outside, blind) /\ Within(f, outside, blind)
        /\ outside \subseteq out /\ blind \subseteq bl
        BY DEF CapsInv
  <1>3. ASSUME NEW a \in Costs, NEW b \in Costs, Within(a, outside, blind),
               \A t \in TokenIds : ConditionOf[t] \notin out => b[t] <= a[t]
        PROVE  Within(b, out, bl)
        <2> HIDE DEF out, bl
        <2> QED BY <1>2, <1>3, WithinShrinks
  <1>4. Within(m, out, bl)
        <2>1. CASE \A t \in TokenIds : ConditionOf[t] \notin out => m[t] <= n[t]
              <3> HIDE DEF n, m, out, bl
              <3> QED BY <1>1, <1>2, <1>3, <2>1
        <2>2. CASE \A t \in TokenIds : m[t] = f[t]
              <3> HIDE DEF f, m, out, bl
              <3>1. \A t \in TokenIds : m[t] <= f[t]
                    BY <1>1, <2>2 DEF Costs
              <3> QED BY <1>1, <1>2, <1>3, <3>1
        <2> QED BY <2>1, <2>2
  <1>5. Within(g, out, bl)
        <2>1. g = f \/ g = n
              OBVIOUS
        <2>2. \A t \in TokenIds : n[t] <= n[t] /\ f[t] <= f[t]
              <3> HIDE DEF n, f
              <3> QED BY <1>1 DEF Costs
        <2>3. Within(f, out, bl)
              <3> HIDE DEF n, f, out, bl
              <3> QED BY <1>1, <1>2, <1>3, <2>2
        <2>4. Within(n, out, bl)
              <3> HIDE DEF n, f, out, bl
              <3> QED BY <1>1, <1>2, <1>3, <2>2
        <2> QED BY <2>1, <2>3, <2>4
  <1>6. \A it \in order' : Room(m, it, bl, out)
        <2>1. CASE order' = order /\ positions' = positions
              <3>1. \A it \in order : Room(n, it, blind, outside)
                    BY DEF CapsInv
              <3> QED BY <1>2, <2>1, <3>1 DEF Room
        <2> QED BY <2>1
  <1> QED BY <1>4, <1>5, <1>6 DEF CapsInv

(* Every step, one case per action.                                         *)
LEMMA CapsNext ==
  ASSUME EX!ExposureAssumption, CapsOn, ExposureInv, CapsInv, [EX!Next]_EX!vars
  PROVE  CapsInv'
  <1>0. /\ Held(positions, outside) /\ (Prices \cup Lots \cup Amounts) \subseteq Nat \ {0}
        /\ outside \subseteq GatewayConditions /\ ConditionOf \in [TokenIds -> GatewayConditions]
        /\ ExposureInv'
        BY ExposureNext DEF ExposureInv, EX!TypeOK, EX!ExposureAssumption
  <1>1. \A t \in TokenIds : CostOf(positions)[t] \in Int /\ CostOf(positions')[t] \in Int
        BY <1>0, CostOfHeld DEF ExposureInv, Costs
  <1>2. ASSUME UNCHANGED <<positions, outside, blind>>, order' = order \/ order' = {},
               ledger_file' = ledger_file \/ ledger_file' = positions
        PROVE  CapsInv'
        <2>1. \A t \in TokenIds : CostOf(positions')[t] <= CostOf(positions)[t]
              BY <1>1, <1>2
        <2> QED BY <1>0, <1>2, <2>1, CapsKept
  <1>3. ASSUME NEW C, order = {}, positions' = EX!Flat(C),
               UNCHANGED <<ledger_file, order, outside, blind>>
        PROVE  CapsInv'
        <2>1. \A t \in TokenIds : ConditionOf[t] \notin outside'
                                  => CostOf(positions')[t] <= CostOf(positions)[t]
              BY <1>0, <1>3, FlatIsHeld
        <2> QED BY <1>0, <1>3, <2>1, CapsKept
  <1>4. ASSUME NEW c \in GatewayConditions, EX!RegisterEvent(c) PROVE CapsInv'
        BY <1>2, <1>4 DEF EX!RegisterEvent, EX!bounds
  <1>5. ASSUME NEW c \in GatewayConditions, EX!SettleCondition(c) PROVE CapsInv'
        BY <1>3, <1>5 DEF EX!SettleCondition, EX!bounds
  <1>6. ASSUME NEW C \in SUBSET GatewayConditions, EX!SettleOrphans(C) PROVE CapsInv'
        BY <1>3, <1>6 DEF EX!SettleOrphans, EX!bounds
  <1>7. ASSUME NEW c \in GatewayConditions, EX!SetPaperCatalog(c) PROVE CapsInv'
        BY <1>2, <1>7 DEF EX!SetPaperCatalog, EX!bounds
  <1>8. ASSUME NEW it \in EX!RG!Intent, EX!Evaluate(it) PROVE CapsInv'
        <2>1. /\ UNCHANGED <<positions, ledger_file, outside, condition_event>>
              /\ order' \subseteq {it} /\ (order' # {} => EX!RG!Passes(it))
              /\ blind' = IF order' # {} /\ it.side = "Buy" /\ EX!Unseen(ConditionOf[it.token])
                          THEN blind \cup {ParentRef[ConditionOf[it.token]]} ELSE blind
              BY <1>8, EvaluateKeeps
        <2>2. CASE order' = {}
              <3>1. blind' = blind
                    BY <2>1, <2>2
              <3> QED BY <1>2, <2>1, <2>2, <3>1
        <2>3. CASE order' # {}
              <3>1. order' = {it} /\ EX!RG!Passes(it) /\ blind \subseteq blind'
                    BY <2>1, <2>3
              <3>2. condition_event[ConditionOf[it.token]] # NoEvent
                    BY <1>8 DEF EX!Evaluate, EX!Due
              <3> DEFINE bl == blind'
              <3>3. Room(CostOf(positions), it, bl, outside)
                    <4>1. CASE it.side = "Buy"
                          <5>1. EX!Unseen(ConditionOf[it.token]) => ParentRef[ConditionOf[it.token]] \in bl
                                BY <2>1, <2>3, <4>1
                          <5> HIDE DEF bl
                          <5> QED BY <3>1, <3>2, <4>1, <5>1, PassesMakesRoom
                    <4>2. CASE it.side # "Buy"
                          BY <4>2 DEF Room
                    <4> QED BY <4>1, <4>2
              <3> DEFINE n == CostOf(positions)
                         f == CostOf(ledger_file)
              <3>4. n \in Costs /\ f \in Costs /\ Within(n, outside, blind) /\ Within(f, outside, blind)
                    BY CostOfHeld DEF ExposureInv, CapsInv
              <3>5. Within(n, outside, bl) /\ Within(f, outside, bl)
                    <4>1. \A t \in TokenIds : n[t] <= n[t] /\ f[t] <= f[t]
                          <5> HIDE DEF n, f
                          <5> QED BY <3>4 DEF Costs
                    <4>2. Within(n, outside, bl)
                          <5> HIDE DEF n, f, bl
                          <5> QED BY <3>1, <3>4, <4>1, WithinShrinks DEF bl
                    <4>3. Within(f, outside, bl)
                          <5> HIDE DEF n, f, bl
                          <5> QED BY <3>1, <3>4, <4>1, WithinShrinks DEF bl
                    <4> QED BY <4>2, <4>3
              <3> QED BY <2>1, <3>1, <3>3, <3>5 DEF CapsInv
        <2> QED BY <2>2, <2>3
  <1>9. ASSUME NEW k \in Lots, NEW p \in Prices, EX!Match(k, p) PROVE CapsInv'
        <2>1. PICK it \in order :
                /\ k * p <= it.size
                /\ positions' = EX!Booked(it.token, IF it.side = "Sell" THEN -k ELSE k, EX!LP!Ticks(p))
                /\ outside' = IF it.side = "Sell" /\ k > positions[it.token].shares
                              THEN outside \cup {ConditionOf[it.token]} ELSE outside
              BY <1>9 DEF EX!Match
        <2>2. /\ it \in EX!RG!Intent /\ it.token \in TokenIds /\ it.side \in {"Buy", "Sell"}
              /\ k \in Nat \ {0} /\ p \in Nat \ {0} /\ k \in Int /\ -k \in Int /\ k # 0 /\ -k # 0
              /\ positions[it.token].shares \in Int
              /\ ConditionOf[it.token] \notin outside => positions[it.token].shares \in Nat
              <3>1. /\ it \in EX!RG!Intent /\ it.token \in TokenIds /\ it.side \in {"Buy", "Sell"}
                    /\ k \in Nat \ {0} /\ p \in Nat \ {0}
                    BY <1>0 DEF ExposureInv, EX!TypeOK, EX!RG!Intent
              <3>2. positions[it.token].shares \in Int
                    BY <1>0, <3>1 DEF Held, Typed, EX!LP!PositionView
              <3> QED BY <1>0, <3>1, <3>2, SoundHas DEF Held
        <2>3. order' = {} /\ UNCHANGED <<ledger_file, blind>> /\ outside \subseteq outside'
              BY <2>1, <1>9 DEF EX!Match
        <2>4. CASE it.side = "Sell"
              <3> DEFINE shares == -k
              <3>1. /\ shares \in Int /\ shares < 0 /\ shares # 0
                    /\ ConditionOf[it.token] \notin outside' => positions[it.token].shares + shares >= 0
                    /\ positions' = EX!Booked(it.token, shares, EX!LP!Ticks(p))
                    <4>1. ConditionOf[it.token] \notin outside' => k <= positions[it.token].shares
                          BY <2>1, <2>2, <2>4
                    <4> QED BY <2>1, <2>2, <2>4, <4>1
              <3>2. /\ \A u \in TokenIds : u # it.token => CostOf(positions')[u] = CostOf(positions)[u]
                    /\ ConditionOf[it.token] \notin outside'
                         => CostOf(positions')[it.token] <= CostOf(positions)[it.token]
                    <4> HIDE DEF shares
                    <4> QED BY <1>0, <2>2, <2>3, <3>1, BookedIsHeld
              <3>3. \A t \in TokenIds : ConditionOf[t] \notin outside'
                                        => CostOf(positions')[t] <= CostOf(positions)[t]
                    BY <1>1, <3>2
              <3> QED BY <1>0, <2>3, <3>3, CapsKept
        <2>5. CASE it.side = "Buy"
              <3>0. PICK v \in Nat : v = k * p
                    BY <2>2
              <3>1. /\ positions' = EX!Booked(it.token, k, EX!LP!Ticks(p)) /\ outside' = outside
                    /\ ConditionOf[it.token] \notin outside' => positions[it.token].shares + k >= 0
                    BY <2>1, <2>2, <2>5
              <3>2. /\ \A u \in TokenIds : u # it.token => CostOf(positions')[u] = CostOf(positions)[u]
                    /\ ConditionOf[it.token] \notin outside
                         => CostOf(positions')[it.token] = CostOf(positions)[it.token] + v
                    <4>1. k \in Int /\ k # 0 /\ k > 0
                          BY <2>2
                    <4>2. /\ \A u \in TokenIds : u # it.token => CostOf(positions')[u] = CostOf(positions)[u]
                          /\ ConditionOf[it.token] \notin outside' /\ k > 0
                               => CostOf(positions')[it.token] = CostOf(positions)[it.token] + k * p
                          BY ONLY EX!ExposureAssumption, <1>0, <2>2, <2>3, <3>1, <4>1, BookedIsHeld
                    <4> QED BY <3>0, <3>1, <4>1, <4>2
              <3>6. v <= it.size
                    BY <2>1, <3>0
              <3> DEFINE n == CostOf(positions)
                         m == CostOf(positions')
              <3>3. /\ n \in Costs /\ m \in Costs /\ Within(n, outside, blind)
                    /\ Room(n, it, blind, outside) /\ Within(CostOf(ledger_file), outside, blind)
                    BY <1>0, CostOfHeld DEF ExposureInv, CapsInv
              <3>4. CASE ConditionOf[it.token] \notin outside
                    <4>1. Within(m, outside, blind)
                          <5>1. /\ \A u \in TokenIds : u # it.token => m[u] = n[u]
                                /\ m[it.token] = n[it.token] + v
                                BY <3>2, <3>4
                          <5> HIDE DEF n, m
                          <5> QED BY <1>0, <2>2, <2>5, <3>3, <3>6, <5>1, FillWithinRoom
                    <4> QED BY <2>3, <3>1, <3>3, <4>1 DEF CapsInv
              <3>5. CASE ConditionOf[it.token] \in outside
                    <4>1. \A t \in TokenIds : ConditionOf[t] \notin outside'
                                              => CostOf(positions')[t] <= CostOf(positions)[t]
                          BY <1>1, <3>1, <3>2, <3>5
                    <4> QED BY <1>0, <2>3, <4>1, CapsKept
              <3> QED BY <3>4, <3>5
        <2> QED BY <2>2, <2>4, <2>5
  <1>10. ASSUME NEW k \in Lots, NEW p \in Prices, NEW t \in TokenIds, NEW shares \in {k, -k},
                EX!RecoverMissedFill(t, shares, p)
         PROVE  CapsInv'
         <2>1. shares \in Int /\ shares # 0
               BY <1>0
         <2>2. /\ order' = {} /\ ledger_file' = ledger_file /\ blind' = blind
               /\ outside' = outside \cup {ConditionOf[t]}
               /\ positions' = EX!Booked(t, shares, EX!LP!Ticks(p))
               BY <1>10 DEF EX!RecoverMissedFill
         <2>3. \A u \in TokenIds : u # t => CostOf(positions')[u] = CostOf(positions)[u]
               BY <1>0, <2>1, <2>2, BookedIsHeld
         <2>4. \A u \in TokenIds : ConditionOf[u] \notin outside'
                                   => CostOf(positions')[u] <= CostOf(positions)[u]
               BY <1>1, <2>2, <2>3
         <2> QED BY <1>0, <2>2, <2>4, CapsKept
  <1>11. CASE EX!Missed
         BY <1>2, <1>11 DEF EX!Missed, EX!bounds
  <1>12. CASE EX!SaveLedgerSnapshot
         BY <1>2, <1>12 DEF EX!SaveLedgerSnapshot, EX!bounds
  <1>13. CASE EX!RestoreLedgerSnapshot
         <2>1. /\ \A t \in TokenIds : CostOf(positions')[t] = CostOf(ledger_file)[t]
               /\ order' = {} /\ UNCHANGED <<ledger_file, outside, blind>>
               BY <1>13, RestoreKeeps DEF EX!RestoreLedgerSnapshot
         <2> QED BY <1>0, <2>1, CapsKept
  <1>14. CASE UNCHANGED EX!vars
         BY <1>2, <1>14 DEF EX!vars
  <1> QED BY <1>4, <1>5, <1>6, <1>7, <1>8, <1>9, <1>10, <1>11, <1>12, <1>13, <1>14 DEF EX!Next

(* The caps hold on the ledger itself, for any caps that are switched on,   *)
(* any markets, fills, settlements and restarts: what an outcome, a market  *)
(* and the markets of an event cost stays within them, unless a recovered   *)
(* fill came past the gateway, more was sold than was held, or an event was *)
(* bought into while a held market of it was not registered.                *)
THEOREM SpecCapsHoldOnLedger ==
  ASSUME EX!ExposureAssumption, CapsOn
  PROVE  EX!Spec => []EX!CapsHoldOnLedger
  <1>1. ExposureInv /\ CapsInv => EX!CapsHoldOnLedger
        BY WithinIsCaps DEF CapsInv
  <1>2. EX!Init => ExposureInv /\ CapsInv
        BY ExposureInit, CapsInit
  <1>3. ExposureInv /\ CapsInv /\ [EX!Next]_EX!vars => ExposureInv' /\ CapsInv'
        BY ExposureNext, CapsNext
  <1> QED BY <1>1, <1>2, <1>3, PTL DEF EX!Spec

-----------------------------------------------------------------------------
(* Side by side.  The numbers of the account that no other invariant bounds. *)
FeesAndMarks ==
  /\ fee \in Nat /\ accountSnapshot.fee \in Nat
  /\ mark \in [AccountTokens -> AccountPrices \cup {0}]

LEMMA FeesAndMarksInit ==
  ASSUME AC!AccountAssumption, AC!Init
  PROVE  FeesAndMarks
  BY DEF AC!Init, FeesAndMarks, AC!NoSnapshot, AC!None

(* A fee is only ever added, or forgotten with the rest.                    *)
LEMMA FeesAndMarksNext ==
  ASSUME AC!AccountAssumption, FeesAndMarks, [AC!Next]_AC!vars
  PROVE  FeesAndMarks'
  <1>1. Fee \in Nat /\ AccountPrices \subseteq Nat
        BY AccountFinite
  <1>2. CASE UNCHANGED <<fee, accountSnapshot, mark>>
        BY <1>2 DEF FeesAndMarks
  <1>3. ASSUME NEW t \in AccountTokens, NEW p \in AccountPrices, AC!Quote(t, p)
        PROVE  FeesAndMarks'
        BY <1>3 DEF FeesAndMarks, AC!Quote, AC!ledger
  <1>4. ASSUME NEW save \in BOOLEAN, AC!TickBegin(save)
        PROVE  FeesAndMarks'
        BY <1>4 DEF FeesAndMarks, AC!TickBegin, AC!SaveLedgerSnapshot, AC!ledger
  <1>5. ASSUME NEW t \in AccountTokens, NEW q \in 1..2, NEW px \in AccountPrices,
               AC!Buy(t, q, px) \/ AC!Sell(t, q, px)
        PROVE  FeesAndMarks'
        <2>1. q * Fee \in Nat
              BY <1>1
        <2>2. fee' = fee + q * Fee /\ UNCHANGED <<accountSnapshot, mark>>
              BY <1>5 DEF AC!Buy, AC!Sell, AC!PublishLedgerSnapshot
        <2> QED BY <2>1, <2>2 DEF FeesAndMarks
  <1>6. CASE AC!Crash
        BY <1>6 DEF FeesAndMarks, AC!Crash
  <1>7. CASE AC!Restart
        <2>1. AC!NoSnapshot.fee = 0
              BY DEF AC!NoSnapshot
        <2> QED BY <1>7, <2>1 DEF FeesAndMarks, AC!Restart, AC!RestoreLedgerSnapshot,
                                  AC!SeedLivePositionsFromOnchain
  <1>8. ASSUME NEW t \in AccountTokens,
               \/ \E o \in Decisions : AC!Resolve(t, o)
               \/ AC!Redeem(t)
               \/ AC!SettleToken(t)
               \/ \E q \in 1..2, px \in AccountPrices : AC!RecoverMissedFill(t, q, px)
        PROVE  UNCHANGED <<fee, accountSnapshot, mark>>
        BY <1>8 DEF AC!Resolve, AC!Redeem, AC!SettleToken, AC!RecoverMissedFill, AC!ledger
  <1>9. AC!TickEnd => UNCHANGED <<fee, accountSnapshot, mark>>
        BY DEF AC!TickEnd, AC!ledger
  <1>10. UNCHANGED AC!vars => UNCHANGED <<fee, accountSnapshot, mark>>
        BY DEF AC!vars, AC!ledger
  <1> QED BY <1>2, <1>3, <1>4, <1>5, <1>6, <1>7, <1>8, <1>9, <1>10 DEF AC!Next

(* With the other three invariants that is the type of the account.         *)
LEMMA AccountTypes ==
  ASSUME BooksInv, BetweenInv, CoveredInv, FeesAndMarks
  PROVE  AC!TypeOK
  BY DEF BooksInv, BetweenInv, CoveredInv, FeesAndMarks, AC!TypeOK, AC!Outcomes, AC!None, Holding

(* Each component follows its own specification, whichever of them the      *)
(* behaviour follows.                                                       *)
LEMMA MoneyAreSpecs == MoneySpec => AC!Spec /\ EX!Spec
  <1>1. MoneyInit => AC!Init /\ EX!Init
        BY DEF MoneyInit
  <1>2. [MoneyNext]_moneyVars => [AC!Next]_AC!vars
        <2>1. ASSUME MoneyNext PROVE [AC!Next]_AC!vars
              <3>1. CASE moneyPart = "account" /\ AC!Next
                    BY <3>1
              <3>2. CASE UNCHANGED account
                    BY <3>2 DEF account, AC!vars, AC!tick, AC!ledger, AC!drawdown, AC!exchange
              <3> QED BY <2>1, <3>1, <3>2 DEF MoneyNext
        <2>2. ASSUME UNCHANGED moneyVars PROVE UNCHANGED AC!vars
              BY <2>2 DEF moneyVars, account, AC!vars, AC!tick, AC!ledger, AC!drawdown, AC!exchange
        <2> QED BY <2>1, <2>2
  <1>3. [MoneyNext]_moneyVars => [EX!Next]_EX!vars
        <2>1. ASSUME MoneyNext PROVE [EX!Next]_EX!vars
              <3>1. CASE moneyPart = "exposure" /\ EX!Next
                    BY <3>1
              <3>2. CASE UNCHANGED exposure
                    BY <3>2 DEF exposure, EX!vars, EX!gateway, EX!exposures, EX!bounds
              <3> QED BY <2>1, <3>1, <3>2 DEF MoneyNext
        <2>2. ASSUME UNCHANGED moneyVars PROVE UNCHANGED EX!vars
              BY <2>2 DEF moneyVars, exposure, EX!vars, EX!gateway, EX!exposures, EX!bounds
        <2> QED BY <2>1, <2>2
  <1> QED BY <1>1, <1>2, <1>3, PTL DEF MoneySpec, AC!Spec, EX!Spec

(* All that is promised of the money, at once: its books, its purchases and *)
(* the multiplier of its sizes, and the caps of what is held, for any       *)
(* number of tokens, markets, trades and restarts.                          *)
THEOREM MoneyMoneyHolds ==
  ASSUME CapsOn
  PROVE  MoneySpec => []MoneyHolds
  <1>0. AC!AccountAssumption /\ FeesAndMarks => MarksInv
        BY AccountFinite DEF FeesAndMarks, MarksInv
  <1>1. AC!Init => BooksInv /\ BetweenInv /\ CoveredInv /\ FeesAndMarks
        <2>1. AC!Init => BetweenInv /\ CoveredInv
              BY DEF AC!Init, BetweenInv, CoveredInv
        <2> QED BY <2>1, BooksInit, FeesAndMarksInit, MoneyAssumption
  <1>2. BooksInv /\ BetweenInv /\ CoveredInv /\ FeesAndMarks /\ [AC!Next]_AC!vars
          => BooksInv' /\ BetweenInv' /\ CoveredInv' /\ FeesAndMarks'
        BY <1>0, BooksNext, BetweenNext, CoveredNext, FeesAndMarksNext, MoneyAssumption
  <1>3. BooksInv /\ BetweenInv /\ CoveredInv /\ FeesAndMarks => AC!TypeOK
        BY AccountTypes
  <1>4. AC!Spec => []AC!TypeOK
        BY <1>1, <1>2, <1>3, PTL DEF AC!Spec
  <1>5. EX!Init => ExposureInv
        BY ExposureInit, MoneyAssumption
  <1>6. ExposureInv /\ [EX!Next]_EX!vars => ExposureInv'
        BY ExposureNext, MoneyAssumption
  <1>7. ExposureInv => EX!TypeOK
        BY DEF ExposureInv
  <1>8. EX!Spec => []EX!TypeOK
        BY <1>5, <1>6, <1>7, PTL DEF EX!Spec
  <1>9. /\ AC!Spec => []AC!BooksBalance /\ []AC!DrawdownBetween /\ []AC!EachPurchaseCovered
        /\ EX!Spec => []EX!ExposuresAreLedger /\ []EX!CapsHoldOnLedger
        BY SpecBooksBalance, SpecDrawdownBetween, SpecEachPurchaseCovered, SpecExposuresAreLedger,
           SpecCapsHoldOnLedger, MoneyAssumption, PTL
  <1>10. /\ AC!TypeOK /\ AC!BooksBalance /\ AC!EachPurchaseCovered /\ AC!DrawdownBetween
         /\ EX!TypeOK /\ EX!ExposuresAreLedger /\ EX!CapsHoldOnLedger
         => MoneyHolds
        BY DEF MoneyHolds, EX!ExposureHolds
  <1> QED BY <1>4, <1>8, <1>9, <1>10, MoneyAreSpecs, PTL
=============================================================================
