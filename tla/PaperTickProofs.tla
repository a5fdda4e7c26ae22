--------------------------- MODULE PaperTickProofs ---------------------------
(***************************************************************************)
(* Proofs about PaperTick, for every market, fair price, sizing and        *)
(* rounding.                                                               *)
(*                                                                         *)
(* NeverSwitches is about which token a tick may touch: no arithmetic, only*)
(* that the book has an entry for both sides.  RideToSettlement is about   *)
(* the sign of an order: while the game is undecided the selected side's   *)
(* target is at least what it cost, a drawdown keeps it so, and Decide     *)
(* then buys or does nothing.  For that the cost must be a number, so the  *)
(* invariant is the type of the book, which the weighted mean keeps.       *)
(* NoChurn needs more: that what the last tick bought it bought a margin   *)
(* below the fair price it saw, while a sale is a margin above.            *)
(*                                                                         *)
(* The last section is about Decision, the other half of TickOne.  Its     *)
(* theorem is a lemma for each thing promised of a purchase, over one      *)
(* invariant: what is fed is of its sets, the samples of the odds are of   *)
(* rising times, and on paper no order is ever on its way.                 *)
(***************************************************************************)
EXTENDS PaperTick, Reads, SumTheorems, Sequences, TLAPS

BookOK == positions \in [Sides -> LP!PositionView]

-----------------------------------------------------------------------------
(* Numbers.                                                                  *)

(* Natural numbers are closed under multiplication.                          *)
LEMMA NatProduct == ASSUME NEW x \in Nat, NEW y \in Nat PROVE x * y \in Nat
  OBVIOUS

(* Integers are closed under multiplication.                                 *)
LEMMA IntProduct == ASSUME NEW x \in Int, NEW y \in Int PROVE x * y \in Int
  OBVIOUS

(* The product of two positive numbers is positive.                          *)
LEMMA PositiveProduct ==
  ASSUME NEW x \in Nat \ {0}, NEW y \in Nat \ {0} PROVE x * y \in Nat \ {0}
  OBVIOUS

(* Rounding to the nearest gives a number, and none below 0 from above 0.   *)
LEMMA RoundedIsInt ==
  ASSUME NEW n \in Int, NEW d \in Nat \ {0}
  PROVE  Rounded(n, d) \in Int /\ (n >= 0 => Rounded(n, d) >= 0)
  <1>1. 2 * d \in Nat \ {0} OBVIOUS
  <1>2. \A a \in Int, b \in Nat \ {0} : a \div b \in Int /\ (a >= 0 => a \div b >= 0)
        OBVIOUS
  <1>3. 2 * n + d \in Int /\ d - 2 * n \in Int /\ (n >= 0 => 2 * n + d >= 0)
        OBVIOUS
  <1>4. (2 * n + d) \div (2 * d) \in Int /\ (n >= 0 => (2 * n + d) \div (2 * d) >= 0)
        BY <1>1, <1>2, <1>3
  <1>5. -((d - 2 * n) \div (2 * d)) \in Int
        BY <1>1, <1>2, <1>3
  <1> QED BY <1>4, <1>5 DEF Rounded

-----------------------------------------------------------------------------
(* The book.                                                                 *)

(* The entry price after a purchase is a fraction.                           *)
LEMMA WeightedMeanIsFraction ==
  ASSUME NEW s \in Nat \ {0}, NEW k \in Nat \ {0}, NEW a \in LP!Fraction, NEW p \in LP!Fraction
  PROVE  LP!WeightedMean(s, a, k, p) \in LP!Fraction
  <1>1. /\ a.num \in Nat /\ a.den \in Nat \ {0}
        /\ p.num \in Nat /\ p.den \in Nat \ {0}
        BY DEF LP!Fraction
  <1>2. s * a.num * p.den \in Nat
        <2>1. s * a.num \in Nat BY <1>1, NatProduct
        <2> QED BY <1>1, <2>1, NatProduct
  <1>3. k * p.num * a.den \in Nat
        <2>1. k * p.num \in Nat BY <1>1, NatProduct
        <2> QED BY <1>1, <2>1, NatProduct
  <1>4. (s + k) * (a.den * p.den) \in Nat \ {0}
        <2>1. a.den * p.den \in Nat \ {0} BY <1>1, PositiveProduct
        <2>2. s + k \in Nat \ {0} OBVIOUS
        <2> QED BY <2>1, <2>2, PositiveProduct
  <1> QED BY <1>2, <1>3, <1>4 DEF LP!WeightedMean, LP!Fraction

(* Booking a fill keeps the type of a position and moves it by the fill.     *)
LEMMA UpdateKeepsType ==
  ASSUME NEW pv \in LP!PositionView, NEW size \in Int, NEW price \in LP!Fraction
  PROVE  /\ LP!UpdatedPosition(pv, size, price) \in LP!PositionView
         /\ LP!UpdatedPosition(pv, size, price).shares = pv.shares + size
  <1>1. /\ pv.shares \in Int /\ pv.listed \in BOOLEAN /\ pv.avg \in LP!Fraction
        BY DEF LP!PositionView
  <1>2. LP!Zero \in LP!Fraction
        BY DEF LP!Zero, LP!Fraction
  <1>3. LP!EntryPrice(pv, size, price) \in LP!Fraction
        <2>1. CASE size > 0 /\ pv.shares > 0
              <3>1. LP!WeightedMean(pv.shares, pv.avg, size, price) \in LP!Fraction
                    BY <2>1, <1>1, WeightedMeanIsFraction
              <3> QED BY <3>1, <1>1, <1>2 DEF LP!EntryPrice
        <2>2. CASE ~(size > 0 /\ pv.shares > 0)
              BY <2>2, <1>1, <1>2 DEF LP!EntryPrice
        <2> QED BY <2>1, <2>2
  <1> QED BY <1>1, <1>3 DEF LP!UpdatedPosition, LP!PositionView

(* What a holding cost is a whole amount.                                    *)
LEMMA CostIsInt == ASSUME NEW pv \in LP!PositionView PROVE Cost(pv) \in Int
  <1>1. pv.shares \in Int /\ pv.avg.num \in Int /\ pv.avg.den \in Nat \ {0}
        BY DEF LP!PositionView, LP!Fraction
  <1>2. pv.shares * pv.avg.num \in Int BY <1>1, IntProduct
  <1>3. pv.avg.den * kOne \in Nat \ {0} BY <1>1, PaperTickAssumption, PositiveProduct DEF PaperTickAssumption
  <1> QED BY <1>2, <1>3, RoundedIsInt DEF Cost

-----------------------------------------------------------------------------
(* One order.                                                                *)

(* There are two sides, and each is the other of the other.                  *)
LEMMA SidesFacts ==
  /\ \A s \in Sides : Other(s) \in Sides /\ Other(s) # s /\ Other(Other(s)) = s
  /\ \A s, x \in Sides : x = s \/ x = Other(s)
  BY DEF Sides, Other

(* A side's order touches that side only, and its sign is the sign of what  *)
(* happens to the holding.                                                  *)
LEMMA ExecutedEffect ==
  ASSUME NEW pos \in [Sides -> LP!PositionView], NEW m \in Market, NEW s \in Sides,
         NEW amount \in Int, NEW rate \in 0..2
  PROVE  /\ Executed(m, s, pos, amount, rate) \in [Sides -> LP!PositionView]
         /\ Executed(m, s, pos, amount, rate)[Other(s)] = pos[Other(s)]
         /\ amount >= 0 => Executed(m, s, pos, amount, rate)[s].shares >= pos[s].shares
         /\ amount <= 0 => Executed(m, s, pos, amount, rate)[s].shares <= pos[s].shares
  <1> DEFINE price == IF amount > 0 THEN Ask(m, s) ELSE Bid(m, s)
             shares == Rounded(SharesFor(Magnitude(amount), price) * rate, 2)
             size == IF amount > 0 THEN shares ELSE -shares
             new == LP!UpdatedPosition(pos[s], size, LP!Ticks(price))
  <1>1. price \in Nat \ {0}
        <2>1. /\ m.book.bid \in 1..(kOne - 1) /\ m.book.ask \in 1..(kOne - 1) /\ kOne \in Nat
              BY PaperTickAssumption DEF PaperTickAssumption, Market
        <2> QED BY <2>1 DEF Ask, Bid
  <1>2. shares \in Nat
        <2>1. Magnitude(amount) \in Nat BY DEF Magnitude, Larger
        <2>2. Magnitude(amount) * kOne \in Nat
              BY <2>1, NatProduct, PaperTickAssumption DEF PaperTickAssumption
        <2>3. SharesFor(Magnitude(amount), price) \in Nat
              <3> HIDE DEF price
              <3> QED BY <2>2, <1>1, RoundedIsInt DEF SharesFor
        <2>4. SharesFor(Magnitude(amount), price) * rate \in Nat
              <3> HIDE DEF price
              <3> QED BY <2>3, NatProduct
        <2> HIDE DEF price
        <2> QED BY <2>4, RoundedIsInt
  <1>3. size \in Int /\ (amount > 0 => size >= 0) /\ (amount <= 0 => size <= 0)
        <2> HIDE DEF shares
        <2> QED BY <1>2
  <1>4. LP!Ticks(price) \in LP!Fraction
        <2> HIDE DEF price
        <2> QED BY <1>1 DEF LP!Ticks, LP!Fraction
  <1>5. pos[s] \in LP!PositionView /\ pos[s].shares \in Int
        BY DEF LP!PositionView
  <1>6. new \in LP!PositionView /\ new.shares = pos[s].shares + size
        <2> HIDE DEF size, price
        <2> QED BY <1>3, <1>4, <1>5, UpdateKeepsType
  <1>7. \/ Executed(m, s, pos, amount, rate) = pos
        \/ amount # 0 /\ Executed(m, s, pos, amount, rate) = [pos EXCEPT ![s] = new]
        BY DEF Executed
  <1> HIDE DEF new, size
  <1> QED BY <1>3, <1>5, <1>6, <1>7, SidesFacts

(* A number that is neither positive nor negative has no negative.           *)
LEMMA MinusZero == ASSUME NEW x \in Int, x >= 0, x <= 0 PROVE -x = 0
  OBVIOUS

(* A clamped sale is a number, and no sale at all when there is no gap.      *)
LEMMA SaleSize ==
  ASSUME NEW gap \in Int, NEW current \in Int, NEW cap \in Nat \ {0}
  PROVE  /\ -Smaller(Smaller(-gap, cap), Larger(0, current)) \in Int
         /\ gap >= 0 /\ gap <= 0 => -Smaller(Smaller(-gap, cap), Larger(0, current)) = 0
  <1>1. Larger(0, current) \in Nat BY DEF Larger
  <1>2. Smaller(-gap, cap) \in Int BY DEF Smaller
  <1>3. Smaller(Smaller(-gap, cap), Larger(0, current)) \in Int
        BY <1>1, <1>2 DEF Smaller
  <1>4. ASSUME gap >= 0, gap <= 0
        PROVE  -Smaller(Smaller(-gap, cap), Larger(0, current)) = 0
        <2>1. -gap = 0 BY <1>4, MinusZero
        <2>2. Smaller(-gap, cap) = 0 BY <2>1 DEF Smaller
        <2>3. Smaller(0, Larger(0, current)) = 0 BY <1>1 DEF Smaller
        <2>4. Smaller(Smaller(-gap, cap), Larger(0, current)) = 0 BY <2>2, <2>3
        <2> HIDE DEF Smaller
        <2> QED BY <2>4, <1>3, MinusZero
  <1> QED BY <1>3, <1>4

(* An order is a number, and not a sale when the target is not below what    *)
(* the holding cost.                                                         *)
LEMMA OrderIsInt ==
  ASSUME NEW pos \in [Sides -> LP!PositionView], NEW m \in Market, NEW s \in Sides,
         NEW target \in Nat, NEW force \in BOOLEAN
  PROVE  /\ Order(m, s, pos, target, force) \in Int
         /\ target >= Cost(pos[s]) => Order(m, s, pos, target, force) >= 0
  <1> DEFINE current == Cost(pos[s])
             aim == DrawnDown(target, current, m.dd)
             gap == aim - current
             minOrder == MinOrder(Ask(m, s))
             size == Decide(aim, current, Fair(m, s), Bid(m, s), Ask(m, s),
                            Deadband(target), minOrder, force)
  <1>1. current \in Int BY CostIsInt
  <1>2. m.dd \in 0..2 /\ kOne \in Nat \ {0} /\ per_order_cap_usdc \in Nat \ {0}
        /\ kClobMinNotionalUsd \in Nat /\ kClobMinShares \in Nat
        BY PaperTickAssumption DEF PaperTickAssumption, Market
  <1>3. aim \in Int /\ (target >= current => aim >= current)
        <2> HIDE DEF current
        <2>1. CASE m.dd = 0 BY <2>1, <1>1 DEF DrawnDown
        <2>2. CASE m.dd = 1 BY <2>2, <1>1 DEF DrawnDown
        <2>3. CASE m.dd = 2 BY <2>3, <1>1 DEF DrawnDown
        <2> QED BY <2>1, <2>2, <2>3, <1>2
  <1>4. minOrder \in Nat
        <2>1. Ask(m, s) \in Nat
              <3>1. /\ m.book.bid \in 1..(kOne - 1) /\ m.book.ask \in 1..(kOne - 1)
                    BY PaperTickAssumption DEF PaperTickAssumption, Market
              <3> QED BY <3>1, <1>2 DEF Ask
        <2>2. kClobMinShares * Ask(m, s) \in Nat BY <2>1, <1>2, NatProduct
        <2>3. Rounded(kClobMinShares * Ask(m, s), kOne) \in Nat BY <2>2, <1>2, RoundedIsInt
        <2> QED BY <2>3, <1>2 DEF MinOrder, Larger
  <1>5. gap > 0 => BuySize(gap, current, minOrder) \in Nat
        <2> HIDE DEF current, aim, minOrder
        <2> QED BY <1>1, <1>2, <1>3, <1>4 DEF BuySize, Smaller
  <1>6. size \in Int /\ (gap >= 0 => size >= 0)
        <2> HIDE DEF current, aim, minOrder
        <2>1. CASE gap > 0
              <3>1. size = 0 \/ size = BuySize(gap, current, minOrder)
                    BY <2>1 DEF Decide
              <3> HIDE DEF size
              <3> QED BY <3>1, <2>1, <1>5
        <2>2. CASE ~(gap > 0)
              <3>1. /\ -Smaller(Smaller(-gap, per_order_cap_usdc), Larger(0, current)) \in Int
                    /\ gap >= 0 /\ gap <= 0 => -Smaller(Smaller(-gap, per_order_cap_usdc), Larger(0, current)) = 0
                    <4>1. gap \in Int BY <1>1, <1>3
                    <4> HIDE DEF gap
                    <4> QED BY <4>1, <1>1, <1>2, SaleSize
              <3>2. \/ size = 0
                    \/ size = -Smaller(Smaller(-gap, per_order_cap_usdc), Larger(0, current))
                    BY <2>2 DEF Decide
              <3> HIDE DEF size
              <3> QED BY <3>1, <3>2, <2>2, <1>1, <1>3
        <2> QED BY <2>1, <2>2
  <1>7. Order(m, s, pos, target, force) = size \/ Order(m, s, pos, target, force) = 0
        BY DEF Order
  <1> HIDE DEF size, aim, current
  <1>8. target >= current => gap >= 0 BY <1>1, <1>3
  <1>9. Order(m, s, pos, target, force) \in Int
        /\ (target >= current => Order(m, s, pos, target, force) >= 0)
        BY <1>6, <1>7, <1>8
  <1> QED BY <1>9 DEF current

(* A clamped sale of no negative gap is not a purchase.                      *)
LEMMA SaleIsNoPurchase ==
  ASSUME NEW gap \in Int, NEW current \in Int, NEW cap \in Nat \ {0}, gap <= 0
  PROVE  -Smaller(Smaller(-gap, cap), Larger(0, current)) <= 0
  <1>1. Larger(0, current) \in Nat BY DEF Larger
  <1>2. Smaller(-gap, cap) \in Nat BY DEF Smaller
  <1>3. Smaller(Smaller(-gap, cap), Larger(0, current)) \in Nat
        BY <1>1, <1>2 DEF Smaller
  <1> HIDE DEF Smaller, Larger
  <1> QED BY <1>3

(* A purchase is a margin below the fair price, a sale a margin above.       *)
LEMMA OrderWithinMargin ==
  ASSUME NEW pos \in [Sides -> LP!PositionView], NEW m \in Market, NEW s \in Sides,
         NEW target \in Nat, NEW force \in BOOLEAN
  PROVE  /\ Order(m, s, pos, target, force) > 0 => Ask(m, s) <= Fair(m, s) - margin
         /\ Order(m, s, pos, target, force) < 0 => Bid(m, s) >= Fair(m, s) + margin
  <1> DEFINE current == Cost(pos[s])
             aim == DrawnDown(target, current, m.dd)
             gap == aim - current
             minOrder == MinOrder(Ask(m, s))
             size == Decide(aim, current, Fair(m, s), Bid(m, s), Ask(m, s),
                            Deadband(target), minOrder, force)
             sale == -Smaller(Smaller(-gap, per_order_cap_usdc), Larger(0, current))
  <1>1. current \in Int BY CostIsInt
  <1>2. per_order_cap_usdc \in Nat \ {0} /\ kOne \in Nat \ {0} /\ m.dd \in 0..2
        /\ kClobMinNotionalUsd \in Nat /\ kClobMinShares \in Nat
        BY PaperTickAssumption DEF PaperTickAssumption, Market
  <1>3. gap \in Int
        <2> HIDE DEF current
        <2>1. CASE m.dd = 0 BY <2>1, <1>1 DEF DrawnDown
        <2>2. CASE m.dd = 1 BY <2>2, <1>1 DEF DrawnDown
        <2>3. CASE m.dd = 2 BY <2>3, <1>1 DEF DrawnDown
        <2> QED BY <2>1, <2>2, <2>3, <1>2
  <1>4. minOrder \in Nat
        <2>1. Ask(m, s) \in Nat
              <3>1. /\ m.book.bid \in 1..(kOne - 1) /\ m.book.ask \in 1..(kOne - 1)
                    BY PaperTickAssumption DEF PaperTickAssumption, Market
              <3> QED BY <3>1, <1>2 DEF Ask
        <2>2. kClobMinShares * Ask(m, s) \in Nat BY <2>1, <1>2, NatProduct
        <2>3. Rounded(kClobMinShares * Ask(m, s), kOne) \in Nat BY <2>2, <1>2, RoundedIsInt
        <2> QED BY <2>3, <1>2 DEF MinOrder, Larger
  <1>5. CASE gap > 0
        <2>1. \/ size = 0
              \/ size = BuySize(gap, current, minOrder) /\ Ask(m, s) <= Fair(m, s) - margin
              BY <1>5 DEF Decide
        <2>2. BuySize(gap, current, minOrder) \in Nat
              <3> HIDE DEF gap, current, minOrder
              <3> QED BY <1>1, <1>2, <1>3, <1>4, <1>5 DEF BuySize, Smaller
        <2> HIDE DEF size
        <2> QED BY <2>1, <2>2 DEF Order, size
  <1>6. CASE ~(gap > 0)
        <2>1. size = 0 \/ (size = sale /\ Bid(m, s) >= Fair(m, s) + margin)
              BY <1>6 DEF Decide
        <2>2. sale \in Int /\ sale <= 0
              <3> HIDE DEF gap, current
              <3> QED BY <1>1, <1>2, <1>3, <1>6, SaleSize, SaleIsNoPurchase
        <2>3. Order(m, s, pos, target, force) = size \/ Order(m, s, pos, target, force) = 0
              BY DEF Order
        <2> HIDE DEF size, sale
        <2> QED BY <2>1, <2>2, <2>3
  <1> QED BY <1>5, <1>6

(* So a holding grows only a margin below the fair price and shrinks only a  *)
(* margin above.                                                             *)
LEMMA SideWithinMargin ==
  ASSUME NEW pos \in [Sides -> LP!PositionView], NEW m \in Market, NEW s \in Sides,
         NEW target \in Nat, NEW force \in BOOLEAN, NEW rate \in 0..2,
         NEW new, new = ExecuteControllerSide(m, s, pos, target, force, rate)
  PROVE  /\ new \in [Sides -> LP!PositionView] /\ new[Other(s)] = pos[Other(s)]
         /\ new[s].shares > pos[s].shares => Ask(m, s) <= Fair(m, s) - margin
         /\ new[s].shares < pos[s].shares => Bid(m, s) >= Fair(m, s) + margin
  <1> DEFINE amount == Order(m, s, pos, target, force)
  <1>1. amount \in Int BY OrderIsInt
  <1>2. /\ amount > 0 => Ask(m, s) <= Fair(m, s) - margin
        /\ amount < 0 => Bid(m, s) >= Fair(m, s) + margin
        BY OrderWithinMargin
  <1>3. new = Executed(m, s, pos, amount, rate) BY DEF ExecuteControllerSide
  <1> HIDE DEF amount
  <1>4. /\ new \in [Sides -> LP!PositionView] /\ new[Other(s)] = pos[Other(s)]
        /\ amount >= 0 => new[s].shares >= pos[s].shares
        /\ amount <= 0 => new[s].shares <= pos[s].shares
        BY <1>1, <1>3, ExecutedEffect
  <1>5. new[s].shares \in Int /\ pos[s].shares \in Int
        BY <1>4 DEF LP!PositionView
  <1> QED BY <1>1, <1>2, <1>4, <1>5

-----------------------------------------------------------------------------
(* One tick.                                                                 *)

(* The selected side is a side; the other one is held only beside it.        *)
LEMMA SelectedIsSide ==
  ASSUME NEW m \in Market, NEW pos
  PROVE  /\ SelectSide(m, pos) \in Sides
         /\ Held(pos, Other(SelectSide(m, pos))) => BothHeld(pos)
  <1>1. CASE Held(pos, "Yes") # Held(pos, "No")
        <2>1. \E s \in Sides : Held(pos, s)
              BY <1>1 DEF Sides, Held
        <2>2. SelectSide(m, pos) \in Sides /\ Held(pos, SelectSide(m, pos))
              BY <1>1, <2>1 DEF SelectSide
        <2> QED BY <2>2 DEF Sides, Other, BothHeld
  <1>2. CASE Held(pos, "Yes") = Held(pos, "No")
        <2>1. SelectSide(m, pos) \in Sides
              BY <1>2 DEF SelectSide, Sides
        <2> QED BY <1>2, <2>1 DEF Sides, Other, BothHeld, Held
  <1> QED BY <1>1, <1>2

(* The target of the selected side is an amount of money and, while the      *)
(* game is undecided, at least what the holding cost.                        *)
LEMMA TargetFacts ==
  ASSUME NEW pos \in [Sides -> LP!PositionView], NEW m \in Market, NEW s \in Sides
  PROVE  /\ SelectedTarget(m, s, pos) \in Nat
         /\ m.decided = 0 => SelectedTarget(m, s, pos) >= Cost(pos[s])
  <1> DEFINE c == Cost(pos[s])
             k == KellyTarget(m, s)
  <1>1. c \in Int BY CostIsInt
  <1>2. k \in Nat /\ must_win_lock_usdc \in Nat
        BY PaperTickAssumption DEF PaperTickAssumption, Market, KellyTarget
  <1>3. Magnitude(c) \in Nat /\ Magnitude(c) >= c
        <2> HIDE DEF c
        <2> QED BY <1>1 DEF Magnitude, Larger
  <1>4. /\ Larger(k, must_win_lock_usdc) \in Nat
        /\ Larger(k, Magnitude(c)) \in Nat /\ Larger(k, Magnitude(c)) >= c
        <2> HIDE DEF c, k
        <2> QED BY <1>1, <1>2, <1>3 DEF Larger
  <1>5. m.decided = 0 => ~Loses(m, s) /\ ~Wins(m, s)
        BY DEF Loses, Wins
  <1>6. \/ SelectedTarget(m, s, pos) = 0 /\ Loses(m, s)
        \/ SelectedTarget(m, s, pos) = Larger(k, must_win_lock_usdc) /\ Wins(m, s)
        \/ SelectedTarget(m, s, pos) = Larger(k, Magnitude(c))
        BY DEF SelectedTarget
  <1> QED BY <1>4, <1>5, <1>6

(* What a tick does to the book: the selected side loses nothing while the  *)
(* game is undecided, the other side is touched only if it is held, and     *)
(* while the game is undecided only at no loss.                             *)
LEMMA TickEffect ==
  ASSUME BookOK, NEW m \in Market, NEW rate \in 0..2, NEW otherRate \in 0..2,
         TickOne(m, rate, otherRate),
         NEW s, s = SelectSide(m, positions)
  PROVE  /\ BookOK'
         /\ s \in Sides
         /\ m.decided = 0 => positions'[s].shares >= positions[s].shares
         /\ \/ positions'[Other(s)] = positions[Other(s)]
            \/ /\ Held(positions, Other(s))
               /\ m.decided = 0 => ~Below(Bid(m, Other(s)), positions[Other(s)])
  <1> DEFINE o == Other(s)
             target == SelectedTarget(m, s, positions)
             force == ForceCross(m) \/ LocksWin(m, s)
             amount == Order(m, s, positions, target, force)
             mid == ExecuteControllerSide(m, s, positions, target, force, rate)
             oAmount == Order(m, o, mid, 0, ForceCross(m))
             closed == ExecuteControllerSide(m, o, mid, 0, ForceCross(m), otherRate)
  <1>1. s \in Sides /\ o \in Sides /\ Other(o) = s /\ o # s
        BY SelectedIsSide, SidesFacts
  <1>2. positions \in [Sides -> LP!PositionView] BY DEF BookOK
  <1>3. force \in BOOLEAN /\ ForceCross(m) \in BOOLEAN
        BY DEF ForceCross, LocksWin, Wins, Loses, Market
  <1>4. /\ amount \in Int
        /\ m.decided = 0 => amount >= 0
        <2>1. target \in Nat /\ (m.decided = 0 => target >= Cost(positions[s]))
              BY <1>1, <1>2, TargetFacts
        <2> HIDE DEF target, force
        <2> QED BY <1>1, <1>2, <1>3, <2>1, OrderIsInt
  <1>5. /\ mid \in [Sides -> LP!PositionView]
        /\ mid[o] = positions[o]
        /\ m.decided = 0 => mid[s].shares >= positions[s].shares
        <2>1. mid = Executed(m, s, positions, amount, rate)
              BY DEF ExecuteControllerSide
        <2> HIDE DEF amount, mid
        <2> QED BY <1>1, <1>2, <1>4, <2>1, ExecutedEffect
  <1>6. /\ closed \in [Sides -> LP!PositionView]
        /\ closed[s] = mid[s]
        <2>1. closed = Executed(m, o, mid, oAmount, otherRate)
              BY DEF ExecuteControllerSide
        <2>2. oAmount \in Int
              <3> HIDE DEF mid
              <3> QED BY <1>1, <1>3, <1>5, OrderIsInt
        <2> HIDE DEF oAmount, closed, mid
        <2> QED BY <1>1, <1>5, <2>1, <2>2, ExecutedEffect
  <1>7. \/ positions' = closed /\ SellsOther(m, o, mid)
        \/ positions' = mid
        BY DEF TickOne
  <1> HIDE DEF closed, mid
  <1>8. CASE positions' = mid
        BY <1>1, <1>5, <1>8 DEF BookOK
  <1>9. CASE positions' = closed /\ SellsOther(m, o, mid)
        <2>1. BookOK' /\ (m.decided = 0 => positions'[s].shares >= positions[s].shares)
              BY <1>5, <1>6, <1>9 DEF BookOK
        <2>2. Held(mid, o) /\ (m.decided = 0 => ~Below(Bid(m, o), mid[o]))
              BY <1>9 DEF SellsOther
        <2>3. Held(positions, o) /\ (m.decided = 0 => ~Below(Bid(m, o), positions[o]))
              BY <2>2, <1>5 DEF Held
        <2> QED BY <1>1, <2>1, <2>3
  <1> QED BY <1>7, <1>8, <1>9

(* What one tick may do: it trades the selected side, sells nothing of it    *)
(* while the game is undecided, and sells of the other side only when both   *)
(* are held.                                                                 *)
LEMMA TickParts ==
  ASSUME BookOK, Next
  PROVE  \E m \in Market, s \in Sides :
           /\ BookOK'
           /\ Held(positions, Other(s)) => BothHeld(positions)
           /\ tick'.decided = m.decided /\ tick'.book = m.book
           /\ m.decided = 0 => positions'[s].shares >= positions[s].shares
           /\ \/ positions'[Other(s)] = positions[Other(s)]
              \/ /\ Held(positions, Other(s))
                 /\ m.decided = 0 => ~Below(Bid(m, Other(s)), positions[Other(s)])
  <1>1. PICK m \in Market, rate \in FillRates, otherRate \in FillRates : TickOne(m, rate, otherRate)
        BY DEF Next
  <1>2. rate \in 0..2 /\ otherRate \in 0..2
        BY PaperTickAssumption DEF PaperTickAssumption
  <1>3. tick'.decided = m.decided /\ tick'.book = m.book
        BY <1>1 DEF TickOne, Seen
  <1> DEFINE s == SelectSide(m, positions)
  <1>4. s \in Sides /\ (Held(positions, Other(s)) => BothHeld(positions))
        BY SelectedIsSide
  <1> HIDE DEF s
  <1>5. s = SelectSide(m, positions) BY DEF s
  <1> QED BY <1>1, <1>2, <1>3, <1>4, <1>5, TickEffect

(* What a tick trades, it trades a margin away from the fair price.          *)
LEMMA TickWithinMargin ==
  ASSUME BookOK, NEW m \in Market, NEW rate \in 0..2, NEW otherRate \in 0..2,
         TickOne(m, rate, otherRate), NEW x \in Sides
  PROVE  /\ positions'[x].shares > positions[x].shares => Ask(m, x) <= Fair(m, x) - margin
         /\ positions'[x].shares < positions[x].shares => Bid(m, x) >= Fair(m, x) + margin
  <1> DEFINE s == SelectSide(m, positions)
             o == Other(s)
             target == SelectedTarget(m, s, positions)
             force == ForceCross(m) \/ LocksWin(m, s)
             mid == ExecuteControllerSide(m, s, positions, target, force, rate)
             closed == ExecuteControllerSide(m, o, mid, 0, ForceCross(m), otherRate)
  <1>1. s \in Sides /\ o \in Sides /\ Other(o) = s /\ o # s /\ (x = s \/ x = o)
        BY SelectedIsSide, SidesFacts
  <1>2. positions \in [Sides -> LP!PositionView] BY DEF BookOK
  <1>3. force \in BOOLEAN /\ ForceCross(m) \in BOOLEAN
        BY DEF ForceCross, LocksWin, Wins, Loses, Market
  <1>4. target \in Nat BY <1>1, <1>2, TargetFacts
  <1>5. positions' = closed \/ positions' = mid
        BY DEF TickOne
  <1> HIDE DEF target, force, s, o
  <1>6. /\ mid \in [Sides -> LP!PositionView] /\ mid[o] = positions[o]
        /\ mid[s].shares > positions[s].shares => Ask(m, s) <= Fair(m, s) - margin
        /\ mid[s].shares < positions[s].shares => Bid(m, s) >= Fair(m, s) + margin
        BY <1>1, <1>2, <1>3, <1>4, SideWithinMargin DEF o
  <1> HIDE DEF mid
  <1>7. /\ closed \in [Sides -> LP!PositionView] /\ closed[s] = mid[s]
        /\ closed[o].shares > mid[o].shares => Ask(m, o) <= Fair(m, o) - margin
        /\ closed[o].shares < mid[o].shares => Bid(m, o) >= Fair(m, o) + margin
        BY <1>1, <1>3, <1>6, SideWithinMargin, SMTT(30)
  <1> HIDE DEF closed
  <1>8. \A y \in Sides : positions[y].shares \in Int /\ mid[y].shares \in Int
        BY <1>2, <1>6 DEF LP!PositionView
  <1>9. CASE x = s
        BY <1>1, <1>5, <1>6, <1>7, <1>9
  <1>10. CASE x = o
        <2>1. CASE positions' = mid
              BY <1>1, <1>6, <1>8, <1>10, <2>1
        <2>2. CASE positions' = closed
              BY <1>6, <1>7, <1>10, <2>2
        <2> QED BY <1>5, <2>1, <2>2
  <1> QED BY <1>1, <1>9, <1>10

(* A restored or an empty book has the type.                                 *)
LEMMA InitBookOK == Init => BookOK
  <1> SUFFICES ASSUME Init PROVE BookOK OBVIOUS
  <1>1. /\ RestoredCost \in Nat \ {0} /\ RestoredPrice \in Nat \ {0} /\ kOne \in Nat
        BY PaperTickAssumption DEF PaperTickAssumption
  <1>2. SharesFor(RestoredCost, RestoredPrice) \in Int
        <2>1. RestoredCost * kOne \in Nat BY <1>1, NatProduct
        <2> QED BY <1>1, <2>1, RoundedIsInt DEF SharesFor
  <1>3. LP!NoPosition \in LP!PositionView
        BY DEF LP!NoPosition, LP!PositionView, LP!Zero, LP!Fraction
  <1>4. LP!Ticks(RestoredPrice) \in LP!Fraction
        BY <1>1 DEF LP!Ticks, LP!Fraction
  <1>5. LP!UpdatedPosition(LP!NoPosition, SharesFor(RestoredCost, RestoredPrice),
                           LP!Ticks(RestoredPrice)) \in LP!PositionView
        BY <1>2, <1>3, <1>4, UpdateKeepsType
  <1> QED BY <1>3, <1>5 DEF Init, BookOK

(* Every tick keeps the type of the book.                                    *)
LEMMA StepBookOK == BookOK /\ [Next]_vars => BookOK'
  <1>1. CASE UNCHANGED vars BY <1>1 DEF vars, BookOK
  <1>2. ASSUME BookOK, Next PROVE BookOK' BY <1>2, TickParts
  <1> QED BY <1>1, <1>2

(* The book has its type in every reachable state.                           *)
LEMMA SpecBookOK == Spec => []BookOK
  <1> QED BY InitBookOK, StepBookOK, PTL DEF Spec

-----------------------------------------------------------------------------

(* The loop never buys into the outcome opposite to one it holds, whatever  *)
(* the prices, the sizing and the matcher do (TickOne's side lock).         *)
THEOREM SpecNeverSwitches == Spec => NeverSwitches
  <1>1. BookOK /\ [Next]_vars => [BothHeld(positions') => BothHeld(positions)]_vars
        <2> SUFFICES ASSUME BookOK, Next, BothHeld(positions')
                     PROVE  BothHeld(positions)
            OBVIOUS
        <2>1. PICK s \in Sides :
                /\ Held(positions, Other(s)) => BothHeld(positions)
                /\ positions'[Other(s)] = positions[Other(s)] \/ Held(positions, Other(s))
              BY TickParts
        <2>2. Held(positions', Other(s))
              BY DEF BothHeld, Sides, Other
        <2> QED BY <2>1, <2>2 DEF Held
  <1> QED BY <1>1, SpecBookOK, PTL DEF Spec, NeverSwitches

(* Hold to settlement: while the game is undecided only a side held beside  *)
(* the other one is sold, and that at no loss.                              *)
THEOREM SpecRideToSettlement == Spec => RideToSettlement
  <1> DEFINE Rides ==
        tick'.decided = 0 =>
          \A s \in Sides :
            positions'[s].shares < positions[s].shares
              => BothHeld(positions) /\ ~Below(Bid(tick', s), positions[s])
  <1>1. BookOK /\ [Next]_vars => [Rides]_vars
        <2> SUFFICES ASSUME BookOK, Next, tick'.decided = 0, NEW x \in Sides,
                            positions'[x].shares < positions[x].shares
                     PROVE  BothHeld(positions) /\ ~Below(Bid(tick', x), positions[x])
            OBVIOUS
        <2>1. PICK m \in Market, s \in Sides :
                /\ BookOK'
                /\ Held(positions, Other(s)) => BothHeld(positions)
                /\ tick'.decided = m.decided /\ tick'.book = m.book
                /\ m.decided = 0 => positions'[s].shares >= positions[s].shares
                /\ \/ positions'[Other(s)] = positions[Other(s)]
                   \/ /\ Held(positions, Other(s))
                      /\ m.decided = 0 => ~Below(Bid(m, Other(s)), positions[Other(s)])
              BY TickParts
        <2>2. /\ positions[x].shares \in Int /\ positions'[x].shares \in Int
              BY <2>1 DEF BookOK, LP!PositionView
        <2>3. x = Other(s)
              BY <2>1, <2>2, SidesFacts
        <2>4. Held(positions, x) /\ ~Below(Bid(m, x), positions[x])
              BY <2>1, <2>2, <2>3
        <2>5. Bid(m, x) = Bid(tick', x)
              BY <2>1 DEF Bid
        <2> QED BY <2>1, <2>3, <2>4, <2>5
  <1> QED BY <1>1, SpecBookOK, PTL DEF Spec, RideToSettlement

(* What the last tick bought, it bought a margin below its fair price.       *)
BoughtBelowFair ==
  /\ tick.bought \subseteq Sides
  /\ \A s \in tick.bought : Ask(tick, s) <= Fair(tick, s) - margin

(* The loop never sells in one tick what it bought in the tick before unless *)
(* the book or the fair price moved, whatever the sizing, the drawdown, the  *)
(* score and the matcher do (the two margins of Decide).                     *)
THEOREM SpecNoChurn == Spec => NoChurn
  <1> DEFINE Steady ==
        \A s \in tick.bought :
          positions'[s].shares < positions[s].shares
            => <<tick'.book, tick'.fair>> # <<tick.book, tick.fair>>
  <1>1. Init => BoughtBelowFair
        BY DEF Init, Seen, BoughtBelowFair
  <1>2. ASSUME BookOK, Next
        PROVE  \E m \in Market :
                 /\ tick'.book = m.book /\ tick'.fair = m.fair
                 /\ tick'.bought = Bought(positions, positions')
                 /\ \A x \in Sides :
                      /\ positions'[x].shares > positions[x].shares => Ask(m, x) <= Fair(m, x) - margin
                      /\ positions'[x].shares < positions[x].shares => Bid(m, x) >= Fair(m, x) + margin
        <2>1. PICK m \in Market, rate \in FillRates, otherRate \in FillRates : TickOne(m, rate, otherRate)
              BY <1>2 DEF Next
        <2>2. rate \in 0..2 /\ otherRate \in 0..2
              BY PaperTickAssumption DEF PaperTickAssumption
        <2>3. /\ tick'.book = m.book /\ tick'.fair = m.fair
              /\ tick'.bought = Bought(positions, positions')
              BY <2>1 DEF TickOne, Seen
        <2> QED BY <1>2, <2>1, <2>2, <2>3, TickWithinMargin
  <1>3. BookOK /\ BoughtBelowFair /\ [Next]_vars => BoughtBelowFair'
        <2>1. CASE UNCHANGED vars
              BY <2>1 DEF vars, BoughtBelowFair, Ask, Fair
        <2>2. ASSUME BookOK, Next PROVE BoughtBelowFair'
              <3>1. PICK m \in Market :
                      /\ tick'.book = m.book /\ tick'.fair = m.fair
                      /\ tick'.bought = Bought(positions, positions')
                      /\ \A x \in Sides :
                           positions'[x].shares > positions[x].shares => Ask(m, x) <= Fair(m, x) - margin
                    BY <2>2, <1>2
              <3>2. \A x \in tick'.bought : x \in Sides /\ positions'[x].shares > positions[x].shares
                    BY <3>1 DEF Bought
              <3>3. \A x \in Sides : Ask(tick', x) = Ask(m, x) /\ Fair(tick', x) = Fair(m, x)
                    BY <3>1 DEF Ask, Fair
              <3>4. \A x \in tick'.bought : Ask(tick', x) <= Fair(tick', x) - margin
                    BY <3>1, <3>2, <3>3
              <3> QED BY <3>2, <3>4 DEF BoughtBelowFair
        <2> QED BY <2>1, <2>2
  <1>4. BookOK /\ BoughtBelowFair /\ [Next]_vars => [Steady]_vars
        <2> SUFFICES ASSUME BookOK, BoughtBelowFair, Next, NEW s \in tick.bought,
                            positions'[s].shares < positions[s].shares,
                            tick'.book = tick.book, tick'.fair = tick.fair
                     PROVE  FALSE
            OBVIOUS
        <2>1. PICK m \in Market :
                /\ tick'.book = m.book /\ tick'.fair = m.fair
                /\ \A x \in Sides :
                     positions'[x].shares < positions[x].shares => Bid(m, x) >= Fair(m, x) + margin
              BY <1>2
        <2>2. Ask(m, s) <= Fair(m, s) - margin
              BY <2>1 DEF BoughtBelowFair, Ask, Fair
        <2>3. s \in Sides
              BY DEF BoughtBelowFair
        <2>4. Bid(m, s) >= Fair(m, s) + margin
              BY <2>1, <2>3
        <2>5. /\ Bid(m, s) \in Int /\ Ask(m, s) \in Int /\ Fair(m, s) \in Int
              /\ Bid(m, s) < Ask(m, s)
              <3>1. /\ m.book.bid \in Int /\ m.book.ask \in Int /\ m.fair \in Int
                    /\ m.book.bid < m.book.ask /\ kOne \in Int
                    <4>1. m.book \in Books /\ m.fair \in Fairs BY DEF Market
                    <4>2. /\ m.book \in [bid : 1..(kOne - 1), ask : 1..(kOne - 1)]
                          /\ m.book.bid < m.book.ask /\ m.fair \in 1..(kOne - 1) /\ kOne \in Nat
                          BY <4>1, PaperTickAssumption DEF PaperTickAssumption
                    <4> QED BY <4>2
              <3> QED BY <3>1 DEF Bid, Ask, Fair
        <2>6. margin \in Nat BY PaperTickAssumption DEF PaperTickAssumption
        <2> QED BY <2>2, <2>4, <2>5, <2>6
  <1> QED BY <1>1, <1>3, <1>4, SpecBookOK, PTL DEF Spec, NoChurn

-----------------------------------------------------------------------------
(* The decision before the control, of which the control takes fair price   *)
(* and size as given.                                                       *)

(* A set of numbers has a least one.                                        *)
LEMMA LeastIs ==
  ASSUME NEW S, S \subseteq Nat, S # {}
  PROVE  DE!Least(S) \in S /\ \A y \in S : DE!Least(S) <= y
  <1>1. \E x \in S : \A y \in S : x <= y
        <2> SUFFICES ASSUME \A x \in S : \E y \in S : ~(x <= y)
                     PROVE  FALSE
            OBVIOUS
        <2> DEFINE Good == {n \in Nat : \A k \in 0..n : k \notin S}
        <2>1. 0 \in Good
              OBVIOUS
        <2>2. ASSUME NEW n \in Nat, n \in Good PROVE n + 1 \in Good
              <3> SUFFICES ASSUME n + 1 \in S PROVE FALSE
                  BY <2>2
              <3>1. PICK y \in S : ~(n + 1 <= y)
                    OBVIOUS
              <3>2. y \in 0..n
                    BY <3>1
              <3> QED BY <2>2, <3>2
        <2>3. Nat \subseteq Good
              <3> HIDE DEF Good
              <3> QED BY <2>1, <2>2, NatSetInduction
        <2> HIDE DEF Good
        <2>4. PICK y \in S : TRUE
              OBVIOUS
        <2>5. y \in Nat
              OBVIOUS
        <2> QED BY <2>3, <2>5 DEF Good
  <1> QED BY <1>1 DEF DE!Least

(* The root is defined, so it is a number.                                  *)
LEMMA ISqrtIs ==
  ASSUME NEW x \in Nat
  PROVE  DE!ISqrt(x) \in Nat
  <1> DEFINE Above == {n \in Nat : x < (n + 1) * (n + 1)}
  <1>1. x \in Above
        <2>1. \A a \in Nat : a < (a + 1) * (a + 1)
              <3>1. \A a \in Nat : (a + 1) * (a + 1) = a * a + 2 * a + 1 /\ a * a \in Nat
                    OBVIOUS
              <3> QED BY <3>1
        <2> QED BY <2>1
  <1>2. PICK n \in Above : \A y \in Above : n <= y
        <2> HIDE DEF Above
        <2>1. Above \subseteq Nat
              BY DEF Above
        <2> QED BY <1>1, <2>1, LeastIs
  <1>3. n * n <= x
        <2>1. CASE n = 0
              BY <2>1
        <2>2. CASE n # 0
              <3>1. n - 1 \in Nat /\ n - 1 \notin Above
                    BY <1>2, <2>2
              <3> QED BY <3>1
        <2> QED BY <2>1, <2>2
  <1>4. n \in 0..x
        <2>1. n <= n * n
              <3>1. \A a \in Nat : a <= a * a
                    <4>1. \A a \in Nat : a = 0 \/ (a - 1) * a \in Nat
                          <5>1. \A a, b \in Nat : a * b \in Nat
                                OBVIOUS
                          <5> QED BY <5>1
                    <4>2. \A a \in Nat : (a - 1) * a = a * a - a
                          OBVIOUS
                    <4> QED BY <4>1, <4>2
              <3> QED BY <3>1
        <2>2. n * n \in Nat
              BY <1>2
        <2> QED BY <1>2, <1>3, <2>1, <2>2
  <1>5. \E m \in 0..x : m * m <= x /\ x < (m + 1) * (m + 1)
        BY <1>2, <1>3, <1>4
  <1>6. DE!ISqrt(x) \in 0..x
        BY <1>5 DEF DE!ISqrt
  <1> QED BY <1>6

(* Products and shares of numbers.                                          *)
LEMMA Products ==
  /\ \A a, b \in Nat : a * b \in Nat
  /\ \A a, b, c \in Nat : b <= c => a * b <= a * c
  /\ \A a \in Int : a * a \in Nat
  <1>1. \A a, b \in Nat : a * b \in Nat
        OBVIOUS
  <1>2. ASSUME NEW a \in Nat, NEW b \in Nat, NEW c \in Nat, b <= c
        PROVE  a * b <= a * c
        <2>1. a * (c - b) \in Nat
              BY <1>1, <1>2
        <2>2. a * (c - b) = a * c - a * b
              OBVIOUS
        <2> QED BY <2>1, <2>2
  <1>3. ASSUME NEW a \in Int PROVE a * a \in Nat
        <2>1. a * a = (-a) * (-a)
              OBVIOUS
        <2>2. a \in Nat \/ -a \in Nat
              OBVIOUS
        <2> QED BY <1>1, <2>1, <2>2
  <1> QED BY <1>1, <1>2, <1>3

(* A share grows with what it is of, and up to the whole is no more than it. *)
LEMMA ShareIs ==
  /\ \A x, p \in Nat : DE!Share(x, p) \in Nat /\ (p <= 1000 => DE!Share(x, p) <= x)
  /\ \A x, y, p, q \in Nat : x <= y /\ p <= q => DE!Share(x, p) <= DE!Share(y, q)
  <1>1. \A a, b \in Nat : a <= b => a \div 1000 <= b \div 1000 /\ a \div 1000 \in Nat
        OBVIOUS
  <1>2. ASSUME NEW x \in Nat, NEW p \in Nat
        PROVE  DE!Share(x, p) \in Nat /\ (p <= 1000 => DE!Share(x, p) <= x)
        <2>1. x * p \in Nat /\ x * 1000 \in Nat /\ (p <= 1000 => x * p <= x * 1000)
              BY Products
        <2>2. (x * 1000) \div 1000 = x
              OBVIOUS
        <2> QED BY <1>1, <2>1, <2>2 DEF DE!Share, DE!One
  <1>3. ASSUME NEW x \in Nat, NEW y \in Nat, NEW p \in Nat, NEW q \in Nat, x <= y, p <= q
        PROVE  DE!Share(x, p) <= DE!Share(y, q)
        <2>1. x * p \in Nat /\ x * q \in Nat /\ y * q \in Nat /\ x * p <= x * q
              BY <1>3, Products
        <2>2. q * x <= q * y
              BY <1>3, Products
        <2>3. x * p <= y * q
              BY <2>1, <2>2
        <2> QED BY <1>1, <2>1, <2>3 DEF DE!Share, DE!One
  <1> QED BY <1>2, <1>3

(* The samples are of rising times, at least one apart.                     *)
Samples == [ts : Nat, sharp : Int, mid : Int]
TrackInv ==
  /\ track \in Seq(Samples)
  /\ \A i \in DOMAIN track : DE!Within(track[i].sharp) /\ track[i].ts \in 1..now
  /\ \A i, j \in DOMAIN track : i < j => track[j].ts - track[i].ts >= j - i

(* The newest sample is in the window, which has a first one.               *)
LEMMA WindowIs ==
  ASSUME DE!DecisionAssumption, TrackInv, track # << >>, NEW w \in Nat
  PROVE  /\ DE!Window(w) \subseteq 1..Len(track) /\ IsFiniteSet(DE!Window(w))
         /\ Len(track) \in DE!Window(w) /\ DE!Least(DE!Window(w)) \in DE!Window(w)
         /\ \A i \in DE!Window(w) : DE!Least(DE!Window(w)) <= i
  <1>1. Len(track) \in Nat /\ DOMAIN track = 1..Len(track) /\ Len(track) >= 1
        BY DEF TrackInv
  <1>2. DE!Window(w) \subseteq 1..Len(track)
        BY <1>1 DEF DE!Window, DE!Ring
  <1>3. IsFiniteSet(DE!Window(w))
        <2>1. IsFiniteSet(1..Len(track))
              BY <1>1, FS_Interval
        <2> QED BY <1>2, <2>1, FS_Subset
  <1>4. Len(track) \in DE!Window(w)
        <2>1. kCapacity \in Nat /\ kCapacity > 0
              BY SMTT(30) DEF DE!DecisionAssumption
        <2>2. track[Len(track)].ts \in Nat
              BY <1>1 DEF TrackInv, Samples
        <2> QED BY <1>1, <2>1, <2>2 DEF DE!Window, DE!Ring, DE!Last
  <1>5. DE!Window(w) \subseteq Nat /\ DE!Window(w) # {}
        BY <1>1, <1>2, <1>4
  <1> QED BY <1>2, <1>3, <1>4, <1>5, LeastIs

(* What is clamped is within its bounds.                                    *)
LEMMA ClampIs ==
  ASSUME NEW x \in Int, NEW lo \in Int, NEW hi \in Int, lo <= hi
  PROVE  DE!Clamp(x, lo, hi) \in lo..hi
  BY DEF DE!Clamp

(* The sum is the one of SumTheorems.                                       *)
LEMMA SumOfTheLoop ==
  ASSUME NEW f, NEW S
  PROVE  DE!SumFunctionOnSet(f, S) = SumFunctionOnSet(f, S)
  BY DEF SumFunctionOnSet, FoldFunctionOnSet, MapThenFoldSet,
         DE!SumFunctionOnSet, DE!FoldFunctionOnSet, DE!MapThenFoldSet

(* And the cardinality the one of FiniteSets.                               *)
LEMMA CardinalityOfTheLoop == \A S : DE!Cardinality(S) = Cardinality(S)
  BY DEF Cardinality, DE!Cardinality

(* Both are defined where the window has three samples.                     *)
LEMMA VolatilityIs ==
  ASSUME DE!DecisionAssumption, TrackInv, track # << >>, NEW w \in Nat,
         ~(Cardinality(DE!Window(w)) < 3)
  PROVE  DE!Vol2(w) \in Nat /\ DE!Diverging(w) \in Nat
  <1> DEFINE W == DE!Window(w)
             first == DE!Least(W)
             steps == W \ {first}
             square == [i \in steps |-> DE!Step(i) * DE!Step(i)]
  <1>1. /\ W \subseteq 1..Len(track) /\ IsFiniteSet(W) /\ first \in W /\ \A i \in W : first <= i
        BY WindowIs
  <1>2. Len(track) \in Nat /\ DOMAIN track = 1..Len(track) /\ Len(track) \in W
        BY WindowIs DEF TrackInv
  <1>3. \A i \in DOMAIN track : track[i].sharp \in Int /\ track[i].mid \in Int /\ track[i].ts \in Nat
        <2>1. \A i \in 1..Len(track) : track[i] \in Samples
              BY DEF TrackInv
        <2> QED BY <1>2, <2>1 DEF Samples
  <1>4. IsFiniteSet(steps) /\ Cardinality(steps) = Cardinality(W) - 1 /\ Cardinality(W) \in Nat
        <2> HIDE DEF W, first
        <2> QED BY <1>1, FS_RemoveElement, FS_CardinalityType
  <1>5. \A i \in steps : square[i] \in Nat
        <2> SUFFICES ASSUME NEW i \in steps PROVE DE!Step(i) * DE!Step(i) \in Nat
            OBVIOUS
        <2> HIDE DEF W, first
        <2>1. i \in 1..Len(track) /\ i - 1 \in 1..Len(track)
              <3>1. first \in 1..Len(track) /\ i \in 1..Len(track) /\ first <= i /\ first # i
                    BY <1>1
              <3> QED BY <1>2, <3>1
        <2>2. DE!Step(i) \in Int
              BY <1>2, <1>3, <2>1 DEF DE!Step
        <2> QED BY <2>2, Products
  <1>6. SumFunctionOnSet(square, steps) \in Nat
        <2> HIDE DEF steps, square
        <2> QED BY <1>4, <1>5, SumOfNaturals
  <1>7. Cardinality(steps) \in Nat /\ Cardinality(steps) > 0
        BY <1>4
  <1>8. DE!Vol2(w) \in Nat
        <2>1. DE!Vol2(w) = SumFunctionOnSet(square, steps) \div Cardinality(steps)
              <3>1. DE!Vol2(w) = DE!SumFunctionOnSet(square, steps) \div Cardinality(steps)
                    BY CardinalityOfTheLoop DEF DE!Vol2
              <3> HIDE DEF steps, square
              <3> QED BY <3>1, SumOfTheLoop
        <2> HIDE DEF steps, square
        <2>2. \A a \in Nat, b \in Nat : b > 0 => a \div b \in Nat
              OBVIOUS
        <2> QED BY <1>6, <1>7, <2>1, <2>2
  <1>9. first \in 1..Len(track) /\ first < Len(track)
        <2>1. first \in 1..Len(track) /\ first <= Len(track)
              BY <1>1, <1>2
        <2>2. ASSUME first = Len(track) PROVE FALSE
              <3>1. \A i \in W : i = first
                    BY <1>1, <1>2, <2>2
              <3>2. steps = {}
                    BY <3>1
              <3> QED BY <1>4, <1>7, <3>2, FS_EmptySet
        <2> QED BY <1>2, <2>1, <2>2
  <1>10. /\ track[first].ts \in Nat /\ DE!Last.ts \in Nat /\ DE!Last.ts - track[first].ts > 0
         /\ DE!Gap(DE!Last) \in Int /\ DE!Gap(track[first]) \in Int
        <2> HIDE DEF first
        <2>1. DE!Last.ts - track[first].ts >= Len(track) - first
              BY <1>2, <1>9 DEF TrackInv, DE!Last
        <2>2. \A i \in DOMAIN track : DE!Gap(track[i]) \in Int
              BY <1>3 DEF DE!Gap, DE!Magnitude
        <2>3. Len(track) \in DOMAIN track /\ first \in DOMAIN track
              BY <1>2, <1>9
        <2>4. track[first].ts \in Nat /\ DE!Last.ts \in Nat
              BY <1>3, <2>3 DEF DE!Last
        <2>5. DE!Gap(DE!Last) \in Int /\ DE!Gap(track[first]) \in Int
              BY <2>2, <2>3 DEF DE!Last
        <2> QED BY <1>2, <1>9, <2>1, <2>4, <2>5
  <1>11. DE!Diverging(w) \in Nat
        <2> DEFINE drift == (DE!Gap(DE!Last) - DE!Gap(track[first])) \div (DE!Last.ts - track[first].ts)
        <2>1. \A a, b \in Int : b > 0 => a \div b \in Int
              OBVIOUS
        <2>2. drift \in Int
              <3> HIDE DEF first
              <3>1. DE!Gap(DE!Last) - DE!Gap(track[first]) \in Int
                    BY <1>10
              <3>2. DE!Last.ts - track[first].ts \in Int
                    BY <1>10
              <3> QED BY <1>10, <2>1, <3>1, <3>2
        <2>3. DE!Diverging(w) = DE!Positive(drift)
              BY DEF DE!Diverging
        <2> HIDE DEF drift
        <2> QED BY <2>2, <2>3 DEF DE!Positive
  <1> QED BY <1>8, <1>11

(* No multiplier grows a size by more than half.                            *)
LEMMA MultipliersAre ==
  ASSUME DE!DecisionAssumption, TrackInv, desk \in Desks
  PROVE  /\ DE!ComputeLifecycleMultiplier \in 0..1000
         /\ DE!ComputeClvMultiplier \in 0..1500
         /\ DE!ComputeCorrelationMultiplier \in 0..1000
  <1>1. DE!ComputeLifecycleMultiplier \in 0..1000
        <2>1. VelWindow \in Nat
              BY DEF DE!DecisionAssumption
        <2>2. CASE track = << >> \/ Cardinality(DE!Window(VelWindow)) < 3
              <3>1. DE!ComputeLifecycleMultiplier = 1000
                    BY <2>2, CardinalityOfTheLoop DEF DE!ComputeLifecycleMultiplier, DE!One, DE!MinSamples
              <3> QED BY <3>1
        <2>3. CASE track # << >> /\ ~(Cardinality(DE!Window(VelWindow)) < 3)
              <3>1. DE!ISqrt(DE!Vol2(VelWindow)) \in Nat /\ DE!Diverging(VelWindow) \in Nat
                    BY <2>1, <2>3, VolatilityIs, ISqrtIs
              <3>2. DE!m_stab \in 300..1000 /\ DE!m_regime \in 300..1000
                    BY <3>1, SMTT(30) DEF DE!m_stab, DE!m_regime, DE!Clamp, DE!One, DE!MultFloor, DE!DivRef
              <3>3. DE!ComputeLifecycleMultiplier = DE!Clamp(DE!Share(DE!m_stab, DE!m_regime), 300, 1000)
                    BY <2>3, CardinalityOfTheLoop DEF DE!ComputeLifecycleMultiplier, DE!One, DE!MinSamples, DE!MultFloor
              <3>5. DE!Share(DE!m_stab, DE!m_regime) \in Nat
                    <4>1. DE!m_stab \in Nat /\ DE!m_regime \in Nat
                          BY <3>2
                    <4> QED BY <4>1, ShareIs
              <3> QED BY <3>3, <3>5 DEF DE!Clamp
        <2> QED BY <2>2, <2>3
  <1>2. desk.clv \in Int /\ desk.others \in Int
        BY DEF DE!DecisionAssumption, DE!Numbers
  <1>3. DE!ComputeClvMultiplier \in 0..1500
        BY <1>2 DEF DE!ComputeClvMultiplier, DE!One, DE!MultFloor, DE!Clamp, DE!None
  <1>4. DE!ComputeCorrelationMultiplier \in 0..1000
        <2>1. EventCap \in Nat /\ EventCap > 0
              BY DEF DE!DecisionAssumption
        <2> DEFINE u == (700 * desk.others) \div EventCap
                   v == (700 * (DE!Clamp(u, 500, 1000) - 500)) \div 500
        <2>2. u \in Int
              <3>1. \A a, b \in Int : b > 0 => a \div b \in Int
                    OBVIOUS
              <3> QED BY <1>2, <2>1, <3>1
        <2>3. DE!ComputeCorrelationMultiplier
              = IF desk.others <= 0 \/ u <= 500 THEN 1000 ELSE DE!Clamp(1000 - v, 300, 1000)
              BY DEF DE!ComputeCorrelationMultiplier, DE!One, DE!MultFloor
        <2> HIDE DEF u
        <2>4. v \in Int
              BY <2>2 DEF DE!Clamp
        <2> HIDE DEF v
        <2> QED BY <2>3, <2>4 DEF DE!Clamp
  <1> QED BY <1>1, <1>3, <1>4

(* The market is a number, and the row is one of the feed or a stub.        *)
Fed == game \in Feeds /\ book \in BooksShown /\ oneMarket \in Markets /\ desk \in Desks

(* The market without its vig, the micro price and the margin are numbers.  *)
LEMMA MarketIsANumber ==
  ASSUME DE!DecisionAssumption, Fed
  PROVE  DE!Devig \in Int /\ DE!Micro(book["yes"]) \in Int /\ DE!margin_floor \in Int
  <1>1. \A s \in DE!Sides : book[s].bid \in Int /\ book[s].ask \in Int /\ book[s].micro \in Int
        BY DEF Fed, DE!DecisionAssumption, DE!Numbers
  <1>2. "yes" \in DE!Sides /\ "no" \in DE!Sides /\ book["yes"] = book.yes /\ book["no"] = book.no
        BY DEF DE!Sides
  <1>3. \A s \in DE!Sides : DE!Mid(book[s]) \in Int /\ DE!Micro(book[s]) \in Int
                            /\ DE!TokenMid(book[s]) \in Int
        BY <1>1 DEF DE!Mid, DE!Micro, DE!TokenMid, DE!None
  <1>4. \A y, n \in Int : DE!devig_binary(y, n) \in Int
        <2> TAKE y, n \in Int
        <2>1. \A x \in Int : DE!clamp_prob(x) \in Int
              BY DEF DE!clamp_prob, DE!Clamp, DE!One
        <2>2. CASE y <= 0 /\ n <= 0
              BY <2>2 DEF DE!devig_binary, DE!None
        <2>3. CASE ~(y <= 0 /\ n <= 0) /\ n <= 0
              BY <2>1, <2>3 DEF DE!devig_binary
        <2>4. CASE ~(n <= 0) /\ y <= 0
              BY <2>1, <2>4 DEF DE!devig_binary, DE!One
        <2>5. CASE ~(n <= 0) /\ ~(y <= 0)
              <3>1. (1000 * y) \div (y + n) \in Int
                    <4>1. \A a, b \in Int : b > 0 => a \div b \in Int
                          OBVIOUS
                    <4> QED BY <2>5, <4>1
              <3>2. DE!devig_binary(y, n) = DE!clamp_prob((1000 * y) \div (y + n))
                    BY <2>5 DEF DE!devig_binary, DE!One
              <3> QED BY <2>1, <3>1, <3>2
        <2> QED BY <2>2, <2>3, <2>4, <2>5
  <1>5. DE!Devig \in Int
        <2>1. DE!Devig = DE!devig_binary(DE!Mid(book["yes"]), DE!TokenMid(book["no"]))
              \/ DE!Devig = DE!devig_binary(DE!Micro(book["yes"]), DE!TokenMid(book["no"]))
              BY <1>2 DEF DE!Devig
        <2> QED BY <1>2, <1>3, <1>4, <2>1
  <1>6. DE!margin_floor \in Int
        <2>1. DE!cross_spread \in Int
              BY <1>1, <1>2 DEF DE!cross_spread, DE!One, DE!None
        <2> QED BY <2>1 DEF DE!margin_floor
  <1> QED BY <1>2, <1>3, <1>5, <1>6

(* The fee of a price within its bounds is none that is given back.         *)
LEMMA FeeIs ==
  ASSUME DE!DecisionAssumption, NEW p \in Int, DE!Within(p)
  PROVE  DE!fee_per_unit(p) \in Nat
  <1>1. p \in Nat /\ 1000 - p \in Nat /\ FeeCoef \in Nat
        BY DEF DE!Within, DE!One, DE!DecisionAssumption
  <1>2. FeeCoef * p \in Nat
        BY <1>1, Products
  <1>3. (FeeCoef * p) * (1000 - p) \in Nat
        BY <1>1, <1>2, Products
  <1>4. \A a \in Nat : a \div 1000000 \in Nat
        OBVIOUS
  <1>5. DE!fee_per_unit(p) = ((FeeCoef * p) * (1000 - p)) \div 1000000
        BY DEF DE!fee_per_unit, DE!One
  <1> QED BY <1>3, <1>4, <1>5

(* A size is a number within each cap, all of which follow the equity.      *)
LEMMA SizeIs ==
  ASSUME DE!DecisionAssumption, Fed, NEW edge \in Int, NEW ask \in Int, DE!Within(ask),
         NEW fair \in Int, NEW side \in DE!Sides, onHand \subseteq DE!Sides
  PROVE  LET size == DE!SizingCompute(edge, ask, fair, side)
         IN  /\ size \in Nat /\ size <= PerOrder /\ size <= PerOutcome
             /\ size <= DE!Positive(desk.equity) \div 10
             /\ 2 * desk.equity <= Bankroll => size <= PerOrder \div 2
  <1> DEFINE size == DE!SizingCompute(edge, ask, fair, side)
             equity == DE!Positive(desk.equity)
             net == edge - DE!fee_per_unit(ask)
             kelly == DE!Clamp((1000 * net) \div DE!kelly_denom(ask, side), 0, 1000)
             terms == {DE!Share(DE!Share(equity, kelly), 350)} \cup DE!Caps(side, equity)
             cs == DE!cap_scale(equity)
  <1>1. /\ PerOrder \in Nat /\ PerOutcome \in Nat /\ PerCondition \in Nat
        /\ Bankroll \in Nat /\ Bankroll > 0
        BY DEF DE!DecisionAssumption
  <1>2. desk.equity \in Int /\ desk.size \in Nat
        BY DEF Fed, DE!DecisionAssumption, DE!Numbers
  <1>3. equity \in Nat
        BY <1>2 DEF DE!Positive
  <1>4. cs \in 500..1000 /\ (2 * desk.equity <= Bankroll => cs = 500)
        <2> DEFINE q == (1000 * equity) \div Bankroll
        <2>1. cs = DE!Clamp(q, 500, 1000)
              BY DEF DE!cap_scale, DE!One
        <2>2. q \in Int
              <3>1. \A a, b \in Int : b > 0 => a \div b \in Int
                    OBVIOUS
              <3> HIDE DEF equity
              <3> QED BY <1>1, <1>3, <3>1
        <2>3. ASSUME 2 * desk.equity <= Bankroll PROVE q <= 500
              <3>1. 1000 * equity <= 500 * Bankroll
                    BY <1>1, <1>2, <2>3 DEF DE!Positive
              <3>2. \A a \in Nat, b \in Nat : b > 0 /\ a <= 500 * b => a \div b <= 500
                    OBVIOUS
              <3> HIDE DEF equity
              <3> QED BY <1>1, <1>3, <3>1, <3>2
        <2> HIDE DEF q
        <2> QED BY <2>1, <2>2, <2>3 DEF DE!Clamp
  <1>5. kelly \in 0..1000
        <2>1. DE!fee_per_unit(ask) \in Nat
              BY FeeIs
        <2>2. DE!kelly_denom(ask, side) \in Int /\ DE!kelly_denom(ask, side) > 0
              BY DEF DE!kelly_denom, DE!Within, DE!One
        <2>3. \A a, b \in Int : b > 0 => a \div b \in Int
              OBVIOUS
        <2>4. 1000 * net \in Int
              BY <2>1
        <2> HIDE DEF net
        <2>5. (1000 * net) \div DE!kelly_denom(ask, side) \in Int
              BY <2>2, <2>3, <2>4
        <2> DEFINE q == (1000 * net) \div DE!kelly_denom(ask, side)
        <2> HIDE DEF q
        <2>6. q \in Int /\ kelly = DE!Clamp(q, 0, 1000)
              BY <2>5 DEF q
        <2> HIDE DEF kelly
        <2> QED BY <2>6 DEF DE!Clamp
  <1> HIDE DEF equity, kelly, cs
  <1>6. DE!Share(DE!Share(equity, kelly), 350) \in Nat
        <2>1. kelly \in Nat
              BY <1>5
        <2>2. DE!Share(equity, kelly) \in Nat
              BY <1>3, <2>1, ShareIs
        <2> DEFINE kellyShare == DE!Share(equity, kelly)
        <2>3. 350 \in Nat /\ kellyShare \in Nat
              BY <2>2
        <2> HIDE DEF kellyShare
        <2>4. DE!Share(kellyShare, 350) \in Nat
              BY <2>3, ShareIs
        <2> QED BY <2>4 DEF kellyShare
  <1>7. \A s \in DE!Sides : DE!Exposure(s) \in Nat
        BY <1>2 DEF DE!Exposure
  <1>8. /\ DE!Share(PerOrder, cs) \in Nat /\ DE!Share(PerOrder, cs) <= PerOrder
        /\ DE!Share(PerOutcome, cs) \in Nat /\ DE!Share(PerOutcome, cs) <= PerOutcome
        /\ DE!Share(PerCondition, cs) \in Nat /\ DE!Share(equity, 100) \in Nat
        <2>1. cs \in Nat /\ cs <= 1000 /\ 100 \in Nat
              BY <1>4
        <2>2. DE!Share(PerOrder, cs) \in Nat /\ DE!Share(PerOrder, cs) <= PerOrder
              BY <1>1, <2>1, ShareIs
        <2>3. DE!Share(PerOutcome, cs) \in Nat /\ DE!Share(PerOutcome, cs) <= PerOutcome
              BY <1>1, <2>1, ShareIs
        <2>4. DE!Share(PerCondition, cs) \in Nat
              BY <1>1, <2>1, ShareIs
        <2>5. DE!Share(equity, 100) \in Nat
              BY <1>3, <2>1, ShareIs
        <2> QED BY <2>2, <2>3, <2>4, <2>5
  <1> DEFINE c1 == DE!Share(PerOrder, cs)
             c2 == DE!Positive(DE!Share(PerOutcome, cs) - DE!Exposure(side))
             c3 == DE!Positive(DE!Share(PerCondition, cs) - DE!Exposure("yes") - DE!Exposure("no"))
             c4 == DE!Share(equity, 100)
  <1>9. DE!Caps(side, equity) = {c1, c2, c3, c4}
        BY DEF DE!Caps, cs
  <1>10. c2 \in Nat /\ c2 <= PerOutcome /\ c3 \in Nat
        <2>1. DE!Exposure("yes") \in Nat /\ DE!Exposure("no") \in Nat /\ DE!Exposure(side) \in Nat
              BY <1>7 DEF DE!Sides
        <2> QED BY <1>1, <1>8, <2>1 DEF DE!Positive
  <1>11. terms \subseteq Nat /\ terms # {} /\ c1 \in terms /\ c2 \in terms /\ c4 \in terms
        BY <1>6, <1>8, <1>9, <1>10
  <1>12. /\ DE!Least(terms) \in Nat /\ DE!Least(terms) <= c1 /\ DE!Least(terms) <= c2
         /\ DE!Least(terms) <= c4
        <2> HIDE DEF terms, c1, c2, c4
        <2> QED BY <1>11, LeastIs
  <1>13. size = 0 \/ size = DE!Least(terms)
        BY DEF DE!SizingCompute, equity, kelly, DE!One
  <1>14. c4 = equity \div 10
        <2>1. \A a \in Nat : (a * 100) \div 1000 = a \div 10
              OBVIOUS
        <2> QED BY <1>3, <2>1 DEF DE!Share, DE!One
  <1>15. 2 * desk.equity <= Bankroll => c1 = PerOrder \div 2
        <2>1. \A a \in Nat : (a * 500) \div 1000 = a \div 2
              OBVIOUS
        <2> QED BY <1>1, <1>4, <2>1 DEF DE!Share, DE!One
  <1>16. equity \div 10 \in Nat /\ PerOrder \div 2 \in Nat
        BY <1>1, <1>3
  <1> HIDE DEF size, terms, c1, c2, c3, c4
  <1>17. /\ size \in Nat /\ size <= PerOrder /\ size <= PerOutcome
         /\ size <= equity \div 10
         /\ 2 * desk.equity <= Bankroll => size <= PerOrder \div 2
        BY <1>1, <1>8, <1>10, <1>12, <1>13, <1>14, <1>15, <1>16 DEF c1
  <1> QED BY <1>17 DEF size, equity

(* What the multipliers make of a size.                                     *)
LEMMA MultipliedIs ==
  ASSUME DE!DecisionAssumption, TrackInv, Fed, NEW size \in Nat
  PROVE  /\ DE!Multiplied(size) \in Nat /\ DE!Multiplied(size) <= DE!Share(size, 1500)
         /\ size = 0 => DE!Multiplied(size) = 0
  <1> DEFINE l == DE!ComputeLifecycleMultiplier
             c == DE!ComputeClvMultiplier
             r == DE!ComputeCorrelationMultiplier
             a == DE!Share(size, l)
             b == DE!Share(a, c)
  <1>1. /\ l \in Nat /\ l <= 1000 /\ c \in Nat /\ c <= 1500 /\ r \in Nat /\ r <= 1000
        /\ 1500 \in Nat
        <2>1. l \in 0..1000 /\ c \in 0..1500 /\ r \in 0..1000
              BY MultipliersAre DEF Fed
        <2> HIDE DEF l, c, r
        <2> QED BY <2>1
  <1> HIDE DEF l, c, r
  <1>2. DE!Multiplied(size) = DE!Share(b, r)
        BY DEF DE!Multiplied, l, c, r
  <1>3. a \in Nat /\ a <= size
        BY <1>1, ShareIs
  <1> HIDE DEF a
  <1>4. b \in Nat /\ b <= DE!Share(size, 1500)
        BY <1>1, <1>3, ShareIs
  <1> HIDE DEF b
  <1>5. DE!Share(b, r) \in Nat /\ DE!Share(b, r) <= b /\ DE!Share(size, 1500) \in Nat
        <2>1. DE!Share(b, r) \in Nat /\ DE!Share(b, r) <= b
              <3>1. b \in Nat /\ r \in Nat /\ r <= 1000
                    BY <1>1, <1>4
              <3> QED BY <3>1, ShareIs
        <2>2. DE!Share(size, 1500) \in Nat
              BY <1>1, ShareIs
        <2> QED BY <2>1, <2>2
  <1>6. ASSUME size = 0 PROVE DE!Share(b, r) = 0
        <2>1. DE!Share(size, 1500) = 0
              <3>1. (0 * 1500) \div 1000 = 0
                    OBVIOUS
              <3>2. DE!Share(size, 1500) = (size * 1500) \div 1000
                    BY DEF DE!Share, DE!One
              <3> QED BY <1>6, <3>1, <3>2
        <2> QED BY <1>4, <1>5, <2>1
  <1> QED BY <1>2, <1>4, <1>5, <1>6

(* The steps of the decision, by name.                                      *)
TheRow == DE!ResolveGameContext
ThePrice == DE!FairPrice(TheRow, DE!FairInputs(TheRow))
TheSide == DE!SelectSide(ThePrice.yes)
TheFair == DE!Of(TheSide, ThePrice.yes)
TheAsk == book[TheSide].ask
TheGap == TheFair - DE!Of(TheSide, DE!Devig)
TheSize ==
  DE!SizingCompute(DE!ResolveEdgeCiLower(ThePrice.src, TheFair, DE!Of(TheSide, DE!Devig)),
                   TheAsk, TheFair, TheSide)
TheWish == DE!Wanted(ThePrice, TheGap, TheAsk, TheSize)
TheGate == DE!Gated(TheWish, TheFair, TheSide)

(* What the decision carries, and that one not come to asks for nothing.    *)
LEMMA DecideIs ==
  /\ DE!Decide.at = "decided" =>
       /\ DE!Within(TheAsk)
       /\ DE!Decide.row = TheRow /\ DE!Decide.src = ThePrice.src /\ DE!Decide.side = TheSide
       /\ DE!Decide.fair = TheFair /\ DE!Decide.gate = TheGate
       /\ DE!Decide.target = (IF TheGate = "none" THEN DE!Multiplied(TheWish) ELSE 0)
  /\ DE!Decide.at # "decided" => DE!Decide.target = 0
  BY Zenon DEF DE!Decide, DE!DecideRow, DE!DecidePrice, DE!DecideSide, DE!DecideFair, DE!DecideSize,
         DE!NoDecision, TheRow, ThePrice, TheSide, TheFair, TheAsk, TheGap, TheSize, TheWish,
         TheGate

(* A price with the odds as its source is the odds or the market, of a row  *)
(* of the feed: in play, fresh, not frozen, of the market's own segment.    *)
LEMMA SharpIs ==
  ASSUME DE!DecisionAssumption, Fed, ThePrice.src = "sharp"
  PROVE  /\ TheRow = DE!Score(game) /\ oneMarket.mapped
         /\ game.status \in {"inplay", "halftime"} /\ DE!Fresh
         /\ ~game.frozen /\ ~(game_ts > 0 /\ now - game_ts > OddsAge)
         /\ oneMarket.kind = "moneyline"
         /\ DE!Prob(DE!Sharp(TheRow))
         /\ \/ ThePrice.yes = DE!Devig
            \/ /\ ThePrice.yes = DE!Sharp(TheRow)
               /\ DE!Magnitude(DE!Sharp(TheRow) - DE!Devig) <= MaxGap
  <1> DEFINE in == DE!FairInputs(TheRow)
             fr == DE!ResolveFair(in)
  <1>1. /\ in.derivative = DE!DerivativeFor(TheRow) /\ in.frozen = TheRow.frozen
        /\ in.sharp = IF oneMarket.kind # "moneyline" /\ in.derivative = -1
                      THEN -1 ELSE DE!Sharp(TheRow)
        BY DEF DE!FairInputs, DE!None
  <1> HIDE DEF in
  <1>2. ThePrice = DE!Trusted(TheRow, in, fr)
        BY DEF ThePrice, DE!FairPrice, in
  <1> HIDE DEF fr
  <1>3. /\ fr.src = "sharp" /\ ~DE!StaleOdds(TheRow, "sharp")
        /\ \/ ThePrice.yes = DE!Devig
           \/ ThePrice.yes = fr.fair /\ DE!Magnitude(fr.fair - DE!Devig) <= MaxGap
        <2>1. CASE DE!StaleOdds(TheRow, fr.src)
              <3>1. ThePrice.src = "market"
                    BY <1>2, <2>1 DEF DE!Trusted, DE!Signal
              <3> QED BY <3>1
        <2>2. CASE ~DE!StaleOdds(TheRow, fr.src)
              <3> DEFINE f == IF DE!FarOff(fr) \/ DE!Complementary(in.sharp)
                              THEN DE!Devig ELSE fr.fair
              <3>1. ThePrice = DE!Signal(f, fr.src)
                    BY <1>2, <2>2 DEF DE!Trusted
              <3>2. ThePrice.src = fr.src
                    BY <3>1 DEF DE!Signal
              <3>3. \/ ThePrice.yes = DE!Devig
                    \/ ThePrice.yes = f /\ DE!Magnitude(f - DE!Devig) <= MaxGap
                    <4> HIDE DEF f
                    <4> QED BY <3>1 DEF DE!Signal
              <3> QED BY <2>2, <3>2, <3>3
        <2> QED BY <2>1, <2>2
  <1>4. fr.fair = in.sharp /\ in.derivative = -1 /\ DE!Prob(in.sharp) /\ ~in.frozen
        BY <1>3 DEF fr, DE!ResolveFair, DE!None
  <1>5. in.sharp = DE!Sharp(TheRow) /\ oneMarket.kind = "moneyline"
        <2>1. ~DE!Prob(-1)
              BY DEF DE!Prob, DE!One
        <2> QED BY <1>1, <1>4, <2>1
  <1>6. TheRow = DE!Score(game) /\ oneMarket.mapped /\ DE!Fresh
        /\ game.status \in {"inplay", "halftime"}
        <2>1. CASE oneMarket.mapped /\ DE!MapEventScoreStatus(game.status) = "InPlay" /\ DE!Fresh
              BY <2>1 DEF TheRow, DE!ResolveGameContext, DE!MapEventScoreStatus
        <2>2. CASE ~(oneMarket.mapped /\ DE!MapEventScoreStatus(game.status) = "InPlay" /\ DE!Fresh)
              <3>1. TheRow = DE!Stub
                    BY <2>2 DEF TheRow, DE!ResolveGameContext
              <3>2. DE!Sharp(TheRow) = -1
                    BY <3>1 DEF DE!Sharp, DE!Stub, DE!None
              <3> QED BY <1>4, <1>5, <3>2 DEF DE!Prob, DE!One
        <2> QED BY <2>1, <2>2
  <1>7. TheRow.frozen = game.frozen /\ TheRow.ts = game_ts
        BY <1>6 DEF DE!Score
  <1>8. ~(game_ts > 0 /\ now - game_ts > OddsAge)
        BY <1>3, <1>7 DEF DE!StaleOdds
  <1> QED BY <1>1, <1>3, <1>4, <1>5, <1>6, <1>7, <1>8

(* The odds of a row that is fed, YES's first, and those of the other side. *)
LEMMA OddsAre ==
  ASSUME DE!DecisionAssumption, Fed, TheRow = DE!Score(game), ~oneMarket.is_draw,
         DE!Prob(DE!Sharp(TheRow))
  PROVE  LET o == DE!Odds(game)
             mine == IF oneMarket.yes_is_home THEN 1 ELSE 2
             others == IF oneMarket.yes_is_home THEN 2 ELSE 1
         IN  /\ DE!Sharp(TheRow) = o[mine]
             /\ oneMarket.seg # 0 => game.seg = oneMarket.seg
             /\ o[others] \in Int
             /\ o[mine] + o[others] <= 1010
             /\ o[mine] + o[others] >= 990 - DE!Positive(game.draw)
  <1> DEFINE o == DE!Odds(game)
  <1>1. DE!Sharp(TheRow) = IF oneMarket.yes_is_home THEN o[1] ELSE o[2]
        <2>1. TheRow.odds = DE!ToYesCanonical(o[1], o[2])
              BY DEF DE!Score
        <2>2. DE!Sharp(TheRow) = TheRow.odds[1]
              BY DEF DE!Sharp
        <2> HIDE DEF o
        <2> QED BY <2>1, <2>2 DEF DE!ToYesCanonical
  <1>2. DE!Sharp(TheRow) \in 0..1000
        BY DEF DE!Prob, DE!One
  <1>3. {game.odds_home, game.odds_away, game.draw, game.seg_home, game.seg_away} \subseteq Int
        BY DEF Fed, DE!DecisionAssumption, DE!Numbers
  <1>4. /\ game.odds_home # -1 \/ game.odds_away # -1
             => DE!AddUp(game.odds_home + game.odds_away
                         + (IF game.draw > 0 THEN game.draw ELSE 0))
        /\ game.seg_home # -1 => DE!AddUp(game.seg_home + game.seg_away)
        BY DEF Fed, DE!DecisionAssumption, DE!Devigged, DE!None
  <1>5. CASE oneMarket.seg = 0
        <2>1. o[1] = game.odds_home /\ o[2] = game.odds_away
              BY <1>5 DEF DE!Odds
        <2>2. game.odds_home # -1 \/ game.odds_away # -1
              <3>1. DE!Sharp(TheRow) # -1
                    BY <1>2
              <3> QED BY <1>1, <2>1, <3>1, Zenon
        <2> HIDE DEF o
        <2> QED BY <1>1, <1>3, <1>4, <1>5, <2>1, <2>2 DEF DE!AddUp, DE!One, DE!Positive, o
  <1>6. CASE oneMarket.seg # 0
        <2>1. CASE game.seg = oneMarket.seg /\ game.seg_home >= 0
              <3>1. o[1] = game.seg_home /\ o[2] = game.seg_away
                    BY <1>6, <2>1 DEF DE!Odds
              <3>2. game.seg_home # -1
                    BY <1>3, <2>1
              <3> HIDE DEF o
              <3> QED BY <1>1, <1>3, <1>4, <2>1, <3>1, <3>2 DEF DE!AddUp, DE!One, DE!Positive, o
        <2>2. CASE ~(game.seg = oneMarket.seg /\ game.seg_home >= 0)
              <3>1. o[1] = -1 /\ o[2] = -1
                    BY <1>6, <2>2 DEF DE!Odds, DE!None
              <3> QED BY <1>1, <1>2, <3>1
        <2> QED BY <2>1, <2>2
  <1> QED BY <1>5, <1>6

(* What is wished for is within the caps, and nothing where the odds are    *)
(* not the source or agree with the market.                                 *)
LEMMA WishIs ==
  ASSUME DE!DecisionAssumption, Fed, onHand \subseteq DE!Sides, DE!Decide.at = "decided"
  PROVE  /\ TheWish \in Nat /\ TheWish <= PerOrder /\ TheWish <= PerOutcome
         /\ TheWish <= DE!Positive(desk.equity) \div 10
         /\ 2 * desk.equity <= Bankroll => TheWish <= PerOrder \div 2
         /\ TheWish # 0 =>
              /\ ThePrice.src = "sharp" /\ ThePrice.yes # DE!Devig
              /\ ThePrice.yes \in Int /\ DE!Devig \in Int
  <1>1. PerOrder \in Nat /\ PerOutcome \in Nat /\ Bankroll \in Nat /\ desk.equity \in Int
        BY DEF Fed, DE!DecisionAssumption, DE!Numbers
  <1>2. DE!Positive(desk.equity) \in Nat
        BY <1>1 DEF DE!Positive
  <1>3. DE!Positive(desk.equity) \div 10 \in Nat /\ PerOrder \div 2 \in Nat
        BY <1>1, <1>2
  <1>4. CASE TheWish = 0
        BY <1>1, <1>3, <1>4
  <1>5. CASE TheWish # 0
        <2>1. ThePrice.src = "sharp" /\ DE!net_ev_ok(DE!Magnitude(TheGap), TheAsk) /\ TheWish = TheSize
              BY <1>5 DEF TheWish, DE!Wanted, DE!tradeable_fair
        <2>2. DE!Devig \in Int
              BY MarketIsANumber
        <2>3. ThePrice.yes \in Int
              BY <2>1, <2>2, SharpIs DEF DE!Prob, DE!One
        <2>4. TheSide \in DE!Sides
              BY DEF TheSide, DE!SelectSide, DE!Sides
        <2>5. TheFair \in Int /\ DE!Of(TheSide, DE!Devig) \in Int
              BY <2>2, <2>3 DEF TheFair, DE!Of, DE!One
        <2>6. DE!Within(TheAsk) /\ TheAsk \in Int
              BY <2>4, DecideIs DEF TheAsk, Fed, DE!DecisionAssumption, DE!Numbers
        <2>7. DE!ResolveEdgeCiLower(ThePrice.src, TheFair, DE!Of(TheSide, DE!Devig)) \in Int
              BY <2>1, <2>5 DEF DE!ResolveEdgeCiLower
        <2>8. /\ TheSize \in Nat /\ TheSize <= PerOrder /\ TheSize <= PerOutcome
              /\ TheSize <= DE!Positive(desk.equity) \div 10
              /\ 2 * desk.equity <= Bankroll => TheSize <= PerOrder \div 2
              BY <2>4, <2>5, <2>6, <2>7, SizeIs DEF TheSize
        <2>9. ThePrice.yes # DE!Devig
              <3> SUFFICES ASSUME ThePrice.yes = DE!Devig PROVE FALSE
                  OBVIOUS
              <3>1. TheGap = 0
                    BY <2>5 DEF TheGap, TheFair
              <3>2. DE!fee_per_unit(TheAsk) \in Nat
                    BY <2>6, FeeIs
              <3> QED BY <2>1, <3>1, <3>2 DEF DE!net_ev_ok, DE!Magnitude
        <2> QED BY <2>1, <2>2, <2>3, <2>8, <2>9
  <1> QED BY <1>4, <1>5

(* What is asked for is bounded, and bounded by half of it after a loss of  *)
(* half of the account.                                                     *)
LEMMA TargetIs ==
  ASSUME DE!DecisionAssumption, Fed, TrackInv, onHand \subseteq DE!Sides
  PROVE  /\ DE!Decide.target \in Nat
         /\ DE!TargetBounded(DE!Decide) /\ DE!CapsShrink(DE!Decide)
  <1> DEFINE target == DE!Decide.target
             tenth == DE!Positive(desk.equity) \div 10
             least == DE!Least({PerOrder, PerOutcome, tenth})
  <1>1. PerOrder \in Nat /\ PerOutcome \in Nat /\ Bankroll \in Nat /\ desk.equity \in Int
        BY DEF Fed, DE!DecisionAssumption, DE!Numbers
  <1>2. tenth \in Nat /\ PerOrder \div 2 \in Nat
        BY <1>1 DEF DE!Positive
  <1> HIDE DEF tenth
  <1>3. least \in {PerOrder, PerOutcome, tenth} /\ least \in Nat
        <2> DEFINE S == {PerOrder, PerOutcome, tenth}
        <2>1. S \subseteq Nat /\ S # {}
              BY <1>1, <1>2
        <2> HIDE DEF S
        <2>2. DE!Least(S) \in S
              BY <2>1, LeastIs
        <2> QED BY <2>1, <2>2 DEF S
  <1> HIDE DEF least
  <1>4. \A a, b \in Nat : a <= b => DE!Share(a, 1500) \in Nat /\ DE!Share(a, 1500) <= DE!Share(b, 1500)
        <2>1. 1500 \in Nat
              OBVIOUS
        <2> QED BY <2>1, ShareIs
  <1>5. CASE target = 0
        <2>1. DE!Share(least, 1500) \in Nat
              BY <1>3, <1>4
        <2>2. DE!TargetBounded(DE!Decide)
              BY <1>5, <2>1 DEF DE!TargetBounded, least, tenth
        <2>3. DE!CapsShrink(DE!Decide)
              BY <1>5 DEF DE!CapsShrink
        <2> QED BY <1>5, <2>2, <2>3
  <1>6. CASE target # 0
        <2>1. DE!Decide.at = "decided" /\ target = DE!Multiplied(TheWish)
              BY <1>6, DecideIs
        <2>2. /\ TheWish \in Nat /\ TheWish <= PerOrder /\ TheWish <= PerOutcome
              /\ TheWish <= tenth
              /\ 2 * desk.equity <= Bankroll => TheWish <= PerOrder \div 2
              BY <2>1, WishIs DEF tenth
        <2>3. target \in Nat /\ target <= DE!Share(TheWish, 1500)
              BY <2>1, <2>2, MultipliedIs
        <2> HIDE DEF target
        <2>4. ASSUME NEW b \in Nat, TheWish <= b PROVE target <= DE!Share(b, 1500)
              <3> DEFINE x == DE!Share(TheWish, 1500)
                         y == DE!Share(b, 1500)
              <3>1. x \in Nat /\ x <= y
                    BY <1>4, <2>2, <2>4
              <3>2. y \in Nat
                    BY <1>4, <2>4
              <3> HIDE DEF x, y
              <3>3. target <= y
                    BY <2>3, <3>1, <3>2 DEF x
              <3> QED BY <3>3 DEF y
        <2>5. DE!TargetBounded(DE!Decide)
              <3>1. TheWish <= least
                    BY <1>3, <2>2
              <3>2. target <= DE!Share(least, 1500)
                    BY <1>3, <2>4, <3>1
              <3> QED BY <3>2 DEF DE!TargetBounded, least, tenth, target
        <2>6. DE!CapsShrink(DE!Decide)
              <3>1. 2 * desk.equity <= Bankroll => target <= DE!Share(PerOrder \div 2, 1500)
                    BY <1>2, <2>2, <2>4
              <3> QED BY <3>1 DEF DE!CapsShrink, target
        <2> QED BY <2>3, <2>5, <2>6 DEF target
  <1> QED BY <1>5, <1>6

(* What a purchase that is not forced has behind it.                        *)
LEMMA OpeningIs ==
  ASSUME DE!DecisionAssumption, Fed, TrackInv, onHand \subseteq DE!Sides,
         DE!Opens(DE!Decide), DE!Decide.forced = 0
  PROVE  /\ DE!Decide.at = "decided" /\ DE!Decide.side = TheSide
         /\ DE!Decide.target \in Nat /\ DE!Decide.target > 0
         /\ ThePrice.src = "sharp" /\ ThePrice.yes # DE!Devig
         /\ ThePrice.yes \in Int /\ DE!Devig \in Int
         /\ DE!Gate(TheFair, TheSide) = "none"
         /\ onHand = {}
         /\ TheSide = (IF ThePrice.yes >= DE!Devig THEN "yes" ELSE "no")
  <1>1. DE!Decide.at = "decided" /\ DE!Decide.side \notin onHand
        BY DEF DE!Opens
  <1>2. DE!Decide.target \in Nat /\ DE!Decide.target > 0
        <2>1. DE!Decide.target > 0 \/ DE!Decide.forced > 0
              BY DEF DE!Opens
        <2> QED BY <2>1, TargetIs
  <1>3. /\ DE!Decide.side = TheSide /\ TheGate = "none"
        /\ DE!Decide.target = DE!Multiplied(TheWish)
        BY <1>1, <1>2, DecideIs
  <1>4. TheWish \in Nat /\ TheWish # 0
        BY <1>1, <1>2, <1>3, WishIs, MultipliedIs
  <1>5. DE!Gate(TheFair, TheSide) = "none"
        BY <1>3, <1>4 DEF TheGate, DE!Gated
  <1>6. onHand # {"yes"} /\ onHand # {"no"}
        <2>1. onHand = {"yes"} => TheSide = "yes"
              BY DEF TheSide, DE!SelectSide
        <2>2. onHand = {"no"} => TheSide = "no"
              BY DEF TheSide, DE!SelectSide
        <2> QED BY <1>1, <1>3, <2>1, <2>2
  <1>7. TheSide = (IF ThePrice.yes >= DE!Devig THEN "yes" ELSE "no")
        BY <1>6 DEF TheSide, DE!SelectSide
  <1>8. onHand = {}
        BY <1>1, <1>3, <1>6, <1>7 DEF DE!Sides
  <1> QED BY <1>1, <1>2, <1>3, <1>4, <1>5, <1>7, <1>8, WishIs

(* New money has the odds of a game in play behind it.                      *)
LEMMA LiveOddsHold ==
  ASSUME DE!DecisionAssumption, Fed, TrackInv, onHand \subseteq DE!Sides, game_ts \in Nat,
         now \in Nat
  PROVE  DE!OpensOnLiveOdds(DE!Decide)
  <1> SUFFICES ASSUME DE!Opens(DE!Decide), DE!Decide.forced = 0
               PROVE  LET q == DE!PublishQuoteSnapshot(DE!Decide)
                      IN  /\ oneMarket.mapped /\ game.status \in {"inplay", "halftime"}
                          /\ now - game_ts <= OddsAge /\ ~game.frozen
                          /\ oneMarket.seg > 0 => game.seg = oneMarket.seg
                          /\ oneMarket.kind # "outright"
                          /\ q.ok /\ q.src = "sharp" /\ DE!Magnitude(q.target) = DE!Decide.target
      BY DEF DE!OpensOnLiveOdds
  <1>1. /\ ThePrice.src = "sharp" /\ DE!Decide.at = "decided"
        /\ DE!Decide.target \in Nat /\ DE!Decide.target > 0
        BY OpeningIs
  <1>2. /\ TheRow = DE!Score(game) /\ oneMarket.mapped
        /\ game.status \in {"inplay", "halftime"} /\ DE!Fresh
        /\ ~game.frozen /\ ~(game_ts > 0 /\ now - game_ts > OddsAge)
        /\ oneMarket.kind = "moneyline"
        /\ DE!Prob(DE!Sharp(TheRow))
        BY <1>1, SharpIs
  <1>3. oneMarket.seg > 0 => game.seg = oneMarket.seg
        <2>1. CASE oneMarket.is_draw
              <3>1. oneMarket.seg = 0
                    BY <2>1 DEF Fed, DE!DecisionAssumption, DE!Devigged
              <3> QED BY <3>1
        <2>2. CASE ~oneMarket.is_draw
              <3>1. oneMarket.seg # 0 => game.seg = oneMarket.seg
                    BY <1>2, <2>2, OddsAre
              <3>2. ~(0 > 0)
                    OBVIOUS
              <3> QED BY <3>1, <3>2
        <2> QED BY <2>1, <2>2
  <1>4. now - game_ts <= OddsAge
        <2>1. OddsAge \in Nat
              BY DEF DE!DecisionAssumption
        <2> QED BY <1>2, <2>1 DEF DE!Fresh
  <1>5. DE!Decide.row.status = "InPlay" /\ DE!Decide.src = "sharp"
        BY <1>1, <1>2, DecideIs DEF DE!Score
  <1>6. DE!PublishQuoteSnapshot(DE!Decide).target \in {DE!Decide.target, -DE!Decide.target}
        BY <1>5 DEF DE!PublishQuoteSnapshot
  <1>7. DE!Magnitude(DE!PublishQuoteSnapshot(DE!Decide).target) = DE!Decide.target
        BY <1>1, <1>6 DEF DE!Magnitude
  <1>8. DE!PublishQuoteSnapshot(DE!Decide).ok /\ DE!PublishQuoteSnapshot(DE!Decide).src = "sharp"
        BY <1>5 DEF DE!PublishQuoteSnapshot
  <1> QED BY <1>2, <1>3, <1>4, <1>7, <1>8

(* It is on the side the odds favour.                                       *)
LEMMA RightSideHolds ==
  ASSUME DE!DecisionAssumption, Fed, TrackInv, onHand \subseteq DE!Sides
  PROVE  DE!OpensOnRightSide(DE!Decide)
  <1> SUFFICES ASSUME DE!Opens(DE!Decide), DE!Decide.forced = 0, ~oneMarket.is_draw
               PROVE  IF oneMarket.right
                      THEN /\ DE!TrueOdds(TheSide) > DE!Of(TheSide, DE!Devig)
                           /\ DE!TrueOdds(TheSide) >= MinOpenFair
                      ELSE DE!Of(TheSide, DE!Devig) - DE!TrueOdds(TheSide)
                             >= 2 * MinOpenFair - 1000 - MaxGap - 10 - DE!Positive(game.draw)
      BY OpeningIs DEF DE!OpensOnRightSide, DE!One
  <1> DEFINE o == DE!Odds(game)
             mine == IF oneMarket.yes_is_home THEN 1 ELSE 2
             others == IF oneMarket.yes_is_home THEN 2 ELSE 1
             s == DE!Sharp(TheRow)
             v == DE!Devig
             dr == DE!Positive(game.draw)
  <1>1. /\ ThePrice.src = "sharp" /\ ThePrice.yes # v /\ v \in Int
        /\ DE!Gate(TheFair, TheSide) = "none"
        /\ TheSide = (IF ThePrice.yes >= v THEN "yes" ELSE "no")
        BY OpeningIs
  <1>2. /\ TheRow = DE!Score(game) /\ DE!Prob(s)
        /\ ThePrice.yes = s /\ DE!Magnitude(s - v) <= MaxGap
        BY <1>1, SharpIs
  <1>3. s \in 0..1000
        BY <1>2 DEF DE!Prob, DE!One
  <1>4. s = o[mine] /\ o[others] \in Int /\ s + o[others] <= 1010 /\ s + o[others] >= 990 - dr
        BY <1>2, OddsAre
  <1>5. /\ MaxGap \in Nat /\ MinOpenFair \in Nat
        /\ oneMarket.yes_is_home \in BOOLEAN /\ oneMarket.right \in BOOLEAN
        BY DEF Fed, DE!DecisionAssumption, DE!Numbers
  <1>6. dr \in Nat
        BY DEF Fed, DE!DecisionAssumption, DE!Numbers, DE!Positive
  <1>7. DE!TrueOdds(TheSide) = DE!Of(TheSide, IF oneMarket.right THEN o[mine] ELSE o[others])
        BY <1>5 DEF DE!TrueOdds
  <1>8. TheFair = DE!Of(TheSide, s) /\ ~(TheFair < MinOpenFair)
        <2>1. ~(TheFair < MinOpenFair)
              BY <1>1 DEF DE!Gate
        <2>2. TheFair = DE!Of(TheSide, s)
              BY <1>2 DEF TheFair
        <2> QED BY <2>1, <2>2
  <1> HIDE DEF o, mine, others, s, v, dr
  <1>9. CASE oneMarket.right
        <2>1. DE!TrueOdds(TheSide) = DE!Of(TheSide, s)
              BY <1>4, <1>7, <1>9
        <2> QED BY <1>1, <1>2, <1>3, <1>5, <1>8, <1>9, <2>1 DEF DE!Of, DE!One, v
  <1>10. CASE ~oneMarket.right
        <2>1. DE!TrueOdds(TheSide) = DE!Of(TheSide, o[others])
              BY <1>7, <1>10
        <2> DEFINE t == o[others]
        <2>2. t \in Int /\ s + t <= 1010 /\ s + t >= 990 - dr
              BY <1>4
        <2> HIDE DEF t
        <2>3. s - v <= MaxGap /\ v - s <= MaxGap
              BY <1>1, <1>2, <1>3, <1>5 DEF DE!Magnitude
        <2>4. CASE TheSide = "yes"
              <3>1. s >= MinOpenFair
                    BY <1>3, <1>5, <1>8, <2>4 DEF DE!Of
              <3>2. v - t >= 2 * MinOpenFair - 1000 - MaxGap - 10 - dr
                    BY <1>1, <1>3, <1>5, <1>6, <2>2, <2>3, <3>1
              <3> QED BY <1>10, <2>1, <2>4, <3>2 DEF DE!Of, t, v, dr
        <2>5. CASE TheSide = "no"
              <3>1. 1000 - s >= MinOpenFair
                    BY <1>3, <1>5, <1>8, <2>5 DEF DE!Of, DE!One
              <3>2. (1000 - v) - (1000 - t) >= 2 * MinOpenFair - 1000 - MaxGap - 10 - dr
                    BY <1>1, <1>3, <1>5, <1>6, <2>2, <2>3, <3>1
              <3> QED BY <1>10, <2>1, <2>5, <3>2 DEF DE!Of, DE!One, t, v, dr
        <2> QED BY <1>1, <2>4, <2>5
  <1> QED BY <1>9, <1>10

(* The odds have favoured it throughout the window: a sample of the window  *)
(* is in the ring, as no two are of one time.                               *)
LEMMA SteadyHolds ==
  ASSUME DE!DecisionAssumption, Fed, TrackInv, onHand \subseteq DE!Sides
  PROVE  DE!SteadySide(DE!Decide)
  <1> SUFFICES ASSUME DE!Opens(DE!Decide), DE!Decide.forced = 0, ~(Relax /\ DE!liquid_market),
                      NEW i \in DOMAIN track, track[i].ts >= DE!Last.ts - StableWindow
               PROVE  DE!Of(TheSide, track[i].sharp) >= MinOpenFair
      BY OpeningIs DEF DE!SteadySide
  <1>1. DE!Gate(TheFair, TheSide) = "none"
        BY OpeningIs
  <1>2. ~DE!Unsteady(TheSide)
        BY <1>1 DEF DE!Gate
  <1>3. Len(track) \in Nat /\ DOMAIN track = 1..Len(track) /\ i \in 1..Len(track)
        BY DEF TrackInv
  <1>4. track # << >>
        BY <1>3
  <1>5. kCapacity \in Nat /\ StableWindow \in Nat /\ kCapacity > StableWindow /\ MinOpenFair \in Nat
        BY DEF DE!DecisionAssumption
  <1>6. i \in DE!Window(StableWindow)
        <2>1. track[i] \in Samples /\ track[Len(track)] \in Samples
              BY <1>3 DEF TrackInv
        <2>2. track[i].ts \in Nat /\ DE!Last.ts \in Nat
              BY <2>1 DEF Samples, DE!Last
        <2>3. i = Len(track) \/ DE!Last.ts - track[i].ts >= Len(track) - i
              BY <1>3 DEF TrackInv, DE!Last
        <2>4. i > Len(track) - kCapacity
              BY <1>3, <1>5, <2>2, <2>3
        <2> QED BY <2>4 DEF DE!Window, DE!Ring
  <1>7. track[i].sharp \in DE!Seen(StableWindow)
        BY <1>6 DEF DE!Seen
  <1>8. ~(DE!Of(TheSide, track[i].sharp) < MinOpenFair)
        BY <1>2, <1>4, <1>7 DEF DE!Unsteady
  <1>9. DE!Of(TheSide, track[i].sharp) \in Int
        <2>1. track[i] \in Samples
              BY <1>3 DEF TrackInv
        <2> QED BY <2>1 DEF Samples, DE!Of, DE!One
  <1> QED BY <1>5, <1>8, <1>9

(* The invariant: what is fed is of its sets, the samples are of rising     *)
(* times, and on paper no order is ever on its way, so that a side is in    *)
(* the ledger before the loop decides again.                                *)
DecisionInv ==
  /\ DE!TypeOK /\ Fed /\ TrackInv
  /\ DE!OneSide /\ (~desk.live => flying = {})

(* A sample joins the track if it is newer than the last one.               *)
LEMMA PushIs ==
  ASSUME DE!DecisionAssumption, DecisionInv, DE!Decide.at = "decided"
  PROVE  LET new == DE!Push(DE!Sample(DE!Decide.row))
         IN  /\ new \in Seq(Samples)
             /\ \A i \in DOMAIN new : DE!Within(new[i].sharp) /\ new[i].ts \in 1..now
             /\ \A i, j \in DOMAIN new : i < j => new[j].ts - new[i].ts >= j - i
  <1> DEFINE x == DE!Sample(DE!Decide.row)
             new == DE!Push(x)
             n == Len(track)
  <1>1. track \in Seq(Samples) /\ n \in Nat /\ DOMAIN track = 1..n
        BY DEF DecisionInv, TrackInv
  <1>2. CASE new = track
        BY <1>2 DEF DecisionInv, TrackInv
  <1>3. CASE new # track
        <2>1. /\ new = Append(track, x) /\ x.ts > 0 /\ DE!Within(x.sharp)
              /\ track = << >> \/ x.ts > DE!Last.ts
              BY <1>3 DEF DE!Push
        <2>2. DE!Decide.row = TheRow
              BY DecideIs
        <2>3. x.ts = TheRow.ts /\ x.sharp = TheRow.odds[1] /\ x.mid = DE!Micro(book["yes"])
              /\ x = [ts |-> x.ts, sharp |-> x.sharp, mid |-> x.mid]
              BY <2>2 DEF DE!Sample
        <2>4. TheRow # DE!Stub
              <3> SUFFICES ASSUME TheRow = DE!Stub PROVE FALSE
                  OBVIOUS
              <3>1. x.sharp = -1
                    BY <2>3 DEF DE!Stub, DE!None
              <3> QED BY <2>1, <3>1 DEF DE!Within
        <2>5. TheRow = DE!Score(game) /\ DE!Fresh
              BY <2>4 DEF TheRow, DE!ResolveGameContext
        <2>6. x.ts = game_ts /\ x.ts \in 1..now /\ now \in Nat
              <3>1. x.ts = game_ts
                    BY <2>3, <2>5 DEF DE!Score
              <3> QED BY <2>1, <3>1 DEF DecisionInv, DE!TypeOK
        <2>7. {game.odds_home, game.odds_away, game.seg_home, game.seg_away} \subseteq Int
              BY DEF DecisionInv, Fed, DE!DecisionAssumption, DE!Numbers
        <2>8. x.sharp \in Int
              <3> DEFINE o == DE!Odds(game)
              <3>1. o[1] \in Int /\ o[2] \in Int
                    BY <2>7 DEF DE!Odds, DE!None
              <3>2. TheRow.odds = DE!ToYesCanonical(o[1], o[2])
                    BY <2>5 DEF DE!Score
              <3> HIDE DEF o
              <3> QED BY <2>3, <3>1, <3>2 DEF DE!ToYesCanonical
        <2>9. x.mid \in Int
              BY <2>3, MarketIsANumber DEF DecisionInv
        <2>10. x \in Samples
              <3> HIDE DEF x
              <3> QED BY <2>3, <2>6, <2>8, <2>9 DEF Samples
        <2> HIDE DEF x, new
        <2>11. /\ new \in Seq(Samples) /\ DOMAIN new = 1..(n + 1)
               /\ \A i \in 1..n : new[i] = track[i]
               /\ new[n + 1] = x
              BY <1>1, <2>1, <2>10
        <2>12. /\ \A i \in 1..n : DE!Within(track[i].sharp) /\ track[i].ts \in 1..now
               /\ \A i, j \in 1..n : i < j => track[j].ts - track[i].ts >= j - i
              BY <1>1 DEF DecisionInv, TrackInv
        <2>13. \A i \in DOMAIN new : DE!Within(new[i].sharp) /\ new[i].ts \in 1..now
              BY <1>1, <2>1, <2>6, <2>11, <2>12
        <2>14. ASSUME NEW i \in 1..n PROVE x.ts - track[i].ts >= n + 1 - i
              <3>1. x.ts > track[n].ts
                    BY <1>1, <2>1, <2>14 DEF DE!Last
              <3>2. i = n \/ track[n].ts - track[i].ts >= n - i
                    <4> HIDE DEF n
                    <4>1. n \in 1..n /\ (i = n \/ i < n)
                          BY <1>1, <2>14
                    <4> QED BY <2>12, <2>14, <4>1
              <3>3. track[i].ts \in Nat /\ track[n].ts \in Nat /\ x.ts \in Nat
                    BY <1>1, <2>6, <2>12, <2>14
              <3>4. i \in Int /\ n \in Int
                    BY <1>1, <2>14
              <3> DEFINE a == track[i].ts
                         b == track[n].ts
                         c == x.ts
              <3>5. /\ a \in Int /\ b \in Int /\ c \in Int /\ c > b
                    /\ (i = n /\ a = b) \/ b - a >= n - i
                    BY <3>1, <3>2, <3>3
              <3> HIDE DEF a, b, c, n
              <3>6. c - a >= n + 1 - i
                    BY <3>4, <3>5
              <3> QED BY <3>6 DEF a, c
        <2>15. \A i, j \in DOMAIN new : i < j => new[j].ts - new[i].ts >= j - i
              <3> SUFFICES ASSUME NEW i \in 1..(n + 1), NEW j \in 1..(n + 1), i < j
                           PROVE  new[j].ts - new[i].ts >= j - i
                  BY <2>11
              <3> HIDE DEF n
              <3>1. i \in 1..n
                    BY <1>1
              <3>2. CASE j \in 1..n
                    BY <2>11, <2>12, <3>1, <3>2
              <3>3. CASE j \notin 1..n
                    <4>1. j = n + 1
                          BY <1>1, <3>3
                    <4>2. new[j] = x /\ new[i] = track[i]
                          BY <2>11, <3>1, <4>1
                    <4>3. x.ts - track[i].ts >= n + 1 - i
                          BY <2>14, <3>1
                    <4> QED BY <1>1, <4>1, <4>2, <4>3
              <3> QED BY <3>2, <3>3
        <2> QED BY <2>11, <2>13, <2>15 DEF new, x
  <1> QED BY <1>2, <1>3

(* Nothing is held, and nothing is on the track.                            *)
LEMMA DecisionInit ==
  ASSUME DE!DecisionAssumption, DE!Init
  PROVE  DecisionInv
  <1>1. MaxTime \in Nat /\ MaxTime > 0 /\ MaxMoves \in Nat
        BY DEF DE!DecisionAssumption
  <1>2. DE!TypeOK
        BY <1>1 DEF DE!Init, DE!TypeOK, DE!NoQuote, DE!NoFrame, DE!kMaxStopsPerMarket
  <1>3. TrackInv
        BY DEF DE!Init, TrackInv
  <1> QED BY <1>2, <1>3 DEF DE!Init, DecisionInv, Fed, DE!OneSide, DE!Sides

(* A side that is bought on paper is the first in the ledger.               *)
LEMMA BoughtAlone ==
  ASSUME DecisionInv, DE!Opens(DE!Decide), ~desk.live
  PROVE  onHand = {} /\ DE!Decide.side \in DE!Sides
  <1>1. DE!Decide.at = "decided" /\ DE!Decide.side \notin onHand
        BY DEF DE!Opens
  <1>2. DE!Decide.side = TheSide
        BY <1>1, DecideIs
  <1>3. TheSide \in DE!Sides
        BY DEF TheSide, DE!SelectSide, DE!Sides
  <1>4. onHand # {"yes"} /\ onHand # {"no"}
        <2>1. onHand = {"yes"} => TheSide = "yes"
              BY DEF TheSide, DE!SelectSide
        <2>2. onHand = {"no"} => TheSide = "no"
              BY DEF TheSide, DE!SelectSide
        <2> QED BY <1>1, <1>2, <2>1, <2>2
  <1>5. onHand \subseteq DE!Sides /\ onHand # DE!Sides
        BY DEF DecisionInv, DE!TypeOK, DE!OneSide
  <1> QED BY <1>2, <1>3, <1>4, <1>5 DEF DE!Sides

(* Only Tick adds to the track, and on paper only Tick adds to the ledger.  *)
LEMMA DecisionNext ==
  ASSUME DE!DecisionAssumption, DecisionInv, [DE!Next]_DE!vars
  PROVE  DecisionInv'
  <1> USE DEF DecisionInv
  <1>1. CASE UNCHANGED DE!vars
        BY <1>1 DEF DE!vars, DE!TypeOK, Fed, TrackInv, DE!OneSide, DE!Within
  <1>2. MaxTime \in Nat /\ MaxMoves \in Nat /\ now \in Nat /\ game_ts \in Nat /\ moves \in Nat
        BY DEF DE!DecisionAssumption, DE!TypeOK
  <1>3. CASE DE!FeedReads
        BY <1>2, <1>3 DEF DE!FeedReads, DE!loop, DE!TypeOK, Fed, TrackInv, DE!OneSide, DE!Within
  <1>4. CASE DE!BookMoves
        BY <1>2, <1>4 DEF DE!BookMoves, DE!loop, DE!TypeOK, Fed, TrackInv, DE!OneSide, DE!Within
  <1>5. CASE DE!Passes
        <2>1. now' = now + 1 /\ now < MaxTime
              /\ UNCHANGED <<game, game_ts, book, oneMarket, desk, onHand, flying, stops, track,
                             quote, tape, gate_log_ns_, moves>>
              BY <1>5 DEF DE!Passes, DE!loop
        <2>2. \A x \in 1..now : x \in 1..(now + 1)
              BY <1>2
        <2>3. \A x \in 0..now : x \in 0..(now + 1)
              BY <1>2
        <2>4. DE!TypeOK'
              BY <1>2, <2>1, <2>2, <2>3 DEF DE!TypeOK, DE!Within, DE!One
        <2>5. TrackInv'
              BY <1>2, <2>1, <2>2 DEF TrackInv, DE!Within, DE!One
        <2> QED BY <2>1, <2>4, <2>5 DEF Fed, DE!OneSide, DE!Sides
  <1>6. CASE DE!Tick
        <2>1. /\ DE!Decide.at = "decided"
              /\ quote' = DE!PublishQuoteSnapshot(DE!Decide)
              /\ tape' = DE!MaybeEmitMarketTape(DE!Decide)
              /\ track' = DE!Push(DE!Sample(DE!Decide.row))
              /\ IF ~DE!Opens(DE!Decide) THEN UNCHANGED <<onHand, flying>>
                 ELSE IF desk.live
                 THEN flying' = flying \cup {DE!Decide.side} /\ UNCHANGED onHand
                 ELSE onHand' = onHand \cup {DE!Decide.side} /\ UNCHANGED flying
              /\ UNCHANGED <<now, game, game_ts, book, oneMarket, desk, stops, moves>>
              BY <1>6 DEF DE!Tick
        <2>2. DE!Decide.side \in DE!Sides
              BY <2>1, DecideIs DEF TheSide, DE!SelectSide, DE!Sides
        <2>3. onHand' \subseteq DE!Sides /\ flying' \subseteq DE!Sides
              BY <2>1, <2>2 DEF DE!TypeOK
        <2>4. DE!OneSide' /\ (~desk'.live => flying' = {})
              <3>1. CASE desk.live
                    BY <2>1, <3>1 DEF DE!OneSide
              <3>2. CASE ~desk.live
                    <4>1. CASE ~DE!Opens(DE!Decide)
                          BY <2>1, <3>2, <4>1 DEF DE!OneSide, DE!Sides
                    <4>2. CASE DE!Opens(DE!Decide)
                          <5>1. onHand = {}
                                BY <3>2, <4>2, BoughtAlone
                          <5> QED BY <2>1, <3>2, <4>2, <5>1 DEF DE!OneSide, DE!Sides
                    <4> QED BY <4>1, <4>2
              <3> QED BY <3>1, <3>2
        <2>5. quote'.ok \in BOOLEAN
              BY <2>1 DEF DE!PublishQuoteSnapshot
        <2>6. tape'.at \in 0..now
              BY <1>2, <2>1 DEF DE!MaybeEmitMarketTape, DE!TypeOK
        <2>7. TrackInv'
              <3>1. /\ track' \in Seq(Samples)
                    /\ \A i \in DOMAIN track' : DE!Within(track'[i].sharp) /\ track'[i].ts \in 1..now
                    /\ \A i, j \in DOMAIN track' : i < j => track'[j].ts - track'[i].ts >= j - i
                    BY <2>1, PushIs
              <3> QED BY <2>1, <3>1 DEF TrackInv, DE!Within, DE!One
        <2>8. DE!TypeOK'
              BY <2>1, <2>3, <2>5, <2>6, <2>7 DEF DE!TypeOK, TrackInv
        <2> QED BY <2>1, <2>4, <2>7, <2>8 DEF Fed
  <1>7. ASSUME NEW s \in DE!Sides, DE!Filled(s) PROVE DecisionInv'
        <2>1. desk.live
              BY <1>7 DEF DE!Filled
        <2> QED BY <1>7, <2>1 DEF DE!Filled, DE!TypeOK, Fed, TrackInv, DE!OneSide, DE!Within
  <1>8. ASSUME NEW s \in DE!Sides, NEW stopped \in BOOLEAN, DE!Leaves(s, stopped)
        PROVE  DecisionInv'
        <2>1. stops' \in 0..2
              BY <1>8 DEF DE!Leaves, DE!TypeOK, DE!Clamp, DE!kMaxStopsPerMarket
        <2> QED BY <1>8, <2>1 DEF DE!Leaves, DE!TypeOK, Fed, TrackInv, DE!OneSide, DE!Within,
                                  DE!Sides, DE!kMaxStopsPerMarket
  <1> QED BY <1>1, <1>3, <1>4, <1>5, <1>6, <1>7, <1>8 DEF DE!Next

(* The invariant implies all that is promised.                              *)
LEMMA DecisionInvHolds ==
  ASSUME DE!DecisionAssumption, DecisionInv
  PROVE  DE!DecisionHolds
  <1>1. onHand \subseteq DE!Sides /\ game_ts \in Nat /\ now \in Nat
        BY DEF DecisionInv, DE!TypeOK
  <1> QED BY <1>1, LiveOddsHold, RightSideHolds, SteadyHolds, TargetIs
          DEF DecisionInv, DE!DecisionHolds

(* Whatever is fed and quoted: new money has odds of a game in play behind  *)
(* it, of the market's own segment, fresh and not frozen, on the side they  *)
(* favour and have favoured throughout the window; a market mapped to the   *)
(* other team is bought only if it is as far from the truth as the gates    *)
(* allow; no size exceeds the caps, which shrink with the account; and on   *)
(* paper one side of a market is held, never both (ResolveGameContext,      *)
(* ResolveFair and what TickOne makes of it, SizingCalculator::compute, the *)
(* gates and multipliers of TickOne, SharpFairTrack).                       *)
THEOREM SpecDecisionHolds ==
  ASSUME DE!DecisionAssumption
  PROVE  DE!Init /\ [][DE!Next]_DE!vars => []DE!DecisionHolds
  <1>1. DE!Init => DecisionInv
        BY DecisionInit
  <1>2. DecisionInv /\ [DE!Next]_DE!vars => DecisionInv'
        BY DecisionNext
  <1>3. DecisionInv => DE!DecisionHolds
        BY DecisionInvHolds
  <1> QED BY <1>1, <1>2, <1>3, PTL

(* The decision to buy among what stands beside it: new money has fresh     *)
(* odds of its own game behind it, and caps that shrink with the account.   *)
THEOREM ReadsNewMoneyHolds == ReadsSpec => []NewMoneyHolds
  <1>1. readsPart = "decision" /\ ReadsSpec => []NewMoneyHolds
        <2>1. readsPart = "decision" /\ ReadsInit => DE!Init
              BY DEF ReadsInit
        <2>2. [ReadsNext]_readsVars => [DE!Next]_DE!vars
              <3>1. UNCHANGED decision => UNCHANGED DE!vars
                    BY DEF decision, DE!vars
              <3>2. ReadsNext => DE!Next \/ UNCHANGED decision
                    BY DEF ReadsNext
              <3>3. UNCHANGED readsVars => UNCHANGED decision
                    BY DEF readsVars
              <3> QED BY <3>1, <3>2, <3>3
        <2>3. DE!DecisionHolds => NewMoneyHolds
              BY DEF NewMoneyHolds
        <2> QED BY <2>1, <2>2, <2>3, SpecDecisionHolds, ReadsAssumption, PTL DEF ReadsSpec
  <1>2. ~(readsPart = "decision") /\ ReadsSpec => []NewMoneyHolds
        <2>1. ~(readsPart = "decision") /\ [ReadsNext]_readsVars => (~(readsPart = "decision"))'
              BY DEF ReadsNext, readsVars
        <2>2. ~(readsPart = "decision") => NewMoneyHolds
              BY DEF NewMoneyHolds
        <2> QED BY <2>1, <2>2, PTL DEF ReadsSpec
  <1> QED BY <1>1, <1>2, PTL
=============================================================================
