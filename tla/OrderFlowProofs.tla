--------------------------- MODULE OrderFlowProofs ---------------------------
(***************************************************************************)
(* What OrderFlow promises for any tokens, caps and times.                 *)
(*                                                                         *)
(* The storm halt needs no assumption.  Its window is a suffix of the      *)
(* history of orders, everything before that suffix is older than the      *)
(* window, and as long as nothing is halted the suffix is short.           *)
(*                                                                         *)
(* The orders of a token the ledger knows nothing of are a cooldown apart, *)
(* and its cap holds on chain until one of them is overdue: an order whose *)
(* fate is unknown, or whose trade is not booked, has a cooldown of its    *)
(* token before it, or is overdue by the time the token is ordered again.  *)
(*                                                                         *)
(* The other sections are about what orders are made from: which events a  *)
(* round of discovery finds (Discovery), and which game a market is        *)
(* matched to (Matching).                                                  *)
(* A section names the instance it is about, an inductive invariant, a     *)
(* lemma per action that can disturb it, and the theorem.                  *)
(***************************************************************************)
EXTENDS OrderFlow, SumTheorems, SequenceTheorems, TLAPS

-----------------------------------------------------------------------------
(* The storm halt.                                                           *)

(* E: the times of the first n orders; D: the d times of the window.         *)
Sorted(E, n, t) ==
  /\ \A i \in 1..n : E[i] <= t
  /\ \A i, j \in 1..n : i <= j => E[i] <= E[j]

IsSuffix(E, n, D, d) ==
  /\ d <= n
  /\ \A k \in 1..d : D[k] = E[n - d + k]
  /\ \A k \in 1..(n - d) : E[n] - E[k] > kStormWindowNs

Spread(E, n) ==
  \A i \in 1..n : i + kStormMaxLiveOrders + 1 <= n
                    => E[i + kStormMaxLiveOrders + 1] - E[i] > kStormWindowNs

HaltedInTime ==
  /\ ~live_storm_halt_ => Len(live_exec_times_ns_) <= kStormMaxLiveOrders
  /\ pc = "posting" => ~live_storm_halt_

StormTypes == now \in Nat /\ executed \in Seq(Nat) /\ live_exec_times_ns_ \in Seq(Nat)

StormInv ==
  /\ StormTypes /\ HaltedInTime
  /\ Sorted(executed, Len(executed), now)
  /\ IsSuffix(executed, Len(executed), live_exec_times_ns_, Len(live_exec_times_ns_))
  /\ Spread(executed, Len(executed))

(* One more order at t: the window pops its first k - 1 times, which are     *)
(* older than the window, and stays the suffix of the history; if it was     *)
(* short, the order that falls out of it is far enough back.                 *)
LEMMA PushKeepsSuffix ==
  ASSUME NEW n \in Nat, NEW d \in Nat, NEW k \in 1..(d + 1), NEW t \in Nat,
         NEW E, NEW D, NEW F, NEW G,
         \A i \in 1..n : E[i] \in Nat /\ F[i] = E[i],
         F[n + 1] = t,
         \A i \in 1..(d + 1 - k) : G[i] = D[k + i - 1],
         G[d + 2 - k] = t,
         \A j \in 1..(k - 1) : t - D[j] > kStormWindowNs,
         Sorted(E, n, t), IsSuffix(E, n, D, d), Spread(E, n), d <= kStormMaxLiveOrders
  PROVE  Sorted(F, n + 1, t) /\ IsSuffix(F, n + 1, G, d + 2 - k) /\ Spread(F, n + 1)
<1> USE DEF Sorted, IsSuffix, Spread
<1>0. kStormWindowNs \in Nat /\ kStormMaxLiveOrders \in Nat
      BY OrderFlowAssumption
<1>1. Sorted(F, n + 1, t)
  <2>1. \A i \in 1..(n + 1) : F[i] <= t
    <3> SUFFICES ASSUME NEW i \in 1..(n + 1) PROVE F[i] <= t
        OBVIOUS
    <3>1. CASE i \in 1..n
          BY <3>1
    <3>2. CASE i = n + 1
          BY <3>2
    <3> QED BY <3>1, <3>2
  <2>2. \A i, j \in 1..(n + 1) : i <= j => F[i] <= F[j]
    <3> SUFFICES ASSUME NEW i \in 1..(n + 1), NEW j \in 1..(n + 1), i <= j PROVE F[i] <= F[j]
        OBVIOUS
    <3>1. CASE j = n + 1
          BY <3>1, <2>1
    <3>2. CASE j # n + 1
      <4>1. i \in 1..n /\ j \in 1..n
            BY <3>2
      <4> QED BY <4>1
    <3> QED BY <3>1, <3>2
  <2> QED BY <2>1, <2>2
<1>2. \A i \in 1..(d + 2 - k) : G[i] = F[(n + 1) - (d + 2 - k) + i]
  <2> SUFFICES ASSUME NEW i \in 1..(d + 2 - k) PROVE G[i] = F[(n + 1) - (d + 2 - k) + i]
      OBVIOUS
  <2>1. CASE i = d + 2 - k
        BY <2>1
  <2>2. CASE i # d + 2 - k
    <3>1. i \in 1..(d + 1 - k) /\ k + i - 1 \in 1..d
          BY <2>2
    <3>2. G[i] = E[n - d + (k + i - 1)]
          BY <3>1
    <3>3. n - d + (k + i - 1) = (n + 1) - (d + 2 - k) + i /\ n - d + (k + i - 1) \in 1..n
          BY <3>1
    <3> QED BY <3>2, <3>3
  <2> QED BY <2>1, <2>2
<1>3. \A i \in 1..((n + 1) - (d + 2 - k)) : F[n + 1] - F[i] > kStormWindowNs
  <2> SUFFICES ASSUME NEW i \in 1..((n + 1) - (d + 2 - k)) PROVE t - E[i] > kStormWindowNs
      OBVIOUS
  <2>1. CASE i <= n - d
        BY <2>1, <1>0
  <2>2. CASE i > n - d
    <3>1. i - (n - d) \in 1..(k - 1) /\ i - (n - d) \in 1..d /\ n - d + (i - (n - d)) = i
          BY <2>2
    <3> QED BY <3>1
  <2> QED BY <2>1, <2>2
<1>4. Spread(F, n + 1)
  <2> SUFFICES ASSUME NEW i \in 1..(n + 1), i + kStormMaxLiveOrders + 1 <= n + 1
               PROVE  F[i + kStormMaxLiveOrders + 1] - F[i] > kStormWindowNs
      OBVIOUS
  <2>1. CASE i + kStormMaxLiveOrders + 1 = n + 1
    <3>1. i \in 1..(n - d) /\ i \in 1..n /\ n \in 1..n
          BY <2>1, <1>0
    <3> QED BY <2>1, <3>1, <1>0
  <2>2. CASE i + kStormMaxLiveOrders + 1 # n + 1
        BY <2>2, <1>0
  <2> QED BY <2>1, <2>2, <1>0
<1> QED BY <1>1, <1>2, <1>3, <1>4

(* The answer to an order appends the clock to the history and to the window. *)
LEMMA AnsweredKeepsStormInv ==
  ASSUME StormInv, NEW o, Answered(o)
  PROVE  StormInv'
<1> DEFINE times == Append(live_exec_times_ns_, now)
           n == Len(executed)
           d == Len(live_exec_times_ns_)
<1>0. /\ now \in Nat /\ executed \in Seq(Nat) /\ live_exec_times_ns_ \in Seq(Nat)
      /\ Sorted(executed, n, now) /\ IsSuffix(executed, n, live_exec_times_ns_, d)
      /\ Spread(executed, n)
      BY DEF StormInv, StormTypes
<1>1. PICK k \in DOMAIN times :
         /\ FirstInWindow(times, k)
         /\ live_exec_times_ns_' = SubSeq(times, k, Len(times))
      BY DEF Answered
<1>2. /\ now' = now /\ executed' = Append(executed, now) /\ pc' = "decide"
      /\ d <= kStormMaxLiveOrders
      /\ live_storm_halt_' = (live_storm_halt_ \/ Len(live_exec_times_ns_') > kStormMaxLiveOrders)
      BY DEF Answered, StormInv, HaltedInTime
<1>3. n \in Nat /\ d \in Nat /\ \A i \in 1..n : executed[i] \in Nat
      BY <1>0, LenProperties, ElementOfSeq
<1>4. /\ Len(times) = d + 1 /\ times \in Seq(Nat) /\ times[d + 1] = now
      /\ \A i \in 1..d : times[i] = live_exec_times_ns_[i]
      BY <1>0, AppendProperties
<1>5. /\ Len(executed') = n + 1 /\ executed'[n + 1] = now /\ executed' \in Seq(Nat)
      /\ \A i \in 1..n : executed'[i] = executed[i]
      BY <1>0, <1>2, AppendProperties
<1>6. k \in 1..(d + 1) /\ \A i \in k..(d + 1) : times[i] \in Nat
      BY <1>1, <1>3, <1>4, LenProperties, ElementOfSeq, SMTT(30)
<1> HIDE DEF times, n, d
<1>7. /\ live_exec_times_ns_' \in Seq(Nat) /\ Len(live_exec_times_ns_') = d + 2 - k
      /\ \A i \in 1..(d + 2 - k) : live_exec_times_ns_'[i] = times[k + i - 1]
  <2>1. k \in Int /\ d + 1 \in Int /\ (d + 1) - k + 1 = d + 2 - k /\ k <= d + 1
        BY <1>3, <1>6
  <2>2. live_exec_times_ns_' = SubSeq(times, k, d + 1)
        BY <1>1, <1>4
  <2> QED BY <2>1, <2>2, <1>6, SubSeqProperties, SMTT(30)
<1>8. \A i \in 1..(d + 1 - k) : live_exec_times_ns_'[i] = live_exec_times_ns_[k + i - 1]
  <2> SUFFICES ASSUME NEW i \in 1..(d + 1 - k)
               PROVE  live_exec_times_ns_'[i] = live_exec_times_ns_[k + i - 1]
      OBVIOUS
  <2>1. i \in 1..(d + 2 - k) /\ k + i - 1 \in 1..d
        BY <1>3, <1>6
  <2> QED BY <2>1, <1>4, <1>7
<1>9. live_exec_times_ns_'[d + 2 - k] = now
  <2>1. d + 2 - k \in 1..(d + 2 - k) /\ k + (d + 2 - k) - 1 = d + 1
        BY <1>3, <1>6
  <2> QED BY <2>1, <1>4, <1>7
<1>10. \A j \in 1..(k - 1) : now - live_exec_times_ns_[j] > kStormWindowNs
      BY <1>1, <1>3, <1>4, <1>6, SMTT(30) DEF FirstInWindow
<1>11. /\ Sorted(executed', n + 1, now)
       /\ IsSuffix(executed', n + 1, live_exec_times_ns_', d + 2 - k)
       /\ Spread(executed', n + 1)
  <2> DEFINE E == executed  D == live_exec_times_ns_  F == executed'  G == live_exec_times_ns_'
  <2>1. /\ \A i \in 1..n : E[i] \in Nat /\ F[i] = E[i]
        /\ F[n + 1] = now
        /\ \A i \in 1..(d + 1 - k) : G[i] = D[k + i - 1]
        /\ G[d + 2 - k] = now
        /\ \A j \in 1..(k - 1) : now - D[j] > kStormWindowNs
        /\ Sorted(E, n, now) /\ IsSuffix(E, n, D, d) /\ Spread(E, n)
        BY <1>0, <1>3, <1>5, <1>8, <1>9, <1>10
  <2> HIDE DEF E, D, F, G
  <2>2. Sorted(F, n + 1, now) /\ IsSuffix(F, n + 1, G, d + 2 - k) /\ Spread(F, n + 1)
        BY <2>1, <1>0, <1>2, <1>3, <1>6, PushKeepsSuffix, ZenonT(60)
  <2> QED BY <2>2 DEF F, G
<1>12. HaltedInTime'
  <2>1. ~live_storm_halt_' => ~(Len(live_exec_times_ns_') > kStormMaxLiveOrders)
        BY <1>2, Zenon
  <2>2. Len(live_exec_times_ns_') \in Int /\ kStormMaxLiveOrders \in Int /\ pc' # "posting"
        BY <1>2, <1>3, <1>6, <1>7, OrderFlowAssumption
  <2> QED BY <2>1, <2>2 DEF HaltedInTime
<1> QED BY <1>0, <1>2, <1>5, <1>7, <1>11, <1>12 DEF StormInv, StormTypes

(* A step that is no answer changes neither history nor window nor halt.     *)
LEMMA OtherKeepsStormInv ==
  ASSUME StormInv, UNCHANGED <<executed, live_exec_times_ns_, live_storm_halt_>>,
         now' \in Nat, now' >= now, pc' = "posting" => ~live_storm_halt_
  PROVE  StormInv'
<1>1. executed \in Seq(Nat) /\ now \in Nat /\ Sorted(executed, Len(executed), now)
      BY DEF StormInv, StormTypes
<1>2. \A i \in 1..Len(executed) : executed[i] \in Nat
      BY <1>1, ElementOfSeq
<1>3. Sorted(executed, Len(executed), now')
      BY <1>1, <1>2 DEF Sorted
<1> QED BY <1>3 DEF StormInv, StormTypes, HaltedInTime

(* Every step keeps the window a suffix of the history.                      *)
LEMMA StormInvInductive == StormInv /\ [Next]_vars => StormInv'
<1> SUFFICES ASSUME StormInv, [Next]_vars PROVE StormInv'
    OBVIOUS
<1>0. now \in Nat /\ (pc = "posting" => ~live_storm_halt_)
      BY DEF StormInv, StormTypes, HaltedInTime
<1>1. CASE Advance
      BY <1>0, <1>1, OtherKeepsStormInv DEF Advance, gates
<1>2. CASE BeginDecide \/ EndTick
      BY <1>0, <1>2, OtherKeepsStormInv DEF BeginDecide, EndTick, gates
<1>3. CASE \E o \in open : Confirm(o) \/ Die(o)
      BY <1>0, <1>3, OtherKeepsStormInv DEF Confirm, Die, gates
<1>4. CASE \E o \in queue_ : DrainUserFills(o)
      BY <1>0, <1>4, OtherKeepsStormInv DEF DrainUserFills, gates
<1>5. CASE \E o \in posting : Answer(o)
      BY <1>5, AnsweredKeepsStormInv DEF Answer, AnswerMatched, AnswerRejected, AnswerUnknown
<1>6. ASSUME NEW o, PostOrder(o) PROVE StormInv'
      BY <1>0, <1>6, OtherKeepsStormInv DEF PostOrder, MayOrder, gates
<1>7. CASE UNCHANGED vars
      BY <1>0, <1>7, OtherKeepsStormInv DEF vars, gates
<1> QED BY <1>1, <1>2, <1>3, <1>4, <1>5, <1>6, <1>7 DEF Next

(* The empty history and the empty window agree.                             *)
LEMMA InitStormInv == Init => StormInv
<1>1. Len(<<>>) = 0 /\ <<>> \in Seq(Nat) /\ 0 <= kStormMaxLiveOrders
      BY OrderFlowAssumption, EmptySeq
<1> QED BY <1>1 DEF Init, StormInv, StormTypes, HaltedInTime, Sorted, IsSuffix, Spread

(* At most kStormMaxLiveOrders + 1 live orders are answered within any       *)
(* window of kStormWindowNs (ExecuteControllerSide, the storm halt), for any *)
(* limit and window and whatever the exchange answers.                       *)
THEOREM SpecStormBounded == Spec => []StormBounded
<1>1. StormInv => StormBounded
  <2> SUFFICES ASSUME StormInv PROVE StormBounded
      OBVIOUS
  <2>1. DOMAIN executed = 1..Len(executed) /\ Len(executed) \in Nat
        BY LenProperties DEF StormInv, StormTypes
  <2> QED BY <2>1 DEF StormInv, Spread, StormBounded
<1> QED BY <1>1, InitStormInv, StormInvInductive, PTL DEF Spec

-----------------------------------------------------------------------------
(* Orders the ledger knows nothing of.                                       *)

(* The exposure of its token when o turns out matched.                       *)
After(o) == IF o.side = "Buy" THEN exposure[o.token] + o.size ELSE exposure[o.token] - o.size

Fits(o) == After(o) \in 0..per_outcome_cap_usdc

Types ==
  /\ now \in Nat /\ pc \in {"drain", "decide", "posting"}
  /\ posting \subseteq Order /\ open \subseteq Order /\ queue_ \subseteq Order
  /\ hard_reject_until_ns_ \in [Tokens -> Nat]
  /\ exposure \in [Tokens -> Int] /\ overdue \subseteq Tokens

(* Answered, and not booked.                                                 *)
Pending == open \cup queue_

(* An order cools its token for as long as it must, or that time is over;    *)
(* and once the token may be ordered again the order counts as overdue.      *)
Cools(o) == o.at + Cooldown <= now \/ o.at + Cooldown <= hard_reject_until_ns_[o.token]
Watched(o) == o.token \in overdue \/ now < hard_reject_until_ns_[o.token]

Clocks ==
  /\ pc # "posting" => posting = {}
  /\ \A o \in posting \cup Pending : o.at <= now
  /\ \A o \in Pending : Cools(o) /\ Watched(o)
  /\ \A o \in posting, p \in Pending :
       p.token = o.token => p.token \in overdue /\ p.at + Cooldown <= o.at

Far(o1, o2) == o1.at + Cooldown <= o2.at \/ o2.at + Cooldown <= o1.at

Apart ==
  /\ \A o1, o2 \in posting : o1 = o2
  /\ \A o \in open : o \notin queue_
  /\ \A o1, o2 \in Pending : o1.token = o2.token /\ o1 # o2 =>
       Far(o1, o2) /\ o1.token \in overdue

Capped ==
  per_outcome_cap_usdc > 0 =>
    /\ \A t \in Tokens \ overdue : exposure[t] \in 0..per_outcome_cap_usdc
    /\ \A o \in posting \cup Pending : o.token \notin overdue => Fits(o)

CapInv == Types /\ Clocks /\ Apart /\ Capped

(* Orders carry a token, a size and a time.                                  *)
LEMMA OrderShape ==
  ASSUME NEW o \in Order
  PROVE  /\ o.token \in Tokens /\ o.size \in Nat \ {0} /\ o.at \in Nat
         /\ o.side = "Buy" \/ o.side = "Sell"
<1>1. o.token \in Tokens /\ o.size \in Sizes /\ o.at \in Nat /\ o.side \in {"Buy", "Sell"}
      BY DEF Order
<1>2. Sizes \subseteq Nat \ {0}
      BY OrderFlowAssumption
<1>3. o.size \in Nat \ {0}
      BY <1>1, <1>2, Zenon
<1> QED BY <1>1, <1>3

(* The shorter of the two cooldowns.                                         *)
LEMMA CooldownIs ==
  /\ Cooldown \in Nat /\ Cooldown > 0
  /\ kHardRejectCooldownNs \in Nat /\ Cooldown <= kHardRejectCooldownNs
  /\ kLivePendingConfirmCooldownNs \in Nat /\ Cooldown <= kLivePendingConfirmCooldownNs
  /\ per_outcome_cap_usdc \in Nat
BY OrderFlowAssumption DEF Cooldown

(* What the invariant says of the orders there are.                          *)
LEMMA OrdersAre ==
  ASSUME CapInv, NEW o \in posting \cup Pending
  PROVE  /\ o \in Order /\ o.token \in Tokens /\ o.size \in Nat \ {0} /\ o.at \in Nat
         /\ o.at <= now /\ now \in Nat
         /\ o.side = "Buy" \/ o.side = "Sell"
<1>1. o \in Order
      BY DEF CapInv, Types, Pending
<1> QED BY <1>1, OrderShape DEF CapInv, Types, Clocks

(* Booking an order changes its token alone, to what After says.             *)
LEMMA FilledShape ==
  ASSUME Types, NEW o \in Order
  PROVE  /\ Filled(exposure, o) \in [Tokens -> Int] /\ After(o) \in Int
         /\ Filled(exposure, o)[o.token] = After(o)
         /\ \A t \in Tokens : t # o.token => Filled(exposure, o)[t] = exposure[t]
<1>1. o.token \in Tokens /\ exposure \in [Tokens -> Int] /\ After(o) \in Int
      BY OrderShape DEF Types, After
<1>2. Filled(exposure, o) = [exposure EXCEPT ![o.token] = After(o)]
      BY DEF Filled, After
<1> QED BY <1>1, <1>2

(* An order whose cooldown runs out becomes overdue with the clock.          *)
LEMMA AdvanceKeeps == ASSUME CapInv, Advance PROVE CapInv'
<1>1. /\ now' = now + 1 /\ overdue \subseteq overdue'
      /\ \A p \in Pending : now' >= p.at + Cooldown => p.token \in overdue'
      /\ UNCHANGED <<pc, posting, hard_reject_until_ns_, exposure, open, queue_>>
      BY DEF Advance, gates, Pending
<1>2. Types'
  <2>1. \A p \in open \cup queue_ : p.token \in Tokens
        BY OrderShape DEF CapInv, Types
  <2>2. overdue' \subseteq Tokens
        BY <2>1 DEF Advance, CapInv, Types
  <2> QED BY <1>1, <2>2 DEF CapInv, Types
<1>3. Clocks'
  <2>1. ASSUME NEW o \in Pending PROVE Cools(o)' /\ Watched(o)'
    <3>1. /\ o.at \in Nat /\ now \in Nat /\ Cooldown \in Nat
          /\ hard_reject_until_ns_[o.token] \in Nat /\ Cools(o) /\ Watched(o)
          BY <2>1, OrdersAre, CooldownIs DEF CapInv, Types, Clocks
    <3>2. /\ now' = now + 1 /\ hard_reject_until_ns_'[o.token] = hard_reject_until_ns_[o.token]
          /\ now' >= o.at + Cooldown => o.token \in overdue'
          /\ o.token \in overdue => o.token \in overdue'
          BY <1>1, <2>1
    <3>3. o.at + Cooldown <= now' \/ o.at + Cooldown <= hard_reject_until_ns_'[o.token]
          BY <3>1, <3>2 DEF Cools
    <3>4. CASE now' < hard_reject_until_ns_'[o.token]
          BY <3>3, <3>4 DEF Cools, Watched
    <3>5. CASE ~(now' < hard_reject_until_ns_'[o.token])
      <4>1. now' >= o.at + Cooldown
            BY <3>1, <3>2, <3>3, <3>5
      <4> QED BY <3>2, <3>3, <4>1 DEF Cools, Watched
    <3> QED BY <3>4, <3>5
  <2>2. \A o \in posting \cup Pending : o.at <= now'
        BY <1>1, OrdersAre
  <2> QED BY <1>1, <2>1, <2>2 DEF CapInv, Clocks, Pending
<1>4. Apart'
      BY <1>1 DEF CapInv, Apart, Pending, Far
<1>5. Capped'
      BY <1>1 DEF CapInv, Capped, Pending, Fits, After
<1> QED BY <1>2, <1>3, <1>4, <1>5 DEF CapInv

(* The verdict on an open order.                                             *)
LEMMA VerdictKeeps == ASSUME CapInv, NEW o \in open, Confirm(o) \/ Die(o) PROVE CapInv'
<1>0. /\ UNCHANGED <<now, pc, posting, hard_reject_until_ns_, exposure, overdue>>
      /\ open' = open \ {o} /\ queue_' \subseteq queue_ \cup {o}
      BY DEF Confirm, Die, gates
<1>1. Pending' \subseteq Pending
      BY <1>0 DEF Pending
<1>2. Types'
      BY <1>0 DEF CapInv, Types
<1>3. Clocks'
      BY <1>0, <1>1 DEF CapInv, Clocks, Cools, Watched
<1>4. Apart'
      BY <1>0, <1>1 DEF CapInv, Apart, Far
<1>5. Capped'
      BY <1>0, <1>1 DEF CapInv, Capped, Fits, After
<1> QED BY <1>2, <1>3, <1>4, <1>5 DEF CapInv

(* A booking fits, and no other order of its token waits, unless overdue.    *)
LEMMA DrainKeeps == ASSUME CapInv, NEW o \in queue_, DrainUserFills(o) PROVE CapInv'
<1>0. /\ UNCHANGED <<now, pc, posting, hard_reject_until_ns_, open, overdue>>
      /\ queue_' = queue_ \ {o} /\ exposure' = Filled(exposure, o) /\ pc = "drain"
      BY DEF DrainUserFills, gates
<1>1. /\ o \in Order /\ o.token \in Tokens /\ Types /\ posting = {}
      /\ Pending' \subseteq Pending /\ o \in Pending /\ o \notin Pending'
      BY <1>0, OrdersAre DEF CapInv, Clocks, Apart, Pending
<1>2. /\ exposure' \in [Tokens -> Int] /\ exposure'[o.token] = After(o)
      /\ \A t \in Tokens : t # o.token => exposure'[t] = exposure[t]
      BY <1>0, <1>1, FilledShape
<1>3. Types'
      BY <1>0, <1>2 DEF CapInv, Types
<1>4. Clocks'
      BY <1>0, <1>1 DEF CapInv, Clocks, Cools, Watched
<1>5. Apart'
      BY <1>0, <1>1 DEF CapInv, Apart, Far
<1>6. Capped'
  <2> SUFFICES ASSUME per_outcome_cap_usdc > 0
               PROVE  /\ \A t \in Tokens \ overdue : exposure'[t] \in 0..per_outcome_cap_usdc
                      /\ \A p \in Pending' : p.token \notin overdue => Fits(p)'
      BY <1>0, <1>1 DEF Capped
  <2>1. \A t \in Tokens \ overdue : exposure'[t] \in 0..per_outcome_cap_usdc
        BY <1>1, <1>2 DEF CapInv, Capped, Fits
  <2>2. \A p \in Pending' :
          p.token \notin overdue => p \in Pending /\ p.token \in Tokens /\ p.token # o.token
        BY <1>1, OrdersAre DEF CapInv, Apart
  <2> QED BY <1>2, <2>1, <2>2 DEF CapInv, Capped, Fits, After
<1> QED BY <1>3, <1>4, <1>5, <1>6 DEF CapInv

(* Between two ticks nothing is posted.                                      *)
LEMMA TickKeeps == ASSUME CapInv, BeginDecide \/ EndTick PROVE CapInv'
<1>1. /\ UNCHANGED <<now, posting, hard_reject_until_ns_, exposure, open, queue_, overdue>>
      /\ pc # "posting" /\ pc' \in {"drain", "decide"}
      BY DEF BeginDecide, EndTick, gates
<1> QED BY <1>1 DEF CapInv, Types, Clocks, Cools, Watched, Apart, Far, Capped, Pending, Fits, After

(* An order that leaves fits, and its token has no other but overdue ones.   *)
LEMMA PostKeeps == ASSUME CapInv, NEW o \in Order, PostOrder(o) PROVE CapInv'
<1>0. /\ UNCHANGED <<now, hard_reject_until_ns_, exposure, open, queue_, overdue>>
      /\ pc = "decide" /\ pc' = "posting" /\ posting = {} /\ posting' = {o} /\ o.at = now
      /\ Pending' = Pending
      BY DEF PostOrder, gates, CapInv, Clocks, Pending
<1>1. /\ o.token \in Tokens /\ o.size \in Nat \ {0}
      /\ \/ o.side = "Buy"
         \/ o.side = "Sell"
      BY OrderShape
<1>2. /\ now \in Nat /\ hard_reject_until_ns_[o.token] \in Nat
      /\ exposure[o.token] \in Int /\ hard_reject_until_ns_[o.token] <= now
      BY <1>1 DEF CapInv, Types, PostOrder, MayOrder
<1>3. ASSUME NEW p \in Pending, p.token = o.token
      PROVE  p.token \in overdue /\ p.at + Cooldown <= now
  <2>1. p.at \in Nat /\ Cooldown \in Nat /\ Cools(p) /\ Watched(p)
        BY OrdersAre, CooldownIs DEF CapInv, Clocks
  <2> QED BY <2>1, <1>2, <1>3 DEF Cools, Watched
<1>4. ASSUME per_outcome_cap_usdc > 0, o.token \notin overdue PROVE Fits(o)
  <2>1. exposure[o.token] \in 0..per_outcome_cap_usdc
        BY <1>1, <1>4 DEF CapInv, Capped
  <2>2. CASE o.side = "Sell"
    <3>1. o.size <= exposure[o.token]
          BY <2>2 DEF PostOrder
    <3> QED BY <2>1, <2>2, <3>1, <1>1, CooldownIs DEF Fits, After
  <2>3. CASE o.side = "Buy"
    <3>1. ~RM!OutcomeCapHit(o)
          BY DEF PostOrder, Approved, RM!PositionCapHit
    <3>2. exposure[o.token] + o.size <= per_outcome_cap_usdc
          BY <3>1, <2>1, <2>3, <1>1, <1>4, CooldownIs
          DEF RM!OutcomeCapHit, RM!Grows, RM!Magnitude, RM!Delta
    <3> QED BY <2>1, <2>3, <3>2, <1>1, CooldownIs DEF Fits, After
  <2> QED BY <2>2, <2>3, <1>1
<1>5. Types'
      BY <1>0 DEF CapInv, Types
<1>6. Clocks'
  <2>1. \A p \in {o} \cup Pending : p.at <= now
        BY <1>0, <1>2, OrdersAre
  <2> QED BY <1>0, <1>3, <2>1 DEF CapInv, Clocks, Cools, Watched
<1>7. Apart'
      BY <1>0 DEF CapInv, Apart, Far
<1>8. Capped'
      BY <1>0, <1>4 DEF CapInv, Capped, Fits, After
<1> QED BY <1>5, <1>6, <1>7, <1>8 DEF CapInv

(* A matched order is booked at once.  The cooldown it clears belonged to no *)
(* other order but overdue ones.                                             *)
LEMMA MatchedKeeps == ASSUME CapInv, NEW o \in posting, AnswerMatched(o) PROVE CapInv'
<1>0. /\ UNCHANGED <<now, open, queue_, overdue>>
      /\ exposure' = Filled(exposure, o) /\ pc = "posting" /\ pc' = "decide" /\ posting' = {}
      /\ hard_reject_until_ns_' = [hard_reject_until_ns_ EXCEPT ![o.token] = 0]
      /\ Pending' = Pending
      BY DEF AnswerMatched, Answered, Pending
<1>1. o \in Order /\ o.token \in Tokens /\ Types /\ o.at \in Nat /\ now \in Nat /\ o.at <= now
      BY OrdersAre DEF CapInv
<1>2. /\ exposure' \in [Tokens -> Int] /\ exposure'[o.token] = After(o)
      /\ \A t \in Tokens : t # o.token => exposure'[t] = exposure[t]
      BY <1>0, <1>1, FilledShape
<1>3. ASSUME NEW p \in Pending
      PROVE  /\ p.token = o.token => p.token \in overdue /\ p.at + Cooldown <= now
             /\ p.token # o.token =>
                  hard_reject_until_ns_'[p.token] = hard_reject_until_ns_[p.token]
  <2>1. p.at \in Nat /\ p.token \in Tokens /\ Cooldown \in Nat
        BY OrdersAre, CooldownIs
  <2>2. p.token = o.token => p.token \in overdue /\ p.at + Cooldown <= o.at
        BY DEF CapInv, Clocks
  <2>3. p.token # o.token =>
          hard_reject_until_ns_'[p.token] = hard_reject_until_ns_[p.token]
        BY <1>0, <2>1 DEF CapInv, Types
  <2> QED BY <1>1, <2>1, <2>2, <2>3
<1>4. Types'
      BY <1>0, <1>1, <1>2 DEF Types
<1>5. Clocks'
      BY <1>0, <1>3 DEF CapInv, Clocks, Cools, Watched
<1>6. Apart'
      BY <1>0 DEF CapInv, Apart, Far
<1>7. Capped'
  <2> SUFFICES ASSUME per_outcome_cap_usdc > 0
               PROVE  /\ \A t \in Tokens \ overdue : exposure'[t] \in 0..per_outcome_cap_usdc
                      /\ \A p \in Pending : p.token \notin overdue => Fits(p)'
      BY <1>0 DEF Capped
  <2>1. \A t \in Tokens \ overdue : exposure'[t] \in 0..per_outcome_cap_usdc
        BY <1>1, <1>2 DEF CapInv, Capped, Fits
  <2>2. \A p \in Pending : p.token \notin overdue => p.token \in Tokens /\ p.token # o.token
        BY <1>3, OrdersAre
  <2> QED BY <1>2, <2>1, <2>2 DEF CapInv, Capped, Fits, After
<1> QED BY <1>4, <1>5, <1>6, <1>7 DEF CapInv

(* An order that is not booked leaves a cooldown behind it, whatever the     *)
(* answer said.                                                              *)
LEMMA UnmatchedKeeps ==
  ASSUME CapInv, NEW o \in posting, AnswerRejected(o) \/ AnswerUnknown(o)
  PROVE  CapInv'
<1>0. /\ UNCHANGED <<now, exposure, queue_, overdue>>
      /\ pc = "posting" /\ pc' = "decide" /\ posting' = {}
      /\ open \subseteq open' /\ open' \subseteq open \cup {o} /\ Pending' \subseteq Pending \cup {o}
      BY DEF AnswerRejected, AnswerUnknown, Answered, Pending
<1>1. PICK cooldown \in {kHardRejectCooldownNs, kLivePendingConfirmCooldownNs} :
         hard_reject_until_ns_' = [hard_reject_until_ns_ EXCEPT ![o.token] = now + cooldown]
      BY DEF AnswerRejected, AnswerUnknown
<1>2. /\ o \in Order /\ Types /\ o.token \in Tokens /\ o.at \in Nat /\ now \in Nat /\ o.at <= now
      /\ cooldown \in Nat /\ Cooldown \in Nat /\ Cooldown > 0 /\ Cooldown <= cooldown
      BY OrdersAre, CooldownIs DEF CapInv
<1>3. /\ hard_reject_until_ns_' \in [Tokens -> Nat]
      /\ hard_reject_until_ns_'[o.token] = now + cooldown
      /\ \A t \in Tokens : t # o.token => hard_reject_until_ns_'[t] = hard_reject_until_ns_[t]
      BY <1>1, <1>2 DEF Types
<1>4. ASSUME NEW p \in Pending, p.token = o.token
      PROVE  p.token \in overdue /\ p.at + Cooldown <= now /\ p # o /\ p.at + Cooldown <= o.at
  <2>1. p.at \in Nat
        BY OrdersAre
  <2>2. p.token \in overdue /\ p.at + Cooldown <= o.at
        BY <1>4 DEF CapInv, Clocks
  <2>3. p.at # o.at
        BY <1>2, <2>1, <2>2
  <2> QED BY <1>2, <2>1, <2>2, <2>3
<1>5. Types'
      BY <1>0, <1>2, <1>3 DEF CapInv, Types
<1>6. Clocks'
  <2>1. ASSUME NEW p \in Pending' PROVE Cools(p)' /\ Watched(p)' /\ p.at <= now
    <3>1. CASE p.token = o.token /\ p \in Pending
          BY <1>0, <1>4, <3>1, OrdersAre DEF Cools, Watched
    <3>2. CASE p = o
      <4>1. o.at + Cooldown <= now + cooldown /\ now < now + cooldown
            BY <1>2
      <4> QED BY <1>0, <1>2, <1>3, <3>2, <4>1 DEF Cools, Watched
    <3>3. CASE p.token # o.token
      <4>1. p \in Pending /\ p.token \in Tokens /\ p.at <= now /\ Cools(p) /\ Watched(p)
            BY <1>0, <2>1, <3>3, OrdersAre DEF CapInv, Clocks
      <4>2. hard_reject_until_ns_'[p.token] = hard_reject_until_ns_[p.token]
            BY <1>3, <3>3, <4>1
      <4> QED BY <1>0, <4>1, <4>2 DEF Cools, Watched
    <3> QED BY <1>0, <2>1, <3>1, <3>2, <3>3
  <2> QED BY <1>0, <2>1 DEF Clocks
<1>7. Apart'
  <2>1. \A p \in open' : p \notin queue_
    <3>1. o \notin queue_
          BY <1>4 DEF Pending
    <3> QED BY <1>0, <3>1 DEF CapInv, Apart
  <2>2. ASSUME NEW o1 \in Pending', NEW o2 \in Pending', o1.token = o2.token, o1 # o2
        PROVE  Far(o1, o2) /\ o1.token \in overdue
    <3>1. CASE o1 = o
          BY <1>0, <1>4, <2>2, <3>1 DEF Far
    <3>2. CASE o2 = o
          BY <1>0, <1>4, <2>2, <3>2 DEF Far
    <3>3. CASE o1 # o /\ o2 # o
          BY <1>0, <2>2, <3>3 DEF CapInv, Apart
    <3> QED BY <3>1, <3>2, <3>3
  <2> QED BY <1>0, <2>1, <2>2 DEF Apart, Far
<1>8. Capped'
      BY <1>0 DEF CapInv, Capped, Fits, After
<1> QED BY <1>5, <1>6, <1>7, <1>8 DEF CapInv

(* Every step keeps the unbooked orders of a token apart.                    *)
LEMMA CapInvInductive == CapInv /\ [Next]_vars => CapInv'
<1> SUFFICES ASSUME CapInv, [Next]_vars PROVE CapInv'
    OBVIOUS
<1>1. CASE Advance
      BY <1>1, AdvanceKeeps
<1>2. CASE BeginDecide \/ EndTick
      BY <1>2, TickKeeps
<1>3. CASE \E o \in open : Confirm(o) \/ Die(o)
      BY <1>3, VerdictKeeps
<1>4. CASE \E o \in queue_ : DrainUserFills(o)
      BY <1>4, DrainKeeps
<1>5. CASE \E o \in posting : Answer(o)
      BY <1>5, MatchedKeeps, UnmatchedKeeps DEF Answer
<1>6. ASSUME NEW t \in Tokens, NEW side \in {"Buy", "Sell"}, NEW size \in Sizes,
             PostOrder([token |-> t, side |-> side, size |-> size, at |-> now])
      PROVE  CapInv'
  <2>1. [token |-> t, side |-> side, size |-> size, at |-> now] \in Order
        BY DEF Order, CapInv, Types
  <2> QED BY <2>1, <1>6, PostKeeps
<1>7. CASE UNCHANGED vars
  <2>1. UNCHANGED <<now, pc, posting, hard_reject_until_ns_, exposure, open, queue_, overdue>>
        BY <1>7 DEF vars, gates
  <2> QED BY <2>1 DEF CapInv, Types, Clocks, Cools, Watched, Apart, Far, Capped, Pending, Fits, After
<1> QED BY <1>1, <1>2, <1>3, <1>4, <1>5, <1>6, <1>7 DEF Next

(* At the start there are no orders.                                         *)
LEMMA InitCapInv == Init => CapInv
<1> SUFFICES ASSUME Init PROVE CapInv
    OBVIOUS
<1>1. Types
      BY DEF Init, Types
<1>2. Clocks /\ Apart
      BY DEF Init, Clocks, Apart, Pending
<1>3. Capped
      BY OrderFlowAssumption DEF Init, Capped, Pending
<1> QED BY <1>1, <1>2, <1>3 DEF CapInv

(* Two orders of a token the ledger knows nothing of are a whole cooldown    *)
(* apart (the cooldowns of ExecuteControllerSide), for any tokens, times and *)
(* caps, and however late answers and verdicts come.                         *)
THEOREM SpecUnbookedApart == Spec => []UnbookedApart
<1>1. CapInv => UnbookedApart
  <2> SUFFICES ASSUME CapInv, NEW o1 \in Unbooked, NEW o2 \in Unbooked, o1.token = o2.token,
                      o1 # o2
               PROVE  Far(o1, o2)
      BY DEF UnbookedApart, Far
  <2>1. CASE o1 \in posting /\ o2 \in posting
        BY <2>1 DEF CapInv, Apart
  <2>2. ASSUME NEW o \in posting, NEW p \in Pending, p.token = o.token
        PROVE  p.at + Cooldown <= o.at
        BY <2>2 DEF CapInv, Clocks
  <2>3. CASE o1 \in Pending /\ o2 \in Pending
        BY <2>3 DEF CapInv, Apart
  <2>4. CASE o1 \in posting /\ o2 \in Pending
        BY <2>2, <2>4 DEF Far
  <2>5. CASE o1 \in Pending /\ o2 \in posting
        BY <2>2, <2>5 DEF Far
  <2> QED BY <2>1, <2>3, <2>4, <2>5 DEF Unbooked, Pending
<1>2. CapInv /\ [Next]_vars => CapInv'
      BY CapInvInductive
<1> QED BY <1>1, <1>2, InitCapInv, PTL DEF Spec

(* A token stays within per_outcome_cap_usdc on the exchange, even when the  *)
(* order nobody has booked turns out matched, until an order of it stays     *)
(* unbooked for a whole cooldown.                                            *)
THEOREM SpecTokenCapOnChain == Spec => []TokenCapOnChain
<1>1. CapInv => TokenCapOnChain
  <2> SUFFICES ASSUME CapInv, per_outcome_cap_usdc > 0, NEW t \in Tokens \ overdue
               PROVE  /\ exposure[t] \in 0..per_outcome_cap_usdc
                      /\ \A o \in Unbooked :
                           o.token = t => Filled(exposure, o)[t] \in 0..per_outcome_cap_usdc
      BY DEF TokenCapOnChain
  <2>1. exposure[t] \in 0..per_outcome_cap_usdc
        BY DEF CapInv, Capped
  <2>2. ASSUME NEW o \in Unbooked, o.token = t
        PROVE  Filled(exposure, o)[t] \in 0..per_outcome_cap_usdc
    <3>1. o \in posting \cup Pending
          BY DEF Unbooked, Pending
    <3>2. o \in Order /\ Fits(o) /\ Types
          BY <2>2, <3>1, OrdersAre DEF CapInv, Capped
    <3> QED BY <2>2, <3>2, FilledShape DEF Fits
  <2> QED BY <2>1, <2>2
<1>2. CapInv /\ [Next]_vars => CapInv'
      BY CapInvInductive
<1> QED BY <1>1, <1>2, InitCapInv, PTL DEF Spec

-----------------------------------------------------------------------------
(* What is left of the type invariant.                                       *)

GateTypes == live_token_next_ok_ns_ \in [Tokens -> Nat] /\ live_storm_halt_ \in BOOLEAN

(* Every step keeps the types of the pause and the halt.                     *)
LEMMA GateTypesKept == StormInv /\ GateTypes /\ [Next]_vars => GateTypes'
<1> SUFFICES ASSUME StormInv, GateTypes, [Next]_vars PROVE GateTypes'
    OBVIOUS
<1>1. ASSUME NEW o, Answered(o) PROVE GateTypes'
  <2>1. now + kLiveTokenSerializeNs \in Nat
        BY OrderFlowAssumption DEF StormInv, StormTypes
  <2>2. live_token_next_ok_ns_' \in [Tokens -> Nat]
        BY <1>1, <2>1 DEF Answered, GateTypes
  <2>3. live_storm_halt_' \in BOOLEAN
        BY <1>1 DEF Answered
  <2> QED BY <2>2, <2>3 DEF GateTypes
<1>2. CASE \E o \in posting : Answer(o)
      BY <1>1, <1>2 DEF Answer, AnswerMatched, AnswerRejected, AnswerUnknown
<1>3. CASE UNCHANGED gates
      BY <1>3 DEF gates, GateTypes
<1>4. CASE Advance \/ BeginDecide \/ EndTick
      BY <1>3, <1>4 DEF Advance, BeginDecide, EndTick
<1>5. CASE \E o \in open : Confirm(o) \/ Die(o)
      BY <1>3, <1>5 DEF Confirm, Die
<1>6. CASE \E o \in queue_ : DrainUserFills(o)
      BY <1>3, <1>6 DEF DrainUserFills
<1>7. ASSUME NEW o, PostOrder(o) PROVE GateTypes'
      BY <1>3, <1>7 DEF PostOrder
<1>8. CASE UNCHANGED vars
      BY <1>3, <1>8 DEF vars
<1> QED BY <1>2, <1>4, <1>5, <1>6, <1>7, <1>8 DEF Next

(* Neither is set at the start.                                              *)
LEMMA InitGateTypes == Init => GateTypes
<1>1. Init => live_storm_halt_ \in BOOLEAN
      BY DEF Init
<1>2. Init => live_token_next_ok_ns_ \in [Tokens -> Nat]
      BY DEF Init
<1> QED BY <1>1, <1>2, Zenon DEF GateTypes

(* The order path keeps its types, whatever the exchange answers and when.   *)
THEOREM SpecTypeOK == Spec => []TypeOK
<1>1. CapInv /\ StormInv /\ GateTypes => TypeOK
      BY DEF CapInv, Types, StormInv, StormTypes, GateTypes, TypeOK
<1>2. CapInv /\ [Next]_vars => CapInv'
      BY CapInvInductive
<1> QED BY <1>1, <1>2, InitCapInv, InitStormInv, InitGateTypes, StormInvInductive, GateTypesKept, PTL DEF Spec

-----------------------------------------------------------------------------
(* Discovery.                                                               *)
CONSTANTS
  Catalog, Now, kPageSize, kHardScanCap, kEmptyPageStop, MaxEvents,
  MaxListings, MaxDelistings, MaxFailures
VARIABLES
  listing, offset, kept, seen, empty_streak, why, stayed, slid, listings, delistings, failures
DI == INSTANCE Discovery

(* What lies beyond the last page read, and of it what was seen already:    *)
(* there is no more of that than was listed meanwhile.                      *)
Beyond(k) == {listing[j] : j \in k + 1..Len(listing)}
SeenAgain == Beyond(offset) \cap seen

Scanning ==
  /\ Len(kept) < MaxEvents /\ offset < kHardScanCap /\ empty_streak < kEmptyPageStop
  /\ \A k \in 1..Len(listing) :
       listing[k] \in stayed \ slid /\ DI!Parsed(listing[k]) /\ listing[k] \notin seen => k > offset
  /\ Cardinality(SeenAgain) <= listings

DiscoveryInv ==
  /\ DI!TypeOK /\ DI!KeptOnce
  /\ \A e \in seen : DI!in_window(e) => e \in DI!ToSet(kept)
  /\ why = "scanning" => Scanning
  /\ DI!NothingMissed

LEMMA DiscoveryConstants ==
  ASSUME DI!DiscoveryAssumption
  PROVE  /\ kPageSize \in Nat \ {0} /\ kHardScanCap \in Nat \ {0} /\ kEmptyPageStop \in Nat \ {0}
         /\ MaxEvents \in Nat \ {0}
         /\ MaxListings \in Nat /\ MaxDelistings \in Nat /\ MaxFailures \in Nat
         /\ IsFiniteSet(DOMAIN Catalog) /\ Cardinality(DOMAIN Catalog) \in Nat
         /\ MaxListings + Cardinality({e \in DOMAIN Catalog : ~DI!Parsed(e)}) < kPageSize
         /\ \A S : DI!Cardinality(S) = Cardinality(S)
  <1>1. \A S : DI!Cardinality(S) = Cardinality(S)
        BY DEF Cardinality, DI!Cardinality
  <1>2. IsFiniteSet(DOMAIN Catalog)
        BY DEF DI!DiscoveryAssumption, DI!IsFiniteSet, IsFiniteSet
  <1>3. Cardinality(DOMAIN Catalog) \in Nat
        BY <1>2, FS_CardinalityType
  <1> QED BY <1>1, <1>2, <1>3 DEF DI!DiscoveryAssumption

(* An element more, and one less, in a sequence.                            *)
HasBetween(S, s, i, e, r) ==
  /\ r \in Seq(S) /\ Len(r) = Len(s) + 1
  /\ \A k \in 1..Len(s) + 1 : r[k] = IF k < i THEN s[k] ELSE IF k = i THEN e ELSE s[k - 1]

LEMMA Inserted ==
  ASSUME NEW S, NEW s \in Seq(S), NEW i \in 1..Len(s) + 1, NEW e \in S
  PROVE  HasBetween(S, s, i, e, DI!InsertAt(s, i, e))
  <1> DEFINE a == SubSeq(s, 1, i - 1)
             b == SubSeq(s, i, Len(s))
             ab == a \o <<e>>
  <1>1. Len(s) \in Nat /\ \A k \in 1..Len(s) : s[k] \in S
        BY LenProperties
  <1>2. a \in Seq(S) /\ Len(a) = i - 1 /\ \A k \in 1..i - 1 : a[k] = s[k]
        BY <1>1, SubSeqProperties
  <1>3. b \in Seq(S) /\ Len(b) = Len(s) + 1 - i /\ \A k \in 1..Len(s) + 1 - i : b[k] = s[i + k - 1]
        BY <1>1, SubSeqProperties
  <1>4. <<e>> \in Seq(S) /\ Len(<<e>>) = 1 /\ <<e>>[1] = e
        OBVIOUS
  <1> HIDE DEF a, b
  <1>5. ab \in Seq(S) /\ Len(ab) = i /\ \A k \in 1..i : ab[k] = IF k < i THEN s[k] ELSE e
        BY <1>1, <1>2, <1>4, ConcatProperties
  <1> HIDE DEF ab
  <1>6. /\ ab \o b \in Seq(S) /\ Len(ab \o b) = Len(s) + 1
        /\ \A k \in 1..Len(s) + 1 :
             (ab \o b)[k] = IF k < i THEN s[k] ELSE IF k = i THEN e ELSE s[k - 1]
        <2>1. /\ ab \o b \in Seq(S) /\ Len(ab \o b) = Len(ab) + Len(b)
              /\ \A k \in 1..Len(ab) + Len(b) :
                   (ab \o b)[k] = IF k <= Len(ab) THEN ab[k] ELSE b[k - Len(ab)]
              BY <1>3, <1>5, ConcatProperties
        <2> QED BY <1>1, <1>3, <1>5, <2>1
  <1> QED BY <1>6 DEF DI!InsertAt, HasBetween, a, b, ab

LEMMA Removed ==
  ASSUME NEW S, NEW s \in Seq(S), NEW i \in 1..Len(s)
  PROVE  /\ DI!RemoveAt(s, i) \in Seq(S) /\ Len(DI!RemoveAt(s, i)) = Len(s) - 1
         /\ \A k \in 1..Len(s) - 1 :
              DI!RemoveAt(s, i)[k] = IF k < i THEN s[k] ELSE s[k + 1]
  <1> DEFINE a == SubSeq(s, 1, i - 1)
             b == SubSeq(s, i + 1, Len(s))
  <1>1. Len(s) \in Nat /\ \A k \in 1..Len(s) : s[k] \in S
        BY LenProperties
  <1>2. a \in Seq(S) /\ Len(a) = i - 1 /\ \A k \in 1..i - 1 : a[k] = s[k]
        BY <1>1, SubSeqProperties
  <1>3. b \in Seq(S) /\ Len(b) = Len(s) - i /\ \A k \in 1..Len(s) - i : b[k] = s[i + k]
        BY <1>1, SubSeqProperties
  <1> HIDE DEF a, b
  <1>4. /\ a \o b \in Seq(S) /\ Len(a \o b) = Len(a) + Len(b)
        /\ \A k \in 1..Len(a) + Len(b) :
             (a \o b)[k] = IF k <= Len(a) THEN a[k] ELSE b[k - Len(a)]
        BY <1>2, <1>3, ConcatProperties
  <1>5. /\ a \o b \in Seq(S) /\ Len(a \o b) = Len(s) - 1
        /\ \A k \in 1..Len(s) - 1 : (a \o b)[k] = IF k < i THEN s[k] ELSE s[k + 1]
        <2>1. /\ Len(a) + Len(b) = Len(s) - 1
              /\ \A k \in 1..Len(s) - 1 : (a \o b)[k] = IF k < i THEN a[k] ELSE b[k - (i - 1)]
              BY <1>1, <1>2, <1>3, <1>4, SMTT(30)
        <2>2. ASSUME NEW k \in 1..Len(s) - 1, k >= i
              PROVE  b[k - (i - 1)] = s[k + 1]
              <3>1. k - (i - 1) \in 1..Len(s) - i
                    BY <1>1, <2>2
              <3>2. b[k - (i - 1)] = s[i + (k - (i - 1))]
                    BY <1>3, <3>1
              <3>3. i + (k - (i - 1)) = k + 1
                    BY <2>2
              <3> QED BY <3>2, <3>3
        <2> QED BY <1>1, <1>2, <1>4, <2>1, <2>2
  <1> QED BY <1>5 DEF DI!RemoveAt, a, b

(* Where a page ends.                                                       *)
LEMMA PageEndIs ==
  ASSUME DI!DiscoveryAssumption, listing \in Seq(DOMAIN Catalog), offset \in Nat
  PROVE  /\ DI!PageEnd \in Nat /\ Len(listing) \in Nat
         /\ DI!PageEnd <= Len(listing) /\ DI!PageEnd <= offset + kPageSize
         /\ DI!PageEnd = Len(listing) \/ DI!PageEnd = offset + kPageSize
  <1>1. Len(listing) \in Nat /\ kPageSize \in Nat
        BY LenProperties DEF DI!DiscoveryAssumption
  <1> DEFINE T == {Len(listing), offset + kPageSize}
  <1>2. \E x \in T : \A y \in T : x <= y
        BY <1>1
  <1>3. DI!PageEnd \in T /\ \A y \in T : DI!PageEnd <= y
        BY <1>2 DEF DI!PageEnd, DI!Least
  <1> QED BY <1>1, <1>3

LEMMA DiscoveryInit ==
  ASSUME DI!DiscoveryAssumption, DI!Init
  PROVE  DiscoveryInv
  <1>1. listing \in Seq(DOMAIN Catalog) /\ DI!IsInjective(listing)
        <2> DEFINE lists == {[1..m -> DOMAIN Catalog] : m \in 0..Cardinality(DOMAIN Catalog)}
        <2>0. listing \in UNION lists
              <3>1. listing \in DI!SeqOf(DOMAIN Catalog, Cardinality(DOMAIN Catalog))
                    BY DiscoveryConstants DEF DI!Init
              <3> QED BY <3>1 DEF DI!SeqOf
        <2>1. PICK m \in 0..Cardinality(DOMAIN Catalog) : listing \in [1..m -> DOMAIN Catalog]
              BY <2>0
        <2>2. m \in Nat
              BY DiscoveryConstants
        <2> QED BY <2>1, <2>2 DEF DI!Init
  <1>2. /\ kHardScanCap \in Nat \ {0} /\ kEmptyPageStop \in Nat \ {0} /\ MaxEvents \in Nat \ {0}
        /\ MaxListings \in Nat /\ MaxDelistings \in Nat /\ MaxFailures \in Nat
        BY DiscoveryConstants
  <1>3. Len(kept) = 0 /\ kept \in Seq(seen) /\ DI!ToSet(kept) = {} /\ DI!KeptOnce
        BY DEF DI!Init, DI!ToSet, DI!KeptOnce, DI!IsInjective
  <1>4. DI!TypeOK
        BY <1>1, <1>2, <1>3 DEF DI!TypeOK, DI!Init
  <1>5. Scanning
        <2>1. SeenAgain = {}
              BY DEF SeenAgain, DI!Init
        <2>2. Cardinality(SeenAgain) = 0
              BY <2>1, FS_EmptySet
        <2>3. Len(listing) \in Nat
              BY <1>1, LenProperties
        <2> QED BY <1>2, <1>3, <2>2, <2>3 DEF Scanning, DI!Init
  <1> QED BY <1>3, <1>4, <1>5 DEF DiscoveryInv, DI!Init, DI!NothingMissed

(* A listing in front of what was read pushes one event of it out again, a  *)
(* listing beyond may be of an event that was seen.                         *)
LEMMA ListsKeeps ==
  ASSUME DI!DiscoveryAssumption, DiscoveryInv,
         NEW e \in DOMAIN Catalog, NEW i \in 1..Len(listing) + 1, DI!Lists(e, i)
  PROVE  DiscoveryInv'
  <1> DEFINE new == DI!InsertAt(listing, i, e)
  <1>1. /\ listing \in Seq(DOMAIN Catalog) /\ Len(listing) \in Nat /\ offset \in Nat
        /\ DOMAIN listing = 1..Len(listing) /\ e \notin {listing[k] : k \in 1..Len(listing)}
        /\ \A j, k \in 1..Len(listing) : listing[j] = listing[k] => j = k
        /\ listings \in Nat /\ listings < MaxListings /\ MaxListings \in Nat /\ why = "scanning"
        <2>1. listing \in Seq(DOMAIN Catalog)
              BY DEF DiscoveryInv, DI!TypeOK
        <2>2. DOMAIN listing = 1..Len(listing) /\ Len(listing) \in Nat
              BY <2>1, LenProperties
        <2>3. /\ offset \in Nat /\ DI!IsInjective(listing) /\ listings \in Nat /\ MaxListings \in Nat
              BY DEF DiscoveryInv, DI!TypeOK, DI!DiscoveryAssumption
        <2>4. e \notin DI!ToSet(listing) /\ listings < MaxListings /\ why = "scanning"
              BY DEF DI!Lists
        <2> QED BY <2>1, <2>2, <2>3, <2>4 DEF DI!IsInjective, DI!ToSet
  <1>2. /\ new \in Seq(DOMAIN Catalog) /\ Len(new) = Len(listing) + 1
        /\ \A k \in 1..Len(listing) + 1 :
             new[k] = IF k < i THEN listing[k] ELSE IF k = i THEN e ELSE listing[k - 1]
        <2>1. HasBetween(DOMAIN Catalog, listing, i, e, DI!InsertAt(listing, i, e))
              BY <1>1, Inserted
        <2> QED BY <2>1 DEF HasBetween
  <1> HIDE DEF new
  <1>3. listing' = new
        BY DEF new, DI!Lists
  <1>4. DOMAIN new = 1..Len(listing) + 1
        BY <1>2, LenProperties
  <1>5. DI!IsInjective(new)
        <2> SUFFICES ASSUME NEW j \in 1..Len(listing) + 1, NEW k \in 1..Len(listing) + 1, new[j] = new[k]
                     PROVE  j = k
            BY <1>4 DEF DI!IsInjective
        <2> QED BY <1>1, <1>2
  <1>6. DI!ToSet(listing) \subseteq DI!ToSet(new)
        <2> SUFFICES ASSUME NEW k \in 1..Len(listing)
                     PROVE  \E j \in 1..Len(listing) + 1 : new[j] = listing[k]
            BY <1>1, <1>4 DEF DI!ToSet
        <2>1. CASE k < i
              BY <1>1, <1>2, <2>1
        <2>2. CASE k >= i
              <3>1. new[k + 1] = listing[k] /\ k + 1 \in 1..Len(listing) + 1
                    BY <1>1, <1>2, <2>2
              <3> QED BY <3>1
        <2> QED BY <1>1, <2>1, <2>2
  <1>7. DI!TypeOK'
        <2>1. DI!TypeOK /\ UNCHANGED <<offset, kept, seen, empty_streak, why, failures, stayed, slid, delistings>>
              /\ listings' = listings + 1
              BY DEF DiscoveryInv, DI!Lists, DI!round
        <2> QED BY <1>1, <1>2, <1>3, <1>5, <1>6, <2>1 DEF DI!TypeOK
  <1>8. Scanning'
        <2>1. Scanning /\ UNCHANGED <<offset, kept, seen, empty_streak, stayed, slid>> /\ listings' = listings + 1
              BY <1>1 DEF DiscoveryInv, DI!Lists, DI!round
        <2>2. ASSUME NEW k \in 1..Len(new), new[k] \in stayed \ slid, DI!Parsed(new[k]), new[k] \notin seen
              PROVE  k > offset
              <3>1. new[k] # e
                    BY <1>1, <2>2 DEF DiscoveryInv, DI!TypeOK, DI!ToSet
              <3>2. PICK j \in 1..Len(listing) : new[k] = listing[j] /\ j <= k
                    BY <1>1, <1>2, <3>1, SMTT(30)
              <3> QED BY <1>1, <1>2, <2>1, <2>2, <3>2 DEF Scanning
        <2>3. PICK x : SeenAgain' \subseteq SeenAgain \cup {x}
              <3> DEFINE x == IF i <= offset THEN listing[offset] ELSE e
              <3>1. \A y \in SeenAgain' : y \in SeenAgain \cup {x}
                    <4> SUFFICES ASSUME NEW k \in offset + 1..Len(listing) + 1, new[k] \in seen, new[k] # x
                                 PROVE  new[k] \in SeenAgain
                        BY <1>2, <1>3, <2>1, SMTT(30) DEF SeenAgain, Beyond
                    <4>1. \E j \in offset + 1..Len(listing) : new[k] = listing[j]
                          <5>1. CASE k < i
                                BY <1>1, <1>2, <5>1
                          <5>2. CASE k >= i
                                <6>1. k # i
                                      BY <1>1, <1>2, <5>2
                                <6>2. new[k] = listing[k - 1]
                                      BY <1>1, <1>2, <5>2, <6>1
                                <6>3. k - 1 # offset
                                      BY <1>1, <5>2, <6>1, <6>2
                                <6> QED BY <1>1, <6>2, <6>3
                          <5> QED BY <1>1, <5>1, <5>2
                    <4> QED BY <4>1 DEF SeenAgain, Beyond
              <3> QED BY <3>1
        <2>4. IsFiniteSet(SeenAgain)
              <3>1. IsFiniteSet(DOMAIN Catalog)
                    BY DiscoveryConstants
              <3>2. seen \subseteq DOMAIN Catalog
                    BY DEF DiscoveryInv, DI!TypeOK
              <3>3. SeenAgain \in SUBSET DOMAIN Catalog
                    BY <3>2 DEF SeenAgain
              <3> QED BY <3>1, <3>3, FS_Subset
        <2>5. Cardinality(SeenAgain \cup {x}) <= Cardinality(SeenAgain) + 1 /\ IsFiniteSet(SeenAgain \cup {x})
              <3>1. Cardinality(SeenAgain) \in Nat
                    BY <2>4, FS_CardinalityType
              <3>2. /\ IsFiniteSet(SeenAgain \cup {x})
                    /\ Cardinality(SeenAgain \cup {x})
                         = IF x \in SeenAgain THEN Cardinality(SeenAgain) ELSE Cardinality(SeenAgain) + 1
                    BY <2>4, FS_AddElement
              <3> QED BY <3>1, <3>2
        <2>6. Cardinality(SeenAgain') <= Cardinality(SeenAgain) + 1
              BY <2>3, <2>4, <2>5, FS_Subset, FS_CardinalityType
        <2>7. Cardinality(SeenAgain') <= listings + 1
              BY <1>1, <2>1, <2>4, <2>5, <2>6, <2>3, FS_Subset, FS_CardinalityType DEF Scanning
        <2> QED BY <1>3, <2>1, <2>2, <2>7 DEF Scanning
  <1> QED BY <1>1, <1>7, <1>8 DEF DiscoveryInv, DI!Lists, DI!round, DI!KeptOnce, DI!NothingMissed

(* What is taken off lets those after it slid, and no others.               *)
LEMMA DelistsKeeps ==
  ASSUME DI!DiscoveryAssumption, DiscoveryInv, NEW i \in DOMAIN listing, DI!Delists(i)
  PROVE  DiscoveryInv'
  <1> DEFINE new == DI!RemoveAt(listing, i)
  <1>1. /\ listing \in Seq(DOMAIN Catalog) /\ Len(listing) \in Nat /\ offset \in Nat
        /\ DOMAIN listing = 1..Len(listing) /\ \A k \in 1..Len(listing) : listing[k] \in DOMAIN Catalog
        /\ \A j, k \in 1..Len(listing) : listing[j] = listing[k] => j = k
        /\ why = "scanning" /\ i \in 1..Len(listing)
        <2>1. listing \in Seq(DOMAIN Catalog)
              BY DEF DiscoveryInv, DI!TypeOK
        <2>2. DOMAIN listing = 1..Len(listing) /\ Len(listing) \in Nat
              BY <2>1, LenProperties
        <2>3. \A k \in 1..Len(listing) : listing[k] \in DOMAIN Catalog
              BY <2>1, ElementOfSeq
        <2> QED BY <2>1, <2>2, <2>3, SMTT(30) DEF DiscoveryInv, DI!TypeOK, DI!Delists, DI!IsInjective
  <1>2. /\ new \in Seq(DOMAIN Catalog) /\ Len(new) = Len(listing) - 1
        /\ \A k \in 1..Len(listing) - 1 : new[k] = IF k < i THEN listing[k] ELSE listing[k + 1]
        BY <1>1, Removed
  <1> HIDE DEF new
  <1>3. /\ listing' = new /\ delistings' = delistings + 1 /\ delistings < MaxDelistings
        /\ stayed' = stayed \ {listing[i]}
        /\ slid' = slid \cup {listing[j] : j \in i + 1..Len(listing)}
        /\ UNCHANGED <<listings, offset, kept, seen, empty_streak, why, failures>>
        BY DEF new, DI!Delists, DI!round
  <1>4. DOMAIN new = 1..Len(listing) - 1
        BY <1>2, LenProperties
  <1>5. DI!IsInjective(new)
        <2> SUFFICES ASSUME NEW j \in 1..Len(listing) - 1, NEW k \in 1..Len(listing) - 1, new[j] = new[k]
                     PROVE  j = k
            BY <1>4 DEF DI!IsInjective
        <2> QED BY <1>1, <1>2
  <1>6. ASSUME NEW k \in 1..Len(listing), k # i
        PROVE  listing[k] \in DI!ToSet(new)
        <2>1. CASE k < i
              <3>1. k \in 1..Len(listing) - 1 /\ new[k] = listing[k]
                    BY <1>1, <1>2, <2>1
              <3> QED BY <1>4, <3>1 DEF DI!ToSet
        <2>2. CASE k > i
              <3>1. k - 1 \in 1..Len(listing) - 1 /\ new[k - 1] = listing[k]
                    BY <1>1, <1>2, <2>2
              <3> QED BY <1>4, <3>1 DEF DI!ToSet
        <2> QED BY <1>1, <1>6, <2>1, <2>2
  <1>7. DI!TypeOK'
        <2>1. DI!TypeOK /\ MaxDelistings \in Nat
              BY DiscoveryConstants DEF DiscoveryInv
        <2>2. stayed' \subseteq DI!ToSet(new)
              BY <1>1, <1>3, <1>6, <2>1 DEF DI!TypeOK, DI!ToSet
        <2>3. slid' \subseteq DOMAIN Catalog
              BY <1>1, <1>3, <2>1, SMTT(30) DEF DI!TypeOK
        <2> QED BY <1>2, <1>3, <1>5, <2>1, <2>2, <2>3, SMTT(30) DEF DI!TypeOK
  <1>8. Scanning'
        <2>1. Scanning
              BY <1>1 DEF DiscoveryInv
        <2>2. ASSUME NEW k \in 1..Len(new), new[k] \in stayed' \ slid', DI!Parsed(new[k]), new[k] \notin seen
              PROVE  k > offset
              <3>1. k < i
                    <4>1. SUFFICES ASSUME k >= i PROVE FALSE
                          BY <1>1
                    <4>2. new[k] = listing[k + 1] /\ k + 1 \in i + 1..Len(listing)
                          BY <1>1, <1>2, <4>1
                    <4> QED BY <1>3, <2>2, <4>2
              <3>2. new[k] = listing[k] /\ k \in 1..Len(listing)
                    BY <1>1, <1>2, <3>1
              <3> QED BY <1>3, <2>1, <2>2, <3>2 DEF Scanning
        <2>3. SeenAgain' \in SUBSET SeenAgain
              <3> SUFFICES ASSUME NEW k \in offset + 1..Len(listing) - 1, new[k] \in seen
                           PROVE  new[k] \in Beyond(offset)
                  BY <1>2, <1>3 DEF SeenAgain, Beyond
              <3>1. \E j \in offset + 1..Len(listing) : new[k] = listing[j]
                    BY <1>1, <1>2
              <3> QED BY <3>1 DEF Beyond
        <2>4. IsFiniteSet(SeenAgain)
              <3>1. IsFiniteSet(DOMAIN Catalog)
                    BY DiscoveryConstants
              <3>2. seen \subseteq DOMAIN Catalog
                    BY DEF DiscoveryInv, DI!TypeOK
              <3>3. SeenAgain \in SUBSET DOMAIN Catalog
                    BY <3>2 DEF SeenAgain
              <3> QED BY <3>1, <3>3, FS_Subset
        <2>5. Cardinality(SeenAgain') <= Cardinality(SeenAgain) /\ IsFiniteSet(SeenAgain')
              BY <2>3, <2>4, FS_Subset
        <2>6. Cardinality(SeenAgain') \in Nat /\ Cardinality(SeenAgain) \in Nat
              BY <2>4, <2>5, FS_CardinalityType
        <2>7. Cardinality(SeenAgain) <= listings /\ listings \in Nat
              BY <2>1 DEF Scanning, DiscoveryInv, DI!TypeOK
        <2>8. Cardinality(SeenAgain') <= listings
              BY <2>5, <2>6, <2>7
        <2> QED BY <1>3, <2>1, <2>2, <2>8 DEF Scanning
  <1>9. why' = "scanning"
        BY <1>1, <1>3
  <1> QED BY <1>3, <1>7, <1>8, <1>9 DEF DiscoveryInv, DI!KeptOnce, DI!NothingMissed

(* A round that ends with an empty page.                                    *)
LEMMA BlankPageKeeps ==
  ASSUME DI!DiscoveryAssumption, DiscoveryInv, NEW ok \in BOOLEAN, DI!Page(ok),
         failures' \in 0..MaxFailures, DI!ParseSportsEvents(DI!FetchGammaEvents(ok)) = {}
  PROVE  DiscoveryInv'
  <1>1. /\ UNCHANGED <<listing, stayed, slid, listings, delistings, offset, kept, seen, empty_streak>>
        /\ why = "scanning" /\ why' = IF ~ok THEN "failed" ELSE IF offset < Len(listing) THEN "blank" ELSE "end"
        BY DEF DI!Page, DI!exchange
  <1>2. DI!TypeOK' /\ DI!KeptOnce'
        BY <1>1 DEF DiscoveryInv, DI!TypeOK, DI!KeptOnce
  <1>3. ASSUME why' = "end", NEW e \in stayed \ slid, DI!Parsed(e), DI!in_window(e)
        PROVE  e \in DI!ToSet(kept)
        <2>1. listing \in Seq(DOMAIN Catalog) /\ stayed \subseteq DI!ToSet(listing) /\ Scanning /\ offset \in Nat
              BY <1>1 DEF DiscoveryInv, DI!TypeOK
        <2>2. DOMAIN listing = 1..Len(listing) /\ Len(listing) \in Nat
              BY <2>1, LenProperties
        <2>3. PICK k \in 1..Len(listing) : e = listing[k]
              BY <1>3, <2>1, <2>2 DEF DI!ToSet
        <2>4. Len(listing) <= offset
              BY <1>1, <1>3, <2>1, <2>2
        <2>5. e \in seen
              BY <1>3, <2>1, <2>2, <2>3, <2>4 DEF Scanning
        <2> QED BY <1>3, <2>5 DEF DiscoveryInv
  <1>4. why' \notin {"scanning", "nothing_new"}
        BY <1>1
  <1> QED BY <1>1, <1>2, <1>3, <1>4 DEF DiscoveryInv, DI!NothingMissed

(* The places of a page, those that are new, and those of the window.       *)
LEMMA PlacesAre ==
  ASSUME DI!DiscoveryAssumption, DiscoveryInv, NEW upto \in Nat,
         NEW page, page = DI!ParseSportsEvents(DI!FetchGammaEvents(TRUE))
  PROVE  /\ \A k : k \in page <=> k \in offset + 1..DI!PageEnd /\ DI!Parsed(listing[k])
         /\ \A k : k \in DI!New(page, upto) <=> k \in page /\ k <= upto /\ listing[k] \notin seen
         /\ \A k : k \in DI!Inside(page, upto) <=>
                     k \in DI!New(page, upto) /\ DI!in_window(listing[k])
         /\ page \subseteq offset + 1..DI!PageEnd
         /\ IsFiniteSet(DI!New(page, upto)) /\ IsFiniteSet(DI!Inside(page, upto))
  <1>1. \A k : k \in page <=> k \in offset + 1..DI!PageEnd /\ DI!Parsed(listing[k])
        BY DEF DI!ParseSportsEvents, DI!FetchGammaEvents
  <1>2. \A k : k \in DI!New(page, upto) <=> k \in page /\ k <= upto /\ listing[k] \notin seen
        BY DEF DI!New
  <1>3. \A k : k \in DI!Inside(page, upto) <=> k \in DI!New(page, upto) /\ DI!in_window(listing[k])
        BY DEF DI!Inside
  <1>4. IsFiniteSet(offset + 1..DI!PageEnd)
        <2>1. listing \in Seq(DOMAIN Catalog) /\ offset \in Nat
              BY DEF DiscoveryInv, DI!TypeOK
        <2> QED BY <2>1, PageEndIs, FS_Interval
  <1>5. /\ DI!New(page, upto) \in SUBSET (offset + 1..DI!PageEnd)
        /\ DI!Inside(page, upto) \in SUBSET (offset + 1..DI!PageEnd)
        BY <1>1, <1>2, <1>3
  <1> QED BY <1>1, <1>2, <1>3, <1>4, <1>5, FS_Subset

(* What a scan adds: the new events of the window, each once.               *)
Adds(more, page, upto) ==
  /\ more \in Seq(seen \cup {listing[k] : k \in DI!New(page, upto)})
  /\ Len(more) = Cardinality(DI!Inside(page, upto)) /\ DI!IsInjective(more)
  /\ \A i \in 1..Len(more) : more[i] \notin seen
  /\ \A k \in DI!Inside(page, upto) : \E i \in 1..Len(more) : more[i] = listing[k]

LEMMA ScanAdds ==
  ASSUME DI!DiscoveryAssumption, DiscoveryInv, NEW upto \in Nat,
         NEW page, page = DI!ParseSportsEvents(DI!FetchGammaEvents(TRUE)),
         NEW s \in DI!InOrder(DI!Inside(page, upto))
  PROVE  Adds([i \in 1..DI!Cardinality(DI!Inside(page, upto)) |-> listing[s[i]]], page, upto)
  <1> DEFINE I == DI!Inside(page, upto)
             n == Cardinality(I)
             more == [i \in 1..n |-> listing[s[i]]]
  <1>1. /\ \A k \in I : k \in DI!New(page, upto) /\ k \in offset + 1..DI!PageEnd /\ listing[k] \notin seen
        /\ IsFiniteSet(I)
        BY PlacesAre
  <1>2. n \in Nat /\ DI!Cardinality(I) = n
        BY <1>1, FS_CardinalityType, DiscoveryConstants
  <1>3. /\ s \in [1..n -> I] /\ {s[i] : i \in 1..n} = I
        /\ \A i, j \in 1..n : i < j => s[i] < s[j]
        <2>1. /\ s \in [1..n -> I] /\ DI!Range(s) = I
              /\ \A i, j \in 1..n : i < j => s[i] < s[j]
              BY <1>2 DEF DI!InOrder
        <2> QED BY <2>1 DEF DI!Range
  <1>4. /\ listing \in Seq(DOMAIN Catalog) /\ offset \in Nat /\ DI!PageEnd \in Nat
        /\ DI!PageEnd <= Len(listing) /\ Len(listing) \in Nat
        /\ \A j, k \in 1..Len(listing) : listing[j] = listing[k] => j = k
        <2>1. listing \in Seq(DOMAIN Catalog) /\ offset \in Nat /\ DI!IsInjective(listing)
              BY DEF DiscoveryInv, DI!TypeOK
        <2>2. DOMAIN listing = 1..Len(listing)
              BY <2>1, LenProperties
        <2> QED BY <2>1, <2>2, PageEndIs DEF DI!IsInjective
  <1> HIDE DEF I, n
  <1>5. /\ more \in Seq(seen \cup {listing[k] : k \in DI!New(page, upto)})
        /\ Len(more) = n /\ DOMAIN more = 1..n
        <2>1. \A i \in 1..n : listing[s[i]] \in seen \cup {listing[k] : k \in DI!New(page, upto)}
              BY <1>1, <1>3
        <2> DEFINE T == seen \cup {listing[k] : k \in DI!New(page, upto)}
        <2>2. \A i \in 1..n : more[i] \in T
              BY <2>1
        <2> HIDE DEF T
        <2>3. more \in Seq(T) /\ Len(more) = n /\ DOMAIN more = 1..n
              BY <1>2, <2>2
        <2> QED BY <2>3 DEF T
  <1>6. DI!IsInjective(more)
        <2> SUFFICES ASSUME NEW i \in 1..n, NEW j \in 1..n, more[i] = more[j] PROVE i = j
            BY <1>5 DEF DI!IsInjective
        <2>0. \A k \in I : k \in 1..Len(listing)
              <3> SUFFICES ASSUME NEW k \in I PROVE k \in 1..Len(listing)
                  OBVIOUS
              <3>1. k \in offset + 1..DI!PageEnd
                    BY <1>1
              <3>2. offset \in Nat /\ DI!PageEnd \in Nat /\ DI!PageEnd <= Len(listing) /\ Len(listing) \in Nat
                    BY <1>4
              <3> QED BY <3>1, <3>2
        <2>1. s[i] \in 1..Len(listing) /\ s[j] \in 1..Len(listing)
              BY <1>3, <2>0
        <2>2. s[i] = s[j]
              BY <1>4, <2>1
        <2>3. ~(i < j) /\ ~(j < i)
              BY <1>3, <2>1, <2>2
        <2> QED BY <1>2, <2>3
  <1>7. \A i \in 1..n : more[i] \notin seen
        BY <1>1, <1>3
  <1>8. \A k \in I : \E i \in 1..n : more[i] = listing[k]
        BY <1>3
  <1>9. /\ Len(more) = Cardinality(I)
        /\ \A i \in 1..Len(more) : more[i] \notin seen
        /\ \A k \in I : \E i \in 1..Len(more) : more[i] = listing[k]
        BY <1>5, <1>7, <1>8 DEF n
  <1>10. more = [i \in 1..DI!Cardinality(I) |-> listing[s[i]]]
         BY <1>2
  <1> HIDE DEF more
  <1>11. Adds(more, page, upto)
         BY <1>5, <1>6, <1>9 DEF Adds, I
  <1> QED BY <1>10, <1>11 DEF I

(* A page that was scanned.                                                 *)
Scans(page, upto, more) ==
  /\ upto \in offset + 1..DI!PageEnd /\ Adds(more, page, upto)
  /\ \/ Len(kept) + Len(more) = MaxEvents /\ upto \in DI!Inside(page, upto)
     \/ Len(kept) + Len(more) < MaxEvents /\ upto = DI!PageEnd
  /\ seen' = seen \cup {listing[k] : k \in DI!New(page, upto)} /\ kept' = kept \o more
  /\ \/ why' = "nothing_new" /\ DI!New(page, upto) = {} /\ offset' = offset
        /\ empty_streak' \in {0, empty_streak + 1}
     \/ why' \in {"streak", "cap", "full"} /\ offset' = offset
        /\ empty_streak' \in {0, empty_streak + 1}
     \/ /\ why' = "scanning" /\ offset' = offset + kPageSize /\ offset + kPageSize < kHardScanCap
        /\ Len(kept') < MaxEvents
        /\ empty_streak' \in {0, empty_streak + 1} /\ empty_streak' < kEmptyPageStop
  /\ UNCHANGED <<listing, stayed, slid, listings, delistings>>

LEMMA PageScans ==
  ASSUME DI!DiscoveryAssumption, DiscoveryInv, NEW ok \in BOOLEAN, DI!Page(ok),
         DI!ParseSportsEvents(DI!FetchGammaEvents(ok)) # {}
  PROVE  \E page, upto, more :
           page = DI!ParseSportsEvents(DI!FetchGammaEvents(TRUE)) /\ Scans(page, upto, more)
  <1>1. ok = TRUE
        BY DEF DI!ParseSportsEvents, DI!FetchGammaEvents
  <1>2. PICK page : page = DI!ParseSportsEvents(DI!FetchGammaEvents(TRUE))
        OBVIOUS
  <1>3. PICK r \in DI!ScanPage(page) : DI!ScanOn(r)
        BY <1>1, <1>2 DEF DI!Page
  <1>4. PICK upto \in offset + 1..DI!PageEnd : DI!Stops(page, upto) /\ r \in DI!ScanTo(page, upto)
        BY <1>3 DEF DI!ScanPage
  <1>5. upto \in Nat /\ offset \in Nat
        <2>1. listing \in Seq(DOMAIN Catalog) /\ offset \in Nat
              BY DEF DiscoveryInv, DI!TypeOK
        <2> QED BY <1>4, <2>1, PageEndIs
  <1> DEFINE more(s) == [i \in 1..DI!Cardinality(DI!Inside(page, upto)) |-> listing[s[i]]]
  <1>6. PICK s \in DI!InOrder(DI!Inside(page, upto)) :
          r = [seen |-> seen \cup {listing[k] : k \in DI!New(page, upto)},
               new |-> DI!Cardinality(DI!New(page, upto)),
               inside |-> DI!Cardinality(DI!Inside(page, upto)), kept |-> kept \o more(s)]
        BY <1>4 DEF DI!ScanTo
  <1>7. PICK m : m = more(s)
        OBVIOUS
  <1>8. Adds(m, page, upto)
        BY <1>2, <1>5, <1>6, <1>7, ScanAdds
  <1>9. /\ r.seen = seen \cup {listing[k] : k \in DI!New(page, upto)} /\ r.kept = kept \o m
        /\ r.new = DI!Cardinality(DI!New(page, upto))
        BY <1>6, <1>7
  <1>10. /\ \/ Len(kept) + Len(m) = MaxEvents /\ upto \in DI!Inside(page, upto)
            \/ Len(kept) + Len(m) < MaxEvents /\ upto = DI!PageEnd
        BY <1>4, <1>8, DiscoveryConstants DEF DI!Stops, Adds
  <1>11. /\ \/ why' = "nothing_new" /\ DI!New(page, upto) = {} /\ offset' = offset
               /\ empty_streak' \in {0, empty_streak + 1}
            \/ why' \in {"streak", "cap", "full"} /\ offset' = offset
               /\ empty_streak' \in {0, empty_streak + 1}
            \/ /\ why' = "scanning" /\ offset' = offset + kPageSize /\ offset + kPageSize < kHardScanCap
               /\ Len(kept') < MaxEvents
               /\ empty_streak' \in {0, empty_streak + 1} /\ empty_streak' < kEmptyPageStop
        <2>1. /\ kept' = r.kept /\ why' = DI!After(r) /\ empty_streak' = DI!Streak(r)
              /\ offset' = IF why' = "scanning" THEN offset + kPageSize ELSE offset
              BY <1>3 DEF DI!ScanOn
        <2>2. DI!Streak(r) \in {0, empty_streak + 1}
              BY DEF DI!Streak
        <2>3. CASE DI!NothingNew(r)
              <3>1. DI!New(page, upto) = {}
                    <4>1. IsFiniteSet(DI!New(page, upto))
                          BY <1>2, <1>5, PlacesAre
                    <4>2. Cardinality(DI!New(page, upto)) = 0
                          BY <1>9, <2>3, DiscoveryConstants DEF DI!NothingNew
                    <4> QED BY <4>1, <4>2, FS_EmptySet
              <3>2. why' = "nothing_new"
                    BY <2>1, <2>3 DEF DI!After
              <3> QED BY <2>1, <2>2, <3>1, <3>2
        <2>4. CASE ~DI!NothingNew(r)
              <3>1. empty_streak \in Nat /\ kEmptyPageStop \in Nat /\ kHardScanCap \in Nat /\ kPageSize \in Nat
                    /\ MaxEvents \in Nat
                    BY DiscoveryConstants DEF DiscoveryInv, DI!TypeOK
              <3>2. Len(r.kept) \in Nat
                    <4>1. kept \in Seq(seen \cup {listing[k] : k \in DI!New(page, upto)})
                          BY DEF DiscoveryInv, DI!TypeOK
                    <4>2. m \in Seq(seen \cup {listing[k] : k \in DI!New(page, upto)})
                          BY <1>8 DEF Adds
                    <4> QED BY <1>9, <4>1, <4>2, ConcatProperties, LenProperties
              <3>3. CASE DI!Streak(r) >= kEmptyPageStop
                    <4>1. why' = "streak"
                          BY <2>1, <2>4, <3>3 DEF DI!After
                    <4> QED BY <2>1, <2>2, <4>1
              <3>4. CASE ~(DI!Streak(r) >= kEmptyPageStop) /\ offset + kPageSize >= kHardScanCap
                    <4>1. why' = "cap"
                          BY <2>1, <2>4, <3>4 DEF DI!After
                    <4> QED BY <2>1, <2>2, <4>1
              <3>5. CASE ~(DI!Streak(r) >= kEmptyPageStop) /\ ~(offset + kPageSize >= kHardScanCap)
                         /\ Len(r.kept) >= MaxEvents
                    <4>1. why' = "full"
                          BY <2>1, <2>4, <3>5 DEF DI!After
                    <4> QED BY <2>1, <2>2, <4>1
              <3>6. CASE ~(DI!Streak(r) >= kEmptyPageStop) /\ ~(offset + kPageSize >= kHardScanCap)
                         /\ ~(Len(r.kept) >= MaxEvents)
                    <4>1. why' = "scanning"
                          BY <2>1, <2>4, <3>6 DEF DI!After
                    <4> QED BY <1>5, <2>1, <2>2, <3>1, <3>2, <3>6, <4>1
              <3> QED BY <3>3, <3>4, <3>5, <3>6
        <2> QED BY <2>3, <2>4
  <1>12. Scans(page, upto, m)
        BY <1>3, <1>4, <1>8, <1>9, <1>10, <1>11 DEF Scans, DI!ScanOn, DI!Page, DI!exchange
  <1> QED BY <1>2, <1>12

(* What is kept stays in its place, and no event is kept a second time.     *)
LEMMA KeptGrows ==
  ASSUME DI!DiscoveryAssumption, DiscoveryInv, NEW upto \in Nat,
         NEW page, page = DI!ParseSportsEvents(DI!FetchGammaEvents(TRUE)),
         NEW more, Scans(page, upto, more)
  PROVE  /\ kept' \in Seq(seen') /\ Len(kept') = Len(kept) + Len(more) /\ Len(more) \in Nat
         /\ DI!KeptOnce' /\ seen \subseteq seen'
         /\ \A e \in seen' : DI!in_window(e) => e \in DI!ToSet(kept')
  <1> DEFINE S == seen \cup {listing[k] : k \in DI!New(page, upto)}
  <1>1. /\ kept \in Seq(S) /\ more \in Seq(S) /\ kept' = kept \o more /\ seen' = S
        /\ DI!IsInjective(more) /\ DI!IsInjective(kept) /\ kept \in Seq(seen)
        /\ \A i \in 1..Len(more) : more[i] \notin seen
        /\ \A k \in DI!Inside(page, upto) : \E i \in 1..Len(more) : more[i] = listing[k]
        <2>1. kept \in Seq(seen) /\ DI!IsInjective(kept)
              BY DEF DiscoveryInv, DI!TypeOK, DI!KeptOnce
        <2>2. Adds(more, page, upto) /\ kept' = kept \o more /\ seen' = S
              BY DEF Scans
        <2>3. more \in Seq(S) /\ DI!IsInjective(more)
              BY <2>2 DEF Adds
        <2>4. /\ \A i \in 1..Len(more) : more[i] \notin seen
              /\ \A k \in DI!Inside(page, upto) : \E i \in 1..Len(more) : more[i] = listing[k]
              BY <2>2 DEF Adds
        <2>5. kept \in Seq(S)
              <3>1. kept \in [1..Len(kept) -> seen] /\ Len(kept) \in Nat
                    BY <2>1, LenProperties
              <3>2. kept \in [1..Len(kept) -> S]
                    BY <3>1
              <3> HIDE DEF S
              <3> QED BY <3>1, <3>2
        <2> HIDE DEF S
        <2> QED BY <2>1, <2>2, <2>3, <2>4, <2>5
  <1>2. /\ \A k \in DI!New(page, upto) : DI!in_window(listing[k]) => k \in DI!Inside(page, upto)
        /\ seen \subseteq S
        BY PlacesAre
  <1>3. \A e \in S : e \in seen \/ \E k \in DI!New(page, upto) : e = listing[k]
        OBVIOUS
  <1> HIDE DEF S
  <1>4. /\ Len(kept) \in Nat /\ Len(more) \in Nat
        /\ DOMAIN kept = 1..Len(kept) /\ DOMAIN more = 1..Len(more)
        /\ \A i \in 1..Len(kept) : kept[i] \in seen
        BY <1>1, LenProperties, ElementOfSeq
  <1>5. /\ kept' \in Seq(S) /\ Len(kept') = Len(kept) + Len(more)
        /\ \A i \in 1..Len(kept) + Len(more) :
             kept'[i] = IF i <= Len(kept) THEN kept[i] ELSE more[i - Len(kept)]
        BY <1>1, ConcatProperties
  <1>6. DOMAIN kept' = 1..Len(kept) + Len(more)
        BY <1>5, LenProperties
  <1>7. DI!KeptOnce'
        <2> SUFFICES ASSUME NEW i \in 1..Len(kept) + Len(more), NEW j \in 1..Len(kept) + Len(more),
                            kept'[i] = kept'[j]
                     PROVE  i = j
            BY <1>6 DEF DI!KeptOnce, DI!IsInjective
        <2>1. CASE i <= Len(kept) /\ j <= Len(kept)
              <3>1. i \in DOMAIN kept /\ j \in DOMAIN kept /\ kept[i] = kept[j]
                    BY <1>4, <1>5, <2>1
              <3> QED BY <1>1, <3>1 DEF DI!IsInjective
        <2>2. CASE i > Len(kept) /\ j > Len(kept)
              <3>1. /\ i - Len(kept) \in DOMAIN more /\ j - Len(kept) \in DOMAIN more
                    /\ more[i - Len(kept)] = more[j - Len(kept)]
                    BY <1>4, <1>5, <2>2
              <3>2. i - Len(kept) = j - Len(kept)
                    BY <1>1, <3>1 DEF DI!IsInjective
              <3> QED BY <1>4, <3>2
        <2>3. ASSUME NEW a \in 1..Len(kept) + Len(more), NEW b \in 1..Len(kept) + Len(more),
                     a <= Len(kept), b > Len(kept)
              PROVE  kept'[a] # kept'[b]
              <3>1. kept'[a] \in seen
                    BY <1>4, <1>5, <2>3
              <3>2. kept'[b] = more[b - Len(kept)] /\ b - Len(kept) \in 1..Len(more)
                    BY <1>4, <1>5, <2>3
              <3> QED BY <1>1, <3>1, <3>2
        <2> QED BY <1>4, <2>1, <2>2, <2>3
  <1>8. ASSUME NEW e \in S, DI!in_window(e) PROVE e \in DI!ToSet(kept')
        <2>1. CASE e \in seen
              <3>1. e \in DI!ToSet(kept)
                    BY <1>8, <2>1 DEF DiscoveryInv
              <3>2. PICK i \in 1..Len(kept) : e = kept[i]
                    BY <1>4, <3>1 DEF DI!ToSet
              <3>3. kept'[i] = e /\ i \in DOMAIN kept'
                    BY <1>4, <1>5, <1>6, <3>2
              <3> QED BY <3>3 DEF DI!ToSet
        <2>2. CASE e \notin seen
              <3>1. PICK k \in DI!New(page, upto) : e = listing[k]
                    BY <1>3, <2>2
              <3>2. PICK i \in 1..Len(more) : more[i] = e
                    BY <1>1, <1>2, <1>8, <3>1
              <3>3. i + Len(kept) \in 1..Len(kept) + Len(more) /\ ~(i + Len(kept) <= Len(kept))
                    /\ (i + Len(kept)) - Len(kept) = i
                    BY <1>4
              <3>4. kept'[i + Len(kept)] = e /\ i + Len(kept) \in DOMAIN kept'
                    BY <1>5, <1>6, <3>2, <3>3
              <3> QED BY <3>4 DEF DI!ToSet
        <2> QED BY <2>1, <2>2
  <1> QED BY <1>1, <1>2, <1>4, <1>5, <1>7, <1>8

(* A full page on which nothing is new holds only what was seen before and  *)
(* is still beyond the offset, or cannot be parsed: less than a page.       *)
LEMMA FullPageShowsNew ==
  ASSUME DI!DiscoveryAssumption, DiscoveryInv, why = "scanning",
         NEW page, page = DI!ParseSportsEvents(DI!FetchGammaEvents(TRUE)),
         \A k \in page : listing[k] \in seen
  PROVE  DI!PageEnd = Len(listing)
  <1> SUFFICES ASSUME DI!PageEnd # Len(listing) PROVE FALSE
      OBVIOUS
  <1> DEFINE P == offset + 1..DI!PageEnd
             odd == {e \in DOMAIN Catalog : ~DI!Parsed(e)}
             T == SeenAgain \cup odd
             f == [j \in P |-> listing[j]]
  <1>1. /\ listing \in Seq(DOMAIN Catalog) /\ offset \in Nat /\ Len(listing) \in Nat
        /\ DI!PageEnd = offset + kPageSize /\ DI!PageEnd <= Len(listing) /\ kPageSize \in Nat \ {0}
        <2>1. listing \in Seq(DOMAIN Catalog) /\ offset \in Nat
              BY DEF DiscoveryInv, DI!TypeOK
        <2> QED BY <2>1, PageEndIs, DiscoveryConstants
  <1>2. IsFiniteSet(P) /\ Cardinality(P) = kPageSize
        <2>1. offset + 1 \in Int /\ DI!PageEnd \in Int
              BY <1>1
        <2>2. /\ IsFiniteSet(P)
              /\ Cardinality(P) = IF offset + 1 > DI!PageEnd THEN 0 ELSE DI!PageEnd - (offset + 1) + 1
              BY <2>1, FS_Interval
        <2> QED BY <1>1, <2>2
  <1>3. /\ DOMAIN listing = 1..Len(listing)
        /\ \A j \in 1..Len(listing) : listing[j] \in DOMAIN Catalog
        BY <1>1, LenProperties, ElementOfSeq
  <1>4. \A j, k \in 1..Len(listing) : listing[j] = listing[k] => j = k
        BY <1>3 DEF DiscoveryInv, DI!TypeOK, DI!IsInjective
  <1>5. IsFiniteSet(T) /\ Cardinality(T) < kPageSize
        <2>1. /\ IsFiniteSet(DOMAIN Catalog) /\ MaxListings \in Nat
              /\ MaxListings + Cardinality(odd) < kPageSize
              BY DiscoveryConstants
        <2>2. seen \subseteq DOMAIN Catalog /\ Cardinality(SeenAgain) <= listings /\ listings \in 0..MaxListings
              BY DEF DiscoveryInv, DI!TypeOK, Scanning
        <2>3. SeenAgain \in SUBSET DOMAIN Catalog /\ odd \in SUBSET DOMAIN Catalog
              BY <2>2 DEF SeenAgain
        <2>4. IsFiniteSet(SeenAgain) /\ IsFiniteSet(odd)
              BY <2>1, <2>3, FS_Subset
        <2> HIDE DEF odd
        <2>5. /\ IsFiniteSet(T) /\ Cardinality(T)
                   = Cardinality(SeenAgain) + Cardinality(odd) - Cardinality(SeenAgain \cap odd)
              BY <2>4, FS_Union
        <2>6. IsFiniteSet(SeenAgain \cap odd)
              BY <2>4, FS_Intersection
        <2>7. /\ Cardinality(SeenAgain) \in Nat /\ Cardinality(odd) \in Nat
              /\ Cardinality(SeenAgain \cap odd) \in Nat
              BY <2>4, <2>6, FS_CardinalityType
        <2> QED BY <1>1, <2>1, <2>2, <2>5, <2>7
  <1>6. ASSUME NEW j \in P PROVE listing[j] \in T /\ j \in 1..Len(listing)
        <2>1. j \in 1..Len(listing) /\ j \in offset + 1..Len(listing)
              BY <1>1
        <2>2. CASE DI!Parsed(listing[j])
              <3>1. j \in page
                    BY <2>2 DEF DI!ParseSportsEvents, DI!FetchGammaEvents
              <3>2. listing[j] \in SeenAgain
                    BY <2>1, <3>1 DEF SeenAgain, Beyond
              <3> QED BY <2>1, <3>2
        <2>3. CASE ~DI!Parsed(listing[j])
              BY <1>3, <2>1, <2>3
        <2> QED BY <2>2, <2>3
  <1> HIDE DEF P, T
  <1>7. f \in Injection(P, T)
        <2>1. f \in [P -> T]
              BY <1>6
        <2>2. \A a, b \in P : f[a] = f[b] => a = b
              BY <1>4, <1>6
        <2> QED BY <2>1, <2>2 DEF Injection, IsInjective
  <1> HIDE DEF f
  <1>8. Cardinality(P) <= Cardinality(T)
        BY <1>5, <1>7, FS_Injection
  <1>9. Cardinality(T) \in Nat
        BY <1>5, FS_CardinalityType
  <1> QED BY <1>1, <1>2, <1>5, <1>8, <1>9

(* A page that was scanned to its end leaves nothing behind, and a round    *)
(* that ends for want of new events has shown the listing to its end.       *)
LEMMA ScanKeeps ==
  ASSUME DI!DiscoveryAssumption, DiscoveryInv, why = "scanning", NEW upto \in Nat,
         NEW page, page = DI!ParseSportsEvents(DI!FetchGammaEvents(TRUE)),
         NEW more, Scans(page, upto, more), failures' \in 0..MaxFailures
  PROVE  DiscoveryInv'
  <1>1. /\ kept' \in Seq(seen') /\ Len(kept') = Len(kept) + Len(more) /\ Len(more) \in Nat
        /\ DI!KeptOnce' /\ seen \subseteq seen'
        /\ \A e \in seen' : DI!in_window(e) => e \in DI!ToSet(kept')
        BY KeptGrows
  <1>2. /\ listing \in Seq(DOMAIN Catalog) /\ DI!IsInjective(listing) /\ stayed \subseteq DI!ToSet(listing)
        /\ offset \in Nat /\ offset < kHardScanCap /\ empty_streak \in Nat /\ empty_streak < kEmptyPageStop
        /\ seen \subseteq DOMAIN Catalog /\ Len(kept) < MaxEvents
        /\ Cardinality(SeenAgain) <= listings /\ listings \in Nat
        BY DEF DiscoveryInv, DI!TypeOK, Scanning
  <1>3. /\ Len(listing) \in Nat /\ DOMAIN listing = 1..Len(listing)
        /\ \A k \in 1..Len(listing) : listing[k] \in DOMAIN Catalog
        /\ \A j, k \in 1..Len(listing) : listing[j] = listing[k] => j = k
        <2>1. Len(listing) \in Nat /\ DOMAIN listing = 1..Len(listing)
              BY <1>2, LenProperties
        <2>2. \A k \in 1..Len(listing) : listing[k] \in DOMAIN Catalog
              BY <1>2, ElementOfSeq
        <2> QED BY <1>2, <2>1, <2>2 DEF DI!IsInjective
  <1>4. /\ DI!PageEnd \in Nat /\ DI!PageEnd <= Len(listing) /\ DI!PageEnd <= offset + kPageSize
        /\ DI!PageEnd = Len(listing) \/ DI!PageEnd = offset + kPageSize
        /\ kPageSize \in Nat /\ kHardScanCap \in Nat /\ kEmptyPageStop \in Nat /\ MaxEvents \in Nat
        BY <1>2, PageEndIs, DiscoveryConstants, SMTT(30)
  <1> DEFINE n == Len(listing)
             e0 == DI!PageEnd
             have == Len(kept)
             adds == Len(more)
  <1>0. /\ offset \in Nat /\ offset < kHardScanCap /\ n \in Nat /\ e0 \in Nat /\ e0 <= n
        /\ e0 <= offset + kPageSize /\ (e0 = n \/ e0 = offset + kPageSize)
        /\ kPageSize \in Nat /\ kHardScanCap \in Nat /\ MaxEvents \in Nat
        /\ have \in Nat /\ have < MaxEvents /\ adds \in Nat /\ Len(kept') = have + adds
        <2>1. Len(kept) \in Nat
              BY LenProperties DEF DiscoveryInv, DI!TypeOK
        <2> QED BY <1>1, <1>2, <1>3, <1>4, <2>1
  <1> HIDE DEF n, e0, have, adds
  <1>5. /\ \A k : k \in page <=> k \in offset + 1..DI!PageEnd /\ DI!Parsed(listing[k])
        /\ \A k : k \in DI!New(page, upto) <=> k \in page /\ k <= upto /\ listing[k] \notin seen
        BY PlacesAre
  <1>6. \A k \in DI!New(page, upto) : k \in 1..Len(listing) /\ k <= offset + kPageSize
        <2> SUFFICES ASSUME NEW k \in DI!New(page, upto)
                     PROVE  k \in 1..Len(listing) /\ k <= offset + kPageSize
            OBVIOUS
        <2>1. k \in offset + 1..e0
              BY <1>5 DEF e0
        <2>2. k \in 1..n /\ k <= offset + kPageSize
              BY <1>0, <2>1
        <2> QED BY <2>2 DEF n
  <1>7. /\ seen' = seen \cup {listing[k] : k \in DI!New(page, upto)}
        /\ UNCHANGED <<listing, stayed, slid, listings, delistings>>
        /\ empty_streak' \in {0, empty_streak + 1}
        BY DEF Scans
  <1>8. DI!TypeOK'
        <2>1. Len(kept') <= MaxEvents
              <3>1. have + adds = MaxEvents \/ have + adds < MaxEvents
                    BY DEF Scans, have, adds
              <3> QED BY <1>0, <3>1
        <2>2. seen' \subseteq DOMAIN Catalog
              <3>1. \A k \in DI!New(page, upto) : listing[k] \in DOMAIN Catalog
                    BY <1>3, <1>6
              <3> QED BY <1>2, <1>7, <3>1
        <2>3. offset' \in 0..kHardScanCap
              <3>1. offset' = offset \/ (offset' = offset + kPageSize /\ offset + kPageSize < kHardScanCap)
                    BY DEF Scans
              <3> QED BY <1>0, <3>1
        <2>4. why' \in {"scanning", "nothing_new", "streak", "cap", "full", "failed", "blank", "end"}
              BY DEF Scans
        <2>5. empty_streak' \in 0..kEmptyPageStop
              BY <1>2, <1>4, <1>7
        <2> QED BY <1>1, <1>7, <2>1, <2>2, <2>3, <2>4, <2>5 DEF DiscoveryInv, DI!TypeOK
  <1>9. ASSUME why' = "scanning" PROVE Scanning'
        <2>1. /\ offset' = offset + kPageSize /\ offset + kPageSize < kHardScanCap
              /\ Len(kept') < MaxEvents /\ empty_streak' < kEmptyPageStop
              BY <1>9 DEF Scans
        <2>2. upto = DI!PageEnd
              <3>1. have + adds # MaxEvents
                    BY <1>0, <2>1
              <3> QED BY <3>1 DEF Scans, have, adds
        <2>3. ASSUME NEW k \in 1..Len(listing), listing[k] \in stayed \ slid,
                     DI!Parsed(listing[k]), listing[k] \notin seen'
              PROVE  k > offset + kPageSize
              <3>1. k > offset /\ listing[k] \notin seen
                    BY <1>7, <2>3 DEF DiscoveryInv, Scanning
              <3>2. SUFFICES ASSUME k <= offset + kPageSize PROVE FALSE
                    BY <1>2, <1>4
              <3>3. k \in offset + 1..DI!PageEnd /\ k <= upto
                    <4>1. k \in 1..n /\ k > offset
                          BY <3>1 DEF n
                    <4>2. k \in offset + 1..e0 /\ k <= e0
                          BY <1>0, <3>2, <4>1
                    <4> QED BY <2>2, <4>2 DEF e0
              <3>4. k \in DI!New(page, upto)
                    BY <1>5, <2>3, <3>1, <3>3
              <3> QED BY <1>7, <2>3, <3>4
        <2>4. SeenAgain' \in SUBSET SeenAgain
              <3> SUFFICES ASSUME NEW j \in (offset + kPageSize) + 1..Len(listing), listing[j] \in seen'
                           PROVE  listing[j] \in SeenAgain
                  BY <1>7, <2>1, ZenonT(60) DEF SeenAgain, Beyond
              <3>1. j \in 1..Len(listing) /\ j \in offset + 1..Len(listing) /\ j > offset + kPageSize
                    <4>1. Len(listing) \in Nat /\ offset \in Nat /\ kPageSize \in Nat
                          BY <1>2, <1>3, <1>4
                    <4> QED BY <4>1
              <3>2. listing[j] \in seen
                    <4>1. SUFFICES ASSUME NEW k \in DI!New(page, upto), listing[j] = listing[k] PROVE FALSE
                          BY <1>7
                    <4>2. k \in 1..Len(listing) /\ k <= offset + kPageSize
                          BY <1>6
                    <4>3. j = k
                          BY <1>3, <3>1, <4>1, <4>2
                    <4> QED BY <1>2, <1>4, <3>1, <4>2, <4>3
              <3> QED BY <3>1, <3>2 DEF SeenAgain, Beyond
        <2>5. IsFiniteSet(SeenAgain)
              <3>1. IsFiniteSet(DOMAIN Catalog)
                    BY DiscoveryConstants
              <3>2. SeenAgain \in SUBSET DOMAIN Catalog
                    BY <1>2 DEF SeenAgain
              <3> QED BY <3>1, <3>2, FS_Subset
        <2>6. Cardinality(SeenAgain') <= Cardinality(SeenAgain) /\ IsFiniteSet(SeenAgain')
              BY <2>4, <2>5, FS_Subset
        <2>7. Cardinality(SeenAgain') \in Nat /\ Cardinality(SeenAgain) \in Nat
              BY <2>5, <2>6, FS_CardinalityType
        <2>8. Cardinality(SeenAgain') <= listings
              BY <1>2, <2>6, <2>7
        <2> QED BY <1>7, <2>1, <2>3, <2>8 DEF Scanning
  <1>10. ASSUME why' = "nothing_new", NEW e \in stayed \ slid, DI!Parsed(e), DI!in_window(e)
         PROVE  e \in DI!ToSet(kept')
        <2>1. DI!New(page, upto) = {} /\ seen' = seen
              BY <1>7, <1>10 DEF Scans
        <2>2. upto = DI!PageEnd
              BY <2>1 DEF Scans, DI!Inside
        <2>3. \A k \in page : listing[k] \in seen
              <3> SUFFICES ASSUME NEW k \in page PROVE listing[k] \in seen
                  OBVIOUS
              <3>1. k \in offset + 1..DI!PageEnd
                    BY <1>5
              <3>2. k <= upto
                    BY <1>2, <1>4, <2>2, <3>1
              <3> QED BY <1>5, <2>1, <3>2
        <2>4. DI!PageEnd = Len(listing)
              BY <2>3, FullPageShowsNew
        <2>5. PICK k \in 1..Len(listing) : e = listing[k]
              BY <1>2, <1>3, <1>10 DEF DI!ToSet
        <2>6. e \in seen
              <3>1. SUFFICES ASSUME e \notin seen PROVE FALSE
                    OBVIOUS
              <3>2. k > offset
                    BY <1>10, <2>5, <3>1 DEF DiscoveryInv, Scanning
              <3>3. k \in offset + 1..DI!PageEnd
                    BY <1>2, <1>3, <2>4, <3>2
              <3>4. k \in page
                    BY <1>5, <1>10, <2>5, <3>3
              <3> QED BY <2>3, <2>5, <3>1, <3>4
        <2> QED BY <1>1, <1>10, <2>1, <2>6
  <1>11. why' # "end"
        BY DEF Scans
  <1> QED BY <1>1, <1>7, <1>8, <1>9, <1>10, <1>11 DEF DiscoveryInv, DI!NothingMissed

LEMMA PageKeeps ==
  ASSUME DI!DiscoveryAssumption, DiscoveryInv, NEW ok \in BOOLEAN, DI!Page(ok),
         ok \/ failures < MaxFailures
  PROVE  DiscoveryInv'
  <1>1. failures' \in 0..MaxFailures /\ why = "scanning"
        <2>1. failures \in 0..MaxFailures /\ MaxFailures \in Nat
              BY DiscoveryConstants DEF DiscoveryInv, DI!TypeOK
        <2> QED BY <2>1 DEF DI!Page
  <1>2. CASE DI!ParseSportsEvents(DI!FetchGammaEvents(ok)) = {}
        BY <1>1, <1>2, BlankPageKeeps
  <1>3. CASE DI!ParseSportsEvents(DI!FetchGammaEvents(ok)) # {}
        <2>1. PICK page, upto, more :
                page = DI!ParseSportsEvents(DI!FetchGammaEvents(TRUE)) /\ Scans(page, upto, more)
              BY <1>3, PageScans
        <2>2. upto \in Nat
              <3>1. listing \in Seq(DOMAIN Catalog) /\ offset \in Nat
                    BY DEF DiscoveryInv, DI!TypeOK
              <3>2. upto \in offset + 1..DI!PageEnd
                    BY <2>1 DEF Scans
              <3> QED BY <3>1, <3>2, PageEndIs
        <2> QED BY <1>1, <2>1, <2>2, ScanKeeps
  <1> QED BY <1>2, <1>3

(* However the listing changes while the round goes through it: no event is *)
(* kept twice, and a round that came to its end has every event of the      *)
(* window that was listed all the time, unless one before it was taken off  *)
(* (DiscoverSportsEvents).                                                  *)
THEOREM SpecDiscoveryHolds ==
  ASSUME DI!DiscoveryAssumption
  PROVE  DI!Spec => []DI!DiscoveryHolds
  <1>1. DI!Init => DiscoveryInv
        BY DiscoveryInit
  <1>2. DiscoveryInv /\ [DI!Next]_DI!vars => DiscoveryInv'
        <2> SUFFICES ASSUME DiscoveryInv, [DI!Next]_DI!vars PROVE DiscoveryInv'
            OBVIOUS
        <2>1. CASE DI!NextPage
              BY <2>1, PageKeeps DEF DI!NextPage
        <2>2. CASE DI!FailedPage
              BY <2>2, PageKeeps DEF DI!FailedPage
        <2>3. ASSUME NEW e \in DOMAIN Catalog, NEW i \in 1..Len(listing) + 1, DI!Lists(e, i)
              PROVE  DiscoveryInv'
              BY <2>3, ListsKeeps
        <2>4. ASSUME NEW i \in DOMAIN listing, DI!Delists(i) PROVE DiscoveryInv'
              BY <2>4, DelistsKeeps
        <2>5. CASE UNCHANGED DI!vars
              BY <2>5 DEF DI!vars, DI!exchange, DI!round, DiscoveryInv, DI!TypeOK, DI!KeptOnce,
                 Scanning, SeenAgain, Beyond, DI!NothingMissed
        <2> QED BY <2>1, <2>2, <2>3, <2>4, <2>5 DEF DI!Next
  <1>3. DiscoveryInv => DI!DiscoveryHolds
        BY DEF DiscoveryInv, DI!DiscoveryHolds
  <1> QED BY <1>1, <1>2, <1>3, PTL DEF DI!Spec

-----------------------------------------------------------------------------
(* Matching.                                                                *)
CONSTANTS Accented, OneLetterOff, Inputs, Games, Lookalikes, MaxListed
VARIABLES marketAsked, gamesListed
MA == INSTANCE Matching WITH market <- marketAsked, store <- gamesListed

(* How alike two names are is a number.                                     *)
LEMMA WordsFinite ==
  ASSUME NEW name \in Seq(STRING)
  PROVE  IsFiniteSet(MA!NormalizeTeamTokens(name))
  <1> DEFINE folded == MA!FoldDiacritics(name)
             words == MA!ToSet(folded)
  <1>1. DOMAIN folded = 1..Len(name) /\ Len(name) \in Nat
        BY LenProperties DEF MA!FoldDiacritics
  <1> HIDE DEF folded
  <1>2. IsFiniteSet(words)
        <2>1. words = {folded[i] : i \in 1..Len(name)}
              BY <1>1 DEF MA!ToSet
        <2>2. IsFiniteSet(1..Len(name))
              BY <1>1, FS_Interval
        <2> DEFINE f == [i \in 1..Len(name) |-> folded[i]]
        <2>3. f \in Surjection(1..Len(name), words)
              BY <2>1 DEF Surjection
        <2> HIDE DEF f
        <2> QED BY <2>2, <2>3, FS_Surjection
  <1> HIDE DEF words
  <1>3. IsFiniteSet(words \ MA!kStop)
        BY <1>2, FS_Difference
  <1> QED BY <1>2, <1>3 DEF MA!NormalizeTeamTokens, words, folded

(* The similarity of two names is a number.                                 *)
LEMMA SimilarityIsInt ==
  ASSUME NEW a \in Seq(STRING), NEW b \in Seq(STRING)
  PROVE  MA!TeamSimilarity(a, b) \in Int
  <1> DEFINE ta == MA!NormalizeTeamTokens(a)
             tb == MA!NormalizeTeamTokens(b)
  <1>1. IsFiniteSet(ta) /\ IsFiniteSet(tb)
        BY WordsFinite
  <1> HIDE DEF ta, tb
  <1>2. \A S : MA!Cardinality(S) = Cardinality(S)
        BY DEF Cardinality, MA!Cardinality
  <1>3. CASE ta = {} \/ tb = {}
        BY <1>3 DEF MA!TeamSimilarity, ta, tb
  <1>4. CASE ta # {} /\ tb # {}
        <2>1. Cardinality(ta) \in Nat \ {0} /\ Cardinality(tb) \in Nat \ {0}
              BY <1>1, <1>4, FS_CardinalityType, FS_EmptySet
        <2>2. Cardinality(ta \cap tb) \in Nat
              BY <1>1, FS_Intersection, FS_CardinalityType
        <2>3. MA!Weaker(Cardinality(ta), Cardinality(tb)) \in Nat \ {0}
              BY <2>1 DEF MA!Weaker
        <2>4. \A n \in Nat, d \in Nat \ {0} : (60 * n) \div d \in Int
              OBVIOUS
        <2>5. MA!TeamSimilarity(a, b) = (60 * Cardinality(ta \cap tb)) \div MA!Weaker(Cardinality(ta), Cardinality(tb))
              BY <1>2, <1>4 DEF MA!TeamSimilarity, MA!One, ta, tb
        <2> QED BY <2>2, <2>3, <2>4, <2>5
  <1> QED BY <1>3, <1>4

(* And so is that of two names of a sport.                                  *)
LEMMA PairSimIsInt ==
  ASSUME NEW sport, NEW a \in Seq(STRING), NEW b \in Seq(STRING)
  PROVE  MA!PairSim(sport, a, b) \in Int
  <1>1. MA!TeamSimilarity(a, b) \in Int
        BY SimilarityIsInt
  <1>0. MA!One \in Int /\ 0 \in Int
        BY DEF MA!One
  <1>2. MA!IndividualSim(a, b) \in Int
        BY <1>0, <1>1, Zenon DEF MA!IndividualSim
  <1>3. MA!TeamPairSim(MA!CanonicalTeam(sport, a), MA!CanonicalTeam(sport, b), a, b) \in Int
        BY <1>0, <1>1, Zenon DEF MA!TeamPairSim
  <1> QED BY <1>1, <1>2, <1>3 DEF MA!PairSim

(* A market with its teams turned round sees the same pairing the other way *)
(* round, and passes the same games: a game that is as good both ways round *)
(* passes neither way.                                                      *)
LEMMA TurnedPairing ==
  ASSUME NEW d0 \in Int, NEW d1 \in Int, NEW c0 \in Int, NEW c1 \in Int
  PROVE  LET p == MA!BothWays(d0, d1, c0, c1)
             q == MA!BothWays(c1, c0, d1, d0)
         IN  /\ q.direct = p.cross /\ q.cross = p.direct
             /\ MA!NamesAgree(q) = MA!NamesAgree(p) /\ MA!Ambiguous(q) = MA!Ambiguous(p)
             /\ MA!NamesAgree(p) /\ ~MA!Ambiguous(p) =>
                  /\ q.sum = p.sum
                  /\ (q.direct >= q.cross) # (p.direct >= p.cross)
  <1> DEFINE p == MA!BothWays(d0, d1, c0, c1)
             q == MA!BothWays(c1, c0, d1, d0)
             d == MA!Weaker(d0, d1)
             c == MA!Weaker(c0, c1)
  <1>1. d \in Int /\ c \in Int /\ MA!Weaker(d1, d0) = d /\ MA!Weaker(c1, c0) = c
        BY DEF MA!Weaker
  <1>2. p = [direct |-> d, cross |-> c, sum |-> IF d >= c THEN d0 + d1 ELSE c0 + c1]
        BY DEF MA!BothWays
  <1>3. q = [direct |-> c, cross |-> d, sum |-> IF c >= d THEN c1 + c0 ELSE d1 + d0]
        BY <1>1 DEF MA!BothWays
  <1> HIDE DEF p, q, d, c
  <1>4. /\ p.direct = d /\ p.cross = c /\ q.direct = c /\ q.cross = d
        /\ p.sum = IF d >= c THEN d0 + d1 ELSE c0 + c1
        /\ q.sum = IF c >= d THEN c1 + c0 ELSE d1 + d0
        BY <1>2, <1>3
  <1>5. MA!NamesAgree(q) = MA!NamesAgree(p)
        BY <1>4 DEF MA!NamesAgree
  <1>6. MA!Magnitude(c - d) = MA!Magnitude(d - c)
        BY <1>1 DEF MA!Magnitude
  <1>7. MA!Ambiguous(q) = MA!Ambiguous(p)
        BY <1>4, <1>6 DEF MA!Ambiguous
  <1>8. ASSUME MA!NamesAgree(p), ~MA!Ambiguous(p)
        PROVE  d # c
        <2> SUFFICES ASSUME d = c PROVE FALSE
            OBVIOUS
        <2>1. MA!Magnitude(d - c) = 0
              BY <1>1 DEF MA!Magnitude
        <2>2. 0 < MA!orientation_margin
              BY DEF MA!orientation_margin, MA!One
        <2> QED BY <1>4, <1>8, <2>1, <2>2 DEF MA!NamesAgree, MA!Ambiguous
  <1>9. ASSUME d # c
        PROVE  q.sum = p.sum /\ (q.direct >= q.cross) # (p.direct >= p.cross)
        BY <1>1, <1>4, <1>9
  <1> QED BY <1>4, <1>5, <1>7, <1>8, <1>9 DEF p, q

(* What is matched depends on the places that pass and on what is paired    *)
(* there.                                                                   *)
LEMMA BestIsPassed ==
  ASSUME NEW S, NEW games \in Seq(S), NEW passed \in SUBSET DOMAIN games, passed # {},
         NEW sum, \A i \in passed : sum[i] \in Int
  PROVE  MA!Best(passed, sum) \in passed
  <1>1. passed \subseteq Nat /\ IsFiniteSet(passed)
        <2>1. DOMAIN games = 1..Len(games) /\ Len(games) \in Nat
              BY LenProperties
        <2>2. IsFiniteSet(1..Len(games))
              BY <2>1, FS_Interval
        <2> QED BY <2>1, <2>2, FS_Subset
  <1>2. PICK m \in passed : \A j \in passed : sum[j] <= sum[m]
        BY <1>1, FiniteHasMost
  <1> DEFINE top == {i \in passed : sum[i] = sum[m]}
  <1>3. top # {} /\ IsFiniteSet(top) /\ top \in SUBSET Int
        BY <1>1, <1>2, FS_Subset
  <1>4. PICK i \in top : \A j \in top : i <= j
        <2> HIDE DEF top
        <2> QED BY <1>3, FiniteHasLeast
  <1>6. ASSUME NEW j \in passed
        PROVE  sum[j] < sum[i] \/ (sum[j] = sum[i] /\ i <= j)
        <2>1. sum[j] <= sum[m] /\ sum[i] = sum[m] /\ sum[j] \in Int /\ sum[m] \in Int
              BY <1>2, <1>4, <1>6
        <2>2. CASE sum[j] = sum[m]
              <3>1. j \in top
                    BY <1>6, <2>2
              <3> QED BY <1>4, <2>1, <2>2, <3>1
        <2> QED BY <2>1, <2>2
  <1>7. i \in passed
        BY <1>4
  <1> QED BY <1>6, <1>7 DEF MA!Best

(* Turned round, a market has the same places that pass, with the same sums *)
(* and the other orientation.                                               *)
LEMMA TurnedPasses ==
  ASSUME MA!MatchingAssumption, NEW in \in Inputs, NEW ev \in Games
  PROVE  LET out == [in EXCEPT !.team0 = in.team1, !.team1 = in.team0]
             p == MA!Pairing(in, ev)
             q == MA!Pairing(out, ev)
         IN  /\ MA!Passes(out, ev, q) = MA!Passes(in, ev, p)
             /\ MA!Passes(in, ev, p) =>
                  /\ q.sum = p.sum /\ p.sum \in Int
                  /\ (q.direct >= q.cross) # (p.direct >= p.cross)
  <1> DEFINE out == [in EXCEPT !.team0 = in.team1, !.team1 = in.team0]
             p == MA!Pairing(in, ev)
             q == MA!Pairing(out, ev)
             d0 == MA!PairSim(in.sport, in.team0, ev.home)
             d1 == MA!PairSim(in.sport, in.team1, ev.away)
             c0 == MA!PairSim(in.sport, in.team0, ev.away)
             c1 == MA!PairSim(in.sport, in.team1, ev.home)
  <1>1. /\ out.team0 = in.team1 /\ out.team1 = in.team0 /\ out.sport = in.sport
        /\ out.kickoff = in.kickoff
        BY DEF MA!MatchingAssumption
  <1>2. {in.team0, in.team1, ev.home, ev.away} \subseteq Seq(STRING)
        BY DEF MA!MatchingAssumption
  <1>3. d0 \in Int /\ d1 \in Int /\ c0 \in Int /\ c1 \in Int
        BY <1>2, PairSimIsInt
  <1>4. p = MA!BothWays(d0, d1, c0, c1)
        BY DEF MA!Pairing
  <1>5. q = MA!BothWays(c1, c0, d1, d0)
        BY <1>1 DEF MA!Pairing
  <1>6. MA!KickoffFar(out, ev) = MA!KickoffFar(in, ev)
        BY <1>1 DEF MA!KickoffFar
  <1> HIDE DEF out, p, q, d0, d1, c0, c1
  <1>7. /\ MA!NamesAgree(q) = MA!NamesAgree(p) /\ MA!Ambiguous(q) = MA!Ambiguous(p)
        /\ MA!NamesAgree(p) /\ ~MA!Ambiguous(p) =>
             /\ q.sum = p.sum
             /\ (q.direct >= q.cross) # (p.direct >= p.cross)
        BY <1>3, <1>4, <1>5, TurnedPairing, SMTT(30)
  <1>8. p.sum \in Int
        BY <1>3, <1>4 DEF MA!BothWays
  <1>9. MA!Passes(out, ev, q) = MA!Passes(in, ev, p)
        BY <1>1, <1>6, <1>7 DEF MA!Passes
  <1> QED BY <1>7, <1>8, <1>9 DEF MA!Passes, out, p, q

(* Turned round, the same game matches the other way round.                 *)
LEMMA TurnedMatches ==
  ASSUME MA!MatchingAssumption, NEW in \in Inputs, NEW games \in Seq(Games)
  PROVE  MA!Mirrored(MA!Match(in, games),
                     MA!Match([in EXCEPT !.team0 = in.team1, !.team1 = in.team0], games))
  <1> DEFINE out == [in EXCEPT !.team0 = in.team1, !.team1 = in.team0]
             p == [i \in DOMAIN games |-> MA!Pairing(in, games[i])]
             q == [i \in DOMAIN games |-> MA!Pairing(out, games[i])]
             here == {i \in DOMAIN games : MA!Passes(in, games[i], p[i])}
             there == {i \in DOMAIN games : MA!Passes(out, games[i], q[i])}
             mine == [i \in here |-> p[i].sum]
             yours == [i \in there |-> q[i].sum]
  <1>1. ASSUME NEW i \in DOMAIN games
        PROVE  /\ MA!Passes(out, games[i], q[i]) = MA!Passes(in, games[i], p[i])
               /\ MA!Passes(in, games[i], p[i]) =>
                    /\ q[i].sum = p[i].sum /\ p[i].sum \in Int
                    /\ (q[i].direct >= q[i].cross) # (p[i].direct >= p[i].cross)
        <2>1. games[i] \in Games
              OBVIOUS
        <2>2. p[i] = MA!Pairing(in, games[i]) /\ q[i] = MA!Pairing(out, games[i])
              OBVIOUS
        <2> HIDE DEF p, q
        <2> QED BY <2>1, <2>2, TurnedPasses, ZenonT(60)
  <1>2. /\ MA!Match(in, games) = IF here = {} THEN MA!Unmatched ELSE MA!Matched(games, here, p)
        /\ MA!Match(out, games) = IF there = {} THEN MA!Unmatched ELSE MA!Matched(games, there, q)
        BY DEF MA!Match
  <1> HIDE DEF p, q, out
  <1>3. there = here /\ yours = mine /\ here \in SUBSET DOMAIN games
        BY <1>1
  <1>4. ASSUME here = {}
        PROVE  MA!Mirrored(MA!Match(in, games), MA!Match(out, games))
        <2>1. MA!Match(in, games) = MA!Unmatched /\ MA!Match(out, games) = MA!Unmatched
              BY <1>2, <1>3, <1>4
        <2>2. MA!Unmatched.matched = FALSE
              BY DEF MA!Unmatched
        <2> QED BY <2>1, <2>2 DEF MA!Mirrored
  <1>5. ASSUME here # {}
        PROVE  MA!Mirrored(MA!Match(in, games), MA!Match(out, games))
        <2> DEFINE best == MA!Best(here, mine)
        <2>1. \A i \in here : mine[i] \in Int
              BY <1>1
        <2>2. best \in here
              <3> HIDE DEF here, mine
              <3> QED BY <1>3, <1>5, <2>1, BestIsPassed
        <2>3. /\ MA!Matched(games, here, p) =
                   [matched |-> TRUE, id |-> games[best].id, score |-> p[best].sum,
                    yes_is_home |-> p[best].direct >= p[best].cross]
              /\ MA!Matched(games, there, q) =
                   [matched |-> TRUE, id |-> games[best].id, score |-> q[best].sum,
                    yes_is_home |-> q[best].direct >= q[best].cross]
              BY <1>3 DEF MA!Matched
        <2>4. (q[best].direct >= q[best].cross) # (p[best].direct >= p[best].cross)
              <3> HIDE DEF best
              <3> QED BY <1>1, <2>2
        <2> DEFINE a == MA!Match(in, games)
                   b == MA!Match(out, games)
                   toHome == p[best].direct >= p[best].cross
                   toAway == q[best].direct >= q[best].cross
        <2>5. a = MA!Matched(games, here, p) /\ b = MA!Matched(games, there, q)
              BY <1>2, <1>3, <1>5
        <2> HIDE DEF best, here, there
        <2>6. /\ a.matched = TRUE /\ a.id = games[best].id /\ a.yes_is_home = toHome
              /\ b.matched = TRUE /\ b.id = games[best].id /\ b.yes_is_home = toAway
              BY <2>3, <2>5
        <2>7. toAway # toHome
              BY <2>4
        <2> HIDE DEF a, b, toHome, toAway
        <2>8. MA!Mirrored(a, b)
              BY <2>6, <2>7 DEF MA!Mirrored
        <2> QED BY <2>8 DEF a, b
  <1> HIDE DEF here
  <1>6. MA!Mirrored(MA!Match(in, games), MA!Match(out, games))
        BY <1>4, <1>5
  <1> QED BY <1>6 DEF out

(* Games are listed once.                                                   *)
LEMMA AppearKeeps ==
  ASSUME MA!MatchingAssumption, MA!TypeOK,
         NEW game \in Games, NEW i \in 1..Len(gamesListed) + 1, MA!Appear(game, i)
  PROVE  MA!TypeOK'
  <1> DEFINE new == MA!InsertAt(gamesListed, i, game)
             n == Len(gamesListed)
  <1>1. gamesListed \in Seq(Games) /\ n \in Nat /\ DOMAIN gamesListed = 1..n /\ n < MaxListed
        BY LenProperties DEF MA!TypeOK, MA!Appear
  <1>2. \A k \in 1..n : gamesListed[k] # game
        BY <1>1 DEF MA!Appear, MA!Listed
  <1>3. \A j, k \in 1..n : gamesListed[j] = gamesListed[k] => j = k
        BY <1>1 DEF MA!TypeOK, MA!IsInjective
  <1>4. new = DI!InsertAt(gamesListed, i, game)
        BY DEF MA!InsertAt, DI!InsertAt
  <1> HIDE DEF new
  <1>5. /\ new \in Seq(Games) /\ Len(new) = n + 1
        /\ \A k \in 1..n + 1 :
             new[k] = IF k < i THEN gamesListed[k] ELSE IF k = i THEN game ELSE gamesListed[k - 1]
        <2>1. HasBetween(Games, gamesListed, i, game, new)
              BY <1>1, <1>4, Inserted
        <2> QED BY <2>1 DEF HasBetween
  <1> HIDE DEF new, n
  <1>6. DOMAIN new = 1..n + 1
        BY <1>5, LenProperties
  <1>7. MA!IsInjective(new)
        <2> SUFFICES ASSUME NEW j \in 1..n + 1, NEW k \in 1..n + 1, new[j] = new[k]
                     PROVE  j = k
            BY <1>6 DEF MA!IsInjective
        <2>1. i \in 1..n + 1
              BY DEF n
        <2> QED BY <1>1, <1>2, <1>3, <1>5, <2>1
  <1>8. gamesListed' = new /\ marketAsked' = marketAsked
        BY DEF MA!Appear, new
  <1> QED BY <1>1, <1>5, <1>7, <1>8 DEF MA!TypeOK, MA!MatchingAssumption

(* A game that goes leaves the others as they were.                         *)
LEMMA LeaveKeeps ==
  ASSUME MA!MatchingAssumption, MA!TypeOK, NEW i \in DOMAIN gamesListed, MA!Leave(i)
  PROVE  MA!TypeOK'
  <1> DEFINE new == MA!RemoveAt(gamesListed, i)
             n == Len(gamesListed)
  <1>1. gamesListed \in Seq(Games) /\ n \in Nat /\ DOMAIN gamesListed = 1..n /\ n <= MaxListed
        BY LenProperties DEF MA!TypeOK
  <1>3. \A j, k \in 1..n : gamesListed[j] = gamesListed[k] => j = k
        BY <1>1 DEF MA!TypeOK, MA!IsInjective
  <1>4. new = DI!RemoveAt(gamesListed, i)
        BY DEF MA!RemoveAt, DI!RemoveAt
  <1>5. /\ new \in Seq(Games) /\ Len(new) = n - 1
        /\ \A k \in 1..n - 1 :
             new[k] = IF k < i THEN gamesListed[k] ELSE gamesListed[k + 1]
        <2>1. /\ DI!RemoveAt(gamesListed, i) \in Seq(Games)
              /\ Len(DI!RemoveAt(gamesListed, i)) = n - 1
              /\ \A k \in 1..n - 1 :
                   DI!RemoveAt(gamesListed, i)[k] = IF k < i THEN gamesListed[k] ELSE gamesListed[k + 1]
              BY <1>1, Removed, Zenon
        <2> HIDE DEF new
        <2> QED BY <1>4, <2>1
  <1> HIDE DEF new, n
  <1>6. DOMAIN new = 1..n - 1
        BY <1>5, LenProperties
  <1>7. MA!IsInjective(new)
        <2> SUFFICES ASSUME NEW j \in 1..n - 1, NEW k \in 1..n - 1, new[j] = new[k]
                     PROVE  j = k
            BY <1>6 DEF MA!IsInjective
        <2>1. i \in 1..n
              BY <1>1
        <2> DEFINE was(m) == IF m < i THEN m ELSE m + 1
        <2>2. \A m \in 1..n - 1 : was(m) \in 1..n /\ new[m] = gamesListed[was(m)]
              BY <1>1, <1>5, <2>1
        <2>3. was(j) = was(k)
              <3> HIDE DEF was
              <3> QED BY <1>3, <2>2
        <2>4. i \in Nat /\ j \in Nat /\ k \in Nat
              BY <1>1, <2>1
        <2> QED BY <2>3, <2>4
  <1>8. gamesListed' = new /\ marketAsked' = marketAsked
        BY DEF MA!Leave, new
  <1> QED BY <1>1, <1>5, <1>7, <1>8 DEF MA!TypeOK, MA!MatchingAssumption

(* The two sides of a market are two ways to see one game: whatever names   *)
(* and games there are, a market with its teams turned round is matched to  *)
(* the same game, turned round, or to none (EventMatcher::Match).           *)
THEOREM SpecMirrored ==
  ASSUME MA!MatchingAssumption
  PROVE  MA!Spec => [](MA!TypeOK /\ MA!Mirrored(MA!Match(marketAsked, gamesListed),
                                                MA!Match(MA!Swapped, gamesListed)))
  <1>1. MA!Init => MA!TypeOK
        BY DEF MA!Init, MA!TypeOK, MA!IsInjective, MA!MatchingAssumption
  <1>2. MA!TypeOK /\ [MA!Next]_MA!vars => MA!TypeOK'
        <2> SUFFICES ASSUME MA!TypeOK, [MA!Next]_MA!vars PROVE MA!TypeOK'
            OBVIOUS
        <2>1. ASSUME NEW game \in Games, NEW i \in 1..Len(gamesListed) + 1, MA!Appear(game, i)
              PROVE  MA!TypeOK'
              BY <2>1, AppearKeeps
        <2>2. ASSUME NEW i \in DOMAIN gamesListed, MA!Leave(i) PROVE MA!TypeOK'
              BY <2>2, LeaveKeeps
        <2>3. CASE UNCHANGED MA!vars
              BY <2>3 DEF MA!vars, MA!TypeOK
        <2> QED BY <2>1, <2>2, <2>3 DEF MA!Next
  <1>3. MA!TypeOK => MA!Mirrored(MA!Match(marketAsked, gamesListed), MA!Match(MA!Swapped, gamesListed))
        BY TurnedMatches DEF MA!TypeOK, MA!Swapped
  <1> QED BY <1>1, <1>2, <1>3, PTL DEF MA!Spec
=============================================================================
