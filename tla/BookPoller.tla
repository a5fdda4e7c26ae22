------------------------------ MODULE BookPoller ------------------------------
(***************************************************************************)
(* Whose book is asked for next (TraderDaemon::RunActiveBookPoller).       *)
(*                                                                         *)
(* 149 requests a second are shared by weight: each request adds to every  *)
(* token its weight, goes to the token that has gathered most and takes    *)
(* the sum of all weights from it.  The weights follow the books once a    *)
(* second.  Weights are in quarters of the code's unit.                    *)
(***************************************************************************)
EXTENDS Integers, FiniteSets, FiniteSetsExt, SequencesExt

CONSTANTS
  Plans,     \* poll plans: sequences of tokens
  Base,      \* per token 4 * (sqrt(liquidity) + 1)
  Fav,       \* dearer sides of books that occur, in hundredths; 0: no book
  MaxPlans   \* bound: changes of the plan

Tokens == DOMAIN Base

(* Assumed of the constants where the module is instantiated.              *)
BookPollerAssumption ==
  /\ Plans \subseteq Seq(Tokens) /\ <<>> \notin Plans
  /\ IsFiniteSet(Tokens) /\ Base \in [Tokens -> Nat \ {0}]
  /\ 0 \in Fav /\ Fav \subseteq {0} \cup 50..99 /\ MaxPlans \in Nat

VARIABLES
  plan,
  dyn_w,     \* weight of a token of the plan
  cw,        \* what a token has gathered
  waited,    \* history: requests since the token's last, in the same plan
  changed,   \* the plan is newer than the weights
  plans

vars == <<plan, dyn_w, cw, waited, changed, plans>>

Polled == {plan[i] : i \in DOMAIN plan}

(* Four bands of the dearer side: where the loop acts, near it, just past   *)
(* it, decided; the plan's own weight is the floor, except for the last.    *)
Weight(base, fav) ==
  CASE fav \in 70..84 -> base + 16
    [] fav \in 62..69 -> base + 8
    [] fav \in 85..92 -> base + 2
    [] fav > 92       -> Max({2, base \div 4})
    [] OTHER          -> base

TypeOK ==
  /\ plan \in Plans \cup {<<>>} /\ dyn_w \in [Tokens -> Nat] /\ cw \in [Tokens -> Int]
  /\ waited \in [Tokens -> Nat] /\ changed \in BOOLEAN /\ plans \in 0..MaxPlans

Init ==
  /\ plan = <<>> /\ changed = FALSE /\ plans = 0
  /\ dyn_w = Base /\ cw = [t \in Tokens |-> 0] /\ waited = [t \in Tokens |-> 0]

(* PopulateCatalog publishes a plan; the poller takes it at its next second.*)
PublishPollPlan(p) ==
  /\ plans < MaxPlans /\ ~changed /\ p # plan
  /\ plan' = p /\ plans' = plans + 1 /\ changed' = TRUE
  /\ waited' = [t \in Tokens |-> 0]
  /\ UNCHANGED <<dyn_w, cw>>

(* Mutant: all credit is forgotten.                                         *)
CreditOfNone == [t \in Tokens |-> 0]

(* The credit of a token that has left the plan is forgotten.               *)
Credit == [t \in Tokens |-> IF t \in Polled THEN cw[t] ELSE 0]

RefreshPlan(favs) ==
  /\ plan # <<>> /\ changed' = FALSE
  /\ cw' = Credit
  /\ dyn_w' = [t \in Tokens |-> IF t \in Polled THEN Weight(Base[t], favs[t]) ELSE Base[t]]
  /\ UNCHANGED <<plan, waited, plans>>

Total == SumFunctionOnSet(dyn_w, Polled)

(* The first of the plan that has gathered most.                            *)
Pick(gathered) ==
  plan[Min({i \in DOMAIN plan : \A j \in DOMAIN plan : gathered[plan[j]] <= gathered[plan[i]]})]

Poll ==
  /\ plan # <<>> /\ ~changed
  /\ LET gathered == [t \in Tokens |-> IF t \in Polled THEN cw[t] + dyn_w[t] ELSE cw[t]]
         pick == Pick(gathered)
     IN  /\ cw' = [gathered EXCEPT ![pick] = @ - Total]
         /\ waited' = [t \in Tokens |-> IF t = pick \/ t \notin Polled THEN 0 ELSE waited[t] + 1]
  /\ UNCHANGED <<plan, dyn_w, changed, plans>>

Next ==
  \/ \E p \in Plans : PublishPollPlan(p)
  \/ \E favs \in [Tokens -> Fav] : RefreshPlan(favs)
  \/ Poll

Spec == Init /\ [][Next]_vars

-----------------------------------------------------------------------------
(* No token starves, however its book and those of the others move, and     *)
(* however often the plan has changed before: it is asked for again within  *)
(* a number of requests fixed by the weights.  With equal weights a round   *)
(* of all tokens would be the least one can ask; the weights move, and a    *)
(* token that leaves the plan leaves its debt to the others, so one round   *)
(* is not enough.                                                           *)
Heaviest == Max({Weight(Base[t], f) : t \in Tokens, f \in Fav})
Lightest == Min({Weight(Base[t], f) : t \in Tokens, f \in Fav})
NoStarvation ==
  \A t \in Polled : waited[t] * Lightest <= (4 * Cardinality(Tokens) - 2) * Heaviest
=============================================================================
