----------------------------- MODULE Settlement -----------------------------
(***************************************************************************)
(* From the end of a game to a closed position.                            *)
(*                                                                         *)
(* The exchange resolves a condition; SettlementPoller asks for it over    *)
(* REST; RefreshResolution hands the answers to the trading loop; a tick   *)
(* settles every resolved condition of its catalog (TrySettleResolved), by *)
(* the final score when the exchange has not resolved it, and at its end   *)
(* sweeps the positions whose condition the discovery has dropped.  The    *)
(* mapping thread tells the poller what to ask for.  The positions survive *)
(* a restart through the ledger's snapshot; the set of settled conditions  *)
(* and everything the poller has learnt do not.                            *)
(***************************************************************************)
EXTENDS Naturals, FiniteSets

CONSTANTS
  Cond,             \* conditions
  Winners, Scores,  \* the exchange's answers and the final scores that occur
  MaxOpened,        \* bound on the positions that are opened
  MaxRestarts       \* bound on crashes

ASSUME SettlementAssumption ==
  /\ IsFiniteSet(Cond)
  /\ Winners \subseteq {"Yes", "No"} /\ Scores \subseteq {"Yes", "No", "tie"}
  /\ MaxOpened \in Nat /\ MaxRestarts \in Nat

Outcomes == {"Yes", "No"}
Holdings == Cond \X Outcomes
Answers == {"open", "closed"} \cup Outcomes  \* "closed" is settlement_value = -1
Verdicts == Outcomes \cup {"tie"}
Unknown == "unknown"

VARIABLES
  exchange,   \* what the exchange says of a condition
  final,      \* the score the loop's feed shows: playing, a verdict, or stale
  catalog,    \* the discovered conditions (PaperCatalog)
  pending, has_pending,  \* cids_pending_, has_pending_cids_
  cids,       \* the poller's conditions
  store,      \* what it has learnt of each: acc_, published in SettlementStore
  resolution, \* resolution_by_condition_
  ticking,    \* inside TickAll
  frozen,     \* tick_inputs_, of no use between two ticks
  todo,       \* the conditions of the frozen catalog the tick has yet to visit
  held,       \* the positions of the ledger
  settled,    \* settled_conditions_
  snapshot,   \* the positions of the last ledger snapshot
  alive,
  opened, restarts,
  booked      \* history: [of, price, by] of every position settled

vars == <<exchange, final, catalog, pending, has_pending, cids, store, resolution,
          ticking, frozen, todo, held, settled, snapshot, alive, opened, restarts, booked>>
world == <<exchange, final>>
asked == <<pending, has_pending>>
poller == <<cids, store>>
loop == <<ticking, frozen, todo, held, settled, snapshot, opened, booked>>

Resolved(c) == exchange[c] \in Outcomes

NoInputs == LET nothing == [c \in Cond |-> Unknown] IN
            [catalog |-> {}, resolution |-> nothing, final |-> nothing]

(* What a share of outcome o pays, in halves, under a verdict.              *)
Pay(v, o) == IF v = "tie" THEN 1 ELSE IF v = o THEN 2 ELSE 0

TypeOK ==
  /\ exchange \in [Cond -> Answers]
  /\ final \in [Cond -> {"playing", "stale"} \cup Verdicts]
  /\ catalog \subseteq Cond /\ cids \subseteq Cond
  /\ pending \subseteq Cond /\ has_pending \in BOOLEAN
  /\ {store, resolution} \subseteq [Cond -> {Unknown} \cup Answers]
  /\ held \subseteq Holdings /\ snapshot \subseteq Holdings
  /\ todo \subseteq Cond /\ settled \subseteq Cond

Init ==
  /\ exchange = [c \in Cond |-> "open"]
  /\ final = [c \in Cond |-> "playing"]
  /\ catalog = Cond /\ cids = Cond /\ pending = {} /\ has_pending = FALSE
  /\ store = [c \in Cond |-> Unknown] /\ resolution = store
  /\ ticking = FALSE /\ todo = {}
  /\ frozen = NoInputs
  /\ held = {} /\ settled = {} /\ snapshot = {}
  /\ alive = TRUE
  /\ opened = 0 /\ restarts = 0
  /\ booked = {}

-----------------------------------------------------------------------------
(* The world.                                                               *)

(* The exchange closes a market and names the winner, at once or later.     *)
Resolve(c, w) ==
  /\ exchange[c] = "open" \/ exchange[c] = "closed"
  /\ exchange' = [exchange EXCEPT ![c] = w]
  /\ UNCHANGED <<final, catalog, asked, poller, resolution, loop, alive, restarts>>

CloseOnly(c) ==
  /\ exchange[c] = "open"
  /\ exchange' = [exchange EXCEPT ![c] = "closed"]
  /\ UNCHANGED <<final, catalog, asked, poller, resolution, loop, alive, restarts>>

(* The feed shows the final score, then no longer shows the game, or its    *)
(* data grows older than score_staleness_limit.                             *)
FullTime(c, v) ==
  /\ final[c] = "playing"
  /\ final' = [final EXCEPT ![c] = v]
  /\ UNCHANGED <<exchange, catalog, asked, poller, resolution, loop, alive, restarts>>

ScoreAges(c) ==
  /\ final[c] \in Verdicts
  /\ final' = [final EXCEPT ![c] = "stale"]
  /\ UNCHANGED <<exchange, catalog, asked, poller, resolution, loop, alive, restarts>>

-----------------------------------------------------------------------------
(* The mapping thread.                                                      *)

(* Mutant: the poller is asked for the catalog only.                        *)
NoHeldConditions == {}

HeldConditions == {h[1] : h \in held}

(* RediscoverOnce: a market that is over falls out of the discovery.  The   *)
(* loop gets the new catalog, the poller the new set, without what is held. *)
RediscoverOnce(c) ==
  /\ alive
  /\ c \in catalog /\ (exchange[c] # "open" \/ final[c] # "playing")
  /\ catalog' = catalog \ {c}
  /\ pending' = catalog' /\ has_pending' = TRUE
  /\ UNCHANGED <<world, poller, resolution, loop, alive, restarts>>

(* RefreshEventMapping, each cycle: the catalog and what is held.           *)
SetConditionIds ==
  /\ alive
  /\ pending' = catalog \cup HeldConditions /\ has_pending' = TRUE
  /\ UNCHANGED <<world, catalog, poller, resolution, loop, alive, restarts>>

-----------------------------------------------------------------------------
(* The poller and the thread that publishes what it found.                  *)

Asked == IF has_pending THEN pending ELSE cids
Kept == [c \in Cond |-> IF has_pending => c \in pending THEN store[c] ELSE Unknown]

(* ParseMarketJson and resolution_status: status 2 is closed, the winner is *)
(* the index of the token flagged as such, -1 if none is.                   *)
(* Mutant: a winner that is no outcome of the condition.                    *)
ParseMarketJsonVoid(c) == IF Resolved(c) THEN "void" ELSE exchange[c]

ParseMarketJson(c) == exchange[c]

Closed(a) == a \notin {Unknown, "open"}

(* PollAllOnce: take over the new set and forget the rest, ask for every    *)
(* condition not known as closed, publish all.  The requests for the        *)
(* conditions outside `answered' fail.                                      *)
PollAllOnce(answered) ==
  /\ alive
  /\ cids' = Asked
  /\ pending' = {} /\ has_pending' = FALSE
  /\ store' = [c \in Cond |-> IF c \in Asked /\ c \in answered /\ ~Closed(Kept[c])
                              THEN ParseMarketJson(c) ELSE Kept[c]]
  /\ UNCHANGED <<world, catalog, resolution, loop, alive, restarts>>

RefreshResolution ==
  /\ alive
  /\ resolution' = store
  /\ UNCHANGED <<world, catalog, asked, poller, loop, alive, restarts>>

-----------------------------------------------------------------------------
(* The trading loop.                                                        *)

(* The ledger keeps at most one position per token, and the model at most   *)
(* MaxOpened purchases.                                                     *)
Open(h) ==
  /\ opened < MaxOpened
  /\ opened' = opened + 1
  /\ held' = held \cup {h}

(* A trade DrainUserFills recovers at the head of a tick, in any condition, *)
(* traded by the loop before.                                               *)
RecoverMissedFill(h) ==
  /\ alive /\ ~ticking
  /\ Open(h)
  /\ UNCHANGED <<world, catalog, asked, poller, resolution, ticking, frozen, todo,
                 settled, snapshot, alive, restarts, booked>>

(* TickAll freezes its inputs, and saves the ledger once a minute.          *)
TickBegin(save) ==
  /\ alive /\ ~ticking
  /\ ticking' = TRUE
  /\ frozen' = [catalog |-> catalog, resolution |-> resolution, final |-> final]
  /\ todo' = catalog
  /\ snapshot' = IF save THEN held ELSE snapshot
  /\ UNCHANGED <<world, catalog, asked, poller, resolution, held, settled, alive,
                 opened, restarts, booked>>

Ruled(c) == frozen.resolution[c] \in Outcomes
Ended(c) == frozen.final[c] \in Verdicts

(* TrySettleResolved: the exchange first, the score otherwise.              *)
SettleBy(c) == IF Ruled(c) THEN "exchange" ELSE "score"
(* Mutant: the score before the exchange.                                   *)
VerdictScoreFirst(c) == IF Ended(c) THEN frozen.final[c] ELSE frozen.resolution[c]

Verdict(c) == IF Ruled(c) THEN frozen.resolution[c] ELSE frozen.final[c]

(* SettleToken books what is held and closes it.                            *)
SettleTokens(H) ==
  /\ held' = held \ H
  /\ booked' = booked \cup
       {[of |-> h, price |-> Pay(Verdict(h[1]), h[2]), by |-> SettleBy(h[1])] : h \in H}

(* TickOne returns at once when the book of Yes is missing or its best      *)
(* prices are no prices: the condition is not even settled in this tick.    *)
SkipUnpriced(c) ==
  /\ ticking /\ c \in todo
  /\ todo' = todo \ {c}
  /\ UNCHANGED <<world, catalog, asked, poller, resolution, ticking, frozen, held,
                 settled, snapshot, alive, opened, restarts, booked>>

(* TickOne in a condition that is decided: settle it once, trade no more.   *)
TrySettleResolved(c) ==
  /\ ticking /\ c \in todo
  /\ Ruled(c) \/ Ended(c)
  /\ todo' = todo \ {c}
  /\ IF c \in settled THEN UNCHANGED <<held, booked, settled>>
     ELSE /\ SettleTokens(held \cap ({c} \X Outcomes))
          /\ settled' = settled \cup {c}
  /\ UNCHANGED <<world, catalog, asked, poller, resolution, ticking, frozen, snapshot, alive,
                 opened, restarts>>

(* TickOne in a condition that is not: perhaps a purchase.                  *)
Decide(c) ==
  /\ ticking /\ c \in todo
  /\ ~Ruled(c) /\ ~Ended(c)
  /\ todo' = todo \ {c}
  /\ (\E o \in Outcomes : Open(<<c, o>>)) \/ UNCHANGED <<held, opened>>
  /\ UNCHANGED <<world, catalog, asked, poller, resolution, ticking, frozen,
                 settled, snapshot, alive, restarts, booked>>

(* The end of TickAll: positions outside the frozen catalog are settled by  *)
(* the exchange's verdict alone.                                            *)
Orphans == {h \in held : h[1] \notin frozen.catalog /\ Ruled(h[1])}
SettleOrphans ==
  /\ ticking /\ todo = {}
  /\ SettleTokens(Orphans)
  /\ ticking' = FALSE /\ frozen' = NoInputs
  /\ UNCHANGED <<world, catalog, asked, poller, resolution, todo, settled, snapshot,
                 alive, opened, restarts>>

-----------------------------------------------------------------------------
(* A crash at any point; a restart discovers anew and restores the ledger.  *)
Crash ==
  /\ alive /\ restarts < MaxRestarts
  /\ alive' = FALSE /\ restarts' = restarts + 1
  /\ ticking' = FALSE /\ frozen' = NoInputs /\ todo' = {}
  /\ UNCHANGED <<world, catalog, asked, poller, resolution, held, settled,
                 snapshot, opened, booked>>

RestoreLedgerSnapshot ==
  /\ ~alive /\ alive' = TRUE
  /\ held' = snapshot
  /\ settled' = {}
  /\ catalog' = {c \in Cond : exchange[c] = "open" /\ final[c] = "playing"}
  /\ cids' = catalog' /\ pending' = {} /\ has_pending' = FALSE
  /\ store' = [c \in Cond |-> Unknown] /\ resolution' = store'
  /\ UNCHANGED <<world, ticking, frozen, todo, snapshot, opened, restarts, booked>>

Tick(c) == SkipUnpriced(c) \/ TrySettleResolved(c) \/ Decide(c)

World == \E c \in Cond : \/ \E w \in Winners : Resolve(c, w)
                         \/ CloseOnly(c)
                         \/ \E v \in Scores : FullTime(c, v)
                         \/ ScoreAges(c)
Daemon == \/ \E c \in Cond : RediscoverOnce(c)
          \/ SetConditionIds
          \/ \E answered \in SUBSET Cond : PollAllOnce(answered)
          \/ RefreshResolution
Loop == \/ \E h \in Holdings : RecoverMissedFill(h)
        \/ \E save \in BOOLEAN : TickBegin(save)
        \/ \E c \in Cond : Tick(c)
        \/ SettleOrphans

Next == World \/ Daemon \/ Loop \/ Crash \/ RestoreLedgerSnapshot

Spec == Init /\ [][Next]_vars

(* The threads run their cycles, and the discovery finds other markets (an   *)
(* empty one changes nothing); the loop ticks at least every heartbeat;      *)
(* the REST requests of a condition succeed again and again; a market that  *)
(* is over leaves the discovery; the process is started again.              *)
Fairness ==
  /\ WF_vars(SetConditionIds) /\ WF_vars(RefreshResolution)
  /\ \A c \in Cond :
       /\ WF_vars(RediscoverOnce(c))
       /\ WF_vars(Tick(c))
       /\ SF_vars(\E answered \in SUBSET Cond : c \in answered /\ PollAllOnce(answered))
  /\ WF_vars(\E save \in BOOLEAN : TickBegin(save))
  /\ WF_vars(SettleOrphans)
  /\ WF_vars(RestoreLedgerSnapshot)

FairSpec == Spec /\ Fairness

-----------------------------------------------------------------------------
(* A position is paid what the exchange pays, through prunings of the       *)
(* poller's memory, restarts and orphan sweeps, unless it was closed on a   *)
(* final score: no old or foreign answer is ever booked.                    *)
PaidByExchange ==
  \A b \in booked :
    LET c == b.of[1] IN
      \/ b.by = "exchange" /\ Resolved(c) /\ b.price = Pay(exchange[c], b.of[2])
      \/ b.by = "score" /\ final[c] # "playing"

(* A position in a condition the exchange has resolved is settled in the    *)
(* end, also when it fell out of the catalog, when it was recovered after   *)
(* the condition was settled, and when the process was restarted; unless    *)
(* the poller saw the market closed before its winner was named.            *)
EventuallySettledUnlessClosed ==
  \A h \in Holdings :
    h \in held /\ Resolved(h[1]) ~> h \notin held \/ store[h[1]] = "closed"

(* The same without the exception.                                          *)
EventuallySettled ==
  \A h \in Holdings : h \in held /\ Resolved(h[1]) ~> h \notin held
=============================================================================
