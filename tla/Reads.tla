------------------------------- MODULE Reads --------------------------------
(***************************************************************************)
(* What is read while others write, side by side: the books the poller     *)
(* asks for (BookPoller), the books and odds a decision to buy is made on  *)
(* (Decision), and the hubs observers look at (Hubs).                      *)
(***************************************************************************)
EXTENDS Integers

CONSTANTS
  \* BookPoller
  PollPlans, Base, Fav, MaxPlans,
  \* Decision
  Feeds, BooksShown, Markets, Desks, OddsAge, ScoreAge, StableWindow, VelWindow, Throttle,
  HeartbeatNs, kCapacity, MinEdge, MaxGap, MinOpenFair, MinLiquidity, Relax, PerOrder,
  PerOutcome, PerCondition, EventCap, Bankroll, MustWin, FeeCoef, NEff, MaxTime, MaxMoves,
  \* Hubs
  Keys, MaxKeys, RingCap, MaxPublishes, MaxRejects

VARIABLES
  readsPart,  \* the component a behaviour follows; the others stand still
  \* BookPoller
  plan, dyn_w, cw, waited, planChanged, plans,
  \* Decision
  now, game, game_ts, book, oneMarket, desk, onHand, flying, stops, track, quote, tape,
  gate_log_ns_, moves,
  \* Hubs
  index_map_, hubBuf, hubFront, published, publishes, ring, write_idx_, writer, reader

pollerVars == <<plan, dyn_w, cw, waited, planChanged, plans>>
decision == <<now, game, game_ts, book, oneMarket, desk, onHand, flying, stops, track, quote,
  tape, gate_log_ns_, moves>>
hubs == <<index_map_, hubBuf, hubFront, published, publishes, ring, write_idx_, writer, reader>>
readsVars == <<readsPart, pollerVars, decision, hubs>>

-----------------------------------------------------------------------------
BP == INSTANCE BookPoller WITH Plans <- PollPlans, changed <- planChanged

DE == INSTANCE Decision WITH
  Books <- BooksShown, Heartbeat <- HeartbeatNs, market <- oneMarket, held <- onHand

HU == INSTANCE Hubs WITH buf <- hubBuf, front <- hubFront

ASSUME ReadsAssumption ==
  BP!BookPollerAssumption /\ DE!DecisionAssumption /\ HU!HubsAssumption

(* A decision that stands still has nothing to decide.                      *)
ReadsInit ==
  /\ BP!Init /\ HU!Init
  /\ IF readsPart = "decision" THEN DE!Init
     ELSE /\ now = 0 /\ game = 0 /\ game_ts = 0 /\ book = 0 /\ oneMarket = 0 /\ desk = 0
          /\ onHand = 0 /\ flying = 0 /\ stops = 0 /\ track = 0 /\ quote = 0 /\ tape = 0
          /\ gate_log_ns_ = 0 /\ moves = 0

ReadsNext ==
  \/ readsPart = "poller" /\ BP!Next /\ UNCHANGED <<readsPart, decision, hubs>>
  \/ readsPart = "decision" /\ DE!Next /\ UNCHANGED <<readsPart, pollerVars, hubs>>
  \/ readsPart = "hubs" /\ HU!Next /\ UNCHANGED <<readsPart, pollerVars, decision>>

ReadsSpec == ReadsInit /\ [][ReadsNext]_readsVars

-----------------------------------------------------------------------------
(* No token of the poll plan starves.                                       *)
NoStarvation == readsPart = "poller" => BP!NoStarvation

(* New money goes only where fresh odds of the market's own game are, to    *)
(* the side they favour, within the caps of what the account is worth.      *)
NewMoneyHolds == readsPart = "decision" => DE!DecisionHolds

(* What an observer of the loop reads is one publication, and not an older  *)
(* one than there was.                                                      *)
ReadsHold == readsPart = "hubs" => HU!HubsHold
=============================================================================
