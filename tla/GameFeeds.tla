------------------------------ MODULE GameFeeds -----------------------------
(***************************************************************************)
(* What follows the games, side by side: the store of scores (ScoreFeed),  *)
(* the subscriptions (Subscription), and what a frame of the in-play feed  *)
(* is read as (InplayFrame).                                               *)
(***************************************************************************)
EXTENDS Integers, Sequences

CONSTANTS
  \* ScoreFeed
  Sports, Sources, GamesOf, PairOf, Framings, MayTruncate, MaxFrames,
  \* Subscription
  LeagueEvents, Market, LowLeagues, kSharpGrace, kBlacklistTtl, kBlacklistCap, MaxFlips,
  \* InplayFrame
  Offered, Openings, Received, TickSec, MaxMarketsShown, MaxFrameMoves

VARIABLES
  feedsPart,  \* the component a behaviour follows; the others stand still
  \* ScoreFeed
  thread, frame, listed, merged_map_, store_, frames, feedStop, running_,
  \* Subscription
  discovered, over, shown, odds, token_map_, market_catalog_, market_match_inputs_,
  subscribed, last_sub_eligible_, sharp_age, sharp, mapping, blacklist, quiet, flips,
  \* InplayFrame
  play, markets, suspended, result_ids, frameMoves

scoreVars == <<thread, frame, listed, merged_map_, store_, frames, feedStop, running_>>
subscriptionVars == <<discovered, over, shown, odds, token_map_, market_catalog_,
  market_match_inputs_, subscribed, last_sub_eligible_, sharp_age, sharp, mapping,
  blacklist, quiet, flips>>
inplayVars == <<play, markets, suspended, result_ids, frameMoves>>
feedVars == <<feedsPart, scoreVars, subscriptionVars, inplayVars>>

-----------------------------------------------------------------------------
SF == INSTANCE ScoreFeed WITH stop_ <- feedStop

SU == INSTANCE Subscription WITH Events <- LeagueEvents, listed <- discovered

FR == INSTANCE InplayFrame WITH
  MaxListed <- MaxMarketsShown, MaxMoves <- MaxFrameMoves, moves <- frameMoves

ASSUME FeedsAssumption ==
  SF!ScoreFeedAssumption /\ SU!SubscriptionAssumption /\ FR!FrameAssumption

(* A frame that stands still has nothing to read.                           *)
FeedsInit ==
  /\ SF!Init /\ SU!Init
  /\ IF feedsPart = "frame" THEN FR!Init
     ELSE play = 0 /\ markets = << >> /\ suspended = {} /\ result_ids = {} /\ frameMoves = 0

FeedsNext ==
  \/ feedsPart = "scores" /\ SF!Next /\ UNCHANGED <<feedsPart, subscriptionVars, inplayVars>>
  \/ feedsPart = "subscription" /\ SU!Next /\ UNCHANGED <<feedsPart, scoreVars, inplayVars>>
  \/ feedsPart = "frame" /\ FR!Next /\ UNCHANGED <<feedsPart, scoreVars, subscriptionVars>>

FeedsSpec == FeedsInit /\ [][FeedsNext]_feedVars

(* The fairness of each component; it binds the one that moves.             *)
FeedsFairness ==
  /\ \A s \in Sports : WF_scoreVars(feedsPart = "scores" /\ SF!SportStep(s))
  /\ \A s \in Sources : WF_scoreVars(feedsPart = "scores" /\ SF!Supplement(s))
  /\ WF_scoreVars(feedsPart = "scores" /\ SF!StopJoined)
  /\ WF_subscriptionVars(feedsPart = "subscription" /\ SU!RefreshEventMapping(FALSE))
  /\ WF_subscriptionVars(feedsPart = "subscription" /\ SU!RefreshEventMapping(TRUE))
  /\ SF_subscriptionVars(feedsPart = "subscription" /\ discovered # {} /\ SU!RefreshEventMapping(TRUE))
  /\ \A e \in LeagueEvents : WF_subscriptionVars(feedsPart = "subscription" /\ SU!Stale(e))

-----------------------------------------------------------------------------
(* A row of the score store says what is the case, with the odds of its own *)
(* game; and the store loses no row its writers published.                  *)
RowsAreTrue ==
  /\ SF!TypeOK /\ SU!TypeOK /\ SF!StoreIsWhole
  /\ feedsPart = "frame" => FR!FrameHolds

(* Readers of the scores never see a sport go back, see a game once however *)
(* many sources list it, and the feed's Stop returns.                       *)
ScoresFlow == SF!NeverBack /\ SF!SeenOnce /\ SF!StopReturns

(* A game that is over is dropped for good, one that is played with odds is *)
(* subscribed, and a short silence of the odds drops nothing.               *)
SubscriptionsFollow == SU!EndedIsDropped /\ SU!LiveIsSubscribed /\ SU!NoFlap
=============================================================================
