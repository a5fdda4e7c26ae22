---------------------------- MODULE MCGameFeeds -----------------------------
(***************************************************************************)
(* The components that follow the games, checked in one run: each          *)
(* behaviour follows one of them.  They share no variable, so this is      *)
(* their checks side by side and not a composition.                        *)
(***************************************************************************)
EXTENDS GameFeeds

(* The second source names a game that the first knows by another name.     *)
MCGamesOf == [soccer |-> {"a"}, tennis |-> {"b"}, tennis_scores |-> {"b", "c", "d"}]
MCPairOf == [a |-> "a", b |-> "b", c |-> "c", d |-> "c"]

SubMarket(id, event, kind) == [id |-> id, event |-> event, kind |-> kind]
MCMarket ==
  {SubMarket("w", "e1", "whole"), SubMarket("p", "e1", "prop"),
   SubMarket("s", "e2", "set"), SubMarket("h", "e2", "segment")}

(* Markets whose names mislead a careless reader, in the order in which     *)
(* their legs mislead it: odds of a feedsPart of the game, legs the other way    *)
(* round, players for Home and Away, a name only the dictionary knows.      *)
Leg(side, name, eu) == [side |-> side, name |-> name, eu |-> eu]
Offer(sport, about, name, dict_name, legs) ==
  [sport |-> sport, about |-> about, name |-> name, dict_name |-> dict_name, legs |-> legs]
ThreeWay == <<Leg("draw", "Draw", 34), Leg("away", "Away", 42), Leg("home", "Home", 18)>>
TwoWay(home, away) == <<Leg("away", "Away", away), Leg("home", "Home", home)>>
MCOffered ==
  [fulltime |-> Offer("soccer", 0, {"1x2"}, {"fulltime result"}, ThreeWay),
   half |-> Offer("soccer", -1, {"1x2", "1st", "half"}, {"1x2", "1st", "half"}, ThreeWay),
   lines |-> Offer("basketball", 0, {"game", "money line"}, {"game", "money line"},
                   TwoWay(15, 26)),
   quarter |-> Offer("basketball", -1, {"4th", "quarter", "money line"}, {"4th"},
                     TwoWay(19, 19)),
   players |-> Offer("tennis", 0, {"to win"}, {"to win"},
                     <<Leg("home", "one", 13), Leg("away", "two", 35)>>),
   set1 |-> Offer("tennis", 1, {"set", "set 1", "winner"}, {"set"}, TwoWay(12, 45)),
   set2 |-> Offer("tennis", 2, {"home/away", "2nd", "set", "2nd set"}, {"set"},
                  TwoWay(17, 21)),
   game |-> Offer("tennis", -1, {"game", "game winner", "winner", "2nd", "set", "2nd set"},
                  {"game winner"}, TwoWay(14, 29)),
   series |-> Offer("esports", 0, {"winner"}, {"match winner", "winner"}, TwoWay(16, 23)),
   map |-> Offer("esports", -1, {"to win", " map"}, {"to win", " map"}, TwoWay(18, 20))]
Opening(sport, score, elapsed) ==
  [sport |-> sport, score |-> score, elapsed |-> elapsed, core |-> {}, interval |-> FALSE,
   time_status |-> "", start |-> 5, updated |-> 9]
MCOpenings ==
  {Opening("soccer", <<<<1, 0>>>>, 2700), Opening("basketball", <<<<88, 90>>>>, 2520),
   Opening("hockey", <<<<2, 2>>>>, 3240), Opening("tennis", <<<<5, 4>>>>, 0),
   Opening("tennis", <<<<7, 5>>, <<5, 4>>>>, 0), Opening("esports", <<<<0, 1>>>>, 0)}

-----------------------------------------------------------------------------
(* Who stands still starts in one state.                                    *)
Init ==
  /\ feedsPart \in {"scores", "subscription", "frame"}
  /\ FeedsInit
  /\ feedsPart = "subscription" \/ discovered = {"e1"}

FairSpec == Init /\ [][FeedsNext]_feedVars /\ FeedsFairness
=============================================================================
