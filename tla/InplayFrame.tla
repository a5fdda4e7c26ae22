---------------------------- MODULE InplayFrame -----------------------------
(***************************************************************************)
(* What a frame of the in-play feed says of a game (InplayScoreParser,     *)
(* inplay_odds_parser.hpp, InplayFeedThread::ToEventScore).                *)
(*                                                                         *)
(* A game goes on, a bookmaker lists markets on it under names and in an   *)
(* order of its choice and suspends legs of them; a frame is a picture of  *)
(* that.  From a picture the parser takes the score, the clock, and the    *)
(* chances of the two sides: in the match, and in the set that is played.  *)
(* The odds of another market, or of the other side, price a bet wrongly   *)
(* without any sign of it.                                                 *)
(*                                                                         *)
(* A name is the set of the tables' phrases it contains, a price is in     *)
(* tenths, a chance in thousandths, -1 where there is none.                *)
(***************************************************************************)
EXTENDS Integers, FiniteSets, SequencesExt

CONSTANTS
  Offered,    \* market id -> [sport, about, name, dict_name, legs]
  Openings,   \* games as they stand when the feed first shows them
  Received,   \* ingestion_ts of the frame
  TickSec,    \* the seconds a step of the clock takes
  MaxListed,  \* bound: markets of the game in the frame
  MaxMoves    \* bound: what happens between the opening and the frame

VARIABLES
  play,        \* the game as it is played
  markets,     \* ids of the markets the frame lists, in its order
  suspended,   \* legs <<id, side>> that take no bets
  result_ids,  \* RunSportLoop's ids of the dictionary
  moves

vars == <<play, markets, suspended, result_ids, moves>>

NoOdds == [home |-> -1, away |-> -1, draw |-> -1]

-----------------------------------------------------------------------------
(* Names of markets.                                                        *)
Segments == {"1st", "2nd", "3rd", "4th", "half", "quarter", "set", " map", " ot"}
Derived == {"handicap", "total", "corner", "no bet", "double chance", "goal", "point",
            "next", "game winner", "set winner", "map winner", "both", "correct"}
kDisq == Segments \cup Derived
kStrong == {"money line", "fulltime result", "match result", "match winner", "series winner",
            "to win", "home/away", "1x2", "head to head"}

(* Mutant: the bare word bars the main market of basketball and hockey.     *)
BareGameBarred(name) == name \cap (kDisq \cup {"game"}) = {} /\ name \cap kStrong # {}

IsResultMarketName(name) == name \cap kDisq = {} /\ name \cap kStrong # {}

SetPhrases ==
  <<{"set 1", "1st set"}, {"set 2", "2nd set"}, {"set 3", "3rd set"}, {"set 4", "4th set"},
    {"set 5", "5th set"}, {"set 6", "6th set"}, {"set 7", "7th set"}>>
IsTennisSetResultName(name, set_n) ==
  /\ set_n \in DOMAIN SetPhrases /\ name \cap SetPhrases[set_n] # {}
  /\ name \cap {"game", "point", "total", "handicap", "correct", "double", "tie"} = {}
  /\ name \cap {"winner", "home/away", "1x2", "money line", "to win"} # {}

(* The dictionary has its own names for the ids.                            *)
ParseResultMarketIdsFromDict(dictionary) ==
  {id \in DOMAIN dictionary : IsResultMarketName(dictionary[id])}

Least(S) == CHOOSE x \in S : \A y \in S : x <= y
Most(S) == CHOOSE x \in S : \A y \in S : x >= y
FirstMarket(ids, fits) ==
  LET places == {i \in DOMAIN ids : ids[i] \in fits}
  IN  IF places = {} THEN "" ELSE ids[Least(places)]

(* Mutant: the first name that fits, whatever the dictionary says.          *)
SelectByName(ids, known) == FirstMarket(ids, {id \in ToSet(ids) : IsResultMarketName(Offered[id].name)})

(* An id the dictionary knows comes before a name that fits.                *)
SelectResultMarketId(ids, known) ==
  IF \E i \in DOMAIN ids : ids[i] \in known THEN FirstMarket(ids, known)
  ELSE FirstMarket(ids, {id \in ToSet(ids) : IsResultMarketName(Offered[id].name)})

SelectTennisSetResultMarketId(ids, set_n) ==
  FirstMarket(ids, {id \in ToSet(ids) : IsTennisSetResultName(Offered[id].name, set_n)})

-----------------------------------------------------------------------------
(* The legs of a market, its places that take bets, and their chances       *)
(* without the bookmaker's share.                                           *)
ActiveLegs(id) ==
  LET legs == Offered[id].legs
  IN  {i \in DOMAIN legs : legs[i].eu > 10 /\ <<id, legs[i].side>> \notin suspended}

PriceOf(legs, active, name) ==
  LET named == {i \in active : legs[i].name = name}
  IN  IF named = {} THEN 0 ELSE legs[Most(named)].eu
SecondOf(active) == Least(active \ {Least(active)})

(* Mutant: the first leg is the home side, the last the away side.          *)
ByPlace(legs, active) ==
  [home |-> legs[Least(active)].eu, away |-> legs[Most(active)].eu,
   draw |-> IF Cardinality(active) >= 3 THEN legs[SecondOf(active)].eu ELSE 0]

(* By name; where no leg is called Home or Away, by their place.            *)
Prices(legs, active) ==
  IF \E i \in active : legs[i].name \in {"Home", "Away"}
  THEN [home |-> PriceOf(legs, active, "Home"), away |-> PriceOf(legs, active, "Away"),
        draw |-> PriceOf(legs, active, "Draw")]
  ELSE [home |-> legs[Least(active)].eu, away |-> legs[Most(active)].eu,
        draw |-> IF Cardinality(active) >= 3 THEN legs[SecondOf(active)].eu
                 ELSE PriceOf(legs, active, "Draw")]

(* 1/price of each side over their sum.                                     *)
Share(mine, hers, third) ==
  (1000 * hers * third) \div (mine * hers + mine * third + hers * third)
Devigged(eu) ==
  IF eu.home <= 10 \/ eu.away <= 10 THEN NoOdds
  ELSE IF eu.draw > 10
  THEN [home |-> Share(eu.home, eu.away, eu.draw), away |-> Share(eu.away, eu.home, eu.draw),
        draw |-> Share(eu.draw, eu.home, eu.away)]
  ELSE [home |-> (1000 * eu.away) \div (eu.home + eu.away),
        away |-> (1000 * eu.home) \div (eu.home + eu.away), draw |-> 0]

(* Participants are looked for from the market's key on: a market without   *)
(* any takes those of the next one.                                         *)
LegsFrom(ids, id) ==
  LET after == {k \in DOMAIN ids : \E j \in 1..k : ids[j] = id}
  IN  FirstMarket(ids, {ids[k] : k \in {i \in after : Offered[ids[i]].legs # << >>}})

DevigLegs(id) ==
  IF Cardinality(ActiveLegs(id)) < 2 THEN NoOdds
  ELSE Devigged(Prices(Offered[id].legs, ActiveLegs(id)))
ParseInplayOddsDevig(ids, id) ==
  IF id = "" \/ LegsFrom(ids, id) = "" THEN NoOdds ELSE DevigLegs(LegsFrom(ids, id))

-----------------------------------------------------------------------------
(* The score and the state of the game.                                     *)
SumOf(sets, side) == FoldSeq(LAMBDA set, sum : set[side] + sum, 0, sets)

(* Mutant: games of the first set stand for sets.                           *)
FirstSetOnly(score) ==
  [home |-> score[1][1], away |-> score[1][2], home_games |-> SumOf(score, 1),
   away_games |-> SumOf(score, 2)]

(* A set of six games or more counts for who leads in it.                   *)
ParseTennisScore(score) ==
  LET won(side) == Cardinality({k \in DOMAIN score :
                         score[k][side] >= 6 /\ score[k][side] > score[k][3 - side]})
  IN  [home |-> won(1), away |-> won(2), home_games |-> SumOf(score, 1),
       away_games |-> SumOf(score, 2)]

Totals(pair) == [home |-> pair[1], away |-> pair[2], home_games |-> 0, away_games |-> 0]

(* No score in the frame leaves 0:0; e-sports keep the maps won among the   *)
(* statistics.                                                              *)
ParseEsportsSeriesScore(res) == Totals(IF res = << >> THEN <<0, 0>> ELSE res)
ParseScore(score) == Totals(IF score = << >> THEN <<0, 0>> ELSE score[1])
ScoreOf(sport, pic) ==
  CASE sport = "tennis"  -> ParseTennisScore(pic.score)
    [] sport = "esports" -> ParseEsportsSeriesScore(pic.res)
    [] OTHER             -> ParseScore(pic.score)

(* Minutes and seconds, in one field or in two; -1 where there is no clock. *)
RawClock(pic) == IF pic.minute < 0 THEN -1 ELSE 60 * pic.minute + pic.second

(* The clock stands, the bookmaker takes no bets, or it knows the result.   *)
Frozen(core) == core \cap {"stopped", "blocked", "finished"} # {}

TimeStatus ==
  [code \in {"0", "1", "2", "3", "4", "5", "6", "7", "8", "9", "99"} |->
     CASE code = "0" -> "NotStarted" [] code = "1" -> "InPlay" [] code = "2" -> "ToBeFixed"
       [] code = "3" -> "Ended" [] code = "4" -> "Postponed" [] code = "5" -> "Cancelled"
       [] code = "6" -> "Walkover" [] code = "7" -> "Interrupted" [] code = "8" -> "Abandoned"
       [] code = "9" -> "Retired" [] OTHER -> "Removed"]

(* A feed without the field shows games in play only.                       *)
ParseTimeStatus(code) ==
  IF code = "" THEN "InPlay" ELSE IF code \in DOMAIN TimeStatus THEN TimeStatus[code]
  ELSE "ToBeFixed"

IsTerminal(status) ==
  status \in {"Ended", "Postponed", "Cancelled", "Walkover", "Abandoned", "Retired", "Removed"}

(* Mutant: everything the feed lists is in play.                            *)
AlwaysInPlay(status, interval) == IF interval THEN "halftime" ELSE "inplay"

MapStatus(status, interval) ==
  CASE status = "InPlay" -> IF interval THEN "halftime" ELSE "inplay"
    [] status = "Ended"  -> "final"
    [] OTHER             -> "pregame"

(* A frame without its time (0) has the time it came; one dated ahead of    *)
(* its arrival keeps its time, with a warning; a kickoff that lies ahead is *)
(* dated with the frame.                                                    *)
SourceTs(updated) == IF updated = 0 THEN Received ELSE updated
EventTs(start, source) == IF start > 0 /\ start <= source THEN start ELSE source

PeriodLen ==
  [sport \in {"basketball", "hockey", "amfootball"} |->
     CASE sport = "basketball" -> 720 [] sport = "hockey" -> 1200 [] OTHER -> 900]
RegPeriods == [sport \in DOMAIN PeriodLen |-> IF sport = "hockey" THEN 3 ELSE 4]

(* Mutant: a clock that counts down is read as one that counts up.          *)
AsItStands(sport, period, clock) == clock

(* Clocks that count a period down become the time played; a period without *)
(* a number comes after the last.                                           *)
ClockSec(sport, period, clock) ==
  IF clock < 0 THEN 0
  ELSE IF sport \notin DOMAIN PeriodLen THEN clock
  ELSE IF period = 0 THEN RegPeriods[sport] * PeriodLen[sport]
  ELSE IF PeriodLen[sport] < clock THEN (period - 1) * PeriodLen[sport]
  ELSE period * PeriodLen[sport] - clock

-----------------------------------------------------------------------------
(* A frame of the game: how its server writes down what is the case.        *)
Timed(sport) == sport \in DOMAIN PeriodLen \cup {"soccer"}
Overtime(sport, elapsed) ==
  sport \in DOMAIN PeriodLen /\ elapsed >= RegPeriods[sport] * PeriodLen[sport]

Shown(p) ==
  IF p.sport = "soccer" THEN p.elapsed
  ELSE PeriodLen[p.sport] - (p.elapsed % PeriodLen[p.sport])

Picture(p) ==
  [score  |-> IF p.sport = "esports" THEN << >> ELSE p.score,
   res    |-> IF p.sport = "esports" THEN p.score[1] ELSE << >>,
   period |-> IF \/ p.interval \/ p.sport \notin DOMAIN PeriodLen
                 \/ Overtime(p.sport, p.elapsed)
              THEN 0 ELSE p.elapsed \div PeriodLen[p.sport] + 1,
   minute |-> IF Timed(p.sport) THEN Shown(p) \div 60 ELSE -1,
   second |-> IF Timed(p.sport) THEN Shown(p) % 60 ELSE 0]

(* The entry of the score store, from the info, the core and the odds of    *)
(* the event; the odds of a set are of the one after those that are won.    *)
CurrentSet(sport, score) == IF sport = "tennis" THEN score.home + score.away + 1 ELSE 0

EventScore(p, pic, score, match, set_n, set) ==
  [sport |-> p.sport, home |-> score.home, away |-> score.away,
   home_games |-> score.home_games, away_games |-> score.away_games,
   elapsed |-> ClockSec(p.sport, pic.period, RawClock(pic)),
   status |-> MapStatus(ParseTimeStatus(p.time_status), p.interval),
   is_terminal |-> IsTerminal(ParseTimeStatus(p.time_status)),
   frozen |-> Frozen(p.core), kickoff |-> p.start, data_source_ts |-> SourceTs(p.updated),
   event_ts |-> EventTs(p.start, SourceTs(p.updated)),
   odds_home |-> match.home, odds_away |-> match.away, draw |-> match.draw,
   seg |-> IF set.home >= 0 THEN set_n ELSE 0, seg_home |-> set.home, seg_away |-> set.away]

(* Only tennis has odds of a part of the game.                              *)
ParseInplayOddsDevigResult(ids) ==
  ParseInplayOddsDevig(ids, SelectResultMarketId(ids, result_ids))
ParseTennisSetDevig(ids, set_n) ==
  IF set_n = 0 THEN NoOdds
  ELSE ParseInplayOddsDevig(ids, SelectTennisSetResultMarketId(ids, set_n))

Parse(p, pic, score) ==
  EventScore(p, pic, score, ParseInplayOddsDevigResult(markets), CurrentSet(p.sport, score),
             ParseTennisSetDevig(markets, CurrentSet(p.sport, score)))

-----------------------------------------------------------------------------
Init ==
  /\ play \in Openings /\ markets = << >> /\ suspended = {} /\ result_ids = {} /\ moves = 0

Moved == moves < MaxMoves /\ moves' = moves + 1

SetOver(set) ==
  \/ set[1] = 7 \/ set[2] = 7
  \/ set[1] >= 6 /\ set[1] - set[2] >= 2
  \/ set[2] >= 6 /\ set[2] - set[1] >= 2
Scored(score, side) == [score EXCEPT ![Len(score)][side] = @ + 1]

(* A game of tennis, a map, a goal.                                         *)
Scores(side) ==
  /\ Moved
  /\ play' = [play EXCEPT !.score =
                IF play.sport = "tennis" /\ SetOver(Last(@)) THEN Scored(Append(@, <<0, 0>>), side)
                ELSE Scored(@, side)]
  /\ UNCHANGED <<markets, suspended, result_ids>>

Ticks ==
  /\ Timed(play.sport) /\ Moved /\ play' = [play EXCEPT !.elapsed = @ + TickSec]
  /\ UNCHANGED <<markets, suspended, result_ids>>

(* The clock stops, the bookmaker closes, half time, the feed tells how it  *)
(* stands or when it was written.                                           *)
Turns(field, values) ==
  /\ Moved /\ \E value \in values : play' = [play EXCEPT ![field] = value]
  /\ UNCHANGED <<markets, suspended, result_ids>>

Lists(id, i) ==
  /\ Len(markets) < MaxListed /\ id \notin ToSet(markets) /\ Offered[id].sport = play.sport
  /\ Moved /\ markets' = InsertAt(markets, i, id)
  /\ UNCHANGED <<play, suspended, result_ids>>

Suspends(id, side) ==
  /\ id \in ToSet(markets) /\ \E leg \in ToSet(Offered[id].legs) : leg.side = side
  /\ Moved
  /\ suspended' = IF <<id, side>> \in suspended THEN suspended \ {<<id, side>>}
                  ELSE suspended \cup {<<id, side>>}
  /\ UNCHANGED <<play, markets, result_ids>>

(* The dictionary, fetched now and then; a failure or an empty one leaves   *)
(* what is known.                                                           *)
FetchDict(dictionary) ==
  /\ Moved
  /\ result_ids' = LET ids == ParseResultMarketIdsFromDict(dictionary)
                   IN  IF ids = {} THEN result_ids ELSE ids
  /\ UNCHANGED <<play, markets, suspended>>

Dictionary == [id \in {m \in DOMAIN Offered : Offered[m].sport = play.sport} |->
                 Offered[id].dict_name]

Next ==
  \/ \E side \in {1, 2} : Scores(side)
  \/ Ticks
  \/ Turns("core", {{"stopped"}, {"blocked", "finished"}, {}})
  \/ Timed(play.sport) /\ Turns("interval", BOOLEAN)
  \/ Turns("time_status", {"1", "3", "7", "9"})
  \/ Turns("updated", {0, Received - 1, Received + 1})
  \/ \E id \in DOMAIN Offered, i \in 1..Len(markets) + 1 : Lists(id, i)
  \/ \E id \in DOMAIN Offered, side \in {"home", "draw", "away"} : Suspends(id, side)
  \/ FetchDict(Dictionary)
Spec == Init /\ [][Next]_vars

Plays ==
  [sport : STRING, score : Seq(Nat \X Nat), elapsed : Nat,
   core : SUBSET {"stopped", "blocked", "finished"}, interval : BOOLEAN,
   time_status : DOMAIN TimeStatus \cup {"", "unknown"}, start : Nat, updated : Nat]

(* Sets of tennis are played to their end, one after the other.             *)
TennisSets(sets) ==
  \A k \in DOMAIN sets :
    /\ sets[k] \in (0..7) \X (0..7) /\ sets[k][1] + sets[k][2] <= 13
    /\ k < Len(sets) => SetOver(sets[k])
Played(p) ==
  /\ p \in Plays /\ p.score # << >>
  /\ p.sport = "tennis" => TennisSets(p.score)

(* Assumed of the bookmaker: legs are told apart, all by Home, Draw and Away *)
(* or, where there are two, by their order; and names tell the truth as far *)
(* as they are read.                                                        *)
Legible(legs) ==
  /\ legs \in Seq([side : {"home", "draw", "away"}, name : STRING, eu : Nat])
  /\ \A i, j \in DOMAIN legs : legs[i].side = legs[j].side => i = j
  /\ \E i, j \in DOMAIN legs : legs[i].side = "home" /\ legs[j].side = "away"
  /\ \/ \A i \in DOMAIN legs :
          <<legs[i].side, legs[i].name>> \in
            {<<"home", "Home">>, <<"draw", "Draw">>, <<"away", "Away">>}
     \/ /\ Len(legs) = 2 /\ legs[1].side = "home"
        /\ \A i \in DOMAIN legs : legs[i].name \notin {"Home", "Draw", "Away"}

Truthful(offer) ==
  /\ IsResultMarketName(offer.name) \/ IsResultMarketName(offer.dict_name) => offer.about = 0
  /\ offer.about = 0 => offer.name \cap kDisq = {}
  /\ offer.sport = "tennis" =>
       \A n \in 1..7 : IsTennisSetResultName(offer.name, n) <=> offer.about = n

FrameAssumption ==
  /\ Received \in Nat \ {0} /\ {TickSec, MaxListed, MaxMoves} \subseteq Nat
  /\ DOMAIN Offered \subseteq STRING \ {""}
  /\ \A id \in DOMAIN Offered :
       Offered[id].about \in -1..7 /\ Legible(Offered[id].legs) /\ Truthful(Offered[id])
  /\ \A p \in Openings : Played(p)

TypeOK ==
  /\ Played(play)
  /\ markets \in Seq(DOMAIN Offered) /\ IsInjective(markets) /\ Len(markets) <= MaxListed
  /\ \A i \in DOMAIN markets : Offered[markets[i]].sport = play.sport
  /\ suspended \subseteq (DOMAIN Offered) \X {"home", "draw", "away"}
  /\ result_ids \subseteq {id \in DOMAIN Offered : IsResultMarketName(Offered[id].dict_name)}
  /\ moves \in 0..MaxMoves

-----------------------------------------------------------------------------
(* What is the case, told without the parser.                               *)
InPlaySet == IF SetOver(Last(play.score)) THEN Len(play.score) + 1 ELSE Len(play.score)
SixFive == {Last(play.score)[1], Last(play.score)[2]} = {6, 5}
SetsWon(side) ==
  Cardinality({k \in DOMAIN play.score :
                 SetOver(play.score[k]) /\ play.score[k][side] > play.score[k][3 - side]})

Takes(id, side) ==
  /\ \E leg \in ToSet(Offered[id].legs) : leg.side = side /\ leg.eu > 10
  /\ <<id, side>> \notin suspended
Whole(id) == \A leg \in ToSet(Offered[id].legs) : Takes(id, leg.side)
PriceOn(id, side) ==
  IF Takes(id, side) THEN (CHOOSE leg \in ToSet(Offered[id].legs) : leg.side = side).eu ELSE 0
Worth(id) ==
  Devigged([home |-> PriceOn(id, "home"), away |-> PriceOn(id, "away"),
            draw |-> PriceOn(id, "draw")])

(* The chances are those of one listed market about that stretch of the     *)
(* game (0: the match, n: set n), on the side they are said to be, at       *)
(* prices that are offered.                                                 *)
Priced(home, away, about) ==
  \E id \in ToSet(markets) :
    /\ Offered[id].about = about /\ Takes(id, "home") /\ Takes(id, "away")
    /\ home = Worth(id).home /\ away = Worth(id).away

(* The match is priced with odds of the match; and if a market of it that   *)
(* the feed or the dictionary calls by a known name is there, and all such  *)
(* take bets, it is priced.                                                 *)
Called(id) == Offered[id].name \cap kStrong # {} \/ id \in result_ids
MatchIsPriced(e) ==
  /\ e.odds_home >= 0 => Priced(e.odds_home, e.odds_away, 0)
  /\ LET ids == {id \in ToSet(markets) : Offered[id].about = 0 /\ Called(id)}
     IN  ids # {} /\ (\A id \in ids : Whole(id)) => e.odds_home >= 0

(* The set is priced with odds of the set that is played, and the others    *)
(* are not; at 6:5 the parser is ahead of the game.                         *)
SetIsPriced(e) ==
  /\ e.seg > 0 => Priced(e.seg_home, e.seg_away, e.seg)
  /\ e.seg > 0 /\ ~SixFive => e.seg = InPlaySet
  /\ play.sport = "tennis" /\ ~SixFive =>
       LET ids == {id \in ToSet(markets) : Offered[id].about = InPlaySet}
       IN  ids # {} /\ (\A id \in ids : Whole(id)) => e.seg = InPlaySet

(* The score and the clock are those of the game: sets of tennis but at     *)
(* 6:5, the time played up to the end of regulation but in an interval.     *)
ScoreIsPlayed(e) ==
  <<e.home, e.away>> =
    IF play.sport = "tennis" /\ ~SixFive THEN <<SetsWon(1), SetsWon(2)>>
    ELSE IF play.sport = "tennis" THEN <<e.home, e.away>> ELSE play.score[1]
ClockIsPlayed(e) ==
  Timed(play.sport) /\ (play.sport # "soccer" => ~play.interval) =>
    e.elapsed = IF Overtime(play.sport, play.elapsed)
                THEN RegPeriods[play.sport] * PeriodLen[play.sport] ELSE play.elapsed

(* A game that is over is told from one that goes on, odds that stand still *)
(* from those that move; what happened is not dated after the frame that    *)
(* tells of it, and a row is dated ahead of its arrival only when its frame *)
(* is: no other clock comes in.                                             *)
StateIsPlayed(e) ==
  /\ e.is_terminal <=> (play.time_status \in {"3", "4", "5", "6", "8", "9", "99"})
  /\ (e.status \in {"inplay", "halftime"}) <=> (play.time_status \in {"", "1"})
  /\ e.frozen <=> (play.core # {})
  /\ e.event_ts <= e.data_source_ts
  /\ e.data_source_ts > Received => e.data_source_ts = play.updated

FrameHolds ==
  /\ TypeOK
  /\ \A pic \in {Picture(play)} : \A score \in {ScoreOf(play.sport, pic)} :
       \A e \in {Parse(play, pic, score)} :
         /\ MatchIsPriced(e) /\ SetIsPriced(e) /\ ScoreIsPlayed(e)
         /\ ClockIsPlayed(e) /\ StateIsPlayed(e)
=============================================================================
