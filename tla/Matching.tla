------------------------------ MODULE Matching ------------------------------
(***************************************************************************)
(* Which game of the score feed a market is about (EventMatcher::Match and *)
(* the team tables).  Market and feed have no identifier in common: the    *)
(* teams' names, written by two parties, and the kickoff are all there is. *)
(* A wrong game, or the right one the wrong way round, prices the market   *)
(* with a score that is not its own.                                       *)
(*                                                                         *)
(* A name is a sequence of lower-case words.  The tables hold the entries  *)
(* that differ in kind: a nickname of one word, of several, shared words,  *)
(* several ways to write it, one nickname in two leagues.                  *)
(***************************************************************************)
EXTENDS Integers, FiniteSets, SequencesExt

CONSTANTS
  Accented,      \* accented word -> [ascii: word, pieces: what its plain bytes leave]
  OneLetterOff,  \* pairs {v, w} of words that differ in one letter
  Inputs,        \* markets: [team0, team1, kickoff, sport, who, starts]
  Games,         \* rows of the feed: [id, home, away, kickoff, who, starts]
  Lookalikes,    \* sets of two parties that names may not tell apart
  MaxListed      \* bound: games in the store

VARIABLES
  market,  \* the market that is matched
  store    \* the games of the score store, in the order of its map

vars == <<market, store>>

Magnitude(x) == IF x < 0 THEN -x ELSE x
Weaker(x, y) == IF x <= y THEN x ELSE y
One == 60       \* the similarity of equal names; 1/2, 1/3, 1/4 are exact

-----------------------------------------------------------------------------
(* What the names and the listing are made of.                              *)
MatchingAssumption ==
  /\ Inputs \subseteq [team0 : Seq(STRING), team1 : Seq(STRING), kickoff : Int, sport : STRING,
                       who : Seq(STRING), starts : Int]
  /\ Games \subseteq [id : STRING, home : Seq(STRING), away : Seq(STRING), kickoff : Int,
                      who : Seq(STRING), starts : Int]
  /\ MaxListed \in Nat

-----------------------------------------------------------------------------
(* Words.                                                                   *)
kStop == {"gaming", "esports", "esport", "team", "club", "the", "gg", "es"}

FoldDiacritics(name) ==
  [i \in DOMAIN name |->
     IF name[i] \in DOMAIN Accented THEN Accented[name[i]].ascii ELSE name[i]]

(* A name of nothing but common words keeps them.                           *)
NormalizeTeamTokens(name) ==
  LET words == ToSet(FoldDiacritics(name))
  IN  IF words \subseteq kStop THEN words ELSE words \ kStop

TeamSimilarity(a, b) ==
  LET ta == NormalizeTeamTokens(a)
      tb == NormalizeTeamTokens(b)
  IN  IF ta = {} \/ tb = {} THEN 0
      ELSE (One * Cardinality(ta \cap tb)) \div Weaker(Cardinality(ta), Cardinality(tb))

(* The last word of three letters; accents are not folded here, they cut.   *)
SurnameToken(name) ==
  LET pieces == [i \in DOMAIN name |->
                   IF name[i] \in DOMAIN Accented THEN Accented[name[i]].pieces
                   ELSE <<name[i]>>]
      long == SelectSeq(FlattenSeq(pieces), LAMBDA w : Len(w) >= 3)
  IN  IF long = << >> THEN "" ELSE Last(long)

SharedLongTokens(a, b) ==
  Cardinality({w \in NormalizeTeamTokens(a) \cap NormalizeTeamTokens(b) : Len(w) >= 3})

HammingOne(v, w) == {v, w} \in OneLetterOff

(* Mutant: one shared word makes a player, be it a first name. *)
SharedFirstName(a, b) ==
  IF SharedLongTokens(a, b) >= 1 \/ SurnameToken(a) = SurnameToken(b) THEN One ELSE 0

(* One player: equal surnames, or two words in whatever order, or a surname *)
(* spelt with another letter next to an equal word.                         *)
SamePlayer(sa, sb, shared) ==
  \/ sa # "" /\ sa = sb
  \/ shared >= 2
  \/ Len(sa) >= 6 /\ HammingOne(sa, sb) /\ shared >= 1
IndividualSim(a, b) ==
  IF SamePlayer(SurnameToken(a), SurnameToken(b), SharedLongTokens(a, b)) THEN One
  ELSE IF "" \notin {SurnameToken(a), SurnameToken(b)} THEN 0 ELSE TeamSimilarity(a, b)

-----------------------------------------------------------------------------
(* Sports and leagues.                                                      *)
SoccerCodes == {"soccer", "epl", "laliga", "ucl", "mls", "fifa"}
IsSoccerCode(sport) == sport \in SoccerCodes

ClassifySportMatch(sport) ==
  IF sport \in {"tennis", "atp", "wta", "itf", "ufc", "mma", "boxing"} THEN "individual"
  ELSE IF \/ sport \in {"nba", "wnba", "mlb", "nfl", "nhl", "football", "cricket", "ncaa"}
          \/ IsSoccerCode(sport)
  THEN "team" ELSE "unknown"

TeamEntry(id, alias_groups) == [id |-> id, alias_groups |-> alias_groups]
NbaTeams ==
  {TeamEntry("lakers", {<<"lakers">>}), TeamEntry("kings", {<<"kings">>}),
   TeamEntry("blazers", {<<"blazers">>, <<"trail", "blazers">>})}
MlbTeams ==
  {TeamEntry("redsox", {<<"red", "sox">>}), TeamEntry("whitesox", {<<"white", "sox">>}),
   TeamEntry("rangers", {<<"rangers">>})}
NflTeams == {TeamEntry("panthers", {<<"panthers">>}), TeamEntry("jets", {<<"jets">>})}
NhlTeams ==
  {TeamEntry("panthers", {<<"panthers">>}), TeamEntry("jets", {<<"jets">>}),
   TeamEntry("kings", {<<"kings">>}), TeamEntry("mapleleafs", {<<"maple", "leafs">>, <<"leafs">>})}
SoccerTeams ==
  {TeamEntry("mancity", {<<"manchester", "city">>, <<"man", "city">>}),
   TeamEntry("manutd", {<<"manchester", "united">>, <<"man", "utd">>}),
   TeamEntry("southkorea", {<<"south", "korea">>, <<"korea", "republic">>}),
   TeamEntry("northkorea", {<<"north", "korea">>, <<"korea", "dpr">>}),
   TeamEntry("leeds", {<<"leeds", "united">>, <<"leeds">>})}
CricketTeams ==
  {TeamEntry("india", {<<"india">>}),
   TeamEntry("rcb", {<<"royal", "challengers", "bangalore">>, <<"rcb">>})}

LeagueFor(sport) ==
  CASE sport \in {"nba", "wnba"} -> NbaTeams
    [] sport = "mlb"             -> MlbTeams
    [] sport = "nfl"             -> NflTeams
    [] sport = "nhl"             -> NhlTeams
    [] IsSoccerCode(sport)       -> SoccerTeams
    [] sport = "cricket"         -> CricketTeams
    [] OTHER                     -> {}

GroupSubset(group, name_tokens) == NormalizeTeamTokens(group) \subseteq name_tokens

(* A name that may be two teams' is nobody's.                               *)
CanonicalTeam(sport, name) ==
  LET tokens == NormalizeTeamTokens(name)
      hits == {team.id : team \in {t \in LeagueFor(sport) :
                           \E group \in t.alias_groups : GroupSubset(group, tokens)}}
  IN  IF Cardinality(hits) = 1 THEN CHOOSE id \in hits : TRUE ELSE ""

(* Mutant: what the table tells apart may still share a word. *)
ResolvedOrAlike(sport, a, b) ==
  IF ClassifySportMatch(sport) = "individual" THEN IndividualSim(a, b)
  ELSE IF CanonicalTeam(sport, a) # "" /\ CanonicalTeam(sport, a) = CanonicalTeam(sport, b)
  THEN One ELSE TeamSimilarity(a, b)

TeamPairSim(ca, cb, a, b) ==
  IF ca # "" /\ cb # "" THEN IF ca = cb THEN One ELSE 0 ELSE TeamSimilarity(a, b)
PairSim(sport, a, b) ==
  CASE ClassifySportMatch(sport) = "individual" -> IndividualSim(a, b)
    [] ClassifySportMatch(sport) = "team" ->
         TeamPairSim(CanonicalTeam(sport, a), CanonicalTeam(sport, b), a, b)
    [] OTHER -> TeamSimilarity(a, b)

-----------------------------------------------------------------------------
(* Match: both ways round, and the gates.                                   *)
team_sim_threshold == One \div 2
orientation_margin == One \div 10
kickoff_window_sec == 900

BothWays(direct0, direct1, cross0, cross1) ==
  LET direct == Weaker(direct0, direct1)
      cross == Weaker(cross0, cross1)
  IN  [direct |-> direct, cross |-> cross,
       sum |-> IF direct >= cross THEN direct0 + direct1 ELSE cross0 + cross1]
Pairing(in, ev) ==
  BothWays(PairSim(in.sport, in.team0, ev.home), PairSim(in.sport, in.team1, ev.away),
           PairSim(in.sport, in.team0, ev.away), PairSim(in.sport, in.team1, ev.home))

NamesAgree(p) == p.direct >= team_sim_threshold \/ p.cross >= team_sim_threshold

(* Mutant: no game is the same both ways round. *)
NeverAmbiguous(p) == FALSE

Ambiguous(p) ==
  /\ p.direct >= team_sim_threshold /\ p.cross >= team_sim_threshold
  /\ Magnitude(p.direct - p.cross) < orientation_margin

(* A kickoff one of the two does not know decides nothing.                  *)
KickoffFar(in, ev) ==
  /\ in.kickoff > 0 /\ ev.kickoff > 0
  /\ Magnitude(in.kickoff - ev.kickoff) > kickoff_window_sec

Unmatched == [matched |-> FALSE, id |-> "", score |-> 0, yes_is_home |-> TRUE]

(* The gates.                                                               *)
Passes(in, ev, p) ==
  /\ in.team0 # << >> /\ in.team1 # << >> /\ ev.home # << >> /\ ev.away # << >>
  /\ NamesAgree(p) /\ ~Ambiguous(p) /\ ~KickoffFar(in, ev)

(* Of the games that pass the most alike, and of equals the first.          *)
Best(passed, sum) ==
  CHOOSE i \in passed :
    \A j \in passed : sum[j] < sum[i] \/ (sum[j] = sum[i] /\ i <= j)

Matched(candidates, passed, p) ==
  LET best == Best(passed, [i \in passed |-> p[i].sum])
  IN  [matched |-> TRUE, id |-> candidates[best].id, score |-> p[best].sum,
       yes_is_home |-> p[best].direct >= p[best].cross]
Match(in, candidates) ==
  LET p == [i \in DOMAIN candidates |-> Pairing(in, candidates[i])]
      passed == {i \in DOMAIN candidates : Passes(in, candidates[i], p[i])}
  IN  IF passed = {} THEN Unmatched ELSE Matched(candidates, passed, p)

-----------------------------------------------------------------------------
(* The store: games of all sports come and go, in an order nobody chooses.  *)
Listed == {store[i].id : i \in DOMAIN store}

Appear(game, i) ==
  /\ Len(store) < MaxListed /\ game.id \notin Listed
  /\ store' = InsertAt(store, i, game) /\ UNCHANGED market

Leave(i) == store' = RemoveAt(store, i) /\ UNCHANGED market

Init == market \in Inputs /\ store = << >>
Next ==
  \/ \E game \in Games, i \in 1..Len(store) + 1 : Appear(game, i)
  \/ \E i \in DOMAIN store : Leave(i)
Spec == Init /\ [][Next]_vars

TypeOK ==
  /\ market \in Inputs /\ store \in Seq(Games)
  /\ Len(store) <= MaxListed /\ IsInjective(store)

-----------------------------------------------------------------------------
Turned(pair) == <<pair[2], pair[1]>>

(* Two parties a name may stand for alike: one is the other, or has its     *)
(* nickname, its surname, or a name around it.                              *)
Alike(p, q) == p = q \/ {p, q} \in Lookalikes
AlikePairs(u, v) == Alike(u[1], v[1]) /\ Alike(u[2], v[2])

(* The game the market is about, and the games that might be taken for it.  *)
Own(game) ==
  /\ game.who = market.who \/ game.who = Turned(market.who)
  /\ game.starts = market.starts
Mistakable(game) ==
  /\ ~KickoffFar(market, game) /\ ~Own(game)
  /\ AlikePairs(game.who, market.who) \/ AlikePairs(game.who, Turned(market.who))

(* Names that say who it is: a player's, or one the table knows.  Of others *)
(* half the words of the shorter one are enough.                            *)
Known(name) ==
  \/ ClassifySportMatch(market.sport) = "individual"
  \/ CanonicalTeam(market.sport, name) # ""
KnownTeams(game) ==
  \A name \in {market.team0, market.team1, game.home, game.away} : Known(name)

(* Where all names say who it is, a market is matched to its own game, the  *)
(* right way round, or to one that neither they nor the kickoff tell from   *)
(* it.                                                                      *)
OwnOrMistakable(result) ==
  \A i \in DOMAIN store :
    result.matched /\ result.id = store[i].id /\ KnownTeams(store[i]) =>
      \/ Own(store[i]) /\ result.yes_is_home = (store[i].who = market.who)
      \/ Mistakable(store[i])

(* While its own game is in the store and no mistakable one, a market is    *)
(* matched to it, whatever else is there and in whatever order: a position  *)
(* is not repriced with a game that happens to be listed next to it.        *)
OwnIsFound(result) ==
  \A i \in DOMAIN store :
    (/\ Own(store[i]) /\ ~KickoffFar(market, store[i])
     /\ ~Alike(market.who[1], market.who[2])
     /\ \A j \in DOMAIN store : ~Mistakable(store[j]))
    => /\ result.matched /\ result.id = store[i].id
       /\ result.yes_is_home = (store[i].who = market.who)

(* The two sides of a market are two ways to see one game: with its teams   *)
(* turned round a market finds the same game, turned round, or none.        *)
Mirrored(result, other) ==
  /\ other.matched = result.matched
  /\ result.matched => other.id = result.id /\ other.yes_is_home # result.yes_is_home
Swapped == [market EXCEPT !.team0 = market.team1, !.team1 = market.team0]

MatchingHolds ==
  \A result \in {Match(market, store)} :
    /\ TypeOK /\ OwnOrMistakable(result) /\ OwnIsFound(result)
    /\ Mirrored(result, Match(Swapped, store))
=============================================================================
