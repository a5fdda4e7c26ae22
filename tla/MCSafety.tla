------------------------------ MODULE MCSafety ------------------------------
(***************************************************************************)
(* Components whose promises are safety, side by side: money and caps, the *)
(* process with its logs, what is read while it is written, the decision   *)
(* to buy, the discovery of events and the matching of markets to games.   *)
(***************************************************************************)
EXTENDS Money, Process, Reads

VARIABLES
  part,
  \* Discovery
  listing, offset, kept, seen, empty_streak, why, stayed, slid, listings, delistings,
  failures,
  \* Matching
  asked, store

discovery == <<listing, offset, kept, seen, empty_streak, why, stayed, slid, listings,
  delistings, failures>>
matching == <<asked, store>>
safetyVars == <<part, moneyVars, processVars, readsVars, discovery, matching>>

-----------------------------------------------------------------------------
(* Two markets of one event, both outcomes of the first: two fills of three *)
(* are past the cap of a token, of a market, of the event.                  *)
MCTokens == [y1 |-> "c1", n1 |-> "c1", y2 |-> "c2"]
MCConditions == {"c1", "c2"}
MCParentRef == [c \in MCConditions |-> "e"]

(* A plan with and one without a token; weights as unequal as a factor of   *)
(* two, books in and out of the band where we act.                          *)
MCPlans == {<<"a", "b", "c">>, <<"b", "c">>}
MCBase == [a |-> 4, b |-> 4, c |-> 8]

(* Every command line and environment.                                      *)
ServerConfigs ==
  [entry : {"server"}, live : BOOLEAN, paper : BOOLEAN, creds : BOOLEAN, key : BOOLEAN,
   fills : BOOLEAN, intent : BOOLEAN, armed : BOOLEAN, bm : {TRUE}, trading : {TRUE}]
HeadlessConfigs ==
  [entry : {"headless"}, live : {FALSE}, paper : BOOLEAN, creds : {FALSE}, key : BOOLEAN,
   fills : {FALSE}, intent : {FALSE}, armed : {FALSE}, bm : {FALSE}, trading : BOOLEAN]
MCConfigs == ServerConfigs \cup HeadlessConfigs
MCWatched ==
  {"inplay", "poller", "settlement_refresh", "live_stats", "tennis", "team", "odds",
   "transport", "seed", "wss_watchdog", "active_poll", "userfeed", "user_watchdog",
   "loop", "mapping", "disk_prune", "recorder", "server"}
(* A game of soccer a goal ahead after an hour, and what the feed may say   *)
(* of it next: other odds, frozen ones, odds of a segment, a break, a game  *)
(* that is decided.                                                         *)
Lead ==
  [status |-> "inplay", home |-> 1, away |-> 0, home_games |-> 0, away_games |-> 0,
   elapsed |-> 60, sport |-> "soccer", period |-> 2, odds_home |-> 760, odds_away |-> 240,
   draw |-> 0, seg |-> 0, seg_home |-> -1, seg_away |-> -1, frozen |-> FALSE]
MCFeeds ==
  {Lead, [Lead EXCEPT !.odds_home = 600, !.odds_away = 250, !.draw = 150],
   [Lead EXCEPT !.frozen = TRUE, !.home = 2, !.away = 1, !.elapsed = 45],
   [Lead EXCEPT !.odds_home = 200, !.odds_away = 800], [Lead EXCEPT !.status = "pregame"],
   [Lead EXCEPT !.seg = 2, !.seg_home = 800, !.seg_away = 200],
   [Lead EXCEPT !.home = 3, !.elapsed = 80, !.odds_home = -1, !.odds_away = -1,
    !.draw = -1]}
Quoted(b, a) == [present |-> TRUE, bid |-> b, ask |-> a, micro |-> (a + b) \div 2, ts |-> 1]
Gone == [present |-> FALSE, bid |-> -1, ask |-> -1, micro |-> -1, ts |-> 0]
MCShown == {[yes |-> Quoted(670, 690), no |-> Quoted(310, 330)],
          [yes |-> Quoted(280, 300), no |-> Quoted(700, 720)],
          [yes |-> Quoted(670, 690), no |-> Gone]}

(* A market on the home side, on the away side, on the away side while the  *)
(* mapping took the wrong team, of a segment, of goals, of a draw.          *)
HomeWins ==
  [mapped |-> TRUE, yes_is_home |-> TRUE, right |-> TRUE, kind |-> "moneyline", line |-> 0,
   over |-> TRUE, is_draw |-> FALSE, seg |-> 0, liquidity |-> 40, valid_ids |-> TRUE]
MCMarkets ==
  {HomeWins, [HomeWins EXCEPT !.yes_is_home = FALSE],
   [HomeWins EXCEPT !.yes_is_home = FALSE, !.right = FALSE], [HomeWins EXCEPT !.seg = 2],
   [HomeWins EXCEPT !.kind = "outright"], [HomeWins EXCEPT !.kind = "totals", !.line = 9],
   [HomeWins EXCEPT !.is_draw = TRUE]}
Start == [equity |-> 1000, size |-> 40, clv |-> 20, clv_breaker |-> FALSE, others |-> 0,
          live |-> FALSE]
MCDesks ==
  {Start, [Start EXCEPT !.equity = 400], [Start EXCEPT !.clv = -5, !.others = 800],
   [Start EXCEPT !.clv_breaker = TRUE], [Start EXCEPT !.live = TRUE]}
Cases == (MCMarkets \X {Start}) \cup ({HomeWins} \X MCDesks)

(* Two events of the window, one too early, one past its end, one that      *)
(* cannot be parsed; three to a page.                                       *)
Listed(start, closes) ==
  [condition_id |-> "c", tokens |-> 2, start |-> start, end |-> closes]
Event(markets) ==
  [event_id |-> "e", sport |-> "nba", sports_words |-> FALSE, markets |-> markets]
MCCatalog ==
  [live |-> Event(<<Listed(7, 12), Listed(0, 11)>>), soon |-> Event(<<Listed(11, 0)>>),
   far |-> Event(<<Listed(14, 20)>>), past |-> Event(<<Listed(8, 10)>>),
   odd |-> [Event(<<[Listed(9, 0) EXCEPT !.tokens = 0]>>) EXCEPT !.sport = ""]]
DI == INSTANCE Discovery WITH
  Catalog <- MCCatalog, Now <- 10, kPageSize <- 3, kHardScanCap <- 9, kEmptyPageStop <- 3,
  MaxEvents <- 2, MaxListings <- 1, MaxDelistings <- 1, MaxFailures <- 1

(* Names as the two parties write them: shared words, other words for one   *)
(* team, one nickname in two leagues, shared first names, the surname first, *)
(* another transliteration, an accent, a team and its academy, a second     *)
(* game of the same two, a kickoff that is not known, a name that is not.   *)
Row(id, home, away, pair, kickoff, starts) ==
  [id |-> id, home |-> home, away |-> away, kickoff |-> kickoff, who |-> pair,
   starts |-> starts]
MCGames ==
  {Row("derby", <<"man", "utd">>, <<"man", "city">>, <<"utd", "city">>, 9000, 9000),
   Row("cup", <<"manchester", "city">>, <<"leeds", "united">>, <<"city", "leeds">>, 9000, 9000),
   Row("korea", <<"korea", "republic">>, <<"korea", "dpr">>, <<"south", "north">>, 0, 9000),
   Row("nfl", <<"panthers">>, <<"ny", "jets">>, <<"carolina", "newyork">>, 0, 9000),
   Row("nhl", <<"winnipeg", "jets">>, <<"florida", "panthers">>, <<"winnipeg", "florida">>,
       0, 9000),
   Row("first", <<"sandru", "i">>, <<"popa", "ana">>, <<"sandru", "popa">>, 9300, 9000),
   Row("next", <<"ioana", "kastakova">>, <<"ana", "tatu">>, <<"kastakova", "tatu">>, 9000, 9000),
   Row("asia", <<"nikita", "bilozertsev">>, <<"huang", "yujia">>, <<"nikita", "huang">>, 0, 9000),
   Row("again", <<"nikita", "bilozertsev">>, <<"huang", "yujia">>, <<"nikita", "huang">>,
       99000, 99000),
   Row("academy", <<"natus", "vincere">>, <<"natus", "vincere", "junior">>,
       <<"navi", "junior">>, 0, 9000),
   Row("lan", <<"aurora">>, <<"natus", "vincere">>, <<"aurora", "navi">>, 0, 9000),
   Row("lower", <<"lincoln", "city">>, <<"cambridge", "united">>, <<"lincoln", "cambridge">>,
       9000, 9000),
   Row("league", <<"oxford", "utd">>, <<"hull", "city">>, <<"oxford", "hull">>, 9000, 9000),
   Row("blank", << >>, <<"invictus">>, <<"nobody", "invictus">>, 0, 9000)}
Asked(team0, team1, sport, pair) ==
  [team0 |-> team0, team1 |-> team1, kickoff |-> 9000, sport |-> sport, who |-> pair,
   starts |-> 9000]
MCInputs ==
  {Asked(<<"oxford", "united">>, <<"hull", "city">>, "epl", <<"oxford", "hull">>),
   Asked(<<"manchester", "city">>, <<"manchester", "united">>, "epl", <<"city", "utd">>),
   Asked(<<"manchester", "united">>, <<"leeds", "united">>, "epl", <<"utd", "leeds">>),
   Asked(<<"south", "korea">>, <<"north", "korea">>, "fifa", <<"south", "north">>),
   Asked(<<"carolina", "panthers">>, <<"new", "york", "jets">>, "nfl",
         <<"carolina", "newyork">>),
   Asked(<<"ioana", "maria", "sandru">>, <<"ana", "popa">>, "wta", <<"sandru", "popa">>),
   Asked(<<"nikita", "belozertsev">>, <<"yujia", "huang">>, "itf", <<"nikita", "huang">>),
   Asked(<<"natus", "vincere">>, <<"natus", "vincere", "junior">>, "cs2",
         <<"navi", "junior">>),
   Asked(<<"aurora", "gaming">>, <<"natus", "vincere", "junior">>, "cs2",
         <<"aurora", "junior">>),
   Asked(<<"invictus", "gaming">>, <<"aurora", "gaming">>, "cs2", <<"invictus", "aurora">>),
   Asked(<<"francisco", "cer_ndolo">>, <<"ana", "popa">>, "atp", <<"cerundolo", "popa">>)}
MA == INSTANCE Matching WITH
  Accented <- [cer_ndolo |-> [ascii |-> "cerundolo", pieces |-> <<"cer", "ndolo">>]],
  OneLetterOff <- {{"belozertsev", "bilozertsev"}},
  Lookalikes <- {{"carolina", "florida"}, {"newyork", "winnipeg"}, {"navi", "junior"}},
  Inputs <- MCInputs, Games <- MCGames, MaxListed <- 2, market <- asked

ASSUME MCSafetyAssumption == DI!DiscoveryAssumption /\ MA!MatchingAssumption

-----------------------------------------------------------------------------
Parts ==
  {"account", "exposure", "lock", "daemon", "audit", "poller", "hubs", "decision",
   "discovery", "matching"}

(* Who stands still starts in one state.  A decision begins with the game   *)
(* as it is and both books there; what the market is and what the desk has  *)
(* are not both varied.                                                     *)
SafetyInit ==
  /\ part \in Parts /\ moneyPart = part /\ processPart = part /\ readsPart = part
  /\ MoneyInit /\ ProcessInit /\ ReadsInit
  /\ part = "account" \/ mode = "paper"
  /\ part = "decision" => game = Lead /\ <<oneMarket, desk>> \in Cases /\ book.no.present
  /\ IF part = "discovery" THEN DI!Init
     ELSE /\ listing = << >> /\ offset = 0 /\ kept = << >> /\ seen = {}
          /\ empty_streak = 0 /\ why = "end" /\ stayed = {} /\ slid = {}
          /\ listings = 0 /\ delistings = 0 /\ failures = 0
  /\ IF part = "matching" THEN MA!Init ELSE asked = 0 /\ store = << >>

SafetyNext ==
  \/ /\ MoneyNext
     /\ UNCHANGED <<part, processVars, readsVars, discovery, matching>>
  \/ /\ ProcessNext
     /\ UNCHANGED <<part, moneyVars, readsVars, discovery, matching>>
  \/ /\ ReadsNext
     /\ UNCHANGED <<part, moneyVars, processVars, discovery, matching>>
  \/ /\ part = "discovery" /\ DI!Next
     /\ UNCHANGED <<part, moneyVars, processVars, readsVars, matching>>
  \/ /\ part = "matching" /\ MA!Next
     /\ UNCHANGED <<part, moneyVars, processVars, readsVars, discovery>>

SafetySpec == SafetyInit /\ [][SafetyNext]_safetyVars

-----------------------------------------------------------------------------
(* Discovery overlooks no event of the window but one that slid past it; a   *)
(* market is matched to its own game, the right way round.                  *)
RightGames ==
  /\ part = "discovery" => DI!DiscoveryHolds
  /\ part = "matching" => MA!MatchingHolds
=============================================================================
