------------------------------- MODULE Decision -------------------------------
(***************************************************************************)
(* How TickOne comes to a decision about one market: the game's row out of *)
(* the feed, the market without its vig, the fair price and where it comes *)
(* from, the side, the size the sizing asks for, the gates in front of a   *)
(* new position, the multipliers, and what is published and recorded.      *)
(* PaperTick is about the position control after it and takes fair price   *)
(* and size as given.                                                      *)
(*                                                                         *)
(* The first half is what a market is taken to be worth: the market        *)
(* without the vig, the score as a prior, the models of totals and spreads *)
(* and the order in which one of them is chosen.                           *)
(*                                                                         *)
(* Prices, odds, multipliers, fractions of a game and weights are per      *)
(* mille, lines are halves (a line of 2.5 is 5), -1 is "none", money is    *)
(* pUSD, time is a minute.  The logistic function, the normal distribution *)
(* and e^-x are tables: increasing, and symmetric where the function is.   *)
(* kProbEps is below this grid and is shown as 1.  The market is one that  *)
(* is not over: Settlement has the rest.                                   *)
(***************************************************************************)
EXTENDS Integers, FiniteSets, Sequences, Functions

CONSTANTS
  Feeds,         \* what the feed may say of the game
  Books,         \* what the two books of the market may show
  Markets,       \* catalog and mapping of the market
  Desks,         \* account, CLV and other exposure of the event; live: an order is
                 \* in flight before it is in the ledger
  OddsAge,       \* sharp_max_staleness_sec
  ScoreAge,      \* score_staleness_limit_ns
  StableWindow,  \* open_stable_window_ns
  VelWindow,     \* sharp_fair_vel_window_ns
  Throttle,      \* of LogGateBlock
  Heartbeat,     \* of the tape
  kCapacity,     \* of SharpFairTrack
  MinEdge, MaxGap,           \* sharp_only_min_edge, sharp_max_gap
  MinOpenFair, MinLiquidity, \* min_open_fair, min_open_liquidity_usdc
  Relax,         \* relax_timing_gates_when_liquid
  PerOrder, PerOutcome, PerCondition, EventCap, Bankroll,
  MustWin,       \* must_win_lock_usdc
  FeeCoef,
  NEff,          \* n_eff_dyn, a count of samples in its bounds
  MaxTime, MaxMoves

None == -1
One == 1000

Clamp(x, lo, hi) == IF x < lo THEN lo ELSE IF x > hi THEN hi ELSE x
Prob(x) == x \in 0..One

clamp_prob(p) == Clamp(p, 1, One - 1)

(* Division towards zero, so that a / b and -a / b differ by their sign.    *)
Over(a, b) == IF a >= 0 THEN a \div b ELSE -((-a) \div b)
ISqrt(x) == CHOOSE n \in 0..x : n * n <= x /\ x < (n + 1) * (n + 1)

-----------------------------------------------------------------------------
(* Sports and their clocks, in minutes; a sport without a clock has 0.      *)
total_game_minutes(sport) ==
  CASE sport = "soccer" -> 90 [] sport = "basket" -> 48 [] sport = "amfootball" -> 60
    [] sport = "hockey" -> 60 [] sport = "rugby" -> 80 [] OTHER -> 0

regulation_periods(sport) ==
  CASE sport = "baseball" -> 9 [] sport = "tennis" -> 3 [] sport = "volleyball" -> 5
    [] OTHER -> 0

(* Runs of one innings are no lead over a team that has not batted.         *)
score_prior_applicable(sport) == sport # "cricket"

(* A period is the number it names, "overtime", or a text without either.   *)
parse_period_ordinal(period, sport) ==
  IF period \in Nat THEN (IF period > 255 THEN 255 ELSE period)
  ELSE IF period # "overtime" THEN 0
  ELSE CASE sport = "soccer" -> 3 [] sport \in {"basket", "amfootball"} -> 5
         [] sport = "hockey" -> 4 [] OTHER -> 0

Terminal(g) == g.status = "Ended"
Diff(g) == g.home - g.away

-----------------------------------------------------------------------------
(* The market without its vig; one side alone is taken as it is.            *)
devig_binary(yes, no) ==
  IF yes <= 0 /\ no <= 0 THEN None
  ELSE IF no <= 0 THEN clamp_prob(yes)
  ELSE IF yes <= 0 THEN clamp_prob(One - no)
  ELSE clamp_prob((One * yes) \div (yes + no))

(* How far along the game is.                                               *)
time_fraction(g) ==
  IF g.status = "NotStarted" THEN 0
  ELSE IF Terminal(g) THEN One
  ELSE IF g.elapsed < 0 \/ total_game_minutes(g.sport) = 0 THEN 0
  ELSE Clamp((One * g.elapsed) \div total_game_minutes(g.sport), 0, One)

(* The logistic function at tenths of log odds, up to two; log odds are      *)
(* hundredths: 30 for a goal of lead and 50 for the whole game, whoever leads. *)
Logistic == <<500, 525, 550, 574, 599, 622, 646, 668, 690, 711, 731,
              750, 769, 786, 802, 818, 832, 846, 858, 870, 881>>
safe_sigmoid(x) ==
  IF x >= 0 THEN Logistic[1 + Clamp(x \div 10, 0, 20)]
  ELSE One - Logistic[1 + Clamp((-x) \div 10, 0, 20)]
prior_yes(g) == clamp_prob(safe_sigmoid(30 * Diff(g) + (50 * time_fraction(g)) \div One))

kBookBlend == 200
extract_microprice(micro) == IF micro > 0 /\ micro < One THEN micro ELSE None
estimate(g, micro) ==
  LET mp == extract_microprice(micro)
      kappa == IF mp = None THEN 0 ELSE kBookBlend
  IN  [prior |-> prior_yes(g), blend |-> kappa,
       yes |-> clamp_prob((kappa * mp + (One - kappa) * prior_yes(g)) \div One)]

prior_confidence(frac) == 150 + (450 * Clamp(frac, 0, One)) \div One
blend_prob(prior, market, conf) ==
  LET w == Clamp(conf, 0, One)
  IN  clamp_prob((w * prior + (One - w) * market) \div One)

-----------------------------------------------------------------------------
(* Totals and spreads: a result with a probability or none.                 *)
kProbClamp == 1
kMinTimeFrac == 100
Pinned(p) == Clamp(p, kProbClamp, One - kProbClamp)

(* Dispersions in tenths.                                                   *)
ScoringProfileFor(sport) ==
  CASE sport = "basket"     -> [valid |-> TRUE, poisson |-> FALSE, total |-> 15, margin |-> 12]
    [] sport = "amfootball" -> [valid |-> TRUE, poisson |-> FALSE, total |-> 20, margin |-> 19]
    [] sport \in {"soccer", "hockey", "baseball"} ->
         [valid |-> TRUE, poisson |-> TRUE, total |-> 10, margin |-> 10]
    [] OTHER -> [valid |-> FALSE, poisson |-> FALSE, total |-> 10, margin |-> 10]

(* The normal distribution at halves of its deviation.                      *)
NormalCdf(z2) ==
  <<1, 6, 23, 67, 159, 309, 500, 691, 841, 933, 977, 994, 999>>[7 + Clamp(z2, -6, 6)]

(* P(X > k), X a Poisson variable of mean lambda; k in halves.              *)
ExpMinus == <<1000, 368, 135, 50, 18, 7, 2, 1>>
PoissonSf(k2, lambda) ==
  IF k2 < 0 THEN One
  ELSE IF lambda <= 0 THEN 0
  ELSE LET n == k2 \div 2
           term[i \in 0..n] == IF i = 0 THEN ExpMinus[1 + Clamp(lambda, 0, 7)]
                               ELSE (term[i - 1] * lambda) \div i
           cdf[i \in 0..n] == term[i] + (IF i = 0 THEN 0 ELSE cdf[i - 1])
       IN  Clamp(One - cdf[n], 0, One)

(* Innings are the clock of baseball, counted to the middle of the one on.  *)
TimeFraction(g) ==
  IF g.sport = "baseball" /\ g.status # "NotStarted" /\ ~Terminal(g)
  THEN LET done == IF g.completed <= 0 /\ g.period > 0 THEN g.period - 1 ELSE g.completed
       IN  Clamp((500 + One * done) \div 9, 0, One)
  ELSE time_fraction(g)

Side(p, over) == IF over THEN p ELSE One - p

(* Scores are doubled to be compared with lines.                            *)
TotalsFairYes(g, line, over) ==
  LET prof == ScoringProfileFor(g.sport)
      f == TimeFraction(g)
      current == 2 * (g.home + g.away)
      mu == (One * current) \div f
      rest == mu - current
  IN  IF ~prof.valid THEN None
      ELSE IF Terminal(g)
      THEN Side(IF current > line THEN One ELSE IF current < line THEN 0 ELSE 500, over)
      ELSE IF f < kMinTimeFrac THEN None
      ELSE IF prof.poisson
      THEN Side(Pinned(PoissonSf(line - current, (IF rest > 0 THEN rest ELSE 0) \div 2)), over)
      ELSE LET sigma == (prof.total * ISqrt(100 * (IF rest > 2 THEN rest \div 2 ELSE 1))) \div 10
           IN  Side(Pinned(One - NormalCdf(Over(10 * (line - mu), sigma))), over)

SpreadsFairYes(g, line) ==
  LET prof == ScoringProfileFor(g.sport)
      f == TimeFraction(g)
      margin == 2 * Diff(g)
      current == g.home + g.away
      rest == (One * current) \div f - current
      sigma == (prof.margin * ISqrt(100 * (IF rest > 1 THEN rest ELSE 1))) \div 10
  IN  IF ~prof.valid THEN None
      ELSE IF Terminal(g)
      THEN IF margin > -line THEN One - kProbClamp
           ELSE IF margin < -line THEN kProbClamp ELSE 500
      ELSE IF f < kMinTimeFrac THEN None
      ELSE Pinned(One - NormalCdf(Over(10 * (-line - margin), sigma)))

(* Tennis: home and away are sets; games in tenths, a set has 9.7 of them.  *)
kTennisMuSet == 97
TennisOver(g) == g.home >= 2 \/ g.away >= 2
TennisEarly(g) == g.home_games + g.away_games <= 0 /\ g.home + g.away = 0
SetsLeft(g) == IF g.home + g.away = 0 THEN 15 ELSE 5      \* tenths, after this one
TennisTotalsFairYes(g, line, over) ==
  LET games == 10 * (g.home_games + g.away_games)
      inSet == Clamp(games - 92 * (g.home + g.away), 0, 130)
      toFinish == IF kTennisMuSet - inSet > 20 THEN kTennisMuSet - inSet ELSE 20
      expected == games + toFinish + (SetsLeft(g) * kTennisMuSet) \div 10
      variance == (kTennisMuSet * kTennisMuSet) \div 4 + (10 + SetsLeft(g)) * 40
  IN  IF TennisOver(g) \/ TennisEarly(g) THEN None
      ELSE IF 10 * line < expected \/ 5 * line > 2 * expected THEN None
      ELSE Side(Pinned(One - NormalCdf(Over(2 * (5 * line - expected), ISqrt(variance)))), over)

TennisSpreadsFairYes(g, line) ==
  LET sigma == ISqrt((10 + SetsLeft(g)) * 160)              \* tenths: 4 games a set
  IN  IF TennisOver(g) \/ TennisEarly(g) THEN None
      ELSE Pinned(One - NormalCdf(Over(10 * (-line - 2 * (g.home_games - g.away_games)), sigma)))

(* Esports: home and away are maps of a series of three, all ends of which  *)
(* are weighed by the chance of a map.                                      *)
kEsportsMapsToWin == 2
MapChance(g) == Clamp((One * (g.home + 1)) \div (g.home + g.away + 2), 350, 650)
MapsOver(g) == g.home >= kEsportsMapsToWin \/ g.away >= kEsportsMapsToWin
Ends(g, Holds(_, _)) ==
  LET p == MapChance(g)
      at[s \in (0..2) \X (0..2)] ==
        IF s[1] = 2 \/ s[2] = 2 THEN (IF Holds(s[1], s[2]) THEN One ELSE 0)
        ELSE (p * at[<<s[1] + 1, s[2]>>] + (One - p) * at[<<s[1], s[2] + 1>>]) \div One
  IN  at[<<g.home, g.away>>]
EsportsTotalsFairYes(g, line, over) ==
  LET Exceeds(a, b) == 2 * (a + b) > line
  IN  IF line > 18 \/ MapsOver(g) \/ g.home + g.away = 0 THEN None
      ELSE Pinned(Side(Ends(g, Exceeds), over))
EsportsSpreadsFairYes(g, line) ==
  LET Covers(a, b) == 2 * (a - b) > -line
  IN  IF MapsOver(g) \/ g.home + g.away = 0 THEN None
      ELSE Pinned(Ends(g, Covers))

(* A market of totals or of spreads has a model per kind of sport.          *)
Derivative(kind, g, line, over) ==
  IF kind = "totals"
  THEN CASE g.sport = "tennis" -> TennisTotalsFairYes(g, line, over)
         [] g.sport = "esports" -> EsportsTotalsFairYes(g, line, over)
         [] OTHER -> TotalsFairYes(g, line, over)
  ELSE IF kind = "spreads"
  THEN CASE g.sport = "tennis" -> TennisSpreadsFairYes(g, line)
         [] g.sport = "esports" -> EsportsSpreadsFairYes(g, line)
         [] OTHER -> SpreadsFairYes(g, line)
  ELSE None

-----------------------------------------------------------------------------
(* One fair price, in this order: the model of the market, the sharp odds   *)
(* unless they are frozen, the score as a prior, the market.                *)
ResolveFair(in) ==
  IF in.derivative # None THEN [fair |-> in.derivative, src |-> "derivative"]
  ELSE IF Prob(in.sharp) /\ ~in.frozen THEN [fair |-> in.sharp, src |-> "sharp"]
  ELSE IF in.real THEN [fair |-> blend_prob(in.prior, in.market, in.conf), src |-> "score_prior"]
  ELSE [fair |-> in.market, src |-> "market"]

-----------------------------------------------------------------------------
Sides == {"yes", "no"}
Other(s) == IF s = "yes" THEN "no" ELSE "yes"

(* What is fed, quoted and booked are numbers: -1 where there is nothing.   *)
Numbers ==
  /\ \A g \in Feeds : {g.odds_home, g.odds_away, g.draw, g.seg_home, g.seg_away} \subseteq Int
  /\ \A b \in Books : \A s \in Sides : {b[s].bid, b[s].ask, b[s].micro} \subseteq Int
  /\ \A d \in Desks : {d.equity, d.clv, d.others} \subseteq Int /\ d.size \in Nat
  /\ \A m \in Markets : {m.yes_is_home, m.right} \subseteq BOOLEAN

(* A feed without the vig: the odds of the game, or of a set, add up to one, *)
(* to a rounding.  Only a set of tennis is a segment, and it has no draw.   *)
AddUp(odds) == One - 10 <= odds /\ odds <= One + 10
Devigged ==
  /\ \A g \in Feeds :
       /\ g.odds_home # None \/ g.odds_away # None
            => AddUp(g.odds_home + g.odds_away + (IF g.draw > 0 THEN g.draw ELSE 0))
       /\ g.seg_home # None => AddUp(g.seg_home + g.seg_away)
  /\ \A m \in Markets : m.is_draw => m.seg = 0

DecisionAssumption ==
  /\ {OddsAge, ScoreAge, StableWindow, VelWindow, kCapacity, MinEdge, MaxGap, MinOpenFair,
      PerOrder, PerOutcome, PerCondition, EventCap, Bankroll, MustWin, FeeCoef, NEff,
      MaxTime, MaxMoves} \subseteq Nat
  /\ 0 < OddsAge /\ OddsAge <= ScoreAge /\ ScoreAge <= StableWindow
  /\ kCapacity > StableWindow /\ VelWindow > 0 /\ MaxTime > 0
  /\ 0 < MinEdge /\ MinEdge <= MaxGap /\ MaxGap < MinOpenFair /\ MinOpenFair <= One
  /\ Bankroll > 0 /\ EventCap > 0 /\ PerOrder > 0 /\ NEff > 0
  /\ Numbers /\ Devigged

VARIABLES
  now,
  game, game_ts,   \* the feed's row of the game and its time upstream
  book, market, desk,
  held,            \* sides with a position in the ledger
  flying,          \* sides with an order that is not in the ledger yet
  stops,           \* market_stop_count_
  track,           \* sharp_history_: every sample [ts, sharp, mid]
  quote,           \* what quote_hub_ shows of the market
  tape,            \* the last frame of the tape
  gate_log_ns_,    \* when each gate was logged
  moves

vars == <<now, game, game_ts, book, market, desk, held, flying, stops, track, quote, tape,
          gate_log_ns_, moves>>

Magnitude(x) == IF x < 0 THEN -x ELSE x
Least(S) == CHOOSE x \in S : \A y \in S : x <= y
Most(S) == CHOOSE x \in S : \A y \in S : x >= y
Share(x, permille) == (x * permille) \div One

-----------------------------------------------------------------------------
(* The game's row: YES's side first, and a stub unless the feed has the game *)
(* in play and fresh.                                                       *)
MapEventScoreStatus(s) == IF s \in {"inplay", "halftime"} THEN "InPlay" ELSE "NotStarted"

(* Mutant: the home side is YES. *)
AsFed(home, away) == <<home, away>>

ToYesCanonical(home, away) == IF market.yes_is_home THEN <<home, away>> ELSE <<away, home>>

Stub == [status |-> "NotStarted", sport |-> "none", home |-> 0, away |-> 0,
         home_games |-> 0, away_games |-> 0, elapsed |-> 0, period |-> 0,
         completed |-> 0, odds |-> <<None, None>>, draw |-> None, frozen |-> FALSE,
         ts |-> book.yes.ts]

(* A market of one segment takes the odds of that segment or none.          *)
Odds(es) ==
  IF market.seg = 0 THEN <<es.odds_home, es.odds_away>>
  ELSE IF es.seg = market.seg /\ es.seg_home >= 0 THEN <<es.seg_home, es.seg_away>>
  ELSE <<None, None>>

Score(es) ==
  LET score == ToYesCanonical(es.home, es.away)
      games == ToYesCanonical(es.home_games, es.away_games)
      odds == Odds(es)
  IN  [status |-> "InPlay", sport |-> es.sport, home |-> score[1], away |-> score[2],
       home_games |-> games[1], away_games |-> games[2], elapsed |-> es.elapsed,
       period |-> parse_period_ordinal(es.period, es.sport), completed |-> 0,
       odds |-> ToYesCanonical(odds[1], odds[2]), draw |-> es.draw,
       frozen |-> es.frozen, ts |-> game_ts]

Fresh == game_ts > 0 /\ now - game_ts <= ScoreAge
ResolveGameContext ==
  IF market.mapped /\ MapEventScoreStatus(game.status) = "InPlay" /\ Fresh
  THEN Score(game) ELSE Stub

-----------------------------------------------------------------------------
(* The market.                                                              *)
Within(p) == p > 0 /\ p < One
Mid(side) == (side.bid + side.ask) \div 2
Micro(side) == IF side.micro # None THEN side.micro ELSE Mid(side)
TokenMid(side) ==
  IF ~side.present THEN None
  ELSE IF Within(side.micro) THEN side.micro
  ELSE IF Within(Mid(side)) THEN Mid(side) ELSE None
Devig == devig_binary(IF Within(Micro(book.yes)) THEN Micro(book.yes) ELSE Mid(book.yes),
                      TokenMid(book.no))
cross_spread == IF book.no.present /\ book.no.ask > 0
                THEN book.yes.ask + book.no.ask - One ELSE None

-----------------------------------------------------------------------------
(* The fair price.  A model pinned to an end against a market that is not   *)
(* is given up; without a model the market stands for itself.               *)
DerivativeFor(row) ==
  LET p == Derivative(market.kind, row, market.line, market.over)
      pinned == p <= 20 \/ p >= 980
  IN  IF p # None /\ pinned /\ Devig >= 50 /\ Devig <= 950 THEN None ELSE p
Sharp(row) == IF market.is_draw THEN row.draw ELSE row.odds[1]

conf(row) == IF ~score_prior_applicable(row.sport) THEN 0
             ELSE prior_confidence(time_fraction(row))

(* The model reads the game and the YES book.                               *)
FairValue(row) == estimate(row, Micro(book.yes))

FairInputs(row) ==
  LET d == DerivativeFor(row)
      implied == market.kind # "moneyline" /\ d = None
  IN  [derivative |-> d, market |-> Devig, frozen |-> row.frozen,
       sharp |-> IF implied THEN None ELSE Sharp(row),
       real |-> row.status # "NotStarted" /\ ~implied,
       prior |-> FairValue(row).prior, conf |-> IF implied THEN 0 ELSE conf(row)]

Complementary(odds) ==
  /\ Prob(odds)
  /\ Magnitude(odds + Devig - One) < 80 /\ Magnitude(odds - Devig) > 300
FarOff(fr) == fr.src = "score_prior" /\ Magnitude(fr.fair - Devig) > 450

(* Mutant: old odds are odds. *)
NeverStale(row, src) == FALSE

StaleOdds(row, src) == src = "sharp" /\ row.ts > 0 /\ now - row.ts > OddsAge

(* Odds that look turned around, or old, give way to the market; without a  *)
(* signal of the sharp odds within its band there is no edge.               *)
Signal(fair, src) ==
  LET gap == Magnitude(fair - Devig)
  IN  [yes |-> IF src = "sharp" /\ gap >= MinEdge /\ gap <= MaxGap THEN fair ELSE Devig,
       src |-> src, low |-> src = "sharp" /\ gap < MinEdge]
Trusted(row, in, fr) ==
  IF StaleOdds(row, fr.src) THEN Signal(Devig, "market")
  ELSE Signal(IF FarOff(fr) \/ Complementary(in.sharp) THEN Devig ELSE fr.fair, fr.src)
FairPrice(row, in) == Trusted(row, in, ResolveFair(in))

-----------------------------------------------------------------------------
(* The side: what is held, else the one that is undervalued.                *)
SelectSide(fair) ==
  IF held = {"yes"} THEN "yes" ELSE IF held = {"no"} THEN "no"
  ELSE IF fair >= Devig THEN "yes" ELSE "no"
Of(side, p) == IF side = "yes" THEN p ELSE One - p

-----------------------------------------------------------------------------
(* Edge and size.                                                           *)
fee_per_unit(p) == (FeeCoef * p * (One - p)) \div (One * One)

(* 1.645 deviations of an estimate from n_eff samples; the odds of the      *)
(* bookmakers are no estimate.                                              *)
sampling_error(p) == (1645 * ISqrt((p * (One - p)) \div NEff)) \div One
ResolveEdgeCiLower(src, fair, devig) ==
  IF src = "sharp" THEN fair - devig ELSE fair - devig - sampling_error(fair)
margin_floor == IF cross_spread > 0 THEN cross_spread \div 2 ELSE 0
reservation_buy(src, fair, ask) ==
  fair - fee_per_unit(ask)
       - (IF src = "sharp" THEN margin_floor
          ELSE Most({margin_floor, sampling_error(fair)}))

(* kelly_denom_: of the YES ask what a win pays, of the NO ask the ask.     *)
kelly_denom(ask, side) == IF side = "yes" THEN One - ask ELSE ask

(* Mutant: the caps are of the account's first day and not of its equity. *)
CapsOfTheStart(equity) == One

cap_scale(equity) == Clamp((One * equity) \div Bankroll, 500, One)

Exposure(s) == IF s \in held THEN desk.size ELSE 0
Positive(x) == IF x > 0 THEN x ELSE 0
Caps(side, equity) ==
  {Share(PerOrder, cap_scale(equity)),
   Positive(Share(PerOutcome, cap_scale(equity)) - Exposure(side)),
   Positive(Share(PerCondition, cap_scale(equity)) - Exposure("yes") - Exposure("no")),
   Share(equity, 100)}
SizingCompute(edge, ask, fair, side) ==
  LET equity == Positive(desk.equity)
      net == edge - fee_per_unit(ask)
      kelly == Clamp((One * net) \div kelly_denom(ask, side), 0, One)
  IN  IF ~Within(fair) \/ equity = 0 \/ 10 * edge < 8 \/ net <= 0 THEN 0
      ELSE Least({Share(Share(equity, kelly), 350)} \cup Caps(side, equity))

-----------------------------------------------------------------------------
(* The track of the odds: a ring, of which the newest samples count, by     *)
(* their index.                                                             *)
Ring == {i \in DOMAIN track : i > Len(track) - kCapacity}
Last == track[Len(track)]
Window(w) == {i \in Ring : track[i].ts >= Last.ts - w}
Seen(w) ==          \* the window, and the sample that held at its start
  LET before == Ring \ Window(w)
      held_at_start == {i \in before : \A k \in before : k <= i}
  IN  {track[i].sharp : i \in Window(w) \cup held_at_start}

Gap(s) == Magnitude(s.sharp - s.mid)
Step(i) == track[i].sharp - track[i - 1].sharp
Vol2(w) ==          \* the square of Vol: the mean of the squared steps
  LET steps == Window(w) \ {Least(Window(w))}
  IN  SumFunctionOnSet([i \in steps |-> Step(i) * Step(i)], steps) \div Cardinality(steps)
Diverging(w) ==     \* ConvergenceRate > 0, by how much a minute
  LET first == track[Least(Window(w))]
  IN  Positive((Gap(Last) - Gap(first)) \div (Last.ts - first.ts))

Push(sample) ==
  IF (track = << >> \/ sample.ts > Last.ts) /\ sample.ts > 0 /\ Within(sample.sharp)
  THEN Append(track, sample) ELSE track

-----------------------------------------------------------------------------
(* The multipliers.                                                         *)
MultFloor == 300
MinSamples == 3
DivRef == 600      \* lifecycle_div_ref, of a minute
m_stab == Clamp(One - (500 * ISqrt(Vol2(VelWindow))) \div 20, MultFloor, One)
m_regime == Clamp(One - (500 * Diverging(VelWindow)) \div DivRef, MultFloor, One)
ComputeLifecycleMultiplier ==
  IF track = << >> \/ Cardinality(Window(VelWindow)) < MinSamples THEN One
  ELSE Clamp(Share(m_stab, m_regime), MultFloor, One)
ComputeClvMultiplier ==
  IF desk.clv = None THEN One
  ELSE IF desk.clv >= 0 THEN Clamp(One + 50 * desk.clv, One, 1500)
  ELSE Clamp(One + 100 * desk.clv, MultFloor, One)
ComputeCorrelationMultiplier ==
  LET u == (700 * desk.others) \div EventCap
  IN  IF desk.others <= 0 \/ u <= 500 THEN One
      ELSE Clamp(One - (700 * (Clamp(u, 500, One) - 500)) \div 500, MultFloor, One)
Multiplied(size) ==
  Share(Share(Share(size, ComputeLifecycleMultiplier), ComputeClvMultiplier),
        ComputeCorrelationMultiplier)

-----------------------------------------------------------------------------
(* The gates in front of a new position, the first that stops it named.     *)
liquid_market == market.liquidity >= MinLiquidity
kMaxStopsPerMarket == 2

(* Mutant: the low of YES for both sides. *)
UnsteadyYes(side) ==
  /\ ~(Relax /\ liquid_market) /\ track # << >>
  /\ \E p \in Seen(StableWindow) : p < MinOpenFair

Unsteady(side) ==
  /\ ~(Relax /\ liquid_market) /\ track # << >>
  /\ \E p \in Seen(StableWindow) : Of(side, p) < MinOpenFair

Gate(fair, side) ==
  IF fair < MinOpenFair THEN "min_open_fair"
  ELSE IF ~liquid_market THEN "thin_liquidity"
  ELSE IF desk.clv_breaker THEN "clv_breaker"
  ELSE IF stops >= kMaxStopsPerMarket THEN "three_strikes"
  ELSE IF Unsteady(side) THEN "stable_window"
  ELSE "none"

-----------------------------------------------------------------------------
(* How far the game is, and whether the score has decided it.               *)
phase(row) ==
  IF total_game_minutes(row.sport) > 0
  THEN (One * row.elapsed) \div total_game_minutes(row.sport)
  ELSE IF regulation_periods(row.sport) > 0 /\ row.period > 0
  THEN Clamp((One * row.period - 500) \div regulation_periods(row.sport), 0, 999)
  ELSE 0
near_end(row) == row.status # "NotStarted" /\ phase(row) > 850
DecidedBy(sport) ==      \* the lead, and after how much of the game
  CASE sport \in {"tennis", "volleyball", "esports"} -> <<1, 500>>
    [] sport = "basket" -> <<12, 850>>
    [] sport \in {"amfootball", "rugby"} -> <<16, 850>>
    [] sport \in {"soccer", "hockey"} -> <<2, 820>>
    [] sport = "baseball" -> <<4, 700>>
    [] OTHER -> <<3, 850>>
Winner(row) ==
  IF /\ row.status # "NotStarted"
     /\ Magnitude(Diff(row)) >= DecidedBy(row.sport)[1]
     /\ phase(row) > DecidedBy(row.sport)[2]
  THEN IF Diff(row) > 0 THEN "yes" ELSE "no"
  ELSE "nobody"

-----------------------------------------------------------------------------
(* The whole decision.                                                      *)
PriceOk(side) == side.present /\ Within(side.ask) /\ side.bid > 0
NoDecision(why) == [at |-> why, target |-> 0, forced |-> 0]

net_ev_ok(gap, ask) == 10 * gap >= 20 * fee_per_unit(ask) + 8

tradeable_fair(src) == src = "sharp"

Wanted(fp, gap, ask, size) ==
  IF tradeable_fair(fp.src) /\ net_ev_ok(Magnitude(gap), ask) THEN size ELSE 0
Gated(wanted, fair, side) == IF wanted = 0 THEN "none" ELSE Gate(fair, side)
SellPrice(side) == IF book[side].bid > 0 THEN book[side].bid ELSE book[side].ask
Locks(row, side, ask) ==
  /\ MustWin > 0 /\ Winner(row) = side
  /\ One - ask > fee_per_unit(ask) + fee_per_unit(SellPrice(side))

DecideSize(row, fp, side, fair, size) ==
  LET ask == book[side].ask
      wanted == Wanted(fp, fair - Of(side, Devig), ask, size)
      gate == Gated(wanted, fair, side)
  IN  IF ~PriceOk(book.yes) THEN NoDecision("no_price")
      ELSE IF ~book[side].present \/ ~Within(ask) THEN NoDecision("no_side")
      ELSE [at |-> "decided", row |-> row, src |-> fp.src, side |-> side, fair |-> fair,
            ask |-> ask, size |-> size, gate |-> gate, low |-> fp.low,
            target |-> IF gate = "none" THEN Multiplied(wanted) ELSE 0,
            forced |-> IF Locks(row, side, ask) THEN MustWin ELSE 0]
DecideFair(row, fp, side, fair, ask) ==
  DecideSize(row, fp, side, fair,
    SizingCompute(ResolveEdgeCiLower(fp.src, fair, Of(side, Devig)), ask, fair, side))
DecideSide(row, fp, side) == DecideFair(row, fp, side, Of(side, fp.yes), book[side].ask)
DecidePrice(row, fp) == DecideSide(row, fp, SelectSide(fp.yes))
DecideRow(row) == DecidePrice(row, FairPrice(row, FairInputs(row)))
Decide == DecideRow(ResolveGameContext)

(* What the position control needs to open: a target, no decided loser, no  *)
(* cheap side of a game that ends, an ask within the reservation unless it  *)
(* is to lock a win, and an id that is one.                                 *)
NearEndMaxBuy == 150
Reservation(d) == reservation_buy(d.src, d.fair, d.ask)
Opens(d) ==
  /\ d.at = "decided" /\ market.valid_ids
  /\ d.target > 0 \/ d.forced > 0
  /\ Winner(d.row) # Other(d.side)
  /\ ~(near_end(d.row) /\ d.ask < NearEndMaxBuy)
  /\ d.forced > 0 \/ d.ask <= Reservation(d)
  /\ d.side \notin held

-----------------------------------------------------------------------------
(* What is published and recorded.                                          *)
NoQuote == [fair |-> None, src |-> "none", target |-> 0, size |-> 0, ok |-> FALSE]
PublishQuoteSnapshot(d) ==
  [fair |-> Of(d.side, d.fair), src |-> d.src, ok |-> d.row.status # "NotStarted",
   size |-> IF d.row.status # "NotStarted" THEN d.size ELSE 0,
   target |-> IF d.row.status = "NotStarted" THEN 0
              ELSE IF d.side = "yes" THEN d.target ELSE -d.target]

(* The home side's odds are recorded whatever the market asks for, and      *)
(* whether they are frozen or not.                                          *)
Sample(row) == [ts |-> row.ts, sharp |-> row.odds[1], mid |-> Micro(book.yes)]

(* A frame when something moved, at the tick and before the odds of the tick *)
(* are on the track.                                                        *)
NoFrame == [sharp |-> None, mid |-> None, frozen |-> FALSE, fair |-> None, src |-> "none",
            at |-> 0]
TapeEps == 4
Moved(row) ==
  \/ Magnitude(Last.sharp - tape.sharp) >= TapeEps
  \/ Magnitude(Mid(book.yes) - tape.mid) >= TapeEps
  \/ row.frozen # tape.frozen \/ now - tape.at >= Heartbeat
MaybeEmitMarketTape(d) ==
  IF track # << >> /\ now - Last.ts <= ScoreAge /\ Moved(d.row)
  THEN [sharp |-> Last.sharp, mid |-> Mid(book.yes), frozen |-> d.row.frozen,
        fair |-> Of(d.side, d.fair), src |-> d.src, at |-> now]
  ELSE tape

LogGateBlock(gate) ==
  IF gate = "none" \/ (gate \in DOMAIN gate_log_ns_ /\ now - gate_log_ns_[gate] < Throttle)
  THEN gate_log_ns_
  ELSE [g \in DOMAIN gate_log_ns_ \cup {gate} |-> IF g = gate THEN now ELSE gate_log_ns_[g]]
Blocking(d) == IF d.low THEN "sharp_gap_low" ELSE d.gate

-----------------------------------------------------------------------------
Init ==
  /\ now = 1 /\ moves = 0
  /\ game \in Feeds /\ game_ts = 0
  /\ book \in Books /\ market \in Markets /\ desk \in Desks
  /\ held = {} /\ flying = {} /\ stops = 0
  /\ track = << >> /\ quote = NoQuote /\ tape = NoFrame /\ gate_log_ns_ = << >>

loop == <<held, flying, stops, track, quote, tape, gate_log_ns_>>

(* The feed says something, as of a minute ago or of now.                   *)
FeedReads ==
  /\ moves < MaxMoves
  /\ game' \in Feeds /\ game_ts' \in {now - 1, now} /\ game_ts' > game_ts
  /\ moves' = moves + 1
  /\ UNCHANGED <<now, book, market, desk, loop>>

BookMoves ==
  /\ moves < MaxMoves
  /\ book' \in Books \ {book}
  /\ moves' = moves + 1
  /\ UNCHANGED <<now, game, game_ts, market, desk, loop>>

Passes ==
  /\ now < MaxTime
  /\ now' = now + 1
  /\ UNCHANGED <<game, game_ts, book, market, desk, loop, moves>>

(* The loop decides.  A position on paper is there at once.                 *)
Tick ==
  \E d \in {Decide} :
      /\ d.at = "decided"
      /\ quote' = PublishQuoteSnapshot(d)
      /\ tape' = MaybeEmitMarketTape(d)
      /\ track' = Push(Sample(d.row))
      /\ gate_log_ns_' = LogGateBlock(Blocking(d))
      /\ IF ~Opens(d) THEN UNCHANGED <<held, flying>>
         ELSE IF desk.live THEN flying' = flying \cup {d.side} /\ UNCHANGED held
         ELSE held' = held \cup {d.side} /\ UNCHANGED flying
      /\ UNCHANGED <<now, game, game_ts, book, market, desk, stops, moves>>

Filled(s) ==
  /\ s \in flying
  /\ flying' = flying \ {s} /\ held' = held \cup {s}
  /\ UNCHANGED <<now, game, game_ts, book, market, desk, stops, track, quote, tape,
                 gate_log_ns_, moves>>

(* A position is stopped out, or sold otherwise.                            *)
Leaves(s, stopped) ==
  /\ s \in held /\ held' = held \ {s}
  /\ stops' = IF stopped THEN Clamp(stops + 1, 0, kMaxStopsPerMarket) ELSE stops
  /\ UNCHANGED <<now, game, game_ts, book, market, desk, flying, track, quote, tape,
                 gate_log_ns_, moves>>

Next ==
  \/ FeedReads \/ BookMoves \/ Passes \/ Tick
  \/ \E s \in Sides : Filled(s) \/ \E stopped \in BOOLEAN : Leaves(s, stopped)

-----------------------------------------------------------------------------
TypeOK ==
  /\ now \in 1..MaxTime /\ game_ts \in 0..now /\ moves \in 0..MaxMoves
  /\ held \subseteq Sides /\ flying \subseteq Sides /\ stops \in 0..kMaxStopsPerMarket
  /\ \A i \in DOMAIN track : Within(track[i].sharp) /\ track[i].ts \in 1..now
  /\ quote.ok \in BOOLEAN /\ tape.at \in 0..now

(* New money needs odds: of a game in play, of the segment of the market,   *)
(* not frozen and not older than the limit; the quote of that tick shows    *)
(* the same.  Only a win the score has decided is bought without them.      *)
OpensOnLiveOdds(d) ==
  LET q == PublishQuoteSnapshot(d)
  IN  Opens(d) /\ d.forced = 0 =>
        /\ market.mapped /\ game.status \in {"inplay", "halftime"}
        /\ now - game_ts <= OddsAge /\ ~game.frozen
        /\ market.seg > 0 => game.seg = market.seg
        /\ market.kind # "outright"
        /\ q.ok /\ q.src = "sharp" /\ Magnitude(q.target) = d.target

(* A market that is mapped to the right team is bought on the side the odds *)
(* favour; one that is mapped to the other team is bought only if the       *)
(* market itself is as far from the true odds as the gates leave room for.  *)
TrueOdds(side) ==
  Of(side, Odds(game)[IF market.yes_is_home = market.right THEN 1 ELSE 2])
OpensOnRightSide(d) ==
  Opens(d) /\ d.forced = 0 /\ ~market.is_draw =>
    IF market.right
    THEN TrueOdds(d.side) > Of(d.side, Devig) /\ TrueOdds(d.side) >= MinOpenFair
    ELSE Of(d.side, Devig) - TrueOdds(d.side)
           >= 2 * MinOpenFair - One - MaxGap - 10 - Positive(game.draw)

(* What is asked for stays within half more than every cap and than a tenth *)
(* of the equity, and nothing is asked for without equity.                  *)
TargetBounded(d) ==
  d.target <= Share(Least({PerOrder, PerOutcome, Positive(desk.equity) \div 10}), 1500)

(* The caps shrink with the account.                                        *)
CapsShrink(d) ==
  d.target > 0 /\ 2 * desk.equity <= Bankroll =>
    d.target <= Share(PerOrder \div 2, 1500)

(* Outside the liquid markets nothing is opened on odds that were below the *)
(* limit within the window, as far as the loop has recorded them.           *)
SteadySide(d) ==
  LET from == Last.ts - StableWindow
  IN  Opens(d) /\ d.forced = 0 /\ ~(Relax /\ liquid_market) =>
        \A i \in DOMAIN track :
          track[i].ts >= from => Of(d.side, track[i].sharp) >= MinOpenFair

(* On paper both sides are never held.                                      *)
OneSide == ~desk.live => held # Sides

DecisionHolds ==
  \A d \in {Decide} :
      /\ TypeOK /\ OneSide
      /\ OpensOnLiveOdds(d) /\ OpensOnRightSide(d) /\ SteadySide(d)
      /\ TargetBounded(d) /\ CapsShrink(d)
=============================================================================
