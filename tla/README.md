# A verification project for sports-trader-cpp

This directory holds TLA+ modules for the trading core of `sports-trader-cpp`
(a C++20 system that trades sports markets on Polymarket), the TLC
configurations that check them on small instances, and TLAPS proofs of the
properties that matter most.  Paths below are relative to the repository root
(`src/stcpp/...` and `include/stcpp/...`).

## 1. The system

One process, one binary.  `ExecutionContext::Mode` is fixed at start-up:
*paper* (orders are filled by a local matcher) or *live* (orders are posted to
the Polymarket CLOB).  The parts, how they meet, and the modules that model them:

```
 discovery ─► catalog, subscriptions, poll plan        Discovery, Subscription, BookPoller
 goalserve ─► frames ─► score/odds store ─┐            InplayFrame, ScoreFeed
 matching of markets to games ────────────┤            Matching
 market channel ─► publisher ─► book hub ─┤            WssTransport, BookFeed, BookFlow
 settlement pollers ─► resolutions ───────┤            Settlement
                                          ▼
        TradingLoop   one thread: drain fills, settle, decide, order, book, publish
          │   row, fair price, side, gates, size       Decision
          │   position control, matching on paper      PaperTick
          │   order path, storm halt                   OrderFlow ── RiskGateway
          │   booking of answers and pushes            LiveFills ── ChainBook
          │   ledger, cash, drawdown                   PositionLedger, Account
          │   what the gateway is told of the ledger   Exposure
          ▼
        hubs for observers, journal and snapshot       Hubs, Journal
        process: gates, threads, shutdown, pid lock    Daemon, SingleInstance

        built and tested, not in the daemon's path:    ClobSubscriber, AuditChain
```

The daemon's books come through `LiveWssTransport` and `LiveBookPublisher`; `PolymarketCLOBSubscriber` with its
adapter is an older receiver of the same channel.  The daemon gives the gateway an audit emitter that
discards its records (`trader_daemon.cpp:46`, `:766`); the chained emitter runs in tests.

| component | state it keeps | operations | hard behaviour |
|---|---|---|---|
| `engine/trading_loop` | cash and realised profit, cooldowns, storm window, ids of booked orders, engine labels, settled conditions, the record of fair prices | `Start/Stop/RunLoop/RequestTick`, `TickAll`, `TickOne`, `ExecuteControllerSide`, `DrainUserFills`, `RecoverMissedFill`, `TrySettleResolved`, `SettleToken`, save and restore | callbacks from feed threads, order results that arrive before, after or never, restarts |
| `risk/position_ledger` | position per token, exposure per condition, split per engine | `apply_fill`, `restore_engine_split`, readers | three tables that only move by increments; rebuilt from a file |
| `risk/risk_gateway` | system state, exposures fed by the loop, event gross, seen signal ids, losses | `evaluate`, setters, state changes | order of checks, latches, audit as a precondition |
| `polymarket/live`, `polymarket/gate` | nothing (submitter), armed flag (gate), queue and seen ids (fill feed) | `Execute`, `Submit`, `OnFrame`, `Pop` | an HTTP time-out leaves the order's fate unknown; pushes are late, duplicated, reordered |
| `infra/background_writer` | queue, processed count | `AppendLine`, `WriteFileAtomic`, `Flush` | bounded queue, flush against stop |
| `control/position_controller` | per-token hold state | `Decide` | hysteresis |
| `polymarket/clob_wss` | threads and queue of a channel, subscriptions, numbers of frames, books | connect, close, send, subscribe, snapshot and delta | lost frames, gaps, one connection for the life of the process |
| `*_snapshot_hub`, `rm_debug_snapshot` | latest published value, ring of refusals | `Publish`, `Load`, `Snapshot` | one writer, many readers, no lock |
| `observability/audit_emitter` | append-only records, hash chain | `emit`, verify | a write that fails, two origins at once |
| `infra/wal` | an older ledger over a log whose writer is a stub | `append`, replay | none: `WalWriter::Append` writes nothing, so nothing is read back |
| `infra/process/single_instance` | pid file, lock | acquire, release | several processes starting |
| `app/trader_daemon` | catalog, subscriptions, poll plan, eighteen threads | `Build/Start/Shutdown`, mapping, rediscovery, pollers | order of joins and destruction, listing that comes and goes |
| `app/market_discovery`, `event_matcher`, `team_alias` | none | a round of discovery; matching | a listing that changes while it is read; names that may be two teams' |
| `data/*` | latest score, odds and settlement per game | pollers, parsers, merged store | late, broken and repeated frames; markets of every kind in one list |
| `pricing`, `sizing`, `strategy` | none | pure functions | which source wins, boundaries |
| `stats`, `eval`, `ml`, `microstructure`, `numerical` | statistics | numeric functions | rounding |
| `crypto`, `signer`, `net`, `debug_api` | none that trading reads | signing, HTTP, JSON | I/O |

`PROJECT.json` lists every component with its status, and under `hazards` the
places in this code that a test hardly reaches, each with the properties that guard it.

What has to be true of each part for the system to be right:

- **ledger and money**: the tables (position, condition exposure, engine split) say the
  same thing after any fills, settlements and restarts; the loop never believes to have more
  cash than the exchange owes it; the drawdown multiplier follows the equity.
- **live booking**: every confirmed trade is booked, once, whichever of the answer
  and the pushes comes first.
- **risk gateway**: what it has approved fits the caps, a signal is approved once, a
  kill lasts; its running totals are the sums they stand for.
- **order path**: while the fate of an order is unknown, its token is left alone for a cooldown and,
  unless the cooldown passes without news, its cap holds on the exchange; a retry bug is stopped
  by the storm halt.
- **decision**: new money goes only where fresh odds of the market's own game are, to the
  side they favour, within caps that shrink with the account; a held side rides to
  settlement, its opposite is not bought, an unmoved market is not traded back and forth.
- **feed**: odds are those of this match (or of the set that is played), of the right side,
  with the score, clock and state of the same picture; a store loses no writer's rows.
- **markets**: discovery overlooks no event of its window; a market is matched to its own
  game or to none; a game that is over is dropped, one that is played is subscribed.
- **book and wake-up**: every token of the catalog is subscribed and gets a book; a frame
  whose absence the numbers show is made up for; the loop decides on the last book, on a whole book, and ends when it is told to.
- **settlement**: what the exchange has resolved is paid what the exchange pays, in the end,
  and whatever was forgotten in between.
- **writers and audit**: a line is missing only for a named reason; a flushed snapshot is on disk;
  the audit log is one chain.
- **process**: one engine per machine; real orders need every switch; no thread that is
  joined outlives what it uses.

## 2. The modules

One module per part; its constants carry one named assumption, its actions carry the
names of the functions they stand for, and `map` in `PROJECT.json` gives the lines of
each definition.  `MC*.tla` give the constants values for TLC, `*Proofs.tla` extend a
module with its theorems and have, a section each and over instances, those of components without a
module of proofs of their own (section 4 says which); `SumTheorems` has what is needed of sums.

```
 PositionLedger ◄── INSTANCE ── PaperTick        decisions book through the ledger's operators
 RiskGateway    ◄── INSTANCE ── OrderFlow        orders pass the gateway's own rule
 ChainBook      ◄── INSTANCE ── LiveFills        LiveFills implements ChainBook
 PositionLedger, RiskGateway ◄── INSTANCE ── Exposure   the caps of the one are those of the other

 Account, Exposure                                ◄── INSTANCE ── Money       side by side
 SingleInstance, Daemon, AuditChain               ◄── INSTANCE ── Process
 BookPoller, Decision, Hubs                       ◄── INSTANCE ── Reads
 ScoreFeed, Subscription, InplayFrame             ◄── INSTANCE ── GameFeeds
 Journal, WssTransport, ClobSubscriber, LiveFills ◄── INSTANCE ── Deliveries
```

The modules of the second list put components that share no variable side by side, for a run to check
at once: the one variable each of them adds (`moneyPart`, `processPart`...) names the component a
behaviour follows, and the others stand still.  They say nothing of an interaction.  Money,
Process, Reads and GameFeeds state what is promised of their components together; `MCSafety` extends the
first three (and instantiates Discovery and Matching), `MCGameFeeds` the fourth.  A behaviour of these runs,
seen in the variables of one of the modules, is one of its specification, from fewer initial states.

### Position, orders, decision

**PositionLedger** (`risk/position_ledger.cpp`, and the loop's save and restore).  State:
`token_positions_`, `condition_exposure_`, `engine_pos_`, the snapshot file, and one
history variable, the prices paid for what is held.  `apply_fill` has its mode filter,
the five branches of the entry price, the aggregate and the split; entry prices are
exact fractions.  The loop around it buys, sells at most for what an engine's shares cost (a clamp in
money: below the entry price it is more shares than are held, and the token is short), settles
a token under one label, writes the snapshot and restarts from the last one.

**LiveFills** (`DrainUserFills`, `RecoverMissedFill`, booking of an answer, the seed;
`LiveUserFillFeed`).  State: the exchange's orders and trades, pushes on the wire, the
connection, the feed's queue and seen ids, the loop's position in its tick, held shares,
synced order ids, the cooldown.  The exchange matches, confirms, fails and pushes
again at will; the io thread reads frames while the loop posts.  A confirmation that
arrives while an order is posted and one that arrives right after the answer are the
same to the loop: the queue is drained at the next tick only.  `ChainBook` is what the
loop promises: a set of executed trades, of which the booked ones grow one at a time
and the position is their sum.

**RiskGateway** (`risk/risk_gateway.cpp`).  State: the members that some code feeds.  One
action per feed, and `Evaluate` with the rules in the code's order: state, halts,
idempotency, faults, caps, losses, audit.  Rules on data nothing feeds are one fault of
the intent.

**Exposure** (`FeedRiskGateway` and every handler that calls it).  Ledger and gateway together: the
gateway never reads the ledger, it is told the cost of every token and market after a match, a
recovered fill, a settlement, a sweep of orphans and a restored snapshot, and keeps the sum of an
event in increments over the markets `TickAll` has registered.  The gateway's rule and the
ledger's entry price are those of the two modules.  Catalogs change at any time; a restart
keeps positions and forgets registrations.  `ExposuresAreLedger` is the refinement the feed has to
maintain, `CapsHoldOnLedger` what it is for.

**OrderFlow** (`TickOne` from the cooldown check to the answer, `LiveExecutor`,
`LiveOrderGate`, the storm halt).  State: the clock, the two cooldowns per token, the
storm window, booked exposure, the orders whose fate is unknown and the confirmed ones
in the queue.  Its caps are RiskGateway's rule, instantiated on the booked exposure.
How long answers, verdicts and ticks take is bound by nothing; a token whose order stayed unbooked for a
whole cooldown is `overdue`.  It leaves out what other modules are about: orders of several trades
(LiveFills) and moving prices (PaperTick, Account, Exposure).  A sale is clamped in money, as in the code,
and moves the exposure by its amount.

**PaperTick** (`TickOne` from the chosen fair price on, `ExecuteControllerSide`,
`PositionController::Decide`).  One step is one tick: signing, matching and booking happen
inside the call.  Market, fair price, sizing, drawdown and fill rate are inputs that change
freely between ticks (Decision is about where they come from).  Amounts are money at cost,
positions are shares, and the rounding between them is the code's.  Left out: slippage of
half a tick, the crash stop (off in the daemon), settlement.  The gates that only stop a
purchase for the moment (book turned, end of game, depth, cash, gateway) are a fill rate of
zero.

**Decision** (`TickOne` up to the target; `fair_value_estimator`,
`fair_resolve`, `sizing_calculator`, `SharpFairTrack`).  State: time, the game's row, the
market's book, what is held and in flight, the recorded track of fair prices, whether the
market counts as liquid, the published quote and the tape.  A tick resolves the game's row
(orientation, staleness, segment), takes the first source that has a fair price and trusts
it or not, picks the side, asks for a size, applies the gates of a new position (stable
window, floor, gap, re-entry after a stop) and the multipliers (lifecycle, CLV, correlation;
the drawdown is PaperTick's), clamps to caps that shrink with the account, publishes and
records.  The track is a sequence of all samples, of which those of the ring count: the newest
`kCapacity`, more than a window has minutes, as the code means it (256 samples, two or
three seconds apart, for three minutes).  `DecisionAssumption` also says that odds are fed without
their vig (`ParseInplayOddsDevig` divides by the sum, so the legs add up to one).  Every
estimator is a pure operator: devig, score prior, totals and spreads for clock games,
tennis and esports.  Prices are per mille; logistic, normal and exponential functions
are monotone tables.

**Account** (`account_equity`, the cash gate, the drawdown multiplier, `SaveLedgerSnapshot`,
`RestoreLedgerSnapshot`, `SeedLivePositionsFromOnchain`).  The cash identity over capital,
cost of positions, realised profit and fees, next to the wallet and the shares of the
exchange; a tick freezes cash and equity at its entry and its gate reckons with the fee the code
estimates, the fee that is booked being more (finding 21); a sale is clamped in money; a crash between two steps, a restart
from the last snapshot on paper or from the chain in live mode, redemption before or after
the loop has settled.  The history variable `unseen` is what the cash is too high by for a reason the loop
cannot know of: the fees of fills it recovered from a push, and, after a live restart that found no
position, the profit the process before it had made; and, on paper, what buying back an oversold
token cost beyond its entry price.

**Settlement** (`SettlementPoller`, `RefreshResolution`, `TrySettleResolved`, `SettleToken`,
`SettleOrphans`).  The exchange resolves or closes a condition, the feed ends the game; the poller
asks, remembers and prunes; the loop settles from either source, keeps the set of settled
conditions (which a restart forgets) and sweeps what the catalog has dropped.  A market whose YES book is absent or broken is not decided and,
as the test comes first, not settled either in that tick (`SkipUnpriced`); a later tick does, or the sweep once it has left the catalog.

### Feeds and markets

**InplayFrame** (`inplay_score_parser.cpp`, `inplay_odds_parser.hpp`,
`InplayFeedThread::ToEventScore`).  A game goes on; the bookmaker lists markets under names and
in an order of its choice and suspends legs.  The parser picks the result market by the ids of
the dictionary or by its name, its legs by name or place, takes the vig out, and does the
same for the set that is played; score, clock, period, state and time stamps come from the same
picture.  A frame's time stamp may lie ahead of its arrival, which the parser warns of and keeps.
Names are the sets of phrases they contain.  Left out: the scanning of text and the
enumeration of the games in a frame.  `FrameAssumption` says what a reader of names can rely on: the legs
of a market are told apart by Home, Draw and Away, or by their order where there are two, and what the
code reads out of a market's name is true of the market.

**ScoreFeed** (`InplayFeedThread`).  One thread per sport: fetch (reply, framing, length),
inflate, parse, merge, publish, and `Stop` at any point; supplementary sources that add
games no entry names.

**Matching** (`event_matcher.cpp`, `team_alias.cpp`).  Names are sequences of words, similarity
is exact in sixtieths; tables by one entry of each kind; the three ways to identify a party,
the time windows, the ambiguity rule and the orientation; of the games that pass, the one most alike,
and of equals the first.

**Discovery** (`market_discovery.cpp`).  One round by offset over a listing to which events are
added and from which they are taken in between; failing pages; the filters; the three ends of a round.
A page is a set of places, read up to the first that ends the round.  `DiscoveryAssumption` says
that a page holds more events than are listed while a round lasts and cannot be parsed together: with
more of them a full page might show nothing new.

**Subscription** (`RefreshEventMapping`, `RediscoverOnce`, `PopulateCatalog`).  Grace periods,
blacklist of finished games, the difference that is sent and the catalog that is kept.

**BookPoller** (`RunActiveBookPoller`).  Smooth weighted round robin whose weights follow the
books and whose plan may change.  A round of all tokens is not what it grants: a token that leaves
the plan takes its credit or debt with it, and what the others are left with adds up from change to
change.  `NoStarvation` therefore asks for (4n − 2) · heaviest / lightest requests of n
tokens, which is the bound that holds whatever came before (section 4).

### Books

**BookFlow** (`LiveBookPublisher::ParseObject`, `OrderBookSnapshotHub`, `RequestTick`,
`RunLoop`, `TickAll`, the pollers, `Shutdown`).  Every access to shared memory is a step:
read the shown book (head, then tail), compare, write the hidden buffer (head, then
tail), flip, set `tick_pending_`; the loop consumes the flag, chooses a buffer, copies
it, tests the flag, sleeps.  A struct that is copied while it is written is a mix of
head and tail.  Left out: `ResetToken`, the bound on tokens (BookFeed has it), books that fail
validation, the record of trades, and the close of the transport, which comes after the loop.

**BookFeed** (`RediscoverOnce`'s half on the channel, `OnConnected`, `SeedFromRestBooks`,
`GetOrAllocSlot`).  Three threads that subscribe, seed and publish.

**ClobSubscriber** (`PolymarketCLOBSubscriber`, `OrderBookAdapter`).  Frames show a number or none
and may be lost or refused for their time stamp; gaps, both queues, the two channels and what each
asks for on a connection.  The code compares a number with the one before it, so a frame that is lost
between two numbered ones is noticed (`hole`, kept by the exchange's own numbers and not by the
detector's), a lost first book and a loss among unnumbered frames are not: `GapHeals` speaks of the first only.

**WssTransport** (`LiveWssTransport`).  The owner, the io thread and the send thread around
one connection, `stop_`, one condition variable and one queue.

### Files, observers, process

**Journal** (`BackgroundWriter`, the journal of fills and the ledger's snapshot).  Queue, batch,
buffers per file, `Flush` against the stop, files that cannot be opened, a torn last line, and
the start that reads the tail back.

**AuditChain** (`audit_emitter`).  A chain step under the lock and a write outside it.

**Hubs** (`quote_snapshot_hub`, `ledger_snapshot_hub`, `rm_debug_snapshot`).  Two words per
value, read and written one at a time.

**Daemon** (`trader_server_main`, `paper_runtime_main`, `TraderDaemon`).  The main thread
runs a program the configuration fixes (gates, build, start, shutdown, destruction); the
threads only meet it at the joins, so one of them, any, is followed; the three supplementary refreshers,
which `Shutdown` does not join, are in the model and excepted by name from `NoUseAfterDestroy` (finding 16).

**SingleInstance** (`infra/process`).  Processes, directory entry, file, `flock`.

Each module names its bounds as constants; no theorem depends on their values.

## 3. The runs

| run | module, configuration | states | shows |
|---|---|---|---|
| `position_ledger` | `PositionLedger`, `MCPositionLedger.cfg` | 486 408 | `ExposureIsSum`, `HeldIffPriced`, `AvgWithinPaid`, `EngineSplitIsAggregate` through fills, oversales, settlements, saves and restarts |
| `live_fills` | `LiveFills`, `MCLiveFills.cfg` | 52 689 | nothing lost, nothing twice, everything booked in the end, and `ChainBook` implemented until the first restart |
| `risk_gateway` | `MCRiskGateway` | 22 356 | totals are sums, caps hold for every approved order, one approval per signal, the kill is final |
| `order_flow_caps` | `MCOrderFlow` | 1 311 766 | unbooked orders of a token a cooldown apart, the token's cap on the exchange unless one was overdue, the storm bound |
| `paper_tick` | `MCPaperTick` | 3 318 | no switch of sides, ride to settlement, no churn |
| `book_flow` | `MCBookFlow` | 377 449 | no change missed and no torn book without an overlap; in any case the loop catches up and ends |
| `settlement` | `Settlement`, `MCSettlement.cfg` | 354 114 | `PaidByExchange`, `EventuallySettledUnlessClosed` |
| `settlement_closed` | `Settlement`, `MCSettlementClosed.cfg` | violation | a market seen closed before it had a winner is never asked for again |
| `book_feed` | `BookFeed`, `MCBookFeed.cfg` | 85 311 | `EventuallySubscribed`, `EventuallyFed` |
| `game_feeds` | `MCGameFeeds` | 31 359 | `RowsAreTrue`, `ScoresFlow`, `SubscriptionsFollow` |
| `deliveries` | `Deliveries`, `MCDeliveries.cfg` | 100 260 | `NothingVanishes`, `FramesArrive`, `RecordsArrive` |
| `safety` | `MCSafety` | 944 301 | `MoneyHolds`, `LogsHold`, `NoStarvation`, `ProcessHolds`, `ReadsHold`, `NewMoneyHolds`, `RightGames` |

`game_feeds`, `deliveries` and `safety` check components **side by side** (section 2): one run for
several instances, which says nothing of their interaction.
Components that interact are in one module (BookFlow: publisher, hub and loop; LiveFills:
exchange, feed and loop; Exposure: ledger and gateway; Settlement: exchange, poller, discovery and loop; BookFeed: mapping,
seed, io and send threads; Daemon: main thread and any other) or are instantiated as above.

What the properties with collective names consist of:

- `MoneyHolds`: `BooksBalance` (on paper the cash is the wallet, but for the entry cost of tokens that were
  oversold; live it is at most the wallet, what is owed and what is `unseen`), `EachPurchaseCovered` (the
  fees aside, and in ticks in which no token is short), `DrawdownBetween` (whatever path the equity took, the
  multiplier lies between what the drawdown allows and what it allows with the band);
  `ExposuresAreLedger` and `CapsHoldOnLedger` of Exposure.
- `NoStarvation`: no token of the plan waits longer than its weight allows.
- `LogsHold`: `OneChain`, `VerifyAcceptsRecent`.
- `ProcessHolds`: `OneEngine`, `NoUseAfterDestroy`, `RealMoneyIsDeliberate`.
- `ReadsHold`: `OnePublicationRead`, `RowsAreTheirOwn`.
- `NewMoneyHolds`: `OpensOnLiveOdds`, `OpensOnRightSide`, `SteadySide`, `TargetBounded`,
  `CapsShrink`, `OneSide`.
- `RightGames`: `KeptOnce` and `NothingMissed` of Discovery; `OwnOrMistakable`, `OwnIsFound` and
  `Mirrored` of Matching.
- `RowsAreTrue`: `StoreIsWhole` of ScoreFeed; `MatchIsPriced`, `SetIsPriced`, `ScoreIsPlayed`,
  `ClockIsPlayed`, `StateIsPlayed` of InplayFrame.
- `ScoresFlow`: `NeverBack`, `SeenOnce`, `StopReturns`.  `SubscriptionsFollow`: `EndedIsDropped`,
  `LiveIsSubscribed`, `NoFlap`.
- `NothingVanishes`: `NoUseAfterFree`, `UserAsksForAll`, `NoRowVanishes`, `FlushedIsWritten`,
  `NoHoleInRing`, `NoTradeLost`.  `FramesArrive`: `EventuallySent`, `GapHeals`.
  `RecordsArrive`: `EventuallyWritten`, `EventuallyBooked`.

### Bounds, and why they are enough

- `position_ledger`: one market (markets do not share state), its two tokens, two
  engines (one to act, one to be hurt), sizes 1 and 2 up to three shares (reduce,
  close and buy again all happen; as many may be owed), two prices (a mean lies strictly between), five fills.
- `live_fills`: a purchase and a sale on one token (the ledger's sign matters), three
  pushes per trade with a memory of one id (a repeated push gets past the feed), a queue of two,
  failing trades, a dying channel and one restart, so that everything that can be full, lost or
  forgotten is.  Orders are one trade there, and `EventuallyBooked` and `ChainBook` hold; the instance of
  `deliveries` has an order of two trades and every memory at one.
- `risk_gateway`: two markets that move between two events, exposures on both sides of
  zero, a bankroll that changes the thresholds, two signals; caps reached exactly and
  passed by one.
- `order_flow_caps`: two tokens of one market; a time unit is the shortest pause, the cooldowns are three and
  four, the window two, the storm limit one, three orders.  An order is thus answered, cooled and ordered
  again, or left overdue, within the horizon of six.
- `paper_tick`: a dollar is twenty ticks; the market is a favourite or a loser, the fair
  price agrees or disagrees, the odds feed is there or not.  Two trades are an opening
  and its undoing.  A position left by an earlier process is one of the initial states.
- `book_flow`: a book that moves twice, one io thread, one poller: the two writers an
  overlap takes.  The contents are given as a sequence; a book that moves and moves
  back is the sequence x, y and the initial absence of a book.
- `settlement`: one condition (conditions share only the poller's memory, whose pruning is an
  action), two purchases, so that one may follow the settlement, one restart.
- `book_feed`: two tokens, one of which comes and goes, two rediscoveries (there and back),
  a hub with room for both.
- `game_feeds`: two sports, one supplementary source, a game that both list; two events of two
  markets, a grace period and a blacklist that run out; six openings of five sports, two
  markets of one game at a time (the right one and one that could be taken for it, in either
  order), four moves between opening and frame.
- `deliveries`: two messages and two connections; a token with four frames of which any may be
  missing, a break; a queue of two, three fills, one snapshot, one restart, one failing file
  (two snapshots hold as well: 198 627 states; the theorem on `Flush` is for any number).
- `safety`: for the money one token, two prices, a win or a loss, two trades of one or two shares, so that
  a token is oversold, bought back or settled short, and one restart (Account by itself holds with three
  trades as well: 4 471 259 states);
  three records of two threads; three tokens in two plans; three processes with
  two retries; every command line and environment; three publications; five events, three to a
  page; two markets of one
  event with three tokens, of which two fills pass any cap, a restart or a recovered fill; every market of a list of hard names against every two games of such a list; a decision
  over three minutes, two moves and every combination of market and desk of its lists.

### Deadlock

It is checked in `live_fills`, `risk_gateway`, `order_flow_caps` and `paper_tick`: there the loop
can always tick, or a feed can always step.  In `position_ledger` the bound on
fills ends the behaviour, in `book_flow` and `settlement` a system that is shut down or settled
may stop, as it should; in the side-by-side runs and `book_feed` the bounds of the
components end behaviours.  Where a thread must not wait for ever, that is a
liveness property (`ShutdownEnds`, `StopReturns`, `EventuallySent`, `EventuallyWritten`).

### Fairness

Weak fairness of a thread means: no step of it blocks for ever, because each of its calls has
a time limit or is woken.  Strong fairness is used where a step can be disabled
and enabled again or can fail, and must not fail for ever.

- `LiveFills`: weak fairness of the loop's step (the heart beat ticks without any event, and a
  request is answered or times out after three seconds), of the io thread and of the seed (three reads, each
  with a time-out).  Nothing is assumed of the exchange.
- `BookFlow`: the loop, `ParseObject` on the io thread, each poller (it goes on asking until it
  is told to stop) and the step of `Shutdown` that follows the join.  The WSS may lose every frame,
  and nobody has to shut down.  `CatchesUp` is therefore a statement about pollers and heart beat.
- `Settlement`: the cycles of the mapping thread, the poller and the loop; strong fairness of
  a successful answer for each condition; the process is started again after a crash, and a market
  that is over leaves the discovery in the end.
- `BookFeed`: mapping, io, send and seed threads; strong fairness of a successful REST answer
  per token.  The channel may die at any time and stays dead.
- `ScoreFeed`, `Subscription`: the threads' cycles; strong fairness of a discovery that is not
  empty (a listing that stays empty proves nothing: the code keeps what it has).
- `WssTransport`, `ClobSubscriber`, `Journal`: the threads; for the channel also the exchange,
  which answers a request and goes on sending while the bound on its frames allows;
  strong fairness of the timed write, for a second is up again and again.

## 4. The proofs

Every theorem holds for all values of the constants that satisfy the module's assumption.

| module | theorems | argument |
|---|---|---|
| `PositionLedgerProofs` | `SpecTypeOK`, `SpecExposureIsSum`, `SpecHeldIffPriced`, `SpecEngineSplitIsAggregate`, `SpecAvgWithinPaid` | the invariant speaks of the snapshot too, because a restart makes it the ledger, and it says that a token without an entry holds nothing; a weighted mean of two fractions lies between them |
| | `SpecExposuresAreLedger`, `SpecCapsHoldOnLedger` | Exposure: each exposure is the cost of what the ledger holds, the sum of an event that of its registered markets; the rule was checked on these sums, so unless a market was not registered, a fill came past the rule or a token was oversold, the ledger's own sums are within the caps |
| | `SpecBooksBalance`, `SpecDrawdownBetween`, `SpecEachPurchaseCovered` | Account: `BooksInv` is the cash identity with wallet, outcomes and snapshot; `BetweenInv` ties the multiplier to the drawdown recorded last; `CoveredInv`: at every point of a tick in which no token is short the cash of its entry is what its purchases took and what is left, with the fees of the tick put back |
| | `MoneyMoneyHolds` | Money: a behaviour of the two side by side is one of each; the types of Account and Exposure |
| `LiveFillsProofs` | `SpecTypeOK`, `SpecBookedAtMostOnce`, `SpecNoTradeLost`, `SpecImplementsChainBook` | `Once`: a counted trade's order is remembered as synced, and an awaited order has no counted trade; `Complete`: a remembered trade id is queued or accounted for, and of a synced order a trade is counted |
| | `SpecJournalHolds` | Journal, `JournalInv`: the counts are those of the items, so a Flush waits for all there is, and the snapshot asked for is in the file or on its way with nothing older behind it; the rows of file, buffers, batch and queue are in the order of the fills and, with those a named event lost, all of them; the ring has the newest |
| | `SpecNoUseAfterFree` | WssTransport, `TransportInv`: a connection is freed where no thread is between taking and using it |
| | `SpecUserAsksForAll` | ClobSubscriber, `UserInv`: what is remembered is asked for, or will be with the connection |
| | `SpecNothingVanishes` | Deliveries: a behaviour of the four side by side is one of each |
| `RiskGatewayProofs` | `SpecTypeOK`, `SpecApprovedOnce`, `SpecKillIsFinal`, `SpecApprovedWithinCaps`, `SpecEventGrossIsSum`, `SpecApprovedWithinEventCap` | an approved signal is seen; a kill has halted the state; the caps follow from the rules of the step itself, in any state; an increment moves the sum of one event by the change of one market |
| `OrderFlowProofs` | `SpecStormBounded`, `SpecUnbookedApart`, `SpecTokenCapOnChain`, `SpecTypeOK` | the window is a suffix of the history and what lies before it is older than the window; an unbooked order set a cooldown of its token, so the next one comes a cooldown later, when the first is overdue |
| | `SpecDiscoveryHolds` | Discovery: an event that stays and has not slid never moves forward, so what has not been seen lies beyond the offset; of what lies beyond, no more has been seen than was listed meanwhile, so a full page shows something new |
| | `SpecMirrored` | Matching: a game as good both ways round passes neither way round, so for a market turned round the same games pass, as much alike and the other way round |
| `PaperTickProofs` | `SpecNeverSwitches`, `SpecRideToSettlement`, `SpecNoChurn` | only the selected side is bought and a held side is selected; while the game is undecided its target is at least its cost, drawdown included; what the last tick bought it bought a margin below the fair price it saw (`BoughtBelowFair`) |
| | `SpecDecisionHolds` | see below |
| | `ReadsNewMoneyHolds` | Reads: where a behaviour follows the decision, it is one of Decision |
| `BookFlowProofs` | `SpecTypeOK`, `SpecNoChangeMissedAlone`, `SpecWholeUnlessLapped` | of the threads between read and publish there is one, what it read is still shown, it writes the hidden buffer, and what is shown has been decided on or will be |
| | `SpecNoStarvation` | BookPoller, `PollerInv`: what any k of n tokens have gathered together, or owe, is at most k(2n − k) times the heaviest weight; a token that waits gathers the lightest weight per request at least |
| | `SpecHubsHold` | Hubs, `HubInv`: the shown buffer is whole while at most one publication meets a reader; `RingInv`: a row with an even mark has the words its number says |
| | `ReadsNoStarvation`, `ReadsReadsHold` | Reads: a behaviour side by side is one of the poller and one of the hubs |
| `SystemProofs` | `SpecPaidByExchange` | Settlement: whatever anybody holds of a resolution (poller, loop, the frozen inputs of a tick) is what the exchange says, for the exchange does not take it back |
| | `SpecOneEngine` | SingleInstance, `LockInv`: the process that runs holds the lock of the file the path names |
| | `SpecOneChain`, `SpecVerifyAcceptsRecent` | AuditChain, `ChainInv`: the shared hash commits to the numbers given so far, every one of which is written, being written or known to be missing; the ring has the last places |
| | `SpecStoreIsWhole`, `SpecNeverBack` | ScoreFeed, `FeedInv`: a writer between read and publish holds the lock, so what it merges into is what is shown |
| | `SpecRealMoneyIsDeliberate`, `SpecNoUseAfterDestroy` | Daemon, `DeliberateInv`: the loop is started only past the gates; `JoinedInv`: beyond the join of a thread the thread is done, and the joins come before the first member is destroyed |
| | `SpecNoFlap` | Subscription, `SubscriptionInv`: the tables take the markets of an event together, so the age of a market's odds is never above the silence of its event |
| | `SpecFrameHolds` | InplayFrame: see below |
| | `ProcessProcessHolds`, `ProcessLogsHold`, `FeedsRowsAreTrue` | Process, GameFeeds: a behaviour side by side is one of each component; the types of SingleInstance, Daemon, AuditChain, ScoreFeed and Subscription |
| `SumTheorems` | lemmas | sums over a finite set of numbers: empty, one more, one less, two disjoint parts, functions that differ at one place, bounds; the least and the largest of finitely many; `FoldsExist`: what is defined by picking one element after the other of a finite set exists, and its values stay where its steps do |

**The poller.**  The credits of a plan do not add up to nothing once the plan has changed, and the
credit of one token has no inductive bound of its own: what one gathers the others may owe.  The
invariant bounds every set of tokens at once, by CreditRoom(n, h, k) = k(2n − k)h.  A request adds to the
tokens of a set their weights and takes the sum of all from the one that had gathered most.  A set without
that one has gathered at most its share of the set with it, whose room bounds it (`RoomAbove`); a set
with it owes at most what the whole plan did, whose sum a request does not change, and the
others, each of which had gathered no more than the picked one (`RoomBelow`).  A token
that leaves the plan is taken out of every set, and room grows with size.  The first version
of the property, one round of n requests at the heaviest weight, had passed with three tokens and is false
for four.

**The decision.**  `SpecDecisionHolds` states all that `NewMoneyHolds` checks.  Its invariant is
small: the inputs are of their sets, samples are of rising times, and on paper no order is on its
way.  The rest is about one step, a lemma for each promise.  A source "sharp" means a row of a game in
play, fresh and not frozen (`SharpIs`); a size is within each cap for it is the least of them
(`SizeIs`), and no multiplier but that of the CLV exceeds one (`MultipliersAre`); a wish that is not
nothing has a gap to the market, so the price is the odds themselves and the side the one they favour
(`WishIs`, `OpeningIs`); on a market that is mapped to the other team the two odds add up to one, which
leaves the bound of `OpensOnRightSide`; a sample of the window is among the newest `kCapacity`, as no
two have one time (`SteadyHolds`).  The estimators are not expanded: no purchase that
is not forced rests on them.

**The frame.**  `SpecFrameHolds` says of every frame what `RowsAreTrue` checks.  Only the type is
inductive: a market is listed once, and sets of tennis are played to their end, one after the other.  The
rest is about one frame.  Legs that are legible are read as their sides, whether by name or by
place, so the chances are the market's; the first market whose name fits is about the match, or the set in
play, because names are true as far as they are read; what is left of a period and the periods begun
give the time played.

**Discovery.**  The hazard is the offset: what is taken off before it moves the rest under it.  The
invariant follows the events that stay and have no earlier one taken off (`slid`): a listing puts events in,
which moves the others back only, so whichever of them has not been seen is still ahead.  That the
round does not stop before it reaches them needs the other half: a full page with nothing new would end it.
A page shows `kPageSize` places, and those beyond the offset that were seen before are there
because something was listed in front of them (`SeenAgain` is at most `listings`), so
`DiscoveryAssumption` leaves one that is new.

**Sums.**  Ledger, gateway and account keep totals by increments, which TLC checks against a sum
over a set.  For any set this needs induction over finite sets, which the library states with an operator
as parameter; `SumTheorems` gets it from the well-foundedness of strict inclusion among the finite
sets, which is stated with sets, and all later proofs use its lemmas only.

Assumptions beyond types:

- `SpecNoTradeLost` and `SpecNothingVanishes` assume nothing of how an order is matched; what they say of
  an order of several trades is that one of them is booked (finding 1).
- `SpecBookedAtMostOnce` speaks of one process whose memory of order ids (20 000 in the
  code) has not overflowed, and `SpecImplementsChainBook` of the first process (finding 2).
- The theorems on unbooked orders assume nothing of the time the exchange takes.  `SpecTokenCapOnChain`
  excepts a token that was left unbooked for a whole cooldown (20 s for a delayed answer) instead: nothing in
  the code prevents that.  A tick may post up to seven orders of three seconds each before the storm
  halt, so the margin is small; this is the first thing to watch in operation.
- `SpecNoChangeMissedAlone` and `SpecWholeUnlessLapped` exclude overlapping publishes (finding 5).
- `SpecCapsHoldOnLedger` assumes `CapsOn`: the caps are positive, for the gateway takes a cap of
  zero for none.  Its premise `blind` is finding 20.
- `SpecEachPurchaseCovered` leaves out the fees of the tick, which the gate underestimates (finding 21), and ticks
  in which a token is short.
- `SpecOneEngine` is about processes without the signal handler that no program installs (finding 17).
- `NoUseAfterDestroy` itself excepts the three supplementary threads that are left to the destructor, which
  violate it (finding 16).
- `SpecDecisionHolds` assumes `DecisionAssumption`: odds without their vig, and a ring larger than the
  window.
- `SpecDiscoveryHolds` and `SpecFrameHolds` assume what section 2 says of Discovery and InplayFrame; that of
  Matching has types only, that of Subscription that there are finitely many events.
- The theorems of the side-by-side modules assume what those of their components do: `MoneyMoneyHolds`
  assumes `CapsOn`.

Only model-checked: the liveness properties (`EventuallyBooked`, `CatchesUp`, `ShutdownEnds`, `SeenOnce`,
those of settlement, feeds, books and files), which rest on fairness and are out of the prover's
reach; `OwnOrMistakable` and `OwnIsFound` of Matching, which say of a list of hard names that they are
matched to their own games: with other names they need not hold (finding 10), so there is nothing to prove for all.
`RightGames` is therefore proved for its other parts only (`SpecDiscoveryHolds`, `SpecMirrored`); the other
collective invariants of the side-by-side runs are theorems of the modules that state them.  No module has a RECURSIVE operator.

## 5. What the runs found

One run ends in a counterexample to something the repository says of itself (`findings` in
`PROJECT.json`): **a market the poller has seen closed before its winner was named** is
never asked for again, and its position is never settled (`settlement_poller.hpp:88`).

The others are counterexamples met on the way.  Each is reproduced by the constants named with it; the
runs above use values or premises that exclude them, as said.

*Orders and positions*

1. LiveFills, `TradesPerOrder = 2`: an order of two trades whose answer was lost is
   booked in part (the last disjunct of `NoTradeLost` cannot be left out), for `RecoverMissedFill` marks the whole order as synced (`trading_loop.cpp:553`;
   `trading_loop.hpp:1048` says the opposite).
2. `LiveFills`, `MaxRestarts = 1`: the seed of a restart has a trade whose push comes later and is
   booked again (`trading_loop.cpp:2954` against `:526`).
3. OrderFlow: a cooldown is one token's, so orders of unknown fate on several markets of an event are each
   judged by what is booked and may together pass the cap of the event (`trading_loop.cpp:2503`;
   `live_risk_profile.hpp:12`).  No property says otherwise.
4. PaperTick, with the constants of `paper_tick` and `positions[s].shares >= 0` as invariant: a sale below
   the entry price sells more shares than are held (sixty shares bought at four are sold for their cost at a
   bid of three, which is eighty; `trading_loop.cpp:2588`: the clamp is money at cost, the fill is shares at
   the bid), although the comments at `trading_loop.cpp:2575` and `position_controller.hpp:253` say that the
   controller keeps the position from going negative.
   PositionLedger, Account and Exposure make such sales, and their properties say what holds of a token
   that is short.  In live mode the exchange has no more shares to sell than there are.
5. `BookFlow` without the exclusion of overlaps: a poller reads the old book, the io thread publishes
   a change, the poller publishes the old book as unchanged; the loop sleeps on a book that is no
   longer shown until the next change or the heart beat (`live_book_publisher.hpp:320`).
6. Account, `MaxBuysPerTick = 2`, `CashNeverOverdrawn` as invariant: two purchases of a tick are checked against
   the same frozen cash and may overdraw it together; the comment at `trading_loop.cpp:2399` calls
   this conservative.  `EachPurchaseCovered` is what does hold.
7. `Account!BooksBalance` without its `unseen`: the fee of a trade recovered from its push is never added to
   `cum_fee_pusd_` (`trading_loop.cpp:512`–`588`), and a live restart without positions adds the restored
   profit to a capital that was read from the chain and has it already.  On paper, a token that is short locks no
   cash but the sale is counted as profit over its entry cost, and buying it back realises nothing.
8. Decision: a win the score has decided (`must_win_lock_usdc`) is bought without any odds, against
   "entries need a source of odds" (`trading_loop.cpp:1719`); the track of sharp prices gates and
   scales although a comment says it is only observed (about `:3970`); a draw market's stable window
   reads the home odds; with live orders in flight both sides may be bought; the orientation guard
   overlooks a market that is within the gap of both orientations (so `OpensOnRightSide` has a second
   branch); odds that are too old are still recorded in the track, and odds read in a tick that
   returns early are not.  Among the estimators: on an integer line of an esports spread a push counts as a loss for
   both sides; the score prior adds a term in time whoever leads.

*Feeds and markets*

9. InplayFrame: a tennis set at 6:5 counts as won (`inplay_score_parser.cpp`, about line 828), so score
   and current set run one ahead; of a three-way market whose draw is suspended the vig is taken
   as of a two-way market; three legs without names are read by place when one is suspended;
   the participants of a market that has none are those of the next one
   (`inplay_odds_parser.hpp`, about line 106); a half-time text without a number gives the clock of
   the end of regulation in sports that count by halves or periods; a frame without a time stamp takes
   the time of its arrival and so never looks old; one game nested too deep makes the whole frame
   unreadable, while a well-formed frame without games takes all games of its sport away.
10. Matching: of parties in no table half the words of the shorter name are enough, so the right
    kickoff and two shared words match "Oxford United – Hull City" to "Cambridge United –
    Lincoln City"; the sport of a candidate is not looked at; an accent that the surname
    is compared with unfolded hides it.  `OwnOrMistakable` and `OwnIsFound` name these cases.
11. Discovery: a page that cannot be fetched is the end of the listing (`market_discovery.cpp:732`) and
    the shortened result replaces the catalog; fifty pages in a row without an event of the
    window end the round (`kEmptyPageStop`); an event slides past the offset when an earlier one is taken off.
12. Subscription: an empty discovery keeps everything; `LowLeagueIsOut` fails: the low leagues are
    taken out of the catalog and not out of what is subscribed.  ScoreFeed: with `MayTruncate = TRUE` `StopReturns` fails,
    a truncated gzip keeps the thread in its loop (`inplay_feed_thread.cpp:271`–`291`).

*Books and channels*

13. `BookFeed!OwnBook`: two threads that ask for a slot at once get the same one; the hub says it is
    written by one thread (`orderbook_snapshot_hub.cpp:32`), the daemon that it is thread safe
    (`trader_daemon.cpp:1469`).  `ResetToken` frees no slot, so the hub fills up.
14. `WssTransport!CloseReturns`: `stop_` is set and notified without the mutex, and a send thread between
    its test and its sleep waits for ever (`live_wss_transport.hpp:242`).
15. ClobSubscriber: a token subscribed at run time is not asked for again after a reconnection; a full sink
    drops a frame unnoticed.  The watchdogs report a dead channel and never reconnect it.

*Process, files, observers*

16. `Daemon!NoUseAfterDestroy` with the key of the supplementary feeds: their threads are joined
    by the destructor, after the members they use are gone (`trader_daemon.hpp:408`,
    `trader_daemon.cpp:1599`–`1689`; the comments there give the rule, a thread is joined before
    what it touches, and these three are not).  The property excepts them by name (`Unjoined`).
17. `SingleInstance!OneEngine` with `Handled = TRUE`: the signal handler unlinks the file before the lock is
    dropped, and two processes run; no program installs the handler.
18. Hubs: two publications during one read tear it, and a tick publishes the ledger of a market twice
    (`trading_loop.cpp:3507`, `:3538`), while `quote_snapshot_hub.hpp` promises a consistent snapshot;
    `OnePublicationRead` excludes a read during which two publications begin.  `index_map_` is searched
    by observers while the loop inserts: a data race, not modelled.
19. Journal: a torn last line swallows the next one; a flushed line may still be in a buffer (a
    flushed snapshot is not).  AuditChain: nothing but tests
    emits through it; an emitter taken directly forks the chain.  `DiskPrune` may lose lines appended between
    its copy and its rename (`trader_daemon.cpp:2488`–`2563`; read, not modelled).

*Caps*

20. Exposure: a restart forgets which markets belong to an event, and `TickAll` registers a market
    just before it decides it (`trading_loop.cpp:716`, "covers the first order").  A market decided earlier in the first
    round, or a held one that has left the catalog, is not in the event's sum, and a purchase
    may pass the event's cap: `CapsHoldOnLedger` without its `blind` is violated.  A market is
    registered once, so one that is moved to another event stays in the sum of the old one.  The
    day's profit is told to the gateway after bookings only: a loss by prices alone reaches
    its halts with the next booking (read, not modelled).
21. Account: the cash gate estimates the fee as dollars · rate · p(1 − p) (`trading_loop.cpp:2400`), the
    fee that is booked is shares · rate · p(1 − p) (`:3481`), more by the factor 1/p: an order for
    nearly all of the cash takes more than there is.

## 6. Not modelled, and what comes next

Out of reach or not worth a model: the ledger of `infra/wal`, whose `WalWriter::Append` is a stub that
writes nothing, so that a restart restores none of its fills (`wal_writer.cpp:66`, and the note in
`infra/wal/position_ledger.cpp:296`); statistics over doubles (`ml`, `microstructure`, `numerical`,
`stats`, `eval`), the scanning of text and JSON, cryptography and encodings, the HTTP client, the read-only
server, the front end and the scripts; `polymarket/wss` and the devig strategies, which
only tests use; arbitrage helpers nothing calls.

Assumed by the models: stores of one thread reach another in order (Hubs, BookFlow); a
tick is not interleaved with another (there is one loop thread); a map inside a hub is atomic.

What would come next:

1. **Proofs**: a condition on names under which `OwnIsFound` holds whatever the names are.
2. **Composition** of Subscription with BookFeed (what is dropped while its book is being seeded) and of
   Decision with PaperTick (their interface is the fair price and the size asked for).
3. `DiskPrune` and the raw recorder next to Journal; the formats of the supplementary sources.
