----------------------------- MODULE Subscription -----------------------------
(***************************************************************************)
(* Which markets the process subscribes to (TraderDaemon's mapping thread).*)
(*                                                                         *)
(* Each round of RefreshEventMapping may rediscover the markets the        *)
(* exchange lists (RediscoverOnce, PopulateCatalog), then matches every    *)
(* market to a game of the score store and notes when its game last had    *)
(* odds.  A market is subscribed while that was not longer ago than a      *)
(* grace period; the event of a finished game is blacklisted for a while.  *)
(* A round is the unit of time.                                            *)
(***************************************************************************)
EXTENDS Integers, FiniteSets, FiniteSetsExt

CONSTANTS
  Events,         \* events of the exchange, one game each
  Market,         \* markets: [id, event, kind]
  LowLeagues,     \* events whose title names the league that is taken down
  kSharpGrace,    \* rounds without odds a subscription outlives
  kBlacklistTtl,  \* rounds a finished event is kept out
  kBlacklistCap,
  MaxFlips        \* bound: changes of the odds, the listing and the feed

None == -1
Kinds == {"whole", "set", "segment", "prop"}

(* Assumed of the constants where the module is instantiated.              *)
SubscriptionAssumption ==
  /\ IsFiniteSet(Events)
  /\ Market \subseteq [id : {m.id : m \in Market}, event : Events, kind : Kinds]
  /\ {kSharpGrace, kBlacklistTtl} \subseteq Nat \ {0}
  /\ kBlacklistCap \in Nat /\ MaxFlips \in Nat

VARIABLES
  listed,      \* the events discovery comes back with
  over,        \* the games that have ended
  shown,       \* how the score store shows a game: absent, playing, final
  odds,        \* of the game: none, fresh, frozen
  token_map_, market_catalog_, market_match_inputs_,
  subscribed,  \* the markets of all_token_ids_
  last_sub_eligible_,
  sharp_age,   \* rounds since sharp_last_seen; kSharpGrace: not there
  sharp,       \* the published set; {} also stands for "not yet published"
  mapping,     \* the map the trading loop was given
  blacklist,   \* rounds an event is still kept out; 0: no longer, None: no entry
  quiet,       \* history: rounds since one saw the game, in play and with odds
  flips

world == <<listed, over, shown, odds, flips>>
tables == <<token_map_, market_catalog_, market_match_inputs_, subscribed, last_sub_eligible_>>
matching == <<sharp_age, sharp, mapping, blacklist, quiet>>
vars == <<world, tables, matching>>

Of(e) == {m \in Market : m.event = e}

TypeOK ==
  /\ listed \subseteq Events /\ over \subseteq Events
  /\ shown \in [Events -> {"absent", "playing", "final"}]
  /\ odds \in [Events -> {"none", "fresh", "frozen"}]
  /\ {token_map_, market_catalog_, market_match_inputs_, subscribed,
      last_sub_eligible_, sharp, mapping} \subseteq SUBSET Market
  /\ sharp_age \in [Market -> 0..kSharpGrace]
  /\ blacklist \in [Events -> None..kBlacklistTtl]
  /\ quiet \in [Events -> 0..kSharpGrace] /\ flips \in 0..MaxFlips

Init ==
  /\ listed \in SUBSET Events \ {{}} /\ over = {} /\ flips = 0
  /\ shown = [e \in Events |-> "absent"] /\ odds = [e \in Events |-> "none"]
  /\ token_map_ = {} /\ market_catalog_ = {} /\ market_match_inputs_ = {}
  /\ subscribed = {} /\ last_sub_eligible_ = {}
  /\ sharp_age = [m \in Market |-> kSharpGrace] /\ sharp = {} /\ mapping = {}
  /\ blacklist = [e \in Events |-> None] /\ quiet = [e \in Events |-> kSharpGrace]

-----------------------------------------------------------------------------
(* The exchange, the games and the feed.                                    *)
Flip == flips < MaxFlips /\ flips' = flips + 1

List(events) ==
  /\ Flip /\ listed' = events
  /\ UNCHANGED <<over, shown, odds, tables, matching>>

(* A feed may drop a game, call it finished too early, and take it back.    *)
Show(e, how) ==
  /\ Flip /\ shown[e] # how /\ (e \in over => how # "playing")
  /\ shown' = [shown EXCEPT ![e] = how]
  /\ UNCHANGED <<listed, over, odds, tables, matching>>

Quote(e, how) ==
  /\ Flip /\ odds[e] # how /\ e \notin over
  /\ odds' = [odds EXCEPT ![e] = how]
  /\ UNCHANGED <<listed, over, shown, tables, matching>>

(* The end of a game does not take its last odds away.                      *)
EndOfGame(e) ==
  /\ e \notin over /\ shown[e] = "playing" /\ over' = over \cup {e}
  /\ UNCHANGED <<listed, shown, odds, flips, tables, matching>>

(* Odds that no longer change turn stale (kSharpFreshNs), as does a feed    *)
(* that never says the game has ended.                                      *)
Stale(e) ==
  /\ e \in over /\ odds[e] = "fresh" /\ odds' = [odds EXCEPT ![e] = "frozen"]
  /\ UNCHANGED <<listed, over, shown, flips, tables, matching>>

-----------------------------------------------------------------------------
(* PopulateCatalog: what is left of a discovered set of events.             *)
Admitted(events) ==
  {m \in Market : m.event \in events /\ ~(blacklist[m.event] > 0) /\ m.kind # "prop"}

(* Of the parts of a game only a set of a tennis match has odds of its own. *)
Matchable(m) == m.kind \in {"whole", "set"}

(* A market of the league that is taken down leaves the catalog, when it    *)
(* has entered the other two tables.                                        *)
PopulateCatalog(events) ==
  LET admitted == Admitted(events) IN
  /\ token_map_' = admitted
  /\ market_match_inputs_' = {m \in admitted : Matchable(m)}
  /\ market_catalog_' = {m \in admitted : m.event \notin LowLeagues}
  /\ subscribed' = admitted \cap sharp

(* Mutant: only the discovered markets are compared.                        *)
RediscoverListed ==
  IF listed # {} /\ {m \in Market : m.event \in listed} # token_map_
  THEN PopulateCatalog(listed) /\ last_sub_eligible_' = sharp
  ELSE UNCHANGED tables

(* Nothing is touched when discovery comes back empty, or when neither the  *)
(* discovered markets nor those with odds have changed.                     *)
RediscoverOnce ==
  LET changed == {m \in Market : m.event \in listed} # token_map_
  IN  IF listed # {} /\ (changed \/ sharp # last_sub_eligible_)
      THEN PopulateCatalog(listed) /\ last_sub_eligible_' = sharp
      ELSE UNCHANGED tables

(* Matching after it, on the tables it leaves.                              *)
Matched == {m \in market_match_inputs_' : shown[m.event] # "absent"}
IsFinal(m) == shown[m.event] = "final"

(* Mutant: odds that no longer change count.                                *)
HasOdds(m) == odds[m.event] # "none"

(* Odds that are there, and moved lately.                                   *)
HasSharp(m) == odds[m.event] = "fresh"

(* Mutant: no grace.                                                        *)
SharpAgeAtOnce(m) ==
  IF m \in Matched /\ ~IsFinal(m) /\ HasSharp(m) THEN 0 ELSE kSharpGrace

(* A finished game is out at once; a market without odds ages.              *)
SharpAge(m) ==
  CASE m \in Matched /\ IsFinal(m)  -> kSharpGrace
    [] m \in Matched /\ ~IsFinal(m) /\ HasSharp(m) -> 0
    [] OTHER -> IF sharp_age[m] < kSharpGrace THEN sharp_age[m] + 1 ELSE kSharpGrace

Ended == {m.event : m \in {x \in Matched : IsFinal(x) /\ x \in market_catalog_'}}

(* The list is emptied when it has grown past its cap; an entry whose time  *)
(* is over stays till then.                                                 *)
Insert(e, list) ==
  LET full == Cardinality({x \in Events : list[x] # None}) > kBlacklistCap
  IN  [x \in Events |-> IF x = e THEN kBlacklistTtl ELSE IF full THEN None ELSE list[x]]

Blacklisted ==
  FoldSet(Insert, [e \in Events |-> IF blacklist[e] > 0 THEN blacklist[e] - 1 ELSE blacklist[e]],
          Ended)

Refresh ==
  /\ sharp_age' = [m \in Market |-> SharpAge(m)]
  /\ sharp' = {m \in Market : sharp_age'[m] < kSharpGrace}
  /\ mapping' = Matched
  /\ blacklist' = Blacklisted
  /\ quiet' = [e \in Events |->
       CASE shown[e] = "final" -> kSharpGrace
         [] shown[e] = "playing" /\ odds[e] = "fresh" /\ market_match_inputs_' \cap Of(e) # {} -> 0
         [] OTHER -> Min({quiet[e] + 1, kSharpGrace})]

(* A round, with or without the rediscovery before it.                      *)
RefreshEventMapping(due) ==
  /\ IF due THEN RediscoverOnce ELSE UNCHANGED tables
  /\ Refresh
  /\ UNCHANGED world

-----------------------------------------------------------------------------
World ==
  \/ \E events \in SUBSET Events : List(events)
  \/ \E e \in Events :
       \/ \E how \in {"absent", "playing", "final"} : Show(e, how)
       \/ \E how \in {"none", "fresh", "frozen"} : Quote(e, how)
       \/ EndOfGame(e) \/ Stale(e)

Next == World \/ \E due \in BOOLEAN : RefreshEventMapping(due)

Spec == Init /\ [][Next]_vars

(* Rounds go on and rediscovery comes due; the exchange lists something     *)
(* again and again; old odds turn stale.                                    *)
Fairness ==
  /\ WF_vars(RefreshEventMapping(FALSE)) /\ WF_vars(RefreshEventMapping(TRUE))
  /\ SF_vars(listed # {} /\ RefreshEventMapping(TRUE))
  /\ \A e \in Events : WF_vars(Stale(e))
FairSpec == Spec /\ Fairness

-----------------------------------------------------------------------------
(* The game of a market that is over loses its subscription for good while  *)
(* discovery still finds something, whatever the feed says of it.           *)
EndedIsDropped ==
  \A e \in Events :
    <>(e \in over) /\ <>[](listed # {}) => <>[](subscribed \cap Of(e) = {})

(* A market that stays listed, with a game that is played and has odds, is  *)
(* subscribed in the end: a false end, a gap or an empty discovery heals.   *)
LiveIsSubscribed ==
  \A m \in Market :
    <>[](/\ m.event \in listed /\ m.kind \in {"whole", "set"}
         /\ shown[m.event] = "playing" /\ odds[m.event] = "fresh")
      => <>[](m \in subscribed)

(* A short silence of the odds does not take a subscription away: one is    *)
(* dropped after the grace period, with the end of its game, or with its    *)
(* event.                                                                   *)
NoFlap ==
  [][\A m \in subscribed \ subscribed' :
       \/ quiet[m.event] = kSharpGrace
       \/ m.event \notin listed \/ blacklist[m.event] > 0]_vars

(* "Not subscribed, not quoted": a market of the league that is taken down. *)
LowLeagueIsOut == \A m \in Market : m.event \in LowLeagues => m \notin subscribed
=============================================================================
