------------------------------ MODULE Discovery ------------------------------
(***************************************************************************)
(* One round of discovery: the listing of the exchange is read page by     *)
(* page, by offset, while it changes (DiscoverSportsEvents, with           *)
(* ParseSportsEvents for a page).  What the round does not come back with  *)
(* is unsubscribed, so an event it overlooks is one nobody trades.         *)
(*                                                                         *)
(* The listing is the exchange's and external; times are hours.  A page    *)
(* that cannot be fetched is an empty page.                                *)
(***************************************************************************)
EXTENDS Integers, FiniteSets, SequencesExt

CONSTANTS
  Catalog,        \* event -> what the exchange says of it:
                  \*   [event_id, sport, sports_words, markets]; a market is
                  \*   [condition_id, tokens, start, end], 0: not known
  Now,            \* the clock when the round begins
  kPageSize, kHardScanCap, kEmptyPageStop, MaxEvents,
  MaxListings,    \* bound: events listed meanwhile
  MaxDelistings,  \* bound: events taken off meanwhile
  MaxFailures     \* bound: pages that cannot be fetched

Least(S) == CHOOSE x \in S : \A y \in S : x <= y
Most(S) == CHOOSE x \in S : \A y \in S : x >= y

VARIABLES
  listing,      \* the exchange's order of events
  offset, kept, seen, empty_streak,
  why,          \* "scanning", or what ended the round
  stayed,       \* history: the events listed from the start
  slid,         \* history: those of which one before them was taken off
  listings, delistings, failures

exchange == <<listing, stayed, slid, listings, delistings>>
round == <<offset, kept, seen, empty_streak, why, failures>>
vars == <<exchange, round>>

-----------------------------------------------------------------------------
(* Parsing: a market needs its condition and its two tokens, an event an id, *)
(* a sport (its code or the words of its title) and such a market.          *)
ParsedMarkets(e) ==
  SelectSeq(Catalog[e].markets, LAMBDA m : m.condition_id # "" /\ m.tokens = 2)
IsSports(e) == Catalog[e].sport \notin {"", "null"} \/ Catalog[e].sports_words
Parsed(e) ==
  Catalog[e].event_id # "" /\ IsSports(e) /\ ParsedMarkets(e) # << >>

(* Assumed of the constants: a page holds more than what is listed meanwhile *)
(* and what cannot be parsed, or a page in the middle may show nothing new.  *)
DiscoveryAssumption ==
  /\ {kPageSize, kHardScanCap, kEmptyPageStop, MaxEvents} \subseteq Nat \ {0}
  /\ {MaxListings, MaxDelistings, MaxFailures} \subseteq Nat
  /\ IsFiniteSet(DOMAIN Catalog)
  /\ MaxListings + Cardinality({e \in DOMAIN Catalog : ~Parsed(e)}) < kPageSize

-----------------------------------------------------------------------------
(* The window: from an hour before the first kickoff to eight after it, and *)
(* not past the last end.                                                   *)
kPreKickoffWindow == 1
kLiveWindow == 8
Starts(e) == {m.start : m \in ToSet(ParsedMarkets(e))} \ {0}
Ends(e) == {m.end : m \in ToSet(ParsedMarkets(e))}

in_window(e) ==
  /\ Starts(e) # {}
  /\ Least(Starts(e)) <= Now + kPreKickoffWindow
  /\ Most(Ends(e)) = 0 \/ Most(Ends(e)) > Now
  /\ Now <= Least(Starts(e)) + kLiveWindow

-----------------------------------------------------------------------------
(* A page is the places of the listing it shows; what of it can be parsed.  *)
PageEnd == Least({Len(listing), offset + kPageSize})
FetchGammaEvents(ok) == IF ok THEN offset + 1..PageEnd ELSE {}
ParseSportsEvents(places) == {k \in places : Parsed(listing[k])}

(* Scanned up to a place: the events that were on no page before, and those *)
(* of the window among them.                                                *)
New(page, upto) == {k \in page : k <= upto /\ listing[k] \notin seen}
Inside(page, upto) == {k \in New(page, upto) : in_window(listing[k])}
InOrder(S) ==
  {s \in [1..Cardinality(S) -> S] :
     Range(s) = S /\ \A i, j \in 1..Cardinality(S) : i < j => s[i] < s[j]}

(* The events of the window are kept in their order.                        *)
ScanTo(page, upto) ==
  {[seen |-> seen \cup {listing[k] : k \in New(page, upto)},
    new |-> Cardinality(New(page, upto)), inside |-> Cardinality(Inside(page, upto)),
    kept |-> kept \o [i \in 1..Cardinality(Inside(page, upto)) |-> listing[s[i]]]] :
     s \in InOrder(Inside(page, upto))}

(* A page is scanned to its end, or to the event that fills the round.      *)
Stops(page, upto) ==
  LET have == Len(kept) + Cardinality(Inside(page, upto)) IN
  \/ have = MaxEvents /\ upto \in Inside(page, upto)
  \/ have < MaxEvents /\ upto = PageEnd
ScanPage(page) == UNION {ScanTo(page, upto) : upto \in {k \in offset + 1..PageEnd : Stops(page, k)}}

(* Mutant: a page without an event of the window is the last. *)
NothingInside(r) == r.inside = 0

NothingNew(r) == r.new = 0

Streak(r) == IF r.inside = 0 THEN empty_streak + 1 ELSE 0

(* Why the loop ends after a page, or goes on.                              *)
After(r) ==
  IF NothingNew(r) THEN "nothing_new"
  ELSE IF Streak(r) >= kEmptyPageStop THEN "streak"
  ELSE IF offset + kPageSize >= kHardScanCap THEN "cap"
  ELSE IF Len(r.kept) >= MaxEvents THEN "full" ELSE "scanning"

ScanOn(r) ==
  /\ kept' = r.kept /\ seen' = r.seen /\ why' = After(r)
  /\ empty_streak' = Streak(r)
  /\ offset' = IF why' = "scanning" THEN offset + kPageSize ELSE offset

(* An empty page ends the round, whether it lies past the listing, holds    *)
(* nothing that can be parsed, or could not be fetched.                     *)
Page(ok) ==
  LET page == ParseSportsEvents(FetchGammaEvents(ok)) IN
  /\ why = "scanning"
  /\ IF page # {} THEN \E r \in ScanPage(page) : ScanOn(r)
     ELSE /\ why' = IF ~ok THEN "failed" ELSE IF offset < Len(listing) THEN "blank" ELSE "end"
          /\ UNCHANGED <<offset, kept, seen, empty_streak>>
  /\ failures' = IF ok THEN failures ELSE failures + 1
  /\ UNCHANGED exchange

NextPage == Page(TRUE)
FailedPage == failures < MaxFailures /\ Page(FALSE)

-----------------------------------------------------------------------------
(* The exchange meanwhile.                                                  *)
Lists(e, i) ==
  /\ why = "scanning" /\ listings < MaxListings /\ e \notin ToSet(listing)
  /\ listing' = InsertAt(listing, i, e) /\ listings' = listings + 1
  /\ UNCHANGED <<stayed, slid, delistings, round>>

Delists(i) ==
  /\ why = "scanning" /\ delistings < MaxDelistings
  /\ listing' = RemoveAt(listing, i) /\ delistings' = delistings + 1
  /\ stayed' = stayed \ {listing[i]}
  /\ slid' = slid \cup {listing[j] : j \in i + 1..Len(listing)}
  /\ UNCHANGED <<listings, round>>

Init ==
  /\ listing \in {l \in SeqOf(DOMAIN Catalog, Cardinality(DOMAIN Catalog)) :
                    IsInjective(l) /\ Len(l) >= Cardinality(DOMAIN Catalog) - 1}
  /\ stayed = ToSet(listing) /\ slid = {} /\ listings = 0 /\ delistings = 0
  /\ offset = 0 /\ kept = << >> /\ seen = {} /\ empty_streak = 0
  /\ why = "scanning" /\ failures = 0

Next ==
  \/ NextPage \/ FailedPage
  \/ \E e \in DOMAIN Catalog, i \in 1..Len(listing) + 1 : Lists(e, i)
  \/ \E i \in DOMAIN listing : Delists(i)
Spec == Init /\ [][Next]_vars

-----------------------------------------------------------------------------
TypeOK ==
  /\ listing \in Seq(DOMAIN Catalog) /\ IsInjective(listing)
  /\ offset \in 0..kHardScanCap /\ empty_streak \in 0..kEmptyPageStop
  /\ kept \in Seq(seen) /\ Len(kept) <= MaxEvents /\ seen \subseteq DOMAIN Catalog
  /\ stayed \subseteq ToSet(listing) /\ slid \subseteq DOMAIN Catalog
  /\ listings \in 0..MaxListings /\ delistings \in 0..MaxDelistings
  /\ failures \in 0..MaxFailures
  /\ why \in {"scanning", "nothing_new", "streak", "cap", "full", "failed", "blank", "end"}

(* A listing that grows meanwhile shows events twice: none is kept twice.   *)
KeptOnce == IsInjective(kept)

(* A round that came to the end of the listing has every event of the       *)
(* window that was listed all the time, unless another before it was taken  *)
(* off: then it may have slid back to a page that was read before.          *)
NothingMissed ==
  why \in {"end", "nothing_new"} =>
    \A e \in stayed \ slid : Parsed(e) /\ in_window(e) => e \in ToSet(kept)

DiscoveryHolds == TypeOK /\ KeptOnce /\ NothingMissed
=============================================================================
