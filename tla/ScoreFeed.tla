------------------------------ MODULE ScoreFeed ------------------------------
(***************************************************************************)
(* The scores the trading loop reads (InplayFeedThread).                   *)
(*                                                                         *)
(* One thread per sport fetches a gzipped frame and replaces the entries   *)
(* of its sport; the daemon adds the games of other sources that no entry  *)
(* names yet.  All of them write one merged map under one lock and publish *)
(* a copy of it before they let go of the lock.                            *)
(*                                                                         *)
(* An HTTP reply is a record of what can differ in it: how far it came,    *)
(* how its body is framed, whether the body is complete, and its size in   *)
(* classes of megabytes.                                                   *)
(***************************************************************************)
EXTENDS Integers, FiniteSets

CONSTANTS
  Sports,       \* cfg_.sports: one thread each
  Sources,      \* source_id of the supplements
  GamesOf,      \* the games a sport or a source may list
  PairOf,       \* the pair of names by which a game is told from another
  Framings,     \* how a server may mark the end of a body
  MayTruncate,  \* whether a connection may break inside a body
  MaxFrames     \* bound: frames a sport thread parses

Owners == Sports \cup Sources
Games == UNION {GamesOf[o] : o \in Owners}

(* Assumed of the constants where the module is instantiated.              *)
ScoreFeedAssumption ==
  /\ Sports \cap Sources = {}
  /\ MayTruncate \in BOOLEAN /\ MaxFrames \in Nat

VARIABLES
  thread,       \* per sport: none, due, fetching, inflating, parsed
  frame,        \* the games of the frame a thread has decoded
  listed,       \* history: the games of the last frame an owner merged
  merged_map_,  \* entries: owner, game, number of its frame
  store_,       \* what readers load
  frames, stop_, running_

vars == <<thread, frame, listed, merged_map_, store_, frames, stop_, running_>>

Entry == [owner : Owners, game : Games, no : 0..MaxFrames]

TypeOK ==
  /\ thread \in [Sports -> {"none", "due", "fetching", "inflating", "parsed"}]
  /\ frame \in [Sports -> SUBSET Games] /\ listed \in [Owners -> SUBSET Games]
  /\ merged_map_ \subseteq Entry /\ store_ \subseteq Entry
  /\ frames \in [Sports -> 0..MaxFrames]
  /\ stop_ \in BOOLEAN /\ running_ \in BOOLEAN

Init ==
  /\ thread = [s \in Sports |-> "none"] /\ frame = [s \in Sports |-> {}]
  /\ listed = [o \in Owners |-> {}] /\ merged_map_ = {} /\ store_ = {}
  /\ frames = [s \in Sports |-> 0] /\ stop_ = FALSE /\ running_ = FALSE

-----------------------------------------------------------------------------
(* One reply of the server, or of the proxy before it.                      *)
kMaxBodyBytes == 16
kMaxChunked == 20
kMaxGzipOutputBytes == 8

Reply ==
  [reached : {"nowhere", "tunnel", "headers", "body"}, status : {200, 503},
   framing : Framings, complete : BOOLEAN, size : {1, 17, 21}]

(* A body without a length and without chunks is what came before the close:*)
(* a broken connection looks like an end.                                   *)
BodyRead(r) ==
  CASE r.framing = "length"  -> r.complete /\ r.size <= kMaxBodyBytes
    [] r.framing = "chunked" -> r.complete /\ r.size <= kMaxChunked
    [] r.framing = "close"   -> r.size <= kMaxBodyBytes

HttpGetGz(r) == r.reached = "body" /\ r.status = 200 /\ BodyRead(r)

(* The gzip stream: it may hold anything, expand too far, or end early; in  *)
(* the last case inflate makes no progress and the loop asks it again.      *)
Inflates(r, stream) ==
  CASE ~r.complete                        -> "spins"
    [] stream.damaged                     -> "dropped"
    [] stream.json > kMaxGzipOutputBytes  -> "dropped"
    [] OTHER                              -> "parsed"

-----------------------------------------------------------------------------
(* Threads.                                                                 *)
Start ==
  /\ ~running_ /\ running_' = TRUE /\ stop_' = FALSE
  /\ thread' = [s \in Sports |-> "due"]
  /\ UNCHANGED <<frame, listed, merged_map_, store_, frames>>

StopAsked ==
  /\ running_ /\ ~stop_ /\ stop_' = TRUE
  /\ UNCHANGED <<thread, frame, listed, merged_map_, store_, frames, running_>>

StopJoined ==
  /\ running_ /\ stop_ /\ \A s \in Sports : thread[s] = "none"
  /\ running_' = FALSE
  /\ UNCHANGED <<thread, frame, listed, merged_map_, store_, frames, stop_>>

(* Mutant: the flag is not looked at.                                       *)
TopOfLoopBlind(s) ==
  /\ thread[s] = "due" /\ thread' = [thread EXCEPT ![s] = "fetching"]
  /\ UNCHANGED <<frame, listed, merged_map_, store_, frames, stop_, running_>>

(* The top of the loop; the flag is looked at nowhere else.                 *)
TopOfLoop(s) ==
  /\ thread[s] = "due"
  /\ thread' = [thread EXCEPT ![s] = IF stop_ THEN "none" ELSE "fetching"]
  /\ UNCHANGED <<frame, listed, merged_map_, store_, frames, stop_, running_>>

Streams == [damaged : BOOLEAN, json : {3, 9}]

FetchGz(r, stream) == IF HttpGetGz(r) THEN Inflates(r, stream) ELSE "failed"

(* The ways a round may go, over every reply the servers may give.          *)
Ends == {FetchGz(r, stream) : r \in {x \in Reply : x.complete \/ MayTruncate}, stream \in Streams}

(* A fetch or a decode that fails sleeps and goes round: the entries of the *)
(* sport stay as they are.                                                  *)
Round(s) ==
  /\ thread[s] = "fetching"
  /\ \E end \in Ends, games \in SUBSET GamesOf[s] :
       /\ end = "parsed" => frames[s] < MaxFrames
       /\ end # "parsed" => games = {}
       /\ frame' = [frame EXCEPT ![s] = games]
       /\ thread' = [thread EXCEPT ![s] =
            CASE end = "parsed" -> "parsed" [] end = "spins" -> "inflating" [] OTHER -> "due"]
  /\ UNCHANGED <<listed, merged_map_, store_, frames, stop_, running_>>

(* Mutant: the merge is made in the copy that is published.                 *)
PublishesCopy(map) == merged_map_' = merged_map_ /\ store_' = map

(* The lock is held from the removal of the old keys to the publication.    *)
Publishes(map) == merged_map_' = map /\ store_' = map

MergeFrame(s) ==
  /\ thread[s] = "parsed" /\ thread' = [thread EXCEPT ![s] = "due"]
  /\ frames' = [frames EXCEPT ![s] = @ + 1]
  /\ Publishes({e \in merged_map_ : e.owner # s}
               \cup {[owner |-> s, game |-> g, no |-> frames'[s]] : g \in frame[s]})
  /\ listed' = [listed EXCEPT ![s] = frame[s]] /\ frame' = [frame EXCEPT ![s] = {}]
  /\ UNCHANGED <<stop_, running_>>

(* Mutant: a source is told from the others by its own ids only.            *)
FreshById(games, others) == {games}

(* Of the games of one source, one per pair that nobody else names.         *)
Fresh(games, others) ==
  LET seen == {PairOf[e.game] : e \in others} IN
  {pick \in SUBSET games :
     /\ \A g \in pick : PairOf[g] \notin seen
     /\ \A g, h \in pick : PairOf[g] = PairOf[h] => g = h
     /\ \A g \in games : PairOf[g] \in seen \/ \E h \in pick : PairOf[h] = PairOf[g]}

InjectSupplementalScores(o, games) ==
  LET others == {e \in merged_map_ : e.owner # o} IN
  /\ running_
  /\ \E pick \in Fresh(games, others) :
       Publishes(others \cup {[owner |-> o, game |-> g, no |-> 0] : g \in pick})
  /\ listed' = [listed EXCEPT ![o] = games]
  /\ UNCHANGED <<thread, frame, frames, stop_, running_>>

(* One source's pass of the daemon, with whatever it lists this time.       *)
Supplement(o) == \E games \in SUBSET GamesOf[o] : InjectSupplementalScores(o, games)

SportStep(s) == TopOfLoop(s) \/ Round(s) \/ MergeFrame(s)

Next ==
  \/ Start \/ StopAsked \/ StopJoined
  \/ \E s \in Sports : SportStep(s)
  \/ \E o \in Sources : Supplement(o)

Spec == Init /\ [][Next]_vars

(* Every blocking call of a thread has a time limit, so its steps come; the *)
(* daemon asks its sources again and again.                                 *)
Fairness ==
  /\ \A s \in Sports : WF_vars(SportStep(s))
  /\ \A o \in Sources : WF_vars(Supplement(o))
  /\ WF_vars(StopJoined)

FairSpec == Spec /\ Fairness

-----------------------------------------------------------------------------
(* What readers see holds, for every sport, the last frame its thread       *)
(* merged, and for a source nothing its last list did not name: no writer   *)
(* loses what another wrote.                                                *)
StoreIsWhole ==
  /\ \A s \in Sports : {e.game : e \in {x \in store_ : x.owner = s}} = listed[s]
  /\ \A o \in Sources : {e.game : e \in {x \in store_ : x.owner = o}} \subseteq listed[o]

(* Readers never see an older frame of a sport after a newer one.           *)
NeverBack ==
  [][\A old \in store_, new \in store_' : old.owner = new.owner => old.no <= new.no]_vars

(* A game named by two owners is, again and again, seen under one of them   *)
(* only, and a pair some source keeps listing is, again and again, seen.    *)
SeenOnce ==
  \A o \in Sources : \A g \in GamesOf[o] :
    /\ []<>(stop_ \/ ~running_ \/ \A e \in store_, f \in store_ :
              e.owner = o /\ PairOf[e.game] = PairOf[f.game] => e = f)
    /\ <>[](running_ /\ g \in listed[o])
         => []<>(\E e \in store_ : PairOf[e.game] = PairOf[g])

(* Stop returns: every thread sees the flag and ends.                       *)
StopReturns == stop_ ~> ~running_
=============================================================================
