------------------------------ MODULE BookFeed ------------------------------
(***************************************************************************)
(* How the tokens of the catalog get an order book.                        *)
(*                                                                         *)
(* The mapping thread rediscovers the markets and sends the difference to  *)
(* the market channel (RediscoverOnce).  The io thread subscribes to the   *)
(* whole catalog when the channel is up, a send thread empties the queue   *)
(* of messages.  Books come from the channel's frames and from REST: the   *)
(* seed thread reads the whole catalog again and again, the mapping thread *)
(* the tokens it has added.  All of them write into one hub that gives     *)
(* each token a slot at its first book (GetOrAllocSlot).  The channel is   *)
(* connected once; the watchdog only reports that it is dead.              *)
(***************************************************************************)
EXTENDS Integers, FiniteSets, Sequences, SequencesExt

CONSTANTS
  Tokens,
  Catalogs,      \* the token sets discovery may come back with
  kHubMaxTokens, \* slots of the hub
  MaxRediscoveries, MaxQueue

ASSUME BookFeedAssumption ==
  /\ IsFiniteSet(Tokens) /\ Catalogs \subseteq SUBSET Tokens /\ {} \notin Catalogs
  /\ {kHubMaxTokens, MaxRediscoveries, MaxQueue} \subseteq Nat

Writers == {"io", "seed", "mapping"}
NoToken == {}              \* an empty slot; a used one holds {t}
Idle == [token |-> NoToken, at |-> 0]

VARIABLES
  catalog,   \* all_token_ids_ and its published snapshot
  old,       \* old_tokens of the rediscovery that runs
  mapping,   \* where the mapping thread is
  link,      \* the io thread: connecting, greeting, up, dead
  snap,      \* the snapshot OnConnected has taken
  send_queue_,
  server,    \* the tokens the exchange pushes on this connection
  todo,      \* the tokens a REST reader still asks for
  index_map_, slot_count_, slots_,  \* the hub
  writing,   \* what each thread is doing inside Publish
  rediscoveries

channel == <<link, snap, send_queue_, server>>
hub == <<index_map_, slot_count_, slots_, writing>>
vars == <<catalog, old, mapping, channel, todo, hub, rediscoveries>>

Subscribe(S) == [op |-> "subscribe", tokens |-> S]
Unsubscribe(S) == [op |-> "unsubscribe", tokens |-> S]
Market(S) == [op |-> "market", tokens |-> S]
Messages == [op : {"subscribe", "unsubscribe", "market"}, tokens : SUBSET Tokens]

TypeOK ==
  /\ {catalog, old, snap, server} \subseteq SUBSET Tokens
  /\ mapping \in {"idle", "reset", "subscribe", "unsubscribe", "seed"}
  /\ link \in {"connecting", "greeting", "up", "dead"}
  /\ send_queue_ \in Seq(Messages)
  /\ todo \in [{"seed", "mapping"} -> SUBSET Tokens]
  /\ index_map_ \in [Tokens -> 0..kHubMaxTokens] /\ slot_count_ \in 0..kHubMaxTokens
  /\ slots_ \in [1..kHubMaxTokens -> {NoToken} \cup {{t} : t \in Tokens}]

(* The first catalog is built before the mapping thread knows which markets *)
(* have odds: nothing is subscribed.                                        *)
Init ==
  /\ catalog = {} /\ old = {} /\ mapping = "idle"
  /\ link = "connecting" /\ snap = {} /\ send_queue_ = <<>> /\ server = {}
  /\ todo = [r \in {"seed", "mapping"} |-> {}]
  /\ index_map_ = [t \in Tokens |-> 0] /\ slot_count_ = 0
  /\ slots_ = [i \in 1..kHubMaxTokens |-> NoToken]
  /\ writing = [w \in Writers |-> Idle]
  /\ rediscoveries = 0

-----------------------------------------------------------------------------
(* The hub.                                                                 *)

Reads(t) == index_map_[t] # 0 /\ slots_[index_map_[t]] # NoToken

(* A thread publishes a book: a token's slot shows it at once; without a    *)
(* slot the thread reads which one is next; a full hub drops the book       *)
(* without a word.                                                          *)
Publish(w, t) ==
  /\ writing[w] = Idle
  /\ slots_' = [i \in 1..kHubMaxTokens |-> IF i = index_map_[t] THEN {t} ELSE slots_[i]]
  /\ writing' = IF index_map_[t] = 0 /\ slot_count_ < kHubMaxTokens
                THEN [writing EXCEPT ![w] = [token |-> {t}, at |-> slot_count_ + 1]]
                ELSE writing
  /\ UNCHANGED <<index_map_, slot_count_>>

(* No lock: the count is written back and the slot becomes the token's,     *)
(* unless it has one by now; the book is shown in the slot that was read.   *)
GetOrAllocSlot(w) ==
  /\ writing[w] # Idle
  /\ LET i == writing[w].at
         t == CHOOSE t \in writing[w].token : TRUE
     IN  /\ index_map_' = [index_map_ EXCEPT ![t] = IF @ = 0 THEN i ELSE @]
         /\ slot_count_' = i
         /\ slots_' = [slots_ EXCEPT ![i] = {t}]
  /\ writing' = [writing EXCEPT ![w] = Idle]
  /\ UNCHANGED <<catalog, old, mapping, channel, todo, rediscoveries>>

(* ResetToken empties the slot and keeps it.                                *)
ResetTokens(S) ==
  slots_' = [i \in 1..kHubMaxTokens |->
               IF \E t \in S : index_map_[t] = i THEN NoToken ELSE slots_[i]]

-----------------------------------------------------------------------------
(* The mapping thread: RediscoverOnce.                                      *)

(* PopulateCatalog rebuilds the tables and publishes the snapshot.          *)
RediscoverOnce(new) ==
  /\ mapping = "idle" /\ rediscoveries < MaxRediscoveries /\ new # catalog
  /\ catalog' = new /\ old' = catalog
  /\ mapping' = "reset" /\ rediscoveries' = rediscoveries + 1
  /\ UNCHANGED <<channel, todo, hub>>

(* Mutant: what stays is not skipped.                                       *)
RemovedAll == old

Removed == old \ catalog

ResetRemoved ==
  /\ mapping = "reset" /\ mapping' = "subscribe"
  /\ ResetTokens(Removed)
  /\ UNCHANGED <<catalog, old, channel, todo, index_map_, slot_count_, writing,
                 rediscoveries>>

AsyncSendText(message) ==
  IF message.tokens = {} THEN UNCHANGED send_queue_
  ELSE Len(send_queue_) < MaxQueue /\ send_queue_' = Append(send_queue_, message)

SendAdded ==
  /\ mapping = "subscribe" /\ mapping' = "unsubscribe"
  /\ AsyncSendText(Subscribe(catalog \ old))
  /\ UNCHANGED <<catalog, old, link, snap, server, todo, hub, rediscoveries>>

SendRemoved ==
  /\ mapping = "unsubscribe" /\ mapping' = "seed"
  /\ AsyncSendText(Unsubscribe(Removed))
  /\ todo' = [todo EXCEPT !["mapping"] = catalog \ old]
  /\ UNCHANGED <<catalog, old, link, snap, server, hub, rediscoveries>>

SeedAdded ==
  /\ mapping = "seed" /\ todo["mapping"] = {} /\ writing["mapping"] = Idle
  /\ mapping' = "idle" /\ old' = {}
  /\ UNCHANGED <<catalog, channel, todo, hub, rediscoveries>>

-----------------------------------------------------------------------------
(* REST.                                                                    *)

(* Mutant: the seed thread asks for the tokens of the start.                *)
SeedListOfStart == {}

SeedList == catalog

(* The seed thread starts another round.                                    *)
SeedInitialBooksFromRest ==
  /\ todo["seed"] = {} /\ writing["seed"] = Idle /\ SeedList # {}
  /\ todo' = [todo EXCEPT !["seed"] = SeedList]
  /\ UNCHANGED <<catalog, old, mapping, channel, hub, rediscoveries>>

Asked(w, t) == w \in {"seed", "mapping"} /\ t \in todo[w] /\ todo' = [todo EXCEPT ![w] = @ \ {t}]

(* SeedTokensFromRest: an answer, or none.                                  *)
SeedFromRestBooks(w, t) ==
  /\ Asked(w, t) /\ Publish(w, t)
  /\ UNCHANGED <<catalog, old, mapping, channel, rediscoveries>>

RestFails(w, t) ==
  /\ Asked(w, t) /\ writing[w] = Idle
  /\ UNCHANGED <<catalog, old, mapping, channel, hub, rediscoveries>>

-----------------------------------------------------------------------------
(* The channel.                                                             *)

(* AsyncConnect is called once.                                             *)
Connected ==
  /\ link = "connecting" /\ link' = "greeting" /\ snap' = catalog
  /\ UNCHANGED <<catalog, old, mapping, send_queue_, server, todo, hub,
                 rediscoveries>>

(* OnConnected subscribes to the snapshot it has read; then the send thread *)
(* starts.                                                                  *)
OnConnected ==
  /\ link = "greeting" /\ link' = "up" /\ AsyncSendText(Market(snap)) /\ snap' = {}
  /\ UNCHANGED <<catalog, old, mapping, server, todo, hub, rediscoveries>>

(* A failed connection attempt, a closed connection: no one connects again. *)
Disconnected ==
  /\ link # "dead" /\ link' = "dead" /\ snap' = {} /\ server' = {}
  /\ UNCHANGED <<catalog, old, mapping, send_queue_, todo, hub, rediscoveries>>

(* The send thread; the exchange adds to what it pushes.                    *)
SendLoop ==
  /\ link = "up" /\ send_queue_ # <<>>
  /\ LET m == Head(send_queue_)
     IN  server' = IF m.op = "unsubscribe" THEN server \ m.tokens ELSE server \cup m.tokens
  /\ send_queue_' = Tail(send_queue_)
  /\ UNCHANGED <<catalog, old, mapping, link, snap, todo, hub, rediscoveries>>

(* The exchange pushes a book of a token it has a subscription of.          *)
OnFrame(t) ==
  /\ link = "up" /\ t \in server
  /\ Publish("io", t)
  /\ UNCHANGED <<catalog, old, mapping, channel, todo, rediscoveries>>

-----------------------------------------------------------------------------
Rest(w) == \E t \in Tokens : SeedFromRestBooks(w, t) \/ RestFails(w, t)
Mapping == ResetRemoved \/ SendAdded \/ SendRemoved \/ SeedAdded
             \/ Rest("mapping") \/ GetOrAllocSlot("mapping")
Seed == SeedInitialBooksFromRest \/ Rest("seed") \/ GetOrAllocSlot("seed")
Io == Connected \/ OnConnected \/ GetOrAllocSlot("io") \/ \E t \in Tokens : OnFrame(t)

Next ==
  \/ \E new \in Catalogs : RediscoverOnce(new)
  \/ Mapping \/ Seed \/ Io \/ SendLoop \/ Disconnected

Spec == Init /\ [][Next]_vars

(* Every thread goes on; the requests for a token do not fail for ever.     *)
Fairness ==
  /\ WF_vars(Mapping) /\ WF_vars(Io) /\ WF_vars(SendLoop)
  /\ WF_vars(Seed)
  /\ \A t \in Tokens : SF_vars(SeedFromRestBooks("seed", t))
FairSpec == Spec /\ Fairness

-----------------------------------------------------------------------------
(* What a reader of the hub gets for a token is a book of that token,       *)
(* whichever threads publish.                                               *)
OwnBook == \A t \in Tokens : Reads(t) => slots_[index_map_[t]] = {t}

(* While the channel lives, every token of the catalog ends up subscribed,  *)
(* however discovery, the connection and the queue interleave.              *)
EventuallySubscribed ==
  \A t \in Tokens : t \in catalog ~> t \in server \/ t \notin catalog \/ link = "dead"

(* Every token of the catalog gets a book, whether the channel lives or not. *)
EventuallyFed == \A t \in Tokens : t \in catalog ~> Reads(t) \/ t \notin catalog
=============================================================================
