--------------------------------- MODULE Hubs ---------------------------------
(***************************************************************************)
(* What the loop publishes for the observers: the quote and the ledger of  *)
(* a market, in hubs of two buffers per key, and the refused orders, in a  *)
(* ring of slots with a sequence number.  Nobody holds a lock.  The loop   *)
(* writes, a thread of the debug server reads, each word by word; a value  *)
(* is two words that carry the number of its publication.  The stores of   *)
(* one thread reach the other in their order.                              *)
(*                                                                         *)
(* The two hubs are one program over two records; the model has one hub.   *)
(***************************************************************************)
EXTENDS Integers, Sequences, FiniteSets

CONSTANTS
  Keys,          \* markets
  MaxKeys,       \* max_keys_: slots of the hub
  RingCap,       \* kRmSnapshotCapacity
  MaxPublishes, MaxRejects  \* bounds on what the loop writes

HubsAssumption ==
  /\ IsFiniteSet(Keys) /\ MaxKeys \in Nat /\ RingCap \in Nat \ {0}
  /\ MaxPublishes \in Nat /\ MaxRejects \in Nat

VARIABLES
  index_map_,    \* the keys in the order of their slots
  buf, front,    \* per slot: two buffers of two words, and the one to read
  published,     \* history: the publications of each key that are complete
  publishes,     \* publications so far
  ring,          \* slots_: [seq, row]
  write_idx_,
  writer,        \* what the loop is about to write
  reader         \* what the observer has read so far

vars == <<index_map_, buf, front, published, publishes, ring, write_idx_, writer, reader>>
hub == <<index_map_, buf, front, published, publishes>>
rejects == <<ring, write_idx_>>

None == -1
Writing == -2    \* kSlotWriting
Empty == <<0, 0>>
Whole(v) == v[1] = v[2]

Slot(k) == IF \E i \in DOMAIN index_map_ : index_map_[i] = k
           THEN CHOOSE i \in DOMAIN index_map_ : index_map_[i] = k
           ELSE None

Idle(p) == p.at = "idle"
Rest == [at |-> "idle"]
Reads(k) == reader.at \in {"first", "second"} /\ reader.key = k
Writes(k) == writer.at \in {"second", "flip"} /\ writer.key = k

-----------------------------------------------------------------------------
(* The loop publishes a market.                                             *)

(* A key that is new takes the next slot; a full hub drops the publication. *)
GetOrAllocSlot(k) ==
  IF Slot(k) # None THEN UNCHANGED index_map_
  ELSE Len(index_map_) < MaxKeys /\ index_map_' = Append(index_map_, k)

(* Mutant: the buffer that is read is the one that is written. *)
FrontBuffer(i) == front[i]

BackBuffer(i) == 1 - front[i]

PublishBegin(k) ==
  /\ Idle(writer) /\ publishes < MaxPublishes
  /\ GetOrAllocSlot(k)
  /\ publishes' = publishes + 1
  /\ writer' = [at |-> "first", key |-> k]
  /\ UNCHANGED <<buf, front, published, rejects, reader>>

PublishDropped(k) ==
  /\ Idle(writer) /\ Slot(k) = None /\ Len(index_map_) = MaxKeys
  /\ publishes < MaxPublishes
  /\ publishes' = publishes + 1
  /\ UNCHANGED <<index_map_, buf, front, published, rejects, writer, reader>>

PublishWord(w) ==
  /\ writer.at = (IF w = 1 THEN "first" ELSE "second")
  /\ LET i == Slot(writer.key)
     IN  /\ buf' = [buf EXCEPT ![i][BackBuffer(i)][w] = publishes]
         /\ writer' = [writer EXCEPT !.at = IF w = 1 THEN "second" ELSE "flip"]
         /\ reader' = IF w = 1 /\ Reads(writer.key)
                      THEN [reader EXCEPT !.begun = @ + 1] ELSE reader
  /\ UNCHANGED <<index_map_, front, published, publishes, rejects>>

PublishFlip ==
  /\ writer.at = "flip"
  /\ LET i == Slot(writer.key)
     IN  /\ front' = [front EXCEPT ![i] = BackBuffer(i)]
         /\ published' = [published EXCEPT ![writer.key] = publishes]
  /\ writer' = Rest
  /\ UNCHANGED <<index_map_, buf, publishes, rejects, reader>>

-----------------------------------------------------------------------------
(* The observer reads a market: the buffer, then its words.                 *)
Read(k) ==
  /\ Idle(reader) /\ Slot(k) # None
  /\ reader' = [at |-> "first", key |-> k, buffer |-> front[Slot(k)], row |-> Empty,
                since |-> published[k],
                begun |-> IF Writes(k) THEN 1 ELSE 0]
  /\ UNCHANGED <<hub, rejects, writer>>

ReadWord(w) ==
  /\ reader.at = (IF w = 1 THEN "first" ELSE "second")
  /\ reader' = [reader EXCEPT
       !.at = IF w = 1 THEN "second" ELSE "read",
       !.row[w] = buf[Slot(reader.key)][reader.buffer][w]]
  /\ UNCHANGED <<hub, rejects, writer>>

-----------------------------------------------------------------------------
(* The loop records a refused order.                                        *)
RingSlot(raw) == raw % RingCap

(* Mutant: the slot is not marked as being written. *)
MarkNothing(i) == UNCHANGED ring

MarkWriting(i) == ring' = [ring EXCEPT ![i].seq = Writing]

PushBegin ==
  /\ Idle(writer) /\ write_idx_ < MaxRejects
  /\ write_idx_' = write_idx_ + 1
  /\ writer' = [at |-> "mark", raw |-> write_idx_]
  /\ UNCHANGED <<hub, ring, reader>>

PushMark ==
  /\ writer.at = "mark"
  /\ MarkWriting(RingSlot(writer.raw))
  /\ writer' = [writer EXCEPT !.at = "one"]
  /\ UNCHANGED <<hub, write_idx_, reader>>

PushWord(w) ==
  /\ writer.at = (IF w = 1 THEN "one" ELSE "two")
  /\ ring' = [ring EXCEPT ![RingSlot(writer.raw)].row[w] = writer.raw + 1]
  /\ writer' = [writer EXCEPT !.at = IF w = 1 THEN "two" ELSE "done"]
  /\ UNCHANGED <<hub, write_idx_, reader>>

PushEnd ==
  /\ writer.at = "done"
  /\ ring' = [ring EXCEPT ![RingSlot(writer.raw)].seq = writer.raw + 1]
  /\ writer' = Rest
  /\ UNCHANGED <<hub, write_idx_, reader>>

-----------------------------------------------------------------------------
(* The observer lists the refused orders, slot by slot.                     *)
SnapshotBegin ==
  /\ Idle(reader)
  /\ reader' = [at |-> "slot", current |-> write_idx_, i |-> 0, valid |-> {}]
  /\ UNCHANGED <<hub, rejects, writer>>

NextSlot(r, valid) ==
  [at |-> IF r.i + 1 = RingCap THEN "listed" ELSE "slot",
   current |-> r.current, i |-> r.i + 1, valid |-> valid]

SnapshotSeq ==
  /\ reader.at = "slot"
  /\ LET seq == ring[reader.i].seq
     IN  reader' = IF seq \in {0, Writing} THEN NextSlot(reader, reader.valid)
                   ELSE [at |-> "word", w |-> 1, seq0 |-> seq, row |-> Empty,
                         current |-> reader.current, i |-> reader.i, valid |-> reader.valid]
  /\ UNCHANGED <<hub, rejects, writer>>

SnapshotWord ==
  /\ reader.at = "word"
  /\ reader' = [reader EXCEPT !.row[reader.w] = ring[reader.i].row[reader.w],
                              !.at = IF reader.w = 1 THEN "word" ELSE "again",
                              !.w = 2]
  /\ UNCHANGED <<hub, rejects, writer>>

(* A row older than the ring when the listing began is left out.            *)
TooOld(seq, current) == current > RingCap /\ seq - 1 + RingCap <= current - 1

SnapshotSeqAgain ==
  /\ reader.at = "again"
  /\ LET taken == ring[reader.i].seq = reader.seq0 /\ ~TooOld(reader.seq0, reader.current)
     IN  reader' = NextSlot(reader,
           IF taken THEN reader.valid \cup {[gen |-> reader.seq0, row |-> reader.row]}
           ELSE reader.valid)
  /\ UNCHANGED <<hub, rejects, writer>>

(* The observer hands out what it has.                                      *)
Answer ==
  /\ reader.at \in {"read", "listed"}
  /\ reader' = Rest
  /\ UNCHANGED <<hub, rejects, writer>>

-----------------------------------------------------------------------------
Init ==
  /\ index_map_ = <<>> /\ publishes = 0
  /\ buf = [i \in 1..MaxKeys |-> [b \in {0, 1} |-> Empty]]
  /\ front = [i \in 1..MaxKeys |-> 0]
  /\ published = [k \in Keys |-> 0]
  /\ ring = [i \in 0..(RingCap - 1) |-> [seq |-> 0, row |-> Empty]]
  /\ write_idx_ = 0
  /\ writer = Rest /\ reader = Rest

Loop ==
  \/ \E k \in Keys : PublishBegin(k) \/ PublishDropped(k)
  \/ \E w \in {1, 2} : PublishWord(w) \/ PushWord(w)
  \/ PublishFlip \/ PushBegin \/ PushMark \/ PushEnd

Observer ==
  \/ \E k \in Keys : Read(k)
  \/ \E w \in {1, 2} : ReadWord(w)
  \/ SnapshotBegin \/ SnapshotSeq \/ SnapshotWord \/ SnapshotSeqAgain \/ Answer

Next == Loop \/ Observer
Spec == Init /\ [][Next]_vars

-----------------------------------------------------------------------------
TypeOK ==
  /\ Len(index_map_) <= MaxKeys /\ front \in [1..MaxKeys -> {0, 1}]
  /\ write_idx_ \in 0..MaxRejects /\ publishes \in 0..MaxPublishes

(* What an observer reads of a market is one publication, not older than    *)
(* the last that was complete when the read began, unless the market was    *)
(* published twice meanwhile.                                               *)
OnePublicationRead ==
  reader.at = "read" /\ reader.begun < 2 =>
    Whole(reader.row) /\ reader.row[1] >= reader.since

(* The rows of a listing are whole, the ones their numbers say, and none is *)
(* older than what the ring held when the listing began.                    *)
RowsAreTheirOwn ==
  reader.at = "listed" =>
    \A e \in reader.valid :
      /\ Whole(e.row) /\ e.row[1] = e.gen
      /\ e.gen > reader.current - RingCap /\ e.gen <= write_idx_

HubsHold == TypeOK /\ OnePublicationRead /\ RowsAreTheirOwn
=============================================================================
