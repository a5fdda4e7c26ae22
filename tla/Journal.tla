------------------------------ MODULE Journal -------------------------------
(***************************************************************************)
(* The files of the trading loop: the journal of fills and the snapshot of *)
(* the ledger.                                                             *)
(*                                                                         *)
(* The loop only queues what is to be written (BackgroundWriter); a writer *)
(* thread takes the whole queue, replaces files and collects lines in a    *)
(* buffer per file, item by item, and writes the buffers once a second.  A *)
(* start reads the tail of the journal back into the ring of fills.        *)
(***************************************************************************)
EXTENDS Integers, SequencesExt

CONSTANTS
  kMaxQueue,       \* items in the queue
  kFillsRingCap,   \* fills in memory
  MaxFills, MaxSaves, MaxRestarts, MaxErrors  \* bounds

(* Assumed of the constants where the module is instantiated.              *)
JournalAssumption ==
  {kMaxQueue, kFillsRingCap, MaxFills, MaxSaves, MaxRestarts, MaxErrors} \subseteq Nat

VARIABLES
  alive,
  fills,           \* fills booked so far: the next one is numbered fills + 1
  fills_ring_,     \* the fills in memory
  saves,           \* snapshots asked for so far
  q_, enqueued_, processed_, stop_,  \* BackgroundWriter, under mu_
  writer, batch, taken, stopping,    \* its thread: items left, items taken
  buf,             \* lines collected for the journal
  target,          \* what a Flush waits for, or None
  file, snapshot,  \* the journal's lines, the number of the snapshot
  lost,            \* history: fills whose line was dropped, failed or cut off
  requested,       \* history: the last snapshot queued before a Flush
  restarts, errors

queue == <<q_, enqueued_, processed_, stop_>>
thread == <<writer, batch, taken, stopping, buf>>
disk == <<file, snapshot>>
bounds == <<restarts, errors>>
vars == <<alive, fills, fills_ring_, saves, queue, thread, target, disk, lost,
          requested, bounds>>

None == -1
Item == [kind : {"line", "replace"}, n : Nat]

(* A line of the file: whole, the torn end of a crash, or a torn one that   *)
(* the next line was written onto.                                          *)
Line(n) == [n |-> n, state |-> "whole"]
Torn(n) == [n |-> n, state |-> "torn"]

(* The last cap of a sequence.                                              *)
LastOf(s, cap) == IF Len(s) <= cap THEN s ELSE SubSeq(s, Len(s) - cap + 1, Len(s))

Init ==
  /\ alive = TRUE /\ fills = 0 /\ fills_ring_ = <<>> /\ saves = 0
  /\ q_ = <<>> /\ enqueued_ = 0 /\ processed_ = 0 /\ stop_ = FALSE
  /\ writer = "waiting" /\ batch = <<>> /\ taken = 0 /\ stopping = FALSE /\ buf = <<>>
  /\ target = None /\ file = <<>> /\ snapshot = 0
  /\ lost = {} /\ requested = 0 /\ restarts = 0 /\ errors = 0

Of(kind, s) == {i.n : i \in {x \in ToSet(s) : x.kind = kind}}
Pending(kind) == Of(kind, batch) \cup Of(kind, q_)

-----------------------------------------------------------------------------
(* The loop thread.                                                         *)
Free == alive /\ ~stop_ /\ target = None

(* A full queue drops what is new.                                          *)
Enqueue(item) ==
  IF Len(q_) >= kMaxQueue THEN UNCHANGED <<q_, enqueued_>>
  ELSE q_' = Append(q_, item) /\ enqueued_' = enqueued_ + 1

(* JournalFill, called with every row that enters the ring.                 *)
AppendLine ==
  /\ Free /\ fills < MaxFills /\ fills' = fills + 1
  /\ fills_ring_' = LastOf(Append(fills_ring_, fills'), kFillsRingCap)
  /\ Enqueue([kind |-> "line", n |-> fills'])
  /\ lost' = IF Len(q_) >= kMaxQueue THEN lost \cup {fills'} ELSE lost
  /\ UNCHANGED <<alive, saves, processed_, stop_, thread, target, disk, requested, bounds>>

(* SaveLedgerSnapshot.                                                      *)
WriteFileAtomic ==
  /\ Free /\ saves < MaxSaves /\ saves' = saves + 1
  /\ Enqueue([kind |-> "replace", n |-> saves'])
  /\ UNCHANGED <<alive, fills, fills_ring_, processed_, stop_, thread, target, disk, lost,
                 requested, bounds>>

(* Flush waits for what is queued now.                                      *)
Flush ==
  /\ Free /\ target' = enqueued_
  /\ requested' = Max({0} \cup Pending("replace"))
  /\ UNCHANGED <<alive, fills, fills_ring_, saves, queue, thread, disk, lost, bounds>>

FlushReturns ==
  /\ target # None /\ (processed_ >= target \/ stop_) /\ target' = None
  /\ requested' = 0
  /\ UNCHANGED <<alive, fills, fills_ring_, saves, queue, thread, disk, lost, bounds>>

(* The destructor: it follows the end of the loop, and joins the writer.    *)
Stop ==
  /\ Free /\ stop_' = TRUE
  /\ UNCHANGED <<alive, fills, fills_ring_, saves, q_, enqueued_, processed_, thread,
                 target, disk, lost, requested, bounds>>

-----------------------------------------------------------------------------
(* The writer thread: Run_.                                                 *)

(* The queue changes hands.                                                 *)
Takes(items) ==
  /\ alive /\ writer = "waiting" /\ writer' = IF items = <<>> THEN "flushing" ELSE "writing"
  /\ batch' = items /\ q_' = <<>> /\ taken' = Len(items) /\ stopping' = stop_
  /\ UNCHANGED <<alive, fills, fills_ring_, saves, enqueued_, stop_, buf,
                 target, disk, lost, requested, bounds>>

(* Mutant: the stop is read after the queue was taken, and its items stay.  *)
TakeBatchUnlessStopped == Takes(IF stop_ THEN <<>> ELSE q_) /\ UNCHANGED processed_

(* Mutant: what is taken counts as done.                                    *)
TakeBatchCounted == Takes(q_) /\ processed_' = processed_ + Len(q_)

(* Mutant: the writer sleeps until it is told of an item.                   *)
TakeBatchWhenTold == (q_ # <<>> \/ stop_) /\ Takes(q_) /\ UNCHANGED processed_

(* A notice, or a second without one.                                       *)
TakeBatch == Takes(q_) /\ UNCHANGED processed_

Fails == errors < MaxErrors /\ errors' = errors + 1

(* The items in their order.  A file that cannot be replaced stays as it is, *)
(* and nothing is said.                                                     *)
WriteItem ==
  /\ alive /\ writer = "writing" /\ batch' = Tail(batch)
  /\ writer' = IF batch' = <<>> THEN "flushing" ELSE "writing"
  /\ \/ /\ Head(batch).kind = "line" /\ buf' = Append(buf, Head(batch).n)
        /\ UNCHANGED <<snapshot, requested, errors>>
     \/ /\ Head(batch).kind = "replace" /\ snapshot' = Head(batch).n
        /\ UNCHANGED <<buf, requested, errors>>
     \/ /\ Head(batch).kind = "replace" /\ Fails /\ requested' = 0
        /\ UNCHANGED <<buf, snapshot>>
  /\ UNCHANGED <<alive, fills, fills_ring_, saves, queue, taken, stopping, target, file,
                 lost, restarts>>

(* Lines written onto a torn end are one line with it.                      *)
Written(f, ns) ==
  IF ns = <<>> THEN f
  ELSE IF f # <<>> /\ f[Len(f)].state = "torn"
  THEN SubSeq(f, 1, Len(f) - 1) \o <<[f[Len(f)] EXCEPT !.state = "merged"]>>
         \o [k \in 1..(Len(ns) - 1) |-> Line(ns[k + 1])]
  ELSE f \o [k \in DOMAIN ns |-> Line(ns[k])]
Swallowed(f, ns) ==
  IF ns # <<>> /\ f # <<>> /\ f[Len(f)].state = "torn" THEN {Head(ns)} ELSE {}

(* FlushSink_: a file that cannot be opened or written costs the buffer.    *)
FlushSink ==
  /\ alive /\ writer = "flushing" /\ writer' = "done" /\ buf' = <<>>
  /\ \/ /\ file' = Written(file, buf) /\ lost' = lost \cup Swallowed(file, buf)
        /\ UNCHANGED errors
     \/ Fails /\ lost' = lost \cup ToSet(buf) /\ UNCHANGED file
  /\ UNCHANGED <<alive, fills, fills_ring_, saves, queue, batch, taken, stopping, target,
                 snapshot, requested, restarts>>

(* Less than a second and less than 64K: the buffer is kept.                *)
KeepSink ==
  /\ alive /\ writer = "flushing" /\ ~stopping /\ writer' = "done"
  /\ UNCHANGED <<alive, fills, fills_ring_, saves, queue, batch, taken, stopping, buf, target,
                 disk, lost, requested, bounds>>

(* The items count as done when all of them are.                            *)
MarkProcessed ==
  /\ alive /\ writer = "done" /\ processed_' = processed_ + taken
  /\ writer' = IF stopping THEN "ended" ELSE "waiting"
  /\ taken' = 0
  /\ UNCHANGED <<alive, fills, fills_ring_, saves, q_, enqueued_, stop_, batch, stopping, buf,
                 target, disk, lost, requested, bounds>>

-----------------------------------------------------------------------------
(* A crash loses the memory; a write it interrupts is cut off.              *)
Crash ==
  /\ alive /\ restarts < MaxRestarts /\ restarts' = restarts + 1 /\ alive' = FALSE
  /\ \/ file' = file
     \/ /\ writer = "flushing"
        /\ \E k \in 1..Len(buf) :
             file' = Written(file, SubSeq(buf, 1, k - 1))
                       \o IF k = 1 /\ file # <<>> /\ file[Len(file)].state = "torn"
                          THEN <<>> ELSE <<Torn(buf[k])>>
  /\ LET whole == {l.n : l \in {x \in ToSet(file') : x.state = "whole"}}
     IN  lost' = (1..fills) \ whole
  /\ fills_ring_' = <<>> /\ q_' = <<>> /\ enqueued_' = 0 /\ processed_' = 0 /\ stop_' = FALSE
  /\ writer' = "waiting" /\ batch' = <<>> /\ taken' = 0 /\ stopping' = FALSE /\ buf' = <<>>
  /\ target' = None /\ requested' = 0
  /\ UNCHANGED <<fills, saves, snapshot, errors>>

(* The torn end of a file passes for a fill if its time and its condition   *)
(* are in it, else it is skipped; no other line is.                         *)
Readings(f) ==
  {f} \cup IF f # <<>> /\ f[Len(f)].state = "torn" THEN {SubSeq(f, 1, Len(f) - 1)} ELSE {}
Rows(f) == [k \in DOMAIN f |-> f[k].n]

(* A start reads some of the lines into the ring.                           *)
Reads(tail) ==
  /\ ~alive /\ alive' = TRUE
  /\ \E f \in Readings(tail) : fills_ring_' = Rows(f)
  /\ UNCHANGED <<fills, saves, queue, thread, target, disk, lost, requested, bounds>>

(* Mutant: the ring keeps the head of the file.                             *)
RestoreHead ==
  Reads(SubSeq(file, 1, IF Len(file) < kFillsRingCap THEN Len(file) ELSE kFillsRingCap))

RestoreFillsJournalTail == Reads(LastOf(file, kFillsRingCap))

-----------------------------------------------------------------------------
Writer == TakeBatch \/ WriteItem \/ FlushSink \/ KeepSink \/ MarkProcessed
Next ==
  \/ AppendLine \/ WriteFileAtomic \/ Flush \/ FlushReturns \/ Stop
  \/ Writer \/ Crash \/ RestoreFillsJournalTail

Spec == Init /\ [][Next]_vars

(* The writer wakes at least once a second, and a second is up again and    *)
(* again.                                                                   *)
FairSpec == Spec /\ WF_vars(Writer) /\ SF_vars(FlushSink)

-----------------------------------------------------------------------------
TypeOK ==
  /\ {alive, stop_, stopping} \subseteq BOOLEAN
  /\ {q_, batch} \subseteq Seq(Item) /\ {buf, fills_ring_} \subseteq Seq(Nat)
  /\ writer \in {"waiting", "writing", "flushing", "done", "ended"}
  /\ Len(q_) <= kMaxQueue /\ Len(fills_ring_) <= kFillsRingCap

OnDisk == {l.n : l \in {x \in ToSet(file) : x.state = "whole"}}

(* A fill's line is on its way or in the file until something named lost it *)
(* (a full queue, a file that cannot be opened, a crash): in particular an  *)
(* orderly end writes everything.                                           *)
NoRowVanishes ==
  \A n \in 1..fills :
    \/ n \in OnDisk \cup lost
    \/ writer # "ended" /\ n \in ToSet(buf) \cup Pending("line")

(* A Flush that has returned without an error in between: the snapshot      *)
(* queued before it is the one in the file, or a later one is.              *)
FlushedIsWritten == target # None /\ processed_ >= target => snapshot >= requested

(* The ring has no hole: of the fills after its oldest one only those that  *)
(* were lost are missing, before a start and after it.                      *)
NoHoleInRing ==
  alive => \A n \in ToSet(fills_ring_) : n..fills \subseteq ToSet(fills_ring_) \cup lost

(* What the loop has queued is written in the end, or lost for a reason.    *)
EventuallyWritten ==
  \A n \in 1..MaxFills : n <= fills ~> n \in OnDisk \cup lost
=============================================================================
