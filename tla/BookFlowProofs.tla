---------------------------- MODULE BookFlowProofs ----------------------------
(***************************************************************************)
(* While no two publishes overlap, the hub and the wake-up of the loop do  *)
(* what they promise, for any number of writers and any course of the      *)
(* market.                                                                 *)
(*                                                                         *)
(* Inductive invariant: of the threads between read and publish there is   *)
(* one; what it read is what is shown until it flips, so book_changed is   *)
(* the truth; it writes the buffer that is not shown; the loop copies the  *)
(* shown buffer until a publish laps it; and whatever is shown, the loop   *)
(* has decided on it, will be woken, or is about to read it.               *)
(*                                                                         *)
(* The second part is about the poller of books (BookPoller), the third    *)
(* about the hubs of the other snapshots (Hubs).                           *)
(***************************************************************************)
EXTENDS BookFlow, Reads, SumTheorems

(* What a writer between read and publish knows.                            *)
Fresh(w) ==
  /\ pc[w] = "copy" => idx[w] = front /\ seen[w] = buf[front].head
  /\ pc[w] \in {"put", "putTail", "flip"} => (changed[w] <=> Shown # Content(Whole(feat[w])))
  /\ pc[w] \in {"putTail", "flip"} => idx[w] = 1 - front /\ buf[1 - front].head = feat[w]
  /\ pc[w] = "flip" => buf[1 - front].tail = feat[w]

OnePublishing ==
  \A v, w \in Writers : pc[v] \in Publishing /\ pc[w] \in Publishing => v = w

LoopCopiesShown ==
  pc[Loop] = "copy" /\ ~ lapped => idx[Loop] = front /\ seen[Loop] = buf[front].head

ChangedIsPending ==
  \A w \in Writers : changed[w] => pc[w] \in {"put", "putTail", "flip"}

Alone ==
  /\ OnePublishing
  /\ ChangedIsPending
  /\ \A w \in Writers : Fresh(w)
  /\ ~ Torn(buf[front])
  /\ LoopCopiesShown
  /\ NoChangeMissed

IInv == TypeOK /\ WholeUnlessLapped /\ (overlapped \/ Alone)

-----------------------------------------------------------------------------
(* Before anything is published the invariant holds: nobody is between read *)
(* and publish, and the loop has yet to read.                               *)
LEMMA InitIInv == Init => IInv
<1> SUFFICES ASSUME Init PROVE IInv
    OBVIOUS
<1> USE BookFlowAssumption
<1>1. TypeOK
      BY DEF Init, TypeOK, Books, Whole, Frames, None, Publishing, Threads
<1>2. \A w \in Writers : pc[w] = "idle" /\ w # Loop
      BY DEF Init, Threads
<1>3. pc[Loop] = "read"
      BY DEF Init, Threads
<1>4. ~ Torn(buf[front])
      BY DEF Init, Torn, Whole
<1>5. WholeUnlessLapped
      BY <1>3 DEF WholeUnlessLapped
<1>6. NoChangeMissed
      BY <1>3 DEF NoChangeMissed, LoopSees
<1>7. OnePublishing /\ LoopCopiesShown /\ \A w \in Writers : Fresh(w)
      BY <1>2, <1>3 DEF OnePublishing, LoopCopiesShown, Fresh, Publishing
<1>8. ChangedIsPending
      BY DEF Init, ChangedIsPending
<1> QED BY <1>1, <1>4, <1>5, <1>6, <1>7, <1>8 DEF IInv, Alone

-----------------------------------------------------------------------------
(* Every step keeps the types.                                              *)
LEMMA WriterKeepsTypes ==
  ASSUME TypeOK, NEW w \in Writers, Receive(w) \/ ParseObject(w) \/ PollerEnds(w)
  PROVE  TypeOK'
<1> USE BookFlowAssumption DEF TypeOK, Books, Frames, None, Threads, Goto, Publishing
<1>1. CASE Receive(w)
      BY <1>1 DEF Receive
<1>2. CASE ReadPrev(w)
      BY <1>2 DEF ReadPrev, BeginCopy
<1>3. CASE Compare(w)
      BY <1>3 DEF Compare
<1>4. CASE PutHead(w)
  <2>1. 1 - front \in {0, 1}
        OBVIOUS
  <2>2. feat[w] \in 1..Len(SigOf) \cup {0}
        OBVIOUS
  <2>3. [buf[1 - front] EXCEPT !.head = feat[w]] \in Books
        BY <2>1, <2>2
  <2>4. buf' \in [{0, 1} -> Books]
        BY <1>4, <2>1, <2>3 DEF PutHead
  <2>5. idx' \in [Threads -> {0, 1}]
        BY <1>4, <2>1 DEF PutHead
  <2> QED BY <1>4, <2>4, <2>5, SMTT(30) DEF PutHead
<1>5. CASE PutTail(w)
  <2>1. idx[w] \in {0, 1} /\ feat[w] \in 1..Len(SigOf) \cup {0}
        OBVIOUS
  <2>2. [buf[idx[w]] EXCEPT !.tail = feat[w]] \in Books
        BY <2>1
  <2>3. buf' \in [{0, 1} -> Books]
        BY <1>5, <2>1, <2>2 DEF PutTail
  <2> QED BY <1>5, <2>3 DEF PutTail
<1>6. CASE Flip(w)
  <2>1. (IF changed[w] THEN "notify" ELSE "idle") \in {"notify", "idle"}
        OBVIOUS
  <2> QED BY <1>6, <2>1 DEF Flip
<1>7. CASE RequestTick(w)
      BY <1>7 DEF RequestTick
<1>8. CASE PollerEnds(w)
      BY <1>8 DEF PollerEnds
<1> QED BY <1>1, <1>2, <1>3, <1>4, <1>5, <1>6, <1>7, <1>8 DEF ParseObject, Publish

(* The steps that publish nothing keep the types.                           *)
LEMMA LoopKeepsTypes ==
  ASSUME TypeOK, RunLoop \/ MarketMoves \/ Stop
  PROVE  TypeOK'
<1> USE BookFlowAssumption DEF TypeOK, Books, Frames, None, Threads, Goto, Publishing
<1>1. CASE BeginTick
      BY <1>1 DEF BeginTick, BeginCopy
<1>2. CASE Decide
      BY <1>2 DEF Decide, Copied
<1>3. CASE LeaveWait
  <2>1. (IF stop_requested_ THEN "ended" ELSE "read") \in {"ended", "read"}
        OBVIOUS
  <2> QED BY <1>3, <2>1 DEF LeaveWait
<1>4. CASE FallAsleep
      BY <1>4 DEF FallAsleep
<1>5. CASE MarketMoves
      BY <1>5 DEF MarketMoves
<1>6. CASE Stop
      BY <1>6 DEF Stop
<1> QED BY <1>1, <1>2, <1>3, <1>4, <1>5, <1>6
        DEF RunLoop, TickAll, DoNotWait, Woken, Heartbeat

-----------------------------------------------------------------------------
(* Only the writer that publishes has something to know.                    *)
LEMMA OthersRest ==
  ASSUME OnePublishing, NEW w \in Writers, pc[w] \in Publishing, NEW v \in Writers, v # w
  PROVE  pc[v] \notin Publishing
  BY DEF OnePublishing

(* A thread that is not publishing has nothing to be mistaken about.        *)
LEMMA RestingIsFresh ==
  ASSUME NEW w, pc[w] \notin Publishing
  PROVE  Fresh(w)
  BY DEF Fresh, Publishing

(* Taking a frame, asking for a tick and ending touch neither the hub nor   *)
(* what the loop copies.                                                    *)
LEMMA RestingStepKeepsAlone ==
  ASSUME TypeOK, Alone, NEW w \in Writers, Receive(w) \/ RequestTick(w) \/ PollerEnds(w)
  PROVE  Alone'
<1> USE BookFlowAssumption DEF Threads
<1>1. /\ pc[w] \in {"idle", "notify"}
      /\ pc'[w] \in {"read", "idle", "ended"}
      /\ \A t \in Threads \ {w} : pc'[t] = pc[t]
      BY DEF TypeOK, Receive, RequestTick, PollerEnds, Goto, Publishing
<1>2. UNCHANGED <<buf, front, idx, seen, changed, decided, lapped>>
      BY DEF Receive, RequestTick, PollerEnds
<1>3. \A v \in Writers \ {w} : feat'[v] = feat[v]
      BY DEF TypeOK, Receive, RequestTick, PollerEnds
<1>4. pc'[w] \notin Publishing /\ pc'[Loop] = pc[Loop] /\ Loop # w
      BY <1>1 DEF Publishing
<1>5. OnePublishing'
      BY <1>1, <1>4 DEF Alone, OnePublishing
<1>6. ASSUME NEW v \in Writers PROVE Fresh(v)'
  <2>1. CASE v = w
        BY <1>4, <2>1 DEF Fresh, Publishing
  <2>2. CASE v # w
        BY <1>1, <1>2, <1>3, <2>2 DEF Alone, Fresh, Shown, Content, Whole, Sig
  <2> QED BY <2>1, <2>2
<1>7. (~ Torn(buf[front]) /\ LoopCopiesShown)'
      BY <1>2, <1>4 DEF Alone, Torn, LoopCopiesShown
<1>8. NoChangeMissed'
  <2>1. CASE RequestTick(w)
        BY <2>1 DEF RequestTick, NoChangeMissed
  <2>2. CASE Receive(w) \/ PollerEnds(w)
    <3>1. tick_pending_' = tick_pending_ /\ pc[w] = "idle"
          BY <2>2 DEF Receive, PollerEnds
    <3>2. \A v \in Writers : WillNotify(v) => WillNotify(v)'
      <4> SUFFICES ASSUME NEW v \in Writers, WillNotify(v) PROVE WillNotify(v)'
          OBVIOUS
      <4>1. CASE v = w
            BY <3>1, <4>1, <1>2 DEF WillNotify
      <4>2. CASE v # w
            BY <1>1, <1>2, <4>2 DEF WillNotify
      <4> QED BY <4>1, <4>2
    <3> QED BY <1>2, <1>4, <3>1, <3>2
            DEF Alone, NoChangeMissed, LoopSees, Shown, Content, Copied, Sig
  <2> QED BY <2>1, <2>2
<1>9. ChangedIsPending'
      BY <1>1, <1>2 DEF Alone, ChangedIsPending
<1> QED BY <1>5, <1>6, <1>7, <1>8, <1>9 DEF Alone

(* A writer reads the shown book while nobody else publishes.               *)
LEMMA ReadPrevKeepsAlone ==
  ASSUME TypeOK, Alone, NEW w \in Writers, ReadPrev(w), ~ overlapped'
  PROVE  Alone'
<1> USE BookFlowAssumption DEF Threads
<1>1. /\ pc[w] = "read" /\ pc'[w] = "copy"
      /\ idx'[w] = front /\ seen'[w] = buf[front].head
      /\ \A t \in Threads \ {w} : pc'[t] = pc[t] /\ idx'[t] = idx[t] /\ seen'[t] = seen[t]
      BY DEF TypeOK, ReadPrev, BeginCopy, Goto
<1>2. UNCHANGED <<buf, front, feat, changed, tick_pending_, decided, lapped>>
      BY DEF ReadPrev
<1>3. \A v \in Writers \ {w} : pc'[v] \notin Publishing
      BY <1>1 DEF ReadPrev
<1>4. Loop # w /\ Loop \in Threads
      OBVIOUS
<1>5. OnePublishing'
      BY <1>3 DEF OnePublishing
<1>6. Fresh(w)'
      BY <1>1, <1>2 DEF Fresh
<1>7. \A v \in Writers : Fresh(v)'
      BY <1>3, <1>6 DEF Fresh, Publishing
<1>8. (~ Torn(buf[front]) /\ LoopCopiesShown)'
      BY <1>1, <1>2, <1>4 DEF Alone, Torn, LoopCopiesShown
<1>9. \A v \in Writers : WillNotify(v) => WillNotify(v)'
  <2> SUFFICES ASSUME NEW v \in Writers, WillNotify(v) PROVE WillNotify(v)'
      OBVIOUS
  <2>1. CASE changed[v]
        BY <1>2, <2>1 DEF WillNotify
  <2>2. CASE pc[v] = "notify"
        BY <1>1, <2>2 DEF WillNotify
  <2> QED BY <2>1, <2>2 DEF WillNotify
<1>10. NoChangeMissed'
       BY <1>1, <1>2, <1>4, <1>9
       DEF Alone, NoChangeMissed, LoopSees, Shown, Content, Copied, Sig
<1>11. ChangedIsPending'
       BY <1>1, <1>2 DEF Alone, ChangedIsPending
<1> QED BY <1>5, <1>7, <1>8, <1>10, <1>11 DEF Alone

(* book_changed compares with what is shown.                                *)
LEMMA CompareKeepsAlone ==
  ASSUME TypeOK, Alone, NEW w \in Writers, Compare(w)
  PROVE  Alone'
<1> USE BookFlowAssumption DEF Threads
<1>1. /\ pc[w] = "copy" /\ pc'[w] = "put"
      /\ \A t \in Threads \ {w} : pc'[t] = pc[t] /\ seen'[t] = seen[t]
      BY DEF TypeOK, Compare, Goto
<1>2. UNCHANGED <<buf, front, idx, feat, tick_pending_, decided, lapped>>
      BY DEF Compare
<1>3. Copied(w) = [head |-> buf[front].head, tail |-> buf[front].tail]
      BY <1>1 DEF Alone, Fresh, Copied
<1>4. Content(Copied(w)) = Shown
      BY <1>3 DEF Content, Shown
<1>5. /\ changed'[w] <=> Shown # Content(Whole(feat[w]))
      /\ \A v \in Writers \ {w} : changed'[v] = changed[v]
      BY <1>4 DEF TypeOK, Compare
<1>6. \A v \in Writers \ {w} : pc'[v] \notin Publishing
      BY <1>1, OthersRest DEF Alone, Publishing
<1>7. Loop # w /\ Loop \in Threads
      OBVIOUS
<1>8. OnePublishing'
      BY <1>6 DEF OnePublishing
<1>9. Fresh(w)'
      BY <1>1, <1>2, <1>5 DEF Fresh, Shown, Content, Whole, Sig
<1>10. \A v \in Writers : Fresh(v)'
       BY <1>6, <1>9 DEF Fresh, Publishing
<1>11. (~ Torn(buf[front]) /\ LoopCopiesShown)'
       BY <1>1, <1>2, <1>7 DEF Alone, Torn, LoopCopiesShown
<1>12. \A v \in Writers : WillNotify(v) => WillNotify(v)'
  <2> SUFFICES ASSUME NEW v \in Writers, WillNotify(v) PROVE WillNotify(v)'
      OBVIOUS
  <2>1. v # w
        BY <1>1 DEF Alone, ChangedIsPending, WillNotify
  <2> QED BY <1>1, <1>5, <2>1 DEF WillNotify
<1>13. NoChangeMissed'
       BY <1>1, <1>2, <1>7, <1>12
       DEF Alone, NoChangeMissed, LoopSees, Shown, Content, Copied, Sig
<1>14. ChangedIsPending'
       BY <1>1, <1>5 DEF Alone, ChangedIsPending
<1> QED BY <1>8, <1>10, <1>11, <1>13, <1>14 DEF Alone

(* What is written goes to the buffer that is not shown.                    *)
LEMMA PutHeadKeepsAlone ==
  ASSUME TypeOK, Alone, NEW w \in Writers, PutHead(w)
  PROVE  Alone'
<1> USE BookFlowAssumption DEF Threads
<1>1. /\ pc[w] = "put" /\ pc'[w] = "putTail" /\ idx'[w] = 1 - front
      /\ \A t \in Threads \ {w} : pc'[t] = pc[t] /\ idx'[t] = idx[t]
      BY DEF TypeOK, PutHead, Goto
<1>2. UNCHANGED <<front, feat, seen, changed, tick_pending_, decided, lapped>>
      BY DEF PutHead
<1>3. front \in {0, 1} /\ 1 - front \in {0, 1} /\ 1 - front # front
      BY DEF TypeOK
<1>4. buf'[front] = buf[front] /\ buf'[1 - front].head = feat[w]
      /\ \A i \in {0, 1} : buf'[i].tail = buf[i].tail
      BY <1>3 DEF TypeOK, Books, PutHead
<1>5. \A v \in Writers \ {w} : pc'[v] \notin Publishing
      BY <1>1, OthersRest DEF Alone, Publishing
<1>6. Loop # w /\ Loop \in Threads /\ idx[Loop] \in {0, 1}
      BY DEF TypeOK
<1>7. Shown' = Shown
      BY <1>2, <1>4 DEF Shown, Content, Sig
<1>8. OnePublishing'
      BY <1>5 DEF OnePublishing
<1>9. Fresh(w)'
      BY <1>1, <1>2, <1>3, <1>4, <1>7 DEF Alone, Fresh, Content, Whole, Sig
<1>10. \A v \in Writers : Fresh(v)'
       BY <1>5, <1>9 DEF Fresh, Publishing
<1>11. (~ Torn(buf[front]) /\ LoopCopiesShown)'
       BY <1>1, <1>2, <1>4, <1>6 DEF Alone, Torn, LoopCopiesShown
<1>12. ChangedIsPending'
       BY <1>1, <1>2 DEF Alone, ChangedIsPending
<1>13. \A v \in Writers : WillNotify(v) => WillNotify(v)'
       BY <1>1, <1>2 DEF WillNotify
<1>14. Copied(Loop)' = Copied(Loop)
       BY <1>1, <1>2, <1>4, <1>6 DEF Copied
<1>15. NoChangeMissed'
       BY <1>1, <1>2, <1>6, <1>7, <1>13, <1>14
       DEF Alone, NoChangeMissed, LoopSees, Content, Sig
<1> QED BY <1>8, <1>10, <1>11, <1>12, <1>15 DEF Alone

(* A loop that copies the buffer that is being written either will be woken *)
(* or gets the same content.                                                *)
LEMMA PutTailKeepsAlone ==
  ASSUME TypeOK, Alone, NEW w \in Writers, PutTail(w)
  PROVE  Alone'
<1> USE BookFlowAssumption DEF Threads
<1>1. /\ pc[w] = "putTail" /\ pc'[w] = "flip"
      /\ \A t \in Threads \ {w} : pc'[t] = pc[t]
      BY DEF TypeOK, PutTail, Goto
<1>2. UNCHANGED <<front, feat, idx, seen, changed, tick_pending_, decided, lapped>>
      BY DEF PutTail
<1>3. front \in {0, 1} /\ 1 - front \in {0, 1} /\ 1 - front # front /\ idx[w] = 1 - front
      BY <1>1 DEF TypeOK, Alone, Fresh
<1>4. buf'[front] = buf[front] /\ buf'[1 - front].tail = feat[w]
      /\ \A i \in {0, 1} : buf'[i].head = buf[i].head
      BY <1>3 DEF TypeOK, Books, PutTail
<1>5. \A v \in Writers \ {w} : pc'[v] \notin Publishing
      BY <1>1, OthersRest DEF Alone, Publishing
<1>6. Loop # w /\ Loop \in Threads /\ idx[Loop] \in {front, 1 - front}
      BY <1>3 DEF TypeOK
<1>7. Shown' = Shown
      BY <1>2, <1>4 DEF Shown, Content, Sig
<1>8. OnePublishing'
      BY <1>5 DEF OnePublishing
<1>9. Fresh(w)'
      BY <1>1, <1>2, <1>3, <1>4, <1>7 DEF Alone, Fresh, Content, Whole, Sig
<1>10. \A v \in Writers : Fresh(v)'
       BY <1>5, <1>9 DEF Fresh, Publishing
<1>11. (~ Torn(buf[front]) /\ LoopCopiesShown)'
       BY <1>1, <1>2, <1>4, <1>6 DEF Alone, Torn, LoopCopiesShown
<1>12. ChangedIsPending'
       BY <1>1, <1>2 DEF Alone, ChangedIsPending
<1>13. \A v \in Writers : WillNotify(v) => WillNotify(v)'
       BY <1>1, <1>2 DEF WillNotify
<1>14. NoChangeMissed'
  <2>1. CASE changed[w]
        BY <1>2, <2>1 DEF NoChangeMissed, WillNotify
  <2>2. CASE ~ changed[w]
    <3>1. Shown = Content(Whole(feat[w]))
          BY <1>1, <2>2 DEF Alone, Fresh
    <3>2. Shown = <<Sig(feat[w]), Sig(feat[w])>>
          BY <3>1 DEF Content, Whole
    <3>3. ASSUME Content(Copied(Loop)) = Shown PROVE Content(Copied(Loop))' = Shown
      <4>1. CASE idx[Loop] = front
            BY <1>2, <1>4, <3>3, <4>1 DEF Content, Copied, Sig
      <4>2. CASE idx[Loop] = 1 - front
        <5>1. Copied(Loop)' = [head |-> seen[Loop], tail |-> feat[w]]
              BY <1>2, <1>4, <4>2 DEF Copied
        <5>2. Sig(seen[Loop]) = Sig(feat[w])
              BY <3>2, <3>3 DEF Content, Copied
        <5> QED BY <3>2, <5>1, <5>2 DEF Content, Sig
      <4> QED BY <1>6, <4>1, <4>2
    <3> QED BY <1>1, <1>2, <1>6, <1>7, <1>13, <3>3
            DEF Alone, NoChangeMissed, LoopSees, Content, Sig
  <2> QED BY <2>1, <2>2
<1> QED BY <1>8, <1>10, <1>11, <1>12, <1>14 DEF Alone

(* The flip shows another content only if the loop will be notified.        *)
LEMMA FlipKeepsAlone ==
  ASSUME TypeOK, Alone, NEW w \in Writers, Flip(w)
  PROVE  Alone'
<1> USE BookFlowAssumption DEF Threads
<1>1. /\ pc[w] = "flip" /\ idx[w] = 1 - front /\ front' = 1 - front
      /\ \A t \in Threads \ {w} : pc'[t] = pc[t] /\ idx'[t] = idx[t]
      BY DEF TypeOK, Flip, Goto, Alone, Fresh
<1>2. /\ changed[w] => pc'[w] = "notify"
      /\ ~ changed[w] => pc'[w] = "idle"
      BY DEF TypeOK, Flip, Goto
<1>3. \A v \in Writers \ {w} : changed'[v] = changed[v]
      BY DEF TypeOK, Flip
<1>4. UNCHANGED <<buf, seen, tick_pending_, decided>> /\ ~ changed'[w]
      BY DEF TypeOK, Flip
<1>5. \A v \in Writers \ {w} : pc'[v] \notin Publishing
      BY <1>1, OthersRest DEF Alone, Publishing
<1>6. pc'[w] \notin Publishing
      BY <1>2 DEF Publishing
<1>7. Loop # w /\ Loop \in Threads
      OBVIOUS
<1>8. Shown' = Content(Whole(feat[w])) /\ (~ Torn(buf[front]))'
      BY <1>1, <1>4 DEF Alone, Fresh, Shown, Content, Whole, Torn, Sig
<1>9. OnePublishing' /\ \A v \in Writers : Fresh(v)'
      BY <1>5, <1>6 DEF OnePublishing, Fresh, Publishing
<1>10. LoopCopiesShown'
  <2>1. pc'[Loop] = pc[Loop] /\ (pc[Loop] = "copy" => lapped')
        BY <1>1, <1>7 DEF Flip
  <2> QED BY <2>1 DEF LoopCopiesShown
<1>11. ChangedIsPending'
       BY <1>1, <1>3, <1>4 DEF Alone, ChangedIsPending
<1>12. NoChangeMissed'
  <2>1. CASE changed[w]
        BY <1>2, <2>1 DEF NoChangeMissed, WillNotify
  <2>2. CASE ~ changed[w]
    <3>1. Shown' = Shown
          BY <1>1, <1>8, <2>2 DEF Alone, Fresh
    <3>2. \A v \in Writers : WillNotify(v) => WillNotify(v)'
      <4> SUFFICES ASSUME NEW v \in Writers, WillNotify(v) PROVE WillNotify(v)'
          OBVIOUS
      <4>1. v # w
            BY <1>1, <2>2 DEF WillNotify
      <4> QED BY <1>1, <1>3, <4>1 DEF WillNotify
    <3> QED BY <1>1, <1>4, <1>7, <3>1, <3>2
            DEF Alone, NoChangeMissed, LoopSees, Content, Copied, Sig
  <2> QED BY <2>1, <2>2
<1> QED BY <1>8, <1>9, <1>10, <1>11, <1>12 DEF Alone

-----------------------------------------------------------------------------
(* The loop's own steps, and those of everybody else.                       *)
LEMMA LoopKeepsAlone ==
  ASSUME TypeOK, Alone, RunLoop
  PROVE  Alone'
<1> USE BookFlowAssumption DEF Threads
<1>1. /\ UNCHANGED <<buf, front, feat, changed>>
      /\ \A w \in Writers : pc'[w] = pc[w] /\ idx'[w] = idx[w] /\ seen'[w] = seen[w]
      BY DEF TypeOK, RunLoop, TickAll, BeginTick, BeginCopy, Decide, DoNotWait, FallAsleep,
             Woken, Heartbeat, LeaveWait, Goto
<1>2. (OnePublishing /\ ChangedIsPending /\ ~ Torn(buf[front]))'
      BY <1>1 DEF Alone, OnePublishing, ChangedIsPending, Torn
<1>3. \A w \in Writers : Fresh(w)'
      BY <1>1 DEF Alone, Fresh, Shown, Content, Whole, Sig
<1>4. \A w \in Writers : WillNotify(w) => WillNotify(w)'
      BY <1>1 DEF WillNotify
<1>5. CASE BeginTick
  <2>1. pc'[Loop] = "copy" /\ idx'[Loop] = front /\ seen'[Loop] = buf[front].head
        BY <1>5 DEF TypeOK, BeginTick, BeginCopy, Goto
  <2>2. Content(Copied(Loop))' = Shown'
        BY <1>1, <2>1 DEF Content, Copied, Shown, Sig
  <2> QED BY <1>1, <1>2, <1>3, <2>1, <2>2
          DEF Alone, LoopCopiesShown, NoChangeMissed, LoopSees
<1>6. CASE Decide
  <2>1. pc[Loop] = "copy" /\ pc'[Loop] = "check" /\ decided' = Copied(Loop) /\ tick_pending_' = tick_pending_
        BY <1>6 DEF TypeOK, Decide, Goto
  <2>2. Shown' = Shown /\ Content(decided)' = Content(Copied(Loop))
        BY <1>1, <2>1 DEF Shown, Content, Sig
  <2>3. pc[Loop] # "ended" /\ pc[Loop] # "read"
        BY <2>1
  <2>4. ASSUME LoopSees PROVE NoChangeMissed'
        BY <2>1, <2>2, <2>4 DEF LoopSees, NoChangeMissed
  <2>5. ASSUME tick_pending_ \/ \E w \in Writers : WillNotify(w) PROVE NoChangeMissed'
        BY <1>4, <2>1, <2>5 DEF NoChangeMissed
  <2> QED BY <1>2, <1>3, <2>1, <2>3, <2>4, <2>5 DEF Alone, LoopCopiesShown, NoChangeMissed
<1>7. CASE LeaveWait
  <2>1. pc'[Loop] \in {"read", "ended"}
        BY <1>7 DEF TypeOK, LeaveWait, Goto
  <2> QED BY <1>2, <1>3, <2>1 DEF Alone, LoopCopiesShown, NoChangeMissed, LoopSees
<1>8. CASE FallAsleep
  <2>1. pc[Loop] = "check" /\ pc'[Loop] = "asleep" /\ UNCHANGED <<decided, tick_pending_>>
        BY <1>8 DEF TypeOK, FallAsleep, Goto
  <2> QED BY <1>1, <1>2, <1>3, <1>4, <2>1
          DEF Alone, LoopCopiesShown, NoChangeMissed, LoopSees, Shown, Content, Sig
<1> QED BY <1>5, <1>6, <1>7, <1>8 DEF RunLoop, TickAll, DoNotWait, Woken, Heartbeat

(* A step that leaves hub, threads and loop alone keeps the invariant.      *)
LEMMA OutsideKeepsAlone ==
  ASSUME Alone, UNCHANGED <<buf, front, pc, idx, seen, feat, changed, tick_pending_, decided, lapped>>
  PROVE  Alone'
  BY DEF Alone, OnePublishing, ChangedIsPending, Fresh, Torn, LoopCopiesShown, NoChangeMissed,
         LoopSees, WillNotify, Copied, Shown, Content, Whole, Sig

(* A tick that no publish laps copies one book.                             *)
LEMMA WholeKept ==
  ASSUME IInv, Next
  PROVE  WholeUnlessLapped'
<1> USE BookFlowAssumption DEF Threads
<1>1. CASE Decide
  <2>1. CASE overlapped \/ lapped
        BY <1>1, <2>1 DEF Decide, WholeUnlessLapped
  <2>2. CASE ~ overlapped /\ ~ lapped
    <3>1. idx[Loop] = front /\ seen[Loop] = buf[front].head /\ buf[front].head = buf[front].tail
          BY <1>1, <2>2 DEF Decide, IInv, Alone, LoopCopiesShown, Torn
    <3>2. decided' = [head |-> buf[front].head, tail |-> buf[front].head]
          BY <1>1, <3>1 DEF Decide, Copied
    <3> QED BY <3>2 DEF WholeUnlessLapped, Torn
  <2> QED BY <2>1, <2>2
<1>2. CASE BeginTick \/ LeaveWait \/ FallAsleep
  <2>1. pc'[Loop] # "check"
        BY <1>2 DEF IInv, TypeOK, BeginTick, BeginCopy, LeaveWait, FallAsleep, Goto
  <2> QED BY <2>1 DEF WholeUnlessLapped
<1>3. ASSUME NEW w \in Writers, Receive(w) \/ ParseObject(w) \/ PollerEnds(w)
      PROVE  WholeUnlessLapped'
  <2>1. pc'[Loop] = pc[Loop] /\ decided' = decided
        BY <1>3 DEF IInv, TypeOK, Goto, Receive, ParseObject, PollerEnds, ReadPrev, BeginCopy,
                    Compare, Publish, PutHead, PutTail, Flip, RequestTick
  <2>2. lapped => lapped'
        BY <1>3 DEF Receive, ParseObject, PollerEnds, ReadPrev, Compare, Publish, PutHead,
                    PutTail, Flip, RequestTick
  <2>3. overlapped => overlapped'
        BY <1>3 DEF Receive, ParseObject, PollerEnds, ReadPrev, Compare, Publish, PutHead,
                    PutTail, Flip, RequestTick
  <2> QED BY <2>1, <2>2, <2>3 DEF IInv, WholeUnlessLapped, Torn
<1>4. CASE MarketMoves \/ Stop
  <2>1. UNCHANGED <<pc, decided, lapped, overlapped>>
        BY <1>4 DEF MarketMoves, Stop
  <2> QED BY <2>1 DEF IInv, WholeUnlessLapped, Torn
<1> QED BY <1>1, <1>2, <1>3, <1>4
        DEF Next, RunLoop, TickAll, DoNotWait, Woken, Heartbeat

(* Every step keeps the invariant.                                          *)
LEMMA NextIInv == IInv /\ [Next]_vars => IInv'
<1> SUFFICES ASSUME IInv, [Next]_vars PROVE IInv'
    OBVIOUS
<1>1. CASE UNCHANGED vars
  <2>1. TypeOK' /\ WholeUnlessLapped'
        BY <1>1 DEF IInv, vars, TypeOK, WholeUnlessLapped, Torn
  <2>2. Alone => Alone'
        BY <1>1, OutsideKeepsAlone DEF vars
  <2> QED BY <1>1, <2>1, <2>2 DEF IInv, vars
<1>2. CASE Next
  <2>1. TypeOK'
        BY <1>2, WriterKeepsTypes, LoopKeepsTypes DEF IInv, Next
  <2>2. WholeUnlessLapped'
        BY <1>2, WholeKept
  <2>3. overlapped => overlapped'
        BY <1>2 DEF Next, MarketMoves, Stop, RunLoop, TickAll, BeginTick, Decide,
                    DoNotWait, FallAsleep, Woken, Heartbeat, LeaveWait, Receive, PollerEnds,
                    ParseObject, ReadPrev, Compare, Publish, PutHead, PutTail, Flip, RequestTick
  <2>4. ASSUME ~ overlapped' PROVE Alone'
    <3>1. Alone /\ TypeOK
          BY <2>3, <2>4 DEF IInv
    <3>2. ASSUME NEW w \in Writers, Receive(w) \/ ParseObject(w) \/ PollerEnds(w)
          PROVE  Alone'
          BY <2>4, <3>1, <3>2, RestingStepKeepsAlone, ReadPrevKeepsAlone, CompareKeepsAlone,
             PutHeadKeepsAlone, PutTailKeepsAlone, FlipKeepsAlone DEF ParseObject, Publish
    <3>3. CASE RunLoop
          BY <3>1, <3>3, LoopKeepsAlone
    <3>4. CASE MarketMoves \/ Stop
      <4>1. UNCHANGED <<buf, front, pc, idx, seen, feat, changed, tick_pending_, decided, lapped>>
            BY <3>4 DEF MarketMoves, Stop
      <4> QED BY <3>1, <4>1, OutsideKeepsAlone
    <3> QED BY <1>2, <3>2, <3>3, <3>4 DEF Next
  <2> QED BY <2>1, <2>2, <2>4 DEF IInv
<1> QED BY <1>1, <1>2

(* The invariant holds in every reachable state.                            *)
LEMMA SpecIInv == Spec => []IInv
<1> QED BY InitIInv, NextIInv, PTL DEF Spec

-----------------------------------------------------------------------------
(* The hub's slot, the threads' places and copies keep their types.         *)
THEOREM SpecTypeOK == Spec => []TypeOK
<1>1. IInv => TypeOK
      BY DEF IInv
<1> QED BY <1>1, SpecIInv, PTL

(* Without overlapping publishes no change of the book is missed, for any   *)
(* number of writers: the heartbeat is not needed for that.                 *)
THEOREM SpecNoChangeMissedAlone == Spec => []NoChangeMissedAlone
<1>1. IInv => NoChangeMissedAlone
      BY DEF IInv, Alone, NoChangeMissedAlone
<1> QED BY <1>1, SpecIInv, PTL

(* A tick decides on a mix of two books only if it was lapped by a publish  *)
(* or two publishes overlapped.                                             *)
THEOREM SpecWholeUnlessLapped == Spec => []WholeUnlessLapped
<1>1. IInv => WholeUnlessLapped
      BY DEF IInv
<1> QED BY <1>1, SpecIInv, PTL


-----------------------------------------------------------------------------
(* BookPoller.                                                              *)

(* What k tokens of n may have gathered together, or owe, when none weighs  *)
(* more than h.                                                             *)
CreditRoom(n, h, k) == k * (2 * n - k) * h
InRoom(f, n, h, A) ==
  /\ SumFunctionOnSet(f, A) <= CreditRoom(n, h, Cardinality(A))
  /\ SumFunctionOnSet(f, A) >= -CreditRoom(n, h, Cardinality(A))
Even(f, S, n, h) == \A A \in SUBSET S : InRoom(f, n, h, A)

(* More tokens have more room.                                              *)
LEMMA RoomGrows ==
  ASSUME NEW n \in Nat, NEW h \in Nat, NEW k \in 0..n, NEW j \in 0..k
  PROVE  /\ CreditRoom(n, h, j) \in Nat /\ CreditRoom(n, h, k) \in Nat
         /\ CreditRoom(n, h, j) <= CreditRoom(n, h, k)
  <1>1. /\ j * (2 * n - j) \in Nat /\ k * (2 * n - k) \in Nat
        /\ (k - j) * (2 * n - k - j) \in Nat
        OBVIOUS
  <1>2. k * (2 * n - k) = j * (2 * n - j) + (k - j) * (2 * n - k - j)
        OBVIOUS
  <1> DEFINE a == j * (2 * n - j)  b == k * (2 * n - k)
  <1>3. a \in Nat /\ b \in Nat /\ a <= b
        BY <1>1, <1>2
  <1> HIDE DEF a, b
  <1>4. a * h \in Nat /\ b * h \in Nat /\ a * h <= b * h
        BY <1>3
  <1> QED BY <1>4 DEF CreditRoom, a, b

(* What is gathered without the picked token, a of k, and with it.          *)
LEMMA RoomAbove ==
  ASSUME NEW n \in Nat, NEW h \in Nat, NEW k \in 0..(n - 1), NEW x \in Int, NEW g \in Int,
         x <= k * g, x + g <= CreditRoom(n, h, k + 1) + (k + 1) * h
  PROVE  x <= CreditRoom(n, h, k)
  <1> DEFINE r == (2 * n - k) * h
  <1>1. r \in Int /\ CreditRoom(n, h, k) = k * r
        BY DEF CreditRoom
  <1>2. CreditRoom(n, h, k + 1) + (k + 1) * h = (k + 1) * r
        BY DEF CreditRoom
  <1> HIDE DEF r
  <1>3. k * (x + g) <= k * ((k + 1) * r)
        <2>1. x + g <= (k + 1) * r /\ (k + 1) * r \in Int
              BY <1>1, <1>2
        <2> QED BY <2>1
  <1>4. k * (x + g) = k * x + k * g /\ (k + 1) * x = k * x + x
        OBVIOUS
  <1>5. k * ((k + 1) * r) = (k + 1) * (k * r)
        BY <1>1
  <1>6. (k + 1) * x <= (k + 1) * (k * r)
        <2>1. k * x \in Int /\ k * g \in Int /\ k * ((k + 1) * r) \in Int
              BY <1>1
        <2> QED BY <2>1, <1>3, <1>4, <1>5
  <1>7. x <= k * r
        <2>1. k * r \in Int
              BY <1>1
        <2> QED BY <2>1, <1>6
  <1> QED BY <1>1, <1>7

(* What k owe among k + q, after one of them has paid.                      *)
LEMMA RoomBelow ==
  ASSUME NEW n \in Nat, NEW h \in Nat, NEW k \in 1..n, NEW q \in 0..(n - k),
         NEW x \in Int, NEW s \in Int, NEW d \in Int, NEW w \in Int,
         s >= -CreditRoom(n, h, k + q), d >= -CreditRoom(n, h, k - 1), w <= (q + 1) * h,
         x >= s - q * (x - d + w)
  PROVE  x >= -CreditRoom(n, h, k)
  <1> DEFINE a == CreditRoom(n, h, k + q)  b == CreditRoom(n, h, k - 1)  r == CreditRoom(n, h, k)
  <1>1. a \in Int /\ b \in Int /\ r \in Int
        BY DEF CreditRoom
  <1>2. a + q * b + q * ((q + 1) * h) = (q + 1) * r
        <2>1. (k + q) * (2 * n - (k + q)) + q * ((k - 1) * (2 * n - (k - 1))) + q * (q + 1)
              = (q + 1) * (k * (2 * n - k))
              OBVIOUS
        <2> DEFINE A == (k + q) * (2 * n - (k + q))  B == (k - 1) * (2 * n - (k - 1))
                   R == k * (2 * n - k)
        <2>2. A \in Int /\ B \in Int /\ R \in Int /\ A + q * B + q * (q + 1) = (q + 1) * R
              BY <2>1
        <2>3. a = A * h /\ b = B * h /\ r = R * h
              BY DEF CreditRoom
        <2> HIDE DEF A, B, R, a, b, r
        <2>4. (A + q * B + q * (q + 1)) * h = A * h + q * (B * h) + q * ((q + 1) * h)
              BY <2>2
        <2>5. ((q + 1) * R) * h = (q + 1) * (R * h)
              BY <2>2
        <2> QED BY <2>2, <2>3, <2>4, <2>5
  <1> HIDE DEF a, b, r
  <1>3. q * (x - d + w) = q * x - q * d + q * w
        OBVIOUS
  <1>4. q * d >= -(q * b)
        <2>1. d >= -b
              BY DEF b
        <2>2. d + b \in Nat
              BY <2>1, <1>1
        <2>3. q * (d + b) \in Nat /\ q * (d + b) = q * d + q * b
              BY <2>2, <1>1
        <2> QED BY <2>3, <1>1
  <1>5. q * w <= q * ((q + 1) * h)
        <2>1. (q + 1) * h - w \in Nat
              OBVIOUS
        <2>2. q * ((q + 1) * h - w) \in Nat
              BY <2>1
        <2>3. q * ((q + 1) * h - w) = q * ((q + 1) * h) - q * w
              OBVIOUS
        <2> QED BY <2>2, <2>3
  <1>6. (q + 1) * x = q * x + x
        OBVIOUS
  <1>7. s >= -a
        BY DEF a
  <1>8. (q + 1) * x >= -((q + 1) * r)
        <2> DEFINE qx == q * x  qd == q * d  qw == q * w  qb == q * b  qh == q * ((q + 1) * h)
                   lhs == (q + 1) * x  rhs == (q + 1) * r
        <2>1. /\ qx \in Int /\ qd \in Int /\ qw \in Int /\ qb \in Int /\ qh \in Int
              /\ lhs \in Int /\ rhs \in Int
              BY <1>1
        <2>2. /\ x >= s - (qx - qd + qw) /\ qd >= -qb /\ qw <= qh /\ lhs = qx + x
              /\ a + qb + qh = rhs
              BY <1>2, <1>3, <1>4, <1>5, <1>6
        <2> HIDE DEF qx, qd, qw, qb, qh, lhs, rhs
        <2>3. lhs >= -rhs
              BY <2>1, <2>2, <1>1, <1>7
        <2> QED BY <2>3 DEF lhs, rhs
  <1>9. x >= -r
        <2>1. x + r \in Int /\ (q + 1) * (x + r) = (q + 1) * x + (q + 1) * r
              BY <1>1
        <2>2. (q + 1) * (x + r) >= 0
              <3>1. (q + 1) * x \in Int /\ (q + 1) * r \in Int
                    BY <1>1
              <3> QED BY <2>1, <3>1, <1>8
        <2>3. x + r >= 0
              BY <2>1, <2>2
        <2> QED BY <2>3, <1>1
  <1> QED BY <1>9 DEF r

(* What is forgotten of the others leaves room.                             *)
LEMMA EvenRestricts ==
  ASSUME NEW S, IsFiniteSet(S), NEW h \in Nat, NEW P \in SUBSET S,
         NEW f, NEW g, \A t \in S : f[t] \in Int /\ g[t] \in Int,
         \A t \in P : g[t] = f[t], \A t \in S \ P : g[t] = 0,
         \A A \in SUBSET P : InRoom(f, Cardinality(S), h, A)
  PROVE  Even(g, S, Cardinality(S), h)
  <1> DEFINE n == Cardinality(S)
  <1> SUFFICES ASSUME NEW A \in SUBSET S PROVE InRoom(g, n, h, A)
      BY DEF Even
  <1> DEFINE B == A \cap P  C == A \ P  k == Cardinality(A)  j == Cardinality(B)
  <1>1. /\ IsFiniteSet(A) /\ IsFiniteSet(B) /\ IsFiniteSet(C) /\ B \cap C = {} /\ A = B \cup C
        /\ n \in Nat /\ k \in 0..n /\ j \in 0..k
        <2>1. IsFiniteSet(A) /\ k <= n
              BY FS_Subset
        <2>2. IsFiniteSet(B) /\ j <= k
              BY <2>1, FS_Intersection
        <2>3. IsFiniteSet(C)
              BY <2>1, FS_Difference
        <2>4. n \in Nat /\ k \in Nat /\ j \in Nat
              BY <2>1, <2>2, FS_CardinalityType
        <2> QED BY <2>1, <2>2, <2>3, <2>4
  <1>2. SumFunctionOnSet(g, A) = SumFunctionOnSet(f, B)
        <2>1. SumFunctionOnSet(g, B \cup C) = SumFunctionOnSet(g, B) + SumFunctionOnSet(g, C)
              <3>1. \A t \in B \cup C : g[t] \in Int
                    OBVIOUS
              <3> HIDE DEF B, C
              <3> QED BY <1>1, <3>1, SumSplits
        <2>2. SumFunctionOnSet(g, C) = 0
              <3>1. \A t \in C : g[t] = 0
                    OBVIOUS
              <3> HIDE DEF C
              <3> QED BY <1>1, <3>1, SumOfZeroes
        <2>3. SumFunctionOnSet(g, B) = SumFunctionOnSet(f, B)
              <3>1. \A t \in B : g[t] = f[t]
                    OBVIOUS
              <3> HIDE DEF B
              <3> QED BY <1>1, <3>1, SumSame
        <2>4. SumFunctionOnSet(g, B) \in Int
              <3>1. \A t \in B : g[t] \in Int
                    OBVIOUS
              <3> HIDE DEF B
              <3> QED BY <1>1, <3>1, SumType
        <2> HIDE DEF B, C
        <2> QED BY <1>1, <2>1, <2>2, <2>3, <2>4
  <1>3. InRoom(f, n, h, B)
        OBVIOUS
  <1>4. SumFunctionOnSet(g, A) \in Int
        <2>1. \A t \in A : g[t] \in Int
              OBVIOUS
        <2> QED BY <1>1, <2>1, SumType
  <1> HIDE DEF n, k, j, B, C
  <1>5. /\ CreditRoom(n, h, j) \in Nat /\ CreditRoom(n, h, k) \in Nat
        /\ CreditRoom(n, h, j) <= CreditRoom(n, h, k)
        BY <1>1, RoomGrows
  <1> QED BY <1>2, <1>3, <1>4, <1>5 DEF InRoom, k, j

(* A request keeps the room: whoever is picked has gathered no less than    *)
(* the mean of any others, and pays what all have gained.                   *)
LEMMA PollKeepsRoom ==
  ASSUME NEW S, IsFiniteSet(S), NEW h \in Nat, NEW P \in SUBSET S, NEW p \in P,
         NEW f, NEW w, NEW g, NEW c,
         \A t \in P : f[t] \in Int /\ w[t] \in 0..h /\ g[t] = f[t] + w[t] /\ g[t] <= g[p],
         \A t \in P : t # p => c[t] = g[t],
         c[p] = g[p] - SumFunctionOnSet(w, P),
         \A A \in SUBSET P : InRoom(f, Cardinality(S), h, A),
         NEW A \in SUBSET P
  PROVE  InRoom(c, Cardinality(S), h, A)
  <1> DEFINE n == Cardinality(S)  k == Cardinality(A)  W == SumFunctionOnSet(w, P)
             Q == P \ A  q == Cardinality(Q)
  <1>1. /\ IsFiniteSet(P) /\ IsFiniteSet(A) /\ IsFiniteSet(Q) /\ n \in Nat
        /\ k \in Nat /\ q \in Nat /\ Cardinality(P) = k + q /\ k + q <= n
        <2>1. IsFiniteSet(P) /\ Cardinality(P) <= n
              BY FS_Subset
        <2>2. IsFiniteSet(A)
              BY <2>1, FS_Subset
        <2>3. IsFiniteSet(Q) /\ q = Cardinality(P) - Cardinality(P \cap A)
              BY <2>1, FS_Difference
        <2>4. P \cap A = A
              OBVIOUS
        <2>5. n \in Nat /\ k \in Nat /\ q \in Nat /\ Cardinality(P) \in Nat
              BY <2>1, <2>2, <2>3, FS_CardinalityType
        <2>6. q = Cardinality(P) - k
              BY <2>3, <2>4
        <2> HIDE DEF n, k, q, Q
        <2> QED BY <2>1, <2>2, <2>3, <2>5, <2>6
  <1>2. \A t \in P : w[t] \in Int /\ w[t] \in Nat /\ w[t] <= h /\ f[t] \in Int /\ g[t] \in Int
        OBVIOUS
  <1>3. ASSUME NEW B \in SUBSET P
        PROVE  /\ IsFiniteSet(B)
               /\ SumFunctionOnSet(f, B) \in Int
               /\ SumFunctionOnSet(w, B) \in Nat
               /\ SumFunctionOnSet(w, B) <= Cardinality(B) * h
               /\ SumFunctionOnSet(g, B) = SumFunctionOnSet(f, B) + SumFunctionOnSet(w, B)
               /\ SumFunctionOnSet(g, B) <= Cardinality(B) * g[p]
               /\ Cardinality(B) \in Nat
        <2>1. IsFiniteSet(B)
              BY <1>1, FS_Subset
        <2>2. /\ \A t \in B : f[t] \in Int
              /\ \A t \in B : w[t] \in Nat
              /\ \A t \in B : w[t] \in Int /\ w[t] <= h
              /\ \A t \in B : f[t] \in Int /\ w[t] \in Int /\ g[t] = f[t] + w[t]
              /\ \A t \in B : g[t] \in Int /\ g[t] <= g[p]
              /\ g[p] \in Int /\ h \in Int
              BY <1>2
        <2>3. SumFunctionOnSet(f, B) \in Int
              BY <2>1, <2>2, SumType
        <2>4. SumFunctionOnSet(w, B) \in Nat
              BY <2>1, <2>2, SumOfNaturals
        <2>5. SumFunctionOnSet(w, B) <= Cardinality(B) * h
              BY <2>1, <2>2, SumAtMost
        <2>6. SumFunctionOnSet(g, B) = SumFunctionOnSet(f, B) + SumFunctionOnSet(w, B)
              BY <2>1, <2>2, SumAdds
        <2>7. SumFunctionOnSet(g, B) <= Cardinality(B) * g[p]
              BY <2>1, <2>2, SumAtMost
        <2>8. Cardinality(B) \in Nat
              BY <2>1, FS_CardinalityType
        <2> QED BY <2>1, <2>3, <2>4, <2>5, <2>6, <2>7, <2>8
  <1>4. W \in Nat /\ W = SumFunctionOnSet(w, A) + SumFunctionOnSet(w, Q)
        <2>1. A \cap Q = {} /\ A \cup Q = P /\ Q \in SUBSET P /\ P \in SUBSET P
              OBVIOUS
        <2>2. \A t \in A \cup Q : w[t] \in Int
              BY <1>2
        <2> HIDE DEF Q
        <2>3. SumFunctionOnSet(w, A \cup Q) = SumFunctionOnSet(w, A) + SumFunctionOnSet(w, Q)
              BY <1>1, <2>1, <2>2, SumSplits
        <2>4. SumFunctionOnSet(w, A \cup Q) = W
              BY <2>1
        <2> QED BY <2>3, <2>4, <2>1, <1>3
  <1> DEFINE x == SumFunctionOnSet(c, A)
  <1>5. CASE p \notin A
        <2>1. x = SumFunctionOnSet(g, A)
              <3>1. \A t \in A : c[t] = g[t]
                    BY <1>5
              <3> QED BY <1>1, <3>1, SumSame
        <2>2. x = SumFunctionOnSet(f, A) + SumFunctionOnSet(w, A) /\ x <= k * g[p] /\ x \in Int
              BY <2>1, <1>3
        <2>3. x >= -CreditRoom(n, h, k)
              <3>1. SumFunctionOnSet(f, A) >= -CreditRoom(n, h, k)
                    BY DEF InRoom
              <3>2. SumFunctionOnSet(f, A) \in Int /\ SumFunctionOnSet(w, A) \in Nat
                    BY <1>3
              <3>3. CreditRoom(n, h, k) \in Int
                    BY <1>1 DEF CreditRoom
              <3> HIDE DEF x, n, k
              <3> QED BY <2>2, <3>1, <3>2, <3>3
        <2>4. x + g[p] <= CreditRoom(n, h, k + 1) + (k + 1) * h /\ k + 1 <= n
              <3> DEFINE B == A \cup {p}
              <3>1. B \in SUBSET P /\ Cardinality(B) = k + 1
                    BY <1>1, <1>5, FS_AddElement
              <3>2. SumFunctionOnSet(g, B) = g[p] + SumFunctionOnSet(g, A)
                    <4>1. \A t \in A \cup {p} : g[t] \in Int
                          BY <1>2
                    <4> QED BY <1>1, <1>5, <4>1, SumGains
              <3>3. /\ SumFunctionOnSet(g, B) = SumFunctionOnSet(f, B) + SumFunctionOnSet(w, B)
                    /\ SumFunctionOnSet(w, B) <= (k + 1) * h
                    /\ SumFunctionOnSet(f, B) \in Int /\ SumFunctionOnSet(w, B) \in Nat
                    BY <3>1, <1>3
              <3>4. SumFunctionOnSet(f, B) <= CreditRoom(n, h, k + 1)
                    <4>1. InRoom(f, n, h, B)
                          BY <3>1
                    <4> QED BY <4>1, <3>1 DEF InRoom
              <3>5. k + 1 <= n
                    <4>1. Cardinality(B) <= Cardinality(P)
                          BY <3>1, <1>1, FS_Subset
                    <4> QED BY <4>1, <3>1, <1>1
              <3>6. CreditRoom(n, h, k + 1) \in Int /\ (k + 1) * h \in Int /\ g[p] \in Int
                    BY <1>1, <1>2 DEF CreditRoom
              <3> HIDE DEF B, x, n, k
              <3> QED BY <2>1, <2>2, <3>2, <3>3, <3>4, <3>5, <3>6
        <2>5. x <= CreditRoom(n, h, k)
              <3>1. k \in 0..(n - 1) /\ g[p] \in Int
                    BY <1>1, <1>2, <2>4
              <3> HIDE DEF x, n, k
              <3> QED BY <1>1, <2>2, <2>4, <3>1, RoomAbove
        <2> QED BY <2>3, <2>5 DEF InRoom
  <1>6. CASE p \in A
        <2> DEFINE D == A \ {p}
        <2>1. /\ D \in SUBSET P /\ IsFiniteSet(D) /\ Cardinality(D) = k - 1 /\ k \in 1..n
              /\ q \in 0..(n - k)
              <3>1. IsFiniteSet(D) /\ Cardinality(D) = k - 1
                    BY <1>1, <1>6, FS_RemoveElement
              <3>2. k # 0
                    BY <1>1, <1>6, FS_EmptySet
              <3> QED BY <1>1, <3>1, <3>2
        <2>2. x = SumFunctionOnSet(g, A) - W /\ x \in Int
              <3>1. c[p] \in Int /\ c[p] = g[p] - W
                    BY <1>2, <1>4
              <3>2. \A y \in A : g[y] \in Int /\ c[y] \in Int
                    BY <3>1, <1>2
              <3>3. \A y \in A : y # p => c[y] = g[y]
                    OBVIOUS
              <3>4. x = SumFunctionOnSet(g, A) - g[p] + c[p]
                    BY <1>1, <1>6, <3>2, <3>3, SumChanges
              <3>5. SumFunctionOnSet(g, A) \in Int /\ g[p] \in Int
                    BY <1>2, <1>3
              <3> HIDE DEF x, W
              <3> QED BY <3>1, <3>4, <3>5, <1>4
        <2>3. x = SumFunctionOnSet(f, A) - SumFunctionOnSet(w, Q)
              <3>1. /\ SumFunctionOnSet(g, A) = SumFunctionOnSet(f, A) + SumFunctionOnSet(w, A)
                    /\ SumFunctionOnSet(f, A) \in Int /\ SumFunctionOnSet(w, A) \in Nat
                    BY <1>3
              <3>2. Q \in SUBSET P
                    OBVIOUS
              <3>3. SumFunctionOnSet(w, Q) \in Nat
                    BY <3>2, <1>3
              <3> HIDE DEF x, W, Q
              <3> QED BY <2>2, <1>4, <3>1, <3>3
        <2>4. x <= CreditRoom(n, h, k)
              <3>1. SumFunctionOnSet(f, A) <= CreditRoom(n, h, k) /\ CreditRoom(n, h, k) \in Int
                    BY <1>1 DEF InRoom, CreditRoom
              <3>2. SumFunctionOnSet(f, A) \in Int /\ SumFunctionOnSet(w, Q) \in Nat
                    BY <1>3
              <3> HIDE DEF x, n, k, Q
              <3> QED BY <2>2, <2>3, <3>1, <3>2
        <2> DEFINE s == SumFunctionOnSet(f, P)  d == SumFunctionOnSet(f, D)
                   e == SumFunctionOnSet(w, Q \cup {p})
        <2>5. s >= -CreditRoom(n, h, k + q) /\ d >= -CreditRoom(n, h, k - 1) /\ e <= (q + 1) * h
              <3>1. s >= -CreditRoom(n, h, k + q)
                    BY <1>1 DEF InRoom
              <3>2. d >= -CreditRoom(n, h, k - 1)
                    <4>1. InRoom(f, n, h, D)
                          BY <2>1
                    <4> QED BY <4>1, <2>1 DEF InRoom
              <3>3. Q \cup {p} \in SUBSET P /\ Cardinality(Q \cup {p}) = q + 1
                    BY <1>1, <1>6, FS_AddElement
              <3>4. e <= (q + 1) * h
                    BY <3>3, <1>3
              <3> QED BY <3>1, <3>2, <3>4
        <2>6. s \in Int /\ d \in Int /\ e \in Int
              <3>1. Q \cup {p} \in SUBSET P /\ P \in SUBSET P
                    OBVIOUS
              <3> QED BY <3>1, <2>1, <1>3
        <2>7. x >= s - q * (x - d + e)
              <3>1. s = SumFunctionOnSet(f, A) + SumFunctionOnSet(f, Q)
                    <4>1. A \cap Q = {} /\ A \cup Q = P
                          OBVIOUS
                    <4>2. \A t \in A \cup Q : f[t] \in Int
                          BY <1>2
                    <4>3. SumFunctionOnSet(f, A \cup Q) = SumFunctionOnSet(f, A) + SumFunctionOnSet(f, Q)
                          <5> HIDE DEF Q
                          <5> QED BY <1>1, <4>1, <4>2, SumSplits
                    <4> QED BY <4>1, <4>3
              <3>2. /\ SumFunctionOnSet(g, Q) = SumFunctionOnSet(f, Q) + SumFunctionOnSet(w, Q)
                    /\ SumFunctionOnSet(g, Q) <= q * g[p]
                    /\ SumFunctionOnSet(f, Q) \in Int /\ SumFunctionOnSet(w, Q) \in Nat
                    /\ SumFunctionOnSet(f, A) \in Int
                    BY <1>3
              <3>3. g[p] = x - d + e
                    <4>1. SumFunctionOnSet(f, A) = f[p] + d
                          <5>1. \A y \in A : f[y] \in Int
                                BY <1>2
                          <5> QED BY <1>1, <1>6, <5>1, SumTakesOut
                    <4>2. e = w[p] + SumFunctionOnSet(w, Q)
                          <5>1. p \notin Q /\ \A y \in Q \cup {p} : w[y] \in Int
                                BY <1>2, <1>6
                          <5> HIDE DEF Q
                          <5> QED BY <1>1, <5>1, SumGains
                    <4>3. g[p] = f[p] + w[p] /\ f[p] \in Int /\ w[p] \in Nat
                          BY <1>2
                    <4> HIDE DEF x, d, e, Q
                    <4> QED BY <2>2, <2>3, <2>6, <3>2, <4>1, <4>2, <4>3
              <3>4. x = s - SumFunctionOnSet(g, Q)
                    <4> HIDE DEF x, s, Q
                    <4> QED BY <2>3, <3>1, <3>2
              <3>5. SumFunctionOnSet(g, Q) \in Int /\ q * g[p] \in Int
                    <4>1. g[p] \in Int /\ q \in Nat
                          BY <1>1, <1>2
                    <4> HIDE DEF q
                    <4> QED BY <3>2, <4>1
              <3> HIDE DEF x, s, d, e, q, Q
              <3>6. x >= s - q * g[p]
                    BY <2>6, <3>2, <3>4, <3>5
              <3> QED BY <3>3, <3>6
        <2>8. x >= -CreditRoom(n, h, k)
              <3> HIDE DEF x, s, d, e, n, k, q
              <3> QED BY <1>1, <2>1, <2>2, <2>5, <2>6, <2>7, RoomBelow
        <2> QED BY <2>4, <2>8 DEF InRoom
  <1> QED BY <1>5, <1>6

(* The tokens are finitely many and have weights of their own.              *)
LEMMA PolledTokens ==
  ASSUME BP!BookPollerAssumption
  PROVE  /\ IsFiniteSet(BP!Tokens) /\ 0 \in Fav /\ MaxPlans \in Nat
         /\ Base \in [BP!Tokens -> Nat] /\ \A t \in BP!Tokens : Base[t] \in Nat
  <1>1. IsFiniteSet(BP!Tokens)
        BY DEF BP!BookPollerAssumption, BP!IsFiniteSet, IsFiniteSet
  <1>2. Base \in [BP!Tokens -> Nat \ {0}] /\ 0 \in Fav /\ MaxPlans \in Nat
        BY DEF BP!BookPollerAssumption
  <1> HIDE DEF BP!Tokens
  <1> QED BY <1>1, <1>2

(* A weight is a number, and no more than its token's own and a little.     *)
LEMMA WeightIs ==
  ASSUME NEW base \in Nat, NEW fav
  PROVE  BP!Weight(base, fav) \in 0..(base + 18)
  <1>1. base \div 4 \in Nat /\ base \div 4 <= base
        OBVIOUS
  <1>2. BP!Max({2, base \div 4}) \in {2, base \div 4}
        <2> DEFINE S == {2, base \div 4}
        <2>1. \E x \in S : \A y \in S : x >= y
              BY <1>1
        <2> HIDE DEF S
        <2> QED BY <2>1 DEF BP!Max
  <1> QED BY <1>1, <1>2 DEF BP!Weight

(* The weights that occur lie between the two that are named.               *)
LEMMA WeightsBetween ==
  ASSUME BP!BookPollerAssumption, BP!Tokens # {}
  PROVE  /\ BP!Lightest \in Nat /\ BP!Heaviest \in Nat
         /\ \A t \in BP!Tokens, f \in Fav : BP!Weight(Base[t], f) \in BP!Lightest..BP!Heaviest
  <1> DEFINE S == {BP!Weight(Base[t], f) : t \in BP!Tokens, f \in Fav}
             n == SumFunctionOnSet(Base, BP!Tokens)
  <1>1. IsFiniteSet(BP!Tokens) /\ 0 \in Fav /\ \A t \in BP!Tokens : Base[t] \in Nat
        BY PolledTokens
  <1>2. n \in Nat /\ \A t \in BP!Tokens : Base[t] <= n
        BY <1>1, SumOfNaturals
  <1>3. S \subseteq 0..(n + 18)
        <2> SUFFICES ASSUME NEW t \in BP!Tokens, NEW f \in Fav
                     PROVE  BP!Weight(Base[t], f) \in 0..(n + 18)
            OBVIOUS
        <2>1. BP!Weight(Base[t], f) \in 0..(Base[t] + 18)
              BY <1>1, WeightIs
        <2> HIDE DEF n
        <2> QED BY <1>1, <1>2, <2>1
  <1>4. IsFiniteSet(S) /\ S # {} /\ S \in SUBSET Int
        <2>1. n + 18 \in Int
              BY <1>2
        <2>2. IsFiniteSet(0..(n + 18))
              BY <2>1, FS_Interval
        <2>3. S # {}
              BY <1>1
        <2> HIDE DEF S
        <2>4. IsFiniteSet(S)
              BY <1>3, <2>2, FS_Subset
        <2> QED BY <1>3, <2>1, <2>3, <2>4
  <1>5. BP!Heaviest = BP!Max(S) /\ BP!Lightest = BP!Min(S)
        BY DEF BP!Heaviest, BP!Lightest
  <1> HIDE DEF S, n
  <1>6. BP!Max(S) \in S /\ \A x \in S : x <= BP!Max(S)
        <2> DEFINE f == [x \in S |-> x]
        <2>1. \A x \in S : f[x] \in Int
              BY <1>4
        <2>2. \E m \in S : \A x \in S : f[x] <= f[m]
              <3> HIDE DEF f
              <3> QED BY <1>4, <2>1, FiniteHasMost
        <2>3. \E m \in S : \A x \in S : m >= x
              BY <2>2, <1>4
        <2>4. BP!Max(S) \in S /\ \A x \in S : BP!Max(S) >= x
              BY <2>3 DEF BP!Max
        <2> QED BY <2>4, <1>4
  <1>7. BP!Min(S) \in S /\ \A x \in S : BP!Min(S) <= x
        BY <1>4, FiniteHasLeast DEF BP!Min
  <1>8. \A t \in BP!Tokens, f \in Fav : BP!Weight(Base[t], f) \in S
        BY DEF S
  <1>9. S \subseteq Nat
        BY <1>2, <1>3
  <1>10. BP!Max(S) \in Nat /\ BP!Min(S) \in Nat
        BY <1>6, <1>7, <1>9
  <1>11. \A x \in S : x \in BP!Min(S)..BP!Max(S)
        BY <1>6, <1>7, <1>9, <1>10
  <1> QED BY <1>5, <1>8, <1>10, <1>11

(* The sum of the specification is the sum of these lemmas.                 *)
LEMMA SameTotal ==
  BP!Total = SumFunctionOnSet(dyn_w, BP!Polled)
  BY DEF BP!Total, SumFunctionOnSet, FoldFunctionOnSet, MapThenFoldSet,
         BP!SumFunctionOnSet, BP!FoldFunctionOnSet, BP!MapThenFoldSet

(* Who is picked is polled, and nobody has gathered more.                   *)
LEMMA PickIs ==
  ASSUME BP!BookPollerAssumption, BP!TypeOK, plan # << >>,
         NEW g \in [BP!Tokens -> Int]
  PROVE  /\ BP!Polled \subseteq BP!Tokens
         /\ BP!Pick(g) \in BP!Polled
         /\ \A t \in BP!Polled : g[t] <= g[BP!Pick(g)]
  <1>1. plan \in Seq(BP!Tokens) /\ Len(plan) \in Nat /\ DOMAIN plan = 1..Len(plan)
        /\ DOMAIN plan # {}
        <2>1. plan \in Seq(BP!Tokens)
              BY DEF BP!TypeOK, BP!BookPollerAssumption
        <2> HIDE DEF BP!Tokens
        <2>2. Len(plan) \in Nat /\ DOMAIN plan = 1..Len(plan) /\ Len(plan) # 0
              BY <2>1
        <2> QED BY <2>1, <2>2
  <1>2. \A i \in DOMAIN plan : plan[i] \in BP!Tokens
        BY <1>1
  <1> DEFINE D == DOMAIN plan
             f == [i \in D |-> g[plan[i]]]
             S == {i \in D : \A j \in D : g[plan[j]] <= g[plan[i]]}
  <1>3. IsFiniteSet(D) /\ \A i \in D : f[i] \in Int
        <2>1. IsFiniteSet(1..Len(plan))
              BY <1>1, FS_Interval
        <2> QED BY <1>1, <1>2, <2>1
  <1>4. \E m \in D : \A i \in D : f[i] <= f[m]
        <2> HIDE DEF D, f
        <2> QED BY <1>1, <1>3, FiniteHasMost DEF D
  <1>5. S # {} /\ S \in SUBSET Int /\ IsFiniteSet(S)
        <2>1. S # {}
              BY <1>4
        <2>2. S \in SUBSET D
              OBVIOUS
        <2>3. IsFiniteSet(S)
              BY <1>3, <2>2, FS_Subset
        <2> QED BY <1>1, <2>1, <2>2, <2>3
  <1>6. BP!Min(S) \in S
        <2> HIDE DEF S
        <2> QED BY <1>5, FiniteHasLeast DEF BP!Min
  <1>7. BP!Pick(g) = plan[BP!Min(S)]
        BY DEF BP!Pick
  <1>8. \A t \in BP!Polled : \E j \in D : t = plan[j]
        BY DEF BP!Polled
  <1> QED BY <1>2, <1>6, <1>7, <1>8 DEF BP!Polled

(* A token outside the plan has no credit, and one that waits has gathered  *)
(* at least the lightest weight with every request.                         *)
PollerInv ==
  /\ BP!TypeOK
  /\ plan # << >> /\ ~planChanged => \A t \in BP!Polled : dyn_w[t] \in BP!Lightest..BP!Heaviest
  /\ ~planChanged => \A t \in BP!Tokens \ BP!Polled : cw[t] = 0
  /\ \A t \in BP!Tokens \ BP!Polled : waited[t] = 0
  /\ Even(cw, BP!Tokens, Cardinality(BP!Tokens), BP!Heaviest)
  /\ \A t \in BP!Tokens :
       waited[t] * BP!Lightest <= cw[t] + CreditRoom(Cardinality(BP!Tokens), BP!Heaviest, 1)

(* What one token owes is no more than its room.                            *)
LEMMA OwesAtMost ==
  ASSUME NEW S, IsFiniteSet(S), NEW h \in Nat, NEW f, \A t \in S : f[t] \in Int,
         Even(f, S, Cardinality(S), h), NEW t \in S
  PROVE  /\ f[t] <= CreditRoom(Cardinality(S), h, 1)
         /\ f[t] >= -CreditRoom(Cardinality(S), h, 1)
  <1>1. {t} \in SUBSET S /\ Cardinality({t}) = 1 /\ IsFiniteSet({t})
        BY FS_Singleton
  <1>2. SumFunctionOnSet(f, {t}) = f[t]
        <2>1. {t} \ {t} = {} /\ t \in {t} /\ \A y \in {t} : f[y] \in Int
              OBVIOUS
        <2>2. SumFunctionOnSet(f, {t}) = f[t] + SumFunctionOnSet(f, {t} \ {t})
              BY <1>1, <2>1, SumTakesOut
        <2>3. SumFunctionOnSet(f, {t} \ {t}) = 0
              <3>1. IsFiniteSet({t} \ {t}) /\ \A y \in {t} \ {t} : f[y] = 0
                    BY <2>1, FS_EmptySet
              <3> QED BY <3>1, SumOfZeroes
        <2>4. f[t] \in Int
              OBVIOUS
        <2> QED BY <2>1, <2>2, <2>3, <2>4
  <1>3. InRoom(f, Cardinality(S), h, {t})
        BY <1>1 DEF Even
  <1> QED BY <1>1, <1>2, <1>3 DEF InRoom

LEMMA PollerInit ==
  ASSUME BP!BookPollerAssumption, BP!Tokens # {}, BP!Init
  PROVE  PollerInv
  <1>1. BP!TypeOK /\ BP!Polled = {}
        <2>1. plan = << >> /\ planChanged = FALSE /\ plans = 0 /\ plans \in 0..MaxPlans
              BY PolledTokens DEF BP!Init
        <2>2. /\ dyn_w \in [BP!Tokens -> Nat] /\ cw \in [BP!Tokens -> Int]
              /\ waited \in [BP!Tokens -> Nat]
              <3>1. /\ dyn_w = Base /\ cw = [t \in BP!Tokens |-> 0]
                    /\ waited = [t \in BP!Tokens |-> 0]
                    BY DEF BP!Init
              <3>2. Base \in [BP!Tokens -> Nat]
                    BY PolledTokens
              <3> HIDE DEF BP!Tokens
              <3> QED BY <3>1, <3>2
        <2>3. BP!Polled = {}
              BY <2>1 DEF BP!Polled
        <2> QED BY <2>1, <2>2, <2>3 DEF BP!TypeOK
  <1>2. IsFiniteSet(BP!Tokens) /\ \A t \in BP!Tokens : cw[t] = 0 /\ cw[t] \in Int
        BY PolledTokens DEF BP!Init
  <1>3. BP!Heaviest \in Nat /\ BP!Lightest \in Nat
        BY WeightsBetween
  <1>4. Cardinality(BP!Tokens) \in Nat /\ Cardinality(BP!Tokens) # 0
        BY <1>2, FS_CardinalityType, FS_EmptySet
  <1>5. Even(cw, BP!Tokens, Cardinality(BP!Tokens), BP!Heaviest)
        <2> SUFFICES ASSUME NEW A \in SUBSET BP!Tokens
                     PROVE  InRoom(cw, Cardinality(BP!Tokens), BP!Heaviest, A)
            BY DEF Even
        <2>1. IsFiniteSet(A) /\ Cardinality(A) \in 0..Cardinality(BP!Tokens)
              BY <1>2, <1>4, FS_Subset, FS_CardinalityType
        <2>2. SumFunctionOnSet(cw, A) = 0
              BY <1>2, <2>1, SumOfZeroes
        <2>3. CreditRoom(Cardinality(BP!Tokens), BP!Heaviest, Cardinality(A)) \in Nat
              <3>1. 0 \in 0..Cardinality(A)
                    BY <2>1
              <3> QED BY <1>3, <1>4, <2>1, <3>1, RoomGrows
        <2> QED BY <2>2, <2>3 DEF InRoom
  <1>6. CreditRoom(Cardinality(BP!Tokens), BP!Heaviest, 1) \in Nat
        <2>1. 1 \in 0..Cardinality(BP!Tokens) /\ 0 \in 0..1
              BY <1>4
        <2> QED BY <1>3, <1>4, <2>1, RoomGrows
  <1>7. \A t \in BP!Tokens : waited[t] = 0
        BY DEF BP!Init
  <1> QED BY <1>1, <1>2, <1>3, <1>5, <1>6, <1>7 DEF PollerInv, BP!Init

(* What is polled are tokens.                                               *)
LEMMA PolledIn ==
  ASSUME BP!BookPollerAssumption, BP!TypeOK
  PROVE  BP!Polled \in SUBSET BP!Tokens
  <1>1. plan \in PollPlans \cup {<< >>} /\ PollPlans \subseteq Seq(BP!Tokens)
        BY DEF BP!TypeOK, BP!BookPollerAssumption
  <1> HIDE DEF BP!Tokens
  <1>2. << >> \in Seq(BP!Tokens)
        OBVIOUS
  <1>3. plan \in Seq(BP!Tokens)
        BY <1>1, <1>2
  <1> QED BY <1>3 DEF BP!Polled

(* What is published is not asked for before the weights are those of its   *)
(* tokens.                                                                  *)
LEMMA PublishKeeps ==
  ASSUME BP!BookPollerAssumption, BP!Tokens # {}, PollerInv,
         NEW p \in PollPlans, BP!PublishPollPlan(p)
  PROVE  PollerInv'
  <1>1. /\ plan' = p /\ planChanged' = TRUE /\ waited' = [t \in BP!Tokens |-> 0]
        /\ dyn_w' = dyn_w /\ cw' = cw /\ plans < MaxPlans /\ plans' = plans + 1
        BY DEF BP!PublishPollPlan
  <1>2. IsFiniteSet(BP!Tokens) /\ MaxPlans \in Nat /\ BP!Heaviest \in Nat /\ BP!Lightest \in Nat
        BY PolledTokens, WeightsBetween
  <1>3. BP!TypeOK'
        <2>1. BP!TypeOK
              BY DEF PollerInv
        <2>2. waited' \in [BP!Tokens -> Nat]
              BY <1>1
        <2>3. plans' \in 0..MaxPlans
              BY <1>1, <1>2, <2>1 DEF BP!TypeOK
        <2> QED BY <1>1, <2>1, <2>2, <2>3 DEF BP!TypeOK
  <1>4. \A t \in BP!Tokens : waited'[t] = 0
        BY <1>1
  <1>5. \A t \in BP!Tokens : cw[t] \in Int
        BY DEF PollerInv, BP!TypeOK
  <1>6. \A t \in BP!Tokens :
          0 * BP!Lightest <= cw[t] + CreditRoom(Cardinality(BP!Tokens), BP!Heaviest, 1)
        <2> SUFFICES ASSUME NEW t \in BP!Tokens
                     PROVE  0 <= cw[t] + CreditRoom(Cardinality(BP!Tokens), BP!Heaviest, 1)
            BY <1>2
        <2>1. cw[t] >= -CreditRoom(Cardinality(BP!Tokens), BP!Heaviest, 1)
              BY <1>2, <1>5, OwesAtMost DEF PollerInv
        <2>2. CreditRoom(Cardinality(BP!Tokens), BP!Heaviest, 1) \in Int
              BY <1>2, FS_CardinalityType DEF CreditRoom
        <2> QED BY <1>5, <2>1, <2>2
  <1> QED BY <1>1, <1>3, <1>4, <1>6 DEF PollerInv

(* A token that has left the plan loses what it had gathered or owed.       *)
LEMMA RefreshKeeps ==
  ASSUME BP!BookPollerAssumption, BP!Tokens # {}, PollerInv,
         NEW favs \in [BP!Tokens -> Fav], BP!RefreshPlan(favs)
  PROVE  PollerInv'
  <1> DEFINE P == BP!Polled  n == Cardinality(BP!Tokens)  h == BP!Heaviest
  <1>1. /\ plan' = plan /\ waited' = waited /\ plans' = plans /\ planChanged' = FALSE
        /\ cw' = [t \in BP!Tokens |-> IF t \in P THEN cw[t] ELSE 0]
        /\ dyn_w' = [t \in BP!Tokens |-> IF t \in P THEN BP!Weight(Base[t], favs[t]) ELSE Base[t]]
        /\ BP!Polled' = P
        BY DEF BP!RefreshPlan, BP!Credit, BP!Polled
  <1>2. /\ IsFiniteSet(BP!Tokens) /\ h \in Nat /\ BP!Lightest \in Nat
        /\ \A t \in BP!Tokens : Base[t] \in Nat
        /\ \A t \in BP!Tokens, f \in Fav : BP!Weight(Base[t], f) \in BP!Lightest..h
        BY PolledTokens, WeightsBetween
  <1>3. BP!TypeOK /\ \A t \in BP!Tokens : cw[t] \in Int
        BY DEF PollerInv, BP!TypeOK
  <1>4. P \in SUBSET BP!Tokens
        BY <1>3, PolledIn
  <1> HIDE DEF P, h
  <1>5. \A t \in P : dyn_w'[t] \in BP!Lightest..h
        <2> SUFFICES ASSUME NEW t \in P PROVE dyn_w'[t] \in BP!Lightest..h
            OBVIOUS
        <2>1. t \in BP!Tokens /\ favs[t] \in Fav
              BY <1>4
        <2> QED BY <1>1, <1>2, <2>1
  <1>6. BP!TypeOK'
        <2>1. cw' \in [BP!Tokens -> Int]
              BY <1>1, <1>3
        <2>2. dyn_w' \in [BP!Tokens -> Nat]
              <3>1. \A t \in BP!Tokens : BP!Weight(Base[t], favs[t]) \in Nat
                    BY <1>2
              <3> QED BY <1>1, <1>2, <3>1
        <2> QED BY <1>1, <1>3, <2>1, <2>2 DEF BP!TypeOK
  <1>7. /\ \A t \in BP!Tokens : cw'[t] \in Int
        /\ \A t \in P : cw'[t] = cw[t]
        /\ \A t \in BP!Tokens \ P : cw'[t] = 0
        BY <1>1, <1>3, <1>4
  <1>8. Even(cw', BP!Tokens, n, h)
        <2>1. \A A \in SUBSET P : InRoom(cw, n, h, A)
              BY <1>4 DEF PollerInv, Even, h
        <2> HIDE DEF BP!Tokens
        <2> QED BY <1>2, <1>3, <1>4, <1>7, <2>1, EvenRestricts, ZenonT(60)
  <1>9. \A t \in BP!Tokens : waited'[t] * BP!Lightest <= cw'[t] + CreditRoom(n, h, 1)
        <2> SUFFICES ASSUME NEW t \in BP!Tokens
                     PROVE  waited'[t] * BP!Lightest <= cw'[t] + CreditRoom(n, h, 1)
            OBVIOUS
        <2>1. CASE t \in P
              BY <1>1, <1>7, <2>1 DEF PollerInv, h
        <2>2. CASE t \notin P
              <3>1. waited[t] = 0
                    BY <2>2 DEF PollerInv, P
              <3>2. CreditRoom(n, h, 1) \in Nat
                    <4>1. n \in Nat /\ n # 0
                          BY <1>2, FS_CardinalityType, FS_EmptySet
                    <4>2. 1 \in 0..n /\ 0 \in 0..1
                          BY <4>1
                    <4> HIDE DEF n
                    <4> QED BY <1>2, <4>1, <4>2, RoomGrows
              <3> QED BY <1>1, <1>2, <1>7, <2>2, <3>1, <3>2
        <2> QED BY <2>1, <2>2
  <1>10. \A t \in BP!Tokens \ P : waited'[t] = 0
        BY <1>1 DEF PollerInv, P
  <1> QED BY <1>1, <1>5, <1>6, <1>7, <1>8, <1>9, <1>10 DEF PollerInv, h

(* A request: what waits gathers its weight.                                *)
LEMMA PollKeeps ==
  ASSUME BP!BookPollerAssumption, BP!Tokens # {}, PollerInv, BP!Poll
  PROVE  PollerInv'
  <1> DEFINE P == BP!Polled  n == Cardinality(BP!Tokens)  h == BP!Heaviest
             g == [t \in BP!Tokens |-> IF t \in P THEN cw[t] + dyn_w[t] ELSE cw[t]]
             p == BP!Pick(g)
             W == SumFunctionOnSet(dyn_w, P)
  <1>1. /\ plan # << >> /\ ~planChanged
        /\ cw' = [g EXCEPT ![p] = @ - W]
        /\ waited' = [t \in BP!Tokens |-> IF t = p \/ t \notin P THEN 0 ELSE waited[t] + 1]
        /\ plan' = plan /\ dyn_w' = dyn_w /\ planChanged' = planChanged /\ plans' = plans
        /\ BP!Polled' = P
        BY SameTotal DEF BP!Poll, BP!Polled
  <1>2. /\ IsFiniteSet(BP!Tokens) /\ h \in Nat /\ BP!Lightest \in Nat
        BY PolledTokens, WeightsBetween
  <1>3. /\ BP!TypeOK
        /\ \A t \in BP!Tokens : cw[t] \in Int /\ dyn_w[t] \in Nat /\ waited[t] \in Nat
        /\ g \in [BP!Tokens -> Int]
        BY DEF PollerInv, BP!TypeOK
  <1>4. P \in SUBSET BP!Tokens /\ p \in P /\ \A t \in P : g[t] <= g[p]
        <2> HIDE DEF g
        <2> QED BY <1>1, <1>3, PickIs
  <1>5. \A t \in P : dyn_w[t] \in BP!Lightest..h
        BY <1>1 DEF PollerInv
  <1>6. W \in Nat
        <2>1. IsFiniteSet(P) /\ \A t \in P : dyn_w[t] \in Nat
              BY <1>2, <1>3, <1>4, FS_Subset
        <2> HIDE DEF P
        <2> QED BY <2>1, SumOfNaturals
  <1>7. /\ \A t \in P : g[t] = cw[t] + dyn_w[t] /\ g[t] \in Int
        /\ \A t \in BP!Tokens \ P : g[t] = 0
        <2>1. \A t \in BP!Tokens \ P : cw[t] = 0
              BY <1>1 DEF PollerInv
        <2> HIDE DEF P
        <2> QED BY <1>3, <1>4, <2>1
  <1> HIDE DEF P, h, g, p, W
  <1>8. /\ cw' \in [BP!Tokens -> Int]
        /\ cw'[p] = g[p] - W
        /\ \A t \in P : t # p => cw'[t] = g[t]
        /\ \A t \in BP!Tokens \ P : cw'[t] = 0
        BY <1>1, <1>3, <1>4, <1>6, <1>7
  <1>9. BP!TypeOK'
        <2>1. waited' \in [BP!Tokens -> Nat]
              BY <1>1, <1>3
        <2> QED BY <1>1, <1>3, <1>8, <2>1 DEF BP!TypeOK
  <1>10. Even(cw', BP!Tokens, n, h)
        <2>1. ASSUME NEW A \in SUBSET P PROVE InRoom(cw', n, h, A)
              <3>1. \A B \in SUBSET P : InRoom(cw, n, h, B)
                    BY <1>4 DEF PollerInv, Even, h
              <3>2. \A t \in P : cw[t] \in Int /\ dyn_w[t] \in 0..h /\ g[t] = cw[t] + dyn_w[t]
                                 /\ g[t] <= g[p]
                    BY <1>2, <1>3, <1>4, <1>5, <1>7
              <3>3. cw'[p] = g[p] - SumFunctionOnSet(dyn_w, P)
                    BY <1>8 DEF W
              <3> HIDE DEF BP!Tokens
              <3> QED BY <1>2, <1>4, <1>8, <3>1, <3>2, <3>3, PollKeepsRoom
        <2>2. /\ \A t \in BP!Tokens : cw'[t] \in Int
              /\ \A t \in P : cw'[t] = cw'[t]
              BY <1>8
        <2> HIDE DEF BP!Tokens
        <2> QED BY <1>2, <1>4, <1>8, <2>1, <2>2, EvenRestricts
  <1>11. \A t \in BP!Tokens : waited'[t] * BP!Lightest <= cw'[t] + CreditRoom(n, h, 1)
        <2> SUFFICES ASSUME NEW t \in BP!Tokens
                     PROVE  waited'[t] * BP!Lightest <= cw'[t] + CreditRoom(n, h, 1)
            OBVIOUS
        <2>1. cw'[t] \in Int /\ cw'[t] >= -CreditRoom(n, h, 1) /\ CreditRoom(n, h, 1) \in Int
              <3>1. \A x \in BP!Tokens : cw'[x] \in Int
                    BY <1>8
              <3>2. cw'[t] >= -CreditRoom(n, h, 1)
                    BY <1>2, <1>10, <3>1, OwesAtMost
              <3>3. n \in Nat
                    BY <1>2, FS_CardinalityType
              <3>4. CreditRoom(n, h, 1) \in Int
                    BY <1>2, <3>3 DEF CreditRoom
              <3> QED BY <3>1, <3>2, <3>4
        <2>2. CASE t = p \/ t \notin P
              <3>1. waited'[t] = 0
                    BY <1>1, <2>2
              <3> QED BY <1>2, <2>1, <3>1
        <2>3. CASE t # p /\ t \in P
              <3>1. waited'[t] = waited[t] + 1 /\ cw'[t] = cw[t] + dyn_w[t]
                    BY <1>1, <1>7, <1>8, <2>3
              <3>2. dyn_w[t] >= BP!Lightest /\ dyn_w[t] \in Nat
                    BY <1>3, <1>5, <2>3
              <3>3. waited[t] * BP!Lightest <= cw[t] + CreditRoom(n, h, 1)
                    BY DEF PollerInv, h
              <3>4. (waited[t] + 1) * BP!Lightest = waited[t] * BP!Lightest + BP!Lightest
                    BY <1>2, <1>3
              <3>5. waited[t] * BP!Lightest \in Int /\ cw[t] \in Int
                    BY <1>2, <1>3
              <3> HIDE DEF n
              <3> QED BY <1>2, <2>1, <3>1, <3>2, <3>3, <3>4, <3>5
        <2> QED BY <2>2, <2>3
  <1>12. \A t \in BP!Tokens \ P : waited'[t] = 0
        BY <1>1
  <1> QED BY <1>1, <1>5, <1>8, <1>9, <1>10, <1>11, <1>12 DEF PollerInv, h

(* What a token has waited, weight by weight, it has gathered since it paid *)
(* the last time: within its room on both sides of nothing.                 *)
LEMMA RoomBoundsWait ==
  ASSUME BP!BookPollerAssumption, BP!Tokens # {}, PollerInv
  PROVE  BP!NoStarvation
  <1> DEFINE n == Cardinality(BP!Tokens)  h == BP!Heaviest
  <1>1. IsFiniteSet(BP!Tokens) /\ h \in Nat /\ BP!Lightest \in Nat /\ n \in Nat
        BY PolledTokens, WeightsBetween, FS_CardinalityType
  <1>2. BP!Cardinality(BP!Tokens) = n
        BY DEF Cardinality, BP!Cardinality
  <1>3. BP!Polled \subseteq BP!Tokens
        BY PolledIn DEF PollerInv
  <1>4. ASSUME NEW t \in BP!Polled
        PROVE  waited[t] * BP!Lightest <= (4 * n - 2) * h
        <2>1. t \in BP!Tokens /\ cw[t] \in Int /\ waited[t] \in Nat
              /\ \A x \in BP!Tokens : cw[x] \in Int
              BY <1>3 DEF PollerInv, BP!TypeOK
        <2>2. cw[t] <= CreditRoom(n, h, 1)
              BY <1>1, <2>1, OwesAtMost DEF PollerInv
        <2>3. waited[t] * BP!Lightest <= cw[t] + CreditRoom(n, h, 1)
              BY <2>1 DEF PollerInv
        <2>4. CreditRoom(n, h, 1) \in Int /\ CreditRoom(n, h, 1) + CreditRoom(n, h, 1) = (4 * n - 2) * h
              <3> HIDE DEF n, h
              <3> QED BY <1>1 DEF CreditRoom
        <2>5. waited[t] * BP!Lightest \in Int
              BY <1>1, <2>1
        <2> HIDE DEF n, h
        <2> QED BY <2>1, <2>2, <2>3, <2>4, <2>5
  <1> QED BY <1>2, <1>4 DEF BP!NoStarvation

(* Whatever books move and plans come: no token of the plan waits longer    *)
(* for its request than its weight allows (RunActiveBookPoller).            *)
THEOREM SpecNoStarvation ==
  ASSUME BP!BookPollerAssumption
  PROVE  BP!Spec => []BP!NoStarvation
  <1>1. CASE BP!Tokens = {}
        <2>1. PollPlans = {}
              <3>1. PollPlans \subseteq Seq({}) /\ << >> \notin PollPlans
                    BY <1>1 DEF BP!BookPollerAssumption
              <3>2. \A s \in Seq({}) : s = << >>
                    OBVIOUS
              <3> QED BY <3>1, <3>2
        <2>2. BP!Init => plan = << >>
              BY DEF BP!Init
        <2>3. plan = << >> /\ [BP!Next]_BP!vars => (plan = << >>)'
              BY <2>1 DEF BP!Next, BP!RefreshPlan, BP!Poll, BP!vars
        <2>4. plan = << >> => BP!NoStarvation
              BY DEF BP!NoStarvation, BP!Polled
        <2> QED BY <2>2, <2>3, <2>4, PTL DEF BP!Spec
  <1>2. CASE BP!Tokens # {}
        <2>1. BP!Init => PollerInv
              BY <1>2, PollerInit
        <2>2. PollerInv /\ [BP!Next]_BP!vars => PollerInv'
              <3>1. ASSUME PollerInv, UNCHANGED BP!vars PROVE PollerInv'
                    BY <3>1 DEF PollerInv, BP!vars, BP!TypeOK, BP!Polled
              <3> QED BY <1>2, <3>1, PublishKeeps, RefreshKeeps, PollKeeps DEF BP!Next
        <2>3. PollerInv => BP!NoStarvation
              BY <1>2, RoomBoundsWait
        <2> QED BY <2>1, <2>2, <2>3, PTL DEF BP!Spec
  <1> QED BY <1>1, <1>2

-----------------------------------------------------------------------------
(* The snapshot hubs.                                                       *)

Words == [1..2 -> Nat]
Is(row, n) == row[1] = n /\ row[2] = n

HubWriters == [at : {"first", "second", "flip"}, key : Keys]
RingWriters == [at : {"mark", "one", "two", "done"}, raw : Nat]
AllWriters == [at : {"idle"}] \cup HubWriters \cup RingWriters

ListedRows == SUBSET [gen : Nat, row : Words]
HubReaders == [at : {"first", "second", "read"}, key : Keys, buffer : {0, 1}, row : Words,
               since : Nat, begun : Nat]
SlotReaders == [at : {"slot"}, current : Nat, i : 0..(RingCap - 1), valid : ListedRows]
WordReaders == [at : {"word", "again"}, w : 1..2, seq0 : Nat \ {0}, row : Words,
                current : Nat, i : 0..(RingCap - 1), valid : ListedRows]
ListReaders == [at : {"listed"}, current : Nat, i : Nat, valid : ListedRows]
Readers == [at : {"idle"}] \cup HubReaders \cup SlotReaders \cup WordReaders \cup ListReaders

HubWrites == writer.at \in {"first", "second", "flip"}
Pushes == writer.at \in {"mark", "one", "two", "done"}
HubReads == reader.at \in {"first", "second", "read"}

(* The slot of a key among the keys m.                                      *)
SlotIn(m, k) == IF \E i \in DOMAIN m : m[i] = k THEN CHOOSE i \in DOMAIN m : m[i] = k ELSE -1

OneSlotEach(m) == \A i, j \in DOMAIN m : m[i] = m[j] => i = j

HubTypes ==
  /\ writer \in AllWriters /\ reader \in Readers
  /\ index_map_ \in Seq(Keys) /\ Len(index_map_) <= MaxKeys /\ OneSlotEach(index_map_)
  /\ hubBuf \in [1..MaxKeys -> [{0, 1} -> Words]] /\ hubFront \in [1..MaxKeys -> {0, 1}]
  /\ published \in [Keys -> Nat] /\ publishes \in 0..MaxPublishes
  /\ ring \in [0..(RingCap - 1) -> [seq : Nat \cup {-2}, row : Words]] /\ write_idx_ \in 0..MaxRejects
  /\ HubWrites => SlotIn(index_map_, writer.key) \in DOMAIN index_map_
  /\ HubReads => SlotIn(index_map_, reader.key) \in DOMAIN index_map_

(* The specification's slot is the one of these lemmas.                     *)
LEMMA SlotIsSlotIn ==
  ASSUME NEW k
  PROVE  HU!Slot(k) = SlotIn(index_map_, k)
  BY DEF HU!Slot, SlotIn, HU!None

(* A key has the slot that holds it, or none.                               *)
LEMMA SlotHolds ==
  ASSUME NEW m \in Seq(Keys), OneSlotEach(m), NEW k
  PROVE  /\ SlotIn(m, k) # -1 => SlotIn(m, k) \in DOMAIN m /\ m[SlotIn(m, k)] = k
         /\ SlotIn(m, k) \in DOMAIN m => m[SlotIn(m, k)] = k /\ SlotIn(m, k) # -1
         /\ \A i \in DOMAIN m : m[i] = k => SlotIn(m, k) = i
  <1>1. \A i \in DOMAIN m : i # -1
        OBVIOUS
  <1>2. CASE \E i \in DOMAIN m : m[i] = k
        <2>1. SlotIn(m, k) \in DOMAIN m /\ m[SlotIn(m, k)] = k
              BY <1>2 DEF SlotIn
        <2> QED BY <1>1, <2>1 DEF OneSlotEach
  <1>3. CASE ~\E i \in DOMAIN m : m[i] = k
        BY <1>1, <1>3 DEF SlotIn
  <1> QED BY <1>2, <1>3

(* A new key takes a slot of its own and moves no other.                    *)
LEMMA SlotsStay ==
  ASSUME NEW m \in Seq(Keys), OneSlotEach(m), NEW k \in Keys, SlotIn(m, k) = -1
  PROVE  /\ Append(m, k) \in Seq(Keys) /\ OneSlotEach(Append(m, k))
         /\ Len(Append(m, k)) = Len(m) + 1
         /\ DOMAIN Append(m, k) = DOMAIN m \cup {Len(m) + 1}
         /\ SlotIn(Append(m, k), k) = Len(m) + 1
         /\ \A j \in Keys : SlotIn(m, j) # -1 => SlotIn(Append(m, k), j) = SlotIn(m, j)
         /\ \A j \in Keys : j # k /\ SlotIn(m, j) = -1 => SlotIn(Append(m, k), j) = -1
  <1> DEFINE n == Append(m, k)
  <1>1. /\ n \in Seq(Keys) /\ Len(n) = Len(m) + 1 /\ n[Len(m) + 1] = k
        /\ \A i \in DOMAIN m : n[i] = m[i] /\ i \in DOMAIN n
        /\ DOMAIN n = DOMAIN m \cup {Len(m) + 1}
        OBVIOUS
  <1>2. \A i \in DOMAIN m : m[i] # k
        BY SlotHolds
  <1> HIDE DEF n
  <1>3. OneSlotEach(n)
        BY <1>1, <1>2 DEF OneSlotEach
  <1>4. SlotIn(n, k) = Len(m) + 1
        BY <1>1, <1>3, SlotHolds
  <1>5. ASSUME NEW j \in Keys, SlotIn(m, j) # -1 PROVE SlotIn(n, j) = SlotIn(m, j)
        <2>1. SlotIn(m, j) \in DOMAIN m /\ m[SlotIn(m, j)] = j
              BY <1>5, SlotHolds
        <2> QED BY <1>1, <1>3, <2>1, SlotHolds
  <1>6. ASSUME NEW j \in Keys, j # k, SlotIn(m, j) = -1 PROVE SlotIn(n, j) = -1
        <2>1. \A i \in DOMAIN m : m[i] # j
              BY <1>6, SlotHolds
        <2>2. \A i \in DOMAIN n : n[i] # j
              BY <1>1, <1>6, <2>1
        <2> QED BY <2>2 DEF SlotIn
  <1> QED BY <1>1, <1>3, <1>4, <1>5, <1>6 DEF n

(* What the writer and the reader are at says what they carry.              *)
LEMMA WriterIs ==
  ASSUME HubTypes
  PROVE  (HubWrites => writer \in HubWriters) /\ (Pushes => writer \in RingWriters)
  BY DEF HubTypes, AllWriters, HubWriters, RingWriters, HubWrites, Pushes

(* What an observer keeps depends on where it is.                           *)
LEMMA ReaderIs ==
  ASSUME HubTypes
  PROVE  /\ HubReads => reader \in HubReaders
         /\ reader.at = "slot" => reader \in SlotReaders
         /\ reader.at \in {"word", "again"} => reader \in WordReaders
         /\ reader.at = "listed" => reader \in ListReaders
  BY DEF HubTypes, Readers, HubReaders, SlotReaders, WordReaders, ListReaders, HubReads

-----------------------------------------------------------------------------
(* Types.                                                                   *)

(* No slot is taken.                                                        *)
LEMMA HubTypesInit == HU!HubsAssumption /\ HU!Init => HubTypes
  <1> SUFFICES ASSUME HU!HubsAssumption, HU!Init PROVE HubTypes
      OBVIOUS
  <1>1. HU!Empty \in Words
        BY DEF HU!Empty, Words
  <1>2. writer \in AllWriters /\ reader \in Readers /\ ~HubWrites /\ ~HubReads
        BY DEF HU!Init, HU!Rest, AllWriters, Readers, HubWrites, HubReads
  <1> QED BY <1>1, <1>2 DEF HU!Init, HU!HubsAssumption, HubTypes, OneSlotEach

(* The loop's steps on the hub.                                             *)
LEMMA PublishTypes ==
  ASSUME HU!HubsAssumption, HubTypes, NEW k \in Keys, HU!PublishBegin(k) \/ HU!PublishDropped(k)
  PROVE  HubTypes'
  <1>1. CASE HU!PublishDropped(k)
        BY <1>1 DEF HU!PublishDropped, HU!HubsAssumption, HU!rejects, HubTypes, HubWrites, HubReads
  <1>2. CASE HU!PublishBegin(k)
        <2>1. /\ writer' = [at |-> "first", key |-> k] /\ publishes' = publishes + 1
              /\ publishes < MaxPublishes
              /\ UNCHANGED <<hubBuf, hubFront, published, ring, write_idx_, reader>>
              BY <1>2 DEF HU!PublishBegin, HU!rejects
        <2>2. writer' \in AllWriters /\ publishes' \in 0..MaxPublishes
              BY <2>1 DEF AllWriters, HubWriters, HubTypes, HU!HubsAssumption
        <2>3. /\ index_map_ \in Seq(Keys) /\ OneSlotEach(index_map_)
              /\ Len(index_map_) <= MaxKeys /\ MaxKeys \in Nat
              BY DEF HubTypes, HU!HubsAssumption
        <2>4. /\ index_map_' \in Seq(Keys) /\ Len(index_map_') <= MaxKeys
              /\ OneSlotEach(index_map_')
              /\ SlotIn(index_map_', k) \in DOMAIN index_map_'
              /\ \A j \in Keys : SlotIn(index_map_, j) \in DOMAIN index_map_ =>
                                   SlotIn(index_map_', j) \in DOMAIN index_map_'
              <3>1. CASE SlotIn(index_map_, k) # -1
                    <4>1. index_map_' = index_map_
                          BY <1>2, <3>1, SlotIsSlotIn DEF HU!PublishBegin, HU!GetOrAllocSlot, HU!None
                    <4> QED BY <2>3, <3>1, <4>1, SlotHolds
              <3>2. CASE SlotIn(index_map_, k) = -1
                    <4>1. Len(index_map_) < MaxKeys /\ index_map_' = Append(index_map_, k)
                          BY <1>2, <3>2, SlotIsSlotIn DEF HU!PublishBegin, HU!GetOrAllocSlot, HU!None
                    <4>2. \A j \in Keys : SlotIn(index_map_, j) \in DOMAIN index_map_ =>
                                            SlotIn(index_map_', j) = SlotIn(index_map_, j)
                          BY <2>3, <3>2, <4>1, SlotsStay, SlotHolds
                    <4> QED BY <2>3, <3>2, <4>1, <4>2, SlotsStay
              <3> QED BY <3>1, <3>2
        <2>5. HubReads' => reader' \in HubReaders /\ HubReads
              BY <2>1, ReaderIs DEF HubReads
        <2> QED BY <2>1, <2>2, <2>4, <2>5 DEF HubTypes, HubReads, HubReaders
  <1> QED BY <1>1, <1>2

(* One word of one buffer.                                                  *)
LEMMA PublishWordTypes ==
  ASSUME HU!HubsAssumption, HubTypes, NEW w \in 1..2, HU!PublishWord(w)
  PROVE  HubTypes'
  <1> DEFINE i == SlotIn(index_map_, writer.key)
  <1>1. /\ writer.at = (IF w = 1 THEN "first" ELSE "second")
        /\ hubBuf' = [hubBuf EXCEPT ![i][1 - hubFront[i]][w] = publishes]
        /\ writer' = [writer EXCEPT !.at = IF w = 1 THEN "second" ELSE "flip"]
        /\ reader' = IF w = 1 /\ HU!Reads(writer.key) THEN [reader EXCEPT !.begun = @ + 1] ELSE reader
        /\ UNCHANGED <<index_map_, hubFront, published, publishes, ring, write_idx_>>
        BY SlotIsSlotIn DEF HU!PublishWord, HU!BackBuffer, HU!rejects
  <1>2. HubWrites /\ writer \in HubWriters
        BY <1>1, WriterIs DEF HubWrites
  <1>3. writer' \in HubWriters /\ writer'.key = writer.key
        BY <1>1, <1>2 DEF HubWriters
  <1>4. reader' \in Readers /\ (HubReads' => HubReads /\ reader'.key = reader.key)
        <2>1. CASE w = 1 /\ HU!Reads(writer.key)
              <3>1. reader \in HubReaders
                    BY <2>1, ReaderIs DEF HU!Reads, HubReads
              <3>2. reader' \in HubReaders /\ reader'.key = reader.key /\ HubReads
                    BY <1>1, <2>1, <3>1 DEF HubReaders, HubReads
              <3> QED BY <3>2 DEF Readers
        <2>2. CASE ~(w = 1 /\ HU!Reads(writer.key))
              BY <1>1, <2>2 DEF HubTypes, HubReads
        <2> QED BY <2>1, <2>2
  <1>5. i \in 1..MaxKeys /\ hubFront[i] \in {0, 1} /\ publishes \in Nat
        BY <1>2 DEF HubTypes, HU!HubsAssumption
  <1> HIDE DEF i
  <1>6. hubBuf' \in [1..MaxKeys -> [{0, 1} -> Words]]
        <2>1. hubBuf \in [1..MaxKeys -> [{0, 1} -> Words]]
              BY DEF HubTypes
        <2>2. 1 - hubFront[i] \in {0, 1} /\ hubBuf[i][1 - hubFront[i]] \in Words
              BY <1>5, <2>1
        <2>3. [hubBuf[i][1 - hubFront[i]] EXCEPT ![w] = publishes] \in Words
              BY <1>5, <2>2 DEF Words
        <2> QED BY <1>1, <1>5, <2>1, <2>2, <2>3
  <1> QED BY <1>1, <1>2, <1>3, <1>4, <1>6 DEF HubTypes, AllWriters

(* The buffers change places.                                               *)
LEMMA PublishFlipTypes ==
  ASSUME HU!HubsAssumption, HubTypes, HU!PublishFlip
  PROVE  HubTypes'
  <1> DEFINE i == SlotIn(index_map_, writer.key)
  <1>1. /\ writer.at = "flip" /\ writer' = HU!Rest
        /\ hubFront' = [hubFront EXCEPT ![i] = 1 - hubFront[i]]
        /\ published' = [published EXCEPT ![writer.key] = publishes]
        /\ UNCHANGED <<index_map_, hubBuf, publishes, ring, write_idx_, reader>>
        BY SlotIsSlotIn DEF HU!PublishFlip, HU!BackBuffer, HU!rejects
  <1>2. i \in 1..MaxKeys /\ hubFront[i] \in {0, 1} /\ publishes \in Nat /\ MaxPublishes \in Nat
        BY <1>1 DEF HubTypes, HubWrites, HU!HubsAssumption
  <1> HIDE DEF i
  <1>3. hubFront' \in [1..MaxKeys -> {0, 1}] /\ published' \in [Keys -> Nat]
        <2>1. 1 - hubFront[i] \in {0, 1}
              BY <1>2
        <2>2. hubFront' \in [1..MaxKeys -> {0, 1}]
              BY <1>1, <2>1 DEF HubTypes
        <2>3. published' \in [Keys -> Nat]
              BY <1>1, <1>2 DEF HubTypes
        <2> QED BY <2>2, <2>3
  <1>4. writer' \in AllWriters /\ ~HubWrites'
        BY <1>1 DEF HU!Rest, AllWriters, HubWrites
  <1> QED BY <1>1, <1>3, <1>4 DEF HubTypes, HubReads

(* The loop's steps on the ring.                                            *)
LEMMA PushTypes ==
  ASSUME HU!HubsAssumption, HubTypes,
         HU!PushBegin \/ HU!PushMark \/ (\E w \in {1, 2} : HU!PushWord(w)) \/ HU!PushEnd
  PROVE  HubTypes'
  <1>1. /\ UNCHANGED <<index_map_, hubBuf, hubFront, published, publishes, reader>>
        BY DEF HU!PushBegin, HU!PushMark, HU!PushWord, HU!PushEnd, HU!hub
  <1>2. RingCap \in Nat \ {0} /\ MaxRejects \in Nat
        BY DEF HU!HubsAssumption
  <1>3. \A raw \in Nat : HU!RingSlot(raw) \in 0..(RingCap - 1)
        BY <1>2 DEF HU!RingSlot
  <1>4. /\ ring' \in [0..(RingCap - 1) -> [seq : Nat \cup {-2}, row : Words]]
        /\ write_idx_' \in 0..MaxRejects /\ writer' \in AllWriters /\ ~HubWrites'
        <2>1. CASE HU!PushBegin
              BY <1>2, <2>1 DEF HU!PushBegin, HubTypes, AllWriters, RingWriters, HubWrites
        <2>2. CASE HU!PushMark
              <3>1. writer \in RingWriters
                    BY <2>2, WriterIs DEF HU!PushMark, Pushes
              <3>2. writer' \in RingWriters
                    BY <2>2, <3>1 DEF HU!PushMark, RingWriters
              <3>3. ring' \in [0..(RingCap - 1) -> [seq : Nat \cup {-2}, row : Words]]
                    BY <2>2 DEF HU!PushMark, HU!MarkWriting, HU!Writing, HubTypes
              <3> QED BY <2>2, <3>2, <3>3 DEF HU!PushMark, AllWriters, RingWriters, HubWrites, HubTypes
        <2>3. ASSUME NEW w \in {1, 2}, HU!PushWord(w)
              PROVE  /\ ring' \in [0..(RingCap - 1) -> [seq : Nat \cup {-2}, row : Words]]
                     /\ write_idx_' \in 0..MaxRejects /\ writer' \in AllWriters /\ ~HubWrites'
              <3>1. writer \in RingWriters
                    BY <2>3, WriterIs DEF HU!PushWord, Pushes
              <3>2. writer' \in RingWriters
                    BY <2>3, <3>1 DEF HU!PushWord, RingWriters
              <3>3. writer.raw + 1 \in Nat
                    BY <3>1 DEF RingWriters
              <3>4. ring' \in [0..(RingCap - 1) -> [seq : Nat \cup {-2}, row : Words]]
                    BY <2>3, <3>3 DEF HU!PushWord, HubTypes, Words
              <3> QED BY <2>3, <3>2, <3>4 DEF HU!PushWord, AllWriters, RingWriters, HubWrites, HubTypes
        <2>4. CASE HU!PushEnd
              <3>1. writer \in RingWriters
                    BY <2>4, WriterIs DEF HU!PushEnd, Pushes
              <3>2. ring' = [ring EXCEPT ![HU!RingSlot(writer.raw)].seq = writer.raw + 1]
                    BY <2>4 DEF HU!PushEnd
              <3>3. writer.raw + 1 \in Nat
                    BY <3>1 DEF RingWriters
              <3>4. ring' \in [0..(RingCap - 1) -> [seq : Nat \cup {-2}, row : Words]]
                    BY <3>2, <3>3 DEF HubTypes
              <3> QED BY <2>4, <3>4 DEF HU!PushEnd, HU!Rest, AllWriters, HubWrites, HubTypes
        <2> QED BY <2>1, <2>2, <2>3, <2>4
  <1> QED BY <1>1, <1>4 DEF HubTypes, HubReads

(* The observer's steps.                                                    *)
LEMMA ObserverTypes ==
  ASSUME HU!HubsAssumption, HubTypes, HU!Observer
  PROVE  HubTypes'
  <1>1. UNCHANGED <<index_map_, hubBuf, hubFront, published, publishes, ring, write_idx_, writer>>
        BY DEF HU!Observer, HU!Read, HU!ReadWord, HU!SnapshotBegin, HU!SnapshotSeq, HU!SnapshotWord,
               HU!SnapshotSeqAgain, HU!Answer, HU!hub, HU!rejects
  <1>2. /\ reader' \in Readers
        /\ HubReads' => SlotIn(index_map_, reader'.key) \in DOMAIN index_map_
        <2>1. ASSUME NEW k \in Keys, HU!Read(k)
              PROVE  reader' \in HubReaders /\ SlotIn(index_map_, reader'.key) \in DOMAIN index_map_
              <3>1. SlotIn(index_map_, k) \in DOMAIN index_map_ /\ SlotIn(index_map_, k) \in 1..MaxKeys
                    BY <2>1, SlotIsSlotIn, SlotHolds DEF HU!Read, HU!None, HubTypes, HU!HubsAssumption
              <3>2. reader' = [at |-> "first", key |-> k, buffer |-> hubFront[SlotIn(index_map_, k)],
                               row |-> HU!Empty, since |-> published[k],
                               begun |-> IF HU!Writes(k) THEN 1 ELSE 0]
                    BY <2>1, SlotIsSlotIn DEF HU!Read
              <3>3. HU!Empty \in Words
                    BY DEF HU!Empty, Words
              <3> QED BY <3>1, <3>2, <3>3 DEF HubTypes, HubReaders
        <2>2. ASSUME NEW w \in 1..2, HU!ReadWord(w)
              PROVE  reader' \in HubReaders /\ SlotIn(index_map_, reader'.key) \in DOMAIN index_map_
              <3>1. HubReads /\ reader \in HubReaders
                    BY <2>2, ReaderIs DEF HU!ReadWord, HubReads
              <3>2. SlotIn(index_map_, reader.key) \in DOMAIN index_map_
                    /\ SlotIn(index_map_, reader.key) \in 1..MaxKeys
                    BY <3>1 DEF HubTypes, HU!HubsAssumption
              <3>3. hubBuf[SlotIn(index_map_, reader.key)][reader.buffer][w] \in Nat
                    <4> DEFINE slot == SlotIn(index_map_, reader.key)
                    <4>1. slot \in 1..MaxKeys
                          BY <3>2
                    <4>2. hubBuf \in [1..MaxKeys -> [{0, 1} -> Words]]
                          BY DEF HubTypes
                    <4>3. reader.buffer \in {0, 1}
                          BY <3>1 DEF HubReaders
                    <4> HIDE DEF slot
                    <4>4. hubBuf[slot][reader.buffer] \in Words
                          BY <4>1, <4>2, <4>3
                    <4>5. hubBuf[slot][reader.buffer][w] \in Nat
                          BY <4>4 DEF Words
                    <4> QED BY <4>5 DEF slot
              <3>4. reader' = [reader EXCEPT !.at = IF w = 1 THEN "second" ELSE "read",
                                 !.row[w] = hubBuf[SlotIn(index_map_, reader.key)][reader.buffer][w]]
                    BY <2>2, SlotIsSlotIn DEF HU!ReadWord
              <3> QED BY <3>1, <3>2, <3>3, <3>4 DEF HubReaders, Words
        <2>3. CASE HU!SnapshotBegin
              <3>1. reader' \in SlotReaders
                    BY <2>3 DEF HU!SnapshotBegin, SlotReaders, HubTypes, HU!HubsAssumption, ListedRows
              <3> QED BY <3>1 DEF Readers, SlotReaders, HubReads
        <2>4. ASSUME NEW r \in SlotReaders \cup WordReaders, NEW valid \in ListedRows,
                     reader' = HU!NextSlot(r, valid)
              PROVE  reader' \in SlotReaders \cup ListReaders
              BY <2>4 DEF HU!NextSlot, SlotReaders, WordReaders, ListReaders, HU!HubsAssumption
        <2>5. CASE HU!SnapshotSeq
              <3>1. reader \in SlotReaders
                    BY <2>5, ReaderIs DEF HU!SnapshotSeq
              <3>2. CASE ring[reader.i].seq \in {0, HU!Writing}
                    <4>1. reader' = HU!NextSlot(reader, reader.valid)
                          BY <2>5, <3>2 DEF HU!SnapshotSeq
                    <4>2. reader.valid \in ListedRows
                          BY <3>1 DEF SlotReaders
                    <4>3. reader' \in SlotReaders \cup ListReaders
                          BY <3>1, <4>1, <4>2, <2>4
                    <4> QED BY <4>3 DEF Readers, SlotReaders, ListReaders, HubReads
              <3>3. CASE ring[reader.i].seq \notin {0, HU!Writing}
                    <4>1. reader' = [at |-> "word", w |-> 1, seq0 |-> ring[reader.i].seq,
                                     row |-> HU!Empty, current |-> reader.current,
                                     i |-> reader.i, valid |-> reader.valid]
                          BY <2>5, <3>3 DEF HU!SnapshotSeq
                    <4>2. ring[reader.i].seq \in Nat \ {0} /\ HU!Empty \in Words
                          BY <3>1, <3>3 DEF HubTypes, SlotReaders, HU!Writing, HU!Empty, Words
                    <4>3. reader' \in WordReaders
                          BY <3>1, <4>1, <4>2 DEF SlotReaders, WordReaders
                    <4> QED BY <4>3 DEF Readers, WordReaders, HubReads
              <3> QED BY <3>2, <3>3
        <2>6. CASE HU!SnapshotWord
              <3>1. reader \in WordReaders
                    BY <2>6, ReaderIs DEF HU!SnapshotWord
              <3>2. ring[reader.i].row[reader.w] \in Nat
                    BY <3>1 DEF HubTypes, WordReaders, Words
              <3>3. [reader.row EXCEPT ![reader.w] = ring[reader.i].row[reader.w]] \in Words
                    BY <3>1, <3>2 DEF WordReaders, Words
              <3>4. reader' \in WordReaders
                    <4> DEFINE row == [reader.row EXCEPT ![reader.w] = ring[reader.i].row[reader.w]]
                               at == IF reader.w = 1 THEN "word" ELSE "again"
                    <4>1. reader' = [reader EXCEPT !.row = row, !.at = at, !.w = 2]
                          BY <2>6, <3>1 DEF HU!SnapshotWord, WordReaders
                    <4>2. row \in Words /\ at \in {"word", "again"}
                          BY <3>3
                    <4> HIDE DEF row, at
                    <4> DEFINE one == [reader EXCEPT !.row = row]
                               two == [one EXCEPT !.at = at]
                    <4>3. one \in WordReaders
                          BY <3>1, <4>2 DEF WordReaders
                    <4>4. reader' = [two EXCEPT !.w = 2]
                          BY <4>1
                    <4> HIDE DEF one
                    <4>5. two \in WordReaders
                          BY <4>2, <4>3 DEF WordReaders
                    <4> HIDE DEF two
                    <4> QED BY <4>4, <4>5 DEF WordReaders
              <3> QED BY <3>4 DEF Readers, WordReaders, HubReads
        <2>7. CASE HU!SnapshotSeqAgain
              <3>1. reader \in WordReaders
                    BY <2>7, ReaderIs DEF HU!SnapshotSeqAgain
              <3>2. PICK valid \in {reader.valid, reader.valid \cup {[gen |-> reader.seq0, row |-> reader.row]}} :
                      reader' = HU!NextSlot(reader, valid)
                    BY <2>7 DEF HU!SnapshotSeqAgain
              <3>3. valid \in ListedRows
                    BY <3>1, <3>2 DEF WordReaders, ListedRows
              <3>4. reader' \in SlotReaders \cup ListReaders
                    BY <3>1, <3>2, <3>3, <2>4
              <3> QED BY <3>4 DEF Readers, SlotReaders, ListReaders, HubReads
        <2>8. CASE HU!Answer
              BY <2>8 DEF HU!Answer, HU!Rest, Readers, HubReads
        <2> QED BY <2>1, <2>2, <2>3, <2>5, <2>6, <2>7, <2>8 DEF HU!Observer, Readers
  <1> QED BY <1>1, <1>2 DEF HubTypes, HubWrites

(* Every step.                                                              *)
LEMMA HubTypesNext == HU!HubsAssumption /\ HubTypes /\ [HU!Next]_HU!vars => HubTypes'
  <1>1. ASSUME HubTypes, UNCHANGED HU!vars PROVE HubTypes'
        BY <1>1 DEF HU!vars, HubTypes, HubWrites, HubReads
  <1> QED BY <1>1, PublishTypes, PublishWordTypes, PublishFlipTypes, PushTypes, ObserverTypes
          DEF HU!Next, HU!Loop


-----------------------------------------------------------------------------
(* A market in two buffers.                                                 *)

(* The buffer that is read holds the last complete publication of its key,  *)
(* and 0 where nothing was published.                                       *)
Fronts(m, b, f, p) ==
  /\ \A i \in DOMAIN m : Is(b[i][f[i]], p[m[i]])
  /\ \A i \in 1..MaxKeys : i \notin DOMAIN m => Is(b[i][f[i]], 0)
  /\ \A k \in Keys : SlotIn(m, k) = -1 => p[k] = 0

(* The loop is half way with the other buffer.                              *)
HalfWritten ==
  LET i == SlotIn(index_map_, writer.key)
  IN  /\ writer.at = "second" => hubBuf[i][1 - hubFront[i]][1] = publishes
      /\ writer.at = "flip" => Is(hubBuf[i][1 - hubFront[i]], publishes)

(* A reader's buffer holds what it held when the read began, while at most  *)
(* one publication has begun: that one goes into the other buffer, and      *)
(* makes it the one to read.                                                *)
Untouched ==
  LET i == SlotIn(index_map_, reader.key)
      writes == writer.at \in {"second", "flip"} /\ writer.key = reader.key
  IN  reader.at \in {"first", "second"} =>
        /\ reader.begun < 2 => Is(hubBuf[i][reader.buffer], reader.since)
        /\ reader.begun = 0 => hubFront[i] = reader.buffer /\ ~writes
        /\ reader.begun = 1 /\ writes => hubFront[i] = reader.buffer
        /\ reader.begun = 1 /\ ~writes => hubFront[i] = 1 - reader.buffer
        /\ reader.at = "second" /\ reader.begun < 2 => reader.row[1] = reader.since

ReadOne == reader.at = "read" /\ reader.begun < 2 => Is(reader.row, reader.since)

HubInv == Fronts(index_map_, hubBuf, hubFront, published) /\ HalfWritten /\ Untouched /\ ReadOne

(* Nothing is published.                                                    *)
LEMMA HubInit == HU!Init => HubInv
  <1> SUFFICES ASSUME HU!Init PROVE HubInv
      OBVIOUS
  <1>1. writer.at = "idle" /\ reader.at = "idle"
        BY DEF HU!Init, HU!Rest
  <1>2. Is(HU!Empty, 0)
        BY DEF HU!Empty, Is
  <1>3. DOMAIN index_map_ = {}
        BY DEF HU!Init
  <1>4. Fronts(index_map_, hubBuf, hubFront, published)
        BY <1>2, <1>3 DEF HU!Init, Fronts
  <1> QED BY <1>1, <1>4 DEF HubInv, HalfWritten, Untouched, ReadOne

(* A market that is new takes a slot nothing was written to.                *)
LEMMA PublishBeginKeeps ==
  ASSUME HU!HubsAssumption, HubTypes, HubInv, NEW k \in Keys, HU!PublishBegin(k)
  PROVE  HubInv'
  <1>1. /\ writer.at = "idle" /\ writer' = [at |-> "first", key |-> k]
        /\ UNCHANGED <<hubBuf, hubFront, published, reader>>
        BY DEF HU!PublishBegin, HU!Idle
  <1>2. /\ index_map_ \in Seq(Keys) /\ OneSlotEach(index_map_)
        /\ Len(index_map_) <= MaxKeys /\ MaxKeys \in Nat
        BY DEF HubTypes, HU!HubsAssumption
  <1>3. /\ Fronts(index_map_', hubBuf, hubFront, published)
        /\ \A j \in Keys : SlotIn(index_map_, j) \in DOMAIN index_map_ =>
                             SlotIn(index_map_', j) = SlotIn(index_map_, j)
        <2>1. CASE SlotIn(index_map_, k) # -1
              <3>1. index_map_' = index_map_
                    BY <2>1, SlotIsSlotIn DEF HU!PublishBegin, HU!GetOrAllocSlot, HU!None
              <3> QED BY <3>1 DEF HubInv
        <2>2. CASE SlotIn(index_map_, k) = -1
              <3>1. Len(index_map_) < MaxKeys /\ index_map_' = Append(index_map_, k)
                    BY <2>2, SlotIsSlotIn DEF HU!PublishBegin, HU!GetOrAllocSlot, HU!None
              <3>2. /\ DOMAIN index_map_' = DOMAIN index_map_ \cup {Len(index_map_) + 1}
                    /\ SlotIn(index_map_', k) = Len(index_map_) + 1
                    /\ \A j \in Keys : SlotIn(index_map_, j) # -1 =>
                                         SlotIn(index_map_', j) = SlotIn(index_map_, j)
                    /\ \A j \in Keys : j # k /\ SlotIn(index_map_, j) = -1 => SlotIn(index_map_', j) = -1
                    BY <1>2, <2>2, <3>1, SlotsStay
              <3>3. /\ \A i \in DOMAIN index_map_ : index_map_'[i] = index_map_[i]
                    /\ index_map_'[Len(index_map_) + 1] = k
                    /\ Len(index_map_) + 1 \in 1..MaxKeys /\ Len(index_map_) + 1 \notin DOMAIN index_map_
                    BY <1>2, <3>1
              <3>4. published[k] = 0 /\ Is(hubBuf[Len(index_map_) + 1][hubFront[Len(index_map_) + 1]], 0)
                    BY <2>2, <3>3 DEF HubInv, Fronts
              <3>5. \A i \in DOMAIN index_map_' : Is(hubBuf[i][hubFront[i]], published[index_map_'[i]])
                    BY <3>2, <3>3, <3>4 DEF HubInv, Fronts
              <3>6. \A i \in 1..MaxKeys : i \notin DOMAIN index_map_' => Is(hubBuf[i][hubFront[i]], 0)
                    BY <3>2 DEF HubInv, Fronts
              <3>7. \A j \in Keys : SlotIn(index_map_', j) = -1 => published[j] = 0
                    BY <3>2, <3>4 DEF HubInv, Fronts
              <3>8. \A j \in Keys : SlotIn(index_map_, j) \in DOMAIN index_map_ =>
                                      SlotIn(index_map_', j) = SlotIn(index_map_, j)
                    BY <1>2, <3>2, SlotHolds
              <3> QED BY <3>5, <3>6, <3>7, <3>8 DEF Fronts
        <2> QED BY <2>1, <2>2
  <1>4. HalfWritten'
        BY <1>1 DEF HalfWritten
  <1>5. Untouched'
        <2>1. CASE reader.at \in {"first", "second"}
              <3>1. /\ SlotIn(index_map_, reader.key) \in DOMAIN index_map_ /\ reader.key \in Keys
                    BY <2>1, ReaderIs DEF HubTypes, HubReads, HubReaders
              <3>2. SlotIn(index_map_', reader.key) = SlotIn(index_map_, reader.key)
                    BY <1>3, <3>1
              <3> QED BY <1>1, <3>2 DEF Untouched, HubInv
        <2>2. CASE reader.at \notin {"first", "second"}
              BY <1>1, <2>2 DEF Untouched
        <2> QED BY <2>1, <2>2
  <1>6. Fronts(index_map_, hubBuf, hubFront, published)' /\ ReadOne'
        BY <1>1, <1>3 DEF Fronts, ReadOne, HubInv
  <1> QED BY <1>4, <1>5, <1>6 DEF HubInv

(* A word goes into the buffer that is not the one to read.                 *)
LEMMA PublishWordKeeps ==
  ASSUME HU!HubsAssumption, HubTypes, HubInv, NEW w \in 1..2, HU!PublishWord(w)
  PROVE  HubInv'
  <1> DEFINE i == SlotIn(index_map_, writer.key)
             b == 1 - hubFront[i]
  <1>1. /\ writer.at = (IF w = 1 THEN "first" ELSE "second")
        /\ hubBuf' = [hubBuf EXCEPT ![i][b][w] = publishes]
        /\ writer' = [writer EXCEPT !.at = IF w = 1 THEN "second" ELSE "flip"]
        /\ reader' = IF w = 1 /\ HU!Reads(writer.key) THEN [reader EXCEPT !.begun = @ + 1] ELSE reader
        /\ UNCHANGED <<index_map_, hubFront, published, publishes>>
        BY SlotIsSlotIn DEF HU!PublishWord, HU!BackBuffer
  <1>2. HubWrites /\ writer \in HubWriters
        BY <1>1, WriterIs DEF HubWrites
  <1>3. writer'.key = writer.key /\ writer'.at = (IF w = 1 THEN "second" ELSE "flip")
        BY <1>1, <1>2 DEF HubWriters
  <1>4. /\ i \in DOMAIN index_map_ /\ i \in 1..MaxKeys /\ hubFront[i] \in {0, 1} /\ b \in {0, 1} /\ b # hubFront[i]
        /\ publishes \in Nat
        BY <1>2 DEF HubTypes, HU!HubsAssumption
  <1>5. index_map_[i] = writer.key
        BY <1>4, SlotHolds DEF HubTypes
  <1> HIDE DEF b
  <1>6. /\ hubBuf'[i][b][w] = publishes
        /\ \A v \in 1..2 : v # w => hubBuf'[i][b][v] = hubBuf[i][b][v]
        /\ \A j \in 1..MaxKeys, c \in {0, 1} : j # i \/ c # b => hubBuf'[j][c] = hubBuf[j][c]
        <2> HIDE DEF i
        <2>1. /\ hubBuf'[i][b] = [hubBuf[i][b] EXCEPT ![w] = publishes]
              /\ \A j \in 1..MaxKeys, c \in {0, 1} : j # i \/ c # b => hubBuf'[j][c] = hubBuf[j][c]
              BY <1>1, <1>4 DEF HubTypes
        <2>2. hubBuf[i][b] \in Words
              BY <1>4 DEF HubTypes
        <2> QED BY <2>1, <2>2 DEF Words
  <1>7. Fronts(index_map_, hubBuf, hubFront, published)'
        <2>1. \A j \in 1..MaxKeys : hubBuf'[j][hubFront[j]] = hubBuf[j][hubFront[j]]
              <3>1. \A j \in 1..MaxKeys : hubFront[j] \in {0, 1}
                    BY DEF HubTypes
              <3> HIDE DEF i
              <3> QED BY <1>4, <1>6, <3>1
        <2>2. \A j \in DOMAIN index_map_ : j \in 1..MaxKeys
              BY DEF HubTypes, HU!HubsAssumption
        <2> HIDE DEF i
        <2> QED BY <1>1, <2>1, <2>2 DEF Fronts, HubInv
  <1>8. HalfWritten'
        <2>1. i' = i /\ hubFront'[i] = hubFront[i] /\ publishes' = publishes
              BY <1>1, <1>3
        <2>2. CASE w = 1
              BY <1>3, <1>6, <2>1, <2>2 DEF HalfWritten, b
        <2>3. CASE w = 2
              <3>1. hubBuf[i][b][1] = publishes
                    BY <1>1, <2>3 DEF HubInv, HalfWritten, b
              <3>2. Is(hubBuf'[i][b], publishes)
                    BY <1>6, <2>3, <3>1 DEF Is
              <3> QED BY <1>3, <2>1, <2>3, <3>2 DEF HalfWritten, b
        <2> QED BY <2>2, <2>3
  <1>9. reader'.at = reader.at /\ (reader.at \in {"first", "second"} =>
           /\ reader \in HubReaders /\ SlotIn(index_map_, reader.key) \in DOMAIN index_map_
           /\ index_map_[SlotIn(index_map_, reader.key)] = reader.key
           /\ reader'.key = reader.key /\ reader'.buffer = reader.buffer
           /\ reader'.row = reader.row /\ reader'.since = reader.since
           /\ reader'.begun = IF w = 1 /\ reader.key = writer.key THEN reader.begun + 1 ELSE reader.begun)
        <2>1. CASE reader.at \in {"first", "second"}
              <3>1. /\ reader \in HubReaders /\ SlotIn(index_map_, reader.key) \in DOMAIN index_map_
                    BY <2>1, ReaderIs DEF HubTypes, HubReads
              <3>2. index_map_[SlotIn(index_map_, reader.key)] = reader.key
                    BY <3>1, SlotHolds DEF HubTypes
              <3> QED BY <1>1, <2>1, <3>1, <3>2 DEF HU!Reads, HubReaders
        <2>2. CASE reader.at \notin {"first", "second"}
              BY <1>1, <2>2 DEF HU!Reads
        <2> QED BY <2>1, <2>2
  <1>10. ReadOne'
        BY <1>1, <1>9 DEF ReadOne, HubInv, HU!Reads
  <1>11. ASSUME reader.at \in {"first", "second"}, reader.key = writer.key
         PROVE  Untouched'
        <2>1. /\ reader.begun \in Nat /\ reader.buffer \in {0, 1}
              /\ reader'.key = reader.key /\ reader'.buffer = reader.buffer
              /\ reader'.row = reader.row /\ reader'.since = reader.since /\ reader'.at = reader.at
              /\ reader'.begun = IF w = 1 THEN reader.begun + 1 ELSE reader.begun
              BY <1>9, <1>11 DEF HubReaders
        <2>2. SlotIn(index_map_, reader.key)' = i
              BY <1>1, <1>11, <2>1
        <2>3. CASE w = 1
              <3>1. writer.at = "first"
                    BY <1>1, <2>3
              <3>2. reader'.begun = reader.begun + 1
                    BY <2>1, <2>3
              <3>3. CASE reader.begun = 0
                    <4>1. hubFront[i] = reader.buffer /\ Is(hubBuf[i][reader.buffer], reader.since)
                          /\ (reader.at = "second" => reader.row[1] = reader.since)
                          BY <1>11, <3>3 DEF HubInv, Untouched
                    <4>2. hubBuf'[i][reader.buffer] = hubBuf[i][reader.buffer]
                          BY <1>4, <1>6, <4>1
                    <4> HIDE DEF i
                    <4> QED BY <1>1, <1>3, <1>11, <2>1, <2>2, <2>3, <3>2, <3>3, <4>1, <4>2 DEF Untouched
              <3>4. CASE reader.begun # 0
                    BY <2>1, <3>2, <3>4 DEF Untouched
              <3> QED BY <3>3, <3>4
        <2>4. CASE w = 2
              <3>1. writer.at = "second" /\ reader'.begun = reader.begun /\ writer'.at = "flip"
                    BY <1>1, <1>3, <2>1, <2>4
              <3>2. reader.begun # 0
                    BY <1>11, <3>1 DEF HubInv, Untouched
              <3>3. CASE reader.begun = 1
                    <4>1. hubFront[i] = reader.buffer /\ Is(hubBuf[i][reader.buffer], reader.since)
                          /\ (reader.at = "second" => reader.row[1] = reader.since)
                          BY <1>11, <3>1, <3>3 DEF HubInv, Untouched
                    <4>2. hubBuf'[i][reader.buffer] = hubBuf[i][reader.buffer]
                          BY <1>4, <1>6, <4>1
                    <4> HIDE DEF i
                    <4> QED BY <1>1, <1>3, <1>11, <2>1, <2>2, <3>1, <3>3, <4>1, <4>2 DEF Untouched
              <3>4. CASE reader.begun # 1
                    BY <2>1, <3>1, <3>2, <3>4 DEF Untouched
              <3> QED BY <3>3, <3>4
        <2> QED BY <2>3, <2>4
  <1>12. ASSUME reader.at \in {"first", "second"}, reader.key # writer.key
         PROVE  Untouched'
        <2>1. reader' = reader
              BY <1>1, <1>12 DEF HU!Reads
        <2>2. SlotIn(index_map_, reader.key) # i /\ SlotIn(index_map_, reader.key) \in 1..MaxKeys
              /\ reader.buffer \in {0, 1}
              BY <1>5, <1>9, <1>12 DEF HubReaders, HubTypes, HU!HubsAssumption
        <2>3. hubBuf'[SlotIn(index_map_, reader.key)][reader.buffer] = hubBuf[SlotIn(index_map_, reader.key)][reader.buffer]
              BY <1>6, <2>2
        <2> HIDE DEF i
        <2> QED BY <1>1, <1>3, <1>12, <2>1, <2>3 DEF Untouched, HubInv
  <1>13. Untouched'
        BY <1>9, <1>11, <1>12 DEF Untouched
  <1> QED BY <1>7, <1>8, <1>10, <1>13 DEF HubInv

(* The written buffer becomes the one to read.                              *)
LEMMA PublishFlipKeeps ==
  ASSUME HU!HubsAssumption, HubTypes, HubInv, HU!PublishFlip
  PROVE  HubInv'
  <1> DEFINE i == SlotIn(index_map_, writer.key)
  <1>1. /\ writer.at = "flip" /\ writer'.at = "idle"
        /\ hubFront' = [hubFront EXCEPT ![i] = 1 - hubFront[i]]
        /\ published' = [published EXCEPT ![writer.key] = publishes]
        /\ UNCHANGED <<index_map_, hubBuf, reader>>
        BY SlotIsSlotIn DEF HU!PublishFlip, HU!BackBuffer, HU!Rest
  <1>2. HubWrites /\ writer \in HubWriters
        BY <1>1, WriterIs DEF HubWrites
  <1>3. /\ i \in DOMAIN index_map_ /\ i \in 1..MaxKeys /\ hubFront[i] \in {0, 1} /\ writer.key \in Keys
        BY <1>2 DEF HubTypes, HU!HubsAssumption, HubWriters
  <1>4. index_map_[i] = writer.key /\ i # -1
        BY <1>3, SlotHolds DEF HubTypes
  <1>5. Is(hubBuf[i][1 - hubFront[i]], publishes)
        BY <1>1 DEF HubInv, HalfWritten
  <1>6. \A j \in DOMAIN index_map_ : j \in 1..MaxKeys /\ index_map_[j] \in Keys
                                     /\ (j # i => index_map_[j] # writer.key)
        BY <1>3, <1>4 DEF HubTypes, HU!HubsAssumption, OneSlotEach
  <1>7. /\ hubFront'[i] = 1 - hubFront[i] /\ \A j \in 1..MaxKeys : j # i => hubFront'[j] = hubFront[j]
        /\ published'[writer.key] = publishes
        /\ \A k \in Keys : k # writer.key => published'[k] = published[k]
        <2> HIDE DEF i
        <2> QED BY <1>1, <1>3 DEF HubTypes
  <1>8. SlotIn(index_map_, writer.key) # -1
        BY <1>4
  <1>9. Fronts(index_map_, hubBuf, hubFront, published)'
        <2> HIDE DEF i
        <2>1. \A j \in DOMAIN index_map_ : Is(hubBuf[j][hubFront'[j]], published'[index_map_[j]])
              <3>1. ASSUME NEW j \in DOMAIN index_map_, j # i
                    PROVE  Is(hubBuf[j][hubFront'[j]], published'[index_map_[j]])
                    BY <1>6, <1>7, <3>1 DEF HubInv, Fronts
              <3> QED BY <1>4, <1>5, <1>7, <3>1
        <2>2. \A j \in 1..MaxKeys : j \notin DOMAIN index_map_ => Is(hubBuf[j][hubFront'[j]], 0)
              BY <1>3, <1>7 DEF HubInv, Fronts
        <2>3. \A k \in Keys : SlotIn(index_map_, k) = -1 => published'[k] = 0
              BY <1>7, <1>8 DEF HubInv, Fronts
        <2> QED BY <1>1, <2>1, <2>2, <2>3 DEF Fronts
  <1>10. ASSUME reader.at \in {"first", "second"} PROVE Untouched'
        <2> DEFINE r == SlotIn(index_map_, reader.key)
        <2>1. /\ reader \in HubReaders /\ r \in DOMAIN index_map_ /\ r \in 1..MaxKeys
              BY <1>10, ReaderIs DEF HubTypes, HubReads, HU!HubsAssumption
        <2>2. reader.begun \in Nat /\ reader.buffer \in {0, 1} /\ reader.key \in Keys
              BY <2>1 DEF HubReaders
        <2>3. r' = r /\ hubBuf'[r] = hubBuf[r] /\ reader' = reader
              BY <1>1
        <2>4. CASE reader.key = writer.key
              <3>1. r = i /\ reader.begun # 0
                    BY <1>1, <1>10, <2>4 DEF HubInv, Untouched
              <3>2. reader.begun = 1 => hubFront[i] = reader.buffer
                    BY <1>1, <1>10, <2>4 DEF HubInv, Untouched
              <3>3. reader.begun = 1 => hubFront'[r] = 1 - reader.buffer
                    BY <1>7, <3>1, <3>2
              <3>4. /\ reader.begun < 2 => Is(hubBuf[r][reader.buffer], reader.since)
                    /\ reader.at = "second" /\ reader.begun < 2 => reader.row[1] = reader.since
                    BY <1>10 DEF HubInv, Untouched
              <3> QED BY <1>1, <2>3, <3>1, <3>3, <3>4 DEF Untouched
        <2>5. CASE reader.key # writer.key
              <3>1. r # i
                    BY <1>4, <2>1, <2>5, SlotHolds DEF HubTypes
              <3>2. hubFront'[r] = hubFront[r]
                    BY <1>7, <2>1, <3>1
              <3> QED BY <1>1, <1>10, <2>3, <2>5, <3>2 DEF HubInv, Untouched
        <2> QED BY <2>4, <2>5
  <1>11. Untouched' /\ HalfWritten' /\ ReadOne'
        BY <1>1, <1>10 DEF Untouched, HalfWritten, ReadOne, HubInv
  <1> QED BY <1>9, <1>11 DEF HubInv

(* The observer takes the buffer that holds the last publication, then its  *)
(* words.                                                                   *)
LEMMA ReadKeeps ==
  ASSUME HU!HubsAssumption, HubTypes, HubInv, NEW k \in Keys, HU!Read(k)
  PROVE  HubInv'
  <1> DEFINE i == SlotIn(index_map_, k)
  <1>1. /\ i \in DOMAIN index_map_ /\ index_map_[i] = k
        /\ reader' = [at |-> "first", key |-> k, buffer |-> hubFront[i], row |-> HU!Empty,
                      since |-> published[k], begun |-> IF HU!Writes(k) THEN 1 ELSE 0]
        /\ UNCHANGED <<index_map_, hubBuf, hubFront, published, publishes, writer>>
        <2>1. i # -1
              BY SlotIsSlotIn DEF HU!Read, HU!None
        <2>2. i \in DOMAIN index_map_ /\ index_map_[i] = k
              BY <2>1, SlotHolds DEF HubTypes
        <2> QED BY <2>2, SlotIsSlotIn DEF HU!Read, HU!hub
  <1>2. Is(hubBuf[i][hubFront[i]], published[k])
        BY <1>1 DEF HubInv, Fronts
  <1>3. Untouched'
        BY <1>1, <1>2 DEF Untouched, HU!Writes
  <1>4. Fronts(index_map_, hubBuf, hubFront, published)' /\ HalfWritten' /\ ReadOne'
        BY <1>1 DEF HubInv, Fronts, HalfWritten, ReadOne
  <1> QED BY <1>3, <1>4 DEF HubInv

(* A word read while a publication is written is of the one that was      *)
(* complete: the writer works on the other buffer.                         *)
LEMMA ReadWordKeeps ==
  ASSUME HU!HubsAssumption, HubTypes, HubInv, NEW w \in 1..2, HU!ReadWord(w)
  PROVE  HubInv'
  <1> DEFINE i == SlotIn(index_map_, reader.key)
             word == hubBuf[i][reader.buffer][w]
  <1>1. /\ reader.at = (IF w = 1 THEN "first" ELSE "second")
        /\ reader' = [reader EXCEPT !.at = IF w = 1 THEN "second" ELSE "read", !.row[w] = word]
        /\ UNCHANGED <<index_map_, hubBuf, hubFront, published, publishes, writer>>
        BY SlotIsSlotIn DEF HU!ReadWord, HU!hub
  <1>2. reader \in HubReaders
        BY <1>1, ReaderIs DEF HubReads
  <1>3. /\ reader'.key = reader.key /\ reader'.buffer = reader.buffer /\ reader'.since = reader.since
        /\ reader'.begun = reader.begun /\ reader'.at = (IF w = 1 THEN "second" ELSE "read")
        /\ reader'.row = [reader.row EXCEPT ![w] = word] /\ reader.row \in Words
        <2> HIDE DEF word
        <2> QED BY <1>1, <1>2 DEF HubReaders
  <1>4. reader.begun < 2 => word = reader.since
        BY <1>1 DEF HubInv, Untouched, Is
  <1>5. /\ reader'.row[w] = word /\ (w = 2 => reader'.row[1] = reader.row[1])
        <2> HIDE DEF word
        <2> QED BY <1>3 DEF Words
  <1> HIDE DEF word
  <1>6. Untouched'
        <2>1. CASE w = 1
              BY <1>1, <1>3, <1>4, <1>5, <2>1 DEF HubInv, Untouched
        <2>2. CASE w = 2
              BY <1>3, <2>2 DEF Untouched
        <2> QED BY <2>1, <2>2
  <1>7. ReadOne'
        <2>1. CASE w = 1
              BY <1>3, <2>1 DEF ReadOne
        <2>2. CASE w = 2
              BY <1>1, <1>3, <1>4, <1>5, <2>2 DEF HubInv, Untouched, ReadOne, Is
        <2> QED BY <2>1, <2>2
  <1>8. Fronts(index_map_, hubBuf, hubFront, published)' /\ HalfWritten'
        BY <1>1 DEF HubInv, Fronts, HalfWritten
  <1> QED BY <1>6, <1>7, <1>8 DEF HubInv

(* The steps on the ring leave the hub alone.                               *)
LEMMA HubNext ==
  HU!HubsAssumption /\ HubTypes /\ HubInv /\ [HU!Next]_HU!vars => HubInv'
  <1> SUFFICES ASSUME HU!HubsAssumption, HubTypes, HubInv, [HU!Next]_HU!vars PROVE HubInv'
      OBVIOUS
  <1>1. ASSUME UNCHANGED <<index_map_, hubBuf, hubFront, published, publishes, reader>>,
               writer' = writer \/ (~(writer.at \in {"second", "flip"}) /\ ~(writer.at \in {"second", "flip"})')
        PROVE  HubInv'
        BY <1>1 DEF HubInv, Fronts, HalfWritten, Untouched, ReadOne
  <1>2. ASSUME NEW k \in Keys, HU!PublishDropped(k) PROVE HubInv'
        BY <1>2 DEF HU!PublishDropped, HU!Idle, HubInv, Fronts, HalfWritten, Untouched, ReadOne
  <1>3. ASSUME HU!PushBegin \/ HU!PushMark \/ (\E w \in {1, 2} : HU!PushWord(w)) \/ HU!PushEnd
        PROVE  HubInv'
        <2>1. ~(writer.at \in {"second", "flip"}) /\ ~(writer.at \in {"second", "flip"})'
              <3>1. CASE HU!PushBegin
                    BY <3>1 DEF HU!PushBegin, HU!Idle
              <3>2. CASE HU!PushMark
                    BY <3>2, WriterIs DEF HU!PushMark, Pushes, RingWriters
              <3>3. ASSUME NEW w \in {1, 2}, HU!PushWord(w)
                    PROVE  ~(writer.at \in {"second", "flip"}) /\ ~(writer.at \in {"second", "flip"})'
                    BY <3>3, WriterIs DEF HU!PushWord, Pushes, RingWriters
              <3>4. CASE HU!PushEnd
                    BY <3>4 DEF HU!PushEnd, HU!Rest
              <3> QED BY <1>3, <3>1, <3>2, <3>3, <3>4
        <2>2. UNCHANGED <<index_map_, hubBuf, hubFront, published, publishes, reader>>
              BY <1>3 DEF HU!PushBegin, HU!PushMark, HU!PushWord, HU!PushEnd, HU!hub
        <2> QED BY <1>1, <2>1, <2>2
  <1>4. ASSUME HU!SnapshotBegin \/ HU!SnapshotSeq \/ HU!SnapshotWord \/ HU!SnapshotSeqAgain \/ HU!Answer
        PROVE  HubInv'
        <2>1. ~HubReads'
              <3>1. CASE HU!SnapshotWord
                    BY <3>1, ReaderIs DEF HU!SnapshotWord, WordReaders, HubReads
              <3> QED BY <1>4, <3>1 DEF HU!SnapshotBegin, HU!SnapshotSeq, HU!SnapshotSeqAgain, HU!NextSlot,
                                        HU!Answer, HU!Rest, HubReads
        <2>2. UNCHANGED <<index_map_, hubBuf, hubFront, published, publishes, writer>>
              BY <1>4 DEF HU!SnapshotBegin, HU!SnapshotSeq, HU!SnapshotWord, HU!SnapshotSeqAgain,
                          HU!Answer, HU!hub
        <2> QED BY <2>1, <2>2 DEF HubInv, Fronts, HalfWritten, Untouched, ReadOne, HubReads
  <1>5. CASE UNCHANGED HU!vars
        BY <1>1, <1>5 DEF HU!vars
  <1> QED BY <1>2, <1>3, <1>4, <1>5, PublishBeginKeeps, PublishWordKeeps, PublishFlipKeeps,
             ReadKeeps, ReadWordKeeps DEF HU!Next, HU!Loop, HU!Observer


-----------------------------------------------------------------------------
(* A listing of a ring of numbered slots.                                   *)

(* The numbers whose rows are complete: all but the one being written.      *)
Completed == IF Pushes THEN write_idx_ - 1 ELSE write_idx_

(* A slot with a number holds that number's row.                            *)
Numbered ==
  \A i \in 0..(RingCap - 1) :
    ring[i].seq # -2 => ring[i].seq <= Completed /\ (ring[i].seq # 0 => Is(ring[i].row, ring[i].seq))

(* The slot being written is marked.                                        *)
Marked ==
  LET i == HU!RingSlot(writer.raw)
  IN  /\ Pushes => writer.raw = write_idx_ - 1
      /\ writer.at \in {"one", "two", "done"} => ring[i].seq = -2
      /\ writer.at = "two" => ring[i].row[1] = writer.raw + 1
      /\ writer.at = "done" => Is(ring[i].row, writer.raw + 1)

(* While a slot shows the number the reader saw first, what was read of it  *)
(* is that number's row: no number comes back.                              *)
SeenWhole ==
  reader.at \in {"word", "again"} =>
    /\ reader.seq0 <= Completed
    /\ ring[reader.i].seq = reader.seq0 =>
         /\ reader.at = "word" /\ reader.w = 2 => reader.row[1] = reader.seq0
         /\ reader.at = "again" => Is(reader.row, reader.seq0)

Listed ==
  reader.at \in {"slot", "word", "again", "listed"} =>
    \A e \in reader.valid :
      Is(e.row, e.gen) /\ e.gen > reader.current - RingCap /\ e.gen <= Completed

RingInv == Numbered /\ Marked /\ SeenWhole /\ Listed

(* No order was refused.                                                    *)
LEMMA RowsInit == HU!Init => RingInv
  <1> SUFFICES ASSUME HU!Init PROVE RingInv
      OBVIOUS
  <1>1. writer.at = "idle" /\ reader.at = "idle" /\ write_idx_ = 0
        BY DEF HU!Init, HU!Rest
  <1>2. \A i \in 0..(RingCap - 1) : ring[i].seq = 0
        BY DEF HU!Init
  <1> QED BY <1>1, <1>2 DEF RingInv, Numbered, Marked, SeenWhole, Listed, Completed, Pushes

(* What is complete stays so, and a marked slot shows no number.            *)
LEMMA PushKeepsReader ==
  ASSUME HU!HubsAssumption, HubTypes, RingInv, UNCHANGED reader,
         Completed <= Completed', Completed' \in Int,
         \A i \in 0..(RingCap - 1) : ring'[i].seq \in 1..Completed => ring'[i] = ring[i]
  PROVE  SeenWhole' /\ Listed'
  <1>1. Completed \in Int
        BY DEF Completed, HubTypes
  <1>2. ASSUME reader.at \in {"word", "again"} PROVE SeenWhole'
        <2>1. /\ reader.seq0 \in Nat \ {0} /\ reader.i \in 0..(RingCap - 1)
              BY <1>2, ReaderIs DEF WordReaders
        <2>2. reader.seq0 <= Completed /\ reader.seq0 <= Completed'
              BY <1>1, <1>2, <2>1 DEF RingInv, SeenWhole
        <2>3. ring'[reader.i].seq = reader.seq0 => ring[reader.i].seq = reader.seq0
              BY <1>1, <2>1, <2>2
        <2>4. ring[reader.i].seq = reader.seq0 =>
                /\ reader.at = "word" /\ reader.w = 2 => reader.row[1] = reader.seq0
                /\ reader.at = "again" => Is(reader.row, reader.seq0)
              BY <1>2 DEF RingInv, SeenWhole
        <2>5. reader' = reader
              OBVIOUS
        <2> QED BY <2>2, <2>3, <2>4, <2>5 DEF SeenWhole
  <1>3. SeenWhole'
        BY <1>2 DEF SeenWhole
  <1>4. Listed'
        <2>1. CASE reader.at \in {"slot", "word", "again", "listed"}
              <3>1. \A e \in reader.valid : e.gen \in Nat
                    BY <2>1, ReaderIs DEF SlotReaders, WordReaders, ListReaders, ListedRows
              <3>2. \A e \in reader.valid : e.gen <= Completed
                    BY <2>1 DEF RingInv, Listed
              <3>3. \A e \in reader.valid : e.gen <= Completed'
                    BY <1>1, <3>1, <3>2
              <3> QED BY <2>1, <3>3 DEF RingInv, Listed
        <2> QED BY <2>1 DEF Listed
  <1> QED BY <1>3, <1>4

(* The next number is taken, its slot marked, its row written, its number   *)
(* shown.                                                                   *)
LEMMA PushKeeps ==
  ASSUME HU!HubsAssumption, HubTypes, RingInv,
         HU!PushBegin \/ HU!PushMark \/ (\E w \in {1, 2} : HU!PushWord(w)) \/ HU!PushEnd
  PROVE  RingInv'
  <1> DEFINE s == HU!RingSlot(writer.raw)
  <1>1. UNCHANGED reader
        BY DEF HU!PushBegin, HU!PushMark, HU!PushWord, HU!PushEnd
  <1>2. RingCap \in Nat \ {0} /\ write_idx_ \in Nat
        BY DEF HU!HubsAssumption, HubTypes
  <1>3. Pushes => writer.raw \in Nat /\ s \in 0..(RingCap - 1) /\ writer.raw + 1 = write_idx_
                  /\ Completed = writer.raw
        BY <1>2, WriterIs DEF RingWriters, HU!RingSlot, RingInv, Marked, Completed
  <1>4. \A i \in 0..(RingCap - 1) :
          /\ ring[i].seq \in Nat \cup {-2} /\ ring[i].row \in Words
          /\ ring[i] = [seq |-> ring[i].seq, row |-> ring[i].row]
        BY DEF HubTypes
  <1>5. CASE HU!PushBegin
        <2>1. /\ ~Pushes /\ Pushes' /\ writer'.raw = write_idx_ /\ write_idx_' = write_idx_ + 1
              /\ writer'.at = "mark" /\ ring' = ring
              BY <1>5 DEF HU!PushBegin, HU!Idle, Pushes
        <2>2. Completed' = Completed /\ Completed \in Int
              BY <1>2, <2>1 DEF Completed
        <2>3. Marked'
              BY <1>2, <2>1 DEF Marked
        <2>4. Numbered'
              BY <2>1, <2>2 DEF RingInv, Numbered
        <2>5. SeenWhole' /\ Listed'
              BY <1>1, <2>1, <2>2, PushKeepsReader
        <2> QED BY <2>3, <2>4, <2>5 DEF RingInv
  <1>6. CASE HU!PushMark
        <2>1. /\ Pushes /\ writer.at = "mark" /\ write_idx_' = write_idx_
              /\ writer' = [writer EXCEPT !.at = "one"]
              /\ ring' = [ring EXCEPT ![s].seq = -2]
              BY <1>6 DEF HU!PushMark, HU!MarkWriting, HU!Writing, Pushes
        <2>2. writer'.at = "one" /\ writer'.raw = writer.raw /\ Pushes'
              BY <2>1, WriterIs DEF RingWriters, Pushes
        <2>3. Completed' = Completed /\ Completed \in Int
              BY <1>2, <2>1, <2>2 DEF Completed
        <2> HIDE DEF s
        <2>4. /\ ring'[s].seq = -2
              /\ \A i \in 0..(RingCap - 1) : i # s => ring'[i] = ring[i]
              BY <1>3, <2>1 DEF HubTypes
        <2>5. Marked'
              <3>1. HU!RingSlot(writer'.raw) = s
                    BY <2>2 DEF s
              <3> QED BY <1>3, <2>1, <2>2, <2>4, <3>1 DEF Marked
        <2>6. Numbered'
              BY <2>3, <2>4 DEF RingInv, Numbered
        <2>7. \A i \in 0..(RingCap - 1) : ring'[i].seq \in 1..Completed => ring'[i] = ring[i]
              BY <2>3, <2>4
        <2>8. SeenWhole' /\ Listed'
              BY <1>1, <2>3, <2>7, PushKeepsReader
        <2> QED BY <2>5, <2>6, <2>8 DEF RingInv
  <1>7. ASSUME NEW w \in {1, 2}, HU!PushWord(w) PROVE RingInv'
        <2>1. /\ Pushes /\ writer.at = (IF w = 1 THEN "one" ELSE "two") /\ write_idx_' = write_idx_
              /\ writer' = [writer EXCEPT !.at = IF w = 1 THEN "two" ELSE "done"]
              /\ ring' = [ring EXCEPT ![s].row[w] = writer.raw + 1]
              BY <1>7 DEF HU!PushWord, Pushes
        <2>2. /\ writer'.at = (IF w = 1 THEN "two" ELSE "done") /\ writer'.raw = writer.raw /\ Pushes'
              BY <2>1, WriterIs DEF RingWriters, Pushes
        <2>3. Completed' = Completed /\ Completed \in Int
              BY <1>2, <2>1, <2>2 DEF Completed
        <2>4. ring[s].seq = -2 /\ (w = 2 => ring[s].row[1] = writer.raw + 1)
              BY <2>1 DEF RingInv, Marked
        <2> HIDE DEF s
        <2>5. /\ ring'[s].seq = -2 /\ ring'[s].row[w] = writer.raw + 1
              /\ w = 2 => ring'[s].row[1] = writer.raw + 1
              /\ \A i \in 0..(RingCap - 1) : i # s => ring'[i] = ring[i]
              <3>1. s \in 0..(RingCap - 1) /\ ring[s].row \in Words
                    BY <1>3, <1>4, <2>1
              <3>2. /\ ring'[s].seq = ring[s].seq /\ ring'[s].row = [ring[s].row EXCEPT ![w] = writer.raw + 1]
                    /\ \A i \in 0..(RingCap - 1) : i # s => ring'[i] = ring[i]
                    BY <2>1, <3>1 DEF HubTypes
              <3> QED BY <2>4, <3>1, <3>2 DEF Words
        <2>6. Marked'
              <3>1. HU!RingSlot(writer'.raw) = s
                    BY <2>2 DEF s
              <3> QED BY <1>3, <2>1, <2>2, <2>5, <3>1 DEF Marked, Is
        <2>7. Numbered'
              BY <2>3, <2>5 DEF RingInv, Numbered
        <2>8. \A i \in 0..(RingCap - 1) : ring'[i].seq \in 1..Completed => ring'[i] = ring[i]
              BY <2>3, <2>5
        <2>9. SeenWhole' /\ Listed'
              BY <1>1, <2>3, <2>8, PushKeepsReader
        <2> QED BY <2>6, <2>7, <2>9 DEF RingInv
  <1>8. CASE HU!PushEnd
        <2>1. /\ Pushes /\ writer.at = "done" /\ write_idx_' = write_idx_
              /\ writer'.at = "idle" /\ ~Pushes'
              /\ ring' = [ring EXCEPT ![s].seq = writer.raw + 1]
              BY <1>8 DEF HU!PushEnd, HU!Rest, Pushes
        <2>2. Completed' = write_idx_ /\ Completed = writer.raw /\ writer.raw \in Nat
              /\ write_idx_ = writer.raw + 1
              BY <1>3, <2>1 DEF Completed
        <2>3. Is(ring[s].row, writer.raw + 1)
              BY <2>1 DEF RingInv, Marked
        <2> HIDE DEF s
        <2>4. /\ ring'[s].seq = writer.raw + 1 /\ ring'[s].row = ring[s].row
              /\ \A i \in 0..(RingCap - 1) : i # s => ring'[i] = ring[i]
              BY <1>3, <2>1 DEF HubTypes
        <2>5. Marked'
              BY <2>1 DEF Marked
        <2>6. Numbered'
              <3>1. ASSUME NEW i \in 0..(RingCap - 1), i # s, ring'[i].seq # -2
                    PROVE  ring'[i].seq <= Completed' /\ (ring'[i].seq # 0 => Is(ring'[i].row, ring'[i].seq))
                    <4>1. ring[i].seq <= Completed /\ (ring[i].seq # 0 => Is(ring[i].row, ring[i].seq))
                          BY <2>4, <3>1 DEF RingInv, Numbered
                    <4>2. ring[i].seq \in Nat
                          BY <1>4, <2>4, <3>1
                    <4> QED BY <2>2, <2>4, <3>1, <4>1, <4>2
              <3>2. ring'[s].seq <= Completed' /\ Is(ring'[s].row, ring'[s].seq)
                    BY <2>2, <2>3, <2>4
              <3> QED BY <3>1, <3>2 DEF Numbered
        <2>7. \A i \in 0..(RingCap - 1) : ring'[i].seq \in 1..Completed => ring'[i] = ring[i]
              BY <2>2, <2>4
        <2>8. SeenWhole' /\ Listed'
              BY <1>1, <2>2, <2>7, PushKeepsReader
        <2> QED BY <2>5, <2>6, <2>8 DEF RingInv
  <1> QED BY <1>5, <1>6, <1>7, <1>8

(* The observer's listing: a number, the words, the number again.           *)
LEMMA SnapshotKeeps ==
  ASSUME HU!HubsAssumption, HubTypes, RingInv,
         HU!SnapshotBegin \/ HU!SnapshotSeq \/ HU!SnapshotWord \/ HU!SnapshotSeqAgain
  PROVE  SeenWhole' /\ Listed'
  <1>1. UNCHANGED <<ring, write_idx_, writer>> /\ Completed' = Completed /\ Completed \in Int
        BY DEF HU!SnapshotBegin, HU!SnapshotSeq, HU!SnapshotWord, HU!SnapshotSeqAgain, HU!rejects,
               Completed, Pushes, HubTypes
  <1>2. RingCap \in Nat \ {0}
        BY DEF HU!HubsAssumption
  <1>3. CASE HU!SnapshotBegin
        BY <1>3 DEF HU!SnapshotBegin, SeenWhole, Listed
  <1>4. CASE HU!SnapshotSeq
        <2>1. reader \in SlotReaders /\ reader.at = "slot"
              BY <1>4, ReaderIs DEF HU!SnapshotSeq
        <2>2. CASE ring[reader.i].seq \in {0, HU!Writing}
              <3>1. /\ reader'.at \in {"slot", "listed"} /\ reader'.valid = reader.valid
                    /\ reader'.current = reader.current
                    BY <1>4, <2>2 DEF HU!SnapshotSeq, HU!NextSlot
              <3> QED BY <1>1, <2>1, <3>1 DEF RingInv, SeenWhole, Listed
        <2>3. CASE ring[reader.i].seq \notin {0, HU!Writing}
              <3>1. /\ reader'.at = "word" /\ reader'.w = 1 /\ reader'.seq0 = ring[reader.i].seq
                    /\ reader'.i = reader.i /\ reader'.valid = reader.valid
                    /\ reader'.current = reader.current
                    BY <1>4, <2>3 DEF HU!SnapshotSeq
              <3>2. ring[reader.i].seq <= Completed
                    BY <2>1, <2>3 DEF RingInv, Numbered, SlotReaders, HU!Writing
              <3> QED BY <1>1, <2>1, <3>1, <3>2 DEF RingInv, SeenWhole, Listed
        <2> QED BY <2>2, <2>3
  <1>5. CASE HU!SnapshotWord
        <2> DEFINE word == ring[reader.i].row[reader.w]
        <2>1. reader \in WordReaders /\ reader.at = "word"
              BY <1>5, ReaderIs DEF HU!SnapshotWord
        <2>2. /\ reader'.at = (IF reader.w = 1 THEN "word" ELSE "again") /\ reader'.w = 2
              /\ reader'.seq0 = reader.seq0 /\ reader'.i = reader.i /\ reader'.valid = reader.valid
              /\ reader'.current = reader.current
              /\ reader'.row = [reader.row EXCEPT ![reader.w] = word]
              BY <1>5, <2>1 DEF HU!SnapshotWord, WordReaders
        <2>3. /\ reader.w \in 1..2 /\ reader.row \in Words /\ reader.seq0 \in Nat \ {0}
              /\ reader.i \in 0..(RingCap - 1)
              BY <2>1 DEF WordReaders
        <2>4. ring[reader.i].seq = reader.seq0 => word = reader.seq0
              BY <2>3 DEF RingInv, Numbered, Is
        <2> HIDE DEF word
        <2>5. reader'.row[reader.w] = word /\ (reader.w = 2 => reader'.row[1] = reader.row[1])
              BY <2>2, <2>3 DEF Words
        <2>6. SeenWhole'
              BY <1>1, <2>1, <2>2, <2>3, <2>4, <2>5 DEF RingInv, SeenWhole, Is
        <2>7. Listed'
              BY <1>1, <2>1, <2>2 DEF RingInv, Listed
        <2> QED BY <2>6, <2>7
  <1>6. CASE HU!SnapshotSeqAgain
        <2> DEFINE taken == ring[reader.i].seq = reader.seq0 /\ ~HU!TooOld(reader.seq0, reader.current)
                   new == [gen |-> reader.seq0, row |-> reader.row]
        <2>1. reader \in WordReaders /\ reader.at = "again"
              BY <1>6, ReaderIs DEF HU!SnapshotSeqAgain
        <2>2. /\ reader'.at \in {"slot", "listed"} /\ reader'.current = reader.current
              /\ reader'.valid = IF taken THEN reader.valid \cup {new} ELSE reader.valid
              BY <1>6 DEF HU!SnapshotSeqAgain, HU!NextSlot
        <2>3. reader.seq0 \in Nat \ {0} /\ reader.current \in Nat
              BY <2>1 DEF WordReaders
        <2>4. taken => Is(new.row, new.gen) /\ new.gen > reader.current - RingCap /\ new.gen <= Completed
              BY <1>2, <2>1, <2>3 DEF RingInv, SeenWhole, HU!TooOld
        <2> HIDE DEF taken, new
        <2> QED BY <1>1, <2>1, <2>2, <2>4 DEF RingInv, SeenWhole, Listed
  <1> QED BY <1>3, <1>4, <1>5, <1>6

(* The steps on the hub leave the ring alone.                               *)
LEMMA RowsNext ==
  HU!HubsAssumption /\ HubTypes /\ RingInv /\ [HU!Next]_HU!vars => RingInv'
  <1> SUFFICES ASSUME HU!HubsAssumption, HubTypes, RingInv, [HU!Next]_HU!vars PROVE RingInv'
      OBVIOUS
  <1>1. ASSUME UNCHANGED <<ring, write_idx_>>, writer' = writer \/ (~Pushes /\ ~Pushes'),
               SeenWhole' /\ Listed'
        PROVE  RingInv'
        <2>1. Completed' = Completed
              BY <1>1 DEF Completed, Pushes
        <2>2. Numbered'
              BY <1>1, <2>1 DEF RingInv, Numbered
        <2>3. Marked'
              BY <1>1 DEF RingInv, Marked, Pushes
        <2> QED BY <1>1, <2>2, <2>3 DEF RingInv
  <1>2. ASSUME UNCHANGED <<ring, write_idx_>>, ~Pushes, ~Pushes',
               reader' = reader \/ (HubReads /\ HubReads')
        PROVE  RingInv'
        <2>1. Completed' = Completed
              BY <1>2 DEF Completed
        <2>2. SeenWhole' /\ Listed'
              BY <1>2, <2>1 DEF RingInv, SeenWhole, Listed, HubReads
        <2> QED BY <1>1, <1>2, <2>2
  <1>3. ASSUME NEW k \in Keys, HU!PublishBegin(k) \/ HU!PublishDropped(k) PROVE RingInv'
        BY <1>2, <1>3 DEF HU!PublishBegin, HU!PublishDropped, HU!Idle, HU!rejects, Pushes
  <1>4. ASSUME NEW w \in {1, 2}, HU!PublishWord(w) PROVE RingInv'
        <2>1. HubWrites /\ writer \in HubWriters
              BY <1>4, WriterIs DEF HU!PublishWord, HubWrites
        <2>2. ~Pushes /\ ~Pushes'
              BY <1>4, <2>1 DEF HU!PublishWord, HubWriters, Pushes
        <2>3. reader' = reader \/ (HubReads /\ HubReads')
              <3>1. CASE HU!Reads(writer.key)
                    <4>1. HubReads /\ reader \in HubReaders
                          BY <3>1, ReaderIs DEF HU!Reads, HubReads
                    <4>2. reader' = reader \/ reader' = [reader EXCEPT !.begun = @ + 1]
                          BY <1>4 DEF HU!PublishWord
                    <4> QED BY <4>1, <4>2 DEF HubReaders, HubReads
              <3>2. CASE ~HU!Reads(writer.key)
                    BY <1>4, <3>2 DEF HU!PublishWord
              <3> QED BY <3>1, <3>2
        <2>4. UNCHANGED <<ring, write_idx_>>
              BY <1>4 DEF HU!PublishWord, HU!rejects
        <2> QED BY <1>2, <2>2, <2>3, <2>4
  <1>5. CASE HU!PublishFlip
        BY <1>2, <1>5 DEF HU!PublishFlip, HU!rejects, HU!Rest, Pushes
  <1>6. ASSUME UNCHANGED <<ring, write_idx_, writer>>,
               reader'.at \in {"first", "second", "read", "idle"}
        PROVE  RingInv'
        BY <1>1, <1>6 DEF SeenWhole, Listed
  <1>7. ASSUME NEW k \in Keys, HU!Read(k) PROVE RingInv'
        BY <1>6, <1>7 DEF HU!Read, HU!rejects
  <1>8. ASSUME NEW w \in {1, 2}, HU!ReadWord(w) PROVE RingInv'
        <2>1. reader \in HubReaders
              BY <1>8, ReaderIs DEF HU!ReadWord, HubReads
        <2>2. reader'.at \in {"second", "read"}
              BY <1>8, <2>1 DEF HU!ReadWord, HubReaders
        <2> QED BY <1>6, <1>8, <2>2 DEF HU!ReadWord, HU!rejects
  <1>9. CASE HU!Answer
        BY <1>6, <1>9 DEF HU!Answer, HU!Rest, HU!rejects
  <1>10. CASE HU!SnapshotBegin \/ HU!SnapshotSeq \/ HU!SnapshotWord \/ HU!SnapshotSeqAgain
        <2>1. UNCHANGED <<ring, write_idx_, writer>>
              BY <1>10 DEF HU!SnapshotBegin, HU!SnapshotSeq, HU!SnapshotWord, HU!SnapshotSeqAgain, HU!rejects
        <2> QED BY <1>1, <1>10, <2>1, SnapshotKeeps
  <1>11. CASE UNCHANGED HU!vars
        <2>1. UNCHANGED <<ring, write_idx_, writer, reader>>
              BY <1>11 DEF HU!vars
        <2>2. SeenWhole' /\ Listed'
              BY <2>1 DEF RingInv, SeenWhole, Listed, Completed, Pushes
        <2> QED BY <1>1, <2>1, <2>2
  <1> QED BY <1>3, <1>4, <1>5, <1>7, <1>8, <1>9, <1>10, <1>11, PushKeeps
          DEF HU!Next, HU!Loop, HU!Observer

-----------------------------------------------------------------------------
(* An observer who reads a market while it is published reads one           *)
(* publication, not older than the last that was complete, as long as it is *)
(* not published twice meanwhile; the rows an observer lists are whole and  *)
(* the ones their numbers say.  For any number of markets, of slots and of  *)
(* publications, and without a lock (the hubs of snapshots, the ring of     *)
(* refused orders).                                                         *)
THEOREM SpecHubsHold ==
  ASSUME HU!HubsAssumption
  PROVE  HU!Spec => []HU!HubsHold
  <1>1. HubTypes /\ HubInv /\ RingInv => HU!HubsHold
        <2> SUFFICES ASSUME HubTypes, HubInv, RingInv PROVE HU!HubsHold
            OBVIOUS
        <2>1. HU!TypeOK
              BY DEF HubTypes, HU!TypeOK
        <2>2. HU!OnePublicationRead
              <3>1. CASE reader.at = "read"
                    <4>1. reader.since \in Nat
                          BY <3>1, ReaderIs DEF HubReads, HubReaders
                    <4> QED BY <3>1, <4>1 DEF HubInv, ReadOne, Is, HU!OnePublicationRead, HU!Whole
              <3> QED BY <3>1 DEF HU!OnePublicationRead
        <2>3. HU!RowsAreTheirOwn
              <3>1. CASE reader.at = "listed"
                    <4>1. \A e \in reader.valid : e.gen \in Nat
                          BY <3>1, ReaderIs DEF ListReaders, ListedRows
                    <4>2. Completed \in Int /\ Completed <= write_idx_ /\ write_idx_ \in Int
                          BY DEF Completed, HubTypes
                    <4>3. \A e \in reader.valid :
                            Is(e.row, e.gen) /\ e.gen > reader.current - RingCap /\ e.gen <= Completed
                          BY <3>1 DEF RingInv, Listed
                    <4> QED BY <4>1, <4>2, <4>3 DEF Is, HU!RowsAreTheirOwn, HU!Whole
              <3> QED BY <3>1 DEF HU!RowsAreTheirOwn
        <2> QED BY <2>1, <2>2, <2>3 DEF HU!HubsHold
  <1>2. HU!Init => HubTypes /\ HubInv /\ RingInv
        BY HubTypesInit, HubInit, RowsInit
  <1>3. HubTypes /\ HubInv /\ RingInv /\ [HU!Next]_HU!vars => HubTypes' /\ HubInv' /\ RingInv'
        BY HubTypesNext, HubNext, RowsNext
  <1> QED BY <1>1, <1>2, <1>3, PTL DEF HU!Spec

-----------------------------------------------------------------------------
(* Side by side.  Each component follows its own specification, whichever   *)
(* of them the behaviour follows.                                           *)
LEMMA ReadsAreSpecs == ReadsSpec => BP!Spec /\ HU!Spec
  <1>1. ReadsInit => BP!Init /\ HU!Init
        BY DEF ReadsInit
  <1>2. [ReadsNext]_readsVars => [BP!Next]_BP!vars
        <2>1. ASSUME ReadsNext PROVE [BP!Next]_BP!vars
              <3>1. CASE readsPart = "poller" /\ BP!Next
                    BY <3>1
              <3>2. CASE UNCHANGED pollerVars
                    BY <3>2 DEF pollerVars, BP!vars
              <3> QED BY <2>1, <3>1, <3>2 DEF ReadsNext
        <2>2. ASSUME UNCHANGED readsVars PROVE UNCHANGED BP!vars
              BY <2>2 DEF readsVars, pollerVars, BP!vars
        <2> QED BY <2>1, <2>2
  <1>3. [ReadsNext]_readsVars => [HU!Next]_HU!vars
        <2>1. ASSUME ReadsNext PROVE [HU!Next]_HU!vars
              <3>1. CASE readsPart = "hubs" /\ HU!Next
                    BY <3>1
              <3>2. CASE UNCHANGED hubs
                    BY <3>2 DEF hubs, HU!vars
              <3> QED BY <2>1, <3>1, <3>2 DEF ReadsNext
        <2>2. ASSUME UNCHANGED readsVars PROVE UNCHANGED HU!vars
              BY <2>2 DEF readsVars, hubs, HU!vars
        <2> QED BY <2>1, <2>2
  <1> QED BY <1>1, <1>2, <1>3, PTL DEF ReadsSpec, BP!Spec, HU!Spec

(* The poller among what is read while others write: no token of the plan   *)
(* starves (RunActiveBookPoller).                                           *)
THEOREM ReadsNoStarvation == ReadsSpec => []NoStarvation
  <1>1. BP!NoStarvation => NoStarvation
        BY DEF NoStarvation
  <1> QED BY <1>1, ReadsAreSpecs, SpecNoStarvation, ReadsAssumption, PTL

(* The hubs among what is read while others write: an observer reads one    *)
(* publication, and rows that are whole and its own (SnapshotHub).          *)
THEOREM ReadsReadsHold == ReadsSpec => []ReadsHold
  <1>1. HU!HubsHold => ReadsHold
        BY DEF ReadsHold
  <1> QED BY <1>1, ReadsAreSpecs, SpecHubsHold, ReadsAssumption, PTL
=============================================================================
