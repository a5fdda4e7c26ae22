---------------------------- MODULE SystemProofs ----------------------------
(***************************************************************************)
(* Theorems about the components that have no module of proofs of their    *)
(* own, one section each: the settlement of a resolved market, the lock of *)
(* the process, the chain of the audit records, the scores, the life of    *)
(* the process, the log of the older ledger, the subscriptions, what a     *)
(* frame of the in-play feed is read as.  A section names the instance it  *)
(* is about, an inductive invariant, a lemma per action that can disturb   *)
(* it, and the theorems.  The last section puts them side by side, as they *)
(* are checked (Process, GameFeeds).                                       *)
(***************************************************************************)
EXTENDS Settlement, Process, GameFeeds, SumTheorems, SequenceTheorems

-----------------------------------------------------------------------------
(* Settlement.                                                              *)

(* What anybody knows of a resolution is what the exchange says.            *)
TrueOf(answers) == \A c \in Cond : answers[c] \in Outcomes => answers[c] = exchange[c]

(* What is known of a final score: the game is over.                        *)
OverIn(scores) == \A c \in Cond : scores[c] \in Verdicts => final[c] # "playing"

SettlementInv ==
  /\ TypeOK
  /\ TrueOf(store) /\ TrueOf(resolution) /\ TrueOf(frozen.resolution)
  /\ OverIn(frozen.final)
  /\ \A b \in booked : b.of \in Holdings
  /\ PaidByExchange

(* Nothing is known and nothing is booked.                                  *)
LEMMA SettlementInit == Init => SettlementInv
  <1> SUFFICES ASSUME Init PROVE SettlementInv
      OBVIOUS
  <1>1. Unknown \notin Outcomes /\ Unknown \notin Verdicts
        BY DEF Unknown, Outcomes, Verdicts
  <1>2. TypeOK
        BY DEF Init, TypeOK, Answers, Unknown
  <1>3. TrueOf(store) /\ TrueOf(resolution) /\ TrueOf(frozen.resolution) /\ OverIn(frozen.final)
        BY <1>1 DEF Init, TrueOf, OverIn, NoInputs
  <1> QED BY <1>2, <1>3 DEF Init, SettlementInv, PaidByExchange

(* The exchange does not take a verdict back and a game that is over does   *)
(* not start again, so what was known and booked stays true.                *)
LEMMA WorldKeeps == SettlementInv /\ World => SettlementInv'
  <1> SUFFICES ASSUME SettlementInv, World PROVE SettlementInv'
      OBVIOUS
  <1>1. /\ exchange \in [Cond -> Answers] /\ final \in [Cond -> {"playing", "stale"} \cup Verdicts]
        /\ Winners \subseteq Outcomes /\ Scores \subseteq Verdicts
        BY SettlementAssumption DEF SettlementInv, TypeOK, Outcomes, Verdicts
  <1>2. /\ exchange' \in [Cond -> Answers]
        /\ final' \in [Cond -> {"playing", "stale"} \cup Verdicts]
        /\ \A c \in Cond : exchange[c] \in Outcomes => exchange'[c] = exchange[c]
        /\ \A c \in Cond : final[c] # "playing" => final'[c] # "playing"
        <2>1. ASSUME NEW c \in Cond, NEW w \in Winners, Resolve(c, w)
              PROVE  /\ exchange' \in [Cond -> Answers] /\ final' = final
                     /\ \A d \in Cond : exchange[d] \in Outcomes => exchange'[d] = exchange[d]
              BY <1>1, <2>1 DEF Resolve, Answers, Outcomes
        <2>2. ASSUME NEW c \in Cond, CloseOnly(c)
              PROVE  /\ exchange' \in [Cond -> Answers] /\ final' = final
                     /\ \A d \in Cond : exchange[d] \in Outcomes => exchange'[d] = exchange[d]
              BY <1>1, <2>2 DEF CloseOnly, Answers, Outcomes
        <2>3. ASSUME NEW c \in Cond, NEW v \in Scores, FullTime(c, v)
              PROVE  /\ exchange' = exchange /\ final' \in [Cond -> {"playing", "stale"} \cup Verdicts]
                     /\ \A d \in Cond : final[d] # "playing" => final'[d] # "playing"
              BY <1>1, <2>3 DEF FullTime
        <2>4. ASSUME NEW c \in Cond, ScoreAges(c)
              PROVE  /\ exchange' = exchange /\ final' \in [Cond -> {"playing", "stale"} \cup Verdicts]
                     /\ \A d \in Cond : final[d] # "playing" => final'[d] # "playing"
              BY <1>1, <2>4 DEF ScoreAges
        <2> QED BY <1>1, <2>1, <2>2, <2>3, <2>4 DEF World
  <1>3. UNCHANGED <<catalog, pending, has_pending, cids, store, resolution, frozen, todo, held,
                    settled, snapshot, booked>>
        BY DEF World, Resolve, CloseOnly, FullTime, ScoreAges, asked, poller, loop
  <1>4. TypeOK'
        BY <1>2, <1>3 DEF SettlementInv, TypeOK
  <1>5. TrueOf(store)' /\ TrueOf(resolution)' /\ TrueOf(frozen.resolution)'
        BY <1>2, <1>3 DEF SettlementInv, TrueOf
  <1>6. OverIn(frozen.final)'
        BY <1>2, <1>3 DEF SettlementInv, OverIn
  <1>7. PaidByExchange'
        <2> SUFFICES ASSUME NEW b \in booked
                     PROVE  \/ b.by = "exchange" /\ exchange'[b.of[1]] \in Outcomes
                               /\ b.price = Pay(exchange'[b.of[1]], b.of[2])
                            \/ b.by = "score" /\ final'[b.of[1]] # "playing"
            BY <1>3 DEF PaidByExchange, Resolved
        <2>1. b.of[1] \in Cond
              BY DEF SettlementInv, Holdings
        <2>2. \/ b.by = "exchange" /\ exchange[b.of[1]] \in Outcomes
                 /\ b.price = Pay(exchange[b.of[1]], b.of[2])
              \/ b.by = "score" /\ final[b.of[1]] # "playing"
              BY DEF SettlementInv, PaidByExchange, Resolved
        <2> QED BY <1>2, <2>1, <2>2
  <1> QED BY <1>3, <1>4, <1>5, <1>6, <1>7 DEF SettlementInv

(* What is settled in a tick is booked at the exchange's price when the     *)
(* frozen answers hold its verdict, and on a score of a game that is over   *)
(* otherwise.                                                               *)
LEMMA SettlePays ==
  ASSUME SettlementInv, UNCHANGED world,
         NEW H \in SUBSET Holdings, \A h \in H : Ruled(h[1]) \/ Ended(h[1]), SettleTokens(H)
  PROVE  (\A b \in booked' : b.of \in Holdings) /\ PaidByExchange'
  <1>1. ASSUME NEW h \in H, NEW b,
               b = [of |-> h, price |-> Pay(Verdict(h[1]), h[2]), by |-> SettleBy(h[1])]
        PROVE  /\ b.of \in Holdings
               /\ \/ b.by = "exchange" /\ Resolved(b.of[1]) /\ b.price = Pay(exchange[b.of[1]], b.of[2])
                  \/ b.by = "score" /\ final[b.of[1]] # "playing"
        <2>1. h[1] \in Cond /\ b.of = h
              BY <1>1 DEF Holdings
        <2>2. CASE Ruled(h[1])
              <3>1. exchange[h[1]] = frozen.resolution[h[1]] /\ Resolved(h[1])
                    BY <2>1, <2>2 DEF SettlementInv, TrueOf, Ruled, Resolved
              <3> QED BY <1>1, <2>1, <2>2, <3>1 DEF Verdict, SettleBy
        <2>3. CASE ~Ruled(h[1]) /\ Ended(h[1])
              <3>1. final[h[1]] # "playing"
                    BY <2>1, <2>3 DEF SettlementInv, OverIn, Ended
              <3> QED BY <1>1, <2>1, <2>3, <3>1 DEF SettleBy
        <2> QED BY <2>1, <2>2, <2>3
  <1>2. booked' = booked \cup
          {[of |-> h, price |-> Pay(Verdict(h[1]), h[2]), by |-> SettleBy(h[1])] : h \in H}
        BY DEF SettleTokens
  <1>3. exchange' = exchange /\ final' = final
        BY DEF world
  <1>4. \A b \in booked' :
          /\ b.of \in Holdings
          /\ \/ b.by = "exchange" /\ Resolved(b.of[1]) /\ b.price = Pay(exchange[b.of[1]], b.of[2])
             \/ b.by = "score" /\ final[b.of[1]] # "playing"
        BY <1>1, <1>2 DEF SettlementInv, PaidByExchange
  <1> QED BY <1>3, <1>4 DEF PaidByExchange, Resolved

(* The poller publishes what the exchange says or what it knew, and the     *)
(* refresh hands on what was published.                                     *)
LEMMA DaemonKeeps == SettlementInv /\ Daemon => SettlementInv'
  <1> SUFFICES ASSUME SettlementInv, Daemon PROVE SettlementInv'
      OBVIOUS
  <1>1. UNCHANGED <<exchange, final, frozen, todo, held, settled, snapshot, booked>>
        BY DEF Daemon, RediscoverOnce, SetConditionIds, PollAllOnce, RefreshResolution, world, loop
  <1>2. TrueOf(frozen.resolution)' /\ OverIn(frozen.final)' /\ PaidByExchange'
        /\ \A b \in booked' : b.of \in Holdings
        BY <1>1 DEF SettlementInv, TrueOf, OverIn, PaidByExchange, Resolved
  <1>3. /\ exchange \in [Cond -> Answers] /\ store \in [Cond -> {Unknown} \cup Answers]
        /\ resolution \in [Cond -> {Unknown} \cup Answers] /\ Unknown \notin Outcomes
        BY DEF SettlementInv, TypeOK, Unknown, Outcomes
  <1>4. ASSUME NEW c \in Cond, RediscoverOnce(c) PROVE SettlementInv'
        <2>1. TypeOK'
              BY <1>1, <1>4 DEF SettlementInv, TypeOK, RediscoverOnce, poller
        <2>2. TrueOf(store)' /\ TrueOf(resolution)'
              BY <1>1, <1>4 DEF SettlementInv, TrueOf, RediscoverOnce, poller
        <2> QED BY <1>2, <2>1, <2>2 DEF SettlementInv
  <1>5. CASE SetConditionIds
        <2>1. HeldConditions \subseteq Cond
              BY DEF SettlementInv, TypeOK, HeldConditions, Holdings
        <2>2. TypeOK'
              BY <1>1, <1>5, <2>1 DEF SettlementInv, TypeOK, SetConditionIds, poller
        <2>3. TrueOf(store)' /\ TrueOf(resolution)'
              BY <1>1, <1>5 DEF SettlementInv, TrueOf, SetConditionIds, poller
        <2> QED BY <1>2, <2>2, <2>3 DEF SettlementInv
  <1>6. ASSUME NEW answered \in SUBSET Cond, PollAllOnce(answered) PROVE SettlementInv'
        <2>1. \A c \in Cond : store'[c] \in {store[c], Unknown, exchange[c]}
              BY <1>6 DEF PollAllOnce, ParseMarketJson, Kept
        <2>2. store' \in [Cond -> {Unknown} \cup Answers]
              <3>1. store' = [c \in Cond |-> store'[c]]
                    BY <1>6 DEF PollAllOnce
              <3>2. \A c \in Cond : store'[c] \in {Unknown} \cup Answers
                    BY <1>3, <2>1
              <3> QED BY <3>1, <3>2
        <2>3. TrueOf(store)'
              BY <1>1, <1>3, <2>1 DEF SettlementInv, TrueOf
        <2>4. resolution' = resolution /\ catalog' = catalog /\ cids' = Asked
              /\ pending' = {} /\ has_pending' = FALSE
              BY <1>6 DEF PollAllOnce
        <2>5. TypeOK'
              BY <1>1, <2>2, <2>4 DEF SettlementInv, TypeOK, Asked
        <2> QED BY <1>1, <1>2, <2>3, <2>4, <2>5 DEF SettlementInv, TrueOf
  <1>7. CASE RefreshResolution
        <2>1. resolution' = store /\ UNCHANGED <<catalog, asked, poller>>
              BY <1>7 DEF RefreshResolution
        <2>2. TypeOK'
              BY <1>1, <2>1 DEF SettlementInv, TypeOK, asked, poller
        <2>3. TrueOf(store)' /\ TrueOf(resolution)'
              BY <1>1, <2>1 DEF SettlementInv, TrueOf, poller
        <2> QED BY <1>2, <2>2, <2>3 DEF SettlementInv
  <1> QED BY <1>4, <1>5, <1>6, <1>7 DEF Daemon

(* A tick freezes what is known and books by what it froze.                 *)
LEMMA LoopKeeps == SettlementInv /\ Loop => SettlementInv'
  <1> SUFFICES ASSUME SettlementInv, Loop PROVE SettlementInv'
      OBVIOUS
  <1>1. UNCHANGED <<exchange, final, world, catalog, pending, has_pending, cids, store, resolution>>
        BY DEF Loop, RecoverMissedFill, TickBegin, Tick, SkipUnpriced, TrySettleResolved, Decide,
               SettleOrphans,
               world, asked, poller
  <1>2. TrueOf(store)' /\ TrueOf(resolution)'
        BY <1>1 DEF SettlementInv, TrueOf
  <1>3. /\ held \subseteq Holdings /\ todo \subseteq Cond /\ snapshot \subseteq Holdings
        /\ settled \subseteq Cond /\ catalog \subseteq Cond
        BY DEF SettlementInv, TypeOK
  <1>4. ASSUME /\ held' \subseteq Holdings /\ todo' \subseteq Cond /\ snapshot' \subseteq Holdings
               /\ settled' \subseteq Cond
        PROVE  TypeOK'
        BY <1>1, <1>4 DEF SettlementInv, TypeOK
  <1>5. ASSUME frozen' = frozen PROVE TrueOf(frozen.resolution)' /\ OverIn(frozen.final)'
        BY <1>1, <1>5 DEF SettlementInv, TrueOf, OverIn
  <1>6. ASSUME booked' = booked PROVE PaidByExchange' /\ \A b \in booked' : b.of \in Holdings
        BY <1>1, <1>6 DEF SettlementInv, PaidByExchange, Resolved
  <1>7. ASSUME NEW h \in Holdings, RecoverMissedFill(h) PROVE SettlementInv'
        <2>1. /\ held' = held \cup {h}
              /\ UNCHANGED <<frozen, todo, settled, snapshot, booked>>
              BY <1>7 DEF RecoverMissedFill, Open
        <2> QED BY <2>1, <1>2, <1>3, <1>4, <1>5, <1>6 DEF SettlementInv
  <1>8. ASSUME NEW save \in BOOLEAN, TickBegin(save) PROVE SettlementInv'
        <2>1. /\ frozen' = [catalog |-> catalog, resolution |-> resolution, final |-> final]
              /\ todo' = catalog /\ snapshot' \in {held, snapshot}
              /\ UNCHANGED <<held, settled, booked>>
              BY <1>8 DEF TickBegin
        <2>2. TrueOf(frozen.resolution)'
              BY <1>1, <2>1 DEF SettlementInv, TrueOf
        <2>3. OverIn(frozen.final)'
              BY <1>1, <2>1 DEF OverIn, Verdicts, Outcomes
        <2>4. TypeOK'
              BY <2>1, <1>3, <1>4
        <2> QED BY <2>1, <2>2, <2>3, <2>4, <1>2, <1>6 DEF SettlementInv
  <1>12. ASSUME NEW c \in Cond, SkipUnpriced(c) PROVE SettlementInv'
        <2>1. /\ todo' = todo \ {c}
              /\ UNCHANGED <<frozen, held, settled, snapshot, booked>>
              BY <1>12 DEF SkipUnpriced
        <2> QED BY <2>1, <1>2, <1>3, <1>4, <1>5, <1>6 DEF SettlementInv
  <1>9. ASSUME NEW c \in Cond, TrySettleResolved(c) PROVE SettlementInv'
        <2>1. frozen' = frozen /\ todo' = todo \ {c} /\ snapshot' = snapshot
              /\ (Ruled(c) \/ Ended(c))
              BY <1>9 DEF TrySettleResolved
        <2>2. CASE c \in settled
              <3>1. UNCHANGED <<held, booked, settled>>
                    BY <1>9, <2>2 DEF TrySettleResolved
              <3> QED BY <2>1, <3>1, <1>2, <1>3, <1>4, <1>5, <1>6 DEF SettlementInv
        <2>3. CASE c \notin settled
              <3> DEFINE H == held \cap ({c} \X Outcomes)
              <3>1. SettleTokens(H) /\ settled' = settled \cup {c} /\ held' = held \ H
                    BY <1>9, <2>3 DEF TrySettleResolved, SettleTokens
              <3>2. H \in SUBSET Holdings /\ \A h \in H : h[1] = c
                    BY <1>3
              <3>3. \A h \in H : Ruled(h[1]) \/ Ended(h[1])
                    BY <2>1, <3>2
              <3>4. (\A b \in booked' : b.of \in Holdings) /\ PaidByExchange'
                    <4> HIDE DEF H
                    <4> QED BY <3>1, <3>2, <3>3, <1>1, SettlePays
              <3>5. TypeOK'
                    BY <2>1, <3>1, <1>3, <1>4
              <3> QED BY <2>1, <3>4, <3>5, <1>2, <1>5 DEF SettlementInv
        <2> QED BY <2>2, <2>3
  <1>10. ASSUME NEW c \in Cond, Decide(c) PROVE SettlementInv'
        <2>1. frozen' = frozen /\ todo' = todo \ {c} /\ UNCHANGED <<snapshot, settled, booked>>
              BY <1>10 DEF Decide
        <2>2. held' \subseteq Holdings
              BY <1>3, <1>10 DEF Decide, Open, Holdings
        <2> QED BY <2>1, <2>2, <1>2, <1>3, <1>4, <1>5, <1>6 DEF SettlementInv
  <1>11. CASE SettleOrphans
        <2>1. /\ SettleTokens(Orphans) /\ held' = held \ Orphans
              /\ frozen' = NoInputs /\ UNCHANGED <<todo, settled, snapshot>>
              BY <1>11 DEF SettleOrphans, SettleTokens
        <2>2. Orphans \in SUBSET Holdings /\ \A h \in Orphans : Ruled(h[1]) \/ Ended(h[1])
              BY <1>3 DEF Orphans
        <2>3. (\A b \in booked' : b.of \in Holdings) /\ PaidByExchange'
              BY <2>1, <2>2, <1>1, SettlePays
        <2>4. TrueOf(frozen.resolution)' /\ OverIn(frozen.final)'
              BY <2>1 DEF NoInputs, TrueOf, OverIn, Unknown, Outcomes, Verdicts
        <2>5. TypeOK'
              BY <2>1, <1>3, <1>4
        <2> QED BY <2>3, <2>4, <2>5, <1>2 DEF SettlementInv
  <1> QED BY <1>7, <1>8, <1>9, <1>10, <1>11, <1>12 DEF Loop, Tick

(* Every step keeps what is known true and what is booked paid; a crash     *)
(* forgets, and a restart knows nothing.                                    *)
LEMMA SettlementNext == SettlementInv /\ [Next]_vars => SettlementInv'
  <1> SUFFICES ASSUME SettlementInv, [Next]_vars PROVE SettlementInv'
      OBVIOUS
  <1>1. CASE World
        BY <1>1, WorldKeeps
  <1>2. CASE Daemon
        BY <1>2, DaemonKeeps
  <1>3. CASE Loop
        BY <1>3, LoopKeeps
  <1>4. CASE Crash
        <2>1. /\ UNCHANGED <<exchange, final, catalog, pending, has_pending, cids, store, resolution,
                             held, settled, snapshot, booked>>
              /\ frozen' = NoInputs /\ todo' = {}
              BY <1>4 DEF Crash, world, asked, poller
        <2>2. TypeOK'
              BY <2>1 DEF SettlementInv, TypeOK
        <2>3. TrueOf(store)' /\ TrueOf(resolution)' /\ TrueOf(frozen.resolution)' /\ OverIn(frozen.final)'
              BY <2>1 DEF SettlementInv, TrueOf, OverIn, NoInputs, Unknown, Outcomes, Verdicts
        <2> QED BY <2>1, <2>2, <2>3 DEF SettlementInv, PaidByExchange, Resolved
  <1>5. CASE RestoreLedgerSnapshot
        <2>1. /\ UNCHANGED <<exchange, final, frozen, todo, snapshot, booked>>
              /\ held' = snapshot /\ settled' = {} /\ catalog' \subseteq Cond /\ cids' = catalog'
              /\ pending' = {} /\ has_pending' = FALSE
              /\ store' = [c \in Cond |-> Unknown] /\ resolution' = store'
              BY <1>5 DEF RestoreLedgerSnapshot, world
        <2>2. TypeOK'
              BY <2>1 DEF SettlementInv, TypeOK
        <2>3. TrueOf(store)' /\ TrueOf(resolution)' /\ TrueOf(frozen.resolution)' /\ OverIn(frozen.final)'
              BY <2>1 DEF SettlementInv, TrueOf, OverIn, Unknown, Outcomes
        <2> QED BY <2>1, <2>2, <2>3 DEF SettlementInv, PaidByExchange, Resolved
  <1>6. CASE UNCHANGED vars
        <2>1. TypeOK'
              BY <1>6 DEF SettlementInv, TypeOK, vars
        <2> QED BY <1>6, <2>1 DEF SettlementInv, TrueOf, OverIn, PaidByExchange, Resolved, vars
  <1> QED BY <1>1, <1>2, <1>3, <1>4, <1>5, <1>6 DEF Next

(* Whatever is booked by the exchange's verdict is paid what the exchange   *)
(* pays, and whatever is booked by a score was booked after the game, for   *)
(* any number of conditions, positions and crashes (TrySettleResolved and   *)
(* the orphan sweep of TickAll, PollAllOnce, RefreshResolution).            *)
THEOREM SpecPaidByExchange == Spec => []PaidByExchange
  <1>1. SettlementInv => PaidByExchange
        BY DEF SettlementInv
  <1> QED BY <1>1, SettlementInit, SettlementNext, PTL DEF Spec

-----------------------------------------------------------------------------
(* The lock of the process. The mains install a handler that only asks the  *)
(* loop to stop, so nobody removes the path of the pid file.                *)

(* The lock is on a file and the promise is about a path: every descriptor  *)
(* is of the file the path names, and who runs holds its lock.              *)
LockInv ==
  /\ SI!TypeOK
  /\ \A p \in Procs : st[p] \in {"open", "retry", "run"} => fd[p] # SI!None
  /\ \A p \in Procs : fd[p] # SI!None => fd[p] = path
  /\ \A p \in Procs : st[p] = "run" => locked[fd[p]] = p

(* No process has started.                                                  *)
LEMMA LockInit == SI!LockAssumption /\ SI!Init => LockInv
  BY DEF SI!LockAssumption, SI!Init, LockInv, SI!TypeOK, SI!None, SI!Files, SI!Owners

(* The first to open the path makes the file; the path then keeps it.       *)
LEMMA OpenKeeps ==
  ASSUME SI!LockAssumption, LockInv, NEW p \in Procs, SI!Open(p)
  PROVE  LockInv'
  <1> DEFINE f == IF path = SI!None THEN made + 1 ELSE path
  <1>1. f \in SI!Files /\ f # SI!None /\ (path # SI!None => f = path) /\ path' = f
        BY DEF SI!Open, LockInv, SI!TypeOK, SI!Files, SI!None, SI!LockAssumption
  <1>2. fd' = [fd EXCEPT ![p] = f] /\ st' = [st EXCEPT ![p] = "open"]
        /\ UNCHANGED <<locked, left>> /\ made' \in 0..MaxFiles
        BY DEF SI!Open, LockInv, SI!TypeOK, SI!Files, SI!None, SI!LockAssumption
  <1> HIDE DEF f
  <1>3. SI!TypeOK'
        BY <1>1, <1>2 DEF LockInv, SI!TypeOK
  <1> QED BY <1>1, <1>2, <1>3 DEF LockInv, SI!TypeOK

(* A lock is taken from nobody.                                             *)
LEMMA TakeKeeps ==
  ASSUME SI!LockAssumption, LockInv, NEW p \in Procs, SI!Lock(p)
  PROVE  LockInv'
  <1>1. fd[p] \in SI!Files /\ locked[fd[p]] = "free" /\ locked' = [locked EXCEPT ![fd[p]] = p]
        /\ st' = [st EXCEPT ![p] = "run"] /\ UNCHANGED <<path, made, fd, left>>
        /\ fd[p] # SI!None
        BY DEF SI!Lock, LockInv, SI!TypeOK
  <1>2. SI!TypeOK'
        BY <1>1 DEF LockInv, SI!TypeOK, SI!Owners
  <1>3. ASSUME NEW q \in Procs, st'[q] = "run" PROVE locked'[fd'[q]] = q
        <2>1. CASE q = p
              BY <1>1, <2>1 DEF LockInv, SI!TypeOK
        <2>2. CASE q # p
              <3>1. st[q] = "run" /\ locked[fd[q]] = q /\ fd[q] \in SI!Files
                    BY <1>1, <1>3, <2>2 DEF LockInv, SI!TypeOK
              <3>2. fd[q] # fd[p]
                    BY <1>1, <3>1 DEF SI!LockAssumption
              <3> QED BY <1>1, <3>1, <3>2 DEF LockInv, SI!TypeOK
        <2> QED BY <2>1, <2>2
  <1> QED BY <1>1, <1>2, <1>3 DEF LockInv, SI!TypeOK

(* Who ends takes only its own locks and descriptors with it.               *)
LEMMA EndKeeps ==
  ASSUME SI!LockAssumption, LockInv, NEW p \in Procs, SI!End(p)
  PROVE  LockInv'
  <1>1. locked' \in [SI!Files -> SI!Owners]
        /\ \A f \in SI!Files : locked[f] # p => locked'[f] = locked[f]
        BY DEF SI!End, SI!Dropped, LockInv, SI!TypeOK, SI!Owners
  <1>2. st' = [st EXCEPT ![p] = "ended"] /\ fd' = [fd EXCEPT ![p] = SI!None]
        /\ UNCHANGED <<path, made, left>>
        BY DEF SI!End
  <1>3. SI!TypeOK'
        BY <1>1, <1>2 DEF LockInv, SI!TypeOK
  <1>4. ASSUME NEW q \in Procs, st'[q] = "run"
        PROVE  locked'[fd'[q]] = q
        <2>1. q # p /\ st[q] = "run" /\ fd[q] \in SI!Files /\ locked[fd[q]] = q /\ fd'[q] = fd[q]
              BY <1>2, <1>4 DEF LockInv, SI!TypeOK
        <2> QED BY <1>1, <2>1
  <1> QED BY <1>2, <1>3, <1>4 DEF LockInv, SI!TypeOK

(* Every step, one case per action; Unlink needs the handler nobody         *)
(* installs.                                                                *)
LEMMA LockNext == SI!LockAssumption /\ LockInv /\ [SI!Next]_SI!vars => LockInv'
  <1> SUFFICES ASSUME SI!LockAssumption, LockInv, [SI!Next]_SI!vars PROVE LockInv'
      OBVIOUS
  <1>1. ASSUME NEW p \in Procs, SI!TryLater(p) PROVE LockInv'
        <2>1. SI!TypeOK'
              BY <1>1 DEF SI!TryLater, LockInv, SI!TypeOK, SI!LockAssumption
        <2> QED BY <1>1, <2>1 DEF SI!TryLater, LockInv, SI!TypeOK
  <1>2. ASSUME NEW p \in Procs, SI!Refuse(p) PROVE LockInv'
        <2>1. SI!TypeOK'
              BY <1>2 DEF SI!Refuse, LockInv, SI!TypeOK
        <2> QED BY <1>2, <2>1 DEF SI!Refuse, LockInv, SI!TypeOK
  <1>3. CASE UNCHANGED SI!vars
        BY <1>3 DEF SI!vars, LockInv, SI!TypeOK
  <1> QED BY <1>1, <1>2, <1>3, OpenKeeps, TakeKeeps, EndKeeps
          DEF SI!Next, SI!Step, SI!Unlink

(* Two processes never run as the engine at once, however many are started, *)
(* retry and die (SingleInstanceLock::acquire_ of infra/process).           *)
THEOREM SpecOneEngine ==
  ASSUME SI!LockAssumption
  PROVE  SI!Spec => []SI!OneEngine
  <1>1. LockInv => SI!OneEngine
        BY DEF LockInv, SI!OneEngine
  <1>2. LockInv /\ [SI!Next]_SI!vars => LockInv'
        BY LockNext
  <1> QED BY <1>1, <1>2, LockInit, PTL DEF SI!Spec

-----------------------------------------------------------------------------
(* The audit records.                                                       *)

(* What the record of number n commits to.                                  *)
Upto(n) == [i \in 1..n |-> i]

(* The next number is appended.                                             *)
LEMMA UptoNext ==
  ASSUME NEW n \in Nat
  PROVE  Append(Upto(n), n + 1) = Upto(n + 1)
  <1>1. Upto(n) \in Seq(Nat) /\ Len(Upto(n)) = n
        BY DEF Upto
  <1> QED BY <1>1 DEF Upto

(* A place that was taken: a record that is not Idle.                       *)
LEMMA TakenIs ==
  ASSUME NEW prev, NEW n, NEW o, NEW in
  PROVE  LET s == AU!ChainStep(prev, n, o, in)
         IN  s.origin = o /\ s.seq = n /\ s.current_hash = Append(prev, n)
  BY DEF AU!ChainStep

(* A record that is being written is not the one of an idle emitter.       *)
LEMMA TakenIsNotIdle ==
  ASSUME NEW prev, NEW n, NEW o, NEW in
  PROVE  AU!ChainStep(prev, n, o, in) # AU!Idle
  BY DEF AU!ChainStep, AU!Idle

(* Fewer than all places of a ring lie on different places.                 *)
LEMMA RingIndex ==
  ASSUME NEW a \in Nat, NEW b \in Nat, NEW c \in Nat \ {0}, a < b, b - a < c
  PROVE  a % c # b % c
  <1>1. a = c * (a \div c) + (a % c) /\ b = c * (b \div c) + (b % c)
        OBVIOUS
  <1>2. a \div c \in Nat /\ b \div c \in Nat /\ a % c \in Nat /\ b % c \in Nat
        OBVIOUS
  <1>3. ASSUME a % c = b % c PROVE FALSE
        <2> DEFINE d == (b \div c) - (a \div c)
        <2>1. d \in Int /\ c * d = b - a
              BY <1>1, <1>2, <1>3
        <2>2. d <= 0 => c * d <= 0
              BY <2>1
        <2>3. d >= 1 => c * d >= c
              BY <2>1
        <2> HIDE DEF d
        <2> QED BY <2>1, <2>2, <2>3
  <1> QED BY <1>3

(* What a log holds, and what a thread holds between the two steps.         *)
Hashes == {Upto(n) : n \in Nat}
Entries == {r \in [seq : Nat, prev_hash : Hashes, current_hash : Hashes] :
              r.current_hash = Upto(r.seq)}
Places == {s \in [origin : Origins, seq : Nat, prev_hash : Hashes, current_hash : Hashes,
                  ok : BOOLEAN] : s.current_hash = Upto(s.seq)}

(* The numbers that are in the logs, and those a thread is on its way with. *)
Written(logs) == {n \in Nat : \E o \in Origins : \E i \in DOMAIN logs[o] : logs[o][i].seq = n}
Taken(places) == {n \in Nat : \E t \in Emitters : places[t] # AU!Idle /\ places[t].seq = n}

(* The place of the last records in the ring.                               *)
RingHas(snaps, last) ==
  /\ DOMAIN snaps = 0..(kGlobalSnapCap - 1)
  /\ \A i \in DOMAIN snaps : snaps[i] \in 0..last
  /\ \A n \in 1..last : n + kGlobalSnapCap > last => snaps[(n - 1) % kGlobalSnapCap] = n

(* The head of the chain commits to every number given out; each number is  *)
(* in one place: on its way in one thread, in one record of one log, or     *)
(* among those whose write failed.                                          *)
ChainInv ==
  /\ global_seq_ \in Nat /\ shared_last_hash_ = Upto(global_seq_)
  /\ wal \in [Origins -> Seq(Entries)]
  /\ step \in [Emitters -> {AU!Idle} \cup Places]
  /\ Written(wal) \cup Taken(step) \cup missing = 1..global_seq_
  /\ \A t, u \in Emitters : step[t] # AU!Idle /\ step[u] # AU!Idle /\ step[t].seq = step[u].seq => t = u
  /\ Written(wal) \cap Taken(step) = {}
  /\ \A o, p \in Origins : \A i \in DOMAIN wal[o], j \in DOMAIN wal[p] :
       wal[o][i].seq = wal[p][j].seq => o = p /\ i = j
  /\ RingHas(global_snaps_, global_seq_)

(* No number is given out.                                                  *)
LEMMA ChainInit == AU!AuditAssumption /\ AU!Init => ChainInv
  <1> SUFFICES ASSUME AU!AuditAssumption, AU!Init PROVE ChainInv
      OBVIOUS
  <1>1. wal \in [Origins -> Seq(Entries)] /\ \A o \in Origins : DOMAIN wal[o] = {}
        BY DEF AU!Init
  <1>2. Written(wal) = {} /\ Taken(step) = {} /\ missing = {} /\ global_seq_ = 0
        BY <1>1 DEF AU!Init, Written, Taken
  <1>3. shared_last_hash_ = Upto(0)
        BY DEF AU!Init, AU!Genesis, Upto
  <1>4. RingHas(global_snaps_, global_seq_)
        BY DEF AU!Init, RingHas, AU!AuditAssumption
  <1>5. step \in [Emitters -> {AU!Idle} \cup Places] /\ \A t \in Emitters : step[t] = AU!Idle
        BY DEF AU!Init
  <1> QED BY <1>1, <1>2, <1>3, <1>4, <1>5 DEF ChainInv

(* The next number goes into the ring.                                      *)
LEMMA RingNext ==
  ASSUME AU!AuditAssumption, NEW snaps, NEW last \in Nat, RingHas(snaps, last)
  PROVE  RingHas([snaps EXCEPT ![last % kGlobalSnapCap] = last + 1], last + 1)
  <1> DEFINE new == [snaps EXCEPT ![last % kGlobalSnapCap] = last + 1]
  <1>1. kGlobalSnapCap \in Nat \ {0} /\ last % kGlobalSnapCap \in 0..(kGlobalSnapCap - 1)
        BY DEF AU!AuditAssumption
  <1>2. /\ DOMAIN new = 0..(kGlobalSnapCap - 1) /\ new[last % kGlobalSnapCap] = last + 1
        /\ \A i \in DOMAIN new : i # last % kGlobalSnapCap => new[i] = snaps[i] /\ snaps[i] \in 0..last
        BY <1>1 DEF RingHas
  <1>3. ASSUME NEW n \in 1..(last + 1), n + kGlobalSnapCap > last + 1
        PROVE  new[(n - 1) % kGlobalSnapCap] = n
        <2>1. CASE n = last + 1
              BY <1>2, <2>1
        <2>2. CASE n # last + 1
              <3>1. n \in 1..last /\ n - 1 \in Nat /\ n - 1 < last /\ last - (n - 1) < kGlobalSnapCap
                    BY <1>1, <1>3, <2>2
              <3>2. (n - 1) % kGlobalSnapCap # last % kGlobalSnapCap
                    BY <1>1, <3>1, RingIndex
              <3>3. (n - 1) % kGlobalSnapCap \in 0..(kGlobalSnapCap - 1)
                    BY <1>1, <3>1
              <3>4. snaps[(n - 1) % kGlobalSnapCap] = n
                    BY <1>1, <3>1 DEF RingHas
              <3> HIDE DEF new
              <3> QED BY <1>2, <3>2, <3>3, <3>4
        <2> QED BY <2>1, <2>2
  <1>4. \A i \in DOMAIN new : new[i] \in 0..(last + 1)
        <2> HIDE DEF new
        <2> QED BY <1>2
  <1> HIDE DEF new
  <1>5. RingHas(new, last + 1)
        BY <1>2, <1>3, <1>4 DEF RingHas
  <1> QED BY <1>5 DEF new

(* A place is taken: its number is new.                                     *)
LEMMA EmitKeeps ==
  ASSUME AU!AuditAssumption, ChainInv, NEW t \in Emitters, NEW o \in Origins,
         NEW kind \in AU!Kinds, NEW in \in AU!Inputs, AU!Emit(t, o, kind, in)
  PROVE  ChainInv'
  <1> DEFINE n == global_seq_ + 1
             s == AU!ChainStep(shared_last_hash_, n, o, in)
  <1>1. /\ step[t] = AU!Idle /\ global_seq_' = n /\ n \in Nat /\ global_seq_ \in Nat
        /\ step' = [step EXCEPT ![t] = s] /\ shared_last_hash_' = s.current_hash
        /\ global_snaps_' = [global_snaps_ EXCEPT ![global_seq_ % kGlobalSnapCap] = n]
        /\ UNCHANGED <<wal, missing>>
        BY DEF AU!Emit, ChainInv
  <1>2. s.seq = n /\ s.current_hash = Upto(n) /\ s # AU!Idle
        <2>1. s.seq = n /\ s.current_hash = Append(shared_last_hash_, n) /\ s # AU!Idle
              BY TakenIs, TakenIsNotIdle
        <2>2. Append(Upto(global_seq_), n) = Upto(n) /\ shared_last_hash_ = Upto(global_seq_)
              BY <1>1, UptoNext DEF ChainInv
        <2> QED BY <2>1, <2>2
  <1>3. s \in Places
        <2>1. in.ts_chain_ok \in BOOLEAN /\ shared_last_hash_ \in Hashes /\ Upto(n) \in Hashes
              BY <1>1 DEF AU!Inputs, ChainInv, Hashes
        <2>2. s = [origin |-> o, seq |-> n, prev_hash |-> shared_last_hash_, current_hash |-> Upto(n),
                   ok |-> in.ts_chain_ok]
              BY <1>2 DEF AU!ChainStep
        <2> QED BY <1>1, <2>1, <2>2 DEF Places
  <1> HIDE DEF s
  <1>4. /\ step' \in [Emitters -> {AU!Idle} \cup Places] /\ step'[t] = s
        /\ \A u \in Emitters : u # t => step'[u] = step[u]
        BY <1>1, <1>3 DEF ChainInv
  <1>5. Taken(step') = Taken(step) \cup {n}
        BY <1>1, <1>2, <1>4 DEF Taken
  <1>6. n \notin Written(wal) \cup Taken(step) /\ 1..n = (1..global_seq_) \cup {n}
        BY <1>1 DEF ChainInv
  <1>7. \A u \in Emitters : step[u] # AU!Idle => step[u].seq \in Taken(step)
        BY DEF Taken, ChainInv, Places
  <1>8. RingHas(global_snaps_', n)
        BY <1>1, RingNext DEF ChainInv
  <1>9. \A u, v \in Emitters : step'[u] # AU!Idle /\ step'[v] # AU!Idle /\ step'[u].seq = step'[v].seq
                               => u = v
        BY <1>2, <1>4, <1>6, <1>7 DEF ChainInv
  <1>10. /\ Written(wal) \cup Taken(step') \cup missing = 1..n
         /\ Written(wal) \cap Taken(step') = {}
        <2> HIDE DEF n
        <2> QED BY <1>5, <1>6 DEF ChainInv
  <1>11. shared_last_hash_' = Upto(n) /\ wal' = wal /\ missing' = missing /\ Written(wal') = Written(wal)
        BY <1>1, <1>2
  <1>12. \A p, q \in Origins : \A i \in DOMAIN wal'[p], j \in DOMAIN wal'[q] :
           wal'[p][i].seq = wal'[q][j].seq => p = q /\ i = j
        BY <1>11 DEF ChainInv
  <1>13. wal' \in [Origins -> Seq(Entries)]
        BY <1>11 DEF ChainInv
  <1> HIDE DEF n
  <1> QED BY <1>1, <1>4, <1>8, <1>9, <1>10, <1>11, <1>12, <1>13 DEF ChainInv

(* The log of one origin gets one more record.                              *)
LEMMA LogGrows ==
  ASSUME NEW logs \in [Origins -> Seq(Entries)], NEW o \in Origins, NEW r \in Entries
  PROVE  LET new == [logs EXCEPT ![o] = Append(@, r)]
         IN  /\ new \in [Origins -> Seq(Entries)]
             /\ \A p \in Origins : p # o => new[p] = logs[p]
             /\ DOMAIN new[o] = DOMAIN logs[o] \cup {Len(logs[o]) + 1}
             /\ Len(logs[o]) + 1 \notin DOMAIN logs[o]
             /\ new[o][Len(logs[o]) + 1] = r
             /\ \A i \in DOMAIN logs[o] : new[o][i] = logs[o][i]
  OBVIOUS

(* The record of a place is written, or its write fails; the thread is free.*)
LEMMA InjectKeeps ==
  ASSUME ChainInv, NEW t \in Emitters, NEW written \in BOOLEAN,
         AU!EmitWithInjectedChain(t, written)
  PROVE  ChainInv'
  <1> DEFINE s == step[t]
             n == s.seq
             o == s.origin
             r == [seq |-> s.seq, prev_hash |-> s.prev_hash, current_hash |-> s.current_hash]
  <1>1. /\ s # AU!Idle /\ s \in Places
        /\ wal' = IF written THEN [wal EXCEPT ![o] = Append(@, r)] ELSE wal
        /\ missing' = IF written THEN missing ELSE missing \cup {n}
        /\ step' = [step EXCEPT ![t] = AU!Idle]
        /\ UNCHANGED <<global_seq_, shared_last_hash_, global_snaps_>>
        BY DEF AU!EmitWithInjectedChain, ChainInv, AU!pool
  <1>2. n \in Nat /\ o \in Origins /\ r \in Entries /\ r.seq = n
        BY <1>1 DEF Places, Entries
  <1>3. n \in Taken(step) /\ n \notin Written(wal)
        BY <1>1, <1>2 DEF Taken, ChainInv
  <1>4. /\ step' \in [Emitters -> {AU!Idle} \cup Places] /\ step'[t] = AU!Idle
        /\ \A u \in Emitters : u # t => step'[u] = step[u]
        BY <1>1 DEF ChainInv
  <1>5. Taken(step') = Taken(step) \ {n}
        BY <1>1, <1>2, <1>4 DEF Taken, ChainInv
  <1>6. \A u, v \in Emitters : step'[u] # AU!Idle /\ step'[v] # AU!Idle /\ step'[u].seq = step'[v].seq
                               => u = v
        BY <1>4 DEF ChainInv
  <1>7. CASE ~written
        <2>1. wal' = wal /\ missing' = missing \cup {n}
              BY <1>1, <1>7
        <2>2. /\ Written(wal') \cup Taken(step') \cup missing' = 1..global_seq_
              /\ Written(wal') \cap Taken(step') = {}
              BY <1>3, <1>5, <2>1 DEF ChainInv
        <2>3. \A p, q \in Origins : \A i \in DOMAIN wal'[p], j \in DOMAIN wal'[q] :
                wal'[p][i].seq = wal'[q][j].seq => p = q /\ i = j
              BY <2>1 DEF ChainInv
        <2>4. wal' \in [Origins -> Seq(Entries)]
              BY <2>1 DEF ChainInv
        <2>5. UNCHANGED <<global_seq_, shared_last_hash_, global_snaps_>>
              BY <1>1
        <2> HIDE DEF s, n, o, r
        <2> QED BY <1>4, <1>6, <2>2, <2>3, <2>4, <2>5 DEF ChainInv
  <1>8. CASE written
        <2> DEFINE new == [wal EXCEPT ![o] = Append(@, r)]
                   k == Len(wal[o]) + 1
        <2>1. wal' = new /\ missing' = missing /\ wal \in [Origins -> Seq(Entries)]
              BY <1>1, <1>8 DEF ChainInv
        <2>2. /\ new \in [Origins -> Seq(Entries)]
              /\ \A p \in Origins : p # o => new[p] = wal[p]
              /\ DOMAIN new[o] = DOMAIN wal[o] \cup {k} /\ k \notin DOMAIN wal[o]
              /\ new[o][k] = r
              /\ \A i \in DOMAIN wal[o] : new[o][i] = wal[o][i]
              <3> HIDE DEF o, r
              <3> QED BY <1>2, <2>1, LogGrows
        <2> HIDE DEF r, o, k, new, n
        <2>3. Written(new) = Written(wal) \cup {n}
              <3>1. ASSUME NEW m \in Written(wal) PROVE m \in Written(new)
                    <4>1. PICK p \in Origins : \E i \in DOMAIN wal[p] : wal[p][i].seq = m
                          BY <3>1 DEF Written
                    <4>2. PICK i \in DOMAIN wal[p] : wal[p][i].seq = m
                          BY <4>1
                    <4>3. i \in DOMAIN new[p] /\ new[p][i] = wal[p][i]
                          BY <1>2, <2>2
                    <4> QED BY <3>1, <4>2, <4>3 DEF Written
              <3>2. n \in Written(new)
                    BY <1>2, <2>2 DEF Written
              <3>3. ASSUME NEW m \in Written(new), m # n PROVE m \in Written(wal)
                    <4>1. PICK p \in Origins : \E i \in DOMAIN new[p] : new[p][i].seq = m
                          BY DEF Written
                    <4>2. PICK i \in DOMAIN new[p] : new[p][i].seq = m
                          BY <4>1
                    <4>3. i \in DOMAIN wal[p] /\ new[p][i] = wal[p][i]
                          BY <1>2, <2>2, <3>3, <4>2
                    <4> QED BY <4>2, <4>3 DEF Written
              <3> QED BY <3>1, <3>2, <3>3
        <2>4. \A p \in Origins : \A i \in DOMAIN wal[p] : wal[p][i].seq \in Written(wal)
              <3> SUFFICES ASSUME NEW p \in Origins, NEW i \in DOMAIN wal[p]
                           PROVE  wal[p][i].seq \in Written(wal)
                  OBVIOUS
              <3>1. wal[p] \in Seq(Entries)
                    BY <2>1
              <3>2. wal[p][i] \in Entries
                    BY <3>1
              <3> QED BY <3>2 DEF Written, Entries
        <2>5. ASSUME NEW p \in Origins, NEW q \in Origins, NEW i \in DOMAIN new[p],
                     NEW j \in DOMAIN new[q], new[p][i].seq = new[q][j].seq
              PROVE  p = q /\ i = j
              <3>1. CASE p = o /\ i = k
                    <4>1. new[q][j].seq \notin Written(wal)
                          BY <1>2, <1>3, <2>2, <2>5, <3>1
                    <4>2. ~(j \in DOMAIN wal[q] /\ new[q][j] = wal[q][j])
                          BY <2>4, <4>1
                    <4> QED BY <2>2, <3>1, <4>2
              <3>2. CASE q = o /\ j = k
                    <4>1. new[p][i].seq \notin Written(wal)
                          BY <1>2, <1>3, <2>2, <2>5, <3>2
                    <4>2. ~(i \in DOMAIN wal[p] /\ new[p][i] = wal[p][i])
                          BY <2>4, <4>1
                    <4> QED BY <2>2, <3>2, <4>2
              <3>3. CASE ~(p = o /\ i = k) /\ ~(q = o /\ j = k)
                    <4>1. i \in DOMAIN wal[p] /\ new[p][i] = wal[p][i]
                          BY <2>2, <3>3
                    <4>2. j \in DOMAIN wal[q] /\ new[q][j] = wal[q][j]
                          BY <2>2, <3>3
                    <4> QED BY <2>5, <4>1, <4>2 DEF ChainInv
              <3> QED BY <3>1, <3>2, <3>3
        <2>6. /\ Written(wal') \cup Taken(step') \cup missing' = 1..global_seq_
              /\ Written(wal') \cap Taken(step') = {}
              BY <1>3, <1>5, <2>1, <2>3 DEF ChainInv
        <2>7. \A p, q \in Origins : \A i \in DOMAIN wal'[p], j \in DOMAIN wal'[q] :
                wal'[p][i].seq = wal'[q][j].seq => p = q /\ i = j
              BY <2>1, <2>5
        <2> QED BY <1>1, <1>4, <1>6, <2>1, <2>2, <2>6, <2>7 DEF ChainInv
  <1> QED BY <1>7, <1>8

(* Every step, one case per action.                                         *)
LEMMA ChainNext == AU!AuditAssumption /\ ChainInv /\ [AU!Next]_AU!vars => ChainInv'
  <1>1. CASE UNCHANGED AU!vars
        BY <1>1 DEF AU!vars, AU!pool, AU!emitter, ChainInv
  <1> QED BY <1>1, EmitKeeps, InjectKeeps DEF AU!Next

(* The invariant says what the property says.                               *)
LEMMA ChainInvIsOneChain == ChainInv => AU!OneChain
  <1> SUFFICES ASSUME ChainInv PROVE AU!OneChain
      OBVIOUS
  <1>1. ASSUME NEW r \in AU!Records
        PROVE  r \in Entries /\ r.seq \in Written(wal)
        <2>1. PICK o \in Origins : r \in AU!ToSet(wal[o])
              BY <1>1 DEF AU!Records
        <2>2. PICK i \in DOMAIN wal[o] : wal[o][i] = r
              BY <2>1 DEF AU!ToSet
        <2>3. wal[o] \in Seq(Entries)
              BY DEF ChainInv
        <2>4. r \in Entries
              BY <2>2, <2>3
        <2> QED BY <2>2, <2>4 DEF Written, Entries
  <1>2. ASSUME NEW n \in Written(wal)
        PROVE  \E r \in AU!Records : r.seq = n
        BY DEF Written, AU!Records, AU!ToSet
  <1>3. {r.seq : r \in AU!Records} = Written(wal)
        BY <1>1, <1>2
  <1>4. AU!Pending = Taken(step)
        BY DEF AU!Pending, Taken, ChainInv, Places
  <1>5. \A r \in AU!Records : r.current_hash = [n \in 1..r.seq |-> n]
        BY <1>1 DEF Entries, Upto
  <1> QED BY <1>3, <1>4, <1>5 DEF AU!OneChain, ChainInv

(* Read together and put in the order of their numbers, the logs of all     *)
(* origins hold one chain, for any number of threads, origins and records   *)
(* (AuditEmitterPool: the chain step under chain_mutex_, the write outside).*)
THEOREM SpecOneChain ==
  ASSUME AU!AuditAssumption
  PROVE  AU!Spec => []AU!OneChain
  <1>1. ChainInv /\ [AU!Next]_AU!vars => ChainInv'
        BY ChainNext
  <1>2. AU!Init => ChainInv
        BY ChainInit
  <1> QED BY <1>1, <1>2, ChainInvIsOneChain, PTL DEF AU!Spec

(* The verification accepts exactly the ranges of the last places, for any  *)
(* size of the ring (hash_chain_verify_global).                             *)
THEOREM SpecVerifyAcceptsRecent ==
  ASSUME AU!AuditAssumption
  PROVE  AU!Spec => []AU!VerifyAcceptsRecent
  <1>1. ChainInv => AU!VerifyAcceptsRecent
        <2> SUFFICES ASSUME ChainInv, NEW from \in 1..MaxRecords, NEW to \in 1..MaxRecords
                     PROVE  AU!Verify(from, to) <=>
                              from <= to /\ to <= global_seq_ /\ from + kGlobalSnapCap > global_seq_
            BY DEF AU!VerifyAcceptsRecent
        <2> DEFINE start == IF global_seq_ > kGlobalSnapCap THEN global_seq_ - kGlobalSnapCap ELSE 0
        <2>1. /\ kGlobalSnapCap \in Nat \ {0} /\ global_seq_ \in Nat
              /\ from \in Nat \ {0} /\ to \in Nat \ {0}
              BY DEF ChainInv, AU!AuditAssumption
        <2>2. /\ DOMAIN global_snaps_ = 0..(kGlobalSnapCap - 1)
              /\ \A i \in DOMAIN global_snaps_ : global_snaps_[i] \in 0..global_seq_
              /\ \A n \in 1..global_seq_ : n + kGlobalSnapCap > global_seq_
                    => global_snaps_[(n - 1) % kGlobalSnapCap] = n
              BY DEF ChainInv, RingHas
        <2>3. from >= start + 1 <=> from + kGlobalSnapCap > global_seq_
              BY <2>1
        <2>4. ASSUME AU!Verify(from, to)
              PROVE  from <= to /\ to <= global_seq_ /\ from + kGlobalSnapCap > global_seq_
              <3>1. from <= to /\ from >= start + 1
                    BY <2>4 DEF AU!Verify
              <3>2. PICK i \in DOMAIN global_snaps_ : global_snaps_[i] = to
                    BY <2>1, <2>4, <3>1 DEF AU!Verify
              <3>3. to <= global_seq_
                    BY <2>1, <2>2, <3>2
              <3> QED BY <2>3, <3>1, <3>3
        <2>5. ASSUME from <= to, to <= global_seq_, from + kGlobalSnapCap > global_seq_
              PROVE  AU!Verify(from, to)
              <3>1. ASSUME NEW n \in from..to
                    PROVE  \E i \in DOMAIN global_snaps_ : global_snaps_[i] = n
                    <4>1. n \in 1..global_seq_ /\ n + kGlobalSnapCap > global_seq_
                          BY <2>1, <2>5
                    <4>2. (n - 1) % kGlobalSnapCap \in DOMAIN global_snaps_
                          BY <2>1, <2>2, <4>1
                    <4> QED BY <2>2, <4>1, <4>2
              <3>2. global_seq_ > 0
                    BY <2>1, <2>5
              <3> QED BY <2>3, <2>5, <3>1, <3>2 DEF AU!Verify
        <2> QED BY <2>4, <2>5
  <1>2. ChainInv /\ [AU!Next]_AU!vars => ChainInv'
        BY ChainNext
  <1>3. AU!Init => ChainInv
        BY ChainInit
  <1> QED BY <1>1, <1>2, <1>3, PTL DEF AU!Spec

(* The numbers a bounded run gives out, and those an emitter has seen.      *)
AuditTypes ==
  global_seq_ \in 0..MaxRecords /\ seq_counter_ \in [Origins -> 0..MaxRecords]

LEMMA AuditTypesNext ==
  AU!AuditAssumption /\ ChainInv /\ AuditTypes /\ [AU!Next]_AU!vars => AuditTypes'
  <1> SUFFICES ASSUME AU!AuditAssumption, ChainInv, AuditTypes, [AU!Next]_AU!vars PROVE AuditTypes'
      OBVIOUS
  <1>1. ASSUME NEW t \in Emitters, NEW o \in Origins, NEW kind \in AU!Kinds, NEW in \in AU!Inputs,
               AU!Emit(t, o, kind, in)
        PROVE  AuditTypes'
        BY <1>1 DEF AU!Emit, AU!emitter, AU!AuditAssumption, AuditTypes
  <1>2. ASSUME NEW t \in Emitters, NEW written \in BOOLEAN, AU!EmitWithInjectedChain(t, written)
        PROVE  AuditTypes'
        <2>1. step[t] \in Places /\ step[t] # AU!Idle /\ global_seq_' = global_seq_
              /\ seq_counter_' = [seq_counter_ EXCEPT ![step[t].origin] = step[t].seq]
              BY <1>2 DEF AU!EmitWithInjectedChain, AU!pool, ChainInv
        <2>2. step[t].seq \in Nat
              BY <2>1 DEF Places
        <2>3. step[t].seq \in Taken(step)
              BY <2>1, <2>2 DEF Taken
        <2>4. step[t].seq \in 1..global_seq_
              BY <2>3 DEF ChainInv
        <2>5. step[t].seq \in 0..MaxRecords
              BY <2>4 DEF AuditTypes, AU!AuditAssumption
        <2> QED BY <2>1, <2>5 DEF AuditTypes
  <1>3. UNCHANGED AU!vars => AuditTypes'
        BY DEF AU!vars, AU!pool, AU!emitter, AuditTypes
  <1> QED BY <1>1, <1>2, <1>3 DEF AU!Next

LEMMA AuditHasTypes ==
  ASSUME AU!AuditAssumption
  PROVE  AU!Spec => []AU!TypeOK
  <1>1. AU!Init => AuditTypes
        BY DEF AU!Init, AU!AuditAssumption, AuditTypes
  <1>2. ChainInv /\ [AU!Next]_AU!vars => ChainInv'
        BY ChainNext
  <1>3. AU!Init => ChainInv
        BY ChainInit
  <1>4. ChainInv /\ AuditTypes /\ [AU!Next]_AU!vars => AuditTypes'
        BY AuditTypesNext
  <1>5. ChainInv /\ AuditTypes => AU!TypeOK
        <2> SUFFICES ASSUME ChainInv, AuditTypes PROVE AU!TypeOK
            OBVIOUS
        <2>1. missing \subseteq 1..MaxRecords
              BY DEF ChainInv, AuditTypes, AU!AuditAssumption
        <2>2. \A t \in Emitters : step[t] = AU!Idle \/ step[t].origin \in Origins
              BY DEF ChainInv, Places
        <2> QED BY <2>1, <2>2 DEF AuditTypes, AU!TypeOK
  <1> QED BY <1>1, <1>2, <1>3, <1>4, <1>5, PTL DEF AU!Spec

-----------------------------------------------------------------------------
(* The scores.                                                              *)

(* The entries of an owner name the games it listed last; those of a sport  *)
(* carry the number of the frame merged last, those of a source none.       *)
FeedInv ==
  /\ store_ = merged_map_
  /\ frames \in [Sports -> Nat] /\ DOMAIN listed = SF!Owners
  /\ \A e \in merged_map_ : e.owner \in SF!Owners /\ e.no \in Nat
  /\ \A e \in merged_map_ : e.owner \in Sports => e.no = frames[e.owner]
  /\ \A e \in merged_map_ : e.owner \in Sources => e.no = 0
  /\ \A s \in Sports : \A g : (\E e \in merged_map_ : e.owner = s /\ e.game = g) <=> g \in listed[s]
  /\ \A o \in Sources : \A e \in merged_map_ : e.owner = o => e.game \in listed[o]

(* A sport's frame replaces the entries of the sport and of nobody else.    *)
LEMMA MergeFrameKeeps ==
  ASSUME SF!ScoreFeedAssumption, FeedInv, NEW s \in Sports, SF!MergeFrame(s)
  PROVE  FeedInv' /\ (\A old \in store_, new \in store_' : old.owner = new.owner => old.no <= new.no)
  <1> DEFINE n == frames[s] + 1
             kept == {e \in merged_map_ : e.owner # s}
             added == {[owner |-> s, game |-> g, no |-> n] : g \in frame[s]}
  <1>1. /\ frames' = [frames EXCEPT ![s] = n] /\ frames \in [Sports -> Nat]
        /\ merged_map_' = kept \cup added /\ store_' = merged_map_'
        /\ listed' = [listed EXCEPT ![s] = frame[s]]
        BY DEF SF!MergeFrame, SF!Publishes, FeedInv
  <1>2. s \in SF!Owners /\ s \notin Sources /\ n \in Nat /\ n > frames[s]
        BY <1>1 DEF SF!ScoreFeedAssumption, SF!Owners
  <1>3. /\ frames' \in [Sports -> Nat] /\ frames'[s] = n
        /\ \A x \in Sports : x # s => frames'[x] = frames[x]
        /\ DOMAIN listed' = SF!Owners /\ listed'[s] = frame[s]
        /\ \A o \in SF!Owners : o # s => listed'[o] = listed[o]
        <2> HIDE DEF n
        <2> QED BY <1>1, <1>2 DEF FeedInv
  <1>4. \A e \in added : e.owner = s /\ e.no = n /\ e.game \in frame[s]
        OBVIOUS
  <1>5. \A g \in frame[s] : \E e \in added : e.owner = s /\ e.game = g
        <2> TAKE g \in frame[s]
        <2>1. [owner |-> s, game |-> g, no |-> n] \in added
              OBVIOUS
        <2> HIDE DEF n, added
        <2> QED BY <2>1
  <1>6. \A e \in kept : e \in merged_map_ /\ e.owner # s
        OBVIOUS
  <1>7. \A e \in merged_map_ : e.owner # s => e \in kept
        OBVIOUS
  <1>8. \A x \in Sports : x \in SF!Owners
        BY DEF SF!Owners
  <1>9. \A x \in Sources : x \in SF!Owners
        BY DEF SF!Owners
  <1> HIDE DEF n, kept, added
  <1>10. \A e \in merged_map_' :
           /\ e.owner \in SF!Owners /\ e.no \in Nat
           /\ e.owner \in Sports => e.no = frames'[e.owner]
           /\ e.owner \in Sources => e.no = 0
        <2>1. ASSUME NEW e \in kept
              PROVE  /\ e.owner \in SF!Owners /\ e.no \in Nat
                     /\ e.owner \in Sports => e.no = frames'[e.owner]
                     /\ e.owner \in Sources => e.no = 0
              BY <1>3, <1>6 DEF FeedInv
        <2>2. ASSUME NEW e \in added
              PROVE  /\ e.owner \in SF!Owners /\ e.no \in Nat
                     /\ e.owner \in Sports => e.no = frames'[e.owner]
                     /\ e.owner \in Sources => e.no = 0
              BY <1>2, <1>3, <1>4
        <2> QED BY <1>1, <2>1, <2>2
  <1>11. ASSUME NEW x \in Sports, NEW g
         PROVE  (\E e \in merged_map_' : e.owner = x /\ e.game = g) <=> g \in listed'[x]
        <2>1. CASE x = s
              BY <1>1, <1>3, <1>4, <1>5, <1>6, <2>1
        <2>2. CASE x # s
              <3>1. (\E e \in merged_map_' : e.owner = x /\ e.game = g)
                      <=> (\E e \in merged_map_ : e.owner = x /\ e.game = g)
                    BY <1>1, <1>4, <1>6, <1>7, <2>2
              <3> QED BY <1>3, <1>8, <2>2, <3>1 DEF FeedInv
        <2> QED BY <2>1, <2>2
  <1>12. ASSUME NEW o \in Sources, NEW e \in merged_map_', e.owner = o
         PROVE  e.game \in listed'[o]
        <2>1. o # s /\ e \in merged_map_
              BY <1>1, <1>2, <1>4, <1>6, <1>12
        <2> QED BY <1>3, <1>9, <1>12, <2>1 DEF FeedInv
  <1>13. ASSUME NEW old \in store_, NEW new \in store_', old.owner = new.owner
         PROVE  old.no <= new.no
        <2>1. old \in merged_map_ /\ old.no \in Nat /\ old.owner \in SF!Owners
              BY DEF FeedInv
        <2>2. CASE new \in added
              <3>1. old.no = frames[s] /\ new.no = n
                    BY <1>4, <1>13, <2>1, <2>2 DEF FeedInv
              <3> QED BY <1>1, <1>2, <2>1, <3>1
        <2>3. CASE new \in kept
              <3>1. new \in merged_map_
                    BY <1>6, <2>3
              <3>2. old.no = new.no
                    <4>1. CASE old.owner \in Sports
                          BY <1>13, <2>1, <3>1, <4>1 DEF FeedInv
                    <4>2. CASE old.owner \in Sources
                          BY <1>13, <2>1, <3>1, <4>2 DEF FeedInv
                    <4> QED BY <2>1, <4>1, <4>2 DEF SF!Owners
              <3> QED BY <2>1, <3>2
        <2> QED BY <1>1, <2>2, <2>3
  <1> QED BY <1>1, <1>3, <1>10, <1>11, <1>12, <1>13 DEF FeedInv

(* A source's pass replaces the entries of the source.                      *)
LEMMA SupplementKeeps ==
  ASSUME SF!ScoreFeedAssumption, FeedInv, NEW o \in Sources, SF!Supplement(o)
  PROVE  FeedInv' /\ (\A old \in store_, new \in store_' : old.owner = new.owner => old.no <= new.no)
  <1> DEFINE kept == {e \in merged_map_ : e.owner # o}
  <1>1. PICK games \in SUBSET GamesOf[o] : SF!InjectSupplementalScores(o, games)
        BY DEF SF!Supplement
  <1>2. PICK pick \in SF!Fresh(games, kept) :
          /\ merged_map_' = kept \cup {[owner |-> o, game |-> g, no |-> 0] : g \in pick}
          /\ store_' = merged_map_'
        BY <1>1 DEF SF!InjectSupplementalScores, SF!Publishes
  <1>3. pick \subseteq games
        <2> HIDE DEF kept
        <2> QED BY <1>2 DEF SF!Fresh
  <1>4. frames' = frames /\ listed' = [listed EXCEPT ![o] = games]
        BY <1>1 DEF SF!InjectSupplementalScores
  <1> DEFINE added == {[owner |-> o, game |-> g, no |-> 0] : g \in pick}
  <1>5. \A e \in added : e.owner = o /\ e.no = 0 /\ e.game \in games
        BY <1>3
  <1>6. /\ \A e \in kept : e \in merged_map_ /\ e.owner # o
        /\ \A e \in merged_map_ : e.owner # o => e \in kept
        OBVIOUS
  <1>7. merged_map_' = kept \cup added
        BY <1>2
  <1>8. /\ o \in SF!Owners /\ o \notin Sports
        /\ \A x \in SF!Owners : x \in Sports \/ x \in Sources
        /\ \A x \in Sports \cup Sources : x \in SF!Owners
        BY DEF SF!ScoreFeedAssumption, SF!Owners
  <1>9. /\ DOMAIN listed' = SF!Owners /\ listed'[o] = games
        /\ \A x \in SF!Owners : x # o => listed'[x] = listed[x]
        BY <1>4, <1>8 DEF FeedInv
  <1> HIDE DEF kept, added
  <1>10. \A e \in merged_map_' :
           /\ e.owner \in SF!Owners /\ e.no \in Nat
           /\ e.owner \in Sports => e.no = frames'[e.owner]
           /\ e.owner \in Sources => e.no = 0
        <2>1. ASSUME NEW e \in kept
              PROVE  /\ e.owner \in SF!Owners /\ e.no \in Nat
                     /\ e.owner \in Sports => e.no = frames'[e.owner]
                     /\ e.owner \in Sources => e.no = 0
              BY <1>4, <1>6 DEF FeedInv
        <2>2. ASSUME NEW e \in added
              PROVE  /\ e.owner \in SF!Owners /\ e.no \in Nat
                     /\ e.owner \in Sports => e.no = frames'[e.owner]
                     /\ e.owner \in Sources => e.no = 0
              BY <1>5, <1>8
        <2> QED BY <1>7, <2>1, <2>2
  <1>11. ASSUME NEW x \in Sports, NEW g
         PROVE  (\E e \in merged_map_' : e.owner = x /\ e.game = g) <=> g \in listed'[x]
        <2>1. x # o /\ x \in SF!Owners
              BY <1>8
        <2>2. (\E e \in merged_map_' : e.owner = x /\ e.game = g)
                <=> (\E e \in merged_map_ : e.owner = x /\ e.game = g)
              BY <1>5, <1>6, <1>7, <2>1
        <2> QED BY <1>9, <2>1, <2>2 DEF FeedInv
  <1>12. ASSUME NEW x \in Sources, NEW e \in merged_map_', e.owner = x
         PROVE  e.game \in listed'[x]
        <2>1. CASE x = o
              BY <1>5, <1>6, <1>7, <1>9, <1>12, <2>1
        <2>2. CASE x # o
              <3>1. e \in merged_map_
                    BY <1>5, <1>6, <1>7, <1>12, <2>2
              <3> QED BY <1>8, <1>9, <1>12, <2>2, <3>1 DEF FeedInv
        <2> QED BY <2>1, <2>2
  <1>13. ASSUME NEW old \in store_, NEW new \in store_', old.owner = new.owner
         PROVE  old.no <= new.no
        <2>1. old \in merged_map_ /\ old.no \in Nat /\ old.owner \in SF!Owners /\ new \in merged_map_'
              BY <1>2, <1>13 DEF FeedInv
        <2>2. CASE old.owner \in Sports
              BY <1>4, <1>10, <1>13, <2>1, <2>2 DEF FeedInv
        <2>3. CASE old.owner \in Sources
              BY <1>10, <1>13, <2>1, <2>3 DEF FeedInv
        <2> QED BY <1>8, <2>1, <2>2, <2>3
  <1> QED BY <1>2, <1>4, <1>9, <1>10, <1>11, <1>12, <1>13 DEF FeedInv

(* Every step: nobody else writes the map.                                  *)
LEMMA FeedNext ==
  ASSUME SF!ScoreFeedAssumption, FeedInv, [SF!Next]_SF!vars
  PROVE  FeedInv' /\ (\A old \in store_, new \in store_' : old.owner = new.owner => old.no <= new.no)
  <1>1. ASSUME UNCHANGED <<listed, merged_map_, store_, frames>>
        PROVE  FeedInv' /\ (\A old \in store_, new \in store_' : old.owner = new.owner => old.no <= new.no)
        <2>1. FeedInv'
              BY <1>1 DEF FeedInv
        <2>2. ASSUME NEW old \in store_, NEW new \in store_', old.owner = new.owner
              PROVE  old.no <= new.no
              <3>1. /\ old \in merged_map_ /\ new \in merged_map_ /\ old.no \in Nat
                    /\ old.owner \in SF!Owners
                    BY <1>1, <2>2 DEF FeedInv
              <3>2. CASE old.owner \in Sports
                    BY <2>2, <3>1, <3>2 DEF FeedInv
              <3>3. CASE old.owner \in Sources
                    BY <2>2, <3>1, <3>3 DEF FeedInv
              <3> QED BY <3>1, <3>2, <3>3 DEF SF!Owners
        <2> QED BY <2>1, <2>2
  <1>2. ASSUME NEW s \in Sports, SF!TopOfLoop(s) \/ SF!Round(s)
        PROVE  UNCHANGED <<listed, merged_map_, store_, frames>>
        BY <1>2 DEF SF!TopOfLoop, SF!Round
  <1>3. ASSUME SF!Start \/ SF!StopAsked \/ SF!StopJoined \/ UNCHANGED SF!vars
        PROVE  UNCHANGED <<listed, merged_map_, store_, frames>>
        BY <1>3 DEF SF!Start, SF!StopAsked, SF!StopJoined, SF!vars
  <1> QED BY <1>1, <1>2, <1>3, MergeFrameKeeps, SupplementKeeps DEF SF!Next, SF!SportStep

(* The store is empty.                                                      *)
LEMMA FeedInit == SF!Init => FeedInv
  <1> SUFFICES ASSUME SF!Init PROVE FeedInv
      OBVIOUS
  <1>1. \A s \in Sports : s \in SF!Owners
        BY DEF SF!Owners
  <1> QED BY <1>1 DEF SF!Init, FeedInv

(* What readers see holds the last frame of every sport and of a source     *)
(* nothing it did not list: no writer of the map loses what another wrote,  *)
(* for any number of sports and sources (InplayFeedThread and the daemon's  *)
(* supplements under the lock of the merged map).                           *)
THEOREM SpecStoreIsWhole ==
  ASSUME SF!ScoreFeedAssumption
  PROVE  SF!Spec => []SF!StoreIsWhole
  <1>1. FeedInv => SF!StoreIsWhole
        BY DEF FeedInv, SF!StoreIsWhole
  <1>2. FeedInv /\ [SF!Next]_SF!vars => FeedInv'
        BY FeedNext
  <1> QED BY <1>1, <1>2, FeedInit, PTL DEF SF!Spec

(* Readers never see an older frame of a sport after a newer one.           *)
THEOREM SpecNeverBack ==
  ASSUME SF!ScoreFeedAssumption
  PROVE  SF!Spec => SF!NeverBack
  <1>1. FeedInv /\ [SF!Next]_SF!vars =>
          FeedInv' /\ [\A old \in store_, new \in store_' : old.owner = new.owner => old.no <= new.no]_SF!vars
        BY FeedNext
  <1> QED BY <1>1, FeedInit, PTL DEF SF!Spec, SF!NeverBack

(* A thread that has a frame to merge has not reached the bound, and every  *)
(* entry is one of an owner's games.                                        *)
FeedTypes ==
  /\ thread \in [Sports -> {"none", "due", "fetching", "inflating", "parsed"}]
  /\ frame \in [Sports -> SUBSET SF!Games] /\ listed \in [SF!Owners -> SUBSET SF!Games]
  /\ merged_map_ \subseteq SF!Entry /\ store_ \subseteq SF!Entry
  /\ frames \in [Sports -> 0..MaxFrames]
  /\ feedStop \in BOOLEAN /\ running_ \in BOOLEAN
  /\ \A s \in Sports : thread[s] = "parsed" => frames[s] < MaxFrames

LEMMA FeedTypesNext ==
  SF!ScoreFeedAssumption /\ FeedTypes /\ [SF!Next]_SF!vars => FeedTypes'
  <1> SUFFICES ASSUME SF!ScoreFeedAssumption, FeedTypes, [SF!Next]_SF!vars PROVE FeedTypes'
      OBVIOUS
  <1>1. MaxFrames \in Nat /\ \A s \in Sports : s \in SF!Owners /\ GamesOf[s] \subseteq SF!Games
        BY DEF SF!ScoreFeedAssumption, SF!Owners, SF!Games
  <1>2. \A o \in Sources : o \in SF!Owners /\ GamesOf[o] \subseteq SF!Games
        BY DEF SF!Owners, SF!Games
  <1>3. CASE SF!Start \/ SF!StopAsked \/ SF!StopJoined
        BY <1>3 DEF SF!Start, SF!StopAsked, SF!StopJoined, FeedTypes
  <1>4. ASSUME NEW s \in Sports, SF!TopOfLoop(s)
        PROVE  FeedTypes'
        <2>1. thread' = [thread EXCEPT ![s] = IF feedStop THEN "none" ELSE "fetching"]
              /\ UNCHANGED <<frame, listed, merged_map_, store_, frames, feedStop, running_>>
              BY <1>4 DEF SF!TopOfLoop
        <2>2. (IF feedStop THEN "none" ELSE "fetching") \in {"none", "fetching"}
              OBVIOUS
        <2> QED BY <2>1, <2>2 DEF FeedTypes
  <1>5. ASSUME NEW s \in Sports, SF!Round(s)
        PROVE  FeedTypes'
        <2>1. PICK ending \in SF!Ends, games \in SUBSET GamesOf[s] :
                /\ ending = "parsed" => frames[s] < MaxFrames
                /\ frame' = [frame EXCEPT ![s] = games]
                /\ thread' = [thread EXCEPT ![s] =
                     CASE ending = "parsed" -> "parsed" [] ending = "spins" -> "inflating" [] OTHER -> "due"]
              BY <1>5 DEF SF!Round
        <2> DEFINE next == CASE ending = "parsed" -> "parsed" [] ending = "spins" -> "inflating"
                             [] OTHER -> "due"
        <2>2. next \in {"parsed", "inflating", "due"} /\ (next = "parsed" => frames[s] < MaxFrames)
              BY <2>1
        <2>3. UNCHANGED <<listed, merged_map_, store_, frames, feedStop, running_>>
              BY <1>5 DEF SF!Round
        <2>4. thread' = [thread EXCEPT ![s] = next]
              BY <2>1
        <2> HIDE DEF next
        <2>5. frame' \in [Sports -> SUBSET SF!Games]
              BY <1>1, <2>1 DEF FeedTypes
        <2> QED BY <2>2, <2>3, <2>4, <2>5 DEF FeedTypes
  <1>6. ASSUME NEW s \in Sports, SF!MergeFrame(s)
        PROVE  FeedTypes'
        <2> DEFINE more == {[owner |-> s, game |-> g, no |-> frames'[s]] : g \in frame[s]}
        <2>1. /\ thread[s] = "parsed" /\ thread' = [thread EXCEPT ![s] = "due"]
              /\ frames' = [frames EXCEPT ![s] = @ + 1] /\ frame' = [frame EXCEPT ![s] = {}]
              /\ listed' = [listed EXCEPT ![s] = frame[s]]
              /\ merged_map_' = {e \in merged_map_ : e.owner # s} \cup more
              /\ store_' = {e \in merged_map_ : e.owner # s} \cup more
              /\ UNCHANGED <<feedStop, running_>>
              BY <1>6 DEF SF!MergeFrame, SF!Publishes
        <2>2. frames[s] \in 0..MaxFrames /\ frames[s] < MaxFrames
              BY <2>1 DEF FeedTypes
        <2>3. /\ frames' \in [Sports -> 0..MaxFrames] /\ frames'[s] \in 0..MaxFrames
              /\ \A u \in Sports : u # s => frames'[u] = frames[u]
              BY <1>1, <2>1, <2>2 DEF FeedTypes
        <2>4. frame[s] \subseteq SF!Games
              BY DEF FeedTypes
        <2>5. more \subseteq SF!Entry
              BY <1>1, <2>3, <2>4 DEF SF!Entry
        <2> HIDE DEF more
        <2>6. merged_map_' \subseteq SF!Entry /\ store_' \subseteq SF!Entry
              BY <2>1, <2>5 DEF FeedTypes
        <2>7. listed' \in [SF!Owners -> SUBSET SF!Games] /\ frame' \in [Sports -> SUBSET SF!Games]
              BY <1>1, <2>1, <2>4 DEF FeedTypes
        <2>8. /\ thread' \in [Sports -> {"none", "due", "fetching", "inflating", "parsed"}]
              /\ \A u \in Sports : thread'[u] = "parsed" => u # s /\ thread[u] = "parsed"
              BY <2>1 DEF FeedTypes
        <2> QED BY <2>1, <2>3, <2>6, <2>7, <2>8 DEF FeedTypes
  <1>7. ASSUME NEW o \in Sources, SF!Supplement(o)
        PROVE  FeedTypes'
        <2>1. PICK games \in SUBSET GamesOf[o] : SF!InjectSupplementalScores(o, games)
              BY <1>7 DEF SF!Supplement
        <2>2. PICK chosen \in SF!Fresh(games, {e \in merged_map_ : e.owner # o}) :
                SF!Publishes({e \in merged_map_ : e.owner # o}
                             \cup {[owner |-> o, game |-> g, no |-> 0] : g \in chosen})
              BY <2>1 DEF SF!InjectSupplementalScores
        <2> DEFINE more == {[owner |-> o, game |-> g, no |-> 0] : g \in chosen}
        <2>3. chosen \subseteq SF!Games /\ games \subseteq SF!Games
              BY <1>2, <2>2 DEF SF!Fresh
        <2>4. more \subseteq SF!Entry
              BY <1>1, <1>2, <2>3 DEF SF!Entry
        <2>5. merged_map_' = {e \in merged_map_ : e.owner # o} \cup more
              /\ store_' = {e \in merged_map_ : e.owner # o} \cup more
              BY <2>2 DEF SF!Publishes
        <2> HIDE DEF more
        <2>6. merged_map_' \subseteq SF!Entry /\ store_' \subseteq SF!Entry
              BY <2>4, <2>5 DEF FeedTypes
        <2>7. /\ listed' = [listed EXCEPT ![o] = games]
              /\ UNCHANGED <<thread, frame, frames, feedStop, running_>>
              BY <2>1 DEF SF!InjectSupplementalScores
        <2>8. listed' \in [SF!Owners -> SUBSET SF!Games]
              BY <1>2, <2>3, <2>7 DEF FeedTypes
        <2> QED BY <2>6, <2>7, <2>8 DEF FeedTypes
  <1>8. CASE UNCHANGED SF!vars
        BY <1>8 DEF SF!vars, FeedTypes
  <1> QED BY <1>3, <1>4, <1>5, <1>6, <1>7, <1>8 DEF SF!Next, SF!SportStep

LEMMA FeedHasTypes ==
  ASSUME SF!ScoreFeedAssumption
  PROVE  SF!Spec => []SF!TypeOK
  <1>1. SF!Init => FeedTypes
        <2>1. MaxFrames \in Nat
              BY DEF SF!ScoreFeedAssumption
        <2> SUFFICES ASSUME SF!Init PROVE FeedTypes
            OBVIOUS
        <2>2. /\ thread \in [Sports -> {"none", "due", "fetching", "inflating", "parsed"}]
              /\ \A s \in Sports : thread[s] # "parsed"
              BY DEF SF!Init
        <2>3. frame \in [Sports -> SUBSET SF!Games] /\ listed \in [SF!Owners -> SUBSET SF!Games]
              BY DEF SF!Init
        <2>4. frames \in [Sports -> 0..MaxFrames]
              BY <2>1 DEF SF!Init
        <2>5. merged_map_ = {} /\ store_ = {} /\ feedStop = FALSE /\ running_ = FALSE
              BY DEF SF!Init
        <2> QED BY <2>2, <2>3, <2>4, <2>5 DEF FeedTypes
  <1>2. FeedTypes /\ [SF!Next]_SF!vars => FeedTypes'
        BY FeedTypesNext
  <1>3. FeedTypes => SF!TypeOK
        BY DEF FeedTypes, SF!TypeOK
  <1> QED BY <1>1, <1>2, <1>3, PTL DEF SF!Spec

-----------------------------------------------------------------------------
(* The life of the process.                                                 *)

(* A process beyond the gates of its main is admitted, and the loop runs    *)
(* only where Start let it.                                                 *)
DeliberateInv ==
  /\ end = "up" => DA!Admitted(cfg)
  /\ who = "loop" /\ th # "none" => cfg.trading /\ ~DA!StartAborts(cfg)

(* Only Start lets the loop run, and only past its refusals.                *)
LEMMA DeliberateNext ==
  ASSUME DeliberateInv, [DA!Next]_DA!vars
  PROVE  DeliberateInv'
  <1>1. CASE end = "up" /\ DA!Start
        <2>1. cfg' = cfg /\ who' = who
              BY <1>1 DEF DA!Start
        <2>2. CASE DA!Now[2] = who /\ who = "loop" /\ DA!Starts(cfg, who) /\ ~DA!StartAborts(cfg)
              <3>1. cfg.trading
                    BY <2>2 DEF DA!Starts
              <3>2. end' = end
                    BY <1>1, <2>2 DEF DA!Start
              <3> QED BY <2>1, <2>2, <3>1, <3>2 DEF DeliberateInv, DA!StartAborts, DA!Admitted,
                      DA!AdmittedHeadless, DA!AdmittedServer, DA!Live, DA!Fills
        <2>3. CASE ~(DA!Now[2] = who /\ who = "loop" /\ DA!Starts(cfg, who) /\ ~DA!StartAborts(cfg))
              <3>1. who = "loop" => th' = th
                    BY <1>1, <2>3 DEF DA!Start
              <3>2. end' \in {end, "aborted"}
                    BY <1>1 DEF DA!Start
              <3> QED BY <1>1, <2>1, <3>1, <3>2 DEF DeliberateInv
        <2> QED BY <2>2, <2>3
  <1>2. CASE DA!WaitForStop \/ DA!RequestStop \/ DA!Passed \/ DA!Down \/ DA!Signal \/ UNCHANGED DA!vars
        <2>1. UNCHANGED <<cfg, who, th>> /\ end' \in {end, "down"}
              BY <1>2 DEF DA!WaitForStop, DA!RequestStop, DA!Passed, DA!Down, DA!Signal, DA!vars
        <2> QED BY <2>1 DEF DeliberateInv
  <1>3. CASE DA!Begin \/ DA!Deliver \/ DA!Leave
        <2>1. UNCHANGED <<cfg, who, end>> /\ th # "none"
              BY <1>3 DEF DA!Begin, DA!Deliver, DA!Leave
        <2> QED BY <2>1 DEF DeliberateInv
  <1> QED BY <1>1, <1>2, <1>3 DEF DA!Next, DA!Main, DA!Thread

(* Whatever command lines and environments there are: the loop of a process *)
(* with its order gate open and its fills on runs only if every switch was  *)
(* set for that (the mains of trader_server and paper_runtime, Build, and   *)
(* the gate in TradingLoop::Start).                                         *)
THEOREM SpecRealMoneyIsDeliberate == DA!Spec => []DA!RealMoneyIsDeliberate
  <1>1. DA!Init => DeliberateInv
        BY DEF DA!Init, DeliberateInv
  <1>2. DeliberateInv /\ [DA!Next]_DA!vars => DeliberateInv'
        BY DeliberateNext
  <1>3. DeliberateInv => DA!RealMoneyIsDeliberate
        BY DEF DeliberateInv, DA!RealMoneyIsDeliberate, DA!Admitted, DA!AdmittedHeadless,
               DA!AdmittedServer, DA!StartAborts, DA!Fills, DA!GateOpen, DA!Live
  <1> QED BY <1>1, <1>2, <1>3, PTL DEF DA!Spec

(* A row of n elements, and one that is made of two.                        *)
Rows(n, S) == [1..n -> S]
Joined(s, t) == s \o t

(* A row of m joined to a row of n, place by place.                         *)
LEMMA JoinedIs ==
  ASSUME NEW S, NEW m \in Nat, NEW n \in Nat, NEW s \in Rows(m, S), NEW t \in Rows(n, S)
  PROVE  /\ Joined(s, t) \in Rows(m + n, S)
         /\ \A i \in 1..m : Joined(s, t)[i] = s[i]
         /\ \A i \in 1..n : Joined(s, t)[m + i] = t[i]
  <1>1. s \in Seq(S) /\ Len(s) = m /\ t \in Seq(S) /\ Len(t) = n
        BY DEF Rows
  <1>2. s \o t \in Seq(S) /\ Len(s \o t) = m + n
        BY <1>1
  <1>3. \A i \in 1..m : (s \o t)[i] = s[i]
        BY <1>1
  <1>4. \A i \in 1..n : (s \o t)[m + i] = t[i]
        BY <1>1
  <1>5. ASSUME NEW q \in Seq(S), Len(q) = m + n PROVE q \in Rows(m + n, S)
        BY <1>5 DEF Rows
  <1>6. s \o t \in Rows(m + n, S)
        BY <1>2, <1>5, Zenon
  <1> QED BY <1>3, <1>4, <1>6, Zenon DEF Joined

(* The same in three formulas, to be used of any rows.                      *)
LEMMA JoinedRows ==
  \A S : \A m, n \in Nat : \A s \in Rows(m, S), t \in Rows(n, S) :
     Joined(s, t) \in Rows(m + n, S)
  BY JoinedIs, Zenon

(* the places of the first row,                                             *)
LEMMA JoinedFirst ==
  \A S : \A m, n \in Nat : \A s \in Rows(m, S), t \in Rows(n, S) :
     \A i \in 1..m : Joined(s, t)[i] = s[i]
  BY JoinedIs

(* and those of the second.                                                 *)
LEMMA JoinedSecond ==
  \A S : \A m, n \in Nat : \A s \in Rows(m, S), t \in Rows(n, S) :
     \A i \in 1..n : Joined(s, t)[m + i] = t[i]
  BY JoinedIs

(* Eighteen, one, fourteen and twenty-five elements.                        *)
LEMMA FourParts ==
  ASSUME NEW S, NEW a \in Rows(18, S), NEW b \in Rows(1, S), NEW c \in Rows(14, S),
         NEW d \in Rows(25, S)
  PROVE  LET s == Joined(Joined(Joined(a, b), c), d)
         IN  /\ s \in Rows(58, S)
             /\ s[19] = b[1]
             /\ \A k \in 1..14 : s[19 + k] = c[k]
             /\ \A k \in 1..25 : s[33 + k] = d[k]
  <1> DEFINE x == Joined(a, b)
             y == Joined(x, c)
             s == Joined(y, d)
  <1>1. x \in Rows(19, S) /\ x[19] = b[1]
        <2>1. x \in Rows(18 + 1, S)
              BY JoinedRows
        <2>2. \A i \in 1..1 : x[18 + i] = b[i]
              BY JoinedSecond
        <2> HIDE DEF x
        <2> QED BY <2>1, <2>2
  <1> HIDE DEF x
  <1>2. y \in Rows(33, S)
        <2>1. y \in Rows(19 + 14, S)
              BY <1>1, JoinedRows
        <2> HIDE DEF y
        <2> QED BY <2>1
  <1>3. \A i \in 1..19 : y[i] = x[i]
        BY <1>1, JoinedFirst
  <1>4. \A i \in 1..14 : y[19 + i] = c[i]
        BY <1>1, JoinedSecond
  <1> HIDE DEF y
  <1>5. s \in Rows(58, S)
        <2>1. s \in Rows(33 + 25, S)
              BY <1>2, JoinedRows
        <2> HIDE DEF s
        <2> QED BY <2>1
  <1>6. \A i \in 1..33 : s[i] = y[i]
        BY <1>2, JoinedFirst
  <1>7. \A i \in 1..25 : s[33 + i] = d[i]
        BY <1>2, JoinedSecond
  <1> HIDE DEF s
  <1>8. s[19] = b[1] /\ \A k \in 1..14 : s[19 + k] = c[k]
        BY <1>1, <1>3, <1>4, <1>6
  <1> QED BY <1>5, <1>7, <1>8 DEF x, y, s

(* The program of the main thread: eighteen starts, the wait, fourteen      *)
(* joins, and twenty-five members to take apart.                            *)
LEMMA ProgramIs ==
  /\ DA!LastStep = 58 /\ Len(DA!DestroyOrder) = 25
  /\ \A i \in 19..58 : DA!Steps[i][1] # "start"
  /\ \A k \in 1..14 : DA!Steps[19 + k] = <<"join", DA!ShutdownOrder[k]>>
  <1> DEFINE a == DA!Tag("start", DA!StartOrder)
             b == << <<"wait", "signal">> >>
             c == DA!Tag("join", DA!ShutdownOrder)
             d == DA!Tag("destroy", DA!DestroyOrder)
  <1>1. Len(DA!StartOrder) = 18 /\ Len(DA!ShutdownOrder) = 14 /\ Len(DA!DestroyOrder) = 25
        BY DEF DA!StartOrder, DA!ShutdownOrder, DA!DestroyOrder
  <1>2. a = [i \in 1..18 |-> <<"start", DA!StartOrder[i]>>]
        BY <1>1 DEF DA!Tag
  <1>3. c = [i \in 1..14 |-> <<"join", DA!ShutdownOrder[i]>>]
        BY <1>1 DEF DA!Tag
  <1>4. d = [i \in 1..25 |-> <<"destroy", DA!DestroyOrder[i]>>]
        BY <1>1 DEF DA!Tag
  <1> DEFINE S == {a[i] : i \in 1..18} \cup {b[1]} \cup {c[i] : i \in 1..14} \cup {d[i] : i \in 1..25}
  <1>5. a \in Rows(18, S) /\ b \in Rows(1, S) /\ c \in Rows(14, S) /\ d \in Rows(25, S)
        <2>1. a \in [1..18 -> S]
              BY <1>2
        <2>2. c \in [1..14 -> S]
              BY <1>3
        <2>3. d \in [1..25 -> S]
              BY <1>4
        <2>4. b[1] \in S /\ b = [i \in 1..1 |-> b[1]]
              OBVIOUS
        <2> HIDE DEF S, a, b, c, d
        <2>5. b \in [1..1 -> S]
              BY <2>4
        <2> QED BY <2>1, <2>2, <2>3, <2>5 DEF Rows
  <1>6. DA!Steps = Joined(Joined(Joined(a, b), c), d)
        BY DEF DA!Steps, Joined
  <1>7. b[1][1] = "wait"
        OBVIOUS
  <1> HIDE DEF S, a, b, c, d
  <1>8. /\ DA!Steps \in Rows(58, S) /\ DA!Steps[19] = b[1]
        /\ \A k \in 1..14 : DA!Steps[19 + k] = c[k]
        /\ \A k \in 1..25 : DA!Steps[33 + k] = d[k]
        BY <1>5, <1>6, FourParts
  <1>9. DA!LastStep = 58
        BY <1>8 DEF DA!LastStep, Rows
  <1>10. \A k \in 1..14 : DA!Steps[19 + k] = <<"join", DA!ShutdownOrder[k]>>
        BY <1>3, <1>8
  <1>11. \A k \in 1..25 : DA!Steps[33 + k] = <<"destroy", DA!DestroyOrder[k]>>
        BY <1>4, <1>8
  <1>12. \A i \in 19..58 : DA!Steps[i][1] # "start"
        <2>1. \A i \in 19..58 : \/ i = 19
                                \/ i - 19 \in 1..14 /\ i = 19 + (i - 19)
                                \/ i - 33 \in 1..25 /\ i = 33 + (i - 33)
              OBVIOUS
        <2>2. DA!Steps[19][1] = "wait"
              BY <1>7, <1>8
        <2>3. \A k \in 1..14 : DA!Steps[19 + k][1] = "join"
              BY <1>10
        <2>4. \A k \in 1..25 : DA!Steps[33 + k][1] = "destroy"
              BY <1>11
        <2>5. "wait" # "start" /\ "join" # "start" /\ "destroy" # "start"
              OBVIOUS
        <2> QED BY <2>1, <2>2, <2>3, <2>4, <2>5, Zenon
  <1> QED BY <1>1, <1>9, <1>10, <1>12

(* A thread whose join Shutdown has passed does nothing any more.           *)
JoinedInv ==
  /\ cfg \in Configs /\ who \in Watched /\ pc \in 0..58
  /\ \A k \in 1..14 : who = DA!ShutdownOrder[k] /\ pc >= 19 + k => th \in {"none", "done"}

(* Shutdown passes a thread only once it is joined, and joins every one.    *)
LEMMA JoinedNext ==
  ASSUME JoinedInv, [DA!Next]_DA!vars
  PROVE  JoinedInv'
  <1>1. cfg' = cfg /\ who' = who
        BY DEF DA!Next, DA!Main, DA!Start, DA!WaitForStop, DA!RequestStop, DA!Passed, DA!Down,
               DA!Signal, DA!Thread, DA!Begin, DA!Deliver, DA!Leave, DA!vars
  <1>2. DA!LastStep = 58
        BY ProgramIs
  <1>3. CASE UNCHANGED <<pc, th>>
        BY <1>1, <1>3 DEF JoinedInv
  <1>4. CASE pc < 58 /\ DA!Start
        <2>1. DA!Steps[pc + 1][1] = "start"
              BY <1>4 DEF DA!Start, DA!Now
        <2>2. ~(pc + 1 \in 19..58)
              BY <2>1, ProgramIs
        <2>3. pc' \in 0..18
              BY <1>4, <2>2 DEF DA!Start, JoinedInv
        <2> QED BY <1>1, <2>3 DEF JoinedInv
  <1>5. CASE pc < 58 /\ (DA!WaitForStop \/ DA!Passed)
        <2>1. pc' = pc + 1 /\ th' = th /\ pc' \in 0..58
              BY <1>5 DEF DA!WaitForStop, DA!Passed, JoinedInv
        <2>2. ASSUME NEW k \in 1..14, who = DA!ShutdownOrder[k], pc + 1 >= 19 + k
              PROVE  th \in {"none", "done"}
              <3>1. CASE pc >= 19 + k
                    BY <2>2, <3>1 DEF JoinedInv
              <3>2. CASE pc + 1 = 19 + k
                    <4>1. DA!Now = <<"join", who>>
                          BY <2>2, <3>2, ProgramIs DEF DA!Now
                    <4> QED BY <1>5, <4>1 DEF DA!WaitForStop, DA!Passed
              <3> QED BY <2>2, <3>1, <3>2 DEF JoinedInv
        <2> QED BY <1>1, <2>1, <2>2 DEF JoinedInv
  <1>6. CASE DA!Begin \/ DA!Deliver \/ DA!Leave
        <2>1. pc' = pc /\ th \notin {"none", "done"}
              BY <1>6 DEF DA!Begin, DA!Deliver, DA!Leave
        <2> QED BY <1>1, <2>1 DEF JoinedInv
  <1>7. DA!RequestStop \/ DA!Down \/ DA!Signal \/ UNCHANGED DA!vars => UNCHANGED <<pc, th>>
        BY DEF DA!RequestStop, DA!Down, DA!Signal, DA!vars
  <1> QED BY <1>2, <1>3, <1>4, <1>5, <1>6, <1>7 DEF DA!Next, DA!Main, DA!Thread

(* What is not joined by Shutdown uses nothing; while anything is taken     *)
(* apart everything in Shutdown has been joined.                            *)
LEMMA JoinedBeforeDestroyed == JoinedInv => DA!NoUseAfterDestroy
  <1> SUFFICES ASSUME JoinedInv, th = "using", who \notin DA!Unjoined
               PROVE  DA!Uses(cfg, who) \cap DA!Gone = {}
      BY DEF DA!NoUseAfterDestroy
  <1>1. CASE pc <= 33
        <2>1. DA!Gone = {DA!Steps[i][2] : i \in 34..pc}
              BY ProgramIs DEF DA!Gone
        <2>2. 34..pc = {}
              BY <1>1 DEF JoinedInv
        <2> QED BY <2>1, <2>2
  <1>2. CASE pc > 33
        <2>1. \A k \in 1..14 : who # DA!ShutdownOrder[k]
              BY <1>2 DEF JoinedInv
        <2>2. who \notin {"mapping", "settlement_refresh", "live_stats", "wss_watchdog",
                   "user_watchdog", "userfeed", "active_poll", "seed", "server",
                   "recorder", "loop", "inplay", "poller", "transport"}
              <3>1. \A x \in {"mapping", "settlement_refresh", "live_stats", "wss_watchdog",
                   "user_watchdog", "userfeed", "active_poll", "seed", "server",
                   "recorder", "loop", "inplay", "poller", "transport"} :
                       \E k \in 1..14 : DA!ShutdownOrder[k] = x
                    BY DEF DA!ShutdownOrder
              <3> SUFFICES ASSUME NEW x \in {"mapping", "settlement_refresh", "live_stats", "wss_watchdog",
                   "user_watchdog", "userfeed", "active_poll", "seed", "server",
                   "recorder", "loop", "inplay", "poller", "transport"}, who = x
                           PROVE  FALSE
                  OBVIOUS
              <3>2. PICK k \in 1..14 : DA!ShutdownOrder[k] = x
                    BY <3>1, Zenon
              <3> QED BY <2>1, <3>2, Zenon
        <2>3. DA!Uses(cfg, who) = {}
              BY <2>2 DEF DA!Uses, DA!Unjoined
        <2> QED BY <2>3
  <1> QED BY <1>1, <1>2 DEF JoinedInv

(* Whichever of the threads is slow, and whenever the signal comes: no      *)
(* thread but the three that Shutdown leaves out works on a member of the   *)
(* daemon that has been destroyed (the joins of TraderDaemon::Shutdown and  *)
(* the order of its members).                                               *)
THEOREM SpecNoUseAfterDestroy == DA!Spec => []DA!NoUseAfterDestroy
  <1>1. DA!Init => JoinedInv
        BY DEF DA!Init, JoinedInv
  <1>2. JoinedInv /\ [DA!Next]_DA!vars => JoinedInv'
        BY JoinedNext
  <1>3. JoinedInv => DA!NoUseAfterDestroy
        BY JoinedBeforeDestroyed
  <1> QED BY <1>1, <1>2, <1>3, PTL DEF DA!Spec
(* What the flags of the process are.                                       *)
DaemonFlags ==
  /\ th \in {"none", "idle", "busy", "using", "done"}
  /\ told \in BOOLEAN /\ stop \in BOOLEAN
  /\ end \in {"up", "refused", "aborted", "down"}

LEMMA DaemonFlagsNext == DaemonFlags /\ [DA!Next]_DA!vars => DaemonFlags'
  <1> SUFFICES ASSUME DaemonFlags, [DA!Next]_DA!vars PROVE DaemonFlags'
      OBVIOUS
  <1>1. CASE DA!Start
        <2>1. th' \in {th, "idle"} /\ end' \in {end, "aborted"} /\ UNCHANGED <<told, stop>>
              BY <1>1 DEF DA!Start
        <2> QED BY <2>1 DEF DaemonFlags
  <1>2. CASE DA!WaitForStop \/ DA!RequestStop \/ DA!Passed \/ DA!Down \/ DA!Signal
        BY <1>2 DEF DA!WaitForStop, DA!RequestStop, DA!Passed, DA!Down, DA!Signal, DaemonFlags
  <1>3. CASE DA!Begin \/ DA!Deliver \/ DA!Leave
        BY <1>3 DEF DA!Begin, DA!Deliver, DA!Leave, DaemonFlags
  <1>4. CASE UNCHANGED DA!vars
        BY <1>4 DEF DA!vars, DaemonFlags
  <1> QED BY <1>1, <1>2, <1>3, <1>4 DEF DA!Next, DA!Main, DA!Thread

LEMMA DaemonHasTypes == DA!Spec => []DA!TypeOK
  <1>1. DA!Init => JoinedInv /\ DaemonFlags
        <2>1. DA!Init => JoinedInv
              BY DEF DA!Init, JoinedInv
        <2>2. DA!Init => end \in {"up", "refused"}
              BY DEF DA!Init
        <2>3. DA!Init => th = "none" /\ told = FALSE /\ stop = FALSE
              BY DEF DA!Init
        <2> QED BY <2>1, <2>2, <2>3 DEF DaemonFlags
  <1>2. JoinedInv /\ [DA!Next]_DA!vars => JoinedInv'
        BY JoinedNext
  <1>3. JoinedInv /\ DaemonFlags => DA!TypeOK
        BY ProgramIs DEF JoinedInv, DaemonFlags, DA!TypeOK
  <1> QED BY <1>1, <1>2, <1>3, DaemonFlagsNext, PTL DEF DA!Spec

-----------------------------------------------------------------------------
(* Subscription.                                                            *)

(* The tables take the markets of an event together; only those with odds   *)
(* of their own ever have a sharp age below the grace, and it is never      *)
(* above the silence of their event.                                        *)
SubscriptionInv ==
  /\ sharp_age \in [Market -> 0..kSharpGrace] /\ quiet \in [LeagueEvents -> 0..kSharpGrace]
  /\ sharp = {m \in Market : sharp_age[m] < kSharpGrace}
  /\ market_match_inputs_ \subseteq Market /\ subscribed \subseteq Market
  /\ \A m \in market_match_inputs_ : SU!Matchable(m)
  /\ \A m, k \in Market :
       SU!Matchable(m) /\ SU!Matchable(k) /\ m.event = k.event /\ m \in market_match_inputs_
         => k \in market_match_inputs_
  /\ \A m \in Market : SU!Matchable(m) => sharp_age[m] <= quiet[m.event]
  /\ \A m \in Market : ~SU!Matchable(m) => sharp_age[m] = kSharpGrace
  /\ \A m \in subscribed : SU!Matchable(m)

LEMMA SubscriptionInit ==
  ASSUME SU!SubscriptionAssumption, SU!Init
  PROVE  SubscriptionInv
  <1>1. kSharpGrace \in Nat /\ \A m \in Market : m.event \in LeagueEvents
        BY DEF SU!SubscriptionAssumption
  <1> QED BY <1>1 DEF SU!Init, SubscriptionInv

(* What a round leaves in the tables.                                       *)
LEMMA RediscoverKeeps ==
  ASSUME SubscriptionInv, SU!RediscoverOnce \/ UNCHANGED SU!tables
  PROVE  /\ market_match_inputs_' \subseteq Market /\ subscribed' \subseteq Market
         /\ \A m \in market_match_inputs_' : SU!Matchable(m)
         /\ \A m, k \in Market :
              SU!Matchable(m) /\ SU!Matchable(k) /\ m.event = k.event /\ m \in market_match_inputs_'
                => k \in market_match_inputs_'
         /\ \A m \in subscribed' : SU!Matchable(m)
         /\ \A m \in subscribed \ subscribed' :
              m \notin sharp \/ m.event \notin discovered \/ blacklist[m.event] > 0
  <1>1. CASE UNCHANGED SU!tables
        BY <1>1 DEF SU!tables, SubscriptionInv
  <1>2. CASE SU!PopulateCatalog(discovered)
        <2> DEFINE A == SU!Admitted(discovered)
        <2>1. /\ market_match_inputs_' = {m \in A : SU!Matchable(m)}
              /\ subscribed' = A \cap sharp
              BY <1>2 DEF SU!PopulateCatalog
        <2>2. \A m : m \in A <=> /\ m \in Market /\ m.event \in discovered
                                 /\ ~(blacklist[m.event] > 0) /\ m.kind # "prop"
              BY DEF SU!Admitted
        <2>3. \A m \in Market : SU!Matchable(m) => m.kind # "prop"
              BY DEF SU!Matchable
        <2>4. \A m \in sharp : m \in Market /\ SU!Matchable(m)
              <3> SUFFICES ASSUME NEW m \in sharp PROVE m \in Market /\ SU!Matchable(m)
                  OBVIOUS
              <3>1. m \in Market /\ sharp_age[m] < kSharpGrace
                    BY DEF SubscriptionInv
              <3>2. sharp_age[m] # kSharpGrace
                    BY <3>1 DEF SubscriptionInv
              <3> QED BY <3>1, <3>2 DEF SubscriptionInv
        <2> HIDE DEF A
        <2>5. \A m \in subscribed : m \in Market /\ SU!Matchable(m)
              BY DEF SubscriptionInv
        <2> QED BY <2>1, <2>2, <2>3, <2>4, <2>5
  <1> QED BY <1>1, <1>2 DEF SU!RediscoverOnce

(* A market with odds starts its silence anew with its event, or later.     *)
LEMMA RoundKeeps ==
  ASSUME SU!SubscriptionAssumption, SubscriptionInv, NEW due \in BOOLEAN,
         SU!RefreshEventMapping(due)
  PROVE  SubscriptionInv'
  <1>1. SU!RediscoverOnce \/ UNCHANGED SU!tables
        BY DEF SU!RefreshEventMapping
  <1>2. kSharpGrace \in Nat \ {0} /\ \A m \in Market : m.event \in LeagueEvents
        BY DEF SU!SubscriptionAssumption
  <1>3. /\ sharp_age' = [m \in Market |-> SU!SharpAge(m)]
        /\ sharp' = {m \in Market : sharp_age'[m] < kSharpGrace}
        /\ quiet' = [e \in LeagueEvents |->
             CASE shown[e] = "final" -> kSharpGrace
               [] shown[e] = "playing" /\ odds[e] = "fresh"
                    /\ market_match_inputs_' \cap SU!Of(e) # {} -> 0
               [] OTHER -> SU!Min({quiet[e] + 1, kSharpGrace})]
        BY DEF SU!RefreshEventMapping, SU!Refresh
  <1>4. ASSUME NEW e \in LeagueEvents
        PROVE  /\ quiet[e] \in 0..kSharpGrace
               /\ SU!Min({quiet[e] + 1, kSharpGrace})
                    = IF quiet[e] < kSharpGrace THEN quiet[e] + 1 ELSE kSharpGrace
        <2>1. quiet[e] \in 0..kSharpGrace
              BY DEF SubscriptionInv
        <2> DEFINE a == quiet[e] + 1
        <2>2. a \in Int /\ kSharpGrace \in Int
              BY <1>2, <2>1
        <2>3. quiet[e] < kSharpGrace <=> a <= kSharpGrace
              BY <1>2, <2>1
        <2> HIDE DEF a
        <2>4. a <= kSharpGrace => SU!Min({a, kSharpGrace}) = a
              BY <2>2 DEF SU!Min
        <2>5. ~(a <= kSharpGrace) => SU!Min({a, kSharpGrace}) = kSharpGrace
              BY <2>2 DEF SU!Min
        <2> QED BY <2>1, <2>3, <2>4, <2>5 DEF a
  <1>5. /\ market_match_inputs_' \subseteq Market /\ subscribed' \subseteq Market
        /\ \A m \in market_match_inputs_' : SU!Matchable(m)
        /\ \A m, k \in Market :
             SU!Matchable(m) /\ SU!Matchable(k) /\ m.event = k.event /\ m \in market_match_inputs_'
               => k \in market_match_inputs_'
        /\ \A m \in subscribed' : SU!Matchable(m)
        BY <1>1, RediscoverKeeps
  <1>6. ASSUME NEW m \in Market
        PROVE  /\ sharp_age'[m] \in 0..kSharpGrace
               /\ SU!Matchable(m) => sharp_age'[m] <= quiet'[m.event]
               /\ ~SU!Matchable(m) => sharp_age'[m] = kSharpGrace
        <2> DEFINE e == m.event
                   old == IF sharp_age[m] < kSharpGrace THEN sharp_age[m] + 1 ELSE kSharpGrace
        <2>1. e \in LeagueEvents /\ sharp_age'[m] = SU!SharpAge(m)
              BY <1>2, <1>3
        <2>2. sharp_age[m] \in 0..kSharpGrace /\ old \in 0..kSharpGrace
              BY <1>2 DEF SubscriptionInv
        <2>3. m \in SU!Matched <=> m \in market_match_inputs_' /\ shown[e] # "absent"
              BY DEF SU!Matched
        <2>4. quiet'[e] = CASE shown[e] = "final" -> kSharpGrace
                            [] shown[e] = "playing" /\ odds[e] = "fresh"
                                 /\ market_match_inputs_' \cap SU!Of(e) # {} -> 0
                            [] OTHER -> SU!Min({quiet[e] + 1, kSharpGrace})
              BY <1>3, <2>1
        <2>5. /\ m \in SU!Matched /\ shown[e] = "final" => sharp_age'[m] = kSharpGrace
              /\ m \in SU!Matched /\ shown[e] # "final" /\ odds[e] = "fresh" => sharp_age'[m] = 0
              /\ ~(m \in SU!Matched /\ (shown[e] = "final" \/ odds[e] = "fresh"))
                   => sharp_age'[m] = old
              BY <2>1 DEF SU!SharpAge, SU!IsFinal, SU!HasSharp
        <2>6. ASSUME ~SU!Matchable(m) PROVE sharp_age'[m] = kSharpGrace
              <3>1. m \notin SU!Matched
                    BY <1>5, <2>3, <2>6
              <3>2. sharp_age[m] = kSharpGrace
                    BY <2>6 DEF SubscriptionInv
              <3> QED BY <1>2, <2>5, <3>1, <3>2
        <2>7. ASSUME SU!Matchable(m) PROVE sharp_age'[m] <= quiet'[e]
              <3>1. CASE shown[e] = "final"
                    BY <1>2, <2>2, <2>4, <2>5, <3>1
              <3>2. CASE shown[e] # "final" /\ market_match_inputs_' \cap SU!Of(e) # {}
                         /\ shown[e] = "playing" /\ odds[e] = "fresh"
                    <4>1. PICK k \in Market : k \in market_match_inputs_' /\ k.event = e
                          BY <3>2 DEF SU!Of
                    <4>2. m \in market_match_inputs_'
                          BY <1>5, <2>7, <4>1
                    <4>3. sharp_age'[m] = 0 /\ quiet'[e] = 0
                          BY <2>3, <2>4, <2>5, <3>2, <4>2
                    <4> QED BY <4>3
              <3>3. CASE shown[e] # "final" /\ ~(market_match_inputs_' \cap SU!Of(e) # {}
                         /\ shown[e] = "playing" /\ odds[e] = "fresh")
                    <4>1. quiet'[e] = IF quiet[e] < kSharpGrace THEN quiet[e] + 1 ELSE kSharpGrace
                          BY <1>4, <2>1, <2>4, <3>3
                    <4>2. sharp_age'[m] = 0 \/ sharp_age'[m] = old
                          BY <2>5, <3>3
                    <4>3. sharp_age[m] <= quiet[e] /\ quiet[e] \in 0..kSharpGrace
                          BY <1>4, <2>1, <2>7 DEF SubscriptionInv
                    <4> HIDE DEF e
                    <4> QED BY <1>2, <2>2, <4>1, <4>2, <4>3
              <3> QED BY <3>1, <3>2, <3>3
        <2>8. sharp_age'[m] \in 0..kSharpGrace
              BY <1>2, <2>2, <2>5
        <2> QED BY <2>6, <2>7, <2>8
  <1>7. sharp_age' \in [Market -> 0..kSharpGrace]
        BY <1>3, <1>6
  <1>8. quiet' \in [LeagueEvents -> 0..kSharpGrace]
        <2>1. \A e \in LeagueEvents : quiet'[e] \in 0..kSharpGrace
              <3> SUFFICES ASSUME NEW e \in LeagueEvents PROVE quiet'[e] \in 0..kSharpGrace
                  OBVIOUS
              <3>1. quiet'[e] \in {kSharpGrace, 0, SU!Min({quiet[e] + 1, kSharpGrace})}
                    BY <1>3
              <3> QED BY <1>2, <1>4, <3>1
        <2> QED BY <1>3, <2>1
  <1> QED BY <1>3, <1>5, <1>6, <1>7, <1>8 DEF SubscriptionInv

(* Every step keeps it: nobody else writes what it is about.                *)
LEMMA SubscriptionNext ==
  SU!SubscriptionAssumption /\ SubscriptionInv /\ [SU!Next]_SU!vars => SubscriptionInv'
  <1>1. ASSUME SubscriptionInv, SU!World \/ UNCHANGED SU!vars PROVE SubscriptionInv'
        <2>1. UNCHANGED <<sharp_age, quiet, sharp, market_match_inputs_, subscribed>>
              BY <1>1 DEF SU!World, SU!List, SU!Show, SU!Quote, SU!EndOfGame, SU!Stale,
                          SU!vars, SU!tables, SU!matching
        <2> QED BY <1>1, <2>1 DEF SubscriptionInv
  <1> QED BY <1>1, RoundKeeps DEF SU!Next

(* How long the events are kept out: no entry is older or longer than its   *)
(* time, whichever event is entered first and whenever the list is emptied. *)
Blacklists == [LeagueEvents -> SU!None..kBlacklistTtl]

LEMMA InsertStays ==
  ASSUME SU!SubscriptionAssumption, NEW e, NEW list \in Blacklists
  PROVE  SU!Insert(e, list) \in Blacklists
  <1>1. kBlacklistTtl \in SU!None..kBlacklistTtl /\ SU!None \in SU!None..kBlacklistTtl
        BY DEF SU!SubscriptionAssumption, SU!None
  <1>2. \A x \in LeagueEvents : SU!Insert(e, list)[x] \in {kBlacklistTtl, SU!None, list[x]}
        BY DEF SU!Insert
  <1>3. SU!Insert(e, list) = [x \in LeagueEvents |-> SU!Insert(e, list)[x]]
        BY DEF SU!Insert
  <1> QED BY <1>1, <1>2, <1>3 DEF Blacklists

LEMMA BlacklistStays ==
  ASSUME SU!SubscriptionAssumption, blacklist \in Blacklists, SU!Ended \in SUBSET LeagueEvents
  PROVE  SU!Blacklisted \in Blacklists
  <1> DEFINE S == SU!Ended
             base == [e \in LeagueEvents |-> IF blacklist[e] > 0 THEN blacklist[e] - 1 ELSE blacklist[e]]
             enter == [p \in S \X Blacklists |-> SU!Insert(p[1], p[2])]
             Recursive(g) == g = [T \in SUBSET S |-> IF T = {} THEN base
                                                  ELSE SU!Insert(Picked(T), g[T \ {Picked(T)}])]
             h == CHOOSE g : Recursive(g)
  <1>1. IsFiniteSet(S)
        <2>1. IsFiniteSet(LeagueEvents)
              BY DEF SU!SubscriptionAssumption, SU!IsFiniteSet, IsFiniteSet
        <2> QED BY <2>1, FS_Subset
  <1>2. base \in Blacklists
        <2>1. \A e \in LeagueEvents : base[e] \in SU!None..kBlacklistTtl
              BY DEF Blacklists, SU!None, SU!SubscriptionAssumption
        <2> QED BY <2>1 DEF Blacklists
  <1>3. enter \in [S \X Blacklists -> Blacklists]
        BY InsertStays
  <1>4. PICK g \in [SUBSET S -> Blacklists] : FoldsOver(g, enter, base, SUBSET S)
        <2> HIDE DEF S, base, enter
        <2> QED BY <1>1, <1>2, <1>3, FoldsExist
  <1>5. Recursive(g)
        <2>1. \A T \in SUBSET S : T # {} =>
                enter[Picked(T), g[T \ {Picked(T)}]] = SU!Insert(Picked(T), g[T \ {Picked(T)}])
              BY PickedIn
        <2> HIDE DEF S, base, enter
        <2> QED BY <1>4, <2>1 DEF FoldsOver
  <1>6. Recursive(h)
        <2> HIDE DEF Recursive
        <2> QED BY <1>5
  <1>7. SU!Blacklisted = h[S]
        BY DEF SU!Blacklisted, SU!FoldSet, SU!MapThenFoldSet, Picked
  <1> DEFINE Good == {T \in SUBSET S : h[T] \in Blacklists}
  <1>8. ASSUME NEW T \in SUBSET S, \A U \in SUBSET T : U # T => U \in Good
        PROVE  T \in Good
        <2> HIDE DEF S, base, h
        <2>1. CASE T = {}
              BY <1>2, <1>6, <2>1
        <2>2. CASE T # {}
              <3>1. h[T \ {Picked(T)}] \in Blacklists
                    BY <1>8, <2>2, PickedIn
              <3>2. h[T] = SU!Insert(Picked(T), h[T \ {Picked(T)}])
                    BY <1>6, <2>2
              <3>3. SU!Insert(Picked(T), h[T \ {Picked(T)}]) \in Blacklists
                    BY <3>1, InsertStays
              <3> QED BY <3>2, <3>3
        <2> QED BY <2>1, <2>2
  <1>9. SUBSET S \subseteq Good
        <2> HIDE DEF S, Good
        <2> QED BY <1>1, <1>8, SubsetInduction
  <1> HIDE DEF h, S
  <1> QED BY <1>7, <1>9

(* What the tables, the lists and the game's rows are.                      *)
SubscriptionTypes ==
  /\ discovered \subseteq LeagueEvents /\ over \subseteq LeagueEvents /\ flips \in 0..MaxFlips
  /\ shown \in [LeagueEvents -> {"absent", "playing", "final"}]
  /\ odds \in [LeagueEvents -> {"none", "fresh", "frozen"}]
  /\ token_map_ \subseteq Market /\ market_catalog_ \subseteq Market
  /\ last_sub_eligible_ \subseteq Market /\ mapping \subseteq Market
  /\ blacklist \in Blacklists

LEMMA WorldHasTypes ==
  ASSUME SU!SubscriptionAssumption, SubscriptionTypes, SU!World
  PROVE  SubscriptionTypes'
  <1>1. SU!Flip => flips' \in 0..MaxFlips
        BY DEF SU!SubscriptionAssumption, SU!Flip, SubscriptionTypes
  <1>2. ASSUME NEW events \in SUBSET LeagueEvents, SU!List(events)
        PROVE  SubscriptionTypes'
        BY <1>1, <1>2 DEF SU!List, SU!tables, SU!matching, SubscriptionTypes
  <1>3. ASSUME NEW e \in LeagueEvents, NEW how \in {"absent", "playing", "final"}, SU!Show(e, how)
        PROVE  SubscriptionTypes'
        BY <1>1, <1>3 DEF SU!Show, SU!tables, SU!matching, SubscriptionTypes
  <1>4. ASSUME NEW e \in LeagueEvents, NEW how \in {"none", "fresh", "frozen"}, SU!Quote(e, how)
        PROVE  SubscriptionTypes'
        BY <1>1, <1>4 DEF SU!Quote, SU!tables, SU!matching, SubscriptionTypes
  <1>5. ASSUME NEW e \in LeagueEvents, SU!EndOfGame(e) \/ SU!Stale(e)
        PROVE  SubscriptionTypes'
        BY <1>5 DEF SU!EndOfGame, SU!Stale, SU!tables, SU!matching, SubscriptionTypes
  <1> QED BY <1>2, <1>3, <1>4, <1>5 DEF SU!World

LEMMA RoundHasTypes ==
  ASSUME SU!SubscriptionAssumption, SubscriptionInv, SubscriptionTypes, NEW due \in BOOLEAN,
         SU!RefreshEventMapping(due)
  PROVE  SubscriptionTypes'
  <1>1. SU!RediscoverOnce \/ UNCHANGED SU!tables
        BY DEF SU!RefreshEventMapping
  <1>2. market_match_inputs_' \subseteq Market
        BY <1>1, RediscoverKeeps
  <1>3. token_map_' \subseteq Market /\ market_catalog_' \subseteq Market /\ last_sub_eligible_' \subseteq Market
        <2>1. SU!Admitted(discovered) \subseteq Market /\ sharp \subseteq Market
              BY DEF SU!Admitted, SubscriptionInv
        <2>2. CASE SU!PopulateCatalog(discovered) /\ last_sub_eligible_' = sharp
              BY <2>1, <2>2 DEF SU!PopulateCatalog
        <2>3. CASE UNCHANGED SU!tables
              BY <2>3 DEF SU!tables, SubscriptionTypes
        <2> QED BY <1>1, <2>2, <2>3 DEF SU!RediscoverOnce
  <1>4. SU!Matched \subseteq Market
        BY <1>2 DEF SU!Matched
  <1>5. SU!Ended \in SUBSET LeagueEvents
        <2>1. \A m \in Market : m.event \in LeagueEvents
              BY DEF SU!SubscriptionAssumption
        <2> QED BY <1>4, <2>1 DEF SU!Ended
  <1>6. blacklist' \in Blacklists /\ mapping' \subseteq Market
        <2>1. SU!Blacklisted \in Blacklists
              BY <1>5, BlacklistStays DEF SubscriptionTypes
        <2> QED BY <1>4, <2>1 DEF SU!RefreshEventMapping, SU!Refresh
  <1>7. UNCHANGED <<discovered, over, shown, odds, flips>>
        BY DEF SU!RefreshEventMapping, SU!world
  <1> QED BY <1>3, <1>6, <1>7 DEF SubscriptionTypes

LEMMA SubscriptionHasTypes ==
  ASSUME SU!SubscriptionAssumption
  PROVE  SU!Spec => []SU!TypeOK
  <1>1. SU!Init => SubscriptionInv
        BY SubscriptionInit
  <1>2. SubscriptionInv /\ [SU!Next]_SU!vars => SubscriptionInv'
        BY SubscriptionNext
  <1>3. SU!Init => SubscriptionTypes
        BY DEF SU!Init, SU!SubscriptionAssumption, SU!None, Blacklists, SubscriptionTypes
  <1>4. SubscriptionInv /\ SubscriptionTypes /\ [SU!Next]_SU!vars => SubscriptionTypes'
        <2>1. UNCHANGED SU!vars /\ SubscriptionTypes => SubscriptionTypes'
              BY DEF SU!vars, SU!world, SU!tables, SU!matching, SubscriptionTypes
        <2> QED BY <2>1, WorldHasTypes, RoundHasTypes DEF SU!Next
  <1>5. SubscriptionInv /\ SubscriptionTypes => SU!TypeOK
        <2> SUFFICES ASSUME SubscriptionInv, SubscriptionTypes PROVE SU!TypeOK
            OBVIOUS
        <2>1. sharp \subseteq Market
              BY DEF SubscriptionInv
        <2> QED BY <2>1 DEF SubscriptionInv, SubscriptionTypes, Blacklists, SU!TypeOK
  <1> QED BY <1>1, <1>2, <1>3, <1>4, <1>5, PTL DEF SU!Spec

(* A market in play that is listed, not blacklisted and was heard of within *)
(* the grace keeps its subscription, whatever the rounds rediscover         *)
(* (TraderDaemon::RefreshEventMapping, PopulateCatalog).                    *)
THEOREM SpecNoFlap ==
  ASSUME SU!SubscriptionAssumption
  PROVE  SU!Spec => SU!NoFlap
  <1>1. SU!Init => SubscriptionInv
        BY SubscriptionInit
  <1>2. SubscriptionInv /\ [SU!Next]_SU!vars => SubscriptionInv'
        BY SubscriptionNext
  <1>3. SubscriptionInv /\ [SU!Next]_SU!vars =>
          [\A m \in subscribed \ subscribed' :
             \/ quiet[m.event] = kSharpGrace
             \/ m.event \notin discovered \/ blacklist[m.event] > 0]_SU!vars
        <2> SUFFICES ASSUME SubscriptionInv, SU!Next, NEW m \in subscribed \ subscribed'
                     PROVE  \/ quiet[m.event] = kSharpGrace
                            \/ m.event \notin discovered \/ blacklist[m.event] > 0
            OBVIOUS
        <2>1. CASE SU!World
              <3>1. subscribed' = subscribed
                    BY <2>1 DEF SU!World, SU!List, SU!Show, SU!Quote, SU!EndOfGame, SU!Stale,
                                SU!tables
              <3> QED BY <3>1
        <2>2. ASSUME NEW due \in BOOLEAN, SU!RefreshEventMapping(due)
              PROVE  m \notin sharp \/ m.event \notin discovered \/ blacklist[m.event] > 0
              <3>1. SU!RediscoverOnce \/ UNCHANGED SU!tables
                    BY <2>2 DEF SU!RefreshEventMapping
              <3> QED BY <3>1, RediscoverKeeps
        <2>3. ASSUME m \notin sharp PROVE quiet[m.event] = kSharpGrace
              <3>1. m \in Market /\ SU!Matchable(m) /\ m.event \in LeagueEvents /\ kSharpGrace \in Nat
                    BY DEF SubscriptionInv, SU!SubscriptionAssumption
              <3>2. /\ sharp_age[m] \in 0..kSharpGrace /\ ~(sharp_age[m] < kSharpGrace)
                    /\ sharp_age[m] <= quiet[m.event] /\ quiet[m.event] \in 0..kSharpGrace
                    BY <2>3, <3>1 DEF SubscriptionInv
              <3> QED BY <3>1, <3>2
        <2> QED BY <2>1, <2>2, <2>3 DEF SU!Next
  <1> QED BY <1>1, <1>2, <1>3, PTL DEF SU!Spec, SU!NoFlap
-----------------------------------------------------------------------------
(* What a frame is read as.                                                 *)

(* An element more, and one less, in a sequence.                            *)
HasBetween(S, s, i, e, r) ==
  /\ r \in Seq(S) /\ Len(r) = Len(s) + 1
  /\ \A k \in 1..Len(s) + 1 : r[k] = IF k < i THEN s[k] ELSE IF k = i THEN e ELSE s[k - 1]

LEMMA Inserted ==
  ASSUME NEW S, NEW s \in Seq(S), NEW i \in 1..Len(s) + 1, NEW e \in S
  PROVE  HasBetween(S, s, i, e, FR!InsertAt(s, i, e))
  <1> DEFINE a == SubSeq(s, 1, i - 1)
             b == SubSeq(s, i, Len(s))
             ab == a \o <<e>>
  <1>1. Len(s) \in Nat /\ \A k \in 1..Len(s) : s[k] \in S
        BY LenProperties
  <1>2. a \in Seq(S) /\ Len(a) = i - 1 /\ \A k \in 1..i - 1 : a[k] = s[k]
        BY <1>1, SubSeqProperties
  <1>3. b \in Seq(S) /\ Len(b) = Len(s) + 1 - i /\ \A k \in 1..Len(s) + 1 - i : b[k] = s[i + k - 1]
        BY <1>1, SubSeqProperties
  <1>4. <<e>> \in Seq(S) /\ Len(<<e>>) = 1 /\ <<e>>[1] = e
        OBVIOUS
  <1> HIDE DEF a, b
  <1>5. ab \in Seq(S) /\ Len(ab) = i /\ \A k \in 1..i : ab[k] = IF k < i THEN s[k] ELSE e
        BY <1>1, <1>2, <1>4, ConcatProperties
  <1> HIDE DEF ab
  <1>6. /\ ab \o b \in Seq(S) /\ Len(ab \o b) = Len(s) + 1
        /\ \A k \in 1..Len(s) + 1 :
             (ab \o b)[k] = IF k < i THEN s[k] ELSE IF k = i THEN e ELSE s[k - 1]
        <2>1. /\ ab \o b \in Seq(S) /\ Len(ab \o b) = Len(ab) + Len(b)
              /\ \A k \in 1..Len(ab) + Len(b) :
                   (ab \o b)[k] = IF k <= Len(ab) THEN ab[k] ELSE b[k - Len(ab)]
              BY <1>3, <1>5, ConcatProperties
        <2> QED BY <1>1, <1>3, <1>5, <2>1
  <1> QED BY <1>6 DEF FR!InsertAt, HasBetween, a, b, ab

(* The first and the last of some places, and the first market that fits.   *)
LEMMA LeastPlace ==
  ASSUME NEW S \in SUBSET Int, IsFiniteSet(S), S # {}
  PROVE  FR!Least(S) \in S /\ \A y \in S : FR!Least(S) <= y
  BY FiniteHasLeast DEF FR!Least

(* The only place is the first and the last.                                *)
LEMMA OnlyPlace ==
  ASSUME NEW i \in Int
  PROVE  FR!Least({i}) = i /\ FR!Most({i}) = i
  BY DEF FR!Least, FR!Most

(* A market that fits, with none before it that does; none if none fits.    *)
LEMMA FirstFits ==
  ASSUME NEW T, NEW ids \in Seq(T), NEW fits
  PROVE  \/ FR!FirstMarket(ids, fits) = "" /\ \A i \in DOMAIN ids : ids[i] \notin fits
         \/ \E i \in DOMAIN ids :
              /\ ids[i] \in fits /\ FR!FirstMarket(ids, fits) = ids[i]
              /\ \A j \in DOMAIN ids : ids[j] \in fits => i <= j
  <1> DEFINE places == {i \in DOMAIN ids : ids[i] \in fits}
  <1>1. places \in SUBSET Int /\ IsFiniteSet(places)
        <2>1. DOMAIN ids = 1..Len(ids) /\ Len(ids) \in Nat
              BY LenProperties
        <2>2. IsFiniteSet(1..Len(ids))
              BY <2>1, FS_Interval
        <2> QED BY <2>1, <2>2, FS_Subset
  <1>2. CASE places = {}
        BY <1>2 DEF FR!FirstMarket
  <1>3. CASE places # {}
        <2>1. FR!Least(places) \in places /\ \A j \in places : FR!Least(places) <= j
              <3> HIDE DEF places
              <3> QED BY <1>1, <1>3, LeastPlace
        <2>2. FR!FirstMarket(ids, fits) = ids[FR!Least(places)]
              BY <1>3 DEF FR!FirstMarket
        <2> QED BY <2>1, <2>2
  <1> QED BY <1>2, <1>3

(* A market that has legs is priced with its own.                           *)
LEMMA OwnLegs ==
  ASSUME NEW ids \in Seq(DOMAIN Offered), FR!IsInjective(ids), NEW p \in DOMAIN ids,
         Offered[ids[p]].legs # << >>
  PROVE  FR!LegsFrom(ids, ids[p]) = ids[p]
  <1> DEFINE after == {k \in DOMAIN ids : \E j \in 1..k : ids[j] = ids[p]}
             fits == {ids[k] : k \in {i \in after : Offered[ids[i]].legs # << >>}}
  <1>1. DOMAIN ids = 1..Len(ids) /\ Len(ids) \in Nat
        BY LenProperties
  <1>2. \A j, k \in DOMAIN ids : ids[j] = ids[k] => j = k
        BY DEF FR!IsInjective
  <1>3. ids[p] \in fits
        BY <1>1
  <1>4. ASSUME NEW i \in DOMAIN ids, ids[i] \in fits
        PROVE  p <= i
        <2>1. PICK k \in after : ids[i] = ids[k]
              BY <1>4
        <2>2. k = i
              BY <1>2, <2>1
        <2>3. PICK j \in 1..i : ids[j] = ids[p]
              BY <2>1, <2>2
        <2>4. j \in DOMAIN ids
              BY <1>1
        <2>5. j = p
              BY <1>2, <2>3, <2>4
        <2> QED BY <1>1, <2>5
  <1>5. FR!LegsFrom(ids, ids[p]) = FR!FirstMarket(ids, fits)
        BY DEF FR!LegsFrom
  <1> HIDE DEF after, fits
  <1>6. PICK i \in DOMAIN ids :
          /\ ids[i] \in fits /\ FR!FirstMarket(ids, fits) = ids[i]
          /\ \A j \in DOMAIN ids : ids[j] \in fits => i <= j
        BY <1>3, FirstFits
  <1>7. i = p
        BY <1>1, <1>3, <1>4, <1>6
  <1> QED BY <1>5, <1>6, <1>7

(* The legs of a market: the price of a side that takes bets is its leg's.  *)
LEMMA LegFacts ==
  ASSUME FR!FrameAssumption, NEW id \in DOMAIN Offered
  PROVE  LET legs == Offered[id].legs IN
         /\ FR!Legible(legs) /\ Len(legs) \in Nat /\ DOMAIN legs = 1..Len(legs)
         /\ \A i \in DOMAIN legs :
              legs[i] \in [side : {"home", "draw", "away"}, name : STRING, eu : Nat]
         /\ FR!ActiveLegs(id) \subseteq DOMAIN legs /\ IsFiniteSet(FR!ActiveLegs(id))
         /\ \A S : FR!Cardinality(S) = Cardinality(S)
  <1> DEFINE legs == Offered[id].legs
  <1>1. FR!Legible(legs)
        BY DEF FR!FrameAssumption
  <1>2. legs \in Seq([side : {"home", "draw", "away"}, name : STRING, eu : Nat])
        BY <1>1 DEF FR!Legible
  <1> HIDE DEF legs
  <1>3. /\ Len(legs) \in Nat /\ DOMAIN legs = 1..Len(legs)
        /\ \A i \in DOMAIN legs :
             legs[i] \in [side : {"home", "draw", "away"}, name : STRING, eu : Nat]
        BY <1>2, LenProperties, ZenonT(60)
  <1>4. FR!ActiveLegs(id) \subseteq DOMAIN legs
        BY DEF FR!ActiveLegs, legs
  <1>5. IsFiniteSet(FR!ActiveLegs(id))
        <2>1. IsFiniteSet(1..Len(legs))
              BY <1>3, FS_Interval
        <2> QED BY <1>3, <1>4, <2>1, FS_Subset
  <1>6. \A S : FR!Cardinality(S) = Cardinality(S)
        BY DEF Cardinality, FR!Cardinality
  <1> QED BY <1>1, <1>3, <1>4, <1>5, <1>6 DEF legs

(* The price of a side that takes bets is that of its active leg.           *)
LEMMA SidePrices ==
  ASSUME FR!FrameAssumption, NEW id \in DOMAIN Offered,
         NEW side \in {"home", "draw", "away"}
  PROVE  LET legs == Offered[id].legs
             on == FR!ActiveLegs(id)
         IN  /\ FR!Takes(id, side) <=> \E i \in on : legs[i].side = side
             /\ \A i \in on : legs[i].side = side =>
                  FR!PriceOn(id, side) = legs[i].eu /\ legs[i].eu \in Nat /\ legs[i].eu > 10
             /\ ~FR!Takes(id, side) => FR!PriceOn(id, side) = 0
  <1> DEFINE legs == Offered[id].legs
             on == FR!ActiveLegs(id)
             ofSide == {leg \in FR!ToSet(legs) : leg.side = side}
  <1>1. /\ \A i \in DOMAIN legs :
             legs[i] \in [side : {"home", "draw", "away"}, name : STRING, eu : Nat]
        /\ \A i, j \in DOMAIN legs : legs[i].side = legs[j].side => i = j
        BY LegFacts DEF FR!Legible
  <1>2. \A i : i \in on <=> i \in DOMAIN legs /\ legs[i].eu > 10 /\ <<id, legs[i].side>> \notin suspended
        BY DEF FR!ActiveLegs
  <1>3. \A leg : leg \in FR!ToSet(legs) <=> \E i \in DOMAIN legs : leg = legs[i]
        BY DEF FR!ToSet
  <1>4. FR!Takes(id, side) <=> \E i \in on : legs[i].side = side
        BY <1>2, <1>3 DEF FR!Takes
  <1>5. FR!PriceOn(id, side) =
          IF FR!Takes(id, side) THEN (CHOOSE leg \in FR!ToSet(legs) : leg.side = side).eu ELSE 0
        BY DEF FR!PriceOn
  <1> HIDE DEF legs, on
  <1>6. ASSUME NEW i \in on, legs[i].side = side
        PROVE  FR!PriceOn(id, side) = legs[i].eu /\ legs[i].eu \in Nat /\ legs[i].eu > 10
        <2>1. i \in DOMAIN legs /\ legs[i].eu > 10 /\ legs[i] \in FR!ToSet(legs)
              BY <1>2, <1>3, <1>6
        <2>2. \A leg \in FR!ToSet(legs) : leg.side = side => leg = legs[i]
              BY <1>1, <1>3, <1>6, <2>1
        <2>3. (CHOOSE leg \in FR!ToSet(legs) : leg.side = side) = legs[i]
              BY <1>6, <2>1, <2>2
        <2>4. FR!Takes(id, side)
              BY <1>4, <1>6
        <2> QED BY <1>1, <1>5, <2>1, <2>3, <2>4
  <1> QED BY <1>4, <1>5, <1>6 DEF legs, on

(* Where legs are called by their sides, a name finds the price of its side. *)
LEMMA NamedPrice ==
  ASSUME FR!FrameAssumption, NEW id \in DOMAIN Offered,
         \A i \in DOMAIN Offered[id].legs :
           <<Offered[id].legs[i].side, Offered[id].legs[i].name>> \in
             {<<"home", "Home">>, <<"draw", "Draw">>, <<"away", "Away">>},
         NEW side, NEW name,
         <<side, name>> \in {<<"home", "Home">>, <<"draw", "Draw">>, <<"away", "Away">>}
  PROVE  FR!PriceOf(Offered[id].legs, FR!ActiveLegs(id), name) = FR!PriceOn(id, side)
  <1> DEFINE legs == Offered[id].legs
             on == FR!ActiveLegs(id)
             named == {i \in on : legs[i].name = name}
  <1>1. on \subseteq DOMAIN legs /\ DOMAIN legs = 1..Len(legs) /\ Len(legs) \in Nat
        BY LegFacts
  <1>2. side \in {"home", "draw", "away"}
        OBVIOUS
  <1>3. \A i, j \in DOMAIN legs : legs[i].side = legs[j].side => i = j
        BY LegFacts DEF FR!Legible
  <1>4. \A i \in on : legs[i].name = name <=> legs[i].side = side
        BY <1>1
  <1>5. FR!PriceOf(legs, on, name) = IF named = {} THEN 0 ELSE legs[FR!Most(named)].eu
        BY DEF FR!PriceOf
  <1>6. /\ FR!Takes(id, side) <=> \E i \in on : legs[i].side = side
        /\ \A i \in on : legs[i].side = side => FR!PriceOn(id, side) = legs[i].eu
        /\ ~FR!Takes(id, side) => FR!PriceOn(id, side) = 0
        BY <1>2, SidePrices
  <1> HIDE DEF legs, on
  <1>7. \A i : i \in named <=> i \in on /\ legs[i].side = side
        BY <1>4
  <1>8. named \subseteq Int
        BY <1>1
  <1> HIDE DEF named
  <1>9. ASSUME named = {}
        PROVE  FR!PriceOf(legs, on, name) = FR!PriceOn(id, side)
        BY <1>5, <1>6, <1>7, <1>9
  <1>10. ASSUME named # {}
        PROVE  FR!PriceOf(legs, on, name) = FR!PriceOn(id, side)
        <2>1. PICK i \in named : TRUE
              BY <1>10
        <2>2. named = {i}
              BY <1>1, <1>3, <1>7, <2>1
        <2>3. FR!Most(named) = i
              BY <1>8, <2>1, <2>2, OnlyPlace
        <2> QED BY <1>5, <1>6, <1>7, <1>10, <2>1, <2>3
  <1> QED BY <1>9, <1>10 DEF legs, on

(* Two places are at least two.                                             *)
LEMMA PairOfPlaces ==
  ASSUME NEW i, NEW j, i # j
  PROVE  IsFiniteSet({i, j}) /\ Cardinality({i, j}) = 2
  <1>1. IsFiniteSet({i}) /\ Cardinality({i}) = 1 /\ j \notin {i} /\ {i} \cup {j} = {i, j}
        BY FS_Singleton
  <1> QED BY <1>1, FS_AddElement

(* With two different places there are two at least.                        *)
LEMMA TwoPlaces ==
  ASSUME NEW S, IsFiniteSet(S), NEW i \in S, NEW j \in S, i # j
  PROVE  Cardinality(S) \in Nat /\ Cardinality(S) >= 2
  <1>1. IsFiniteSet({i, j}) /\ Cardinality({i, j}) = 2
        BY PairOfPlaces
  <1>2. {i, j} \subseteq S
        OBVIOUS
  <1> QED BY <1>1, <1>2, FS_Subset, FS_CardinalityType

(* Within one place there are fewer.                                        *)
LEMMA OnePlace ==
  ASSUME NEW S, NEW i, S \subseteq {i}
  PROVE  Cardinality(S) < 2
  <1>1. IsFiniteSet({i}) /\ Cardinality({i}) = 1
        BY FS_Singleton
  <1>2. Cardinality(S) <= 1 /\ Cardinality(S) \in Nat
        BY <1>1, FS_Subset, FS_CardinalityType
  <1> QED BY <1>2

(* The chances read from the legs are those of the prices on offer, where   *)
(* both sides are on offer, and none otherwise.                             *)
LEMMA NamedLegs ==
  ASSUME FR!FrameAssumption, NEW id \in DOMAIN Offered,
         \A i \in DOMAIN Offered[id].legs :
           <<Offered[id].legs[i].side, Offered[id].legs[i].name>> \in
             {<<"home", "Home">>, <<"draw", "Draw">>, <<"away", "Away">>}
  PROVE  FR!DevigLegs(id) =
           IF FR!Takes(id, "home") /\ FR!Takes(id, "away") THEN FR!Worth(id) ELSE FR!NoOdds
  <1> DEFINE legs == Offered[id].legs
             on == FR!ActiveLegs(id)
             prices == [home |-> FR!PriceOn(id, "home"), away |-> FR!PriceOn(id, "away"),
                        draw |-> FR!PriceOn(id, "draw")]
  <1>1. /\ on \subseteq DOMAIN legs /\ IsFiniteSet(on) /\ FR!Cardinality(on) = Cardinality(on)
        /\ \A i, j \in DOMAIN legs : legs[i].side = legs[j].side => i = j
        BY LegFacts DEF FR!Legible
  <1>2. /\ FR!Takes(id, "home") <=> \E i \in on : legs[i].side = "home"
        /\ FR!Takes(id, "away") <=> \E i \in on : legs[i].side = "away"
        /\ ~FR!Takes(id, "home") => FR!PriceOn(id, "home") = 0
        /\ ~FR!Takes(id, "away") => FR!PriceOn(id, "away") = 0
        BY SidePrices
  <1>3. (\E i \in on : legs[i].name \in {"Home", "Away"}) => FR!Prices(legs, on) = prices
        <2>1. /\ FR!PriceOf(legs, on, "Home") = FR!PriceOn(id, "home")
              /\ FR!PriceOf(legs, on, "Away") = FR!PriceOn(id, "away")
              /\ FR!PriceOf(legs, on, "Draw") = FR!PriceOn(id, "draw")
              BY NamedPrice
        <2> QED BY <2>1 DEF FR!Prices
  <1>4. FR!DevigLegs(id) =
          IF Cardinality(on) < 2 THEN FR!NoOdds ELSE FR!Devigged(FR!Prices(legs, on))
        BY <1>1 DEF FR!DevigLegs
  <1>5. FR!Worth(id) = FR!Devigged(prices)
        BY DEF FR!Worth
  <1>6. prices.home = FR!PriceOn(id, "home") /\ prices.away = FR!PriceOn(id, "away")
        OBVIOUS
  <1>7. \A i \in on : <<legs[i].side, legs[i].name>> \in
                        {<<"home", "Home">>, <<"draw", "Draw">>, <<"away", "Away">>}
        BY <1>1
  <1> HIDE DEF legs, on, prices
  <1>8. CASE FR!Takes(id, "home") /\ FR!Takes(id, "away")
        <2>1. PICK i \in on, j \in on : legs[i].side = "home" /\ legs[j].side = "away"
              BY <1>2, <1>8
        <2>2. i # j
              BY <2>1
        <2>3. Cardinality(on) \in Nat /\ Cardinality(on) >= 2
              BY <1>1, <2>2, TwoPlaces
        <2>4. FR!Prices(legs, on) = prices
              BY <1>3, <1>7, <2>1
        <2> QED BY <1>4, <1>5, <1>8, <2>3, <2>4
  <1>9. CASE ~(FR!Takes(id, "home") /\ FR!Takes(id, "away"))
        <2>1. CASE \E i \in on : legs[i].name \in {"Home", "Away"}
              <3>1. prices.home = 0 \/ prices.away = 0
                    BY <1>2, <1>6, <1>9
              <3>2. FR!Devigged(prices) = FR!NoOdds
                    BY <3>1 DEF FR!Devigged
              <3> QED BY <1>3, <1>4, <1>9, <2>1, <3>2
        <2>2. CASE ~ \E i \in on : legs[i].name \in {"Home", "Away"}
              <3>1. \A i \in on : legs[i].side = "draw"
                    BY <1>7, <2>2
              <3>2. \E i : on \subseteq {i}
                    BY <1>1, <3>1
              <3>3. Cardinality(on) < 2
                    BY <3>2, OnePlace
              <3> QED BY <1>4, <1>9, <3>3
        <2> QED BY <2>1, <2>2
  <1> QED BY <1>8, <1>9

(* Legs without the usual names are told apart by their order.              *)
LEMMA UnnamedLegs ==
  ASSUME FR!FrameAssumption, NEW id \in DOMAIN Offered,
         Len(Offered[id].legs) = 2, Offered[id].legs[1].side = "home",
         \A i \in DOMAIN Offered[id].legs : Offered[id].legs[i].name \notin {"Home", "Draw", "Away"}
  PROVE  FR!DevigLegs(id) =
           IF FR!Takes(id, "home") /\ FR!Takes(id, "away") THEN FR!Worth(id) ELSE FR!NoOdds
  <1> DEFINE legs == Offered[id].legs
             on == FR!ActiveLegs(id)
  <1>1. /\ on \subseteq DOMAIN legs /\ IsFiniteSet(on) /\ FR!Cardinality(on) = Cardinality(on)
        /\ DOMAIN legs = 1..2
        /\ \A i, j \in DOMAIN legs : legs[i].side = legs[j].side => i = j
        /\ \E i, j \in DOMAIN legs : legs[i].side = "home" /\ legs[j].side = "away"
        BY LegFacts DEF FR!Legible
  <1>2. legs[1].side = "home" /\ legs[2].side = "away"
        BY <1>1
  <1>3. /\ FR!Takes(id, "home") <=> \E i \in on : legs[i].side = "home"
        /\ FR!Takes(id, "away") <=> \E i \in on : legs[i].side = "away"
        /\ FR!Takes(id, "draw") <=> \E i \in on : legs[i].side = "draw"
        /\ \A i \in on : legs[i].side = "home" => FR!PriceOn(id, "home") = legs[i].eu
        /\ \A i \in on : legs[i].side = "away" => FR!PriceOn(id, "away") = legs[i].eu
        /\ ~FR!Takes(id, "draw") => FR!PriceOn(id, "draw") = 0
        BY SidePrices
  <1>4. FR!DevigLegs(id) =
          IF Cardinality(on) < 2 THEN FR!NoOdds ELSE FR!Devigged(FR!Prices(legs, on))
        BY <1>1 DEF FR!DevigLegs
  <1>5. \A i \in on : legs[i].name \notin {"Home", "Draw", "Away"}
        BY <1>1
  <1> HIDE DEF legs, on
  <1>6. on \subseteq {1, 2}
        BY <1>1
  <1>7. CASE FR!Takes(id, "home") /\ FR!Takes(id, "away")
        <2>1. on = {1, 2}
              BY <1>2, <1>3, <1>6, <1>7
        <2>2. Cardinality(on) = 2
              <3>1. 1 # 2
                    OBVIOUS
              <3> QED BY <2>1, <3>1, PairOfPlaces
        <2>3. FR!Least(on) = 1 /\ FR!Most(on) = 2
              BY <2>1 DEF FR!Least, FR!Most
        <2>4. FR!PriceOf(legs, on, "Draw") = 0
              BY <1>5 DEF FR!PriceOf
        <2>5. FR!Prices(legs, on) = [home |-> legs[1].eu, away |-> legs[2].eu, draw |-> 0]
              BY <1>1, <1>5, <2>2, <2>3, <2>4 DEF FR!Prices
        <2>6. /\ FR!PriceOn(id, "home") = legs[1].eu /\ FR!PriceOn(id, "away") = legs[2].eu
              /\ FR!PriceOn(id, "draw") = 0
              BY <1>2, <1>3, <2>1
        <2> QED BY <1>4, <1>7, <2>2, <2>5, <2>6 DEF FR!Worth
  <1>8. CASE ~(FR!Takes(id, "home") /\ FR!Takes(id, "away"))
        <2>1. on \subseteq {1} \/ on \subseteq {2}
              BY <1>2, <1>3, <1>6, <1>8
        <2>2. Cardinality(on) < 2
              BY <2>1, OnePlace
        <2> QED BY <1>4, <1>8, <2>2
  <1> QED BY <1>7, <1>8

(* Either way the chances are what the market is worth.                     *)
LEMMA LegsAreWorth ==
  ASSUME FR!FrameAssumption, NEW id \in DOMAIN Offered
  PROVE  FR!DevigLegs(id) =
           IF FR!Takes(id, "home") /\ FR!Takes(id, "away") THEN FR!Worth(id) ELSE FR!NoOdds
  BY NamedLegs, UnnamedLegs, LegFacts DEF FR!Legible

(* What both sides offer has chances.                                       *)
LEMMA QuotientIsNat ==
  ASSUME NEW n \in Nat, NEW d \in Nat \ {0}
  PROVE  n \div d \in Nat
  OBVIOUS

(* Prices multiply to more than nothing.                                    *)
LEMMA ProductIsPositive ==
  ASSUME NEW m \in Nat \ {0}, NEW n \in Nat \ {0}
  PROVE  m * n \in Nat \ {0}
  OBVIOUS

(* A market with both sides on offer has chances.                           *)
LEMMA WorthIsThere ==
  ASSUME FR!FrameAssumption, NEW id \in DOMAIN Offered,
         FR!Takes(id, "home"), FR!Takes(id, "away")
  PROVE  FR!Worth(id).home >= 0
  <1> DEFINE legs == Offered[id].legs
             on == FR!ActiveLegs(id)
             h == FR!PriceOn(id, "home")
             a == FR!PriceOn(id, "away")
             d == FR!PriceOn(id, "draw")
  <1>1. h \in Nat /\ h > 10 /\ a \in Nat /\ a > 10
        BY SidePrices
  <1>2. d \in Nat
        <2>1. CASE FR!Takes(id, "draw")
              BY <2>1, SidePrices
        <2>2. CASE ~FR!Takes(id, "draw")
              BY <2>2, SidePrices
        <2> QED BY <2>1, <2>2
  <1>3. FR!Worth(id) = FR!Devigged([home |-> h, away |-> a, draw |-> d])
        BY DEF FR!Worth
  <1> HIDE DEF h, a, d
  <1>4. CASE d > 10
        <2>1. h * a \in Nat \ {0} /\ h * d \in Nat \ {0} /\ a * d \in Nat \ {0}
              BY <1>1, <1>2, <1>4, ProductIsPositive
        <2>2. 1000 * a * d \in Nat /\ h * a + h * d + a * d \in Nat \ {0}
              <3>1. 1000 * a * d = 1000 * (a * d)
                    BY <1>1, <1>2
              <3> QED BY <2>1, <3>1
        <2>3. FR!Share(h, a, d) \in Nat
              BY <2>2, QuotientIsNat DEF FR!Share
        <2>4. FR!Devigged([home |-> h, away |-> a, draw |-> d]).home = FR!Share(h, a, d)
              BY <1>1, <1>2, <1>4 DEF FR!Devigged
        <2> QED BY <1>3, <2>3, <2>4
  <1>5. CASE ~(d > 10)
        <2>1. (1000 * a) \div (h + a) \in Nat
              <3>1. 1000 * a \in Nat /\ h + a \in Nat \ {0}
                    BY <1>1
              <3> QED BY <3>1, QuotientIsNat
        <2>2. FR!Devigged([home |-> h, away |-> a, draw |-> d]).home = (1000 * a) \div (h + a)
              BY <1>1, <1>2, <1>5 DEF FR!Devigged
        <2> QED BY <1>3, <2>1, <2>2
  <1> QED BY <1>4, <1>5

(* What is read for one listed market is what both its sides offer.         *)
LEMMA ReadOf ==
  ASSUME FR!FrameAssumption, FR!TypeOK, NEW p \in DOMAIN markets
  PROVE  /\ markets[p] \in DOMAIN Offered /\ markets[p] \in FR!ToSet(markets)
         /\ FR!ParseInplayOddsDevig(markets, markets[p]) =
              IF FR!Takes(markets[p], "home") /\ FR!Takes(markets[p], "away")
              THEN FR!Worth(markets[p]) ELSE FR!NoOdds
  <1>1. markets \in Seq(DOMAIN Offered) /\ FR!IsInjective(markets)
        BY DEF FR!TypeOK
  <1>2. markets[p] \in DOMAIN Offered /\ markets[p] \in FR!ToSet(markets)
        BY <1>1 DEF FR!ToSet
  <1>3. Offered[markets[p]].legs # << >>
        <2>1. FR!Legible(Offered[markets[p]].legs)
              BY <1>2, LegFacts, SMTT(30)
        <2>2. DOMAIN Offered[markets[p]].legs # {}
              BY <2>1 DEF FR!Legible
        <2> QED BY <2>2
  <1>4. FR!LegsFrom(markets, markets[p]) = markets[p]
        BY <1>1, <1>3, OwnLegs
  <1>5. markets[p] # ""
        BY <1>2 DEF FR!FrameAssumption
  <1> QED BY <1>2, <1>4, <1>5, LegsAreWorth DEF FR!ParseInplayOddsDevig

(* The chances read are those of one market that is listed and fits, and    *)
(* where all that fit are whole there are chances.                          *)
LEMMA ReadsFirst ==
  ASSUME FR!FrameAssumption, FR!TypeOK, NEW fits, NEW about,
         \A id \in fits : id \in DOMAIN Offered => Offered[id].about = about
  PROVE  LET chances == FR!ParseInplayOddsDevig(markets, FR!FirstMarket(markets, fits)) IN
         /\ chances.home >= 0 => FR!Priced(chances.home, chances.away, about)
         /\ (\E id \in FR!ToSet(markets) : id \in fits)
              /\ (\A id \in FR!ToSet(markets) \cap fits : FR!Whole(id)) => chances.home >= 0
  <1> DEFINE first == FR!FirstMarket(markets, fits)
             chances == FR!ParseInplayOddsDevig(markets, first)
  <1>1. markets \in Seq(DOMAIN Offered)
        BY DEF FR!TypeOK
  <1>2. CASE first = "" /\ \A i \in DOMAIN markets : markets[i] \notin fits
        <2>1. chances = FR!NoOdds
              BY <1>2 DEF FR!ParseInplayOddsDevig
        <2>2. FR!NoOdds.home = -1 /\ ~(-1 >= 0)
              BY DEF FR!NoOdds
        <2>3. ~ \E id \in FR!ToSet(markets) : id \in fits
              BY <1>2 DEF FR!ToSet
        <2> QED BY <2>1, <2>2, <2>3
  <1>3. ASSUME NEW i \in DOMAIN markets, markets[i] \in fits, first = markets[i]
        PROVE  /\ chances.home >= 0 => FR!Priced(chances.home, chances.away, about)
               /\ (\A id \in FR!ToSet(markets) \cap fits : FR!Whole(id)) => chances.home >= 0
        <2>1. /\ markets[i] \in DOMAIN Offered /\ markets[i] \in FR!ToSet(markets)
              /\ chances = IF FR!Takes(markets[i], "home") /\ FR!Takes(markets[i], "away")
                        THEN FR!Worth(markets[i]) ELSE FR!NoOdds
              BY <1>3, ReadOf
        <2>2. Offered[markets[i]].about = about
              BY <1>3, <2>1
        <2>3. FR!NoOdds.home = -1 /\ ~(-1 >= 0)
              BY DEF FR!NoOdds
        <2>4. ASSUME chances.home >= 0
              PROVE  FR!Priced(chances.home, chances.away, about)
              BY <2>1, <2>2, <2>3, <2>4 DEF FR!Priced
        <2>5. ASSUME FR!Whole(markets[i])
              PROVE  chances.home >= 0
              <3>1. FR!Takes(markets[i], "home") /\ FR!Takes(markets[i], "away")
                    <4>1. PICK j \in DOMAIN Offered[markets[i]].legs, k \in DOMAIN Offered[markets[i]].legs :
                            Offered[markets[i]].legs[j].side = "home" /\ Offered[markets[i]].legs[k].side = "away"
                          BY <2>1, LegFacts DEF FR!Legible
                    <4>2. /\ Offered[markets[i]].legs[j] \in FR!ToSet(Offered[markets[i]].legs)
                          /\ Offered[markets[i]].legs[k] \in FR!ToSet(Offered[markets[i]].legs)
                          BY <4>1 DEF FR!ToSet
                    <4> QED BY <2>5, <4>1, <4>2 DEF FR!Whole
              <3> QED BY <2>1, <3>1, WorthIsThere
        <2> QED BY <1>3, <2>1, <2>4, <2>5
  <1>4. \/ first = "" /\ \A i \in DOMAIN markets : markets[i] \notin fits
        \/ \E i \in DOMAIN markets : markets[i] \in fits /\ first = markets[i]
        BY <1>1, FirstFits
  <1> HIDE DEF chances, first
  <1>5. /\ chances.home >= 0 => FR!Priced(chances.home, chances.away, about)
        /\ (\E id \in FR!ToSet(markets) : id \in fits)
             /\ (\A id \in FR!ToSet(markets) \cap fits : FR!Whole(id)) => chances.home >= 0
        BY <1>2, <1>3, <1>4 DEF chances, first
  <1> QED BY <1>5 DEF chances, first

(* The match: the dictionary's ids first, then the names.                   *)
LEMMA MatchOdds ==
  ASSUME FR!FrameAssumption, FR!TypeOK,
         NEW e, e.odds_home = FR!ParseInplayOddsDevigResult(markets).home,
         e.odds_away = FR!ParseInplayOddsDevigResult(markets).away
  PROVE  FR!MatchIsPriced(e)
  <1> DEFINE named == {id \in FR!ToSet(markets) : FR!IsResultMarketName(Offered[id].name)}
             fits == IF \E i \in DOMAIN markets : markets[i] \in result_ids
                     THEN result_ids ELSE named
             chances == FR!ParseInplayOddsDevig(markets, FR!FirstMarket(markets, fits))
  <1>1. FR!ParseInplayOddsDevigResult(markets) = chances
        BY DEF FR!ParseInplayOddsDevigResult, FR!SelectResultMarketId
  <1>2. \A id \in fits : id \in DOMAIN Offered => Offered[id].about = 0
        BY DEF FR!TypeOK, FR!FrameAssumption, FR!Truthful
  <1>3. fits \cap FR!ToSet(markets) \subseteq
          {id \in FR!ToSet(markets) : Offered[id].about = 0 /\ FR!Called(id)}
        <2>1. FR!ToSet(markets) \subseteq DOMAIN Offered
              BY DEF FR!TypeOK, FR!ToSet
        <2>2. \A id \in fits : FR!Called(id)
              BY DEF FR!Called, FR!IsResultMarketName
        <2> QED BY <1>2, <2>1, <2>2
  <1>4. ASSUME NEW id \in FR!ToSet(markets), Offered[id].about = 0, FR!Called(id)
        PROVE  \E other \in FR!ToSet(markets) : other \in fits
        <2>0. id \in DOMAIN Offered /\ \E i \in DOMAIN markets : markets[i] = id
              BY DEF FR!TypeOK, FR!ToSet
        <2>1. CASE \E i \in DOMAIN markets : markets[i] \in result_ids
              BY <2>1 DEF FR!ToSet
        <2>2. CASE ~ \E i \in DOMAIN markets : markets[i] \in result_ids
              <3>1. Offered[id].name \cap FR!kStrong # {}
                    BY <1>4, <2>0, <2>2 DEF FR!Called
              <3>2. Offered[id].name \cap FR!kDisq = {}
                    BY <1>4, <2>0 DEF FR!FrameAssumption, FR!Truthful
              <3>3. id \in named
                    BY <3>1, <3>2 DEF FR!IsResultMarketName
              <3> QED BY <2>2, <3>3
        <2> QED BY <2>1, <2>2
  <1> HIDE DEF fits
  <1>5. /\ chances.home >= 0 => FR!Priced(chances.home, chances.away, 0)
        /\ (\E id \in FR!ToSet(markets) : id \in fits)
             /\ (\A id \in FR!ToSet(markets) \cap fits : FR!Whole(id)) => chances.home >= 0
        BY <1>2, ReadsFirst
  <1> HIDE DEF chances
  <1>6. e.odds_home = chances.home /\ e.odds_away = chances.away
        BY <1>1
  <1> QED BY <1>3, <1>4, <1>5, <1>6 DEF FR!MatchIsPriced

-----------------------------------------------------------------------------
(* The score.  Of a set that is over one side leads and has six games; a    *)
(* set that is not over and in which a side that leads has six stands 6:5.  *)
LEMMA SetFacts ==
  ASSUME NEW set \in (0..7) \X (0..7), set[1] + set[2] <= 13
  PROVE  /\ FR!SetOver(set) => \/ set[1] >= 6 /\ set[1] > set[2]
                               \/ set[2] >= 6 /\ set[2] > set[1]
         /\ ~FR!SetOver(set) => set[1] <= 6 /\ set[2] <= 6
         /\ ~FR!SetOver(set) /\ {set[1], set[2]} # {6, 5} =>
              ~(set[1] >= 6 /\ set[1] > set[2]) /\ ~(set[2] >= 6 /\ set[2] > set[1])
  <1> DEFINE a == set[1]
             b == set[2]
  <1>1. a \in 0..7 /\ b \in 0..7
        OBVIOUS
  <1>2. FR!SetOver(set) <=> (a = 7 \/ b = 7 \/ (a >= 6 /\ a - b >= 2) \/ (b >= 6 /\ b - a >= 2))
        BY DEF FR!SetOver
  <1> HIDE DEF a, b
  <1>3. a = 6 /\ b = 5 => {a, b} = {6, 5}
        OBVIOUS
  <1>4. a = 5 /\ b = 6 => {a, b} = {6, 5}
        OBVIOUS
  <1>5. a + b <= 13
        BY DEF a, b
  <1>6. /\ FR!SetOver(set) => (a >= 6 /\ a > b) \/ (b >= 6 /\ b > a)
        /\ ~FR!SetOver(set) => a <= 6 /\ b <= 6
        BY <1>1, <1>2, <1>5
  <1>7. ASSUME ~FR!SetOver(set), {a, b} # {6, 5}
        PROVE  ~(a >= 6 /\ a > b) /\ ~(b >= 6 /\ b > a)
        <2>1. ~(a = 6 /\ b = 5) /\ ~(a = 5 /\ b = 6)
              BY <1>3, <1>4, <1>7
        <2> QED BY <1>1, <1>2, <1>7, <2>1
  <1> QED BY <1>6, <1>7 DEF a, b

(* The sets of a match, numbered.                                           *)
Sets == play.score
OverSets == {k \in DOMAIN Sets : FR!SetOver(Sets[k])}
LedBy(side) == {k \in DOMAIN Sets : Sets[k][side] >= 6 /\ Sets[k][side] > Sets[k][3 - side]}

(* The sets of a game of tennis, typed.                                     *)
LEMMA TennisFacts ==
  ASSUME FR!FrameAssumption, FR!TypeOK, play.sport = "tennis"
  PROVE  /\ Len(Sets) \in Nat \ {0} /\ DOMAIN Sets = 1..Len(Sets)
         /\ \A k \in DOMAIN Sets : /\ Sets[k] \in (0..7) \X (0..7) /\ Sets[k][1] + Sets[k][2] <= 13
                                   /\ k < Len(Sets) => FR!SetOver(Sets[k])
         /\ FR!Last(Sets) = Sets[Len(Sets)]
  <1>1. Sets \in Seq(Nat \X Nat) /\ Sets # << >> /\ FR!TennisSets(Sets)
        BY DEF FR!TypeOK, FR!Played, FR!Plays, Sets
  <1>2. Len(Sets) \in Nat \ {0} /\ DOMAIN Sets = 1..Len(Sets)
        BY <1>1, LenProperties, EmptySeq
  <1> QED BY <1>1, <1>2 DEF FR!TennisSets, FR!Last

(* But at 6:5 the sets the parser counts are those that are over.           *)
LEMMA CountedSets ==
  ASSUME FR!FrameAssumption, FR!TypeOK, play.sport = "tennis", ~FR!SixFive
  PROVE  /\ LedBy(1) = {k \in DOMAIN Sets : FR!SetOver(Sets[k]) /\ Sets[k][1] > Sets[k][2]}
         /\ LedBy(2) = {k \in DOMAIN Sets : FR!SetOver(Sets[k]) /\ Sets[k][2] > Sets[k][1]}
         /\ LedBy(1) \cap LedBy(2) = {} /\ LedBy(1) \cup LedBy(2) = OverSets
  <1>1. ASSUME NEW k \in DOMAIN Sets
        PROVE  /\ FR!SetOver(Sets[k]) => \/ Sets[k][1] >= 6 /\ Sets[k][1] > Sets[k][2]
                                         \/ Sets[k][2] >= 6 /\ Sets[k][2] > Sets[k][1]
               /\ ~FR!SetOver(Sets[k]) => /\ ~(Sets[k][1] >= 6 /\ Sets[k][1] > Sets[k][2])
                                          /\ ~(Sets[k][2] >= 6 /\ Sets[k][2] > Sets[k][1])
               /\ Sets[k][1] \in Nat /\ Sets[k][2] \in Nat
        <2>1. /\ Sets[k] \in (0..7) \X (0..7) /\ Sets[k][1] + Sets[k][2] <= 13
              /\ ~FR!SetOver(Sets[k]) => {Sets[k][1], Sets[k][2]} # {6, 5}
              <3>1. ASSUME ~FR!SetOver(Sets[k])
                    PROVE  k = Len(Sets)
                    BY <3>1, TennisFacts
              <3>2. {Sets[Len(Sets)][1], Sets[Len(Sets)][2]} # {6, 5}
                    BY TennisFacts DEF FR!SixFive, Sets
              <3> QED BY <3>1, <3>2, TennisFacts
        <2> QED BY <2>1, SetFacts
  <1>2. 3 - 1 = 2 /\ 3 - 2 = 1
        OBVIOUS
  <1>3. /\ LedBy(1) = {k \in DOMAIN Sets : Sets[k][1] >= 6 /\ Sets[k][1] > Sets[k][2]}
        /\ LedBy(2) = {k \in DOMAIN Sets : Sets[k][2] >= 6 /\ Sets[k][2] > Sets[k][1]}
        BY <1>2 DEF LedBy
  <1>4. LedBy(1) = {k \in DOMAIN Sets : FR!SetOver(Sets[k]) /\ Sets[k][1] > Sets[k][2]}
        <2> SUFFICES ASSUME NEW k \in DOMAIN Sets
                     PROVE  Sets[k][1] >= 6 /\ Sets[k][1] > Sets[k][2]
                              <=> FR!SetOver(Sets[k]) /\ Sets[k][1] > Sets[k][2]
            BY <1>3
        <2> QED BY <1>1
  <1>5. LedBy(2) = {k \in DOMAIN Sets : FR!SetOver(Sets[k]) /\ Sets[k][2] > Sets[k][1]}
        <2> SUFFICES ASSUME NEW k \in DOMAIN Sets
                     PROVE  Sets[k][2] >= 6 /\ Sets[k][2] > Sets[k][1]
                              <=> FR!SetOver(Sets[k]) /\ Sets[k][2] > Sets[k][1]
            BY <1>3
        <2> QED BY <1>1
  <1>6. LedBy(1) \cap LedBy(2) = {}
        BY <1>1, <1>4, <1>5
  <1>7. LedBy(1) \cup LedBy(2) = OverSets
        BY <1>1, <1>4, <1>5 DEF OverSets
  <1> QED BY <1>4, <1>5, <1>6, <1>7

(* The score of tennis counts the sets each leads.                          *)
LEMMA ScoreIs ==
  ASSUME FR!FrameAssumption, FR!TypeOK, play.sport = "tennis"
  PROVE  LET score == FR!ScoreOf(play.sport, FR!Picture(play)) IN
         /\ score.home = Cardinality(LedBy(1)) /\ score.away = Cardinality(LedBy(2))
         /\ IsFiniteSet(LedBy(1)) /\ IsFiniteSet(LedBy(2))
         /\ score.home \in Nat /\ score.away \in Nat
  <1>1. FR!Picture(play).score = Sets
        BY DEF FR!Picture, Sets
  <1>2. \A S : FR!Cardinality(S) = Cardinality(S)
        BY DEF Cardinality, FR!Cardinality
  <1>3. FR!ScoreOf(play.sport, FR!Picture(play)) = FR!ParseTennisScore(Sets)
        BY <1>1 DEF FR!ScoreOf
  <1>4. /\ FR!ParseTennisScore(Sets).home = Cardinality(LedBy(1))
        /\ FR!ParseTennisScore(Sets).away = Cardinality(LedBy(2))
        BY <1>2 DEF FR!ParseTennisScore, LedBy
  <1>5. IsFiniteSet(LedBy(1)) /\ IsFiniteSet(LedBy(2))
        <2>1. IsFiniteSet(DOMAIN Sets)
              <3>1. DOMAIN Sets = 1..Len(Sets) /\ Len(Sets) \in Nat
                    BY TennisFacts
              <3> QED BY <3>1, FS_Interval
        <2>2. LedBy(1) \subseteq DOMAIN Sets /\ LedBy(2) \subseteq DOMAIN Sets
              BY DEF LedBy
        <2> QED BY <2>1, <2>2, FS_Subset
  <1> QED BY <1>3, <1>4, <1>5, FS_CardinalityType

(* The set the parser takes for the current one is the one that is played.  *)
LEMMA CurrentIsInPlay ==
  ASSUME FR!FrameAssumption, FR!TypeOK, play.sport = "tennis", ~FR!SixFive
  PROVE  LET score == FR!ScoreOf(play.sport, FR!Picture(play)) IN
         FR!CurrentSet(play.sport, score) = FR!InPlaySet
  <1> DEFINE score == FR!ScoreOf(play.sport, FR!Picture(play))
             n == Len(Sets)
  <1>1. /\ n \in Nat \ {0} /\ DOMAIN Sets = 1..n
        /\ \A k \in DOMAIN Sets : k < n => FR!SetOver(Sets[k])
        BY TennisFacts
  <1>2. FR!InPlaySet = IF FR!SetOver(Sets[n]) THEN n + 1 ELSE n
        BY TennisFacts DEF FR!InPlaySet, Sets
  <1>3. score.home + score.away = Cardinality(OverSets)
        <2>1. /\ score.home = Cardinality(LedBy(1)) /\ score.away = Cardinality(LedBy(2))
              /\ IsFiniteSet(LedBy(1)) /\ IsFiniteSet(LedBy(2))
              BY ScoreIs
        <2>2. LedBy(1) \cap LedBy(2) = {} /\ LedBy(1) \cup LedBy(2) = OverSets
              BY CountedSets
        <2> HIDE DEF score
        <2>3. Cardinality(LedBy(1) \cup LedBy(2)) =
                Cardinality(LedBy(1)) + Cardinality(LedBy(2)) - Cardinality(LedBy(1) \cap LedBy(2))
              BY <2>1, FS_Union
        <2>4. Cardinality({}) = 0
              BY FS_EmptySet
        <2>5. Cardinality(LedBy(1)) \in Nat /\ Cardinality(LedBy(2)) \in Nat
              BY <2>1, FS_CardinalityType
        <2>6. Cardinality(OverSets) = Cardinality(LedBy(1)) + Cardinality(LedBy(2)) - Cardinality({})
              BY <2>2, <2>3
        <2>7. Cardinality(OverSets) = Cardinality(LedBy(1)) + Cardinality(LedBy(2))
              BY <2>4, <2>5, <2>6
        <2> QED BY <2>1, <2>7
  <1>4. FR!CurrentSet(play.sport, score) = score.home + score.away + 1
        BY DEF FR!CurrentSet
  <1> HIDE DEF score, n
  <1>5. CASE FR!SetOver(Sets[n])
        <2>1. OverSets = 1..n
              BY <1>1, <1>5 DEF OverSets
        <2>2. Cardinality(OverSets) = n
              BY <1>1, <2>1, FS_Interval
        <2> QED BY <1>2, <1>3, <1>4, <1>5, <2>2 DEF score
  <1>6. CASE ~FR!SetOver(Sets[n])
        <2>1. OverSets = 1..n - 1
              BY <1>1, <1>6 DEF OverSets
        <2>2. n - 1 \in Int /\ Cardinality(1..n - 1) = IF 1 > n - 1 THEN 0 ELSE n - 1 - 1 + 1
              BY <1>1, FS_Interval
        <2>3. Cardinality(OverSets) = n - 1
              BY <1>1, <2>1, <2>2
        <2> QED BY <1>1, <1>2, <1>3, <1>4, <1>6, <2>3 DEF score
  <1> QED BY <1>5, <1>6

(* The set: the market that is called by it, if it is the one in play.      *)
LEMMA SetNames ==
  ASSUME FR!FrameAssumption, FR!TypeOK, play.sport = "tennis", NEW n \in Nat \ {0},
         NEW id \in FR!ToSet(markets)
  PROVE  FR!IsTennisSetResultName(Offered[id].name, n) <=> Offered[id].about = n
  <1>1. id \in DOMAIN Offered /\ Offered[id].sport = "tennis"
        BY DEF FR!TypeOK, FR!ToSet
  <1>2. \A m \in 1..7 : FR!IsTennisSetResultName(Offered[id].name, m) <=> Offered[id].about = m
        BY <1>1 DEF FR!FrameAssumption, FR!Truthful
  <1>3. Offered[id].about \in -1..7
        BY <1>1 DEF FR!FrameAssumption
  <1>4. FR!IsTennisSetResultName(Offered[id].name, n) => n \in 1..7
        <2>1. DOMAIN FR!SetPhrases = 1..7
              BY DEF FR!SetPhrases
        <2> QED BY <2>1 DEF FR!IsTennisSetResultName
  <1> QED BY <1>2, <1>3, <1>4

(* The chances of a set are those of the one in play.                       *)
LEMMA SetOdds ==
  ASSUME FR!FrameAssumption, FR!TypeOK, NEW n, NEW e,
         n = FR!CurrentSet(play.sport, FR!ScoreOf(play.sport, FR!Picture(play))),
         e.seg = IF FR!ParseTennisSetDevig(markets, n).home >= 0 THEN n ELSE 0,
         e.seg_home = FR!ParseTennisSetDevig(markets, n).home,
         e.seg_away = FR!ParseTennisSetDevig(markets, n).away
  PROVE  FR!SetIsPriced(e)
  <1>1. FR!NoOdds.home = -1 /\ ~(-1 >= 0)
        BY DEF FR!NoOdds
  <1>2. CASE play.sport # "tennis"
        <2>1. n = 0
              BY <1>2 DEF FR!CurrentSet
        <2>2. e.seg = 0
              BY <1>1, <2>1 DEF FR!ParseTennisSetDevig
        <2>3. ~(e.seg > 0)
              BY <2>2
        <2> QED BY <1>2, <2>3 DEF FR!SetIsPriced
  <1>3. CASE play.sport = "tennis"
        <2> DEFINE fits == {id \in FR!ToSet(markets) : FR!IsTennisSetResultName(Offered[id].name, n)}
                   set == FR!ParseInplayOddsDevig(markets, FR!FirstMarket(markets, fits))
        <2>1. n \in Nat \ {0}
              <3>1. /\ FR!ScoreOf(play.sport, FR!Picture(play)).home \in Nat
                    /\ FR!ScoreOf(play.sport, FR!Picture(play)).away \in Nat
                    BY <1>3, ScoreIs
              <3> QED BY <1>3, <3>1 DEF FR!CurrentSet
        <2>2. FR!ParseTennisSetDevig(markets, n) = set
              BY <2>1 DEF FR!ParseTennisSetDevig, FR!SelectTennisSetResultMarketId
        <2>3. fits = {id \in FR!ToSet(markets) : Offered[id].about = n}
              BY <1>3, <2>1, SetNames
        <2> HIDE DEF fits
        <2>4. /\ set.home >= 0 => FR!Priced(set.home, set.away, n)
              /\ (\E id \in FR!ToSet(markets) : id \in fits)
                   /\ (\A id \in FR!ToSet(markets) \cap fits : FR!Whole(id)) => set.home >= 0
              BY <2>3, ReadsFirst
        <2> HIDE DEF set
        <2>5. e.seg = (IF set.home >= 0 THEN n ELSE 0) /\ e.seg_home = set.home /\ e.seg_away = set.away
              BY <2>2
        <2>6. ASSUME e.seg > 0
              PROVE  e.seg = n /\ FR!Priced(e.seg_home, e.seg_away, e.seg)
              BY <2>4, <2>5, <2>6
        <2>7. ~FR!SixFive => n = FR!InPlaySet
              BY <1>3, CurrentIsInPlay
        <2>8. ASSUME ~FR!SixFive
              PROVE  LET ids == {id \in FR!ToSet(markets) : Offered[id].about = FR!InPlaySet}
                     IN  ids # {} /\ (\A id \in ids : FR!Whole(id)) => e.seg = FR!InPlaySet
              BY <2>3, <2>4, <2>5, <2>7, <2>8
        <2> QED BY <2>6, <2>7, <2>8 DEF FR!SetIsPriced
  <1> QED BY <1>2, <1>3

(* A pair is not the missing score.                                         *)
LEMMA PairIsThere ==
  ASSUME NEW pair \in Nat \X Nat
  PROVE  pair # << >>
  <1>1. pair = <<pair[1], pair[2]>>
        OBVIOUS
  <1>2. <<pair[1], pair[2]>> # << >>
        OBVIOUS
  <1> QED BY <1>1, <1>2

(* The score that is read is the one that is played.                        *)
LEMMA ScoreHolds ==
  ASSUME FR!FrameAssumption, FR!TypeOK, NEW e,
         e.home = FR!ScoreOf(play.sport, FR!Picture(play)).home,
         e.away = FR!ScoreOf(play.sport, FR!Picture(play)).away
  PROVE  FR!ScoreIsPlayed(e)
  <1> DEFINE score == FR!ScoreOf(play.sport, FR!Picture(play))
  <1>1. CASE play.sport = "tennis"
        <2>1. ASSUME ~FR!SixFive
              PROVE  e.home = FR!SetsWon(1) /\ e.away = FR!SetsWon(2)
              <3>1. /\ LedBy(1) = {k \in DOMAIN Sets : FR!SetOver(Sets[k]) /\ Sets[k][1] > Sets[k][2]}
                    /\ LedBy(2) = {k \in DOMAIN Sets : FR!SetOver(Sets[k]) /\ Sets[k][2] > Sets[k][1]}
                    BY <1>1, <2>1, CountedSets
              <3>2. 3 - 1 = 2 /\ 3 - 2 = 1
                    OBVIOUS
              <3>3. /\ FR!SetsWon(1) = FR!Cardinality(LedBy(1))
                    /\ FR!SetsWon(2) = FR!Cardinality(LedBy(2))
                    BY <3>1, <3>2 DEF FR!SetsWon, Sets
              <3>4. \A S : FR!Cardinality(S) = Cardinality(S)
                    BY DEF Cardinality, FR!Cardinality
              <3>5. score.home = Cardinality(LedBy(1)) /\ score.away = Cardinality(LedBy(2))
                    BY <1>1, ScoreIs
              <3> QED BY <3>3, <3>4, <3>5
        <2> QED BY <1>1, <2>1 DEF FR!ScoreIsPlayed
  <1>2. CASE play.sport # "tennis"
        <2>1. play.score \in Seq(Nat \X Nat) /\ play.score # << >>
              BY DEF FR!TypeOK, FR!Played, FR!Plays
        <2>2. play.score[1] \in Nat \X Nat
              <3>1. Len(play.score) \in Nat \ {0}
                    BY <2>1, LenProperties, EmptySeq
              <3> QED BY <2>1, <3>1
        <2>3. score = FR!Totals(play.score[1])
              <3>1. CASE play.sport = "esports"
                    <4>1. FR!Picture(play).res = play.score[1]
                          BY <3>1 DEF FR!Picture
                    <4>2. play.score[1] # << >>
                          BY <2>2, PairIsThere
                    <4> QED BY <3>1, <4>1, <4>2 DEF FR!ScoreOf, FR!ParseEsportsSeriesScore
              <3>2. CASE play.sport # "esports"
                    <4>1. FR!Picture(play).score = play.score
                          BY <3>2 DEF FR!Picture
                    <4> QED BY <1>2, <2>1, <3>2, <4>1 DEF FR!ScoreOf, FR!ParseScore
              <3> QED BY <3>1, <3>2
        <2>4. score.home = play.score[1][1] /\ score.away = play.score[1][2]
              BY <2>3 DEF FR!Totals
        <2>5. play.score[1] = <<play.score[1][1], play.score[1][2]>>
              BY <2>2
        <2> HIDE DEF score
        <2>6. <<e.home, e.away>> = play.score[1]
              BY <2>4, <2>5 DEF score
        <2> QED BY <1>2, <2>6 DEF FR!ScoreIsPlayed
  <1> QED BY <1>1, <1>2

(* The clock: what a period has left becomes the time played.               *)
LEMMA Remains ==
  ASSUME NEW t \in Nat, NEW d \in Nat \ {0}
  PROVE  t \div d \in Nat /\ t % d \in 0..(d - 1) /\ t % d = t - d * (t \div d)
  OBVIOUS

(* Minutes and seconds make up the clock.                                   *)
LEMMA MinutesAndSeconds ==
  ASSUME NEW t \in Nat, NEW minute, NEW second, minute = t \div 60, second = t % 60
  PROVE  60 * minute + second = t /\ minute \in Nat
  <1>1. minute \in Nat /\ second \in Nat /\ second = t - 60 * minute
        BY Remains
  <1>2. 60 * minute + second = t
        BY <1>1
  <1> QED BY <1>1, <1>2

(* The periods begun less what the last has left is the time played.        *)
LEMMA CountedDown ==
  ASSUME NEW len \in Nat \ {0}, NEW t \in Nat, NEW q, q = t \div len, NEW r, r = t % len
  PROVE  /\ len - r \in 1..len /\ q + 1 \in Nat \ {0}
         /\ (q + 1) * len - (len - r) = t
  <1>1. q \in Nat /\ r \in 0..(len - 1) /\ r = t - len * q
        BY Remains
  <1>2. PICK p : p = len * q
        OBVIOUS
  <1>3. p \in Nat /\ (q + 1) * len = p + len /\ r = t - p /\ r \in Nat
        BY <1>1, <1>2
  <1>4. (q + 1) * len - (len - r) = t
        BY <1>3
  <1>5. len - r \in 1..len /\ q + 1 \in Nat \ {0}
        BY <1>1
  <1> QED BY <1>4, <1>5

(* The clock that is read is the time played.                               *)
LEMMA ClockHolds ==
  ASSUME FR!FrameAssumption, FR!TypeOK, NEW e,
         e.elapsed = FR!ClockSec(play.sport, FR!Picture(play).period, FR!RawClock(FR!Picture(play)))
  PROVE  FR!ClockIsPlayed(e)
  <1> SUFFICES ASSUME FR!Timed(play.sport), play.sport # "soccer" => ~play.interval
               PROVE  e.elapsed = IF FR!Overtime(play.sport, play.elapsed)
                                  THEN FR!RegPeriods[play.sport] * FR!PeriodLen[play.sport]
                                  ELSE play.elapsed
      BY DEF FR!ClockIsPlayed
  <1> DEFINE t == play.elapsed
             len == FR!PeriodLen[play.sport]
             onClock == FR!Shown(play)
             pic == FR!Picture(play)
  <1>1. t \in Nat
        BY DEF FR!TypeOK, FR!Played, FR!Plays
  <1>2. pic.minute = onClock \div 60 /\ pic.second = onClock % 60
        BY DEF FR!Picture
  <1>3. CASE play.sport = "soccer"
        <2>1. play.sport \notin DOMAIN FR!PeriodLen
              BY <1>3 DEF FR!PeriodLen
        <2>2. onClock = t
              BY <1>3 DEF FR!Shown
        <2>3. FR!RawClock(pic) = t
              <3>1. 60 * pic.minute + pic.second = t /\ pic.minute \in Int /\ ~(pic.minute < 0)
                    <4>1. pic.minute = t \div 60 /\ pic.second = t % 60
                          BY <1>2, <2>2
                    <4> HIDE DEF pic, t
                    <4>2. 60 * pic.minute + pic.second = t /\ pic.minute \in Nat
                          BY <1>1, <4>1, MinutesAndSeconds, Zenon
                    <4> QED BY <4>2
              <3> HIDE DEF pic
              <3> QED BY <3>1 DEF FR!RawClock
        <2> HIDE DEF t, pic
        <2>4. FR!ClockSec(play.sport, pic.period, t) = t
              BY <1>1, <2>1 DEF FR!ClockSec
        <2>5. ~FR!Overtime(play.sport, t)
              BY <2>1 DEF FR!Overtime
        <2> QED BY <2>3, <2>4, <2>5 DEF t, pic
  <1>4. CASE play.sport # "soccer"
        <2>1. /\ play.sport \in {"basketball", "hockey", "amfootball"}
              /\ play.sport \in DOMAIN FR!PeriodLen
              BY <1>4 DEF FR!Timed, FR!PeriodLen
        <2>2. len \in {720, 900, 1200}
              BY <2>1 DEF FR!PeriodLen
        <2>3. FR!Shown(play) = FR!PeriodLen[play.sport] - (play.elapsed % FR!PeriodLen[play.sport])
              <3>1. ~(play.sport = "soccer")
                    BY <1>4
              <3> QED BY <3>1 DEF FR!Shown
        <2>4. pic.period = IF FR!Overtime(play.sport, t) THEN 0 ELSE t \div len + 1
              BY <1>4, <2>1 DEF FR!Picture
        <2>a. PICK q, r : onClock = len - r /\ q = t \div len /\ r = t % len
              BY <2>3
        <2> HIDE DEF t, pic, onClock, len
        <2>5. /\ onClock \in 1..len /\ t \div len + 1 \in Nat \ {0}
              /\ (t \div len + 1) * len - onClock = t
              BY <1>1, <2>a, <2>2, CountedDown
        <2>6. FR!RawClock(pic) = onClock
              <3>1. /\ 60 * pic.minute + pic.second = onClock
                    /\ pic.minute \in Int /\ ~(pic.minute < 0)
                    BY <1>2, <2>2, <2>5, MinutesAndSeconds
              <3> QED BY <3>1 DEF FR!RawClock
        <2>7. CASE FR!Overtime(play.sport, t)
              <3>1. pic.period = 0
                    BY <2>4, <2>7
              <3>2. FR!ClockSec(play.sport, pic.period, onClock) =
                      FR!RegPeriods[play.sport] * FR!PeriodLen[play.sport]
                    BY <2>1, <2>2, <2>5, <3>1 DEF FR!ClockSec
              <3> QED BY <2>6, <2>7, <3>2 DEF t, pic
        <2>8. CASE ~FR!Overtime(play.sport, t)
              <3>1. pic.period = t \div len + 1 /\ pic.period # 0
                    BY <2>4, <2>5, <2>8
              <3>2. ~(onClock < 0) /\ ~(len < onClock)
                    BY <2>2, <2>5
              <3>3. FR!ClockSec(play.sport, pic.period, onClock) = pic.period * len - onClock
                    BY <2>1, <3>1, <3>2 DEF FR!ClockSec, len
              <3>4. FR!ClockSec(play.sport, pic.period, onClock) = t
                    BY <2>5, <3>1, <3>3
              <3> QED BY <2>6, <2>8, <3>4 DEF t, pic
        <2> QED BY <2>7, <2>8 DEF t
  <1> QED BY <1>3, <1>4

(* The state: what each code of the feed means, and when the frame is dated. *)
LEMMA CodesMean ==
  /\ DOMAIN FR!TimeStatus = {"0", "1", "2", "3", "4", "5", "6", "7", "8", "9", "99"}
  /\ FR!TimeStatus["0"] = "NotStarted" /\ FR!TimeStatus["1"] = "InPlay"
  /\ FR!TimeStatus["2"] = "ToBeFixed" /\ FR!TimeStatus["3"] = "Ended"
  /\ FR!TimeStatus["4"] = "Postponed" /\ FR!TimeStatus["5"] = "Cancelled"
  /\ FR!TimeStatus["6"] = "Walkover" /\ FR!TimeStatus["7"] = "Interrupted"
  /\ FR!TimeStatus["8"] = "Abandoned" /\ FR!TimeStatus["9"] = "Retired"
  /\ FR!TimeStatus["99"] = "Removed"
  <1>1. DOMAIN FR!TimeStatus = {"0", "1", "2", "3", "4", "5", "6", "7", "8", "9", "99"}
        BY DEF FR!TimeStatus
  <1>2. FR!TimeStatus["0"] = "NotStarted"
        BY DEF FR!TimeStatus
  <1>3. FR!TimeStatus["1"] = "InPlay"
        BY DEF FR!TimeStatus
  <1>4. FR!TimeStatus["2"] = "ToBeFixed"
        BY DEF FR!TimeStatus
  <1>5. FR!TimeStatus["3"] = "Ended"
        BY DEF FR!TimeStatus
  <1>6. FR!TimeStatus["4"] = "Postponed"
        BY DEF FR!TimeStatus
  <1>7. FR!TimeStatus["5"] = "Cancelled"
        BY DEF FR!TimeStatus
  <1>8. FR!TimeStatus["6"] = "Walkover"
        BY DEF FR!TimeStatus
  <1>9. FR!TimeStatus["7"] = "Interrupted"
        BY DEF FR!TimeStatus
  <1>10. FR!TimeStatus["8"] = "Abandoned"
        BY DEF FR!TimeStatus
  <1>11. FR!TimeStatus["9"] = "Retired"
        BY DEF FR!TimeStatus
  <1>12. FR!TimeStatus["99"] = "Removed"
        BY DEF FR!TimeStatus
  <1> QED BY <1>1, <1>2, <1>3, <1>4, <1>5, <1>6, <1>7, <1>8, <1>9, <1>10, <1>11, <1>12

(* The codes of a game that does not go on.                                 *)
Overs == {"3", "4", "5", "6", "8", "9", "99"}

(* A code ends the game, has it in play, or neither.                        *)
LEMMA CodeIs ==
  ASSUME NEW code
  PROVE  /\ FR!IsTerminal(FR!ParseTimeStatus(code)) <=> code \in Overs
         /\ FR!ParseTimeStatus(code) = "InPlay" <=> code \in {"", "1"}
  <1>1. CASE code \notin DOMAIN FR!TimeStatus
        <2>1. code \notin Overs /\ code # "1"
              BY <1>1, CodesMean DEF Overs
        <2>2. FR!ParseTimeStatus(code) = IF code = "" THEN "InPlay" ELSE "ToBeFixed"
              BY <1>1 DEF FR!ParseTimeStatus
        <2> QED BY <2>1, <2>2 DEF FR!IsTerminal
  <1>2. CASE code \in DOMAIN FR!TimeStatus
        <2>1. code # ""
              BY <1>2, CodesMean
        <2>2. FR!ParseTimeStatus(code) = FR!TimeStatus[code]
              BY <1>2, <2>1 DEF FR!ParseTimeStatus
        <2>3. code \in {"0", "1", "2", "3", "4", "5", "6", "7", "8", "9", "99"}
              BY <1>2, CodesMean
        <2> QED BY <2>2, <2>3, CodesMean, ZenonT(60) DEF FR!IsTerminal, Overs
  <1> QED BY <1>1, <1>2

(* The state that is read is the state of the game.                         *)
LEMMA StateHolds ==
  ASSUME FR!FrameAssumption, FR!TypeOK, NEW e,
         e.is_terminal = FR!IsTerminal(FR!ParseTimeStatus(play.time_status)),
         e.status = FR!MapStatus(FR!ParseTimeStatus(play.time_status), play.interval),
         e.frozen = FR!Frozen(play.core),
         e.data_source_ts = FR!SourceTs(play.updated),
         e.event_ts = FR!EventTs(play.start, FR!SourceTs(play.updated))
  PROVE  FR!StateIsPlayed(e)
  <1>1. /\ play.start \in Nat /\ play.updated \in Nat
        /\ play.core \subseteq {"stopped", "blocked", "finished"}
        BY DEF FR!TypeOK, FR!Played, FR!Plays
  <1>2. e.is_terminal <=> play.time_status \in Overs
        BY <1>1, CodeIs
  <1>3. (e.status \in {"inplay", "halftime"}) <=> FR!ParseTimeStatus(play.time_status) = "InPlay"
        <2> DEFINE status == FR!ParseTimeStatus(play.time_status)
        <2> HIDE DEF status
        <2>1. e.status = FR!MapStatus(status, play.interval)
              BY DEF status
        <2>2. CASE status = "InPlay"
              <3>1. FR!MapStatus(status, play.interval) =
                      IF play.interval THEN "halftime" ELSE "inplay"
                    BY <2>2 DEF FR!MapStatus
              <3> QED BY <2>1, <2>2, <3>1 DEF status
        <2>3. CASE status = "Ended"
              <3>1. FR!MapStatus(status, play.interval) = "final"
                    BY <2>3 DEF FR!MapStatus
              <3> QED BY <2>1, <2>3, <3>1 DEF status
        <2>4. CASE status # "InPlay" /\ status # "Ended"
              <3>1. FR!MapStatus(status, play.interval) = "pregame"
                    BY <2>4 DEF FR!MapStatus
              <3> QED BY <2>1, <2>4, <3>1 DEF status
        <2> QED BY <2>2, <2>3, <2>4
  <1>4. e.frozen <=> (play.core # {})
        BY <1>1 DEF FR!Frozen
  <1>5. /\ FR!SourceTs(play.updated) \in Nat /\ Received \in Nat
        /\ FR!SourceTs(play.updated) = Received \/ FR!SourceTs(play.updated) = play.updated
        <2>1. Received \in Nat
              BY DEF FR!FrameAssumption
        <2> QED BY <1>1, <2>1 DEF FR!SourceTs
  <1>6. /\ e.event_ts <= e.data_source_ts
        /\ e.data_source_ts > Received => e.data_source_ts = play.updated
        BY <1>1, <1>5 DEF FR!EventTs
  <1>7. (e.status \in {"inplay", "halftime"}) <=> (play.time_status \in {"", "1"})
        BY <1>1, <1>3, CodeIs
  <1> QED BY <1>2, <1>4, <1>6, <1>7 DEF FR!StateIsPlayed, Overs

(* What is read is what is the case, of any frame.                          *)
LEMMA FrameRead ==
  ASSUME FR!FrameAssumption, FR!TypeOK
  PROVE  FR!FrameHolds
  <1> SUFFICES ASSUME NEW pic, pic = FR!Picture(play),
                      NEW score, score = FR!ScoreOf(play.sport, pic),
                      NEW e, e = FR!Parse(play, pic, score)
               PROVE  /\ FR!MatchIsPriced(e) /\ FR!SetIsPriced(e) /\ FR!ScoreIsPlayed(e)
                      /\ FR!ClockIsPlayed(e) /\ FR!StateIsPlayed(e)
      BY DEF FR!FrameHolds
  <1> DEFINE n == FR!CurrentSet(play.sport, score)
             match == FR!ParseInplayOddsDevigResult(markets)
             set == FR!ParseTennisSetDevig(markets, n)
  <1>1. e = FR!EventScore(play, pic, score, match, n, set)
        BY DEF FR!Parse
  <1>2. /\ e.home = score.home /\ e.away = score.away
        /\ e.elapsed = FR!ClockSec(play.sport, pic.period, FR!RawClock(pic))
        /\ e.seg = (IF set.home >= 0 THEN n ELSE 0)
        /\ e.seg_home = set.home /\ e.seg_away = set.away
        /\ e.odds_home = match.home /\ e.odds_away = match.away
        /\ e.is_terminal = FR!IsTerminal(FR!ParseTimeStatus(play.time_status))
        /\ e.status = FR!MapStatus(FR!ParseTimeStatus(play.time_status), play.interval)
        /\ e.frozen = FR!Frozen(play.core)
        /\ e.data_source_ts = FR!SourceTs(play.updated)
        /\ e.event_ts = FR!EventTs(play.start, FR!SourceTs(play.updated))
        <2> HIDE DEF n, match, set
        <2> QED BY <1>1 DEF FR!EventScore
  <1>3. FR!MatchIsPriced(e)
        BY <1>2, MatchOdds
  <1>4. FR!SetIsPriced(e)
        BY <1>2, SetOdds
  <1>5. FR!ScoreIsPlayed(e)
        BY <1>2, ScoreHolds
  <1>6. FR!ClockIsPlayed(e)
        BY <1>2, ClockHolds
  <1>7. FR!StateIsPlayed(e)
        BY <1>2, StateHolds
  <1> QED BY <1>3, <1>4, <1>5, <1>6, <1>7

(* The moves. A point counts in the set that is played.                     *)
OneMoreFor(side, pair) == [pair EXCEPT ![side] = @ + 1]

LEMMA OneMore ==
  ASSUME NEW a \in Nat, NEW b \in Nat, NEW side \in {1, 2}
  PROVE  OneMoreFor(side, <<a, b>>) = IF side = 1 THEN <<a + 1, b>> ELSE <<a, b + 1>>
  BY DEF OneMoreFor

(* Nothing but the last set is touched.                                     *)
LEMMA CountsInLast ==
  ASSUME NEW score \in Seq(Nat \X Nat), score # << >>, NEW side \in {1, 2}
  PROVE  LET new == FR!Scored(score, side)
             last == Len(score)
         IN  /\ new \in Seq(Nat \X Nat) /\ Len(new) = last /\ new # << >>
             /\ \A k \in 1..last : k # last => new[k] = score[k]
             /\ new[last] = IF side = 1 THEN <<score[last][1] + 1, score[last][2]>>
                            ELSE <<score[last][1], score[last][2] + 1>>
  <1> DEFINE last == Len(score)
             new == FR!Scored(score, side)
             set == OneMoreFor(side, score[last])
  <1>1. /\ last \in Nat \ {0} /\ DOMAIN score = 1..last
        /\ score \in [1..last -> Nat \X Nat]
        BY LenProperties, EmptySeq
  <1>2. score[last] \in Nat \X Nat
        BY <1>1
  <1>3. PICK a, b \in Nat : score[last] = <<a, b>>
        BY <1>2, SMTT(30)
  <1>4. set = IF side = 1 THEN <<a + 1, b>> ELSE <<a, b + 1>>
        <2>1. OneMoreFor(side, <<a, b>>) = IF side = 1 THEN <<a + 1, b>> ELSE <<a, b + 1>>
              BY OneMore
        <2> QED BY <1>3, <2>1
  <1>5. set \in Nat \X Nat
        BY <1>4, SMTT(30)
  <1>6. new = [score EXCEPT ![last] = set]
        BY DEF FR!Scored, OneMoreFor
  <1> HIDE DEF set, new
  <1>7. new \in Seq(Nat \X Nat) /\ Len(new) = last
        BY <1>1, <1>5, <1>6, ExceptSeq
  <1>8. new[last] = set /\ \A k \in 1..last : k # last => new[k] = score[k]
        <2> HIDE DEF last
        <2> QED BY <1>1, <1>6
  <1>9. score[last][1] = a /\ score[last][2] = b
        BY <1>3
  <1>10. new # << >>
        BY <1>1, <1>7, EmptySeq
  <1>11. new[last] = IF side = 1 THEN <<score[last][1] + 1, score[last][2]>>
                     ELSE <<score[last][1], score[last][2] + 1>>
        BY <1>4, <1>8, <1>9
  <1> HIDE DEF last
  <1> QED BY <1>7, <1>8, <1>10, <1>11 DEF new, last

(* A set goes on until it is over, then the next begins.                    *)
LEMMA SetsGoOn ==
  ASSUME FR!FrameAssumption, FR!TypeOK, NEW side \in {1, 2}, FR!Scores(side)
  PROVE  FR!Played(play')
  <1> DEFINE old == play.score
             sets == IF play.sport = "tennis" /\ FR!SetOver(FR!Last(old))
                     THEN Append(old, <<0, 0>>) ELSE old
             new == FR!Scored(sets, side)
  <1>1. /\ old \in Seq(Nat \X Nat) /\ old # << >> /\ play \in FR!Plays
        /\ play.sport = "tennis" => FR!TennisSets(old)
        BY DEF FR!TypeOK, FR!Played, FR!Plays
  <1>2. play' = [play EXCEPT !.score = new]
        BY DEF FR!Scores
  <1> HIDE DEF old
  <1>3. Len(old) \in Nat \ {0} /\ DOMAIN old = 1..Len(old) /\ FR!Last(old) = old[Len(old)]
        BY <1>1, LenProperties, EmptySeq DEF FR!Last
  <1>4. /\ sets \in Seq(Nat \X Nat) /\ sets # << >> /\ DOMAIN sets = 1..Len(sets)
        /\ Len(sets) \in Nat
        <2>1. <<0, 0>> \in Nat \X Nat
              OBVIOUS
        <2>2. Append(old, <<0, 0>>) \in Seq(Nat \X Nat) /\ Append(old, <<0, 0>>) # << >>
              BY <1>1, <2>1, AppendProperties, ZenonT(60)
        <2>3. sets \in Seq(Nat \X Nat) /\ sets # << >>
              BY <1>1, <2>2
        <2> HIDE DEF sets
        <2> QED BY <2>3, LenProperties
  <1>5. ASSUME play.sport = "tennis"
        PROVE  /\ sets[Len(sets)] \in (0..6) \X (0..6)
               /\ \A k \in 1..Len(sets) :
                    /\ sets[k] \in (0..7) \X (0..7) /\ sets[k][1] + sets[k][2] <= 13
                    /\ k < Len(sets) => FR!SetOver(sets[k])
        <2>1. \A k \in 1..Len(old) :
                /\ old[k] \in (0..7) \X (0..7) /\ old[k][1] + old[k][2] <= 13
                /\ k < Len(old) => FR!SetOver(old[k])
              BY <1>1, <1>3, <1>5 DEF FR!TennisSets
        <2>2. CASE FR!SetOver(FR!Last(old))
              <3>1. sets = Append(old, <<0, 0>>)
                    BY <1>5, <2>2
              <3>2. /\ Len(sets) = Len(old) + 1 /\ sets[Len(old) + 1] = <<0, 0>>
                    /\ \A k \in 1..Len(old) : sets[k] = old[k]
                    BY <1>1, <3>1, AppendProperties
              <3> HIDE DEF sets
              <3>3. FR!SetOver(old[Len(old)])
                    BY <1>3, <2>2
              <3>4. sets[Len(sets)] \in (0..6) \X (0..6) /\ sets[Len(sets)][1] + sets[Len(sets)][2] = 0
                    BY <3>2
              <3>5. ASSUME NEW k \in 1..Len(sets)
                    PROVE  /\ sets[k] \in (0..7) \X (0..7) /\ sets[k][1] + sets[k][2] <= 13
                           /\ k < Len(sets) => FR!SetOver(sets[k])
                    <4>1. CASE k = Len(sets)
                          BY <3>4, <4>1
                    <4>2. CASE k # Len(sets)
                          <5>1. k \in 1..Len(old)
                                BY <1>3, <3>2, <4>2
                          <5>2. sets[k] = old[k]
                                BY <3>2, <5>1
                          <5>3. k < Len(old) \/ k = Len(old)
                                <6>1. Len(old) \in Nat
                                      BY <1>3
                                <6> QED BY <5>1, <6>1
                          <5> QED BY <2>1, <3>3, <5>1, <5>2, <5>3
                    <4> QED BY <4>1, <4>2
              <3> QED BY <3>4, <3>5
        <2>3. CASE ~FR!SetOver(FR!Last(old))
              <3>1. sets = old
                    BY <2>3
              <3>2. old[Len(old)] \in (0..7) \X (0..7) /\ ~FR!SetOver(old[Len(old)])
                    BY <1>3, <2>1, <2>3
              <3>3. old[Len(old)] \in (0..6) \X (0..6)
                    BY <3>2, SMTT(30) DEF FR!SetOver
              <3> QED BY <2>1, <3>1, <3>3
        <2> QED BY <2>2, <2>3
  <1> HIDE DEF sets
  <1>6. /\ new \in Seq(Nat \X Nat) /\ Len(new) = Len(sets) /\ new # << >>
        /\ \A k \in 1..Len(sets) : k # Len(sets) => new[k] = sets[k]
        /\ new[Len(sets)] = IF side = 1 THEN <<sets[Len(sets)][1] + 1, sets[Len(sets)][2]>>
                            ELSE <<sets[Len(sets)][1], sets[Len(sets)][2] + 1>>
        BY <1>4, CountsInLast, ZenonT(60)
  <1> HIDE DEF new
  <1>7. ASSUME play.sport = "tennis"
        PROVE  FR!TennisSets(new)
        <2>1. DOMAIN new = 1..Len(sets) /\ Len(sets) \in Nat
              BY <1>4, <1>6, LenProperties
        <2>2. new[Len(sets)] \in (0..7) \X (0..7) /\ new[Len(sets)][1] + new[Len(sets)][2] <= 13
              <3>1. PICK a, b \in 0..6 : sets[Len(sets)] = <<a, b>>
                    BY <1>5, <1>7, SMTT(30)
              <3>2. new[Len(sets)] = IF side = 1 THEN <<a + 1, b>> ELSE <<a, b + 1>>
                    BY <1>6, <3>1
              <3> QED BY <3>2, SMTT(30)
        <2>3. ASSUME NEW k \in DOMAIN new
              PROVE  /\ new[k] \in (0..7) \X (0..7) /\ new[k][1] + new[k][2] <= 13
                     /\ k < Len(new) => FR!SetOver(new[k])
              <3>1. CASE k = Len(sets)
                    <4>1. Len(new) = Len(sets)
                          BY <1>6, Zenon
                    <4>2. ~(k < Len(new))
                          BY <2>1, <3>1, <4>1
                    <4> QED BY <2>2, <3>1, <4>2
              <3>2. CASE k # Len(sets)
                    <4>1. new[k] = sets[k] /\ k \in 1..Len(sets)
                          BY <1>6, <2>1, <3>2
                    <4>2. /\ sets[k] \in (0..7) \X (0..7) /\ sets[k][1] + sets[k][2] <= 13
                          /\ k < Len(sets) => FR!SetOver(sets[k])
                          BY <1>5, <1>7, <4>1
                    <4> QED BY <1>6, <4>1, <4>2, SMTT(30)
              <3> QED BY <3>1, <3>2
        <2> QED BY <2>3, SMTT(30) DEF FR!TennisSets
  <1>8. play' \in FR!Plays /\ play'.score = new /\ play'.sport = play.sport
        BY <1>1, <1>2, <1>6 DEF FR!Plays
  <1> QED BY <1>6, <1>7, <1>8 DEF FR!Played

(* A turn of the game leaves the score.                                     *)
LEMMA ScoreStays ==
  ASSUME FR!Played(play), play' \in FR!Plays, play'.score = play.score, play'.sport = play.sport
  PROVE  FR!Played(play')
  BY DEF FR!Played

(* What bounds the moves.                                                   *)
LEMMA FrameBounds ==
  ASSUME FR!FrameAssumption
  PROVE  /\ Received \in Nat \ {0} /\ TickSec \in Nat
         /\ MaxMarketsShown \in Nat /\ MaxFrameMoves \in Nat
  BY DEF FR!FrameAssumption

(* The moves stay within their bound.                                       *)
LEMMA FrameMoves ==
  ASSUME FR!FrameAssumption, FR!TypeOK, FR!Moved
  PROVE  frameMoves' \in 0..MaxFrameMoves
  <1>1. frameMoves \in 0..MaxFrameMoves
        BY DEF FR!TypeOK
  <1> QED BY <1>1, FrameBounds DEF FR!Moved

(* Whatever is not touched stays typed.                                     *)
LEMMA PlayMoves ==
  ASSUME FR!FrameAssumption, FR!TypeOK, FR!Played(play'), play'.sport = play.sport,
         FR!Moved, UNCHANGED <<markets, suspended, result_ids>>
  PROVE  FR!TypeOK'
  <1>1. frameMoves' \in 0..MaxFrameMoves
        BY FrameMoves
  <1> QED BY <1>1 DEF FR!TypeOK

(* Every move leaves a game and a frame of it.                              *)
LEMMA FrameNext ==
  ASSUME FR!FrameAssumption, FR!TypeOK, [FR!Next]_FR!vars
  PROVE  FR!TypeOK'
  <1>0. play \in FR!Plays /\ FR!Played(play) /\ Received \in Nat \ {0} /\ TickSec \in Nat
        BY FrameBounds DEF FR!TypeOK, FR!Played
  <1>1. ASSUME NEW side \in {1, 2}, FR!Scores(side)
        PROVE  FR!TypeOK'
        <2>1. FR!Played(play')
              BY <1>1, SetsGoOn
        <2>2. play'.sport = play.sport
              BY <1>0, <1>1 DEF FR!Scores, FR!Plays
        <2> QED BY <1>1, <2>1, <2>2, PlayMoves DEF FR!Scores
  <1>2. CASE FR!Ticks
        <2>1. /\ play' \in FR!Plays /\ play'.score = play.score /\ play'.sport = play.sport
              <3>1. play' = [play EXCEPT !.elapsed = play.elapsed + TickSec]
                    BY <1>2 DEF FR!Ticks
              <3>2. play.elapsed + TickSec \in Nat
                    <4>1. play.elapsed \in Nat
                          BY <1>0, Zenon DEF FR!Plays
                    <4> QED BY <1>0, <4>1
              <3> QED BY <1>0, <3>1, <3>2 DEF FR!Plays
        <2> QED BY <1>0, <1>2, <2>1, ScoreStays, PlayMoves DEF FR!Ticks
  <1>3. ASSUME NEW field \in {"core", "interval", "time_status", "updated"}, NEW value,
               play' = [play EXCEPT ![field] = value], FR!Moved,
               UNCHANGED <<markets, suspended, result_ids>>,
               field = "core" => value \subseteq {"stopped", "blocked", "finished"},
               field = "interval" => value \in BOOLEAN,
               field = "time_status" => value \in DOMAIN FR!TimeStatus,
               field = "updated" => value \in Nat
        PROVE  FR!TypeOK'
        <2>1. /\ play' \in FR!Plays /\ play'.score = play.score /\ play'.sport = play.sport
              BY <1>0, <1>3 DEF FR!Plays
        <2> QED BY <1>0, <1>3, <2>1, ScoreStays, PlayMoves
  <1>4. CASE FR!Turns("core", {{"stopped"}, {"blocked", "finished"}, {}})
        BY <1>3, <1>4 DEF FR!Turns
  <1>5. CASE FR!Turns("interval", BOOLEAN)
        BY <1>3, <1>5 DEF FR!Turns
  <1>6. CASE FR!Turns("time_status", {"1", "3", "7", "9"})
        <2>1. PICK value \in {"1", "3", "7", "9"} :
                /\ play' = [play EXCEPT !["time_status"] = value] /\ FR!Moved
                /\ UNCHANGED <<markets, suspended, result_ids>>
              BY <1>6 DEF FR!Turns
        <2>2. value \in DOMAIN FR!TimeStatus
              BY <2>1, CodesMean
        <2> QED BY <1>3, <2>1, <2>2
  <1>7. CASE FR!Turns("updated", {0, Received - 1, Received + 1})
        <2>1. PICK value \in {0, Received - 1, Received + 1} :
                /\ play' = [play EXCEPT !["updated"] = value] /\ FR!Moved
                /\ UNCHANGED <<markets, suspended, result_ids>>
              BY <1>7 DEF FR!Turns
        <2>2. value \in Nat
              BY <1>0
        <2> QED BY <1>3, <2>1, <2>2
  <1>8. ASSUME NEW id \in DOMAIN Offered, NEW i \in 1..Len(markets) + 1, FR!Lists(id, i)
        PROVE  FR!TypeOK'
        <2>1. /\ markets \in Seq(DOMAIN Offered) /\ FR!IsInjective(markets)
              /\ Len(markets) \in Nat /\ Len(markets) < MaxMarketsShown
              /\ \A j \in DOMAIN markets : markets[j] # id
              /\ markets' = FR!InsertAt(markets, i, id)
              /\ frameMoves' \in 0..MaxFrameMoves
              /\ UNCHANGED <<play, suspended, result_ids>>
              <3>1. markets \in Seq(DOMAIN Offered) /\ FR!IsInjective(markets)
                    BY DEF FR!TypeOK
              <3>2. Len(markets) \in Nat
                    BY <3>1, LenProperties
              <3>3. \A j \in DOMAIN markets : markets[j] # id
                    BY <1>8 DEF FR!Lists, FR!ToSet
              <3>4. frameMoves' \in 0..MaxFrameMoves
                    BY <1>8, FrameMoves DEF FR!Lists
              <3> QED BY <1>8, <3>1, <3>2, <3>3, <3>4 DEF FR!Lists
        <2>3. /\ markets' \in Seq(DOMAIN Offered) /\ Len(markets') = Len(markets) + 1
              /\ \A k \in 1..Len(markets) + 1 :
                   markets'[k] = IF k < i THEN markets[k] ELSE IF k = i THEN id ELSE markets[k - 1]
              <3>1. HasBetween(DOMAIN Offered, markets, i, id, FR!InsertAt(markets, i, id))
                    BY <2>1, Inserted
              <3> QED BY <2>1, <3>1 DEF HasBetween
        <2>4. DOMAIN markets = 1..Len(markets) /\ DOMAIN markets' = 1..Len(markets) + 1
              BY <2>1, <2>3, LenProperties
        <2>5. \A j, k \in 1..Len(markets) : markets[j] = markets[k] => j = k
              BY <2>1, <2>4 DEF FR!IsInjective
        <2> DEFINE was(k) == IF k < i THEN k ELSE k - 1
        <2>a. /\ markets'[i] = id /\ i \in Nat
              /\ \A k \in 1..Len(markets) + 1 : k # i =>
                   /\ was(k) \in 1..Len(markets) /\ markets'[k] = markets[was(k)]
                   /\ markets'[k] # id
              <3>1. i \in 1..Len(markets) + 1
                    OBVIOUS
              <3>2. markets'[i] = id
                    BY <2>1, <2>3, <3>1
              <3>3. ASSUME NEW k \in 1..Len(markets) + 1, k # i
                    PROVE  was(k) \in 1..Len(markets) /\ markets'[k] = markets[was(k)]
                    BY <2>1, <2>3, <3>1, <3>3
              <3> HIDE DEF was
              <3> QED BY <2>1, <2>4, <3>1, <3>2, <3>3
        <2>6. \A j, k \in 1..Len(markets) + 1 : markets'[j] = markets'[k] => j = k
              <3> SUFFICES ASSUME NEW j \in 1..Len(markets) + 1, NEW k \in 1..Len(markets) + 1,
                                  markets'[j] = markets'[k], j # i, k # i
                           PROVE  j = k
                  BY <2>a
              <3>1. was(j) = was(k)
                    <4> HIDE DEF was
                    <4> QED BY <2>a, <2>5, SMTT(30)
              <3> QED BY <2>a, <3>1
        <2>7. FR!IsInjective(markets')
              BY <2>4, <2>6 DEF FR!IsInjective
        <2>8. \A j \in DOMAIN markets' : Offered[markets'[j]].sport = play'.sport
              <3>1. Offered[id].sport = play.sport
                    BY <1>8 DEF FR!Lists
              <3>2. \A j \in 1..Len(markets) : Offered[markets[j]].sport = play.sport
                    BY <2>4 DEF FR!TypeOK
              <3>3. ASSUME NEW j \in 1..Len(markets) + 1
                    PROVE  Offered[markets'[j]].sport = play.sport
                    <4> HIDE DEF was
                    <4> QED BY <2>a, <3>1, <3>2
              <3> QED BY <2>1, <2>4, <3>3
        <2>9. MaxMarketsShown \in Nat /\ Len(markets') <= MaxMarketsShown
              BY <2>1, <2>3, FrameBounds
        <2> QED BY <2>1, <2>3, <2>7, <2>8, <2>9 DEF FR!TypeOK
  <1>9. ASSUME NEW id \in DOMAIN Offered, NEW side \in {"home", "draw", "away"},
               FR!Suspends(id, side)
        PROVE  FR!TypeOK'
        <2>1. /\ suspended' \subseteq (DOMAIN Offered) \X {"home", "draw", "away"}
              /\ frameMoves' \in 0..MaxFrameMoves
              /\ UNCHANGED <<play, markets, result_ids>>
              <3>1. suspended \subseteq (DOMAIN Offered) \X {"home", "draw", "away"}
                    BY DEF FR!TypeOK
              <3>2. suspended' \subseteq suspended \cup {<<id, side>>}
                    BY <1>9 DEF FR!Suspends
              <3>3. suspended' \subseteq (DOMAIN Offered) \X {"home", "draw", "away"}
                    BY <3>1, <3>2
              <3> QED BY <1>9, <3>3, FrameMoves DEF FR!Suspends
        <2> QED BY <2>1 DEF FR!TypeOK
  <1>10. CASE FR!FetchDict(FR!Dictionary)
        <2>1. FR!ParseResultMarketIdsFromDict(FR!Dictionary) \subseteq
                {id \in DOMAIN Offered : FR!IsResultMarketName(Offered[id].dict_name)}
              BY DEF FR!ParseResultMarketIdsFromDict, FR!Dictionary
        <2>2. /\ result_ids' \subseteq {id \in DOMAIN Offered : FR!IsResultMarketName(Offered[id].dict_name)}
              /\ frameMoves' \in 0..MaxFrameMoves
              /\ UNCHANGED <<play, markets, suspended>>
              <3>1. result_ids \subseteq {id \in DOMAIN Offered : FR!IsResultMarketName(Offered[id].dict_name)}
                    BY DEF FR!TypeOK
              <3> QED BY <1>10, <2>1, <3>1, FrameMoves DEF FR!FetchDict
        <2> QED BY <2>2 DEF FR!TypeOK
  <1>11. CASE UNCHANGED FR!vars
        BY <1>11 DEF FR!TypeOK, FR!vars
  <1> QED BY <1>1, <1>2, <1>4, <1>5, <1>6, <1>7, <1>8, <1>9, <1>10, <1>11 DEF FR!Next

(* What a frame of the in-play feed is read as is what is the case: the     *)
(* chances are those of one market about the match, or about the set in     *)
(* play, on the right sides; the score, the clock and the state are the     *)
(* game's; for any offers, names and games (InplayScoreParser,              *)
(* inplay_odds_parser.hpp, ToEventScore).                                   *)
THEOREM SpecFrameHolds ==
  ASSUME FR!FrameAssumption
  PROVE  FR!Spec => []FR!FrameHolds
  <1>1. FR!Init => FR!TypeOK
        <2> SUFFICES ASSUME FR!Init PROVE FR!TypeOK
            OBVIOUS
        <2>1. FR!Played(play)
              BY DEF FR!Init, FR!FrameAssumption
        <2>2. /\ << >> \in Seq(DOMAIN Offered) /\ Len(<< >>) = 0 /\ DOMAIN << >> = {}
              BY EmptySeq
        <2>3. /\ MaxMarketsShown \in Nat /\ MaxFrameMoves \in Nat
              BY DEF FR!FrameAssumption
        <2> QED BY <2>1, <2>2, <2>3 DEF FR!Init, FR!TypeOK, FR!IsInjective
  <1>2. FR!TypeOK /\ [FR!Next]_FR!vars => FR!TypeOK'
        BY FrameNext
  <1>3. FR!TypeOK => FR!FrameHolds
        BY FrameRead
  <1> QED BY <1>1, <1>2, <1>3, PTL DEF FR!Spec
-----------------------------------------------------------------------------
(* Side by side.                                                            *)

(* The lock and the audit chain follow their own specifications, whichever  *)
(* part of the process the behaviour follows.                               *)
LEMMA ProcessAreSpecs == ProcessSpec => SI!Spec /\ AU!Spec
  <1>1. ProcessInit => SI!Init /\ AU!Init
        BY DEF ProcessInit
  <1>2. [ProcessNext]_processVars => [SI!Next]_SI!vars
        <2>1. UNCHANGED lock => UNCHANGED SI!vars
              BY DEF lock, SI!vars
        <2>2. ProcessNext => SI!Next \/ UNCHANGED lock
              BY DEF ProcessNext
        <2>3. UNCHANGED processVars => UNCHANGED lock
              BY DEF processVars
        <2> QED BY <2>1, <2>2, <2>3
  <1>3. [ProcessNext]_processVars => [AU!Next]_AU!vars
        <2>1. UNCHANGED audit => UNCHANGED AU!vars
              BY DEF audit, AU!vars, AU!pool, AU!emitter
        <2>2. ProcessNext => AU!Next \/ UNCHANGED audit
              BY DEF ProcessNext
        <2>3. UNCHANGED processVars => UNCHANGED audit
              BY DEF processVars
        <2> QED BY <2>1, <2>2, <2>3
  <1> QED BY <1>1, <1>2, <1>3, PTL DEF ProcessSpec, SI!Spec, AU!Spec

(* The process among its parts: one engine at a time, no thread that is     *)
(* joined too late, and real money only when it was asked for               *)
(* (SingleInstanceLock, TraderDaemon, TradingLoop::Start).                  *)
THEOREM ProcessProcessHolds == ProcessSpec => []ProcessHolds
  <1>1. SI!LockAssumption
        BY ProcessAssumption
  <1>2. SI!Spec => []LockInv
        <2>1. LockInv /\ [SI!Next]_SI!vars => LockInv'
              BY <1>1, LockNext
        <2> QED BY <1>1, <2>1, LockInit, PTL DEF SI!Spec
  <1>3. processPart = "daemon" /\ ProcessSpec => []ProcessHolds
        <2>1. processPart = "daemon" /\ ProcessInit => DA!Init
              BY DEF ProcessInit
        <2>2. [ProcessNext]_processVars => [DA!Next]_DA!vars
              <3>1. UNCHANGED daemon => UNCHANGED DA!vars
                    BY DEF daemon, DA!vars
              <3>2. ProcessNext => DA!Next \/ UNCHANGED daemon
                    BY DEF ProcessNext
              <3>3. UNCHANGED processVars => UNCHANGED daemon
                    BY DEF processVars
              <3> QED BY <3>1, <3>2, <3>3
        <2>3. processPart = "daemon" /\ [ProcessNext]_processVars => (processPart = "daemon")'
              BY DEF ProcessNext, processVars
        <2>4. processPart = "daemon" /\ DA!TypeOK /\ DA!NoUseAfterDestroy /\ DA!RealMoneyIsDeliberate
                => ProcessHolds
              BY DEF ProcessHolds
        <2>5. DA!Spec => []DA!NoUseAfterDestroy
              BY SpecNoUseAfterDestroy
        <2> QED BY <2>1, <2>2, <2>3, <2>4, <2>5, DaemonHasTypes, SpecRealMoneyIsDeliberate, PTL
                DEF ProcessSpec, DA!Spec
  <1>4. ~(processPart = "daemon") /\ ProcessSpec => []ProcessHolds
        <2>1. ~(processPart = "daemon") /\ [ProcessNext]_processVars => (~(processPart = "daemon"))'
              BY DEF ProcessNext, processVars
        <2>2. ~(processPart = "daemon") /\ LockInv => ProcessHolds
              BY DEF ProcessHolds, LockInv, SI!OneEngine
        <2> QED BY <1>2, <2>1, <2>2, ProcessAreSpecs, PTL DEF ProcessSpec
  <1> QED BY <1>3, <1>4, PTL

(* The audit records among the parts of the process: they are one chain and *)
(* its verification accepts what it should (AuditEmitterPool).              *)
THEOREM ProcessLogsHold == ProcessSpec => []LogsHold
  <1>1. AU!AuditAssumption
        BY ProcessAssumption
  <1>2. AU!Spec => []AU!TypeOK /\ []AU!OneChain /\ []AU!VerifyAcceptsRecent
        BY <1>1, AuditHasTypes, SpecOneChain, SpecVerifyAcceptsRecent, PTL
  <1>3. AU!TypeOK /\ AU!OneChain /\ AU!VerifyAcceptsRecent => LogsHold
        BY DEF LogsHold
  <1> QED BY <1>2, <1>3, ProcessAreSpecs, PTL

(* The scores and the subscriptions follow their own specifications.        *)
LEMMA FeedsAreSpecs == FeedsSpec => SF!Spec /\ SU!Spec
  <1>1. FeedsInit => SF!Init /\ SU!Init
        BY DEF FeedsInit
  <1>2. [FeedsNext]_feedVars => [SF!Next]_SF!vars
        <2>1. UNCHANGED scoreVars => UNCHANGED SF!vars
              BY DEF scoreVars, SF!vars
        <2>2. FeedsNext => SF!Next \/ UNCHANGED scoreVars
              BY DEF FeedsNext
        <2>3. UNCHANGED feedVars => UNCHANGED scoreVars
              BY DEF feedVars
        <2> QED BY <2>1, <2>2, <2>3
  <1>3. [FeedsNext]_feedVars => [SU!Next]_SU!vars
        <2>1. UNCHANGED subscriptionVars => UNCHANGED SU!vars
              BY DEF subscriptionVars, SU!vars, SU!world, SU!tables, SU!matching
        <2>2. FeedsNext => SU!Next \/ UNCHANGED subscriptionVars
              BY DEF FeedsNext
        <2>3. UNCHANGED feedVars => UNCHANGED subscriptionVars
              BY DEF feedVars
        <2> QED BY <2>1, <2>2, <2>3
  <1> QED BY <1>1, <1>2, <1>3, PTL DEF FeedsSpec, SF!Spec, SU!Spec

(* What follows the games, together: the score store loses no row, and what *)
(* a frame is read as is what is played (InplayFeedThread, TraderDaemon's   *)
(* mapping thread, ParseFrame).                                             *)
THEOREM FeedsRowsAreTrue == FeedsSpec => []RowsAreTrue
  <1>1. SF!ScoreFeedAssumption /\ SU!SubscriptionAssumption /\ FR!FrameAssumption
        BY FeedsAssumption
  <1>2. SF!Spec => []SF!TypeOK /\ []SF!StoreIsWhole
        BY <1>1, FeedHasTypes, SpecStoreIsWhole, PTL
  <1>3. SU!Spec => []SU!TypeOK
        BY <1>1, SubscriptionHasTypes
  <1>4. feedsPart = "frame" /\ FeedsSpec => [](feedsPart = "frame" => FR!FrameHolds)
        <2>1. feedsPart = "frame" /\ FeedsInit => FR!Init
              BY DEF FeedsInit
        <2>2. [FeedsNext]_feedVars => [FR!Next]_FR!vars
              <3>1. UNCHANGED inplayVars => UNCHANGED FR!vars
                    BY DEF inplayVars, FR!vars
              <3>2. FeedsNext => FR!Next \/ UNCHANGED inplayVars
                    BY DEF FeedsNext
              <3>3. UNCHANGED feedVars => UNCHANGED inplayVars
                    BY DEF feedVars
              <3> QED BY <3>1, <3>2, <3>3
        <2>3. FR!Spec => []FR!FrameHolds
              BY <1>1, SpecFrameHolds
        <2>4. FR!FrameHolds => (feedsPart = "frame" => FR!FrameHolds)
              OBVIOUS
        <2> QED BY <2>1, <2>2, <2>3, <2>4, PTL DEF FeedsSpec, FR!Spec
  <1>5. ~(feedsPart = "frame") /\ FeedsSpec => [](feedsPart = "frame" => FR!FrameHolds)
        <2>1. ~(feedsPart = "frame") /\ [FeedsNext]_feedVars => (~(feedsPart = "frame"))'
              BY DEF FeedsNext, feedVars
        <2>2. ~(feedsPart = "frame") => (feedsPart = "frame" => FR!FrameHolds)
              OBVIOUS
        <2> QED BY <2>1, <2>2, PTL DEF FeedsSpec
  <1>6. SF!TypeOK /\ SU!TypeOK /\ SF!StoreIsWhole /\ (feedsPart = "frame" => FR!FrameHolds)
          => RowsAreTrue
        BY DEF RowsAreTrue
  <1> QED BY <1>2, <1>3, <1>4, <1>5, <1>6, FeedsAreSpecs, PTL
=============================================================================
