----------------------------- MODULE Deliveries -----------------------------
(***************************************************************************)
(* What must arrive: frames of the exchange, messages of a connection,     *)
(* lines of a file, and trades of a chain (LiveFills, whose names this     *)
(* module has).  Each behaviour follows one of the components (part), the  *)
(* others stand still.  They share no variable, so this is their promises  *)
(* side by side and not a composition.                                     *)
(***************************************************************************)
EXTENDS LiveFills

CONSTANTS
  \* WssTransport
  MaxMessages, MaxConnects,
  \* ClobSubscriber
  Tokens, Initial, Conditions, Skews, kFutureGuard, QueueCap, AdapterCap, MaxNo, MaxBreaks,
  \* Journal
  WriterQueue, kFillsRingCap, MaxFills, MaxSaves, MaxCrashes, MaxErrors

VARIABLES
  part,
  \* WssTransport
  owner, io, send, wsStop, connected_, ssl_, send_queue_, peer, connects, messages,
  \* ClobSubscriber
  csLink, told, served, no, wire, token_seq_map_, snapshot_received_, queue, adapter,
  missed, hole, breaks, userLink, user_condition_ids_, userTold, userServed, wanted,
  \* Journal
  journalAlive, fills, fills_ring_, saves, q_, enqueued_, processed_, writerStop,
  writer, batch, taken, stopping, lines, target, file, savedFile, fillsLost, requested,
  crashes, errors

transport == <<owner, io, send, wsStop, connected_, ssl_, send_queue_, peer, connects,
  messages>>
clob == <<csLink, told, served, no, wire, token_seq_map_, snapshot_received_, queue,
  adapter, missed, hole, breaks, userLink, user_condition_ids_, userTold, userServed, wanted>>
journal == <<journalAlive, fills, fills_ring_, saves, q_, enqueued_, processed_, writerStop,
  writer, batch, taken, stopping, lines, target, file, savedFile, fillsLost, requested,
  crashes, errors>>
deliveryVars == <<part, transport, clob, journal, vars>>

-----------------------------------------------------------------------------
WT == INSTANCE WssTransport WITH stop_ <- wsStop

CS == INSTANCE ClobSubscriber WITH link <- csLink

JO == INSTANCE Journal WITH
  alive <- journalAlive, stop_ <- writerStop, buf <- lines, snapshot <- savedFile,
  lost <- fillsLost, restarts <- crashes, kMaxQueue <- WriterQueue, MaxRestarts <- MaxCrashes

ASSUME DeliveriesAssumption ==
  /\ WT!WssTransportAssumption /\ CS!ClobSubscriberAssumption /\ JO!JournalAssumption

-----------------------------------------------------------------------------
(* Who stands still starts in one state.                                    *)
DeliveriesInit ==
  /\ part \in {"transport", "clob", "journal", "booking"}
  /\ WT!Init /\ CS!Init /\ JO!Init /\ Init
  /\ part = "clob" \/ user_condition_ids_ = {}

DeliveriesNext ==
  \/ part = "transport" /\ WT!Next /\ UNCHANGED <<part, clob, journal, vars>>
  \/ part = "clob" /\ CS!Next /\ UNCHANGED <<part, transport, journal, vars>>
  \/ part = "journal" /\ JO!Next /\ UNCHANGED <<part, transport, clob, vars>>
  \/ part = "booking" /\ Next /\ UNCHANGED <<part, transport, clob, journal>>

DeliveriesSpec == DeliveriesInit /\ [][DeliveriesNext]_deliveryVars

(* The fairness of each component; it binds the one that moves.             *)
DeliveriesFairness ==
  /\ WF_transport(part = "transport" /\ WT!OwnerStep)
  /\ WF_transport(part = "transport" /\ WT!IoStep)
  /\ WF_transport(part = "transport" /\ WT!SendStep)
  /\ WF_clob(part = "clob" /\ CS!OnMarketConnected)
  /\ WF_clob(part = "clob" /\ CS!OnUserConnected)
  /\ WF_clob(part = "clob" /\ CS!AnswerUser)
  /\ \A t \in Tokens : /\ WF_clob(part = "clob" /\ CS!Answer(t))
                       /\ WF_clob(part = "clob" /\ CS!Change(t))
  /\ WF_clob(part = "clob" /\ CS!Frames) /\ WF_clob(part = "clob" /\ CS!OnEvent)
  /\ WF_journal(part = "journal" /\ JO!Writer)
  /\ SF_journal(part = "journal" /\ JO!FlushSink)
  /\ WF_vars(part = "booking" /\ LoopStep)
  /\ WF_vars(part = "booking" /\ IoStep)
  /\ WF_vars(part = "booking" /\ Seed)

DeliveriesFairSpec == DeliveriesSpec /\ DeliveriesFairness

-----------------------------------------------------------------------------
(* Nobody uses a connection that is freed; the user channel asks for every  *)
(* condition it was told of; a fill's line, a snapshot that was flushed, the *)
(* ring of fills and the orders with trades on the chain are whole but for  *)
(* what a named event lost.                                                 *)
NothingVanishes ==
  /\ WT!TypeOK /\ WT!NoUseAfterFree
  /\ CS!TypeOK /\ CS!UserAsksForAll
  /\ JO!TypeOK /\ JO!NoRowVanishes /\ JO!FlushedIsWritten /\ JO!NoHoleInRing
  /\ TypeOK /\ NoTradeLost

(* A queued message is sent or its connection given up, and a gap between   *)
(* two numbers of a token brings its whole book.                            *)
FramesArrive == WT!EventuallySent /\ CS!GapHeals

(* What is queued for the files is written, and what the chain confirms is  *)
(* booked, across a restart.                                                *)
RecordsArrive == JO!EventuallyWritten /\ EventuallyBooked
=============================================================================
