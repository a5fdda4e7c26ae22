---------------------------- MODULE WssTransport ----------------------------
(***************************************************************************)
(* The threads of one WebSocket (LiveWssTransport).                        *)
(*                                                                         *)
(* The owner connects and closes; an io thread connects, tells the owner,  *)
(* starts a send thread and reads frames; the send thread sleeps on a      *)
(* condition variable until a message is queued or stop_ is set.  stop_ is *)
(* set and notified without the mutex of the queue, so a send thread that  *)
(* has tested its condition and does not sleep yet misses the call.        *)
(***************************************************************************)
EXTENDS Integers

CONSTANTS MaxMessages, MaxConnects

(* Assumed of the constants where the module is instantiated.              *)
WssTransportAssumption == {MaxMessages, MaxConnects} \subseteq Nat

VARIABLES
  owner,      \* idle, reconnecting (joins the io thread), closing, cleaning
  io,         \* none or where io_thread_ is; done: finished, not joined
  send,       \* none or where send_thread_ is; done: finished, not joined
  stop_, connected_,
  ssl_,       \* whether an SSL object exists
  send_queue_, \* how many messages wait
  peer,       \* whether the other end still talks
  connects, messages

threads == <<owner, io, send>>
vars == <<threads, stop_, connected_, ssl_, send_queue_, peer, connects, messages>>

TypeOK ==
  /\ owner \in {"idle", "reconnecting", "closing", "cleaning"}
  /\ io \in {"none", "connecting", "handshake", "greeting", "reading", "leaving",
             "joining", "reporting", "done"}
  /\ send \in {"none", "awake", "tested", "asleep", "writing", "done"}
  /\ {stop_, connected_, ssl_, peer} \subseteq BOOLEAN
  /\ send_queue_ \in 0..(MaxMessages + MaxConnects)

Init ==
  /\ owner = "idle" /\ io = "none" /\ send = "none"
  /\ stop_ = FALSE /\ connected_ = FALSE /\ ssl_ = FALSE
  /\ send_queue_ = 0 /\ peer = FALSE /\ connects = 0 /\ messages = 0

(* notify_all: only a thread that sleeps hears it.                          *)
Notified == IF send = "asleep" THEN "awake" ELSE send

-----------------------------------------------------------------------------
(* The owner.                                                               *)
StartIo == io' = "connecting" /\ stop_' = FALSE

(* AsyncConnect: a thread that still runs is told to stop and joined.       *)
AsyncConnect ==
  /\ owner = "idle" /\ connects < MaxConnects /\ connects' = connects + 1
  /\ \/ io = "none" /\ StartIo /\ UNCHANGED owner
     \/ io # "none" /\ owner' = "reconnecting" /\ stop_' = TRUE /\ UNCHANGED io
  /\ UNCHANGED <<send, connected_, ssl_, send_queue_, peer, messages>>

Reconnect ==
  /\ owner = "reconnecting" /\ io = "done"
  /\ owner' = "idle" /\ StartIo
  /\ UNCHANGED <<send, connected_, ssl_, send_queue_, peer, connects, messages>>

Close ==
  /\ owner = "idle" /\ owner' = "closing"
  /\ stop_' = TRUE /\ send' = Notified
  /\ UNCHANGED <<io, connected_, ssl_, send_queue_, peer, connects, messages>>

CloseJoined ==
  /\ owner = "closing" /\ io \in {"none", "done"}
  /\ owner' = "idle" /\ io' = "none" /\ ssl_' = FALSE /\ connected_' = FALSE
  /\ UNCHANGED <<send, stop_, send_queue_, peer, connects, messages>>

(* The message is queued under the mutex: no call is missed.                *)
AsyncSendText ==
  /\ owner = "idle" /\ messages < MaxMessages /\ messages' = messages + 1
  /\ send # "tested"
  /\ send_queue_' = send_queue_ + 1 /\ send' = Notified
  /\ UNCHANGED <<owner, io, stop_, connected_, ssl_, peer, connects>>

-----------------------------------------------------------------------------
(* The io thread.                                                           *)

(* Sockets, proxy, TLS: a step that fails frees what it has and reports.    *)
TcpConnect ==
  /\ io = "connecting"
  /\ \/ io' = "handshake" /\ ssl_' = TRUE /\ peer' = TRUE
     \/ io' = "done" /\ UNCHANGED <<ssl_, peer>>
  /\ UNCHANGED <<owner, send, stop_, connected_, send_queue_, connects, messages>>

WsHandshake ==
  /\ io = "handshake"
  /\ \/ io' = "greeting" /\ connected_' = TRUE /\ UNCHANGED ssl_
     \/ io' = "done" /\ ssl_' = FALSE /\ connected_' = FALSE
  /\ UNCHANGED <<owner, send, stop_, send_queue_, peer, connects, messages>>

(* OnConnected queues the subscription; then the send thread starts.        *)
OnConnected ==
  /\ io = "greeting" /\ io' = "reading"
  /\ send' = "awake"
  /\ send_queue_' = send_queue_ + 1
  /\ UNCHANGED <<owner, stop_, connected_, ssl_, peer, connects, messages>>

(* A read returns: a frame, or nothing because the peer is gone.  Only then *)
(* stop_ is looked at.                                                      *)
RecvLoop ==
  /\ io = "reading"
  /\ io' = IF peer /\ ~stop_ THEN "reading" ELSE "leaving"
  /\ UNCHANGED <<owner, send, stop_, connected_, ssl_, send_queue_, peer, connects, messages>>

PeerCloses ==
  /\ peer /\ peer' = FALSE
  /\ UNCHANGED <<threads, stop_, connected_, ssl_, send_queue_, connects, messages>>

LeaveIoLoop ==
  /\ io = "leaving" /\ io' = "joining"
  /\ connected_' = FALSE /\ stop_' = TRUE /\ send' = Notified
  /\ UNCHANGED <<owner, ssl_, send_queue_, peer, connects, messages>>

(* Mutant: the connection is freed before the send thread is joined.        *)
CleanupBeforeJoin ==
  /\ io = "joining" /\ io' = "done" /\ ssl_' = FALSE
  /\ UNCHANGED <<owner, send, stop_, connected_, send_queue_, peer, connects, messages>>

(* The send thread is joined, the connection freed, the owner told.         *)
CleanupSsl ==
  /\ io = "joining" /\ send = "done"
  /\ io' = "done" /\ send' = "none" /\ ssl_' = FALSE
  /\ UNCHANGED <<owner, stop_, connected_, send_queue_, peer, connects, messages>>

-----------------------------------------------------------------------------
(* The send thread: it tests under the mutex, sleeps, takes one message and *)
(* writes it if the connection is up.                                       *)
SendTest ==
  /\ send = "awake"
  /\ IF stop_ THEN send' = "done" /\ UNCHANGED send_queue_
     ELSE IF send_queue_ = 0 THEN send' = "tested" /\ UNCHANGED send_queue_
     ELSE /\ send_queue_' = send_queue_ - 1
          /\ send' = IF ssl_ /\ connected_ THEN "writing" ELSE "awake"
  /\ UNCHANGED <<owner, io, stop_, connected_, ssl_, peer, connects, messages>>

(* Mutant: after a write the thread waits without a test.                   *)
WrittenThenAsleep ==
  /\ send = "writing" /\ send' = "tested"
  /\ UNCHANGED <<owner, io, stop_, connected_, ssl_, send_queue_, peer, connects, messages>>

SendWsText ==
  /\ send = "writing" /\ send' = "awake"
  /\ UNCHANGED <<owner, io, stop_, connected_, ssl_, send_queue_, peer, connects, messages>>

SendSleeps ==
  /\ send = "tested" /\ send' = "asleep"
  /\ UNCHANGED <<owner, io, stop_, connected_, ssl_, send_queue_, peer, connects, messages>>

-----------------------------------------------------------------------------
OwnerStep == Reconnect \/ CloseJoined
IoStep == TcpConnect \/ WsHandshake \/ OnConnected \/ RecvLoop \/ LeaveIoLoop \/ CleanupSsl
SendStep == SendTest \/ SendWsText \/ SendSleeps

Next ==
  \/ AsyncConnect \/ Close \/ AsyncSendText \/ OwnerStep
  \/ IoStep \/ SendStep \/ PeerCloses

Spec == Init /\ [][Next]_vars

(* The threads go on; a read returns because the other end talks (it        *)
(* answers every PING) or closes.                                           *)
FairSpec == Spec /\ WF_vars(OwnerStep) /\ WF_vars(IoStep) /\ WF_vars(SendStep)

-----------------------------------------------------------------------------
(* Whoever reads or writes a connection has one that nobody has freed, over *)
(* every order of Close, a reconnection and the end of a connection.        *)
NoUseAfterFree == send = "writing" \/ io \in {"greeting", "reading"} => ssl_

(* A queued message leaves the queue unless the connection is given up.     *)
EventuallySent ==
  \A n \in 1..(MaxMessages + MaxConnects) :
    send_queue_ = n /\ connected_ ~> send_queue_ < n \/ ~connected_

(* Close returns: both threads end.                                         *)
CloseReturns == owner = "closing" ~> owner = "idle"
=============================================================================
