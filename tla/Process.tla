------------------------------ MODULE Process -------------------------------
(***************************************************************************)
(* The process side by side: its lock (SingleInstance), its threads from   *)
(* start to destruction (Daemon), and the chain of its audit records       *)
(* (AuditChain).                                                           *)
(***************************************************************************)
EXTENDS Integers

CONSTANTS
  \* SingleInstance
  Procs, kRetries, MaxFiles,
  \* Daemon
  Configs, Watched,
  \* AuditChain
  Emitters, Origins, kGlobalSnapCap, MaxRecords

VARIABLES
  processPart,  \* the component a behaviour follows; the others stand still
  \* SingleInstance
  path, made, fd, locked, st, left,
  \* Daemon
  cfg, who, pc, th, told, stop, end,
  \* AuditChain
  global_seq_, shared_last_hash_, global_snaps_, step, last_hash_, seq_counter_, wal, missing

lock == <<path, made, fd, locked, st, left>>
daemon == <<cfg, who, pc, th, told, stop, end>>
audit == <<global_seq_, shared_last_hash_, global_snaps_, step, last_hash_, seq_counter_, wal,
  missing>>
processVars == <<processPart, lock, daemon, audit>>

-----------------------------------------------------------------------------
(* No program installs the handler of signals.                              *)
SI == INSTANCE SingleInstance WITH Handled <- FALSE

DA == INSTANCE Daemon

AU == INSTANCE AuditChain WITH Threads <- Emitters

ASSUME ProcessAssumption == SI!LockAssumption /\ AU!AuditAssumption

(* A daemon that stands still has refused its command line.                 *)
ProcessInit ==
  /\ SI!Init /\ AU!Init
  /\ IF processPart = "daemon" THEN DA!Init
     ELSE /\ cfg = [entry |-> "headless"] /\ who = "loop" /\ end = "refused"
          /\ pc = 0 /\ th = "none" /\ told = FALSE /\ stop = FALSE

ProcessNext ==
  \/ processPart = "lock" /\ SI!Next /\ UNCHANGED <<processPart, daemon, audit>>
  \/ processPart = "daemon" /\ DA!Next /\ UNCHANGED <<processPart, lock, audit>>
  \/ processPart = "audit" /\ AU!Next /\ UNCHANGED <<processPart, lock, daemon>>

ProcessSpec == ProcessInit /\ [][ProcessNext]_processVars

-----------------------------------------------------------------------------
(* One engine runs at a time; no thread of it works on a member that is     *)
(* destroyed; it trades real money only when that was asked for.            *)
ProcessHolds ==
  /\ processPart = "lock" => SI!TypeOK /\ SI!OneEngine
  /\ processPart = "daemon" => DA!TypeOK /\ DA!NoUseAfterDestroy /\ DA!RealMoneyIsDeliberate

(* The records of all origins are one chain in the order of their numbers,  *)
(* and its verification accepts the last places of it and no others.        *)
LogsHold ==
  processPart = "audit" => AU!TypeOK /\ AU!OneChain /\ AU!VerifyAcceptsRecent
=============================================================================
