----------------------------- MODULE AuditChain -----------------------------
(***************************************************************************)
(* The audit records of several threads in one hash chain                  *)
(* (AuditEmitterPool).                                                     *)
(*                                                                         *)
(* A record's place in the chain is taken under chain_mutex_; the record   *)
(* is handed to the writer of its origin after the mutex is released.  The *)
(* writer (WalWriter) is a skeleton: it accepts a record or refuses it and *)
(* puts nothing on disk, so the chain is one of accepted records.  A hash  *)
(* is modelled by what it commits to: the numbers of all the records       *)
(* before it and its own.                                                  *)
(***************************************************************************)
EXTENDS Naturals, SequencesExt

CONSTANTS
  Threads, Origins,
  kGlobalSnapCap,   \* places kept for hash_chain_verify_global
  MaxRecords        \* bound

(* Assumed of the constants where the module is instantiated.              *)
AuditAssumption == kGlobalSnapCap \in Nat \ {0} /\ MaxRecords \in Nat

VARIABLES
  global_seq_, shared_last_hash_, global_snaps_,  \* AuditEmitterPool
  step,      \* per thread: the place it has taken, or Idle
  last_hash_, seq_counter_,                       \* per emitter
  wal,       \* per origin: the records its writer accepted
  missing    \* history: numbers of the records it refused

pool == <<global_seq_, shared_last_hash_, global_snaps_>>
emitter == <<last_hash_, seq_counter_>>
vars == <<pool, step, emitter, wal, missing>>

Idle == [origin |-> "none"]
Genesis == <<>>

(* Decisions of six types, five events of the state machine, and the drift  *)
(* of a reconciliation, the only one whose time stamps are not checked.     *)
Kinds == {"decision", "safe_mode_enter", "safe_mode_exit", "state_transition", "unlock",
          "strategy_decayed", "recon_drift"}
Inputs == [ts_chain_ok : BOOLEAN, reject_ok : BOOLEAN]
Checked(kind, in) ==
  /\ kind = "recon_drift" \/ in.ts_chain_ok
  /\ kind = "decision" => in.reject_ok

Init ==
  /\ global_seq_ = 0 /\ shared_last_hash_ = Genesis
  /\ global_snaps_ = [i \in 0..(kGlobalSnapCap - 1) |-> 0]
  /\ step = [t \in Threads |-> Idle]
  /\ last_hash_ = [o \in Origins |-> Genesis] /\ seq_counter_ = [o \in Origins |-> 0]
  /\ wal = [o \in Origins |-> <<>>] /\ missing = {}

(* alloc_chain_step_locked, and whether the writer will find the stamps     *)
(* of the record in order.                                                  *)
ChainStep(prev, n, o, in) ==
  [origin |-> o, seq |-> n, prev_hash |-> prev, current_hash |-> Append(prev, n),
   ok |-> in.ts_chain_ok]

(* Mutant: the chain goes on from the emitter's own last record.            *)
EmitOwn(t, o, kind, in) ==
  /\ step[t] = Idle /\ global_seq_ < MaxRecords /\ Checked(kind, in)
  /\ global_seq_' = global_seq_ + 1
  /\ LET s == ChainStep(last_hash_[o], global_seq_', o, in)
     IN  /\ step' = [step EXCEPT ![t] = s]
         /\ shared_last_hash_' = s.current_hash
  /\ global_snaps_' = [global_snaps_ EXCEPT ![global_seq_ % kGlobalSnapCap] = global_seq_']
  /\ UNCHANGED <<emitter, wal, missing>>

(* The checks of each kind, then the place in the chain, under the mutex.   *)
Emit(t, o, kind, in) ==
  /\ step[t] = Idle /\ global_seq_ < MaxRecords /\ Checked(kind, in)
  /\ global_seq_' = global_seq_ + 1
  /\ LET s == ChainStep(shared_last_hash_, global_seq_', o, in)
     IN  /\ step' = [step EXCEPT ![t] = s]
         /\ shared_last_hash_' = s.current_hash
  /\ global_snaps_' = [global_snaps_ EXCEPT ![global_seq_ % kGlobalSnapCap] = global_seq_']
  /\ UNCHANGED <<emitter, wal, missing>>

(* emit_with_injected_chain, outside the mutex: the emitter's own state and *)
(* the writer, which refuses time stamps out of order, or any record once it *)
(* has failed.                                                              *)
EmitWithInjectedChain(t, written) ==
  /\ step[t] # Idle /\ (written => step[t].ok)
  /\ LET s == step[t]
         r == [seq |-> s.seq, prev_hash |-> s.prev_hash, current_hash |-> s.current_hash]
     IN  /\ last_hash_' = [last_hash_ EXCEPT ![s.origin] = s.current_hash]
         /\ seq_counter_' = [seq_counter_ EXCEPT ![s.origin] = s.seq]
         /\ wal' = IF written THEN [wal EXCEPT ![s.origin] = Append(@, r)] ELSE wal
         /\ missing' = IF written THEN missing ELSE missing \cup {s.seq}
  /\ step' = [step EXCEPT ![t] = Idle]
  /\ UNCHANGED pool

Next == \E t \in Threads :
  \/ \E o \in Origins, kind \in Kinds, in \in Inputs :
       Emit(t, o, kind, in)
  \/ \E written \in BOOLEAN : EmitWithInjectedChain(t, written)

Spec == Init /\ [][Next]_vars

-----------------------------------------------------------------------------
Records == UNION {ToSet(wal[o]) : o \in Origins}
Pending == {step[t].seq : t \in {u \in Threads : step[u] # Idle}}

TypeOK ==
  /\ global_seq_ \in 0..MaxRecords /\ seq_counter_ \in [Origins -> 0..MaxRecords]
  /\ missing \subseteq 1..MaxRecords
  /\ \A t \in Threads : step[t] = Idle \/ step[t].origin \in Origins

(* hash_chain_verify_global: every number of the range is among the places. *)
Verify(from, to) ==
  LET window_start == IF global_seq_ > kGlobalSnapCap THEN global_seq_ - kGlobalSnapCap ELSE 0
  IN  /\ from <= to /\ global_seq_ > 0 /\ from >= window_start + 1
      /\ \A n \in from..to : \E i \in DOMAIN global_snaps_ : global_snaps_[i] = n

(* Read together and put in the order of their numbers, the records of all  *)
(* origins are one chain, whatever thread wrote what when: each record     *)
(* commits to all the records before it, none is there twice, and a number  *)
(* without a record is one whose write failed.                              *)
OneChain ==
  /\ \A r \in Records : r.current_hash = [n \in 1..r.seq |-> n]
  /\ {r.seq : r \in Records} \cup Pending \cup missing = 1..global_seq_
  /\ \A o, p \in Origins : \A i \in DOMAIN wal[o], j \in DOMAIN wal[p] :
       wal[o][i].seq = wal[p][j].seq => o = p /\ i = j

(* The verification accepts exactly the ranges of the last places, whether  *)
(* or not their records could be written.                                   *)
VerifyAcceptsRecent ==
  \A from, to \in 1..MaxRecords :
    Verify(from, to) <=> from <= to /\ to <= global_seq_ /\ from + kGlobalSnapCap > global_seq_
=============================================================================
