--------------------------- MODULE SingleInstance ---------------------------
(* The lock that keeps a machine to one engine (infra/process): a process     *)
(* opens the pid file, takes flock on what it opened, tries five more times   *)
(* on the same descriptor when another process holds it, and gives up.  The   *)
(* kernel drops the lock of a process that ends.  The file's directory entry  *)
(* and the file are two things: unlink takes the entry away and leaves the    *)
(* file to whoever has it open.                                               *)
EXTENDS Naturals, FiniteSets

CONSTANTS
  Procs,      \* the processes an operator, a script or systemd starts
  kRetries,   \* attempts on a lock that is held (5 in acquire_)
  MaxFiles,   \* files the path may name in turn (bounds the model)
  Handled     \* TRUE: InstallSigtermHandler is called after the lock is taken
              \* FALSE: the mains' own handle_signal, which only asks to stop

(* Assumed of the constants where the module is instantiated.              *)
LockAssumption ==
  /\ kRetries \in Nat /\ MaxFiles \in Nat \ {0} /\ Handled \in BOOLEAN
  /\ "free" \notin Procs

None == 0

VARIABLES
  path,     \* the file the pid path names, or None
  made,     \* files made so far
  fd,       \* what each process has open, or None
  locked,   \* the process that holds flock on each file, or "free"
  st,       \* "new", "open", "retry", "run", "unlinked", "refused", "ended"
  left      \* attempts left of a process that retries

vars == <<path, made, fd, locked, st, left>>

Files == 1..MaxFiles
Owners == Procs \cup {"free"}

TypeOK ==
  /\ path \in Files \cup {None} /\ made \in 0..MaxFiles
  /\ fd \in [Procs -> Files \cup {None}]
  /\ locked \in [Files -> Owners]
  /\ st \in [Procs -> {"new", "open", "retry", "run", "unlinked", "refused", "ended"}]
  /\ left \in [Procs -> 0..kRetries]

Init ==
  /\ path = None /\ made = 0
  /\ fd = [p \in Procs |-> None]
  /\ locked = [f \in Files |-> "free"]
  /\ st = [p \in Procs |-> "new"] /\ left = [p \in Procs |-> 0]

\* Closing a descriptor drops the lock it holds; nothing else does.
Dropped(p) == [f \in Files |-> IF locked[f] = p THEN "free" ELSE locked[f]]

-----------------------------------------------------------------------------
\* MkdirP, then open with O_CREAT: the file the path names, or a new one.
Open(p) ==
  /\ st[p] = "new"
  /\ path = None => made < MaxFiles
  /\ LET f == IF path = None THEN made + 1 ELSE path IN
       /\ path' = f /\ made' = IF path = None THEN made + 1 ELSE made
       /\ fd' = [fd EXCEPT ![p] = f]
  /\ st' = [st EXCEPT ![p] = "open"]
  /\ UNCHANGED <<locked, left>>

\* flock with LOCK_NB on a file nobody has locked.  The pid line is then
\* written to the file; it only serves the message of a refusal.
Lock(p) ==
  /\ st[p] \in {"open", "retry"}
  /\ st[p] = "retry" => left[p] > 0
  /\ locked[fd[p]] = "free"
  /\ locked' = [locked EXCEPT ![fd[p]] = p]
  /\ st' = [st EXCEPT ![p] = "run"]
  /\ UNCHANGED <<path, made, fd, left>>

\* EWOULDBLOCK: sleep 200 ms and try the same descriptor again, kRetries times.
TryLater(p) ==
  /\ st[p] \in {"open", "retry"}
  /\ locked[fd[p]] # "free"
  /\ \/ /\ st[p] = "open"
        /\ st' = [st EXCEPT ![p] = "retry"]
        /\ left' = [left EXCEPT ![p] = kRetries]
     \/ /\ st[p] = "retry" /\ left[p] > 0
        /\ left' = [left EXCEPT ![p] = @ - 1]
        /\ UNCHANGED st
  /\ UNCHANGED <<path, made, fd, locked>>

\* The attempts are used up: the file is closed and the process exits with 3.
Refuse(p) ==
  /\ st[p] = "retry" /\ left[p] = 0
  /\ st' = [st EXCEPT ![p] = "refused"]
  /\ fd' = [fd EXCEPT ![p] = None]
  /\ UNCHANGED <<path, made, locked, left>>

\* A release that removes the file after the lock is dropped.
EndRemoved(p) ==
  /\ st[p] \in {"open", "retry", "run", "unlinked"}
  /\ st' = [st EXCEPT ![p] = "ended"]
  /\ fd' = [fd EXCEPT ![p] = None]
  /\ locked' = Dropped(p)
  /\ path' = IF st[p] = "run" THEN None ELSE path
  /\ UNCHANGED <<made, left>>

\* A process that dies, or returns from main: the kernel closes what it has
\* open.  The file stays where it is, with its pid line.
End(p) ==
  /\ st[p] \in {"open", "retry", "run", "unlinked"}
  /\ st' = [st EXCEPT ![p] = "ended"]
  /\ fd' = [fd EXCEPT ![p] = None]
  /\ locked' = Dropped(p)
  /\ UNCHANGED <<path, made, left>>

\* SigtermHandlerImpl: unlink of the path comes first, close and _exit (End)
\* after it.
Unlink(p) ==
  /\ Handled
  /\ st[p] = "run"
  /\ st' = [st EXCEPT ![p] = "unlinked"]
  /\ path' = None
  /\ UNCHANGED <<made, fd, locked, left>>

Step(p) == Open(p) \/ Lock(p) \/ TryLater(p) \/ Refuse(p)

Next == \E p \in Procs : Step(p) \/ End(p) \/ Unlink(p)

Spec == Init /\ [][Next]_vars
-----------------------------------------------------------------------------
(* Two processes never run as the engine at once (single_instance.hpp: "any   *)
(* mode, only one engine instance"), however their starts, deaths and retries *)
(* interleave.  The lock is on the file, the promise is about the path: it    *)
(* holds because nothing removes the path while a process has its file open.  *)
OneEngine ==
  \A p, q \in Procs : st[p] = "run" /\ st[q] = "run" => p = q

=============================================================================
