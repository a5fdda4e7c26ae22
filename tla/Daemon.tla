------------------------------- MODULE Daemon -------------------------------
(* The life of the process: the gates of the two mains, TraderDaemon's Build, *)
(* Start, WaitForStop and Shutdown, and the destruction of its members.       *)
(*                                                                            *)
(* The main thread runs a program that the configuration fixes.  The other    *)
(* threads only meet it at the joins, so the model follows one of them, who,  *)
(* chosen at the start: a join of any other thread returns at once.  A thread *)
(* looks at its stop token and at the pointer to what it is about to use,     *)
(* then fetches (a curl of up to 40 s) and uses it without looking again.     *)
EXTENDS Naturals, Sequences, FiniteSets, SequencesExt

CONSTANTS
  Configs,      \* the command lines and environments to start with
  Watched       \* the threads to follow

(* A configuration:                                                           *)
(*   entry    "server" (trader_server) or "headless" (paper_runtime)          *)
(*   live     --mode live       paper   PAPER_MODE=1 exported                 *)
(*   creds    the five credentials              key     GOALSERVE_API_KEY     *)
(*   fills    --enable-fills    intent  STCPP_LIVE_INTENT_OK=1                *)
(*   armed    LIVE_ARMED=1      bm      STCPP_ENABLE_BM_SLOTS=1               *)
(*   trading  without --no-paper                                              *)
VARIABLES
  cfg,      \* the configuration of this process
  who,      \* the thread that is followed
  pc,       \* steps of the program done
  th,       \* that thread: "none", "idle", "busy", "using", "done"
  told,     \* its stop token
  stop,     \* stop_requested_: a signal has come
  end       \* "up", "refused", "aborted" or "down"

vars == <<cfg, who, pc, th, told, stop, end>>
-----------------------------------------------------------------------------
(* The gates.                                                                 *)

Live(c) == c.entry = "server" /\ c.live

\* paper_runtime runs as paper whatever else is set, and only with PAPER_MODE=1.
AdmittedHeadless(c) == c.entry = "headless" /\ c.paper

\* trader_server refuses --mode live when PAPER_MODE=1 is exported or when one
\* of the credentials is missing.
AdmittedServer(c) == c.entry = "server" /\ (Live(c) => ~c.paper /\ c.creds)

Admitted(c) == AdmittedHeadless(c) \/ AdmittedServer(c)

\* Fills are on in paper (trader_server) or when asked for; advisory otherwise.
Fills(c) == c.fills \/ (c.entry = "server" /\ ~c.live)

\* An intent check that looks at the wrong mode.
StartAbortsInPaper(c) == c.trading /\ Fills(c) /\ ~Live(c) /\ ~c.intent

\* TradingLoop::Start aborts when fills are on outside paper without the
\* explicit intent.
StartAborts(c) == c.trading /\ Fills(c) /\ Live(c) /\ ~c.intent

\* Build opens the order gate in live mode when LIVE_ARMED=1.
GateOpen(c) == Live(c) /\ c.armed
-----------------------------------------------------------------------------
(* Build: what is assembled; Start: which threads run; and what each uses.    *)

Components == {"hub", "scores", "ledger", "rmsnap", "rm", "loop", "inplay",
               "poller", "publisher", "transport", "userfeed", "provider",
               "recorder", "server"}

\* Step 4 and 5 of Build, and Start's user feed; the rest is always built.
Built(c) ==
  Components \ ((IF c.entry = "server" THEN {} ELSE {"server"})
                \cup (IF Live(c) /\ c.creds THEN {} ELSE {"userfeed"}))

\* Start, in its order.
StartOrder == <<"inplay", "poller", "settlement_refresh", "live_stats", "tennis",
                "team", "odds", "transport", "seed", "wss_watchdog", "active_poll",
                "userfeed", "user_watchdog", "loop", "mapping", "disk_prune",
                "recorder", "server">>

Threads == ToSet(StartOrder)

Starts(c, t) ==
  CASE t \in {"settlement_refresh", "live_stats", "loop", "mapping"} -> c.trading
    [] t = "odds"                          -> c.trading /\ c.bm
    [] t \in {"userfeed", "user_watchdog"} -> "userfeed" \in Built(c)
    [] t = "server"                        -> "server" \in Built(c)
    [] OTHER                               -> TRUE

\* The members a thread's work goes through.  The four refresh threads:
UsedByResolution == {"poller", "loop"}
UsedByStats == {"loop", "scores"}
UsedBySupplements(c) == IF c.key THEN {"inplay", "scores", "loop"} ELSE {}
UsedByOdds(c) == IF c.key THEN {"loop"} ELSE {}
\* The mapping thread, which also rediscovers and resubscribes.
UsedByMapping(c) == {"loop", "scores", "hub", "publisher", "transport", "provider",
                     "poller"} \cup ({"userfeed"} \cap Built(c))
\* The HTTP server, through the callbacks Build gives the provider.
UsedByServer == {"server", "provider", "loop", "hub"}
\* The two watchdogs, which ping and report and never reconnect.
UsedByWatchdog == {"transport", "publisher"}
UsedByUserWatchdog == {"userfeed"}

Uses(c, t) ==
  CASE t = "inplay"             -> {"inplay", "scores", "loop"}
    [] t = "poller"             -> {"poller"}
    [] t = "settlement_refresh" -> UsedByResolution
    [] t = "live_stats"         -> UsedByStats
    [] t \in {"tennis", "team"} -> UsedBySupplements(c)
    [] t = "odds"               -> UsedByOdds(c)
    [] t = "transport"          -> {"transport", "publisher", "hub", "loop"}
    [] t \in {"seed", "active_poll"} -> {"publisher", "hub", "loop"}
    [] t = "wss_watchdog"       -> UsedByWatchdog
    [] t = "userfeed"           -> {"userfeed"}
    [] t = "user_watchdog"      -> UsedByUserWatchdog
    [] t = "loop"               -> {"loop", "hub", "rm", "rmsnap", "ledger", "scores"}
                                     \cup ({"userfeed"} \cap Built(c))
    [] t = "mapping"            -> UsedByMapping(c)
    [] t = "recorder"           -> {"recorder", "poller"}
    [] t = "server"             -> UsedByServer
    [] OTHER                    -> {}

\* A Shutdown that leaves the REST seeding thread to its destructor.
ShutdownWithoutSeed == <<"mapping", "settlement_refresh", "live_stats",
                         "wss_watchdog", "user_watchdog", "userfeed", "active_poll",
                         "server", "recorder", "loop", "inplay", "poller", "transport">>

\* Shutdown, in its order.  The refresh threads of the supplementary scores and
\* of the odds, and the disk guard, are not in it.
ShutdownOrder == <<"mapping", "settlement_refresh", "live_stats", "wss_watchdog",
                   "user_watchdog", "userfeed", "active_poll", "seed", "server",
                   "recorder", "loop", "inplay", "poller", "transport">>

\* ~TraderDaemon: members go in the reverse of their declaration.  A jthread's
\* destructor asks it to stop and joins it; these were declared first.
DestroyOrder == <<"server", "recorder", "provider", "user_watchdog", "userfeed",
                  "transport", "publisher", "poller", "inplay", "loop", "rm",
                  "rmsnap", "ledger", "scores", "hub", "wss_watchdog",
                  "active_poll", "seed", "disk_prune", "team", "tennis", "odds",
                  "live_stats", "settlement_refresh", "mapping">>

\* Run: Start, WaitForStop, Shutdown; then the destructor.  A member that owns
\* a thread joins it in its own destructor too.
Tag(kind, order) == [i \in 1..Len(order) |-> <<kind, order[i]>>]
Steps == Tag("start", StartOrder) \o << <<"wait", "signal">> >>
         \o Tag("join", ShutdownOrder) \o Tag("destroy", DestroyOrder)
LastStep == Len(Steps)
Now == Steps[pc + 1]

\* The members that are destroyed.
Gone == {Steps[i][2] : i \in (LastStep - Len(DestroyOrder) + 1)..pc}
-----------------------------------------------------------------------------
TypeOK ==
  /\ cfg \in Configs /\ who \in Watched /\ pc \in 0..LastStep
  /\ th \in {"none", "idle", "busy", "using", "done"}
  /\ told \in BOOLEAN /\ stop \in BOOLEAN
  /\ end \in {"up", "refused", "aborted", "down"}

Init ==
  /\ cfg \in Configs /\ who \in Watched
  /\ pc = 0 /\ th = "none" /\ told = FALSE /\ stop = FALSE
  /\ end = IF Admitted(cfg) THEN "up" ELSE "refused"

\* Start brings up the next thread that the configuration asks for.
Start ==
  /\ Now[1] = "start"
  /\ IF Now[2] = "loop" /\ StartAborts(cfg)
     THEN end' = "aborted" /\ UNCHANGED <<pc, th>>
     ELSE /\ pc' = pc + 1
          /\ th' = IF Now[2] = who /\ Starts(cfg, who) THEN "idle" ELSE th
          /\ UNCHANGED end
  /\ UNCHANGED <<cfg, who, told, stop>>

\* WaitForStop looks at stop_requested_ every 100 ms.
WaitForStop ==
  /\ Now[1] = "wait" /\ stop
  /\ pc' = pc + 1
  /\ UNCHANGED <<cfg, who, th, told, stop, end>>

\* A join, by Shutdown or by a destructor, asks the thread to stop ...
RequestStop ==
  /\ Now[1] \in {"join", "destroy"} /\ Now[2] = who /\ ~told
  /\ told' = TRUE
  /\ UNCHANGED <<cfg, who, pc, th, stop, end>>

\* ... and waits until it has returned.  A member without a running thread is
\* destroyed at once.
Passed ==
  /\ Now[1] \in {"join", "destroy"}
  /\ Now[2] = who => told /\ th \in {"none", "done"}
  /\ pc' = pc + 1
  /\ UNCHANGED <<cfg, who, th, told, stop, end>>

\* The last member is gone; main returns.
Down ==
  /\ end = "up" /\ pc = LastStep
  /\ end' = "down"
  /\ UNCHANGED <<cfg, who, pc, th, told, stop>>

Main ==
  \/ end = "up" /\ pc < LastStep /\ (Start \/ WaitForStop \/ RequestStop \/ Passed)
  \/ Down

\* SIGINT or SIGTERM, at any moment after the daemon exists.
Signal ==
  /\ end = "up" /\ ~stop
  /\ stop' = TRUE
  /\ UNCHANGED <<cfg, who, pc, th, told, end>>

\* A round begins: the stop token is clear and the members are there.
Begin ==
  /\ th = "idle" /\ ~told
  /\ Uses(cfg, who) \cap Gone = {}
  /\ th' = "busy"
  /\ UNCHANGED <<cfg, who, pc, told, stop, end>>

\* What was fetched is handed over, without another look; then the round ends.
Deliver ==
  /\ \/ th = "busy" /\ th' = "using"
     \/ th \in {"busy", "using"} /\ th' = "idle"
  /\ UNCHANGED <<cfg, who, pc, told, stop, end>>

\* The thread sees its stop token.
Leave ==
  /\ th = "idle" /\ told
  /\ th' = "done"
  /\ UNCHANGED <<cfg, who, pc, told, stop, end>>

Thread == end \in {"up"} /\ (Begin \/ Deliver \/ Leave)

Next == Main \/ Signal \/ Thread

Spec == Init /\ [][Next]_vars
FairSpec == Spec /\ WF_vars(Main) /\ WF_vars(Thread)
-----------------------------------------------------------------------------
(* The refresh threads that have work with a GOALSERVE_API_KEY, and that      *)
(* Shutdown does not join: they may use what is gone.                         *)
Unjoined == {"tennis", "team", "odds"}

(* No other thread works on a member that has been destroyed (trader_daemon   *)
(* on each join of Shutdown: "it touches ..., so it must be joined before     *)
(* they are destroyed").                                                      *)
NoUseAfterDestroy == th = "using" /\ who \notin Unjoined => Uses(cfg, who) \cap Gone = {}

(* A process that decides trades with its fills on and its order gate open    *)
(* was started for that: live, with credentials, with fills, with the intent  *)
(* and armed, and not in an environment exported for paper.  Five switches in *)
(* three files decide it.                                                     *)
RealMoneyIsDeliberate ==
  (end = "up" /\ who = "loop" /\ th # "none" /\ GateOpen(cfg) /\ Fills(cfg))
    => cfg.live /\ cfg.entry = "server" /\ cfg.creds /\ cfg.fills
         /\ cfg.intent /\ cfg.armed /\ ~cfg.paper

(* A process that is asked to stop goes down, whatever its threads are doing. *)
GoesDown == (stop /\ end = "up") ~> (end \in {"down", "aborted"})
=============================================================================
