---------------------------- MODULE TaskManager ----------------------------
(***************************************************************************)
(* The task manager every program of the workspace runs its subsystems     *)
(* under: subsystems are futures of a JoinSet, jobs are the futures they   *)
(* start with Monitor::run, and a shutdown waits until every clone of one  *)
(* channel's sender is gone.  The channel carries no message.              *)
(***************************************************************************)
EXTENDS FiniteSets

CONSTANTS
  Subsystems,   \* futures given to spawn_subsystem
  Jobs,         \* bound: futures given to Monitor::run, each started once
  Timed         \* timed_monitor is called, not monitor

ASSUME TimedAssumption == Timed \in BOOLEAN

VARIABLES
  sub,        \* subsystem -> "running", how it ended, "joined" or "aborted"
  job,        \* job -> "idle", "running" or "ended"
  phase,      \* of monitor(): "select", "drain", "returned" or "failed"
  result,     \* returned_result, "none" before
  cancelled   \* the cancellation token

vars == <<sub, job, phase, result, cancelled>>

RunningSubsystems == {s \in Subsystems : sub[s] = "running"}
RunningJobs == {j \in Jobs : job[j] = "running"}

\* Senders monitor() still owns while it waits.
\* Variant: drop(self.monitor) is forgotten.
ForgottenSenders == {"monitor"}
\* timed_monitor drops the spawner's sender but not its own Monitor.
OwnSenders == IF Timed THEN {"monitor"} ELSE {}

\* Each subsystem has a Monitor and each job a MonitorToken.
Senders == OwnSenders \cup RunningSubsystems \cup RunningJobs

Init ==
  /\ sub = [s \in Subsystems |-> "running"]
  /\ job = [j \in Jobs |-> "idle"]
  /\ phase = "select"
  /\ result = "none"
  /\ cancelled = FALSE

-----------------------------------------------------------------------------
(* Subsystems and jobs.                                                    *)

\* Whoever holds a Monitor may start a job, during a shutdown too.
Run(j) ==
  /\ job[j] = "idle"
  /\ RunningSubsystems \cup RunningJobs # {}
  /\ job' = [job EXCEPT ![j] = "running"]
  /\ UNCHANGED <<sub, phase, result, cancelled>>

\* A job ends, drops its token; a panic unwinds to the same effect.
JobEnds(j) ==
  /\ job[j] = "running"
  /\ job' = [job EXCEPT ![j] = "ended"]
  /\ UNCHANGED <<sub, phase, result, cancelled>>

SubsystemEnds(s, how) ==
  /\ sub[s] = "running"
  /\ sub' = [sub EXCEPT ![s] = how]
  /\ UNCHANGED <<job, phase, result, cancelled>>

-----------------------------------------------------------------------------
(* monitor() and timed_monitor().                                          *)

\* The senders are dropped and the token cancelled before the wait.
Drain(outcome) ==
  /\ phase' = "drain"
  /\ result' = outcome
  /\ cancelled' = TRUE

\* Ctrl-C, SIGTERM or, for timed_monitor, the end of the execution time.
Interrupted ==
  /\ phase = "select"
  /\ Drain("ok")
  /\ UNCHANGED <<sub, job>>

\* Variant: the JoinError of a panic is taken for the subsystem's result.
JoinIgnoresPanic(s) ==
  /\ phase = "select"
  /\ sub[s] \in {"ok", "error", "panicked"}
  /\ sub' = [sub EXCEPT ![s] = "joined"]
  /\ Drain(sub[s])
  /\ UNCHANGED job

\* join_next().  A JoinError returns at once: the token is not cancelled, and
\* dropping the JoinSet aborts the other subsystems but no job.
Join(s) ==
  /\ phase = "select"
  /\ sub[s] \in {"ok", "error", "panicked"}
  /\ IF sub[s] = "panicked"
     THEN /\ phase' = "failed"
          /\ sub' = [t \in Subsystems |->
                       IF sub[t] = "running" THEN "aborted" ELSE sub[t]]
          /\ UNCHANGED <<result, cancelled>>
     ELSE /\ sub' = [sub EXCEPT ![s] = "joined"]
          /\ Drain(sub[s])
  /\ UNCHANGED job

\* Variant: monitor() returns without waiting for the channel to close.
ReturnsAtOnce ==
  /\ phase = "drain"
  /\ phase' = "returned"
  /\ UNCHANGED <<sub, job, result, cancelled>>

\* sync_receiver.recv() answers once the last sender is gone.
Returns ==
  /\ phase = "drain"
  /\ Senders = {}
  /\ phase' = "returned"
  /\ UNCHANGED <<sub, job, result, cancelled>>

Next ==
  \/ \E j \in Jobs : Run(j) \/ JobEnds(j)
  \/ \E s \in Subsystems : \E how \in {"ok", "error", "panicked"} :
       SubsystemEnds(s, how)
  \/ Interrupted
  \/ \E s \in Subsystems : Join(s)
  \/ Returns

\* Once cancelled, a subsystem returns, for it selects on cancelled(), and so
\* does a job, for it does the same or handles one key and ends.
Fairness ==
  /\ WF_vars(Returns)
  /\ \A s \in Subsystems : WF_vars(cancelled /\ SubsystemEnds(s, "ok"))
  /\ \A j \in Jobs : WF_vars(cancelled /\ JobEnds(j))

Spec == Init /\ [][Next]_vars /\ Fairness
-----------------------------------------------------------------------------
(* Properties.                                                             *)

\* Every variable has its type; a panic never becomes a subsystem's result.
TypeOK ==
  /\ sub \in [Subsystems -> {"running", "ok", "error", "panicked", "joined",
                             "aborted"}]
  /\ job \in [Jobs -> {"idle", "running", "ended"}]
  /\ phase \in {"select", "drain", "returned", "failed"}
  /\ result \in {"none", "ok", "error"}
  /\ cancelled \in BOOLEAN

\* monitor() returns Ok only when nothing it monitors is running: neither a
\* subsystem nor a job, not even one that was started during the shutdown.
CleanShutdown ==
  phase = "returned" => RunningSubsystems \cup RunningJobs = {}

\* task_manager.rs, of timed_monitor: it "Monitors the spawned subsystems with
\* max allowed execution time. Returns a ResultNested result"; monitor says the
\* same.  A shutdown that has begun therefore comes to an end.
ShutdownCompletes == phase = "drain" ~> phase = "returned"
=============================================================================
