------------------------------ MODULE Shutdown ------------------------------
(***************************************************************************)
(* How a running module stops.  start_subsystems puts the module under one *)
(* task manager; start_follower, a job of it, runs a task manager of its   *)
(* own, whose jobs are the process_key calls.  A panic anywhere reaches    *)
(* wait_for_panic through the hook.                                        *)
(***************************************************************************)
EXTENDS FiniteSets

CONSTANT Sessions   \* bound: process_key calls of the follower

VARIABLES
  osub, ojob, ophase, oresult, ocancelled,   \* the module's task manager
  isub, ijob, iphase, iresult, icancelled,   \* the follower's task manager
  hooked                                     \* the panic hook has fired

outerVars == <<osub, ojob, ophase, oresult, ocancelled>>
innerVars == <<isub, ijob, iphase, iresult, icancelled>>
vars == <<outerVars, innerVars, hooked>>

\* The subsystems of peers, connections and QKD keys all stop alike: one of
\* them stands for all three.
Outer == INSTANCE TaskManager WITH
  Subsystems <- {"panic", "peers"}, Jobs <- {"follower"}, Timed <- FALSE,
  sub <- osub, job <- ojob, phase <- ophase, result <- oresult,
  cancelled <- ocancelled

Inner == INSTANCE TaskManager WITH
  Subsystems <- {"cancel", "keys", "streams"}, Jobs <- Sessions,
  Timed <- FALSE, sub <- isub, job <- ijob, phase <- iphase,
  result <- iresult, cancelled <- icancelled

Init == Outer!Init /\ Inner!Init /\ hooked = FALSE

\* start_follower runs: its task manager exists.
Following == ojob["follower"] = "running"

-----------------------------------------------------------------------------
(* The module's task manager.                                              *)

StartFollower ==
  /\ Outer!Run("follower")
  /\ UNCHANGED <<innerVars, hooked>>

\* Variant: start_follower does not await its task manager.
FollowerReturnsEarly ==
  /\ iphase # "select"
  /\ Outer!JobEnds("follower")
  /\ UNCHANGED <<innerVars, hooked>>

\* start_follower returns once its task manager has.
FollowerReturns ==
  /\ iphase \in {"returned", "failed"}
  /\ Outer!JobEnds("follower")
  /\ UNCHANGED <<innerVars, hooked>>

\* Variant: the hook is not installed.
PanicUnseen ==
  /\ ocancelled
  /\ Outer!SubsystemEnds("panic", "ok")
  /\ UNCHANGED <<innerVars, hooked>>

\* wait_for_panic
PanicSeen ==
  /\ \/ hooked /\ Outer!SubsystemEnds("panic", "error")
     \/ ocancelled /\ Outer!SubsystemEnds("panic", "ok")
  /\ UNCHANGED <<innerVars, hooked>>

\* The other subsystems return Ok on cancellation and Err when an operation
\* on a connection fails.
PeersEnd ==
  /\ \/ ocancelled /\ Outer!SubsystemEnds("peers", "ok")
     \/ Outer!SubsystemEnds("peers", "error")
  /\ UNCHANGED <<innerVars, hooked>>

ModuleMonitor ==
  /\ \/ Outer!Interrupted
     \/ \E s \in {"panic", "peers"} : Outer!Join(s)
     \/ Outer!Returns
  /\ UNCHANGED <<innerVars, hooked>>

-----------------------------------------------------------------------------
(* The follower's task manager.                                            *)

\* Variant: the follower's manager does not watch the module's token.
CancelUnseen ==
  /\ icancelled
  /\ Inner!SubsystemEnds("cancel", "ok")
  /\ UNCHANGED <<outerVars, hooked>>

\* wait_for_cancel
CancelSeen ==
  /\ icancelled \/ ocancelled
  /\ Inner!SubsystemEnds("cancel", "ok")
  /\ UNCHANGED <<outerVars, hooked>>

\* handle_new_key and listen_for_new_stream return Ok on cancellation, when
\* the connection closes or when the other end of a channel is gone.
WorkerEnds(s) ==
  /\ Inner!SubsystemEnds(s, "ok")
  /\ UNCHANGED <<outerVars, hooked>>

\* todo!("Handle key already sent!")
KeysPanic ==
  /\ Inner!SubsystemEnds("keys", "panicked")
  /\ hooked' = TRUE
  /\ UNCHANGED outerVars

\* handle_new_key starts process_key with Monitor::run.
StartSession(k) ==
  /\ isub["keys"] = "running"
  /\ Inner!Run(k)
  /\ UNCHANGED <<outerVars, hooked>>

\* process_key returns or panics.
SessionEnds(k) ==
  /\ Inner!JobEnds(k)
  /\ hooked' \in {hooked, TRUE}
  /\ UNCHANGED outerVars

FollowerMonitor ==
  /\ \/ Inner!Interrupted
     \/ \E s \in {"cancel", "keys", "streams"} : Inner!Join(s)
     \/ Inner!Returns
  /\ UNCHANGED <<outerVars, hooked>>

Follower ==
  \/ CancelSeen
  \/ \E s \in {"keys", "streams"} : WorkerEnds(s)
  \/ KeysPanic
  \/ \E k \in Sessions : StartSession(k)
  \/ FollowerMonitor

Next ==
  \/ StartFollower
  \/ FollowerReturns
  \/ PanicSeen
  \/ PeersEnd
  \/ ModuleMonitor
  \/ Following /\ Follower
  \/ \E k \in Sessions : SessionEnds(k)

\* Tasks that are ready run.  Signals, errors, panics and new sessions are
\* never owed, and a worker owes its end only after a cancellation.
Fairness ==
  /\ WF_vars(FollowerReturns)
  /\ WF_vars(PanicSeen)
  /\ WF_vars(ocancelled /\ PeersEnd)
  /\ WF_vars(\E s \in {"panic", "peers"} : Outer!Join(s)
               /\ UNCHANGED <<innerVars, hooked>>)
  /\ WF_vars(Outer!Returns /\ UNCHANGED <<innerVars, hooked>>)
  /\ WF_vars(Following /\ CancelSeen)
  /\ \A s \in {"keys", "streams"} :
       WF_vars(Following /\ icancelled /\ WorkerEnds(s))
  /\ WF_vars(Following /\ \E s \in {"cancel", "keys", "streams"} :
               Inner!Join(s) /\ UNCHANGED <<outerVars, hooked>>)
  /\ WF_vars(Following /\ Inner!Returns /\ UNCHANGED <<outerVars, hooked>>)
  /\ \A k \in Sessions : WF_vars(SessionEnds(k))

Spec == Init /\ [][Next]_vars /\ Fairness
-----------------------------------------------------------------------------
(* Properties.                                                             *)

Stopped == ophase \in {"returned", "failed"}

\* Every variable has its type, and the module never leaves monitor() with a
\* JoinError: the panics of the follower's tasks stay in its task manager.
TypeOK ==
  /\ Outer!TypeOK
  /\ Inner!TypeOK
  /\ hooked \in BOOLEAN
  /\ ophase # "failed"

\* When monitor() of the module returns, a process_key of the follower still
\* runs only if a subsystem of the follower has panicked: in every other
\* shutdown the two task managers wait for each other's tasks.
OrphansOnlyAfterPanic ==
  Stopped /\ Inner!RunningJobs # {} => isub["keys"] = "panicked"

\* A panic anywhere brings the module down, whatever its tasks are doing.
PanicStops == hooked ~> Stopped

\* So does the cancellation that follows a signal or an error.
CancellationStops == ocancelled ~> Stopped

\* subsystems.rs: "wait_for_panic subsystem ensures clean shutdown if any
\* panic is raised": no task is left when the module's monitor() returns.
PanicShutdownIsClean ==
  Stopped => Outer!RunningJobs = {} /\ Inner!RunningJobs = {}
=============================================================================
