--------------------------- MODULE ShutdownProofs ---------------------------
(***************************************************************************)
(* Proofs about Shutdown, for every set of process_key calls.              *)
(***************************************************************************)
EXTENDS Shutdown, TLAPS

\* Every step below needs the types of both task managers.
USE DEF Outer!TypeOK, Inner!TypeOK, TypeOK

\* Only the follower's handle_new_key ends by a panic that its task manager
\* sees, and it leaves without waiting for no other reason.
OnlyKeysPanic ==
  /\ \A s \in {"panic", "peers"} : osub[s] # "panicked"
  /\ \A s \in {"cancel", "streams"} : isub[s] # "panicked"
  /\ iphase = "failed" => isub["keys"] = "panicked"

\* The two task managers nest: the inner one runs while the job of the outer
\* one does, and each has waited for what it monitors.
Nested ==
  /\ ophase = "returned" => ojob["follower"] # "running" /\ Outer!RunningSubsystems = {}
  /\ ojob["follower"] = "idle" => Inner!RunningJobs = {}
  /\ ojob["follower"] = "ended" => iphase \in {"returned", "failed"}
  /\ iphase = "returned" => Inner!RunningJobs = {} /\ Inner!RunningSubsystems = {}

IInv == TypeOK /\ OnlyKeysPanic /\ Nested

LEMMA InitIInv == Init => IInv
<1> SUFFICES ASSUME Init PROVE IInv
  OBVIOUS
<1>1. TypeOK
  BY DEF Init, Outer!Init, Inner!Init
<1>2. OnlyKeysPanic
  BY DEF Init, OnlyKeysPanic, Outer!Init, Inner!Init
<1>3. Nested
  BY DEF Init, Nested, Outer!Init, Inner!Init, Inner!RunningJobs
<1> QED
  BY <1>1, <1>2, <1>3 DEF IInv

-----------------------------------------------------------------------------
(* Steps of the module's task manager and of what it monitors.             *)

\* A step of the module that leaves its one job alone.
LEMMA OuterSteps ==
  ASSUME IInv, PanicSeen \/ PeersEnd \/ ModuleMonitor
  PROVE  IInv'
<1>1. ASSUME NEW s \in {"panic", "peers"}, NEW how \in {"ok", "error"},
             Outer!SubsystemEnds(s, how), UNCHANGED <<innerVars, hooked>>
      PROVE  IInv'
  <2>1. ophase # "returned"
    BY <1>1 DEF IInv, Nested, Outer!SubsystemEnds, Outer!RunningSubsystems
  <2> QED
    BY <1>1, <2>1 DEF IInv, OnlyKeysPanic, Nested, Outer!SubsystemEnds,
       innerVars, Inner!RunningJobs, Inner!RunningSubsystems
<1>2. ASSUME Outer!Interrupted, UNCHANGED <<innerVars, hooked>> PROVE IInv'
  BY <1>2 DEF IInv, OnlyKeysPanic, Nested, Outer!Interrupted, Outer!Drain,
     innerVars, Inner!RunningJobs, Inner!RunningSubsystems
<1>3. ASSUME NEW s \in {"panic", "peers"}, Outer!Join(s), UNCHANGED <<innerVars, hooked>>
      PROVE  IInv'
  <2>1. osub[s] # "panicked"
    BY DEF IInv, OnlyKeysPanic
  <2> QED
    BY <1>3, <2>1 DEF IInv, OnlyKeysPanic, Nested, Outer!Join, Outer!Drain,
       innerVars, Inner!RunningJobs, Inner!RunningSubsystems
<1>4. ASSUME Outer!Returns, UNCHANGED <<innerVars, hooked>> PROVE IInv'
  BY <1>4 DEF IInv, OnlyKeysPanic, Nested, Outer!Returns, Outer!Senders,
     Outer!RunningSubsystems, Outer!RunningJobs,
     innerVars, Inner!RunningJobs, Inner!RunningSubsystems
<1> QED
  BY <1>1, <1>2, <1>3, <1>4 DEF PanicSeen, PeersEnd, ModuleMonitor

LEMMA StartFollowerStep == ASSUME IInv, StartFollower PROVE IInv'
<1>1. ophase # "returned"
  BY DEF IInv, Nested, StartFollower, Outer!Run, Outer!RunningSubsystems, Outer!RunningJobs
<1> QED
  BY <1>1 DEF IInv, OnlyKeysPanic, Nested, StartFollower, Outer!Run,
     innerVars, Inner!RunningJobs, Inner!RunningSubsystems

LEMMA FollowerReturnsStep == ASSUME IInv, FollowerReturns PROVE IInv'
BY DEF IInv, OnlyKeysPanic, Nested, FollowerReturns, Outer!JobEnds,
   innerVars, Inner!RunningJobs, Inner!RunningSubsystems, Outer!RunningSubsystems

-----------------------------------------------------------------------------
(* Steps of the follower's task manager and of what it monitors.           *)

LEMMA InnerSteps ==
  ASSUME IInv, Following, Follower
  PROVE  IInv'
<1>1. ASSUME NEW s \in {"cancel", "keys", "streams"}, NEW how \in {"ok", "panicked"},
             how = "panicked" => s = "keys",
             Inner!SubsystemEnds(s, how), UNCHANGED outerVars, hooked' \in BOOLEAN
      PROVE  IInv'
  <2>1. iphase # "returned" /\ isub[s] = "running"
    BY <1>1 DEF IInv, Nested, Inner!SubsystemEnds, Inner!RunningSubsystems
  <2> QED
    BY <1>1, <2>1 DEF IInv, OnlyKeysPanic, Nested, Inner!SubsystemEnds, Following,
       outerVars, Inner!RunningJobs, Outer!RunningSubsystems
<1>2. ASSUME NEW k \in Sessions, StartSession(k) PROVE IInv'
  <2>1. iphase # "returned"
    BY <1>2 DEF IInv, Nested, StartSession, Inner!RunningSubsystems
  <2> QED
    BY <1>2, <2>1 DEF IInv, OnlyKeysPanic, Nested, StartSession, Inner!Run, Following,
       outerVars, Outer!RunningSubsystems
<1>3. ASSUME Inner!Interrupted, UNCHANGED <<outerVars, hooked>> PROVE IInv'
  BY <1>3 DEF IInv, OnlyKeysPanic, Nested, Inner!Interrupted, Inner!Drain, Following,
     outerVars, Inner!RunningJobs, Inner!RunningSubsystems, Outer!RunningSubsystems
<1>4. ASSUME NEW s \in {"cancel", "keys", "streams"}, Inner!Join(s),
             UNCHANGED <<outerVars, hooked>>
      PROVE  IInv'
  <2>1. CASE isub[s] = "panicked"
    BY <1>4, <2>1 DEF IInv, OnlyKeysPanic, Nested, Inner!Join, Following,
       outerVars, Inner!RunningJobs, Outer!RunningSubsystems
  <2>2. CASE isub[s] # "panicked"
    BY <1>4, <2>2 DEF IInv, OnlyKeysPanic, Nested, Inner!Join, Inner!Drain, Following,
       outerVars, Inner!RunningJobs, Outer!RunningSubsystems
  <2> QED
    BY <2>1, <2>2
<1>5. ASSUME Inner!Returns, UNCHANGED <<outerVars, hooked>> PROVE IInv'
  BY <1>5 DEF IInv, OnlyKeysPanic, Nested, Inner!Returns, Inner!Senders, Following,
     outerVars, Inner!RunningJobs, Inner!RunningSubsystems, Outer!RunningSubsystems
<1>6. CASE CancelSeen
  BY <1>1, <1>6 DEF CancelSeen, IInv
<1>7. ASSUME NEW s \in {"keys", "streams"}, WorkerEnds(s) PROVE IInv'
  BY <1>1, <1>7 DEF WorkerEnds, IInv
<1>8. CASE KeysPanic
  BY <1>1, <1>8 DEF KeysPanic
<1> QED
  BY <1>2, <1>3, <1>4, <1>5, <1>6, <1>7, <1>8 DEF Follower, FollowerMonitor

\* A process_key may end when its task manager is long gone.
LEMMA SessionEndsStep == ASSUME IInv, NEW k \in Sessions, SessionEnds(k) PROVE IInv'
<1>1. TypeOK'
  BY DEF IInv, SessionEnds, Inner!JobEnds, outerVars
<1>2. OnlyKeysPanic'
  BY DEF IInv, OnlyKeysPanic, SessionEnds, Inner!JobEnds, outerVars
<1>3. Inner!RunningJobs' \subseteq Inner!RunningJobs
  BY DEF IInv, SessionEnds, Inner!JobEnds, Inner!RunningJobs
<1>4. /\ Inner!RunningSubsystems' = Inner!RunningSubsystems
      /\ Outer!RunningSubsystems' = Outer!RunningSubsystems
  BY DEF SessionEnds, Inner!JobEnds, outerVars, Inner!RunningSubsystems, Outer!RunningSubsystems
<1>5. Nested'
  BY <1>3, <1>4 DEF IInv, Nested, SessionEnds, Inner!JobEnds, outerVars
<1> QED
  BY <1>1, <1>2, <1>5 DEF IInv

LEMMA NextIInv == IInv /\ [Next]_vars => IInv'
<1> SUFFICES ASSUME IInv, [Next]_vars PROVE IInv'
  OBVIOUS
<1>1. CASE Next
  BY <1>1, OuterSteps, StartFollowerStep, FollowerReturnsStep, InnerSteps,
     SessionEndsStep DEF Next
<1>2. CASE UNCHANGED vars
  BY <1>2 DEF vars, outerVars, innerVars, IInv, OnlyKeysPanic, Nested,
     Inner!RunningJobs, Inner!RunningSubsystems, Outer!RunningSubsystems
<1> QED
  BY <1>1, <1>2

-----------------------------------------------------------------------------
\* Every variable keeps its type, and the module never leaves monitor() with
\* a JoinError (task_manager.rs 51-92, subsystems.rs).
THEOREM ModuleTypeCorrect == Spec => []TypeOK
<1>1. IInv => TypeOK
  BY DEF IInv
<1> QED
  BY InitIInv, NextIInv, <1>1, PTL DEF Spec

\* A process_key that outlives the module's monitor() was orphaned by a panic
\* of the follower's handle_new_key: every other shutdown is clean, however
\* many keys are in process (subsystems.rs, follower.rs 32-62).
THEOREM OrphansNeedPanic == Spec => []OrphansOnlyAfterPanic
<1>1. IInv => OrphansOnlyAfterPanic
  BY DEF IInv, OnlyKeysPanic, Nested, OrphansOnlyAfterPanic, Stopped
<1> QED
  BY InitIInv, NextIInv, <1>1, PTL DEF Spec
=============================================================================
