------------------------- MODULE TaskManagerProofs -------------------------
(***************************************************************************)
(* Proofs about TaskManager, for every set of subsystems and of jobs and   *)
(* for both monitor() and timed_monitor().                                 *)
(***************************************************************************)
EXTENDS TaskManager, TLAPS

\* The inductive invariant: a job can only be started by something that
\* runs, so what is quiet when monitor() returns stays quiet.
IInv == TypeOK /\ CleanShutdown

LEMMA InitIInv == Init => IInv
BY DEF Init, IInv, TypeOK, CleanShutdown

\* The steps of jobs and subsystems.
LEMMA TaskSteps ==
  ASSUME IInv,
         \/ \E j \in Jobs : Run(j) \/ JobEnds(j)
         \/ \E s \in Subsystems : \E how \in {"ok", "error", "panicked"} :
              SubsystemEnds(s, how)
  PROVE  IInv'
<1>1. ASSUME NEW j \in Jobs, Run(j) PROVE IInv'
  <2>1. TypeOK'
    BY <1>1 DEF Run, IInv, TypeOK
  <2>2. phase' # "returned"
    BY <1>1 DEF Run, IInv, CleanShutdown
  <2> QED
    BY <2>1, <2>2 DEF IInv, CleanShutdown
<1>2. ASSUME NEW j \in Jobs, JobEnds(j) PROVE IInv'
  <2>1. TypeOK'
    BY <1>2 DEF JobEnds, IInv, TypeOK
  <2>2. phase # "returned"
    BY <1>2 DEF JobEnds, IInv, CleanShutdown, RunningJobs
  <2> QED
    BY <1>2, <2>1, <2>2 DEF JobEnds, IInv, CleanShutdown
<1>3. ASSUME NEW s \in Subsystems, NEW how \in {"ok", "error", "panicked"},
             SubsystemEnds(s, how)
      PROVE  IInv'
  <2>1. TypeOK'
    BY <1>3 DEF SubsystemEnds, IInv, TypeOK
  <2>2. phase # "returned"
    BY <1>3 DEF SubsystemEnds, IInv, CleanShutdown, RunningSubsystems
  <2> QED
    BY <1>3, <2>1, <2>2 DEF SubsystemEnds, IInv, CleanShutdown
<1> QED
  BY <1>1, <1>2, <1>3

\* The steps of monitor().
LEMMA ManagerSteps ==
  ASSUME IInv, Interrupted \/ (\E s \in Subsystems : Join(s)) \/ Returns
  PROVE  IInv'
<1>1. CASE Interrupted
  BY <1>1 DEF Interrupted, Drain, IInv, TypeOK, CleanShutdown
<1>2. ASSUME NEW s \in Subsystems, Join(s) PROVE IInv'
  <2>1. CASE sub[s] = "panicked"
    BY <1>2, <2>1 DEF Join, IInv, TypeOK, CleanShutdown
  <2>2. CASE sub[s] # "panicked"
    BY <1>2, <2>2 DEF Join, Drain, IInv, TypeOK, CleanShutdown
  <2> QED
    BY <2>1, <2>2
<1>3. CASE Returns
  BY <1>3 DEF Returns, Senders, IInv, TypeOK, CleanShutdown,
              RunningSubsystems, RunningJobs
<1> QED
  BY <1>1, <1>2, <1>3

LEMMA NextIInv == IInv /\ [Next]_vars => IInv'
<1> SUFFICES ASSUME IInv, [Next]_vars PROVE IInv'
  OBVIOUS
<1>1. CASE Next
  BY <1>1, TaskSteps, ManagerSteps DEF Next
<1>2. CASE UNCHANGED vars
  BY <1>2 DEF vars, IInv, TypeOK, CleanShutdown, RunningSubsystems, RunningJobs
<1> QED
  BY <1>1, <1>2

-----------------------------------------------------------------------------
\* Every variable keeps its type (task_manager.rs).
THEOREM ManagerTypeCorrect == Spec => []TypeOK
<1>1. IInv => TypeOK
  BY DEF IInv
<1> QED
  BY InitIInv, NextIInv, <1>1, PTL DEF Spec

\* monitor() returns only when neither a subsystem nor a job runs, however
\* many there are and whatever they start meanwhile (task_manager.rs 51-92).
THEOREM ShutdownIsClean == Spec => []CleanShutdown
<1>1. IInv => CleanShutdown
  BY DEF IInv
<1> QED
  BY InitIInv, NextIInv, <1>1, PTL DEF Spec
=============================================================================
