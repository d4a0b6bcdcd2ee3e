------------------------- MODULE TaskManagerProofs --------------------------
(***************************************************************************)
(* The array of tasks is never left, and every flow goes on where it       *)
(* stopped, for every number of tasks and every array length.              *)
(***************************************************************************)
EXTENDS TaskManager, TLAPS

(***************************************************************************)
(* The next task is one of the array.                                      *)
(***************************************************************************)
LEMMA NextInArray ==
  ASSUME TypeOK, InArray, tasks # << >>
  PROVE  /\ NextTask \in 0 .. (Len(tasks) - 1)
         /\ NextTask + 1 \in 1 .. Len(tasks)
         /\ tasks[NextTask + 1] \in Task
<1>1. Len(tasks) \in Nat /\ Len(tasks) > 0
  BY DEF TypeOK
<1>2. NextTask \in 0 .. (Len(tasks) - 1)
  BY <1>1 DEF TypeOK, InArray, NextTask
<1>3. NextTask + 1 \in 1 .. Len(tasks)
  BY <1>1, <1>2
<1>4. QED
  BY <1>2, <1>3 DEF TypeOK

(***************************************************************************)
(* The constructors establish the invariant.                               *)
(***************************************************************************)
LEMMA InitIInv ==
  ASSUME MaxTasks \in Nat, Main \notin Task, Init
  PROVE  IInv
<1>1. TypeOK
  BY DEF Init, TypeOK, Fresh
<1>2. InArray
  BY DEF Init, InArray
<1>3. RunsCurrent
  BY DEF Init, RunsCurrent, Fresh
<1>4. ResumesOwn
  BY DEF Init, ResumesOwn, Fresh
<1>5. QED
  BY <1>1, <1>2, <1>3, <1>4 DEF IInv

(***************************************************************************)
(* A task added changes no index and no frame.                             *)
(***************************************************************************)
LEMMA AddTaskIInv ==
  ASSUME MaxTasks \in Nat, IInv, NEW t \in Task, AddTask(t)
  PROVE  IInv'
<1> USE DEF IInv
<1>1. /\ tasks' \in Seq(Task)
      /\ Len(tasks') = Len(tasks) + 1
      /\ \A i \in 1 .. Len(tasks) : tasks'[i] = tasks[i]
  BY DEF AddTask, TypeOK
<1>2. Len(tasks) \in Nat
  BY DEF TypeOK
<1>3. TypeOK'
  BY <1>1 DEF AddTask, TypeOK
<1>4. InArray'
  BY <1>1, <1>2 DEF AddTask, InArray, TypeOK
<1>5. currentTask >= 0 => currentTask + 1 \in 1 .. Len(tasks)
  BY <1>2 DEF InArray, TypeOK
<1>6. RunsCurrent'
  BY <1>1, <1>5 DEF AddTask, RunsCurrent, TypeOK
<1>7. ResumesOwn'
  BY DEF AddTask, ResumesOwn
<1>8. QED
  BY <1>3, <1>4, <1>6, <1>7

(***************************************************************************)
(* A switch stores the frame of the flow that ran where its task will be   *)
(* resumed from.                                                           *)
(***************************************************************************)
LEMMA ScheduleIInv ==
  ASSUME MaxTasks \in Nat, Main \notin Task, IInv, Schedule
  PROVE  IInv'
<1> USE DEF IInv
<1> DEFINE n == tasks[NextTask + 1]
<1>1. NextTask \in 0 .. (Len(tasks) - 1) /\ n \in Task
  BY NextInArray DEF Schedule
<1>2. Len(tasks) \in Nat
  BY DEF TypeOK
<1>3. currentTask >= 0 => cpu.of = tasks[currentTask + 1] /\ cpu.of \in Task
  <2> SUFFICES ASSUME currentTask >= 0
               PROVE  cpu.of = tasks[currentTask + 1] /\ cpu.of \in Task
    OBVIOUS
  <2>1. currentTask + 1 \in 1 .. Len(tasks)
    BY <1>2 DEF InArray, TypeOK
  <2>2. QED
    BY <2>1 DEF RunsCurrent, TypeOK
<1>4. cpustate' \in [Task -> [of : Task \cup {Main}, at : Nat]]
  BY <1>3 DEF Schedule, TypeOK
<1>5. cpu = [of |-> cpu.of, at |-> cpu.at]
  BY DEF TypeOK
<1>6. \A t \in Task : cpustate'[t] = [of |-> t, at |-> done[t]]
  <2> TAKE t \in Task
  <2>1. CASE currentTask >= 0 /\ t = cpu.of
    <3>1. cpustate'[t] = cpu
      BY <1>3, <2>1 DEF Schedule, TypeOK
    <3>2. QED
      BY <1>5, <2>1, <3>1 DEF ResumesOwn
  <2>2. CASE currentTask >= 0 /\ t # cpu.of
    <3>1. cpustate'[t] = cpustate[t]
      BY <1>3, <2>2 DEF Schedule, TypeOK
    <3>2. QED
      BY <2>2, <3>1 DEF ResumesOwn
  <2>3. CASE ~(currentTask >= 0)
    <3>1. cpustate' = cpustate
      BY <2>3 DEF Schedule
    <3>2. t # cpu.of
      BY <2>3 DEF RunsCurrent, TypeOK
    <3>3. QED
      BY <3>1, <3>2 DEF ResumesOwn
  <2>4. QED
    BY <2>1, <2>2, <2>3
<1>7. cpu' = [of |-> n, at |-> done[n]]
  BY <1>1, <1>6 DEF Schedule
<1>8. TypeOK'
  BY <1>1, <1>4, <1>7 DEF Schedule, TypeOK
<1>9. InArray'
  BY <1>1, <1>2 DEF Schedule, InArray
<1>10. RunsCurrent'
  BY <1>1, <1>7 DEF Schedule, RunsCurrent
<1>11. ResumesOwn'
  BY <1>6, <1>7 DEF Schedule, ResumesOwn
<1>12. QED
  BY <1>8, <1>9, <1>10, <1>11

(***************************************************************************)
(* A step of the flow that runs touches no stored frame of another.        *)
(***************************************************************************)
LEMMA WorkIInv ==
  ASSUME IInv, Work
  PROVE  IInv'
<1> USE DEF IInv
<1>1. cpu.of \in Task \cup {Main} /\ cpu.at \in Nat
  BY DEF TypeOK
<1>2. cpu'.of = cpu.of /\ cpu'.at = cpu.at + 1
  BY DEF Work
<1>3. done' = [done EXCEPT ![cpu.of] = cpu.at + 1]
  BY DEF Work
<1>4. TypeOK'
  BY <1>1 DEF Work, TypeOK
<1>5. InArray' /\ RunsCurrent'
  BY <1>2 DEF Work, InArray, RunsCurrent
<1>6. ResumesOwn'
  BY <1>1, <1>2, <1>3 DEF Work, ResumesOwn, TypeOK
<1>7. QED
  BY <1>4, <1>5, <1>6

(***************************************************************************)
(* The invariant holds at every step of every schedule.                    *)
(***************************************************************************)
THEOREM InvariantHolds ==
  ASSUME MaxTasks \in Nat, Main \notin Task
  PROVE  Spec => []IInv
<1>1. Init => IInv
  BY InitIInv
<1>2. IInv /\ [Next]_vars => IInv'
  <2> SUFFICES ASSUME IInv, [Next]_vars PROVE IInv'
    OBVIOUS
  <2>1. ASSUME NEW t \in Task, AddTask(t) PROVE IInv'
    BY <2>1, AddTaskIInv
  <2>2. CASE Schedule
    BY <2>2, ScheduleIInv
  <2>3. CASE Work
    BY <2>3, WorkIInv
  <2>4. CASE UNCHANGED vars
    BY <2>4 DEF vars, IInv, TypeOK, InArray, RunsCurrent, ResumesOwn
  <2>5. QED
    BY <2>1, <2>2, <2>3, <2>4 DEF Next
<1>3. QED
  BY <1>1, <1>2, PTL DEF Spec

(***************************************************************************)
(* AddTask and Schedule stay within TaskManager::tasks.                    *)
(***************************************************************************)
THEOREM AlwaysInArray ==
  ASSUME MaxTasks \in Nat, Main \notin Task
  PROVE  Spec => []InArray
<1>1. IInv => InArray
  BY DEF IInv
<1>2. QED
  BY <1>1, InvariantHolds, PTL

(***************************************************************************)
(* Schedule resumes every task with the frame it was interrupted in.       *)
(***************************************************************************)
THEOREM AlwaysResumesOwn ==
  ASSUME MaxTasks \in Nat, Main \notin Task
  PROVE  Spec => []ResumesOwn
<1>1. IInv => ResumesOwn
  BY DEF IInv
<1>2. QED
  BY <1>1, InvariantHolds, PTL

(***************************************************************************)
(* What runs is the current task; once Schedule has switched, the flow it  *)
(* interrupted first (kernelMain) never runs again.                        *)
(***************************************************************************)
THEOREM MainIsLeft ==
  ASSUME MaxTasks \in Nat, Main \notin Task
  PROVE  Spec => [](currentTask >= 0 => cpu.of # Main)
<1>1. IInv => (currentTask >= 0 => cpu.of # Main)
  <2> SUFFICES ASSUME IInv, currentTask >= 0 PROVE cpu.of # Main
    OBVIOUS
  <2>1. currentTask + 1 \in 1 .. Len(tasks)
    BY DEF IInv, TypeOK, InArray
  <2>2. QED
    BY <2>1 DEF IInv, TypeOK, RunsCurrent
<1>2. QED
  BY <1>1, InvariantHolds, PTL
=============================================================================
