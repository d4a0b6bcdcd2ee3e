---------------------------- MODULE TaskManager -----------------------------
(***************************************************************************)
(* The task table and the round-robin switch (multitasking.cpp).           *)
(* kernelMain adds two tasks; nothing calls Schedule yet, so no task ever  *)
(* runs.  The module says what Schedule does when an interrupt handler     *)
(* calls it with the frame of what was interrupted and returns to the      *)
(* frame it gets: the use its signature and the stub are written for.      *)
(*                                                                         *)
(* A frame is known by whose it is and by how far its owner had come.      *)
(***************************************************************************)
EXTENDS Integers, Sequences

CONSTANTS Task,      \* the Task objects
          Main,      \* the flow that was running before the first switch
          MaxTasks   \* the length of the array: 256

VARIABLES tasks,        \* TaskManager::tasks, up to numTasks
          currentTask,  \* TaskManager::currentTask
          cpustate,     \* Task::cpustate, for each Task
          cpu,          \* the frame the processor is in
          done          \* ghost: the steps each flow has made

vars == <<tasks, currentTask, cpustate, cpu, done>>

-----------------------------------------------------------------------------

\* Task::Task: a frame at the task's entry point.
Fresh(f) == [of |-> f, at |-> 0]

Init ==
  /\ tasks = << >>
  /\ currentTask = -1
  /\ cpustate = [t \in Task |-> Fresh(t)]
  /\ cpu = Fresh(Main)
  /\ done = [f \in Task \cup {Main} |-> 0]

AddTask(t) ==
  /\ Len(tasks) < MaxTasks
  /\ tasks' = Append(tasks, t)
  /\ UNCHANGED <<currentTask, cpustate, cpu, done>>

NextTask == IF currentTask + 1 >= Len(tasks) THEN 0 ELSE currentTask + 1

\* The interrupted frame is stored for the task that was running, if it was
\* one; the frame of the next task is returned.  Element i of the array is
\* tasks[i + 1].
Schedule ==
  /\ tasks # << >>
  /\ cpustate' = IF currentTask >= 0
                 THEN [cpustate EXCEPT ![tasks[currentTask + 1]] = cpu]
                 ELSE cpustate
  /\ currentTask' = NextTask
  /\ cpu' = cpustate'[tasks[NextTask + 1]]
  /\ UNCHANGED <<tasks, done>>

\* The flow the processor is in makes a step.
Work ==
  /\ cpu' = [of |-> cpu.of, at |-> cpu.at + 1]
  /\ done' = [done EXCEPT ![cpu.of] = cpu.at + 1]
  /\ UNCHANGED <<tasks, currentTask, cpustate>>

Next == (\E t \in Task : AddTask(t)) \/ Schedule \/ Work

Spec == Init /\ [][Next]_vars

-----------------------------------------------------------------------------
(* Properties. *)

TypeOK ==
  /\ tasks \in Seq(Task)
  /\ currentTask \in Int
  /\ cpustate \in [Task -> [of : Task \cup {Main}, at : Nat]]
  /\ cpu \in [of : Task \cup {Main}, at : Nat]
  /\ done \in [Task \cup {Main} -> Nat]

\* The array is not left: neither by a task added nor by a switch, whenever
\* tasks are added in between.
InArray ==
  /\ Len(tasks) <= MaxTasks
  /\ -1 <= currentTask /\ currentTask < Len(tasks)

\* What runs is the current task, and the flow before the first switch runs
\* only before it: its frame is stored nowhere, so it never runs again.
RunsCurrent ==
  IF currentTask < 0 THEN cpu.of = Main ELSE cpu.of = tasks[currentTask + 1]

\* Every flow goes on where it stopped: the one that runs has lost no step, and
\* the frame stored for each other task is its own and its latest, also when a
\* task was added twice.
ResumesOwn ==
  /\ cpu.at = done[cpu.of]
  /\ \A t \in Task : t # cpu.of => cpustate[t] = [of |-> t, at |-> done[t]]

IInv == TypeOK /\ InArray /\ RunsCurrent /\ ResumesOwn
=============================================================================
