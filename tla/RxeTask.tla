------------------------------- MODULE RxeTask -------------------------------
(***************************************************************************)
(* One rxe_task (rxe_task.c): the requester, completer, responder or       *)
(* arbiter function, called again and again until it finds nothing to do.  *)
(*                                                                         *)
(* Any number of Callers hand it work (a send request, a packet) and then  *)
(* call rxe_run_task, which runs the function in the caller's context or   *)
(* through the tasklet, as the module parameter *task->fast says.  The     *)
(* control path is one more process: rxe_qp_reset disables the tasklet,    *)
(* runs the function itself with __rxe_do_task and enables the tasklet     *)
(* again.                                                                  *)
(*                                                                         *)
(* The function is abstracted to what its callers rely on: it does one     *)
(* unit of work and returns 0, or finds none and returns non-zero.         *)
(***************************************************************************)
EXTENDS Naturals, FiniteSets

CONSTANTS Callers,    \* contexts that queue work and call rxe_run_task
          Tasklet,    \* the softirq context that runs the tasklet
          Control,    \* the context of rxe_qp_reset
          MaxWork,    \* bound: units of work handed over
          Modes       \* [fast, resets]: *task->fast, and a bound on the resets

Contexts == Callers \cup {Tasklet, Control}

ASSUME TaskAssumption ==
  /\ Tasklet \notin Callers /\ Control \notin Callers /\ Tasklet # Control
  /\ MaxWork \in Nat /\ Modes \subseteq [fast : Nat, resets : Nat]

VARIABLES
  fast,       \* *task->fast: 0, 1 or more; a module parameter
  state,      \* task->state: "START", "BUSY" or "ARMED"
  sched,      \* tasklet: TASKLET_STATE_SCHED
  disabled,   \* tasklet: count > 0
  pc,         \* per context: its step
  ret,        \* per context: what func returned, TRUE for non-zero
  work,       \* units of work waiting for func
  added,      \* history: units of work handed over
  resets      \* resets that may still begin

vars == <<fast, state, sched, disabled, pc, ret, work, added, resets>>

Init ==
  /\ state = "START" /\ sched = FALSE /\ disabled = FALSE
  /\ pc = [c \in Contexts |-> "idle"]
  /\ ret = [c \in Contexts |-> FALSE]
  /\ work = 0 /\ added = 0
  /\ \E m \in Modes : fast = m.fast /\ resets = m.resets

Goto(c, step) == pc' = [pc EXCEPT ![c] = step]

-----------------------------------------------------------------------------
(* rxe_run_task *)

\* A caller queues a request or a packet for the task.
AddWork(c) ==
  /\ pc[c] = "idle" /\ added < MaxWork
  /\ work' = work + 1 /\ added' = added + 1
  /\ Goto(c, "run")
  /\ UNCHANGED <<fast, state, sched, disabled, ret, resets>>

rxe_fast_path_ok(irq) == ~(fast = 0 \/ (fast = 1 /\ irq))

\* rxe_run_task(task, must_sched), in a context with interrupts off or not.
RunTask(c) ==
  /\ pc[c] = "run"
  /\ \E must_sched, irq \in BOOLEAN :
       IF must_sched \/ ~rxe_fast_path_ok(irq)
         THEN sched' = TRUE /\ Goto(c, "idle")
         ELSE Goto(c, "enter") /\ UNCHANGED sched
  /\ UNCHANGED <<fast, state, disabled, ret, work, added, resets>>

\* The softirq runs a scheduled tasklet that is not disabled.
TaskletRun ==
  /\ sched /\ ~disabled /\ pc[Tasklet] = "idle"
  /\ sched' = FALSE
  /\ Goto(Tasklet, "enter")
  /\ UNCHANGED <<fast, state, disabled, ret, work, added, resets>>

-----------------------------------------------------------------------------
(* rxe_do_task *)

\* Mutant: a caller that finds the task busy does not arm it.
Enter_without_arming(c) ==
  /\ pc[c] = "enter"
  /\ IF state = "START" THEN state' = "BUSY" /\ Goto(c, "func")
                        ELSE Goto(c, "idle") /\ UNCHANGED state
  /\ UNCHANGED <<fast, sched, disabled, ret, work, added, resets>>

\* First critical section: become the runner, or tell the runner to go on.
Enter(c) ==
  /\ pc[c] = "enter"
  /\ CASE state = "START" -> state' = "BUSY" /\ Goto(c, "func")
       [] state = "BUSY"  -> state' = "ARMED" /\ Goto(c, "idle")
       [] state = "ARMED" -> Goto(c, "idle") /\ UNCHANGED state
  /\ UNCHANGED <<fast, sched, disabled, ret, work, added, resets>>

\* Mutant: the function takes a unit of work without looking.
Func_unchecked(c) ==
  /\ pc[c] = "func"
  /\ work' = work - 1
  /\ ret' = [ret EXCEPT ![c] = (work = 0)]
  /\ Goto(c, "test")
  /\ UNCHANGED <<fast, state, sched, disabled, added, resets>>

\* task->func(task->arg)
Func(c) ==
  /\ pc[c] = "func"
  /\ work' = IF work > 0 THEN work - 1 ELSE 0
  /\ ret' = [ret EXCEPT ![c] = (work = 0)]
  /\ Goto(c, "test")
  /\ UNCHANGED <<fast, state, sched, disabled, added, resets>>

\* Second critical section: stop, or call func again.
Test(c) ==
  /\ pc[c] = "test"
  /\ CASE state = "BUSY" /\ ret[c]  -> state' = "START" /\ Goto(c, "idle")
       [] state = "BUSY" /\ ~ret[c] -> Goto(c, "func") /\ UNCHANGED state
       [] state = "ARMED"           -> state' = "BUSY" /\ Goto(c, "func")
       [] OTHER                     -> Goto(c, "idle") /\ UNCHANGED state
  /\ UNCHANGED <<fast, sched, disabled, ret, work, added, resets>>

-----------------------------------------------------------------------------
(* The control path: rxe_qp_reset *)

\* rxe_disable_task: no tasklet starts from now on, and a running one has ended.
DisableBegin ==
  /\ pc[Control] = "idle" /\ resets > 0
  /\ resets' = resets - 1
  /\ disabled' = TRUE
  /\ Goto(Control, "disabling")
  /\ UNCHANGED <<fast, state, sched, ret, work, added>>

\* Mutant: tasklet_disable_nosync, which does not wait for a running tasklet.
DisableEnd_nosync ==
  /\ pc[Control] = "disabling"
  /\ Goto(Control, "flush")
  /\ UNCHANGED <<fast, state, sched, disabled, ret, work, added, resets>>

DisableEnd ==
  /\ pc[Control] = "disabling" /\ pc[Tasklet] = "idle"
  /\ Goto(Control, "flush")
  /\ UNCHANGED <<fast, state, sched, disabled, ret, work, added, resets>>

\* __rxe_do_task calls func until it returns non-zero.
Flush ==
  /\ pc[Control] = "flush"
  /\ work' = IF work > 0 THEN work - 1 ELSE 0
  /\ work = 0 => Goto(Control, "enable")
  /\ work > 0 => UNCHANGED pc
  /\ UNCHANGED <<fast, state, sched, disabled, ret, added, resets>>

\* Mutant: the tasklet stays disabled.
Enable_forgotten ==
  /\ pc[Control] = "enable"
  /\ Goto(Control, "idle")
  /\ UNCHANGED <<fast, state, sched, disabled, ret, work, added, resets>>

\* rxe_enable_task
Enable ==
  /\ pc[Control] = "enable"
  /\ disabled' = FALSE
  /\ Goto(Control, "idle")
  /\ UNCHANGED <<fast, state, sched, ret, work, added, resets>>

-----------------------------------------------------------------------------
DoTask(c) == Enter(c) \/ Func(c) \/ Test(c)

ControlStep == DisableEnd \/ Flush \/ Enable

Next ==
  \/ \E c \in Callers : AddWork(c) \/ RunTask(c)
  \/ \E c \in Callers \cup {Tasklet} : DoTask(c)
  \/ TaskletRun
  \/ DisableBegin
  \/ ControlStep

Spec == Init /\ [][Next]_vars

\* Code that has begun runs on; a scheduled tasklet is run by the softirq.
Fairness ==
  /\ \A c \in Callers : WF_vars(RunTask(c) \/ DoTask(c))
  /\ WF_vars(DoTask(Tasklet)) /\ WF_vars(TaskletRun)
  /\ WF_vars(ControlStep)

FairSpec == Spec /\ Fairness

-----------------------------------------------------------------------------
(* Properties *)

(* Types of the variables of rxe_task.c.                                    *)
TypeOK ==
  /\ state \in {"START", "BUSY", "ARMED"}
  /\ sched \in BOOLEAN /\ disabled \in BOOLEAN
  /\ pc \in [Contexts -> {"idle", "run", "enter", "func", "test",
                          "disabling", "flush", "enable"}]
  /\ ret \in [Contexts -> BOOLEAN]
  /\ fast \in Nat /\ work \in Nat /\ added \in Nat /\ resets \in Nat

InFunc(c) == pc[c] \in {"func", "flush"}

(* The task's function is never run by two contexts at once: callers on the *)
(* fast path, the tasklet and the flush of rxe_qp_reset exclude each other.  *)
(* Requester, completer and responder have no other lock around their state. *)
FuncExclusive == \A c, d \in Contexts : InFunc(c) /\ InFunc(d) => c = d

(* The race named in the comment above rxe_do_task: a caller that finds the *)
(* task running just after the last call of func.  While there is work,      *)
(* somebody is still bound to call func: a caller on its way, the tasklet,   *)
(* or the runner, which calls it again or has been told to (ARMED).          *)
WorkNotForgotten ==
  work > 0 =>
    \/ sched
    \/ \E c \in Contexts : pc[c] \in {"run", "enter", "func", "flush"}
    \/ \E c \in Contexts : pc[c] = "test" /\ (state = "ARMED" \/ ~ret[c])

(* All work handed to rxe_run_task is done in the end.                       *)
WorkGetsDone == (work > 0) ~> (work = 0)
=============================================================================
