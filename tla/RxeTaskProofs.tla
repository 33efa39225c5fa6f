---------------------------- MODULE RxeTaskProofs ----------------------------
(***************************************************************************)
(* Theorems about RxeTask, for any number of callers and any amount of     *)
(* work: the types, that no work is forgotten, and, where the fast path    *)
(* and rxe_qp_reset do not meet, that the task's function is never run by  *)
(* two contexts at once.                                                   *)
(***************************************************************************)
EXTENDS RxeTask, TLAPS

\* Each context stays in its own part of the code.
PcOK ==
  /\ \A c \in Callers : pc[c] \in {"idle", "run", "enter", "func", "test"}
  /\ pc[Tasklet] \in {"idle", "enter", "func", "test"}
  /\ pc[Control] \in {"idle", "disabling", "flush", "enable"}

\* The context between the two critical sections of rxe_do_task.
Runner(c) == pc[c] \in {"func", "test"}

\* task->state says whether there is one.
StateTellsRunner == (state # "START") <=> (\E c \in Contexts : Runner(c))

OneRunner == \A c, d \in Contexts : Runner(c) /\ Runner(d) => c = d

TypeInv == TypeOK /\ PcOK

RunInv == TypeInv /\ StateTellsRunner /\ OneRunner

-----------------------------------------------------------------------------
\* rxe_init_task leaves every variable with its type.
LEMMA TypeInit == Init => TypeInv
  <1> SUFFICES ASSUME Init PROVE TypeInv
    OBVIOUS
  <1>1. fast \in Nat /\ resets \in Nat
    BY TaskAssumption DEF Init
  <1>2. pc \in [Contexts -> {"idle"}] /\ ret \in [Contexts -> BOOLEAN]
    BY DEF Init
  <1>3. TypeOK
    BY <1>1, <1>2 DEF Init, TypeOK
  <1>4. PcOK
    BY <1>2 DEF PcOK, Contexts
  <1> QED
    BY <1>3, <1>4 DEF TypeInv

\* The outcomes of the second critical section.
LEMMA TestCases ==
  ASSUME TypeOK, NEW c \in Contexts, Test(c)
  PROVE  \/ /\ state = "BUSY" /\ ret[c] /\ state' = "START"
            /\ pc' = [pc EXCEPT ![c] = "idle"]
         \/ /\ state \in {"BUSY", "ARMED"} /\ state' = "BUSY"
            /\ pc' = [pc EXCEPT ![c] = "func"]
         \/ /\ state = "START" /\ state' = "START"
            /\ pc' = [pc EXCEPT ![c] = "idle"]
  <1>1. CASE state = "BUSY" /\ ret[c]
    BY <1>1 DEF Test, Goto
  <1>2. CASE state = "BUSY" /\ ~ret[c]
    BY <1>2 DEF Test, Goto
  <1>3. CASE state = "ARMED"
    BY <1>3 DEF Test, Goto
  <1>4. CASE state = "START"
    BY <1>4 DEF Test, Goto
  <1> QED
    BY <1>1, <1>2, <1>3, <1>4 DEF TypeOK

\* No step of a caller, the tasklet or rxe_qp_reset disturbs a type.
LEMMA TypeStep == TypeInv /\ [Next]_vars => TypeInv'
  <1> SUFFICES ASSUME TypeInv, [Next]_vars PROVE TypeInv'
    OBVIOUS
  <1> USE TaskAssumption DEF TypeInv, TypeOK, PcOK, Contexts, Goto
  <1>1. CASE \E c \in Callers : AddWork(c)
    BY <1>1 DEF AddWork
  <1>2. CASE \E c \in Callers : RunTask(c)
    BY <1>2 DEF RunTask
  <1>3. ASSUME NEW c \in Callers \cup {Tasklet}, Enter(c) PROVE TypeInv'
    BY <1>3 DEF Enter
  <1>4. ASSUME NEW c \in Callers \cup {Tasklet}, Func(c) PROVE TypeInv'
    BY <1>4 DEF Func
  <1>5. ASSUME NEW c \in Callers \cup {Tasklet}, Test(c) PROVE TypeInv'
    <2>1. /\ state' \in {"START", "BUSY"}
          /\ pc' = [pc EXCEPT ![c] = "idle"] \/ pc' = [pc EXCEPT ![c] = "func"]
      BY <1>5, TestCases
    <2>2. UNCHANGED <<fast, sched, disabled, ret, work, added, resets>>
      BY <1>5 DEF Test
    <2> QED
      BY <2>1, <2>2
  <1>6. CASE TaskletRun
    BY <1>6 DEF TaskletRun
  <1>7. CASE DisableBegin
    BY <1>7 DEF DisableBegin
  <1>8. CASE DisableEnd
    BY <1>8 DEF DisableEnd
  <1>9. CASE Flush
    BY <1>9 DEF Flush
  <1>10. CASE Enable
    BY <1>10 DEF Enable
  <1>11. CASE UNCHANGED vars
    BY <1>11 DEF vars
  <1> QED
    BY <1>1, <1>2, <1>3, <1>4, <1>5, <1>6, <1>7, <1>8, <1>9, <1>10, <1>11
       DEF Next, DoTask, ControlStep

\* The strengthened type invariant holds in every reachable state.
LEMMA TypeAlways == Spec => []TypeInv
  BY TypeInit, TypeStep, PTL DEF Spec

(* The variables of rxe_task.c keep their types whatever its callers do.     *)
THEOREM TypeCorrect == Spec => []TypeOK
  <1>1. TypeInv => TypeOK
    BY DEF TypeInv
  <1> QED
    BY <1>1, TypeAlways, PTL

-----------------------------------------------------------------------------
(* rxe_do_task: task->state is a lock on the function *)

\* At rxe_init_task nobody is inside rxe_do_task, and task->state is START.
LEMMA RunInit == Init => RunInv
  BY TypeInit DEF Init, RunInv, StateTellsRunner, OneRunner, Runner

\* A step of a context that is not a runner before or after it.
LEMMA RunnersUnchanged ==
  ASSUME RunInv, TypeInv', state' = state,
         \A c \in Contexts : Runner(c)' <=> Runner(c)
  PROVE  RunInv'
  BY DEF RunInv, StateTellsRunner, OneRunner

\* One step per critical section of rxe_do_task: task->state tells whether
\* there is a runner, and there is at most one.
LEMMA RunStep == RunInv /\ [Next]_vars => RunInv'
  <1> SUFFICES ASSUME RunInv, [Next]_vars PROVE RunInv'
    OBVIOUS
  <1>0. TypeInv /\ TypeInv'
    BY TypeStep DEF RunInv
  <1>a. pc \in [Contexts -> {"idle", "run", "enter", "func", "test",
                            "disabling", "flush", "enable"}]
    BY <1>0 DEF TypeInv, TypeOK
  <1>b. Callers \cup {Tasklet} \subseteq Contexts /\ Control \in Contexts
        /\ Callers \subseteq Contexts /\ Tasklet \in Contexts
    BY DEF Contexts
  <1> USE <1>0, <1>a, <1>b
  <1>1. ASSUME NEW c \in Callers, AddWork(c) PROVE RunInv'
    BY <1>1, RunnersUnchanged DEF AddWork, Goto, Runner
  <1>2. ASSUME NEW c \in Callers, RunTask(c) PROVE RunInv'
    <2>1. pc' = [pc EXCEPT ![c] = "idle"] \/ pc' = [pc EXCEPT ![c] = "enter"]
      BY <1>2 DEF RunTask, Goto
    <2>2. pc[c] = "run" /\ state' = state
      BY <1>2 DEF RunTask
    <2> QED
      BY <2>1, <2>2, RunnersUnchanged DEF Runner
  <1>3. ASSUME NEW c \in Callers \cup {Tasklet}, Enter(c) PROVE RunInv'
    <2>0. pc[c] = "enter" /\ state \in {"START", "BUSY", "ARMED"}
      BY <1>3 DEF Enter, TypeInv, TypeOK
    <2>1. CASE state = "START"
      <3>1. state' = "BUSY" /\ pc' = [pc EXCEPT ![c] = "func"]
        BY <1>3, <2>1 DEF Enter, Goto
      <3>2. \A d \in Contexts : ~Runner(d)
        BY <2>1 DEF RunInv, StateTellsRunner
      <3>3. \A d \in Contexts : Runner(d)' <=> d = c
        BY <3>1, <3>2 DEF Runner
      <3> QED
        BY <3>1, <3>3 DEF RunInv, StateTellsRunner, OneRunner
    <2>2. CASE state \in {"BUSY", "ARMED"}
      <3>1. state' = "ARMED" /\ pc' = [pc EXCEPT ![c] = "idle"]
        BY <1>3, <2>2 DEF Enter, Goto
      <3>2. \A d \in Contexts : Runner(d)' <=> Runner(d)
        BY <3>1, <2>0 DEF Runner
      <3> QED
        BY <2>2, <3>1, <3>2 DEF RunInv, StateTellsRunner, OneRunner
    <2> QED
      BY <2>0, <2>1, <2>2
  <1>4. ASSUME NEW c \in Callers \cup {Tasklet}, Func(c) PROVE RunInv'
    BY <1>4, RunnersUnchanged DEF Func, Goto, Runner
  <1>5. ASSUME NEW c \in Callers \cup {Tasklet}, Test(c) PROVE RunInv'
    <2>1. pc[c] = "test" /\ Runner(c) /\ state # "START"
      BY <1>5 DEF Test, Runner, RunInv, StateTellsRunner
    <2>2. CASE state' = "START" /\ pc' = [pc EXCEPT ![c] = "idle"]
      <3>1. \A d \in Contexts : ~Runner(d)'
        BY <2>1, <2>2 DEF RunInv, OneRunner, Runner
      <3> QED
        BY <2>2, <3>1 DEF RunInv, StateTellsRunner, OneRunner
    <2>3. CASE state' = "BUSY" /\ pc' = [pc EXCEPT ![c] = "func"]
      <3>1. \A d \in Contexts : Runner(d)' <=> Runner(d)
        BY <2>1, <2>3 DEF Runner
      <3> QED
        BY <2>1, <2>3, <3>1 DEF RunInv, StateTellsRunner, OneRunner
    <2> QED
      BY <1>5, <2>1, <2>2, <2>3, TestCases DEF TypeInv
  <1>6. CASE TaskletRun
    BY <1>6, RunnersUnchanged DEF TaskletRun, Goto, Runner
  <1>7. CASE DisableBegin
    BY <1>7, RunnersUnchanged DEF DisableBegin, Goto, Runner
  <1>8. CASE DisableEnd
    BY <1>8, RunnersUnchanged DEF DisableEnd, Goto, Runner
  <1>9. CASE Flush
    BY <1>9, RunnersUnchanged DEF Flush, Goto, Runner, TypeInv, TypeOK
  <1>10. CASE Enable
    BY <1>10, RunnersUnchanged DEF Enable, Goto, Runner
  <1>11. CASE UNCHANGED vars
    BY <1>11, RunnersUnchanged DEF vars, Runner
  <1> QED
    BY <1>1, <1>2, <1>3, <1>4, <1>5, <1>6, <1>7, <1>8, <1>9, <1>10, <1>11
       DEF Next, DoTask, ControlStep

\* task->state is a lock on the loop of rxe_do_task in every reachable state.
LEMMA RunAlways == Spec => []RunInv
  BY RunInit, RunStep, PTL DEF Spec

-----------------------------------------------------------------------------
(* No work is forgotten *)

WorkInv == RunInv /\ WorkNotForgotten

\* Contexts from whose step it follows that the function will be called.
Bound(c) == \/ pc[c] \in {"run", "enter", "func", "flush"}
            \/ pc[c] = "test" /\ (state = "ARMED" \/ ~ret[c])

\* The invariant restated with the contexts that are bound to do the work.
LEMMA WorkNotForgottenMeans ==
  WorkNotForgotten <=> (work > 0 => sched \/ \E c \in Contexts : Bound(c))
  BY DEF WorkNotForgotten, Bound

\* The promise that posted work has somebody bound to do it moves from the
\* caller to the runner, the tasklet or the flush, and is never dropped.
LEMMA WorkStep == WorkInv /\ [Next]_vars => WorkInv'
  <1> SUFFICES ASSUME WorkInv, [Next]_vars PROVE WorkInv'
    OBVIOUS
  <1>0. RunInv /\ RunInv' /\ TypeInv /\ WorkNotForgotten
    BY RunStep DEF RunInv, WorkInv
  <1>a. pc \in [Contexts -> {"idle", "run", "enter", "func", "test",
                            "disabling", "flush", "enable"}]
    BY <1>0 DEF TypeInv, TypeOK
  <1>b. Callers \cup {Tasklet} \subseteq Contexts /\ Control \in Contexts
        /\ Callers \subseteq Contexts /\ Tasklet \in Contexts
    BY DEF Contexts
  <1> SUFFICES ASSUME work' > 0
               PROVE  sched' \/ \E c \in Contexts : Bound(c)'
    BY <1>0 DEF WorkInv, WorkNotForgotten, Bound
  <1>c. work > 0 => sched \/ \E c \in Contexts : Bound(c)
    BY <1>0, WorkNotForgottenMeans
  <1>1. ASSUME NEW c \in Callers, AddWork(c) PROVE Bound(c)'
    BY <1>1, <1>a, <1>b DEF AddWork, Goto, Bound
  <1>2. ASSUME NEW c \in Callers, RunTask(c) PROVE sched' \/ Bound(c)'
    BY <1>2, <1>a, <1>b DEF RunTask, Goto, Bound
  <1>3. ASSUME NEW c \in Callers \cup {Tasklet}, Enter(c)
        PROVE  \E d \in Contexts : Bound(d)'
    <2>0. pc[c] = "enter" /\ state \in {"START", "BUSY", "ARMED"}
      BY <1>0, <1>3 DEF Enter, TypeInv, TypeOK
    <2>1. CASE state = "START"
      BY <1>3, <1>a, <1>b, <2>1 DEF Enter, Goto, Bound
    <2>2. CASE state \in {"BUSY", "ARMED"}
      <3>1. state' = "ARMED" /\ pc' = [pc EXCEPT ![c] = "idle"]
        BY <1>3, <2>2 DEF Enter, Goto
      <3>2. PICK d \in Contexts : Runner(d)
        BY <1>0, <2>2 DEF RunInv, StateTellsRunner
      <3>3. d # c
        BY <2>0, <3>2 DEF Runner
      <3>4. pc'[d] \in {"func", "test"}
        BY <1>a, <1>b, <3>1, <3>2, <3>3 DEF Runner
      <3> QED
        BY <3>1, <3>4 DEF Bound
    <2> QED
      BY <2>0, <2>1, <2>2
  <1>4. ASSUME NEW c \in Callers \cup {Tasklet}, Func(c) PROVE Bound(c)'
    <2>1. work # 0
      BY <1>0, <1>4 DEF Func, TypeInv, TypeOK
    <2>2. pc'[c] = "test" /\ ret'[c] = FALSE
      BY <1>0, <1>4, <1>a, <1>b, <2>1 DEF Func, Goto, TypeInv, TypeOK
    <2> QED
      BY <2>2 DEF Bound
  <1>5. ASSUME NEW c \in Callers \cup {Tasklet}, Test(c)
        PROVE  sched' \/ \E d \in Contexts : Bound(d)'
    <2>1. pc[c] = "test" /\ state # "START"
      BY <1>0, <1>5, <1>b DEF Test, Runner, RunInv, StateTellsRunner
    <2>2. UNCHANGED <<sched, ret, work>>
      BY <1>5 DEF Test
    <2>3. CASE state = "BUSY" /\ ret[c] /\ pc' = [pc EXCEPT ![c] = "idle"]
      <3>1. ASSUME NEW d \in Contexts, Bound(d) PROVE Bound(d)'
        BY <1>a, <1>b, <2>1, <2>2, <2>3, <3>1 DEF Bound
      <3> QED
        BY <1>c, <2>2, <3>1
    <2>4. CASE pc' = [pc EXCEPT ![c] = "func"]
      BY <1>a, <1>b, <2>4 DEF Bound
    <2> QED
      BY <1>0, <1>5, <1>b, <2>1, <2>3, <2>4, TestCases DEF TypeInv
  <1>6. CASE TaskletRun
    BY <1>6, <1>a, <1>b DEF TaskletRun, Goto, Bound
  <1>7. CASE DisableBegin
    <2>1. ASSUME NEW d \in Contexts, Bound(d) PROVE Bound(d)'
      BY <1>7, <1>a, <1>b, <2>1 DEF DisableBegin, Goto, Bound
    <2> QED
      BY <1>7, <1>c, <2>1 DEF DisableBegin
  <1>8. CASE DisableEnd
    BY <1>8, <1>a, <1>b DEF DisableEnd, Goto, Bound
  <1>9. CASE Flush
    <2>1. work > 0 /\ pc' = pc /\ pc[Control] = "flush"
      BY <1>0, <1>9 DEF Flush, TypeInv, TypeOK
    <2> QED
      BY <1>b, <2>1 DEF Bound
  <1>10. CASE Enable
    <2>1. ASSUME NEW d \in Contexts, Bound(d) PROVE Bound(d)'
      BY <1>10, <1>a, <1>b, <2>1 DEF Enable, Goto, Bound
    <2> QED
      BY <1>10, <1>c, <2>1 DEF Enable
  <1>11. CASE UNCHANGED vars
    BY <1>11, <1>c DEF vars, Bound
  <1> QED
    BY <1>b, <1>1, <1>2, <1>3, <1>4, <1>5, <1>6, <1>7, <1>8, <1>9, <1>10, <1>11
       DEF Next, DoTask, ControlStep

(* While there is work somebody is bound to call the function: the caller    *)
(* that finds the task running has its work done by the runner.  This is the *)
(* race that rxe_do_task's ARMED state is for, for any number of callers,    *)
(* fast path or not, with resets at any time.                                *)
THEOREM NoWorkForgotten == Spec => []WorkNotForgotten
  <1>1. Init => WorkInv
    BY RunInit DEF Init, WorkInv, WorkNotForgotten
  <1>2. WorkInv => WorkNotForgotten
    BY DEF WorkInv
  <1> QED
    BY <1>1, <1>2, WorkStep, PTL DEF Spec

-----------------------------------------------------------------------------
(* Where the fast path and resets do not meet, the function is exclusive *)

SafeModes == \A m \in Modes : m.fast = 0 \/ m.resets = 0

\* With the fast path there are no resets; without it callers never run the
\* function, and a reset that has waited for the tasklet keeps it away.
ModeInv ==
  /\ fast = 0 \/ (resets = 0 /\ pc[Control] = "idle")
  /\ fast = 0 => \A c \in Callers : pc[c] \in {"idle", "run"}
  /\ pc[Control] # "idle" => disabled
  /\ pc[Control] \in {"flush", "enable"} => pc[Tasklet] = "idle"

ExclusiveInv == RunInv /\ ModeInv

\* Initially rxe_qp_reset is not running, so nobody is in the flush.
LEMMA ExclusiveInit ==
  ASSUME SafeModes PROVE Init => ExclusiveInv
  BY RunInit, TaskAssumption DEF SafeModes, Init, ExclusiveInv, ModeInv, Contexts

\* Every step keeps what a safe mode says of rxe_qp_reset and the callers.
LEMMA ModeStep ==
  ASSUME ExclusiveInv, [Next]_vars PROVE ModeInv'
  <1>0. TypeInv /\ RunInv /\ ModeInv
    BY DEF ExclusiveInv, RunInv
  <1>a. pc \in [Contexts -> {"idle", "run", "enter", "func", "test",
                            "disabling", "flush", "enable"}]
    BY <1>0 DEF TypeInv, TypeOK
  <1>b. /\ Callers \cup {Tasklet} \subseteq Contexts /\ Control \in Contexts
        /\ Tasklet \notin Callers /\ Control \notin Callers /\ Tasklet # Control
    BY TaskAssumption DEF Contexts
  <1> USE <1>0, <1>a, <1>b DEF ModeInv, Goto
  <1>1. ASSUME NEW c \in Callers, AddWork(c) PROVE ModeInv'
    BY <1>1 DEF AddWork
  <1>2. ASSUME NEW c \in Callers, RunTask(c) PROVE ModeInv'
    <2>1. \/ pc' = [pc EXCEPT ![c] = "idle"]
          \/ fast # 0 /\ pc' = [pc EXCEPT ![c] = "enter"]
      BY <1>2 DEF RunTask, rxe_fast_path_ok
    <2>2. UNCHANGED <<fast, resets, disabled>>
      BY <1>2 DEF RunTask
    <2> QED
      BY <2>1, <2>2
  <1>3. ASSUME NEW c \in Callers \cup {Tasklet}, Enter(c) PROVE ModeInv'
    <2>1. /\ pc[c] = "enter" /\ UNCHANGED <<fast, resets, disabled>>
          /\ pc' = [pc EXCEPT ![c] = "func"] \/ pc' = [pc EXCEPT ![c] = "idle"]
      BY <1>3 DEF Enter, TypeInv, TypeOK
    <2> QED
      BY <2>1
  <1>4. ASSUME NEW c \in Callers \cup {Tasklet}, Func(c) PROVE ModeInv'
    BY <1>4 DEF Func
  <1>5. ASSUME NEW c \in Callers \cup {Tasklet}, Test(c) PROVE ModeInv'
    <2>1. /\ pc[c] = "test" /\ UNCHANGED <<fast, resets, disabled>>
          /\ pc' = [pc EXCEPT ![c] = "func"] \/ pc' = [pc EXCEPT ![c] = "idle"]
      BY <1>5, TestCases DEF Test, TypeInv
    <2> QED
      BY <2>1
  <1>6. CASE TaskletRun
    BY <1>6 DEF TaskletRun
  <1>7. CASE DisableBegin
    BY <1>7 DEF DisableBegin, TypeInv, TypeOK
  <1>8. CASE DisableEnd
    BY <1>8 DEF DisableEnd
  <1>9. CASE Flush
    <2>1. /\ pc[Control] = "flush" /\ UNCHANGED <<fast, resets, disabled>>
          /\ pc' = pc \/ pc' = [pc EXCEPT ![Control] = "enable"]
      BY <1>9 DEF Flush, TypeInv, TypeOK
    <2> QED
      BY <2>1
  <1>10. CASE Enable
    BY <1>10 DEF Enable
  <1>11. CASE UNCHANGED vars
    BY <1>11 DEF vars
  <1> QED
    BY <1>1, <1>2, <1>3, <1>4, <1>5, <1>6, <1>7, <1>8, <1>9, <1>10, <1>11
       DEF Next, DoTask, ControlStep

\* One runner, and no runner during the flush, is mutual exclusion on func.
LEMMA ExclusiveMeans == ExclusiveInv => FuncExclusive
  <1> SUFFICES ASSUME ExclusiveInv, NEW c \in Contexts, NEW d \in Contexts,
                      InFunc(c), InFunc(d)
               PROVE  c = d
    BY DEF FuncExclusive
  <1>1. CASE pc[c] = "func" /\ pc[d] = "func"
    BY <1>1 DEF ExclusiveInv, RunInv, OneRunner, Runner
  <1>2. ASSUME NEW e \in Contexts, pc[e] = "flush" PROVE e = Control
    BY <1>2 DEF ExclusiveInv, RunInv, TypeInv, PcOK, Contexts
  <1>3. ASSUME NEW e \in Contexts, pc[e] = "func", pc[Control] = "flush" PROVE FALSE
    <2>1. fast = 0 /\ pc[Tasklet] = "idle"
      BY <1>3 DEF ExclusiveInv, ModeInv
    <2>2. e \in Callers
      BY <1>3, <2>1 DEF Contexts
    <2> QED
      BY <1>3, <2>1, <2>2 DEF ExclusiveInv, ModeInv
  <1> QED
    BY <1>1, <1>2, <1>3 DEF InFunc

(* As long as the fast path and rxe_qp_reset are not used together, the      *)
(* function is never run by two contexts at once, for any number of callers. *)
(* With both (the default of the module parameters) it is, see the run       *)
(* Task_fast_reset: task->state keeps callers and tasklet apart, but         *)
(* rxe_qp_reset only stops the tasklet and then ignores task->state.         *)
THEOREM FunctionExclusive ==
  ASSUME SafeModes PROVE Spec => []FuncExclusive
  <1>1. Init => ExclusiveInv
    BY ExclusiveInit
  <1>2. ExclusiveInv /\ [Next]_vars => ExclusiveInv'
    BY ModeStep, RunStep DEF ExclusiveInv
  <1> QED
    BY <1>1, <1>2, ExclusiveMeans, PTL DEF Spec
=============================================================================
