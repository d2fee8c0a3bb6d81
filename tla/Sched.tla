------------------------------- MODULE Sched -------------------------------
(***************************************************************************)
(* The per-CPU run-queue core of the LegoOS scheduler                      *)
(* (src/kernel/sched/core.c): the task state machine, __schedule() and its *)
(* context-switch lock hand-off, the lock-free try_to_wake_up(),           *)
(* wake_up_new_task(), the timer tick and wakeup preemption, and CPU       *)
(* affinity changes with move_queued_task().                               *)
(*                                                                         *)
(* Actors: every CPU (running its rq->curr), a set of Wakers calling       *)
(* try_to_wake_up() from other contexts, and a set of Setters calling      *)
(* sched_setaffinity().  A run-queue lock is modelled only where it is     *)
(* held across more than one step: __schedule() holds rq->lock from        *)
(* deactivate to the end of finish_task_switch(); every other critical     *)
(* section is one atomic step whose guard is "the lock is free".           *)
(*                                                                         *)
(* Scheduling classes (rt > fair > idle) are abstracted to their order:    *)
(* pick_next_task() takes any queued task of the highest non-empty class,  *)
(* and a class's own decisions (task_tick, same-class check_preempt_curr)  *)
(* are nondeterministic.                                                   *)
(***************************************************************************)
EXTENDS Integers, FiniteSets, Functions, SchedFork

CONSTANTS
    CPUs,          \* the possible (and online) CPUs
    Tasks,         \* forked tasks, initially TASK_NEW
    Idle,          \* Idle[c]: the idle task of CPU c (sched_init_idle)
    Wakers,        \* contexts that call try_to_wake_up()
    Setters,       \* contexts that call sched_setaffinity()
    Masks,         \* the cpumasks a setter may pass
    TaskClass,     \* TaskClass[t] \in {"rt", "fair"} (setup_sched_fork)
    NrUnintBound,  \* bound on the uninterruptible-sleep counters
    Exiting,       \* the tasks whose code reaches do_task_dead()
    NULL

IdleTasks == Range(Idle)
AllTasks  == Tasks \cup IdleTasks
Online    == CPUs

ASSUME /\ IdleTasks \cap Tasks = {}
       /\ Idle \in [CPUs -> IdleTasks] /\ IsInjective(Idle)
       /\ TaskClass \in [Tasks -> {"rt", "fair"}]
       /\ Masks \subseteq SUBSET CPUs
       /\ NrUnintBound \in Nat
       /\ Exiting \subseteq Tasks

\* p->state
TASK_RUNNING         == "TASK_RUNNING"
TASK_INTERRUPTIBLE   == "TASK_INTERRUPTIBLE"
TASK_UNINTERRUPTIBLE == "TASK_UNINTERRUPTIBLE"
TASK_DEAD            == "TASK_DEAD"
TASK_WAKING          == "TASK_WAKING"
TASK_NEW             == "TASK_NEW"
TaskStates == {TASK_RUNNING, TASK_INTERRUPTIBLE, TASK_UNINTERRUPTIBLE, TASK_DEAD, TASK_WAKING, TASK_NEW}
TASK_NORMAL == {TASK_INTERRUPTIBLE, TASK_UNINTERRUPTIBLE}
\* state masks passed to try_to_wake_up(): wake_up_process(), wake_up_state()
WakeMasks == {TASK_NORMAL, {TASK_INTERRUPTIBLE}}

\* p->on_rq
NOT_ON_RQ == "0"
QUEUED    == "TASK_ON_RQ_QUEUED"
MIGRATING == "TASK_ON_RQ_MIGRATING"

VARIABLES
    state,              \* p->state
    on_rq,              \* p->on_rq
    on_cpu,             \* p->on_cpu
    cpu,                \* task_cpu(p) (thread_info->cpu, = p->wake_cpu)
    need_resched,       \* TIF_NEED_RESCHED of each task
    cpus_allowed,       \* p->cpus_allowed, forked tasks only
    curr,               \* rq->curr
    rq,                 \* rq[c][t]: times t sits in rq c's class queues
    nr_uninterruptible, \* rq->nr_uninterruptible
    cpu_pc,             \* "run", or "switch": inside __schedule() holding rq->lock
    prev,               \* the prev task of a CPU that is in "switch"
    waker,              \* try_to_wake_up() in progress per waker
    setter,             \* __set_cpus_allowed_ptr() in progress per setter
    panicked            \* the kernel has panicked

vars == <<state, on_rq, on_cpu, cpu, need_resched, cpus_allowed, curr, rq,
          nr_uninterruptible, cpu_pc, prev, waker, setter, panicked, child>>

-----------------------------------------------------------------------------
(* Helpers *)

\* rq->lock is free unless the CPU is between __schedule() and the end of
\* finish_task_switch(); all other holders take and drop it in one step.
RqLockFree(c) == cpu_pc[c] = "run"

\* task_rq_lock()/__task_rq_lock(): spin until the task's rq lock is taken
\* and the task is not TASK_ON_RQ_MIGRATING.
TaskRqLockable(p) == RqLockFree(cpu[p]) /\ on_rq[p] # MIGRATING

ClassOf(t) == IF t \in IdleTasks THEN "idle" ELSE TaskClass[t]
ClassRank(cls) == CASE cls = "rt" -> 2 [] cls = "fair" -> 1 [] OTHER -> 0

\* Mutation: the class loop going from the rt class straight to idle.
PickNextTask_skipFair(q, c) ==
    LET rtq == {t \in Tasks : q[t] > 0 /\ TaskClass[t] = "rt"}
    IN  IF rtq # {} THEN rtq ELSE {Idle[c]}

\* pick_next_task(): for_each_class in priority order; the idle class
\* always yields rq->idle.  q is the run-queue after any deactivate.
PickNextTask(q, c) ==
    LET queued == {t \in Tasks : q[t] > 0}
        rtq    == {t \in queued : TaskClass[t] = "rt"}
        fairq  == {t \in queued : TaskClass[t] = "fair"}
    IN  IF rtq # {} THEN rtq ELSE IF fairq # {} THEN fairq ELSE {Idle[c]}

\* select_task_rq(): the CPUs it may return.  With more than one allowed
\* CPU the class's select_task_rq() picks one (any of p's allowed CPUs, the
\* hint included); otherwise cpumask_any().  A choice outside the mask or
\* offline falls back to select_fallback_rq(), which returns task_cpu(p).
SelectTaskRq(p, hint) ==
    LET choices == IF Cardinality(cpus_allowed[p]) > 1
                   THEN cpus_allowed[p] \cup {hint}
                   ELSE {CHOOSE x \in cpus_allowed[p] : TRUE}
    IN  {IF c \notin cpus_allowed[p] \/ c \notin Online THEN cpu[p] ELSE c :
           c \in choices}

\* resched_curr(): set TIF_NEED_RESCHED on rq->curr (the IPI to a remote CPU
\* only makes it notice the flag, which Preempt models).
ReschedCurr(c) == need_resched' = [need_resched EXCEPT ![curr[c]] = TRUE]

\* check_preempt_curr(): across classes resched when p's class outranks
\* curr's; within a class the class decides.
CheckPreemptCurr(c, p) ==
    LET cur == curr[c]
    IN  IF ClassOf(p) = ClassOf(cur)
        THEN ReschedCurr(c) \/ UNCHANGED need_resched
        ELSE IF ClassRank(ClassOf(p)) > ClassRank(ClassOf(cur))
             THEN ReschedCurr(c)
             ELSE UNCHANGED need_resched

-----------------------------------------------------------------------------
(* Initial state: sched_init() and sched_init_idle() for every CPU, and    *)
(* every forked task after setup_sched_fork() (TASK_NEW, on the forking   *)
(* CPU, with its parent's default mask of all CPUs).                       *)

Init ==
    /\ state = [t \in AllTasks |-> IF t \in Tasks THEN TASK_NEW ELSE TASK_RUNNING]
    /\ on_rq = [t \in AllTasks |-> IF t \in Tasks THEN NOT_ON_RQ ELSE QUEUED]
    /\ on_cpu = [t \in AllTasks |-> t \in IdleTasks]
    /\ cpus_allowed = [t \in Tasks |-> CPUs]
    /\ cpu \in {f \in [AllTasks -> CPUs] : \A c \in CPUs : f[Idle[c]] = c}
    /\ need_resched = [t \in AllTasks |-> FALSE]
    /\ curr = Idle
    /\ rq = [c \in CPUs |-> [t \in Tasks |-> 0]]
    /\ nr_uninterruptible = [c \in CPUs |-> 0]
    /\ cpu_pc = [c \in CPUs |-> "run"]
    /\ prev = [c \in CPUs |-> NULL]
    /\ waker = [w \in Wakers |-> [pc |-> "idle", p |-> NULL, mask |-> {}, dest |-> NULL]]
    /\ setter = [a \in Setters |-> [pc |-> "idle", p |-> NULL, dest |-> NULL]]
    /\ panicked = FALSE
    /\ ForkInit

\* Mutation: deactivate_task() decrementing instead of incrementing.
NrUnintDeactivated_dec(c, s) ==
    IF s = TASK_UNINTERRUPTIBLE
    THEN [nr_uninterruptible EXCEPT ![c] = @ - 1]
    ELSE nr_uninterruptible

\* deactivate_task(): rq->nr_uninterruptible++ for a task whose state has
\* the TASK_UNINTERRUPTIBLE bit.
NrUnintDeactivated(c, s) ==
    IF s = TASK_UNINTERRUPTIBLE
    THEN [nr_uninterruptible EXCEPT ![c] = @ + 1]
    ELSE nr_uninterruptible

-----------------------------------------------------------------------------
(* __schedule(preempt) on CPU c, up to the context switch.  prevState is   *)
(* prev->state as __schedule() reads it.  Unless preempted, a task that is *)
(* no longer TASK_RUNNING is deactivated (nr_uninterruptible++ for an      *)
(* uninterruptible sleeper); pick_next_task() chooses next; if it differs  *)
(* from prev, rq->curr = next and next->on_cpu = 1 are set and rq->lock    *)
(* stays held until finish_task_switch(), else it is dropped at once.      *)
ScheduleStep(c, preempt, prevState) ==
    LET p      == curr[c]
        sleeps == ~preempt /\ prevState # TASK_RUNNING
        q      == IF sleeps THEN [rq[c] EXCEPT ![p] = @ - 1] ELSE rq[c]
    IN  \E next \in PickNextTask(q, c) :
          /\ rq' = [rq EXCEPT ![c] = q]
          /\ nr_uninterruptible' =
                IF sleeps THEN NrUnintDeactivated(c, prevState)
                ELSE nr_uninterruptible
          /\ on_rq' = IF sleeps THEN [on_rq EXCEPT ![p] = NOT_ON_RQ] ELSE on_rq
          /\ need_resched' = [need_resched EXCEPT ![p] = FALSE]
          /\ IF next # p
             THEN /\ curr' = [curr EXCEPT ![c] = next]
                  /\ on_cpu' = [on_cpu EXCEPT ![next] = TRUE]
                  /\ cpu_pc' = [cpu_pc EXCEPT ![c] = "switch"]
                  /\ prev' = [prev EXCEPT ![c] = p]
             ELSE UNCHANGED <<curr, on_cpu, cpu_pc, prev>>
          /\ UNCHANGED <<cpu, cpus_allowed, waker, setter, panicked, child>>

\* schedule(): the running task blocks (its state was set to a sleep state),
\* or it yields because TIF_NEED_RESCHED is set (cond_resched(), the idle
\* loop's schedule_preempt_disabled()).
Schedule(c) ==
    LET p == curr[c] IN
    /\ RqLockFree(c)
    /\ state[p] # TASK_RUNNING \/ need_resched[p]
    /\ ScheduleStep(c, FALSE, state[p])
    /\ UNCHANGED state

\* preempt_schedule_irq(): __schedule(true) at an interrupt return with
\* TIF_NEED_RESCHED set; prev is never deactivated, whatever its state.
Preempt(c) ==
    LET p == curr[c] IN
    /\ RqLockFree(c)
    /\ p \in Tasks
    /\ need_resched[p]
    /\ ScheduleStep(c, TRUE, state[p])
    /\ UNCHANGED state

\* do_task_dead(): TASK_DEAD, then __schedule(false) with preemption off.
DoTaskDead(c) ==
    LET p == curr[c] IN
    /\ RqLockFree(c)
    /\ p \in Exiting
    /\ state[p] = TASK_RUNNING
    /\ state' = [state EXCEPT ![p] = TASK_DEAD]
    /\ ScheduleStep(c, FALSE, TASK_DEAD)

\* Mutation: finish_task_switch() clearing on_cpu of the new task.
FinishTaskSwitch_clearsNext(c) ==
    /\ cpu_pc[c] = "switch"
    /\ on_cpu' = [on_cpu EXCEPT ![curr[c]] = FALSE]
    /\ cpu_pc' = [cpu_pc EXCEPT ![c] = "run"]
    /\ prev' = [prev EXCEPT ![c] = NULL]
    /\ UNCHANGED <<state, on_rq, cpu, need_resched, cpus_allowed, curr, rq,
                   nr_uninterruptible, waker, setter, panicked, child>>

\* Mutation: finish_task_switch() missing smp_store_release(&prev->on_cpu, 0).
FinishTaskSwitch_keepsOnCpu(c) ==
    /\ cpu_pc[c] = "switch"
    /\ cpu_pc' = [cpu_pc EXCEPT ![c] = "run"]
    /\ prev' = [prev EXCEPT ![c] = NULL]
    /\ UNCHANGED <<state, on_rq, on_cpu, cpu, need_resched, cpus_allowed, curr,
                   rq, nr_uninterruptible, waker, setter, panicked, child>>

\* context_switch() -> finish_task_switch(): prev->on_cpu = 0 (store-release),
\* then rq->lock is dropped; a TASK_DEAD prev gets its last put_task_struct().
FinishTaskSwitch(c) ==
    /\ cpu_pc[c] = "switch"
    /\ on_cpu' = [on_cpu EXCEPT ![prev[c]] = FALSE]
    /\ cpu_pc' = [cpu_pc EXCEPT ![c] = "run"]
    /\ prev' = [prev EXCEPT ![c] = NULL]
    /\ UNCHANGED <<state, on_rq, cpu, need_resched, cpus_allowed, curr, rq,
                   nr_uninterruptible, waker, setter, panicked, child>>

\* The running task announces it is about to block: set_current_state()
\* before it tests its wait condition and calls schedule().
PrepareSleep(c, s) ==
    LET p == curr[c] IN
    /\ RqLockFree(c)
    /\ p \in Tasks
    /\ state[p] = TASK_RUNNING
    /\ s = TASK_UNINTERRUPTIBLE => SumFunction(nr_uninterruptible) < NrUnintBound
    /\ state' = [state EXCEPT ![p] = s]
    /\ UNCHANGED <<on_rq, on_cpu, cpu, need_resched, cpus_allowed, curr, rq,
                   nr_uninterruptible, cpu_pc, prev, waker, setter, panicked, child>>

\* The wait condition already holds: __set_current_state(TASK_RUNNING).
CancelSleep(c) ==
    LET p == curr[c] IN
    /\ RqLockFree(c)
    /\ p \in Tasks
    /\ state[p] \in TASK_NORMAL
    /\ state' = [state EXCEPT ![p] = TASK_RUNNING]
    /\ UNCHANGED <<on_rq, on_cpu, cpu, need_resched, cpus_allowed, curr, rq,
                   nr_uninterruptible, cpu_pc, prev, waker, setter, panicked, child>>

\* scheduler_tick(): under rq->lock, update_rq_clock() and the class's
\* task_tick(), which may ask for a reschedule of rq->curr.
SchedulerTick(c) ==
    /\ RqLockFree(c)
    /\ ~need_resched[curr[c]]
    /\ ReschedCurr(c)
    /\ UNCHANGED <<state, on_rq, on_cpu, cpu, cpus_allowed, curr, rq,
                   nr_uninterruptible, cpu_pc, prev, waker, setter, panicked, child>>

\* wake_up_new_task(): TASK_RUNNING, set_task_cpu(select_task_rq()), then
\* under __task_rq_lock() activate_task() (no TASK_UNINTERRUPTIBLE bit, so
\* no counter change), on_rq = QUEUED and check_preempt_curr().
WakeUpNewTask(p) ==
    \E c \in SelectTaskRq(p, cpu[p]) :
    /\ state[p] = TASK_NEW
    /\ RqLockFree(c)
    /\ state' = [state EXCEPT ![p] = TASK_RUNNING]
    /\ cpu' = [cpu EXCEPT ![p] = c]
    /\ rq' = [rq EXCEPT ![c][p] = @ + 1]
    /\ on_rq' = [on_rq EXCEPT ![p] = QUEUED]
    /\ CheckPreemptCurr(c, p)
    /\ UNCHANGED <<on_cpu, cpus_allowed, curr, nr_uninterruptible, cpu_pc,
                   prev, waker, setter, panicked, child>>

-----------------------------------------------------------------------------
(* try_to_wake_up(p, state, 0) by waker w.  It takes no p->pi_lock: its    *)
(* reads of p->state, p->on_rq and p->on_cpu and its writes of p->state   *)
(* and task_cpu(p) are separate lock-free steps.                           *)

WakerUnchanged == UNCHANGED <<on_cpu, need_resched, cpus_allowed, curr,
                              nr_uninterruptible, cpu_pc, prev, setter, panicked, child>>

\* Mutation: try_to_wake_up() without its state test.
TtwuStart_noStateCheck(w, p, mask) ==
    /\ waker[w].pc = "idle"
    /\ waker' = [waker EXCEPT ![w] = [pc |-> "on_rq", p |-> p, mask |-> mask,
                                      dest |-> NULL]]
    /\ UNCHANGED <<state, on_rq, cpu, rq>>
    /\ WakerUnchanged

\* if (!(p->state & state)) goto out: only a matching state starts a wakeup.
TtwuStart(w, p, mask) ==
    /\ waker[w].pc = "idle"
    /\ state[p] \in mask
    /\ waker' = [waker EXCEPT ![w] = [pc |-> "on_rq", p |-> p, mask |-> mask,
                                      dest |-> NULL]]
    /\ UNCHANGED <<state, on_rq, cpu, rq>>
    /\ WakerUnchanged

\* if (p->on_rq && ttwu_remote(p, wake_flags)) goto out: the lock-free read.
TtwuReadOnRq(w) ==
    LET p == waker[w].p IN
    /\ waker[w].pc = "on_rq"
    /\ waker' = [waker EXCEPT ![w].pc =
                    IF on_rq[p] # NOT_ON_RQ THEN "remote" ELSE "on_cpu"]
    /\ UNCHANGED <<state, on_rq, cpu, rq>>
    /\ WakerUnchanged

\* Mutation: ttwu_remote() without its task_on_rq_queued() test.
TtwuRemote_noQueuedCheck(w) ==
    LET p == waker[w].p IN
    /\ waker[w].pc = "remote"
    /\ TaskRqLockable(p)
    /\ state' = [state EXCEPT ![p] = TASK_RUNNING]
    /\ waker' = [waker EXCEPT ![w].pc = "idle"]
    /\ UNCHANGED <<on_rq, cpu, rq>>
    /\ WakerUnchanged

\* ttwu_remote(): under __task_rq_lock(), a still-queued task only gets
\* TASK_RUNNING (ttwu_do_wakeup()) and the wakeup is done; otherwise it
\* returns 0 and try_to_wake_up() goes on.
TtwuRemote(w) ==
    LET p == waker[w].p IN
    /\ waker[w].pc = "remote"
    /\ TaskRqLockable(p)
    /\ IF on_rq[p] = QUEUED
       THEN /\ state' = [state EXCEPT ![p] = TASK_RUNNING]
            /\ waker' = [waker EXCEPT ![w].pc = "idle"]
       ELSE /\ waker' = [waker EXCEPT ![w].pc = "on_cpu"]
            /\ UNCHANGED state
    /\ UNCHANGED <<on_rq, cpu, rq>>
    /\ WakerUnchanged

\* Mutation: try_to_wake_up() without the while (p->on_cpu) spin.
TtwuSelectCpu_noSpin(w) ==
    LET p == waker[w].p IN
    /\ waker[w].pc = "on_cpu"
    /\ \E c \in SelectTaskRq(p, cpu[p]) :
          /\ state' = [state EXCEPT ![p] = TASK_WAKING]
          /\ cpu' = [cpu EXCEPT ![p] = c]
          /\ waker' = [waker EXCEPT ![w].pc = "queue", ![w].dest = c]
    /\ UNCHANGED <<on_rq, rq>>
    /\ WakerUnchanged

\* while (p->on_cpu) cpu_relax(); p->state = TASK_WAKING;
\* cpu = select_task_rq(p, p->wake_cpu); set_task_cpu() if it differs.
TtwuSelectCpu(w) ==
    LET p == waker[w].p IN
    /\ waker[w].pc = "on_cpu"
    /\ ~on_cpu[p]
    /\ \E c \in SelectTaskRq(p, cpu[p]) :
          /\ state' = [state EXCEPT ![p] = TASK_WAKING]
          /\ cpu' = [cpu EXCEPT ![p] = c]
          /\ waker' = [waker EXCEPT ![w].pc = "queue", ![w].dest = c]
    /\ UNCHANGED <<on_rq, rq>>
    /\ WakerUnchanged

\* Mutation: ttwu_do_activate() without p->on_rq = TASK_ON_RQ_QUEUED.
TtwuQueue_noOnRq(w) ==
    LET p == waker[w].p
        c == waker[w].dest
    IN
    /\ waker[w].pc = "queue"
    /\ RqLockFree(c)
    /\ rq' = [rq EXCEPT ![c][p] = @ + 1]
    /\ state' = [state EXCEPT ![p] = TASK_RUNNING]
    /\ waker' = [waker EXCEPT ![w] = [pc |-> "idle", p |-> NULL, mask |-> {},
                                      dest |-> NULL]]
    /\ UNCHANGED <<cpu, on_rq>>
    /\ WakerUnchanged

\* ttwu_queue() -> ttwu_do_activate() under the chosen rq's lock:
\* enqueue_task(), on_rq = QUEUED, ttwu_do_wakeup() sets TASK_RUNNING.
TtwuQueue(w) ==
    LET p == waker[w].p
        c == waker[w].dest
    IN
    /\ waker[w].pc = "queue"
    /\ RqLockFree(c)
    /\ rq' = [rq EXCEPT ![c][p] = @ + 1]
    /\ on_rq' = [on_rq EXCEPT ![p] = QUEUED]
    /\ state' = [state EXCEPT ![p] = TASK_RUNNING]
    /\ waker' = [waker EXCEPT ![w] = [pc |-> "idle", p |-> NULL, mask |-> {},
                                      dest |-> NULL]]
    /\ UNCHANGED cpu
    /\ WakerUnchanged

-----------------------------------------------------------------------------
(* sched_setaffinity(pid, mask) -> set_cpus_allowed_ptr() ->              *)
(* __set_cpus_allowed_ptr(p, mask, false) by setter a.                     *)

SetterUnchanged == UNCHANGED <<state, on_cpu, need_resched, curr,
                               nr_uninterruptible, cpu_pc, prev, waker, child>>

\* Mutation: only TASK_WAKING sends the task to the stopper.
NeedsStopper_noRunning(p) == state[p] = TASK_WAKING

\* task_running(rq, p) || p->state == TASK_WAKING: the task cannot be moved
\* under this CPU's rq lock alone.
NeedsStopper(p) == on_cpu[p] \/ state[p] = TASK_WAKING

\* Under task_rq_lock(): an equal mask or one with no online CPU returns
\* early; otherwise do_set_cpus_allowed() installs the mask.  If task_cpu(p)
\* is still allowed that is all; else dest_cpu = cpumask_any_and().  A task
\* that is running or TASK_WAKING needs stop_one_cpu(), which panics; a
\* queued one starts move_queued_task() (TASK_ON_RQ_MIGRATING, dequeued,
\* set_task_cpu(dest), source lock dropped); a sleeping one is left for
\* try_to_wake_up() to place.
SetCpusAllowed(a, p, mask) ==
    LET dest == CHOOSE x \in mask \cap Online : TRUE IN
    /\ setter[a].pc = "idle"
    /\ state[p] # TASK_DEAD
    /\ TaskRqLockable(p)
    /\ mask # cpus_allowed[p]
    /\ mask \cap Online # {}
    /\ cpus_allowed' = [cpus_allowed EXCEPT ![p] = mask]
    /\ CASE cpu[p] \in mask ->
              UNCHANGED <<on_rq, cpu, rq, setter, panicked>>
         [] NeedsStopper(p) ->
              /\ panicked' = TRUE
              /\ UNCHANGED <<on_rq, cpu, rq, setter>>
         [] on_rq[p] = QUEUED ->
              /\ on_rq' = [on_rq EXCEPT ![p] = MIGRATING]
              /\ rq' = [rq EXCEPT ![cpu[p]][p] = @ - 1]
              /\ cpu' = [cpu EXCEPT ![p] = dest]
              /\ setter' = [setter EXCEPT ![a] = [pc |-> "move", p |-> p,
                                                  dest |-> dest]]
              /\ UNCHANGED panicked
         [] OTHER ->
              UNCHANGED <<on_rq, cpu, rq, setter, panicked>>
    /\ SetterUnchanged

\* The second half of move_queued_task(): take the destination rq lock,
\* enqueue_task(), on_rq = QUEUED, and drop the lock.
MoveQueuedTaskEnqueue(a) ==
    LET p == setter[a].p
        c == setter[a].dest
    IN
    /\ setter[a].pc = "move"
    /\ RqLockFree(c)
    /\ rq' = [rq EXCEPT ![c][p] = @ + 1]
    /\ on_rq' = [on_rq EXCEPT ![p] = QUEUED]
    /\ setter' = [setter EXCEPT ![a] = [pc |-> "idle", p |-> NULL, dest |-> NULL]]
    /\ UNCHANGED <<cpu, cpus_allowed, panicked, child>>
    /\ SetterUnchanged

\* A fork on some CPU: setup_sched_fork() for a child outside Tasks, which
\* touches only the child until wake_up_new_task() (SchedFork).
Fork ==
    /\ SetupSchedForkStep
    /\ UNCHANGED <<state, on_rq, on_cpu, cpu, need_resched, cpus_allowed, curr, rq,
                   nr_uninterruptible, cpu_pc, prev, waker, setter, panicked>>

\* After panic() nothing runs any more.
Halted ==
    /\ panicked
    /\ UNCHANGED vars

-----------------------------------------------------------------------------
Running ==
    \/ \E c \in CPUs :
          \/ Schedule(c)
          \/ Preempt(c)
          \/ DoTaskDead(c)
          \/ FinishTaskSwitch(c)
          \/ \E s \in TASK_NORMAL : PrepareSleep(c, s)
          \/ CancelSleep(c)
          \/ SchedulerTick(c)
    \/ \E p \in Tasks : WakeUpNewTask(p)
    \/ \E w \in Wakers :
          \/ \E p \in Tasks, mask \in WakeMasks : TtwuStart(w, p, mask)
          \/ TtwuReadOnRq(w)
          \/ TtwuRemote(w)
          \/ TtwuSelectCpu(w)
          \/ TtwuQueue(w)
    \/ \E a \in Setters :
          \/ \E p \in Tasks, mask \in Masks : SetCpusAllowed(a, p, mask)
          \/ MoveQueuedTaskEnqueue(a)
    \/ Fork

Next == (~panicked /\ Running) \/ Halted

\* Spin locks, the on_cpu and migrating spins and the straight-line code of
\* a wakeup, a migration and a context switch all complete once started.
\* A CPU whose rq->curr has TIF_NEED_RESCHED set calls schedule(): the
\* idle loop tests the flag, and a task reaches an interrupt return or
\* schedule() (a task that set a sleep state calls it unless it cancels).
\* Nothing is assumed of the timer tick.
Fairness ==
    /\ \A c \in CPUs : WF_vars(FinishTaskSwitch(c))
    /\ \A w \in Wakers : /\ WF_vars(TtwuReadOnRq(w))
                         /\ SF_vars(TtwuRemote(w))
                         /\ SF_vars(TtwuSelectCpu(w))
                         /\ SF_vars(TtwuQueue(w))
    /\ \A a \in Setters : SF_vars(MoveQueuedTaskEnqueue(a))
    /\ \A c \in CPUs : WF_vars(Schedule(c)) /\ WF_vars(Preempt(c))

Spec == Init /\ [][Next]_vars /\ Fairness

-----------------------------------------------------------------------------
(* Properties *)

TypeOK ==
    /\ state \in [AllTasks -> TaskStates]
    /\ on_rq \in [AllTasks -> {NOT_ON_RQ, QUEUED, MIGRATING}]
    /\ on_cpu \in [AllTasks -> BOOLEAN]
    /\ cpu \in [AllTasks -> CPUs]
    /\ need_resched \in [AllTasks -> BOOLEAN]
    /\ cpus_allowed \in [Tasks -> SUBSET CPUs]
    /\ curr \in [CPUs -> AllTasks]
    /\ rq \in [CPUs -> [Tasks -> Nat]]
    /\ nr_uninterruptible \in [CPUs -> Nat]
    /\ cpu_pc \in [CPUs -> {"run", "switch"}]
    /\ prev \in [CPUs -> AllTasks \cup {NULL}]
    /\ \A w \in Wakers :
          /\ waker[w].pc \in {"idle", "on_rq", "remote", "on_cpu", "queue"}
          /\ waker[w].p \in Tasks \cup {NULL}
          /\ waker[w].dest \in CPUs \cup {NULL}
    /\ \A a \in Setters :
          /\ setter[a].pc \in {"idle", "move"}
          /\ setter[a].p \in Tasks \cup {NULL}
    /\ panicked \in BOOLEAN

\* A task sits on exactly one run-queue, the one of task_cpu(p), exactly
\* while p->on_rq is TASK_ON_RQ_QUEUED: enqueue/dequeue by __schedule(),
\* try_to_wake_up(), wake_up_new_task() and move_queued_task() on different
\* CPUs never enqueue a task twice or leave a stale entry behind.
RqMatchesOnRq ==
    \A c \in CPUs, t \in Tasks :
        rq[c][t] = IF on_rq[t] = QUEUED /\ cpu[t] = c THEN 1 ELSE 0

\* The CPUs on which task t is executing or still being switched away from.
OnCpuOf(t) == {c \in CPUs : curr[c] = t \/ (cpu_pc[c] = "switch" /\ prev[c] = t)}

\* p->on_cpu is set exactly while some CPU runs p or is still switching away
\* from it (context_switch() sets it, finish_task_switch() clears it), and a
\* task is never on two CPUs at once: the on_cpu spin in try_to_wake_up()
\* keeps a wakeup from queueing a task elsewhere before its switch is done.
RunsOnOneCpu ==
    \A t \in AllTasks :
        /\ on_cpu[t] = (OnCpuOf(t) # {})
        /\ Cardinality(OnCpuOf(t)) <= 1

\* rq->curr of every CPU is a task queued on that very CPU: pick_next_task()
\* only returns queued tasks, and nobody moves the running task away.
CurrIsQueuedHere ==
    \A c \in CPUs :
        curr[c] \in Tasks => /\ on_rq[curr[c]] = QUEUED
                             /\ cpu[curr[c]] = c

\* No lost wakeup: a TASK_RUNNING task is on a run-queue (or being moved
\* between two).  A wakeup racing with the task's own __schedule() either
\* finds it queued (ttwu_remote) or waits for it to be off the CPU and
\* enqueues it; a preempted sleeper is never deactivated.
RunningIsQueued ==
    \A t \in Tasks : state[t] = TASK_RUNNING => on_rq[t] # NOT_ON_RQ

\* task_cpu(p) never changes while p->on_cpu is set: neither
\* try_to_wake_up() nor set_cpus_allowed() re-targets a task that is still
\* executing or mid-context-switch.
CpuStableWhileOnCpu ==
    [][\A t \in Tasks : on_cpu[t] => cpu'[t] = cpu[t]]_vars

\* Every try_to_wake_up() that has passed its state check returns, unless
\* the kernel has panicked: its spins on rq->lock, on TASK_ON_RQ_MIGRATING
\* and on p->on_cpu all end.
WakeupCompletes ==
    \A w \in Wakers : (waker[w].pc # "idle") ~> (waker[w].pc = "idle" \/ panicked)

\* Once the CPU a runnable task is queued on has been told to reschedule
\* (resched_curr() by wake_up_new_task()'s check_preempt_curr() or by a
\* tick), the task runs, unless the kernel has panicked or
\* sched_setaffinity() moves it to another run queue first.  The flag is
\* consumed by whichever __schedule() runs next on that CPU, so
\* pick_next_task() must return the queued task then.  try_to_wake_up()
\* never sets the flag (ttwu_do_wakeup() has no check_preempt_curr()), so
\* this is all a woken task can rely on.
ReschedTaskRuns ==
    \A t \in Tasks :
        (on_rq[t] = QUEUED /\ state[t] = TASK_RUNNING /\ need_resched[curr[cpu[t]]])
            ~> ((\E c \in CPUs : curr[c] = t) \/ on_rq[t] = MIGRATING \/ panicked)

-----------------------------------------------------------------------------
(* Refinement of TaskLifecycle.  A task is running while it is some CPU's *)
(* rq->curr, runnable while it is on a run queue (or being moved between  *)
(* two) or TASK_WAKING, and blocked otherwise; its pending sleep is its    *)
(* state being TASK_INTERRUPTIBLE or TASK_UNINTERRUPTIBLE.                 *)

AbsStatus(t) ==
    CASE state[t] = TASK_NEW  -> "new"
      [] state[t] = TASK_DEAD -> "dead"
      [] \E c \in CPUs : curr[c] = t -> "running"
      [] on_rq[t] # NOT_ON_RQ \/ state[t] = TASK_WAKING -> "runnable"
      [] OTHER -> "blocked"

Life == INSTANCE TaskLifecycle WITH
            status   <- [t \in Tasks |-> AbsStatus(t)],
            run      <- [c \in CPUs |-> IF curr[c] \in Tasks THEN curr[c] ELSE NULL],
            sleeping <- {t \in Tasks : state[t] \in TASK_NORMAL},
            IDLE     <- NULL

\* The scheduler core implements the task life cycle: __schedule() takes a
\* task off its CPU as blocked only after it set a sleep state, a blocked
\* task becomes runnable only through a try_to_wake_up() that cancels its
\* sleep, a TASK_NEW task only through wake_up_new_task(), a switch only
\* starts a task that is queued, and a dead task is never woken or run.
RefinesTaskLifecycle == Life!Spec

====
