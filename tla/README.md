# TLA+ models of the LegoOS scheduler core and remote fault path

This directory holds TLA+ specifications of the parts of LegoOS under `src/`.
Each one is checked with TLC.

- `Sched.tla` models the per-CPU scheduler core in `src/kernel/sched/core.c`.
- `MemFault.tla` models the memory component's handling of remote page faults:
  - `src/managers/memory/handle_pcache.c`: the LLC-miss RPC handler;
  - `src/managers/memory/vm/fault.c`: the fault engine;
  - `src/managers/memory/pcache/clflush.c`: the flush RPC handler.
- `SchedFork.tla` models the fork-time priority and class choice of
  `setup_sched_fork()` in the same file.
- `Resource.tla` models the I/O memory resource tree in `src/kernel/resource.c`.

Two abstract specifications state what a component promises, and the detailed
module is shown to implement each by a refinement mapping:

- `TaskLifecycle.tla`: the life of a task (new, runnable, running, blocked,
  dead), implemented by `Sched`;
- `ResourceSet.tla`: a set of claimed address ranges, implemented by `Resource`.

`MC_Sched.tla`, `MC_MemFault.tla` and `MC_Resource.tla` instantiate the modules for TLC. Each
`.cfg` file is one run. `PROJECT.json` lists:

- the components;
- the runs and the properties each one checks;
- the mutants;
- the source lines behind every definition (`map`);
- the findings;
- the hazards the properties target.

## The system and how its parts interact

LegoOS splits an OS across networked components.

**Compute side.** A processor node runs threads under the scheduler core. Its
per-CPU run queues hold tasks, and `__schedule()` switches between them.

- Tasks sleep with `set_current_state()` and `schedule()`.
- Tasks are woken by `try_to_wake_up()` from other contexts.
- The timer tick sets `need_resched`, which is acted on at preemption points.
- `sched_setaffinity()` changes the set of CPUs a task may run on. A queued task
  is then moved (`move_queued_task()`). A running task is handed to
  `stop_one_cpu()`.

**Memory side.** A memory node serves cache-line misses from processor nodes.

- `handle_p2m_llc_miss()` looks up the task and rejects kernel addresses. It
  then takes `mmap_sem` for read, finds the VMA and may grow a stack.
- It then calls `handle_lego_mm_fault()`, which:
  1. allocates page-table levels;
  2. reads the PTE without a lock;
  3. takes one of three paths:
     - **file-backed:** `do_linear_fault()` → `__do_fault()`;
     - **anonymous:** `do_anonymous_page()`;
     - **present PTE:** `handle_pte_fault()`'s tail.
- Each path takes the PTE lock and installs its page only if the PTE has not
  changed meanwhile (`pte_same()` or `pte_none()`).
- The handler replies with the page found in the PTE.
- `handle_lego_mmap_faults()` installs a block of prefetched file pages, one per
  PTE, in a loop.
- `handle_p2m_flush_one()` writes a line back into the page mapped at an address.

## Sched.tla

### State

| Variable | What it models |
|---|---|
| `state`, `on_rq`, `on_cpu`, `cpu`, `cpus_allowed` | `task_struct` fields |
| `need_resched` | `TIF_NEED_RESCHED` |
| `curr`, `rq` | `rq->curr`; the membership of each CPU's class queues |
| `nr_uninterruptible` | the per-run-queue counter |
| (constant) `Exiting` | the tasks whose code reaches `do_task_dead()` |
| `cpu_pc`, `prev` | a CPU between `context_switch()` and `finish_task_switch()`, which holds `rq->lock` across both |
| `waker[w]` | a `try_to_wake_up()` in progress |
| `setter[a]` | a `__set_cpus_allowed_ptr()` in progress |
| `panicked` | a BUG or panic was reached |

### Actions

Every CPU runs its `rq->curr`:

- `Schedule` / `Preempt` / `ScheduleStep`: `schedule()`, `preempt_schedule_irq()`
  and `__schedule()`, with `deactivate_task()` for a sleeper and
  `pick_next_task()`.
- `FinishTaskSwitch`: clears `prev->on_cpu` and releases the lock.
- `DoTaskDead`, only for a task in `Exiting`.
- `PrepareSleep` / `CancelSleep`: `set_current_state()`.
- `SchedulerTick`.

`try_to_wake_up()` takes no `pi_lock`, so each of its lock-free steps is its own
action:

| Action | Step of `try_to_wake_up()` |
|---|---|
| `TtwuStart` | the state test |
| `TtwuReadOnRq` | reads `on_rq` |
| `TtwuRemote` | `ttwu_remote()` under the run-queue lock |
| `TtwuSelectCpu` | the `on_cpu` spin, `TASK_WAKING`, `select_task_rq()` and `set_task_cpu()` |
| `TtwuQueue` | `ttwu_do_activate()` |

Other actions:

- `WakeUpNewTask`.
- `SetCpusAllowed`: `__set_cpus_allowed_ptr()` under `task_rq_lock()`, which
  spins while the task is migrating.
- `MoveQueuedTaskEnqueue`: the destination half of `move_queued_task()`.
  Between the two halves the task is `TASK_ON_RQ_MIGRATING` and on no queue.
- `Halted`: moving a running or waking task off its CPU calls `stop_one_cpu()`,
  which is a panicking placeholder (`TODO`). The model stops there, and
  `sched_core` reaches that state.

### Abstractions

- Scheduling classes are abstracted to their order (rt > fair > idle). A class's
  own choices are nondeterministic:
  - which task it picks;
  - `task_tick`;
  - same-class preemption;
  - the target of `select_task_rq()`.
- All CPUs are online.
- A task's class is a constant; `MC_Sched.tla` computes it with
  `SetupSchedFork` from the parent that forked the task.

### Refinement of TaskLifecycle

`RefinesTaskLifecycle` is `Life!Spec`, where `Life` is `TaskLifecycle` with:

- a task's status from `AbsStatus`: `TASK_NEW` is new, `TASK_DEAD` is dead, a
  CPU's `curr` is running, a task on a run queue or `TASK_WAKING` is runnable,
  anything else is blocked;
- `run[c]` the CPU's `curr`, or none for its idle task;
- `sleeping` the tasks whose state is a sleep state.

So the abstract specification says:

- a task blocks only after it set a sleep state;
- only a wakeup that cancels the sleep makes a blocked task runnable;
- only `wake_up_new_task()` starts a new task;
- a switch starts only a queued task;
- a dead task is never woken or run.

Every other step of `Sched` is a stutter of `TaskLifecycle`.

## SchedFork.tla

`setup_sched_fork()` copies the parent, sets `p->prio = current->normal_prio`
so that a priority-inheritance boost does not leak, applies the
`sched_reset_on_fork` branch, and picks the rt class when `rt_prio(p->prio)`
and the fair class (with `set_load_weight()`) otherwise.

- `NormalPrio`, `NormalPrioStatic` and `LoadWeight` are `normal_prio()`,
  `__normal_prio()` and `set_load_weight()`. `LoadWeight` returns the
  `[weight, inv_weight]` pair that `set_load_weight()` stores, read from the
  tuples `sched_prio_to_weight` and `sched_prio_to_wmult` (the two tables of
  `core.c`, all 40 entries) or, for `SCHED_IDLE`, from `WEIGHT_IDLEPRIO` and
  `WMULT_IDLEPRIO` (3 and 2^32/3, as in Linux: `<lego/sched.h>` is not under
  `src/`).
- `Pow2Div` is a reference for 2^32 / w by long division, one bit at a time,
  so that no value exceeds TLC's 32-bit integers.
- `ResetOnFork` is the reset branch.
- `SetupSchedFork` is the whole function on a parent's attributes.
- `SetupSchedForkStep` is one fork by any parent in `ForkParents`. That set
  holds every policy, the nice values `Nices`, the rt priorities `RtPrios`, both
  values of the reset flag, and every rt boost above the parent's own priority.

The priority macros (`MAX_RT_PRIO`, `NICE_TO_PRIO`, `rt_prio`,
`task_has_rt_policy`) are not under `src/` and follow their Linux definitions.
`Sched` runs the step as its `Fork` action, beside every other step. A fork
touches only the child (the variable `child`), which no other CPU can reach
before `wake_up_new_task()`. The runs other than the liveness run set
`Nices = {}`, so no parent exists and `Fork` never fires there.

## MemFault.tla

### State

| Variable | What it models |
|---|---|
| `pte[a]` | the leaf PTE for page address `a` (`NONE` or page/write/dirty) |
| `ptable` | the page-table pages exist |
| `free` | the memory node's free pages, a finite pool whose exhaustion is the `VM_FAULT_OOM` path |
| `content` | what each page holds: zero, a file page offset, or a flushed line |
| `vm_start` | each VMA's start (`expand_stack()` lowers a stack's) |
| `hs[h]` | a handler thread's request in progress |
| `holds[h]` | `mmap_sem` read acquisitions not yet released |
| `reply[h]` | the last reply sent |
| `pf` | the prefetcher's loop state |
| `flushed` | a history variable of addresses written by a flush |

### Actions

Each blocking or unlocked point of the code is a step boundary:

| Action | What it models |
|---|---|
| `Recv` | `handle_p2m_llc_miss()`: the EFAULT reply, and for an unknown pid the oops of `llc_miss_error()` dereferencing the NULL task (a halting step) |
| `LockAndFindVma` | `down_read`, `find_vma`, `expand_stack`, `bad_area` |
| `WalkAndReadPte` | the walk and the unlocked `entry = *pte` |
| `DoLinearFault`, `DoAnonymousPage`, `PresentPte` | allocation, the locked re-check and install, `*ret_va`, `up_read` and the reply |
| `FlushOne` | `handle_p2m_flush_one()` |
| `PfStart`, `PfWalk`, `PfReadOrig`, `PfInstall` | `handle_lego_mmap_faults()` |

`*ret_va` is read in the same step that drops the PTE lock, although the
code reads it after the unlock. Only the prefetcher can change an installed
PTE in between (`HandlersNeverReplace`), and no run checks replies while the
prefetcher runs. `PfStart` allocates `nr` pages where the code allocates a
block of `2^PREFETCH_ORDER`. The pages beyond `nr` are never mapped, and no
property counts them.

`do_wp_page()`/`do_swap_page()` are BUG(), so reaching one is a halting step
(`Halted`). Nothing in the model produces swap entries.

### Modelled from the spec

These functions are not under `src/`, so they are modelled from the spec:

- `find_vma()`: the first VMA ending above the address.
- `expand_stack()`: succeeds down to `StackLimit`.
- `lego_*_alloc()`: allocated once, atomically under `page_table_lock`.
- `__get_free_page()`.
- `lego_copy_to_user()`: fails where nothing is mapped.

The prefetcher's caller is assumed to:

- hold `mmap_sem`;
- keep the block inside one file-backed VMA;
- run at most once per model run.

## Resource.tla

`iomem_resource` is the root of a tree of `struct resource` ranges. Each node
has `parent`, `sibling` and `child` pointers, and each child list is sorted by
address. `tree` holds the three pointer fields as functions over the
resources, and `last` records the most recent call and the conflict it
returned.

`RefinesResourceSet` is `Abs!Spec`, where `Abs` is `ResourceSet` with:

- `claimed` the attached resources;
- `result` the last call with `ok` exactly when it returned no conflict.

`ResourceSet` says:

- `request` succeeds exactly on a well-formed range disjoint from every claimed
  one;
- `insert` succeeds exactly on a well-formed range that nests with every claimed
  one, being disjoint from it, inside it or around it.

| Definition | Code |
|---|---|
| `RequestResource` | `request_resource()` → `__request_resource()` (`RequestR`, whose loop over `p = &tmp->sibling` is `ReqScan`) |
| `InsertResource` | `insert_resource()` → `__insert_resource()`: the descending loop (`InsDescend`), the partial-overlap scan (`ScanCovered`), and the relinking (`Adopt`, `PredOf`) |
| `NextResource`, `Climb`, `FindScan`, `FindNextIomemRes` | `next_resource()` and `find_next_iomem_res()` |
| `WalkLoop`, `WalkSystemRamRange`, `FirstPfn` | `walk_system_ram_range()`, with its callback recording the pfns it is given and returning 0 |

Both actions run entirely under `resource_lock`, so each one is a single step.
The walk is a pure operator, evaluated in every reachable tree. Addresses are
`W`-bit unsigned values (`U(x) == x % 2^W`), so the `- 1` and `+ 1` of the walk
wrap as they do in the code. Flags and `desc` are reduced to one attribute,
System RAM or not. A resource is requested or inserted only while it is
unattached, as each `struct resource` in the kernel is registered once; a
failed call leaves it free to be tried again. `lookup_resource()` is the
operator `LookupResource`, a scan of the root's sibling list that stops at
the first matching start.

## Runs

### Passing runs

| Run (cfg) | Properties | What it shows |
|---|---|---|
| sched_core (`MC_Sched.cfg`) | TypeOK, RqMatchesOnRq, RunsOnOneCpu, CurrIsQueuedHere, RunningIsQueued, CpuStableWhileOnCpu, RefinesTaskLifecycle | No task exits in this run. Under switches, wakeups and migrations:<br>1. A task's queue membership and its `on_rq` and `task_cpu` agree.<br>2. A task is on at most one CPU.<br>3. `task_cpu` never changes while `on_cpu` is set.<br>4. Every step is a step of the task life cycle. |
| sched_wakeup_liveness (`MC_SchedLive.cfg`) | ForkClassMatchesPolicy, LoadWeightInverse, WakeupCompletes, ReschedTaskRuns | The task may exit, and a fork runs beside the scheduler:<br>1. Every started wakeup finishes, so the `on_cpu` spin ends.<br>2. A queued `TASK_RUNNING` task whose CPU has been told to reschedule (`TIF_NEED_RESCHED` on its `rq->curr`, set by `wake_up_new_task()`'s `check_preempt_curr()` or by a tick) eventually runs. The exceptions are a panic, and `sched_setaffinity()` moving it to another queue first. No wakeup calls `check_preempt_curr()` (the TODO in `ttwu_do_wakeup()`), so this is all a woken task can rely on.<br>3. Every child gets the class, priority and load weight of its own policy and a clear reset flag, whatever its parent's boost and reset flag.<br>4. The child's `inv_weight` is 2^32 / `weight`, rounded down or up. This is checked for all 40 rows of the tables, for `SCHED_IDLE`, and for every child forked. |
| fault_prefetch (`MC_MemFault.cfg`) | TypeOK, PagesExclusive, ContentMatchesAddress, HandlersNeverReplace | With the prefetcher racing a handler whose misses also take every error path and a stack expansion:<br>1. No page is mapped twice or both mapped and free.<br>2. Every mapped page holds its address's content.<br>3. A handler whose PTE read went stale because the prefetcher installed first replaces nothing: `pte_same()` and `pte_none()` are re-checked under the PTE lock. |
| fault_races (`MC_MemFaultRace.cfg`) | ReplyCorrect, HandlersNeverReplace | Two handlers race misses and flushes on the same pages, including flushes rejected as unaligned or for an unknown pid:<br>1. A race loser replies with the winner's page.<br>2. No handler step replaces an installed PTE; only the prefetcher's install can (see fault_prefetch_overwrite). |
| resource_tree (`MC_Resource.cfg`) | ChildListsOrdered, NestingIsAncestry, WalkSound, RefinesResourceSet, LookupFindsTopLevel | Every order of requests and inserts of seven ranges:<br>1. Child lists stay sorted, disjoint, inside their parent and parent-linked.<br>2. The tree is the containment order.<br>3. Request and insert implement `ResourceSet`.<br>4. The walk reports only whole RAM pages.<br>5. `lookup_resource()` finds a resource by its start exactly while it is a child of the root; once `insert_resource()` adopts it below a larger range, the lookup returns NULL or the new parent. |

### Violation runs

Each one is a finding in `PROJECT.json`.

| Run (cfg) | Property | What TLC finds |
|---|---|---|
| sched_concurrent_wakeups (`MC_SchedDoubleWake.cfg`) | RqMatchesOnRq | Two wakers enqueue one task twice. `try_to_wake_up()` has no `pi_lock`. |
| sched_dead_wakeup (`MC_SchedDeadWake.cfg`) | RefinesTaskLifecycle | A waker passes the state test while the task sleeps. The task cancels its sleep and reaches `do_task_dead()`. The waker then stores `TASK_WAKING` and enqueues it, so a dead task becomes runnable. Once `finish_task_switch()` has called `put_task_struct()`, the waker touches freed memory. |
| fault_mmap_sem_leak (`MC_MemFaultSem.cfg`) | MmapSemReleased | `bad_area()` and `llc_miss_error()` return without `up_read()`. |
| fault_race_leak (`MC_MemFaultLeak.cfg`) | NoPageLeak | The loser of an install race keeps its allocated page. |
| fault_esrch_oops (`MC_MemFaultOops.cfg`) | RequestsNeverAbort | An LLC miss from an unknown pid: `find_lego_task_by_pid()` returns NULL and `llc_miss_error(RET_ESRCH, desc, p, vaddr)` reads `p->node` and `p->pid` for its `WARN()`. The memory node oopses instead of replying ESRCH. |
| fault_prefetch_overwrite (`MC_MemFaultPrefetch.cfg`) | ContentMatchesAddress | The prefetcher re-reads `*pte` after its `pte_none()` test and replaces a page a fault installed and a flush wrote. |
| resource_walk_complete (`MC_ResourceComplete.cfg`) | WalkComplete | With `ram1 = [0, 4]` and `ram2 = [7, 11]` requested, walking pfns 2..5 finds only byte 4 of `ram1`. That piece holds no whole page, so `ret` stays -1, `if (ret) break` ends the loop, and pages 4 and 5 of `ram2` are never reported. |

### Mutants

Every property of a passing run has a mutant in `PROJECT.json`. A mutant is an
operator named `<Action>_<bug>`, defined just before the action it replaces,
with a plausible code bug:

- a dropped re-check;
- a missing OOM test;
- a missed loop step;
- a reply from the wrong page;
- a missing spin;
- a wakeup without its state test;
- a reset-on-fork branch that keeps the parent's priority.

TLC finds each one under its run's own cfg.

## Bounds

**Sched runs** use:

- 2 CPUs with their idle tasks;
- 2 tasks (one rt, one fair);
- one waker and one setter;
- every non-empty mask;
- a cap of 2 on the uninterruptible counters;
- for the fork: every policy, nice -20, 0 and 19 (both ends of the weight
  table and the default), rt priorities 1 and 99, both reset flags, and every
  boost a parent can hold.

`sched_core` has no exiting task. An exit racing a wakeup breaks the life
cycle (`sched_dead_wakeup`), so the refinement is checked where no task exits.
The liveness run lets its task exit, so `DoTaskDead` is still covered.

That is enough for:

- a task to migrate between CPUs while another CPU is switching;
- both class levels to compete in `pick_next_task()`.

The liveness run uses one fair task to keep the temporal check small. The
double-wakeup run adds a second waker.

**MemFault runs** use nine page addresses laid out in `MC_MemFault.tla`:

- a two-page file VMA;
- a hole;
- an anonymous page;
- two addresses below a growable stack, one within the limit and one beyond it;
- the stack;
- an address above every VMA;
- a kernel address.

They also use one or two handlers, each serving two or three requests (the cap
`MaxRequests`), a prefetch of up to two pages, and a pool of four pages. The pool
is small so that allocation failure happens in the same runs as the races.

`Handlers` is a symmetry set where more than one handler is used; the handlers
are identical threads.

**The Resource run** uses a 4-bit address space with 2-byte pages (pfns 0..7)
and seven ranges, laid out in `MC_Resource.tla`:

- two RAM ranges, one ending inside a page and one starting inside a page;
- a range inside the second;
- one covering it, which `insert_resource()` must adopt;
- one equal to it;
- one sharing a single byte with the first and partly overlapping the second;
- one with its end below its start.

Each bound exists for a reason. The unaligned RAM edges exercise the rounding of
the walk. The single shared byte is the boundary of `__request_resource()`'s
comparisons. The covering and equal ranges reach both `break`s of
`__insert_resource()`'s first loop. The walk is checked for every `start_pfn`
and every `nr_pages` from 1 that stays in range.

`nr_pages = 0` is left out of the checks. For `start_pfn = 0`, `res.end =
(0 << PAGE_SHIFT) - 1` wraps to the top address, so `WalkSystemRamRange(T, 0,
0)` evaluates to every RAM page. It is listed as a hazard in `PROJECT.json`.

## Fairness

`Spec` in `Sched.tla` assumes the following, and only the liveness run depends
on it (the refinement's `TaskLifecycle` has no fairness):

- weak fairness of `FinishTaskSwitch`, since a CPU in a context switch completes
  it;
- weak fairness of `TtwuReadOnRq`;
- strong fairness of the waker's and the migration's steps that wait on a
  run-queue lock or on `on_cpu`.

These spins are `cpu_relax()` loops on locks that are always released. Their
steps are only intermittently enabled because other CPUs take the same lock.

- weak fairness of `Schedule(c)` and `Preempt(c)`. With `TIF_NEED_RESCHED` set,
  the idle loop calls `schedule_preempt_disabled()`, and a task reaches an
  interrupt return or `schedule()`.

Nothing is assumed of the timer tick. Whether a tick reschedules the idle
task is decided by `idle_task.c`, which is not under `src/` (in Linux it
never does). So `ReschedTaskRuns` only follows a task from the point where
its CPU has been told to reschedule. A task that `try_to_wake_up()` queued
on an idle CPU may wait forever in this model, and that hazard is listed
without a property. The mutant that skips the fair class in
`pick_next_task()` shows the property is not vacuous.

Nothing is assumed about sleeping or about wakeups being called.
`MemFault.tla` and `Resource.tla` check safety only.

## Not modelled

Not modelled:

- **The VMA tree** (spec component 4). Its code is not under `src/`.
- **`net_send_reply_timeout()`.** Pure I/O.
- **`comp_memory.h`.** Structures and a refcount with no caller.
- **The storage config header.**
- **The run-queue clock** (`update_rq_clock()`, `sched_clock()`). No control
  decision under `src/` reads it.
- **`effective_prio()` and `__sched_fork()`.** The first has no caller, and the
  second only zeroes statistics.
- **`migration_cpu_stop()` and `__migrate_task()`.** They are reached only
  through `stop_one_cpu()`, which panics.

Known hazards that no run checks, each with its reason in `PROJECT.json`:

- **`nr_uninterruptible` drift.** `ttwu_do_activate()` never decrements the
  counter. Nothing under `src/` reads the counter.
- **`select_fallback_rq()` placing a task outside its mask.** With two CPUs a
  mask of more than one CPU is every CPU, so this case cannot arise. It needs
  three CPUs and a violation run of its own.
- **Access bits.** `do_handle_p2m_llc_miss()` never checks the fault flags
  against `vm_flags`. Every VMA in the model is writable.
- **`do_wp_page()` and `stop_one_cpu()`.** Both are documented placeholders
  that halt, and the model reaches them as halting steps.
- **`walk_system_ram_range(0, 0)`.** This call wraps around and walks all of
  RAM.

