------------------------------ MODULE SchedFork ------------------------------
(***************************************************************************)
(* Fork-time priority and class selection of src/kernel/sched/core.c:     *)
(* setup_sched_fork() with normal_prio()/__normal_prio() and               *)
(* set_load_weight(), as operators on a task's scheduling attributes.      *)
(* A task is a record [policy, static_prio, rt_priority, normal_prio,      *)
(* prio, reset_on_fork, weight]; the child starts as a copy of its parent  *)
(* (dup_task_struct()).  The priority macros of <lego/sched/prio.h> are    *)
(* not under src/ and follow their Linux definitions.                      *)
(***************************************************************************)
EXTENDS Integers

CONSTANTS
    Nices,      \* the nice values of the parents enumerated
    RtPrios     \* the rt_priority values (1..99) of the parents enumerated

VARIABLE child   \* <<>> before the fork, then <<the child setup_sched_fork() made>>

ASSUME Nices \subseteq -20 .. 19 /\ RtPrios \subseteq 1 .. 99

MAX_RT_PRIO == 100
MAX_PRIO == MAX_RT_PRIO + 40
NICE_TO_PRIO(nice) == nice + 120
PRIO_TO_NICE(prio) == prio - 120

Policies == {"SCHED_NORMAL", "SCHED_FIFO", "SCHED_RR", "SCHED_BATCH", "SCHED_IDLE"}
task_has_rt_policy(p) == p.policy \in {"SCHED_FIFO", "SCHED_RR"}
idle_policy(policy) == policy = "SCHED_IDLE"
rt_prio(prio) == prio < MAX_RT_PRIO

\* __normal_prio(): the static priority.
NormalPrioStatic(p) == p.static_prio

\* normal_prio(): MAX_RT_PRIO-1 - rt_priority for an rt policy.
NormalPrio(p) ==
    IF task_has_rt_policy(p) THEN MAX_RT_PRIO - 1 - p.rt_priority ELSE NormalPrioStatic(p)

\* sched_prio_to_weight[] and sched_prio_to_wmult[] (2^32/x), indexed by
\* nice + 20 + 1 (a TLA+ tuple starts at 1).
sched_prio_to_weight ==
    << 88761, 71755, 56483, 46273, 36291, 29154, 23254, 18705, 14949, 11916,
        9548,  7620,  6100,  4904,  3906,  3121,  2501,  1991,  1586,  1277,
        1024,   820,   655,   526,   423,   335,   272,   215,   172,   137,
         110,    87,    70,    56,    45,    36,    29,    23,    18,    15 >>

\* (mutant) The nice-5 inverse with two digits transposed.
sched_prio_to_wmult_typo ==
    <<     48388,     59856,     76040,     92818,    118348,
          147320,    184698,    229616,    287308,    360437,
          449829,    563644,    704093,    875809,   1099582,
         1376151,   1717300,   2157191,   2708050,   3363326,
         4194304,   5237765,   6557202,   8165337,  10153587,
        12820789,  15790321,  19976592,  24970740,  31350126,
        39045157,  49367440,  61356676,  76695844,  95443717,
       119304647, 148102320, 186737708, 238609294, 286331153 >>

sched_prio_to_wmult ==
    <<     48388,     59856,     76040,     92818,    118348,
          147320,    184698,    229616,    287308,    360437,
          449829,    563644,    704093,    875809,   1099582,
         1376151,   1717300,   2157191,   2708050,   3363326,
         4194304,   5237765,   6557202,   8165337,  10153587,
        12820798,  15790321,  19976592,  24970740,  31350126,
        39045157,  49367440,  61356676,  76695844,  95443717,
       119304647, 148102320, 186737708, 238609294, 286331153 >>

\* SCHED_IDLE's weight and its inverse (<lego/sched.h>, not under src/,
\* following Linux).
WEIGHT_IDLEPRIO == 3
WMULT_IDLEPRIO == 1431655765

\* set_load_weight(): p->se.load as [weight, inv_weight].
LoadWeight(p) ==
    LET prio == p.static_prio - MAX_RT_PRIO
    IN  IF idle_policy(p.policy)
        THEN [weight |-> WEIGHT_IDLEPRIO, inv_weight |-> WMULT_IDLEPRIO]
        ELSE [weight |-> sched_prio_to_weight[prio + 1],
              inv_weight |-> sched_prio_to_wmult[prio + 1]]

\* Mutation: the sched_reset_on_fork branch leaves p->prio at the parent's
\* normal_prio.
ResetOnFork_keepPrio(p) ==
    LET q == CASE task_has_rt_policy(p) ->
                    [p EXCEPT !.policy = "SCHED_NORMAL", !.static_prio = NICE_TO_PRIO(0),
                              !.rt_priority = 0]
               [] PRIO_TO_NICE(p.static_prio) < 0 -> [p EXCEPT !.static_prio = NICE_TO_PRIO(0)]
               [] OTHER -> p
    IN  [q EXCEPT !.normal_prio = NormalPrioStatic(q), !.reset_on_fork = FALSE]

\* if (unlikely(p->sched_reset_on_fork)): an rt policy reverts to
\* SCHED_NORMAL at nice 0, a negative nice to 0; prio and normal_prio are
\* recomputed and the flag is cleared.
ResetOnFork(p) ==
    LET q == CASE task_has_rt_policy(p) ->
                    [p EXCEPT !.policy = "SCHED_NORMAL", !.static_prio = NICE_TO_PRIO(0),
                              !.rt_priority = 0]
               [] PRIO_TO_NICE(p.static_prio) < 0 -> [p EXCEPT !.static_prio = NICE_TO_PRIO(0)]
               [] OTHER -> p
    IN  [q EXCEPT !.prio = NormalPrioStatic(q), !.normal_prio = NormalPrioStatic(q),
                  !.reset_on_fork = FALSE]

\* setup_sched_fork(): p->prio = current->normal_prio, the reset branch,
\* then the class from p->prio (set_load_weight() for the fair class).
\* Returns the child's attributes with its class and load weight.
SetupSchedFork(parent) ==
    LET p0 == [parent EXCEPT !.prio = parent.normal_prio]
        p1 == IF p0.reset_on_fork THEN ResetOnFork(p0) ELSE p0
    IN  [attrs  |-> p1,
         class  |-> IF rt_prio(p1.prio) THEN "rt" ELSE "fair",
         weight |-> IF p0.reset_on_fork \/ ~rt_prio(p1.prio)
                      THEN LoadWeight(p1) ELSE parent.weight]

\* The attribute records a running parent can have: a valid policy,
\* priority and load weight (set_load_weight() of its own attributes),
\* normal_prio as normal_prio() computes it, and prio either that or a
\* boost to a higher rt priority by priority inheritance.
Unboosted(policy, nice, rtp, reset) ==
    LET p == [policy |-> policy, static_prio |-> NICE_TO_PRIO(nice),
              rt_priority |-> rtp, normal_prio |-> 0, prio |-> 0,
              reset_on_fork |-> reset, weight |-> [weight |-> 0, inv_weight |-> 0]]
    IN  [p EXCEPT !.normal_prio = NormalPrio(p), !.weight = LoadWeight(p)]
RtPriosOf(policy) == IF policy \in {"SCHED_FIFO", "SCHED_RR"} THEN RtPrios ELSE {0}
Boosts(p) == {p.normal_prio} \cup {q \in {MAX_RT_PRIO - 1 - r : r \in RtPrios} : q < p.normal_prio}
ForkParents ==
    LET base == UNION {{Unboosted(pol, n, r, b) : n \in Nices, r \in RtPriosOf(pol), b \in BOOLEAN} :
                         pol \in Policies}
    IN  UNION {{[p EXCEPT !.prio = pr] : pr \in Boosts(p)} : p \in base}

ForkInit == child = <<>>

\* copy_process() -> setup_sched_fork(): one fork by any parent a running
\* task can be.
SetupSchedForkStep ==
    /\ child = <<>>
    /\ \E parent \in ForkParents : child' = <<SetupSchedFork(parent)>>

(***************************************************************************)
(* Properties                                                              *)
(***************************************************************************)

\* setup_sched_fork() never leaks the parent's priority-inheritance boost
\* and, with sched_reset_on_fork, reverts the policy: the child is put in
\* the rt class exactly when its own policy is rt, runs at normal_prio(),
\* carries the load weight of its own attributes, and leaves with the
\* reset flag clear.
ForkClassMatchesPolicy ==
    \A i \in DOMAIN child :
        LET c == child[i]
        IN  /\ (c.class = "rt") <=> task_has_rt_policy(c.attrs)
            /\ c.attrs.prio = NormalPrio(c.attrs)
            /\ c.attrs.normal_prio = NormalPrio(c.attrs)
            /\ c.weight = LoadWeight(c.attrs)
            /\ ~c.attrs.reset_on_fork

\* Reference: 2^32 \div w as [q, r], by long division one bit at a time,
\* so that no intermediate value leaves TLC's 32-bit integers.
RECURSIVE Pow2Div(_, _)
Pow2Div(k, w) ==
    IF k = 0 THEN IF w = 1 THEN [q |-> 1, r |-> 0] ELSE [q |-> 0, r |-> 1]
    ELSE LET d == Pow2Div(k - 1, w)
         IN  IF 2 * d.r >= w THEN [q |-> 2 * d.q + 1, r |-> 2 * d.r - w]
             ELSE [q |-> 2 * d.q, r |-> 2 * d.r]

\* inv_weight is 2^32 / weight rounded down or up.
InverseOK(lw) ==
    LET d == Pow2Div(32, lw.weight)
    IN  lw.inv_weight \in {d.q, d.q + (IF d.r > 0 THEN 1 ELSE 0)}

\* Every [weight, inv_weight] pair set_load_weight() can store: the 40 rows
\* of the two tables and the SCHED_IDLE pair (evaluated once by TLC).
WeightTableInverse ==
    /\ \A n \in DOMAIN sched_prio_to_weight :
          InverseOK([weight |-> sched_prio_to_weight[n], inv_weight |-> sched_prio_to_wmult[n]])
    /\ InverseOK([weight |-> WEIGHT_IDLEPRIO, inv_weight |-> WMULT_IDLEPRIO])

\* The load weight set_load_weight() stores carries the inverse that
\* fair-class accounting multiplies by instead of dividing: at every nice
\* level, for SCHED_IDLE, and for the child setup_sched_fork() made, the
\* hand-written sched_prio_to_wmult[] entry is 2^32 / its
\* sched_prio_to_weight[] entry, rounded down or up.
LoadWeightInverse ==
    /\ WeightTableInverse
    /\ \A i \in DOMAIN child : InverseOK(child[i].weight)

====
