------------------------------ MODULE MC_Sched ------------------------------
(* Two CPUs with their idle tasks, an rt and a fair forked task. *)
EXTENDS Sched, TLC

CONSTANTS c1, c2, i1, i2, t1, t2, w1, w2, a1

MC_CPUs == {c1, c2}
MC_Tasks == {t1, t2}
MC_Idle == (c1 :> i1) @@ (c2 :> i2)
\* the classes setup_sched_fork() gives t1, forked by a SCHED_FIFO parent,
\* and t2, forked by a SCHED_NORMAL parent boosted to an rt priority
MC_ForkParent ==
    (t1 :> Unboosted("SCHED_FIFO", 0, 10, FALSE))
    @@ (t2 :> [Unboosted("SCHED_NORMAL", 0, 0, FALSE) EXCEPT !.prio = 50])
MC_TaskClass == [t \in MC_Tasks |-> SetupSchedFork(MC_ForkParent[t]).class]
\* one fair task, for the liveness run
MC_OneTask == {t2}
MC_OneTaskClass == (t2 :> MC_TaskClass[t2])
\* the lowest, default and highest nice values of the forking parents
MC_Nices == {-20, 0, 19}
MC_Masks == (SUBSET MC_CPUs) \ {{}}
====
