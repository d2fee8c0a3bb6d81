---------------------------- MODULE TaskLifecycle ----------------------------
(***************************************************************************)
(* What the scheduler core promises about each task, with run queues,      *)
(* locks and the context-switch hand-off left out.  A task is new,         *)
(* runnable, running on one CPU, blocked, or dead; a running task may      *)
(* announce that it is going to sleep.                                     *)
(*   - A new task becomes runnable only when it is started.                *)
(*   - A CPU switches from what it runs to a runnable task or to idle; the *)
(*     task switched away from stays runnable, or blocks if it announced a *)
(*     sleep.                                                              *)
(*   - A blocked task becomes runnable only by a wakeup, and a wakeup      *)
(*     cancels a pending sleep.                                            *)
(*   - A running task that has not announced a sleep may exit; dead is     *)
(*     final.                                                              *)
(***************************************************************************)
CONSTANTS CPUs, Tasks, IDLE

VARIABLES
    status,     \* status[t]
    run,        \* run[c]: the task CPU c runs, or IDLE
    sleeping    \* running or preempted tasks that announced a sleep

vars == <<status, run, sleeping>>

Statuses == {"new", "runnable", "running", "blocked", "dead"}

Init ==
    /\ status = [t \in Tasks |-> "new"]
    /\ run = [c \in CPUs |-> IDLE]
    /\ sleeping = {}

Start(t) ==
    /\ status[t] = "new"
    /\ status' = [status EXCEPT ![t] = "runnable"]
    /\ UNCHANGED <<run, sleeping>>

Sleep(t) ==
    /\ status[t] = "running"
    /\ t \notin sleeping
    /\ sleeping' = sleeping \cup {t}
    /\ UNCHANGED <<status, run>>

Wake(t) ==
    /\ t \in sleeping
    /\ sleeping' = sleeping \ {t}
    /\ status' = IF status[t] = "blocked" THEN [status EXCEPT ![t] = "runnable"] ELSE status
    /\ UNCHANGED run

\* CPU c gives up its task p (if any) for n; p's next status is one of after.
SwitchTo(c, n, after) ==
    LET p == run[c] IN
    /\ n # p
    /\ n = IDLE \/ status[n] = "runnable"
    /\ run' = [run EXCEPT ![c] = n]
    /\ \E s \in IF p = IDLE THEN {"running"} ELSE after :
          status' = [x \in Tasks |-> CASE x = n -> "running"
                                       [] x = p -> s
                                       [] OTHER -> status[x]]

Switch(c, n) ==
    /\ SwitchTo(c, n, IF run[c] \in sleeping THEN {"runnable", "blocked"} ELSE {"runnable"})
    /\ UNCHANGED sleeping

Exit(c, n) ==
    /\ run[c] # IDLE
    /\ run[c] \notin sleeping
    /\ SwitchTo(c, n, {"dead"})
    /\ UNCHANGED sleeping

Next ==
    \/ \E t \in Tasks : Start(t) \/ Sleep(t) \/ Wake(t)
    \/ \E c \in CPUs, n \in Tasks \cup {IDLE} : Switch(c, n) \/ Exit(c, n)

Spec == Init /\ [][Next]_vars

====
