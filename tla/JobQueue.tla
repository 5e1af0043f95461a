------------------------------ MODULE JobQueue ------------------------------
(***************************************************************************)
(* jobq: runs a list of commands, at most parallel at a time and only when *)
(* memory allows, and reports whether all of them succeeded.  The loop of  *)
(* main polls: each pass looks after every job that was started and then   *)
(* admits at most one.  Jobs, the clock and signals go on in between.      *)
(***************************************************************************)
EXTENDS Naturals, FiniteSets

CONSTANTS
    count,    \* commands on the command line
    parallel  \* -j

VARIABLES
    pc, i,            \* "scan" at job i, "admit" or "return"
    next, finished, active,
    failed, cancelled,
    pid,              \* jobs with pid > 0
    proc,             \* the processes: none, run, stopped, dying, zero or nonzero
    late,             \* jobs whose time is up
    starved           \* the next job has waited too long for admission

loopVars == <<next, finished, active, failed, pid>>
vars == <<pc, i, loopVars, cancelled, proc, late, starved>>

Jobs == 0 .. count - 1
Alive == {"run", "stopped", "dying"}

Init ==
    /\ pc = "scan" /\ i = 0
    /\ next = 0 /\ finished = 0 /\ active = 0
    /\ failed = FALSE /\ cancelled = FALSE
    /\ pid = {}
    /\ proc = [j \in Jobs |-> "none"]
    /\ late = {}
    /\ starved = FALSE

----------------------------------------------------------------------------
\* Jobs, clock and signals.

Exits(j) ==
    /\ proc[j] = "run"
    /\ \E code \in {"zero", "nonzero"} : proc' = [proc EXCEPT ![j] = code]
    /\ UNCHANGED <<pc, i, loopVars, cancelled, late, starved>>

Stops(j) ==
    /\ proc[j] = "run"
    /\ proc' = [proc EXCEPT ![j] = "stopped"]
    /\ UNCHANGED <<pc, i, loopVars, cancelled, late, starved>>

Dies(j) ==
    /\ proc[j] = "dying"
    /\ proc' = [proc EXCEPT ![j] = "nonzero"]
    /\ UNCHANGED <<pc, i, loopVars, cancelled, late, starved>>

TimeIsUp(j) ==
    /\ j \in pid \ late
    /\ late' = late \cup {j}
    /\ UNCHANGED <<pc, i, loopVars, cancelled, proc, starved>>

Starve ==
    /\ pc # "return" /\ next < count /\ ~starved
    /\ starved' = TRUE
    /\ UNCHANGED <<pc, i, loopVars, cancelled, proc, late>>

\* SIGINT or SIGTERM.
stop ==
    /\ pc # "return" /\ ~cancelled
    /\ cancelled' = TRUE
    /\ UNCHANGED <<pc, i, loopVars, proc, late, starved>>

----------------------------------------------------------------------------
\* The loop over the jobs that were started.

Advance == IF i + 1 < next THEN pc' = "scan" /\ i' = i + 1 ELSE pc' = "admit" /\ i' = 0

\* Fault: only a cancelled queue kills its jobs.
Overdue_Cancelled(j) == cancelled

\* Killed at this pass, whatever waitpid reports then.
Overdue(j) == cancelled \/ j \in late

\* Fault: a job that stops counts as finished already.
ScanStopped_Finished ==
    /\ pc = "scan" /\ i \in pid
    /\ proc[i] = "stopped"
    /\ proc' = [proc EXCEPT ![i] = "dying"]
    /\ failed' = TRUE
    /\ finished' = finished + 1
    /\ Advance
    /\ UNCHANGED <<next, active, pid, cancelled, late, starved>>

\* A job that stopped is killed; a later pass collects it.
ScanStopped ==
    /\ pc = "scan" /\ i \in pid
    /\ proc[i] = "stopped"
    /\ proc' = [proc EXCEPT ![i] = "dying"]
    /\ failed' = TRUE
    /\ Advance
    /\ UNCHANGED <<next, finished, active, pid, cancelled, late, starved>>

\* Fault: the exit code is printed and forgotten.
ScanExited_CodeLost ==
    /\ pc = "scan" /\ i \in pid
    /\ proc[i] \in {"zero", "nonzero"}
    /\ pid' = pid \ {i} /\ active' = active - 1 /\ finished' = finished + 1
    /\ starved' = FALSE
    /\ Advance
    /\ UNCHANGED <<next, failed, cancelled, proc, late>>

ScanExited ==
    /\ pc = "scan" /\ i \in pid
    /\ proc[i] \in {"zero", "nonzero"}
    /\ failed' = (failed \/ proc[i] = "nonzero")
    /\ pid' = pid \ {i} /\ active' = active - 1 /\ finished' = finished + 1
    /\ starved' = FALSE
    /\ Advance
    /\ UNCHANGED <<next, cancelled, proc, late>>

\* Nothing to collect yet.
ScanRunning ==
    /\ pc = "scan" /\ i \in pid
    /\ proc[i] \in (IF Overdue(i) THEN Alive ELSE {"run", "dying"})
    /\ proc' = IF Overdue(i) THEN [proc EXCEPT ![i] = "dying"] ELSE proc
    /\ Advance
    /\ UNCHANGED <<loopVars, cancelled, late, starved>>

ScanOther ==
    /\ pc = "scan" /\ i \notin pid
    /\ Advance
    /\ UNCHANGED <<loopVars, cancelled, proc, late, starved>>

----------------------------------------------------------------------------
\* Admission, and the end of the pass.

\* Fault: the loop ends when the last job has been started.
Loop_AllStarted(n) == IF next < count THEN pc' = "scan" /\ i' = 0 ELSE pc' = "return" /\ i' = 0

Loop(n) == IF n < count THEN pc' = "scan" /\ i' = 0 ELSE pc' = "return" /\ i' = 0

\* The jobs not started count as finished.
Cancel ==
    /\ pc = "admit" /\ cancelled /\ next < count
    /\ finished' = finished + (count - next)
    /\ next' = count /\ failed' = TRUE
    /\ Loop(finished')
    /\ UNCHANGED <<active, pid, cancelled, proc, late, starved>>

Admissible == pc = "admit" /\ next < count /\ active < parallel

\* Memory allows it and posix_spawnp succeeds.  stop may come at any time
\* after the test above: a job is then started all the same.
Spawn ==
    /\ Admissible
    /\ proc' = [proc EXCEPT ![next] = "run"]
    /\ pid' = pid \cup {next}
    /\ active' = active + 1 /\ next' = next + 1
    /\ starved' = FALSE
    /\ Loop(finished)
    /\ UNCHANGED <<finished, failed, cancelled, late>>

\* The admission timeout, at the end of a pass with n jobs dealt with: the
\* job after them is dropped.
Timeout(n) ==
    IF starved /\ n < count
    THEN /\ next' = n + 1 /\ finished' = finished + (n - next) + 1
         /\ failed' = TRUE /\ starved' = FALSE
    ELSE /\ next' = n /\ finished' = finished + (n - next)
         /\ failed' = (failed \/ n # next) /\ UNCHANGED starved

\* The command cannot be executed, or there is no memory for it: in the first
\* case the job is done with, and the clock runs on for the one behind it.
NotSpawned ==
    /\ Admissible
    /\ \E n \in {next, next + 1} : Timeout(n)
    /\ Loop(finished')
    /\ UNCHANGED <<active, pid, cancelled, proc, late>>

\* All workers are busy or all jobs are started.
NoAdmission ==
    /\ pc = "admit" /\ ~Admissible
    /\ ~(cancelled /\ next < count)
    /\ Loop(finished)
    /\ UNCHANGED <<loopVars, cancelled, proc, late, starved>>

scan == ScanStopped \/ ScanExited \/ ScanRunning \/ ScanOther
main == scan \/ Cancel \/ Spawn \/ NotSpawned \/ NoAdmission

Next ==
    \/ \E j \in Jobs : Exits(j) \/ Stops(j) \/ Dies(j) \/ TimeIsUp(j)
    \/ Starve \/ stop
    \/ main

\* The loop polls, time passes, and a process killed by SIGKILL dies.
Fairness ==
    /\ WF_vars(main)
    /\ WF_vars(Starve)
    /\ \A j \in Jobs : WF_vars(TimeIsUp(j)) /\ WF_vars(Dies(j))

Spec == Init /\ [][Next]_vars /\ Fairness

----------------------------------------------------------------------------
\* The counters agree with the jobs at every point of the loop: each job is
\* waiting, running or finished, and counted as finished once, whether it
\* exited, was killed, stopped, could not be started or was cancelled.
JobsAccounted ==
    /\ active = Cardinality(pid)
    /\ finished + active + (count - next) = count
    /\ active <= parallel

\* jobq never returns while a job of its is left, running or not collected.
NoJobLeft == pc = "return" => pid = {} /\ \A j \in Jobs : proc[j] \notin Alive

\* The exit status 0 means that every command ran and succeeded.
ZeroMeansAllRan ==
    pc = "return" /\ ~failed /\ ~cancelled => \A j \in Jobs : proc[j] = "zero"

\* However its jobs behave, hang, stop or never get the memory, jobq returns.
QueueEnds == <>(pc = "return")
=============================================================================
