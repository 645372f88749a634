------------------------------- MODULE JobQueue -------------------------------
(***************************************************************************)
(* The BullMQ queue vms-jobs and the server processes that share it: how   *)
(* JobsService schedules the repeatable jobs when a process starts, and    *)
(* how a job that is due reaches a worker.  A process may stop, crash or   *)
(* be refused by Redis at any await; a worker may lose the lock of the job *)
(* it is still running, which the queue then hands out again.              *)
(***************************************************************************)
EXTENDS Tables

CONSTANTS
    Processes,   \* the server processes of a deployment
    MaxFaults    \* bound: stops, crashes, errors and lost locks

JobNames == {"daily-alerts-scan", "offline-detection"}

\* None stands for no job.
ASSUME JobQueueAssumption == MaxFaults \in Nat /\ None \notin JobNames

\* A repeatable job is known by its name and its pattern: an earlier release, or
\* an earlier pattern, leaves one of its own.
OldJob == "job-of-an-earlier-release"

VARIABLES
    repeatables,   \* the repeatable jobs in Redis
    waiting,       \* the jobs in the queue
    worker,        \* worker[p]: the job p's worker is running, or None
    boot,          \* boot[p]: where p's onModuleInit is
    cut,           \* history: jobs that a boot cut short was still to add
    faults         \* history: faults so far

queueVars == <<repeatables, waiting, worker, boot, cut, faults>>

Down == [pc |-> "down", left |-> {}]

QueueTypeOK ==
    /\ repeatables \subseteq JobNames \cup {OldJob}
    /\ waiting \subseteq JobNames
    /\ worker \in [Processes -> JobNames \cup {None}]
    /\ \A p \in Processes :
         /\ boot[p].pc \in {"down", "list", "remove", "offline", "up", "disabled"}
         /\ boot[p].left \subseteq JobNames \cup {OldJob}
    /\ cut \subseteq JobNames
    /\ faults \in 0..MaxFaults

\* Redis holds whatever earlier processes left there.
QueueInit ==
    /\ repeatables \in SUBSET (JobNames \cup {OldJob})
    /\ waiting = {}
    /\ worker = [p \in Processes |-> None]
    /\ boot = [p \in Processes |-> Down]
    /\ cut = {}
    /\ faults = 0

Booting(p) == boot[p].pc \in {"list", "remove", "offline"}

\* What p's scheduleJobs may have removed and is still to add.
ToAdd(p) ==
    CASE boot[p].pc = "remove"  -> JobNames
      [] boot[p].pc = "offline" -> {"offline-detection"}
      [] OTHER                  -> {}

Fault == faults < MaxFaults /\ faults' = faults + 1

----------------------------------------------------------------------------
\* The queue and the worker are made at once: jobs are taken from here on.
Starts(p) ==
    /\ boot[p].pc = "down"
    /\ boot' = [boot EXCEPT ![p].pc = "list"]
    /\ UNCHANGED <<repeatables, waiting, worker, cut, faults>>

GetRepeatableJobs(p) ==
    /\ boot[p].pc = "list"
    /\ boot' = [boot EXCEPT ![p] = [pc |-> "remove", left |-> repeatables]]
    /\ UNCHANGED <<repeatables, waiting, worker, cut, faults>>

\* Mutant: only the jobs it is about to add are removed.
RemoveKnownRepeatable(p) ==
    /\ boot[p].pc = "remove"
    /\ \E k \in boot[p].left :
         /\ repeatables' = repeatables \ ({k} \cap JobNames)
         /\ boot' = [boot EXCEPT ![p].left = @ \ {k}]
    /\ UNCHANGED <<waiting, worker, cut, faults>>

\* A key that another process has removed meanwhile is no error.
RemoveRepeatable(p) ==
    /\ boot[p].pc = "remove"
    /\ \E k \in boot[p].left :
         /\ repeatables' = repeatables \ {k}
         /\ boot' = [boot EXCEPT ![p].left = @ \ {k}]
    /\ UNCHANGED <<waiting, worker, cut, faults>>

AddDaily(p) ==
    /\ boot[p].pc = "remove" /\ boot[p].left = {}
    /\ repeatables' = repeatables \cup {"daily-alerts-scan"}
    /\ boot' = [boot EXCEPT ![p].pc = "offline"]
    /\ cut' = cut \ {"daily-alerts-scan"}
    /\ UNCHANGED <<waiting, worker, faults>>

AddOffline(p) ==
    /\ boot[p].pc = "offline"
    /\ repeatables' = repeatables \cup {"offline-detection"}
    /\ boot' = [boot EXCEPT ![p].pc = "up"]
    /\ cut' = cut \ {"offline-detection"}
    /\ UNCHANGED <<waiting, worker, faults>>

\* An error of scheduleJobs is logged: "background jobs disabled".  The worker,
\* which exists by then, goes on taking jobs.
ScheduleFails(p) ==
    /\ Booting(p) /\ Fault
    /\ boot' = [boot EXCEPT ![p] = [pc |-> "disabled", left |-> {}]]
    /\ cut' = cut \cup ToAdd(p)
    /\ UNCHANGED <<repeatables, waiting, worker>>

\* Mutant: a process that stops takes the schedule with it.
StopsAndUnschedules(p) ==
    /\ boot[p].pc \in {"up", "disabled"} /\ worker[p] = None /\ Fault
    /\ boot' = [boot EXCEPT ![p] = Down]
    /\ repeatables' = {}
    /\ UNCHANGED <<waiting, worker, cut>>

\* worker.close() waits for the job; the repeatable jobs stay in Redis.
Stops(p) ==
    /\ boot[p].pc \in {"up", "disabled"} /\ worker[p] = None /\ Fault
    /\ boot' = [boot EXCEPT ![p] = Down]
    /\ UNCHANGED <<repeatables, waiting, worker, cut>>

\* A job whose process died is stalled, and goes back into the queue.
Crashes(p) ==
    /\ boot[p].pc # "down" /\ Fault
    /\ boot' = [boot EXCEPT ![p] = Down]
    /\ cut' = cut \cup ToAdd(p)
    /\ waiting' = waiting \cup ({worker[p]} \ {None})
    /\ worker' = [worker EXCEPT ![p] = None]
    /\ UNCHANGED repeatables

\* The lock was not renewed in time: the job is handed out again while it runs.
Stalls(p) ==
    /\ worker[p] # None /\ worker[p] \notin waiting /\ Fault
    /\ waiting' = waiting \cup {worker[p]}
    /\ UNCHANGED <<repeatables, worker, boot, cut>>

Due(k) ==
    /\ k \in repeatables \ waiting
    /\ waiting' = waiting \cup {k}
    /\ UNCHANGED <<repeatables, worker, boot, cut, faults>>

\* A worker takes one job at a time.
ProcessJob(p, k) ==
    /\ boot[p].pc # "down" /\ worker[p] = None /\ k \in waiting
    /\ waiting' = waiting \ {k}
    /\ worker' = [worker EXCEPT ![p] = k]
    /\ UNCHANGED <<repeatables, boot, cut, faults>>

\* completed or failed: nothing is retried.
JobEnds(p) ==
    /\ worker' = [worker EXCEPT ![p] = None]
    /\ UNCHANGED <<repeatables, waiting, boot, cut>>

ScheduleStep(p) ==
    Starts(p) \/ GetRepeatableJobs(p) \/ RemoveRepeatable(p) \/ AddDaily(p) \/ AddOffline(p)

----------------------------------------------------------------------------
(***************************************************************************)
(* Properties.                                                             *)
(***************************************************************************)
\* Once some process is up, a job is missing from the schedule only if a process
\* that is starting has it still to add, or one that died or failed half-way had:
\* neither a restart, nor a process that stops or starts beside another, loses it.
ScheduleLostOnlyByHalfBoot ==
    (\E p \in Processes : boot[p].pc = "up")
      => JobNames \subseteq
           repeatables \cup cut \cup UNION {ToAdd(p) : p \in Processes}

\* "Clears existing repeatable jobs (idempotent on restart) then re-schedules": when
\* the processes stop failing, the schedule becomes, for good, exactly the two jobs,
\* whatever was there before, unless a process gave its scheduling up.
ScheduledOrDisabled ==
    <>[](repeatables = JobNames \/ \E p \in Processes : boot[p].pc = "disabled")

=============================================================================
