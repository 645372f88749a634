--------------------------- MODULE MonitoringProofs ---------------------------
(***************************************************************************)
(* Proofs about locations, the schedule and the offline detection.         *)
(*                                                                         *)
(* TrackingInv relates a request between two awaits to the rows that were  *)
(* inserted since it began, which are in lmissed; QueueInv says which job  *)
(* a process that is starting still answers for; DetectionInv what a run   *)
(* knows of the alerts that others may have created beside it.             *)
(***************************************************************************)
EXTENDS Monitoring, TLAPS

TrackingTypeInv ==
    /\ TrackingTypeOK
    /\ cache = [v \in Tracked |-> cache[v]]
    /\ lreq = [r \in TrackingRequests |-> lreq[r]]

\* The key of the limit outlives the limit: it was set, if Redis took it, when the
\* request was admitted.
KeySet(r) ==
    LET q == lreq[r] IN
    q.pc \in {"lookup", "insert"} /\ q.blind = FALSE
      => rateKey[q.vehicle] >= q.admitted + RateLimitTTL

\* When r was or will be admitted, at the earliest.
AdmittedFrom(r) == IF lreq[r].pc = "set" THEN second ELSE lreq[r].admitted

\* r found no key, so it is past the limit of every row that it has not missed.
RateHeld(r) ==
    LET q == lreq[r] IN
    q.pc \in {"set", "lookup", "insert"} /\ q.blind = FALSE
      => \A a \in DOMAIN gps \ unlimited :
           gps[a].vehicle = q.vehicle
             => a \in lmissed[r] \/ AdmittedFrom(r) >= gps[a].admitted + RateLimitTTL

\* Newer rows than its own are rows that r has missed, or that have missed it.
TimeHeld(r) ==
    LET q == lreq[r] IN
    /\ q.pc = "insert" =>
         \A k \in DOMAIN gps : k \in lmissed[r] \/ gps[k].timestamp <= q.timestamp
    /\ q.pc = "cache" =>
         \A k \in DOMAIN gps : Newer(k, q.row) => Together(k, q.row)

LocationRequestOK(r) ==
    LET q == lreq[r] IN
    /\ q.admitted <= second /\ q.timestamp <= second
    /\ q.pc # "cache" => q.row = None
    /\ q.pc = "cache" => q.row \in LocationsOf(q.vehicle)
    /\ KeySet(r)
    /\ RateHeld(r)
    /\ TimeHeld(r)

\* Rows are of the past, and their limits' keys are set.
RowsPast ==
    \A a \in DOMAIN gps :
        /\ gps[a].admitted <= second /\ gps[a].timestamp <= second
        /\ a \notin unlimited => rateKey[gps[a].vehicle] >= gps[a].admitted + RateLimitTTL

KeysBounded == \A v \in Tracked : rateKey[v] <= second + RateLimitTTL

\* What LatestIsNewest says, of the cached row whether or not Redis answers.
CacheHeld ==
    \A v \in Tracked :
        cache[v] # None =>
          /\ cache[v].row \in LocationsOf(v)
          /\ \A k \in LocationsOf(v) :
               Newer(k, cache[v].row)
                 => \/ \E r \in TrackingRequests : lreq[r].row = k
                    \/ k \in uncached
                    \/ Together(k, cache[v].row)

ShownExists == \A v \in Tracked : shown[v] # None => shown[v] \in LocationsOf(v)

TrackingInv ==
    /\ TrackingTypeInv
    /\ RowsPast
    /\ KeysBounded
    /\ RateBrokenOnlyByRace
    /\ CacheHeld
    /\ ShownExists
    /\ \A r \in TrackingRequests : LocationRequestOK(r)

\* A job that no process that is starting has still to add, and that no boot cut
\* short, is scheduled from the moment some process has added it.
Covered(k) ==
    \/ k \in repeatables \cup cut
    \/ \E p \in Processes : k \in ToAdd(p)

BootRecord ==
    [pc : {"down", "list", "remove", "offline", "up", "disabled"},
     left : SUBSET (JobNames \cup {OldJob})]

QueueInv ==
    /\ QueueTypeOK
    /\ boot \in [Processes -> BootRecord]
    /\ (\E p \in Processes : boot[p].pc \in {"offline", "up"}) => Covered("daily-alerts-scan")
    /\ (\E p \in Processes : boot[p].pc = "up") => Covered("offline-detection")

\* A run and an alert have a vehicle's present registration number, unless it was
\* changed.
Current(x) == x.vehicle \in renamed \/ x.number = number[x.vehicle]

\* A run found no recent alert that mentions a vehicle it is about to alert to; one
\* there is by now was created beside it.
DetectionInv ==
    /\ JobsTypeOK
    /\ run = [p \in Processes |-> run[p]]
    /\ \A y \in offline : Current(y)
    /\ \A p \in Processes :
         run[p].job = "offline-detection" =>
           /\ \A x \in run[p].left \cup run[p].found : Current(x)
           /\ run[p].at # None => Current(run[p].at)
           /\ \A x \in run[p].found, y \in offline :
                Mentions(y, x.number) => y \in beside[p]

MonitoringInv == TrackingInv /\ QueueInv /\ DetectionInv

----------------------------------------------------------------------------
(***************************************************************************)
(* The schedule                                                            *)
(***************************************************************************)

\* No process is up at first, so nothing is promised of what Redis holds.
LEMMA QueueInvInit ==
    ASSUME QueueInit
    PROVE  QueueInv
<1>1. Down \in BootRecord /\ Down.pc = "down" /\ Down.left = {}
  BY DEF Down, BootRecord
<1>2. boot = [p \in Processes |-> Down]
  BY DEF QueueInit
<1>3. boot \in [Processes -> BootRecord] /\ \A p \in Processes : boot[p] = Down
  BY <1>1, <1>2
<1>4. QueueTypeOK
  BY <1>1, <1>3, JobQueueAssumption DEF QueueInit, QueueTypeOK
<1> QED
  BY <1>1, <1>3, <1>4 DEF QueueInv

\* What one process's boot leaves to the others.
LEMMA BootOf ==
    ASSUME QueueInv, NEW p \in Processes, NEW b \in BootRecord,
           boot' = [boot EXCEPT ![p] = b]
    PROVE  /\ boot' \in [Processes -> BootRecord]
           /\ boot'[p] = b
           /\ \A x \in Processes \ {p} : boot'[x] = boot[x] /\ ToAdd(x)' = ToAdd(x)
BY DEF QueueInv, ToAdd

\* The invariant's types, from those of the fields a step writes.
LEMMA QueueTypes ==
    ASSUME boot' \in [Processes -> BootRecord],
           repeatables' \subseteq JobNames \cup {OldJob},
           waiting' \subseteq JobNames,
           worker' \in [Processes -> JobNames \cup {None}],
           cut' \subseteq JobNames,
           faults' \in 0..MaxFaults
    PROVE  QueueTypeOK'
BY DEF QueueTypeOK, BootRecord

\* A step keeps the promise if it loses no job that is answered for, and if a
\* process that gets further in its boot has added its job.
LEMMA CoverageKept ==
    ASSUME QueueInv, QueueTypeOK', boot' \in [Processes -> BootRecord],
           \A k \in JobNames : Covered(k) => Covered(k)',
           \A x \in Processes : boot'[x].pc \in {"offline", "up"} =>
               boot[x].pc \in {"offline", "up"} \/ Covered("daily-alerts-scan")',
           \A x \in Processes : boot'[x].pc = "up" =>
               boot[x].pc = "up" \/ Covered("offline-detection")'
    PROVE  QueueInv'
<1>1. "daily-alerts-scan" \in JobNames /\ "offline-detection" \in JobNames
  BY DEF JobNames
<1> QED
  BY <1>1 DEF QueueInv

\* A process that begins to boot answers for more, never for less.
LEMMA ScheduleStepInv ==
    ASSUME QueueInv, NEW p \in Processes, ScheduleStep(p)
    PROVE  QueueInv'
<1>1. boot[p] \in BootRecord /\ boot = [x \in Processes |-> boot[x]]
  BY DEF QueueInv
<1>2. UNCHANGED <<waiting, worker, faults>>
  BY DEF ScheduleStep, Starts, GetRepeatableJobs, RemoveRepeatable, AddDaily, AddOffline
<1>3. /\ repeatables \subseteq JobNames \cup {OldJob} /\ waiting' \subseteq JobNames
      /\ worker' \in [Processes -> JobNames \cup {None}]
      /\ cut \subseteq JobNames /\ faults' \in 0..MaxFaults
  BY <1>2 DEF QueueInv, QueueTypeOK
<1>4. CASE Starts(p)
  <2> DEFINE b == [pc |-> "list", left |-> boot[p].left]
  <2>1. b \in BootRecord /\ b.pc = "list"
    BY <1>1 DEF BootRecord
  <2>2. boot' = [boot EXCEPT ![p] = b] /\ UNCHANGED <<repeatables, cut>>
    <3>1. b = [boot[p] EXCEPT !.pc = "list"]
      BY <1>1 DEF BootRecord
    <3>2. boot' = [boot EXCEPT ![p] = [boot[p] EXCEPT !.pc = "list"]]
      BY <1>4 DEF Starts
    <3> QED
      BY <1>4, <3>1, <3>2 DEF Starts
  <2> HIDE DEF b
  <2>3. /\ boot' \in [Processes -> BootRecord] /\ boot'[p] = b
        /\ \A x \in Processes \ {p} : boot'[x] = boot[x] /\ ToAdd(x)' = ToAdd(x)
    BY <2>1, <2>2, BootOf
  <2>4. ToAdd(p) = {}
    BY <1>4 DEF Starts, ToAdd
  <2>5. \A k \in JobNames : Covered(k) => Covered(k)'
    BY <2>2, <2>3, <2>4 DEF Covered
  <2> QED
    BY <1>3, <2>1, <2>2, <2>3, <2>5, QueueTypes, CoverageKept
<1>5. CASE GetRepeatableJobs(p)
  <2> DEFINE b == [pc |-> "remove", left |-> repeatables]
  <2>1. b \in BootRecord /\ b.pc = "remove"
    BY <1>3 DEF BootRecord
  <2>2. boot' = [boot EXCEPT ![p] = b] /\ UNCHANGED <<repeatables, cut>>
    BY <1>5 DEF GetRepeatableJobs
  <2> HIDE DEF b
  <2>3. /\ boot' \in [Processes -> BootRecord] /\ boot'[p] = b
        /\ \A x \in Processes \ {p} : boot'[x] = boot[x] /\ ToAdd(x)' = ToAdd(x)
    BY <2>1, <2>2, BootOf
  <2>4. ToAdd(p) = {}
    BY <1>5 DEF GetRepeatableJobs, ToAdd
  <2>5. \A k \in JobNames : Covered(k) => Covered(k)'
    BY <2>2, <2>3, <2>4 DEF Covered
  <2> QED
    BY <1>3, <2>1, <2>2, <2>3, <2>5, QueueTypes, CoverageKept
<1>6. CASE RemoveRepeatable(p)
  <2>1. PICK k \in boot[p].left :
          /\ repeatables' = repeatables \ {k}
          /\ boot' = [boot EXCEPT ![p].left = @ \ {k}]
    BY <1>6 DEF RemoveRepeatable
  <2> DEFINE b == [pc |-> "remove", left |-> boot[p].left \ {k}]
  <2>2. b \in BootRecord /\ b.pc = "remove"
    BY <1>1 DEF BootRecord
  <2>3. boot' = [boot EXCEPT ![p] = b] /\ cut' = cut
    BY <1>1, <1>6, <2>1 DEF RemoveRepeatable, BootRecord
  <2> HIDE DEF b
  <2>4. /\ boot' \in [Processes -> BootRecord] /\ boot'[p] = b
        /\ \A x \in Processes \ {p} : boot'[x] = boot[x] /\ ToAdd(x)' = ToAdd(x)
    BY <2>2, <2>3, BootOf
  <2>5. ToAdd(p)' = JobNames
    BY <2>2, <2>4 DEF ToAdd
  <2>6. \A j \in JobNames : Covered(j)'
    BY <2>5 DEF Covered
  <2>7. QueueTypeOK'
    BY <1>3, <2>1, <2>3, <2>4, QueueTypes
  <2> QED
    BY <2>2, <2>4, <2>6, <2>7, CoverageKept DEF JobNames
<1>7. CASE AddDaily(p)
  <2> DEFINE b == [pc |-> "offline", left |-> boot[p].left]
  <2>1. b \in BootRecord /\ b.pc = "offline"
    BY <1>1 DEF BootRecord
  <2>2. /\ boot' = [boot EXCEPT ![p] = b]
        /\ repeatables' = repeatables \cup {"daily-alerts-scan"}
        /\ cut' = cut \ {"daily-alerts-scan"}
    <3>1. b = [boot[p] EXCEPT !.pc = "offline"]
      BY <1>1 DEF BootRecord
    <3>2. boot' = [boot EXCEPT ![p] = [boot[p] EXCEPT !.pc = "offline"]]
      BY <1>7 DEF AddDaily
    <3> QED
      BY <1>7, <3>1, <3>2 DEF AddDaily
  <2> HIDE DEF b
  <2>3. /\ boot' \in [Processes -> BootRecord] /\ boot'[p] = b
        /\ \A x \in Processes \ {p} : boot'[x] = boot[x] /\ ToAdd(x)' = ToAdd(x)
    BY <2>1, <2>2, BootOf
  <2>4. ToAdd(p)' = {"offline-detection"}
    BY <2>1, <2>3 DEF ToAdd
  <2>5. Covered("daily-alerts-scan")' /\ Covered("offline-detection")'
    BY <2>2, <2>4 DEF Covered
  <2>6. QueueTypeOK'
    BY <1>3, <2>2, <2>3, QueueTypes DEF JobNames
  <2> QED
    BY <2>3, <2>5, <2>6, CoverageKept DEF JobNames
<1>8. CASE AddOffline(p)
  <2> DEFINE b == [pc |-> "up", left |-> boot[p].left]
  <2>1. b \in BootRecord /\ b.pc = "up"
    BY <1>1 DEF BootRecord
  <2>2. /\ boot' = [boot EXCEPT ![p] = b] /\ boot[p].pc = "offline"
        /\ repeatables' = repeatables \cup {"offline-detection"}
        /\ cut' = cut \ {"offline-detection"}
    <3>1. b = [boot[p] EXCEPT !.pc = "up"]
      BY <1>1 DEF BootRecord
    <3>2. boot' = [boot EXCEPT ![p] = [boot[p] EXCEPT !.pc = "up"]]
      BY <1>8 DEF AddOffline
    <3> QED
      BY <1>8, <3>1, <3>2 DEF AddOffline
  <2> HIDE DEF b
  <2>3. /\ boot' \in [Processes -> BootRecord] /\ boot'[p] = b
        /\ \A x \in Processes \ {p} : boot'[x] = boot[x] /\ ToAdd(x)' = ToAdd(x)
    BY <2>1, <2>2, BootOf
  <2>4. ToAdd(p) = {"offline-detection"}
    BY <2>2 DEF ToAdd
  <2>5. Covered("offline-detection")'
    BY <2>2 DEF Covered
  <2>6. Covered("daily-alerts-scan")
    BY <2>2 DEF QueueInv
  <2>7. Covered("daily-alerts-scan")'
    BY <2>2, <2>3, <2>4, <2>6 DEF Covered
  <2>8. QueueTypeOK'
    BY <1>3, <2>2, <2>3, QueueTypes DEF JobNames
  <2> QED
    BY <2>3, <2>5, <2>7, <2>8, CoverageKept DEF JobNames
<1> QED
  BY <1>4, <1>5, <1>6, <1>7, <1>8 DEF ScheduleStep

\* What a boot that fails, or a process that crashes, had still to add is cut short.
LEMMA BootEndsInv ==
    ASSUME QueueInv, NEW p \in Processes, NEW b \in BootRecord,
           b.pc \in {"down", "disabled"}, boot' = [boot EXCEPT ![p] = b],
           cut' = cut \cup ToAdd(p), repeatables' = repeatables,
           waiting' \subseteq JobNames, worker' \in [Processes -> JobNames \cup {None}],
           faults' \in 0..MaxFaults
    PROVE  QueueInv'
<1>1. /\ boot' \in [Processes -> BootRecord] /\ boot'[p] = b
      /\ \A x \in Processes \ {p} : boot'[x] = boot[x] /\ ToAdd(x)' = ToAdd(x)
  BY BootOf
<1>2. CASE boot[p].pc = "remove"
  <2>1. ToAdd(p) = JobNames
    BY <1>2 DEF ToAdd
  <2>2. cut' \subseteq JobNames /\ \A k \in JobNames : Covered(k)'
    BY <2>1 DEF QueueInv, QueueTypeOK, Covered
  <2>3. QueueTypeOK'
    BY <1>1, <2>2, QueueTypes DEF QueueInv, QueueTypeOK
  <2> QED
    BY <1>1, <2>2, <2>3, CoverageKept DEF JobNames
<1>3. CASE boot[p].pc # "remove"
  <2>1. ToAdd(p) \subseteq {"offline-detection"}
    BY <1>3 DEF ToAdd
  <2>2. cut' \subseteq JobNames
    BY <2>1 DEF QueueInv, QueueTypeOK, JobNames
  <2>3. \A k \in JobNames : Covered(k) => Covered(k)'
    BY <1>1 DEF Covered
  <2>4. QueueTypeOK'
    BY <1>1, <2>2, QueueTypes DEF QueueInv, QueueTypeOK
  <2> QED
    BY <1>1, <2>3, <2>4, CoverageKept
<1> QED
  BY <1>2, <1>3

\* A job that comes or goes in the queue or at a worker is not the schedule's.
LEMMA QueueMovesInv ==
    ASSUME QueueInv, boot' = boot, cut' = cut, repeatables' = repeatables,
           waiting' \subseteq JobNames, worker' \in [Processes -> JobNames \cup {None}],
           faults' \in 0..MaxFaults
    PROVE  QueueInv'
<1>1. boot' \in [Processes -> BootRecord]
  BY DEF QueueInv
<1>2. QueueTypeOK'
  BY <1>1, QueueTypes DEF QueueInv, QueueTypeOK
<1>3. \A k \in JobNames : Covered(k) => Covered(k)'
  BY DEF Covered, ToAdd
<1> QED
  BY <1>1, <1>2, <1>3, CoverageKept

\* One more fault is within the bound.
LEMMA FaultBound ==
    ASSUME QueueInv, Fault
    PROVE  faults' \in 0..MaxFaults
BY JobQueueAssumption DEF QueueInv, QueueTypeOK, Fault

\* A refused call ends the boot; what it had still to add is lost and recorded.
LEMMA ScheduleFailsInv ==
    ASSUME QueueInv, NEW p \in Processes, ScheduleFails(p)
    PROVE  QueueInv'
<1> DEFINE b == [pc |-> "disabled", left |-> {}]
<1>1. b \in BootRecord /\ b.pc = "disabled"
  BY DEF BootRecord
<1>2. boot' = [boot EXCEPT ![p] = b] /\ cut' = cut \cup ToAdd(p) /\ Fault
  BY DEF ScheduleFails
<1>3. UNCHANGED <<repeatables, waiting, worker>>
  BY DEF ScheduleFails
<1> HIDE DEF b
<1>4. waiting' \subseteq JobNames /\ worker' \in [Processes -> JobNames \cup {None}]
  BY <1>3 DEF QueueInv, QueueTypeOK
<1> QED
  BY <1>1, <1>2, <1>3, <1>4, FaultBound, BootEndsInv

\* A process that stops after its boot leaves the schedule in Redis.
LEMMA StopsInv ==
    ASSUME QueueInv, NEW p \in Processes, Stops(p)
    PROVE  QueueInv'
<1>1. boot' = [boot EXCEPT ![p] = Down] /\ boot[p].pc \in {"up", "disabled"} /\ Fault
  BY DEF Stops
<1>2. UNCHANGED <<repeatables, waiting, worker, cut>>
  BY DEF Stops
<1>3. Down \in BootRecord /\ Down.pc = "down"
  BY DEF Down, BootRecord
<1>4. /\ boot' \in [Processes -> BootRecord] /\ boot'[p] = Down
      /\ \A x \in Processes \ {p} : boot'[x] = boot[x] /\ ToAdd(x)' = ToAdd(x)
  BY <1>1, <1>3, BootOf
<1>5. ToAdd(p) = {}
  BY <1>1 DEF ToAdd
<1>6. \A k \in JobNames : Covered(k) => Covered(k)'
  BY <1>2, <1>4, <1>5 DEF Covered
<1>7. QueueTypeOK'
  BY <1>1, <1>2, <1>4, FaultBound, QueueTypes DEF QueueInv, QueueTypeOK
<1> QED
  BY <1>3, <1>4, <1>6, <1>7, CoverageKept

\* A job that a crash leaves behind goes back into the queue.
LEMMA CrashesInv ==
    ASSUME QueueInv, NEW p \in Processes, Crashes(p)
    PROVE  QueueInv'
<1>1. /\ boot' = [boot EXCEPT ![p] = Down] /\ cut' = cut \cup ToAdd(p)
      /\ repeatables' = repeatables /\ Fault
      /\ waiting' = waiting \cup ({worker[p]} \ {None})
      /\ worker' = [worker EXCEPT ![p] = None]
  BY DEF Crashes
<1>2. Down \in BootRecord /\ Down.pc = "down"
  BY DEF Down, BootRecord
<1>3. waiting \subseteq JobNames /\ worker \in [Processes -> JobNames \cup {None}]
  BY DEF QueueInv, QueueTypeOK
<1>4. waiting' \subseteq JobNames /\ worker' \in [Processes -> JobNames \cup {None}]
  BY <1>1, <1>3
<1> QED
  BY <1>1, <1>2, <1>4, FaultBound, BootEndsInv

\* A lock that expires puts a job back in the queue.
LEMMA StallsInv ==
    ASSUME QueueInv, NEW p \in Processes, Stalls(p)
    PROVE  QueueInv'
<1>1. worker \in [Processes -> JobNames \cup {None}] /\ waiting \subseteq JobNames
  BY DEF QueueInv, QueueTypeOK
<1>2. waiting' \subseteq JobNames /\ Fault /\ UNCHANGED <<repeatables, worker, boot, cut>>
  BY <1>1 DEF Stalls
<1> QED
  BY <1>1, <1>2, FaultBound, QueueMovesInv

\* A worker takes a waiting job.
LEMMA ProcessJobInv ==
    ASSUME QueueInv, NEW p \in Processes, NEW k \in JobNames, ProcessJob(p, k)
    PROVE  QueueInv'
<1>1. /\ worker \in [Processes -> JobNames \cup {None}] /\ waiting \subseteq JobNames
      /\ faults \in 0..MaxFaults
  BY DEF QueueInv, QueueTypeOK
<1>2. /\ waiting' \subseteq JobNames /\ worker' \in [Processes -> JobNames \cup {None}]
      /\ UNCHANGED <<repeatables, boot, cut, faults>>
  BY <1>1 DEF ProcessJob
<1> QED
  BY <1>1, <1>2, QueueMovesInv

\* A scheduled job waits once more.
LEMMA DueInv ==
    ASSUME QueueInv, NEW k \in JobNames, Due(k)
    PROVE  QueueInv'
<1>1. /\ worker \in [Processes -> JobNames \cup {None}] /\ waiting \subseteq JobNames
      /\ faults \in 0..MaxFaults
  BY DEF QueueInv, QueueTypeOK
<1>2. waiting' \subseteq JobNames /\ UNCHANGED <<repeatables, worker, boot, cut, faults>>
  BY <1>1 DEF Due
<1> QED
  BY <1>1, <1>2, QueueMovesInv

\* A worker is free again.
LEMMA JobEndsInv ==
    ASSUME QueueInv, NEW p \in Processes, JobEnds(p), Fault \/ faults' = faults
    PROVE  QueueInv'
<1>1. /\ worker \in [Processes -> JobNames \cup {None}] /\ waiting \subseteq JobNames
      /\ faults \in 0..MaxFaults
  BY DEF QueueInv, QueueTypeOK
<1>2. /\ worker' \in [Processes -> JobNames \cup {None}]
      /\ UNCHANGED <<repeatables, waiting, boot, cut>>
  BY <1>1 DEF JobEnds
<1>3. faults' \in 0..MaxFaults
  BY <1>1, FaultBound
<1> QED
  BY <1>1, <1>2, <1>3, QueueMovesInv

\* A step that leaves the queue alone keeps its invariant.
LEMMA UnchangedQueueInv ==
    ASSUME QueueInv, UNCHANGED queueVars
    PROVE  QueueInv'
<1>1. /\ worker \in [Processes -> JobNames \cup {None}] /\ waiting \subseteq JobNames
      /\ faults \in 0..MaxFaults
  BY DEF QueueInv, QueueTypeOK
<1> QED
  BY <1>1, QueueMovesInv DEF queueVars

----------------------------------------------------------------------------
(***************************************************************************)
(* The jobs                                                                *)
(***************************************************************************)

\* No job runs yet and nobody has been alerted.
LEMMA DetectionInvInit ==
    ASSUME JobsInit, QueueInv
    PROVE  DetectionInv
<1>1. NoRun.job = None /\ None # "offline-detection"
  BY JobQueueAssumption DEF NoRun, JobNames
<1>2. /\ run = [p \in Processes |-> NoRun] /\ \A p \in Processes : run[p] = NoRun
      /\ onTrip = {} /\ active = Tenants /\ expiring = {} /\ told = {}
      /\ renamed = {} /\ offline = {} /\ number \in [TripVehicles -> Numbers]
      /\ beside \in [Processes -> SUBSET Named]
      /\ lastGps \in [TripVehicles -> {"never", "recent", "old"}]
  BY DEF JobsInit
<1>3. JobsTypeOK
  BY <1>1, <1>2 DEF JobsTypeOK, QueueInv
<1> QED
  BY <1>1, <1>2, <1>3 DEF DetectionInv

\* The invariant of the detection, part by part.
RunOK(p) ==
    /\ run[p] \in OfflineRun \cup DailyRun \cup {NoRun}
    /\ run[p].job # None => run[p].job = worker[p]
    /\ run[p].job = "offline-detection" =>
         /\ \A x \in run[p].left \cup run[p].found : Current(x)
         /\ run[p].at # None => Current(run[p].at)
         /\ \A x \in run[p].found, y \in offline :
              Mentions(y, x.number) => y \in beside[p]

WorldOK ==
    /\ onTrip \subseteq TripVehicles /\ renamed \subseteq TripVehicles
    /\ number \in [TripVehicles -> Numbers]
    /\ lastGps \in [TripVehicles -> {"never", "recent", "old"}]
    /\ offline \subseteq Named /\ \A y \in offline : Current(y)
    /\ active \subseteq Tenants /\ expiring \subseteq Tenants /\ told \subseteq Tenants
    /\ beside \in [Processes -> SUBSET Named]

\* The invariant is one of the world and one of each process's run.
LEMMA DetectionParts ==
    ASSUME QueueTypeOK
    PROVE  DetectionInv <=> /\ WorldOK
                            /\ run = [p \in Processes |-> run[p]]
                            /\ \A p \in Processes : RunOK(p)
BY DEF DetectionInv, JobsTypeOK, WorldOK, RunOK

\* The same of the next state.
LEMMA DetectionPartsNext ==
    ASSUME QueueTypeOK', WorldOK', run' = [p \in Processes |-> run'[p]],
           \A p \in Processes : RunOK(p)'
    PROVE  DetectionInv'
BY DEF DetectionInv, JobsTypeOK, WorldOK, RunOK

\* The kinds of run are told apart by their job.
LEMMA RunKinds ==
    /\ None # "offline-detection" /\ None # "daily-alerts-scan"
    /\ NoRun.job = None
    /\ \A q \in OfflineRun : q.job = "offline-detection"
    /\ \A q \in DailyRun : q.job = "daily-alerts-scan"
BY JobQueueAssumption DEF NoRun, JobNames, OfflineRun, DailyRun

\* A step of the queue that gives or takes no job from a worker with a run leaves
\* the runs as they are.
LEMMA QueueOnlyDetection ==
    ASSUME DetectionInv, QueueInv', UNCHANGED monitorVars,
           \A p \in Processes : run[p].job # None => worker'[p] = worker[p]
    PROVE  DetectionInv'
<1>1. /\ onTrip' = onTrip /\ number' = number /\ renamed' = renamed
      /\ lastGps' = lastGps /\ offline' = offline /\ active' = active
      /\ expiring' = expiring /\ told' = told /\ run' = run /\ beside' = beside
  BY DEF monitorVars
<1>2. QueueTypeOK /\ QueueTypeOK'
  BY DEF DetectionInv, JobsTypeOK, QueueInv
<1>3. WorldOK /\ run = [p \in Processes |-> run[p]] /\ \A p \in Processes : RunOK(p)
  BY <1>2, DetectionParts
<1>4. WorldOK'
  BY <1>1, <1>3 DEF WorldOK, Current
<1>5. \A p \in Processes : RunOK(p)'
  BY <1>1, <1>3 DEF RunOK, Current
<1> QED
  BY <1>1, <1>2, <1>3, <1>4, <1>5, DetectionPartsNext

\* One process's run changes, the rest of what the jobs see does not.
LEMMA OneRunChanges ==
    ASSUME DetectionInv, QueueTypeOK', NEW p \in Processes, NEW q, run' = [run EXCEPT ![p] = q],
           \A x \in Processes \ {p} : worker'[x] = worker[x],
           UNCHANGED <<onTrip, number, renamed, lastGps, offline, active, expiring, beside>>,
           told' \subseteq Tenants,
           RunOK(p)'
    PROVE  DetectionInv'
<1>1. QueueTypeOK
  BY DEF DetectionInv, JobsTypeOK
<1>2. WorldOK /\ run = [x \in Processes |-> run[x]] /\ \A x \in Processes : RunOK(x)
  BY <1>1, DetectionParts
<1>3. WorldOK'
  BY <1>2 DEF WorldOK, Current
<1>4. \A x \in Processes \ {p} : run'[x] = run[x]
  BY <1>2
<1>5. \A x \in Processes : RunOK(x)'
  BY <1>2, <1>4 DEF RunOK, Current
<1>6. run' = [x \in Processes |-> run'[x]]
  BY <1>2
<1> QED
  BY <1>3, <1>5, <1>6, DetectionPartsNext

\* A run ends: nothing is left of it.
LEMMA RunEndsDetection ==
    ASSUME DetectionInv, QueueTypeOK', NEW p \in Processes,
           run' = [run EXCEPT ![p] = NoRun], beside' = [beside EXCEPT ![p] = {}],
           \A x \in Processes \ {p} : worker'[x] = worker[x],
           UNCHANGED World
    PROVE  DetectionInv'
<1>1. QueueTypeOK
  BY DEF DetectionInv, JobsTypeOK
<1>2. WorldOK /\ run = [x \in Processes |-> run[x]] /\ \A x \in Processes : RunOK(x)
  BY <1>1, DetectionParts
<1>3. /\ onTrip' = onTrip /\ number' = number /\ renamed' = renamed
      /\ lastGps' = lastGps /\ offline' = offline /\ active' = active
      /\ expiring' = expiring /\ told' = told
  BY DEF World
<1>4. /\ beside' \in [Processes -> SUBSET Named]
      /\ \A x \in Processes \ {p} : beside'[x] = beside[x]
  BY <1>2 DEF WorldOK
<1>5. WorldOK'
  BY <1>2, <1>3, <1>4 DEF WorldOK, Current
<1>6. run'[p] = NoRun /\ \A x \in Processes \ {p} : run'[x] = run[x]
  BY <1>2
<1>7. RunOK(p)'
  BY <1>6, RunKinds DEF RunOK
<1>8. \A x \in Processes \ {p} : RunOK(x)'
  BY <1>2, <1>3, <1>4, <1>6 DEF RunOK, Current
<1>9. run' = [x \in Processes |-> run'[x]]
  BY <1>2
<1> QED
  BY <1>5, <1>7, <1>8, <1>9, DetectionPartsNext

\* A location, which may end a vehicle's silence, adds to what the runs know.
LEMMA VehicleReportsInv ==
    ASSUME QueueInv, DetectionInv, NEW v \in TripVehicles, VehicleReports(v)
    PROVE  QueueInv' /\ DetectionInv'
<1>1. /\ lastGps' = [lastGps EXCEPT ![v] = "recent"]
      /\ run' = [p \in Processes |->
           IF run[p].job = "offline-detection" THEN [run[p] EXCEPT !.alive = @ \cup {v}]
           ELSE run[p]]
      /\ UNCHANGED queueVars
      /\ onTrip' = onTrip /\ number' = number /\ renamed' = renamed /\ offline' = offline
      /\ active' = active
      /\ expiring' = expiring /\ told' = told /\ beside' = beside /\ worker' = worker
  BY DEF VehicleReports, queueVars
<1>2. QueueTypeOK /\ QueueInv' /\ QueueTypeOK'
  BY <1>1, UnchangedQueueInv DEF QueueInv
<1>3. WorldOK /\ run = [x \in Processes |-> run[x]] /\ \A x \in Processes : RunOK(x)
  BY <1>2, DetectionParts
<1>4. WorldOK'
  BY <1>1, <1>3 DEF WorldOK, Current
<1>5. ASSUME NEW p \in Processes
      PROVE  RunOK(p)'
  <2>1. CASE run[p].job = "offline-detection"
    <3>1. run'[p] = [run[p] EXCEPT !.alive = @ \cup {v}] /\ run[p] \in OfflineRun
      BY <1>1, <1>3, <2>1, RunKinds DEF RunOK
    <3>2. run'[p] \in OfflineRun /\ run'[p].job = run[p].job /\ run'[p].found = run[p].found
      BY <3>1 DEF OfflineRun
    <3> QED
      BY <1>1, <1>3, <3>2 DEF RunOK, Current
  <2>2. CASE run[p].job # "offline-detection"
    <3>1. run'[p] = run[p]
      BY <1>1, <2>2
    <3> QED
      BY <1>1, <1>3, <2>2, <3>1 DEF RunOK
  <2> QED
    BY <2>1, <2>2
<1>6. run' = [x \in Processes |-> run'[x]]
  BY <1>1
<1> QED
  BY <1>2, <1>4, <1>5, <1>6, DetectionPartsNext

\* What else changes in the world leaves the runs as they are, and adds no alert.
LEMMA WorldOnlyDetection ==
    ASSUME QueueInv, DetectionInv, UNCHANGED <<queueVars, number, renamed, run, beside>>,
           onTrip' \subseteq TripVehicles,
           lastGps' \in [TripVehicles -> {"never", "recent", "old"}],
           offline' \subseteq offline,
           active' \subseteq Tenants, expiring' \subseteq Tenants, told' \subseteq Tenants
    PROVE  QueueInv' /\ DetectionInv'
<1>1. QueueTypeOK /\ QueueInv' /\ QueueTypeOK' /\ worker' = worker
  BY UnchangedQueueInv DEF QueueInv, queueVars
<1>2. WorldOK /\ run = [x \in Processes |-> run[x]] /\ \A x \in Processes : RunOK(x)
  BY <1>1, DetectionParts
<1>3. WorldOK'
  BY <1>2 DEF WorldOK, Current
<1>4. \A p \in Processes : RunOK(p)'
  BY <1>1, <1>2 DEF RunOK, Current
<1> QED
  BY <1>1, <1>2, <1>3, <1>4, DetectionPartsNext

\* A change of a registration number: what holds the old one is of a renamed vehicle.
LEMMA VehicleRenamedInv ==
    ASSUME QueueInv, DetectionInv, NEW v \in TripVehicles, VehicleRenamed(v)
    PROVE  QueueInv' /\ DetectionInv'
<1>1. PICK n \in Numbers : number' = [number EXCEPT ![v] = n]
  BY DEF VehicleRenamed
<1>2. /\ renamed' = renamed \cup {v} /\ UNCHANGED queueVars /\ worker' = worker
      /\ UNCHANGED <<onTrip, lastGps, offline, active, expiring, told, run, beside>>
  BY DEF VehicleRenamed, queueVars
<1>3. QueueTypeOK /\ QueueInv' /\ QueueTypeOK'
  BY <1>2, UnchangedQueueInv DEF QueueInv
<1>4. WorldOK /\ run = [x \in Processes |-> run[x]] /\ \A x \in Processes : RunOK(x)
  BY <1>3, DetectionParts
<1>5. number \in [TripVehicles -> Numbers]
  BY <1>4 DEF WorldOK
<1>6. ASSUME NEW x \in Named, Current(x)
      PROVE  Current(x)'
  <2>1. x.vehicle \in TripVehicles
    BY DEF Named
  <2>2. CASE x.vehicle = v
    BY <1>2, <2>2 DEF Current
  <2>3. CASE x.vehicle # v
    BY <1>1, <1>2, <1>5, <1>6, <2>1, <2>3 DEF Current
  <2> QED
    BY <2>2, <2>3
<1>7. number' \in [TripVehicles -> Numbers]
  BY <1>1, <1>5
<1>8. WorldOK'
  BY <1>2, <1>4, <1>6, <1>7 DEF WorldOK
<1>9. ASSUME NEW p \in Processes
      PROVE  RunOK(p)'
  <2>1. CASE run[p].job = "offline-detection"
    <3>1. run[p] \in OfflineRun
      BY <1>4, <2>1, RunKinds DEF RunOK
    <3>2. /\ run[p].left \subseteq Named /\ run[p].found \subseteq Named
          /\ run[p].at # None => run[p].at \in Named
      BY <3>1 DEF OfflineRun
    <3>3. /\ \A x \in run[p].left \cup run[p].found : Current(x)'
          /\ run[p].at # None => Current(run[p].at)'
      BY <1>2, <1>4, <1>6, <2>1, <3>2 DEF RunOK, Current
    <3> QED
      BY <1>2, <1>4, <2>1, <3>3 DEF RunOK
  <2>2. CASE run[p].job # "offline-detection"
    BY <1>2, <1>4, <2>2 DEF RunOK
  <2> QED
    BY <2>1, <2>2
<1> QED
  BY <1>2, <1>3, <1>4, <1>8, <1>9, DetectionPartsNext

\* What happens outside of the jobs: none of it creates an alert of an offline
\* vehicle.
LEMMA WorldChangesInv ==
    ASSUME QueueInv, DetectionInv, WorldChanges
    PROVE  QueueInv' /\ DetectionInv'
<1>1. /\ onTrip \subseteq TripVehicles
      /\ lastGps \in [TripVehicles -> {"never", "recent", "old"}]
      /\ active \subseteq Tenants /\ expiring \subseteq Tenants /\ told \subseteq Tenants
  BY DEF DetectionInv, JobsTypeOK
<1>2. CASE TripsChange
  BY <1>1, <1>2, WorldOnlyDetection DEF TripsChange
<1>3. CASE TenantsChange
  BY <1>1, <1>3, WorldOnlyDetection DEF TenantsChange
<1>4. CASE ExpiryChanges
  BY <1>1, <1>4, WorldOnlyDetection DEF ExpiryChanges
<1>5. CASE ScanByHand
  BY <1>1, <1>5, WorldOnlyDetection DEF ScanByHand
<1>6. CASE \E v \in TripVehicles : VehicleReports(v)
  BY <1>6, VehicleReportsInv
<1>7. CASE \E v \in TripVehicles : LocationAges(v)
  BY <1>1, <1>7, WorldOnlyDetection DEF LocationAges
<1>8. CASE \E v \in TripVehicles : AlertSettled(v)
  <2>1. offline' \subseteq offline
    BY <1>8 DEF AlertSettled
  <2> QED
    BY <1>1, <1>8, <2>1, WorldOnlyDetection DEF AlertSettled
<1>9. CASE \E v \in TripVehicles : VehicleRenamed(v)
  BY <1>9, VehicleRenamedInv
<1> QED
  BY <1>2, <1>3, <1>4, <1>5, <1>6, <1>7, <1>8, <1>9 DEF WorldChanges

\* What holds before a step of a run.
LEMMA RunBefore ==
    ASSUME QueueInv, DetectionInv
    PROVE  /\ QueueTypeOK /\ WorldOK
           /\ run = [x \in Processes |-> run[x]]
           /\ \A x \in Processes : RunOK(x)
<1>1. QueueTypeOK
  BY DEF QueueInv
<1> QED
  BY <1>1, DetectionParts

\* A run that begins has found nothing yet.
LEMMA FindOnTripInv ==
    ASSUME QueueInv, DetectionInv, NEW p \in Processes, FindOnTrip(p)
    PROVE  QueueInv' /\ DetectionInv'
<1>1. QueueTypeOK /\ WorldOK
  BY RunBefore
<1>2. /\ UNCHANGED <<onTrip, number, renamed, lastGps, offline, active, expiring, told, beside>>
      /\ run[p] = NoRun /\ worker[p] = "offline-detection"
  BY DEF FindOnTrip, World
<1>3. CASE onTrip = {}
  <2>1. JobEnds(p) /\ UNCHANGED <<run, faults>>
    BY <1>3 DEF FindOnTrip
  <2>2. QueueInv'
    BY <2>1, JobEndsInv
  <2>3. \A x \in Processes \ {p} : worker'[x] = worker[x]
    BY <1>1, <2>1 DEF JobEnds, QueueTypeOK
  <2> QED
    BY <1>2, <2>1, <2>2, <2>3, RunKinds, QueueOnlyDetection DEF monitorVars
<1>4. CASE onTrip # {}
  <2> DEFINE left == {[vehicle |-> v, number |-> number[v]] : v \in onTrip}
             q == [job |-> "offline-detection", at |-> None, left |-> left,
                   alive |-> {v \in TripVehicles : lastGps[v] = "recent"}, found |-> {}]
  <2>1. run' = [run EXCEPT ![p] = q] /\ UNCHANGED queueVars
    BY <1>4 DEF FindOnTrip
  <2>2. QueueInv' /\ worker' = worker /\ QueueTypeOK'
    BY <2>1, UnchangedQueueInv DEF queueVars, QueueInv
  <2>3. left \subseteq Named /\ \A x \in left : Current(x)
    BY <1>1 DEF WorldOK, Named, Current
  <2> HIDE DEF left
  <2>4. q \in OfflineRun /\ q.job = "offline-detection" /\ q.found = {} /\ q.left = left
        /\ q.at = None
    BY <2>3 DEF OfflineRun
  <2> HIDE DEF q
  <2>5. run'[p] = q
    BY <2>1, RunBefore
  <2>6. RunOK(p)'
    BY <1>2, <2>2, <2>3, <2>4, <2>5 DEF RunOK, Current
  <2>7. told' \subseteq Tenants
    BY <1>1, <1>2 DEF WorldOK
  <2> QED
    BY <1>2, <2>1, <2>2, <2>6, <2>7, OneRunChanges
<1> QED
  BY <1>3, <1>4

\* The query of a vehicle's last location.
LEMMA CheckGpsInv ==
    ASSUME QueueInv, DetectionInv, NEW p \in Processes, CheckGps(p)
    PROVE  QueueInv' /\ DetectionInv'
<1>1. WorldOK /\ RunOK(p)
  BY RunBefore
<1>2. PICK x \in run[p].left :
        run' = [run EXCEPT ![p].left = @ \ {x}, ![p].at = IF IsOffline(p, x) THEN x ELSE None]
  BY DEF CheckGps
<1>3. /\ UNCHANGED queueVars
      /\ UNCHANGED <<onTrip, number, renamed, lastGps, offline, active, expiring, told, beside>>
      /\ run[p].job = "offline-detection"
  BY DEF CheckGps, World
<1>4. run[p] \in OfflineRun
  BY <1>1, <1>3, RunKinds DEF RunOK
<1>5. x \in Named /\ Current(x)
  BY <1>1, <1>2, <1>3, <1>4 DEF OfflineRun, RunOK
<1> DEFINE at == IF IsOffline(p, x) THEN x ELSE None
           q == [run[p] EXCEPT !.left = @ \ {x}, !.at = at]
<1>6. at \in Named \cup {None} /\ (at # None => Current(at))
  BY <1>5
<1>7. run' = [run EXCEPT ![p] = q]
  BY <1>2
<1> HIDE DEF at
<1>8. /\ q \in OfflineRun /\ q.job = run[p].job /\ q.found = run[p].found
      /\ q.left \subseteq run[p].left /\ q.at = at
  BY <1>4, <1>6 DEF OfflineRun
<1> HIDE DEF q
<1>9. QueueInv' /\ worker' = worker /\ QueueTypeOK'
  BY <1>3, UnchangedQueueInv DEF queueVars, QueueInv
<1>10. run'[p] = q
  BY <1>7, RunBefore
<1>11. RunOK(p)'
  BY <1>1, <1>3, <1>6, <1>8, <1>9, <1>10 DEF RunOK, Current
<1>12. told' \subseteq Tenants
  BY <1>1, <1>3 DEF WorldOK
<1> QED
  BY <1>3, <1>7, <1>9, <1>11, <1>12, OneRunChanges

\* A vehicle that is found is mentioned by no recent unread alert.
LEMMA CheckDuplicateInv ==
    ASSUME QueueInv, DetectionInv, NEW p \in Processes, CheckDuplicate(p)
    PROVE  QueueInv' /\ DetectionInv'
<1>1. WorldOK /\ RunOK(p)
  BY RunBefore
<1>2. /\ run' = [run EXCEPT ![p].at = None,
           ![p].found = IF Duplicate(run[p].at) THEN @ ELSE @ \cup {run[p].at}]
      /\ UNCHANGED queueVars
      /\ UNCHANGED <<onTrip, number, renamed, lastGps, offline, active, expiring, told, beside>>
      /\ run[p].job = "offline-detection" /\ run[p].at # None
  BY DEF CheckDuplicate, World
<1>3. run[p] \in OfflineRun
  BY <1>1, <1>2, RunKinds DEF RunOK
<1> DEFINE at == run[p].at
           found == IF Duplicate(at) THEN run[p].found ELSE run[p].found \cup {at}
           q == [run[p] EXCEPT !.at = None, !.found = found]
<1>4. at \in Named /\ Current(at) /\ run[p].found \subseteq Named
  BY <1>1, <1>2, <1>3 DEF OfflineRun, RunOK
<1>5. \A x \in found \ run[p].found, y \in offline : ~Mentions(y, x.number)
  BY DEF Duplicate
<1>6. found \subseteq Named /\ \A x \in found : Current(x)
  BY <1>1, <1>2, <1>4 DEF RunOK
<1>7. run' = [run EXCEPT ![p] = q]
  BY <1>2
<1> HIDE DEF found
<1>8. /\ q \in OfflineRun /\ q.job = run[p].job /\ q.found = found
      /\ q.left = run[p].left /\ q.at = None
  BY <1>3, <1>6 DEF OfflineRun
<1> HIDE DEF q, at
<1>9. QueueInv' /\ worker' = worker /\ QueueTypeOK'
  BY <1>2, UnchangedQueueInv DEF queueVars, QueueInv
<1>10. run'[p] = q
  BY <1>7, RunBefore
<1>11. RunOK(p)'
  <2>1. run'[p] \in OfflineRun /\ run'[p].job = worker'[p] /\ run'[p].found = found
        /\ run'[p].left = run[p].left /\ run'[p].at = None
    BY <1>1, <1>2, <1>8, <1>9, <1>10, RunKinds DEF RunOK
  <2>2. \A x \in found, y \in offline : Mentions(y, x.number) => y \in beside[p]
    BY <1>1, <1>2, <1>5 DEF RunOK
  <2>3. \A x \in run[p].left \cup found : Current(x)
    BY <1>1, <1>2, <1>6 DEF RunOK
  <2> QED
    BY <1>2, <2>1, <2>2, <2>3 DEF RunOK, Current
<1>12. told' \subseteq Tenants
  BY <1>1, <1>2 DEF WorldOK
<1> QED
  BY <1>2, <1>7, <1>9, <1>11, <1>12, OneRunChanges

\* An alert that one run creates is noted beside every other run of the detection.
LEMMA CreateOfflineAlertsInv ==
    ASSUME QueueInv, DetectionInv, NEW p \in Processes, CreateOfflineAlerts(p)
    PROVE  QueueInv' /\ DetectionInv'
<1>1. QueueTypeOK /\ WorldOK /\ run = [x \in Processes |-> run[x]]
      /\ \A x \in Processes : RunOK(x)
  BY RunBefore
<1> DEFINE found == run[p].found
<1>2. /\ offline' = offline \cup found
      /\ JobEnds(p) /\ faults' = faults
      /\ run' = [run EXCEPT ![p] = NoRun]
      /\ beside' = [x \in Processes |->
           IF x = p THEN {}
           ELSE IF run[x].job = "offline-detection" THEN beside[x] \cup found
           ELSE beside[x]]
      /\ UNCHANGED <<onTrip, number, renamed, lastGps, active, expiring, told>>
      /\ run[p].job = "offline-detection"
  BY DEF CreateOfflineAlerts, AlertsCreated
<1>3. QueueInv' /\ QueueTypeOK'
  BY <1>2, JobEndsInv DEF QueueInv
<1>4. \A x \in Processes \ {p} : worker'[x] = worker[x]
  BY <1>1, <1>2 DEF JobEnds, QueueTypeOK
<1>5. found \subseteq Named /\ \A x \in found : Current(x)
  <2>1. run[p] \in OfflineRun
    BY <1>1, <1>2, RunKinds DEF RunOK
  <2> QED
    BY <1>1, <1>2, <2>1 DEF OfflineRun, RunOK
<1>6. offline' \subseteq Named /\ \A y \in offline' : Current(y)
  BY <1>1, <1>2, <1>5 DEF WorldOK
<1>7. beside' \in [Processes -> SUBSET Named]
  <2>1. \A x \in Processes : beside[x] \subseteq Named
    BY <1>1 DEF WorldOK
  <2> QED
    BY <1>2, <1>5, <2>1
<1>8. WorldOK'
  BY <1>1, <1>2, <1>6, <1>7 DEF WorldOK, Current
<1>9. run'[p] = NoRun /\ \A x \in Processes \ {p} : run'[x] = run[x]
  BY <1>1, <1>2
<1>10. RunOK(p)'
  BY <1>9, RunKinds DEF RunOK
<1>11. ASSUME NEW x \in Processes \ {p}
       PROVE  RunOK(x)'
  <2>1. CASE run[x].job = "offline-detection"
    <3>1. beside'[x] = beside[x] \cup found
      BY <1>2, <2>1
    <3>2. \A z \in run[x].found, y \in offline' : Mentions(y, z.number) => y \in beside'[x]
      BY <1>1, <1>2, <2>1, <3>1 DEF RunOK
    <3> QED
      BY <1>1, <1>2, <1>4, <1>9, <2>1, <3>2 DEF RunOK, Current
  <2>2. CASE run[x].job # "offline-detection"
    BY <1>1, <1>4, <1>9, <2>2 DEF RunOK
  <2> QED
    BY <2>1, <2>2
<1>12. run' = [x \in Processes |-> run'[x]]
  BY <1>1, <1>2
<1> QED
  BY <1>3, <1>8, <1>10, <1>11, <1>12, DetectionPartsNext

\* The daily scan finds no vehicle.
LEMMA DailyRunChanges ==
    ASSUME QueueInv, DetectionInv, NEW p \in Processes, NEW q \in DailyRun,
           run' = [run EXCEPT ![p] = q], worker[p] = "daily-alerts-scan",
           UNCHANGED queueVars, UNCHANGED <<onTrip, number, renamed, lastGps, offline, active, expiring, beside>>,
           told' \subseteq Tenants
    PROVE  QueueInv' /\ DetectionInv'
<1>1. QueueInv' /\ worker' = worker /\ QueueTypeOK'
  BY UnchangedQueueInv DEF queueVars, QueueInv
<1>2. run'[p] = q
  BY RunBefore
<1>3. RunOK(p)'
  BY <1>1, <1>2, RunKinds DEF RunOK
<1> QED
  BY <1>1, <1>3, OneRunChanges

\* The daily scan reads the active tenants.
LEMMA FindTenantsInv ==
    ASSUME QueueInv, DetectionInv, NEW p \in Processes, FindTenants(p)
    PROVE  QueueInv' /\ DetectionInv'
<1>1. active \subseteq Tenants /\ told \subseteq Tenants
  BY RunBefore DEF WorldOK
<1> DEFINE q == [job |-> "daily-alerts-scan", left |-> active, at |-> None, read |-> FALSE]
<1>2. q \in DailyRun
  BY <1>1 DEF DailyRun
<1>3. /\ run' = [run EXCEPT ![p] = q] /\ worker[p] = "daily-alerts-scan"
      /\ UNCHANGED queueVars
      /\ UNCHANGED <<onTrip, number, renamed, lastGps, offline, active, expiring, told, beside>>
  BY DEF FindTenants, World
<1> HIDE DEF q
<1> QED
  BY <1>1, <1>2, <1>3, DailyRunChanges

\* A run of the daily scan is its worker's job.
LEMMA DailyBefore ==
    ASSUME QueueInv, DetectionInv, NEW p \in Processes, run[p].job = "daily-alerts-scan"
    PROVE  /\ run[p] \in DailyRun /\ worker[p] = "daily-alerts-scan"
           /\ told \subseteq Tenants /\ expiring \subseteq Tenants
BY RunBefore, RunKinds DEF RunOK, WorldOK

\* The daily scan reads what a tenant has expiring.
LEMMA ScanReadsInv ==
    ASSUME QueueInv, DetectionInv, NEW p \in Processes, ScanReads(p)
    PROVE  QueueInv' /\ DetectionInv'
<1>1. PICK t \in run[p].left \ Broken :
        run' = [run EXCEPT ![p].left = @ \ {t}, ![p].at = t, ![p].read = t \in expiring]
  BY DEF ScanReads
<1>2. /\ UNCHANGED queueVars /\ run[p].job = "daily-alerts-scan"
      /\ UNCHANGED <<onTrip, number, renamed, lastGps, offline, active, expiring, told, beside>>
  BY DEF ScanReads, World
<1>3. run[p] \in DailyRun /\ worker[p] = "daily-alerts-scan" /\ told \subseteq Tenants
  BY <1>2, DailyBefore
<1> DEFINE read == t \in expiring
           q == [run[p] EXCEPT !.left = @ \ {t}, !.at = t, !.read = read]
<1>4. read \in BOOLEAN
  OBVIOUS
<1>5. run' = [run EXCEPT ![p] = q]
  BY <1>1
<1> HIDE DEF read
<1>6. q \in DailyRun
  BY <1>1, <1>3, <1>4 DEF DailyRun
<1> HIDE DEF q
<1> QED
  BY <1>2, <1>3, <1>5, <1>6, DailyRunChanges

\* The daily scan writes a tenant's alerts.
LEMMA ScanCreatesInv ==
    ASSUME QueueInv, DetectionInv, NEW p \in Processes, ScanCreates(p)
    PROVE  QueueInv' /\ DetectionInv'
<1>1. /\ UNCHANGED queueVars /\ run[p].job = "daily-alerts-scan" /\ run[p].at # None
      /\ UNCHANGED <<onTrip, number, renamed, lastGps, offline, active, expiring, beside>>
      /\ run' = [run EXCEPT ![p].at = None, ![p].read = FALSE]
      /\ told' = IF run[p].read THEN told \cup {run[p].at} ELSE told
  BY DEF ScanCreates
<1>2. run[p] \in DailyRun /\ worker[p] = "daily-alerts-scan" /\ told \subseteq Tenants
  BY <1>1, DailyBefore
<1> DEFINE q == [run[p] EXCEPT !.at = None, !.read = FALSE]
<1>3. q \in DailyRun
  BY <1>2 DEF DailyRun
<1>4. run' = [run EXCEPT ![p] = q]
  BY <1>1
<1>5. told' \subseteq Tenants
  BY <1>1, <1>2 DEF DailyRun
<1> HIDE DEF q
<1> QED
  BY <1>1, <1>2, <1>3, <1>4, <1>5, DailyRunChanges

\* A tenant's scan throws; the loop goes on with the next.
LEMMA ScanFailsInv ==
    ASSUME QueueInv, DetectionInv, NEW p \in Processes, ScanFails(p)
    PROVE  QueueInv' /\ DetectionInv'
<1>1. PICK t \in run[p].left \cap Broken : run' = [run EXCEPT ![p].left = @ \ {t}]
  BY DEF ScanFails
<1>2. /\ UNCHANGED queueVars /\ run[p].job = "daily-alerts-scan"
      /\ UNCHANGED <<onTrip, number, renamed, lastGps, offline, active, expiring, told, beside>>
  BY DEF ScanFails, World
<1>3. run[p] \in DailyRun /\ worker[p] = "daily-alerts-scan" /\ told \subseteq Tenants
  BY <1>2, DailyBefore
<1> DEFINE q == [run[p] EXCEPT !.left = @ \ {t}]
<1>4. q \in DailyRun
  BY <1>1, <1>3 DEF DailyRun
<1>5. run' = [run EXCEPT ![p] = q]
  BY <1>1
<1> HIDE DEF q
<1> QED
  BY <1>2, <1>3, <1>4, <1>5, DailyRunChanges

\* A run that ends, or fails, takes its job from the worker.
LEMMA RunEndsInv ==
    ASSUME QueueInv, DetectionInv, NEW p \in Processes, RunEnds(p),
           Fault \/ faults' = faults, UNCHANGED World
    PROVE  QueueInv' /\ DetectionInv'
<1>1. /\ JobEnds(p) /\ run' = [run EXCEPT ![p] = NoRun]
      /\ beside' = [beside EXCEPT ![p] = {}]
  BY DEF RunEnds
<1>2. QueueInv' /\ QueueTypeOK'
  BY <1>1, JobEndsInv DEF QueueInv
<1>3. \A x \in Processes \ {p} : worker'[x] = worker[x]
  BY <1>1 DEF JobEnds, QueueInv, QueueTypeOK
<1> QED
  BY <1>1, <1>2, <1>3, RunEndsDetection

\* Every step of a running job keeps the invariants.
LEMMA RunStepInv ==
    ASSUME QueueInv, DetectionInv, NEW p \in Processes, RunStep(p) \/ JobFails(p)
    PROVE  QueueInv' /\ DetectionInv'
<1>1. CASE ScanEnds(p)
  BY <1>1, RunEndsInv DEF ScanEnds
<1>2. CASE JobFails(p)
  BY <1>2, RunEndsInv DEF JobFails
<1> QED
  BY <1>1, <1>2, FindOnTripInv, CheckGpsInv, CheckDuplicateInv, CreateOfflineAlertsInv,
     FindTenantsInv, ScanReadsInv, ScanCreatesInv, ScanFailsInv
     DEF RunStep

\* A worker that takes a job had none, so it had no run either.
LEMMA ProcessStepInv ==
    ASSUME QueueInv, DetectionInv, NEW p \in Processes, ProcessStep(p)
    PROVE  QueueInv' /\ DetectionInv'
<1>1. ASSUME ScheduleStep(p) \/ ScheduleFails(p) \/ Stops(p) \/ Stalls(p),
             UNCHANGED monitorVars
      PROVE  QueueInv' /\ DetectionInv'
  <2>1. QueueInv'
    BY <1>1, ScheduleStepInv, ScheduleFailsInv, StopsInv, StallsInv
  <2>2. worker' = worker
    BY <1>1 DEF ScheduleStep, Starts, GetRepeatableJobs, RemoveRepeatable, AddDaily,
                AddOffline, ScheduleFails, Stops, Stalls
  <2> QED
    BY <1>1, <2>1, <2>2, QueueOnlyDetection
<1>2. ASSUME NEW k \in JobNames, ProcessJob(p, k), UNCHANGED monitorVars
      PROVE  QueueInv' /\ DetectionInv'
  <2>1. QueueInv'
    BY <1>2, ProcessJobInv
  <2>2. worker[p] = None /\ \A x \in Processes \ {p} : worker'[x] = worker[x]
    BY <1>2 DEF ProcessJob, QueueInv, QueueTypeOK
  <2>3. run[p].job = None
    BY <2>2, RunBefore DEF RunOK
  <2> QED
    BY <1>2, <2>1, <2>2, <2>3, QueueOnlyDetection
<1>3. ASSUME Crashes(p), run' = [run EXCEPT ![p] = NoRun],
             beside' = [beside EXCEPT ![p] = {}], UNCHANGED World
      PROVE  QueueInv' /\ DetectionInv'
  <2>1. QueueInv' /\ QueueTypeOK'
    BY <1>3, CrashesInv DEF QueueInv
  <2>2. \A x \in Processes \ {p} : worker'[x] = worker[x]
    BY <1>3 DEF Crashes, QueueInv, QueueTypeOK
  <2> QED
    BY <1>3, <2>1, <2>2, RunEndsDetection
<1> QED
  BY <1>1, <1>2, <1>3 DEF ProcessStep

\* A job becomes due; a due scan has told nobody yet.
LEMMA BecomesDueInv ==
    ASSUME QueueInv, DetectionInv, NEW k \in JobNames, BecomesDue(k)
    PROVE  QueueInv' /\ DetectionInv'
<1>1. Due(k) /\ UNCHANGED <<onTrip, number, renamed, lastGps, offline, active, expiring, run, beside>>
      /\ told' = IF k = "daily-alerts-scan" THEN {} ELSE told
  BY DEF BecomesDue
<1>2. QueueInv' /\ QueueTypeOK' /\ worker' = worker
  BY <1>1, DueInv DEF Due, QueueInv
<1>3. WorldOK /\ run = [x \in Processes |-> run[x]] /\ \A x \in Processes : RunOK(x)
  BY RunBefore
<1>4. WorldOK'
  BY <1>1, <1>3 DEF WorldOK, Current
<1>5. \A x \in Processes : RunOK(x)'
  BY <1>1, <1>2, <1>3 DEF RunOK, Current
<1> QED
  BY <1>1, <1>2, <1>3, <1>4, <1>5, DetectionPartsNext

\* Every step of the jobs, of their processes and of the world around them.
THEOREM JobsNextInv ==
    ASSUME QueueInv, DetectionInv, JobsNext
    PROVE  QueueInv' /\ DetectionInv'
BY ProcessStepInv, RunStepInv, BecomesDueInv, WorldChangesInv DEF JobsNext

----------------------------------------------------------------------------
(***************************************************************************)
(* Locations                                                               *)
(***************************************************************************)

\* No location has been stored, nobody asks for anything.
LEMMA TrackingInvInit ==
    ASSUME TrackingInit
    PROVE  TrackingInv
<1>1. DOMAIN gps = {} /\ gps \in [DOMAIN gps -> GpsLocation]
  BY DEF TrackingInit
<1>2. \A r \in TrackingRequests : lreq[r] = TrackingIdle
  BY DEF TrackingInit
<1>3. second = 0 /\ second \in Instants /\ 0 \in Nat
  BY TrackingAssumption DEF TrackingInit
<1>4. TrackingTypeInv
  BY <1>1, <1>2, <1>3 DEF TrackingInit, TrackingTypeInv, TrackingTypeOK
<1>5. RowsPast /\ RateBrokenOnlyByRace
  BY <1>1 DEF RowsPast, RateBrokenOnlyByRace
<1>6. \A v \in Tracked : rateKey[v] = 0 /\ cache[v] = None /\ shown[v] = None
  BY DEF TrackingInit
<1>7. KeysBounded
  BY <1>3, <1>6, TrackingAssumption DEF KeysBounded
<1>8. CacheHeld /\ ShownExists
  BY <1>6 DEF CacheHeld, ShownExists
<1>9. \A r \in TrackingRequests : LocationRequestOK(r)
  BY <1>2, <1>3 DEF LocationRequestOK, KeySet, RateHeld, TimeHeld, TrackingIdle
<1> QED
  BY <1>4, <1>5, <1>7, <1>8, <1>9 DEF TrackingInv

\* A row's fields.
LEMMA RowFacts ==
    ASSUME TrackingTypeOK, NEW a \in DOMAIN gps
    PROVE  /\ a \in Locations /\ gps[a] \in GpsLocation
           /\ gps[a].vehicle \in Tracked
           /\ gps[a].timestamp \in Nat /\ gps[a].admitted \in Nat
BY TrackingAssumption DEF TrackingTypeOK, GpsLocation

\* A request's fields.
LEMMA RequestFacts ==
    ASSUME TrackingTypeOK, NEW r \in TrackingRequests
    PROVE  /\ lreq[r] \in TrackingRequest \cup {TrackingIdle}
           /\ lreq[r].pc # "idle" => /\ lreq[r] \in TrackingRequest
                                     /\ lreq[r].vehicle \in Tracked
           /\ lreq[r].pc = "idle" => lreq[r] = TrackingIdle
           /\ lreq[r].row \in Locations \cup {None}
           /\ lreq[r].admitted \in Nat /\ lreq[r].timestamp \in Nat
           /\ lreq[r].blind \in BOOLEAN
<1>1. lreq[r] \in TrackingRequest \cup {TrackingIdle}
  BY DEF TrackingTypeOK
<1>2. CASE lreq[r] = TrackingIdle
  BY <1>1, <1>2, TrackingAssumption DEF TrackingIdle
<1>3. CASE lreq[r] \in TrackingRequest
  BY <1>1, <1>3, TrackingAssumption DEF TrackingRequest
<1> QED
  BY <1>1, <1>2, <1>3

\* What one slot's step leaves to the others.
LEMMA LocationSlot ==
    ASSUME TrackingTypeInv, NEW r \in TrackingRequests,
           NEW q \in TrackingRequest \cup {TrackingIdle}, lreq' = [lreq EXCEPT ![r] = q]
    PROVE  /\ \A x \in TrackingRequests : lreq'[x] \in TrackingRequest \cup {TrackingIdle}
           /\ lreq' = [x \in TrackingRequests |-> lreq'[x]]
           /\ lreq'[r] = q /\ \A x \in TrackingRequests \ {r} : lreq'[x] = lreq[x]
BY DEF TrackingTypeInv, TrackingTypeOK

\* An idle slot promises nothing.
LEMMA IdleOK ==
    ASSUME second' \in Nat, NEW r, lreq'[r] = TrackingIdle
    PROVE  LocationRequestOK(r)'
BY DEF LocationRequestOK, KeySet, RateHeld, TimeHeld, TrackingIdle

\* A request that does not move keeps its promises while the keys only grow.
LEMMA RequestStays ==
    ASSUME TrackingInv, TrackingTypeOK', NEW r \in TrackingRequests, lreq'[r] = lreq[r],
           lmissed'[r] = lmissed[r], UNCHANGED <<gps, unlimited, together>>,
           second' >= second, \A v \in Tracked : rateKey'[v] >= rateKey[v]
    PROVE  LocationRequestOK(r)'
<1>1. TrackingTypeOK /\ LocationRequestOK(r)
  BY DEF TrackingInv, TrackingTypeInv
<1>2. second \in Nat /\ second' \in Nat
  BY <1>1, TrackingAssumption DEF TrackingTypeOK
<1>3. lreq[r].admitted <= second' /\ lreq[r].timestamp <= second'
  BY <1>1, <1>2, RequestFacts DEF LocationRequestOK
<1>4. KeySet(r)'
  <2>1. SUFFICES ASSUME lreq[r].pc \in {"lookup", "insert"}, lreq[r].blind = FALSE
                 PROVE  rateKey'[lreq[r].vehicle] >= lreq[r].admitted + RateLimitTTL
    BY DEF KeySet
  <2>2. lreq[r].vehicle \in Tracked /\ lreq[r].admitted \in Nat
    BY <1>1, <2>1, RequestFacts
  <2>3. /\ rateKey[lreq[r].vehicle] >= lreq[r].admitted + RateLimitTTL
        /\ rateKey[lreq[r].vehicle] \in Nat /\ rateKey'[lreq[r].vehicle] \in Nat
        /\ rateKey'[lreq[r].vehicle] >= rateKey[lreq[r].vehicle]
    BY <1>1, <2>1, <2>2 DEF LocationRequestOK, KeySet, TrackingTypeOK
  <2> QED
    BY <2>2, <2>3, TrackingAssumption
<1>5. RateHeld(r)'
  <2>1. SUFFICES ASSUME lreq[r].pc \in {"set", "lookup", "insert"}, lreq[r].blind = FALSE,
                        NEW a \in DOMAIN gps \ unlimited,
                        gps[a].vehicle = lreq[r].vehicle, a \notin lmissed[r]
                 PROVE  AdmittedFrom(r)' >= gps[a].admitted + RateLimitTTL
    BY DEF RateHeld
  <2>2. AdmittedFrom(r) >= gps[a].admitted + RateLimitTTL
    BY <1>1, <2>1 DEF LocationRequestOK, RateHeld
  <2>3. AdmittedFrom(r)' >= AdmittedFrom(r) /\ AdmittedFrom(r) \in Nat
        /\ AdmittedFrom(r)' \in Nat
    BY <1>1, <1>2, RequestFacts DEF AdmittedFrom
  <2> QED
    BY <1>1, <2>1, <2>2, <2>3, RowFacts, TrackingAssumption
<1>6. TimeHeld(r)'
  BY <1>1 DEF LocationRequestOK, TimeHeld, Newer, Together
<1> QED
  BY <1>1, <1>3, <1>4, <1>5, <1>6 DEF LocationRequestOK, LocationsOf

\* The rows keep their promises while the keys only grow.
LEMMA RowsStay ==
    ASSUME TrackingInv, TrackingTypeOK', UNCHANGED <<gps, unlimited, together>>,
           second' >= second, \A v \in Tracked : rateKey'[v] >= rateKey[v]
    PROVE  RowsPast' /\ RateBrokenOnlyByRace'
<1>1. TrackingTypeOK /\ RowsPast /\ RateBrokenOnlyByRace
  BY DEF TrackingInv, TrackingTypeInv
<1>2. second \in Nat /\ second' \in Nat
  BY <1>1, TrackingAssumption DEF TrackingTypeOK
<1>3. RateBrokenOnlyByRace'
  BY <1>1 DEF RateBrokenOnlyByRace, Together
<1>4. ASSUME NEW a \in DOMAIN gps
      PROVE  /\ gps[a].admitted <= second' /\ gps[a].timestamp <= second'
             /\ a \notin unlimited =>
                  rateKey'[gps[a].vehicle] >= gps[a].admitted + RateLimitTTL
  <2>1. gps[a].vehicle \in Tracked /\ gps[a].timestamp \in Nat /\ gps[a].admitted \in Nat
    BY <1>1, RowFacts
  <2>2. gps[a].admitted <= second /\ gps[a].timestamp <= second
    BY <1>1 DEF RowsPast
  <2>3. rateKey[gps[a].vehicle] \in Nat /\ rateKey'[gps[a].vehicle] \in Nat
        /\ rateKey'[gps[a].vehicle] >= rateKey[gps[a].vehicle]
    BY <1>1, <2>1 DEF TrackingTypeOK
  <2>4. a \notin unlimited => rateKey[gps[a].vehicle] >= gps[a].admitted + RateLimitTTL
    BY <1>1 DEF RowsPast
  <2> QED
    BY <1>2, <2>1, <2>2, <2>3, <2>4, TrackingAssumption
<1>5. RowsPast'
  BY <1>4 DEF RowsPast
<1> QED
  BY <1>3, <1>5

\* While rows, cached copies and the requests that hold a row stay, so does what is
\* known of the cache.
LEMMA CacheStays ==
    ASSUME TrackingInv, UNCHANGED <<gps, cache, shown, together>>,
           \A s \in TrackingRequests :
               lreq[s].row # None => lreq'[s].row = lreq[s].row \/ lreq[s].row \in uncached',
           uncached \subseteq uncached'
    PROVE  CacheHeld' /\ ShownExists'
<1>1. TrackingTypeOK /\ CacheHeld /\ ShownExists
  BY DEF TrackingInv, TrackingTypeInv
<1>2. ShownExists'
  BY <1>1 DEF ShownExists, LocationsOf
<1>3. ASSUME NEW v \in Tracked, cache[v] # None, NEW k \in LocationsOf(v),
             Newer(k, cache[v].row)
      PROVE  \/ \E r \in TrackingRequests : lreq'[r].row = k
             \/ k \in uncached'
             \/ Together(k, cache[v].row)
  <2>1. k # None
    BY <1>1, <1>3, RowFacts, TrackingAssumption DEF LocationsOf
  <2>2. \/ \E r \in TrackingRequests : lreq[r].row = k
        \/ k \in uncached
        \/ Together(k, cache[v].row)
    BY <1>1, <1>3 DEF CacheHeld
  <2> QED
    BY <2>1, <2>2
<1>4. CacheHeld'
  BY <1>1, <1>3 DEF CacheHeld, LocationsOf, Newer, Together
<1> QED
  BY <1>2, <1>4

\* A request is let through when the key of its vehicle has expired.
LEMMA SaveLocationInv ==
    ASSUME TrackingInv, NEW r \in TrackingRequests, SaveLocation(r)
    PROVE  TrackingInv'
<1>1. TrackingTypeOK /\ TrackingTypeInv /\ RowsPast /\ KeysBounded
  BY DEF TrackingInv, TrackingTypeInv
<1>2. PICK v \in Tracked :
        /\ client # "ready" \/ second >= rateKey[v]
        /\ lreq' = [lreq EXCEPT ![r] = [TrackingIdle EXCEPT
             !.pc = "set", !.vehicle = v, !.blind = client # "ready"]]
  BY DEF SaveLocation
<1>3. /\ lreq[r] = TrackingIdle
      /\ UNCHANGED <<second, client, rateKey, cache, gps, shown, lmissed, together,
                     unlimited, uncached>>
  BY DEF SaveLocation
<1> DEFINE blind == client # "ready"
           q == [TrackingIdle EXCEPT !.pc = "set", !.vehicle = v, !.blind = blind]
<1>4. lreq' = [lreq EXCEPT ![r] = q]
  BY <1>2
<1>5. blind \in BOOLEAN /\ (blind = FALSE => second >= rateKey[v])
  BY <1>2
<1> HIDE DEF blind
<1>6. /\ q \in TrackingRequest /\ q.pc = "set" /\ q.vehicle = v /\ q.blind = blind
      /\ q.admitted = 0 /\ q.timestamp = 0 /\ q.row = None
  BY <1>5, TrackingAssumption DEF TrackingRequest, TrackingIdle
<1> HIDE DEF q
<1>7. /\ \A x \in TrackingRequests : lreq'[x] \in TrackingRequest \cup {TrackingIdle}
      /\ lreq' = [x \in TrackingRequests |-> lreq'[x]]
      /\ lreq'[r] = q /\ \A x \in TrackingRequests \ {r} : lreq'[x] = lreq[x]
  BY <1>1, <1>4, <1>6, LocationSlot
<1>8. TrackingTypeOK' /\ TrackingTypeInv'
  BY <1>1, <1>3, <1>7 DEF TrackingTypeOK, TrackingTypeInv
<1>9. second \in Nat /\ rateKey \in [Tracked -> Nat]
  BY <1>1, TrackingAssumption DEF TrackingTypeOK
<1>10. RowsPast' /\ RateBrokenOnlyByRace'
  BY <1>3, <1>8, <1>9, RowsStay
<1>11. KeysBounded'
  BY <1>1, <1>3 DEF KeysBounded
<1>12. CacheHeld' /\ ShownExists'
  BY <1>3, <1>7, CacheStays DEF TrackingIdle
<1>13. LocationRequestOK(r)'
  <2>1. RateHeld(r)'
    <3>1. SUFFICES ASSUME blind = FALSE, NEW a \in DOMAIN gps \ unlimited,
                          gps[a].vehicle = v
                   PROVE  second >= gps[a].admitted + RateLimitTTL
      BY <1>3, <1>6, <1>7 DEF RateHeld, AdmittedFrom
    <3>2. second >= rateKey[v] /\ rateKey[v] >= gps[a].admitted + RateLimitTTL
      BY <1>1, <1>5, <3>1 DEF RowsPast
    <3> QED
      BY <1>1, <1>9, <3>1, <3>2, RowFacts, TrackingAssumption
  <2>2. KeySet(r)' /\ TimeHeld(r)'
    BY <1>6, <1>7 DEF KeySet, TimeHeld
  <2> QED
    BY <1>3, <1>6, <1>7, <1>9, <2>1, <2>2 DEF LocationRequestOK
<1>14. \A x \in TrackingRequests \ {r} : LocationRequestOK(x)'
  BY <1>3, <1>7, <1>8, <1>9, RequestStays
<1> QED
  BY <1>8, <1>10, <1>11, <1>12, <1>13, <1>14 DEF TrackingInv

\* A key that is set expires last of all that the vehicle's rows were admitted by.
LEMMA SetRateLimitInv ==
    ASSUME TrackingInv, NEW r \in TrackingRequests, SetRateLimit(r)
    PROVE  TrackingInv'
<1>1. TrackingTypeOK /\ TrackingTypeInv /\ KeysBounded /\ LocationRequestOK(r)
  BY DEF TrackingInv, TrackingTypeInv
<1>2. /\ lreq[r].pc = "set"
      /\ rateKey' = IF client = "ready"
           THEN [rateKey EXCEPT ![lreq[r].vehicle] = second + RateLimitTTL]
           ELSE rateKey
      /\ lreq' = [lreq EXCEPT ![r].pc = "lookup", ![r].admitted = second,
                              ![r].blind = @ \/ client # "ready"]
      /\ UNCHANGED <<second, client, cache, gps, shown, lmissed, together, unlimited,
                     uncached>>
  BY DEF SetRateLimit
<1>3. /\ lreq[r] \in TrackingRequest /\ lreq[r].vehicle \in Tracked
      /\ lreq[r].blind \in BOOLEAN
  BY <1>1, <1>2, RequestFacts
<1>4. second \in Nat /\ second \in Instants /\ rateKey \in [Tracked -> Nat]
      /\ RateLimitTTL \in Nat
  BY <1>1, TrackingAssumption DEF TrackingTypeOK
<1> DEFINE v == lreq[r].vehicle
           blind == lreq[r].blind \/ client # "ready"
           q == [lreq[r] EXCEPT !.pc = "lookup", !.admitted = second, !.blind = blind]
<1>5. lreq' = [lreq EXCEPT ![r] = q]
  BY <1>2
<1>6. blind \in BOOLEAN /\ (blind = FALSE => lreq[r].blind = FALSE /\ client = "ready")
  BY <1>3
<1> HIDE DEF blind
<1>7. /\ q \in TrackingRequest /\ q.pc = "lookup" /\ q.vehicle = v /\ q.blind = blind
      /\ q.admitted = second /\ q.timestamp = lreq[r].timestamp /\ q.row = lreq[r].row
  BY <1>3, <1>4, <1>6 DEF TrackingRequest
<1> HIDE DEF q
<1>8. /\ \A x \in TrackingRequests : lreq'[x] \in TrackingRequest \cup {TrackingIdle}
      /\ lreq' = [x \in TrackingRequests |-> lreq'[x]]
      /\ lreq'[r] = q /\ \A x \in TrackingRequests \ {r} : lreq'[x] = lreq[x]
  BY <1>1, <1>5, <1>7, LocationSlot
<1>9. /\ rateKey' \in [Tracked -> Nat]
      /\ client = "ready" => rateKey'[v] = second + RateLimitTTL
      /\ \A w \in Tracked : rateKey'[w] = rateKey[w] \/ rateKey'[w] = second + RateLimitTTL
  <2>1. second + RateLimitTTL \in Nat
    BY <1>4
  <2> QED
    BY <1>2, <1>3, <1>4, <2>1
<1>10. TrackingTypeOK' /\ TrackingTypeInv'
  BY <1>1, <1>2, <1>8, <1>9 DEF TrackingTypeOK, TrackingTypeInv
<1>11. \A w \in Tracked : rateKey'[w] >= rateKey[w] /\ rateKey'[w] <= second + RateLimitTTL
  BY <1>1, <1>4, <1>9 DEF KeysBounded
<1>12. KeysBounded'
  BY <1>2, <1>11 DEF KeysBounded
<1>13. RowsPast' /\ RateBrokenOnlyByRace'
  BY <1>2, <1>4, <1>10, <1>11, RowsStay
<1>14. CacheHeld' /\ ShownExists'
  BY <1>2, <1>7, <1>8, CacheStays
<1>15. LocationRequestOK(r)'
  <2>1. KeySet(r)'
    BY <1>4, <1>6, <1>7, <1>8, <1>9 DEF KeySet
  <2>2. RateHeld(r)'
    BY <1>1, <1>2, <1>6, <1>7, <1>8 DEF LocationRequestOK, RateHeld, AdmittedFrom
  <2>3. TimeHeld(r)'
    BY <1>7, <1>8 DEF TimeHeld
  <2> QED
    BY <1>1, <1>2, <1>4, <1>7, <1>8, <2>1, <2>2, <2>3 DEF LocationRequestOK
<1>16. ASSUME NEW x \in TrackingRequests \ {r}
       PROVE  LocationRequestOK(x)'
  <2>1. /\ lreq'[x] = lreq[x] /\ lmissed'[x] = lmissed[x]
        /\ UNCHANGED <<gps, unlimited, together>> /\ second' = second
    BY <1>2, <1>8
  <2>2. second' >= second /\ \A w \in Tracked : rateKey'[w] >= rateKey[w]
    BY <1>4, <1>11, <2>1
  <2> QED
    BY <1>10, <2>1, <2>2, RequestStays
<1> QED
  BY <1>10, <1>12, <1>13, <1>14, <1>15, <1>16 DEF TrackingInv

\* The timestamp that is taken is no older than any row's.
LEMMA FindTrackedVehicleInv ==
    ASSUME TrackingInv, NEW r \in TrackingRequests, FindTrackedVehicle(r)
    PROVE  TrackingInv'
<1>1. TrackingTypeOK /\ TrackingTypeInv /\ KeysBounded /\ RowsPast /\ LocationRequestOK(r)
  BY DEF TrackingInv, TrackingTypeInv
<1>2. /\ lreq[r].pc = "lookup"
      /\ lreq' = [lreq EXCEPT ![r].pc = "insert", ![r].timestamp = second]
      /\ UNCHANGED <<second, client, rateKey, cache, gps, shown, lmissed, together,
                     unlimited, uncached>>
  BY DEF FindTrackedVehicle
<1>3. lreq[r] \in TrackingRequest
  BY <1>1, <1>2, RequestFacts
<1>4. second \in Nat /\ second \in Instants /\ rateKey \in [Tracked -> Nat]
  BY <1>1, TrackingAssumption DEF TrackingTypeOK
<1> DEFINE q == [lreq[r] EXCEPT !.pc = "insert", !.timestamp = second]
<1>5. lreq' = [lreq EXCEPT ![r] = q]
  BY <1>2
<1>6. /\ q \in TrackingRequest /\ q.pc = "insert" /\ q.vehicle = lreq[r].vehicle
      /\ q.blind = lreq[r].blind /\ q.admitted = lreq[r].admitted
      /\ q.timestamp = second /\ q.row = lreq[r].row
  BY <1>3, <1>4 DEF TrackingRequest
<1> HIDE DEF q
<1>7. /\ \A x \in TrackingRequests : lreq'[x] \in TrackingRequest \cup {TrackingIdle}
      /\ lreq' = [x \in TrackingRequests |-> lreq'[x]]
      /\ lreq'[r] = q /\ \A x \in TrackingRequests \ {r} : lreq'[x] = lreq[x]
  BY <1>1, <1>5, <1>6, LocationSlot
<1>8. TrackingTypeOK' /\ TrackingTypeInv'
  BY <1>1, <1>2, <1>7 DEF TrackingTypeOK, TrackingTypeInv
<1>9. KeysBounded'
  BY <1>1, <1>2 DEF KeysBounded
<1>10. RowsPast' /\ RateBrokenOnlyByRace'
  BY <1>2, <1>4, <1>8, RowsStay
<1>11. CacheHeld' /\ ShownExists'
  BY <1>2, <1>6, <1>7, CacheStays
<1>12. LocationRequestOK(r)'
  <2>1. KeySet(r)'
    BY <1>1, <1>2, <1>6, <1>7 DEF LocationRequestOK, KeySet
  <2>2. RateHeld(r)'
    BY <1>1, <1>2, <1>6, <1>7 DEF LocationRequestOK, RateHeld, AdmittedFrom
  <2>3. TimeHeld(r)'
    BY <1>1, <1>2, <1>6, <1>7 DEF RowsPast, TimeHeld
  <2> QED
    BY <1>1, <1>2, <1>4, <1>6, <1>7, <2>1, <2>2, <2>3 DEF LocationRequestOK
<1>13. ASSUME NEW x \in TrackingRequests \ {r}
       PROVE  LocationRequestOK(x)'
  <2>1. /\ lreq'[x] = lreq[x] /\ lmissed'[x] = lmissed[x]
        /\ UNCHANGED <<gps, unlimited, together>> /\ second' = second
    BY <1>2, <1>7
  <2>2. second' >= second /\ \A w \in Tracked : rateKey'[w] >= rateKey[w]
    BY <1>2, <1>4, <2>1
  <2> QED
    BY <1>8, <2>1, <2>2, RequestStays
<1> QED
  BY <1>8, <1>9, <1>10, <1>11, <1>12, <1>13 DEF TrackingInv

\* The row that r inserts is together with every row that r missed, and whoever is
\* in flight misses it.
LEMMA InsertLocationInv ==
    ASSUME TrackingInv, NEW r \in TrackingRequests, InsertLocation(r)
    PROVE  TrackingInv'
<1>1. /\ TrackingTypeOK /\ TrackingTypeInv /\ RowsPast /\ KeysBounded
      /\ RateBrokenOnlyByRace /\ CacheHeld /\ ShownExists
      /\ \A s \in TrackingRequests : LocationRequestOK(s)
  BY DEF TrackingInv, TrackingTypeInv
<1>2. PICK q : q = lreq[r]
  OBVIOUS
<1>3. PICK l \in Locations \ DOMAIN gps :
        /\ gps' = Insert(gps, l, [vehicle |-> q.vehicle, timestamp |-> q.timestamp,
                                  admitted |-> q.admitted])
        /\ lreq' = [lreq EXCEPT ![r].pc = "cache", ![r].row = l]
        /\ lmissed' = [s \in TrackingRequests |->
             IF s # r /\ lreq[s] # TrackingIdle THEN lmissed[s] \cup {l} ELSE lmissed[s]]
        /\ together' = together \cup
             ({l} \X (lmissed[r] \cup ({lreq[s].row : s \in TrackingRequests} \ {None})))
        /\ unlimited' = IF q.blind THEN unlimited \cup {l} ELSE unlimited
  BY <1>2 DEF InsertLocation
<1>4. /\ q.pc = "insert"
      /\ UNCHANGED <<second, client, rateKey, cache, shown, uncached>>
  BY <1>2 DEF InsertLocation
<1>5. /\ q \in TrackingRequest /\ q.vehicle \in Tracked /\ q.blind \in BOOLEAN
      /\ q.admitted \in Instants /\ q.timestamp \in Instants /\ q.row = None
  BY <1>1, <1>2, <1>4, RequestFacts DEF TrackingRequest, LocationRequestOK
<1>6. second \in Nat /\ rateKey \in [Tracked -> Nat] /\ RateLimitTTL \in Nat \ {0}
      /\ Instants \subseteq Nat /\ None \notin Locations
  BY <1>1, TrackingAssumption DEF TrackingTypeOK
<1> DEFINE row == [vehicle |-> q.vehicle, timestamp |-> q.timestamp, admitted |-> q.admitted]
           n == [q EXCEPT !.pc = "cache", !.row = l]
<1>7. /\ row \in GpsLocation /\ row.vehicle = q.vehicle /\ row.timestamp = q.timestamp
      /\ row.admitted = q.admitted
  BY <1>5 DEF GpsLocation
<1>8. lreq' = [lreq EXCEPT ![r] = n]
  BY <1>2, <1>3
<1>9. /\ n \in TrackingRequest /\ n.pc = "cache" /\ n.vehicle = q.vehicle
      /\ n.blind = q.blind /\ n.admitted = q.admitted
      /\ n.timestamp = q.timestamp /\ n.row = l
  BY <1>3, <1>5 DEF TrackingRequest
<1>10. gps' = Insert(gps, l, row)
  BY <1>3
<1> HIDE DEF row, n
<1>11. /\ DOMAIN gps' = DOMAIN gps \cup {l} /\ gps'[l] = row
       /\ \A a \in DOMAIN gps : gps'[a] = gps[a]
       /\ gps' = [a \in DOMAIN gps' |-> gps'[a]]
  BY <1>3, <1>10 DEF Insert
<1>12. /\ \A x \in TrackingRequests : lreq'[x] \in TrackingRequest \cup {TrackingIdle}
       /\ lreq' = [x \in TrackingRequests |-> lreq'[x]]
       /\ lreq'[r] = n /\ \A x \in TrackingRequests \ {r} : lreq'[x] = lreq[x]
  BY <1>1, <1>8, <1>9, LocationSlot
<1>13. \A a \in DOMAIN gps : a \in Locations /\ a # l /\ gps[a] \in GpsLocation
                            /\ gps[a].timestamp \in Nat /\ gps[a].admitted \in Nat
                            /\ gps[a].vehicle \in Tracked
  BY <1>1, <1>3, RowFacts
<1>14. DOMAIN gps' \subseteq Locations /\ gps' \in [DOMAIN gps' -> GpsLocation]
  BY <1>3, <1>7, <1>11, <1>13
<1>15. /\ lmissed' \in [TrackingRequests -> SUBSET Locations]
       /\ lmissed \in [TrackingRequests -> SUBSET Locations]
  BY <1>1, <1>3 DEF TrackingTypeOK
<1>16. \A s \in TrackingRequests : lreq[s].row \in Locations \cup {None}
  BY <1>1, RequestFacts
<1>17. together' \subseteq Locations \X Locations /\ together \subseteq together'
  BY <1>1, <1>3, <1>15, <1>16 DEF TrackingTypeOK
<1>18. unlimited' \subseteq Locations /\ unlimited \subseteq unlimited'
       /\ (l \notin unlimited' => q.blind = FALSE)
  BY <1>1, <1>3, <1>5 DEF TrackingTypeOK
<1>19. TrackingTypeOK' /\ TrackingTypeInv'
  BY <1>1, <1>4, <1>12, <1>14, <1>15, <1>17, <1>18 DEF TrackingTypeOK, TrackingTypeInv
<1>20. \A k \in lmissed[r] : <<l, k>> \in together'
  BY <1>3
<1>21. \A s \in TrackingRequests : lreq[s].row # None => <<l, lreq[s].row>> \in together'
  BY <1>3
<1>22. KeysBounded'
  BY <1>1, <1>4 DEF KeysBounded
<1>23. RowsPast'
  <2>1. q.admitted <= second /\ q.timestamp <= second
    BY <1>1, <1>2 DEF LocationRequestOK
  <2>2. l \notin unlimited' => rateKey[q.vehicle] >= q.admitted + RateLimitTTL
    BY <1>1, <1>2, <1>4, <1>18 DEF LocationRequestOK, KeySet
  <2>3. \A a \in DOMAIN gps :
          /\ gps[a].admitted <= second /\ gps[a].timestamp <= second
          /\ a \notin unlimited' => rateKey[gps[a].vehicle] >= gps[a].admitted + RateLimitTTL
    BY <1>1, <1>18 DEF RowsPast
  <2> QED
    BY <1>4, <1>7, <1>11, <2>1, <2>2, <2>3 DEF RowsPast
<1>24. ASSUME NEW k \in DOMAIN gps, gps[k].vehicle = q.vehicle,
              k \notin unlimited', l \notin unlimited'
       PROVE  Together(l, k)' \/ q.admitted >= gps[k].admitted + RateLimitTTL
  <2>1. k \in lmissed[r] \/ q.admitted >= gps[k].admitted + RateLimitTTL
    BY <1>1, <1>2, <1>4, <1>18, <1>24 DEF LocationRequestOK, RateHeld, AdmittedFrom
  <2> QED
    BY <1>20, <2>1 DEF Together
<1>25. RateBrokenOnlyByRace'
  <2>1. SUFFICES ASSUME NEW a \in DOMAIN gps', NEW b \in DOMAIN gps', a # b,
                        gps'[a].vehicle = gps'[b].vehicle,
                        gps'[a].admitted <= gps'[b].admitted,
                        gps'[b].admitted < gps'[a].admitted + RateLimitTTL,
                        a \notin unlimited', b \notin unlimited'
                 PROVE  Together(a, b)'
    BY DEF RateBrokenOnlyByRace
  <2>2. CASE a # l /\ b # l
    <3>1. a \in DOMAIN gps /\ b \in DOMAIN gps /\ gps'[a] = gps[a] /\ gps'[b] = gps[b]
          /\ a \notin unlimited /\ b \notin unlimited
      BY <1>11, <1>18, <2>1, <2>2
    <3>2. Together(a, b)
      BY <1>1, <2>1, <3>1 DEF RateBrokenOnlyByRace
    <3> QED
      BY <1>17, <3>2 DEF Together
  <2>3. CASE a = l
    <3>1. b \in DOMAIN gps /\ gps'[b] = gps[b] /\ gps[b].admitted \in Nat
      BY <1>11, <1>13, <2>1, <2>3
    <3>2. q.admitted <= gps[b].admitted /\ q.admitted \in Nat
      BY <1>5, <1>6, <1>7, <1>11, <2>1, <2>3, <3>1
    <3>3. ~(q.admitted >= gps[b].admitted + RateLimitTTL)
      BY <1>6, <3>1, <3>2
    <3> QED
      BY <1>7, <1>11, <1>24, <2>1, <2>3, <3>1, <3>3
  <2>4. CASE b = l
    <3>1. a \in DOMAIN gps /\ gps'[a] = gps[a] /\ gps[a].admitted \in Nat
      BY <1>11, <1>13, <2>1, <2>4
    <3>2. q.admitted < gps[a].admitted + RateLimitTTL /\ q.admitted \in Nat
      BY <1>5, <1>6, <1>7, <1>11, <2>1, <2>4, <3>1
    <3>3. ~(q.admitted >= gps[a].admitted + RateLimitTTL)
      BY <1>6, <3>1, <3>2
    <3>4. Together(l, a)'
      BY <1>7, <1>11, <1>24, <2>1, <2>4, <3>1, <3>3
    <3> QED
      BY <2>4, <3>4 DEF Together
  <2> QED
    BY <2>2, <2>3, <2>4
<1>26. ASSUME NEW v, NEW a \in LocationsOf(v)
       PROVE  a \in LocationsOf(v)' /\ a \in DOMAIN gps /\ a # l
  BY <1>11, <1>13 DEF LocationsOf
<1>27. ShownExists'
  BY <1>1, <1>4, <1>26 DEF ShownExists
<1>28. CacheHeld'
  <2>1. SUFFICES ASSUME NEW v \in Tracked, cache[v] # None
                 PROVE  /\ cache[v].row \in LocationsOf(v)'
                        /\ \A k \in LocationsOf(v)' :
                             Newer(k, cache[v].row)'
                               => \/ \E s \in TrackingRequests : lreq'[s].row = k
                                  \/ k \in uncached
                                  \/ Together(k, cache[v].row)'
    BY <1>4 DEF CacheHeld, Newer, Together
  <2>2. cache[v].row \in LocationsOf(v)
    BY <1>1, <2>1 DEF CacheHeld
  <2>3. ASSUME NEW k \in LocationsOf(v)', k # l, Newer(k, cache[v].row)'
        PROVE  \/ \E s \in TrackingRequests : lreq'[s].row = k
               \/ k \in uncached
               \/ Together(k, cache[v].row)'
    <3>1. k \in LocationsOf(v) /\ Newer(k, cache[v].row) /\ k \in DOMAIN gps
      BY <1>4, <1>11, <1>26, <2>2, <2>3 DEF LocationsOf, Newer
    <3>2. \/ \E s \in TrackingRequests : lreq[s].row = k
          \/ k \in uncached
          \/ Together(k, cache[v].row)
      BY <1>1, <2>1, <3>1 DEF CacheHeld
    <3>3. k # None
      BY <1>6, <1>13, <3>1
    <3>4. \A s \in TrackingRequests : lreq[s].row = k => lreq'[s].row = k
      BY <1>2, <1>5, <1>12, <3>3
    <3>5. Together(k, cache[v].row) => Together(k, cache[v].row)'
      BY <1>4, <1>17 DEF Together
    <3> QED
      BY <3>2, <3>4, <3>5
  <2>4. \E s \in TrackingRequests : lreq'[s].row = l
    BY <1>9, <1>12
  <2> QED
    BY <1>26, <2>2, <2>3, <2>4
<1>29. LocationRequestOK(r)'
  <2>1. l \in LocationsOf(q.vehicle)'
    BY <1>7, <1>11 DEF LocationsOf
  <2>2. ASSUME NEW k \in DOMAIN gps', Newer(k, l)'
        PROVE  Together(k, l)'
    <3>1. k # l
      BY <1>5, <1>6, <1>7, <1>11, <2>2 DEF Newer
    <3>2. k \in DOMAIN gps /\ gps[k].timestamp > q.timestamp
      BY <1>7, <1>11, <2>2, <3>1 DEF Newer
    <3>3. k \in lmissed[r] \/ gps[k].timestamp <= q.timestamp
      BY <1>1, <1>2, <1>4, <3>2 DEF LocationRequestOK, TimeHeld
    <3>4. gps[k].timestamp \in Nat /\ q.timestamp \in Nat
      BY <1>5, <1>6, <1>13, <3>2
    <3>5. k \in lmissed[r]
      BY <3>2, <3>3, <3>4
    <3> QED
      BY <1>20, <3>5 DEF Together
  <2>3. TimeHeld(r)'
    BY <1>9, <1>12, <2>2 DEF TimeHeld
  <2>4. KeySet(r)' /\ RateHeld(r)'
    BY <1>9, <1>12 DEF KeySet, RateHeld
  <2>5. n.admitted <= second /\ n.timestamp <= second
    BY <1>1, <1>2, <1>9 DEF LocationRequestOK
  <2> QED
    BY <1>4, <1>9, <1>12, <2>1, <2>3, <2>4, <2>5 DEF LocationRequestOK
<1>30. ASSUME NEW s \in TrackingRequests \ {r}
       PROVE  LocationRequestOK(s)'
  <2>1. CASE lreq[s] = TrackingIdle
    BY <1>4, <1>6, <1>12, <2>1, IdleOK
  <2>2. CASE lreq[s] # TrackingIdle
    <3>1. lmissed'[s] = lmissed[s] \cup {l} /\ lreq'[s] = lreq[s]
      BY <1>3, <1>12, <2>2
    <3>2. LocationRequestOK(s)
      BY <1>1
    <3>3. KeySet(s)'
      BY <1>4, <3>1, <3>2 DEF LocationRequestOK, KeySet
    <3>4. RateHeld(s)'
      <4>1. AdmittedFrom(s)' = AdmittedFrom(s)
        BY <1>4, <3>1 DEF AdmittedFrom
      <4> QED
        BY <1>11, <1>18, <3>1, <3>2, <4>1 DEF LocationRequestOK, RateHeld
    <3>5. lreq[s].pc = "cache" => lreq[s].row \in LocationsOf(lreq[s].vehicle)
      BY <3>2 DEF LocationRequestOK
    <3>6. TimeHeld(s)'
      <4>1. CASE lreq[s].pc = "insert"
        BY <1>11, <3>1, <3>2, <4>1 DEF LocationRequestOK, TimeHeld
      <4>2. CASE lreq[s].pc = "cache"
        <5>1. lreq[s].row \in DOMAIN gps /\ lreq[s].row # None
          BY <1>6, <1>13, <3>5, <4>2 DEF LocationsOf
        <5>2. Together(l, lreq[s].row)'
          BY <1>21, <3>1, <5>1 DEF Together
        <5>3. \A k \in DOMAIN gps : Newer(k, lreq[s].row) => Together(k, lreq[s].row)
          BY <3>2, <4>2 DEF LocationRequestOK, TimeHeld
        <5>4. \A k \in DOMAIN gps : Newer(k, lreq[s].row)' => Together(k, lreq[s].row)'
          BY <1>11, <1>17, <3>1, <5>1, <5>3 DEF Newer, Together
        <5> QED
          BY <1>11, <3>1, <4>2, <5>2, <5>4 DEF TimeHeld, Newer, Together
      <4>3. CASE lreq[s].pc \notin {"insert", "cache"}
        BY <3>1, <4>3 DEF TimeHeld
      <4> QED
        BY <4>1, <4>2, <4>3
    <3>7. lreq[s].pc = "cache" => lreq[s].row \in LocationsOf(lreq[s].vehicle)'
      BY <1>11, <3>1, <3>5 DEF LocationsOf
    <3>8. lreq'[s].pc = "cache" => lreq'[s].row \in LocationsOf(lreq[s].vehicle)'
      BY <3>1, <3>7
    <3> QED
      BY <1>4, <1>11, <3>1, <3>2, <3>3, <3>4, <3>6, <3>8 DEF LocationRequestOK, LocationsOf
  <2> QED
    BY <2>1, <2>2
<1> QED
  BY <1>19, <1>22, <1>23, <1>25, <1>27, <1>28, <1>29, <1>30 DEF TrackingInv

\* What is emitted or cached last is older than another row of the vehicle only if
\* that row's request and its own were in flight at once.
LEMMA CacheAndEmitInv ==
    ASSUME TrackingInv, NEW r \in TrackingRequests, CacheAndEmit(r)
    PROVE  TrackingInv'
<1>1. /\ TrackingTypeOK /\ TrackingTypeInv /\ KeysBounded /\ CacheHeld /\ ShownExists
      /\ \A s \in TrackingRequests : LocationRequestOK(s)
  BY DEF TrackingInv, TrackingTypeInv
<1>2. PICK v, l : v = lreq[r].vehicle /\ l = lreq[r].row
  OBVIOUS
<1>3. /\ lreq[r].pc = "cache"
      /\ cache' = IF client = "ready"
           THEN [cache EXCEPT ![v] = [row |-> l, expiry |-> second + LocationCacheTTL]]
           ELSE cache
      /\ uncached' = IF client = "ready" THEN uncached ELSE uncached \cup {l}
      /\ shown' = [shown EXCEPT ![v] = l]
      /\ lreq' = [lreq EXCEPT ![r] = TrackingIdle]
      /\ lmissed' = [lmissed EXCEPT ![r] = {}]
      /\ UNCHANGED <<second, client, rateKey, gps, together, unlimited>>
  BY <1>2 DEF CacheAndEmit, LocationReturns
<1>4. /\ l \in LocationsOf(v) /\ l \in Locations /\ v \in Tracked
      /\ \A k \in DOMAIN gps : Newer(k, l) => Together(k, l)
  BY <1>1, <1>2, <1>3, RequestFacts, RowFacts DEF LocationRequestOK, TimeHeld, LocationsOf
<1>5. /\ second \in Nat /\ rateKey \in [Tracked -> Nat] /\ LocationCacheTTL \in Nat
      /\ second + LocationCacheTTL \in Nat
  BY <1>1, TrackingAssumption DEF TrackingTypeOK
<1>6. /\ \A x \in TrackingRequests : lreq'[x] \in TrackingRequest \cup {TrackingIdle}
      /\ lreq' = [x \in TrackingRequests |-> lreq'[x]]
      /\ lreq'[r] = TrackingIdle /\ \A x \in TrackingRequests \ {r} : lreq'[x] = lreq[x]
  BY <1>1, <1>3, LocationSlot
<1>7. /\ lmissed' \in [TrackingRequests -> SUBSET Locations]
      /\ \A x \in TrackingRequests \ {r} : lmissed'[x] = lmissed[x]
  BY <1>1, <1>3 DEF TrackingTypeOK
<1> DEFINE entry == [row |-> l, expiry |-> second + LocationCacheTTL]
<1>8. entry \in CacheEntry /\ entry.row = l
  BY <1>4, <1>5 DEF CacheEntry
<1>9. client = "ready" => cache' = [cache EXCEPT ![v] = entry]
  BY <1>3
<1> HIDE DEF entry
<1>10. /\ cache' = [w \in Tracked |-> cache'[w]]
       /\ \A w \in Tracked \ {v} : cache'[w] = cache[w]
       /\ client = "ready" => cache'[v] = entry
       /\ client # "ready" => cache' = cache
  BY <1>1, <1>3, <1>4, <1>9 DEF TrackingTypeInv
<1>11. \A w \in Tracked : cache'[w] \in CacheEntry \cup {None}
  BY <1>1, <1>8, <1>10 DEF TrackingTypeOK
<1>12. /\ shown' \in [Tracked -> Locations \cup {None}] /\ shown'[v] = l
       /\ \A w \in Tracked \ {v} : shown'[w] = shown[w]
  BY <1>1, <1>3, <1>4 DEF TrackingTypeOK
<1>13. uncached' \subseteq Locations /\ uncached \subseteq uncached'
       /\ (client # "ready" => l \in uncached')
  BY <1>1, <1>3, <1>4 DEF TrackingTypeOK
<1>14. TrackingTypeOK' /\ TrackingTypeInv'
  BY <1>1, <1>3, <1>6, <1>7, <1>10, <1>11, <1>12, <1>13 DEF TrackingTypeOK, TrackingTypeInv
<1>15. \A w : LocationsOf(w)' = LocationsOf(w)
  BY <1>3 DEF LocationsOf
<1>16. ShownExists'
  BY <1>1, <1>4, <1>12, <1>15 DEF ShownExists
<1>17. CacheHeld'
  <2>1. SUFFICES ASSUME NEW w \in Tracked, cache'[w] # None
                 PROVE  /\ cache'[w].row \in LocationsOf(w)
                        /\ \A k \in LocationsOf(w) :
                             Newer(k, cache'[w].row)
                               => \/ \E s \in TrackingRequests : lreq'[s].row = k
                                  \/ k \in uncached'
                                  \/ Together(k, cache'[w].row)
    BY <1>3, <1>15 DEF CacheHeld, Newer, Together
  <2>2. CASE client = "ready" /\ w = v
    <3>1. cache'[w].row = l
      BY <1>8, <1>10, <2>2
    <3>2. LocationsOf(w) \subseteq DOMAIN gps
      BY DEF LocationsOf
    <3> QED
      BY <1>4, <2>2, <3>1, <3>2
  <2>3. CASE client # "ready" \/ w # v
    <3>1. cache'[w] = cache[w]
      BY <1>10, <2>1, <2>3
    <3>2. cache[w].row \in LocationsOf(w)
      BY <1>1, <2>1, <3>1 DEF CacheHeld
    <3>3. ASSUME NEW k \in LocationsOf(w), Newer(k, cache[w].row)
          PROVE  \/ \E s \in TrackingRequests : lreq'[s].row = k
                 \/ k \in uncached'
                 \/ Together(k, cache[w].row)
      <4>1. \/ \E s \in TrackingRequests : lreq[s].row = k
            \/ k \in uncached
            \/ Together(k, cache[w].row)
        BY <1>1, <2>1, <3>1, <3>3 DEF CacheHeld
      <4>2. lreq[r].row = k => k \in uncached'
        BY <1>2, <1>4, <1>13, <2>3, <3>3 DEF LocationsOf
      <4> QED
        BY <1>6, <1>13, <4>1, <4>2
    <3> QED
      BY <3>1, <3>2, <3>3
  <2> QED
    BY <2>2, <2>3
<1>18. second' >= second /\ \A w \in Tracked : rateKey'[w] >= rateKey[w]
  BY <1>3, <1>5
<1>19. UNCHANGED <<gps, unlimited, together>>
  BY <1>3
<1>20. RowsPast' /\ RateBrokenOnlyByRace'
  BY <1>14, <1>18, <1>19, RowsStay
<1>21. KeysBounded'
  BY <1>1, <1>3 DEF KeysBounded
<1>22. LocationRequestOK(r)'
  BY <1>3, <1>5, <1>6, IdleOK
<1>23. ASSUME NEW x \in TrackingRequests \ {r}
       PROVE  LocationRequestOK(x)'
  BY <1>6, <1>7, <1>14, <1>18, <1>19, RequestStays
<1> QED
  BY <1>14, <1>16, <1>17, <1>20, <1>21, <1>22, <1>23 DEF TrackingInv

\* Steps that leave rows, cache and clock's past alone, and end requests or none.
LEMMA QuietStep ==
    ASSUME TrackingInv, UNCHANGED <<rateKey, cache, gps, shown, together, unlimited>>,
           client' \in {"wait", "ready", "end"},
           second' \in Instants, second' >= second,
           lreq' = [x \in TrackingRequests |-> lreq'[x]],
           lmissed' \in [TrackingRequests -> SUBSET Locations],
           uncached' \subseteq Locations, uncached \subseteq uncached',
           \A s \in TrackingRequests :
               \/ lreq'[s] = lreq[s] /\ lmissed'[s] = lmissed[s]
               \/ /\ lreq'[s] = TrackingIdle
                  /\ lreq[s].row = None \/ lreq[s].row \in uncached'
    PROVE  TrackingInv'
<1>1. TrackingTypeOK /\ TrackingTypeInv /\ KeysBounded
  BY DEF TrackingInv, TrackingTypeInv
<1>2. second \in Nat /\ second' \in Nat /\ rateKey \in [Tracked -> Nat]
      /\ RateLimitTTL \in Nat
  BY <1>1, TrackingAssumption DEF TrackingTypeOK
<1>3. \A x \in TrackingRequests : lreq'[x] \in TrackingRequest \cup {TrackingIdle}
  BY <1>1 DEF TrackingTypeOK
<1>4. TrackingTypeOK' /\ TrackingTypeInv'
  BY <1>1, <1>3 DEF TrackingTypeOK, TrackingTypeInv
<1>5. \A w \in Tracked : rateKey'[w] >= rateKey[w]
  BY <1>2
<1>6. UNCHANGED <<gps, unlimited, together>> /\ UNCHANGED <<gps, cache, shown, together>>
  OBVIOUS
<1>7. RowsPast' /\ RateBrokenOnlyByRace'
  BY <1>4, <1>5, <1>6, RowsStay
<1>8. CacheHeld' /\ ShownExists'
  BY <1>6, CacheStays
<1>9. KeysBounded'
  BY <1>1, <1>2 DEF KeysBounded
<1>10. ASSUME NEW x \in TrackingRequests
       PROVE  LocationRequestOK(x)'
  <2>1. CASE lreq'[x] = TrackingIdle
    BY <1>2, <2>1, IdleOK
  <2>2. CASE lreq'[x] = lreq[x] /\ lmissed'[x] = lmissed[x]
    BY <1>4, <1>5, <1>6, <2>2, RequestStays
  <2> QED
    BY <2>1, <2>2
<1> QED
  BY <1>4, <1>7, <1>8, <1>9, <1>10 DEF TrackingInv

\* A request that fails has inserted nothing.
LEMMA SaveLocationFailsInv ==
    ASSUME TrackingInv, NEW r \in TrackingRequests, SaveLocationFails(r)
    PROVE  TrackingInv'
<1>1. TrackingTypeOK /\ TrackingTypeInv /\ LocationRequestOK(r)
  BY DEF TrackingInv, TrackingTypeInv
<1>2. /\ lreq[r].pc \in {"lookup", "insert"}
      /\ lreq' = [lreq EXCEPT ![r] = TrackingIdle]
      /\ lmissed' = [lmissed EXCEPT ![r] = {}]
      /\ UNCHANGED <<second, client, rateKey, cache, gps, shown, together, unlimited, uncached>>
  BY DEF SaveLocationFails, LocationReturns
<1>3. lreq[r].row = None
  BY <1>1, <1>2 DEF LocationRequestOK
<1>4. /\ lreq' = [x \in TrackingRequests |-> lreq'[x]]
      /\ lreq'[r] = TrackingIdle /\ \A x \in TrackingRequests \ {r} : lreq'[x] = lreq[x]
  BY <1>1, <1>2, LocationSlot
<1>5. /\ lmissed' \in [TrackingRequests -> SUBSET Locations]
      /\ \A x \in TrackingRequests \ {r} : lmissed'[x] = lmissed[x]
      /\ client' \in {"wait", "ready", "end"} /\ second' \in Instants
      /\ uncached' \subseteq Locations
  BY <1>1, <1>2 DEF TrackingTypeOK
<1>6. second' >= second
  BY <1>1, <1>2, TrackingAssumption DEF TrackingTypeOK
<1> QED
  BY <1>2, <1>3, <1>4, <1>5, <1>6, QuietStep

\* The client and the clock move, and no request does.
LEMMA ClientAndClockInv ==
    ASSUME TrackingInv, ClientConnects \/ ClientLost \/ SecondsPass \/ UNCHANGED trackingVars
    PROVE  TrackingInv'
<1>1. TrackingTypeOK /\ TrackingTypeInv
  BY DEF TrackingInv, TrackingTypeInv
<1>2. second \in Instants /\ second \in Nat /\ Instants \subseteq Nat
  BY <1>1, TrackingAssumption DEF TrackingTypeOK
<1>3. UNCHANGED <<rateKey, cache, gps, shown, lreq, lmissed, together, unlimited, uncached>>
  BY DEF ClientConnects, ClientLost, SecondsPass, trackingVars
<1>4. client' \in {"wait", "ready", "end"}
  BY <1>1 DEF ClientConnects, ClientLost, SecondsPass, trackingVars, TrackingTypeOK
<1>5. second' \in Instants /\ second' >= second
  BY <1>2 DEF ClientConnects, ClientLost, SecondsPass, trackingVars
<1>6. /\ lreq' = [x \in TrackingRequests |-> lreq'[x]]
      /\ lmissed' \in [TrackingRequests -> SUBSET Locations] /\ uncached' \subseteq Locations
  BY <1>1, <1>3 DEF TrackingTypeOK, TrackingTypeInv
<1> QED
  BY <1>3, <1>4, <1>5, <1>6, QuietStep

\* A restart forgets the requests; their rows stay, and were never cached.
LEMMA TrackingRestartsInv ==
    ASSUME TrackingInv, TrackingRestarts
    PROVE  TrackingInv'
<1>1. /\ TrackingTypeOK /\ TrackingTypeInv
      /\ \A s \in TrackingRequests : LocationRequestOK(s)
  BY DEF TrackingInv, TrackingTypeInv
<1>2. /\ client' = "wait"
      /\ lreq' = [r \in TrackingRequests |-> TrackingIdle]
      /\ lmissed' = [r \in TrackingRequests |-> {}]
      /\ uncached' = uncached \cup
           {lreq[r].row : r \in {q \in TrackingRequests : lreq[q].pc = "cache"}}
      /\ UNCHANGED <<second, rateKey, cache, gps, shown, together, unlimited>>
  BY DEF TrackingRestarts
<1>3. second' \in Instants /\ second' >= second
  BY <1>1, <1>2, TrackingAssumption DEF TrackingTypeOK
<1>4. \A s \in TrackingRequests : lreq[s].row = None \/ lreq[s].row \in uncached'
  BY <1>1, <1>2 DEF LocationRequestOK
<1>5. uncached' \subseteq Locations
  <2>1. ASSUME NEW s \in TrackingRequests, lreq[s].pc = "cache"
        PROVE  lreq[s].row \in Locations
    <3>1. lreq[s].row \in LocationsOf(lreq[s].vehicle)
      BY <1>1, <2>1 DEF LocationRequestOK
    <3> QED
      BY <1>1, <3>1, RowFacts DEF LocationsOf
  <2> QED
    BY <1>1, <1>2, <2>1 DEF TrackingTypeOK
<1>6. /\ lreq' = [x \in TrackingRequests |-> lreq'[x]]
      /\ \A s \in TrackingRequests : lreq'[s] = TrackingIdle
      /\ lmissed' \in [TrackingRequests -> SUBSET Locations]
      /\ uncached \subseteq uncached'
  BY <1>2
<1> QED
  BY <1>2, <1>3, <1>4, <1>5, <1>6, QuietStep

\* Every step of TrackingService, of its client and of the clock.
THEOREM TrackingNextInv ==
    ASSUME TrackingInv, TrackingNext \/ UNCHANGED trackingVars
    PROVE  TrackingInv'
BY SaveLocationInv, SetRateLimitInv, FindTrackedVehicleInv, InsertLocationInv,
   CacheAndEmitInv, SaveLocationFailsInv, ClientAndClockInv, TrackingRestartsInv
   DEF TrackingNext

----------------------------------------------------------------------------
(***************************************************************************)
(* The composition                                                         *)
(***************************************************************************)

\* The three invariants hold at the start.
LEMMA MonitoringInvInit ==
    ASSUME Init
    PROVE  MonitoringInv
<1>1. QueueInv
  BY QueueInvInit DEF Init, JobsInit
<1> QED
  BY <1>1, TrackingInvInit, DetectionInvInit DEF Init, MonitoringInv

\* A step of the tracking service alone leaves the jobs as they were.
LEMMA UnchangedJobsInv ==
    ASSUME QueueInv, DetectionInv, UNCHANGED jobsVars
    PROVE  QueueInv' /\ DetectionInv'
<1>1. UNCHANGED queueVars /\ UNCHANGED monitorVars /\ worker' = worker
  BY DEF jobsVars, queueVars
<1> QED
  BY <1>1, UnchangedQueueInv, QueueOnlyDetection

\* A location that is stored is one the detection finds; every other step is of one
\* part alone.
LEMMA MonitoringInvNext ==
    ASSUME MonitoringInv, [Next]_vars
    PROVE  MonitoringInv'
<1>1. TrackingInv /\ QueueInv /\ DetectionInv
  BY DEF MonitoringInv
<1>2. CASE TrackingAct
  <2>1. TrackingInv'
    BY <1>1, <1>2, TrackingNextInv DEF TrackingAct
  <2>2. CASE UNCHANGED jobsVars
    BY <1>1, <2>1, <2>2, UnchangedJobsInv DEF MonitoringInv
  <2>3. ASSUME NEW l \in DOMAIN gps', VehicleReports(gps'[l].vehicle)
        PROVE  MonitoringInv'
    <3>1. gps'[l].vehicle \in Tracked
      BY <2>1, <2>3, RowFacts DEF TrackingInv, TrackingTypeInv, TrackingTypeOK, GpsLocation
    <3>2. gps'[l].vehicle \in TripVehicles
      BY <3>1, MonitoringAssumption
    <3> QED
      BY <1>1, <2>1, <2>3, <3>2, VehicleReportsInv DEF MonitoringInv
  <2> QED
    BY <1>2, <2>2, <2>3 DEF TrackingAct
<1>3. CASE JobsAct
  BY <1>1, <1>3, JobsNextInv, TrackingNextInv DEF JobsAct, MonitoringInv
<1>4. CASE UNCHANGED vars
  BY <1>1, <1>4, TrackingNextInv, UnchangedJobsInv DEF vars, MonitoringInv
<1> QED
  BY <1>2, <1>3, <1>4 DEF Next

(***************************************************************************)
(* The inductive invariant holds in every reachable state, for any number  *)
(* of vehicles, rows, requests, processes and faults, any clock and any    *)
(* lifetime of the keys.                                                   *)
(***************************************************************************)
THEOREM MonitoringInvariant == Spec => []MonitoringInv
<1>1. Init => MonitoringInv
  BY MonitoringInvInit
<1>2. MonitoringInv /\ [Next]_vars => MonitoringInv'
  BY MonitoringInvNext
<1> QED
  BY <1>1, <1>2, PTL DEF Spec

\* Locations, cached copies, jobs, runs and requests in flight keep their types.
THEOREM MonitoringTypeCorrect == Spec => []TypeOK
<1>1. MonitoringInv => TypeOK
  BY DEF MonitoringInv, TrackingInv, TrackingTypeInv, DetectionInv, TypeOK
<1> QED
  BY <1>1, MonitoringInvariant, PTL

(***************************************************************************)
(* "max 1 update per vehicle per 5 seconds" (tracking.service.ts): two     *)
(* rows of a vehicle are admitted within the limit only by saveLocations   *)
(* that were in flight at once, or without Redis.                          *)
(***************************************************************************)
THEOREM LimitNeedsRace == Spec => []RateBrokenOnlyByRace
<1>1. MonitoringInv => RateBrokenOnlyByRace
  BY DEF MonitoringInv, TrackingInv
<1> QED
  BY <1>1, MonitoringInvariant, PTL

\* getLatest's answer, from the cache or from the table, is the vehicle's newest row
\* but for a newer one that is on its way, was never cached, or raced it.
THEOREM AnswersAreLatest == Spec => []LatestIsNewest
<1>1. ASSUME MonitoringInv
      PROVE  LatestIsNewest
  <2>1. SUFFICES ASSUME NEW v \in Tracked, NEW l \in LatestAnswers(v),
                        NEW k \in LocationsOf(v), Newer(k, l)
                 PROVE  \/ \E r \in TrackingRequests : lreq[r].row = k
                        \/ k \in uncached
                        \/ Together(k, l)
    BY DEF LatestIsNewest
  <2>2. CASE client = "ready" /\ Cached(v)
    <3>1. l = cache[v].row /\ cache[v] # None
      BY <2>1, <2>2 DEF LatestAnswers, Cached
    <3> QED
      BY <1>1, <2>1, <3>1 DEF MonitoringInv, TrackingInv, CacheHeld
  <2>3. CASE ~(client = "ready" /\ Cached(v))
    BY <2>1, <2>3 DEF LatestAnswers
  <2> QED
    BY <2>2, <2>3
<1> QED
  BY <1>1, MonitoringInvariant, PTL

\* The tenant's room is shown an older location after a newer one only by a request
\* that was in flight when the newer one was stored.
THEOREM ShownGoesForward == Spec => ShownBackOnlyByRace
<1>1. ASSUME MonitoringInv, [Next]_vars
      PROVE  [\A v \in Tracked :
                shown[v] # None => ~Newer(shown[v], shown'[v]) \/ Together(shown[v], shown'[v])
             ]_shown
  <2>1. TrackingInv /\ TrackingTypeOK /\ ShownExists
    BY <1>1 DEF MonitoringInv, TrackingInv, TrackingTypeInv
  <2>2. CASE shown' = shown
    BY <2>2
  <2>3. CASE \E r \in TrackingRequests : CacheAndEmit(r)
    <3>1. PICK r \in TrackingRequests : CacheAndEmit(r)
      BY <2>3
    <3>2. /\ lreq[r].pc = "cache"
          /\ shown' = [shown EXCEPT ![lreq[r].vehicle] = lreq[r].row]
      BY <3>1 DEF CacheAndEmit
    <3>3. SUFFICES ASSUME NEW v \in Tracked, shown[v] # None, Newer(shown[v], shown'[v])
                   PROVE  Together(shown[v], shown'[v])
      OBVIOUS
    <3>4. shown[v] \in DOMAIN gps
      BY <2>1, <3>3 DEF ShownExists, LocationsOf
    <3>5. CASE v # lreq[r].vehicle
      <4>1. shown'[v] = shown[v] /\ gps[shown[v]].timestamp \in Nat
        BY <2>1, <3>2, <3>4, <3>5, RowFacts DEF TrackingTypeOK
      <4> QED
        BY <3>3, <4>1 DEF Newer
    <3>6. CASE v = lreq[r].vehicle
      <4>1. shown'[v] = lreq[r].row
        BY <2>1, <3>2, <3>6 DEF TrackingTypeOK
      <4> QED
        BY <2>1, <3>2, <3>3, <3>4, <4>1 DEF TrackingInv, LocationRequestOK, TimeHeld
    <3> QED
      BY <3>5, <3>6
  <2> QED
    BY <1>1, <2>2, <2>3
       DEF Next, TrackingAct, JobsAct, TrackingNext, SaveLocation, SetRateLimit,
           FindTrackedVehicle, InsertLocation, SaveLocationFails, ClientConnects,
           ClientLost, TrackingRestarts, SecondsPass, vars, trackingVars
<1> QED
  BY <1>1, MonitoringInvariant, PTL DEF Spec, ShownBackOnlyByRace

(***************************************************************************)
(* The schedule (jobs.service.ts, scheduleJobs): while a process is up, a  *)
(* job is missing from Redis only if a process that is starting has it     *)
(* still to add, or one cut short had, however many processes restart.     *)
(***************************************************************************)
THEOREM ScheduleNeedsHalfBoot == Spec => []ScheduleLostOnlyByHalfBoot
<1>1. ASSUME MonitoringInv
      PROVE  ScheduleLostOnlyByHalfBoot
  <2>1. SUFFICES ASSUME NEW p \in Processes, boot[p].pc = "up"
                 PROVE  JobNames \subseteq
                          repeatables \cup cut \cup UNION {ToAdd(x) : x \in Processes}
    BY DEF ScheduleLostOnlyByHalfBoot
  <2>2. \A k \in JobNames : Covered(k)
    BY <1>1, <2>1 DEF MonitoringInv, QueueInv, JobNames
  <2> QED
    BY <2>2 DEF Covered
<1> QED
  BY <1>1, MonitoringInvariant, PTL

\* runOfflineDetection alerts a second time to a vehicle with a recent unread alert
\* only when another run, beside it, created the first, or when the first mentions
\* another registration number, which VehiclesService.update has changed since.
THEOREM RepeatNeedsRaceOrRename == Spec => OfflineRepeatOnlyByRaceOrRename
<1>1. ASSUME MonitoringInv, NEW p \in Processes, CreateOfflineAlerts(p),
             NEW x \in run[p].found, NEW y \in offline,
             y.vehicle = x.vehicle, y \notin beside[p]
      PROVE  x.vehicle \in renamed /\ ~Mentions(y, x.number)
  <2>1. DetectionInv /\ run[p].job = "offline-detection"
    BY <1>1 DEF MonitoringInv, CreateOfflineAlerts, AlertsCreated
  <2>2. ~Mentions(y, x.number) /\ Current(x) /\ Current(y)
    BY <1>1, <2>1 DEF DetectionInv
  <2>3. y.number # x.number
    BY <2>2 DEF Mentions
  <2> QED
    BY <1>1, <2>2, <2>3 DEF Current
<1>2. ASSUME MonitoringInv, [Next]_vars
      PROVE  [\A p \in Processes :
                CreateOfflineAlerts(p) =>
                  \A x \in run[p].found, y \in offline :
                     y.vehicle = x.vehicle =>
                       \/ y \in beside[p]
                       \/ x.vehicle \in renamed /\ ~Mentions(y, x.number)]_jobsVars
  BY <1>1, <1>2
<1> QED
  BY <1>2, MonitoringInvariant, PTL DEF Spec, OfflineRepeatOnlyByRaceOrRename

=============================================================================
