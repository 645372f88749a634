-------------------------------- MODULE Garage --------------------------------
(***************************************************************************)
(* What is logged against a vehicle: WorkshopService's job cards, whose    *)
(* total is incremented with every item, and FuelService's logs, whose     *)
(* odometer readings may not go back.  The vehicle's lookup leaves no      *)
(* trace, so a request starts where it has been found.                     *)
(***************************************************************************)
EXTENDS Tables, FiniteSetsExt

CONSTANTS
    Vehicles,         \* vehicles of the requests' tenant
    Jobs,             \* bound: job cards that can ever be created
    Items,            \* bound: items that can ever be added
    Logs,             \* bound: fuel logs that can ever be added
    Costs, Readings,  \* bound: what a DTO can say
    GarageRequests    \* bound: requests in flight at once

ASSUME GarageAssumption == Costs \subseteq Nat /\ Readings \subseteq Nat

VARIABLES
    jobs,       \* jobs[j]: status and totalCost
    items,      \* items[i]: the job and the cost
    fuelLogs,   \* fuelLogs[l]: the vehicle and the odometer
    wreq,       \* wreq[r]: the handler in slot r, after its first query
    wmissed     \* history: jobs and logs written since r's query

garageVars == <<jobs, items, fuelLogs, wreq, wmissed>>

WorkshopJobStatus == {"OPEN", "IN_PROGRESS", "COMPLETED", "CANCELLED"}

GarageIdle == [op |-> "none"]

GarageRequest ==
    [op : {"item"}, job : Jobs, cost : Costs]
      \cup [op : {"status"}, job : Jobs, status : WorkshopJobStatus]
      \cup [op : {"fuel"}, vehicle : Vehicles, odometer : Readings]

GarageTypeOK ==
    /\ DOMAIN jobs \subseteq Jobs
    /\ jobs \in [DOMAIN jobs -> [status : WorkshopJobStatus, totalCost : Nat]]
    /\ DOMAIN items \subseteq Items /\ items \in [DOMAIN items -> [job : Jobs, cost : Costs]]
    /\ DOMAIN fuelLogs \subseteq Logs
    /\ fuelLogs \in [DOMAIN fuelLogs -> [vehicle : Vehicles, odometer : Readings]]
    /\ \A r \in GarageRequests : wreq[r] \in GarageRequest \cup {GarageIdle}
    /\ wmissed \in [GarageRequests -> SUBSET (Jobs \cup Logs)]

GarageInit ==
    /\ jobs = <<>>
    /\ items = <<>>
    /\ fuelLogs = <<>>
    /\ wreq = [r \in GarageRequests |-> GarageIdle]
    /\ wmissed = [r \in GarageRequests |-> {}]

AcceptGarage(r, request) ==
    /\ wreq[r] = GarageIdle
    /\ wreq' = [wreq EXCEPT ![r] = request]
    /\ UNCHANGED <<jobs, items, fuelLogs, wmissed>>

\* r wrote x and returned.
GarageWritten(r, x) ==
    /\ wreq' = [wreq EXCEPT ![r] = GarageIdle]
    /\ wmissed' = [s \in GarageRequests |->
                     IF s # r /\ wreq[s] # GarageIdle THEN wmissed[s] \cup {x} ELSE {}]

----------------------------------------------------------------------------
(***************************************************************************)
(* WorkshopService                                                         *)
(***************************************************************************)

\* Nothing that createJob() read bears on what it inserts.
CreateJob ==
    /\ \E j \in Jobs \ DOMAIN jobs : jobs' = Insert(jobs, j, [status |-> "OPEN", totalCost |-> 0])
    /\ UNCHANGED <<items, fuelLogs, wreq, wmissed>>

\* Mutant: a completed job takes items.
AddItemToAny(r) ==
    \E j \in DOMAIN jobs, cost \in Costs :
        AcceptGarage(r, [op |-> "item", job |-> j, cost |-> cost])

AddItem(r) ==
    \E j \in DOMAIN jobs, cost \in Costs :
        /\ jobs[j].status # "COMPLETED"
        /\ AcceptGarage(r, [op |-> "item", job |-> j, cost |-> cost])

\* Mutant: the item and the increment are not one transaction.
CommitItemAlone(r) ==
    LET q == wreq[r] IN
    /\ q.op = "item"
    /\ \E i \in Items \ DOMAIN items : items' = Insert(items, i, [job |-> q.job, cost |-> q.cost])
    /\ GarageWritten(r, q.job)
    /\ UNCHANGED <<jobs, fuelLogs>>

\* One transaction: the item, and the increment of the stored total.
CommitItem(r) ==
    LET q == wreq[r] IN
    /\ q.op = "item"
    /\ \E i \in Items \ DOMAIN items : items' = Insert(items, i, [job |-> q.job, cost |-> q.cost])
    /\ jobs' = [jobs EXCEPT ![q.job].totalCost = @ + q.cost]
    /\ GarageWritten(r, q.job)
    /\ UNCHANGED fuelLogs

\* A job goes from any status to any other.
UpdateStatus(r) ==
    \E j \in DOMAIN jobs, status \in WorkshopJobStatus \ {"OPEN"} :
        AcceptGarage(r, [op |-> "status", job |-> j, status |-> status])

WriteStatus(r) ==
    LET q == wreq[r] IN
    /\ q.op = "status"
    /\ jobs' = [jobs EXCEPT ![q.job].status = q.status]
    /\ GarageWritten(r, q.job)
    /\ UNCHANGED <<items, fuelLogs>>

----------------------------------------------------------------------------
(***************************************************************************)
(* FuelService                                                             *)
(***************************************************************************)

\* Mutant: the last log is any log.
AddLogAfterAny(r) ==
    \E v \in Vehicles, reading \in Readings :
        /\ \/ \A l \in DOMAIN fuelLogs : fuelLogs[l].vehicle # v
           \/ \E l \in DOMAIN fuelLogs :
                fuelLogs[l].vehicle = v /\ reading >= fuelLogs[l].odometer
        /\ AcceptGarage(r, [op |-> "fuel", vehicle |-> v, odometer |-> reading])

\* The last recorded reading is the greatest one.
AddLog(r) ==
    \E v \in Vehicles, reading \in Readings :
        /\ \A l \in DOMAIN fuelLogs :
             fuelLogs[l].vehicle = v => reading >= fuelLogs[l].odometer
        /\ AcceptGarage(r, [op |-> "fuel", vehicle |-> v, odometer |-> reading])

InsertLog(r) ==
    LET q == wreq[r] IN
    /\ q.op = "fuel"
    /\ \E l \in Logs \ DOMAIN fuelLogs :
         /\ fuelLogs' = Insert(fuelLogs, l, [vehicle |-> q.vehicle, odometer |-> q.odometer])
         /\ GarageWritten(r, l)
    /\ UNCHANGED <<jobs, items>>

GarageRequestFails(r) ==
    /\ wreq[r] # GarageIdle
    /\ wreq' = [wreq EXCEPT ![r] = GarageIdle]
    /\ wmissed' = [wmissed EXCEPT ![r] = {}]
    /\ UNCHANGED <<jobs, items, fuelLogs>>

GarageNext ==
    \/ CreateJob
    \/ \E r \in GarageRequests :
         \/ AddItem(r) \/ CommitItem(r)
         \/ UpdateStatus(r) \/ WriteStatus(r)
         \/ AddLog(r) \/ InsertLog(r)
         \/ GarageRequestFails(r)

----------------------------------------------------------------------------
(***************************************************************************)
(* Properties.                                                             *)
(***************************************************************************)

\* "Atomic cost tracking": a job's total is the sum of its items, whichever
\* items are added at once and whatever fails.
TotalIsSumOfItems ==
    \A j \in DOMAIN jobs :
        jobs[j].totalCost =
          MapThenSumSet(LAMBDA i : items[i].cost, {i \in DOMAIN items : items[i].job = j})

\* "Cannot add items to a completed job": one is added only if the job was
\* completed between the request's read and its commit.
ItemsAfterCompletionOnlyByRace ==
    [][\A r \in GarageRequests :
             /\ wreq[r].op = "item" /\ wreq'[r] = GarageIdle
             /\ jobs[wreq[r].job].status = "COMPLETED"
          => wreq[r].job \in wmissed[r]]_items

\* "Odometer reading cannot be less than the last recorded reading": it is only
\* less than one that was recorded between the request's read and its insert.
OdometerBackOnlyByRace ==
    [][\A r \in GarageRequests :
          wreq[r].op = "fuel" /\ wreq'[r] = GarageIdle
          => \A l \in DOMAIN fuelLogs :
                /\ fuelLogs[l].vehicle = wreq[r].vehicle
                /\ fuelLogs[l].odometer > wreq[r].odometer
                => l \in wmissed[r]]_fuelLogs

=============================================================================
