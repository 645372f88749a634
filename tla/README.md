# Node-vms: a TLA+ verification of its fleet, identity, office and monitoring

Node-vms is a multi-tenant vehicle management backend (NestJS, Prisma on PostgreSQL, Redis,
BullMQ). This directory holds TLA+ modules translated from its source, TLC configurations that
check them on small instances, and theorems that TLAPS checks for every instance. Paths below are
relative to the repository.

    tlc -workers 2 -config bookings_race.cfg MCFleet      # one run of the fleet
    tlc -workers 2 -config identity.cfg MCIdentity        # accounts and sessions
    tlc -workers 2 -config office.cfg MCOffice            # branches, contracts, flags, workshop, fuel, passwords
    tlc -workers 2 -config monitoring.cfg MCMonitoring    # locations, background jobs, alerts
    tlapm FleetProofs.tla                                 # the fleet's theorems; likewise IdentityProofs,
                                                          # OfficeProofs, MonitoringProofs and what they extend

## 1. The system

Every request passes four global guards (JWT and Redis blacklist, role, tenant, feature) and
reaches a handler: an `async` method of a service that alternates awaited Prisma calls and plain
JavaScript. Node runs one handler between two awaits, so handlers of concurrent requests interleave
at *every awaited query*. The database runs with its default isolation (READ COMMITTED), most
handlers are read - check - write without a transaction, and the writes name their row by id alone.
That window between the reads that justify a write and the write is the system's main hazard.
Two background jobs run beside the requests, handed out by a BullMQ queue in Redis to whichever server
process is free; there crashes, lost locks and half-done scheduling are the hazards.

### Components

| Component (`src/src/...`) | State | Operations that change it | Interacts with | What is hard | What makes it correct |
|---|---|---|---|---|---|
| bookings | Booking rows: vehicle, driver, period, status | create, confirm, cancel, assign | calls scheduling; reads vehicle, trip, assignment, maintenance tables | six reads before one write; `assign` checks only what differs from the row it read | no two active bookings hold one vehicle at once; status goes PENDING - CONFIRMED - ..., CANCELLED is final |
| scheduling | none | none (queries) | called by bookings | four queries with different bounds (half-open, closed) | answers *available* only if nothing holds the vehicle or driver |
| trips | Trip rows; writes Vehicle.status and Driver.isAvailable | startTrip, endTrip, updateTrip | reads assignments, vehicles, drivers; the clock | four reads before the transaction; an instant stored long after it was read | one active trip per vehicle; what start took, end gives back; an end is final |
| assignments | Assignment rows (soft deleted) | create, update, remove | reads vehicles and drivers | two overlap queries before the insert; `update` without them, with partial DTOs | one vehicle and one driver per period; dates in order; one tenant |
| vehicles, drivers | rows, status / isAvailable, soft deletion | create, update, remove | administrators write what trips write | same columns as trips, no coordination; uniqueness checked by lookup | an override does not break the trips' own bookkeeping; identifiers unique |
| maintenance | logs | create | read by scheduling | | |
| auth, guards | User, Tenant; Redis blacklist | register, login, refresh, logout, seed | every request | guard read, later handler write; blacklist TTL; Redis down | a revoked user or token stops working |
| admin-applications, users, tenants | User.approvalStatus, isActive, role; Tenant.isActive | approve, reject, suspend, reactivate, update, remove | read by guards and login | two decisions on one application | user and tenant agree |
| feature-access | FeatureAccess rows | enable, disable | read by FeatureGuard | find-or-create in two queries, no unique index | the guard obeys the last call |
| branches | Branch rows; links from users, vehicles, drivers | create, update, remove | users, vehicles, drivers validate the branch they link to | a validated link is written after the branch was removed | unique names; no link to a removed branch; one tenant |
| entity validator | none | none (lookups) | called by vehicles, drivers, users, contracts | counts rows that are not deleted, the unique index counts all | a duplicate key is a 409 |
| contracts | Contract rows; creates a vehicle | create, update, remove | vehicles; `vehicles.create` creates contracts | partial updates of two dates; two inserts | dates in order; a source contract and its vehicle come together |
| workshop, fuel | WorkshopJob totals, WorkshopItem rows; FuelLog rows | create, add item, set status; add log | vehicles | total kept beside its items; status and odometer tested before the write | total = sum of items; none after completion; odometer never goes back |
| profile | User.password | changePassword | resets by users and admin-applications | bcrypt between read and write | who does not know a password does not replace it |
| tracking, gateway | GpsLocation rows, Redis cache and rate key, the tenant's room | saveLocation | vehicles; offline detection | four writes in a row, in two stores, one of which may be gone | the latest location is the newest; one update per 5 seconds |
| alerts | Alert rows | scan, markRead, dismiss | jobs; vehicles, contracts, documents | repeated and failing scans | what expires is reported |
| jobs | repeatable jobs and the queue in Redis; the runs | start, stop, daily scan, offline detection | alerts, GPS rows, trips' vehicle status | restarts clear and refill the schedule; a job handed out twice | both jobs stay scheduled; a silent vehicle is reported, once an hour unless runs race or it is renamed |
| documents, expenses, income, subscriptions, accounting, reports, audit | single rows or aggregates | inserts, updates of one row | none | little | |
| database, redis, bootstrap, interceptors, filters, pipes | connections, formatting | none | | | |

`PROJECT.json` lists every component with its status and every hazard at its line.

## 2. What is modelled

| Module | Source | Contents |
|---|---|---|
| `FleetTables` | `src/prisma/schema.prisma` | the shared tables, their row types, a freshly registered fleet |
| `Scheduling` | `scheduling.service.ts` | the six availability queries as predicates |
| `Bookings` | `bookings.service.ts` | create, confirm, cancel, assign, one action per awaited query |
| `Trips` | `trips.service.ts` | startTrip, endTrip, updateTrip; reading the clock is a step |
| `Assignments` | `assignments.service.ts` | create, update, remove |
| `Registry` | `vehicles`, `drivers`, `maintenance` services | what administrators write to the same tables |
| `Fleet` | all of these | the composition, the clock, fairness, the refinement mapping |
| `BookingLedger` | | the abstract specification of bookings: Enter, Confirm, Cancel, Move take effect at once |
| `MCFleet`, `MCFleetParts` | | instantiation for TLC: symmetry, seeded initial states, fair specifications; the fleet one part at a time |
| `Accounts` | `admin-applications`, `tenants`, `users` services, `registerTenant` of `auth.service.ts` | every request that changes a user or a tenant, a lookup and a write |
| `Sessions` | the rest of `auth.service.ts`, `auth.guard.ts`, `tenant.guard.ts`, `redis.module.ts` | login, refresh, the two guards, logout, the blacklist and its TTL, the connection to Redis |
| `Identity` | both | the composition, the clock in seconds, the restart of the process |
| `MCIdentity` | | instantiation for TLC, one part at a time |
| `Tables` | `schema.prisma` | what the modules below share: tenants, NULL, undefined, insertion |
| `Directory` | `branches`, `vehicles`, `drivers`, `users` services, `entity-validator.helper.ts` | branches; create, update and remove of what links to them, as far as unique keys and links go |
| `Contracts` | `contracts.service.ts`, `vehicles.service.ts` (create with a contract) | contracts, in the slots and over the vehicles of `Directory`, which it extends |
| `Features` | `feature-access.service.ts`, `feature.guard.ts` | find-or-create of flags, what the guard may answer |
| `Garage` | `workshop.service.ts`, `fuel.service.ts` | job cards with items and total, fuel logs |
| `Passwords` | `profile`, `users`, `admin-applications` services | change and resets of a password, bcrypt a step of its own |
| `Office` | these five | their composition, the type invariant, references between their rows |
| `MCOffice` | | instantiation for TLC, one part at a time |
| `Tracking` | `tracking.service.ts`, `app.gateway.ts`, `redis.module.ts` | saveLocation, await by await; getLatest; Redis's expiry, loss, and the restart of the process |
| `JobQueue` | `jobs.service.ts` to line 141, BullMQ | how processes schedule jobs when they start, how a due job reaches a worker; faults |
| `Jobs` | `jobs.service.ts` from line 143, `alerts.service.ts` | offline detection, daily scan; extends `JobQueue` |
| `Monitoring` | both | their composition: an inserted location is the detection's last one |
| `MCMonitoring` | | instantiation for TLC, one part at a time |
| `BookingsProofs`, `TripsProofs`, `AssignmentsProofs`, `FleetProofs` | | inductive invariants of the three services, theorems of the fleet, the refinement step by step |
| `IdentityProofs` | | the same for `Accounts`, `Sessions` and `Identity` |
| `DirectoryProofs`, `OfficeProofs` | | for `Directory` and `Contracts`; for `Features`, `Garage`, `Passwords` and the theorems of `Office` |
| `MonitoringProofs` | | for `Tracking`, `JobQueue`, `Jobs` and `Monitoring` |

### Reading the model

* **Handlers are slots.** `breq[r]`, `treq[r]`, `areq[r]`, `greq[r]`, `ureq[r]`, `sreq[r]`, `dreq[r]`,
  `freq[r]`, `wreq[r]`, `preq[r]`, `lreq[r]` hold the handler running in slot `r`: the next query (`pc`, or
  in `Directory` the set `todo` of lookups still to make, in the fixed order `Before`), the operation
  (`op`) and the values that live across awaits. `run[p]` is the same for the job that process `p` runs. A slot is
  idle again when the handler returns or throws. Several slots give every interleaving of that many
  requests; one slot gives requests handled one at a time.
* **One awaited Prisma call is one step**, and so is a `prisma.$transaction([...])` array. What a
  handler does between two awaits belongs to the step before it. `new Date()` stands between two
  awaits of a trip, so time may pass on either side of it: it is a step of its own.
* **Only accepted requests start.** A handler whose first query or DTO check rejects it leaves no
  trace and is not an action. Later rejections free the slot.
* **Crash and failure**: `...RequestFails` frees a slot at any point before the write; in the fleet
  there is nothing else to a crash, because handlers keep nothing but local variables. In `Identity`
  a process also holds its connection to Redis, so `ProcessRestarts` is an action: it frees every slot
  and gives the process a new, unconnected client. In `Tracking` a crash between insert and cache leaves a
  row that was never cached; in `JobQueue` one between removal and addition leaves a job unscheduled.
* **Redis** is unconnected (`wait`) until its first command has connected it, `ready`, or lost for the
  life of the process (`end`), because `retryStrategy` returns null. A command fails unless the
  connection is ready; the guard then sees no blacklist and logout throws. The keys themselves live in
  Redis and survive.
* **Guards of actions are the code's conditions**, including what they leave out: the vehicle's
  status is read by id alone, deletedAt is not looked at by `checkVehicleAvailability`, updates name
  their row by id alone, `update()` of an assignment runs no overlap query.
* **Partial DTOs**: `Absent` is `undefined` (the column is not written), `None` is SQL `NULL`.
* **History variables** take part in no guard. `bmissed[r]`, `tmissed[r]`, `amissed[r]` are the rows
  written since slot `r` made the read that guards its write; at its write they become pairs in
  `braced`, `traced`, `araced`. `edited` holds the assignments `update()` wrote, `overridden` the
  vehicles and drivers whose last status came from an administrator; `uapproved`, `lateRejected`,
  `setByHand` and `loggedOut` are those of accounts and sessions. `dmissed`, `fmissed`, `wmissed`, `pmissed`,
  `lmissed` and `beside` are the same for the office and the monitoring, `cut` the jobs that a boot cut
  short had still to add, `unlimited` and `uncached` the rows that Redis missed. They let properties say *only
  by race* precisely: not "something ran concurrently" but "this row was written inside that
  request's window".

### Abstractions

Names, contacts, prices and notes decide nothing and are left out. Trip.income stands for the four
figures of a trip's DTO, which are all written alike. Instants are a few integers. `Driver.userId` is
unique and never updated, so a driver stands also for its user. Ids are never reused. Availability
reasons are collected by the code and rejected once; the model rejects at the first one, which
writes the same (nothing). In the fleet the guards' work is done when a request enters the model, with the
tenant the guard attached to it. In `Accounts` a user's id stands also for the email, which is unique and never
updated, EMPLOYEE for both roles that an ADMIN manages, and requests are those of callers the role guard
admits. In `Sessions` a token is its user and its expiry, since a JWT signed twice for one user in one
second is the same string; bcrypt accepts the password and takes time.

In `Directory` a vehicle, a driver and a user are members of three kinds, written by the same actions: each
service makes the same lookups in the same order, and `Kinds` decides which of them a DTO can ask for. A key is
the registration number, the email, or a driver's phone and licence taken together. An email is never
updated. A driver's phone or licence, and a branch's name, can be updated to the empty string, for which no
lookup is made (`Empty`): the code asks `if (dto.phone && ...)`, and these DTOs, unlike those of vehicles, admit
it. The unique index counts every row, `EntityValidator` those not deleted. Branch removal unlinks rows
that are themselves removed, too. `CreateContractAndVehicle` is both `POST /contracts` with a vehicle and
`POST /vehicles` with a contract, which do the same. A `findFirst` without `orderBy` may answer with any row.

In `Tracking` instants are seconds, the TTLs constants; the rate limit is about when requests were admitted,
since the stored timestamp is taken after two more awaits. The client behaves as in `Sessions`. In `Jobs` there
is no clock: a location becomes old, an alert settled or an hour old, a job due, in steps of their own, in
any order. The detection follows one tenant's vehicles, since each of its queries is confined to one tenant. A vehicle
has an id and a registration number, and `VehicleRenamed` (`VehiclesService.update`) changes the number to any that
no other vehicle has, as the unique index demands; of its queries only the write concerns the jobs. A run keeps the
number it read first; an alert is a record of the number in its message and, as history, of the vehicle it was
created for, and `offline` is the set of those unread and of the last hour: two alerts alike are one, which no
query tells from one. The duplicate test looks for the number that the run read in the numbers of the
messages (`Mentions`), never for the vehicle; `Longer` are the numbers whose text contains the others'. What a
tenant has expiring is one flag. Of BullMQ the model has: a repeatable job waits at most once, a queue that is
shared, one job at a time per worker, a job whose process died or whose lock was lost is handed out again, and
no retry of a job that failed (`attempts` is 1). The worker takes jobs also in a process whose scheduling
failed, as it does in the code. On a serverless platform `onModuleInit` returns at once and there are no jobs.

## 3. The properties

They are stated at the end of the module they concern.

* `DoubleBookingOnlyByRace` (Bookings): two active bookings of a tenant hold one vehicle at once
  only if one was written inside the other's window. Through create, assign, confirm, cancel in any
  order: for example `assign` skips the check for a vehicle it read as unchanged, and is right to
  only because another assign in between counts as a race. `ImplementsLedger` has the
  plain statement, true for one request at a time: the ledger never gives a vehicle to two bookings.
* `RevivedOnlyByRace` (Bookings): a cancelled booking becomes something else only by a confirm that
  had read it before the cancellation.
* `ImplementsLedger` (Fleet): with one booking slot, `Fleet` implements `BookingLedger`, while trips,
  assignments and administrators may do as they like.
* `TripsCollideOnlyByRace`, `ReleasedEarlyOnlyByRace`, `EndRewrittenOnlyByRace` (Trips): overlapping
  trips of a vehicle, a vehicle not ON_TRIP under an active trip, and an end written twice each need
  a race of two trips (or an administrator, for the second). The window of a trip's request opens at its
  first read and closes at its write: a start that took the clock's instant before another trip's end overlaps
  with that trip although its own active-trip query came after the end.
* `NothingStranded` (Trips): whatever interleaves, a vehicle that trips left ON_TRIP, or a driver
  they left unavailable, has an active trip, whose end releases it.
* `TripTimesOrdered` (Trips): recorded instants are ordered and not in the future although each is
  stored some awaits after it was read.
* `TripBackedByAssignment` (Fleet): every trip is explained by an assignment row that covered its
  start, although the row was read two queries before the trip was stored. It is about the test of the period:
  an assignment that `update()` wrote is exempt, one that was removed since still counts.
* `OverlapOnlyByRaceOrUpdate`, `AssignmentsStayInTenant` (Assignments). `DatesCrossOnlyByRace` (Assignments): the dates of an assignment get out of order only when the row was written
  between the read and the write of an update.
* `EveryRequestReturns` (Fleet): each handler that starts comes back.
* `AdminActiveIffApproved` (Accounts): two columns, written by four operations in any order, always say
  the same of an admin. `refresh` reads one of them and login and the guard both.
* `AdminAndTenantAgree` (Accounts): an admin is approved exactly when the tenant is active, unless the
  tenant was last set by `TenantsService`, or the admin was rejected by a request that had read the
  application before it was approved: `reject` does not write the tenant.
* `OneAdminPerTenant` (Accounts): no registration, refused by the unique index or not, leaves a tenant
  without its admin.
* `LoggedOutStaysOut` (Sessions): between the answer to a logout and the token's expiry the token passes the
  guard only while Redis is out of reach.
* `TokensForApproved` (Sessions): tokens are signed for approved admins only, by `refresh` too, except by
  a login that had read the row before the decision and was still in bcrypt.

* `SameNameOnlyByRace`, `LinkToRemovedOnlyByRace` (Directory): two live branches share a name, or a row is
  linked to a removed branch, only if one was written between the other's first query and its write.
  `ReferencesStayInTenant` (Office): whichever partial updates interleave, a branch, the user behind a driver and
  the vehicle of a contract are of the tenant of the row that refers to them. `IndexRefusesOnlyByRaceOrRemoved`: a key that passed the lookup meets the unique index only by
  a race or because its row was removed; the latter is no race at all and answers with an error that is not
  the helper's 409.
* `ContractDatesInOrder`, `DateLostOnlyByRace` (Contracts): the dates of a contract stay in order through
  updates of one date each that cross, unlike those of an assignment, because `update()` always writes both;
  the price, an update that undoes another's date, is paid only in a race.
* `GuardObeysLastCall` (Features): what the guard answers is what the last call has set, unless two calls that
  both found no row have each inserted one.
* `TotalIsSumOfItems`, `ItemsAfterCompletionOnlyByRace`, `OdometerBackOnlyByRace` (Garage).
* `UnknownReplacedOnlyByRace` (Passwords): who must give the current password replaces one they do not know
  only if it was written, for example reset by an administrator, while bcrypt was at work.
* `RateBrokenOnlyByRace`, `LatestIsNewest`, `ShownBackOnlyByRace` (Tracking): two updates of a vehicle within the
  limit, a cached location older than a stored one, and a position shown that moves back in time each need
  two requests in flight at once, or a Redis that did not answer.
* `ScheduleLostOnlyByHalfBoot`, `ScheduledOrDisabled` (JobQueue): a job is missing from the schedule only while
  a process is about to add it or after one died or failed about to; once faults end, the schedule becomes
  the two jobs for good, whatever an earlier release had left, unless a process gave its scheduling up.
* `OfflineRepeatOnlyByRaceOrRename`, `SilentIsReported` (Jobs): a vehicle is reported twice in an hour only by two
  runs side by side, or when its registration number was changed, so that its first alert does not mention the
  number it is looked for by. The second needs no race: a run, a `PATCH` of the vehicle and the next run within
  the hour leave two unread alerts about one vehicle. A vehicle that stays silent on its trip, under one number,
  is mentioned by an alert again and again.
* `ExpiryIsTold` (Jobs): a tenant with something expiring is told after every due scan, even if another
  tenant's scan always fails.

## 4. The runs

`races` checks `MCFleetParts`, the other runs of the fleet `MCFleet`, the rest the MC module of their name. Deadlock is not checked: nobody has to send a request, ids run out, the
clock stops at its last instant.

| Run | Instance | Shows |
|---|---|---|
| `bookings_race` | 2 vehicles, 2 bookings, instants 0..2, 2 slots | double bookings and revivals only by race |
| `bookings_serial` | seeded fleet with assignments and logs, 2 vehicles, 1 driver, 2 bookings, 1 slot | no double booking; the ledger is implemented |
| `registry` | seeded, 1 trip slot, 1 registry slot, 2 trips | one active trip per vehicle and nothing stranded, against administrators; every request returns |
| `races` | part *trips*: seeded, 1 vehicle, 1 driver, 2 trips, clock 0..1, 2 slots; part *race*: 1 vehicle, 1 driver, 2 assignments, 2 slots | the three *only by race* properties of trips, ordered times; overlapping assignments only by race or update, crossed dates only by race |
| `fleet` | 2 tenants, 1 vehicle, 1 driver, 1 row and 1 slot each for bookings, trips, assignments, clock 0..1 | the type invariant and `TripBackedByAssignment` over the composition; tenants are not mixed. With one assignment slot partial updates do not interleave here: for any number of them it is theorem `AssignmentsOfOneTenant`, as `ReferencesAreTenants` is for the part *tenants* of `office` |
| `identity` | part *accounts*: 2 tenants, 2 emails, 2 slots, no sessions; part *sessions*: 1 tenant, 1 user, 1 account slot (registration, decisions, a tenant activated by hand), 2 session slots, seconds 0..1, access tokens of 1 second, refresh tokens of 2 | admins, their two columns and their tenants agree however requests interleave; logout lasts as long as the token; tokens for approved admins |
| `office` | 2 slots each; parts *names* (2 branches, 2 names), *links* (1 branch, 1 member of any kind), *tenants* (2 tenants, 1 request at a time), *keys* (2 members, 2 keys), *dates* (1 contract, days 0..2), *sources* (1 contract, 1 vehicle, 2 tenants), *features* (2 tenants, 2 rows), *workshop* (1 job, 2 items), *fuel* (3 logs, 2 readings), *passwords* (1 user, 3 passwords) | the properties of `Directory`, `Contracts`, `Features`, `Garage`, `Passwords` |
| `monitoring` | parts *tracking* (1 vehicle, 2 rows, 2 slots, seconds 0..1, TTLs of 1), *schedule* (2 processes, up to 3 faults, any jobs left in Redis), *overlap* (2 processes, 1 vehicle, 3 numbers, 1 fault), *vehicles* (1 process, 2 vehicles, 3 numbers of which one contains the others, 1 fault), *daily* (2 processes, 2 tenants of which one's scan always fails, 1 fault) | the properties of `Tracking`, `JobQueue`, `Jobs`, liveness included |

The type invariants of `Identity` and `Monitoring` document what their variables hold; no run lists them. They
are proved (`IdentityTypeCorrect`, `MonitoringTypeCorrect`), and hold in the runs of the two when `INVARIANT
TypeOK` is added to the cfg.

**Parts.** `MCFleetParts`, `MCIdentity`, `MCOffice` and `MCMonitoring` have a variable `focus`, chosen at the start
and never changed, which confines a behaviour to the requests and rows of one part. Each of their behaviours is
one of the composed specification in which the rest happens not to be called, and the state spaces of parts
that do not touch each other add up and do not multiply. Parts that do (contracts over the directory's
vehicles, sessions under account requests, bookings, trips and assignments over one vehicle) are run together.

Four runs show where the code does not do what a text of the repository says; each is a finding in
`PROJECT.json` with the line quoted. None of them needs two requests at once.

| Run | Property | What happens |
|---|---|---|
| `foreign_vehicle` | `BookingsStayInTenant` | no query on create's path relates the vehicle to the tenant |
| `update_overlaps` | `NoOverlappingAssignments` | `update()` runs no overlap query |
| `removed_tenant` | `RemovedTenantsInactive` | a tenant is registered and removed, then its admin is approved: the removed tenant is active, and login and guards ask no more than that |
| `alert_suppressed` | `PassedOverForItsOwnAlert` | an unread alert about a vehicle counts as one about every vehicle whose registration number is part of its own: that one stays unreported |

`SilentIsReported` holds all the same, for it asks that *some* alert mention the silent vehicle. Two more texts
differ from the code without a run: the comment at `jobs.service.ts:102` has the detection run every 15 minutes, line
119 every 60; and `contracts.controller.ts:32` wants a vehicle for every VEHICLE_SOURCE contract, which
`update()` does not ask of a contract whose type or vehicle it changes.

The races the code leaves open are the exceptions of the *only by race* properties, and each of them
happens: two creates that both pass the availability check (`ImplementsLedger` fails with two slots), a
confirm in flight that overwrites a cancellation, two starts that both pass the active-trip query
(`OneActiveTripPerVehicle` fails with two slots), two ends of one trip of which the later rewrites the
earlier one's end, and two partial updates that cross an assignment's dates (`DatesCrossOnlyByRace`
fails without its exception). In the office and the monitoring they happen too: a pair of branches of one name, a link
to a removed branch, a doubled flag, a completed job with a late item, a reading that goes back, an overwritten
reset, a broken rate limit, a cached location that is not the newest, a schedule lost by a crash.

**Bounds.** `BookingIds`, `TripIds`, `AssignmentIds` bound the rows ever inserted, `...Requests` the
requests in flight, `Days` and `Clock` the instants, `Incomes` the figures. Every property relates at
most two rows (two bookings, trips, assignments) or two tables, so two rows suffice to violate it, and
a race has two parties, so two slots do. Three instants give every relation of two half-open ranges
the queries distinguish up to order (disjoint, touching, overlapping, nested); two give the closed
ones. The requests accepted while an id is left are bounded by `RoomFor...`; confirm, cancel, assign,
end, update and remove are not bounded. `bookings_serial`, `registry` and the part *trips* start from `Seeded`: registered vehicles and
drivers with any assignments and logs that earlier serial requests could have left; it saves the
steps that build them, and each of those states is one that `Spec` reaches.
In `Identity`, `Tenants` and `Users` bound the registrations, `Seconds` the clock. Two account slots give
every race of two decisions; two session slots a logout racing a guarded request with the same token;
one second is enough for a token to expire between any two steps of a request, and for a refresh
token to outlive its access token. In `Office` two rows and two slots serve the same purpose; three logs let a reading be compared with
the greatest of two, three passwords let a reset differ from both the old and the new one, and three days
let two updates of one date each cross. In `Monitoring` one second is enough for a key to expire between any two
awaits. Faults (stops, crashes, refused calls, lost locks) are bounded by `MaxFaults`: three suffice for a
crash in the boot of each process and a stop between, one for a job that dies or is handed out twice. The two
vehicles are, at first, one that is mentioned by the other's alerts and one that is not; one registration number is
changed in a behaviour (`MaxRenames`), which is enough for an alert, or a run, to have a number that is no longer
its vehicle's, and for an alert to be about a number that no vehicle has. Symmetry permutes
ids, slots and registered rows, which Init and Next treat alike; runs with liveness, with a
refinement or with few symmetric values do without it.

**Fairness.** `registry` and `monitoring` need it. In `registry`, weak fairness of each slot's own next step, and of nothing else: Node resumes a handler
when its query is answered, and every query is answered or fails. No client is obliged to send
anything, and time need not advance. A step's guard depends on its own slot only, so weak fairness
suffices. The run has a trip and a registry slot; the handlers of bookings and assignments have the same
shape, straight lines of queries of which none waits for another. In `monitoring` (`JobsFairness`): a process
that is down is started again by its platform and its boot goes on (weak fairness of `ScheduleStep`), a
running job goes on (`RunStep`: its queries are answered or fail, and failing is a fault), a scheduled job becomes
due again (`BecomesDue`: that is what repeatable means), and a job that waits is taken in the end
(strong fairness of `ProcessJob`, for the queue is first in, first out, so a job of the other kind cannot
overtake it for ever). Faults are never fair, and finitely many. That a location ages, an alert is read, or
a scan is asked for by hand is never assumed.

**Mutants.** Every property of a passing run is paired in `PROJECT.json` with a mutated definition
(a dropped guard, a write without its filter, a check that waits) that violates it; the mutated forms
stand before the definitions they replace and are marked `Mutant`.

## 5. The proofs

All theorems hold for arbitrary sets of tenants, vehicles, drivers, users, rows, processes, request slots and
instants, finite or not. What they assume of the constants is declared where the constants are, and TLC
evaluates it in every run:

| Assumption (module) | Says | Why the code justifies it |
|---|---|---|
| `DaysAssumption`, `IncomesAssumption` (FleetTables) | instants are integers and the clock shows instants; 0 is an income | `DateTime` columns are milliseconds; the column's default is 0 |
| `SentinelAssumption`, `FleetIdsAssumption` (FleetTables) | NULL and `undefined` are no ids, days or incomes; a vehicle is no driver | uuids |
| `SecondsAssumption` (Sessions) | seconds are integers, both token lifetimes positive | JWT's `exp`, the configured lifetimes |
| `DirectoryAssumption`, `ContractsAssumption`, `FeaturesAssumption` | NULL, `undefined` and the empty string are no ids, names or keys; ids of different tables differ | uuids; DTOs that are validated |
| `GarageAssumption` | costs and readings are natural numbers | `@Min(0)` of the DTOs; whole numbers stand for amounts |
| `TrackingAssumption`, `JobQueueAssumption`, `JobsAssumption`, `MonitoringAssumption` | seconds are natural, lifetimes positive, NULL is no row and no job; the bounds are numbers; the longer registration numbers are registration numbers | constants in the source; the last are the models' own bounds |

### The argument

Every component has an inductive invariant of the same shape. A property such as *two bookings overlap only by
race* says nothing of a request that is about to write, so it is not inductive: a request that has passed its
check could write what the check would now refuse. What is added is what each request in flight **knows**: the
answer it was given still holds, *or* the row it was about has been written since and is in the request's history
variable. A write by another slot puts its row into that variable of everyone who has read it, which is
what keeps the knowledge true when the tables change; the request's own write turns what it knows
into the property. A theorem of the specification then combines four steps: Init gives the invariant, each action
preserves it (one lemma per action, grouped by steps that write no row, steps that move on, and steps that write),
the invariant implies the property, and PTL. The steps of one component preserve the others' parts because they
leave their variables alone, or by one lemma that says what they do to shared ones.

**Fleet.** `FleetInv == BookingsInv /\ TripsInv /\ AssignmentsInv /\ RegistryInv` and, relative to it,
`FleetRaceInv == TripsRaceInv /\ BackedInv /\ StatusInv /\ DatesInv`.

* *Bookings.* `GuardHolds`: past its guarding read, a request other than cancel has, for every active booking in
  the way of its target vehicle, that booking in `bmissed` or an already recorded race. `StatusHeld`: a
  confirm's booking is PENDING and a cancel's open, or in `bmissed`; `RevivedOnlyByRace` follows from the first
  half. `VehicleHeld`, its last part: as long as a create or an assign has missed nothing, no active booking
  conflicts with the vehicle it is about to write, or its booking has that vehicle already.
* *Trips.* `InstantHeld`: the instant a request holds is not in the future and not before the start of the trip
  it ends; `TripRequestOK`: the vehicle of an end is the trip's own, which no code updates. Nothing stranded
  follows transaction by transaction: an end frees what its own trip holds, a start that takes a vehicle adds
  the trip. For the races, `StartHeld`: every trip that a start has not missed has ended by the instant it
  holds, and before its write none of its vehicle is active; `EndHeld`: every trip that would collide with the
  one about to end already does, or was missed. `TripsOfOneTenant` is needed because the active-trip query
  also asks for the tenant, and would overlook a trip of another one.
* *Assignments.* The window of create opens at the vehicle's overlap query and the driver's query comes later, so
  `OverlapHolds` says separately what each has established at each `pc`. `TenantHeld`: a looked-up vehicle or
  driver is of the tenant that owns the assignment. `DatesHeld`: an update's dates are in order next to those
  it leaves in its row, or the row is in `amissed`.
* *Across the tables.* `BackedInv` carries the assignment that a start has found over two more queries to its
  write; it needs of `AssignmentsService` only that rows stay and that none but update() changes their period
  (`AssignmentsKeepRows`). An administrator's write keeps types and tenants and puts what it wrote in
  `overridden` (`AdministratorWrite`).
* *The ledger.* `UnracedWritesAreAtomic`: with any number of slots, a write whose request has missed
  nothing (`bmissed[r] = {}`) is the ledger's action of the same kind (`InsertBookingEnters`,
  `SetBookingStatusSettles`, `SetBookingAssigneesMoves`, whose guards come from `StatusInv`), or changes nothing
  that the ledger shows. Its hypothesis on `assign` is needed: an assign that changes the vehicle reads the
  booking before the query that opens its window, so a cancel that falls between the two is not in `bmissed`, and
  the assign moves a cancelled booking, which the ledger never does. TLC finds that behaviour if the hypothesis
  is dropped, with two slots.
* *One request at a time.* What the code's own messages say (a booking that conflicts, an assignment that
  overlaps, a trip already active) is false of two slots and true of one: `NoDoubleBooking`,
  `NoOverlapUntilUpdate`, `OneActiveTrip` and `LedgerImplemented` assume that there is at most one slot of the kind
  in question (`OneRequest`, `OneAssignmentRequest`, `OneTripRequest`), as in `registry` and `bookings_serial`;
  the other kinds remain as many as they like. `SerialInv`, `SerialAssignmentsInv` and `SerialTripsInv` say
  that nothing is ever missed and nothing raced, and the properties with *OnlyByRace* in their names then lose
  their exception; `NoOverlapUntilUpdate` keeps the one that is no race, update(), which makes no overlap query
  (finding `update_overlaps`). `TidyDirectory` does the same for the names and links of branches.

**Identity.** `AccountRequestOK` says that a decision still knows its admin's tenant, and that a reject has
missed an approval if its admin is approved by now. `TenantsHaveAdmins` states *one admin per tenant* without
counting, so that `Cardinality` appears in one step only. For sessions, `KeysOutliveTokens`: the blacklist
key of an unexpired logged-out token expires no earlier than the token; it needs of a logout in flight that the
token will have expired once the TTL it holds has passed, whatever awaits and seconds lie between.

**Office.** `NameHeld`, `KeyHeld`, `LinksHeld`, `AccountHeld`, `VehicleHeld`, `DatesHeld` say of each lookup of
`Directory` and `Contracts`, once it is no longer in `todo`, what it saw, up to `dmissed`; `KeysUnique` and
`ReferencesExist` are what the database's indexes and foreign keys add. `FlagHeld`: a call that found no flag knows
of those inserted since, and a feature outside `doubled` has one row at most. `GarageRequestOK` and
`PasswordRequestOK` are the same for one row each. `TotalsInv` is `TotalIsSumOfItems` with what makes it inductive:
finitely many items, each of a job that is there. The sum is a fold of the community modules, which takes the items
in the order in which CHOOSE names them: that it is a sum at all, so that a new item adds its cost
(`CostOfMember`, `CostOfStep`), is induction over the finite sets of items (`SubsetInduction`, by a minimal
counterexample, since the library's induction theorems cannot be instantiated here).

**Monitoring.** `KeySet`, `RateHeld` and `TimeHeld` relate a request between two awaits to the rows stored since it
began; that the key of the rate limit is still there when the row is stored is arithmetic over any TTL.
`CacheHeld` is `LatestIsNewest` without its clause about Redis, which makes it inductive. `QueueInv`: a process whose
boot has passed the addition of a job leaves it `Covered`, in the schedule, cut short, or still to be added
by a process that is booting, for any number of processes that start, stop and crash. `DetectionInv`: the number
under which a run is about to alert to a vehicle is mentioned by no recent alert but one created `beside` the
run; and a number that a run or an alert has for a vehicle is the present one (`Current`) unless the vehicle was
renamed, so that an alert of its own that does not mention it is one of before the change.

### The theorems

| Module | Theorem | States |
|---|---|---|
| FleetProofs | `FleetInvariant`, `FleetRaceInvariant`, `TypeCorrect` | the invariants; `[]TypeOK` |
| | `DoubleBookingNeedsRace`, `RevivalNeedsRace` | `[]DoubleBookingOnlyByRace`, `RevivedOnlyByRace` |
| | `CollisionNeedsRace`, `EarlyReleaseNeedsRace`, `SecondEndNeedsRace` | `[]TripsCollideOnlyByRace`, `[]ReleasedEarlyOnlyByRace`, `EndRewrittenOnlyByRace` |
| | `TripsStrandNothing`, `TripsInOrder`, `TripsAreBacked` | `[]NothingStranded`, `[]TripTimesOrdered`, `[]TripBackedByAssignment` |
| | `AssignmentsOfOneTenant`, `OverlapNeedsRaceOrUpdate`, `CrossingNeedsRace` | `[]AssignmentsStayInTenant`, `[]OverlapOnlyByRaceOrUpdate`, `DatesCrossOnlyByRace` |
| | `OneActiveTrip`, `LedgerImplemented` | `[]OneActiveTripPerVehicle`, `ImplementsLedger`, with one slot |
| | `NoDoubleBooking`, `NoOverlapUntilUpdate` | no two active bookings conflict, no two assignments overlap until an update, with one slot |
| | `UnracedWritesAreAtomic` | a booking write that missed nothing is a step of the ledger, with any number of slots |
| IdentityProofs | `IdentityInvariant`, `IdentityTypeCorrect` | the invariant; `[]TypeOK` |
| | `ActiveMeansApproved`, `TenantFollowsAdmin`, `RegistrationIsWhole` | `[]AdminActiveIffApproved`, `[]AdminAndTenantAgree`, `[]OneAdminPerTenant` |
| | `LogoutHolds`, `TokensNeedApproval` | `LoggedOutStaysOut`, `TokensForApproved` |
| OfficeProofs | `OfficeInvariant`, `OfficeTypeCorrect` | the invariant; `[]TypeOK` |
| | `NamesAreUnique`, `NoOrphans`, `ReferencesAreTenants`, `IndexRefusals` | `[]SameNameOnlyByRace`, `[]LinkToRemovedOnlyByRace`, `[]ReferencesStayInTenant`, `[]IndexRefusesOnlyByRaceOrRemoved` |
| | `ContractsAreInOrder`, `DatesAreKept`, `GuardIsObedient` | `[]ContractDatesInOrder`, `DateLostOnlyByRace`, `[]GuardObeysLastCall` |
| | `CompletedJobsTakeNoItems`, `OdometersGoForward`, `PasswordsAreKnown` | `ItemsAfterCompletionOnlyByRace`, `OdometerBackOnlyByRace`, `UnknownReplacedOnlyByRace` |
| | `TotalsAddUp` | `[]TotalIsSumOfItems` |
| | `TidyDirectory` | names are unique and no link is to a removed branch, with one slot |
| MonitoringProofs | `MonitoringInvariant`, `MonitoringTypeCorrect` | the invariant; `[]TypeOK` |
| | `LimitNeedsRace`, `AnswersAreLatest`, `ShownGoesForward` | `[]RateBrokenOnlyByRace`, `[]LatestIsNewest`, `ShownBackOnlyByRace` |
| | `ScheduleNeedsHalfBoot`, `RepeatNeedsRaceOrRename` | `[]ScheduleLostOnlyByHalfBoot`, `OfflineRepeatOnlyByRaceOrRename` |

`BookingsNextInv`, `TripsNextInv`, `AssignmentsNextInv`, `BookingsNextStatusInv`, `TripsNextRaceInv` and
`AssignmentsNextDatesInv` state that a component's steps preserve its invariant.

**Only model-checked.** Liveness: `EveryRequestReturns`, `ScheduledOrDisabled`, `SilentIsReported`, `ExpiryIsTold`;
fairness is ENABLED, which the provers do not have. Every other property of a passing run is a theorem.
The four properties of the violation runs are false and have none.

## 6. Not modelled

* *documents, expenses, income, subscriptions*: each inserts, lists and updates single rows after at most one
  lookup, with no condition between rows; there is no state whose correctness depends on an order of steps.
* *accounting, reports*: aggregates that are read and never stored.
* *audit*: one row per request, written after the response, read by nobody.
* Of *auth*, `seedSuperAdmin`, which is called once, with a secret; two calls at once would create two super
  admins, which nothing in the models depends on. Of *maintenance*, the cost items. Of *profile*, the
  name. Of *gateway*, rooms: they live in Socket.IO. Of *entity validator*, three helpers that nobody calls.
* The role guard compares the token's role with a constant.
* A request that TenantGuard admitted before its tenant was suspended still runs to its end; no text
  says it must not. `checkDriverAvailability` does not look at other bookings, vehicles are removed
  whatever refers to them, and `scan()` repeats its alerts each time: no text promises otherwise, so no
  property says so; the models behave like the code.
* A location request that fails after the rate-limit key was set leaves the key: the retry is refused for five
  seconds. `SaveLocationFails` is that step; nothing promises otherwise.
* JSON formatting, Swagger, logging, interceptors, bcrypt's arithmetic: nothing here depends on them.
  PostgreSQL appears as the atomicity of one statement or one transaction, and as the unique indexes.

## 7. Plan

1. The lemmas of `DirectoryProofs` that are about one lookup could be shared by the three kinds of request that
   make it.
2. Of what is not modelled, the subscriptions' renewal and the role guard are the next candidates.
