------------------------------ MODULE Contracts ------------------------------
(***************************************************************************)
(* ContractsService, and VehiclesService.create for a vehicle that comes   *)
(* with its contract: create, update and remove, in the slots of the       *)
(* directory, whose vehicles they read and create.                         *)
(***************************************************************************)
EXTENDS Directory

CONSTANTS
    ContractIds,   \* bound: contracts that can ever be created
    Days           \* bound: the days a DTO can name

ASSUME ContractsAssumption == ContractIds \cap Branches = {}

VARIABLE contracts   \* contracts[c], c \in DOMAIN contracts

ContractType == {"VEHICLE_SOURCE", "CLIENT"}

Contract == [tenant : Tenants, type : ContractType, start : Days, end : Days,
             vehicle : Members \cup {None}, deleted : BOOLEAN]

\* given: the dates that the DTO of an update carries.  key and branch are
\* those of the vehicle to be created, for createBoth only.
ContractRequest ==
    [op : {"createContract", "updateContract", "removeContract", "createBoth"},
     tenant : Tenants, todo : SUBSET Lookups, id : ContractIds \cup {None},
     type : ContractType \cup {Absent}, start : Days, end : Days,
     given : SUBSET {"start", "end"}, vehicle : Members \cup {None, Absent},
     kind : {"vehicle"}, key : Keys \cup {None}, branch : Branches \cup {None}]

ContractsTypeOK ==
    /\ DOMAIN contracts \subseteq ContractIds
    /\ \A c \in DOMAIN contracts : contracts[c] \in Contract
    /\ \A r \in DirectoryRequests :
           \/ dreq[r] = DirectoryIdle
           \/ dreq[r] \in BranchRequest \cup MemberRequest \cup ContractRequest

ContractsInit == contracts = <<>>

AcceptContract(r, op, t, todo, c, type, start, end, given, v, k, b) ==
    /\ Accept(r, [op |-> op, tenant |-> t, todo |-> todo, id |-> c, type |-> type,
                  start |-> start, end |-> end, given |-> given, vehicle |-> v,
                  kind |-> "vehicle", key |-> k, branch |-> b])
    /\ UNCHANGED contracts

FindContract(c, t) ==
    c \in DOMAIN contracts /\ contracts[c].tenant = t /\ ~contracts[c].deleted

\* A vehicle that is given is looked up.
VehicleLookup(v) == IF v \in Members THEN {"vehicle"} ELSE {}

\* A vehicle payload in the DTO of a CLIENT contract is ignored.
CreateContract(r) ==
    /\ Cardinality(DOMAIN contracts) < Cardinality(ContractIds)
    /\ \E t \in Tenants, type \in ContractType, start, end \in Days, v \in Members \cup {None} :
         /\ end > start
         /\ type = "VEHICLE_SOURCE" => v # None
         /\ AcceptContract(r, "createContract", t, VehicleLookup(v), None,
                           type, start, end, {}, v, None, None)

\* POST /contracts with a vehicle, and POST /vehicles with a contract.
CreateContractAndVehicle(r) ==
    /\ Cardinality(DOMAIN contracts) < Cardinality(ContractIds)
    /\ Cardinality(DOMAIN members) < Cardinality(Members)
    /\ \E t \in Tenants, start, end \in Days, k \in Keys, b \in Branches \cup {None} :
         /\ end > start
         /\ AcceptContract(r, "createBoth", t, Needed(TRUE, None, b, {}), None,
                           "VEHICLE_SOURCE", start, end, {}, None, k, b)

OrElse(given, read) == IF given = Absent THEN read ELSE given

\* The handler in slot r has merged its DTO with the dates of a row.
AcceptUpdate(r, t, c, row, type, start, end, v) ==
    AcceptContract(r, "updateContract", t, VehicleLookup(v), c, type,
                   OrElse(start, row.start), OrElse(end, row.end),
                   (IF start = Absent THEN {} ELSE {"start"})
                     \cup (IF end = Absent THEN {} ELSE {"end"}),
                   v, None, None)

\* Mutant: the dates are compared only when the DTO carries both.
UpdateContractDtoDates(r) ==
    \E t \in Tenants, c \in DOMAIN contracts, start, end \in Days \cup {Absent} :
        /\ FindContract(c, t)
        /\ Absent \notin {start, end} => end > start
        /\ AcceptUpdate(r, t, c, contracts[c], Absent, start, end, Absent)

\* Mutant: a date that the DTO leaves out is today's.
UpdateContractToday(r) ==
    \E t \in Tenants, c \in DOMAIN contracts, start, end \in Days \cup {Absent},
       today \in Days :
        /\ FindContract(c, t)
        /\ OrElse(end, today) > OrElse(start, today)
        /\ AcceptUpdate(r, t, c, [start |-> today, end |-> today], Absent, start, end, Absent)

\* A date that the DTO leaves out is taken from the row that was read.
UpdateContract(r) ==
    \E t \in Tenants, c \in DOMAIN contracts, start, end \in Days \cup {Absent} :
        /\ FindContract(c, t)
        /\ OrElse(end, contracts[c].end) > OrElse(start, contracts[c].start)
        /\ \E type \in ContractType \cup {Absent}, v \in Members \cup {None, Absent} :
             AcceptUpdate(r, t, c, contracts[c], type, start, end, v)

RemoveContract(r) ==
    \E t \in Tenants, c \in ContractIds :
        /\ FindContract(c, t)
        /\ AcceptContract(r, "removeContract", t, {}, c, Absent, contracts[c].start,
                          contracts[c].end, {}, Absent, None, None)

CheckContractVehicle(r) ==
    /\ LookUp(r, "vehicle", FindMember(dreq[r].vehicle, "vehicle", dreq[r].tenant))
    /\ UNCHANGED contracts

NewContract(q, v) == [tenant |-> q.tenant, type |-> q.type, start |-> q.start,
                      end |-> q.end, vehicle |-> v, deleted |-> FALSE]

InsertContract(r) ==
    /\ Writes(r, "createContract")
    /\ \E c \in ContractIds \ DOMAIN contracts :
         /\ contracts' = Insert(contracts, c, NewContract(dreq[r], dreq[r].vehicle))
         /\ Written(r, {c})
    /\ UNCHANGED <<branches, members>>

NewVehicle(q) == [kind |-> "vehicle", tenant |-> q.tenant, key |-> q.key,
                  branch |-> q.branch, links |-> {}, account |-> None, deleted |-> FALSE]

\* One transaction, which the unique index rolls back.
InsertContractAndVehicle(r) ==
    /\ Writes(r, "createBoth")
    /\ IF KeyTaken("vehicle", dreq[r].key, None)
         THEN Refused(r) /\ UNCHANGED contracts
         ELSE \E c \in ContractIds \ DOMAIN contracts, m \in Members \ DOMAIN members :
                /\ members' = Insert(members, m, NewVehicle(dreq[r]))
                /\ contracts' = Insert(contracts, c, NewContract(dreq[r], m))
                /\ Written(r, {c, m})
                /\ UNCHANGED branches

\* Mutant: what the DTO leaves out is written too.
WriteContractWholeDto(r) ==
    LET q == dreq[r] IN
    /\ Writes(r, "updateContract")
    /\ contracts' = [contracts EXCEPT ![q.id].type = q.type, ![q.id].vehicle = q.vehicle]
    /\ Written(r, {q.id})
    /\ UNCHANGED <<branches, members>>

\* Both dates are written, whatever the DTO carries.
WriteContract(r) ==
    LET q == dreq[r] IN
    /\ Writes(r, "updateContract")
    /\ contracts' = [contracts EXCEPT
         ![q.id].type = IF q.type = Absent THEN @ ELSE q.type,
         ![q.id].start = q.start,
         ![q.id].end = q.end,
         ![q.id].vehicle = IF q.vehicle = Absent THEN @ ELSE q.vehicle]
    /\ Written(r, {q.id})
    /\ UNCHANGED <<branches, members>>

DeleteContract(r) ==
    /\ Writes(r, "removeContract")
    /\ contracts' = [contracts EXCEPT ![dreq[r].id].deleted = TRUE]
    /\ Written(r, {dreq[r].id})
    /\ UNCHANGED <<branches, members>>

ContractsNext ==
    \E r \in DirectoryRequests :
        \/ CreateContract(r) \/ CreateContractAndVehicle(r)
        \/ UpdateContract(r) \/ RemoveContract(r)
        \/ CheckContractVehicle(r)
        \/ InsertContract(r) \/ InsertContractAndVehicle(r)
        \/ WriteContract(r) \/ DeleteContract(r)

----------------------------------------------------------------------------
(***************************************************************************)
(* Properties.                                                             *)
(***************************************************************************)

\* "endDate must be after startDate" of every contract, through partial updates
\* that cross: each validates its own date against the other one as it read it,
\* and for that reason writes that one too.
ContractDatesInOrder ==
    \A c \in DOMAIN contracts : contracts[c].end > contracts[c].start

\* The price of that: an update gives back a date it does not carry, and so loses
\* another one's; but only one that was written while it was in flight.
DateLostOnlyByRace ==
    [][\A r \in DirectoryRequests :
          Writes(r, "updateContract") /\ dreq'[r] = DirectoryIdle
          /\ dreq[r].id \notin dmissed[r]
          => LET c == dreq[r].id IN
             /\ "start" \notin dreq[r].given => contracts'[c].start = contracts[c].start
             /\ "end" \notin dreq[r].given => contracts'[c].end = contracts[c].end
      ]_contracts

\* A contract's vehicle is of the contract's own tenant, whichever updates
\* interleave.
ContractsStayInTenant ==
    \A c \in DOMAIN contracts :
        contracts[c].vehicle # None
          => members[contracts[c].vehicle].tenant = contracts[c].tenant

=============================================================================
