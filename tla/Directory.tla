------------------------------ MODULE Directory ------------------------------
(***************************************************************************)
(* Branches and what is linked to them: BranchesService, and create,       *)
(* update and remove of vehicles, drivers and users as far as their keys   *)
(* and links go.  Requests interleave at every awaited query.  dreq[r] is  *)
(* the handler in slot r; todo holds the lookups it has not made yet.      *)
(*                                                                         *)
(* A key is what EntityValidator keeps unique: a vehicle's registration    *)
(* number, a driver's phone and licence taken together, a user's email.    *)
(***************************************************************************)
EXTENDS Tables

CONSTANTS
    Branches,            \* bound: branches that can ever be created
    BranchNames,
    Members,             \* bound: vehicles, drivers and users, all together
    Keys,
    DirectoryRequests,   \* bound: requests in flight at once
    Empty                \* the empty string, which only an update can store

\* NULL and undefined are no ids, names or keys; the ids of two tables differ.
ASSUME DirectoryAssumption ==
    /\ None \notin Branches \cup Members
    /\ Absent \notin Branches /\ \A links \in SUBSET Branches : links # Absent
    /\ Absent \notin BranchNames /\ {Absent, Empty} \cap Keys = {}
    /\ Branches \cap Members = {}

VARIABLES
    branches,   \* branches[b], b \in DOMAIN branches
    members,    \* members[m], m \in DOMAIN members
    dreq,       \* dreq[r]: the handler in slot r
    dmissed,    \* history: rows written since r's first query
    draced      \* history: pairs <<x, b>>: branch b was written between the
                \* first query of a request and its write of x

directoryVars == <<branches, members, dreq, dmissed, draced>>

Kinds == {"vehicle", "driver", "user"}

Branch == [tenant : Tenants, name : BranchNames \cup {Empty}, deleted : BOOLEAN]

\* links is the user's UserBranch rows, account the driver's userId.
Member == [kind : Kinds, tenant : Tenants, key : Keys \cup {Empty},
           branch : Branches \cup {None}, links : SUBSET Branches,
           account : Members \cup {None}, deleted : BOOLEAN]

Lookups == {"name", "key", "user", "driver", "branch", "links", "vehicle"}

DirectoryIdle == [op |-> "none", tenant |-> None, todo |-> {}]

\* id is None for a create.  Absent columns are not written.
BranchRequest ==
    [op : {"createBranch", "updateBranch", "removeBranch"}, tenant : Tenants,
     todo : SUBSET Lookups, id : Branches \cup {None},
     name : BranchNames \cup {Empty, Absent}]

MemberRequest ==
    [op : {"createMember", "updateMember", "removeMember"}, tenant : Tenants,
     todo : SUBSET Lookups, id : Members \cup {None}, kind : Kinds,
     key : Keys \cup {Empty, Absent}, branch : Branches \cup {None, Absent},
     links : (SUBSET Branches) \cup {Absent}, account : Members \cup {None}]

RowsTypeOK ==
    /\ DOMAIN branches \subseteq Branches /\ branches \in [DOMAIN branches -> Branch]
    /\ DOMAIN members \subseteq Members
    /\ \A m \in DOMAIN members : members[m] \in Member

DirectoryInit ==
    /\ branches = <<>>
    /\ members = <<>>
    /\ dreq = [r \in DirectoryRequests |-> DirectoryIdle]
    /\ dmissed = [r \in DirectoryRequests |-> {}]
    /\ draced = {}

----------------------------------------------------------------------------
(***************************************************************************)
(* Steps that handlers share.                                              *)
(***************************************************************************)
Accept(r, request) ==
    /\ dreq[r] = DirectoryIdle
    /\ dreq' = [dreq EXCEPT ![r] = request]
    /\ UNCHANGED <<branches, members, dmissed, draced>>

DirectoryReturns(r) ==
    /\ dreq' = [dreq EXCEPT ![r] = DirectoryIdle]
    /\ dmissed' = [dmissed EXCEPT ![r] = {}]

Refused(r) == DirectoryReturns(r) /\ UNCHANGED <<branches, members, draced>>

\* The lookups in the order in which the handlers make them.
Before == [name |-> {}, key |-> {}, user |-> {"key"}, driver |-> {"key", "user"},
           branch |-> {"key", "user", "driver"},
           links |-> {"key", "user", "driver", "branch"}, vehicle |-> {}]

\* The next lookup of r is c: the handler goes on if ok, and throws otherwise.
LookUp(r, c, ok) ==
    /\ c \in dreq[r].todo
    /\ dreq[r].todo \cap Before[c] = {}
    /\ IF ok THEN /\ dreq' = [dreq EXCEPT ![r].todo = @ \ {c}]
                  /\ UNCHANGED <<branches, members, dmissed, draced>>
             ELSE Refused(r)

Writes(r, op) == dreq[r].op = op /\ dreq[r].todo = {}

\* r wrote the rows of ids and returned; they are news to every other request.
Written(r, ids) ==
    /\ dreq' = [dreq EXCEPT ![r] = DirectoryIdle]
    /\ draced' = draced \cup (ids \X ((dmissed[r] \cap Branches) \ ids))
    /\ dmissed' = [q \in DirectoryRequests |->
                     IF q # r /\ dreq[q] # DirectoryIdle THEN dmissed[q] \cup ids
                                                         ELSE {}]

\* findFirst by id and tenant, not deleted.
FindBranch(b, t) ==
    b \in DOMAIN branches /\ branches[b].tenant = t /\ ~branches[b].deleted

FindMember(m, kind, t) ==
    /\ m \in DOMAIN members
    /\ members[m].kind = kind /\ members[m].tenant = t /\ ~members[m].deleted

----------------------------------------------------------------------------
(***************************************************************************)
(* BranchesService                                                         *)
(***************************************************************************)

\* Bound: a create is accepted only while an id is left for every create.
RoomFor(ids, table, op) ==
    Cardinality({r \in DirectoryRequests : dreq[r].op = op}) + Cardinality(DOMAIN table)
      < Cardinality(ids)

CreateBranch(r) ==
    /\ RoomFor(Branches, branches, "createBranch")
    /\ \E t \in Tenants, n \in BranchNames :
         Accept(r, [op |-> "createBranch", tenant |-> t, todo |-> {"name"},
                    id |-> None, name |-> n])

\* Mutant: a new name is not looked up.
UpdateBranchUnchecked(r) ==
    \E t \in Tenants, b \in Branches, n \in BranchNames \cup {Absent} :
        /\ FindBranch(b, t)
        /\ Accept(r, [op |-> "updateBranch", tenant |-> t, todo |-> {},
                      id |-> b, name |-> n])

\* A name is looked up if it is not the one that was read, and not empty.
UpdateBranch(r) ==
    \E t \in Tenants, b \in Branches, n \in BranchNames \cup {Empty, Absent} :
        /\ FindBranch(b, t)
        /\ Accept(r, [op |-> "updateBranch", tenant |-> t,
                      todo |-> IF n \in {Absent, Empty, branches[b].name} THEN {}
                                                                          ELSE {"name"},
                      id |-> b, name |-> n])

RemoveBranch(r) ==
    \E t \in Tenants, b \in Branches :
        /\ FindBranch(b, t)
        /\ Accept(r, [op |-> "removeBranch", tenant |-> t, todo |-> {},
                      id |-> b, name |-> Absent])

NameInUse(n, t, except) ==
    \E b \in DOMAIN branches \ {except} : FindBranch(b, t) /\ branches[b].name = n

CheckName(r) ==
    LookUp(r, "name", ~NameInUse(dreq[r].name, dreq[r].tenant, dreq[r].id))

InsertBranch(r) ==
    /\ Writes(r, "createBranch")
    /\ \E b \in Branches \ DOMAIN branches :
         /\ branches' = Insert(branches, b,
              [tenant |-> dreq[r].tenant, name |-> dreq[r].name, deleted |-> FALSE])
         /\ Written(r, {b})
    /\ UNCHANGED members

WriteBranch(r) ==
    LET q == dreq[r] IN
    /\ Writes(r, "updateBranch")
    /\ branches' = [branches EXCEPT ![q.id].name = IF q.name = Absent THEN @ ELSE q.name]
    /\ Written(r, {q.id})
    /\ UNCHANGED members

\* Mutant: the vehicles stay linked.
DeleteBranchOfPeople(r) ==
    LET b == dreq[r].id IN
    /\ Writes(r, "removeBranch")
    /\ branches' = [branches EXCEPT ![b].deleted = TRUE]
    /\ members' = [m \in DOMAIN members |->
         IF members[m].kind # "vehicle"
           THEN [members[m] EXCEPT !.branch = IF @ = b THEN None ELSE @, !.links = @ \ {b}]
           ELSE members[m]]
    /\ Written(r, {b})

\* One transaction unlinks users, vehicles and drivers, deleted ones too.
DeleteBranch(r) ==
    LET b == dreq[r].id IN
    /\ Writes(r, "removeBranch")
    /\ branches' = [branches EXCEPT ![b].deleted = TRUE]
    /\ members' = [m \in DOMAIN members |->
         [members[m] EXCEPT !.branch = IF @ = b THEN None ELSE @, !.links = @ \ {b}]]
    /\ Written(r, {b})

----------------------------------------------------------------------------
(***************************************************************************)
(* VehiclesService, DriversService and UsersService: acceptance            *)
(***************************************************************************)

\* The lookups that the DTO of a member asks for.
Needed(key, account, branch, links) ==
    (IF key THEN {"key"} ELSE {})
      \cup (IF account # None THEN {"user", "driver"} ELSE {})
      \cup (IF branch \in Branches THEN {"branch"} ELSE {})
      \cup (IF links \notin {Absent, {}} THEN {"links"} ELSE {})

\* branchIds with branchId among them.
Incoming(branch, branchIds) == branchIds \cup ({branch} \cap Branches)

\* Only the DTOs of users carry branchIds.
BranchIds(kind) == IF kind = "user" THEN (SUBSET Branches) \cup {Absent} ELSE {Absent}

\* branchId, or else one of branchIds: the first, in the order of the DTO.
Primary(branch, links) ==
    IF branch # Absent \/ links = Absent THEN {branch}
    ELSE IF links = {} THEN {None} ELSE links

CreateMember(r) ==
    /\ RoomFor(Members, members, "createMember")
    /\ \E t \in Tenants, kind \in Kinds, k \in Keys, u \in Members \cup {None} :
         /\ u # None => kind = "driver"
         /\ \E b \in Branches \cup {Absent}, ids \in BranchIds(kind) :
              LET links == IF kind # "user" THEN {}
                           ELSE Incoming(b, IF ids = Absent THEN {} ELSE ids)
              IN  \E p \in Primary(b, links) :
                    Accept(r, [op |-> "createMember", tenant |-> t,
                               todo |-> Needed(TRUE, u, b, links),
                               id |-> None, kind |-> kind, key |-> k,
                               branch |-> p, links |-> links, account |-> u])

\* The key is looked up if it is not the one that was read, and not empty: only
\* UpdateDriverDto admits that, and UpdateUserDto has no key.  An update that
\* writes none of these columns is left out.
UpdateMember(r) ==
    \E t \in Tenants, kind \in Kinds, m \in Members, k \in Keys \cup {Empty, Absent} :
        /\ FindMember(m, kind, t)
        /\ kind = "user" => k = Absent
        /\ k = Empty => kind = "driver"
        /\ \E b \in Branches \cup {None, Absent}, ids \in BranchIds(kind) :
             LET links == IF ids = Absent THEN Absent ELSE Incoming(b, ids) IN
             /\ {k, b, ids} # {Absent}
             /\ \E p \in Primary(b, links) :
                  Accept(r, [op |-> "updateMember", tenant |-> t,
                             todo |-> Needed(k \notin {Absent, Empty, members[m].key},
                                             None, b, links),
                             id |-> m, kind |-> kind, key |-> k,
                             branch |-> p, links |-> links, account |-> None])

RemoveMember(r) ==
    \E t \in Tenants, kind \in Kinds, m \in Members :
        /\ FindMember(m, kind, t)
        /\ Accept(r, [op |-> "removeMember", tenant |-> t, todo |-> {}, id |-> m,
                      kind |-> kind, key |-> Absent,
                      branch |-> Absent, links |-> Absent, account |-> None])

----------------------------------------------------------------------------
(***************************************************************************)
(* Their lookups and writes                                                *)
(***************************************************************************)

\* The unique index counts every row, EntityValidator those not deleted.
KeyTaken(kind, k, except) ==
    \E m \in DOMAIN members \ {except} : members[m].kind = kind /\ members[m].key = k

KeyInUse(kind, k, except) ==
    \E m \in DOMAIN members \ {except} :
        members[m].kind = kind /\ members[m].key = k /\ ~members[m].deleted

\* Mutant: only an update asks.
CheckKeyOfUpdate(r) ==
    LookUp(r, "key", dreq[r].id = None \/ ~KeyInUse(dreq[r].kind, dreq[r].key, dreq[r].id))

CheckKey(r) == LookUp(r, "key", ~KeyInUse(dreq[r].kind, dreq[r].key, dreq[r].id))

CheckUser(r) == LookUp(r, "user", FindMember(dreq[r].account, "user", dreq[r].tenant))

CheckNotDriver(r) ==
    LookUp(r, "driver", ~\E m \in DOMAIN members :
                            members[m].account = dreq[r].account /\ ~members[m].deleted)

\* Mutant: any tenant's branch.
CheckBranchAnyTenant(r) ==
    LookUp(r, "branch", dreq[r].branch \in DOMAIN branches
                          /\ ~branches[dreq[r].branch].deleted)

CheckBranch(r) == LookUp(r, "branch", FindBranch(dreq[r].branch, dreq[r].tenant))

\* branch.count: every id has to be found.
CheckLinks(r) ==
    LookUp(r, "links", \A b \in dreq[r].links : FindBranch(b, dreq[r].tenant))

\* The row that a create inserts, if the unique indexes let it.
NewMember(q) == [kind |-> q.kind, tenant |-> q.tenant, key |-> q.key,
                 branch |-> IF q.branch = Absent THEN None ELSE q.branch,
                 links |-> q.links, account |-> q.account, deleted |-> FALSE]

Insertable(q) ==
    /\ ~KeyTaken(q.kind, q.key, None)
    /\ q.account # None => \A m \in DOMAIN members : members[m].account # q.account

InsertMember(r) ==
    /\ Writes(r, "createMember")
    /\ IF Insertable(dreq[r])
         THEN \E m \in Members \ DOMAIN members :
                /\ members' = Insert(members, m, NewMember(dreq[r]))
                /\ Written(r, {m})
                /\ UNCHANGED branches
         ELSE Refused(r)

WriteMember(r) ==
    LET q == dreq[r] IN
    /\ Writes(r, "updateMember")
    /\ IF q.key # Absent /\ KeyTaken(q.kind, q.key, q.id)
         THEN Refused(r)
         ELSE /\ members' = [members EXCEPT
                   ![q.id].key    = IF q.key = Absent THEN @ ELSE q.key,
                   ![q.id].branch = IF q.branch = Absent THEN @ ELSE q.branch,
                   ![q.id].links  = IF q.links = Absent THEN @ ELSE q.links]
              /\ Written(r, {q.id})
              /\ UNCHANGED branches

DeleteMember(r) ==
    /\ Writes(r, "removeMember")
    /\ members' = [members EXCEPT ![dreq[r].id].deleted = TRUE]
    /\ Written(r, {dreq[r].id})
    /\ UNCHANGED branches

\* The database refuses a query, or the process dies, before the write.
DirectoryRequestFails(r) == dreq[r] # DirectoryIdle /\ Refused(r)

BranchesNext ==
    \E r \in DirectoryRequests :
        \/ CreateBranch(r) \/ UpdateBranch(r) \/ RemoveBranch(r)
        \/ CheckName(r)
        \/ InsertBranch(r) \/ WriteBranch(r) \/ DeleteBranch(r)
        \/ DirectoryRequestFails(r)

MembersNext ==
    \E r \in DirectoryRequests :
        \/ CreateMember(r) \/ UpdateMember(r) \/ RemoveMember(r)
        \/ CheckKey(r) \/ CheckUser(r) \/ CheckNotDriver(r)
        \/ CheckBranch(r) \/ CheckLinks(r)
        \/ InsertMember(r) \/ WriteMember(r) \/ DeleteMember(r)

----------------------------------------------------------------------------
(***************************************************************************)
(* Properties.                                                             *)
(***************************************************************************)
Raced(x, b) == <<x, b>> \in draced

\* "Prevent duplicate branch names within the same tenant": two live branches
\* share a name, other than the empty one, only if one was written between the
\* other's first query and its write.
SameNameOnlyByRace ==
    \A a, b \in DOMAIN branches :
        /\ a # b
        /\ FindBranch(a, branches[b].tenant) /\ FindBranch(b, branches[b].tenant)
        /\ branches[a].name = branches[b].name /\ branches[a].name # Empty
        => Raced(a, b) \/ Raced(b, a)

\* "unlink resources from branch first to avoid orphans": a vehicle, a driver or
\* a user is linked to a removed branch only if the link was written by a request
\* that was in flight while the branch was removed.
LinkToRemovedOnlyByRace ==
    \A m \in DOMAIN members :
        \A b \in members[m].links \cup ({members[m].branch} \ {None}) :
            branches[b].deleted => Raced(m, b)

\* Branches, and the user behind a driver, are of the member's own tenant,
\* whichever partial updates interleave.
LinksStayInTenant ==
    \A m \in DOMAIN members :
        /\ \A b \in members[m].links \cup ({members[m].branch} \ {None}) :
               branches[b].tenant = members[m].tenant
        /\ members[m].account # None
             => members[members[m].account].tenant = members[m].tenant

\* EntityValidator answers a duplicate key with a 409.  What it lets through the
\* unique index refuses, with another error, only because the row was written
\* since the request began, or because it is the row of a removed member.
IndexRefusesOnlyByRaceOrRemoved ==
    \A r \in DirectoryRequests :
        LET q == dreq[r] IN
        q.op \in {"createMember", "updateMember"} /\ q.todo = {} /\ q.key \in Keys
          => \A m \in DOMAIN members \ {q.id} :
                /\ members[m].kind = q.kind /\ members[m].key = q.key
                => members[m].deleted \/ m \in dmissed[r]

=============================================================================
