--------------------------- MODULE DirectoryProofs ----------------------------
(***************************************************************************)
(* Proofs about the steps of BranchesService, of the members' services as  *)
(* far as keys and links go, and of ContractsService, which share slots    *)
(* and rows.  DirectoryInv is inductive under the three of them.           *)
(*                                                                         *)
(* It adds to the properties what a handler still knows of the rows it     *)
(* looked up: what it saw is so, or the row was written since and is in    *)
(* dmissed.                                                                *)
(***************************************************************************)
EXTENDS Contracts, TLAPS

DirectoryRequest == BranchRequest \cup MemberRequest \cup ContractRequest

DirectoryTypeInv ==
    /\ RowsTypeOK
    /\ ContractsTypeOK
    /\ members = [m \in DOMAIN members |-> members[m]]
    /\ contracts = [c \in DOMAIN contracts |-> contracts[c]]
    /\ dreq \in [DirectoryRequests -> DirectoryRequest \cup {DirectoryIdle}]
    /\ dmissed \in [DirectoryRequests -> SUBSET (Branches \cup Members \cup ContractIds)]

\* The unique index, which counts the rows of removed members too.
KeysUnique ==
    \A m, n \in DOMAIN members :
        members[m].kind = members[n].kind /\ members[m].key = members[n].key => m = n

\* The branches that a member refers to, itself or through UserBranch.
LinkedTo(m) == members[m].links \cup ({members[m].branch} \ {None})

\* Rows refer to rows that are there: the foreign keys.
ReferencesExist ==
    /\ \A m \in DOMAIN members :
         /\ LinkedTo(m) \subseteq DOMAIN branches
         /\ members[m].account \in DOMAIN members \cup {None}
    /\ \A c \in DOMAIN contracts : contracts[c].vehicle \in DOMAIN members \cup {None}

----------------------------------------------------------------------------
(***************************************************************************)
(* What the handler in slot r knows.                                       *)
(***************************************************************************)

\* The branch b, found by r, belongs to the caller's tenant, and if it is
\* removed by now, r has missed that.
StillFound(r, b) ==
    /\ b \in DOMAIN branches /\ branches[b].tenant = dreq[r].tenant
    /\ branches[b].deleted => b \in dmissed[r]

\* Past its lookup, r knows of every live branch that has the name, or missed
\* its write, or keeps a name that was shared before.
NameHeld(r) ==
    LET q == dreq[r] IN
    q.op \in {"createBranch", "updateBranch"} /\ "name" \notin q.todo
        /\ q.name \notin {Absent, Empty}
      => \A b \in DOMAIN branches \ {q.id} :
            FindBranch(b, q.tenant) /\ branches[b].name = q.name
              => \/ b \in dmissed[r]
                 \/ q.op = "updateBranch" /\ (Raced(b, q.id) \/ Raced(q.id, b))

BranchRequestOK(r) ==
    LET q == dreq[r] IN
    /\ q.op = "createBranch" => q.id = None /\ q.name \in BranchNames
    /\ q.op \in {"updateBranch", "removeBranch"} =>
         q.id \in DOMAIN branches /\ branches[q.id].tenant = q.tenant
    /\ NameHeld(r)

KeyHeld(r) ==
    LET q == dreq[r] IN
    q.op \in {"createMember", "updateMember"} /\ "key" \notin q.todo /\ q.key \in Keys
      => \A m \in DOMAIN members \ {q.id} :
            members[m].kind = q.kind /\ members[m].key = q.key
              => members[m].deleted \/ m \in dmissed[r]

\* branch is the DTO's, or else one of links; each was looked up as such.
LinksHeld(r) ==
    LET q == dreq[r] IN
    /\ q.op \in {"createMember", "updateMember"} =>
         /\ "links" \notin q.todo /\ q.links # Absent =>
              \A b \in q.links : StillFound(r, b)
         /\ "branch" \notin q.todo /\ q.branch \in Branches =>
              StillFound(r, q.branch) \/ (q.links # Absent /\ q.branch \in q.links)
    /\ q.op = "createBoth" =>
         ("branch" \notin q.todo /\ q.branch \in Branches => StillFound(r, q.branch))

AccountHeld(r) ==
    LET q == dreq[r] IN
    q.op = "createMember" /\ "user" \notin q.todo /\ q.account # None
      => q.account \in DOMAIN members /\ members[q.account].tenant = q.tenant

MemberRequestOK(r) ==
    LET q == dreq[r] IN
    /\ q.op = "createMember" =>
         q.id = None /\ q.key \in Keys /\ q.links \in SUBSET Branches
    /\ q.op \in {"updateMember", "removeMember"} =>
         /\ q.id \in DOMAIN members
         /\ members[q.id].kind = q.kind /\ members[q.id].tenant = q.tenant
    /\ KeyHeld(r)
    /\ AccountHeld(r)

\* A date that the DTO left out is the row's, or the row was written since.
DatesHeld(r) ==
    LET q == dreq[r] IN
    q.op = "updateContract" /\ q.id \notin dmissed[r]
      => /\ "start" \notin q.given => q.start = contracts[q.id].start
         /\ "end" \notin q.given => q.end = contracts[q.id].end

VehicleHeld(r) ==
    LET q == dreq[r] IN
    q.op \in {"createContract", "updateContract"} /\ "vehicle" \notin q.todo
        /\ q.vehicle \in Members
      => q.vehicle \in DOMAIN members /\ members[q.vehicle].tenant = q.tenant

ContractRequestOK(r) ==
    LET q == dreq[r] IN
    /\ q.op \in {"createContract", "updateContract", "createBoth"} => q.end > q.start
    /\ q.op \in {"createContract", "createBoth"} =>
         q.type \in ContractType /\ q.vehicle \in Members \cup {None}
    /\ q.op = "createBoth" => q.key \in Keys
    /\ q.op \in {"updateContract", "removeContract"} =>
         q.id \in DOMAIN contracts /\ contracts[q.id].tenant = q.tenant
    /\ DatesHeld(r)
    /\ VehicleHeld(r)

DirectoryRequestOK(r) ==
    /\ BranchRequestOK(r)
    /\ MemberRequestOK(r)
    /\ ContractRequestOK(r)
    /\ LinksHeld(r)

DirectoryInv ==
    /\ DirectoryTypeInv
    /\ KeysUnique
    /\ ReferencesExist
    /\ SameNameOnlyByRace
    /\ LinkToRemovedOnlyByRace
    /\ LinksStayInTenant
    /\ ContractsStayInTenant
    /\ ContractDatesInOrder
    /\ \A r \in DirectoryRequests : dreq[r] # DirectoryIdle => DirectoryRequestOK(r)

----------------------------------------------------------------------------
(***************************************************************************)
(* Steps that write no row.                                                *)
(***************************************************************************)

\* Each operation has requests of one kind.
LEMMA RequestKinds ==
    ASSUME NEW q \in DirectoryRequest \cup {DirectoryIdle}
    PROVE  /\ q.op \in {"createBranch", "updateBranch", "removeBranch"} =>
                q \in BranchRequest
           /\ q.op \in {"createMember", "updateMember", "removeMember"} =>
                q \in MemberRequest
           /\ q.op \in {"createContract", "updateContract", "removeContract",
                        "createBoth"} => q \in ContractRequest
           /\ q # DirectoryIdle => q.op # "none" /\ q \in DirectoryRequest
           /\ q.op = "none" => q = DirectoryIdle
BY DEF DirectoryRequest, BranchRequest, MemberRequest, ContractRequest, DirectoryIdle

\* No row is there at first, and no request is in flight.
LEMMA DirectoryInvInit ==
    ASSUME DirectoryInit, ContractsInit
    PROVE  DirectoryInv
<1>1. /\ DOMAIN branches = {} /\ DOMAIN members = {} /\ DOMAIN contracts = {}
      /\ branches \in [DOMAIN branches -> Branch]
      /\ members = [m \in DOMAIN members |-> members[m]]
      /\ contracts = [c \in DOMAIN contracts |-> contracts[c]]
  BY DEF DirectoryInit, ContractsInit
<1>2. \A r \in DirectoryRequests : dreq[r] = DirectoryIdle
  BY DEF DirectoryInit
<1>3. DirectoryTypeInv
  BY <1>1, <1>2 DEF DirectoryInit, DirectoryTypeInv, RowsTypeOK, ContractsTypeOK
<1> QED
  BY <1>1, <1>2, <1>3 DEF DirectoryInv, KeysUnique, ReferencesExist, SameNameOnlyByRace,
       LinkToRemovedOnlyByRace, LinksStayInTenant, ContractsStayInTenant, ContractDatesInOrder

\* A step that writes no row: the handler in slot r starts, moves on, returns
\* or throws.
LEMMA UnwrittenDirectoryInv ==
    ASSUME DirectoryInv, NEW r \in DirectoryRequests,
           UNCHANGED <<branches, members, contracts, draced>>,
           NEW q \in DirectoryRequest \cup {DirectoryIdle},
           dreq' = [dreq EXCEPT ![r] = q],
           dmissed' \in [DirectoryRequests -> SUBSET (Branches \cup Members \cup ContractIds)],
           \A x \in DirectoryRequests \ {r} : dmissed'[x] = dmissed[x],
           q # DirectoryIdle => DirectoryRequestOK(r)'
    PROVE  DirectoryInv'
<1>1. dreq \in [DirectoryRequests -> DirectoryRequest \cup {DirectoryIdle}]
  BY DEF DirectoryInv, DirectoryTypeInv
<1>2. /\ dreq' \in [DirectoryRequests -> DirectoryRequest \cup {DirectoryIdle}]
      /\ dreq'[r] = q /\ \A x \in DirectoryRequests \ {r} : dreq'[x] = dreq[x]
  BY <1>1
<1>3. DirectoryTypeInv'
  <2>1. RowsTypeOK'
    BY DEF DirectoryInv, DirectoryTypeInv, RowsTypeOK
  <2>2. ContractsTypeOK'
    BY <1>2 DEF DirectoryInv, DirectoryTypeInv, ContractsTypeOK, DirectoryRequest
  <2> QED
    BY <1>2, <2>1, <2>2 DEF DirectoryInv, DirectoryTypeInv
<1>4. /\ KeysUnique' /\ ReferencesExist' /\ SameNameOnlyByRace'
      /\ LinkToRemovedOnlyByRace' /\ LinksStayInTenant' /\ ContractsStayInTenant'
      /\ ContractDatesInOrder'
  BY DEF DirectoryInv, KeysUnique, ReferencesExist, LinkedTo, SameNameOnlyByRace, FindBranch,
         Raced, LinkToRemovedOnlyByRace, LinksStayInTenant, ContractsStayInTenant,
         ContractDatesInOrder
<1>5. ASSUME NEW x \in DirectoryRequests, dreq'[x] # DirectoryIdle
      PROVE  DirectoryRequestOK(x)'
  <2>1. CASE x = r
    BY <1>2, <1>5, <2>1
  <2>2. CASE x # r
    <3>1. dreq'[x] = dreq[x] /\ dmissed'[x] = dmissed[x] /\ DirectoryRequestOK(x)
      BY <1>2, <1>5, <2>2 DEF DirectoryInv
    <3> QED
      BY <3>1
         DEF DirectoryRequestOK, BranchRequestOK, NameHeld, FindBranch, Raced,
             MemberRequestOK, KeyHeld, AccountHeld, ContractRequestOK, DatesHeld,
             VehicleHeld, LinksHeld, StillFound
  <2> QED
    BY <2>1, <2>2
<1> QED
  BY <1>3, <1>4, <1>5 DEF DirectoryInv

\* A handler that throws takes what it knew with it.
LEMMA RefusedInv ==
    ASSUME DirectoryInv, NEW r \in DirectoryRequests, Refused(r), UNCHANGED contracts
    PROVE  DirectoryInv'
<1>1. /\ dreq' = [dreq EXCEPT ![r] = DirectoryIdle]
      /\ dmissed' = [dmissed EXCEPT ![r] = {}]
      /\ UNCHANGED <<branches, members, contracts, draced>>
  BY DEF Refused, DirectoryReturns
<1>2. dmissed \in [DirectoryRequests -> SUBSET (Branches \cup Members \cup ContractIds)]
  BY DEF DirectoryInv, DirectoryTypeInv
<1>3. /\ dmissed' \in [DirectoryRequests -> SUBSET (Branches \cup Members \cup ContractIds)]
      /\ \A x \in DirectoryRequests \ {r} : dmissed'[x] = dmissed[x]
  BY <1>1, <1>2
<1> QED
  BY <1>1, <1>3, UnwrittenDirectoryInv

\* A request that is accepted knows what it has to know from the start.
LEMMA AcceptInv ==
    ASSUME DirectoryInv, NEW r \in DirectoryRequests, NEW q \in DirectoryRequest,
           Accept(r, q), UNCHANGED contracts, DirectoryRequestOK(r)'
    PROVE  DirectoryInv'
BY UnwrittenDirectoryInv DEF Accept, DirectoryInv, DirectoryTypeInv

\* What the slot holds when its next lookup succeeded.
LookedUp(r, c) ==
    /\ dreq' = [dreq EXCEPT ![r] = [dreq[r] EXCEPT !.todo = dreq[r].todo \ {c}]]
    /\ UNCHANGED <<branches, members, contracts, dmissed, draced>>

\* A lookup changes todo and no other field.
LEMMA LookedUpFields ==
    ASSUME DirectoryInv, NEW r \in DirectoryRequests, NEW c, LookedUp(r, c),
           dreq[r] \in DirectoryRequest
    PROVE  LET q == dreq[r]
               p == dreq'[r]
           IN  /\ p \in DirectoryRequest
               /\ p.op = q.op /\ p.tenant = q.tenant /\ p.todo = q.todo \ {c} /\ p.id = q.id
               /\ q \in BranchRequest => p.name = q.name
               /\ q \in MemberRequest => /\ p.kind = q.kind /\ p.key = q.key
                                         /\ p.branch = q.branch /\ p.links = q.links
                                         /\ p.account = q.account
               /\ q \in ContractRequest =>
                    /\ p.type = q.type /\ p.start = q.start /\ p.end = q.end
                    /\ p.given = q.given /\ p.vehicle = q.vehicle
                    /\ p.key = q.key /\ p.branch = q.branch
<1> DEFINE q == dreq[r]
           p == [q EXCEPT !.todo = q.todo \ {c}]
<1>1. dreq'[r] = p
  BY DEF LookedUp, DirectoryInv, DirectoryTypeInv
<1>2. CASE q \in BranchRequest
  <2>1. /\ p \in BranchRequest /\ p.todo = q.todo \ {c}
        /\ p.op = q.op /\ p.tenant = q.tenant /\ p.id = q.id /\ p.name = q.name
    BY <1>2 DEF BranchRequest
  <2>2. q \notin MemberRequest /\ q \notin ContractRequest
    BY <1>2 DEF BranchRequest, MemberRequest, ContractRequest
  <2> QED
    BY <1>1, <2>1, <2>2 DEF DirectoryRequest
<1>3. CASE q \in MemberRequest
  <2>1. /\ p \in MemberRequest /\ p.todo = q.todo \ {c}
        /\ p.op = q.op /\ p.tenant = q.tenant /\ p.id = q.id
        /\ p.kind = q.kind /\ p.key = q.key
        /\ p.branch = q.branch /\ p.links = q.links /\ p.account = q.account
    BY <1>3 DEF MemberRequest
  <2>2. q \notin BranchRequest /\ q \notin ContractRequest
    BY <1>3 DEF BranchRequest, MemberRequest, ContractRequest
  <2> QED
    BY <1>1, <2>1, <2>2 DEF DirectoryRequest
<1>4. CASE q \in ContractRequest
  <2>1. /\ p \in ContractRequest /\ p.todo = q.todo \ {c}
        /\ p.op = q.op /\ p.tenant = q.tenant /\ p.id = q.id
        /\ p.type = q.type /\ p.start = q.start /\ p.end = q.end
        /\ p.given = q.given /\ p.vehicle = q.vehicle
        /\ p.key = q.key /\ p.branch = q.branch
    BY <1>4 DEF ContractRequest
  <2>2. q \notin BranchRequest /\ q \notin MemberRequest
    BY <1>4 DEF BranchRequest, MemberRequest, ContractRequest
  <2> QED
    BY <1>1, <2>1, <2>2 DEF DirectoryRequest
<1> QED
  BY <1>2, <1>3, <1>4 DEF DirectoryRequest

\* A lookup that succeeded tells r what it asked for, and takes away nothing
\* that r knew.
LEMMA LookUpInv ==
    ASSUME DirectoryInv, NEW r \in DirectoryRequests, NEW c, NEW ok, LookUp(r, c, ok),
           UNCHANGED contracts,
           ok /\ LookedUp(r, c) =>
             /\ c = "name" => NameHeld(r)'
             /\ c = "key" => KeyHeld(r)'
             /\ c \in {"branch", "links"} => LinksHeld(r)'
             /\ c = "user" => AccountHeld(r)'
             /\ c = "vehicle" => VehicleHeld(r)'
    PROVE  DirectoryInv'
<1>1. CASE ~ok
  BY <1>1, RefusedInv DEF LookUp
<1>2. CASE ok
  <2> DEFINE q == dreq[r]
             p == dreq'[r]
  <2>1. LookedUp(r, c) /\ c \in q.todo
    BY <1>2 DEF LookUp, LookedUp
  <2>2. q \in DirectoryRequest /\ DirectoryRequestOK(r)
    BY <2>1, RequestKinds DEF DirectoryInv, DirectoryTypeInv, DirectoryIdle
  <2>3. /\ p \in DirectoryRequest
        /\ p.op = q.op /\ p.tenant = q.tenant /\ p.todo = q.todo \ {c} /\ p.id = q.id
        /\ q \in BranchRequest => p.name = q.name
        /\ q \in MemberRequest => /\ p.kind = q.kind /\ p.key = q.key
                                  /\ p.branch = q.branch /\ p.links = q.links
                                  /\ p.account = q.account
        /\ q \in ContractRequest =>
             /\ p.type = q.type /\ p.start = q.start /\ p.end = q.end
             /\ p.given = q.given /\ p.vehicle = q.vehicle
             /\ p.key = q.key /\ p.branch = q.branch
    BY <2>1, <2>2, LookedUpFields
  <2>4. UNCHANGED <<branches, members, contracts, dmissed, draced>>
    BY <2>1 DEF LookedUp
  <2> HIDE DEF q, p
  <2>5. /\ q.op \in {"createBranch", "updateBranch", "removeBranch"} => q \in BranchRequest
        /\ q.op \in {"createMember", "updateMember", "removeMember"} => q \in MemberRequest
        /\ q.op \in {"createContract", "updateContract", "removeContract", "createBoth"}
             => q \in ContractRequest
    BY <2>2, RequestKinds
  <2>6. BranchRequestOK(r)'
    <3>1. NameHeld(r)'
      BY <1>2, <2>1, <2>2, <2>3, <2>4, <2>5
         DEF DirectoryRequestOK, BranchRequestOK, NameHeld, FindBranch, Raced, q, p
    <3> QED
      BY <2>2, <2>3, <2>4, <2>5, <3>1 DEF DirectoryRequestOK, BranchRequestOK, q, p
  <2>7. MemberRequestOK(r)'
    <3>1. KeyHeld(r)'
      BY <1>2, <2>1, <2>2, <2>3, <2>4, <2>5
         DEF DirectoryRequestOK, MemberRequestOK, KeyHeld, q, p
    <3>2. AccountHeld(r)'
      BY <1>2, <2>1, <2>2, <2>3, <2>4, <2>5
         DEF DirectoryRequestOK, MemberRequestOK, AccountHeld, q, p
    <3> QED
      BY <2>2, <2>3, <2>4, <2>5, <3>1, <3>2 DEF DirectoryRequestOK, MemberRequestOK, q, p
  <2>8. ContractRequestOK(r)'
    <3>1. VehicleHeld(r)'
      BY <1>2, <2>1, <2>2, <2>3, <2>4, <2>5
         DEF DirectoryRequestOK, ContractRequestOK, VehicleHeld, q, p
    <3>2. DatesHeld(r)'
      BY <2>2, <2>3, <2>4, <2>5 DEF DirectoryRequestOK, ContractRequestOK, DatesHeld, q, p
    <3> QED
      BY <2>2, <2>3, <2>4, <2>5, <3>1, <3>2 DEF DirectoryRequestOK, ContractRequestOK, q, p
  <2>9. LinksHeld(r)'
    BY <1>2, <2>1, <2>2, <2>3, <2>4, <2>5
       DEF DirectoryRequestOK, LinksHeld, StillFound, q, p
  <2>10. DirectoryRequestOK(r)'
    BY <2>6, <2>7, <2>8, <2>9 DEF DirectoryRequestOK
  <2>11. dreq' = [dreq EXCEPT ![r] = p]
    BY <2>1 DEF LookedUp, p, DirectoryInv, DirectoryTypeInv
  <2> QED
    BY <2>3, <2>4, <2>10, <2>11, UnwrittenDirectoryInv DEF DirectoryInv, DirectoryTypeInv
<1> QED
  BY <1>1, <1>2

----------------------------------------------------------------------------
(***************************************************************************)
(* Requests that are accepted.                                             *)
(***************************************************************************)

\* What the slot holds once its request is accepted.
LEMMA Accepted ==
    ASSUME DirectoryInv, NEW r \in DirectoryRequests, NEW q, Accept(r, q)
    PROVE  dreq'[r] = q /\ UNCHANGED <<branches, members, dmissed, draced>>
BY DEF Accept, DirectoryInv, DirectoryTypeInv

\* A branch's create and update look the name up, or keep it.
LEMMA AcceptBranchInv ==
    ASSUME DirectoryInv, NEW r \in DirectoryRequests, UNCHANGED contracts,
           CreateBranch(r) \/ UpdateBranch(r) \/ RemoveBranch(r)
    PROVE  DirectoryInv'
<1>1. ASSUME NEW q \in BranchRequest, Accept(r, q), BranchRequestOK(r)'
      PROVE  DirectoryInv'
  <2>1. q \in DirectoryRequest
    BY DEF DirectoryRequest
  <2>2. q.op \in {"createBranch", "updateBranch", "removeBranch"}
    BY DEF BranchRequest
  <2>3. dreq'[r] = q
    BY <1>1, Accepted
  <2>4. DirectoryRequestOK(r)'
    BY <1>1, <2>2, <2>3
       DEF DirectoryRequestOK, MemberRequestOK, KeyHeld, AccountHeld,
           ContractRequestOK, DatesHeld, VehicleHeld, LinksHeld
  <2> QED
    BY <1>1, <2>1, <2>4, AcceptInv
<1>2. CASE CreateBranch(r)
  <2>1. PICK t \in Tenants, n \in BranchNames :
          Accept(r, [op |-> "createBranch", tenant |-> t, todo |-> {"name"},
                     id |-> None, name |-> n])
    BY <1>2 DEF CreateBranch
  <2> DEFINE q == [op |-> "createBranch", tenant |-> t, todo |-> {"name"},
                   id |-> None, name |-> n]
  <2>2. q \in BranchRequest
    BY DEF BranchRequest, Lookups
  <2>3. BranchRequestOK(r)'
    BY <2>1, Accepted DEF BranchRequestOK, NameHeld
  <2> QED
    BY <1>1, <2>1, <2>2, <2>3
<1>3. CASE UpdateBranch(r)
  <2>1. PICK t \in Tenants, b \in Branches, n \in BranchNames \cup {Empty, Absent} :
          /\ FindBranch(b, t)
          /\ Accept(r, [op |-> "updateBranch", tenant |-> t,
                        todo |-> IF n \in {Absent, Empty, branches[b].name} THEN {}
                                                                            ELSE {"name"},
                        id |-> b, name |-> n])
    BY <1>3 DEF UpdateBranch
  <2> DEFINE q == [op |-> "updateBranch", tenant |-> t,
                   todo |-> IF n \in {Absent, Empty, branches[b].name} THEN {}
                                                                       ELSE {"name"},
                   id |-> b, name |-> n]
  <2>2. q \in BranchRequest
    BY DEF BranchRequest, Lookups
  <2>3. dreq'[r] = q /\ UNCHANGED <<branches, members, dmissed, draced>>
    BY <2>1, Accepted
  <2>4. q.op = "updateBranch" /\ q.id = b /\ q.tenant = t /\ q.name = n
        /\ ("name" \notin q.todo => n \in {Absent, Empty, branches[b].name})
    OBVIOUS
  <2> HIDE DEF q
  <2>5. NameHeld(r)'
    <3> SUFFICES ASSUME n = branches[b].name, n # Empty, NEW a \in DOMAIN branches \ {b},
                        FindBranch(a, t), branches[a].name = n
                 PROVE  Raced(a, b) \/ Raced(b, a)
      BY <2>3, <2>4 DEF NameHeld, FindBranch, Raced
    <3> QED
      BY <2>1 DEF DirectoryInv, SameNameOnlyByRace, FindBranch
  <2>6. BranchRequestOK(r)'
    BY <2>1, <2>3, <2>4, <2>5 DEF BranchRequestOK, FindBranch
  <2> QED
    BY <1>1, <2>1, <2>2, <2>6 DEF q
<1>4. CASE RemoveBranch(r)
  <2>1. PICK t \in Tenants, b \in Branches :
          /\ FindBranch(b, t)
          /\ Accept(r, [op |-> "removeBranch", tenant |-> t, todo |-> {},
                        id |-> b, name |-> Absent])
    BY <1>4 DEF RemoveBranch
  <2> DEFINE q == [op |-> "removeBranch", tenant |-> t, todo |-> {},
                   id |-> b, name |-> Absent]
  <2>2. q \in BranchRequest
    BY DEF BranchRequest, Lookups
  <2>3. BranchRequestOK(r)'
    BY <2>1, Accepted DEF BranchRequestOK, NameHeld, FindBranch
  <2> QED
    BY <1>1, <2>1, <2>2, <2>3
<1> QED
  BY <1>2, <1>3, <1>4

\* A member's request that is accepted, for the services of all three kinds.
LEMMA AcceptMemberRequest ==
    ASSUME DirectoryInv, NEW r \in DirectoryRequests, UNCHANGED contracts,
           NEW q \in MemberRequest, Accept(r, q), MemberRequestOK(r)', LinksHeld(r)'
    PROVE  DirectoryInv'
<1>1. q \in DirectoryRequest
  BY DEF DirectoryRequest
<1>2. q.op \in {"createMember", "updateMember", "removeMember"}
  BY DEF MemberRequest
<1>3. dreq'[r] = q
  BY Accepted
<1>4. DirectoryRequestOK(r)'
  BY <1>2, <1>3
     DEF DirectoryRequestOK, BranchRequestOK, NameHeld,
         ContractRequestOK, DatesHeld, VehicleHeld
<1> QED
  BY <1>1, <1>4, AcceptInv

\* The primary branch of a DTO that needs no lookup of it is one of its links.
LEMMA PrimaryIsKnown ==
    ASSUME NEW b \in Branches \cup {None, Absent},
           NEW links \in (SUBSET Branches) \cup {Absent},
           NEW p \in Primary(b, links)
    PROVE  /\ p \in Branches \cup {None, Absent}
           /\ b \in Branches => p = b
           /\ b \notin Branches /\ p \in Branches => links # Absent /\ p \in links
BY DirectoryAssumption DEF Primary

\* create: everything is looked up that the DTO refers to.
LEMMA CreateMemberInv ==
    ASSUME DirectoryInv, NEW r \in DirectoryRequests, UNCHANGED contracts, CreateMember(r)
    PROVE  DirectoryInv'
<1>0. PICK t \in Tenants, kind \in Kinds, k \in Keys, u \in Members \cup {None} :
        \E b \in Branches \cup {Absent}, ids \in BranchIds(kind) :
          LET links == IF kind # "user" THEN {}
                       ELSE Incoming(b, IF ids = Absent THEN {} ELSE ids)
          IN  \E p \in Primary(b, links) :
                Accept(r, [op |-> "createMember", tenant |-> t,
                           todo |-> Needed(TRUE, u, b, links),
                           id |-> None, kind |-> kind, key |-> k,
                           branch |-> p, links |-> links, account |-> u])
  BY DEF CreateMember
<1>1. PICK b \in Branches \cup {Absent}, ids \in BranchIds(kind) :
        LET links == IF kind # "user" THEN {}
                     ELSE Incoming(b, IF ids = Absent THEN {} ELSE ids)
        IN  \E p \in Primary(b, links) :
              Accept(r, [op |-> "createMember", tenant |-> t,
                         todo |-> Needed(TRUE, u, b, links),
                         id |-> None, kind |-> kind, key |-> k,
                         branch |-> p, links |-> links, account |-> u])
  BY <1>0
<1> DEFINE links == IF kind # "user" THEN {}
                    ELSE Incoming(b, IF ids = Absent THEN {} ELSE ids)
<1>2. links \in SUBSET Branches
  BY DEF Incoming, BranchIds
<1> HIDE DEF links
<1>3. PICK p \in Primary(b, links) :
        Accept(r, [op |-> "createMember", tenant |-> t, todo |-> Needed(TRUE, u, b, links),
                   id |-> None, kind |-> kind, key |-> k,
                   branch |-> p, links |-> links, account |-> u])
  BY <1>1 DEF links
<1> DEFINE q == [op |-> "createMember", tenant |-> t, todo |-> Needed(TRUE, u, b, links),
                 id |-> None, kind |-> kind, key |-> k,
                 branch |-> p, links |-> links, account |-> u]
<1>4. /\ p \in Branches \cup {None, Absent}
      /\ b \notin Branches /\ p \in Branches => p \in links
  BY <1>2, PrimaryIsKnown
<1>5. /\ Needed(TRUE, u, b, links) \in SUBSET Lookups
      /\ "key" \in Needed(TRUE, u, b, links)
      /\ u # None => "user" \in Needed(TRUE, u, b, links)
      /\ b \in Branches => "branch" \in Needed(TRUE, u, b, links)
      /\ links # {} => "links" \in Needed(TRUE, u, b, links)
  BY <1>2, DirectoryAssumption DEF Needed, Lookups
<1>6. q \in MemberRequest
  BY <1>2, <1>4, <1>5 DEF MemberRequest
<1>7. dreq'[r] = q
  BY <1>3, Accepted
<1>8. /\ q.op = "createMember" /\ q.todo = Needed(TRUE, u, b, links) /\ q.id = None
      /\ q.key = k /\ q.branch = p /\ q.links = links /\ q.account = u
  OBVIOUS
<1> HIDE DEF q
<1>9. MemberRequestOK(r)'
  BY <1>2, <1>5, <1>7, <1>8 DEF MemberRequestOK, KeyHeld, AccountHeld
<1>10. LinksHeld(r)'
  BY <1>2, <1>4, <1>5, <1>7, <1>8, DirectoryAssumption DEF LinksHeld
<1> QED
  BY <1>3, <1>6, <1>9, <1>10, AcceptMemberRequest DEF q

\* update: a key that is kept is no other member's, for the index says so.
LEMMA UpdateMemberInv ==
    ASSUME DirectoryInv, NEW r \in DirectoryRequests, UNCHANGED contracts, UpdateMember(r)
    PROVE  DirectoryInv'
<1>0. PICK t \in Tenants, kind \in Kinds, m \in Members, k \in Keys \cup {Empty, Absent} :
        /\ FindMember(m, kind, t)
        /\ kind = "user" => k = Absent
        /\ k = Empty => kind = "driver"
        /\ \E b \in Branches \cup {None, Absent}, ids \in BranchIds(kind) :
             LET links == IF ids = Absent THEN Absent ELSE Incoming(b, ids) IN
             /\ {k, b, ids} # {Absent}
             /\ \E p \in Primary(b, links) :
                  Accept(r, [op |-> "updateMember", tenant |-> t,
                             todo |-> Needed(k \notin {Absent, Empty, members[m].key},
                                             None, b, links),
                             id |-> m, kind |-> kind, key |-> k,
                             branch |-> p, links |-> links, account |-> None])
  BY DEF UpdateMember
<1>1. PICK b \in Branches \cup {None, Absent}, ids \in BranchIds(kind) :
        LET links == IF ids = Absent THEN Absent ELSE Incoming(b, ids) IN
        \E p \in Primary(b, links) :
           Accept(r, [op |-> "updateMember", tenant |-> t,
                      todo |-> Needed(k \notin {Absent, Empty, members[m].key},
                                      None, b, links),
                      id |-> m, kind |-> kind, key |-> k,
                      branch |-> p, links |-> links, account |-> None])
  BY <1>0
<1> DEFINE links == IF ids = Absent THEN Absent ELSE Incoming(b, ids)
           todo == Needed(k \notin {Absent, Empty, members[m].key}, None, b, links)
<1>2. links \in (SUBSET Branches) \cup {Absent}
  BY DEF Incoming, BranchIds
<1>3. /\ todo \in SUBSET Lookups
      /\ "key" \notin todo => k \in {Absent, Empty, members[m].key}
      /\ b \in Branches => "branch" \in todo
      /\ links \notin {Absent, {}} => "links" \in todo
  BY DEF Needed, Lookups
<1> HIDE DEF links, todo
<1>4. PICK p \in Primary(b, links) :
        Accept(r, [op |-> "updateMember", tenant |-> t, todo |-> todo,
                   id |-> m, kind |-> kind, key |-> k,
                   branch |-> p, links |-> links, account |-> None])
  BY <1>1 DEF links, todo
<1> DEFINE q == [op |-> "updateMember", tenant |-> t, todo |-> todo,
                 id |-> m, kind |-> kind, key |-> k,
                 branch |-> p, links |-> links, account |-> None]
<1>5. /\ p \in Branches \cup {None, Absent}
      /\ b \notin Branches /\ p \in Branches => links # Absent /\ p \in links
  BY <1>2, PrimaryIsKnown
<1>6. q \in MemberRequest
  BY <1>2, <1>3, <1>5 DEF MemberRequest
<1>7. dreq'[r] = q /\ UNCHANGED <<branches, members, dmissed, draced>>
  BY <1>4, Accepted
<1>8. /\ q.op = "updateMember" /\ q.todo = todo /\ q.id = m /\ q.tenant = t
      /\ q.kind = kind /\ q.key = k /\ q.branch = p /\ q.links = links
  OBVIOUS
<1> HIDE DEF q
<1>9. KeyHeld(r)'
  BY <1>0, <1>3, <1>7, <1>8, DirectoryAssumption
     DEF KeyHeld, FindMember, DirectoryInv, KeysUnique
<1>10. MemberRequestOK(r)'
  BY <1>0, <1>7, <1>8, <1>9 DEF MemberRequestOK, AccountHeld, FindMember
<1>11. LinksHeld(r)'
  BY <1>2, <1>3, <1>5, <1>7, <1>8 DEF LinksHeld
<1> QED
  BY <1>4, <1>6, <1>10, <1>11, AcceptMemberRequest DEF q

\* remove: the row it read is of the kind and tenant it asked for.
LEMMA RemoveMemberInv ==
    ASSUME DirectoryInv, NEW r \in DirectoryRequests, UNCHANGED contracts, RemoveMember(r)
    PROVE  DirectoryInv'
<1>1. PICK t \in Tenants, kind \in Kinds, m \in Members :
        /\ FindMember(m, kind, t)
        /\ Accept(r, [op |-> "removeMember", tenant |-> t, todo |-> {}, id |-> m,
                      kind |-> kind, key |-> Absent,
                      branch |-> Absent, links |-> Absent, account |-> None])
  BY DEF RemoveMember
<1> DEFINE q == [op |-> "removeMember", tenant |-> t, todo |-> {}, id |-> m,
                 kind |-> kind, key |-> Absent,
                 branch |-> Absent, links |-> Absent, account |-> None]
<1>2. q \in MemberRequest
  BY DEF MemberRequest
<1>3. MemberRequestOK(r)' /\ LinksHeld(r)'
  BY <1>1, Accepted DEF MemberRequestOK, KeyHeld, AccountHeld, LinksHeld, FindMember
<1> QED
  BY <1>1, <1>2, <1>3, AcceptMemberRequest

\* A contract's request that is accepted.
LEMMA AcceptContractRequest ==
    ASSUME DirectoryInv, NEW r \in DirectoryRequests, UNCHANGED contracts,
           NEW q \in ContractRequest, Accept(r, q), ContractRequestOK(r)', LinksHeld(r)'
    PROVE  DirectoryInv'
<1>1. q \in DirectoryRequest
  BY DEF DirectoryRequest
<1>2. q.op \in {"createContract", "updateContract", "removeContract", "createBoth"}
  BY DEF ContractRequest
<1>3. dreq'[r] = q
  BY Accepted
<1>4. DirectoryRequestOK(r)'
  BY <1>2, <1>3
     DEF DirectoryRequestOK, BranchRequestOK, NameHeld, MemberRequestOK, KeyHeld, AccountHeld
<1> QED
  BY <1>1, <1>4, AcceptInv

\* create, with or without a vehicle: the DTO's dates are in order.
LEMMA CreateContractInv ==
    ASSUME DirectoryInv, NEW r \in DirectoryRequests,
           CreateContract(r) \/ CreateContractAndVehicle(r)
    PROVE  DirectoryInv'
<1>1. CASE CreateContract(r)
  <2>1. PICK t \in Tenants, type \in ContractType, start \in Days, end \in Days,
             v \in Members \cup {None} :
          /\ end > start
          /\ AcceptContract(r, "createContract", t, VehicleLookup(v), None,
                            type, start, end, {}, v, None, None)
    BY <1>1 DEF CreateContract
  <2> DEFINE q == [op |-> "createContract", tenant |-> t, todo |-> VehicleLookup(v),
                   id |-> None, type |-> type, start |-> start, end |-> end,
                   given |-> {}, vehicle |-> v, kind |-> "vehicle", key |-> None,
                   branch |-> None]
  <2>2. Accept(r, q) /\ UNCHANGED contracts
    BY <2>1 DEF AcceptContract
  <2>3. VehicleLookup(v) \in SUBSET Lookups /\ (v \in Members => "vehicle" \in VehicleLookup(v))
    BY DEF VehicleLookup, Lookups
  <2>4. q \in ContractRequest
    BY <2>3 DEF ContractRequest
  <2>5. dreq'[r] = q
    BY <2>2, Accepted
  <2>6. ContractRequestOK(r)' /\ LinksHeld(r)'
    BY <2>1, <2>3, <2>5 DEF ContractRequestOK, DatesHeld, VehicleHeld, LinksHeld
  <2> QED
    BY <2>2, <2>4, <2>6, AcceptContractRequest
<1>2. CASE CreateContractAndVehicle(r)
  <2>1. PICK t \in Tenants, start \in Days, end \in Days, k \in Keys,
             b \in Branches \cup {None} :
          /\ end > start
          /\ AcceptContract(r, "createBoth", t, Needed(TRUE, None, b, {}), None,
                            "VEHICLE_SOURCE", start, end, {}, None, k, b)
    BY <1>2 DEF CreateContractAndVehicle
  <2> DEFINE todo == Needed(TRUE, None, b, {})
             q == [op |-> "createBoth", tenant |-> t, todo |-> todo,
                   id |-> None, type |-> "VEHICLE_SOURCE", start |-> start, end |-> end,
                   given |-> {}, vehicle |-> None, kind |-> "vehicle", key |-> k,
                   branch |-> b]
  <2>2. Accept(r, q) /\ UNCHANGED contracts
    BY <2>1 DEF AcceptContract
  <2>3. todo \in SUBSET Lookups /\ (b \in Branches => "branch" \in todo)
    BY DEF Needed, Lookups
  <2> HIDE DEF todo
  <2>4. q \in ContractRequest
    BY <2>3 DEF ContractRequest, ContractType
  <2>5. dreq'[r] = q
    BY <2>2, Accepted
  <2>6. ContractRequestOK(r)' /\ LinksHeld(r)'
    BY <2>1, <2>3, <2>5
       DEF ContractRequestOK, ContractType, DatesHeld, VehicleHeld, LinksHeld
  <2> QED
    BY <2>2, <2>4, <2>6, AcceptContractRequest
<1> QED
  BY <1>1, <1>2

\* update: the dates that the DTO leaves out are the row's.
LEMMA UpdateContractInv ==
    ASSUME DirectoryInv, NEW r \in DirectoryRequests, UpdateContract(r)
    PROVE  DirectoryInv'
<1>1. PICK t \in Tenants, c \in DOMAIN contracts, start \in Days \cup {Absent},
           end \in Days \cup {Absent} :
        /\ FindContract(c, t)
        /\ OrElse(end, contracts[c].end) > OrElse(start, contracts[c].start)
        /\ \E type \in ContractType \cup {Absent}, v \in Members \cup {None, Absent} :
             AcceptUpdate(r, t, c, contracts[c], type, start, end, v)
  BY DEF UpdateContract
<1>2. PICK type \in ContractType \cup {Absent}, v \in Members \cup {None, Absent} :
        AcceptUpdate(r, t, c, contracts[c], type, start, end, v)
  BY <1>1
<1> DEFINE todo == VehicleLookup(v)
           from == OrElse(start, contracts[c].start)
           to == OrElse(end, contracts[c].end)
           given == (IF start = Absent THEN {} ELSE {"start"})
                      \cup (IF end = Absent THEN {} ELSE {"end"})
           q == [op |-> "updateContract", tenant |-> t, todo |-> todo, id |-> c,
                 type |-> type, start |-> from, end |-> to, given |-> given,
                 vehicle |-> v, kind |-> "vehicle", key |-> None, branch |-> None]
<1>3. Accept(r, q) /\ UNCHANGED contracts
  BY <1>2 DEF AcceptUpdate, AcceptContract
<1>4. todo \in SUBSET Lookups /\ (v \in Members => "vehicle" \in todo)
  BY DEF VehicleLookup, Lookups
<1>5. c \in ContractIds /\ contracts[c] \in Contract
  BY DEF DirectoryInv, DirectoryTypeInv, ContractsTypeOK
<1>6. contracts[c].start \in Days /\ contracts[c].end \in Days
  BY <1>5 DEF Contract
<1>7. /\ from \in Days /\ to \in Days /\ to > from
      /\ given \in SUBSET {"start", "end"}
      /\ "start" \notin given => from = contracts[c].start
      /\ "end" \notin given => to = contracts[c].end
  BY <1>1, <1>6 DEF OrElse
<1>8. contracts[c].tenant = t
  BY <1>1 DEF FindContract
<1> HIDE DEF todo, from, to, given
<1>9. q \in ContractRequest
  BY <1>4, <1>5, <1>7 DEF ContractRequest
<1>10. dreq'[r] = q
  BY <1>3, Accepted
<1>11. ContractRequestOK(r)' /\ LinksHeld(r)'
  BY <1>3, <1>4, <1>7, <1>8, <1>10 DEF ContractRequestOK, DatesHeld, VehicleHeld, LinksHeld
<1> QED
  BY <1>3, <1>9, <1>11, AcceptContractRequest

\* remove: the row it read is the tenant's.
LEMMA RemoveContractInv ==
    ASSUME DirectoryInv, NEW r \in DirectoryRequests, RemoveContract(r)
    PROVE  DirectoryInv'
<1>1. PICK t \in Tenants, c \in ContractIds :
        /\ FindContract(c, t)
        /\ AcceptContract(r, "removeContract", t, {}, c, Absent, contracts[c].start,
                          contracts[c].end, {}, Absent, None, None)
  BY DEF RemoveContract
<1> DEFINE q == [op |-> "removeContract", tenant |-> t, todo |-> {}, id |-> c,
                 type |-> Absent, start |-> contracts[c].start, end |-> contracts[c].end,
                 given |-> {}, vehicle |-> Absent, kind |-> "vehicle", key |-> None,
                 branch |-> None]
<1>2. Accept(r, q) /\ UNCHANGED contracts
  BY <1>1 DEF AcceptContract
<1>3. c \in DOMAIN contracts /\ contracts[c].tenant = t
  BY <1>1 DEF FindContract
<1>4. contracts[c] \in Contract
  BY <1>3 DEF DirectoryInv, DirectoryTypeInv, ContractsTypeOK
<1>5. contracts[c].start \in Days /\ contracts[c].end \in Days
  BY <1>4 DEF Contract
<1>6. q \in ContractRequest
  BY <1>5 DEF ContractRequest
<1>7. dreq'[r] = q
  BY <1>2, Accepted
<1>8. ContractRequestOK(r)' /\ LinksHeld(r)'
  BY <1>2, <1>3, <1>7 DEF ContractRequestOK, DatesHeld, VehicleHeld, LinksHeld
<1> QED
  BY <1>2, <1>6, <1>8, AcceptContractRequest

----------------------------------------------------------------------------
(***************************************************************************)
(* Lookups.                                                                *)
(***************************************************************************)

\* What each lookup of the branches' and members' handlers finds is what the
\* request goes by from then on.
LEMMA DirectoryLookUpsInv ==
    ASSUME DirectoryInv, NEW r \in DirectoryRequests, UNCHANGED contracts,
           \/ CheckName(r) \/ CheckKey(r) \/ CheckUser(r)
           \/ CheckNotDriver(r) \/ CheckBranch(r) \/ CheckLinks(r)
    PROVE  DirectoryInv'
<1> DEFINE q == dreq[r]
           p == dreq'[r]
<1>1. dreq[r] \in DirectoryRequest \cup {DirectoryIdle}
  BY DEF DirectoryInv, DirectoryTypeInv
<1>2. ASSUME NEW c, LookedUp(r, c), c \in q.todo
      PROVE  /\ p.op = q.op /\ p.tenant = q.tenant /\ p.todo = q.todo \ {c} /\ p.id = q.id
             /\ q \in BranchRequest => p.name = q.name
             /\ q \in MemberRequest => /\ p.kind = q.kind /\ p.key = q.key
                                       /\ p.branch = q.branch /\ p.links = q.links
                                       /\ p.account = q.account
             /\ q \in ContractRequest => p.branch = q.branch
             /\ DirectoryRequestOK(r)
             /\ UNCHANGED <<branches, members, contracts, dmissed, draced>>
  <2>1. q # DirectoryIdle
    BY <1>2 DEF DirectoryIdle
  <2> QED
    BY <1>1, <1>2, <2>1, LookedUpFields DEF LookedUp, DirectoryInv
<1>3. /\ q.op \in {"createBranch", "updateBranch", "removeBranch"} => q \in BranchRequest
      /\ q.op \in {"createMember", "updateMember", "removeMember"} => q \in MemberRequest
      /\ q.op = "createBoth" => q \in ContractRequest
  BY <1>1, RequestKinds
<1>4. CASE CheckName(r)
  <2>1. ASSUME ~NameInUse(q.name, q.tenant, q.id), LookedUp(r, "name"), "name" \in q.todo
        PROVE  NameHeld(r)'
    BY <1>2, <1>3, <2>1 DEF NameHeld, NameInUse, FindBranch
  <2> QED
    BY <1>4, <2>1, LookUpInv DEF CheckName, LookUp
<1>5. CASE CheckKey(r)
  <2>1. ASSUME ~KeyInUse(q.kind, q.key, q.id), LookedUp(r, "key"), "key" \in q.todo
        PROVE  KeyHeld(r)'
    BY <1>2, <1>3, <2>1 DEF KeyHeld, KeyInUse
  <2> QED
    BY <1>5, <2>1, LookUpInv DEF CheckKey, LookUp
<1>6. CASE CheckUser(r)
  <2>1. ASSUME FindMember(q.account, "user", q.tenant), LookedUp(r, "user"), "user" \in q.todo
        PROVE  AccountHeld(r)'
    BY <1>2, <1>3, <2>1 DEF AccountHeld, FindMember
  <2> QED
    BY <1>6, <2>1, LookUpInv DEF CheckUser, LookUp
<1>7. CASE CheckNotDriver(r)
  BY <1>7, LookUpInv DEF CheckNotDriver
<1>8. CASE CheckBranch(r)
  <2>1. ASSUME FindBranch(q.branch, q.tenant), LookedUp(r, "branch"), "branch" \in q.todo
        PROVE  LinksHeld(r)'
    BY <1>2, <1>3, <2>1 DEF LinksHeld, StillFound, FindBranch, DirectoryRequestOK
  <2> QED
    BY <1>8, <2>1, LookUpInv DEF CheckBranch, LookUp
<1>9. CASE CheckLinks(r)
  <2>1. ASSUME \A b \in q.links : FindBranch(b, q.tenant), LookedUp(r, "links"),
               "links" \in q.todo
        PROVE  LinksHeld(r)'
    BY <1>2, <1>3, <2>1 DEF LinksHeld, StillFound, FindBranch, DirectoryRequestOK
  <2> QED
    BY <1>9, <2>1, LookUpInv DEF CheckLinks, LookUp
<1> QED
  BY <1>4, <1>5, <1>6, <1>7, <1>8, <1>9

\* A contract's vehicle is looked up in the caller's tenant.
LEMMA CheckContractVehicleInv ==
    ASSUME DirectoryInv, NEW r \in DirectoryRequests, CheckContractVehicle(r)
    PROVE  DirectoryInv'
<1> DEFINE q == dreq[r]
           p == dreq'[r]
<1>1. dreq[r] \in DirectoryRequest \cup {DirectoryIdle}
  BY DEF DirectoryInv, DirectoryTypeInv
<1>2. ASSUME FindMember(q.vehicle, "vehicle", q.tenant), LookedUp(r, "vehicle"),
             "vehicle" \in q.todo
      PROVE  VehicleHeld(r)'
  <2>1. q # DirectoryIdle
    BY <1>2 DEF DirectoryIdle
  <2>2. /\ p.op = q.op /\ p.tenant = q.tenant
        /\ q \in ContractRequest => p.vehicle = q.vehicle
    BY <1>1, <1>2, <2>1, LookedUpFields
  <2>3. q.op \in {"createContract", "updateContract"} => q \in ContractRequest
    BY <1>1, RequestKinds
  <2> QED
    BY <1>2, <2>2, <2>3 DEF VehicleHeld, FindMember, LookedUp
<1> QED
  BY <1>2, LookUpInv DEF CheckContractVehicle, LookUp

----------------------------------------------------------------------------
(***************************************************************************)
(* What a write leaves to the requests that are in flight.                 *)
(***************************************************************************)

\* Rows are added and never lost; a row keeps its tenant and kind, and apart
\* from the rows of ids only links to branches change.
RowsKept(ids) ==
    /\ DOMAIN branches \subseteq DOMAIN branches'
    /\ DOMAIN branches' \subseteq DOMAIN branches \cup ids
    /\ \A b \in DOMAIN branches :
         /\ branches'[b].tenant = branches[b].tenant
         /\ b \notin ids => branches'[b] = branches[b]
    /\ DOMAIN members \subseteq DOMAIN members'
    /\ DOMAIN members' \subseteq DOMAIN members \cup ids
    /\ \A m \in DOMAIN members :
         /\ members'[m].kind = members[m].kind /\ members'[m].tenant = members[m].tenant
         /\ m \notin ids => /\ members'[m].key = members[m].key
                            /\ members'[m].deleted = members[m].deleted
    /\ DOMAIN contracts \subseteq DOMAIN contracts'
    /\ \A c \in DOMAIN contracts :
         /\ contracts'[c].tenant = contracts[c].tenant
         /\ c \notin ids => contracts'[c] = contracts[c]

\* What the slots and the history are after a write.
LEMMA WrittenSlots ==
    ASSUME DirectoryInv, NEW r \in DirectoryRequests,
           NEW ids \in SUBSET (Branches \cup Members \cup ContractIds), Written(r, ids)
    PROVE  /\ dreq' \in [DirectoryRequests -> DirectoryRequest \cup {DirectoryIdle}]
           /\ dmissed' \in [DirectoryRequests -> SUBSET (Branches \cup Members \cup ContractIds)]
           /\ dreq'[r] = DirectoryIdle
           /\ \A x \in DirectoryRequests \ {r} :
                /\ dreq'[x] = dreq[x]
                /\ dreq[x] # DirectoryIdle => dmissed'[x] = dmissed[x] \cup ids
           /\ \A i \in ids : \A b \in (dmissed[r] \cap Branches) \ ids : Raced(i, b)'
           /\ \A i, b : Raced(i, b) => Raced(i, b)'
<1>1. /\ dreq \in [DirectoryRequests -> DirectoryRequest \cup {DirectoryIdle}]
      /\ dmissed \in [DirectoryRequests -> SUBSET (Branches \cup Members \cup ContractIds)]
  BY DEF DirectoryInv, DirectoryTypeInv
<1>2. /\ dreq' \in [DirectoryRequests -> DirectoryRequest \cup {DirectoryIdle}]
      /\ dreq'[r] = DirectoryIdle
      /\ \A x \in DirectoryRequests \ {r} : dreq'[x] = dreq[x]
  BY <1>1 DEF Written
<1>3. /\ dmissed' \in [DirectoryRequests -> SUBSET (Branches \cup Members \cup ContractIds)]
      /\ \A x \in DirectoryRequests \ {r} :
            dreq[x] # DirectoryIdle => dmissed'[x] = dmissed[x] \cup ids
  BY <1>1 DEF Written
<1>4. /\ \A i \in ids : \A b \in (dmissed[r] \cap Branches) \ ids : Raced(i, b)'
      /\ \A i, b : Raced(i, b) => Raced(i, b)'
  BY DEF Written, Raced
<1> QED
  BY <1>2, <1>3, <1>4

\* The other requests know what they knew, or have missed it.
LEMMA OthersKnow ==
    ASSUME DirectoryInv, NEW r \in DirectoryRequests,
           NEW ids \in SUBSET (Branches \cup Members \cup ContractIds), Written(r, ids),
           RowsKept(ids), NEW x \in DirectoryRequests, dreq'[x] # DirectoryIdle
    PROVE  DirectoryRequestOK(x)'
<1>1. /\ x # r /\ dreq'[x] = dreq[x] /\ dmissed'[x] = dmissed[x] \cup ids
      /\ \A i, b : Raced(i, b) => Raced(i, b)'
  BY WrittenSlots
<1>2. DirectoryRequestOK(x)
  BY <1>1 DEF DirectoryInv
<1>3. BranchRequestOK(x)'
  <2>1. NameHeld(x)'
    BY <1>1, <1>2 DEF DirectoryRequestOK, BranchRequestOK, NameHeld, FindBranch, RowsKept
  <2> QED
    BY <1>1, <1>2, <2>1 DEF DirectoryRequestOK, BranchRequestOK, RowsKept
<1>4. MemberRequestOK(x)'
  <2>1. KeyHeld(x)'
    BY <1>1, <1>2 DEF DirectoryRequestOK, MemberRequestOK, KeyHeld, RowsKept
  <2>2. AccountHeld(x)'
    BY <1>1, <1>2 DEF DirectoryRequestOK, MemberRequestOK, AccountHeld, RowsKept
  <2> QED
    BY <1>1, <1>2, <2>1, <2>2 DEF DirectoryRequestOK, MemberRequestOK, RowsKept
<1>5. ContractRequestOK(x)'
  <2>1. DatesHeld(x)'
    BY <1>1, <1>2 DEF DirectoryRequestOK, ContractRequestOK, DatesHeld, RowsKept
  <2>2. VehicleHeld(x)'
    BY <1>1, <1>2 DEF DirectoryRequestOK, ContractRequestOK, VehicleHeld, RowsKept
  <2> QED
    BY <1>1, <1>2, <2>1, <2>2 DEF DirectoryRequestOK, ContractRequestOK, RowsKept
<1>6. LinksHeld(x)'
  <2>1. \A b : StillFound(x, b) => StillFound(x, b)'
    BY <1>1 DEF StillFound, RowsKept
  <2> QED
    BY <1>1, <1>2, <2>1 DEF DirectoryRequestOK, LinksHeld
<1> QED
  BY <1>3, <1>4, <1>5, <1>6 DEF DirectoryRequestOK

\* What the rows alone promise.
RowsInv ==
    /\ RowsTypeOK
    /\ members = [m \in DOMAIN members |-> members[m]]
    /\ contracts = [c \in DOMAIN contracts |-> contracts[c]]
    /\ DOMAIN contracts \subseteq ContractIds
    /\ \A c \in DOMAIN contracts : contracts[c] \in Contract
    /\ KeysUnique
    /\ ReferencesExist
    /\ SameNameOnlyByRace
    /\ LinkToRemovedOnlyByRace
    /\ LinksStayInTenant
    /\ ContractsStayInTenant
    /\ ContractDatesInOrder

\* So a write has to answer for the rows only.
LEMMA WrittenInv ==
    ASSUME DirectoryInv, NEW r \in DirectoryRequests,
           NEW ids \in SUBSET (Branches \cup Members \cup ContractIds), Written(r, ids),
           RowsKept(ids), RowsInv'
    PROVE  DirectoryInv'
<1>1. /\ dreq' \in [DirectoryRequests -> DirectoryRequest \cup {DirectoryIdle}]
      /\ dmissed' \in [DirectoryRequests -> SUBSET (Branches \cup Members \cup ContractIds)]
  BY WrittenSlots
<1>2. ContractsTypeOK'
  BY <1>1 DEF RowsInv, ContractsTypeOK, DirectoryRequest
<1>3. DirectoryTypeInv'
  BY <1>1, <1>2 DEF RowsInv, DirectoryTypeInv
<1>4. \A x \in DirectoryRequests : dreq'[x] # DirectoryIdle => DirectoryRequestOK(x)'
  BY OthersKnow
<1> QED
  BY <1>3, <1>4 DEF RowsInv, DirectoryInv

\* An update of a row that is there is an insert over it.
LEMMA UpdateIsInsert ==
    ASSUME NEW table, table = [x \in DOMAIN table |-> table[x]],
           NEW id \in DOMAIN table, NEW row
    PROVE  [table EXCEPT ![id] = row] = Insert(table, id, row)
<1>1. DOMAIN table \cup {id} = DOMAIN table
  OBVIOUS
<1> QED
  BY <1>1 DEF Insert

----------------------------------------------------------------------------
(***************************************************************************)
(* Writes of one row of each table.                                        *)
(***************************************************************************)

\* A branch that is inserted or updated, whose name no live branch of the tenant
\* has unless one of the two was missed.
LEMMA BranchWritten ==
    ASSUME DirectoryInv, NEW r \in DirectoryRequests, NEW b \in Branches, NEW row \in Branch,
           branches' = Insert(branches, b, row), UNCHANGED <<members, contracts>>,
           Written(r, {b}),
           b \in DOMAIN branches =>
             row.tenant = branches[b].tenant /\ row.deleted = branches[b].deleted,
           ~row.deleted /\ row.name # Empty =>
             \A a \in DOMAIN branches \ {b} :
               FindBranch(a, row.tenant) /\ branches[a].name = row.name
                 => Raced(a, b)' \/ Raced(b, a)'
    PROVE  DirectoryInv'
<1>1. /\ DOMAIN branches' = DOMAIN branches \cup {b} /\ branches'[b] = row
      /\ \A x \in DOMAIN branches : x # b => branches'[x] = branches[x]
      /\ branches' = [x \in DOMAIN branches' |-> branches'[x]]
  BY DEF Insert
<1>2. RowsKept({b})
  BY <1>1 DEF RowsKept
<1>3. \A i, c : Raced(i, c) => Raced(i, c)'
  BY WrittenSlots
<1>4. RowsTypeOK'
  <2>1. \A x \in DOMAIN branches' : branches'[x] \in Branch
    BY <1>1 DEF DirectoryInv, DirectoryTypeInv, RowsTypeOK
  <2> QED
    BY <1>1, <2>1 DEF DirectoryInv, DirectoryTypeInv, RowsTypeOK
<1>5. KeysUnique' /\ ReferencesExist'
  BY <1>1 DEF DirectoryInv, KeysUnique, ReferencesExist, LinkedTo
<1>6. SameNameOnlyByRace'
  <2> SUFFICES ASSUME NEW a \in DOMAIN branches', NEW c \in DOMAIN branches', a # c,
                      FindBranch(a, branches[c].tenant)', FindBranch(c, branches[c].tenant)',
                      branches'[a].name = branches'[c].name, branches'[a].name # Empty
               PROVE  Raced(a, c)' \/ Raced(c, a)'
    BY DEF SameNameOnlyByRace
  <2>1. CASE a # b /\ c # b
    <3>1. /\ branches'[a] = branches[a] /\ branches'[c] = branches[c]
          /\ a \in DOMAIN branches /\ c \in DOMAIN branches
      BY <1>1, <2>1
    <3>2. Raced(a, c) \/ Raced(c, a)
      BY <3>1 DEF DirectoryInv, SameNameOnlyByRace, FindBranch
    <3> QED
      BY <1>3, <3>2
  <2>2. CASE a = b
    BY <1>1, <2>2 DEF FindBranch
  <2>3. CASE c = b
    BY <1>1, <2>3 DEF FindBranch
  <2> QED
    BY <2>1, <2>2, <2>3
<1>7. LinkToRemovedOnlyByRace' /\ LinksStayInTenant'
  <2>1. \A m \in DOMAIN members : LinkedTo(m) \subseteq DOMAIN branches
    BY DEF DirectoryInv, ReferencesExist
  <2>2. \A x \in DOMAIN branches : /\ branches'[x].deleted = branches[x].deleted
                                   /\ branches'[x].tenant = branches[x].tenant
    BY <1>1
  <2> QED
    BY <1>3, <2>1, <2>2
       DEF DirectoryInv, LinkToRemovedOnlyByRace, LinksStayInTenant, LinkedTo
<1>8. ContractsStayInTenant' /\ ContractDatesInOrder'
  BY DEF DirectoryInv, ContractsStayInTenant, ContractDatesInOrder
<1>9. RowsInv'
  BY <1>4, <1>5, <1>6, <1>7, <1>8 DEF RowsInv, DirectoryInv, DirectoryTypeInv, ContractsTypeOK
<1> QED
  BY <1>2, <1>9, WrittenInv

\* A member that is inserted or updated by r, whose key no other row has and whose
\* links r found, or the row had before.
MemberWrite(r, m, row) ==
    /\ members' = Insert(members, m, row)
    /\ UNCHANGED branches
    /\ m \in DOMAIN members => row.kind = members[m].kind /\ row.tenant = members[m].tenant
    /\ \A n \in DOMAIN members \ {m} : ~(members[n].kind = row.kind /\ members[n].key = row.key)
    /\ \A b \in row.links \cup ({row.branch} \ {None}) :
         /\ b \in DOMAIN branches /\ branches[b].tenant = row.tenant
         /\ branches[b].deleted => b \in dmissed[r] \/ Raced(m, b)
    /\ row.account # None =>
         row.account \in DOMAIN members /\ members[row.account].tenant = row.tenant

\* What such a write does to the rows.
LEMMA MemberWritten ==
    ASSUME DirectoryInv, NEW r \in DirectoryRequests, NEW m \in Members, NEW row \in Member,
           MemberWrite(r, m, row),
           NEW ids \in SUBSET (Branches \cup Members \cup ContractIds), m \in ids,
           ids \cap Branches = {}, Written(r, ids)
    PROVE  /\ DOMAIN members' = DOMAIN members \cup {m} /\ members'[m] = row
           /\ \A n \in DOMAIN members : n # m => members'[n] = members[n]
           /\ members' = [n \in DOMAIN members' |-> members'[n]]
           /\ RowsTypeOK' /\ KeysUnique'
           /\ \A n \in DOMAIN members' :
                /\ LinkedTo(n)' \subseteq DOMAIN branches
                /\ members'[n].account \in DOMAIN members' \cup {None}
           /\ SameNameOnlyByRace' /\ LinkToRemovedOnlyByRace' /\ LinksStayInTenant'
<1>1. /\ DOMAIN members' = DOMAIN members \cup {m} /\ members'[m] = row
      /\ \A n \in DOMAIN members : n # m => members'[n] = members[n]
      /\ members' = [n \in DOMAIN members' |-> members'[n]]
  BY DEF MemberWrite, Insert
<1>2. branches' = branches
  BY DEF MemberWrite
<1>3. /\ \A i, b : Raced(i, b) => Raced(i, b)'
      /\ \A b \in Branches : b \in dmissed[r] => Raced(m, b)'
  BY WrittenSlots
<1>4. RowsTypeOK'
  BY <1>1, <1>2 DEF DirectoryInv, DirectoryTypeInv, RowsTypeOK
<1>5. KeysUnique'
  BY <1>1 DEF DirectoryInv, KeysUnique, MemberWrite
<1>6. \A n \in DOMAIN members' :
        /\ LinkedTo(n)' \subseteq DOMAIN branches
        /\ members'[n].account \in DOMAIN members' \cup {None}
  BY <1>1 DEF DirectoryInv, ReferencesExist, LinkedTo, MemberWrite
<1>7. SameNameOnlyByRace'
  BY <1>2, <1>3 DEF DirectoryInv, SameNameOnlyByRace, FindBranch
<1>8. LinkToRemovedOnlyByRace'
  <2> SUFFICES ASSUME NEW n \in DOMAIN members',
                      NEW b \in members'[n].links \cup ({members'[n].branch} \ {None}),
                      branches[b].deleted
               PROVE  Raced(n, b)'
    BY <1>2 DEF LinkToRemovedOnlyByRace
  <2>1. CASE n = m
    <3>1. b \in DOMAIN branches /\ (b \in dmissed[r] \/ Raced(m, b))
      BY <1>1, <2>1 DEF MemberWrite
    <3>2. b \in Branches
      BY <3>1 DEF DirectoryInv, DirectoryTypeInv, RowsTypeOK
    <3> QED
      BY <1>3, <2>1, <3>1, <3>2
  <2>2. CASE n # m
    BY <1>1, <1>3, <2>2 DEF DirectoryInv, LinkToRemovedOnlyByRace
  <2> QED
    BY <2>1, <2>2
<1>9. LinksStayInTenant'
  <2> SUFFICES ASSUME NEW n \in DOMAIN members'
               PROVE  /\ \A b \in members'[n].links \cup ({members'[n].branch} \ {None}) :
                            branches[b].tenant = members'[n].tenant
                      /\ members'[n].account # None =>
                           members'[members'[n].account].tenant = members'[n].tenant
    BY <1>2 DEF LinksStayInTenant
  <2>1. \A x \in DOMAIN members : members'[x].tenant = members[x].tenant
    BY <1>1 DEF MemberWrite
  <2>2. CASE n = m
    BY <1>1, <2>1, <2>2 DEF MemberWrite
  <2>3. CASE n # m
    BY <1>1, <2>1, <2>3 DEF DirectoryInv, LinksStayInTenant, ReferencesExist
  <2> QED
    BY <2>2, <2>3
<1> QED
  BY <1>1, <1>4, <1>5, <1>6, <1>7, <1>8, <1>9

\* A member alone is written.
LEMMA MemberWrittenInv ==
    ASSUME DirectoryInv, NEW r \in DirectoryRequests, NEW m \in Members, NEW row \in Member,
           MemberWrite(r, m, row), UNCHANGED contracts, Written(r, {m})
    PROVE  DirectoryInv'
<1>1. {m} \in SUBSET (Branches \cup Members \cup ContractIds) /\ {m} \cap Branches = {}
  BY DirectoryAssumption
<1>2. /\ DOMAIN members' = DOMAIN members \cup {m} /\ members'[m] = row
      /\ \A n \in DOMAIN members : n # m => members'[n] = members[n]
      /\ members' = [n \in DOMAIN members' |-> members'[n]]
      /\ RowsTypeOK' /\ KeysUnique'
      /\ \A n \in DOMAIN members' :
           /\ LinkedTo(n)' \subseteq DOMAIN branches
           /\ members'[n].account \in DOMAIN members' \cup {None}
      /\ SameNameOnlyByRace' /\ LinkToRemovedOnlyByRace' /\ LinksStayInTenant'
  BY <1>1, MemberWritten
<1>3. UNCHANGED branches
  BY DEF MemberWrite
<1>4. \A n \in DOMAIN members : /\ members'[n].tenant = members[n].tenant
                                /\ members'[n].kind = members[n].kind
  BY <1>2 DEF MemberWrite
<1>5. RowsKept({m})
  BY <1>2, <1>3, <1>4 DEF RowsKept
<1>6. ReferencesExist'
  BY <1>2, <1>3 DEF DirectoryInv, ReferencesExist
<1>7. ContractsStayInTenant' /\ ContractDatesInOrder'
  BY <1>4 DEF DirectoryInv, ContractsStayInTenant, ContractDatesInOrder, ReferencesExist
<1>8. RowsInv'
  BY <1>2, <1>6, <1>7 DEF RowsInv, DirectoryInv, DirectoryTypeInv, ContractsTypeOK
<1> QED
  BY <1>1, <1>5, <1>8, WrittenInv

\* A contract that is written, whose dates are in order and whose vehicle is of
\* its tenant, keeps the contracts so.
LEMMA ContractRowWritten ==
    ASSUME DirectoryInv, NEW c \in ContractIds, NEW row \in Contract,
           contracts' = Insert(contracts, c, row),
           c \in DOMAIN contracts => row.tenant = contracts[c].tenant,
           row.end > row.start,
           DOMAIN members \subseteq DOMAIN members',
           \A n \in DOMAIN members : members'[n].tenant = members[n].tenant,
           row.vehicle # None =>
             row.vehicle \in DOMAIN members' /\ members'[row.vehicle].tenant = row.tenant
    PROVE  /\ DOMAIN contracts' = DOMAIN contracts \cup {c} /\ contracts'[c] = row
           /\ \A x \in DOMAIN contracts : x # c => contracts'[x] = contracts[x]
           /\ \A x \in DOMAIN contracts : contracts'[x].tenant = contracts[x].tenant
           /\ contracts' = [x \in DOMAIN contracts' |-> contracts'[x]]
           /\ DOMAIN contracts' \subseteq ContractIds
           /\ \A x \in DOMAIN contracts' : contracts'[x] \in Contract
           /\ \A x \in DOMAIN contracts' : contracts'[x].vehicle \in DOMAIN members' \cup {None}
           /\ ContractsStayInTenant' /\ ContractDatesInOrder'
<1>1. /\ DOMAIN contracts' = DOMAIN contracts \cup {c} /\ contracts'[c] = row
      /\ \A x \in DOMAIN contracts : x # c => contracts'[x] = contracts[x]
      /\ contracts' = [x \in DOMAIN contracts' |-> contracts'[x]]
  BY DEF Insert
<1>2. \A x \in DOMAIN contracts : contracts'[x].tenant = contracts[x].tenant
  BY <1>1
<1>3. DOMAIN contracts' \subseteq ContractIds /\ \A x \in DOMAIN contracts' : contracts'[x] \in Contract
  BY <1>1 DEF DirectoryInv, DirectoryTypeInv, ContractsTypeOK
<1>4. \A x \in DOMAIN contracts' : contracts'[x].vehicle \in DOMAIN members' \cup {None}
  BY <1>1 DEF DirectoryInv, ReferencesExist
<1>5. ContractsStayInTenant' /\ ContractDatesInOrder'
  BY <1>1 DEF DirectoryInv, ContractsStayInTenant, ContractDatesInOrder, ReferencesExist
<1> QED
  BY <1>1, <1>2, <1>3, <1>4, <1>5

\* A contract alone is written.
LEMMA ContractWrittenInv ==
    ASSUME DirectoryInv, NEW r \in DirectoryRequests, NEW c \in ContractIds, NEW row \in Contract,
           contracts' = Insert(contracts, c, row), UNCHANGED <<branches, members>>,
           Written(r, {c}),
           c \in DOMAIN contracts => row.tenant = contracts[c].tenant,
           row.end > row.start,
           row.vehicle # None =>
             row.vehicle \in DOMAIN members /\ members[row.vehicle].tenant = row.tenant
    PROVE  DirectoryInv'
<1>1. /\ DOMAIN contracts' = DOMAIN contracts \cup {c} /\ contracts'[c] = row
      /\ \A x \in DOMAIN contracts : x # c => contracts'[x] = contracts[x]
      /\ \A x \in DOMAIN contracts : contracts'[x].tenant = contracts[x].tenant
      /\ contracts' = [x \in DOMAIN contracts' |-> contracts'[x]]
      /\ DOMAIN contracts' \subseteq ContractIds
      /\ \A x \in DOMAIN contracts' : contracts'[x] \in Contract
      /\ \A x \in DOMAIN contracts' : contracts'[x].vehicle \in DOMAIN members \cup {None}
      /\ ContractsStayInTenant' /\ ContractDatesInOrder'
  BY ContractRowWritten
<1>2. \A i, b : Raced(i, b) => Raced(i, b)'
  BY WrittenSlots
<1>3. RowsKept({c})
  BY <1>1 DEF RowsKept
<1>4. RowsTypeOK' /\ KeysUnique' /\ ReferencesExist'
  BY <1>1 DEF DirectoryInv, DirectoryTypeInv, RowsTypeOK, KeysUnique, ReferencesExist, LinkedTo
<1>5. SameNameOnlyByRace' /\ LinkToRemovedOnlyByRace' /\ LinksStayInTenant'
  BY <1>2 DEF DirectoryInv, SameNameOnlyByRace, FindBranch, LinkToRemovedOnlyByRace,
              LinksStayInTenant
<1>6. RowsInv'
  BY <1>1, <1>4, <1>5 DEF RowsInv, DirectoryInv, DirectoryTypeInv
<1> QED
  BY <1>3, <1>6, WrittenInv

----------------------------------------------------------------------------
(***************************************************************************)
(* The writes of the handlers.                                             *)
(***************************************************************************)

\* A handler at its write holds a request with nothing left to look up.
LEMMA WritesFrom ==
    ASSUME DirectoryInv, NEW r \in DirectoryRequests, NEW op, op # "none", Writes(r, op)
    PROVE  /\ dreq[r].op = op /\ dreq[r].todo = {} /\ DirectoryRequestOK(r)
           /\ op \in {"createBranch", "updateBranch", "removeBranch"} => dreq[r] \in BranchRequest
           /\ op \in {"createMember", "updateMember", "removeMember"} => dreq[r] \in MemberRequest
           /\ op \in {"createContract", "updateContract", "removeContract", "createBoth"}
                => dreq[r] \in ContractRequest
<1>1. dreq[r] \in DirectoryRequest \cup {DirectoryIdle} /\ dreq[r].op = op /\ dreq[r].todo = {}
  BY DEF DirectoryInv, DirectoryTypeInv, Writes
<1>2. dreq[r] # DirectoryIdle
  BY <1>1 DEF DirectoryIdle
<1> QED
  BY <1>1, <1>2, RequestKinds DEF DirectoryInv

\* create: the new branch's name is its own, or one that was missed.
LEMMA InsertBranchInv ==
    ASSUME DirectoryInv, NEW r \in DirectoryRequests, InsertBranch(r), UNCHANGED contracts
    PROVE  DirectoryInv'
<1> DEFINE q == dreq[r]
           row == [tenant |-> q.tenant, name |-> q.name, deleted |-> FALSE]
<1>1. PICK b \in Branches \ DOMAIN branches :
        branches' = Insert(branches, b, row) /\ Written(r, {b})
  BY DEF InsertBranch
<1>2. UNCHANGED members
  BY DEF InsertBranch
<1>3. /\ q.op = "createBranch" /\ q.todo = {} /\ q \in BranchRequest
      /\ DirectoryRequestOK(r)
  BY WritesFrom DEF InsertBranch
<1>4. q.id = None /\ q.name \in BranchNames /\ q.tenant \in Tenants
  BY <1>3 DEF DirectoryRequestOK, BranchRequestOK, BranchRequest
<1>5. row \in Branch /\ row.tenant = q.tenant /\ row.name = q.name
  BY <1>4 DEF Branch
<1>6. {b} \in SUBSET (Branches \cup Members \cup ContractIds)
  OBVIOUS
<1>7. ASSUME NEW a \in DOMAIN branches \ {b}, FindBranch(a, row.tenant),
             branches[a].name = row.name, row.name # Empty
      PROVE  Raced(b, a)'
  <2>1. a \in Branches
    BY DEF DirectoryInv, DirectoryTypeInv, RowsTypeOK
  <2>2. a \in dmissed[r]
    BY <1>3, <1>4, <1>5, <1>7, <2>1, DirectoryAssumption
       DEF DirectoryRequestOK, BranchRequestOK, NameHeld
  <2> QED
    BY <1>1, <1>6, <1>7, <2>1, <2>2, WrittenSlots
<1> HIDE DEF row
<1> QED
  BY <1>1, <1>2, <1>5, <1>7, BranchWritten

\* update: a name that is kept is shared with those it was shared with.
LEMMA WriteBranchInv ==
    ASSUME DirectoryInv, NEW r \in DirectoryRequests, WriteBranch(r), UNCHANGED contracts
    PROVE  DirectoryInv'
<1>0. PICK q, b : q = dreq[r] /\ b = q.id
  OBVIOUS
<1> DEFINE row == [branches[b] EXCEPT !.name = IF q.name = Absent THEN @ ELSE q.name]
<1>1. /\ q.op = "updateBranch" /\ q.todo = {} /\ q \in BranchRequest
      /\ DirectoryRequestOK(r)
  BY <1>0, WritesFrom DEF WriteBranch
<1>2. /\ b \in DOMAIN branches /\ branches[b].tenant = q.tenant
      /\ b \in Branches /\ q.name \in BranchNames \cup {Empty, Absent}
  BY <1>0, <1>1 DEF DirectoryRequestOK, BranchRequestOK, BranchRequest, DirectoryInv,
              DirectoryTypeInv, RowsTypeOK
<1>3. /\ branches' = [branches EXCEPT ![b] = row]
      /\ Written(r, {b}) /\ UNCHANGED members
  BY <1>0 DEF WriteBranch
<1>4. branches[b] \in Branch
  BY <1>2 DEF DirectoryInv, DirectoryTypeInv, RowsTypeOK
<1>5. /\ row \in Branch /\ row.tenant = branches[b].tenant
      /\ row.deleted = branches[b].deleted
      /\ row.name = IF q.name = Absent THEN branches[b].name ELSE q.name
  BY <1>2, <1>4 DEF Branch
<1>6. {b} \in SUBSET (Branches \cup Members \cup ContractIds)
  BY <1>2
<1> HIDE DEF row
<1>7. branches' = Insert(branches, b, row)
  <2>1. branches = [x \in DOMAIN branches |-> branches[x]]
    BY DEF DirectoryInv, DirectoryTypeInv, RowsTypeOK
  <2> QED
    BY <1>2, <1>3, <2>1, UpdateIsInsert
<1>8. /\ \A x, y : Raced(x, y) => Raced(x, y)'
      /\ \A a \in (dmissed[r] \cap Branches) \ {b} : Raced(b, a)'
  BY <1>3, <1>6, WrittenSlots
<1>9. ASSUME NEW a \in DOMAIN branches \ {b}, FindBranch(a, row.tenant),
             branches[a].name = row.name, row.name # Empty,
             ~row.deleted
      PROVE  Raced(a, b)' \/ Raced(b, a)'
  <2>1. a \in Branches
    BY DEF DirectoryInv, DirectoryTypeInv, RowsTypeOK
  <2>2. CASE q.name = Absent
    <3>1. Raced(a, b) \/ Raced(b, a)
      BY <1>2, <1>5, <1>9, <2>2 DEF DirectoryInv, SameNameOnlyByRace, FindBranch
    <3> QED
      BY <1>8, <3>1
  <2>3. CASE q.name # Absent
    <3>1. a \in dmissed[r] \/ Raced(a, b) \/ Raced(b, a)
      BY <1>0, <1>1, <1>2, <1>5, <1>9, <2>3 DEF DirectoryRequestOK, BranchRequestOK, NameHeld
    <3> QED
      BY <1>8, <2>1, <3>1
  <2> QED
    BY <2>2, <2>3
<1> QED
  BY <1>2, <1>3, <1>5, <1>7, <1>9, BranchWritten

\* remove: whatever was linked to the branch no longer is.
LEMMA DeleteBranchInv ==
    ASSUME DirectoryInv, NEW r \in DirectoryRequests, DeleteBranch(r), UNCHANGED contracts
    PROVE  DirectoryInv'
<1>0. PICK b : b = dreq[r].id
  OBVIOUS
<1>1. /\ dreq[r].op = "removeBranch" /\ dreq[r] \in BranchRequest /\ DirectoryRequestOK(r)
  BY WritesFrom DEF DeleteBranch
<1>2. b \in DOMAIN branches /\ b \in Branches
  BY <1>0, <1>1 DEF DirectoryRequestOK, BranchRequestOK, DirectoryInv, DirectoryTypeInv,
                    RowsTypeOK
<1>3. /\ branches' = [branches EXCEPT ![b].deleted = TRUE]
      /\ members' = [m \in DOMAIN members |->
           [members[m] EXCEPT !.branch = IF @ = b THEN None ELSE @, !.links = @ \ {b}]]
      /\ Written(r, {b})
  BY <1>0 DEF DeleteBranch
<1>4. {b} \in SUBSET (Branches \cup Members \cup ContractIds)
  BY <1>2
<1>5. branches \in [DOMAIN branches -> Branch] /\ DOMAIN branches \subseteq Branches
  BY DEF DirectoryInv, DirectoryTypeInv, RowsTypeOK
<1>6. /\ DOMAIN branches' = DOMAIN branches /\ branches' \in [DOMAIN branches -> Branch]
      /\ \A x \in DOMAIN branches :
           /\ branches'[x].tenant = branches[x].tenant /\ branches'[x].name = branches[x].name
           /\ x # b => branches'[x] = branches[x]
           /\ branches'[x].deleted = FALSE => x # b
  <2>1. branches[b] \in Branch
    BY <1>2, <1>5
  <2> DEFINE row == [branches[b] EXCEPT !.deleted = TRUE]
  <2>2. /\ row \in Branch /\ row.tenant = branches[b].tenant /\ row.name = branches[b].name
        /\ row.deleted = TRUE
    BY <2>1 DEF Branch
  <2>3. branches' = [branches EXCEPT ![b] = row]
    BY <1>3
  <2> HIDE DEF row
  <2> QED
    BY <1>2, <1>5, <2>2, <2>3
<1>7. \A m \in DOMAIN members :
        /\ members'[m] \in Member
        /\ members'[m].kind = members[m].kind /\ members'[m].tenant = members[m].tenant
        /\ members'[m].key = members[m].key /\ members'[m].deleted = members[m].deleted
        /\ members'[m].account = members[m].account
        /\ members'[m].links = members[m].links \ {b}
        /\ members'[m].branch = IF members[m].branch = b THEN None ELSE members[m].branch
  <2> TAKE m \in DOMAIN members
  <2>1. members[m] \in Member
    BY DEF DirectoryInv, DirectoryTypeInv, RowsTypeOK
  <2>2. members'[m] =
          [members[m] EXCEPT !.branch = IF members[m].branch = b THEN None ELSE members[m].branch,
                             !.links = members[m].links \ {b}]
    BY <1>3
  <2> QED
    BY <2>1, <2>2 DEF Member
<1>8. DOMAIN members' = DOMAIN members /\ members' = [m \in DOMAIN members' |-> members'[m]]
  BY <1>3
<1>9. RowsKept({b})
  BY <1>6, <1>7, <1>8 DEF RowsKept
<1>10. \A i, c : Raced(i, c) => Raced(i, c)'
  BY <1>3, <1>4, WrittenSlots
<1>11. RowsTypeOK' /\ KeysUnique'
  BY <1>5, <1>6, <1>7, <1>8 DEF DirectoryInv, DirectoryTypeInv, RowsTypeOK, KeysUnique
<1>12. /\ b # None
       /\ \A m \in DOMAIN members :
            members'[m].links \cup ({members'[m].branch} \ {None}) = LinkedTo(m) \ {b}
  BY <1>2, <1>7, DirectoryAssumption DEF LinkedTo
<1>13. ReferencesExist'
  <2>1. \A m \in DOMAIN members : LinkedTo(m)' \subseteq LinkedTo(m)
    BY <1>12 DEF LinkedTo
  <2> QED
    BY <1>6, <1>7, <1>8, <2>1 DEF DirectoryInv, ReferencesExist
<1>14. SameNameOnlyByRace'
  BY <1>5, <1>6, <1>10 DEF DirectoryInv, SameNameOnlyByRace, FindBranch, Branch
<1>15. LinkToRemovedOnlyByRace'
  <2> SUFFICES ASSUME NEW m \in DOMAIN members, NEW c \in LinkedTo(m) \ {b},
                      branches'[c].deleted
               PROVE  Raced(m, c)'
    BY <1>8, <1>12 DEF LinkToRemovedOnlyByRace
  <2>1. c \in DOMAIN branches
    BY DEF DirectoryInv, ReferencesExist
  <2> QED
    BY <1>6, <1>10, <2>1 DEF DirectoryInv, LinkToRemovedOnlyByRace, LinkedTo
<1>16. LinksStayInTenant'
  <2> SUFFICES ASSUME NEW m \in DOMAIN members
               PROVE  /\ \A c \in LinkedTo(m) \ {b} : branches'[c].tenant = members'[m].tenant
                      /\ members'[m].account # None =>
                           members'[members'[m].account].tenant = members'[m].tenant
    BY <1>8, <1>12 DEF LinksStayInTenant
  <2>1. LinkedTo(m) \subseteq DOMAIN branches /\ members[m].account \in DOMAIN members \cup {None}
    BY DEF DirectoryInv, ReferencesExist
  <2> QED
    BY <1>6, <1>7, <2>1 DEF DirectoryInv, LinksStayInTenant, LinkedTo
<1>17. ContractsStayInTenant' /\ ContractDatesInOrder'
  BY <1>7 DEF DirectoryInv, ContractsStayInTenant, ContractDatesInOrder, ReferencesExist
<1>18. RowsInv'
  BY <1>8, <1>11, <1>13, <1>14, <1>15, <1>16, <1>17
     DEF RowsInv, DirectoryInv, DirectoryTypeInv, ContractsTypeOK
<1> QED
  BY <1>3, <1>4, <1>9, <1>18, WrittenInv

\* With every lookup made, the branches that r is about to write were found.
LEMMA LinksKnown ==
    ASSUME DirectoryInv, NEW r \in DirectoryRequests, DirectoryRequestOK(r),
           dreq[r].op \in {"createMember", "updateMember"}, dreq[r].todo = {},
           dreq[r] \in MemberRequest
    PROVE  /\ dreq[r].links # Absent => \A b \in dreq[r].links : StillFound(r, b)
           /\ dreq[r].branch \in Branches => StillFound(r, dreq[r].branch)
BY DEF DirectoryRequestOK, LinksHeld

\* create: the unique index lets the key through, and the lookups the links.
LEMMA InsertMemberInv ==
    ASSUME DirectoryInv, NEW r \in DirectoryRequests, InsertMember(r), UNCHANGED contracts
    PROVE  DirectoryInv'
<1>0. PICK q : q = dreq[r]
  OBVIOUS
<1>1. /\ q.op = "createMember" /\ q.todo = {} /\ q \in MemberRequest
      /\ DirectoryRequestOK(r)
  BY <1>0, WritesFrom DEF InsertMember
<1>2. CASE Insertable(q)
  <2>1. PICK m \in Members \ DOMAIN members :
          members' = Insert(members, m, NewMember(q)) /\ Written(r, {m})
    BY <1>0, <1>2 DEF InsertMember
  <2>2. UNCHANGED branches
    BY <1>0, <1>2 DEF InsertMember
  <2>3. /\ q.kind \in Kinds /\ q.tenant \in Tenants /\ q.key \in Keys
        /\ q.branch \in Branches \cup {None, Absent} /\ q.links \in SUBSET Branches
        /\ q.account \in Members \cup {None}
    BY <1>0, <1>1 DEF MemberRequest, DirectoryRequestOK, MemberRequestOK
  <2> DEFINE row == NewMember(q)
  <2>4. /\ row \in Member /\ row.kind = q.kind /\ row.tenant = q.tenant /\ row.key = q.key
        /\ row.branch = (IF q.branch = Absent THEN None ELSE q.branch)
        /\ row.links = q.links /\ row.account = q.account
    BY <2>3 DEF NewMember, Member
  <2> HIDE DEF row
  <2>5. \A n \in DOMAIN members \ {m} : ~(members[n].kind = row.kind /\ members[n].key = row.key)
    <3>1. None \notin DOMAIN members
      BY DirectoryAssumption DEF DirectoryInv, DirectoryTypeInv, RowsTypeOK
    <3> QED
      BY <1>2, <2>4, <3>1 DEF Insertable, KeyTaken
  <2>6. \A b \in row.links \cup ({row.branch} \ {None}) : StillFound(r, b)
    <3>1. /\ q.links # Absent => \A b \in q.links : StillFound(r, b)
          /\ q.branch \in Branches => StillFound(r, q.branch)
      BY <1>0, <1>1, LinksKnown
    <3> QED
      BY <2>3, <2>4, <3>1, DirectoryAssumption
  <2>7. q.account # None => q.account \in DOMAIN members /\ members[q.account].tenant = q.tenant
    BY <1>0, <1>1 DEF DirectoryRequestOK, MemberRequestOK, AccountHeld
  <2>8. MemberWrite(r, m, row)
    BY <1>0, <2>1, <2>2, <2>4, <2>5, <2>6, <2>7 DEF MemberWrite, StillFound, row
  <2> QED
    BY <2>1, <2>4, <2>8, MemberWrittenInv
<1>3. CASE ~Insertable(q)
  BY <1>0, <1>3, RefusedInv DEF InsertMember
<1> QED
  BY <1>2, <1>3

\* update: what the DTO leaves out stays, and the rest was looked up.
LEMMA WriteMemberInv ==
    ASSUME DirectoryInv, NEW r \in DirectoryRequests, WriteMember(r), UNCHANGED contracts
    PROVE  DirectoryInv'
<1>0. PICK q, m : q = dreq[r] /\ m = q.id
  OBVIOUS
<1>1. /\ q.op = "updateMember" /\ q.todo = {} /\ q \in MemberRequest
      /\ DirectoryRequestOK(r)
  BY <1>0, WritesFrom DEF WriteMember
<1>2. /\ m \in DOMAIN members /\ members[m].kind = q.kind /\ members[m].tenant = q.tenant
      /\ m \in Members /\ members[m] \in Member
  BY <1>0, <1>1 DEF DirectoryRequestOK, MemberRequestOK, DirectoryInv, DirectoryTypeInv, RowsTypeOK
<1>3. CASE ~(q.key # Absent /\ KeyTaken(q.kind, q.key, m))
  <2> DEFINE key == IF q.key = Absent THEN members[m].key ELSE q.key
             branch == IF q.branch = Absent THEN members[m].branch ELSE q.branch
             links == IF q.links = Absent THEN members[m].links ELSE q.links
             row == [members[m] EXCEPT !.key = key, !.branch = branch, !.links = links]
  <2>1. members' = [members EXCEPT ![m] = row]
    <3>1. members' = [members EXCEPT
                   ![m].key    = IF q.key = Absent THEN @ ELSE q.key,
                   ![m].branch = IF q.branch = Absent THEN @ ELSE q.branch,
                   ![m].links  = IF q.links = Absent THEN @ ELSE q.links]
      BY <1>0, <1>3 DEF WriteMember
    <3> QED
      BY <1>2, <3>1 DEF Member
  <2>2. Written(r, {m}) /\ UNCHANGED branches
    BY <1>0, <1>3 DEF WriteMember
  <2>3. /\ key \in Keys \cup {Empty} /\ branch \in Branches \cup {None}
        /\ links \in SUBSET Branches
    BY <1>1, <1>2 DEF MemberRequest, Member
  <2> HIDE DEF key, branch, links
  <2>4. /\ row \in Member /\ row.kind = members[m].kind /\ row.tenant = members[m].tenant
        /\ row.account = members[m].account
        /\ row.key = key /\ row.branch = branch /\ row.links = links
    BY <1>2, <2>3 DEF Member
  <2> HIDE DEF row
  <2>5. members' = Insert(members, m, row)
    <3>1. members = [n \in DOMAIN members |-> members[n]]
      BY DEF DirectoryInv, DirectoryTypeInv
    <3> QED
      BY <1>2, <2>1, <3>1, UpdateIsInsert
  <2>6. \A n \in DOMAIN members \ {m} : ~(members[n].kind = row.kind /\ members[n].key = row.key)
    <3>1. CASE q.key = Absent
      BY <1>2, <2>4, <3>1 DEF key, DirectoryInv, KeysUnique
    <3>2. CASE q.key # Absent
      BY <1>2, <1>3, <2>4, <3>2 DEF key, KeyTaken
    <3> QED
      BY <3>1, <3>2
  <2>7. /\ q.links # Absent => \A b \in q.links : StillFound(r, b)
        /\ q.branch \in Branches => StillFound(r, q.branch)
    BY <1>0, <1>1, LinksKnown
  <2>8. \A b \in LinkedTo(m) :
          /\ b \in DOMAIN branches /\ branches[b].tenant = members[m].tenant
          /\ branches[b].deleted => Raced(m, b)
    BY <1>2 DEF DirectoryInv, ReferencesExist, LinksStayInTenant, LinkToRemovedOnlyByRace, LinkedTo
  <2>9. ASSUME NEW b \in row.links \cup ({row.branch} \ {None})
        PROVE  b \in LinkedTo(m) \/ StillFound(r, b)
    <3>1. q.branch \in Branches \cup {None, Absent}
      BY <1>1 DEF MemberRequest
    <3> QED
      BY <2>4, <2>7, <3>1 DEF LinkedTo, branch, links
  <2>10. row.account # None =>
           row.account \in DOMAIN members /\ members[row.account].tenant = row.tenant
    BY <1>2, <2>4 DEF DirectoryInv, ReferencesExist, LinksStayInTenant
  <2>11. MemberWrite(r, m, row)
    BY <1>0, <1>2, <2>2, <2>4, <2>5, <2>6, <2>8, <2>9, <2>10 DEF MemberWrite, StillFound
  <2> QED
    BY <1>2, <2>2, <2>4, <2>11, MemberWrittenInv
<1>4. CASE q.key # Absent /\ KeyTaken(q.kind, q.key, m)
  BY <1>0, <1>4, RefusedInv DEF WriteMember
<1> QED
  BY <1>3, <1>4

\* remove: only deleted changes.
LEMMA DeleteMemberInv ==
    ASSUME DirectoryInv, NEW r \in DirectoryRequests, DeleteMember(r), UNCHANGED contracts
    PROVE  DirectoryInv'
<1>0. PICK m : m = dreq[r].id
  OBVIOUS
<1>1. dreq[r].op = "removeMember" /\ DirectoryRequestOK(r)
  BY WritesFrom DEF DeleteMember
<1>2. m \in DOMAIN members /\ m \in Members /\ members[m] \in Member
  BY <1>0, <1>1 DEF DirectoryRequestOK, MemberRequestOK, DirectoryInv, DirectoryTypeInv, RowsTypeOK
<1> DEFINE row == [members[m] EXCEPT !.deleted = TRUE]
<1>3. members' = [members EXCEPT ![m] = row] /\ Written(r, {m}) /\ UNCHANGED branches
  BY <1>0 DEF DeleteMember
<1>4. /\ row \in Member /\ row.kind = members[m].kind /\ row.tenant = members[m].tenant
      /\ row.account = members[m].account /\ row.key = members[m].key
      /\ row.branch = members[m].branch /\ row.links = members[m].links
  BY <1>2 DEF Member
<1> HIDE DEF row
<1>5. members' = Insert(members, m, row)
  <2>1. members = [n \in DOMAIN members |-> members[n]]
    BY DEF DirectoryInv, DirectoryTypeInv
  <2> QED
    BY <1>2, <1>3, <2>1, UpdateIsInsert
<1>6. \A n \in DOMAIN members \ {m} : ~(members[n].kind = row.kind /\ members[n].key = row.key)
  BY <1>2, <1>4 DEF DirectoryInv, KeysUnique
<1>7. \A b \in LinkedTo(m) :
        /\ b \in DOMAIN branches /\ branches[b].tenant = members[m].tenant
        /\ branches[b].deleted => Raced(m, b)
  BY <1>2 DEF DirectoryInv, ReferencesExist, LinksStayInTenant, LinkToRemovedOnlyByRace, LinkedTo
<1>8. row.account # None =>
        row.account \in DOMAIN members /\ members[row.account].tenant = row.tenant
  BY <1>2, <1>4 DEF DirectoryInv, ReferencesExist, LinksStayInTenant
<1>9. MemberWrite(r, m, row)
  BY <1>3, <1>4, <1>5, <1>6, <1>7, <1>8 DEF MemberWrite, LinkedTo
<1> QED
  BY <1>2, <1>3, <1>4, <1>9, MemberWrittenInv

\* create of a contract.
LEMMA InsertContractInv ==
    ASSUME DirectoryInv, NEW r \in DirectoryRequests, InsertContract(r)
    PROVE  DirectoryInv'
<1>0. PICK q : q = dreq[r]
  OBVIOUS
<1>1. /\ q.op = "createContract" /\ q.todo = {} /\ q \in ContractRequest
      /\ DirectoryRequestOK(r)
  BY <1>0, WritesFrom DEF InsertContract
<1>2. PICK c \in ContractIds \ DOMAIN contracts :
        contracts' = Insert(contracts, c, NewContract(q, q.vehicle)) /\ Written(r, {c})
  BY <1>0 DEF InsertContract
<1>3. UNCHANGED <<branches, members>>
  BY DEF InsertContract
<1>4. /\ q.tenant \in Tenants /\ q.type \in ContractType /\ q.start \in Days /\ q.end \in Days
      /\ q.vehicle \in Members \cup {None} /\ q.end > q.start
      /\ q.vehicle # None =>
           q.vehicle \in DOMAIN members /\ members[q.vehicle].tenant = q.tenant
  BY <1>0, <1>1 DEF DirectoryRequestOK, ContractRequestOK, VehicleHeld, ContractRequest
<1> DEFINE row == NewContract(q, q.vehicle)
<1>5. /\ row \in Contract /\ row.tenant = q.tenant /\ row.start = q.start /\ row.end = q.end
      /\ row.vehicle = q.vehicle
  BY <1>4 DEF NewContract, Contract
<1> HIDE DEF row
<1>6. contracts' = Insert(contracts, c, row)
  BY <1>2 DEF row
<1> QED
  BY <1>2, <1>3, <1>4, <1>5, <1>6, ContractWrittenInv

\* update: the merged dates are written together, in order as they were read.
LEMMA WriteContractInv ==
    ASSUME DirectoryInv, NEW r \in DirectoryRequests, WriteContract(r)
    PROVE  DirectoryInv'
<1>0. PICK q, c : q = dreq[r] /\ c = q.id
  OBVIOUS
<1>1. /\ q.op = "updateContract" /\ q.todo = {} /\ q \in ContractRequest
      /\ DirectoryRequestOK(r)
  BY <1>0, WritesFrom DEF WriteContract
<1>2. /\ c \in DOMAIN contracts /\ c \in ContractIds /\ contracts[c] \in Contract
      /\ contracts[c].tenant = q.tenant /\ q.end > q.start
      /\ q.vehicle \in Members =>
           q.vehicle \in DOMAIN members /\ members[q.vehicle].tenant = q.tenant
  BY <1>0, <1>1 DEF DirectoryRequestOK, ContractRequestOK, VehicleHeld, DirectoryInv,
                    DirectoryTypeInv, ContractsTypeOK
<1> DEFINE type == IF q.type = Absent THEN contracts[c].type ELSE q.type
           vehicle == IF q.vehicle = Absent THEN contracts[c].vehicle ELSE q.vehicle
           row == [contracts[c] EXCEPT !.type = type, !.start = q.start, !.end = q.end,
                                       !.vehicle = vehicle]
<1>3. contracts' = [contracts EXCEPT ![c] = row]
  <2>1. contracts' = [contracts EXCEPT
         ![c].type = IF q.type = Absent THEN @ ELSE q.type,
         ![c].start = q.start,
         ![c].end = q.end,
         ![c].vehicle = IF q.vehicle = Absent THEN @ ELSE q.vehicle]
    BY <1>0 DEF WriteContract
  <2> QED
    BY <1>2, <2>1 DEF Contract
<1>4. Written(r, {c}) /\ UNCHANGED <<branches, members>>
  BY <1>0 DEF WriteContract
<1>5. type \in ContractType /\ vehicle \in Members \cup {None} /\ q.start \in Days /\ q.end \in Days
  BY <1>1, <1>2 DEF ContractRequest, Contract
<1>6. vehicle # None => vehicle \in DOMAIN members /\ members[vehicle].tenant = q.tenant
  <2>1. contracts[c].vehicle \in DOMAIN members \cup {None}
        /\ (contracts[c].vehicle # None =>
              members[contracts[c].vehicle].tenant = contracts[c].tenant)
    BY <1>2 DEF DirectoryInv, ReferencesExist, ContractsStayInTenant
  <2>2. q.vehicle \in Members \cup {None, Absent}
    BY <1>1 DEF ContractRequest
  <2> QED
    BY <1>2, <2>1, <2>2
<1> HIDE DEF type, vehicle
<1>7. /\ row \in Contract /\ row.tenant = contracts[c].tenant
      /\ row.start = q.start /\ row.end = q.end /\ row.vehicle = vehicle
  BY <1>2, <1>5 DEF Contract
<1> HIDE DEF row
<1>8. contracts' = Insert(contracts, c, row)
  <2>1. contracts = [x \in DOMAIN contracts |-> contracts[x]]
    BY DEF DirectoryInv, DirectoryTypeInv
  <2> QED
    BY <1>2, <1>3, <2>1, UpdateIsInsert
<1> QED
  BY <1>2, <1>4, <1>6, <1>7, <1>8, ContractWrittenInv

\* remove of a contract.
LEMMA DeleteContractInv ==
    ASSUME DirectoryInv, NEW r \in DirectoryRequests, DeleteContract(r)
    PROVE  DirectoryInv'
<1>0. PICK c : c = dreq[r].id
  OBVIOUS
<1>1. dreq[r].op = "removeContract" /\ DirectoryRequestOK(r)
  BY WritesFrom DEF DeleteContract
<1>2. /\ c \in DOMAIN contracts /\ c \in ContractIds /\ contracts[c] \in Contract
      /\ contracts[c].end > contracts[c].start
      /\ contracts[c].vehicle # None =>
           /\ contracts[c].vehicle \in DOMAIN members
           /\ members[contracts[c].vehicle].tenant = contracts[c].tenant
  BY <1>0, <1>1 DEF DirectoryRequestOK, ContractRequestOK, DirectoryInv, DirectoryTypeInv,
       ContractsTypeOK, ContractDatesInOrder, ReferencesExist, ContractsStayInTenant
<1> DEFINE row == [contracts[c] EXCEPT !.deleted = TRUE]
<1>3. contracts' = [contracts EXCEPT ![c] = row] /\ Written(r, {c}) /\ UNCHANGED <<branches, members>>
  BY <1>0 DEF DeleteContract
<1>4. /\ row \in Contract /\ row.tenant = contracts[c].tenant
      /\ row.start = contracts[c].start /\ row.end = contracts[c].end
      /\ row.vehicle = contracts[c].vehicle
  BY <1>2 DEF Contract
<1> HIDE DEF row
<1>5. contracts' = Insert(contracts, c, row)
  <2>1. contracts = [x \in DOMAIN contracts |-> contracts[x]]
    BY DEF DirectoryInv, DirectoryTypeInv
  <2> QED
    BY <1>2, <1>3, <2>1, UpdateIsInsert
<1> QED
  BY <1>2, <1>3, <1>4, <1>5, ContractWrittenInv

\* create of both: the vehicle's key passes the index, and its branch was found.
LEMMA InsertContractAndVehicleInv ==
    ASSUME DirectoryInv, NEW r \in DirectoryRequests, InsertContractAndVehicle(r)
    PROVE  DirectoryInv'
<1>0. PICK q : q = dreq[r]
  OBVIOUS
<1>1. /\ q.op = "createBoth" /\ q.todo = {} /\ q \in ContractRequest
      /\ DirectoryRequestOK(r)
  BY <1>0, WritesFrom DEF InsertContractAndVehicle
<1>2. CASE ~KeyTaken("vehicle", q.key, None)
  <2>1. PICK c \in ContractIds \ DOMAIN contracts, m \in Members \ DOMAIN members :
          /\ members' = Insert(members, m, NewVehicle(q))
          /\ contracts' = Insert(contracts, c, NewContract(q, m))
          /\ Written(r, {c, m})
          /\ UNCHANGED branches
    BY <1>0, <1>2 DEF InsertContractAndVehicle
  <2>2. /\ q.tenant \in Tenants /\ q.type \in ContractType /\ q.start \in Days /\ q.end \in Days
        /\ q.key \in Keys /\ q.branch \in Branches \cup {None} /\ q.end > q.start
        /\ q.branch \in Branches => StillFound(r, q.branch)
    BY <1>0, <1>1 DEF DirectoryRequestOK, ContractRequestOK, LinksHeld, ContractRequest
  <2> DEFINE vehicle == NewVehicle(q)
             row == NewContract(q, m)
  <2>3. /\ vehicle \in Member /\ vehicle.kind = "vehicle" /\ vehicle.tenant = q.tenant
        /\ vehicle.key = q.key /\ vehicle.branch = q.branch /\ vehicle.links = {}
        /\ vehicle.account = None
    BY <2>2 DEF NewVehicle, Member, Kinds
  <2>4. /\ row \in Contract /\ row.tenant = q.tenant /\ row.start = q.start /\ row.end = q.end
        /\ row.vehicle = m
    BY <2>2 DEF NewContract, Contract
  <2> HIDE DEF vehicle, row
  <2>5. /\ {c, m} \in SUBSET (Branches \cup Members \cup ContractIds)
        /\ {c, m} \cap Branches = {} /\ m \in {c, m}
    BY DirectoryAssumption, ContractsAssumption
  <2>6. \A n \in DOMAIN members \ {m} :
          ~(members[n].kind = vehicle.kind /\ members[n].key = vehicle.key)
    <3>1. None \notin DOMAIN members
      BY DirectoryAssumption DEF DirectoryInv, DirectoryTypeInv, RowsTypeOK
    <3> QED
      BY <1>2, <2>3, <3>1 DEF KeyTaken
  <2>7. members' = Insert(members, m, vehicle) /\ contracts' = Insert(contracts, c, row)
    BY <2>1 DEF vehicle, row
  <2>8. MemberWrite(r, m, vehicle)
    BY <1>0, <2>1, <2>2, <2>3, <2>6, <2>7 DEF MemberWrite, StillFound
  <2>9. /\ DOMAIN members' = DOMAIN members \cup {m} /\ members'[m] = vehicle
        /\ \A n \in DOMAIN members : n # m => members'[n] = members[n]
        /\ members' = [n \in DOMAIN members' |-> members'[n]]
        /\ RowsTypeOK' /\ KeysUnique'
        /\ \A n \in DOMAIN members' :
             /\ LinkedTo(n)' \subseteq DOMAIN branches
             /\ members'[n].account \in DOMAIN members' \cup {None}
        /\ SameNameOnlyByRace' /\ LinkToRemovedOnlyByRace' /\ LinksStayInTenant'
    BY <2>1, <2>3, <2>5, <2>8, MemberWritten
  <2>10. /\ DOMAIN members \subseteq DOMAIN members'
         /\ \A n \in DOMAIN members : members'[n] = members[n]
    BY <2>9
  <2>11. /\ DOMAIN contracts' = DOMAIN contracts \cup {c} /\ contracts'[c] = row
         /\ \A x \in DOMAIN contracts : x # c => contracts'[x] = contracts[x]
         /\ \A x \in DOMAIN contracts : contracts'[x].tenant = contracts[x].tenant
         /\ contracts' = [x \in DOMAIN contracts' |-> contracts'[x]]
         /\ DOMAIN contracts' \subseteq ContractIds
         /\ \A x \in DOMAIN contracts' : contracts'[x] \in Contract
         /\ \A x \in DOMAIN contracts' : contracts'[x].vehicle \in DOMAIN members' \cup {None}
         /\ ContractsStayInTenant' /\ ContractDatesInOrder'
    BY <2>1, <2>2, <2>3, <2>4, <2>7, <2>9, <2>10, ContractRowWritten
  <2>12. RowsKept({c, m})
    BY <2>1, <2>9, <2>10, <2>11 DEF RowsKept
  <2>13. ReferencesExist'
    BY <2>1, <2>9, <2>11 DEF ReferencesExist
  <2>14. RowsInv'
    BY <2>9, <2>11, <2>13 DEF RowsInv
  <2> QED
    BY <2>1, <2>5, <2>12, <2>14, WrittenInv
<1>3. CASE KeyTaken("vehicle", q.key, None)
  BY <1>0, <1>3, RefusedInv DEF InsertContractAndVehicle
<1> QED
  BY <1>2, <1>3

----------------------------------------------------------------------------
(***************************************************************************)
(* The next-state relations.                                               *)
(***************************************************************************)

\* BranchesService keeps the invariant of the shared rows and slots.
LEMMA BranchesNextInv ==
    ASSUME DirectoryInv, BranchesNext, UNCHANGED contracts
    PROVE  DirectoryInv'
<1> PICK r \in DirectoryRequests :
      \/ CreateBranch(r) \/ UpdateBranch(r) \/ RemoveBranch(r)
      \/ CheckName(r)
      \/ InsertBranch(r) \/ WriteBranch(r) \/ DeleteBranch(r)
      \/ DirectoryRequestFails(r)
  BY DEF BranchesNext
<1>1. CASE CreateBranch(r) \/ UpdateBranch(r) \/ RemoveBranch(r)
  BY <1>1, AcceptBranchInv
<1>2. CASE CheckName(r)
  BY <1>2, DirectoryLookUpsInv
<1>3. CASE InsertBranch(r)
  BY <1>3, InsertBranchInv
<1>4. CASE WriteBranch(r)
  BY <1>4, WriteBranchInv
<1>5. CASE DeleteBranch(r)
  BY <1>5, DeleteBranchInv
<1>6. CASE DirectoryRequestFails(r)
  BY <1>6, RefusedInv DEF DirectoryRequestFails
<1> QED
  BY <1>1, <1>2, <1>3, <1>4, <1>5, <1>6

\* So do the services of vehicles, drivers and users.
LEMMA MembersNextInv ==
    ASSUME DirectoryInv, MembersNext, UNCHANGED contracts
    PROVE  DirectoryInv'
<1> PICK r \in DirectoryRequests :
      \/ CreateMember(r) \/ UpdateMember(r) \/ RemoveMember(r)
      \/ CheckKey(r) \/ CheckUser(r) \/ CheckNotDriver(r)
      \/ CheckBranch(r) \/ CheckLinks(r)
      \/ InsertMember(r) \/ WriteMember(r) \/ DeleteMember(r)
  BY DEF MembersNext
<1>1. CASE CreateMember(r)
  BY <1>1, CreateMemberInv
<1>2. CASE UpdateMember(r)
  BY <1>2, UpdateMemberInv
<1>3. CASE RemoveMember(r)
  BY <1>3, RemoveMemberInv
<1>4. CASE CheckKey(r) \/ CheckUser(r) \/ CheckNotDriver(r) \/ CheckBranch(r) \/ CheckLinks(r)
  BY <1>4, DirectoryLookUpsInv
<1>5. CASE InsertMember(r)
  BY <1>5, InsertMemberInv
<1>6. CASE WriteMember(r)
  BY <1>6, WriteMemberInv
<1>7. CASE DeleteMember(r)
  BY <1>7, DeleteMemberInv
<1> QED
  BY <1>1, <1>2, <1>3, <1>4, <1>5, <1>6, <1>7

\* And ContractsService.
LEMMA ContractsNextInv ==
    ASSUME DirectoryInv, ContractsNext
    PROVE  DirectoryInv'
<1> PICK r \in DirectoryRequests :
      \/ CreateContract(r) \/ CreateContractAndVehicle(r)
      \/ UpdateContract(r) \/ RemoveContract(r)
      \/ CheckContractVehicle(r)
      \/ InsertContract(r) \/ InsertContractAndVehicle(r)
      \/ WriteContract(r) \/ DeleteContract(r)
  BY DEF ContractsNext
<1>1. CASE CreateContract(r) \/ CreateContractAndVehicle(r)
  BY <1>1, CreateContractInv
<1>2. CASE UpdateContract(r)
  BY <1>2, UpdateContractInv
<1>3. CASE RemoveContract(r)
  BY <1>3, RemoveContractInv
<1>4. CASE CheckContractVehicle(r)
  BY <1>4, CheckContractVehicleInv
<1>5. CASE InsertContract(r)
  BY <1>5, InsertContractInv
<1>6. CASE InsertContractAndVehicle(r)
  BY <1>6, InsertContractAndVehicleInv
<1>7. CASE WriteContract(r)
  BY <1>7, WriteContractInv
<1>8. CASE DeleteContract(r)
  BY <1>8, DeleteContractInv
<1> QED
  BY <1>1, <1>2, <1>3, <1>4, <1>5, <1>6, <1>7, <1>8

\* Steps of other components leave all of it alone.
LEMMA UnchangedDirectoryInv ==
    ASSUME DirectoryInv, UNCHANGED <<directoryVars, contracts>>
    PROVE  DirectoryInv'
<1>1. CASE DirectoryRequests = {}
  <2>1. UNCHANGED <<branches, members, dreq, dmissed, draced, contracts>>
    BY DEF directoryVars
  <2> QED
    BY <1>1, <2>1 DEF DirectoryInv, DirectoryTypeInv, RowsTypeOK, ContractsTypeOK, KeysUnique,
         ReferencesExist, LinkedTo, SameNameOnlyByRace, FindBranch, Raced,
         LinkToRemovedOnlyByRace, LinksStayInTenant, ContractsStayInTenant, ContractDatesInOrder
<1>2. CASE DirectoryRequests # {}
  <2>1. PICK r \in DirectoryRequests : TRUE
    BY <1>2
  <2>2. /\ dreq' = [dreq EXCEPT ![r] = dreq[r]]
        /\ UNCHANGED <<branches, members, contracts, draced, dmissed>>
        /\ dreq[r] \in DirectoryRequest \cup {DirectoryIdle}
        /\ dmissed \in [DirectoryRequests -> SUBSET (Branches \cup Members \cup ContractIds)]
    BY DEF directoryVars, DirectoryInv, DirectoryTypeInv
  <2>3. dreq[r] # DirectoryIdle => DirectoryRequestOK(r)'
    <3>1. UNCHANGED <<branches, members, dreq, dmissed, draced, contracts>>
      BY DEF directoryVars
    <3> QED
      BY <3>1
         DEF DirectoryInv, DirectoryRequestOK, BranchRequestOK, NameHeld, FindBranch, Raced,
             MemberRequestOK, KeyHeld, AccountHeld, ContractRequestOK, DatesHeld,
             VehicleHeld, LinksHeld, StillFound
  <2> QED
    BY <2>2, <2>3, UnwrittenDirectoryInv
<1> QED
  BY <1>1, <1>2

=============================================================================
