---------------------------- MODULE IdentityProofs ----------------------------
(***************************************************************************)
(* Theorems of accounts and sessions, for every number of users, tenants,  *)
(* tokens and requests in flight, and every lifetime of a token.           *)
(*                                                                         *)
(* AccountsInv and SessionsInv are inductive.  What they add to the        *)
(* properties is what the requests in flight still know: a decision's      *)
(* target and tenant, what a reject has missed, and how long a logout's    *)
(* key has to live.                                                        *)
(***************************************************************************)
EXTENDS Identity, FiniteSetTheorems, TLAPS

\* One admin per tenant, without counting.
TenantsHaveAdmins ==
    /\ \A u \in DOMAIN users : users[u].tenant \in DOMAIN tenants
    /\ \A t \in DOMAIN tenants : \E u \in Admins : users[u].tenant = t
    /\ \A u, v \in Admins : users[u].tenant = users[v].tenant => u = v

\* What a request still knows of the rows that its lookup found.  A reject may
\* have missed an approval, and only that.
AccountRequestOK(r) ==
    LET q == ureq[r] IN
    /\ q.op \in {"register", "createUser"} => q.user \in Users
    /\ q.op \in {"approve", "reject", "suspend", "reactivate"} =>
         q.user \in Admins /\ users[q.user].tenant = q.tenant
    /\ q.op = "reject" =>
         q.user \in uapproved[r] \/ users[q.user].approvalStatus # "APPROVED"
    /\ q.op \in {"updateTenant", "removeTenant", "createUser"} =>
         q.tenant \in DOMAIN tenants
    /\ q.op \in {"updateUser", "removeUser"} =>
         q.user \in DOMAIN users /\ users[q.user].role = "EMPLOYEE"

AccountsInv ==
    /\ AccountsTypeOK
    /\ TenantsHaveAdmins
    /\ AdminActiveIffApproved
    /\ AdminAndTenantAgree
    /\ \A r \in AccountRequests : AccountRequestOK(r)

\* A logged-out token that has not expired has a key that outlives it.
KeysOutliveTokens ==
    \A tk \in loggedOut :
        clock < tk.exp => tk \in DOMAIN blacklist /\ tk.exp <= blacklist[tk]

SessionsInv ==
    /\ SessionsTypeOK
    /\ KeysOutliveTokens
    /\ \A r \in SessionRequests :
         sreq[r].pc = "revoke" => sreq[r].exp <= clock + sreq[r].ttl

IdentityInv == AccountsInv /\ SessionsInv

----------------------------------------------------------------------------
(***************************************************************************)
(* Accounts.                                                               *)
(***************************************************************************)

\* No user is registered at first, and no request is in flight.
LEMMA AccountsInvInit ==
    AccountsInit => AccountsInv
<1> SUFFICES ASSUME AccountsInit
             PROVE  AccountsInv
  OBVIOUS
<1>1. DOMAIN users = {} /\ DOMAIN tenants = {} /\ Admins = {}
  BY DEF AccountsInit, Admins
<1>2. AccountsTypeOK
  BY <1>1 DEF AccountsInit, AccountsTypeOK
<1>3. \A r \in AccountRequests : ureq[r].op = "none"
  BY DEF AccountsInit, AccountIdle
<1> QED
  BY <1>1, <1>2, <1>3 DEF AccountsInv, TenantsHaveAdmins, AdminActiveIffApproved,
                          AdminAndTenantAgree, AccountRequestOK

\* A step that writes no row: the handler in slot r starts, or returns.
LEMMA UnwrittenAccountsInv ==
    ASSUME AccountsInv, NEW r \in AccountRequests,
           UNCHANGED <<users, tenants, lateRejected, setByHand>>,
           ureq' \in [AccountRequests -> AccountRequest \cup {AccountIdle}],
           uapproved' \in [AccountRequests -> SUBSET Users],
           \A x \in AccountRequests \ {r} :
               ureq'[x] = ureq[x] /\ uapproved'[x] = uapproved[x],
           AccountRequestOK(r)'
    PROVE  AccountsInv'
<1>1. AccountsTypeOK' /\ TenantsHaveAdmins' /\ AdminActiveIffApproved'
      /\ AdminAndTenantAgree'
  BY DEF AccountsInv, AccountsTypeOK, TenantsHaveAdmins, AdminActiveIffApproved,
         AdminAndTenantAgree, Admins
<1>2. ASSUME NEW x \in AccountRequests \ {r}
      PROVE  AccountRequestOK(x)'
  BY <1>2 DEF AccountsInv, AccountRequestOK, Admins
<1> QED
  BY <1>1, <1>2 DEF AccountsInv

\* A slot that is freed knows nothing.
LEMMA IdleAccountOK ==
    ASSUME NEW r \in AccountRequests, ureq[r] = AccountIdle
    PROVE  AccountRequestOK(r)
BY DEF AccountIdle, AccountRequestOK

\* Every lookup tells the request that it accepts what the request has to know.
LEMMA AcceptAccountInv ==
    ASSUME AccountsInv, NEW r \in AccountRequests, NEW op, NEW u, NEW t, NEW isActive,
           AcceptAccount(r, op, u, t, isActive),
           [op |-> op, user |-> u, tenant |-> t, isActive |-> isActive]
               \in AccountRequest,
           op \in {"register", "createUser"} => u \in Users,
           op \in {"approve", "reject", "suspend", "reactivate"} =>
               u \in Admins /\ users[u].tenant = t,
           op = "reject" => users[u].approvalStatus # "APPROVED",
           op \in {"updateTenant", "removeTenant", "createUser"} => t \in DOMAIN tenants,
           op \in {"updateUser", "removeUser"} =>
               u \in DOMAIN users /\ users[u].role = "EMPLOYEE"
    PROVE  AccountsInv'
<1> DEFINE q == [op |-> op, user |-> u, tenant |-> t, isActive |-> isActive]
<1>1. /\ ureq' = [ureq EXCEPT ![r] = q]
      /\ UNCHANGED <<users, tenants, uapproved, lateRejected, setByHand>>
  BY DEF AcceptAccount
<1>2. /\ ureq \in [AccountRequests -> AccountRequest \cup {AccountIdle}]
      /\ uapproved \in [AccountRequests -> SUBSET Users]
  BY DEF AccountsInv, AccountsTypeOK
<1>3. ureq'[r].op = op /\ ureq'[r].user = u /\ ureq'[r].tenant = t
  BY <1>1, <1>2
<1>4. AccountRequestOK(r)'
  BY <1>1, <1>3 DEF AccountRequestOK, Admins
<1>5. /\ ureq' \in [AccountRequests -> AccountRequest \cup {AccountIdle}]
      /\ \A x \in AccountRequests \ {r} : ureq'[x] = ureq[x]
  BY <1>1, <1>2
<1> QED
  BY <1>1, <1>2, <1>4, <1>5, UnwrittenAccountsInv

\* The lookups, each of which finds what its request has to know.
LEMMA LookupsInv ==
    ASSUME AccountsInv, NEW r \in AccountRequests,
           \/ RegisterTenant(r) \/ Approve(r) \/ Reject(r) \/ Suspend(r)
           \/ Reactivate(r) \/ UpdateTenant(r) \/ RemoveTenant(r)
           \/ CreateUser(r) \/ UpdateUser(r) \/ RemoveUser(r)
    PROVE  AccountsInv'
<1>1. /\ DOMAIN users \subseteq Users /\ DOMAIN tenants \subseteq Tenants
      /\ \A u \in DOMAIN users : users[u].tenant \in Tenants
  BY DEF AccountsInv, AccountsTypeOK, TenantsHaveAdmins
<1>2. CASE RegisterTenant(r)
  <2>1. PICK u \in Users : AcceptAccount(r, "register", u, None, Absent)
    BY <1>2 DEF RegisterTenant
  <2>2. [op |-> "register", user |-> u, tenant |-> None, isActive |-> Absent]
          \in AccountRequest
    BY DEF AccountRequest
  <2> QED
    BY <2>1, <2>2, AcceptAccountInv
<1>3. ASSUME NEW op \in {"approve", "reject", "suspend", "reactivate"},
             NEW u \in Users, FindAdmin(u),
             op = "reject" => users[u].approvalStatus # "APPROVED",
             AcceptAccount(r, op, u, users[u].tenant, Absent)
      PROVE  AccountsInv'
  <2>1. u \in Admins /\ users[u].tenant \in Tenants
    BY <1>1, <1>3 DEF FindAdmin, Admins
  <2>2. [op |-> op, user |-> u, tenant |-> users[u].tenant, isActive |-> Absent]
          \in AccountRequest
    BY <2>1 DEF AccountRequest
  <2> QED
    BY <1>3, <2>1, <2>2, AcceptAccountInv
<1>4. CASE Approve(r) \/ Reject(r) \/ Suspend(r) \/ Reactivate(r)
  BY <1>3, <1>4 DEF Approve, Reject, Suspend, Reactivate
<1>5. CASE UpdateTenant(r)
  <2>1. PICK t \in Tenants, isActive \in BOOLEAN \cup {Absent} :
          FindTenant(t) /\ AcceptAccount(r, "updateTenant", None, t, isActive)
    BY <1>5 DEF UpdateTenant
  <2>2. [op |-> "updateTenant", user |-> None, tenant |-> t, isActive |-> isActive]
          \in AccountRequest
    BY DEF AccountRequest
  <2> QED
    BY <2>1, <2>2, AcceptAccountInv DEF FindTenant
<1>6. CASE RemoveTenant(r)
  <2>1. PICK t \in Tenants :
          FindTenant(t) /\ AcceptAccount(r, "removeTenant", None, t, Absent)
    BY <1>6 DEF RemoveTenant
  <2>2. [op |-> "removeTenant", user |-> None, tenant |-> t, isActive |-> Absent]
          \in AccountRequest
    BY DEF AccountRequest
  <2> QED
    BY <2>1, <2>2, AcceptAccountInv DEF FindTenant
<1>7. CASE CreateUser(r)
  <2>1. PICK u \in Users, t \in DOMAIN tenants :
          AcceptAccount(r, "createUser", u, t, Absent)
    BY <1>7 DEF CreateUser
  <2>2. [op |-> "createUser", user |-> u, tenant |-> t, isActive |-> Absent]
          \in AccountRequest
    BY <1>1 DEF AccountRequest
  <2> QED
    BY <2>1, <2>2, AcceptAccountInv
<1>8. CASE UpdateUser(r)
  <2>1. PICK u \in Users, t \in Tenants, isActive \in BOOLEAN \cup {Absent} :
          FindManageable(u, t) /\ AcceptAccount(r, "updateUser", u, t, isActive)
    BY <1>8 DEF UpdateUser
  <2>2. [op |-> "updateUser", user |-> u, tenant |-> t, isActive |-> isActive]
          \in AccountRequest
    BY DEF AccountRequest
  <2> QED
    BY <2>1, <2>2, AcceptAccountInv DEF FindManageable
<1>9. CASE RemoveUser(r)
  <2>1. PICK u \in Users, t \in Tenants :
          FindManageable(u, t) /\ AcceptAccount(r, "removeUser", u, t, Absent)
    BY <1>9 DEF RemoveUser
  <2>2. [op |-> "removeUser", user |-> u, tenant |-> t, isActive |-> Absent]
          \in AccountRequest
    BY DEF AccountRequest
  <2> QED
    BY <2>1, <2>2, AcceptAccountInv DEF FindManageable
<1> QED
  BY <1>2, <1>4, <1>5, <1>6, <1>7, <1>8, <1>9

\* A write keeps every row's identity, role and tenant.
RowsKept ==
    /\ DOMAIN users \subseteq DOMAIN users' /\ DOMAIN tenants \subseteq DOMAIN tenants'
    /\ \A u \in DOMAIN users :
         users'[u].role = users[u].role /\ users'[u].tenant = users[u].tenant

\* The other requests still know what they knew after r's write, if those in
\* flight are told of every approval.
LEMMA OtherRequestsOK ==
    ASSUME AccountsInv, NEW r \in AccountRequests, RowsKept,
           ureq' = [ureq EXCEPT ![r] = AccountIdle],
           \A x \in AccountRequests \ {r} : uapproved[x] \subseteq uapproved'[x],
           \A u \in Admins, x \in AccountRequests \ {r} :
               users'[u].approvalStatus = "APPROVED" /\ ureq[x] # AccountIdle
               => users[u].approvalStatus = "APPROVED" \/ u \in uapproved'[x]
    PROVE  /\ ureq' \in [AccountRequests -> AccountRequest \cup {AccountIdle}]
           /\ \A x \in AccountRequests : AccountRequestOK(x)'
<1>1. ureq \in [AccountRequests -> AccountRequest \cup {AccountIdle}]
  BY DEF AccountsInv, AccountsTypeOK
<1>2. ureq'[r] = AccountIdle /\ \A x \in AccountRequests \ {r} : ureq'[x] = ureq[x]
  BY <1>1
<1>3. Admins \subseteq Admins'
  BY DEF RowsKept, Admins
<1>4. AccountRequestOK(r)'
  BY <1>2 DEF AccountIdle, AccountRequestOK
<1>5. ASSUME NEW x \in AccountRequests \ {r}
      PROVE  AccountRequestOK(x)'
  <2>1. AccountRequestOK(x) /\ ureq'[x] = ureq[x]
    BY <1>2 DEF AccountsInv
  <2>2. CASE ureq[x] = AccountIdle
    BY <2>1, <2>2 DEF AccountIdle, AccountRequestOK
  <2>3. CASE ureq[x] # AccountIdle
    <3>1. ureq[x].op = "reject" =>
            \/ ureq[x].user \in uapproved'[x]
            \/ users'[ureq[x].user].approvalStatus # "APPROVED"
      BY <2>1, <2>3 DEF AccountRequestOK
    <3> QED
      BY <1>3, <2>1, <3>1 DEF AccountRequestOK, RowsKept, Admins
  <2> QED
    BY <2>2, <2>3
<1> QED
  BY <1>1, <1>2, <1>4, <1>5

\* A handler that returns leaves uapproved to the others.
LEMMA ReturnsApproved ==
    ASSUME AccountsInv, NEW r \in AccountRequests, AccountReturns(r)
    PROVE  /\ uapproved' \in [AccountRequests -> SUBSET Users]
           /\ \A x \in AccountRequests \ {r} : uapproved'[x] = uapproved[x]
           /\ ureq' = [ureq EXCEPT ![r] = AccountIdle]
BY DEF AccountReturns, AccountsInv, AccountsTypeOK

\* Nothing is approved by a write that leaves every approvalStatus alone, so
\* the requests in flight need not be told of it.
LEMMA UndecidedWriteInv ==
    ASSUME AccountsInv, NEW r \in AccountRequests, AccountReturns(r), RowsKept,
           \A u \in DOMAIN users :
               users'[u].approvalStatus = users[u].approvalStatus,
           DOMAIN users' \subseteq Users, users' \in [DOMAIN users' -> User],
           DOMAIN tenants' \subseteq Tenants, tenants' \in [DOMAIN tenants' -> Tenant],
           lateRejected' \subseteq Users, setByHand' \subseteq Tenants,
           TenantsHaveAdmins', AdminActiveIffApproved', AdminAndTenantAgree'
    PROVE  AccountsInv'
<1>1. \A u \in Admins : u \in DOMAIN users
  BY DEF Admins
<1>2. /\ ureq' \in [AccountRequests -> AccountRequest \cup {AccountIdle}]
      /\ \A x \in AccountRequests : AccountRequestOK(x)'
  BY <1>1, ReturnsApproved, OtherRequestsOK
<1> QED
  BY <1>2, ReturnsApproved DEF AccountsInv, AccountsTypeOK

----------------------------------------------------------------------------

\* register: a new tenant and its applicant, or neither.
LEMMA InsertApplicationInv ==
    ASSUME AccountsInv, NEW r \in AccountRequests, InsertApplication(r)
    PROVE  AccountsInv'
<1> DEFINE u == ureq[r].user
<1>1. PICK t \in Tenants \ DOMAIN tenants :
        InsertTenant(t) /\ InsertUser(u, Applicant(t))
  BY DEF InsertApplication
<1>2. /\ u \in Users /\ u \notin DOMAIN users
      /\ AccountReturns(r) /\ UNCHANGED <<lateRejected, setByHand>>
  BY DEF InsertApplication, AccountsInv, AccountRequestOK
<1>3. /\ DOMAIN users' = DOMAIN users \cup {u}
      /\ users'[u] = Applicant(t)
      /\ \A x \in DOMAIN users : users'[x] = users[x]
  BY <1>1, <1>2 DEF InsertUser
<1> DEFINE row == [isActive |-> FALSE, deleted |-> FALSE]
<1>4. /\ DOMAIN tenants' = DOMAIN tenants \cup {t}
      /\ tenants'[t] = row
      /\ \A x \in DOMAIN tenants : tenants'[x] = tenants[x]
      /\ users' = [x \in DOMAIN users \cup {u} |-> users'[x]]
      /\ tenants' = [x \in DOMAIN tenants \cup {t} |-> tenants'[x]]
  BY <1>1, <1>2 DEF InsertTenant, InsertUser
<1>5. /\ Applicant(t) \in User /\ row \in Tenant
      /\ Applicant(t).role = "ADMIN" /\ Applicant(t).tenant = t
      /\ Applicant(t).approvalStatus = "PENDING"
      /\ Applicant(t).isActive = FALSE /\ row.isActive = FALSE
  BY DEF Applicant, User, Tenant, ApprovalStatus
<1>6. Admins' = Admins \cup {u} /\ u \notin Admins
  BY <1>2, <1>3, <1>5 DEF Admins
<1>7. RowsKept
  BY <1>3, <1>4 DEF RowsKept
<1>8. \A x \in DOMAIN users : users[x].tenant \in DOMAIN tenants /\ users[x].tenant # t
  BY DEF AccountsInv, TenantsHaveAdmins
<1> HIDE DEF u, row
<1>9. TenantsHaveAdmins'
  BY <1>3, <1>4, <1>5, <1>6, <1>8 DEF AccountsInv, TenantsHaveAdmins, Admins
<1>10. \A x \in Admins : x \in DOMAIN users /\ users'[x] = users[x]
  BY <1>3 DEF Admins
<1>11. users'[u].isActive = FALSE /\ (users'[u].approvalStatus = "APPROVED") = FALSE
       /\ users'[u].tenant = t /\ tenants'[t].isActive = FALSE
  BY <1>3, <1>4, <1>5
<1>12. AdminActiveIffApproved'
  BY <1>6, <1>10, <1>11, Zenon DEF AccountsInv, AdminActiveIffApproved
<1>13. AdminAndTenantAgree'
  <2>1. ASSUME NEW x \in Admins, users'[x].tenant \notin setByHand'
        PROVE  \/ tenants'[users'[x].tenant].isActive = (users'[x].approvalStatus = "APPROVED")
               \/ users'[x].approvalStatus = "REJECTED" /\ x \in lateRejected'
    <3>1. /\ users'[x] = users[x] /\ tenants'[users[x].tenant] = tenants[users[x].tenant]
          /\ users[x].tenant \notin setByHand
      BY <1>2, <1>4, <1>8, <1>10, <2>1
    <3> QED
      BY <1>2, <3>1 DEF AccountsInv, AdminAndTenantAgree
  <2>2. tenants'[users'[u].tenant].isActive = (users'[u].approvalStatus = "APPROVED")
    BY <1>11, Zenon
  <2> QED
    BY <1>6, <2>1, <2>2, Zenon DEF AdminAndTenantAgree
<1> QED
  BY <1>2, <1>3, <1>4, <1>5, <1>7, <1>9, <1>12, <1>13, UndecidedWriteInv
     DEF AccountsInv, AccountsTypeOK

\* createUser: a new employee of a tenant that has its admin already.
LEMMA InsertEmployeeInv ==
    ASSUME AccountsInv, NEW r \in AccountRequests, InsertEmployee(r)
    PROVE  AccountsInv'
<1> DEFINE u == ureq[r].user
           t == ureq[r].tenant
           row == [tenant |-> t, role |-> "EMPLOYEE", approvalStatus |-> "APPROVED",
                   isActive |-> TRUE, deleted |-> FALSE]
<1>1. /\ u \in Users /\ u \notin DOMAIN users /\ t \in DOMAIN tenants
      /\ InsertUser(u, row) /\ AccountReturns(r)
      /\ UNCHANGED <<tenants, lateRejected, setByHand>>
  BY DEF InsertEmployee, AccountsInv, AccountRequestOK
<1>2. /\ DOMAIN users' = DOMAIN users \cup {u}
      /\ users'[u] = row
      /\ \A x \in DOMAIN users : users'[x] = users[x]
      /\ users' = [x \in DOMAIN users \cup {u} |-> users'[x]]
  BY <1>1 DEF InsertUser
<1>3. row \in User /\ row.role = "EMPLOYEE" /\ row.tenant = t
  BY <1>1 DEF User, ApprovalStatus, AccountsInv, AccountsTypeOK
<1>4. Admins' = Admins
  BY <1>1, <1>2, <1>3 DEF Admins
<1>5. RowsKept
  BY <1>1, <1>2 DEF RowsKept
<1>6. \A x \in Admins : x \in DOMAIN users /\ users'[x] = users[x]
  BY <1>2 DEF Admins
<1> HIDE DEF u, t, row
<1>7. TenantsHaveAdmins'
  BY <1>1, <1>2, <1>3, <1>4, <1>6 DEF AccountsInv, TenantsHaveAdmins
<1>8. AdminActiveIffApproved' /\ AdminAndTenantAgree'
  BY <1>1, <1>4, <1>6 DEF AccountsInv, AdminActiveIffApproved, AdminAndTenantAgree
<1> QED
  BY <1>1, <1>2, <1>3, <1>5, <1>7, <1>8, UndecidedWriteInv
     DEF AccountsInv, AccountsTypeOK

\* updateUser and removeUser write an employee.
LEMMA WriteEmployeeInv ==
    ASSUME AccountsInv, NEW r \in AccountRequests, WriteUser(r) \/ DeleteUser(r)
    PROVE  AccountsInv'
<1> DEFINE u == ureq[r].user
<1>1. /\ u \in DOMAIN users /\ users[u].role = "EMPLOYEE" /\ AccountReturns(r)
      /\ UNCHANGED <<tenants, lateRejected, setByHand>>
  BY DEF WriteUser, DeleteUser, AccountsInv, AccountRequestOK
<1>2. users \in [DOMAIN users -> User] /\ users[u] \in User
      /\ ureq[r].isActive \in BOOLEAN \cup {Absent}
  BY <1>1 DEF AccountsInv, AccountsTypeOK, AccountRequest, AccountIdle
<1>3. PICK row \in User : /\ users' = [users EXCEPT ![u] = row]
                          /\ row.role = users[u].role /\ row.tenant = users[u].tenant
                          /\ row.approvalStatus = users[u].approvalStatus
  <2>1. CASE DeleteUser(r)
    <3>1. [users[u] EXCEPT !.deleted = TRUE] \in User
      BY <1>2 DEF User
    <3> QED
      BY <1>2, <2>1, <3>1 DEF DeleteUser, User
  <2>2. CASE WriteUser(r)
    <3> DEFINE a == IF ureq[r].isActive = Absent THEN users[u].isActive ELSE ureq[r].isActive
    <3>1. a \in BOOLEAN
      BY <1>2 DEF User
    <3>2. users' = [users EXCEPT ![u] = [users[u] EXCEPT !.isActive = a]]
      BY <1>2, <2>2 DEF WriteUser
    <3> HIDE DEF a
    <3>3. [users[u] EXCEPT !.isActive = a] \in User
      BY <1>2, <3>1 DEF User
    <3> QED
      BY <1>2, <3>2, <3>3 DEF User
  <2> QED
    BY <2>1, <2>2
<1>4. /\ DOMAIN users' = DOMAIN users /\ users' \in [DOMAIN users -> User]
      /\ users'[u] = row /\ \A x \in DOMAIN users : x # u => users'[x] = users[x]
  BY <1>1, <1>2, <1>3
<1>5. Admins' = Admins /\ \A x \in Admins : users'[x] = users[x]
  BY <1>1, <1>3, <1>4 DEF Admins
<1>6. RowsKept
  BY <1>1, <1>3, <1>4 DEF RowsKept
<1>7. \A x \in DOMAIN users : users'[x].tenant = users[x].tenant
                             /\ users'[x].approvalStatus = users[x].approvalStatus
  BY <1>3, <1>4
<1> HIDE DEF u
<1>8. TenantsHaveAdmins'
  BY <1>1, <1>4, <1>5, <1>7 DEF AccountsInv, TenantsHaveAdmins, Admins
<1>9. AdminActiveIffApproved' /\ AdminAndTenantAgree'
  BY <1>1, <1>5 DEF AccountsInv, AdminActiveIffApproved, AdminAndTenantAgree
<1> QED
  BY <1>1, <1>4, <1>6, <1>7, <1>8, <1>9, UndecidedWriteInv
     DEF AccountsInv, AccountsTypeOK

\* TenantsService writes a tenant by hand, and says so.
LEMMA WriteTenantInv ==
    ASSUME AccountsInv, NEW r \in AccountRequests, WriteTenant(r) \/ DeleteTenant(r)
    PROVE  AccountsInv'
<1> DEFINE q == ureq[r]
<1>1. /\ q.tenant \in DOMAIN tenants /\ AccountReturns(r)
      /\ UNCHANGED <<users, lateRejected>>
      /\ q.isActive \in BOOLEAN \cup {Absent}
  BY DEF WriteTenant, DeleteTenant, AccountsInv, AccountRequestOK, AccountsTypeOK,
         AccountRequest, AccountIdle
<1>2. tenants \in [DOMAIN tenants -> Tenant] /\ tenants[q.tenant] \in Tenant
      /\ q.tenant \in Tenants
  BY <1>1 DEF AccountsInv, AccountsTypeOK
<1>3. CASE UNCHANGED <<tenants, setByHand>>
  <2>1. RowsKept /\ TenantsHaveAdmins' /\ AdminActiveIffApproved' /\ AdminAndTenantAgree'
    BY <1>1, <1>3 DEF RowsKept, AccountsInv, TenantsHaveAdmins, Admins,
                      AdminActiveIffApproved, AdminAndTenantAgree
  <2> QED
    BY <1>1, <1>3, <2>1, UndecidedWriteInv DEF AccountsInv, AccountsTypeOK
<1>4. CASE \E row \in Tenant : /\ tenants' = [tenants EXCEPT ![q.tenant] = row]
                               /\ setByHand' = setByHand \cup {q.tenant}
  <2>1. PICK row \in Tenant : /\ tenants' = [tenants EXCEPT ![q.tenant] = row]
                              /\ setByHand' = setByHand \cup {q.tenant}
    BY <1>4
  <2>2. /\ DOMAIN tenants' = DOMAIN tenants /\ tenants' \in [DOMAIN tenants -> Tenant]
        /\ \A t \in DOMAIN tenants : t \notin setByHand' =>
              t \notin setByHand /\ tenants'[t] = tenants[t]
    BY <1>1, <1>2, <2>1
  <2>3. RowsKept /\ TenantsHaveAdmins' /\ AdminActiveIffApproved'
    BY <1>1, <2>2 DEF RowsKept, AccountsInv, TenantsHaveAdmins, Admins,
                      AdminActiveIffApproved
  <2>4. AdminAndTenantAgree'
    <3>1. Admins' = Admins /\ \A u \in Admins : users[u].tenant \in DOMAIN tenants
      BY <1>1 DEF Admins, AccountsInv, TenantsHaveAdmins
    <3> QED
      BY <1>1, <2>2, <3>1 DEF AccountsInv, AdminAndTenantAgree
  <2> QED
    BY <1>1, <1>2, <2>1, <2>2, <2>3, <2>4, UndecidedWriteInv
       DEF AccountsInv, AccountsTypeOK
<1>5. [isActive |-> FALSE, deleted |-> TRUE] \in Tenant
  BY DEF Tenant
<1>6. q.isActive # Absent =>
        /\ [tenants[q.tenant] EXCEPT !.isActive = q.isActive] \in Tenant
        /\ [tenants EXCEPT ![q.tenant].isActive = q.isActive] =
             [tenants EXCEPT ![q.tenant] = [tenants[q.tenant] EXCEPT !.isActive = q.isActive]]
  BY <1>1, <1>2 DEF Tenant
<1>7. CASE WriteTenant(r)
  BY <1>3, <1>4, <1>6, <1>7 DEF WriteTenant
<1>8. CASE DeleteTenant(r)
  BY <1>4, <1>5, <1>8 DEF DeleteTenant
<1> QED
  BY <1>7, <1>8

\* reject: the admin is no longer approved, and if it was, an approval was
\* missed, which lateRejected records.
LEMMA WriteRejectionInv ==
    ASSUME AccountsInv, NEW r \in AccountRequests, WriteRejection(r)
    PROVE  AccountsInv'
<1> DEFINE u == ureq[r].user
           row == [users[u] EXCEPT !.approvalStatus = "REJECTED", !.isActive = FALSE]
<1>1. /\ AccountReturns(r) /\ UNCHANGED <<tenants, setByHand>>
      /\ lateRejected' = lateRejected \cup (uapproved[r] \cap {u})
      /\ u \in Admins /\ u \in DOMAIN users
      /\ u \in uapproved[r] \/ users[u].approvalStatus # "APPROVED"
  BY DEF WriteRejection, AccountsInv, AccountRequestOK, Admins
<1>2. users \in [DOMAIN users -> User] /\ users[u] \in User
  BY <1>1 DEF AccountsInv, AccountsTypeOK
<1>3. /\ row \in User /\ row.role = users[u].role /\ row.tenant = users[u].tenant
      /\ row.approvalStatus = "REJECTED" /\ row.isActive = FALSE
  BY <1>2 DEF User, ApprovalStatus
<1>4. users' = [users EXCEPT ![u] = row]
  BY <1>1, <1>2 DEF WriteRejection, User
<1>5. /\ DOMAIN users' = DOMAIN users /\ users' \in [DOMAIN users -> User]
      /\ users'[u] = row /\ \A x \in DOMAIN users : x # u => users'[x] = users[x]
  BY <1>1, <1>2, <1>3, <1>4
<1> HIDE DEF row
<1>6. /\ Admins' = Admins /\ Admins \subseteq DOMAIN users
      /\ \A x \in DOMAIN users : users'[x].tenant = users[x].tenant
  BY <1>3, <1>5 DEF Admins
<1>7. RowsKept
  BY <1>1, <1>3, <1>5 DEF RowsKept
<1> HIDE DEF u
<1>8. TenantsHaveAdmins'
  BY <1>1, <1>5, <1>6 DEF AccountsInv, TenantsHaveAdmins
<1>9. AdminActiveIffApproved'
  <2>1. users'[u].isActive = (users'[u].approvalStatus = "APPROVED")
    BY <1>3, <1>5
  <2>2. ASSUME NEW x \in Admins, x # u
        PROVE  users'[x].isActive = (users'[x].approvalStatus = "APPROVED")
    BY <1>5, <1>6, <2>2 DEF AccountsInv, AdminActiveIffApproved
  <2> QED
    BY <1>6, <2>1, <2>2, Zenon DEF AdminActiveIffApproved
<1>10. AdminAndTenantAgree'
  <2>1. ASSUME users'[u].tenant \notin setByHand'
        PROVE  \/ tenants'[users'[u].tenant].isActive = (users'[u].approvalStatus = "APPROVED")
               \/ users'[u].approvalStatus = "REJECTED" /\ u \in lateRejected'
    <3> DEFINE a == tenants[users[u].tenant].isActive
    <3>1. CASE u \in uapproved[r]
      BY <1>1, <1>3, <1>5, <3>1
    <3>2. CASE users[u].approvalStatus # "APPROVED"
      <4>1. \/ a = (users[u].approvalStatus = "APPROVED")
            \/ u \in lateRejected
        BY <1>1, <1>6, <2>1 DEF AccountsInv, AdminAndTenantAgree
      <4>2. (users[u].approvalStatus = "APPROVED") = (users'[u].approvalStatus = "APPROVED")
        BY <1>3, <1>5, <3>2
      <4>3. tenants'[users'[u].tenant].isActive = a
        BY <1>1, <1>6
      <4>4. users'[u].approvalStatus = "REJECTED" /\ lateRejected \subseteq lateRejected'
        BY <1>1, <1>3, <1>5
      <4> HIDE DEF a
      <4> QED
        BY <4>1, <4>2, <4>3, <4>4, Zenon
    <3> QED
      BY <1>1, <3>1, <3>2
  <2>2. ASSUME NEW x \in Admins, x # u, users'[x].tenant \notin setByHand'
        PROVE  \/ tenants'[users'[x].tenant].isActive = (users'[x].approvalStatus = "APPROVED")
               \/ users'[x].approvalStatus = "REJECTED" /\ x \in lateRejected'
    BY <1>1, <1>5, <1>6, <2>2 DEF AccountsInv, AdminAndTenantAgree
  <2> QED
    BY <1>6, <2>1, <2>2, Zenon DEF AdminAndTenantAgree
<1>11. /\ ureq' \in [AccountRequests -> AccountRequest \cup {AccountIdle}]
       /\ \A x \in AccountRequests : AccountRequestOK(x)'
  <2>1. \A x \in Admins : users'[x].approvalStatus = "APPROVED"
                          => users[x].approvalStatus = "APPROVED"
    BY <1>3, <1>5, <1>6
  <2> QED
    BY <1>1, <1>7, <2>1, ReturnsApproved, OtherRequestsOK
<1> QED
  BY <1>1, <1>5, <1>8, <1>9, <1>10, <1>11, ReturnsApproved DEF AccountsInv, AccountsTypeOK

\* approve, reactivate, suspend: the user and its tenant agree afterwards, and
\* every request in flight is told of an approval.
LEMMA WriteDecisionInv ==
    ASSUME AccountsInv, NEW r \in AccountRequests, WriteDecision(r)
    PROVE  AccountsInv'
<1>1. PICK b \in BOOLEAN, s \in {"APPROVED", "SUSPENDED"} :
        /\ b = (s = "APPROVED")
        /\ users' = [users EXCEPT ![ureq[r].user].approvalStatus = s,
                                  ![ureq[r].user].isActive = b]
        /\ tenants' = [tenants EXCEPT ![ureq[r].tenant].isActive = b]
        /\ uapproved' = [x \in AccountRequests |->
             IF x = r THEN {}
             ELSE IF b /\ ureq[x] # AccountIdle THEN uapproved[x] \cup {ureq[r].user}
             ELSE uapproved[x]]
  <2>1. CASE ureq[r].op = "suspend"
    BY <2>1 DEF WriteDecision
  <2>2. CASE ureq[r].op # "suspend"
    BY <2>2 DEF WriteDecision
  <2> QED
    BY <2>1, <2>2
<1> DEFINE u == ureq[r].user
           t == ureq[r].tenant
           row == [users[u] EXCEPT !.approvalStatus = s, !.isActive = b]
           trow == [tenants[t] EXCEPT !.isActive = b]
<1>2. /\ ureq' = [ureq EXCEPT ![r] = AccountIdle]
      /\ lateRejected' = lateRejected \ {u} /\ setByHand' = setByHand \ {t}
      /\ u \in Admins /\ users[u].tenant = t
      /\ u \in DOMAIN users /\ t \in DOMAIN tenants
  BY DEF WriteDecision, AccountsInv, AccountRequestOK, Admins, TenantsHaveAdmins
<1>3. /\ users \in [DOMAIN users -> User] /\ users[u] \in User
      /\ tenants \in [DOMAIN tenants -> Tenant] /\ tenants[t] \in Tenant
      /\ u \in Users /\ uapproved \in [AccountRequests -> SUBSET Users]
  BY <1>2 DEF AccountsInv, AccountsTypeOK
<1>4. /\ row \in User /\ row.role = users[u].role /\ row.tenant = t
      /\ row.approvalStatus = s /\ row.isActive = b
  BY <1>2, <1>3 DEF User, ApprovalStatus
<1>5. trow \in Tenant /\ trow.isActive = b
  BY <1>3 DEF Tenant
<1>6. users' = [users EXCEPT ![u] = row] /\ tenants' = [tenants EXCEPT ![t] = trow]
  BY <1>1, <1>2, <1>3 DEF User, Tenant
<1>7. /\ DOMAIN users' = DOMAIN users /\ users' \in [DOMAIN users -> User]
      /\ users'[u] = row /\ \A x \in DOMAIN users : x # u => users'[x] = users[x]
      /\ DOMAIN tenants' = DOMAIN tenants /\ tenants' \in [DOMAIN tenants -> Tenant]
      /\ tenants'[t] = trow /\ \A x \in DOMAIN tenants : x # t => tenants'[x] = tenants[x]
  BY <1>2, <1>3, <1>4, <1>5, <1>6
<1> HIDE DEF row, trow
<1>8. /\ Admins' = Admins /\ Admins \subseteq DOMAIN users
      /\ \A x \in DOMAIN users : users'[x].tenant = users[x].tenant
  BY <1>2, <1>4, <1>7 DEF Admins
<1>9. RowsKept
  BY <1>2, <1>4, <1>7 DEF RowsKept
<1>10. uapproved' \in [AccountRequests -> SUBSET Users]
  BY <1>1, <1>3
<1>11. /\ ureq' \in [AccountRequests -> AccountRequest \cup {AccountIdle}]
       /\ \A x \in AccountRequests : AccountRequestOK(x)'
  <2>1. \A x \in AccountRequests \ {r} : uapproved[x] \subseteq uapproved'[x]
    BY <1>1, <1>3
  <2>2. ASSUME NEW v \in Admins, NEW x \in AccountRequests \ {r},
               users'[v].approvalStatus = "APPROVED", ureq[x] # AccountIdle
        PROVE  users[v].approvalStatus = "APPROVED" \/ v \in uapproved'[x]
    <3>1. CASE v # u
      BY <1>7, <1>8, <2>2, <3>1
    <3>2. CASE v = u
      <4>1. b
        BY <1>1, <1>4, <1>7, <2>2, <3>2
      <4> QED
        BY <1>1, <2>2, <3>2, <4>1
    <3> QED
      BY <3>1, <3>2
  <2> QED
    BY <1>2, <1>9, <2>1, <2>2, OtherRequestsOK
<1> HIDE DEF u, t
<1>12. TenantsHaveAdmins'
  BY <1>7, <1>8 DEF AccountsInv, TenantsHaveAdmins
<1>13. AdminActiveIffApproved'
  <2>1. users'[u].isActive = (users'[u].approvalStatus = "APPROVED")
    BY <1>1, <1>4, <1>7
  <2>2. ASSUME NEW x \in Admins, x # u
        PROVE  users'[x].isActive = (users'[x].approvalStatus = "APPROVED")
    BY <1>7, <1>8, <2>2 DEF AccountsInv, AdminActiveIffApproved
  <2> QED
    BY <1>8, <2>1, <2>2, Zenon DEF AdminActiveIffApproved
<1>14. AdminAndTenantAgree'
  <2>1. tenants'[users'[u].tenant].isActive = (users'[u].approvalStatus = "APPROVED")
    BY <1>1, <1>4, <1>5, <1>7
  <2>2. ASSUME NEW x \in Admins, x # u, users'[x].tenant \notin setByHand'
        PROVE  \/ tenants'[users'[x].tenant].isActive = (users'[x].approvalStatus = "APPROVED")
               \/ users'[x].approvalStatus = "REJECTED" /\ x \in lateRejected'
    <3>1. /\ users'[x] = users[x] /\ users[x].tenant # t
          /\ users[x].tenant \in DOMAIN tenants
      BY <1>2, <1>7, <1>8, <2>2 DEF AccountsInv, TenantsHaveAdmins
    <3>2. tenants'[users[x].tenant] = tenants[users[x].tenant]
          /\ users[x].tenant \notin setByHand
      BY <1>2, <1>7, <2>2, <3>1
    <3> QED
      BY <1>2, <2>2, <3>1, <3>2 DEF AccountsInv, AdminAndTenantAgree
  <2> QED
    BY <1>8, <2>1, <2>2, Zenon DEF AdminAndTenantAgree
<1> QED
  BY <1>2, <1>7, <1>10, <1>11, <1>12, <1>13, <1>14 DEF AccountsInv, AccountsTypeOK

\* Every step of an account request.
LEMMA AccountsNextInv ==
    AccountsInv /\ AccountsNext => AccountsInv'
<1> SUFFICES ASSUME AccountsInv, NEW r \in AccountRequests,
                    \/ RegisterTenant(r) \/ InsertApplication(r)
                    \/ Approve(r) \/ Reactivate(r) \/ Suspend(r) \/ WriteDecision(r)
                    \/ Reject(r) \/ WriteRejection(r)
                    \/ UpdateTenant(r) \/ WriteTenant(r)
                    \/ RemoveTenant(r) \/ DeleteTenant(r)
                    \/ CreateUser(r) \/ InsertEmployee(r)
                    \/ UpdateUser(r) \/ WriteUser(r)
                    \/ RemoveUser(r) \/ DeleteUser(r)
                    \/ AccountRequestFails(r)
             PROVE  AccountsInv'
  BY DEF AccountsNext
<1>1. CASE AccountRequestFails(r)
  <2>1. /\ AccountReturns(r) /\ UNCHANGED <<users, tenants, lateRejected, setByHand>>
    BY <1>1 DEF AccountRequestFails
  <2>2. /\ RowsKept /\ TenantsHaveAdmins' /\ AdminActiveIffApproved'
        /\ AdminAndTenantAgree'
    BY <2>1 DEF RowsKept, AccountsInv, TenantsHaveAdmins, Admins,
                AdminActiveIffApproved, AdminAndTenantAgree
  <2> QED
    BY <2>1, <2>2, UndecidedWriteInv DEF AccountsInv, AccountsTypeOK
<1> QED
  BY <1>1, LookupsInv, InsertApplicationInv, WriteDecisionInv, WriteRejectionInv,
     WriteTenantInv, InsertEmployeeInv, WriteEmployeeInv

\* The process dies with every request in flight.
LEMMA AccountsRestartInv ==
    ASSUME AccountsInv, UNCHANGED <<users, tenants, lateRejected, setByHand>>,
           ureq' = [r \in AccountRequests |-> AccountIdle],
           uapproved' = [r \in AccountRequests |-> {}]
    PROVE  AccountsInv'
<1>1. \A r \in AccountRequests : ureq'[r] = AccountIdle
  OBVIOUS
<1>2. \A r \in AccountRequests : AccountRequestOK(r)'
  BY <1>1 DEF AccountIdle, AccountRequestOK
<1> QED
  BY <1>2 DEF AccountsInv, AccountsTypeOK, TenantsHaveAdmins, Admins,
              AdminActiveIffApproved, AdminAndTenantAgree

\* Sessions read the accounts and leave them alone.
LEMMA AccountsUnchangedInv ==
    AccountsInv /\ UNCHANGED accountVars => AccountsInv'
BY DEF accountVars, AccountsInv, AccountsTypeOK, TenantsHaveAdmins, Admins,
       AdminActiveIffApproved, AdminAndTenantAgree, AccountRequestOK

----------------------------------------------------------------------------
(***************************************************************************)
(* Sessions.                                                               *)
(***************************************************************************)

\* Nobody has a token at first.
LEMMA SessionsInvInit ==
    SessionsInit => SessionsInv
<1> SUFFICES ASSUME SessionsInit
             PROVE  SessionsInv
  OBVIOUS
<1>1. DOMAIN blacklist = {} /\ blacklist \in [DOMAIN blacklist -> Int]
  BY DEF SessionsInit
<1>2. \A r \in SessionRequests : sreq[r].pc # "revoke"
  BY DEF SessionsInit, SessionIdle
<1> QED
  BY <1>1, <1>2 DEF SessionsInit, SessionsInv, SessionsTypeOK, KeysOutliveTokens

\* What a request in slot r has to be after a step.
SessionSlotOK(r) ==
    /\ sreq[r] \in SessionRequest \cup {SessionIdle}
    /\ sreq[r].pc = "revoke" => sreq[r].exp <= clock + sreq[r].ttl

\* A step of slot r that sets no key and answers no logout; it may sign tokens.
LEMMA UnrevokedSessionsInv ==
    ASSUME SessionsInv, NEW r \in SessionRequests,
           NEW q, sreq' = [sreq EXCEPT ![r] = q], SessionSlotOK(r)',
           UNCHANGED <<clock, blacklist, redis, loggedOut>>,
           accessTokens' \subseteq Token, refreshTokens' \subseteq Token
    PROVE  SessionsInv'
<1>1. sreq \in [SessionRequests -> SessionRequest \cup {SessionIdle}]
  BY DEF SessionsInv, SessionsTypeOK
<1>2. /\ sreq'[r] = q /\ q \in SessionRequest \cup {SessionIdle}
      /\ \A x \in SessionRequests \ {r} : sreq'[x] = sreq[x]
      /\ sreq' \in [SessionRequests -> SessionRequest \cup {SessionIdle}]
  BY <1>1 DEF SessionSlotOK
<1>3. SessionsTypeOK' /\ KeysOutliveTokens'
  BY <1>2 DEF SessionsInv, SessionsTypeOK, KeysOutliveTokens
<1>4. \A x \in SessionRequests : sreq'[x].pc = "revoke" => sreq'[x].exp <= clock' + sreq'[x].ttl
  BY <1>2 DEF SessionsInv, SessionSlotOK
<1> QED
  BY <1>3, <1>4 DEF SessionsInv

\* A handler that returns or throws takes what it knew with it.
LEMMA SessionReturnsInv ==
    ASSUME SessionsInv, NEW r \in SessionRequests, SessionReturns(r),
           UNCHANGED <<clock, blacklist, redis, loggedOut>>,
           accessTokens' \subseteq Token, refreshTokens' \subseteq Token
    PROVE  SessionsInv'
<1>1. sreq'[r] = SessionIdle /\ SessionIdle.pc # "revoke"
  BY DEF SessionReturns, SessionsInv, SessionsTypeOK, SessionIdle
<1> QED
  BY <1>1, UnrevokedSessionsInv DEF SessionReturns, SessionSlotOK

\* login, refresh and a guarded request start far from logging anyone out.
LEMMA SessionStartsInv ==
    ASSUME SessionsInv, NEW r \in SessionRequests,
           NEW q \in SessionRequest, q.pc # "revoke",
           sreq' = [sreq EXCEPT ![r] = q], UNCHANGED <<clock, tokenVars, redis>>
    PROVE  SessionsInv'
<1>1. sreq'[r] = q
  BY DEF SessionsInv, SessionsTypeOK
<1> QED
  BY <1>1, UnrevokedSessionsInv DEF SessionSlotOK, tokenVars, SessionsInv, SessionsTypeOK

\* The user's row and its tenant are there to be read.
LEMMA RowsAreThere ==
    ASSUME AccountsInv, NEW u \in DOMAIN users
    PROVE  Row(u) \in LoginRow
BY DEF AccountsInv, AccountsTypeOK, TenantsHaveAdmins, Row, LoginRow

\* Lookups, and the steps that sign tokens.
LEMMA LoginsInv ==
    ASSUME AccountsInv, SessionsInv, UNCHANGED clock, NEW r \in SessionRequests,
           Login(r) \/ CheckPassword(r) \/ Refresh(r) \/ SignRefreshed(r) \/ Arrive(r)
    PROVE  SessionsInv'
<1>1. /\ accessTokens \subseteq Token /\ refreshTokens \subseteq Token
      /\ clock \in Int /\ AccessTTL \in Int /\ RefreshTTL \in Int
      /\ sreq[r] \in SessionRequest \cup {SessionIdle}
      /\ SessionIdle \in [pc : {"idle"}, user : {None}, exp : Int, row : {None}, ttl : Int]
  BY SecondsAssumption DEF SessionsInv, SessionsTypeOK, SessionIdle
<1>2. CASE Login(r)
  <2>1. PICK u \in Users :
          /\ u \in DOMAIN users
          /\ sreq' = [sreq EXCEPT ![r] =
               [SessionIdle EXCEPT !.pc = "password", !.user = u, !.row = Row(u)]]
    BY <1>2 DEF Login, LiveUser
  <2> DEFINE q == [SessionIdle EXCEPT !.pc = "password", !.user = u, !.row = Row(u)]
  <2>2. q \in SessionRequest /\ q.pc # "revoke"
    BY <1>1, <2>1, RowsAreThere DEF SessionRequest
  <2> HIDE DEF q
  <2> QED
    BY <1>2, <2>1, <2>2, SessionStartsInv DEF Login, q
<1>3. CASE Refresh(r)
  <2>1. PICK tk \in refreshTokens :
          sreq' = [sreq EXCEPT ![r] =
            [SessionIdle EXCEPT !.pc = "sign", !.user = tk.user, !.exp = tk.exp]]
    BY <1>3 DEF Refresh
  <2>2. tk.user \in Users /\ tk.exp \in Int
    BY <1>1 DEF Token
  <2> DEFINE q == [SessionIdle EXCEPT !.pc = "sign", !.user = tk.user, !.exp = tk.exp]
  <2>3. q \in SessionRequest /\ q.pc # "revoke"
    BY <1>1, <2>2 DEF SessionRequest
  <2> HIDE DEF q
  <2> QED
    BY <1>3, <2>1, <2>3, SessionStartsInv DEF Refresh, q
<1>4. CASE Arrive(r)
  <2>1. PICK tk \in accessTokens :
          sreq' = [sreq EXCEPT ![r] =
            [SessionIdle EXCEPT !.pc = "blacklist", !.user = tk.user, !.exp = tk.exp]]
    BY <1>4 DEF Arrive
  <2>2. tk.user \in Users /\ tk.exp \in Int
    BY <1>1 DEF Token
  <2> DEFINE q == [SessionIdle EXCEPT !.pc = "blacklist", !.user = tk.user, !.exp = tk.exp]
  <2>3. q \in SessionRequest /\ q.pc # "revoke"
    BY <1>1, <2>2 DEF SessionRequest
  <2> HIDE DEF q
  <2> QED
    BY <1>4, <2>1, <2>3, SessionStartsInv DEF Arrive, q
<1>5. CASE CheckPassword(r)
  <2>1. sreq[r].user \in Users
    BY <1>1, <1>5 DEF CheckPassword, SessionRequest, SessionIdle
  <2>2. accessTokens' \subseteq Token /\ refreshTokens' \subseteq Token
    BY <1>1, <1>5, <2>1 DEF CheckPassword, SignAccess, Token
  <2> QED
    BY <1>5, <2>2, SessionReturnsInv DEF CheckPassword
<1>6. CASE SignRefreshed(r)
  <2>1. sreq[r].user \in Users
    BY <1>1, <1>6 DEF SignRefreshed, SessionRequest, SessionIdle
  <2>2. accessTokens' \subseteq Token /\ refreshTokens' \subseteq Token
    BY <1>1, <1>6, <2>1 DEF SignRefreshed, SignAccess, Token
  <2> QED
    BY <1>6, <2>2, SessionReturnsInv DEF SignRefreshed
<1> QED
  BY <1>2, <1>3, <1>4, <1>5, <1>6

\* The guards, and a handler that leaves the tokens alone.
LEMMA GuardsInv ==
    ASSUME SessionsInv, UNCHANGED clock, NEW r \in SessionRequests,
           CheckBlacklist(r) \/ CheckTenant(r) \/ Handle(r) \/ SessionRequestFails(r)
    PROVE  SessionsInv'
<1>1. /\ sreq[r] \in SessionRequest \cup {SessionIdle}
      /\ accessTokens \subseteq Token /\ refreshTokens \subseteq Token
  BY DEF SessionsInv, SessionsTypeOK
<1>2. ASSUME NEW ok, NEW pc \in {"tenant", "handler"}, sreq[r].pc # "idle",
             SessionProceeds(r, ok, pc)
      PROVE  SessionsInv'
  <2>1. CASE ~ok
    BY <1>1, <1>2, <2>1, SessionReturnsInv DEF SessionProceeds, tokenVars
  <2>2. CASE ok
    <3>1. sreq[r] \in SessionRequest
      BY <1>1, <1>2 DEF SessionIdle
    <3> DEFINE q == [sreq[r] EXCEPT !.pc = pc]
    <3>2. q \in SessionRequest /\ q.pc # "revoke"
      BY <3>1 DEF SessionRequest
    <3>3. sreq' = [sreq EXCEPT ![r] = q] /\ sreq'[r] = q
      BY <1>2, <2>2 DEF SessionProceeds, SessionsInv, SessionsTypeOK
    <3> HIDE DEF q
    <3> QED
      BY <1>1, <1>2, <3>2, <3>3, UnrevokedSessionsInv
         DEF SessionProceeds, SessionSlotOK, tokenVars
  <2> QED
    BY <2>1, <2>2
<1>3. CASE CheckBlacklist(r) \/ CheckTenant(r)
  BY <1>2, <1>3 DEF CheckBlacklist, CheckTenant
<1>4. CASE Handle(r) \/ SessionRequestFails(r)
  BY <1>1, <1>4, SessionReturnsInv DEF Handle, SessionRequestFails, tokenVars
<1> QED
  BY <1>3, <1>4

\* logout: an expired token needs no key; for another, the key will live for
\* what is left of it, counted from a time no later than when the key is set.
LEMMA LogoutInv ==
    ASSUME SessionsInv, UNCHANGED clock, NEW r \in SessionRequests, Logout(r)
    PROVE  SessionsInv'
<1> DEFINE ttl == sreq[r].exp - clock
<1>1. /\ sreq[r] \in SessionRequest /\ clock \in Int
      /\ accessTokens \subseteq Token /\ refreshTokens \subseteq Token
      /\ loggedOut \subseteq Token
      /\ sreq \in [SessionRequests -> SessionRequest \cup {SessionIdle}]
  BY SecondsAssumption DEF Logout, SessionsInv, SessionsTypeOK, SessionIdle
<1>2. CASE ttl > 0
  <2> DEFINE q == [sreq[r] EXCEPT !.pc = "revoke", !.ttl = ttl]
  <2>1. ttl \in Int /\ sreq[r].exp <= clock + ttl
    BY <1>1 DEF SessionRequest
  <2>2. sreq' = [sreq EXCEPT ![r] = q] /\ sreq'[r] = q
    BY <1>1, <1>2 DEF Logout
  <2>3. /\ q \in SessionRequest /\ q.exp = sreq[r].exp /\ q.ttl = ttl
        /\ q.exp <= clock + q.ttl
    <3> HIDE DEF ttl
    <3> QED
      BY <1>1, <2>1 DEF SessionRequest
  <2> HIDE DEF q
  <2> QED
    BY <1>1, <1>2, <2>1, <2>2, <2>3, UnrevokedSessionsInv DEF Logout, SessionSlotOK
<1>3. CASE ~(ttl > 0)
  <2>1. TokenOf(r) \in Token /\ TokenOf(r).exp <= clock
    BY <1>1, <1>3 DEF TokenOf, Token, SessionRequest
  <2>2. /\ SessionReturns(r) /\ loggedOut' = loggedOut \cup {TokenOf(r)}
        /\ UNCHANGED <<accessTokens, refreshTokens, blacklist, redis>>
    BY <1>3 DEF Logout
  <2>3. /\ sreq'[r] = SessionIdle /\ SessionIdle.pc # "revoke"
        /\ \A x \in SessionRequests \ {r} : sreq'[x] = sreq[x]
        /\ sreq' \in [SessionRequests -> SessionRequest \cup {SessionIdle}]
    BY <1>1, <2>2 DEF SessionReturns, SessionIdle
  <2>4. KeysOutliveTokens'
    BY <1>1, <2>1, <2>2 DEF SessionsInv, KeysOutliveTokens, Token
  <2>5. SessionsTypeOK'
    BY <2>1, <2>2, <2>3 DEF SessionsInv, SessionsTypeOK
  <2>6. \A x \in SessionRequests :
           sreq'[x].pc = "revoke" => sreq'[x].exp <= clock' + sreq'[x].ttl
    BY <2>3 DEF SessionsInv
  <2> QED
    BY <2>4, <2>5, <2>6 DEF SessionsInv
<1> QED
  BY <1>2, <1>3

\* The key of a token is set, perhaps again, to outlive it.
LEMMA SetBlacklistInv ==
    ASSUME SessionsInv, UNCHANGED clock, NEW r \in SessionRequests, SetBlacklist(r)
    PROVE  SessionsInv'
<1> DEFINE tk == TokenOf(r)
           key == clock + sreq[r].ttl
<1>1. /\ sreq[r] \in SessionRequest /\ clock \in Int
      /\ accessTokens \subseteq Token /\ refreshTokens \subseteq Token
      /\ loggedOut \subseteq Token /\ sreq[r].exp <= key
      /\ DOMAIN blacklist \subseteq Token /\ blacklist \in [DOMAIN blacklist -> Int]
      /\ sreq \in [SessionRequests -> SessionRequest \cup {SessionIdle}]
  BY SecondsAssumption DEF SetBlacklist, SessionsInv, SessionsTypeOK, SessionIdle
<1>2. CASE redis # "ready"
  BY <1>1, <1>2, SessionReturnsInv DEF SetBlacklist
<1>3. CASE redis = "ready"
  <2>1. tk \in Token /\ tk.exp <= key /\ key \in Int
    BY <1>1 DEF TokenOf, Token, SessionRequest
  <2>2. /\ SessionReturns(r) /\ loggedOut' = loggedOut \cup {tk}
        /\ blacklist' = [x \in DOMAIN blacklist \cup {tk} |->
                           IF x = tk THEN key ELSE blacklist[x]]
        /\ UNCHANGED <<accessTokens, refreshTokens, redis>>
    BY <1>3 DEF SetBlacklist
  <2>3. /\ sreq'[r] = SessionIdle /\ SessionIdle.pc # "revoke"
        /\ \A x \in SessionRequests \ {r} : sreq'[x] = sreq[x]
        /\ sreq' \in [SessionRequests -> SessionRequest \cup {SessionIdle}]
    BY <1>1, <2>2 DEF SessionReturns, SessionIdle
  <2> HIDE DEF tk, key
  <2>4. /\ DOMAIN blacklist' = DOMAIN blacklist \cup {tk} /\ blacklist'[tk] = key
        /\ \A x \in DOMAIN blacklist : x # tk => blacklist'[x] = blacklist[x]
        /\ blacklist' \in [DOMAIN blacklist' -> Int]
    BY <1>1, <2>1, <2>2
  <2>5. KeysOutliveTokens'
    BY <1>1, <2>1, <2>2, <2>4 DEF SessionsInv, KeysOutliveTokens, Token
  <2>6. SessionsTypeOK'
    BY <1>1, <2>1, <2>2, <2>3, <2>4 DEF SessionsInv, SessionsTypeOK
  <2>7. \A x \in SessionRequests :
           sreq'[x].pc = "revoke" => sreq'[x].exp <= clock' + sreq'[x].ttl
    BY <2>3 DEF SessionsInv
  <2> QED
    BY <2>5, <2>6, <2>7 DEF SessionsInv
<1> QED
  BY <1>2, <1>3

\* Redis comes and goes, and so does the process.
LEMMA ConnectionInv ==
    ASSUME SessionsInv, UNCHANGED clock, ConnectRedis \/ LoseRedis \/ Restart
    PROVE  SessionsInv'
<1>1. UNCHANGED <<accessTokens, refreshTokens, blacklist, loggedOut>>
      /\ redis' \in {"wait", "ready", "end"}
  BY DEF ConnectRedis, LoseRedis, Restart, tokenVars
<1>2. KeysOutliveTokens'
  BY <1>1 DEF SessionsInv, KeysOutliveTokens
<1>3. CASE UNCHANGED sreq
  BY <1>1, <1>2, <1>3 DEF SessionsInv, SessionsTypeOK
<1>4. CASE sreq' = [r \in SessionRequests |-> SessionIdle]
  BY <1>1, <1>2, <1>4 DEF SessionsInv, SessionsTypeOK, SessionIdle
<1> QED
  BY <1>3, <1>4 DEF ConnectRedis, LoseRedis, Restart

\* Every step of the sessions.
LEMMA SessionsNextInv ==
    AccountsInv /\ SessionsInv /\ SessionsNext /\ UNCHANGED clock => SessionsInv'
BY LoginsInv, GuardsInv, LogoutInv, SetBlacklistInv, ConnectionInv DEF SessionsNext

\* Time passes: keys and tokens expire together.
LEMMA SessionsUnchangedInv ==
    ASSUME SessionsInv, UNCHANGED sessionVars, clock' \in Seconds, clock <= clock'
    PROVE  SessionsInv'
<1>1. UNCHANGED <<accessTokens, refreshTokens, blacklist, redis, loggedOut, sreq>>
  BY DEF sessionVars
<1>2. clock \in Int /\ clock' \in Int /\ loggedOut \subseteq Token
      /\ sreq \in [SessionRequests -> SessionRequest \cup {SessionIdle}]
  BY SecondsAssumption DEF SessionsInv, SessionsTypeOK
<1>3. SessionsTypeOK'
  BY <1>1 DEF SessionsInv, SessionsTypeOK
<1>4. KeysOutliveTokens'
  BY <1>1, <1>2 DEF SessionsInv, KeysOutliveTokens, Token
<1>5. ASSUME NEW r \in SessionRequests, sreq[r].pc = "revoke"
      PROVE  sreq[r].exp <= clock' + sreq[r].ttl
  <2>1. sreq[r] \in SessionRequest
    BY <1>2, <1>5 DEF SessionIdle
  <2> QED
    BY <1>2, <1>5, <2>1 DEF SessionsInv, SessionRequest
<1> QED
  BY <1>1, <1>3, <1>4, <1>5 DEF SessionsInv

----------------------------------------------------------------------------
(***************************************************************************)
(* Identity.                                                               *)
(***************************************************************************)

\* The inductive step: every action of either component preserves both parts.
LEMMA IdentityInvNext ==
    IdentityInv /\ [Next]_vars => IdentityInv'
<1> SUFFICES ASSUME IdentityInv, [Next]_vars
             PROVE  IdentityInv'
  OBVIOUS
<1>1. AccountsInv /\ SessionsInv /\ clock \in Seconds /\ clock \in Int
  BY SecondsAssumption DEF IdentityInv, SessionsInv, SessionsTypeOK
<1>2. ASSUME UNCHANGED <<sessionVars, clock>>
      PROVE  SessionsInv'
  BY <1>1, <1>2, SessionsUnchangedInv
<1>3. CASE AccountsAct
  BY <1>1, <1>2, <1>3, AccountsNextInv DEF AccountsAct, IdentityInv
<1>4. CASE SessionsAct
  BY <1>1, <1>4, SessionsNextInv, AccountsUnchangedInv DEF SessionsAct, IdentityInv
<1>5. CASE ProcessRestarts
  BY <1>1, <1>5, AccountsRestartInv, ConnectionInv DEF ProcessRestarts, IdentityInv
<1>6. CASE SecondPasses
  <2>1. clock' \in Seconds /\ clock <= clock'
    BY <1>1, <1>6, SecondsAssumption DEF SecondPasses
  <2> QED
    BY <1>1, <1>6, <2>1, AccountsUnchangedInv, SessionsUnchangedInv
       DEF SecondPasses, IdentityInv
<1>7. CASE UNCHANGED vars
  <2>1. UNCHANGED accountVars /\ UNCHANGED <<sessionVars, clock>>
    BY <1>7 DEF vars
  <2> QED
    BY <1>1, <1>2, <2>1, AccountsUnchangedInv DEF IdentityInv
<1> QED
  BY <1>3, <1>4, <1>5, <1>6, <1>7 DEF Next

\* Both parts hold in every reachable state.
THEOREM IdentityInvariant == Spec => []IdentityInv
<1>1. Init => IdentityInv
  BY AccountsInvInit, SessionsInvInit DEF Init, IdentityInv
<1> QED
  BY <1>1, IdentityInvNext, PTL DEF Spec

\* Every row, token and request in flight keeps its type.
THEOREM IdentityTypeCorrect == Spec => []TypeOK
<1>1. IdentityInv => TypeOK
  BY DEF IdentityInv, AccountsInv, SessionsInv, TypeOK
<1> QED
  BY <1>1, IdentityInvariant, PTL

\* An admin may act exactly while approved, however decisions on one
\* application interleave with each other and with a restart.
THEOREM ActiveMeansApproved == Spec => []AdminActiveIffApproved
<1>1. IdentityInv => AdminActiveIffApproved
  BY DEF IdentityInv, AccountsInv
<1> QED
  BY <1>1, IdentityInvariant, PTL

\* A tenant is active exactly when its admin is approved, but for what
\* TenantsService set by hand and for the reject that missed an approval.
THEOREM TenantFollowsAdmin == Spec => []AdminAndTenantAgree
<1>1. IdentityInv => AdminAndTenantAgree
  BY DEF IdentityInv, AccountsInv
<1> QED
  BY <1>1, IdentityInvariant, PTL

\* Registration never leaves a tenant without an admin, nor with two.
THEOREM RegistrationIsWhole == Spec => []OneAdminPerTenant
<1>1. IdentityInv => OneAdminPerTenant
  <2> SUFFICES ASSUME TenantsHaveAdmins, NEW t \in DOMAIN tenants
               PROVE  Cardinality({u \in Admins : users[u].tenant = t}) = 1
    BY DEF IdentityInv, AccountsInv, OneAdminPerTenant
  <2>1. PICK a \in Admins : users[a].tenant = t
    BY DEF TenantsHaveAdmins
  <2>2. {u \in Admins : users[u].tenant = t} = {a}
    BY <2>1 DEF TenantsHaveAdmins
  <2> QED
    BY <2>2, FS_Singleton
<1> QED
  BY <1>1, IdentityInvariant, PTL

\* Once its logout is answered a token passes AuthGuard only without Redis or
\* after it expired: whoever else logs it out, its key outlives it.
THEOREM LogoutHolds == Spec => LoggedOutStaysOut
<1>1. IdentityInv /\ [Next]_vars =>
        [\A r \in SessionRequests :
           /\ sreq[r].pc = "blacklist" /\ sreq'[r].pc = "tenant"
           /\ TokenOf(r) \in loggedOut
           => redis # "ready" \/ clock >= sreq[r].exp]_sreq
  <2> SUFFICES ASSUME IdentityInv, Next, NEW r \in SessionRequests,
                      sreq[r].pc = "blacklist", sreq'[r].pc = "tenant",
                      TokenOf(r) \in loggedOut, redis = "ready"
               PROVE  clock >= sreq[r].exp
    BY DEF vars, sessionVars
  <2>1. /\ sreq \in [SessionRequests -> SessionRequest \cup {SessionIdle}]
        /\ sreq[r] \in SessionRequest /\ sreq[r].exp \in Int /\ clock \in Int
        /\ TokenOf(r).exp = sreq[r].exp
        /\ DOMAIN blacklist \subseteq Token /\ blacklist \in [DOMAIN blacklist -> Int]
        /\ KeysOutliveTokens
    BY SecondsAssumption
       DEF IdentityInv, SessionsInv, SessionsTypeOK, SessionIdle, SessionRequest, TokenOf
  <2>2. CheckBlacklist(r)
    <3>1. SessionIdle.pc = "idle"
      BY DEF SessionIdle
    <3>2. CASE ProcessRestarts
      BY <3>1, <3>2 DEF ProcessRestarts, Restart
    <3>3. CASE UNCHANGED sreq
      BY <3>3
    <3>4. CASE SessionsAct
      <4>1. PICK x \in SessionRequests :
              \/ Login(x) \/ CheckPassword(x) \/ Refresh(x) \/ SignRefreshed(x)
              \/ Arrive(x) \/ CheckBlacklist(x) \/ CheckTenant(x)
              \/ Handle(x) \/ Logout(x) \/ SetBlacklist(x) \/ SessionRequestFails(x)
        BY <3>3, <3>4 DEF SessionsAct, SessionsNext, ConnectRedis, LoseRedis
      <4>2. x # r => sreq'[r] = sreq[r]
        BY <2>1, <4>1
           DEF Login, CheckPassword, Refresh, SignRefreshed, Arrive, CheckBlacklist,
               CheckTenant, Handle, Logout, SetBlacklist, SessionRequestFails,
               SessionReturns, SessionProceeds
      <4>3. x = r
        BY <4>2
      <4>4. SessionReturns(r) => sreq'[r] = SessionIdle
        BY <2>1 DEF SessionReturns
      <4>5. ~SessionRequestFails(r)
        BY <3>1, <4>4 DEF SessionRequestFails
      <4> QED
        BY <3>1, <4>1, <4>3, <4>5
           DEF Login, CheckPassword, Refresh, SignRefreshed, Arrive,
               CheckTenant, Handle, Logout, SetBlacklist
    <3> QED
      BY <3>2, <3>3, <3>4 DEF Next, AccountsAct, SecondPasses, sessionVars
  <2>3. ~Blacklisted(TokenOf(r))
    <3>1. SessionReturns(r) => sreq'[r].pc = "idle"
      BY <2>1 DEF SessionReturns, SessionIdle
    <3> QED
      BY <2>2, <3>1 DEF CheckBlacklist, SessionProceeds
  <2> QED
    BY <2>1, <2>3 DEF Blacklisted, KeysOutliveTokens
<1> QED
  BY <1>1, IdentityInvariant, PTL DEF Spec, LoggedOutStaysOut

\* refresh() signs for approved admins although it never asks, because an active
\* admin is an approved one; login() may sign for a row it read before a decision.
THEOREM TokensNeedApproval == Spec => TokensForApproved
<1>1. IdentityInv /\ [Next]_vars =>
        [\A u \in Admins :
           /\ users[u].approvalStatus # "APPROVED"
           /\ \E tk \in (accessTokens' \ accessTokens)
                          \cup (refreshTokens' \ refreshTokens) : tk.user = u
           => \E r \in SessionRequests :
                 sreq[r].pc = "password" /\ sreq[r].user = u /\ sreq[r].row # Row(u)
        ]_<<accessTokens, refreshTokens>>
  <2> SUFFICES ASSUME IdentityInv, Next, NEW u \in Admins,
                      users[u].approvalStatus # "APPROVED",
                      NEW tk \in (accessTokens' \ accessTokens)
                                   \cup (refreshTokens' \ refreshTokens),
                      tk.user = u
               PROVE  \E r \in SessionRequests :
                         sreq[r].pc = "password" /\ sreq[r].user = u /\ sreq[r].row # Row(u)
    BY DEF vars, sessionVars
  <2>1. PICK r \in SessionRequests : CheckPassword(r) \/ SignRefreshed(r)
    <3>1. ~UNCHANGED <<accessTokens, refreshTokens>>
      OBVIOUS
    <3>2. SessionsNext
      BY <3>1 DEF Next, AccountsAct, SessionsAct, ProcessRestarts, Restart, SecondPasses,
                  sessionVars, tokenVars
    <3> QED
      BY <3>1, <3>2
         DEF SessionsNext, Login, Refresh, Arrive, CheckBlacklist, CheckTenant, Handle,
             Logout, SetBlacklist, SessionRequestFails, ConnectRedis, LoseRedis,
             SessionProceeds, tokenVars
  <2>2. /\ users[u].role = "ADMIN" /\ u \in DOMAIN users
        /\ users[u].isActive = (users[u].approvalStatus = "APPROVED")
    BY DEF IdentityInv, AccountsInv, AdminActiveIffApproved, Admins
  <2>3. CASE SignRefreshed(r)
    <3>1. sreq[r].user = u /\ users[u].isActive
      BY <2>3 DEF SignRefreshed, SignAccess
    <3> QED
      BY <2>2, <3>1
  <2>4. CASE CheckPassword(r)
    <3>1. /\ sreq[r].user = u /\ sreq[r].pc = "password"
          /\ MayEnter(sreq[r].row.user, sreq[r].row.tenant)
      BY <2>4 DEF CheckPassword, SignAccess
    <3>2. ~MayEnter(Row(u).user, Row(u).tenant)
      BY <2>2 DEF MayEnter, Row
    <3> QED
      BY <3>1, <3>2
  <2> QED
    BY <2>1, <2>3, <2>4
<1> QED
  BY <1>1, IdentityInvariant, PTL DEF Spec, TokensForApproved

=============================================================================
