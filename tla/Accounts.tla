------------------------------- MODULE Accounts -------------------------------
(***************************************************************************)
(* Users and tenants, and the requests that change them: registration,     *)
(* AdminApplicationsService (approve, reject, suspend, reactivate),        *)
(* TenantsService (update, remove) and UsersService (create, update,       *)
(* remove).  Each is a lookup, which tests the row, and then one write,    *)
(* by id alone, with other requests in between.                            *)
(*                                                                         *)
(* A user's id stands also for its unique email.  Role EMPLOYEE stands for *)
(* both roles that an ADMIN manages.  The platform's SUPER_ADMIN, which no *)
(* operation changes, passwords, names and branch links are left out.      *)
(***************************************************************************)
EXTENDS Integers, FiniteSets

CONSTANTS
    Tenants,          \* bound: tenants that can ever be registered
    Users,            \* bound: emails
    AccountRequests,  \* bound: requests in flight at once
    None,             \* SQL NULL
    Absent            \* undefined: a field the DTO does not carry

VARIABLES
    users,         \* users[u], u \in DOMAIN users
    tenants,       \* tenants[t], t \in DOMAIN tenants
    ureq,          \* ureq[r]: the handler in slot r, after its lookup
    uapproved,     \* history: admins approved since r's lookup
    lateRejected,  \* history: admins rejected by a reject whose lookup was
                   \* made before an approval, and undecided since
    setByHand      \* history: tenants whose isActive was last written by
                   \* TenantsService and not with an admin's approval

accountVars == <<users, tenants, ureq, uapproved, lateRejected, setByHand>>

ApprovalStatus == {"PENDING", "APPROVED", "REJECTED", "SUSPENDED"}

User == [tenant : Tenants, role : {"ADMIN", "EMPLOYEE"},
         approvalStatus : ApprovalStatus, isActive : BOOLEAN, deleted : BOOLEAN]

Tenant == [isActive : BOOLEAN, deleted : BOOLEAN]

AccountIdle == [op |-> "none", user |-> None, tenant |-> None, isActive |-> Absent]

AccountRequest ==
    [op : {"register", "approve", "reject", "suspend", "reactivate",
           "updateTenant", "removeTenant", "createUser", "updateUser", "removeUser"},
     user : Users \cup {None}, tenant : Tenants \cup {None},
     isActive : BOOLEAN \cup {Absent}]

AccountsTypeOK ==
    /\ DOMAIN users \subseteq Users /\ users \in [DOMAIN users -> User]
    /\ DOMAIN tenants \subseteq Tenants /\ tenants \in [DOMAIN tenants -> Tenant]
    /\ ureq \in [AccountRequests -> AccountRequest \cup {AccountIdle}]
    /\ uapproved \in [AccountRequests -> SUBSET Users]
    /\ lateRejected \subseteq Users
    /\ setByHand \subseteq Tenants

AccountsInit ==
    /\ users = <<>>
    /\ tenants = <<>>
    /\ ureq = [r \in AccountRequests |-> AccountIdle]
    /\ uapproved = [r \in AccountRequests |-> {}]
    /\ lateRejected = {}
    /\ setByHand = {}

InsertUser(u, row) == users' = [x \in DOMAIN users \cup {u} |->
                                  IF x = u THEN row ELSE users[x]]

Admins == {u \in DOMAIN users : users[u].role = "ADMIN"}

----------------------------------------------------------------------------
(***************************************************************************)
(* Lookups.  One that finds no row, or a row in the wrong state, leaves no *)
(* trace, so only the accepted requests are actions.                       *)
(***************************************************************************)
AcceptAccount(r, op, u, t, isActive) ==
    /\ ureq[r] = AccountIdle
    /\ ureq' = [ureq EXCEPT ![r] =
                  [op |-> op, user |-> u, tenant |-> t, isActive |-> isActive]]
    /\ UNCHANGED <<users, tenants, uapproved, lateRejected, setByHand>>

\* user.findFirst by email, not deleted.
EmailInUse(u) == u \in DOMAIN users /\ ~users[u].deleted

RegisterTenant(r) ==
    \E u \in Users :
        ~EmailInUse(u) /\ AcceptAccount(r, "register", u, None, Absent)

\* user.findFirst by id, role ADMIN, not deleted.
FindAdmin(u) == u \in Admins /\ ~users[u].deleted

Approve(r) ==
    \E u \in Users :
        /\ FindAdmin(u) /\ users[u].approvalStatus # "APPROVED"
        /\ AcceptAccount(r, "approve", u, users[u].tenant, Absent)

\* Mutant: an approved admin can be rejected.
RejectAny(r) ==
    \E u \in Users :
        FindAdmin(u) /\ AcceptAccount(r, "reject", u, users[u].tenant, Absent)

Reject(r) ==
    \E u \in Users :
        /\ FindAdmin(u) /\ users[u].approvalStatus # "APPROVED"
        /\ AcceptAccount(r, "reject", u, users[u].tenant, Absent)

Suspend(r) ==
    \E u \in Users :
        /\ FindAdmin(u) /\ users[u].approvalStatus = "APPROVED"
        /\ AcceptAccount(r, "suspend", u, users[u].tenant, Absent)

Reactivate(r) ==
    \E u \in Users :
        /\ FindAdmin(u) /\ users[u].approvalStatus = "SUSPENDED"
        /\ AcceptAccount(r, "reactivate", u, users[u].tenant, Absent)

\* tenant.findFirst by id, not deleted.
FindTenant(t) == t \in DOMAIN tenants /\ ~tenants[t].deleted

UpdateTenant(r) ==
    \E t \in Tenants, isActive \in BOOLEAN \cup {Absent} :
        FindTenant(t) /\ AcceptAccount(r, "updateTenant", None, t, isActive)

RemoveTenant(r) ==
    \E t \in Tenants :
        FindTenant(t) /\ AcceptAccount(r, "removeTenant", None, t, Absent)

\* The tenant is the caller's: one that exists.
CreateUser(r) ==
    \E u \in Users, t \in DOMAIN tenants :
        ~EmailInUse(u) /\ AcceptAccount(r, "createUser", u, t, Absent)

\* findActiveUser, and a role that an ADMIN manages.  A caller is an ADMIN and
\* never such a user, so the tests against oneself cannot fail.
FindManageable(u, t) ==
    /\ u \in DOMAIN users
    /\ users[u].tenant = t /\ ~users[u].deleted /\ users[u].role = "EMPLOYEE"

UpdateUser(r) ==
    \E u \in Users, t \in Tenants, isActive \in BOOLEAN \cup {Absent} :
        FindManageable(u, t) /\ AcceptAccount(r, "updateUser", u, t, isActive)

RemoveUser(r) ==
    \E u \in Users, t \in Tenants :
        FindManageable(u, t) /\ AcceptAccount(r, "removeUser", u, t, Absent)

----------------------------------------------------------------------------
(***************************************************************************)
(* Writes.                                                                 *)
(***************************************************************************)
AccountReturns(r) ==
    /\ ureq' = [ureq EXCEPT ![r] = AccountIdle]
    /\ uapproved' = [uapproved EXCEPT ![r] = {}]

\* A new tenant, inactive until its admin is approved.
InsertTenant(t) ==
    tenants' = [x \in DOMAIN tenants \cup {t} |->
                  IF x = t THEN [isActive |-> FALSE, deleted |-> FALSE] ELSE tenants[x]]

Applicant(t) == [tenant |-> t, role |-> "ADMIN", approvalStatus |-> "PENDING",
                 isActive |-> FALSE, deleted |-> FALSE]

\* Mutant: the tenant is inserted by a statement of its own, before the user.
InsertTenantFirst(r) ==
    LET q == ureq[r] IN
    /\ q.op = "register"
    /\ \E t \in Tenants \ DOMAIN tenants :
         /\ InsertTenant(t)
         /\ IF q.user \in DOMAIN users THEN UNCHANGED users
                                      ELSE InsertUser(q.user, Applicant(t))
    /\ AccountReturns(r)
    /\ UNCHANGED <<lateRejected, setByHand>>

\* One nested create, refused as a whole by the unique index on email, which
\* counts deleted users too.
InsertApplication(r) ==
    LET q == ureq[r] IN
    /\ q.op = "register"
    /\ q.user \notin DOMAIN users
    /\ \E t \in Tenants \ DOMAIN tenants :
         InsertTenant(t) /\ InsertUser(q.user, Applicant(t))
    /\ AccountReturns(r)
    /\ UNCHANGED <<lateRejected, setByHand>>

\* Mutant: a suspension leaves the user's isActive as it was.
WriteDecisionStatusOnly(r) ==
    LET q == ureq[r]
        approved == q.op # "suspend"
    IN  /\ q.op \in {"approve", "reactivate", "suspend"}
        /\ users' = [users EXCEPT
             ![q.user].approvalStatus = IF approved THEN "APPROVED" ELSE "SUSPENDED",
             ![q.user].isActive = @ \/ approved]
        /\ tenants' = [tenants EXCEPT ![q.tenant].isActive = approved]
        /\ AccountReturns(r)
        /\ UNCHANGED <<lateRejected, setByHand>>

\* approve, reactivate and suspend: one transaction on the user and its tenant.
WriteDecision(r) ==
    LET q == ureq[r]
        approved == q.op # "suspend"
    IN  /\ q.op \in {"approve", "reactivate", "suspend"}
        /\ users' = [users EXCEPT
             ![q.user].approvalStatus = IF approved THEN "APPROVED" ELSE "SUSPENDED",
             ![q.user].isActive = approved]
        /\ tenants' = [tenants EXCEPT ![q.tenant].isActive = approved]
        /\ ureq' = [ureq EXCEPT ![r] = AccountIdle]
        /\ uapproved' = [x \in AccountRequests |->
             IF x = r THEN {}
             ELSE IF approved /\ ureq[x] # AccountIdle THEN uapproved[x] \cup {q.user}
             ELSE uapproved[x]]
        /\ lateRejected' = lateRejected \ {q.user}
        /\ setByHand' = setByHand \ {q.tenant}

\* reject writes the user only.
WriteRejection(r) ==
    LET q == ureq[r] IN
    /\ q.op = "reject"
    /\ users' = [users EXCEPT ![q.user].approvalStatus = "REJECTED",
                              ![q.user].isActive = FALSE]
    /\ lateRejected' = lateRejected \cup (uapproved[r] \cap {q.user})
    /\ AccountReturns(r)
    /\ UNCHANGED <<tenants, setByHand>>

\* TenantsService.update writes the columns its DTO carries.
WriteTenant(r) ==
    LET q == ureq[r] IN
    /\ q.op = "updateTenant"
    /\ IF q.isActive = Absent
         THEN UNCHANGED <<tenants, setByHand>>
         ELSE /\ tenants' = [tenants EXCEPT ![q.tenant].isActive = q.isActive]
              /\ setByHand' = setByHand \cup {q.tenant}
    /\ AccountReturns(r)
    /\ UNCHANGED <<users, lateRejected>>

DeleteTenant(r) ==
    LET q == ureq[r] IN
    /\ q.op = "removeTenant"
    /\ tenants' = [tenants EXCEPT ![q.tenant] = [isActive |-> FALSE, deleted |-> TRUE]]
    /\ setByHand' = setByHand \cup {q.tenant}
    /\ AccountReturns(r)
    /\ UNCHANGED <<users, lateRejected>>

\* Refused by the unique index when the email was taken meanwhile.
InsertEmployee(r) ==
    LET q == ureq[r] IN
    /\ q.op = "createUser"
    /\ q.user \notin DOMAIN users
    /\ InsertUser(q.user,
         [tenant |-> q.tenant, role |-> "EMPLOYEE", approvalStatus |-> "APPROVED",
          isActive |-> TRUE, deleted |-> FALSE])
    /\ AccountReturns(r)
    /\ UNCHANGED <<tenants, lateRejected, setByHand>>

WriteUser(r) ==
    LET q == ureq[r] IN
    /\ q.op = "updateUser"
    /\ users' = [users EXCEPT ![q.user].isActive =
                   IF q.isActive = Absent THEN @ ELSE q.isActive]
    /\ AccountReturns(r)
    /\ UNCHANGED <<tenants, lateRejected, setByHand>>

DeleteUser(r) ==
    LET q == ureq[r] IN
    /\ q.op = "removeUser"
    /\ users' = [users EXCEPT ![q.user].deleted = TRUE]
    /\ AccountReturns(r)
    /\ UNCHANGED <<tenants, lateRejected, setByHand>>

\* The database refuses a statement, or the process dies, before the write.
AccountRequestFails(r) ==
    /\ ureq[r] # AccountIdle
    /\ AccountReturns(r)
    /\ UNCHANGED <<users, tenants, lateRejected, setByHand>>

AccountsNext ==
    \E r \in AccountRequests :
        \/ RegisterTenant(r) \/ InsertApplication(r)
        \/ Approve(r) \/ Reactivate(r) \/ Suspend(r) \/ WriteDecision(r)
        \/ Reject(r) \/ WriteRejection(r)
        \/ UpdateTenant(r) \/ WriteTenant(r)
        \/ RemoveTenant(r) \/ DeleteTenant(r)
        \/ CreateUser(r) \/ InsertEmployee(r)
        \/ UpdateUser(r) \/ WriteUser(r)
        \/ RemoveUser(r) \/ DeleteUser(r)
        \/ AccountRequestFails(r)

----------------------------------------------------------------------------
(***************************************************************************)
(* Properties.                                                             *)
(***************************************************************************)

\* refresh() tests isActive and never approvalStatus: it keeps an unapproved
\* admin out only because the two columns say the same, however decisions on
\* one application interleave.
AdminActiveIffApproved ==
    \A u \in Admins : users[u].isActive = (users[u].approvalStatus = "APPROVED")

\* "Both activated": a tenant is active exactly when its admin is approved,
\* unless TenantsService set it by hand.  reject() does not write the tenant,
\* so the tenant of a rejected admin may still be active, but only if an
\* approval was committed between that reject's lookup and its write.
AdminAndTenantAgree ==
    \A u \in Admins :
        users[u].tenant \notin setByHand
          => \/ tenants[users[u].tenant].isActive = (users[u].approvalStatus = "APPROVED")
             \/ users[u].approvalStatus = "REJECTED" /\ u \in lateRejected

\* Registration is all or nothing, whoever registers the same email meanwhile:
\* every tenant has one admin, on whose approval it waits.
OneAdminPerTenant ==
    \A t \in DOMAIN tenants : Cardinality({u \in Admins : users[u].tenant = t}) = 1

\* "soft-delete + deactivate tenant": a removed tenant is inactive.
RemovedTenantsInactive ==
    \A t \in DOMAIN tenants : tenants[t].deleted => ~tenants[t].isActive

=============================================================================
