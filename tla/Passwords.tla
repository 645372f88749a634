------------------------------ MODULE Passwords ------------------------------
(***************************************************************************)
(* The ways a password changes: ProfileService.changePassword, which asks  *)
(* for the current one, and the resets of UsersService (update with a      *)
(* password is another) and AdminApplicationsService, which do not.        *)
(* Hashing takes hundreds of milliseconds, between the read of the row and *)
(* the write by id.                                                        *)
(***************************************************************************)
EXTENDS Tables

CONSTANTS
    People,            \* the users whose passwords change
    Words,             \* bound: the passwords that callers give
    PasswordRequests   \* bound: requests in flight at once

VARIABLES
    password,   \* password[u]: what the stored hash stands for
    preq,       \* preq[r]: the handler in slot r, after it read the user
    pmissed     \* history: users whose password was written since r's read

passwordVars == <<password, preq, pmissed>>

PasswordIdle == [pc |-> "idle", user |-> None, read |-> None, known |-> None, new |-> None]

\* read is the row's password; known is what the caller gave as the current
\* one, None for a reset.
PasswordRequest ==
    [pc : {"compare", "write"}, user : People, read : Words,
     known : Words \cup {None}, new : Words]

PasswordsTypeOK ==
    /\ password \in [People -> Words]
    /\ preq \in [PasswordRequests -> PasswordRequest \cup {PasswordIdle}]
    /\ pmissed \in [PasswordRequests -> SUBSET People]

PasswordsInit ==
    /\ password \in [People -> Words]
    /\ preq = [r \in PasswordRequests |-> PasswordIdle]
    /\ pmissed = [r \in PasswordRequests |-> {}]

AcceptPassword(r, pc, u, known, new) ==
    /\ preq[r] = PasswordIdle
    /\ preq' = [preq EXCEPT ![r] =
         [pc |-> pc, user |-> u, read |-> password[u], known |-> known, new |-> new]]
    /\ UNCHANGED <<password, pmissed>>

\* Mutant: the current password is not compared.
ChangePasswordUnchecked(r) ==
    \E u \in People, known, new \in Words :
        AcceptPassword(r, "write", u, known, new)

ChangePassword(r) ==
    \E u \in People, known, new \in Words :
        AcceptPassword(r, "compare", u, known, new)

ResetPassword(r) ==
    \E u \in People, new \in Words : AcceptPassword(r, "write", u, None, new)

PasswordReturns(r) ==
    /\ preq' = [preq EXCEPT ![r] = PasswordIdle]
    /\ pmissed' = [pmissed EXCEPT ![r] = {}]

\* bcrypt.compare with the row that was read, and a new password that differs.
ComparePassword(r) ==
    LET q == preq[r] IN
    /\ q.pc = "compare"
    /\ IF q.known = q.read /\ q.new # q.known
         THEN preq' = [preq EXCEPT ![r].pc = "write"] /\ UNCHANGED pmissed
         ELSE PasswordReturns(r)
    /\ UNCHANGED password

\* The hash is made; the write is by id alone.
WritePassword(r) ==
    LET q == preq[r] IN
    /\ q.pc = "write"
    /\ password' = [password EXCEPT ![q.user] = q.new]
    /\ preq' = [preq EXCEPT ![r] = PasswordIdle]
    /\ pmissed' = [s \in PasswordRequests |->
                     IF s # r /\ preq[s] # PasswordIdle THEN pmissed[s] \cup {q.user}
                                                        ELSE {}]

PasswordRequestFails(r) ==
    preq[r] # PasswordIdle /\ PasswordReturns(r) /\ UNCHANGED password

PasswordsNext ==
    \E r \in PasswordRequests :
        \/ ChangePassword(r) \/ ResetPassword(r)
        \/ ComparePassword(r) \/ WritePassword(r)
        \/ PasswordRequestFails(r)

----------------------------------------------------------------------------
\* Who changes a password without being allowed to reset it knows the one that
\* is replaced; a password the caller does not know, such as one an
\* administrator has just reset it to, is replaced only if it was written since
\* the caller's row was read.
UnknownReplacedOnlyByRace ==
    [][\A r \in PasswordRequests :
          /\ preq[r].pc = "write" /\ preq[r].known # None
          /\ preq'[r] = PasswordIdle
          => preq[r].known = password[preq[r].user] \/ preq[r].user \in pmissed[r]
      ]_password

=============================================================================
