------------------------------- MODULE Identity -------------------------------
(***************************************************************************)
(* Accounts and sessions over the same users and tenants, and the clock.   *)
(***************************************************************************)
EXTENDS Sessions

vars == <<accountVars, sessionVars, clock>>

Init == AccountsInit /\ SessionsInit

AccountsAct == AccountsNext /\ UNCHANGED <<sessionVars, clock>>

SessionsAct == SessionsNext /\ UNCHANGED <<accountVars, clock>>

\* The process dies with every request in flight, and is started again.
ProcessRestarts ==
    /\ Restart
    /\ ureq' = [r \in AccountRequests |-> AccountIdle]
    /\ uapproved' = [r \in AccountRequests |-> {}]
    /\ UNCHANGED <<users, tenants, lateRejected, setByHand, clock>>

SecondPasses ==
    /\ \E s \in Seconds : s > clock /\ clock' = s
    /\ UNCHANGED <<accountVars, sessionVars>>

Next == AccountsAct \/ SessionsAct \/ ProcessRestarts \/ SecondPasses

Spec == Init /\ [][Next]_vars

TypeOK == AccountsTypeOK /\ SessionsTypeOK

=============================================================================
