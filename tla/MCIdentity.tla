------------------------------ MODULE MCIdentity ------------------------------
(***************************************************************************)
(* Accounts and sessions instantiated for TLC.  A behaviour keeps to one   *)
(* part, chosen at the start by focus: accounts, several requests at once  *)
(* over several users and tenants, while nobody logs in; or sessions of    *)
(* one user, with one account request at a time, that registers, decides   *)
(* on the application, or activates the tenant again by hand.              *)
(***************************************************************************)
EXTENDS Identity, TLC

VARIABLE focus

Parts == {"accounts", "sessions"}

One(S) == {CHOOSE x \in S : TRUE}

SessionsFocus ==
    /\ Next
    /\ DOMAIN users' \subseteq One(Users) /\ DOMAIN tenants' \subseteq One(Tenants)
    /\ \A r \in AccountRequests :
         ureq'[r] # AccountIdle =>
           /\ ureq'[r].user \in One(Users) \cup {None}
           /\ ureq'[r].op # "removeTenant"
           /\ ureq'[r].op = "updateTenant" => ureq'[r].isActive = TRUE
           /\ \A s \in AccountRequests \ {r} : ureq'[s] = AccountIdle

FocusInit == Init /\ focus \in Parts

FocusNext ==
    /\ \/ focus = "accounts" /\ AccountsAct
       \/ focus = "sessions" /\ SessionsFocus
    /\ UNCHANGED focus

FocusSpec == FocusInit /\ [][FocusNext]_<<vars, focus>>

\* Slots are interchangeable.
Symmetry == Permutations(AccountRequests) \cup Permutations(SessionRequests)

=============================================================================
