------------------------------- MODULE MCOffice -------------------------------
(***************************************************************************)
(* The office instantiated for TLC.  A behaviour keeps to one part of it:  *)
(* focus, chosen at the start, says which requests are made and over how   *)
(* many rows, so that the parts' state spaces add up and do not multiply.  *)
(* Each behaviour is one of Spec, in which the rest happens not to be      *)
(* called.                                                                 *)
(***************************************************************************)
EXTENDS Office, TLC

VARIABLE focus

Parts == {"names", "links", "tenants", "keys", "dates", "sources", "features",
          "workshop", "fuel", "passwords"}

InFlight == {r \in DirectoryRequests : dreq[r] # DirectoryIdle}

\* The tenants, kinds and keys that the rows and the requests speak of.
TenantsUsed ==
    {branches[b].tenant : b \in DOMAIN branches}
      \cup {members[m].tenant : m \in DOMAIN members}
      \cup {dreq[r].tenant : r \in InFlight}

MemberRequests == {r \in InFlight : "kind" \in DOMAIN dreq[r]}

KeysUsed ==
    {members[m].key : m \in DOMAIN members}
      \cup ({dreq[r].key : r \in MemberRequests} \ {None, Absent})

KindsUsed ==
    {members[m].kind : m \in DOMAIN members} \cup {dreq[r].kind : r \in MemberRequests}

NamesUsed ==
    {branches[b].name : b \in DOMAIN branches}
      \cup ({dreq[r].name : r \in InFlight \ MemberRequests} \ {Absent})

Few(S, n) == Cardinality(S) <= n

\* Duplicate names: branches only, of one tenant.
NamesStep == BranchesAct /\ Few(TenantsUsed', 1)

\* Links to removed branches: one tenant, one branch, one member of any kind,
\* which never changes its key.
LinksStep ==
    /\ BranchesAct \/ MembersAct
    /\ Few(TenantsUsed', 1) /\ Few(NamesUsed', 1) /\ Few(KeysUsed', 1)
    /\ Few(DOMAIN members', 1) /\ Few(KindsUsed', 1) /\ Few(DOMAIN branches', 1)
    /\ \A r \in InFlight' : dreq'[r].op # "updateBranch"
    /\ \A r \in MemberRequests' :
         /\ dreq'[r].account = None
         /\ dreq'[r].op = "updateMember" => dreq'[r].key = Absent
         /\ dreq'[r].branch \in DOMAIN branches \cup {None, Absent}
         /\ dreq'[r].links \in SUBSET DOMAIN branches \cup {Absent}

\* Two tenants, one request at a time, no removals.
TenantsStep ==
    /\ BranchesAct \/ MembersAct
    /\ Few(InFlight', 1) /\ Few(NamesUsed', 1) /\ Few(KeysUsed', 1)
    /\ \A r \in InFlight' : dreq'[r].op \notin {"removeBranch", "removeMember"}

\* Unique keys: members of one kind and one tenant, no branches.
KeysStep ==
    MembersAct /\ Few(TenantsUsed', 1) /\ Few(KindsUsed', 1)
       /\ \A r \in MemberRequests' : dreq'[r].branch \in {None, Absent}

\* A contract's dates: one tenant, no vehicles.
DatesStep ==
    /\ ContractsAct /\ Few(TenantsUsed', 1)
    /\ \A r \in InFlight' :
         dreq'[r].vehicle \in {None, Absent} /\ dreq'[r].type \in {"CLIENT", Absent}

ContractPeriods ==
    {<<contracts[c].start, contracts[c].end>> : c \in DOMAIN contracts}
      \cup {<<dreq[r].start, dreq[r].end>> :
              r \in {q \in InFlight : "start" \in DOMAIN dreq[q]}}

\* A contract and at most one vehicle, of two tenants; all dates are the same.
SourcesStep ==
    /\ ContractsAct \/ (MembersAct /\ UNCHANGED contracts)
    /\ KindsUsed' \subseteq {"vehicle"} /\ Few(DOMAIN members', 1) /\ Few(KeysUsed', 1)
    /\ Few(ContractPeriods', 1)
    /\ \A r \in InFlight' :
         /\ dreq'[r].op # "updateMember" /\ dreq'[r].branch \in {None, Absent}
         /\ "given" \in DOMAIN dreq'[r] =>
              dreq'[r].given = {} /\ dreq'[r].type \in {"VEHICLE_SOURCE", Absent}

FocusInit == Init /\ focus \in Parts

FocusNext ==
    /\ \/ focus = "names" /\ NamesStep
       \/ focus = "links" /\ LinksStep
       \/ focus = "tenants" /\ TenantsStep
       \/ focus = "keys" /\ KeysStep
       \/ focus = "dates" /\ DatesStep
       \/ focus = "sources" /\ SourcesStep
       \/ focus = "features" /\ FeaturesAct
       \/ focus = "workshop" /\ GarageAct /\ UNCHANGED fuelLogs
       \/ focus = "fuel" /\ GarageAct /\ UNCHANGED jobs
       \/ focus = "passwords" /\ PasswordsAct
    /\ UNCHANGED focus

FocusSpec == FocusInit /\ [][FocusNext]_<<vars, focus>>

\* Of the ids and slots that are interchangeable, those of the largest parts.
Symmetry ==
    UNION {Permutations(S) : S \in {Tenants, Branches, Members, Keys, DirectoryRequests}}

=============================================================================
