-------------------------------- MODULE Office --------------------------------
(***************************************************************************)
(* The administrative side of the backend: branches and what is linked to  *)
(* them, contracts over the same vehicles, feature flags, the workshop and *)
(* the fuel log, and passwords.                                            *)
(***************************************************************************)
EXTENDS Contracts, Features, Garage, Passwords

vars == <<directoryVars, contracts, featureVars, garageVars, passwordVars>>

Init ==
    /\ DirectoryInit
    /\ ContractsInit
    /\ FeaturesInit
    /\ GarageInit
    /\ PasswordsInit

BranchesAct ==
    /\ BranchesNext
    /\ UNCHANGED <<contracts, featureVars, garageVars, passwordVars>>

MembersAct ==
    /\ MembersNext
    /\ UNCHANGED <<contracts, featureVars, garageVars, passwordVars>>

ContractsAct ==
    /\ ContractsNext
    /\ UNCHANGED <<featureVars, garageVars, passwordVars>>

FeaturesAct ==
    /\ FeaturesNext
    /\ UNCHANGED <<directoryVars, contracts, garageVars, passwordVars>>

GarageAct ==
    /\ GarageNext
    /\ UNCHANGED <<directoryVars, contracts, featureVars, passwordVars>>

PasswordsAct ==
    /\ PasswordsNext
    /\ UNCHANGED <<directoryVars, contracts, featureVars, garageVars>>

Next ==
    \/ BranchesAct \/ MembersAct \/ ContractsAct
    \/ FeaturesAct \/ GarageAct \/ PasswordsAct

Spec == Init /\ [][Next]_vars

\* Branches, users and vehicles that a row refers to are of the row's own tenant:
\* each request looks up its own half of the row, and partial updates interleave.
ReferencesStayInTenant == LinksStayInTenant /\ ContractsStayInTenant

TypeOK ==
    /\ RowsTypeOK
    /\ ContractsTypeOK
    /\ FeaturesTypeOK
    /\ GarageTypeOK
    /\ PasswordsTypeOK

=============================================================================
