------------------------------- MODULE Features -------------------------------
(***************************************************************************)
(* FeatureAccessService, which finds or creates the row of a tenant and a  *)
(* module and sets it, in two queries, and FeatureGuard, which reads it.   *)
(***************************************************************************)
EXTENDS Tables

CONSTANTS
    Modules,            \* the feature keys that controllers require
    Flags,              \* bound: FeatureAccess rows that can ever be created
    FeatureRequests     \* bound: requests in flight at once

ASSUME FeaturesAssumption == None \notin Flags

VARIABLES
    flags,      \* flags[i]: the FeatureAccess rows
    freq,       \* freq[r]: the handler in slot r, after its lookup
    fmissed,    \* history: rows inserted since r's lookup
    lastSet,    \* history: what the last call that returned has set
    doubled     \* history: modules whose row was inserted twice, by two calls
                \* that both found none

featureVars == <<flags, freq, fmissed, lastSet, doubled>>

Feature == Tenants \X Modules

FeatureAccess == [feature : Feature, isEnabled : BOOLEAN]

FeatureIdle == [feature |-> None, isEnabled |-> TRUE, existing |-> None]

FeatureRequest == [feature : Feature, isEnabled : BOOLEAN, existing : Flags \cup {None}]

FeaturesTypeOK ==
    /\ DOMAIN flags \subseteq Flags /\ flags \in [DOMAIN flags -> FeatureAccess]
    /\ \A r \in FeatureRequests : freq[r] \in FeatureRequest \cup {FeatureIdle}
    /\ fmissed \in [FeatureRequests -> SUBSET Flags]
    /\ lastSet \in [Feature -> BOOLEAN]
    /\ doubled \subseteq Feature

\* "All features are enabled by default."
FeaturesInit ==
    /\ flags = <<>>
    /\ freq = [r \in FeatureRequests |-> FeatureIdle]
    /\ fmissed = [r \in FeatureRequests |-> {}]
    /\ lastSet = [f \in Feature |-> TRUE]
    /\ doubled = {}

RowsOf(f) == {i \in DOMAIN flags : flags[i].feature = f}

\* findFirst, which has no order: of several rows, any.
Found(rows) == IF rows = {} THEN {None} ELSE rows

\* Mutant: the lookup is by module name alone.
SetFeatureAnyTenant(r) ==
    /\ freq[r] = FeatureIdle
    /\ \E f \in Feature, isEnabled \in BOOLEAN :
         \E i \in Found({j \in DOMAIN flags : flags[j].feature[2] = f[2]}) :
            freq' = [freq EXCEPT ![r] =
                       [feature |-> f, isEnabled |-> isEnabled, existing |-> i]]
    /\ UNCHANGED <<flags, fmissed, lastSet, doubled>>

\* enable and disable: the lookup.
SetFeature(r) ==
    /\ freq[r] = FeatureIdle
    /\ \E f \in Feature, isEnabled \in BOOLEAN : \E i \in Found(RowsOf(f)) :
         freq' = [freq EXCEPT ![r] =
                    [feature |-> f, isEnabled |-> isEnabled, existing |-> i]]
    /\ UNCHANGED <<flags, fmissed, lastSet, doubled>>

FeatureReturns(r) ==
    /\ freq' = [freq EXCEPT ![r] = FeatureIdle]
    /\ lastSet' = [lastSet EXCEPT ![freq[r].feature] = freq[r].isEnabled]

WriteFlag(r) ==
    LET q == freq[r] IN
    /\ q # FeatureIdle /\ q.existing # None
    /\ flags' = [flags EXCEPT ![q.existing].isEnabled = q.isEnabled]
    /\ FeatureReturns(r)
    /\ fmissed' = [fmissed EXCEPT ![r] = {}]
    /\ UNCHANGED doubled

InsertFlag(r) ==
    LET q == freq[r] IN
    /\ q # FeatureIdle /\ q.existing = None
    /\ \E i \in Flags \ DOMAIN flags :
         /\ flags' = Insert(flags, i, [feature |-> q.feature, isEnabled |-> q.isEnabled])
         /\ fmissed' = [s \in FeatureRequests |->
                          IF s # r /\ freq[s] # FeatureIdle THEN fmissed[s] \cup {i}
                                                            ELSE {}]
    /\ doubled' = IF fmissed[r] \cap RowsOf(q.feature) = {} THEN doubled
                                                            ELSE doubled \cup {q.feature}
    /\ FeatureReturns(r)

FeatureRequestFails(r) ==
    /\ freq[r] # FeatureIdle
    /\ freq' = [freq EXCEPT ![r] = FeatureIdle]
    /\ fmissed' = [fmissed EXCEPT ![r] = {}]
    /\ UNCHANGED <<flags, lastSet, doubled>>

FeaturesNext ==
    \E r \in FeatureRequests :
        SetFeature(r) \/ WriteFlag(r) \/ InsertFlag(r) \/ FeatureRequestFails(r)

----------------------------------------------------------------------------
\* What FeatureGuard may answer for f: without a row, the feature is enabled.
GuardAnswers(f) ==
    IF RowsOf(f) = {} THEN {TRUE} ELSE {flags[i].isEnabled : i \in RowsOf(f)}

\* The guard obeys the last call that returned, for this tenant and this module
\* and no other, as long as no two calls have inserted the row twice.  After
\* that it may never again: a call sets one of the rows, the guard reads any.
GuardObeysLastCall ==
    \A f \in Feature \ doubled : GuardAnswers(f) = {lastSet[f]}

=============================================================================
