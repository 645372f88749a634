----------------------------- MODULE OfficeProofs -----------------------------
(***************************************************************************)
(* Proofs about the office: the invariants of the feature flags, of the    *)
(* workshop and the fuel log, and of passwords, and, with DirectoryInv,    *)
(* the theorems about the composition.                                     *)
(*                                                                         *)
(* Each invariant says what a handler between its read and its write still *)
(* knows, unless what it read was written since.                           *)
(***************************************************************************)
EXTENDS Office, DirectoryProofs, FiniteSetTheorems, WellFoundedInduction

\* Of a feature whose row no two calls inserted, there is one row at most; a
\* call that found none knows of those inserted since.
FlagHeld(r) ==
    LET q == freq[r] IN
    /\ q.existing # None => q.existing \in RowsOf(q.feature)
    /\ q.existing = None => RowsOf(q.feature) \subseteq fmissed[r]

FeaturesInv ==
    /\ FeaturesTypeOK
    /\ freq = [r \in FeatureRequests |-> freq[r]]
    /\ \A f \in Feature \ doubled : \A i, j \in RowsOf(f) : i = j
    /\ GuardObeysLastCall
    /\ \A r \in FeatureRequests : freq[r] # FeatureIdle => FlagHeld(r)

GarageRequestOK(r) ==
    LET q == wreq[r] IN
    /\ q.op \in {"item", "status"} => q.job \in DOMAIN jobs
    /\ q.op = "item" /\ jobs[q.job].status = "COMPLETED" => q.job \in wmissed[r]
    /\ q.op = "fuel" =>
         \A l \in DOMAIN fuelLogs :
             fuelLogs[l].vehicle = q.vehicle /\ fuelLogs[l].odometer > q.odometer
               => l \in wmissed[r]

GarageInv ==
    /\ GarageTypeOK
    /\ wreq = [r \in GarageRequests |-> wreq[r]]
    /\ \A r \in GarageRequests : GarageRequestOK(r)

\* The sum of the costs of the rows S of a table, as the fold of the community
\* modules goes about it: it takes the rows one by one, each Picked from the rest.
Picked(s) == CHOOSE x \in s : TRUE

CostTable(w, S) == CHOOSE f : f = [s \in SUBSET S |->
    IF s = {} THEN 0 ELSE w[Picked(s)].cost + f[s \ {Picked(s)}]]

CostOf(w, S) == MapThenSumSet(LAMBDA i : w[i].cost, S)

\* A job's total is the sum of its items, of which there are finitely many, and an
\* item is of a job that is there.
TotalsInv ==
    /\ IsFiniteSet(DOMAIN items)
    /\ \A i \in DOMAIN items : items[i].job \in DOMAIN jobs
    /\ TotalIsSumOfItems

PasswordRequestOK(r) ==
    LET q == preq[r] IN
    /\ q.read = password[q.user] \/ q.user \in pmissed[r]
    /\ q.pc = "write" /\ q.known # None => q.known = q.read

PasswordsInv ==
    /\ PasswordsTypeOK
    /\ \A r \in PasswordRequests : preq[r] # PasswordIdle => PasswordRequestOK(r)

OfficeInv == DirectoryInv /\ FeaturesInv /\ GarageInv /\ TotalsInv /\ PasswordsInv

----------------------------------------------------------------------------
(***************************************************************************)
(* Feature flags                                                           *)
(***************************************************************************)

\* No row is there at first, and the guard answers that all is enabled.
LEMMA FeaturesInvInit ==
    ASSUME FeaturesInit
    PROVE  FeaturesInv
<1>1. DOMAIN flags = {} /\ flags \in [DOMAIN flags -> FeatureAccess]
  BY DEF FeaturesInit
<1>2. \A r \in FeatureRequests : freq[r] = FeatureIdle
  BY DEF FeaturesInit
<1>3. FeaturesTypeOK
  BY <1>1, <1>2 DEF FeaturesInit, FeaturesTypeOK
<1>4. \A f \in Feature : RowsOf(f) = {} /\ lastSet[f] = TRUE
  BY <1>1 DEF FeaturesInit, RowsOf
<1>5. GuardObeysLastCall
  BY <1>4 DEF GuardObeysLastCall, GuardAnswers
<1> QED
  BY <1>2, <1>3, <1>4, <1>5 DEF FeaturesInit, FeaturesInv

\* What one slot's step leaves to the others.
LEMMA FeatureSlot ==
    ASSUME FeaturesInv, NEW r \in FeatureRequests,
           NEW q \in FeatureRequest \cup {FeatureIdle}, freq' = [freq EXCEPT ![r] = q]
    PROVE  /\ \A x \in FeatureRequests : freq'[x] \in FeatureRequest \cup {FeatureIdle}
           /\ freq' = [x \in FeatureRequests |-> freq'[x]]
           /\ freq'[r] = q /\ \A x \in FeatureRequests \ {r} : freq'[x] = freq[x]
BY DEF FeaturesInv, FeaturesTypeOK

\* The lookup finds a row of the feature if there is one.
LEMMA SetFeatureInv ==
    ASSUME FeaturesInv, NEW r \in FeatureRequests, SetFeature(r)
    PROVE  FeaturesInv'
<1>1. PICK f \in Feature, isEnabled \in BOOLEAN : \E i \in Found(RowsOf(f)) :
        freq' = [freq EXCEPT ![r] = [feature |-> f, isEnabled |-> isEnabled, existing |-> i]]
  BY DEF SetFeature
<1>2. PICK i \in Found(RowsOf(f)) :
        freq' = [freq EXCEPT ![r] = [feature |-> f, isEnabled |-> isEnabled, existing |-> i]]
  BY <1>1
<1> DEFINE q == [feature |-> f, isEnabled |-> isEnabled, existing |-> i]
<1>3. UNCHANGED <<flags, fmissed, lastSet, doubled>>
  BY DEF SetFeature
<1>4. RowsOf(f) \subseteq Flags
  BY DEF FeaturesInv, FeaturesTypeOK, RowsOf
<1>5. /\ i \in Flags \cup {None}
      /\ i # None => i \in RowsOf(f)
      /\ i = None => RowsOf(f) = {}
  BY <1>2, <1>4, FeaturesAssumption DEF Found
<1>6. q \in FeatureRequest /\ q.feature = f /\ q.existing = i
  BY <1>5 DEF FeatureRequest
<1> HIDE DEF q
<1>7. /\ \A x \in FeatureRequests : freq'[x] \in FeatureRequest \cup {FeatureIdle}
      /\ freq' = [x \in FeatureRequests |-> freq'[x]]
      /\ freq'[r] = q /\ \A x \in FeatureRequests \ {r} : freq'[x] = freq[x]
  BY <1>2, <1>6, FeatureSlot DEF q
<1>8. FeaturesTypeOK'
  BY <1>3, <1>7 DEF FeaturesInv, FeaturesTypeOK
<1>9. \A g : RowsOf(g)' = RowsOf(g)
  BY <1>3 DEF RowsOf
<1>10. GuardObeysLastCall'
  <2>1. \A g : GuardAnswers(g)' = GuardAnswers(g)
    BY <1>3, <1>9 DEF GuardAnswers
  <2> QED
    BY <1>3, <2>1 DEF FeaturesInv, GuardObeysLastCall
<1>11. \A x \in FeatureRequests : freq'[x] # FeatureIdle => FlagHeld(x)'
  BY <1>3, <1>5, <1>6, <1>7, <1>9 DEF FeaturesInv, FlagHeld
<1> QED
  BY <1>3, <1>7, <1>8, <1>9, <1>10, <1>11 DEF FeaturesInv

\* A call that fails leaves the rows as they are.
LEMMA FeatureRequestFailsInv ==
    ASSUME FeaturesInv, NEW r \in FeatureRequests, FeatureRequestFails(r)
    PROVE  FeaturesInv'
<1>1. /\ freq' = [freq EXCEPT ![r] = FeatureIdle]
      /\ fmissed' = [fmissed EXCEPT ![r] = {}]
      /\ UNCHANGED <<flags, lastSet, doubled>>
  BY DEF FeatureRequestFails
<1>2. /\ \A x \in FeatureRequests : freq'[x] \in FeatureRequest \cup {FeatureIdle}
      /\ freq' = [x \in FeatureRequests |-> freq'[x]]
      /\ freq'[r] = FeatureIdle /\ \A x \in FeatureRequests \ {r} : freq'[x] = freq[x]
  BY <1>1, FeatureSlot
<1>3. fmissed' \in [FeatureRequests -> SUBSET Flags]
      /\ \A x \in FeatureRequests \ {r} : fmissed'[x] = fmissed[x]
  BY <1>1 DEF FeaturesInv, FeaturesTypeOK
<1>4. FeaturesTypeOK'
  BY <1>1, <1>2, <1>3 DEF FeaturesInv, FeaturesTypeOK
<1>5. \A g : RowsOf(g)' = RowsOf(g)
  BY <1>1 DEF RowsOf
<1>6. GuardObeysLastCall'
  <2>1. \A g : GuardAnswers(g)' = GuardAnswers(g)
    BY <1>1, <1>5 DEF GuardAnswers
  <2> QED
    BY <1>1, <2>1 DEF FeaturesInv, GuardObeysLastCall
<1>7. \A x \in FeatureRequests : freq'[x] # FeatureIdle => FlagHeld(x)'
  BY <1>2, <1>3, <1>5 DEF FeaturesInv, FlagHeld
<1> QED
  BY <1>1, <1>2, <1>4, <1>5, <1>6, <1>7 DEF FeaturesInv

\* An update sets the one row that there is.
LEMMA WriteFlagInv ==
    ASSUME FeaturesInv, NEW r \in FeatureRequests, WriteFlag(r)
    PROVE  FeaturesInv'
<1>0. PICK q, i : q = freq[r] /\ i = q.existing
  OBVIOUS
<1>1. /\ q # FeatureIdle /\ i # None
      /\ flags' = [flags EXCEPT ![i].isEnabled = q.isEnabled]
      /\ freq' = [freq EXCEPT ![r] = FeatureIdle]
      /\ lastSet' = [lastSet EXCEPT ![q.feature] = q.isEnabled]
      /\ fmissed' = [fmissed EXCEPT ![r] = {}]
      /\ UNCHANGED doubled
  BY <1>0 DEF WriteFlag, FeatureReturns
<1>2. q \in FeatureRequest /\ q.feature \in Feature /\ q.isEnabled \in BOOLEAN
      /\ i \in RowsOf(q.feature) /\ i \in DOMAIN flags /\ flags[i].feature = q.feature
  BY <1>0, <1>1 DEF FeaturesInv, FeaturesTypeOK, FeatureRequest, FlagHeld, RowsOf
<1> DEFINE row == [flags[i] EXCEPT !.isEnabled = q.isEnabled]
<1>3. row \in FeatureAccess /\ row.feature = q.feature /\ row.isEnabled = q.isEnabled
  <2>1. flags[i] \in FeatureAccess
    BY <1>2 DEF FeaturesInv, FeaturesTypeOK
  <2> QED
    BY <1>2, <2>1 DEF FeatureAccess
<1>4. flags' = [flags EXCEPT ![i] = row]
  BY <1>1
<1> HIDE DEF row
<1>5. /\ DOMAIN flags' = DOMAIN flags /\ flags' \in [DOMAIN flags -> FeatureAccess]
      /\ flags'[i] = row /\ \A j \in DOMAIN flags : j # i => flags'[j] = flags[j]
  BY <1>2, <1>3, <1>4 DEF FeaturesInv, FeaturesTypeOK
<1>6. /\ \A x \in FeatureRequests : freq'[x] \in FeatureRequest \cup {FeatureIdle}
      /\ freq' = [x \in FeatureRequests |-> freq'[x]]
      /\ freq'[r] = FeatureIdle /\ \A x \in FeatureRequests \ {r} : freq'[x] = freq[x]
  BY <1>1, FeatureSlot
<1>7. fmissed' \in [FeatureRequests -> SUBSET Flags]
      /\ \A x \in FeatureRequests \ {r} : fmissed'[x] = fmissed[x]
  BY <1>1 DEF FeaturesInv, FeaturesTypeOK
<1>8. lastSet' \in [Feature -> BOOLEAN] /\ lastSet'[q.feature] = q.isEnabled
      /\ \A f \in Feature : f # q.feature => lastSet'[f] = lastSet[f]
  BY <1>1, <1>2 DEF FeaturesInv, FeaturesTypeOK
<1>9. FeaturesTypeOK'
  BY <1>1, <1>5, <1>6, <1>7, <1>8 DEF FeaturesInv, FeaturesTypeOK
<1>10. \A g : RowsOf(g)' = RowsOf(g)
  BY <1>2, <1>3, <1>5 DEF RowsOf
<1>11. GuardObeysLastCall'
  <2> SUFFICES ASSUME NEW f \in Feature \ doubled
               PROVE  GuardAnswers(f)' = {lastSet'[f]}
    BY <1>1 DEF GuardObeysLastCall
  <2>1. CASE f = q.feature
    <3>1. RowsOf(f) = {i}
      BY <1>2, <2>1 DEF FeaturesInv
    <3>2. RowsOf(f)' = {i}
      BY <1>10, <3>1
    <3>3. GuardAnswers(f)' = {flags'[i].isEnabled}
      BY <3>2 DEF GuardAnswers
    <3> QED
      BY <1>3, <1>5, <1>8, <2>1, <3>3
  <2>2. CASE f # q.feature
    <3>1. \A j \in RowsOf(f) : flags'[j] = flags[j]
      BY <1>2, <1>5, <2>2 DEF RowsOf
    <3>2. GuardAnswers(f)' = GuardAnswers(f)
      BY <1>10, <3>1 DEF GuardAnswers
    <3> QED
      BY <1>8, <2>2, <3>2 DEF FeaturesInv, GuardObeysLastCall
  <2> QED
    BY <2>1, <2>2
<1>12. \A x \in FeatureRequests : freq'[x] # FeatureIdle => FlagHeld(x)'
  BY <1>6, <1>7, <1>10 DEF FeaturesInv, FlagHeld
<1> QED
  BY <1>1, <1>6, <1>9, <1>10, <1>11, <1>12 DEF FeaturesInv

\* An insert adds a second row only after one it has missed.
LEMMA InsertFlagInv ==
    ASSUME FeaturesInv, NEW r \in FeatureRequests, InsertFlag(r)
    PROVE  FeaturesInv'
<1>0. PICK q : q = freq[r]
  OBVIOUS
<1>1. PICK i \in Flags \ DOMAIN flags :
        /\ flags' = Insert(flags, i, [feature |-> q.feature, isEnabled |-> q.isEnabled])
        /\ fmissed' = [s \in FeatureRequests |->
                         IF s # r /\ freq[s] # FeatureIdle THEN fmissed[s] \cup {i} ELSE {}]
  BY <1>0 DEF InsertFlag
<1>2. /\ q # FeatureIdle /\ q.existing = None
      /\ freq' = [freq EXCEPT ![r] = FeatureIdle]
      /\ lastSet' = [lastSet EXCEPT ![q.feature] = q.isEnabled]
      /\ doubled' = IF fmissed[r] \cap RowsOf(q.feature) = {} THEN doubled
                                                              ELSE doubled \cup {q.feature}
  BY <1>0 DEF InsertFlag, FeatureReturns
<1>3. q.feature \in Feature /\ q.isEnabled \in BOOLEAN /\ RowsOf(q.feature) \subseteq fmissed[r]
  BY <1>0, <1>2 DEF FeaturesInv, FeaturesTypeOK, FeatureRequest, FlagHeld
<1> DEFINE row == [feature |-> q.feature, isEnabled |-> q.isEnabled]
<1>4. row \in FeatureAccess /\ row.feature = q.feature /\ row.isEnabled = q.isEnabled
  BY <1>3 DEF FeatureAccess
<1>5. flags' = Insert(flags, i, row)
  BY <1>1
<1> HIDE DEF row
<1>6. /\ DOMAIN flags' = DOMAIN flags \cup {i} /\ flags'[i] = row
      /\ \A j \in DOMAIN flags : flags'[j] = flags[j]
      /\ flags' \in [DOMAIN flags' -> FeatureAccess]
  BY <1>1, <1>4, <1>5 DEF Insert, FeaturesInv, FeaturesTypeOK
<1>7. /\ \A x \in FeatureRequests : freq'[x] \in FeatureRequest \cup {FeatureIdle}
      /\ freq' = [x \in FeatureRequests |-> freq'[x]]
      /\ freq'[r] = FeatureIdle /\ \A x \in FeatureRequests \ {r} : freq'[x] = freq[x]
  BY <1>2, FeatureSlot
<1>8. fmissed' \in [FeatureRequests -> SUBSET Flags]
      /\ \A x \in FeatureRequests \ {r} :
            freq[x] # FeatureIdle => fmissed'[x] = fmissed[x] \cup {i}
  BY <1>1 DEF FeaturesInv, FeaturesTypeOK
<1>9. lastSet' \in [Feature -> BOOLEAN] /\ lastSet'[q.feature] = q.isEnabled
      /\ \A f \in Feature : f # q.feature => lastSet'[f] = lastSet[f]
  BY <1>2, <1>3 DEF FeaturesInv, FeaturesTypeOK
<1>10. doubled \subseteq doubled' /\ doubled' \subseteq Feature
  BY <1>2, <1>3 DEF FeaturesInv, FeaturesTypeOK
<1>11. FeaturesTypeOK'
  BY <1>1, <1>6, <1>7, <1>8, <1>9, <1>10 DEF FeaturesInv, FeaturesTypeOK
<1>12. /\ RowsOf(q.feature)' = RowsOf(q.feature) \cup {i}
       /\ \A f : f # q.feature => RowsOf(f)' = RowsOf(f)
  BY <1>4, <1>6 DEF RowsOf
<1>13. q.feature \notin doubled' => RowsOf(q.feature)' = {i}
  BY <1>2, <1>3, <1>12
<1>14. \A f \in Feature \ doubled' : \A j, k \in RowsOf(f)' : j = k
  BY <1>10, <1>12, <1>13 DEF FeaturesInv
<1>15. GuardObeysLastCall'
  <2> SUFFICES ASSUME NEW f \in Feature \ doubled'
               PROVE  GuardAnswers(f)' = {lastSet'[f]}
    BY DEF GuardObeysLastCall
  <2>1. CASE f = q.feature
    <3>1. RowsOf(f)' = {i}
      BY <1>13, <2>1
    <3>2. GuardAnswers(f)' = {flags'[i].isEnabled}
      BY <3>1 DEF GuardAnswers
    <3> QED
      BY <1>4, <1>6, <1>9, <2>1, <3>2
  <2>2. CASE f # q.feature
    <3>1. \A j \in RowsOf(f) : flags'[j] = flags[j]
      BY <1>6 DEF RowsOf
    <3>2. GuardAnswers(f)' = GuardAnswers(f)
      BY <1>12, <2>2, <3>1 DEF GuardAnswers
    <3> QED
      BY <1>9, <1>10, <2>2, <3>2 DEF FeaturesInv, GuardObeysLastCall
  <2> QED
    BY <2>1, <2>2
<1>16. \A x \in FeatureRequests : freq'[x] # FeatureIdle => FlagHeld(x)'
  BY <1>7, <1>8, <1>12 DEF FeaturesInv, FlagHeld
<1> QED
  BY <1>7, <1>11, <1>14, <1>15, <1>16 DEF FeaturesInv

\* Every step of the feature flags keeps their invariant.
LEMMA FeaturesNextInv ==
    ASSUME FeaturesInv, FeaturesNext
    PROVE  FeaturesInv'
BY SetFeatureInv, WriteFlagInv, InsertFlagInv, FeatureRequestFailsInv DEF FeaturesNext

\* Steps of other components leave it alone.
LEMMA UnchangedFeaturesInv ==
    ASSUME FeaturesInv, UNCHANGED featureVars
    PROVE  FeaturesInv'
<1>1. UNCHANGED <<flags, freq, fmissed, lastSet, doubled>>
  BY DEF featureVars
<1>2. \A f : RowsOf(f)' = RowsOf(f)
  BY <1>1 DEF RowsOf
<1>3. GuardObeysLastCall'
  <2>1. \A f : GuardAnswers(f)' = GuardAnswers(f)
    BY <1>1, <1>2 DEF GuardAnswers
  <2> QED
    BY <1>1, <2>1 DEF FeaturesInv, GuardObeysLastCall
<1>4. FeaturesTypeOK'
  BY <1>1 DEF FeaturesInv, FeaturesTypeOK
<1> QED
  BY <1>1, <1>2, <1>3, <1>4 DEF FeaturesInv, FlagHeld

----------------------------------------------------------------------------
(***************************************************************************)
(* The workshop and the fuel log                                           *)
(***************************************************************************)

\* Nothing is logged at first.
LEMMA GarageInvInit ==
    ASSUME GarageInit
    PROVE  GarageInv
<1>1. /\ DOMAIN jobs = {} /\ jobs \in [DOMAIN jobs -> [status : WorkshopJobStatus, totalCost : Nat]]
      /\ DOMAIN items = {} /\ items \in [DOMAIN items -> [job : Jobs, cost : Costs]]
      /\ DOMAIN fuelLogs = {}
      /\ fuelLogs \in [DOMAIN fuelLogs -> [vehicle : Vehicles, odometer : Readings]]
  BY DEF GarageInit
<1>2. \A r \in GarageRequests : wreq[r] = GarageIdle /\ wreq[r].op = "none"
  BY DEF GarageInit, GarageIdle
<1>3. GarageTypeOK
  BY <1>1, <1>2 DEF GarageInit, GarageTypeOK
<1> QED
  BY <1>2, <1>3 DEF GarageInit, GarageInv, GarageRequestOK

\* What one slot's step leaves to the others.
LEMMA GarageSlot ==
    ASSUME GarageInv, NEW r \in GarageRequests,
           NEW q \in GarageRequest \cup {GarageIdle}, wreq' = [wreq EXCEPT ![r] = q]
    PROVE  /\ \A x \in GarageRequests : wreq'[x] \in GarageRequest \cup {GarageIdle}
           /\ wreq' = [x \in GarageRequests |-> wreq'[x]]
           /\ wreq'[r] = q /\ \A x \in GarageRequests \ {r} : wreq'[x] = wreq[x]
BY DEF GarageInv, GarageTypeOK

\* A request is accepted knowing the row that it read, or returns.
LEMMA UnwrittenGarageInv ==
    ASSUME GarageInv, NEW r \in GarageRequests, UNCHANGED <<jobs, items, fuelLogs>>,
           NEW q \in GarageRequest \cup {GarageIdle}, wreq' = [wreq EXCEPT ![r] = q],
           wmissed' \in [GarageRequests -> SUBSET (Jobs \cup Logs)],
           \A x \in GarageRequests \ {r} : wmissed'[x] = wmissed[x],
           GarageRequestOK(r)'
    PROVE  GarageInv'
<1>1. /\ \A x \in GarageRequests : wreq'[x] \in GarageRequest \cup {GarageIdle}
      /\ wreq' = [x \in GarageRequests |-> wreq'[x]]
      /\ wreq'[r] = q /\ \A x \in GarageRequests \ {r} : wreq'[x] = wreq[x]
  BY GarageSlot
<1>2. GarageTypeOK'
  BY <1>1 DEF GarageInv, GarageTypeOK
<1>3. \A x \in GarageRequests \ {r} : GarageRequestOK(x)'
  BY <1>1 DEF GarageInv, GarageRequestOK
<1> QED
  BY <1>1, <1>2, <1>3 DEF GarageInv

\* The acceptances of the three handlers, and a handler that throws.
LEMMA AcceptGarageInv ==
    ASSUME GarageInv, NEW r \in GarageRequests,
           AddItem(r) \/ UpdateStatus(r) \/ AddLog(r) \/ GarageRequestFails(r)
    PROVE  GarageInv'
<1>1. /\ wmissed \in [GarageRequests -> SUBSET (Jobs \cup Logs)]
      /\ DOMAIN jobs \subseteq Jobs
      /\ wreq = [x \in GarageRequests |-> wreq[x]]
      /\ \A l \in DOMAIN fuelLogs : fuelLogs[l].odometer \in Nat
  BY GarageAssumption DEF GarageInv, GarageTypeOK
<1>2. ASSUME NEW q \in GarageRequest, AcceptGarage(r, q), GarageRequestOK(r)'
      PROVE  GarageInv'
  BY <1>1, <1>2, UnwrittenGarageInv DEF AcceptGarage
<1>3. CASE AddItem(r)
  <2>1. PICK j \in DOMAIN jobs, cost \in Costs :
          /\ jobs[j].status # "COMPLETED"
          /\ AcceptGarage(r, [op |-> "item", job |-> j, cost |-> cost])
    BY <1>3 DEF AddItem
  <2> DEFINE q == [op |-> "item", job |-> j, cost |-> cost]
  <2>2. q \in GarageRequest /\ q.op = "item" /\ q.job = j
    BY <1>1 DEF GarageRequest
  <2> HIDE DEF q
  <2>3. wreq'[r] = q /\ UNCHANGED <<jobs, items, fuelLogs, wmissed>>
    BY <1>1, <2>1 DEF AcceptGarage, q
  <2>4. GarageRequestOK(r)'
    BY <2>1, <2>2, <2>3 DEF GarageRequestOK
  <2> QED
    BY <1>2, <2>1, <2>2, <2>4 DEF q
<1>4. CASE UpdateStatus(r)
  <2>1. PICK j \in DOMAIN jobs, status \in WorkshopJobStatus \ {"OPEN"} :
          AcceptGarage(r, [op |-> "status", job |-> j, status |-> status])
    BY <1>4 DEF UpdateStatus
  <2> DEFINE q == [op |-> "status", job |-> j, status |-> status]
  <2>2. q \in GarageRequest /\ q.op = "status" /\ q.job = j
    BY <1>1 DEF GarageRequest
  <2> HIDE DEF q
  <2>3. wreq'[r] = q /\ UNCHANGED <<jobs, items, fuelLogs, wmissed>>
    BY <1>1, <2>1 DEF AcceptGarage, q
  <2>4. GarageRequestOK(r)'
    BY <2>2, <2>3 DEF GarageRequestOK
  <2> QED
    BY <1>2, <2>1, <2>2, <2>4 DEF q
<1>5. CASE AddLog(r)
  <2>1. PICK v \in Vehicles, reading \in Readings :
          /\ \A l \in DOMAIN fuelLogs :
               fuelLogs[l].vehicle = v => reading >= fuelLogs[l].odometer
          /\ AcceptGarage(r, [op |-> "fuel", vehicle |-> v, odometer |-> reading])
    BY <1>5 DEF AddLog
  <2> DEFINE q == [op |-> "fuel", vehicle |-> v, odometer |-> reading]
  <2>2. q \in GarageRequest /\ q.op = "fuel" /\ q.vehicle = v /\ q.odometer = reading
    BY DEF GarageRequest
  <2> HIDE DEF q
  <2>3. wreq'[r] = q /\ UNCHANGED <<jobs, items, fuelLogs, wmissed>>
    BY <1>1, <2>1 DEF AcceptGarage, q
  <2>4. GarageRequestOK(r)'
    <3>1. reading \in Nat
      BY GarageAssumption
    <3>2. \A l \in DOMAIN fuelLogs :
            fuelLogs[l].vehicle = v => ~(fuelLogs[l].odometer > reading)
      BY <1>1, <2>1, <3>1
    <3> QED
      BY <2>2, <2>3, <3>2 DEF GarageRequestOK
  <2> QED
    BY <1>2, <2>1, <2>2, <2>4 DEF q
<1>6. CASE GarageRequestFails(r)
  <2>1. /\ wreq' = [wreq EXCEPT ![r] = GarageIdle]
        /\ wmissed' = [wmissed EXCEPT ![r] = {}]
        /\ UNCHANGED <<jobs, items, fuelLogs>>
    BY <1>6 DEF GarageRequestFails
  <2>2. /\ wmissed' \in [GarageRequests -> SUBSET (Jobs \cup Logs)]
        /\ \A x \in GarageRequests \ {r} : wmissed'[x] = wmissed[x]
    BY <1>1, <2>1
  <2>3. GarageRequestOK(r)'
    BY <1>1, <2>1 DEF GarageRequestOK, GarageIdle
  <2> QED
    BY <2>1, <2>2, <2>3, UnwrittenGarageInv
<1> QED
  BY <1>3, <1>4, <1>5, <1>6

\* What a write leaves to the requests that are in flight: rows are added and
\* never lost, and only x is touched.
LEMMA WrittenGarageInv ==
    ASSUME GarageInv, NEW r \in GarageRequests, NEW x \in Jobs \cup Logs, GarageWritten(r, x),
           DOMAIN jobs' \subseteq Jobs, DOMAIN jobs \subseteq DOMAIN jobs',
           jobs' \in [DOMAIN jobs' -> [status : WorkshopJobStatus, totalCost : Nat]],
           \A j \in DOMAIN jobs : j # x => jobs'[j] = jobs[j],
           DOMAIN items' \subseteq Items,
           items' \in [DOMAIN items' -> [job : Jobs, cost : Costs]],
           DOMAIN fuelLogs' \subseteq Logs,
           fuelLogs' \in [DOMAIN fuelLogs' -> [vehicle : Vehicles, odometer : Readings]],
           \A l \in DOMAIN fuelLogs' : l # x => l \in DOMAIN fuelLogs /\ fuelLogs'[l] = fuelLogs[l]
    PROVE  GarageInv'
<1>1. /\ \A y \in GarageRequests : wreq'[y] \in GarageRequest \cup {GarageIdle}
      /\ wreq' = [y \in GarageRequests |-> wreq'[y]]
      /\ wreq'[r] = GarageIdle /\ \A y \in GarageRequests \ {r} : wreq'[y] = wreq[y]
  BY GarageSlot DEF GarageWritten
<1>2. /\ wmissed' \in [GarageRequests -> SUBSET (Jobs \cup Logs)]
      /\ \A y \in GarageRequests \ {r} :
            wreq[y] # GarageIdle => wmissed'[y] = wmissed[y] \cup {x}
  BY DEF GarageWritten, GarageInv, GarageTypeOK
<1>3. GarageTypeOK'
  BY <1>1, <1>2 DEF GarageTypeOK
<1>4. ASSUME NEW y \in GarageRequests
      PROVE  GarageRequestOK(y)'
  <2>1. CASE wreq'[y] = GarageIdle
    BY <2>1 DEF GarageRequestOK, GarageIdle
  <2>2. CASE wreq'[y] # GarageIdle
    <3>1. y # r /\ wreq'[y] = wreq[y] /\ wmissed'[y] = wmissed[y] \cup {x}
      BY <1>1, <1>2, <2>2
    <3>2. GarageRequestOK(y)
      BY DEF GarageInv
    <3> QED
      BY <3>1, <3>2 DEF GarageRequestOK
  <2> QED
    BY <2>1, <2>2
<1> QED
  BY <1>1, <1>3, <1>4 DEF GarageInv

\* An item is committed with its cost.
LEMMA CommitItemInv ==
    ASSUME GarageInv, NEW r \in GarageRequests, CommitItem(r)
    PROVE  GarageInv'
<1>0. PICK q, j : q = wreq[r] /\ j = q.job
  OBVIOUS
<1>1. PICK i \in Items \ DOMAIN items :
        items' = Insert(items, i, [job |-> j, cost |-> q.cost])
  BY <1>0 DEF CommitItem
<1>2. /\ q.op = "item" /\ GarageWritten(r, j) /\ UNCHANGED fuelLogs
      /\ jobs' = [jobs EXCEPT ![j].totalCost = @ + q.cost]
  BY <1>0 DEF CommitItem
<1>3. j \in Jobs /\ q.cost \in Costs /\ q.cost \in Nat /\ j \in DOMAIN jobs
  BY <1>0, <1>2, GarageAssumption
     DEF GarageInv, GarageTypeOK, GarageRequest, GarageIdle, GarageRequestOK
<1>4. /\ jobs \in [DOMAIN jobs -> [status : WorkshopJobStatus, totalCost : Nat]]
      /\ DOMAIN jobs \subseteq Jobs
      /\ DOMAIN items \subseteq Items /\ items \in [DOMAIN items -> [job : Jobs, cost : Costs]]
      /\ DOMAIN fuelLogs \subseteq Logs
      /\ fuelLogs \in [DOMAIN fuelLogs -> [vehicle : Vehicles, odometer : Readings]]
  BY DEF GarageInv, GarageTypeOK
<1> DEFINE row == [jobs[j] EXCEPT !.totalCost = @ + q.cost]
<1>5. row \in [status : WorkshopJobStatus, totalCost : Nat]
  <2>1. jobs[j] \in [status : WorkshopJobStatus, totalCost : Nat]
    BY <1>3, <1>4
  <2> QED
    BY <1>3, <2>1
<1>6. jobs' = [jobs EXCEPT ![j] = row]
  BY <1>2
<1> HIDE DEF row
<1>7. /\ DOMAIN jobs' = DOMAIN jobs
      /\ jobs' \in [DOMAIN jobs' -> [status : WorkshopJobStatus, totalCost : Nat]]
      /\ \A y \in DOMAIN jobs : y # j => jobs'[y] = jobs[y]
  BY <1>4, <1>5, <1>6
<1>8. DOMAIN items' \subseteq Items /\ items' \in [DOMAIN items' -> [job : Jobs, cost : Costs]]
  BY <1>1, <1>3, <1>4 DEF Insert
<1> QED
  BY <1>2, <1>3, <1>4, <1>7, <1>8, WrittenGarageInv

\* A status is written by id alone.
LEMMA WriteStatusInv ==
    ASSUME GarageInv, NEW r \in GarageRequests, WriteStatus(r)
    PROVE  GarageInv'
<1>0. PICK q, j : q = wreq[r] /\ j = q.job
  OBVIOUS
<1>1. /\ q.op = "status" /\ GarageWritten(r, j) /\ UNCHANGED <<items, fuelLogs>>
      /\ jobs' = [jobs EXCEPT ![j].status = q.status]
  BY <1>0 DEF WriteStatus
<1>2. j \in Jobs /\ q.status \in WorkshopJobStatus /\ j \in DOMAIN jobs
  BY <1>0, <1>1 DEF GarageInv, GarageTypeOK, GarageRequest, GarageIdle, GarageRequestOK
<1>3. /\ jobs \in [DOMAIN jobs -> [status : WorkshopJobStatus, totalCost : Nat]]
      /\ DOMAIN jobs \subseteq Jobs
      /\ DOMAIN items \subseteq Items /\ items \in [DOMAIN items -> [job : Jobs, cost : Costs]]
      /\ DOMAIN fuelLogs \subseteq Logs
      /\ fuelLogs \in [DOMAIN fuelLogs -> [vehicle : Vehicles, odometer : Readings]]
  BY DEF GarageInv, GarageTypeOK
<1> DEFINE row == [jobs[j] EXCEPT !.status = q.status]
<1>4. row \in [status : WorkshopJobStatus, totalCost : Nat]
  <2>1. jobs[j] \in [status : WorkshopJobStatus, totalCost : Nat]
    BY <1>2, <1>3
  <2> QED
    BY <1>2, <2>1
<1>5. jobs' = [jobs EXCEPT ![j] = row]
  BY <1>1
<1> HIDE DEF row
<1>6. /\ DOMAIN jobs' = DOMAIN jobs
      /\ jobs' \in [DOMAIN jobs' -> [status : WorkshopJobStatus, totalCost : Nat]]
      /\ \A y \in DOMAIN jobs : y # j => jobs'[y] = jobs[y]
  BY <1>3, <1>4, <1>5
<1> QED
  BY <1>1, <1>2, <1>3, <1>6, WrittenGarageInv

\* A fuel log is inserted as it was accepted.
LEMMA InsertLogInv ==
    ASSUME GarageInv, NEW r \in GarageRequests, InsertLog(r)
    PROVE  GarageInv'
<1>0. PICK q : q = wreq[r]
  OBVIOUS
<1>1. PICK l \in Logs \ DOMAIN fuelLogs :
        /\ fuelLogs' = Insert(fuelLogs, l, [vehicle |-> q.vehicle, odometer |-> q.odometer])
        /\ GarageWritten(r, l)
  BY <1>0 DEF InsertLog
<1>2. q.op = "fuel" /\ UNCHANGED <<jobs, items>>
  BY <1>0 DEF InsertLog
<1>3. q.vehicle \in Vehicles /\ q.odometer \in Readings
  BY <1>0, <1>2 DEF GarageInv, GarageTypeOK, GarageRequest, GarageIdle
<1>4. /\ jobs \in [DOMAIN jobs -> [status : WorkshopJobStatus, totalCost : Nat]]
      /\ DOMAIN jobs \subseteq Jobs
      /\ DOMAIN items \subseteq Items /\ items \in [DOMAIN items -> [job : Jobs, cost : Costs]]
      /\ DOMAIN fuelLogs \subseteq Logs
      /\ fuelLogs \in [DOMAIN fuelLogs -> [vehicle : Vehicles, odometer : Readings]]
  BY DEF GarageInv, GarageTypeOK
<1> DEFINE row == [vehicle |-> q.vehicle, odometer |-> q.odometer]
<1>5. row \in [vehicle : Vehicles, odometer : Readings]
  BY <1>3
<1>6. fuelLogs' = Insert(fuelLogs, l, row)
  BY <1>1
<1> HIDE DEF row
<1>7. /\ DOMAIN fuelLogs' \subseteq Logs
      /\ fuelLogs' \in [DOMAIN fuelLogs' -> [vehicle : Vehicles, odometer : Readings]]
      /\ \A y \in DOMAIN fuelLogs' : y # l => y \in DOMAIN fuelLogs /\ fuelLogs'[y] = fuelLogs[y]
  BY <1>1, <1>4, <1>5, <1>6 DEF Insert
<1> QED
  BY <1>1, <1>2, <1>4, <1>7, WrittenGarageInv

\* Every step of the workshop and the fuel log keeps their invariant.
LEMMA GarageNextInv ==
    ASSUME GarageInv, GarageNext
    PROVE  GarageInv'
<1>1. CASE CreateJob
  <2>1. PICK j \in Jobs \ DOMAIN jobs :
          jobs' = Insert(jobs, j, [status |-> "OPEN", totalCost |-> 0])
    BY <1>1 DEF CreateJob
  <2>2. UNCHANGED <<items, fuelLogs, wreq, wmissed>>
    BY <1>1 DEF CreateJob
  <2> DEFINE row == [status |-> "OPEN", totalCost |-> 0]
  <2>3. row \in [status : WorkshopJobStatus, totalCost : Nat]
    BY DEF WorkshopJobStatus
  <2>4. jobs' = Insert(jobs, j, row)
    BY <2>1
  <2> HIDE DEF row
  <2>5. /\ DOMAIN jobs' \subseteq Jobs /\ DOMAIN jobs \subseteq DOMAIN jobs'
        /\ jobs' \in [DOMAIN jobs' -> [status : WorkshopJobStatus, totalCost : Nat]]
        /\ \A y \in DOMAIN jobs : jobs'[y] = jobs[y]
    BY <2>1, <2>3, <2>4 DEF GarageInv, GarageTypeOK, Insert
  <2>6. GarageTypeOK'
    BY <2>2, <2>5 DEF GarageInv, GarageTypeOK
  <2>7. \A r \in GarageRequests : GarageRequestOK(r)'
    BY <2>2, <2>5 DEF GarageInv, GarageRequestOK
  <2> QED
    BY <2>2, <2>6, <2>7 DEF GarageInv
<1>2. ASSUME NEW r \in GarageRequests,
             \/ AddItem(r) \/ CommitItem(r)
             \/ UpdateStatus(r) \/ WriteStatus(r)
             \/ AddLog(r) \/ InsertLog(r)
             \/ GarageRequestFails(r)
      PROVE  GarageInv'
  BY <1>2, AcceptGarageInv, CommitItemInv, WriteStatusInv, InsertLogInv
<1> QED
  BY <1>1, <1>2 DEF GarageNext

\* Steps of other components leave it alone.
LEMMA UnchangedGarageInv ==
    ASSUME GarageInv, UNCHANGED garageVars
    PROVE  GarageInv'
BY DEF garageVars, GarageInv, GarageTypeOK, GarageRequestOK

----------------------------------------------------------------------------
(***************************************************************************)
(* The totals of the jobs.  A total is a fold over the items of a job, and *)
(* the fold takes them in the order in which CHOOSE picks them.            *)
(***************************************************************************)

\* The fold of the community modules, as the table that its LET defines.
LEMMA CostOfTable == \A w, S : CostOf(w, S) = CostTable(w, S)[S]
BY DEF CostOf, MapThenSumSet, MapThenFoldSet, CostTable, Picked

\* Induction over the subsets of a finite set: strict inclusion is well founded on
\* them.
LEMMA SubsetInduction ==
    ASSUME NEW X, IsFiniteSet(X), NEW Good \in SUBSET SUBSET X,
           \A T \in SUBSET X : (\A U \in SUBSET T : U # T => U \in Good) => T \in Good
    PROVE  \A T \in SUBSET X : T \in Good
<1>1. IsWellFoundedOn(StrictSubsetOrdering(X), FiniteSubsetsOf(X)) /\ FiniteSubsetsOf(X) = SUBSET X
  BY FS_StrictSubsetOrderingWellFounded, FS_FiniteSubsetsOfFinite
<1> SUFFICES ASSUME (SUBSET X) \ Good # {} PROVE FALSE
  OBVIOUS
<1>2. PICK T \in (SUBSET X) \ Good : \A U \in (SUBSET X) \ Good : <<U, T>> \notin StrictSubsetOrdering(X)
  <2> DEFINE R == StrictSubsetOrdering(X)
             Z == (SUBSET X) \ Good
  <2>1. IsWellFoundedOn(R, SUBSET X) /\ Z \subseteq SUBSET X /\ Z # {}
    BY <1>1
  <2> HIDE DEF R, Z
  <2>2. \E x \in Z : \A y \in Z : ~(<<y, x>> \in R)
    BY <2>1, WFMin
  <2> QED
    BY <2>2 DEF R, Z
<1>3. \A U \in SUBSET T : U # T => U \in Good
  BY <1>2 DEF StrictSubsetOrdering
<1> QED
  BY <1>2, <1>3

\* The table exists: a sum is the cost of the element that CHOOSE picks and the sum
\* of the rest.
LEMMA CostOfStep ==
    ASSUME NEW X, IsFiniteSet(X), NEW w
    PROVE  \A T \in SUBSET X :
             CostOf(w, T) = IF T = {} THEN 0 ELSE w[Picked(T)].cost + CostOf(w, T \ {Picked(T)})
<1> DEFINE Step(T, f) == [s \in SUBSET T |-> IF s = {} THEN 0 ELSE w[Picked(s)].cost + f[s \ {Picked(s)}]]
           F(T) == CostTable(w, T)
           Good == {T \in SUBSET X : /\ F(T) = Step(T, F(T))
                                     /\ \A U \in SUBSET T : F(T)[U] = F(U)[U]}
<1>0. \A s : s # {} => Picked(s) \in s
  BY DEF Picked
<1>1. ASSUME NEW T \in SUBSET X, \A U \in SUBSET T : U # T => U \in Good
      PROVE  T \in Good
  <2> DEFINE g == [s \in SUBSET T |-> IF s = {} THEN 0 ELSE w[Picked(s)].cost + F(s \ {Picked(s)})[s \ {Picked(s)}]]
  <2>1. \A U \in SUBSET T : U # T => g[U] = F(U)[U]
    <3> SUFFICES ASSUME NEW U \in SUBSET T, U # T PROVE g[U] = F(U)[U]
      OBVIOUS
    <3>1. F(U) = Step(U, F(U)) /\ \A V \in SUBSET U : F(U)[V] = F(V)[V]
      BY <1>1
    <3>2. F(U)[U] = IF U = {} THEN 0 ELSE w[Picked(U)].cost + F(U)[U \ {Picked(U)}]
      <4> HIDE DEF F
      <4> QED
        BY <3>1
    <3>3. F(U)[U \ {Picked(U)}] = F(U \ {Picked(U)})[U \ {Picked(U)}]
      BY <3>1
    <3> HIDE DEF F
    <3> QED
      BY <3>2, <3>3
  <2>2. g = Step(T, g)
    <3> SUFFICES ASSUME NEW s \in SUBSET T, s # {}
                 PROVE  F(s \ {Picked(s)})[s \ {Picked(s)}] = g[s \ {Picked(s)}]
      OBVIOUS
    <3> HIDE DEF g, F
    <3> QED
      BY <2>1, <1>0
  <2>3. F(T) = Step(T, F(T))
    <3> HIDE DEF g
    <3> QED
      BY <2>2 DEF CostTable
  <2>4. \A U \in SUBSET T : F(T)[U] = g[U]
    <3> DEFINE Same == {U \in SUBSET T : F(T)[U] = g[U]}
    <3>1. ASSUME NEW U \in SUBSET T, \A V \in SUBSET U : V # U => V \in Same
          PROVE  U \in Same
      <4> HIDE DEF g, F
      <4>1. F(T)[U] = IF U = {} THEN 0 ELSE w[Picked(U)].cost + F(T)[U \ {Picked(U)}]
        BY <2>3
      <4>2. g[U] = IF U = {} THEN 0 ELSE w[Picked(U)].cost + g[U \ {Picked(U)}]
        BY <2>2
      <4>3. U # {} => F(T)[U \ {Picked(U)}] = g[U \ {Picked(U)}]
        BY <3>1, <1>0
      <4> QED
        BY <4>1, <4>2, <4>3
    <3>2. IsFiniteSet(T)
      BY FS_Subset
    <3> HIDE DEF Same
    <3>3. Same \in SUBSET SUBSET T
      BY DEF Same
    <3>4. \A U \in SUBSET T : U \in Same
      BY <3>1, <3>2, <3>3, SubsetInduction
    <3> QED
      BY <3>4 DEF Same
  <2>5. \A U \in SUBSET T : F(T)[U] = F(U)[U]
    <3> HIDE DEF g, F
    <3> QED
      BY <2>1, <2>4
  <2> HIDE DEF F, g
  <2> QED
    BY <2>3, <2>5
<1>2. \A T \in SUBSET X : T \in Good
  <2> HIDE DEF Good
  <2>1. Good \in SUBSET SUBSET X
    BY DEF Good
  <2> QED
    BY <1>1, <2>1, SubsetInduction
<1> SUFFICES ASSUME NEW T \in SUBSET X
             PROVE  CostOf(w, T) = IF T = {} THEN 0 ELSE w[Picked(T)].cost + CostOf(w, T \ {Picked(T)})
  OBVIOUS
<1>3. F(T) = Step(T, F(T)) /\ \A U \in SUBSET T : F(T)[U] = F(U)[U]
  BY <1>2
<1>4. CostOf(w, T) = F(T)[T] /\ CostOf(w, T \ {Picked(T)}) = F(T \ {Picked(T)})[T \ {Picked(T)}]
  BY CostOfTable
<1> HIDE DEF F
<1>5. F(T)[T] = IF T = {} THEN 0 ELSE w[Picked(T)].cost + F(T)[T \ {Picked(T)}]
  BY <1>3
<1> QED
  BY <1>3, <1>4, <1>5

\* Costs add up to a number.
LEMMA CostOfNat ==
    ASSUME NEW X, IsFiniteSet(X), NEW w, \A i \in X : w[i].cost \in Nat
    PROVE  \A T \in SUBSET X : CostOf(w, T) \in Nat
<1>0. \A T \in SUBSET X :
        CostOf(w, T) = IF T = {} THEN 0 ELSE w[Picked(T)].cost + CostOf(w, T \ {Picked(T)})
  BY CostOfStep
<1> DEFINE Good == {T \in SUBSET X : CostOf(w, T) \in Nat}
<1>1. ASSUME NEW T \in SUBSET X, \A U \in SUBSET T : U # T => U \in Good
      PROVE  T \in Good
  <2>1. T # {} => Picked(T) \in T
    BY DEF Picked
  <2>2. CostOf(w, T) = IF T = {} THEN 0 ELSE w[Picked(T)].cost + CostOf(w, T \ {Picked(T)})
    BY <1>0
  <2> QED
    BY <1>1, <2>1, <2>2
<1> HIDE DEF Good
<1>2. Good \in SUBSET SUBSET X
  BY DEF Good
<1>3. \A T \in SUBSET X : T \in Good
  BY <1>1, <1>2, SubsetInduction
<1> QED
  BY <1>3 DEF Good

\* The order in which CHOOSE picks the elements does not matter.
LEMMA CostOfMember ==
    ASSUME NEW X, IsFiniteSet(X), NEW w, \A i \in X : w[i].cost \in Nat
    PROVE  \A T \in SUBSET X : \A x \in T : CostOf(w, T) = w[x].cost + CostOf(w, T \ {x})
<1>0. \A T \in SUBSET X :
        CostOf(w, T) = IF T = {} THEN 0 ELSE w[Picked(T)].cost + CostOf(w, T \ {Picked(T)})
  BY CostOfStep
<1> DEFINE Good == {T \in SUBSET X : \A x \in T : CostOf(w, T) = w[x].cost + CostOf(w, T \ {x})}
<1>1. ASSUME NEW T \in SUBSET X, \A U \in SUBSET T : U # T => U \in Good
      PROVE  T \in Good
  <2> SUFFICES ASSUME NEW x \in T PROVE CostOf(w, T) = w[x].cost + CostOf(w, T \ {x})
    OBVIOUS
  <2> DEFINE p == Picked(T)
  <2>0. p \in T
    BY DEF Picked
  <2>1. p \in T /\ CostOf(w, T) = w[p].cost + CostOf(w, T \ {p})
    <3>1. CostOf(w, T) = IF T = {} THEN 0 ELSE w[Picked(T)].cost + CostOf(w, T \ {Picked(T)})
      BY <1>0
    <3> QED
      BY <2>0, <3>1
  <2>2. CASE x = p
    BY <2>1, <2>2
  <2>3. CASE x # p
    <3> HIDE DEF p
    <3> DEFINE rest == (T \ {p}) \ {x}
    <3>1. CostOf(w, T \ {p}) = w[x].cost + CostOf(w, rest)
      BY <1>1, <2>1, <2>3
    <3>2. rest = (T \ {x}) \ {p}
      OBVIOUS
    <3>3. CostOf(w, T \ {x}) = w[p].cost + CostOf(w, rest)
      BY <1>1, <2>1, <2>3, <3>2
    <3>4. CostOf(w, rest) \in Nat /\ w[x].cost \in Nat /\ w[p].cost \in Nat
      BY <2>1, CostOfNat
    <3> HIDE DEF rest
    <3> QED
      BY <2>1, <3>1, <3>3, <3>4
  <2> QED
    BY <2>2, <2>3
<1> HIDE DEF Good
<1>2. Good \in SUBSET SUBSET X
  BY DEF Good
<1>3. \A T \in SUBSET X : T \in Good
  BY <1>1, <1>2, SubsetInduction
<1> QED
  BY <1>3 DEF Good

\* A sum depends on the costs of its elements only.
LEMMA CostOfSame ==
    ASSUME NEW X, IsFiniteSet(X), NEW w, NEW u, \A i \in X : w[i].cost = u[i].cost
    PROVE  \A T \in SUBSET X : CostOf(w, T) = CostOf(u, T)
<1> DEFINE Good == {T \in SUBSET X : CostOf(w, T) = CostOf(u, T)}
<1>1. ASSUME NEW T \in SUBSET X, \A U \in SUBSET T : U # T => U \in Good
      PROVE  T \in Good
  <2>1. T # {} => Picked(T) \in T
    BY DEF Picked
  <2>2. CostOf(w, T) = IF T = {} THEN 0 ELSE w[Picked(T)].cost + CostOf(w, T \ {Picked(T)})
    BY CostOfStep
  <2>3. CostOf(u, T) = IF T = {} THEN 0 ELSE u[Picked(T)].cost + CostOf(u, T \ {Picked(T)})
    BY CostOfStep
  <2> QED
    BY <1>1, <2>1, <2>2, <2>3
<1> HIDE DEF Good
<1>2. Good \in SUBSET SUBSET X
  BY DEF Good
<1>3. \A T \in SUBSET X : T \in Good
  BY <1>1, <1>2, SubsetInduction
<1> QED
  BY <1>3 DEF Good

\* What the totals are, by CostOf.
LEMMA TotalsByCostOf ==
    /\ TotalIsSumOfItems <=>
         \A j \in DOMAIN jobs :
           jobs[j].totalCost = CostOf(items, {i \in DOMAIN items : items[i].job = j})
    /\ TotalIsSumOfItems' <=>
         \A j \in DOMAIN jobs' :
           jobs'[j].totalCost = CostOf(items', {i \in DOMAIN items' : items'[i].job = j})
<1>1. TotalIsSumOfItems <=>
         \A j \in DOMAIN jobs :
           jobs[j].totalCost = CostOf(items, {i \in DOMAIN items : items[i].job = j})
  BY DEF TotalIsSumOfItems, CostOf, MapThenSumSet, MapThenFoldSet
<1>2. TotalIsSumOfItems' <=>
         \A j \in DOMAIN jobs' :
           jobs'[j].totalCost = CostOf(items', {i \in DOMAIN items' : items'[i].job = j})
  BY DEF TotalIsSumOfItems, CostOf, MapThenSumSet, MapThenFoldSet
<1> QED
  BY <1>1, <1>2

\* No job and no item at first.
LEMMA TotalsInvInit ==
    ASSUME GarageInit
    PROVE  TotalsInv
<1>1. DOMAIN jobs = {} /\ DOMAIN items = {}
  BY DEF GarageInit
<1> QED
  BY <1>1, FS_EmptySet DEF TotalsInv, TotalIsSumOfItems

\* A step that adds no item: a new job has none, and no total is written.
LEMMA SameItemsTotalsInv ==
    ASSUME TotalsInv, items' = items, DOMAIN jobs \subseteq DOMAIN jobs',
           \A j \in DOMAIN jobs : jobs'[j].totalCost = jobs[j].totalCost,
           \A j \in DOMAIN jobs' \ DOMAIN jobs : jobs'[j].totalCost = 0
    PROVE  TotalsInv'
<1>1. \A j \in DOMAIN jobs :
        jobs[j].totalCost = CostOf(items, {i \in DOMAIN items : items[i].job = j})
  BY TotalsByCostOf DEF TotalsInv
<1>2. CostOf(items, {}) = 0
  BY CostOfStep, FS_EmptySet
<1>3. ASSUME NEW j \in DOMAIN jobs'
      PROVE  jobs'[j].totalCost = CostOf(items, {i \in DOMAIN items : items[i].job = j})
  <2>1. CASE j \in DOMAIN jobs
    BY <1>1, <2>1
  <2>2. CASE j \notin DOMAIN jobs
    <3>1. {i \in DOMAIN items : items[i].job = j} = {}
      BY <2>2 DEF TotalsInv
    <3> QED
      BY <1>2, <2>2, <3>1
  <2> QED
    BY <2>1, <2>2
<1>4. TotalIsSumOfItems'
  BY <1>3, TotalsByCostOf
<1> QED
  BY <1>4 DEF TotalsInv

\* The increment is the cost of the item that the same transaction inserts.
LEMMA CommitItemTotalsInv ==
    ASSUME GarageInv, TotalsInv, NEW r \in GarageRequests, CommitItem(r)
    PROVE  TotalsInv'
<1>0. PICK q, j : q = wreq[r] /\ j = q.job
  OBVIOUS
<1>1. PICK i \in Items \ DOMAIN items :
        items' = Insert(items, i, [job |-> j, cost |-> q.cost])
  BY <1>0 DEF CommitItem
<1>2. q.op = "item" /\ jobs' = [jobs EXCEPT ![j].totalCost = @ + q.cost]
  BY <1>0 DEF CommitItem
<1>3. q.cost \in Nat /\ j \in DOMAIN jobs
  BY <1>0, <1>2, GarageAssumption
     DEF GarageInv, GarageTypeOK, GarageRequest, GarageIdle, GarageRequestOK
<1>4. /\ jobs \in [DOMAIN jobs -> [status : WorkshopJobStatus, totalCost : Nat]]
      /\ items \in [DOMAIN items -> [job : Jobs, cost : Costs]]
      /\ \A x \in DOMAIN items : items[x].cost \in Nat
  BY GarageAssumption DEF GarageInv, GarageTypeOK
<1>5. /\ DOMAIN jobs' = DOMAIN jobs
      /\ jobs'[j].totalCost = jobs[j].totalCost + q.cost
      /\ \A y \in DOMAIN jobs \ {j} : jobs'[y] = jobs[y]
  BY <1>2, <1>3, <1>4
<1>6. /\ DOMAIN items' = DOMAIN items \cup {i} /\ i \notin DOMAIN items
      /\ items'[i].job = j /\ items'[i].cost = q.cost
      /\ \A x \in DOMAIN items : items'[x] = items[x]
  BY <1>1 DEF Insert
<1>7. IsFiniteSet(DOMAIN items) /\ IsFiniteSet(DOMAIN items')
  BY <1>6, FS_AddElement DEF TotalsInv
<1>8. ASSUME NEW y \in DOMAIN jobs
      PROVE  jobs'[y].totalCost = CostOf(items', {x \in DOMAIN items' : items'[x].job = y})
  <2> DEFINE old == {x \in DOMAIN items : items[x].job = y}
             new == {x \in DOMAIN items' : items'[x].job = y}
  <2>1. jobs[y].totalCost = CostOf(items, old)
    BY TotalsByCostOf DEF TotalsInv
  <2>2. CostOf(items', old) = CostOf(items, old)
    BY <1>6, <1>7, CostOfSame
  <2>3. CASE y = j
    <3>1. i \in new /\ new \ {i} = old
      BY <1>6, <2>3
    <3>2. CostOf(items', new) = items'[i].cost + CostOf(items', new \ {i})
      <4>1. \A x \in DOMAIN items' : items'[x].cost \in Nat
        BY <1>3, <1>4, <1>6
      <4>2. new \in SUBSET DOMAIN items'
        OBVIOUS
      <4> HIDE DEF new
      <4> QED
        BY <1>7, <3>1, <4>1, <4>2, CostOfMember
    <3>3. jobs[y].totalCost \in Nat
      BY <1>4
    <3> HIDE DEF old, new
    <3>4. CostOf(items', new) = q.cost + jobs[y].totalCost
      BY <1>6, <2>1, <2>2, <3>1, <3>2
    <3>5. jobs'[y].totalCost = jobs[y].totalCost + q.cost
      BY <1>5, <2>3
    <3>6. jobs'[y].totalCost = CostOf(items', new)
      BY <1>3, <3>3, <3>4, <3>5
    <3> QED
      BY <3>6 DEF new
  <2>4. CASE y # j
    <3>1. new = old
      BY <1>6, <2>4
    <3> QED
      BY <1>5, <2>1, <2>2, <2>4, <3>1
  <2> QED
    BY <2>3, <2>4
<1>9. TotalIsSumOfItems'
  BY <1>5, <1>8, TotalsByCostOf
<1> QED
  BY <1>3, <1>5, <1>6, <1>7, <1>9 DEF TotalsInv

\* Steps of other components leave the totals alone.
LEMMA UnchangedTotalsInv ==
    ASSUME TotalsInv, UNCHANGED garageVars
    PROVE  TotalsInv'
BY SameItemsTotalsInv DEF garageVars

\* Every step of the workshop and the fuel log keeps the totals.
LEMMA TotalsNextInv ==
    ASSUME GarageInv, TotalsInv, GarageNext
    PROVE  TotalsInv'
<1>1. CASE CreateJob
  <2>1. PICK j \in Jobs \ DOMAIN jobs :
          jobs' = Insert(jobs, j, [status |-> "OPEN", totalCost |-> 0])
    BY <1>1 DEF CreateJob
  <2>2. items' = items
    BY <1>1 DEF CreateJob
  <2> QED
    BY <2>1, <2>2, SameItemsTotalsInv DEF Insert
<1>2. ASSUME NEW r \in GarageRequests, WriteStatus(r)
      PROVE  TotalsInv'
  <2>1. jobs \in [DOMAIN jobs -> [status : WorkshopJobStatus, totalCost : Nat]]
    BY DEF GarageInv, GarageTypeOK
  <2>2. /\ DOMAIN jobs' = DOMAIN jobs /\ items' = items
        /\ \A j \in DOMAIN jobs : jobs'[j].totalCost = jobs[j].totalCost
    BY <1>2, <2>1 DEF WriteStatus
  <2> QED
    BY <2>2, SameItemsTotalsInv
<1>3. ASSUME NEW r \in GarageRequests,
             AddItem(r) \/ UpdateStatus(r) \/ AddLog(r) \/ InsertLog(r) \/ GarageRequestFails(r)
      PROVE  TotalsInv'
  <2>1. UNCHANGED <<jobs, items>>
    BY <1>3 DEF AddItem, UpdateStatus, AddLog, AcceptGarage, InsertLog, GarageRequestFails
  <2> QED
    BY <2>1, SameItemsTotalsInv
<1> QED
  BY <1>1, <1>2, <1>3, CommitItemTotalsInv DEF GarageNext

----------------------------------------------------------------------------
(***************************************************************************)
(* Passwords                                                               *)
(***************************************************************************)

\* No request is in flight at first.
LEMMA PasswordsInvInit ==
    ASSUME PasswordsInit
    PROVE  PasswordsInv
BY DEF PasswordsInit, PasswordsInv, PasswordsTypeOK

\* A step that writes no password: the handler in slot r starts, moves on or
\* returns.
LEMMA UnwrittenPasswordsInv ==
    ASSUME PasswordsInv, NEW r \in PasswordRequests, UNCHANGED password,
           NEW q \in PasswordRequest \cup {PasswordIdle}, preq' = [preq EXCEPT ![r] = q],
           pmissed' \in [PasswordRequests -> SUBSET People],
           \A x \in PasswordRequests \ {r} : pmissed'[x] = pmissed[x],
           q # PasswordIdle => PasswordRequestOK(r)'
    PROVE  PasswordsInv'
<1>1. /\ preq' \in [PasswordRequests -> PasswordRequest \cup {PasswordIdle}]
      /\ preq'[r] = q /\ \A x \in PasswordRequests \ {r} : preq'[x] = preq[x]
  BY DEF PasswordsInv, PasswordsTypeOK
<1>2. PasswordsTypeOK'
  BY <1>1 DEF PasswordsInv, PasswordsTypeOK
<1>3. \A x \in PasswordRequests : preq'[x] # PasswordIdle => PasswordRequestOK(x)'
  BY <1>1 DEF PasswordsInv, PasswordRequestOK
<1> QED
  BY <1>2, <1>3 DEF PasswordsInv

\* A handler that returns forgets what it read.
LEMMA PasswordReturnsInv ==
    ASSUME PasswordsInv, NEW r \in PasswordRequests, PasswordReturns(r), UNCHANGED password
    PROVE  PasswordsInv'
<1>1. /\ pmissed' \in [PasswordRequests -> SUBSET People]
      /\ \A x \in PasswordRequests \ {r} : pmissed'[x] = pmissed[x]
  BY DEF PasswordReturns, PasswordsInv, PasswordsTypeOK
<1> QED
  BY <1>1, UnwrittenPasswordsInv DEF PasswordReturns

\* A change and a reset start from the password of the row they read.
LEMMA AcceptPasswordInv ==
    ASSUME PasswordsInv, NEW r \in PasswordRequests, ChangePassword(r) \/ ResetPassword(r)
    PROVE  PasswordsInv'
<1>1. ASSUME NEW pc \in {"compare", "write"}, NEW u \in People,
             NEW known \in Words \cup {None}, NEW new \in Words,
             pc = "write" => known = None,
             AcceptPassword(r, pc, u, known, new)
      PROVE  PasswordsInv'
  <2> DEFINE q == [pc |-> pc, user |-> u, read |-> password[u], known |-> known, new |-> new]
  <2>1. /\ password \in [People -> Words]
        /\ preq \in [PasswordRequests -> PasswordRequest \cup {PasswordIdle}]
        /\ pmissed \in [PasswordRequests -> SUBSET People]
    BY DEF PasswordsInv, PasswordsTypeOK
  <2>2. /\ q \in PasswordRequest
        /\ q.pc = pc /\ q.user = u /\ q.read = password[u] /\ q.known = known
    BY <2>1 DEF PasswordRequest
  <2>3. preq' = [preq EXCEPT ![r] = q] /\ UNCHANGED <<password, pmissed>>
    BY <1>1 DEF AcceptPassword
  <2> HIDE DEF q
  <2>4. PasswordRequestOK(r)'
    BY <1>1, <2>1, <2>2, <2>3 DEF PasswordRequestOK
  <2> QED
    BY <2>1, <2>2, <2>3, <2>4, UnwrittenPasswordsInv
<1> QED
  BY <1>1 DEF ChangePassword, ResetPassword

\* Past the comparison, what the caller knows is what the row held.
LEMMA ComparePasswordInv ==
    ASSUME PasswordsInv, NEW r \in PasswordRequests, ComparePassword(r)
    PROVE  PasswordsInv'
<1>0. PICK q : q = preq[r]
  OBVIOUS
<1>1. /\ preq \in [PasswordRequests -> PasswordRequest \cup {PasswordIdle}]
      /\ pmissed \in [PasswordRequests -> SUBSET People]
  BY DEF PasswordsInv, PasswordsTypeOK
<1>2. q.pc = "compare" /\ q \in PasswordRequest /\ PasswordRequestOK(r)
  BY <1>0, <1>1 DEF ComparePassword, PasswordIdle, PasswordsInv
<1>3. CASE q.known = q.read /\ q.new # q.known
  <2> DEFINE p == [q EXCEPT !.pc = "write"]
  <2>1. /\ p \in PasswordRequest
        /\ p.pc = "write" /\ p.user = q.user /\ p.read = q.read /\ p.known = q.known
    BY <1>2 DEF PasswordRequest
  <2>2. preq' = [preq EXCEPT ![r] = p] /\ UNCHANGED <<password, pmissed>>
    BY <1>0, <1>3 DEF ComparePassword
  <2> HIDE DEF p
  <2>3. PasswordRequestOK(r)'
    BY <1>0, <1>1, <1>2, <1>3, <2>1, <2>2 DEF PasswordRequestOK
  <2> QED
    BY <1>1, <2>1, <2>2, <2>3, UnwrittenPasswordsInv
<1>4. CASE ~(q.known = q.read /\ q.new # q.known)
  BY <1>0, <1>4, PasswordReturnsInv DEF ComparePassword
<1> QED
  BY <1>3, <1>4

\* Whoever has read the password that is replaced has missed that.
LEMMA WritePasswordInv ==
    ASSUME PasswordsInv, NEW r \in PasswordRequests, WritePassword(r)
    PROVE  PasswordsInv'
<1>0. PICK q : q = preq[r]
  OBVIOUS
<1>1. /\ password \in [People -> Words]
      /\ preq \in [PasswordRequests -> PasswordRequest \cup {PasswordIdle}]
      /\ pmissed \in [PasswordRequests -> SUBSET People]
  BY DEF PasswordsInv, PasswordsTypeOK
<1>2. q.pc = "write" /\ q.user \in People /\ q.new \in Words
  BY <1>0, <1>1 DEF WritePassword, PasswordIdle, PasswordRequest
<1>3. /\ password' = [password EXCEPT ![q.user] = q.new]
      /\ preq' = [preq EXCEPT ![r] = PasswordIdle]
      /\ pmissed' = [s \in PasswordRequests |->
                       IF s # r /\ preq[s] # PasswordIdle THEN pmissed[s] \cup {q.user} ELSE {}]
  BY <1>0 DEF WritePassword
<1>4. PasswordsTypeOK'
  BY <1>1, <1>2, <1>3 DEF PasswordsTypeOK
<1>5. ASSUME NEW x \in PasswordRequests, preq'[x] # PasswordIdle
      PROVE  PasswordRequestOK(x)'
  <2>1. x # r /\ preq'[x] = preq[x] /\ pmissed'[x] = pmissed[x] \cup {q.user}
    BY <1>1, <1>3, <1>5
  <2>2. PasswordRequestOK(x)
    BY <1>5, <2>1 DEF PasswordsInv
  <2>3. \A u : u # q.user => password'[u] = password[u]
    BY <1>1, <1>3
  <2> QED
    BY <2>1, <2>2, <2>3 DEF PasswordRequestOK
<1> QED
  BY <1>4, <1>5 DEF PasswordsInv

\* Every step of the passwords keeps their invariant.
LEMMA PasswordsNextInv ==
    ASSUME PasswordsInv, PasswordsNext
    PROVE  PasswordsInv'
BY AcceptPasswordInv, ComparePasswordInv, WritePasswordInv, PasswordReturnsInv
   DEF PasswordsNext, PasswordRequestFails

\* Steps of other components leave it alone.
LEMMA UnchangedPasswordsInv ==
    ASSUME PasswordsInv, UNCHANGED passwordVars
    PROVE  PasswordsInv'
BY DEF passwordVars, PasswordsInv, PasswordsTypeOK, PasswordRequestOK

----------------------------------------------------------------------------
(***************************************************************************)
(* The office                                                              *)
(***************************************************************************)

\* The parts' invariants hold together: a step of one leaves the others alone.
THEOREM OfficeInvariant == Spec => []OfficeInv
<1>1. Init => OfficeInv
  BY DirectoryInvInit, FeaturesInvInit, GarageInvInit, TotalsInvInit, PasswordsInvInit
     DEF Init, OfficeInv
<1>2. OfficeInv /\ [Next]_vars => OfficeInv'
  <2> SUFFICES ASSUME OfficeInv, [Next]_vars
               PROVE  OfficeInv'
    OBVIOUS
  <2> USE DEF OfficeInv
  <2>1. CASE BranchesAct
    BY <2>1, BranchesNextInv, UnchangedFeaturesInv, UnchangedGarageInv, UnchangedTotalsInv,
       UnchangedPasswordsInv
       DEF BranchesAct
  <2>2. CASE MembersAct
    BY <2>2, MembersNextInv, UnchangedFeaturesInv, UnchangedGarageInv, UnchangedTotalsInv,
       UnchangedPasswordsInv
       DEF MembersAct
  <2>3. CASE ContractsAct
    BY <2>3, ContractsNextInv, UnchangedFeaturesInv, UnchangedGarageInv, UnchangedTotalsInv,
       UnchangedPasswordsInv
       DEF ContractsAct
  <2>4. CASE FeaturesAct
    BY <2>4, UnchangedDirectoryInv, FeaturesNextInv, UnchangedGarageInv, UnchangedTotalsInv,
       UnchangedPasswordsInv
       DEF FeaturesAct
  <2>5. CASE GarageAct
    BY <2>5, UnchangedDirectoryInv, UnchangedFeaturesInv, GarageNextInv, TotalsNextInv,
       UnchangedPasswordsInv
       DEF GarageAct
  <2>6. CASE PasswordsAct
    BY <2>6, UnchangedDirectoryInv, UnchangedFeaturesInv, UnchangedGarageInv,
       UnchangedTotalsInv, PasswordsNextInv
       DEF PasswordsAct
  <2>7. CASE UNCHANGED vars
    BY <2>7, UnchangedDirectoryInv, UnchangedFeaturesInv, UnchangedGarageInv,
       UnchangedTotalsInv, UnchangedPasswordsInv DEF vars
  <2> QED
    BY <2>1, <2>2, <2>3, <2>4, <2>5, <2>6, <2>7 DEF Next
<1> QED
  BY <1>1, <1>2, PTL DEF Spec

\* Every table, slot and history of the office has its type.
THEOREM OfficeTypeCorrect == Spec => []TypeOK
<1>1. OfficeInv => TypeOK
  BY DEF OfficeInv, DirectoryInv, DirectoryTypeInv, FeaturesInv, GarageInv, PasswordsInv, TypeOK
<1> QED
  BY <1>1, OfficeInvariant, PTL

\* Two live branches of a tenant share a name only when one was written while
\* the other's handler was between its first query and its write.
THEOREM NamesAreUnique == Spec => []SameNameOnlyByRace
<1>1. OfficeInv => SameNameOnlyByRace
  BY DEF OfficeInv, DirectoryInv
<1> QED
  BY <1>1, OfficeInvariant, PTL

\* No vehicle, driver or user stays linked to a removed branch, unless the link
\* was written by a request that was in flight during the removal.
THEOREM NoOrphans == Spec => []LinkToRemovedOnlyByRace
<1>1. OfficeInv => LinkToRemovedOnlyByRace
  BY DEF OfficeInv, DirectoryInv
<1> QED
  BY <1>1, OfficeInvariant, PTL

\* The branches, users and vehicles that a row refers to are of its tenant,
\* although each request looks up its own half of the row.
THEOREM ReferencesAreTenants == Spec => []ReferencesStayInTenant
<1>1. OfficeInv => ReferencesStayInTenant
  BY DEF OfficeInv, DirectoryInv, ReferencesStayInTenant
<1> QED
  BY <1>1, OfficeInvariant, PTL

\* What EntityValidator lets through is refused by the unique index only for a
\* row that was written since, or a removed member's.
THEOREM IndexRefusals == Spec => []IndexRefusesOnlyByRaceOrRemoved
<1>1. OfficeInv => IndexRefusesOnlyByRaceOrRemoved
  <2> SUFFICES ASSUME DirectoryInv, NEW r \in DirectoryRequests,
                      dreq[r].op \in {"createMember", "updateMember"}, dreq[r].todo = {},
                      dreq[r].key \in Keys, NEW m \in DOMAIN members \ {dreq[r].id},
                      members[m].kind = dreq[r].kind, members[m].key = dreq[r].key
               PROVE  members[m].deleted \/ m \in dmissed[r]
    BY DEF OfficeInv, IndexRefusesOnlyByRaceOrRemoved
  <2>1. DirectoryRequestOK(r)
    BY DEF DirectoryInv, DirectoryIdle
  <2> QED
    BY <2>1 DEF DirectoryRequestOK, MemberRequestOK, KeyHeld
<1> QED
  BY <1>1, OfficeInvariant, PTL

\* A contract ends after it starts, through partial updates that cross.
THEOREM ContractsAreInOrder == Spec => []ContractDatesInOrder
<1>1. OfficeInv => ContractDatesInOrder
  BY DEF OfficeInv, DirectoryInv
<1> QED
  BY <1>1, OfficeInvariant, PTL

\* FeatureGuard answers what the last call has set, until two calls have both
\* inserted the row of a feature.
THEOREM GuardIsObedient == Spec => []GuardObeysLastCall
<1>1. OfficeInv => GuardObeysLastCall
  BY DEF OfficeInv, FeaturesInv
<1> QED
  BY <1>1, OfficeInvariant, PTL

----------------------------------------------------------------------------
(***************************************************************************)
(* One request of the directory at a time: no row is missed and none races. *)
(***************************************************************************)
OneDirectoryRequest == \A q, r \in DirectoryRequests : q = r

SerialDirectoryInv ==
    /\ draced = {}
    /\ \A r \in DirectoryRequests : dmissed[r] = {}

\* A single slot is told of no write but its own.
LEMMA DirectoryNextSerialInv ==
    ASSUME OneDirectoryRequest, DirectoryTypeInv, SerialDirectoryInv,
           BranchesNext \/ MembersNext \/ ContractsNext
    PROVE  SerialDirectoryInv'
<1>1. ASSUME UNCHANGED <<draced, dmissed>>
      PROVE  SerialDirectoryInv'
  BY <1>1 DEF SerialDirectoryInv
<1>2. ASSUME NEW r \in DirectoryRequests, NEW request, Accept(r, request)
      PROVE  SerialDirectoryInv'
  BY <1>1, <1>2 DEF Accept
<1>3. ASSUME NEW r \in DirectoryRequests, Refused(r)
      PROVE  SerialDirectoryInv'
  BY <1>3 DEF Refused, DirectoryReturns, SerialDirectoryInv, DirectoryTypeInv
<1>4. ASSUME NEW r \in DirectoryRequests, NEW c, NEW ok, LookUp(r, c, ok)
      PROVE  SerialDirectoryInv'
  BY <1>1, <1>3, <1>4 DEF LookUp
<1>5. ASSUME NEW r \in DirectoryRequests, NEW ids, Written(r, ids)
      PROVE  SerialDirectoryInv'
  <2>1. draced' = draced \cup (ids \X ((dmissed[r] \cap Branches) \ ids))
    BY <1>5 DEF Written
  <2>2. \A q \in DirectoryRequests : dmissed'[q] = {}
    BY <1>5 DEF Written, OneDirectoryRequest
  <2> QED
    BY <2>1, <2>2 DEF SerialDirectoryInv
<1>6. CASE BranchesNext
  <2>1. PICK r \in DirectoryRequests :
             \/ CreateBranch(r) \/ UpdateBranch(r) \/ RemoveBranch(r)
             \/ CheckName(r)
             \/ InsertBranch(r) \/ WriteBranch(r) \/ DeleteBranch(r)
             \/ DirectoryRequestFails(r)
    BY <1>6 DEF BranchesNext
  <2>2. CASE CreateBranch(r) \/ UpdateBranch(r) \/ RemoveBranch(r)
    BY <1>2, <2>2 DEF CreateBranch, UpdateBranch, RemoveBranch
  <2>3. CASE CheckName(r)
    BY <1>4, <2>3 DEF CheckName
  <2>4. CASE InsertBranch(r) \/ WriteBranch(r) \/ DeleteBranch(r)
    BY <1>5, <2>4 DEF InsertBranch, WriteBranch, DeleteBranch
  <2>5. CASE DirectoryRequestFails(r)
    BY <1>3, <2>5 DEF DirectoryRequestFails
  <2> QED
    BY <2>1, <2>2, <2>3, <2>4, <2>5
<1>7. CASE MembersNext
  <2>1. PICK r \in DirectoryRequests :
             \/ CreateMember(r) \/ UpdateMember(r) \/ RemoveMember(r)
             \/ CheckKey(r) \/ CheckUser(r) \/ CheckNotDriver(r)
             \/ CheckBranch(r) \/ CheckLinks(r)
             \/ InsertMember(r) \/ WriteMember(r) \/ DeleteMember(r)
    BY <1>7 DEF MembersNext
  <2>2. CASE CreateMember(r) \/ UpdateMember(r) \/ RemoveMember(r)
    <3>1. CreateMember(r) => UNCHANGED <<draced, dmissed>>
      BY DEF CreateMember, Accept
    <3>2. UpdateMember(r) => UNCHANGED <<draced, dmissed>>
      BY DEF UpdateMember, Accept
    <3>3. RemoveMember(r) => UNCHANGED <<draced, dmissed>>
      BY DEF RemoveMember, Accept
    <3> QED
      BY <1>1, <2>2, <3>1, <3>2, <3>3
  <2>3. CASE CheckKey(r) \/ CheckUser(r) \/ CheckNotDriver(r) \/ CheckBranch(r)
             \/ CheckLinks(r)
    BY <1>4, <2>3 DEF CheckKey, CheckUser, CheckNotDriver, CheckBranch, CheckLinks
  <2>4. CASE InsertMember(r) \/ WriteMember(r) \/ DeleteMember(r)
    BY <1>3, <1>5, <2>4 DEF InsertMember, WriteMember, DeleteMember
  <2> QED
    BY <2>1, <2>2, <2>3, <2>4
<1>8. CASE ContractsNext
  <2>1. PICK r \in DirectoryRequests :
             \/ CreateContract(r) \/ CreateContractAndVehicle(r)
             \/ UpdateContract(r) \/ RemoveContract(r)
             \/ CheckContractVehicle(r)
             \/ InsertContract(r) \/ InsertContractAndVehicle(r)
             \/ WriteContract(r) \/ DeleteContract(r)
    BY <1>8 DEF ContractsNext
  <2>2. CASE \/ CreateContract(r) \/ CreateContractAndVehicle(r)
             \/ UpdateContract(r) \/ RemoveContract(r)
    <3>1. CreateContract(r) => UNCHANGED <<draced, dmissed>>
      BY DEF CreateContract, AcceptContract, Accept
    <3>2. CreateContractAndVehicle(r) => UNCHANGED <<draced, dmissed>>
      BY DEF CreateContractAndVehicle, AcceptContract, Accept
    <3>3. UpdateContract(r) => UNCHANGED <<draced, dmissed>>
      BY DEF UpdateContract, AcceptUpdate, AcceptContract, Accept
    <3>4. RemoveContract(r) => UNCHANGED <<draced, dmissed>>
      BY DEF RemoveContract, AcceptContract, Accept
    <3> QED
      BY <1>1, <2>2, <3>1, <3>2, <3>3, <3>4
  <2>3. CASE CheckContractVehicle(r)
    BY <1>4, <2>3 DEF CheckContractVehicle
  <2>4. CASE \/ InsertContract(r) \/ InsertContractAndVehicle(r)
             \/ WriteContract(r) \/ DeleteContract(r)
    BY <1>3, <1>5, <2>4 DEF InsertContract, InsertContractAndVehicle, WriteContract,
                            DeleteContract
  <2> QED
    BY <2>1, <2>2, <2>3, <2>4
<1> QED
  BY <1>6, <1>7, <1>8

\* "Prevent duplicate branch names within the same tenant" and "unlink resources from
\* branch first to avoid orphans": with one request of the directory at a time, live
\* branches of a tenant have names of their own and no member links to a removed one.
THEOREM TidyDirectory ==
    ASSUME OneDirectoryRequest
    PROVE  Spec => [](/\ \A a, b \in DOMAIN branches :
                             /\ a # b /\ branches[a].name # Empty
                             /\ FindBranch(a, branches[b].tenant)
                             /\ FindBranch(b, branches[b].tenant)
                             => branches[a].name # branches[b].name
                      /\ \A m \in DOMAIN members : \A b \in LinkedTo(m) :
                             ~branches[b].deleted)
<1>1. Init => SerialDirectoryInv
  BY DEF Init, DirectoryInit, SerialDirectoryInv
<1>2. OfficeInv /\ SerialDirectoryInv /\ [Next]_vars => SerialDirectoryInv'
  <2> SUFFICES ASSUME DirectoryTypeInv, SerialDirectoryInv, [Next]_vars
               PROVE  SerialDirectoryInv'
    BY DEF OfficeInv, DirectoryInv
  <2>1. CASE BranchesAct \/ MembersAct \/ ContractsAct
    BY <2>1, DirectoryNextSerialInv DEF BranchesAct, MembersAct, ContractsAct
  <2>2. CASE UNCHANGED directoryVars
    BY <2>2 DEF SerialDirectoryInv, directoryVars
  <2> QED
    BY <2>1, <2>2 DEF Next, FeaturesAct, GarageAct, PasswordsAct, vars
<1>3. OfficeInv /\ SerialDirectoryInv
        => /\ \A a, b \in DOMAIN branches :
                  /\ a # b /\ branches[a].name # Empty
                  /\ FindBranch(a, branches[b].tenant)
                  /\ FindBranch(b, branches[b].tenant)
                  => branches[a].name # branches[b].name
           /\ \A m \in DOMAIN members : \A b \in LinkedTo(m) :
                  ~branches[b].deleted
  <2> SUFFICES ASSUME SameNameOnlyByRace, LinkToRemovedOnlyByRace, draced = {}
               PROVE  /\ \A a, b \in DOMAIN branches :
                             /\ a # b /\ branches[a].name # Empty
                             /\ FindBranch(a, branches[b].tenant)
                             /\ FindBranch(b, branches[b].tenant)
                             => branches[a].name # branches[b].name
                      /\ \A m \in DOMAIN members : \A b \in LinkedTo(m) :
                             ~branches[b].deleted
    BY DEF OfficeInv, DirectoryInv, SerialDirectoryInv
  <2>1. \A a, b \in DOMAIN branches :
           /\ a # b /\ branches[a].name # Empty
           /\ FindBranch(a, branches[b].tenant)
           /\ FindBranch(b, branches[b].tenant)
           => branches[a].name # branches[b].name
    BY DEF SameNameOnlyByRace, Raced
  <2>2. \A m \in DOMAIN members : \A b \in LinkedTo(m) : ~branches[b].deleted
    BY DEF LinkToRemovedOnlyByRace, LinkedTo, Raced
  <2> QED
    BY <2>1, <2>2
<1> QED
  BY <1>1, <1>2, <1>3, OfficeInvariant, PTL DEF Spec

----------------------------------------------------------------------------
(***************************************************************************)
(* What a step of the office never does                                    *)
(***************************************************************************)

\* An update of a contract gives back a date that it does not carry only if the
\* row was written while it was in flight.
THEOREM DatesAreKept == Spec => DateLostOnlyByRace
<1>1. OfficeInv /\ [Next]_vars =>
        [\A r \in DirectoryRequests :
           Writes(r, "updateContract") /\ dreq'[r] = DirectoryIdle
           /\ dreq[r].id \notin dmissed[r]
           => LET c == dreq[r].id IN
              /\ "start" \notin dreq[r].given => contracts'[c].start = contracts[c].start
              /\ "end" \notin dreq[r].given => contracts'[c].end = contracts[c].end
        ]_contracts
  <2> SUFFICES ASSUME DirectoryInv, Next, ~UNCHANGED contracts, NEW r \in DirectoryRequests,
                      Writes(r, "updateContract"), dreq'[r] = DirectoryIdle,
                      dreq[r].id \notin dmissed[r]
               PROVE  LET c == dreq[r].id IN
                      /\ "start" \notin dreq[r].given => contracts'[c].start = contracts[c].start
                      /\ "end" \notin dreq[r].given => contracts'[c].end = contracts[c].end
    BY DEF OfficeInv, vars
  <2>0. PICK q, c : q = dreq[r] /\ c = q.id
    OBVIOUS
  <2>1. ContractsNext
    BY DEF Next, BranchesAct, MembersAct, ContractsAct, FeaturesAct, GarageAct, PasswordsAct
  <2>2. PICK x \in DirectoryRequests :
          InsertContract(x) \/ InsertContractAndVehicle(x) \/ WriteContract(x) \/ DeleteContract(x)
    <3>1. ASSUME NEW x \in DirectoryRequests,
                 \/ CreateContract(x) \/ CreateContractAndVehicle(x)
                 \/ UpdateContract(x) \/ RemoveContract(x) \/ CheckContractVehicle(x)
          PROVE  UNCHANGED contracts
      <4>1. CASE CreateContract(x)
        BY <4>1 DEF CreateContract, AcceptContract
      <4>2. CASE CreateContractAndVehicle(x)
        BY <4>2 DEF CreateContractAndVehicle, AcceptContract
      <4>3. CASE UpdateContract(x)
        BY <4>3 DEF UpdateContract, AcceptUpdate, AcceptContract
      <4>4. CASE RemoveContract(x)
        BY <4>4 DEF RemoveContract, AcceptContract
      <4>5. CASE CheckContractVehicle(x)
        BY <4>5 DEF CheckContractVehicle
      <4> QED
        BY <3>1, <4>1, <4>2, <4>3, <4>4, <4>5
    <3> QED
      BY <2>1, <3>1 DEF ContractsNext
  <2>3. dreq[r] # DirectoryIdle /\ dreq[r].op = "updateContract" /\ DirectoryRequestOK(r)
    BY DEF Writes, DirectoryIdle, DirectoryInv
  <2>4. x = r
    <3>1. x # r => dreq'[r] = dreq[r]
      BY <2>2 DEF InsertContract, InsertContractAndVehicle, WriteContract, DeleteContract,
           Written, Refused, DirectoryReturns, DirectoryInv, DirectoryTypeInv
    <3> QED
      BY <2>3, <3>1
  <2>5. WriteContract(r)
    BY <2>2, <2>3, <2>4 DEF InsertContract, InsertContractAndVehicle, DeleteContract, Writes
  <2>6. c \in DOMAIN contracts /\ contracts[c] \in Contract
    BY <2>0, <2>3 DEF DirectoryRequestOK, ContractRequestOK, DirectoryInv, DirectoryTypeInv,
                      ContractsTypeOK
  <2>7. contracts'[c].start = q.start /\ contracts'[c].end = q.end
    <3>1. contracts' = [contracts EXCEPT
           ![c].type = IF q.type = Absent THEN @ ELSE q.type,
           ![c].start = q.start,
           ![c].end = q.end,
           ![c].vehicle = IF q.vehicle = Absent THEN @ ELSE q.vehicle]
      BY <2>0, <2>5 DEF WriteContract
    <3> QED
      BY <2>6, <3>1 DEF Contract
  <2> QED
    BY <2>0, <2>3, <2>7 DEF DirectoryRequestOK, ContractRequestOK, DatesHeld
<1> QED
  BY <1>1, OfficeInvariant, PTL DEF Spec, DateLostOnlyByRace

\* A job's total is the sum of the costs of its items, whatever is added at once and
\* whatever fails.
THEOREM TotalsAddUp == Spec => []TotalIsSumOfItems
<1>1. OfficeInv => TotalIsSumOfItems
  BY DEF OfficeInv, TotalsInv
<1> QED
  BY <1>1, OfficeInvariant, PTL

\* An item is added to a completed job only if the job was completed between
\* the request's read and its commit.
THEOREM CompletedJobsTakeNoItems == Spec => ItemsAfterCompletionOnlyByRace
<1>1. OfficeInv /\ [Next]_vars =>
        [\A r \in GarageRequests :
             /\ wreq[r].op = "item" /\ wreq'[r] = GarageIdle
             /\ jobs[wreq[r].job].status = "COMPLETED"
          => wreq[r].job \in wmissed[r]]_items
  <2> SUFFICES ASSUME GarageInv, NEW r \in GarageRequests,
                      wreq[r].op = "item", jobs[wreq[r].job].status = "COMPLETED"
               PROVE  wreq[r].job \in wmissed[r]
    BY DEF OfficeInv
  <2> QED
    BY DEF GarageInv, GarageRequestOK
<1> QED
  BY <1>1, OfficeInvariant, PTL DEF Spec, ItemsAfterCompletionOnlyByRace

\* A reading is less than one on record only if that one was recorded between
\* the request's read and its insert.
THEOREM OdometersGoForward == Spec => OdometerBackOnlyByRace
<1>1. OfficeInv /\ [Next]_vars =>
        [\A r \in GarageRequests :
          wreq[r].op = "fuel" /\ wreq'[r] = GarageIdle
          => \A l \in DOMAIN fuelLogs :
                /\ fuelLogs[l].vehicle = wreq[r].vehicle
                /\ fuelLogs[l].odometer > wreq[r].odometer
                => l \in wmissed[r]]_fuelLogs
  <2> SUFFICES ASSUME GarageInv, NEW r \in GarageRequests, wreq[r].op = "fuel",
                      NEW l \in DOMAIN fuelLogs,
                      fuelLogs[l].vehicle = wreq[r].vehicle,
                      fuelLogs[l].odometer > wreq[r].odometer
               PROVE  l \in wmissed[r]
    BY DEF OfficeInv
  <2> QED
    BY DEF GarageInv, GarageRequestOK
<1> QED
  BY <1>1, OfficeInvariant, PTL DEF Spec, OdometerBackOnlyByRace

\* Who changes a password with the current one replaces the one it gave, or one
\* that was written since its read.
THEOREM PasswordsAreKnown == Spec => UnknownReplacedOnlyByRace
<1>1. OfficeInv /\ [Next]_vars =>
        [\A r \in PasswordRequests :
          /\ preq[r].pc = "write" /\ preq[r].known # None
          /\ preq'[r] = PasswordIdle
          => preq[r].known = password[preq[r].user] \/ preq[r].user \in pmissed[r]
        ]_password
  <2> SUFFICES ASSUME PasswordsInv, NEW r \in PasswordRequests,
                      preq[r].pc = "write", preq[r].known # None
               PROVE  preq[r].known = password[preq[r].user] \/ preq[r].user \in pmissed[r]
    BY DEF OfficeInv
  <2>1. preq[r] # PasswordIdle
    BY DEF PasswordIdle
  <2> QED
    BY <2>1 DEF PasswordsInv, PasswordRequestOK
<1> QED
  BY <1>1, OfficeInvariant, PTL DEF Spec, UnknownReplacedOnlyByRace

=============================================================================
