------------------------------- MODULE Tracking -------------------------------
(***************************************************************************)
(* TrackingService: saveLocation, with its rate-limit key, its row, its    *)
(* cached copy and its event, and what getLatest answers from them.  Every *)
(* await is a step.  Redis is one client per process, which connects late  *)
(* and never again once it is lost; its data outlive the process.          *)
(***************************************************************************)
EXTENDS Tables

CONSTANTS
    Tracked,            \* the vehicles whose locations are reported
    Locations,          \* bound: GpsLocation rows that can ever be inserted
    Instants,           \* bound: the seconds the clock can show
    RateLimitTTL,       \* RATE_LIMIT_TTL
    LocationCacheTTL,   \* LOCATION_CACHE_TTL
    TrackingRequests    \* bound: requests in flight at once

\* The clock starts at 0; NULL is no row's id.
ASSUME TrackingAssumption ==
    /\ Instants \subseteq Nat /\ 0 \in Instants
    /\ RateLimitTTL \in Nat \ {0} /\ LocationCacheTTL \in Nat \ {0}
    /\ None \notin Locations

VARIABLES
    second,       \* Date.now(), in seconds, which Redis's clock follows
    client,       \* the process's Redis client
    rateKey,      \* rateKey[v]: when the rate-limit key of v expires
    cache,        \* cache[v]: the row cached last, and when the key expires
    gps,          \* gps[l]: the GpsLocation rows
    shown,        \* shown[v]: the row emitted last, None before the first
    lreq,         \* lreq[r]: saveLocation in slot r
    lmissed,      \* history: rows inserted since r began
    together,     \* history: pairs of rows whose requests were in flight at once
    unlimited,    \* history: rows admitted while Redis did not answer
    uncached      \* history: rows that Redis did not take into the cache

trackingVars == <<second, client, rateKey, cache, gps, shown, lreq, lmissed,
                  together, unlimited, uncached>>

\* admitted, when the rate limit let the row's request pass, is history.
GpsLocation == [vehicle : Tracked, timestamp : Instants, admitted : Instants]

TrackingIdle == [pc |-> "idle", vehicle |-> None, admitted |-> 0, timestamp |-> 0,
                 row |-> None, blind |-> FALSE]

TrackingRequest ==
    [pc : {"set", "lookup", "insert", "cache"}, vehicle : Tracked,
     admitted : Instants, timestamp : Instants, row : Locations \cup {None},
     blind : BOOLEAN]

CacheEntry == [row : Locations, expiry : Nat]

TrackingTypeOK ==
    /\ second \in Instants
    /\ client \in {"wait", "ready", "end"}
    /\ rateKey \in [Tracked -> Nat]
    /\ \A v \in Tracked : cache[v] \in CacheEntry \cup {None}
    /\ DOMAIN gps \subseteq Locations /\ gps \in [DOMAIN gps -> GpsLocation]
    /\ shown \in [Tracked -> Locations \cup {None}]
    /\ \A r \in TrackingRequests : lreq[r] \in TrackingRequest \cup {TrackingIdle}
    /\ lmissed \in [TrackingRequests -> SUBSET Locations]
    /\ together \subseteq Locations \X Locations
    /\ unlimited \subseteq Locations /\ uncached \subseteq Locations

TrackingInit ==
    /\ second = 0
    /\ client = "wait"
    /\ rateKey = [v \in Tracked |-> 0]
    /\ cache = [v \in Tracked |-> None]
    /\ gps = <<>>
    /\ shown = [v \in Tracked |-> None]
    /\ lreq = [r \in TrackingRequests |-> TrackingIdle]
    /\ lmissed = [r \in TrackingRequests |-> {}]
    /\ together = {} /\ unlimited = {} /\ uncached = {}

----------------------------------------------------------------------------
\* redis.get(rateLimitKey): without Redis no key is found.
SaveLocation(r) ==
    /\ lreq[r] = TrackingIdle
    /\ \E v \in Tracked :
         /\ client # "ready" \/ second >= rateKey[v]
         /\ lreq' = [lreq EXCEPT ![r] = [TrackingIdle EXCEPT
              !.pc = "set", !.vehicle = v, !.blind = client # "ready"]]
    /\ UNCHANGED <<second, client, rateKey, cache, gps, shown, lmissed,
                   together, unlimited, uncached>>

\* Mutant: the key expires a second early.
SetRateLimitEarly(r) ==
    /\ lreq[r].pc = "set"
    /\ rateKey' = IF client = "ready"
                    THEN [rateKey EXCEPT ![lreq[r].vehicle] = second + RateLimitTTL - 1]
                    ELSE rateKey
    /\ lreq' = [lreq EXCEPT ![r].pc = "lookup", ![r].admitted = second,
                            ![r].blind = @ \/ client # "ready"]
    /\ UNCHANGED <<second, client, cache, gps, shown, lmissed,
                   together, unlimited, uncached>>

\* redis.set(rateLimitKey, '1', 'EX', 5): an error is swallowed.
SetRateLimit(r) ==
    /\ lreq[r].pc = "set"
    /\ rateKey' = IF client = "ready"
                    THEN [rateKey EXCEPT ![lreq[r].vehicle] = second + RateLimitTTL]
                    ELSE rateKey
    /\ lreq' = [lreq EXCEPT ![r].pc = "lookup", ![r].admitted = second,
                            ![r].blind = @ \/ client # "ready"]
    /\ UNCHANGED <<second, client, cache, gps, shown, lmissed,
                   together, unlimited, uncached>>

\* Mutant: the timestamp is the one the device sends.
FindTrackedVehicleDto(r) ==
    /\ lreq[r].pc = "lookup"
    /\ \E s \in Instants : lreq' = [lreq EXCEPT ![r].pc = "insert", ![r].timestamp = s]
    /\ UNCHANGED <<second, client, rateKey, cache, gps, shown, lmissed,
                   together, unlimited, uncached>>

\* The vehicle is found; the timestamp is taken then.
FindTrackedVehicle(r) ==
    /\ lreq[r].pc = "lookup"
    /\ lreq' = [lreq EXCEPT ![r].pc = "insert", ![r].timestamp = second]
    /\ UNCHANGED <<second, client, rateKey, cache, gps, shown, lmissed,
                   together, unlimited, uncached>>

InsertLocation(r) ==
    LET q == lreq[r] IN
    /\ q.pc = "insert"
    /\ \E l \in Locations \ DOMAIN gps :
         /\ gps' = Insert(gps, l, [vehicle |-> q.vehicle, timestamp |-> q.timestamp,
                                   admitted |-> q.admitted])
         /\ lreq' = [lreq EXCEPT ![r].pc = "cache", ![r].row = l]
         /\ lmissed' = [s \in TrackingRequests |->
              IF s # r /\ lreq[s] # TrackingIdle THEN lmissed[s] \cup {l} ELSE lmissed[s]]
         /\ together' = together \cup
              ({l} \X (lmissed[r] \cup ({lreq[s].row : s \in TrackingRequests} \ {None})))
         /\ unlimited' = IF q.blind THEN unlimited \cup {l} ELSE unlimited
    /\ UNCHANGED <<second, client, rateKey, cache, shown, uncached>>

LocationReturns(r) ==
    /\ lreq' = [lreq EXCEPT ![r] = TrackingIdle]
    /\ lmissed' = [lmissed EXCEPT ![r] = {}]

Cached(v) == cache[v] # None /\ second < cache[v].expiry

\* redis.set(cacheKey, ..., 'EX', 3600), an error of which is swallowed, and,
\* when it is answered, the event: nothing is awaited between the two.
CacheAndEmit(r) ==
    LET v == lreq[r].vehicle
        l == lreq[r].row IN
    /\ lreq[r].pc = "cache"
    /\ cache' = IF client = "ready"
                  THEN [cache EXCEPT ![v] = [row |-> l, expiry |-> second + LocationCacheTTL]]
                  ELSE cache
    /\ uncached' = IF client = "ready" THEN uncached ELSE uncached \cup {l}
    /\ shown' = [shown EXCEPT ![v] = l]
    /\ LocationReturns(r)
    /\ UNCHANGED <<second, client, rateKey, gps, together, unlimited>>

\* No such vehicle, or the database refuses: the key stays set.
SaveLocationFails(r) ==
    /\ lreq[r].pc \in {"lookup", "insert"}
    /\ LocationReturns(r)
    /\ UNCHANGED <<second, client, rateKey, cache, gps, shown, together,
                   unlimited, uncached>>

ClientConnects ==
    /\ client = "wait" /\ client' = "ready"
    /\ UNCHANGED <<second, rateKey, cache, gps, shown, lreq, lmissed, together,
                   unlimited, uncached>>

ClientLost ==
    /\ client # "end" /\ client' = "end"
    /\ UNCHANGED <<second, rateKey, cache, gps, shown, lreq, lmissed, together,
                   unlimited, uncached>>

\* A row that was inserted but not cached when the process died stays uncached.
TrackingRestarts ==
    /\ client' = "wait"
    /\ lreq' = [r \in TrackingRequests |-> TrackingIdle]
    /\ lmissed' = [r \in TrackingRequests |-> {}]
    /\ uncached' = uncached \cup
         {lreq[r].row : r \in {q \in TrackingRequests : lreq[q].pc = "cache"}}
    /\ UNCHANGED <<second, rateKey, cache, gps, shown, together, unlimited>>

SecondsPass ==
    /\ \E s \in Instants : s > second /\ second' = s
    /\ UNCHANGED <<client, rateKey, cache, gps, shown, lreq, lmissed, together,
                   unlimited, uncached>>

TrackingNext ==
    \/ \E r \in TrackingRequests :
         \/ SaveLocation(r) \/ SetRateLimit(r) \/ FindTrackedVehicle(r)
         \/ InsertLocation(r) \/ CacheAndEmit(r) \/ SaveLocationFails(r)
    \/ ClientConnects \/ ClientLost \/ TrackingRestarts
    \/ SecondsPass

LocationsOf(v) == {l \in DOMAIN gps : gps[l].vehicle = v}

Newer(a, b) == gps[a].timestamp > gps[b].timestamp

\* Mutant: without orderBy.
LatestAnswersAny(v) ==
    IF client = "ready" /\ Cached(v) THEN {cache[v].row} ELSE LocationsOf(v)

\* Rows that getLatest may answer with: the cached one, or else the newest.
LatestAnswers(v) ==
    IF client = "ready" /\ Cached(v) THEN {cache[v].row}
    ELSE {l \in LocationsOf(v) : \A k \in LocationsOf(v) : ~Newer(k, l)}

----------------------------------------------------------------------------
(***************************************************************************)
(* Properties.                                                             *)
(***************************************************************************)
Together(a, b) == <<a, b>> \in together \/ <<b, a>> \in together

\* "max 1 update per vehicle per 5 seconds": two rows of one vehicle were
\* admitted within the limit only by requests in flight at once, which both found
\* no key, or while Redis did not answer.
RateBrokenOnlyByRace ==
    \A a, b \in DOMAIN gps :
        /\ a # b /\ gps[a].vehicle = gps[b].vehicle
        /\ gps[a].admitted <= gps[b].admitted
        /\ gps[b].admitted < gps[a].admitted + RateLimitTTL
        => Together(a, b) \/ {a, b} \cap unlimited # {}

\* getLatest answers with an older row than another one of the vehicle only while
\* the newer one's request is still on its way to the cache, or if Redis never took
\* it, or if the request of another row, in flight at once with it, came after it.
LatestIsNewest ==
    \A v \in Tracked : \A l \in LatestAnswers(v), k \in LocationsOf(v) :
        Newer(k, l)
          => \/ \E r \in TrackingRequests : lreq[r].row = k
             \/ k \in uncached
             \/ Together(k, l)

\* What the tenant's room is shown of a vehicle moves back in time only by a
\* request that was in flight when the newer location was stored.
ShownBackOnlyByRace ==
    [][\A v \in Tracked :
          shown[v] # None => ~Newer(shown[v], shown'[v]) \/ Together(shown[v], shown'[v])
      ]_shown

=============================================================================
