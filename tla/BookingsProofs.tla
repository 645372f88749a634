---------------------------- MODULE BookingsProofs ----------------------------
(***************************************************************************)
(* Proofs about the steps of BookingsService.  BookingsInv is inductive    *)
(* under BookingsNext; it mentions only bookingVars, so the steps of every *)
(* other component preserve it too.                                        *)
(***************************************************************************)
EXTENDS Bookings, TLAPS

\* What an in-flight request knows of the booking it is about.
BookingRequestOK(r) ==
    LET q == breq[r] IN
    /\ q.op = "create" => /\ q.id = None
                          /\ q.vehicle \in Vehicles
                          /\ q.driver \in Drivers \cup {None}
    /\ q.op # "create" => /\ q.id \in DOMAIN booking
                          /\ q.tenant = booking[q.id].tenant
                          /\ q.start = booking[q.id].start
                          /\ q.end = booking[q.id].end
    /\ q.op \in {"confirm", "cancel"} => q.pc = "write"

BookingsTypeInv ==
    /\ IsTable(booking, BookingIds, Booking)
    /\ BookingsTypeOK
    /\ \A r \in BookingRequests : breq[r] # BookingIdle => BookingRequestOK(r)

\* Booking c would double-book vehicle v for tenant t in [s, e).
Blocks(c, v, t, s, e) ==
    /\ booking[c].vehicle = v
    /\ booking[c].tenant = t
    /\ ActiveBooking(booking[c])
    /\ RangesOverlap(booking[c].start, booking[c].end, s, e)

\* The vehicle that r's write leaves its booking with.
TargetVehicle(r) ==
    IF breq[r].op = "confirm" THEN booking[breq[r].id].vehicle ELSE breq[r].vehicle

\* Past its guarding read, a request that can create a conflict has missed, or
\* its booking has raced with, every booking in its way.
GuardHolds(r) ==
    LET q == breq[r] IN
    BookingGuardRead(r) /\ q.op # "cancel"
      => \A c \in DOMAIN booking :
            c # q.id /\ Blocks(c, TargetVehicle(r), q.tenant, q.start, q.end)
              => c \in bmissed[r] \/ BookingsRaced(q.id, c)

BookingsInv ==
    /\ BookingsTypeInv
    /\ DoubleBookingOnlyByRace
    /\ \A r \in BookingRequests : GuardHolds(r)

----------------------------------------------------------------------------

\* A database without bookings, where no request is in flight, is well typed.
LEMMA BookingsTypeInit ==
    ASSUME booking = <<>>, BookingsInit
    PROVE  BookingsTypeInv
<1>1. DOMAIN booking = {}
  OBVIOUS
<1>2. IsTable(booking, BookingIds, Booking)
  BY <1>1 DEF IsTable
<1> QED
  BY <1>2 DEF BookingsInit, BookingsTypeInv, BookingsTypeOK

\* A step that only moves slot r on, or frees it.
LEMMA BookingProceedsType ==
    ASSUME BookingsTypeInv, NEW r \in BookingRequests, NEW ok, NEW pc,
           pc \in {"trips", "status", "maintenance", "assignments",
                   "driverTrips", "write"},
           breq[r] # BookingIdle, breq[r].pc # "write",
           BookingProceeds(r, ok, pc)
    PROVE  BookingsTypeInv'
<1>1. breq[r] \in BookingRequest /\ BookingRequestOK(r)
  BY DEF BookingsTypeInv, BookingsTypeOK
<1>2. /\ booking' = booking
      /\ bmissed' \in [BookingRequests -> SUBSET BookingIds]
      /\ braced' \subseteq BookingIds \X BookingIds
  BY DEF BookingsTypeInv, BookingsTypeOK, BookingProceeds, BookingReturns
<1>3. /\ DOMAIN breq' = BookingRequests
      /\ \A q \in BookingRequests : q # r => breq'[q] = breq[q]
      /\ breq'[r] \in {BookingIdle, [breq[r] EXCEPT !.pc = pc]}
  BY DEF BookingsTypeInv, BookingsTypeOK, BookingProceeds, BookingReturns
<1>4. [breq[r] EXCEPT !.pc = pc] \in BookingRequest
  BY <1>1 DEF BookingRequest
<1>5. breq'[r] # BookingIdle => BookingRequestOK(r)'
  BY <1>1, <1>2, <1>3 DEF BookingRequestOK, BookingRequest
<1>6. \A q \in BookingRequests : q # r /\ breq[q] # BookingIdle => BookingRequestOK(q)'
  BY <1>2, <1>3 DEF BookingsTypeInv, BookingRequestOK
<1> QED
  BY <1>2, <1>3, <1>4, <1>5, <1>6 DEF BookingsTypeInv, BookingsTypeOK

\* The first step of a request fills its slot.
LEMMA BookingAcceptedType ==
    ASSUME BookingsTypeInv, NEW r \in BookingRequests, NEW q \in BookingRequest,
           breq[r] = BookingIdle, breq' = [breq EXCEPT ![r] = q],
           UNCHANGED <<booking, bmissed, braced>>,
           BookingRequestOK(r)'
    PROVE  BookingsTypeInv'
<1>1. \A x \in BookingRequests : x # r => breq'[x] = breq[x]
  BY DEF BookingsTypeInv, BookingsTypeOK
<1>2. \A x \in BookingRequests : x # r /\ breq[x] # BookingIdle => BookingRequestOK(x)'
  BY <1>1 DEF BookingsTypeInv, BookingRequestOK
<1> QED
  BY <1>1, <1>2 DEF BookingsTypeInv, BookingsTypeOK

\* What the three writes have in common: request r writes booking b, which it
\* was accepted for or which is new, and nothing else.
BookingWrite(r, b) ==
    LET q == breq[r] IN
    /\ b \in BookingIds
    /\ IsTable(booking', BookingIds, Booking)
    /\ DOMAIN booking' = DOMAIN booking \cup {b}
    /\ \A c \in DOMAIN booking : c # b => booking'[c] = booking[c]
    /\ booking'[b].tenant = q.tenant
    /\ booking'[b].start = q.start /\ booking'[b].end = q.end
    /\ IF q.op = "create" THEN b \notin DOMAIN booking
                          ELSE b = q.id /\ b \in DOMAIN booking
    /\ BookingWritten(r, b)

\* Such a write keeps every type, and what other requests know of their
\* bookings: tenant and dates of a booking never change.
LEMMA BookingWriteType ==
    ASSUME BookingsTypeInv, NEW r \in BookingRequests, NEW b,
           breq[r] # BookingIdle, BookingWrite(r, b)
    PROVE  BookingsTypeInv'
<1>1. /\ bmissed' \in [BookingRequests -> SUBSET BookingIds]
      /\ braced' \subseteq BookingIds \X BookingIds
  BY DEF BookingsTypeInv, BookingsTypeOK, BookingWrite, BookingWritten
<1>2. /\ DOMAIN breq' = BookingRequests
      /\ breq'[r] = BookingIdle
      /\ \A x \in BookingRequests : x # r => breq'[x] = breq[x]
  BY DEF BookingsTypeInv, BookingsTypeOK, BookingWrite, BookingWritten
<1>3. ASSUME NEW x \in BookingRequests, breq'[x] # BookingIdle
      PROVE  BookingRequestOK(x)'
  <2>1. x # r /\ breq'[x] = breq[x] /\ BookingRequestOK(x)
    BY <1>2, <1>3 DEF BookingsTypeInv
  <2>2. \A c \in DOMAIN booking : /\ c \in DOMAIN booking'
                                  /\ booking'[c].tenant = booking[c].tenant
                                  /\ booking'[c].start = booking[c].start
                                  /\ booking'[c].end = booking[c].end
    BY DEF BookingWrite, BookingsTypeInv, BookingRequestOK
  <2> QED
    BY <2>1, <2>2 DEF BookingRequestOK
<1>4. IsTable(booking', BookingIds, Booking)
  BY DEF BookingWrite
<1> QED
  BY <1>1, <1>2, <1>3, <1>4 DEF BookingsTypeInv, BookingsTypeOK

----------------------------------------------------------------------------
(***************************************************************************)
(* Each action is an acceptance, a move or a write.                        *)
(***************************************************************************)

\* create is accepted with the DTO it holds across its awaits.
LEMMA CreateBookingType ==
    ASSUME BookingsTypeInv, NEW r \in BookingRequests, CreateBooking(r)
    PROVE  BookingsTypeInv'
<1>1. PICK t \in Tenants, dto \in CreateBookingDto :
         breq' = [breq EXCEPT ![r] =
              [pc |-> "bookings", op |-> "create", tenant |-> t, id |-> None,
               vehicle |-> dto.vehicle, driver |-> dto.driver,
               start |-> dto.start, end |-> dto.end,
               askDriver |-> dto.driver # None]]
  BY DEF CreateBooking
<1> DEFINE q == [pc |-> "bookings", op |-> "create", tenant |-> t, id |-> None,
                 vehicle |-> dto.vehicle, driver |-> dto.driver,
                 start |-> dto.start, end |-> dto.end,
                 askDriver |-> dto.driver # None]
<1>2. q \in BookingRequest
  BY DEF CreateBookingDto, BookingRequest
<1>3. breq'[r] = q
  BY <1>1 DEF BookingsTypeInv, BookingsTypeOK
<1>4. BookingRequestOK(r)'
  BY <1>3 DEF BookingRequestOK, CreateBookingDto
<1> QED
  BY <1>1, <1>2, <1>4, BookingAcceptedType DEF CreateBooking

\* confirm and cancel are accepted with the booking they read.
LEMMA StatusRequestType ==
    ASSUME BookingsTypeInv, NEW r \in BookingRequests, NEW b \in DOMAIN booking,
           NEW op \in {"confirm", "cancel"}, breq[r] = BookingIdle,
           StatusRequest(r, op, b), UNCHANGED <<booking, bmissed, braced>>
    PROVE  BookingsTypeInv'
<1> DEFINE q == [pc |-> "write", op |-> op, tenant |-> booking[b].tenant, id |-> b,
                 vehicle |-> Absent, driver |-> Absent,
                 start |-> booking[b].start, end |-> booking[b].end,
                 askDriver |-> FALSE]
<1>1. breq' = [breq EXCEPT ![r] = q] /\ breq'[r] = q
  BY DEF StatusRequest, BookingsTypeInv, BookingsTypeOK
<1>2. b \in BookingIds /\ booking[b] \in Booking
  BY DEF BookingsTypeInv, IsTable
<1>3. q \in BookingRequest
  BY <1>2 DEF BookingRequest, Booking
<1>4. BookingRequestOK(r)'
  BY <1>1 DEF BookingRequestOK
<1> QED
  BY <1>1, <1>3, <1>4, BookingAcceptedType

\* assign is accepted with its DTO and the booking it read.
LEMMA AssignBookingType ==
    ASSUME BookingsTypeInv, NEW r \in BookingRequests, AssignBooking(r)
    PROVE  BookingsTypeInv'
<1>1. PICK t \in Tenants, b \in BookingIds, dto \in AssignDriverVehicleDto :
         /\ FindBooking(b, t)
         /\ breq' = [breq EXCEPT ![r] = AssignRequest(t, b, dto)]
  BY DEF AssignBooking
<1>2. breq'[r] = AssignRequest(t, b, dto)
  BY <1>1 DEF BookingsTypeInv, BookingsTypeOK
<1>3. booking[b] \in Booking
  BY <1>1 DEF BookingsTypeInv, IsTable, FindBooking
<1>4. AssignRequest(t, b, dto) \in BookingRequest
  BY <1>3 DEF AssignRequest, BookingRequest, Booking, AssignDriverVehicleDto
<1>5. UNCHANGED <<booking, bmissed, braced>> /\ breq[r] = BookingIdle
  BY DEF AssignBooking
<1>6. BookingRequestOK(r)'
  BY <1>1, <1>2, <1>5 DEF BookingRequestOK, FindBooking, AssignRequest
<1> QED
  BY <1>1, <1>4, <1>5, <1>6, BookingAcceptedType

\* create's INSERT is such a write of a new booking.
LEMMA InsertBookingWrites ==
    ASSUME BookingsTypeInv, NEW r \in BookingRequests, InsertBooking(r)
    PROVE  \E b \in BookingIds : BookingWrite(r, b) /\ booking'[b].vehicle = breq[r].vehicle
<1> DEFINE q == breq[r]
<1> DEFINE row == [tenant |-> q.tenant, vehicle |-> q.vehicle, driver |-> q.driver,
                   start |-> q.start, end |-> q.end, status |-> "PENDING"]
<1>1. PICK b \in BookingIds \ DOMAIN booking :
         booking' = Insert(booking, b, row) /\ BookingWritten(r, b)
  BY DEF InsertBooking
<1>2. q.op = "create"
  BY DEF InsertBooking
<1>3. q \in BookingRequest /\ BookingRequestOK(r)
  BY <1>2 DEF BookingsTypeInv, BookingsTypeOK, BookingIdle
<1>4. row \in Booking
  BY <1>2, <1>3 DEF BookingRequest, BookingRequestOK, Booking, BookingStatus
<1>5. IsTable(booking, BookingIds, Booking)
  BY DEF BookingsTypeInv
<1> HIDE DEF row
<1>6. /\ IsTable(booking', BookingIds, Booking)
      /\ DOMAIN booking' = DOMAIN booking \cup {b}
      /\ booking'[b] = row
      /\ \A i \in DOMAIN booking : i # b => booking'[i] = booking[i]
  BY <1>1, <1>4, <1>5 DEF IsTable, Insert
<1> USE DEF row
<1>7. BookingWrite(r, b) /\ booking'[b].vehicle = q.vehicle
  BY <1>1, <1>2, <1>6 DEF BookingWrite
<1> QED
  BY <1>7

\* confirm's and cancel's UPDATE is such a write; it leaves the vehicle alone.
LEMMA SetBookingStatusWrites ==
    ASSUME BookingsTypeInv, NEW r \in BookingRequests, SetBookingStatus(r)
    PROVE  /\ breq[r].id \in DOMAIN booking
           /\ BookingWrite(r, breq[r].id)
           /\ booking'[breq[r].id].vehicle = booking[breq[r].id].vehicle
           /\ breq[r].op \in {"confirm", "cancel"}
           /\ breq[r].op = "cancel" => ~ActiveBooking(booking'[breq[r].id])
<1> DEFINE q == breq[r]
<1>1. q.op \in {"confirm", "cancel"}
  BY DEF SetBookingStatus
<1>2. q \in BookingRequest /\ BookingRequestOK(r)
  BY <1>1 DEF BookingsTypeInv, BookingsTypeOK, BookingIdle
<1>3. /\ q.id \in DOMAIN booking /\ q.id \in BookingIds
      /\ booking[q.id] \in Booking /\ booking \in [DOMAIN booking -> Booking]
      /\ DOMAIN booking \subseteq BookingIds
  BY <1>1, <1>2 DEF BookingRequestOK, BookingsTypeInv, IsTable
<1> DEFINE row == [booking[q.id] EXCEPT !.status =
                     IF q.op = "confirm" THEN "CONFIRMED" ELSE "CANCELLED"]
<1>4. booking' = [booking EXCEPT ![q.id] = row]
  BY <1>3 DEF SetBookingStatus, Booking
<1>5. row \in Booking /\ row.vehicle = booking[q.id].vehicle
      /\ row.tenant = booking[q.id].tenant /\ row.start = booking[q.id].start
      /\ row.end = booking[q.id].end
      /\ (q.op = "cancel" => ~ActiveBooking(row))
  BY <1>1, <1>3 DEF Booking, BookingStatus, ActiveBooking
<1> HIDE DEF row
<1>6. /\ booking'[q.id] = row
      /\ IsTable(booking', BookingIds, Booking)
      /\ DOMAIN booking' = DOMAIN booking \cup {q.id}
      /\ \A c \in DOMAIN booking : c # q.id => booking'[c] = booking[c]
  BY <1>3, <1>4, <1>5 DEF IsTable
<1>7. BookingWritten(r, q.id)
  BY DEF SetBookingStatus
<1> QED
  BY <1>1, <1>2, <1>3, <1>5, <1>6, <1>7 DEF BookingWrite, BookingRequestOK

\* assign's UPDATE is such a write; it leaves the status alone.
LEMMA SetBookingAssigneesWrites ==
    ASSUME BookingsTypeInv, NEW r \in BookingRequests, SetBookingAssignees(r)
    PROVE  /\ breq[r].id \in DOMAIN booking /\ breq[r].op = "assign"
           /\ BookingWrite(r, breq[r].id)
           /\ booking'[breq[r].id].status = booking[breq[r].id].status
           /\ booking'[breq[r].id].vehicle =
                IF breq[r].vehicle = Absent THEN booking[breq[r].id].vehicle
                                            ELSE breq[r].vehicle
<1> DEFINE q == breq[r]
<1>1. q.op = "assign"
  BY DEF SetBookingAssignees
<1>2. q \in BookingRequest /\ BookingRequestOK(r)
  BY <1>1 DEF BookingsTypeInv, BookingsTypeOK, BookingIdle
<1>3. /\ q.id \in DOMAIN booking /\ q.id \in BookingIds
      /\ booking[q.id] \in Booking /\ booking \in [DOMAIN booking -> Booking]
      /\ DOMAIN booking \subseteq BookingIds
  BY <1>1, <1>2 DEF BookingRequestOK, BookingsTypeInv, IsTable
<1> DEFINE row == [booking[q.id] EXCEPT
                     !.vehicle = IF q.vehicle = Absent THEN @ ELSE q.vehicle,
                     !.driver = IF q.driver = Absent THEN @ ELSE q.driver]
<1>4. booking' = [booking EXCEPT ![q.id] = row]
  BY <1>3 DEF SetBookingAssignees, Booking
<1>5. /\ row \in Booking
      /\ row.vehicle = IF q.vehicle = Absent THEN booking[q.id].vehicle ELSE q.vehicle
      /\ row.tenant = booking[q.id].tenant /\ row.start = booking[q.id].start
      /\ row.end = booking[q.id].end /\ row.status = booking[q.id].status
  BY <1>2, <1>3 DEF Booking, BookingRequest
<1> HIDE DEF row
<1>6. /\ booking'[q.id] = row
      /\ IsTable(booking', BookingIds, Booking)
      /\ DOMAIN booking' = DOMAIN booking \cup {q.id}
      /\ \A c \in DOMAIN booking : c # q.id => booking'[c] = booking[c]
  BY <1>3, <1>4, <1>5 DEF IsTable
<1>7. BookingWritten(r, q.id)
  BY DEF SetBookingAssignees
<1> QED
  BY <1>1, <1>2, <1>3, <1>5, <1>6, <1>7 DEF BookingWrite, BookingRequestOK

----------------------------------------------------------------------------
(***************************************************************************)
(* BookingsInv is preserved.  A pair of bookings is checked when its later *)
(* guarding read finds no conflict; from then on a write to either of them *)
(* is news to that read (bmissed), and the write it guards turns the news  *)
(* into a raced pair.                                                      *)
(***************************************************************************)

\* No bookings, no requests: nothing conflicts and nothing is claimed.
LEMMA BookingsInvInit ==
    ASSUME booking = <<>>, BookingsInit
    PROVE  BookingsInv
<1>1. DOMAIN booking = {}
  OBVIOUS
<1>2. DoubleBookingOnlyByRace
  BY <1>1 DEF DoubleBookingOnlyByRace
<1>3. \A r \in BookingRequests : GuardHolds(r)
  BY <1>1 DEF GuardHolds
<1> QED
  BY <1>2, <1>3, BookingsTypeInit DEF BookingsInv

\* A step that writes no booking keeps what the other requests know.
LEMMA GuardHoldsStays ==
    ASSUME NEW r \in BookingRequests, GuardHolds(r),
           UNCHANGED <<booking, braced>>,
           breq'[r] = breq[r], bmissed'[r] = bmissed[r]
    PROVE  GuardHolds(r)'
BY DEF GuardHolds, BookingGuardRead, TargetVehicle, Blocks, BookingsRaced

\* A step that writes no booking keeps the invariant when r's own claim holds.
LEMMA UnwrittenInv ==
    ASSUME BookingsInv, BookingsTypeInv', NEW r \in BookingRequests,
           UNCHANGED <<booking, braced>>,
           \A x \in BookingRequests : x # r => /\ breq'[x] = breq[x]
                                               /\ bmissed'[x] = bmissed[x],
           GuardHolds(r)'
    PROVE  BookingsInv'
<1>1. DoubleBookingOnlyByRace'
  BY DEF BookingsInv, DoubleBookingOnlyByRace, DoubleBooked, BookingsRaced
<1>2. ASSUME NEW x \in BookingRequests, x # r
      PROVE  GuardHolds(x)'
  BY <1>2, GuardHoldsStays DEF BookingsInv
<1> QED
  BY <1>1, <1>2 DEF BookingsInv

\* A request that returns, and one that moves past checks it has passed.
LEMMA BookingReturnsInv ==
    ASSUME BookingsInv, NEW r \in BookingRequests,
           BookingReturns(r), UNCHANGED <<booking, braced>>
    PROVE  BookingsInv'
<1>1. /\ breq'[r] = BookingIdle
      /\ \A x \in BookingRequests : x # r => /\ breq'[x] = breq[x]
                                             /\ bmissed'[x] = bmissed[x]
  BY DEF BookingsInv, BookingsTypeInv, BookingsTypeOK, BookingReturns
<1>2. GuardHolds(r)'
  BY <1>1 DEF GuardHolds, BookingGuardRead, BookingIdle
<1>3. /\ DOMAIN breq' = BookingRequests
      /\ bmissed' \in [BookingRequests -> SUBSET BookingIds]
  BY DEF BookingsInv, BookingsTypeInv, BookingsTypeOK, BookingReturns
<1>4. \A x \in BookingRequests : breq'[x] # BookingIdle => BookingRequestOK(x)'
  BY <1>1 DEF BookingsInv, BookingsTypeInv, BookingRequestOK
<1>5. BookingsTypeInv'
  BY <1>1, <1>3, <1>4 DEF BookingsInv, BookingsTypeInv, BookingsTypeOK
<1> QED
  BY <1>1, <1>2, <1>5, UnwrittenInv

\* A check that a request passes; the first of them, on the vehicle's bookings,
\* is the guarding read of create and of a change of vehicle.
LEMMA BookingProceedsInv ==
    ASSUME BookingsInv, NEW r \in BookingRequests, NEW ok, NEW pc,
           pc \in {"trips", "status", "maintenance", "assignments",
                   "driverTrips", "write"},
           breq[r] # BookingIdle, breq[r].pc # "write",
           BookingProceeds(r, ok, pc),
           ok /\ breq[r].pc = "bookings" =>
              /\ breq[r].op # "confirm"
              /\ ~BookingConflict(breq[r].vehicle, breq[r].tenant,
                                  breq[r].start, breq[r].end)
    PROVE  BookingsInv'
<1>1. CASE ~ok
  BY <1>1, BookingReturnsInv DEF BookingProceeds
<1>2. CASE ok
  <2>1. /\ UNCHANGED <<booking, braced, bmissed>>
        /\ breq'[r] = [breq[r] EXCEPT !.pc = pc]
        /\ \A x \in BookingRequests : x # r => breq'[x] = breq[x]
    BY <1>2 DEF BookingsInv, BookingsTypeInv, BookingsTypeOK, BookingProceeds
  <2>2. breq[r] \in BookingRequest
    BY DEF BookingsInv, BookingsTypeInv, BookingsTypeOK
  <2>3. /\ breq'[r].op = breq[r].op /\ breq'[r].id = breq[r].id
        /\ breq'[r].vehicle = breq[r].vehicle /\ breq'[r].tenant = breq[r].tenant
        /\ breq'[r].start = breq[r].start /\ breq'[r].end = breq[r].end
    BY <2>1, <2>2 DEF BookingRequest
  <2>4. CASE breq[r].pc = "bookings"
    <3>1. \A c \in DOMAIN booking : ~Blocks(c, breq[r].vehicle, breq[r].tenant,
                                            breq[r].start, breq[r].end)
      BY <1>2, <2>4 DEF BookingConflict, Blocks
    <3>2. GuardHolds(r)'
      BY <1>2, <2>1, <2>3, <2>4, <3>1 DEF GuardHolds, TargetVehicle, Blocks
    <3> QED
      BY <2>1, <3>2, UnwrittenInv, BookingProceedsType DEF BookingsInv
  <2>5. CASE breq[r].pc # "bookings"
    <3>1. BookingGuardRead(r)
      BY <2>2, <2>5 DEF BookingGuardRead, BookingRequest
    <3>2. GuardHolds(r)
      BY DEF BookingsInv
    <3>3. GuardHolds(r)'
      BY <2>1, <2>3, <3>1, <3>2 DEF GuardHolds, TargetVehicle, Blocks, BookingsRaced
    <3> QED
      BY <2>1, <3>3, UnwrittenInv, BookingProceedsType DEF BookingsInv
  <2> QED
    BY <2>4, <2>5
<1> QED
  BY <1>1, <1>2

\* An accepted request that is still to run its availability check, or whose
\* write cannot create a conflict, or that works on an active booking as it is.
LEMMA BookingAcceptedInv ==
    ASSUME BookingsInv, BookingsTypeInv', NEW r \in BookingRequests,
           UNCHANGED <<booking, braced, bmissed>>,
           \A x \in BookingRequests : x # r => breq'[x] = breq[x],
           \/ breq'[r].pc = "bookings"
           \/ breq'[r].op = "cancel"
           \/ /\ breq'[r].id \in DOMAIN booking
              /\ ActiveBooking(booking[breq'[r].id])
              /\ TargetVehicle(r)' \in {booking[breq'[r].id].vehicle, Absent}
    PROVE  BookingsInv'
<1> DEFINE q == breq'[r]
<1>1. CASE q.pc = "bookings" \/ q.op = "cancel"
  <2>1. GuardHolds(r)'
    BY <1>1 DEF GuardHolds, BookingGuardRead
  <2> QED
    BY <2>1, UnwrittenInv
<1>2. CASE /\ q.id \in DOMAIN booking
           /\ ActiveBooking(booking[q.id])
           /\ TargetVehicle(r)' \in {booking[q.id].vehicle, Absent}
  <2>1. ASSUME NEW c \in DOMAIN booking, c # q.id, BookingGuardRead(r)', q.op # "cancel",
               Blocks(c, TargetVehicle(r), breq[r].tenant, breq[r].start, breq[r].end)'
        PROVE  BookingsRaced(q.id, c)
    <3>1. /\ booking[c] \in Booking /\ booking[q.id] \in Booking
      BY <1>2 DEF BookingsInv, BookingsTypeInv, IsTable
    <3>2. booking[c].vehicle # Absent
      BY <3>1, SentinelAssumption DEF Booking
    <3>3. BookingRequestOK(r)' /\ q.op # "create"
      <4>1. q # BookingIdle
        BY <2>1 DEF BookingGuardRead, BookingIdle
      <4>2. BookingRequestOK(r)'
        BY <4>1 DEF BookingsTypeInv
      <4>3. q.id # None
        BY <1>2, SentinelAssumption DEF BookingsInv, BookingsTypeInv, IsTable
      <4> QED
        BY <4>2, <4>3 DEF BookingRequestOK
    <3>4. /\ q.tenant = booking[q.id].tenant /\ q.start = booking[q.id].start
          /\ q.end = booking[q.id].end
      BY <3>3 DEF BookingRequestOK
    <3>5. /\ booking[c].start \in Int /\ booking[c].end \in Int
          /\ booking[q.id].start \in Int /\ booking[q.id].end \in Int
      BY <3>1, DaysAssumption DEF Booking
    <3>6. booking[c].vehicle = booking[q.id].vehicle
      BY <1>2, <2>1, <3>2 DEF Blocks
    <3>7. DoubleBooked(q.id, c)
      BY <1>2, <2>1, <3>4, <3>5, <3>6 DEF DoubleBooked, Blocks, RangesOverlap
    <3> QED
      BY <1>2, <3>7 DEF BookingsInv, DoubleBookingOnlyByRace
  <2>2. GuardHolds(r)'
    BY <2>1 DEF GuardHolds, BookingsRaced
  <2> QED
    BY <2>2, UnwrittenInv
<1> QED
  BY <1>1, <1>2

\* create still has its guarding read before it.
LEMMA CreateBookingInv ==
    ASSUME BookingsInv, NEW r \in BookingRequests, CreateBooking(r)
    PROVE  BookingsInv'
<1>1. BookingsTypeInv'
  BY CreateBookingType DEF BookingsInv
<1>2. \A x \in BookingRequests : x # r => breq'[x] = breq[x]
  BY DEF CreateBooking, BookingsInv, BookingsTypeInv, BookingsTypeOK
<1>3. breq'[r].pc = "bookings"
  BY DEF CreateBooking, BookingsInv, BookingsTypeInv, BookingsTypeOK
<1> QED
  BY <1>1, <1>2, <1>3, BookingAcceptedInv DEF CreateBooking

\* confirm relies on what holds of a PENDING booking when it reads it.
LEMMA ConfirmBookingInv ==
    ASSUME BookingsInv, NEW r \in BookingRequests, ConfirmBooking(r)
    PROVE  BookingsInv'
<1>1. PICK b \in DOMAIN booking :
         booking[b].status = "PENDING" /\ StatusRequest(r, "confirm", b)
  BY DEF ConfirmBooking, FindBooking
<1>2. BookingsTypeInv'
  BY <1>1, StatusRequestType DEF BookingsInv, ConfirmBooking
<1>3. /\ breq'[r].id = b /\ breq'[r].op = "confirm"
      /\ \A x \in BookingRequests : x # r => breq'[x] = breq[x]
  BY <1>1 DEF StatusRequest, BookingsInv, BookingsTypeInv, BookingsTypeOK
<1>4. TargetVehicle(r)' = booking[b].vehicle
  BY <1>3 DEF TargetVehicle, ConfirmBooking
<1> QED
  BY <1>1, <1>2, <1>3, <1>4, BookingAcceptedInv DEF ConfirmBooking, ActiveBooking

\* cancel frees a vehicle, so it relies on nothing.
LEMMA CancelBookingInv ==
    ASSUME BookingsInv, NEW r \in BookingRequests, CancelBooking(r)
    PROVE  BookingsInv'
<1>1. PICK b \in DOMAIN booking : StatusRequest(r, "cancel", b)
  BY DEF CancelBooking, FindBooking
<1>2. BookingsTypeInv'
  BY <1>1, StatusRequestType DEF BookingsInv, CancelBooking
<1>3. /\ breq'[r].op = "cancel"
      /\ \A x \in BookingRequests : x # r => breq'[x] = breq[x]
  BY <1>1 DEF StatusRequest, BookingsInv, BookingsTypeInv, BookingsTypeOK
<1> QED
  BY <1>2, <1>3, BookingAcceptedInv DEF CancelBooking

\* assign relies on the open booking it read while the vehicle stays, and has
\* its guarding read before it when the vehicle changes.
LEMMA AssignBookingInv ==
    ASSUME BookingsInv, NEW r \in BookingRequests, AssignBooking(r)
    PROVE  BookingsInv'
<1>1. PICK t \in Tenants, b \in BookingIds, dto \in AssignDriverVehicleDto :
         /\ FindBooking(b, t) /\ OpenBooking(b)
         /\ breq' = [breq EXCEPT ![r] = AssignRequest(t, b, dto)]
  BY DEF AssignBooking
<1>2. /\ breq'[r] = AssignRequest(t, b, dto)
      /\ \A x \in BookingRequests : x # r => breq'[x] = breq[x]
  BY <1>1 DEF BookingsInv, BookingsTypeInv, BookingsTypeOK
<1>3. b \in DOMAIN booking /\ ActiveBooking(booking[b])
  BY <1>1 DEF FindBooking, OpenBooking, ActiveBooking, BookingsInv,
              BookingsTypeInv, IsTable, Booking, BookingStatus
<1>4. /\ breq'[r].id = b
      /\ breq'[r].op = "assign" /\ breq'[r].vehicle = dto.vehicle
      /\ \/ breq'[r].pc = "bookings"
         \/ dto.vehicle \in {booking[b].vehicle, Absent}
  BY <1>2 DEF AssignRequest
<1>5. TargetVehicle(r)' = dto.vehicle
  BY <1>4 DEF TargetVehicle
<1>6. BookingsTypeInv'
  BY AssignBookingType DEF BookingsInv
<1> QED
  BY <1>2, <1>3, <1>4, <1>5, <1>6, BookingAcceptedInv DEF AssignBooking

(***************************************************************************)
(* The writes.  b keeps its vehicle and gains no hold on it, or r checked  *)
(* the vehicle that b has afterwards.                                      *)
(***************************************************************************)
WriteKeepsVehicle(b) ==
    /\ b \in DOMAIN booking
    /\ booking'[b].vehicle = booking[b].vehicle
    /\ booking'[b].status = booking[b].status \/ ~ActiveBooking(booking'[b])

WriteCheckedVehicle(r, b) ==
    /\ breq[r].op # "cancel"
    /\ booking'[b].vehicle = TargetVehicle(r)

\* A booking that conflicts with the one just written raced with it.
LEMMA BookingWritePairs ==
    ASSUME BookingsInv, NEW r \in BookingRequests, NEW b,
           breq[r].pc = "write", BookingWrite(r, b),
           WriteKeepsVehicle(b) \/ WriteCheckedVehicle(r, b),
           NEW c \in DOMAIN booking', DoubleBooked(b, c)'
    PROVE  BookingsRaced(b, c)'
<1> DEFINE q == breq[r]
<1>1. c \in DOMAIN booking /\ c # b /\ booking'[c] = booking[c]
  BY DEF BookingWrite, DoubleBooked
<1>2. /\ booking[c] \in Booking /\ booking'[b] \in Booking
      /\ b \in BookingIds /\ c \in BookingIds
  BY <1>1 DEF BookingsInv, BookingsTypeInv, IsTable, BookingWrite
<1>3. /\ booking[c].start \in Int /\ booking[c].end \in Int
      /\ booking'[b].start \in Int /\ booking'[b].end \in Int
  BY <1>2, DaysAssumption DEF Booking
<1>4. braced' = braced \cup ({b} \X (bmissed[r] \ {b}))
  BY DEF BookingWrite, BookingWritten
<1>5. breq[r] \in BookingRequest /\ BookingRequestOK(r)
  BY DEF BookingsInv, BookingsTypeInv, BookingsTypeOK, BookingIdle
<1>6. CASE WriteKeepsVehicle(b)
  <2>1. q.op # "create"
    BY <1>6 DEF WriteKeepsVehicle, BookingWrite
  <2>2. b = q.id /\ b \in DOMAIN booking
    BY <2>1 DEF BookingWrite
  <2>3. /\ booking[b].tenant = q.tenant
        /\ booking[b].start = q.start /\ booking[b].end = q.end
    BY <1>5, <2>1, <2>2 DEF BookingRequestOK
  <2>4. /\ booking'[b].tenant = q.tenant
        /\ booking'[b].start = q.start /\ booking'[b].end = q.end
    BY DEF BookingWrite
  <2>5. DoubleBooked(b, c)
    BY <1>1, <1>6, <2>3, <2>4 DEF WriteKeepsVehicle, DoubleBooked, ActiveBooking
  <2>6. BookingsRaced(b, c)
    BY <1>1, <2>2, <2>5 DEF BookingsInv, DoubleBookingOnlyByRace
  <2> QED
    BY <1>4, <2>6 DEF BookingsRaced
<1>7. CASE WriteCheckedVehicle(r, b)
  <2>1. Blocks(c, TargetVehicle(r), q.tenant, q.start, q.end)
    <3>1. /\ booking'[b].tenant = q.tenant
          /\ booking'[b].start = q.start /\ booking'[b].end = q.end
      BY DEF BookingWrite
    <3>2. booking'[b].vehicle = TargetVehicle(r)
      BY <1>7 DEF WriteCheckedVehicle
    <3> QED
      BY <1>1, <1>3, <3>1, <3>2 DEF DoubleBooked, Blocks, RangesOverlap
  <2>2. BookingGuardRead(r)
    BY DEF BookingGuardRead
  <2>3. c # q.id
    <3>1. CASE q.op = "create"
      BY <1>2, <1>5, <3>1, SentinelAssumption DEF BookingRequestOK
    <3>2. CASE q.op # "create"
      BY <1>1, <3>2 DEF BookingWrite
    <3> QED
      BY <3>1, <3>2
  <2>4. c \in bmissed[r] \/ BookingsRaced(q.id, c)
    BY <1>1, <1>7, <2>1, <2>2, <2>3 DEF BookingsInv, GuardHolds, WriteCheckedVehicle
  <2>5. CASE c \in bmissed[r]
    BY <1>1, <1>4, <2>5 DEF BookingsRaced
  <2>6. CASE BookingsRaced(q.id, c)
    <3>1. q.id # None
      BY <2>6, SentinelAssumption
         DEF BookingsRaced, BookingsInv, BookingsTypeInv, BookingsTypeOK
    <3>2. b = q.id
      BY <1>5, <3>1 DEF BookingRequestOK, BookingWrite
    <3> QED
      BY <1>4, <2>6, <3>2 DEF BookingsRaced
  <2> QED
    BY <2>4, <2>5, <2>6
<1> QED
  BY <1>6, <1>7

\* A write is news to every other request past its guarding read.
LEMMA BookingWriteGuards ==
    ASSUME BookingsInv, NEW r \in BookingRequests, NEW b,
           breq[r].pc = "write", BookingWrite(r, b),
           WriteKeepsVehicle(b) \/ WriteCheckedVehicle(r, b),
           NEW x \in BookingRequests
    PROVE  GuardHolds(x)'
<1>1. CASE x = r
  BY <1>1 DEF GuardHolds, BookingGuardRead, BookingIdle, BookingWrite,
              BookingWritten, BookingsInv, BookingsTypeInv, BookingsTypeOK
<1>2. CASE x # r
  <2> DEFINE q == breq[x]
  <2>1. /\ breq'[x] = q
        /\ BookingGuardRead(x) => bmissed'[x] = bmissed[x] \cup {b}
    BY <1>2 DEF BookingWrite, BookingWritten, BookingsInv, BookingsTypeInv,
                BookingsTypeOK
  <2>2. BookingGuardRead(x)' = BookingGuardRead(x)
    BY <2>1 DEF BookingGuardRead
  <2> SUFFICES ASSUME BookingGuardRead(x), q.op # "cancel",
                      NEW c \in DOMAIN booking', c # q.id,
                      Blocks(c, TargetVehicle(x), breq[x].tenant,
                             breq[x].start, breq[x].end)'
               PROVE  c \in bmissed'[x] \/ BookingsRaced(q.id, c)'
    BY <2>1, <2>2 DEF GuardHolds
  <2>3. CASE c = b
    BY <2>1, <2>3
  <2>4. CASE c # b
    <3>1. c \in DOMAIN booking /\ booking'[c] = booking[c]
      BY <2>4 DEF BookingWrite
    <3>2. braced \subseteq braced' /\ bmissed[x] \subseteq bmissed'[x]
      BY <2>1 DEF BookingWrite, BookingWritten
    <3>3. CASE TargetVehicle(x)' = TargetVehicle(x)
      <4>1. Blocks(c, TargetVehicle(x), q.tenant, q.start, q.end)
        BY <2>1, <3>1, <3>3 DEF Blocks
      <4>2. c \in bmissed[x] \/ BookingsRaced(q.id, c)
        BY <3>1, <4>1 DEF BookingsInv, GuardHolds
      <4> QED
        BY <2>1, <3>2, <4>2 DEF BookingsRaced
    <3>4. CASE TargetVehicle(x)' # TargetVehicle(x)
      <4>1. q.op = "confirm"
        BY <2>1, <3>4 DEF TargetVehicle
      <4>2. /\ q.id \in DOMAIN booking /\ q.tenant = booking[q.id].tenant
            /\ q.start = booking[q.id].start /\ q.end = booking[q.id].end
        BY <4>1 DEF BookingsInv, BookingsTypeInv, BookingIdle, BookingRequestOK
      <4>3. q.id = b
        BY <2>1, <3>4, <4>1, <4>2 DEF TargetVehicle, BookingWrite
      <4>4. WriteCheckedVehicle(r, b)
        BY <2>1, <3>4, <4>1, <4>3 DEF TargetVehicle, WriteKeepsVehicle
      <4>5. breq[r].op # "create" /\ b = breq[r].id
        BY <4>2, <4>3 DEF BookingWrite
      <4>6. BookingRequestOK(r)
        BY DEF BookingsInv, BookingsTypeInv, BookingIdle
      <4>7. TargetVehicle(x)' = TargetVehicle(r)
        BY <2>1, <4>1, <4>3, <4>4 DEF TargetVehicle, WriteCheckedVehicle
      <4>8. Blocks(c, TargetVehicle(r), breq[r].tenant, breq[r].start, breq[r].end)
        BY <2>1, <3>1, <4>2, <4>3, <4>5, <4>6, <4>7 DEF Blocks, BookingRequestOK
      <4>9. BookingGuardRead(r) /\ breq[r].op # "cancel"
        BY <4>4 DEF BookingGuardRead, WriteCheckedVehicle
      <4>10. c \in bmissed[r] \/ BookingsRaced(b, c)
        BY <2>4, <3>1, <4>5, <4>8, <4>9 DEF BookingsInv, GuardHolds
      <4>11. braced' = braced \cup ({b} \X (bmissed[r] \ {b}))
        BY DEF BookingWrite, BookingWritten
      <4> QED
        BY <2>1, <2>4, <4>3, <4>10, <4>11 DEF BookingsRaced
    <3> QED
      BY <3>3, <3>4
  <2> QED
    BY <2>3, <2>4
<1> QED
  BY <1>1, <1>2

\* The three writes preserve the invariant.
LEMMA BookingWriteInv ==
    ASSUME BookingsInv, NEW r \in BookingRequests, NEW b,
           breq[r].pc = "write", BookingWrite(r, b),
           WriteKeepsVehicle(b) \/ WriteCheckedVehicle(r, b)
    PROVE  BookingsInv'
<1>1. BookingsTypeInv'
  BY BookingWriteType DEF BookingsInv, BookingIdle
<1>2. ASSUME NEW a \in DOMAIN booking', NEW c \in DOMAIN booking', DoubleBooked(a, c)'
      PROVE  BookingsRaced(a, c)'
  <2>1. CASE a = b
    BY <1>2, <2>1, BookingWritePairs
  <2>2. CASE c = b
    <3>1. booking'[a] \in Booking /\ booking'[c] \in Booking
      BY <1>1 DEF BookingsTypeInv, IsTable
    <3>2. /\ booking'[a].start \in Int /\ booking'[a].end \in Int
          /\ booking'[c].start \in Int /\ booking'[c].end \in Int
      BY <3>1, DaysAssumption DEF Booking
    <3>3. DoubleBooked(c, a)'
      BY <1>2, <3>2 DEF DoubleBooked, RangesOverlap
    <3>4. BookingsRaced(c, a)'
      BY <2>2, <3>3, BookingWritePairs
    <3> QED
      BY <3>4 DEF BookingsRaced
  <2>3. CASE a # b /\ c # b
    <3>1. /\ a \in DOMAIN booking /\ c \in DOMAIN booking
          /\ booking'[a] = booking[a] /\ booking'[c] = booking[c]
      BY <2>3 DEF BookingWrite
    <3>2. DoubleBooked(a, c)
      BY <1>2, <3>1 DEF DoubleBooked
    <3>3. BookingsRaced(a, c)
      BY <3>1, <3>2 DEF BookingsInv, DoubleBookingOnlyByRace
    <3> QED
      BY <3>3 DEF BookingsRaced, BookingWrite, BookingWritten
  <2> QED
    BY <2>1, <2>2, <2>3
<1>3. \A x \in BookingRequests : GuardHolds(x)'
  BY BookingWriteGuards
<1> QED
  BY <1>1, <1>2, <1>3 DEF BookingsInv, DoubleBookingOnlyByRace

----------------------------------------------------------------------------
(***************************************************************************)
(* One step per action of BookingsNext.                                    *)
(***************************************************************************)

\* The awaited queries and the writes, one case each.
LEMMA BookingStepInv ==
    ASSUME BookingsInv, NEW r \in BookingRequests, BookingStep(r)
    PROVE  BookingsInv'
<1> DEFINE q == breq[r]
<1>1. CASE CheckBookingConflict(r)
  <2>1. q # BookingIdle /\ q.op # "confirm"
    BY <1>1 DEF CheckBookingConflict, BookingIdle, BookingsInv,
                BookingsTypeInv, BookingRequestOK
  <2> QED
    BY <1>1, <2>1, BookingProceedsInv DEF CheckBookingConflict
<1>2. CASE CheckTripConflict(r)
  BY <1>2, BookingProceedsInv DEF CheckTripConflict, BookingIdle
<1>3. CASE CheckVehicleStatus(r)
  BY <1>3, BookingProceedsInv DEF CheckVehicleStatus, BookingIdle
<1>4. CASE CheckMaintenance(r)
  <2> DEFINE pc == IF q.askDriver THEN "assignments" ELSE "write"
             ok == ~MaintenanceConflict(q.vehicle, q.tenant, q.start, q.end)
  <2>1. pc \in {"assignments", "write"}
    OBVIOUS
  <2>2. q # BookingIdle /\ q.pc = "maintenance" /\ BookingProceeds(r, ok, pc)
    BY <1>4 DEF CheckMaintenance, BookingIdle
  <2> HIDE DEF pc, ok
  <2> QED
    BY <2>1, <2>2, BookingProceedsInv
<1>5. CASE CheckAssignmentConflict(r)
  BY <1>5, BookingProceedsInv DEF CheckAssignmentConflict, BookingIdle
<1>6. CASE CheckDriverTrips(r)
  BY <1>6, BookingProceedsInv DEF CheckDriverTrips, BookingIdle
<1>7. CASE InsertBooking(r)
  <2>1. PICK b \in BookingIds : /\ BookingWrite(r, b)
                                /\ booking'[b].vehicle = breq[r].vehicle
    BY <1>7, InsertBookingWrites DEF BookingsInv
  <2>2. q.pc = "write" /\ q.op = "create"
    BY <1>7 DEF InsertBooking
  <2>3. WriteCheckedVehicle(r, b)
    BY <2>1, <2>2 DEF WriteCheckedVehicle, TargetVehicle
  <2> QED
    BY <2>1, <2>2, <2>3, BookingWriteInv
<1>8. CASE SetBookingStatus(r)
  <2> DEFINE b == breq[r].id
  <2>1. /\ b \in DOMAIN booking /\ BookingWrite(r, b)
        /\ booking'[b].vehicle = booking[b].vehicle
        /\ q.op \in {"confirm", "cancel"}
        /\ q.op = "cancel" => ~ActiveBooking(booking'[b])
    BY <1>8, SetBookingStatusWrites DEF BookingsInv
  <2>2. q.pc = "write"
    BY <1>8 DEF SetBookingStatus
  <2>3. WriteKeepsVehicle(b) \/ WriteCheckedVehicle(r, b)
    BY <2>1 DEF WriteKeepsVehicle, WriteCheckedVehicle, TargetVehicle
  <2> QED
    BY <2>1, <2>2, <2>3, BookingWriteInv
<1>9. CASE SetBookingAssignees(r)
  <2> DEFINE b == breq[r].id
  <2>1. /\ b \in DOMAIN booking /\ q.op = "assign" /\ BookingWrite(r, b)
        /\ booking'[b].status = booking[b].status
        /\ booking'[b].vehicle =
             IF q.vehicle = Absent THEN booking[b].vehicle ELSE q.vehicle
    BY <1>9, SetBookingAssigneesWrites DEF BookingsInv
  <2>2. q.pc = "write"
    BY <1>9 DEF SetBookingAssignees
  <2>3. WriteKeepsVehicle(b) \/ WriteCheckedVehicle(r, b)
    BY <2>1 DEF WriteKeepsVehicle, WriteCheckedVehicle, TargetVehicle
  <2> QED
    BY <2>1, <2>2, <2>3, BookingWriteInv
<1> QED
  BY <1>1, <1>2, <1>3, <1>4, <1>5, <1>6, <1>7, <1>8, <1>9 DEF BookingStep

\* Every step of BookingsService preserves the invariant.
THEOREM BookingsNextInv ==
    BookingsInv /\ BookingsNext => BookingsInv'
<1> SUFFICES ASSUME BookingsInv, NEW r \in BookingRequests,
                    \/ CreateBooking(r) \/ ConfirmBooking(r) \/ CancelBooking(r)
                    \/ AssignBooking(r) \/ BookingStep(r) \/ BookingRequestFails(r)
             PROVE  BookingsInv'
  BY DEF BookingsNext
<1>1. CASE CreateBooking(r)
  BY <1>1, CreateBookingInv
<1>2. CASE ConfirmBooking(r)
  BY <1>2, ConfirmBookingInv
<1>3. CASE CancelBooking(r)
  BY <1>3, CancelBookingInv
<1>4. CASE AssignBooking(r)
  BY <1>4, AssignBookingInv
<1>5. CASE BookingStep(r)
  BY <1>5, BookingStepInv
<1>6. CASE BookingRequestFails(r)
  BY <1>6, BookingReturnsInv DEF BookingRequestFails
<1> QED
  BY <1>1, <1>2, <1>3, <1>4, <1>5, <1>6

\* A step of another component leaves the bookings and their requests alone.
THEOREM BookingsUnchangedInv ==
    BookingsInv /\ UNCHANGED bookingVars => BookingsInv'
<1> SUFFICES ASSUME BookingsInv, UNCHANGED bookingVars
             PROVE  BookingsInv'
  OBVIOUS
<1>1. BookingsTypeInv'
  BY DEF BookingsInv, BookingsTypeInv, BookingsTypeOK, bookingVars,
         BookingRequestOK, IsTable
<1>2. DoubleBookingOnlyByRace'
  BY DEF BookingsInv, DoubleBookingOnlyByRace, DoubleBooked, BookingsRaced,
         bookingVars
<1>3. \A r \in BookingRequests : GuardHolds(r)'
  BY GuardHoldsStays DEF BookingsInv, bookingVars
<1> QED
  BY <1>1, <1>2, <1>3 DEF BookingsInv

----------------------------------------------------------------------------
(***************************************************************************)
(* What a request knows of its booking's status and of its vehicle.        *)
(***************************************************************************)

\* A request that no write has overtaken still knows what it read: an assign, that
\* the booking keeps its vehicle, or else, like a create, that none is in its way.
VehicleHeld(r) ==
    LET q == breq[r] IN
    BookingGuardRead(r) /\ bmissed[r] = {} =>
      \/ q.op \in {"confirm", "cancel"}
      \/ q.op = "assign" /\ q.vehicle \in {Absent, booking[q.id].vehicle}
      \/ \A c \in DOMAIN booking : ~Blocks(c, q.vehicle, q.tenant, q.start, q.end)

\* A create holds two dates in order; a confirm found its booking PENDING, and
\* a cancel found it open, unless it was written since they read it.
StatusHeld(r) ==
    LET q == breq[r] IN
    /\ q.op = "create" => q.start < q.end
    /\ q.op = "confirm" => q.id \in bmissed[r] \/ booking[q.id].status = "PENDING"
    /\ q.op = "cancel" => q.id \in bmissed[r] \/ OpenBooking(q.id)
    /\ VehicleHeld(r)

StatusInv == \A r \in BookingRequests : breq[r] # BookingIdle => StatusHeld(r)

\* A step that writes no booking.
LEMMA UnwrittenStatusInv ==
    ASSUME StatusInv, NEW r \in BookingRequests, UNCHANGED booking,
           \A x \in BookingRequests : x # r => /\ breq'[x] = breq[x]
                                               /\ bmissed'[x] = bmissed[x],
           breq'[r] = BookingIdle \/ StatusHeld(r)'
    PROVE  StatusInv'
<1>1. ASSUME NEW x \in BookingRequests, x # r, StatusHeld(x)
      PROVE  StatusHeld(x)'
  <2>1. breq'[x] = breq[x] /\ bmissed'[x] = bmissed[x]
    BY <1>1
  <2> QED
    BY <1>1, <2>1 DEF StatusHeld, OpenBooking, VehicleHeld, BookingGuardRead, Blocks
<1> QED
  BY <1>1 DEF StatusInv

\* A request that returns without a write.
LEMMA BookingReturnsStatusInv ==
    ASSUME BookingsTypeInv, StatusInv, NEW r \in BookingRequests,
           BookingReturns(r), UNCHANGED booking
    PROVE  StatusInv'
BY UnwrittenStatusInv DEF BookingReturns, BookingsTypeInv, BookingsTypeOK

\* A request that goes on from the query of bookings has found no conflict.
PassedBookings(r, ok) ==
    LET q == breq[r] IN
    ok /\ q.pc = "bookings" => ~BookingConflict(q.vehicle, q.tenant, q.start, q.end)

\* The availability checks leave what the request read as it was.
LEMMA BookingProceedsStatusInv ==
    ASSUME BookingsTypeInv, StatusInv, NEW r \in BookingRequests, NEW ok, NEW pc,
           breq[r] # BookingIdle, BookingProceeds(r, ok, pc), PassedBookings(r, ok)
    PROVE  StatusInv'
<1>1. CASE ~ok
  BY <1>1, BookingReturnsStatusInv DEF BookingProceeds
<1>2. CASE ok
  <2>1. breq[r] \in BookingRequest /\ StatusHeld(r)
    BY DEF BookingsTypeInv, BookingsTypeOK, StatusInv
  <2>2. /\ UNCHANGED <<booking, bmissed>>
        /\ breq'[r] = [breq[r] EXCEPT !.pc = pc]
        /\ \A x \in BookingRequests : x # r => breq'[x] = breq[x]
    BY <1>2 DEF BookingsTypeInv, BookingsTypeOK, BookingProceeds
  <2>3. /\ breq'[r].op = breq[r].op /\ breq'[r].id = breq[r].id
        /\ breq'[r].start = breq[r].start /\ breq'[r].end = breq[r].end
        /\ breq'[r].vehicle = breq[r].vehicle /\ breq'[r].tenant = breq[r].tenant
    BY <2>1, <2>2 DEF BookingRequest
  <2>4. VehicleHeld(r)'
    <3>1. CASE breq[r].pc = "bookings"
      BY <1>2, <2>2, <2>3, <3>1 DEF PassedBookings, BookingConflict, VehicleHeld, Blocks
    <3>2. CASE breq[r].pc # "bookings"
      <4>1. BookingGuardRead(r)
        BY <2>1, <3>2 DEF BookingGuardRead, BookingRequest
      <4> QED
        BY <2>1, <2>2, <2>3, <4>1 DEF StatusHeld, VehicleHeld, Blocks
    <3> QED
      BY <3>1, <3>2
  <2>5. StatusHeld(r)'
    BY <2>1, <2>2, <2>3, <2>4 DEF StatusHeld, OpenBooking
  <2> QED
    BY <2>2, <2>5, UnwrittenStatusInv
<1> QED
  BY <1>1, <1>2

\* confirm and cancel hold the status they read.
LEMMA StatusRequestStatusInv ==
    ASSUME BookingsTypeInv, StatusInv, NEW r \in BookingRequests, NEW b, NEW op,
           \/ op = "confirm" /\ booking[b].status = "PENDING"
           \/ op = "cancel" /\ OpenBooking(b),
           StatusRequest(r, op, b), UNCHANGED <<booking, bmissed, braced>>
    PROVE  StatusInv'
<1>1. /\ breq'[r].op = op /\ breq'[r].id = b
      /\ \A x \in BookingRequests : x # r => breq'[x] = breq[x]
  BY DEF StatusRequest, BookingsTypeInv, BookingsTypeOK
<1>2. StatusHeld(r)'
  BY <1>1 DEF StatusHeld, OpenBooking, VehicleHeld
<1> QED
  BY <1>1, <1>2, UnwrittenStatusInv

\* A write is news to every confirm and cancel that had read the booking.
LEMMA BookingWriteStatusInv ==
    ASSUME BookingsTypeInv, StatusInv, NEW r \in BookingRequests, NEW b,
           BookingWrite(r, b)
    PROVE  StatusInv'
<1> SUFFICES ASSUME NEW x \in BookingRequests, breq'[x] # BookingIdle
             PROVE  StatusHeld(x)'
  BY DEF StatusInv
<1>1. /\ x # r /\ breq'[x] = breq[x] /\ breq[x] # BookingIdle
      /\ BookingRequestOK(x) /\ StatusHeld(x)
  BY DEF BookingWrite, BookingWritten, BookingsTypeInv, BookingsTypeOK, StatusInv
<1>2. breq[x].op \in {"confirm", "cancel"} => bmissed'[x] = bmissed[x] \cup {b}
  BY <1>1 DEF BookingWrite, BookingWritten, BookingRequestOK, BookingGuardRead
<1>3. breq[x].op \in {"confirm", "cancel"} /\ breq[x].id # b
        => booking'[breq[x].id] = booking[breq[x].id]
  BY <1>1 DEF BookingWrite, BookingRequestOK
<1>4. VehicleHeld(x)'
  BY <1>1 DEF VehicleHeld, BookingGuardRead, BookingWrite, BookingWritten
<1> QED
  BY <1>1, <1>2, <1>3, <1>4 DEF StatusHeld, OpenBooking

\* Each of the three writes is a BookingWrite.
LEMMA BookingWrites ==
    ASSUME BookingsTypeInv, NEW r \in BookingRequests,
           InsertBooking(r) \/ SetBookingStatus(r) \/ SetBookingAssignees(r)
    PROVE  \E b : BookingWrite(r, b)
<1>1. CASE InsertBooking(r)
  BY <1>1, InsertBookingWrites
<1>2. CASE SetBookingStatus(r)
  BY <1>2, SetBookingStatusWrites
<1>3. CASE SetBookingAssignees(r)
  BY <1>3, SetBookingAssigneesWrites
<1> QED
  BY <1>1, <1>2, <1>3

\* An availability check lets its handler go on or throws.
LEMMA BookingCheckProceeds ==
    ASSUME NEW r \in BookingRequests,
           \/ CheckBookingConflict(r) \/ CheckTripConflict(r)
           \/ CheckVehicleStatus(r) \/ CheckMaintenance(r)
           \/ CheckAssignmentConflict(r) \/ CheckDriverTrips(r)
    PROVE  /\ breq[r] # BookingIdle
           /\ \E ok, pc : BookingProceeds(r, ok, pc) /\ PassedBookings(r, ok)
<1>1. CASE CheckBookingConflict(r)
  <2>1. breq[r].pc = "bookings" /\ breq[r] # BookingIdle
    BY <1>1 DEF CheckBookingConflict, BookingIdle
  <2>2. CASE BookingConflict(breq[r].vehicle, breq[r].tenant, breq[r].start, breq[r].end)
    <3>1. BookingProceeds(r, FALSE, "trips") /\ PassedBookings(r, FALSE)
      BY <1>1, <2>2 DEF CheckBookingConflict, BookingProceeds, PassedBookings
    <3> QED
      BY <2>1, <3>1
  <2>3. CASE ~BookingConflict(breq[r].vehicle, breq[r].tenant, breq[r].start, breq[r].end)
    <3>1. BookingProceeds(r, TRUE, "trips") /\ PassedBookings(r, TRUE)
      BY <1>1, <2>3 DEF CheckBookingConflict, BookingProceeds, PassedBookings
    <3> QED
      BY <2>1, <3>1
  <2> QED
    BY <2>2, <2>3
<1>2. CASE \/ CheckTripConflict(r) \/ CheckVehicleStatus(r) \/ CheckMaintenance(r)
           \/ CheckAssignmentConflict(r) \/ CheckDriverTrips(r)
  <2>1. breq[r].pc # "bookings" /\ breq[r] # BookingIdle
    BY <1>2 DEF CheckTripConflict, CheckVehicleStatus, CheckMaintenance,
                CheckAssignmentConflict, CheckDriverTrips, BookingIdle
  <2>2. \E ok, pc : BookingProceeds(r, ok, pc)
    BY <1>2 DEF CheckTripConflict, CheckVehicleStatus, CheckMaintenance,
                CheckAssignmentConflict, CheckDriverTrips
  <2> QED
    BY <2>1, <2>2 DEF PassedBookings
<1> QED
  BY <1>1, <1>2

\* Every step of BookingsService keeps what its requests know.
THEOREM BookingsNextStatusInv ==
    ASSUME BookingsTypeInv, StatusInv, BookingsNext
    PROVE  StatusInv'
<1> PICK r \in BookingRequests :
         \/ CreateBooking(r) \/ ConfirmBooking(r) \/ CancelBooking(r)
         \/ AssignBooking(r) \/ BookingStep(r) \/ BookingRequestFails(r)
  BY DEF BookingsNext
<1>1. CASE CreateBooking(r)
  <2>1. PICK t \in Tenants, dto \in CreateBookingDto :
          /\ dto.end > dto.start
          /\ breq' = [breq EXCEPT ![r] =
              [pc |-> "bookings", op |-> "create", tenant |-> t, id |-> None,
               vehicle |-> dto.vehicle, driver |-> dto.driver,
               start |-> dto.start, end |-> dto.end,
               askDriver |-> dto.driver # None]]
    BY <1>1 DEF CreateBooking
  <2>2. /\ breq'[r].op = "create" /\ breq'[r].pc = "bookings"
        /\ breq'[r].start = dto.start /\ breq'[r].end = dto.end
        /\ \A x \in BookingRequests : x # r => breq'[x] = breq[x]
    BY <2>1 DEF BookingsTypeInv, BookingsTypeOK
  <2>3. dto.start \in Int /\ dto.end \in Int
    BY DaysAssumption DEF CreateBookingDto
  <2>4. dto.start < dto.end
    BY <2>1, <2>3
  <2>5. StatusHeld(r)'
    BY <2>2, <2>4 DEF StatusHeld, VehicleHeld, BookingGuardRead
  <2> QED
    BY <1>1, <2>2, <2>5, UnwrittenStatusInv DEF CreateBooking
<1>2. CASE ConfirmBooking(r)
  BY <1>2, StatusRequestStatusInv DEF ConfirmBooking
<1>3. CASE CancelBooking(r)
  BY <1>3, StatusRequestStatusInv DEF CancelBooking
<1>4. CASE AssignBooking(r)
  <2>1. PICK t \in Tenants, b \in BookingIds, dto \in AssignDriverVehicleDto :
          /\ breq' = [breq EXCEPT ![r] = AssignRequest(t, b, dto)]
          /\ UNCHANGED booking
    BY <1>4 DEF AssignBooking
  <2>2. /\ breq'[r] = AssignRequest(t, b, dto) /\ breq'[r].op = "assign"
        /\ \A x \in BookingRequests : x # r => breq'[x] = breq[x]
    BY <2>1 DEF AssignRequest, BookingsTypeInv, BookingsTypeOK
  <2>3. StatusHeld(r)'
    BY <2>1, <2>2 DEF StatusHeld, VehicleHeld, BookingGuardRead, AssignRequest
  <2> QED
    BY <1>4, <2>2, <2>3, UnwrittenStatusInv DEF AssignBooking
<1>5. CASE \/ CheckBookingConflict(r) \/ CheckTripConflict(r)
           \/ CheckVehicleStatus(r) \/ CheckMaintenance(r)
           \/ CheckAssignmentConflict(r) \/ CheckDriverTrips(r)
  BY <1>5, BookingCheckProceeds, BookingProceedsStatusInv
<1>6. CASE InsertBooking(r) \/ SetBookingStatus(r) \/ SetBookingAssignees(r)
  BY <1>6, BookingWrites, BookingWriteStatusInv
<1>7. CASE BookingRequestFails(r)
  BY <1>7, BookingReturnsStatusInv DEF BookingRequestFails
<1> QED
  BY <1>1, <1>2, <1>3, <1>4, <1>5, <1>6, <1>7 DEF BookingStep

\* confirm() accepts PENDING bookings only: the one that gives a cancelled
\* booking another status had read it before the cancellation was written.
THEOREM BookingsNextRevived ==
    ASSUME BookingsTypeInv, StatusInv, BookingsNext, NEW b \in DOMAIN booking,
           booking[b].status = "CANCELLED", booking'[b].status # "CANCELLED"
    PROVE  \E r \in BookingRequests : RevivedBy(r, b)
<1> PICK r \in BookingRequests :
         \/ CreateBooking(r) \/ ConfirmBooking(r) \/ CancelBooking(r)
         \/ AssignBooking(r) \/ BookingStep(r) \/ BookingRequestFails(r)
  BY DEF BookingsNext
<1>1. booking' # booking
  OBVIOUS
<1>2. InsertBooking(r) \/ SetBookingStatus(r) \/ SetBookingAssignees(r)
  <2>1. ~ \/ CheckBookingConflict(r) \/ CheckTripConflict(r)
          \/ CheckVehicleStatus(r) \/ CheckMaintenance(r)
          \/ CheckAssignmentConflict(r) \/ CheckDriverTrips(r)
    BY <1>1, BookingCheckProceeds DEF BookingProceeds
  <2> QED
    BY <1>1, <2>1 DEF CreateBooking, ConfirmBooking, CancelBooking, AssignBooking,
                      BookingRequestFails, BookingStep
<1>3. CASE InsertBooking(r)
  <2>1. PICK c \in BookingIds \ DOMAIN booking : \E row : booking' = Insert(booking, c, row)
    BY <1>3 DEF InsertBooking
  <2> QED
    BY <2>1 DEF Insert
<1>4. CASE SetBookingAssignees(r)
  BY <1>4, SetBookingAssigneesWrites DEF BookingWrite
<1>5. CASE SetBookingStatus(r)
  <2>1. /\ breq[r] # BookingIdle /\ BookingWrite(r, breq[r].id)
        /\ breq[r].op \in {"confirm", "cancel"} /\ breq[r].id \in DOMAIN booking
    <3>1. breq[r].pc = "write"
      BY <1>5 DEF SetBookingStatus
    <3>2. breq[r] # BookingIdle
      BY <3>1 DEF BookingIdle
    <3> QED
      BY <1>5, <3>2, SetBookingStatusWrites
  <2>2. b = breq[r].id
    BY <2>1 DEF BookingWrite
  <2>3. breq[r].op = "confirm" /\ breq'[r] = BookingIdle
    <3> PICK status : status = IF breq[r].op = "confirm" THEN "CONFIRMED" ELSE "CANCELLED"
      OBVIOUS
    <3>1. booking[b] \in Booking /\ DOMAIN booking = DOMAIN booking'
      BY <2>1, <2>2 DEF BookingsTypeInv, IsTable, BookingWrite
    <3>2. booking'[b] = [booking[b] EXCEPT !.status = status]
      BY <1>5, <2>2 DEF SetBookingStatus
    <3>3. booking'[b].status = status
      BY <3>1, <3>2 DEF Booking
    <3> QED
      BY <2>1, <3>3 DEF BookingWrite, BookingWritten, BookingsTypeInv, BookingsTypeOK
  <2>4. b \in bmissed[r]
    BY <2>1, <2>2, <2>3 DEF StatusInv, StatusHeld
  <2> QED
    BY <2>1, <2>2, <2>3, <2>4 DEF RevivedBy
<1> QED
  BY <1>2, <1>3, <1>4, <1>5

----------------------------------------------------------------------------
(***************************************************************************)
(* One request at a time: nothing is missed, and no two bookings race.     *)
(***************************************************************************)
OneRequest == \A q, r \in BookingRequests : q = r

SerialInv ==
    /\ braced = {}
    /\ \A r \in BookingRequests :
          /\ bmissed[r] = {}
          /\ breq[r].op = "assign" => OpenBooking(breq[r].id)

\* A single slot is told of no write but its own.
THEOREM BookingsNextSerialInv ==
    ASSUME OneRequest, BookingsTypeInv, SerialInv, BookingsNext
    PROVE  SerialInv'
<1> PICK r \in BookingRequests :
         \/ CreateBooking(r) \/ ConfirmBooking(r) \/ CancelBooking(r)
         \/ AssignBooking(r) \/ BookingStep(r) \/ BookingRequestFails(r)
  BY DEF BookingsNext
<1>2. ASSUME BookingReturns(r), UNCHANGED braced
      PROVE  SerialInv'
  <2>1. breq'[r] = BookingIdle /\ bmissed'[r] = {}
    BY <1>2 DEF BookingReturns, BookingsTypeInv, BookingsTypeOK
  <2> QED
    BY <1>2, <2>1 DEF OneRequest, SerialInv, BookingIdle
<1>3. ASSUME NEW op, op # "assign", breq'[r].op = op,
             UNCHANGED <<booking, bmissed, braced>>
      PROVE  SerialInv'
  BY <1>3 DEF OneRequest, SerialInv
<1>4. CASE CreateBooking(r)
  <2>1. breq'[r].op = "create"
    BY <1>4 DEF CreateBooking, BookingsTypeInv, BookingsTypeOK
  <2> QED
    BY <1>3, <1>4, <2>1 DEF CreateBooking
<1>5. CASE ConfirmBooking(r) \/ CancelBooking(r)
  <2>1. breq'[r].op \in {"confirm", "cancel"}
    BY <1>5 DEF ConfirmBooking, CancelBooking, StatusRequest, BookingsTypeInv,
                BookingsTypeOK
  <2> QED
    BY <1>3, <1>5, <2>1 DEF ConfirmBooking, CancelBooking
<1>6. CASE AssignBooking(r)
  <2>1. PICK t \in Tenants, b \in BookingIds, dto \in AssignDriverVehicleDto :
          OpenBooking(b) /\ breq' = [breq EXCEPT ![r] = AssignRequest(t, b, dto)]
    BY <1>6 DEF AssignBooking
  <2>2. breq'[r].id = b
    BY <2>1 DEF AssignRequest, BookingsTypeInv, BookingsTypeOK
  <2> QED
    BY <1>6, <2>1, <2>2 DEF AssignBooking, OneRequest, SerialInv, OpenBooking
<1>7. CASE \/ CheckBookingConflict(r) \/ CheckTripConflict(r)
           \/ CheckVehicleStatus(r) \/ CheckMaintenance(r)
           \/ CheckAssignmentConflict(r) \/ CheckDriverTrips(r)
  <2>1. PICK ok, pc : breq[r] # BookingIdle /\ BookingProceeds(r, ok, pc)
    BY <1>7, BookingCheckProceeds
  <2>2. CASE ~ok
    BY <1>2, <2>1, <2>2 DEF BookingProceeds
  <2>3. CASE ok
    <3>1. /\ UNCHANGED <<booking, bmissed, braced>>
          /\ breq'[r] = [breq[r] EXCEPT !.pc = pc] /\ breq[r] \in BookingRequest
      BY <2>1, <2>3 DEF BookingProceeds, BookingsTypeInv, BookingsTypeOK
    <3>2. breq'[r].op = breq[r].op /\ breq'[r].id = breq[r].id
      BY <3>1 DEF BookingRequest
    <3> QED
      BY <3>1, <3>2 DEF OneRequest, SerialInv, OpenBooking
  <2> QED
    BY <2>2, <2>3
<1>8. CASE InsertBooking(r) \/ SetBookingStatus(r) \/ SetBookingAssignees(r)
  <2>1. PICK b : BookingWritten(r, b)
    BY <1>8, BookingWrites DEF BookingWrite
  <2>2. braced' = {} /\ bmissed'[r] = {} /\ breq'[r] = BookingIdle
    BY <2>1 DEF BookingWritten, SerialInv, BookingsTypeInv, BookingsTypeOK
  <2> QED
    BY <2>2 DEF OneRequest, SerialInv, BookingIdle
<1>9. CASE BookingRequestFails(r)
  BY <1>2, <1>9 DEF BookingRequestFails
<1> QED
  BY <1>4, <1>5, <1>6, <1>7, <1>8, <1>9 DEF BookingStep

=============================================================================
