---------------------------- MODULE BookingLedger ----------------------------
(***************************************************************************)
(* What BookingsService promises: a ledger in which every operation takes  *)
(* effect at once.  A tenant's booking of a vehicle is entered, or moved   *)
(* to another vehicle, only while no active booking of that tenant holds   *)
(* the vehicle in the same period; it is confirmed once, while PENDING,    *)
(* and cancelled for good.                                                 *)
(***************************************************************************)
EXTENDS Integers

CONSTANTS Tenants, Vehicles, BookingIds, Days

VARIABLE ledger   \* ledger[b]: the booking, for every b entered so far

Holding(row) == row.status \in {"PENDING", "CONFIRMED"}

\* No active booking but b itself holds vehicle v for tenant t in [s, e).
VehicleFree(b, v, t, s, e) ==
    \A c \in DOMAIN ledger \ {b} :
        ~ /\ ledger[c].tenant = t /\ ledger[c].vehicle = v
          /\ Holding(ledger[c])
          /\ ledger[c].start < e /\ s < ledger[c].end

Enter ==
    \E b \in BookingIds \ DOMAIN ledger, t \in Tenants, v \in Vehicles,
       s, e \in Days :
        /\ s < e
        /\ VehicleFree(b, v, t, s, e)
        /\ ledger' = [c \in DOMAIN ledger \cup {b} |->
               IF c = b THEN [tenant |-> t, vehicle |-> v, start |-> s, end |-> e,
                              status |-> "PENDING"]
                        ELSE ledger[c]]

Confirm ==
    \E b \in DOMAIN ledger :
        /\ ledger[b].status = "PENDING"
        /\ ledger' = [ledger EXCEPT ![b].status = "CONFIRMED"]

Cancel ==
    \E b \in DOMAIN ledger :
        /\ Holding(ledger[b])
        /\ ledger' = [ledger EXCEPT ![b].status = "CANCELLED"]

Move ==
    \E b \in DOMAIN ledger, v \in Vehicles :
        /\ Holding(ledger[b])
        /\ VehicleFree(b, v, ledger[b].tenant, ledger[b].start, ledger[b].end)
        /\ ledger' = [ledger EXCEPT ![b].vehicle = v]

Init == ledger = <<>>

Next == Enter \/ Confirm \/ Cancel \/ Move

Spec == Init /\ [][Next]_ledger

=============================================================================
