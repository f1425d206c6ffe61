\* A client who goes while its payment is verified takes the slot along.
SPECIFICATION GateSpec
CONSTANTS
    Call = {r1, r2, r3}
    MaxInFlight = 2
CHECK_DEADLOCK FALSE
INVARIANT PaymentsHoldSlots
