----------------------------- MODULE MCFlights -----------------------------
(* Three handlers, two keys, one address more than can be in use at once   *)
(* so that an address is also allocated again while others are live.       *)
EXTENDS Flights
=============================================================================
