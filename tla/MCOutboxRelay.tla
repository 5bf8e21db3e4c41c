---------------------------- MODULE MCOutboxRelay ----------------------------
(* Two relays of one database and two incident events. *)
EXTENDS OutboxRelay

CONSTANTS r1, r2

MCRelays == {r1, r2}
===============================================================================
