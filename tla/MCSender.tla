------------------------------ MODULE MCSender ------------------------------
(* Sender for TLC: two sinks, two addresses, one sink configured without an *)
(* address of its own.                                                      *)
EXTENDS Sender

CONSTANTS p1, p2, none

SinkIds == {1, 2}
AllPlaces == {p1, p2}
OneConfigured == <<[id |-> 1, ip |-> none]>>
=============================================================================
