--------------------------- MODULE MCDeliveryQueue ---------------------------
(* Two events: one for two channels, one for one of them.                  *)
EXTENDS DeliveryQueue

CONSTANTS d1, d2, d3, e1, e2, c1, c2

MCEventOf   == [d \in Deliveries |-> IF d = d3 THEN e2 ELSE e1]
MCChannelOf == [d \in Deliveries |-> IF d = d2 THEN c2 ELSE c1]
\* Two entries, as far apart as the bounds allow.
MCRetryDelays == <<2>>
=============================================================================
