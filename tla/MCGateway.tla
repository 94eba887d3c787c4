------------------------------ MODULE MCGateway ------------------------------
(* Which of the deliveries and channels there are is up to the cfg.        *)
EXTENDS Gateway

CONSTANTS d1, d2, e1, c1, c2

MCEventOf   == [d \in Deliveries |-> e1]
MCChannelOf == [d \in Deliveries |-> IF d = d1 THEN c1 ELSE c2]
\* One entry, longer than the lease.
MCRetryDelays == <<2>>
=============================================================================
