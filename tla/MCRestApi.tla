------------------------------ MODULE MCRestApi ------------------------------
(* The constants with which TLC checks RestApi.                            *)
EXTENDS RestApi

CONSTANTS q1, q2, kiosk, gate

\* q2 is registered with one group and configured with the other.
Registered == [q \in Queues |-> IF q = q1 THEN kiosk ELSE gate]
Configured == [q \in Queues |-> kiosk]
=============================================================================
