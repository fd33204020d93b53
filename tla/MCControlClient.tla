--------------------------- MODULE MCControlClient ---------------------------
(* Small values for the constants of ControlClient. *)
EXTENDS ControlClient, TLC

CONSTANTS t1, t2

Threads == {t1, t2}

(* One operation of each result shape. *)
SomeOps == {"start", "stop"}

(* Every fault of a broker that never answers before it is asked. *)
LateFaults == {"stale", "junk", "reuse", "shape", "hangup"}
AnyFault == LateFaults \cup {"early"}
=============================================================================
