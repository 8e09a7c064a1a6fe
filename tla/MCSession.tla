----------------------------- MODULE MCSession ------------------------------
(* Instances of Session: one manager that starts over, one that gives up.  *)
EXTENDS Session, TLC

CONSTANTS m1, m2, p1, p2

SomePlans == {[commands |-> (m1 :> 1) @@ (m2 :> 1), faults |-> 1],
              [commands |-> (m1 :> 2) @@ (m2 :> 1), faults |-> 0],
              [commands |-> (m1 :> 2) @@ (m2 :> 0), faults |-> 1]}
EnoughHalves == 1 .. 16
=============================================================================
