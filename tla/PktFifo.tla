------------------------------ MODULE PktFifo ------------------------------
(***************************************************************************)
(* What the receive ring of src/pktdrvr.c promises: a FIFO of at most      *)
(* Capacity packets between a driver that delivers them one at a time and  *)
(* an application that reads them one at a time.  A packet that arrives    *)
(* while the FIFO is full or closed is counted and lost, every other one   *)
(* is read once, in order.  Closing and opening the FIFO empty it.         *)
(***************************************************************************)
EXTENDS Integers, Sequences

CONSTANTS Capacity, Modulus, EthMax, Counts, Handles, MyHandle, Data, NoData

VARIABLES
  q,         \* the packets in the FIFO, oldest first
  arriving,  \* the packet being delivered, in a set, or {}
  reading,   \* has the head been read, its place not yet freed?
  closed,    \* are all packets refused?
  drops,     \* packets refused since the FIFO was last opened or closed
  result     \* what the last read returned

vars == <<q, arriving, reading, closed, drops, result>>

Packets == [firstCount : {c \in Counts : c <= EthMax}, secondCount : {0},
            handle : Handles, data : Data]

(* A packet of another handle, with two different counts or too long is    *)
(* read as an error.                                                       *)
Verdict(p) ==
  IF p.handle = MyHandle /\ p.firstCount = p.secondCount
     /\ p.firstCount <= EthMax
    THEN [size |-> p.firstCount, data |-> p.data]
    ELSE [size |-> -1, data |-> NoData]

Init ==
  /\ q = <<>> /\ arriving = {} /\ drops = 0
  /\ reading = FALSE /\ closed = FALSE
  /\ result = [size |-> 0, data |-> NoData]

Arrive(p) ==
  /\ arriving = {} /\ ~closed /\ Len(q) < Capacity
  /\ arriving' = {p}
  /\ UNCHANGED <<q, reading, closed, drops, result>>

Complete(cx) ==
  /\ \E p \in arriving : q' = Append(q, [p EXCEPT !.secondCount = cx])
  /\ arriving' = {}
  /\ UNCHANGED <<reading, closed, drops, result>>

Refuse ==
  /\ arriving = {} /\ (closed \/ Len(q) = Capacity)
  /\ drops' = (drops + 1) % Modulus
  /\ UNCHANGED <<q, arriving, reading, closed, result>>

Read ==
  /\ ~reading /\ ~closed /\ q # <<>>
  /\ result' = Verdict(Head(q))
  /\ reading' = TRUE
  /\ UNCHANGED <<q, arriving, closed, drops>>

Free ==
  /\ reading
  /\ q' = Tail(q)
  /\ reading' = FALSE
  /\ UNCHANGED <<arriving, closed, drops, result>>

ReadNothing ==
  /\ ~reading /\ ~closed /\ q = <<>>
  /\ result' = [size |-> 0, data |-> NoData]
  /\ UNCHANGED <<q, arriving, reading, closed, drops>>

SetClosed(b) ==
  /\ ~reading /\ arriving = {}
  /\ q' = <<>> /\ closed' = b /\ drops' = 0
  /\ UNCHANGED <<arriving, reading, result>>

Next ==
  \/ \E p \in Packets : Arrive(p)
  \/ \E cx \in Counts : Complete(cx)
  \/ Refuse \/ Read \/ Free \/ ReadNothing
  \/ \E b \in BOOLEAN : SetClosed(b)

Spec == Init /\ [][Next]_vars

=============================================================================
