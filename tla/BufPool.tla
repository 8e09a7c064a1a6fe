------------------------------ MODULE BufPool ------------------------------
(***************************************************************************)
(* The packet buffers of the bridge program: the pool and the queues of    *)
(* src/NDIS/QUEUE.C, the forwarding loop of src/NDIS/FILTER.C (checkCard), *)
(* and the management stack's end of it (checkIp and sendvRawMac in        *)
(* src/NDIS/IP.C).                                                         *)
(*                                                                         *)
(* The main loop forwards packets between two cards.  The callbacks of the *)
(* cards' drivers interrupt it anywhere but inside GUARD .. UNGUARD: they  *)
(* take a buffer from the pool and queue the packet they received in it,   *)
(* or give back the buffer of a packet that has been sent.  These          *)
(* callbacks and sendPacket are not in the tree; they are modelled from    *)
(* how this code uses them and from their counterparts in src/ndis2.c.     *)
(***************************************************************************)
EXTENDS Integers, Sequences, FiniteSets

CONSTANTS
  Bufs,        \* the packet buffers: filterConfig.numBuffers of them
  Overhead,    \* BUFFER_POOL_OVERHEAD
  Internet,    \* the two cards
  Campus,
  Listen,      \* cards whose packets for this host are taken (listenMode)
  MaxSends,    \* maxSends of a card
  MaxBurst,    \* bound: management packets queued in one go
  NoBuf        \* NULL

ASSUME BufsAssumption ==
  IsFiniteSet(Bufs) /\ NoBuf \notin Bufs /\ Cardinality(Bufs) > Overhead
ASSUME OverheadAssumption == Overhead \in Nat
ASSUME CardsAssumption == Internet # Campus /\ Listen \subseteq {Internet, Campus}
ASSUME MaxSendsAssumption == MaxSends \in Nat \ {0}
ASSUME MaxBurstAssumption == MaxBurst \in Nat

VARIABLES
  freePktBufs,    \* the free list, a stack
  queue,          \* packets received by each card
  mgmtQueue,      \* management packets to be sent by each card
  protocolQueue,  \* packets received for this host
  sendsPending,   \* packets given to each card's driver
  sending,        \* the buffers of these packets
  receiving,      \* the buffer each card's callback is filling, or NoBuf
  arrival,        \* received packets in the order of their sequence numbers
  mgmt,           \* buffers taken by allocPktBufMgmt (no variable of the code)
  pc,             \* where the main loop is
  from,           \* fromCard of the checkCard that is running
  held,           \* the packet the main loop has in hand, or NoBuf
  burst           \* bookkeeping for MaxBurst

macVars  == <<sending, receiving>>
mainVars == <<pc, from, held, burst>>
vars == <<freePktBufs, queue, mgmtQueue, protocolQueue, sendsPending, sending,
          receiving, arrival, mgmt, pc, from, held, burst>>

Cards    == {Internet, Campus}
Other(c) == IF c = Internet THEN Campus ELSE Internet
to       == Other(from)

FreePktBufPtr == Len(freePktBufs) - 1

Init ==
  /\ freePktBufs \in {s \in [1 .. Cardinality(Bufs) -> Bufs] :
                        \A i, j \in DOMAIN s : s[i] = s[j] => i = j}
  /\ queue = [c \in Cards |-> <<>>]
  /\ mgmtQueue = [c \in Cards |-> <<>>]
  /\ protocolQueue = <<>>
  /\ sendsPending = [c \in Cards |-> 0]
  /\ sending = [c \in Cards |-> {}]
  /\ receiving = [c \in Cards |-> NoBuf]
  /\ arrival = <<>>
  /\ mgmt = {}
  /\ pc = "mgmt" /\ from = Internet /\ held = NoBuf /\ burst = 0

-----------------------------------------------------------------------------
(* The pool.                                                               *)

TopFree == freePktBufs[Len(freePktBufs)]
Popped  == SubSeq(freePktBufs, 1, Len(freePktBufs) - 1)

(* The lists of enqueuePktBuf and dequeuePktBuf, each changed inside GUARD. *)
EnqueuePktBuf(q, b) == Append(q, b)
DequeuePktBuf(q)    == Tail(q)

(* freePktBuf.                                                             *)
Freed(b) == Append(freePktBufs, b)

(* Mutant: <= for <, the other way round.                                  *)
MayAllocLate == FreePktBufPtr >= Overhead - 1

(* allocPktBuf returns NULL when this is false, allocPktBufMgmt only when  *)
(* the pool is empty.                                                      *)
MayAlloc     == FreePktBufPtr >= Overhead
MayAllocMgmt == FreePktBufPtr >= 0

Without(s, b) == SelectSeq(s, LAMBDA x : x # b)

-----------------------------------------------------------------------------
(* The callbacks of the cards' drivers.                                    *)

(* A packet has come in: take a buffer, or drop the packet.                *)
ReceiveLookahead(c) ==
  /\ receiving[c] = NoBuf
  /\ MayAlloc
  /\ freePktBufs' = Popped
  /\ receiving' = [receiving EXCEPT ![c] = TopFree]
  /\ arrival' = Append(arrival, TopFree)
  /\ UNCHANGED <<queue, mgmtQueue, protocolQueue, sendsPending, sending, mgmt,
                 mainVars>>

(* The driver has copied it.                                               *)
ReceiveEnqueue(c) ==
  /\ receiving[c] # NoBuf
  /\ queue' = [queue EXCEPT ![c] = EnqueuePktBuf(@, receiving[c])]
  /\ receiving' = [receiving EXCEPT ![c] = NoBuf]
  /\ UNCHANGED <<freePktBufs, mgmtQueue, protocolQueue, sendsPending, sending,
                 arrival, mgmt, mainVars>>

(* It could not.                                                           *)
ReceiveFailed(c) ==
  /\ receiving[c] # NoBuf
  /\ freePktBufs' = Freed(receiving[c])
  /\ receiving' = [receiving EXCEPT ![c] = NoBuf]
  /\ arrival' = Without(arrival, receiving[c])
  /\ UNCHANGED <<queue, mgmtQueue, protocolQueue, sendsPending, sending, mgmt,
                 mainVars>>

(* A packet has been sent.                                                 *)
TransmitConfirm(c, b) ==
  /\ b \in sending[c]
  /\ sending' = [sending EXCEPT ![c] = @ \ {b}]
  /\ sendsPending' = [sendsPending EXCEPT ![c] = @ - 1]
  /\ freePktBufs' = Freed(b)
  /\ mgmt' = mgmt \ {b}
  /\ UNCHANGED <<queue, mgmtQueue, protocolQueue, receiving, arrival, mainVars>>

Interrupt ==
  \E c \in Cards :
    \/ ReceiveLookahead(c)
    \/ ReceiveEnqueue(c)
    \/ ReceiveFailed(c)
    \/ \E b \in Bufs : TransmitConfirm(c, b)

-----------------------------------------------------------------------------
(* The main loop: checkCard(from, to).                                     *)

(* sendPacket: the driver keeps the packet until it confirms it, or sends  *)
(* it at once.                                                             *)
SendPacket(b, c) ==
  \/ /\ sending' = [sending EXCEPT ![c] = @ \cup {b}]
     /\ sendsPending' = [sendsPending EXCEPT ![c] = @ + 1]
     /\ UNCHANGED <<freePktBufs, mgmt>>
  \/ /\ freePktBufs' = Freed(b)
     /\ mgmt' = mgmt \ {b}
     /\ UNCHANGED <<sending, sendsPending>>

(* Test of the first loop.                                                 *)
MgmtTest ==
  /\ pc = "mgmt"
  /\ pc' = IF mgmtQueue[to] # <<>> /\ sendsPending[to] < MaxSends
             THEN "mgmtSend" ELSE "order"
  /\ UNCHANGED <<freePktBufs, queue, mgmtQueue, protocolQueue, sendsPending,
                 macVars, arrival, mgmt, from, held, burst>>

(* Its body.                                                               *)
MgmtSend ==
  /\ pc = "mgmtSend"
  /\ mgmtQueue' = [mgmtQueue EXCEPT ![to] = DequeuePktBuf(@)]
  /\ SendPacket(Head(mgmtQueue[to]), to)
  /\ pc' = "mgmt"
  /\ UNCHANGED <<queue, protocolQueue, receiving, arrival, from, held, burst>>

(* break: on to the other direction, or out of checkCards.                 *)
Break ==
  IF from = Internet THEN from' = Campus /\ pc' = "mgmt"
                     ELSE from' = from /\ pc' = "ip"

Sequence(b) == CHOOSE i \in DOMAIN arrival : arrival[i] = b

(* Mutant: the sequence numbers are not compared.                          *)
OthersTurnAlways ==
  /\ queue[to] # <<>>
  /\ sendsPending[from] < MaxSends

(* The other card has a packet with a sequence number at least that of the *)
(* packet here, and this card has room to send it.                         *)
OthersTurn ==
  /\ queue[to] # <<>>
  /\ Sequence(Head(queue[to])) >= Sequence(Head(queue[from]))
  /\ sendsPending[from] < MaxSends

OrderTest ==
  /\ pc = "order"
  /\ IF queue[from] = <<>> \/ OthersTurn
       THEN Break
       ELSE pc' = "room" /\ UNCHANGED from
  /\ UNCHANGED <<freePktBufs, queue, mgmtQueue, protocolQueue, sendsPending,
                 macVars, arrival, mgmt, held, burst>>

(* Mutant: the room of the wrong card.                                     *)
NoRoomFrom == sendsPending[from] >= MaxSends

NoRoom == sendsPending[to] >= MaxSends

(* The second part of the test, evaluated after it, and the dequeue.       *)
RoomTest ==
  /\ pc = "room"
  /\ IF NoRoom
       THEN Break /\ UNCHANGED <<queue, arrival, held>>
       ELSE /\ held' = Head(queue[from])
            /\ queue' = [queue EXCEPT ![from] = DequeuePktBuf(@)]
            /\ arrival' = Without(arrival, Head(queue[from]))
            /\ pc' = "judge" /\ UNCHANGED from
  /\ burst' = 0
  /\ UNCHANGED <<freePktBufs, mgmtQueue, protocolQueue, sendsPending, macVars,
                 mgmt>>

(* checkLocal said YES.                                                    *)
JudgeLocal ==
  /\ pc = "judge" /\ from \in Listen
  /\ protocolQueue' = EnqueuePktBuf(protocolQueue, held)
  /\ held' = NoBuf
  /\ pc' = "order"
  /\ UNCHANGED <<freePktBufs, queue, mgmtQueue, sendsPending, macVars, arrival,
                 mgmt, from, burst>>

(* checkFunction said YES.                                                 *)
JudgeForward ==
  /\ pc = "judge"
  /\ SendPacket(held, to)
  /\ held' = NoBuf
  /\ pc' = "order"
  /\ UNCHANGED <<queue, mgmtQueue, protocolQueue, receiving, arrival, from,
                 burst>>

(* Mutant: a filtered packet is forgotten.                                 *)
JudgeFilterLeaks ==
  /\ pc = "judge"
  /\ held' = NoBuf
  /\ pc' = "order"
  /\ UNCHANGED <<freePktBufs, queue, mgmtQueue, protocolQueue, sendsPending,
                 macVars, arrival, mgmt, from, burst>>

(* It said NO.                                                             *)
JudgeFilter ==
  /\ pc = "judge"
  /\ freePktBufs' = Freed(held)
  /\ held' = NoBuf
  /\ pc' = "order"
  /\ UNCHANGED <<queue, mgmtQueue, protocolQueue, sendsPending, macVars,
                 arrival, mgmt, from, burst>>

-----------------------------------------------------------------------------
(* The main loop: checkIp, checkMisc, and what they send.                  *)

CheckIpEmpty ==
  /\ pc = "ip" /\ protocolQueue = <<>>
  /\ pc' = "misc" /\ burst' = 0
  /\ UNCHANGED <<freePktBufs, queue, mgmtQueue, protocolQueue, sendsPending,
                 macVars, arrival, mgmt, from, held>>

CheckIp ==
  /\ pc = "ip" /\ protocolQueue # <<>>
  /\ held' = Head(protocolQueue)
  /\ protocolQueue' = DequeuePktBuf(protocolQueue)
  /\ pc' = "handle" /\ burst' = 0
  /\ UNCHANGED <<freePktBufs, queue, mgmtQueue, sendsPending, macVars, arrival,
                 mgmt, from>>

(* The packet has been handled.                                            *)
CheckIpEnd ==
  /\ pc = "handle"
  /\ freePktBufs' = Freed(held)
  /\ held' = NoBuf
  /\ pc' = "misc" /\ burst' = 0
  /\ UNCHANGED <<queue, mgmtQueue, protocolQueue, sendsPending, macVars,
                 arrival, mgmt, from>>

(* checkMisc returns, and the main loop goes round.                        *)
CheckMisc ==
  /\ pc = "misc"
  /\ pc' = "mgmt" /\ from' = Internet /\ burst' = 0
  /\ UNCHANGED <<freePktBufs, queue, mgmtQueue, protocolQueue, sendsPending,
                 macVars, arrival, mgmt, held>>

(* sendvRawMac: answers of handleIp and handleArp, requests of             *)
(* arpCallBack, messages to the log host about a filtered packet.          *)
SendvRawMac(c) ==
  /\ pc \in {"judge", "handle", "misc"} /\ burst < MaxBurst
  /\ MayAllocMgmt
  /\ freePktBufs' = Popped
  /\ mgmtQueue' = [mgmtQueue EXCEPT ![c] = EnqueuePktBuf(@, TopFree)]
  /\ mgmt' = mgmt \cup {TopFree}
  /\ burst' = burst + 1
  /\ UNCHANGED <<queue, protocolQueue, sendsPending, macVars, arrival, pc, from,
                 held>>

MainLoop ==
  \/ MgmtTest \/ MgmtSend \/ OrderTest \/ RoomTest
  \/ JudgeLocal \/ JudgeForward \/ JudgeFilter
  \/ CheckIpEmpty \/ CheckIp \/ CheckIpEnd \/ CheckMisc

Next == Interrupt \/ MainLoop \/ \E c \in Cards : SendvRawMac(c)

Spec == Init /\ [][Next]_vars

(* The main loop goes round; a driver finishes what it has begun.          *)
FairSpec ==
  /\ Spec
  /\ WF_vars(MainLoop)
  /\ \A c \in Cards :
       /\ WF_vars(ReceiveEnqueue(c) \/ ReceiveFailed(c))
       /\ WF_vars(\E b \in Bufs : TransmitConfirm(c, b))

-----------------------------------------------------------------------------
(* Properties                                                              *)

PacketSeq == UNION {[1 .. n -> Bufs] : n \in 0 .. Cardinality(Bufs)}

(* Type invariant.                                                         *)
TypeOK ==
  /\ freePktBufs \in PacketSeq
  /\ queue \in [Cards -> PacketSeq]
  /\ mgmtQueue \in [Cards -> PacketSeq]
  /\ protocolQueue \in PacketSeq
  /\ sendsPending \in [Cards -> 0 .. MaxSends]
  /\ sending \in [Cards -> SUBSET Bufs]
  /\ receiving \in [Cards -> Bufs \cup {NoBuf}]
  /\ arrival \in PacketSeq
  /\ mgmt \subseteq Bufs
  /\ pc \in {"mgmt", "mgmtSend", "order", "room", "judge", "ip", "handle", "misc"}
  /\ from \in Cards
  /\ held \in Bufs \cup {NoBuf}
  /\ burst \in 0 .. MaxBurst

(* Whatever the interrupts do between the statements of the main loop, no  *)
(* buffer is lost, freed twice or on two queues: each is in one place.     *)
Places(b) ==
  LET In(s) == Cardinality({i \in DOMAIN s : s[i] = b})
      If(p) == IF p THEN 1 ELSE 0
      At(c) == In(queue[c]) + In(mgmtQueue[c]) + If(b \in sending[c])
                 + If(receiving[c] = b)
  IN  In(freePktBufs) + In(protocolQueue) + At(Internet) + At(Campus)
        + If(held = b)
BuffersConserved == \A b \in Bufs : Places(b) = 1

(* The pool keeps BUFFER_POOL_OVERHEAD buffers for the management stack:   *)
(* received packets, however many wait, cannot use them up.                *)
ReserveKept == Len(freePktBufs) + Cardinality(mgmt) >= Overhead

(* checkCard never gives a card's driver more packets than it takes,       *)
(* although it looks at sendsPending some time before it sends: only the   *)
(* main loop adds to it.  sendsPending counts the packets at the driver.   *)
SendsCounted ==
  \A c \in Cards : /\ sendsPending[c] = Cardinality(sending[c])
                   /\ sendsPending[c] <= MaxSends

(* When traffic stops, what has been received or queued for sending gets   *)
(* out: the two directions never wait for each other for ever.             *)
Idle(c)  == queue[c] = <<>> /\ mgmtQueue[c] = <<>>
Quiet == []<><<\E c \in Cards : ReceiveLookahead(c) \/ SendvRawMac(c)>>_vars
QuietDrains == Quiet \/ <>[](Idle(Internet) /\ Idle(Campus))

=============================================================================
