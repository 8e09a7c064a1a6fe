------------------------------ MODULE PktRing ------------------------------
(***************************************************************************)
(* The receive ring that a packet driver fills from its interrupt handler  *)
(* and the application empties (src/pktdrvr.c, src/pkt_rx0.asm,            *)
(* src/pkt_rx1.s).                                                         *)
(*                                                                         *)
(* The driver makes two upcalls per packet: the first (AX = 0) asks for a  *)
(* buffer, the second (AX = 1) says that the packet has been copied to it. *)
(* The application calls PktReceive and PktQueueBusy.  Both sides share    *)
(* nothing but the ring, its two offsets and the drop counter, and there   *)
(* are no locks: PktReceiver runs with interrupts off, and two of the four *)
(* builds of PktQueueBusy do too.                                          *)
(*                                                                         *)
(* An offset is the number of a slot: a byte offset divided by             *)
(* sizeof(RX_ELEMENT).  NumRxBuf stands for LAST_OFS, one past the ring.   *)
(***************************************************************************)
EXTENDS Integers, Sequences

CONSTANTS
  NumRxBuf,      \* NUM_RX_BUF, slots of the ring (32 or 10 in the builds)
  EthMax,        \* ETH_MAX, the longest frame a slot holds
  Counts,        \* frame lengths the driver passes in CX
  Handles,       \* handles the driver passes in BX
  MyHandle,      \* pktInfo.handle
  Data,          \* frame contents
  NoHandle,      \* handle field of a slot never used
  NoData,        \* content of a slot no frame was copied to
  Word,          \* 2^16: the words of pktDrop count modulo Word
  Target,        \* the build: "djgpp", "dos4gw", "pharlap" or "realmode"
  SplitUpcalls,  \* may the application run between the two upcalls?
  AppCalls       \* the calls the application makes: "receive", "busy", "free"

ASSUME NumRxBufAssumption == NumRxBuf \in Nat /\ NumRxBuf >= 2
ASSUME EthMaxAssumption == EthMax \in Nat
ASSUME CountsAssumption == Counts \subseteq Nat
ASSUME HandleAssumption == MyHandle \in Handles /\ NoHandle \notin Handles
ASSUME DataAssumption == NoData \notin Data
ASSUME WordAssumption == Word \in Nat /\ Word >= 2
ASSUME TargetAssumption ==
  Target \in {"djgpp", "dos4gw", "pharlap", "realmode"}
ASSUME SplitAssumption == SplitUpcalls \in BOOLEAN
ASSUME AppCallsAssumption == AppCalls \subseteq {"receive", "busy", "free"}

VARIABLES
  pktRxBuf,     \* the slots
  rxInOfs,      \* where the next packet goes
  rxOutOfs,     \* where PktReceive reads next
  newInOffset,  \* rxInOfs after the packet being copied
  pktDrop,      \* packets refused because the ring was full: two words
  upcall,       \* the packet the driver is delivering, or NoUpcall
  pc,           \* where the application is
  ofs,          \* its local copy of an offset
  okay,         \* what CheckElement returned
  ret,          \* what the last PktReceive returned and copied
  busy,         \* argument of the last PktQueueBusy (no variable of the code)
  released      \* handles given back to the driver

ringVars   == <<pktRxBuf, rxInOfs, newInOffset>>
driverVars == <<pktRxBuf, rxInOfs, newInOffset, upcall>>
appVars    == <<rxOutOfs, pc, ofs, okay, ret, busy, released>>
vars == <<pktRxBuf, rxInOfs, rxOutOfs, newInOffset, pktDrop, upcall,
          pc, ofs, okay, ret, busy, released>>

Slots    == 0 .. NumRxBuf - 1
LastSlot == NumRxBuf - 1                       \* LAST_RX_BUF

RxElement == [firstCount : Counts \cup {0}, secondCount : Counts \cup {0},
              handle : Handles \cup {NoHandle},
              data : Data \cup {NoData}]

(* A slot of the freshly loaded stub.                                      *)
EmptyElement == [firstCount |-> 0, secondCount |-> 0,
                 handle |-> NoHandle, data |-> NoData]

NoUpcall == [phase |-> "none"]
Upcalls  == [phase : {"copying", "copied"}, slot : Slots, pkt : RxElement]
(* The first upcall returned ES:DI = NIL: @skip or @dump.                  *)
Skipped  == [phase |-> "skipped"]
Dumped   == [phase |-> "dumped"]

NoReturn == [size |-> 0, data |-> NoData]

(* The steps of the builds that differ.                                    *)
GuardedBusy == Target \in {"djgpp", "dos4gw"}  \* disable() .. enable()
CarryingDrop == Target \in {"djgpp", "dos4gw"} \* pkt_rx1.s: add/adc
LocalOffset == Target # "realmode"             \* PktReceive stores rxOutOfs once

(* Mutant: LAST_OFS compared with JBE.                                     *)
NextSlotLate(i) == IF i < NumRxBuf THEN i + 1 ELSE 0

(* Advance to the next slot, from pkt_rx*: compare with LAST_OFS.          *)
NextSlot(i) == IF i + 1 < NumRxBuf THEN i + 1 ELSE 0

(* Slot number k (1, 2, ...) counted from the offset i, around the ring.   *)
SlotAt(i, k) == IF i + k - 1 < NumRxBuf THEN i + k - 1
                                        ELSE i + k - 1 - NumRxBuf

(* PktBuffersUsed.                                                         *)
Used(in, out) == IF in >= out THEN in - out ELSE NumRxBuf - (out - in)

PktRxDropped == pktDrop[2] * Word + pktDrop[1]

(* The packets PktReceive has yet to read, oldest first.                   *)
WindowOf(buf, in, out) == [k \in 1 .. Used(in, out) |-> buf[SlotAt(out, k)]]
Window == WindowOf(pktRxBuf, rxInOfs, rxOutOfs)

(* An interrupt handler runs to completion before the application goes on, *)
(* unless the driver lets it run between the upcalls.                      *)
AppMayRun == SplitUpcalls \/ upcall = NoUpcall

Init ==
  /\ pktRxBuf = [i \in Slots |-> EmptyElement]
  /\ rxInOfs = 0
  /\ rxOutOfs = 0
  /\ newInOffset = 0
  /\ pktDrop = <<0, 0>>
  /\ upcall = NoUpcall
  /\ pc = "init"
  /\ ofs = 0
  /\ okay = FALSE
  /\ ret = NoReturn
  /\ busy = FALSE
  /\ released = {}

-----------------------------------------------------------------------------
(* The packet driver: PktReceiver in pkt_rx0.asm and pkt_rx1.s.            *)

(* Mutant: the high word is never incremented.                             *)
CountDropLow == pktDrop' = <<(pktDrop[1] + 1) % Word, pktDrop[2]>>

(* @dump: count the packet.  pkt_rx0.asm increments the low word with INC, *)
(* which leaves the carry flag alone; the CMP before it cleared the flag,  *)
(* so ADC never adds to the high word.  pkt_rx1.s uses ADD.                *)
CountDrop ==
  LET low == (pktDrop[1] + 1) % Word
      carry == IF CarryingDrop /\ low = 0 THEN 1 ELSE 0
  IN  pktDrop' = <<low, (pktDrop[2] + carry) % Word>>

(* First upcall, frame too long for a slot: @skip, nothing is counted.     *)
FirstUpcallTooBig(cx, bx) ==
  /\ upcall = NoUpcall
  /\ bx \notin released
  /\ cx > EthMax
  /\ upcall' = Skipped
  /\ UNCHANGED <<ringVars, pktDrop, appVars>>

(* First upcall, ring full: @dump.                                         *)
FirstUpcallDrop(cx, bx) ==
  /\ upcall = NoUpcall
  /\ bx \notin released
  /\ cx <= EthMax
  /\ NextSlot(rxInOfs) = rxOutOfs
  /\ CountDrop
  /\ upcall' = Dumped
  /\ UNCHANGED <<ringVars, appVars>>

(* Mutant: no test for a full ring.                                        *)
FirstUpcallUntested(cx, bx, d) ==
  /\ upcall = NoUpcall
  /\ bx \notin released
  /\ cx <= EthMax
  /\ newInOffset' = NextSlot(rxInOfs)
  /\ pktRxBuf' = [pktRxBuf EXCEPT
                    ![rxInOfs] = [@ EXCEPT !.firstCount = cx, !.handle = bx]]
  /\ upcall' = [phase |-> "copying", slot |-> rxInOfs,
                pkt |-> [firstCount |-> cx, secondCount |-> 0,
                         handle |-> bx, data |-> d]]
  /\ UNCHANGED <<rxInOfs, pktDrop, appVars>>

(* First upcall, there is room: note the count and the handle in the slot, *)
(* hand its address to the driver, leave rxInOfs for the second upcall.    *)
FirstUpcall(cx, bx, d) ==
  /\ upcall = NoUpcall
  /\ bx \notin released
  /\ cx <= EthMax
  /\ NextSlot(rxInOfs) # rxOutOfs
  /\ newInOffset' = NextSlot(rxInOfs)
  /\ pktRxBuf' = [pktRxBuf EXCEPT
                    ![rxInOfs] = [@ EXCEPT !.firstCount = cx, !.handle = bx]]
  /\ upcall' = [phase |-> "copying", slot |-> rxInOfs,
                pkt |-> [firstCount |-> cx, secondCount |-> 0,
                         handle |-> bx, data |-> d]]
  /\ UNCHANGED <<rxInOfs, pktDrop, appVars>>

(* The driver copies the frame to the address it was given.                *)
DriverCopy ==
  /\ upcall.phase = "copying"
  /\ pktRxBuf' = [pktRxBuf EXCEPT ![upcall.slot].data = upcall.pkt.data]
  /\ upcall' = [upcall EXCEPT !.phase = "copied"]
  /\ UNCHANGED <<rxInOfs, newInOffset, pktDrop, appVars>>

(* Second upcall: @post.  The driver may pass another count than before.   *)
SecondUpcall(cx) ==
  /\ upcall.phase = "copied"
  /\ pktRxBuf' = [pktRxBuf EXCEPT ![upcall.slot].secondCount = cx]
  /\ rxInOfs' = newInOffset
  /\ upcall' = NoUpcall
  /\ UNCHANGED <<newInOffset, pktDrop, appVars>>

(* After NIL the driver is done, or calls again with SI = 0: @discard.     *)
SecondUpcallNil ==
  /\ upcall \in {Skipped, Dumped}
  /\ upcall' = NoUpcall
  /\ UNCHANGED <<ringVars, pktDrop, appVars>>

Driver ==
  \/ \E cx \in Counts, bx \in Handles : FirstUpcallTooBig(cx, bx)
  \/ \E cx \in Counts, bx \in Handles : FirstUpcallDrop(cx, bx)
  \/ \E cx \in Counts, bx \in Handles, d \in Data : FirstUpcall(cx, bx, d)
  \/ DriverCopy
  \/ \E cx \in Counts : SecondUpcall(cx)
  \/ SecondUpcallNil

-----------------------------------------------------------------------------
(* The application: PktReceive.                                            *)

(* Compare the offsets; return 0 at once when the ring is empty.  The      *)
(* application reads only a queue it has not marked busy.                  *)
ReceiveEmpty ==
  /\ "receive" \in AppCalls
  /\ pc = "idle" /\ AppMayRun /\ ~busy
  /\ rxOutOfs = rxInOfs
  /\ ret' = NoReturn
  /\ UNCHANGED <<driverVars, pktDrop, rxOutOfs, pc, ofs, okay, busy, released>>

ReceiveBegin ==
  /\ "receive" \in AppCalls
  /\ pc = "idle" /\ AppMayRun /\ ~busy
  /\ rxOutOfs # rxInOfs
  /\ ofs' = rxOutOfs
  /\ pc' = "check"
  /\ UNCHANGED <<driverVars, pktDrop, rxOutOfs, okay, ret, busy, released>>

RightHandle(rx) == rx.handle = MyHandle
InSync(rx)      == rx.firstCount = rx.secondCount

Sound(rx)       == RightHandle(rx) /\ InSync(rx) /\ rx.firstCount <= EthMax

(* CheckElement: a slot filled through another handle gives that handle    *)
(* back, and the driver may refuse.                                        *)
CheckElement(rx) ==
  /\ okay' = Sound(rx)
  /\ IF RightHandle(rx)
       THEN released' = released
       ELSE released' \in {released, released \cup {rx.handle}}

(* Mutant: a bad element ends the call before the slot is freed.           *)
ReceiveCheckReturns ==
  /\ pc = "check" /\ AppMayRun
  /\ CheckElement(pktRxBuf[ofs])
  /\ pc' = IF okay' THEN "copy" ELSE "idle"
  /\ UNCHANGED <<driverVars, pktDrop, rxOutOfs, ofs, ret, busy>>

ReceiveCheck ==
  /\ pc = "check" /\ AppMayRun
  /\ CheckElement(pktRxBuf[ofs])
  /\ pc' = "copy"
  /\ UNCHANGED <<driverVars, pktDrop, rxOutOfs, ofs, ret, busy>>

(* Mutant: the slot is freed without a look at CheckElement's verdict.     *)
ReceiveCopyAlways ==
  /\ pc = "copy" /\ AppMayRun
  /\ ret' = [size |-> pktRxBuf[ofs].firstCount, data |-> pktRxBuf[ofs].data]
  /\ pc' = "advance"
  /\ UNCHANGED <<driverVars, pktDrop, rxOutOfs, ofs, okay, busy, released>>

(* The size PktReceive returns and the bytes it copies.                    *)
ReceiveCopy ==
  /\ pc = "copy" /\ AppMayRun
  /\ ret' = IF okay THEN [size |-> pktRxBuf[ofs].firstCount,
                          data |-> pktRxBuf[ofs].data]
                    ELSE [size |-> -1, data |-> NoData]
  /\ pc' = "advance"
  /\ UNCHANGED <<driverVars, pktDrop, rxOutOfs, ofs, okay, busy, released>>

(* Free the slot.  The real-mode build adds to rxOutOfs itself and wraps   *)
(* it in a later instruction; the others store a wrapped offset.           *)
ReceiveAdvance ==
  /\ pc = "advance" /\ AppMayRun
  /\ IF LocalOffset
       THEN rxOutOfs' = NextSlot(ofs) /\ pc' = "idle"
       ELSE rxOutOfs' = rxOutOfs + 1 /\ pc' = "wrap"
  /\ UNCHANGED <<driverVars, pktDrop, ofs, okay, ret, busy, released>>

WrapOut == IF rxOutOfs > LastSlot THEN 0 ELSE rxOutOfs

ReceiveWrap ==
  /\ pc = "wrap" /\ AppMayRun
  /\ rxOutOfs' = WrapOut
  /\ pc' = "idle"
  /\ UNCHANGED <<driverVars, pktDrop, ofs, okay, ret, busy, released>>

-----------------------------------------------------------------------------
(* The application: PktQueueBusy(b).  TRUE makes the ring look full, so    *)
(* that every packet is dropped, FALSE makes it look empty.  PktInitDriver *)
(* ends with PktQueueBusy(TRUE).                                           *)

MayCallBusy(b) ==
  \/ pc = "init" /\ b
  \/ pc = "idle" /\ (IF b THEN "busy" ELSE "free") \in AppCalls

(* Mutant: the two offsets swapped.                                        *)
QueueBusySwapped(b) ==
  /\ GuardedBusy /\ AppMayRun
  /\ MayCallBusy(b)
  /\ rxOutOfs' = IF b THEN rxInOfs ELSE NextSlot(rxInOfs)
  /\ pktDrop' = <<0, 0>>
  /\ busy' = b
  /\ pc' = "idle"
  /\ UNCHANGED <<driverVars, ofs, okay, ret, released>>

(* With interrupts disabled.                                               *)
QueueBusyGuarded(b) ==
  /\ GuardedBusy /\ AppMayRun
  /\ MayCallBusy(b)
  /\ rxOutOfs' = IF b THEN NextSlot(rxInOfs) ELSE rxInOfs
  /\ pktDrop' = <<0, 0>>
  /\ busy' = b
  /\ pc' = "idle"
  /\ UNCHANGED <<driverVars, ofs, okay, ret, released>>

(* Without: read rxInOfs, store rxOutOfs, wrap it, clear pktDrop.          *)
QueueBusyRead(b) ==
  /\ ~GuardedBusy /\ AppMayRun
  /\ MayCallBusy(b)
  /\ ofs' = IF b THEN rxInOfs + 1 ELSE rxInOfs
  /\ pc' = IF b THEN "busyStore" ELSE "freeStore"
  /\ UNCHANGED <<driverVars, pktDrop, rxOutOfs, okay, ret, busy, released>>

QueueBusyStore ==
  /\ pc \in {"busyStore", "freeStore"} /\ AppMayRun
  /\ rxOutOfs' = ofs
  /\ busy' = (pc = "busyStore")
  /\ pc' = "busyWrap"
  /\ UNCHANGED <<driverVars, pktDrop, ofs, okay, ret, released>>

QueueBusyWrap ==
  /\ pc = "busyWrap" /\ AppMayRun
  /\ rxOutOfs' = WrapOut
  /\ pc' = "busyDrop"
  /\ UNCHANGED <<driverVars, pktDrop, ofs, okay, ret, busy, released>>

QueueBusyClear ==
  /\ pc = "busyDrop" /\ AppMayRun
  /\ pktDrop' = <<0, 0>>
  /\ pc' = "idle"
  /\ UNCHANGED <<driverVars, rxOutOfs, ofs, okay, ret, busy, released>>

App ==
  \/ ReceiveEmpty \/ ReceiveBegin \/ ReceiveCheck \/ ReceiveCopy
  \/ ReceiveAdvance \/ ReceiveWrap
  \/ \E b \in BOOLEAN : QueueBusyGuarded(b)
  \/ \E b \in BOOLEAN : QueueBusyRead(b)
  \/ QueueBusyStore \/ QueueBusyWrap \/ QueueBusyClear

Next == Driver \/ App

Spec == Init /\ [][Next]_vars

(* An interrupt handler that has started ends, interrupts never take the   *)
(* processor for ever, and the application polls: it finishes the calls it *)
(* has begun and calls PktReceive again and again.                         *)
FinishUpcall ==
  DriverCopy \/ (\E cx \in Counts : SecondUpcall(cx)) \/ SecondUpcallNil

Poll ==
  \/ ReceiveEmpty \/ ReceiveBegin \/ ReceiveCheck \/ ReceiveCopy
  \/ ReceiveAdvance \/ ReceiveWrap
  \/ pc = "init" /\ QueueBusyGuarded(TRUE)

FairSpec == Spec /\ WF_vars(FinishUpcall) /\ SF_vars(Poll)

-----------------------------------------------------------------------------
(* Properties                                                              *)

(* Type invariant: the offsets stay within the ring, rxOutOfs at most one  *)
(* past it.                                                                *)
TypeOK ==
  /\ pktRxBuf \in [Slots -> RxElement]
  /\ rxInOfs \in Slots
  /\ rxOutOfs \in 0 .. NumRxBuf
  /\ newInOffset \in Slots
  /\ pktDrop \in (0 .. Word - 1) \X (0 .. Word - 1)
  /\ upcall \in Upcalls \cup {NoUpcall, Skipped, Dumped}
  /\ pc \in {"init", "idle", "check", "copy", "advance", "wrap",
             "busyStore", "freeStore", "busyWrap", "busyDrop"}
  /\ ofs \in 0 .. NumRxBuf
  /\ okay \in BOOLEAN
  /\ ret \in [size : Counts \cup {0, -1}, data : Data \cup {NoData}]
  /\ busy \in BOOLEAN
  /\ released \in SUBSET (Handles \cup {NoHandle})

(* The driver never writes the slot that PktReceive is reading, whichever  *)
(* build, although neither side takes a lock: PktReceiver keeps one slot   *)
(* free and PktReceive moves rxOutOfs only after the copy.                 *)
Reading == pc \in {"check", "copy", "advance"}
Writing == upcall.phase \in {"copying", "copied"}
NoSlotConflict == Reading /\ Writing => ofs # upcall.slot

(* Why: rxOutOfs leaves the ring only between its increment and its wrap,  *)
(* PktReceive reads the slot rxOutOfs, which is not the slot rxInOfs, the  *)
(* driver writes the slot rxInOfs, and while it does, the slot it will     *)
(* move on to is not the one PktReceive reads.                             *)
OffsetsInv ==
  /\ pc \notin {"wrap", "busyWrap"} => rxOutOfs \in Slots
  /\ pc = "wrap" => ~LocalOffset
  /\ pc \in {"busyStore", "freeStore", "busyWrap", "busyDrop"} => ~GuardedBusy
  /\ Reading => ofs = rxOutOfs /\ rxOutOfs # rxInOfs /\ ~busy
UpcallInv ==
  /\ Writing => upcall.slot = rxInOfs /\ newInOffset = NextSlot(rxInOfs)
  /\ Writing /\ ~busy => NextSlot(rxInOfs) # rxOutOfs
RingInv == TypeOK /\ OffsetsInv /\ UpcallInv

(* What the guarded builds keep besides: a busy ring looks full, the slot  *)
(* being filled holds the frame announced so far, and okay stays true to   *)
(* the slot it was computed from.                                          *)
BusyInv == busy => ~Writing /\ NextSlot(rxInOfs) = rxOutOfs
PktInv ==
  Writing =>
    /\ upcall.pkt.firstCount = pktRxBuf[rxInOfs].firstCount
    /\ upcall.pkt.handle = pktRxBuf[rxInOfs].handle
    /\ upcall.phase = "copied" => upcall.pkt.data = pktRxBuf[rxInOfs].data
OkayInv == pc = "copy" => okay = Sound(pktRxBuf[ofs])
FifoInv == BusyInv /\ PktInv /\ OkayInv

(* While the queue is open, a second upcall adds exactly the packet the    *)
(* driver delivered at the end of the FIFO and loses none of those before. *)
AppendsPacket ==
  Writing /\ upcall' = NoUpcall /\ ~busy
  => \E cx \in Counts :
       Window' = Append(Window, [upcall.pkt EXCEPT !.secondCount = cx])
UpcallAppends == [][AppendsPacket]_vars

(* After PktQueueBusy(TRUE) no packet enters the ring until                *)
(* PktQueueBusy(FALSE): PktReceiver drops them all.                        *)
BusyRefuses == [][busy /\ busy' => rxInOfs' = rxInOfs]_vars

(* Each packet refused for want of a slot adds one to the 32-bit counter   *)
(* that PktRxDropped returns.                                              *)
CountsDrop ==
  upcall = NoUpcall /\ upcall' = Dumped
  => PktRxDropped' = (PktRxDropped + 1) % (Word * Word)
DropCounted == [][CountsDrop]_vars

(* A full open ring makes room again as long as the application polls.     *)
Full == ~busy /\ NextSlot(rxInOfs) = rxOutOfs
FullRingDrains == Full ~> ~Full

(* The guarded builds implement a bounded FIFO that can be closed: every   *)
(* packet they accept is read once and in order, and only a full or busy   *)
(* ring refuses one, which is then counted.                                *)
FifoQueue    == IF busy THEN <<>> ELSE Window
FifoArriving == IF Writing THEN {upcall.pkt} ELSE {}

Fifo == INSTANCE PktFifo WITH
  Capacity <- NumRxBuf - 1,
  Modulus  <- Word * Word,
  q        <- FifoQueue,
  arriving <- FifoArriving,
  reading  <- (pc = "advance"),
  closed   <- busy,
  drops    <- PktRxDropped,
  result   <- ret

FifoSpec == Fifo!Spec

=============================================================================
