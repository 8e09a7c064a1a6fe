--------------------------- MODULE PktRingProofs ---------------------------
(***************************************************************************)
(* Theorems about PktRing, for every number of slots and every set of      *)
(* frames, handles and lengths: the slots of the builds in which no upcall *)
(* is overrun, and the FIFO of PktFifo, which the ring of the builds that  *)
(* guard PktQueueBusy implements.                                          *)
(***************************************************************************)
EXTENDS PktRing, SequenceTheorems, TLAPS

USE NumRxBufAssumption, EthMaxAssumption, CountsAssumption,
    HandleAssumption, DataAssumption, WordAssumption, TargetAssumption,
    SplitAssumption

(* The builds and drivers the slot-conflict theorem is about: those whose  *)
(* PktQueueBusy runs with interrupts off, and all of them when the         *)
(* application does not run between two upcalls.                           *)
NoOverrun == ~SplitUpcalls \/ GuardedBusy

(* A slot stays a slot when the upcalls write to it.                       *)
LEMMA FirstUpcallElement ==
  ASSUME NEW r \in RxElement, NEW cx \in Counts, NEW bx \in Handles
  PROVE  [r EXCEPT !.firstCount = cx, !.handle = bx] \in RxElement
<1> DEFINE e == [r EXCEPT !.firstCount = cx]
<1>1. e \in RxElement
  BY DEF RxElement
<1>2. [e EXCEPT !.handle = bx] \in RxElement
  BY <1>1 DEF RxElement
<1> QED
  BY <1>2

(* Before the first upcall.                                                *)
LEMMA InitRingInv == Init => RingInv
<1> SUFFICES ASSUME Init PROVE RingInv
  OBVIOUS
<1>1. TypeOK
  <2>1. EmptyElement \in RxElement
    BY DEF EmptyElement, RxElement
  <2>2. pktDrop \in (0 .. Word - 1) \X (0 .. Word - 1)
    BY DEF Init
  <2>3. ret \in [size : Counts \cup {0, -1}, data : Data \cup {NoData}]
    BY DEF Init, NoReturn
  <2>4. pktRxBuf \in [Slots -> RxElement]
    BY <2>1 DEF Init
  <2>5. rxInOfs \in Slots /\ rxOutOfs \in 0 .. NumRxBuf /\ newInOffset \in Slots
        /\ ofs \in 0 .. NumRxBuf
    BY DEF Init, Slots
  <2> QED
    BY <2>2, <2>3, <2>4, <2>5 DEF Init, TypeOK
<1>2. OffsetsInv /\ UpcallInv
  BY DEF Init, OffsetsInv, UpcallInv, Reading, Writing, NoUpcall, Slots
<1> QED
  BY <1>1, <1>2 DEF RingInv

(* The steps of the driver keep the invariant.                             *)
LEMMA DriverRingInv == ASSUME NoOverrun PROVE RingInv /\ Driver => RingInv'
<1> SUFFICES ASSUME RingInv, Driver PROVE RingInv'
  OBVIOUS
<1> USE DEF RingInv, TypeOK, OffsetsInv, UpcallInv, Reading, Writing, Slots,
            appVars, ringVars, NextSlot, NoUpcall, Skipped, Dumped
<1>1. ASSUME NEW cx \in Counts, NEW bx \in Handles, FirstUpcallTooBig(cx, bx)
      PROVE  RingInv'
  BY <1>1 DEF FirstUpcallTooBig
<1>2. ASSUME NEW cx \in Counts, NEW bx \in Handles, FirstUpcallDrop(cx, bx)
      PROVE  RingInv'
  <2>1. pktDrop' \in (0 .. Word - 1) \X (0 .. Word - 1)
    BY <1>2 DEF FirstUpcallDrop, CountDrop
  <2> QED
    BY <2>1, <1>2 DEF FirstUpcallDrop
<1>3. ASSUME NEW cx \in Counts, NEW bx \in Handles, NEW d \in Data,
             FirstUpcall(cx, bx, d)
      PROVE  RingInv'
  <2>0. [pktRxBuf[rxInOfs] EXCEPT !.firstCount = cx, !.handle = bx]
           \in RxElement
    BY FirstUpcallElement
  <2>1. pktRxBuf' \in [Slots -> RxElement]
    BY <2>0, <1>3 DEF FirstUpcall
  <2>2. upcall' \in Upcalls
    BY <1>3 DEF FirstUpcall, Upcalls, RxElement
  <2> QED
    BY <2>1, <2>2, <1>3 DEF FirstUpcall
<1>4. ASSUME DriverCopy PROVE RingInv'
  <2>0. upcall \in Upcalls
    BY <1>4 DEF DriverCopy
  <2>1. pktRxBuf' \in [Slots -> RxElement]
    BY <1>4, <2>0 DEF DriverCopy, RxElement, Upcalls
  <2>2. upcall' \in Upcalls /\ upcall'.slot = upcall.slot
    BY <1>4, <2>0 DEF DriverCopy, Upcalls
  <2> QED
    BY <2>1, <2>2, <1>4 DEF DriverCopy
<1>5. ASSUME NEW cx \in Counts, SecondUpcall(cx) PROVE RingInv'
  <2>0. upcall \in Upcalls
    BY <1>5 DEF SecondUpcall
  <2>1. pktRxBuf' \in [Slots -> RxElement]
    BY <1>5, <2>0 DEF SecondUpcall, RxElement, Upcalls
  <2> QED
    BY <2>1, <1>5 DEF SecondUpcall
<1>6. ASSUME SecondUpcallNil PROVE RingInv'
  BY <1>6 DEF SecondUpcallNil
<1> QED
  BY <1>1, <1>2, <1>3, <1>4, <1>5, <1>6 DEF Driver

(* The steps of the application keep it.                                   *)
LEMMA AppRingInv == ASSUME NoOverrun PROVE RingInv /\ App => RingInv'
<1> SUFFICES ASSUME RingInv, App PROVE RingInv'
  OBVIOUS
<1> USE DEF RingInv, TypeOK, OffsetsInv, UpcallInv, Reading, Writing, Slots,
            driverVars, NextSlot, NoUpcall, AppMayRun, NoOverrun
<1>1. ASSUME ReceiveEmpty PROVE RingInv'
  BY <1>1 DEF ReceiveEmpty, NoReturn
<1>2. ASSUME ReceiveBegin PROVE RingInv'
  BY <1>2 DEF ReceiveBegin
<1>3. ASSUME ReceiveCheck PROVE RingInv'
  <2>1. pktRxBuf[ofs] \in RxElement
    BY <1>3 DEF ReceiveCheck
  <2>2. okay' \in BOOLEAN /\ released' \in SUBSET (Handles \cup {NoHandle})
    <3>1. Sound(pktRxBuf[ofs]) \in BOOLEAN
      BY DEF Sound
    <3>2. pktRxBuf[ofs].handle \in Handles \cup {NoHandle}
      BY <2>1 DEF RxElement
    <3> QED
      BY <1>3, <3>1, <3>2 DEF ReceiveCheck, CheckElement
  <2> QED
    BY <2>2, <1>3 DEF ReceiveCheck
<1>4. ASSUME ReceiveCopy PROVE RingInv'
  <2>1. pktRxBuf[ofs] \in RxElement
    BY <1>4 DEF ReceiveCopy
  <2>2. ret' \in [size : Counts \cup {0, -1}, data : Data \cup {NoData}]
    BY <1>4, <2>1 DEF ReceiveCopy, RxElement
  <2> QED
    BY <2>2, <1>4 DEF ReceiveCopy
<1>5. ASSUME ReceiveAdvance PROVE RingInv'
  BY <1>5 DEF ReceiveAdvance
<1>6. ASSUME ReceiveWrap PROVE RingInv'
  BY <1>6 DEF ReceiveWrap, WrapOut, LastSlot, GuardedBusy, LocalOffset
<1>7. ASSUME NEW b \in BOOLEAN, QueueBusyGuarded(b) PROVE RingInv'
  BY <1>7 DEF QueueBusyGuarded, GuardedBusy
<1>8. ASSUME NEW b \in BOOLEAN, QueueBusyRead(b) PROVE RingInv'
  BY <1>8 DEF QueueBusyRead, MayCallBusy
<1>9. ASSUME QueueBusyStore PROVE RingInv'
  BY <1>9 DEF QueueBusyStore
<1>10. ASSUME QueueBusyWrap PROVE RingInv'
  BY <1>10 DEF QueueBusyWrap, WrapOut, LastSlot
<1>11. ASSUME QueueBusyClear PROVE RingInv'
  BY <1>11 DEF QueueBusyClear
<1> QED
  BY <1>1, <1>2, <1>3, <1>4, <1>5, <1>6, <1>7, <1>8, <1>9, <1>10, <1>11
     DEF App

(* Nothing changes.                                                        *)
LEMMA StutterRingInv == RingInv /\ UNCHANGED vars => RingInv'
BY DEF RingInv, TypeOK, OffsetsInv, UpcallInv, Reading, Writing, vars

(* The offsets, the slot that is read and the slot that is written stay in *)
(* the relation that keeps them apart.                                     *)
THEOREM RingInvariant == ASSUME NoOverrun PROVE Spec => []RingInv
<1>1. RingInv /\ [Next]_vars => RingInv'
  BY DriverRingInv, AppRingInv, StutterRingInv DEF Next
<1> QED
  BY <1>1, InitRingInv, PTL DEF Spec

(* The driver and PktReceive never touch the same slot at the same time.   *)
THEOREM SlotConflictFree == ASSUME NoOverrun PROVE Spec => []NoSlotConflict
<1>1. RingInv => NoSlotConflict
  BY DEF RingInv, OffsetsInv, UpcallInv, NoSlotConflict
<1> QED
  BY <1>1, RingInvariant, PTL

-----------------------------------------------------------------------------
(***************************************************************************)
(* The window of slots from out up to in, as a sequence.                   *)
(***************************************************************************)
Buffers == [Slots -> RxElement]

(* A slot of the window is not the one the driver fills next.              *)
LEMMA SlotAtInRing ==
  ASSUME NEW in \in Slots, NEW out \in Slots, NEW k \in 1 .. Used(in, out)
  PROVE  SlotAt(out, k) \in Slots /\ SlotAt(out, k) # in
BY DEF SlotAt, Used, Slots

(* The window is empty when the offsets meet, and never the whole ring.    *)
LEMMA UsedRange ==
  ASSUME NEW in \in Slots, NEW out \in Slots
  PROVE  /\ Used(in, out) \in 0 .. NumRxBuf - 1
         /\ Used(in, out) = 0 <=> in = out
         /\ Used(in, out) = NumRxBuf - 1 <=> NextSlot(in) = out
BY DEF Used, Slots, NextSlot

(* The window is a sequence of slots.                                      *)
LEMMA WindowIsSeq ==
  ASSUME NEW buf \in Buffers, NEW in \in Slots, NEW out \in Slots
  PROVE  /\ WindowOf(buf, in, out) \in Seq(RxElement)
         /\ Len(WindowOf(buf, in, out)) = Used(in, out)
         /\ DOMAIN WindowOf(buf, in, out) = 1 .. Used(in, out)
<1>1. Used(in, out) \in Nat
  BY UsedRange
<1>2. \A k \in 1 .. Used(in, out) : buf[SlotAt(out, k)] \in RxElement
  BY SlotAtInRing DEF Buffers
<1> QED
  BY <1>1, <1>2 DEF WindowOf

(* What the driver writes to the slot in is not seen.                      *)
LEMMA WindowFrame ==
  ASSUME NEW buf \in Buffers, NEW buf2 \in Buffers,
         NEW in \in Slots, NEW out \in Slots,
         \A i \in Slots \ {in} : buf2[i] = buf[i]
  PROVE  WindowOf(buf2, in, out) = WindowOf(buf, in, out)
<1>1. \A k \in 1 .. Used(in, out) : buf2[SlotAt(out, k)] = buf[SlotAt(out, k)]
  BY SlotAtInRing
<1> QED
  BY <1>1, Zenon DEF WindowOf

(* Moving in forward appends the slot it leaves.                           *)
LEMMA WindowAppend ==
  ASSUME NEW buf \in Buffers, NEW buf2 \in Buffers,
         NEW in \in Slots, NEW out \in Slots,
         NextSlot(in) # out,
         \A i \in Slots \ {in} : buf2[i] = buf[i]
  PROVE  WindowOf(buf2, NextSlot(in), out)
           = Append(WindowOf(buf, in, out), buf2[in])
<1> DEFINE n == Used(in, out)
           w == WindowOf(buf, in, out)
           v == WindowOf(buf2, NextSlot(in), out)
<1>1. NextSlot(in) \in Slots /\ n \in Nat
  BY UsedRange DEF NextSlot, Slots
<1>2. Used(NextSlot(in), out) = n + 1
  BY DEF Used, NextSlot, Slots
<1>3. SlotAt(out, n + 1) = in
  BY DEF Used, SlotAt, Slots, NextSlot
<1>4. w \in Seq(RxElement) /\ Len(w) = n
  BY WindowIsSeq
<1>5. v \in Seq(RxElement) /\ Len(v) = n + 1
  BY <1>1, <1>2, WindowIsSeq
<1>6. \A k \in 1 .. n : v[k] = w[k]
  <2> SUFFICES ASSUME NEW k \in 1 .. n PROVE v[k] = w[k]
    OBVIOUS
  <2>1. k \in 1 .. Used(NextSlot(in), out)
    BY <1>1, <1>2
  <2>2. buf2[SlotAt(out, k)] = buf[SlotAt(out, k)]
    BY SlotAtInRing
  <2> QED
    BY <2>1, <2>2 DEF WindowOf
<1>7. v[n + 1] = buf2[in]
  BY <1>1, <1>2, <1>3 DEF WindowOf
<1>8. buf2[in] \in RxElement
  BY DEF Buffers
<1>9. /\ Append(w, buf2[in]) \in Seq(RxElement)
      /\ Len(Append(w, buf2[in])) = n + 1
      /\ \A k \in 1 .. n + 1 : Append(w, buf2[in])[k] = v[k]
  BY <1>1, <1>4, <1>6, <1>7, <1>8
<1> QED
  BY <1>5, <1>9, SeqEqual

(* The slot out is the head; moving out forward leaves the tail.           *)
LEMMA WindowTail ==
  ASSUME NEW buf \in Buffers, NEW in \in Slots, NEW out \in Slots, in # out
  PROVE  /\ WindowOf(buf, in, out) # <<>>
         /\ Head(WindowOf(buf, in, out)) = buf[out]
         /\ WindowOf(buf, in, NextSlot(out)) = Tail(WindowOf(buf, in, out))
<1> DEFINE n == Used(in, out)
           w == WindowOf(buf, in, out)
           v == WindowOf(buf, in, NextSlot(out))
<1>1. NextSlot(out) \in Slots /\ n \in Nat /\ n >= 1
  BY UsedRange DEF NextSlot, Slots
<1>2. Used(in, NextSlot(out)) = n - 1
  BY DEF Used, NextSlot, Slots
<1>3. w \in Seq(RxElement) /\ Len(w) = n /\ w # <<>>
  BY <1>1, WindowIsSeq
<1>4. v \in Seq(RxElement) /\ Len(v) = n - 1
  BY <1>1, <1>2, WindowIsSeq
<1>5. w[1] = buf[out]
  BY <1>1 DEF WindowOf, SlotAt, Slots
<1>6. \A k \in 1 .. n - 1 : v[k] = w[k + 1]
  <2> SUFFICES ASSUME NEW k \in 1 .. n - 1 PROVE v[k] = w[k + 1]
    OBVIOUS
  <2>0. k \in Int /\ 1 <= k /\ k <= NumRxBuf - 2
    BY UsedRange
  <2>1. SlotAt(NextSlot(out), k) = SlotAt(out, k + 1)
    BY <2>0 DEF SlotAt, NextSlot, Slots
  <2> QED
    BY <1>1, <1>2, <2>1 DEF WindowOf
<1>7. /\ Tail(w) \in Seq(RxElement)
      /\ Len(Tail(w)) = n - 1
      /\ \A k \in 1 .. n - 1 : Tail(w)[k] = v[k]
  BY <1>1, <1>3, <1>6
<1>8. v = Tail(w)
  BY <1>4, <1>7, SeqEqual
<1> QED
  BY <1>3, <1>5, <1>8

-----------------------------------------------------------------------------
(***************************************************************************)
(* What the guarded builds keep: FifoInv.                                  *)
(***************************************************************************)
GuardedTarget == GuardedBusy /\ ~SplitUpcalls

(* Before the first upcall.                                                *)
LEMMA InitFifoInv == Init => FifoInv
BY DEF Init, FifoInv, BusyInv, PktInv, OkayInv, Writing, NoUpcall

(* The slot being filled holds the frame announced so far, in every build: *)
(* nobody but the driver writes to it.                                     *)
LEMMA DriverPktInv == ASSUME RingInv, PktInv, Driver PROVE PktInv'
<1> USE DEF RingInv, TypeOK, UpcallInv, Writing, PktInv, appVars, ringVars,
            NoUpcall, Skipped, Dumped
<1>1. ASSUME NEW cx \in Counts, NEW bx \in Handles, FirstUpcallTooBig(cx, bx)
      PROVE  PktInv'
  BY <1>1 DEF FirstUpcallTooBig
<1>2. ASSUME NEW cx \in Counts, NEW bx \in Handles, FirstUpcallDrop(cx, bx)
      PROVE  PktInv'
  BY <1>2 DEF FirstUpcallDrop
<1>3. ASSUME NEW cx \in Counts, NEW bx \in Handles, NEW d \in Data,
             FirstUpcall(cx, bx, d)
      PROVE  PktInv'
  <2>1. pktRxBuf[rxInOfs] \in RxElement
    OBVIOUS
  <2>2. /\ pktRxBuf'[rxInOfs].firstCount = cx
        /\ pktRxBuf'[rxInOfs].handle = bx
    BY <1>3, <2>1 DEF FirstUpcall, RxElement
  <2> QED
    BY <1>3, <2>2 DEF FirstUpcall
<1>4. ASSUME DriverCopy PROVE PktInv'
  <2>0. upcall \in Upcalls /\ pktRxBuf[rxInOfs] \in RxElement
    BY <1>4 DEF DriverCopy
  <2>1. pktRxBuf'[rxInOfs] = [pktRxBuf[rxInOfs] EXCEPT !.data = upcall.pkt.data]
    BY <1>4, <2>0 DEF DriverCopy
  <2>2. upcall'.pkt = upcall.pkt /\ upcall'.phase = "copied"
    BY <1>4, <2>0 DEF DriverCopy, Upcalls
  <2>3. /\ pktRxBuf'[rxInOfs].firstCount = pktRxBuf[rxInOfs].firstCount
        /\ pktRxBuf'[rxInOfs].handle = pktRxBuf[rxInOfs].handle
        /\ pktRxBuf'[rxInOfs].data = upcall.pkt.data
    BY <2>0, <2>1 DEF RxElement
  <2> QED
    BY <1>4, <2>2, <2>3 DEF DriverCopy
<1>5. ASSUME NEW cx \in Counts, SecondUpcall(cx) PROVE PktInv'
  BY <1>5 DEF SecondUpcall
<1>6. ASSUME SecondUpcallNil PROVE PktInv'
  BY <1>6 DEF SecondUpcallNil
<1> QED
  BY <1>1, <1>2, <1>3, <1>4, <1>5, <1>6 DEF Driver

(* Nor does the application write to it.                                   *)
LEMMA AppPktInv == ASSUME PktInv, App PROVE PktInv'
BY DEF PktInv, Writing, driverVars, App, ReceiveEmpty, ReceiveBegin,
   ReceiveCheck, ReceiveCopy, ReceiveAdvance, ReceiveWrap, QueueBusyGuarded,
   QueueBusyRead, QueueBusyStore, QueueBusyWrap, QueueBusyClear

(* The upcalls keep FifoInv: a busy ring looks full to them.               *)
LEMMA DriverFifoInv ==
  ASSUME GuardedTarget, RingInv, FifoInv, Driver PROVE FifoInv'
<1> USE DEF RingInv, TypeOK, OffsetsInv, UpcallInv, Reading, Writing,
            BusyInv, OkayInv, appVars, ringVars, NoUpcall, Skipped,
            Dumped, GuardedTarget
<1>0. BusyInv /\ OkayInv /\ PktInv'
  BY DriverPktInv DEF FifoInv
<1>1. ASSUME NEW cx \in Counts, NEW bx \in Handles, FirstUpcallTooBig(cx, bx)
      PROVE  BusyInv' /\ OkayInv'
  BY <1>0, <1>1 DEF FirstUpcallTooBig
<1>2. ASSUME NEW cx \in Counts, NEW bx \in Handles, FirstUpcallDrop(cx, bx)
      PROVE  BusyInv' /\ OkayInv'
  BY <1>0, <1>2 DEF FirstUpcallDrop
<1>3. ASSUME NEW cx \in Counts, NEW bx \in Handles, NEW d \in Data,
             FirstUpcall(cx, bx, d)
      PROVE  BusyInv' /\ OkayInv'
  <2>1. \A i \in Slots \ {rxInOfs} : pktRxBuf'[i] = pktRxBuf[i]
    BY <1>3 DEF FirstUpcall
  <2> QED
    BY <1>0, <1>3, <2>1 DEF FirstUpcall
<1>4. ASSUME DriverCopy PROVE BusyInv' /\ OkayInv'
  <2>1. \A i \in Slots \ {rxInOfs} : pktRxBuf'[i] = pktRxBuf[i]
    BY <1>4 DEF DriverCopy
  <2>2. upcall \in Upcalls /\ upcall'.phase = "copied"
    BY <1>4 DEF DriverCopy, Upcalls
  <2> QED
    BY <1>0, <1>4, <2>1, <2>2 DEF DriverCopy
<1>5. ASSUME NEW cx \in Counts, SecondUpcall(cx) PROVE BusyInv' /\ OkayInv'
  <2>1. \A i \in Slots \ {rxInOfs} : pktRxBuf'[i] = pktRxBuf[i]
    BY <1>5 DEF SecondUpcall
  <2> QED
    BY <1>0, <1>5, <2>1 DEF SecondUpcall
<1>6. ASSUME SecondUpcallNil PROVE BusyInv' /\ OkayInv'
  BY <1>0, <1>6 DEF SecondUpcallNil
<1> QED
  BY <1>0, <1>1, <1>2, <1>3, <1>4, <1>5, <1>6 DEF Driver, FifoInv

(* The application keeps it: with interrupts off, PktQueueBusy leaves no   *)
(* step between the offsets of a busy ring.                                *)
LEMMA AppFifoInv ==
  ASSUME GuardedTarget, RingInv, FifoInv, App PROVE FifoInv'
<1> USE DEF RingInv, TypeOK, OffsetsInv, Reading, Writing, FifoInv,
            BusyInv, PktInv, OkayInv, driverVars, NoUpcall,
            AppMayRun, GuardedTarget
<1>1. ASSUME ReceiveEmpty PROVE FifoInv'
  BY <1>1 DEF ReceiveEmpty
<1>2. ASSUME ReceiveBegin PROVE FifoInv'
  BY <1>2 DEF ReceiveBegin
<1>3. ASSUME ReceiveCheck PROVE FifoInv'
  BY <1>3 DEF ReceiveCheck, CheckElement
<1>4. ASSUME ReceiveCopy PROVE FifoInv'
  BY <1>4 DEF ReceiveCopy
<1>5. ASSUME ReceiveAdvance PROVE FifoInv'
  BY <1>5 DEF ReceiveAdvance
<1>6. ASSUME ReceiveWrap PROVE FifoInv'
  BY <1>6 DEF ReceiveWrap, LocalOffset, GuardedBusy
<1>7. ASSUME NEW b \in BOOLEAN, QueueBusyGuarded(b) PROVE FifoInv'
  BY <1>7 DEF QueueBusyGuarded
<1>8. ASSUME NEW b \in BOOLEAN, QueueBusyRead(b) PROVE FifoInv'
  BY <1>8 DEF QueueBusyRead
<1>9. ASSUME QueueBusyStore PROVE FifoInv'
  BY <1>9 DEF QueueBusyStore
<1>10. ASSUME QueueBusyWrap PROVE FifoInv'
  BY <1>10 DEF QueueBusyWrap
<1>11. ASSUME QueueBusyClear PROVE FifoInv'
  BY <1>11 DEF QueueBusyClear
<1> QED
  BY <1>1, <1>2, <1>3, <1>4, <1>5, <1>6, <1>7, <1>8, <1>9, <1>10, <1>11
     DEF App

(* Nothing changes.                                                        *)
LEMMA StutterFifoInv == FifoInv /\ UNCHANGED vars => FifoInv'
BY DEF FifoInv, BusyInv, PktInv, OkayInv, Writing, vars

(* A busy ring looks full, and the slot being filled holds the frame that  *)
(* was announced.                                                          *)
THEOREM FifoInvariant ==
  ASSUME GuardedTarget PROVE Spec => [](RingInv /\ FifoInv)
<1>1. NoOverrun
  BY DEF NoOverrun, GuardedTarget
<1>2. Init => RingInv /\ FifoInv
  BY InitRingInv, InitFifoInv
<1>3. RingInv /\ FifoInv /\ [Next]_vars => (RingInv /\ FifoInv)'
  BY <1>1, DriverRingInv, AppRingInv, StutterRingInv,
     DriverFifoInv, AppFifoInv, StutterFifoInv DEF Next
<1> QED
  BY <1>2, <1>3, PTL DEF Spec

(* After PktQueueBusy(TRUE), and until PktQueueBusy(FALSE), no packet      *)
(* enters the ring.                                                        *)
THEOREM BusyRingRefuses == ASSUME GuardedTarget PROVE Spec => BusyRefuses
<1>1. FifoInv /\ [Next]_vars /\ busy /\ busy' => rxInOfs' = rxInOfs
  <2> SUFFICES ASSUME FifoInv, [Next]_vars, busy, busy'
               PROVE  rxInOfs' = rxInOfs
    OBVIOUS
  <2>1. CASE Driver
    BY <2>1 DEF Driver, FirstUpcallTooBig, FirstUpcallDrop, FirstUpcall,
       DriverCopy, SecondUpcall, SecondUpcallNil, ringVars, FifoInv, BusyInv,
       Writing
  <2>2. CASE App
    BY <2>2 DEF App, driverVars, ReceiveEmpty, ReceiveBegin, ReceiveCheck,
       ReceiveCopy, ReceiveAdvance, ReceiveWrap, QueueBusyGuarded,
       QueueBusyRead, QueueBusyStore, QueueBusyWrap, QueueBusyClear
  <2> QED
    BY <2>1, <2>2 DEF Next, vars
<1>2. RingInv /\ FifoInv /\ [Next]_vars
        => [busy /\ busy' => rxInOfs' = rxInOfs]_vars
  BY <1>1
<1> QED
  BY <1>2, FifoInvariant, PTL DEF Spec, BusyRefuses

-----------------------------------------------------------------------------
(***************************************************************************)
(* The second upcall, also when the application runs between the two.      *)
(***************************************************************************)
LEMMA SecondUpcallAppends ==
  ASSUME GuardedBusy, RingInv, PktInv, ~busy,
         NEW cx \in Counts, SecondUpcall(cx)
  PROVE  Window' = Append(Window, [upcall.pkt EXCEPT !.secondCount = cx])
<1> DEFINE p == [upcall.pkt EXCEPT !.secondCount = cx]
<1>0. /\ pktRxBuf \in Buffers /\ rxInOfs \in Slots
      /\ upcall \in Upcalls \cup {NoUpcall, Skipped, Dumped}
  BY DEF RingInv, TypeOK, Buffers
<1>1. Writing /\ upcall \in Upcalls /\ upcall.slot = rxInOfs
  BY <1>0 DEF SecondUpcall, Writing, NoUpcall, Skipped, Dumped, RingInv,
     UpcallInv
<1>2. rxOutOfs \in Slots /\ NextSlot(rxInOfs) # rxOutOfs
      /\ rxInOfs' = NextSlot(rxInOfs)
  BY <1>1 DEF RingInv, OffsetsInv, GuardedBusy, LocalOffset, UpcallInv,
     SecondUpcall
<1>3. pktRxBuf' \in Buffers
  BY DriverRingInv DEF NoOverrun, RingInv, TypeOK, Buffers, Driver
<1>4. /\ pktRxBuf'[rxInOfs] = [pktRxBuf[rxInOfs] EXCEPT !.secondCount = cx]
      /\ \A i \in Slots \ {rxInOfs} : pktRxBuf'[i] = pktRxBuf[i]
  BY <1>0, <1>1 DEF SecondUpcall, Buffers
<1>5. pktRxBuf'[rxInOfs] = p
  <2>1. upcall.pkt \in RxElement /\ pktRxBuf[rxInOfs] \in RxElement
    BY <1>0, <1>1 DEF Upcalls, Buffers
  <2>2. /\ upcall.pkt.firstCount = pktRxBuf[rxInOfs].firstCount
        /\ upcall.pkt.handle = pktRxBuf[rxInOfs].handle
        /\ upcall.pkt.data = pktRxBuf[rxInOfs].data
    BY <1>1 DEF SecondUpcall, PktInv
  <2> QED
    BY <1>4, <2>1, <2>2 DEF RxElement
<1>6. WindowOf(pktRxBuf', NextSlot(rxInOfs), rxOutOfs) = Append(Window, p)
  BY <1>0, <1>2, <1>3, <1>4, <1>5, WindowAppend DEF Window
<1> QED
  BY <1>2, <1>6 DEF SecondUpcall, Window, appVars

(* In a guarded build the second upcall adds exactly the packet delivered  *)
(* to the end of the FIFO and loses none of those before, even when the    *)
(* application reads, closes and opens the ring between the two upcalls.   *)
THEOREM UpcallsAppend == ASSUME GuardedBusy PROVE Spec => UpcallAppends
<1>0. NoOverrun
  BY DEF NoOverrun
<1>1. Init => PktInv
  BY DEF Init, PktInv, Writing, NoUpcall
<1>2. RingInv /\ PktInv /\ [Next]_vars => PktInv'
  BY DriverPktInv, AppPktInv DEF Next, vars, PktInv, Writing
<1>3. RingInv /\ PktInv /\ [Next]_vars => [AppendsPacket]_vars
  <2> SUFFICES ASSUME RingInv, PktInv, Next, Writing, upcall' = NoUpcall, ~busy
               PROVE  AppendsPacket
    BY DEF AppendsPacket
  <2>1. \E cx \in Counts : SecondUpcall(cx)
    <3>1. CASE Driver
      <4>1. upcall \notin {NoUpcall, Skipped, Dumped}
        BY DEF Writing, NoUpcall, Skipped, Dumped
      <4>2. ~DriverCopy
        BY <4>1 DEF DriverCopy, RingInv, TypeOK, Upcalls, NoUpcall
      <4> QED
        BY <3>1, <4>1, <4>2 DEF Driver, FirstUpcallTooBig, FirstUpcallDrop,
           FirstUpcall, SecondUpcallNil
    <3>2. CASE App
      <4>1. upcall' = upcall
        BY <3>2 DEF App, driverVars, ReceiveEmpty, ReceiveBegin, ReceiveCheck,
           ReceiveCopy, ReceiveAdvance, ReceiveWrap, QueueBusyGuarded,
           QueueBusyRead, QueueBusyStore, QueueBusyWrap, QueueBusyClear
      <4> QED
        BY <4>1 DEF Writing, NoUpcall
    <3> QED
      BY <3>1, <3>2 DEF Next
  <2> QED
    BY <2>1, SecondUpcallAppends DEF AppendsPacket
<1> QED
  BY <1>0, <1>1, <1>2, <1>3, RingInvariant, PTL DEF Spec, UpcallAppends

-----------------------------------------------------------------------------
(***************************************************************************)
(* Refinement: each step of the ring is a step of the FIFO or leaves it    *)
(* unchanged.                                                              *)
(***************************************************************************)

(* The two words of pktDrop count modulo their product.                    *)
LEMMA DropStep ==
  ASSUME GuardedTarget, TypeOK, CountDrop
  PROVE  PktRxDropped' = (PktRxDropped + 1) % (Word * Word)
<1> DEFINE lo == pktDrop[1]
           hi == pktDrop[2]
<1>1. lo \in 0 .. Word - 1 /\ hi \in 0 .. Word - 1
  BY DEF TypeOK
<1>2. CASE lo + 1 < Word
  <2>1. (lo + 1) % Word = lo + 1 /\ hi % Word = hi
    BY <1>1, <1>2
  <2>2. pktDrop' = <<lo + 1, hi>>
    BY <1>1, <1>2, <2>1 DEF CountDrop
  <2>3. hi * Word <= (Word - 1) * Word
    BY <1>1
  <2>4. hi * Word + lo + 1 \in 0 .. Word * Word - 1
    BY <1>1, <1>2, <2>3
  <2>5. (hi * Word + lo + 1) % (Word * Word) = hi * Word + lo + 1
    BY <2>4
  <2> QED
    BY <2>2, <2>5, <1>1 DEF PktRxDropped
<1>3. CASE lo + 1 = Word /\ hi + 1 < Word
  <2>1. (lo + 1) % Word = 0 /\ (hi + 1) % Word = hi + 1
    BY <1>1, <1>3
  <2>2. pktDrop' = <<0, hi + 1>>
    BY <2>1 DEF CountDrop, GuardedTarget, GuardedBusy, CarryingDrop
  <2>3. (hi + 1) * Word = hi * Word + lo + 1
    BY <1>1, <1>3
  <2>4. (hi + 1) * Word <= (Word - 1) * Word
    BY <1>1, <1>3
  <2>5. hi * Word + lo + 1 \in 0 .. Word * Word - 1
    BY <1>1, <2>3, <2>4
  <2>6. (hi * Word + lo + 1) % (Word * Word) = hi * Word + lo + 1
    BY <2>5
  <2>7. PktRxDropped' = (hi + 1) * Word
    BY <1>1, <2>2 DEF PktRxDropped
  <2> QED
    BY <2>3, <2>6, <2>7 DEF PktRxDropped
<1>4. CASE lo + 1 = Word /\ hi + 1 = Word
  <2>1. (lo + 1) % Word = 0 /\ (hi + 1) % Word = 0
    BY <1>1, <1>4
  <2>2. pktDrop' = <<0, 0>>
    BY <2>1 DEF CountDrop, GuardedTarget, GuardedBusy, CarryingDrop
  <2>3. hi * Word + lo + 1 = Word * Word
    BY <1>1, <1>4
  <2>4. (Word * Word) % (Word * Word) = 0
    OBVIOUS
  <2> QED
    BY <2>2, <2>3, <2>4 DEF PktRxDropped
<1> QED
  BY <1>1, <1>2, <1>3, <1>4

(* The empty ring is the empty FIFO.                                       *)
LEMMA InitRefines == Init => Fifo!Init
<1> SUFFICES ASSUME Init PROVE Fifo!Init
  OBVIOUS
<1>1. FifoQueue = <<>>
  BY DEF Init, FifoQueue, Window, WindowOf, Used
<1> QED
  BY <1>1 DEF Init, Fifo!Init, FifoArriving, Writing, NoUpcall, PktRxDropped,
     NoReturn

(* When neither side's state that the FIFO shows changes, it stutters.     *)
LEMMA FifoStutters ==
  ASSUME FifoQueue' = FifoQueue, FifoArriving' = FifoArriving,
         (pc' = "advance") <=> (pc = "advance"), busy' = busy,
         UNCHANGED <<pktDrop, ret>>
  PROVE  UNCHANGED Fifo!vars
BY DEF Fifo!vars, PktRxDropped

(* An upcall is an arrival, its completion, a refusal, or not seen.        *)
LEMMA DriverRefines ==
  ASSUME GuardedTarget, RingInv, FifoInv, Driver
  PROVE  [Fifo!Next]_Fifo!vars
<1> USE DEF GuardedTarget
<1>0. /\ pktRxBuf \in Buffers /\ rxInOfs \in Slots /\ busy \in BOOLEAN
      /\ upcall \in Upcalls \cup {NoUpcall, Skipped, Dumped}
  BY DEF RingInv, TypeOK, Buffers
<1>1. ASSUME NEW cx \in Counts, NEW bx \in Handles, FirstUpcallTooBig(cx, bx)
      PROVE  [Fifo!Next]_Fifo!vars
  <2>1. FifoQueue' = FifoQueue /\ FifoArriving' = FifoArriving
    BY <1>1 DEF FirstUpcallTooBig, ringVars, appVars, FifoQueue, FifoArriving,
       Window, Writing, NoUpcall, Skipped
  <2> QED
    BY <1>1, <2>1, FifoStutters DEF FirstUpcallTooBig, appVars
<1>2. ASSUME NEW cx \in Counts, NEW bx \in Handles, FirstUpcallDrop(cx, bx)
      PROVE  [Fifo!Next]_Fifo!vars
  <2>1. FifoQueue' = FifoQueue /\ FifoArriving' = {} /\ FifoArriving = {}
    BY <1>2 DEF FirstUpcallDrop, ringVars, appVars, FifoQueue, FifoArriving,
       Window, Writing, NoUpcall, Dumped
  <2>2. PktRxDropped' = (PktRxDropped + 1) % (Word * Word)
    BY <1>2, DropStep DEF FirstUpcallDrop, RingInv
  <2>3. busy \/ Len(FifoQueue) = NumRxBuf - 1
    <3>1. rxOutOfs \in Slots
      BY <1>0, <1>2 DEF FirstUpcallDrop, NextSlot, Slots
    <3> QED
      BY <1>0, <1>2, <3>1, UsedRange, WindowIsSeq
         DEF FirstUpcallDrop, FifoQueue, Window
  <2> QED
    BY <1>2, <2>1, <2>2, <2>3 DEF FirstUpcallDrop, appVars, Fifo!Next,
       Fifo!Refuse
<1>3. ASSUME NEW cx \in Counts, NEW bx \in Handles, NEW d \in Data,
             FirstUpcall(cx, bx, d)
      PROVE  [Fifo!Next]_Fifo!vars
  <2> DEFINE p == [firstCount |-> cx, secondCount |-> 0,
                   handle |-> bx, data |-> d]
  <2>1. ~busy /\ rxOutOfs \in Slots
    <3>1. ~busy
      BY <1>3 DEF FirstUpcall, FifoInv, BusyInv
    <3>2. pc \notin {"wrap", "busyWrap"}
      BY DEF RingInv, OffsetsInv, GuardedBusy, LocalOffset
    <3> QED
      BY <3>1, <3>2 DEF RingInv, OffsetsInv
  <2>2. FifoQueue' = FifoQueue
    <3>1. \A i \in Slots \ {rxInOfs} : pktRxBuf'[i] = pktRxBuf[i]
      BY <1>0, <1>3 DEF FirstUpcall, Buffers
    <3>2. pktRxBuf' \in Buffers
      BY <1>0, <1>3, FirstUpcallElement DEF FirstUpcall, Buffers
    <3> QED
      BY <1>0, <1>3, <2>1, <3>1, <3>2, WindowFrame
         DEF FirstUpcall, FifoQueue, Window, appVars
  <2>3. FifoArriving = {} /\ FifoArriving' = {p}
    BY <1>3 DEF FirstUpcall, FifoArriving, Writing, NoUpcall
  <2>4. Len(FifoQueue) < NumRxBuf - 1
    BY <1>0, <1>3, <2>1, UsedRange, WindowIsSeq
       DEF FirstUpcall, FifoQueue, Window
  <2>5. p \in Fifo!Packets
    BY <1>3 DEF FirstUpcall, Fifo!Packets
  <2>6. Fifo!Arrive(p)
    BY <1>3, <2>1, <2>2, <2>3, <2>4 DEF FirstUpcall, appVars, Fifo!Arrive,
       PktRxDropped
  <2> QED
    BY <2>5, <2>6 DEF Fifo!Next
<1>4. ASSUME DriverCopy PROVE [Fifo!Next]_Fifo!vars
  <2>0. Writing /\ upcall \in Upcalls /\ upcall.slot = rxInOfs /\ ~busy
    BY <1>0, <1>4 DEF DriverCopy, Writing, NoUpcall, Skipped, Dumped, RingInv,
       UpcallInv, FifoInv, BusyInv
  <2>1. rxOutOfs \in Slots
    BY DEF RingInv, OffsetsInv, GuardedBusy, LocalOffset
  <2>2. FifoQueue' = FifoQueue
    <3>1. \A i \in Slots \ {rxInOfs} : pktRxBuf'[i] = pktRxBuf[i]
      BY <1>0, <1>4, <2>0 DEF DriverCopy, Buffers
    <3>2. pktRxBuf' \in Buffers
      BY DriverRingInv DEF NoOverrun, RingInv, TypeOK, Buffers
    <3>3. WindowOf(pktRxBuf', rxInOfs, rxOutOfs) = Window
      BY <1>0, <2>1, <3>1, <3>2, WindowFrame DEF Window
    <3> QED
      BY <1>4, <2>0, <3>3 DEF DriverCopy, FifoQueue, Window, appVars
  <2>3. FifoArriving' = FifoArriving
    BY <1>4, <2>0 DEF DriverCopy, FifoArriving, Writing, Upcalls
  <2> QED
    BY <1>4, <2>2, <2>3, FifoStutters DEF DriverCopy, appVars
<1>5. ASSUME NEW cx \in Counts, SecondUpcall(cx) PROVE [Fifo!Next]_Fifo!vars
  <2> DEFINE p == [upcall.pkt EXCEPT !.secondCount = cx]
  <2>0. Writing /\ upcall \in Upcalls /\ upcall.slot = rxInOfs /\ ~busy
    BY <1>0, <1>5 DEF SecondUpcall, Writing, NoUpcall, Skipped, Dumped,
       RingInv, UpcallInv, FifoInv, BusyInv
  <2>5. FifoQueue' = Append(FifoQueue, p)
    <3>1. Window' = Append(Window, p)
      BY <1>5, <2>0, SecondUpcallAppends DEF FifoInv
    <3> QED
      BY <1>5, <2>0, <3>1 DEF SecondUpcall, FifoQueue, appVars
  <2>6. FifoArriving = {upcall.pkt} /\ FifoArriving' = {}
    BY <1>5, <2>0 DEF SecondUpcall, FifoArriving, Writing, NoUpcall
  <2>7. Fifo!Complete(cx)
    BY <1>5, <2>5, <2>6 DEF SecondUpcall, appVars, Fifo!Complete, PktRxDropped
  <2> QED
    BY <2>7 DEF Fifo!Next
<1>6. ASSUME SecondUpcallNil PROVE [Fifo!Next]_Fifo!vars
  <2>1. FifoQueue' = FifoQueue /\ FifoArriving' = FifoArriving
    BY <1>6 DEF SecondUpcallNil, ringVars, appVars, FifoQueue, FifoArriving,
       Window, Writing, NoUpcall, Skipped, Dumped
  <2> QED
    BY <1>6, <2>1, FifoStutters DEF SecondUpcallNil, appVars
<1> QED
  BY <1>1, <1>2, <1>3, <1>4, <1>5, <1>6 DEF Driver

(* A step of the application is a read, the freeing of a place, a change   *)
(* of closed, or not seen.                                                 *)
LEMMA AppRefines ==
  ASSUME GuardedTarget, RingInv, FifoInv, App
  PROVE  [Fifo!Next]_Fifo!vars
<1> USE DEF GuardedTarget
<1>0. /\ pktRxBuf \in Buffers /\ rxInOfs \in Slots /\ busy \in BOOLEAN
      /\ rxOutOfs \in Slots
  BY DEF RingInv, TypeOK, OffsetsInv, GuardedBusy, LocalOffset, Buffers
<1>1. ASSUME ReceiveEmpty PROVE [Fifo!Next]_Fifo!vars
  <2>1. FifoQueue = <<>> /\ FifoQueue' = <<>>
    <3>1. Used(rxInOfs, rxOutOfs) = 0
      BY <1>0, <1>1, UsedRange DEF ReceiveEmpty
    <3>2. Window = <<>>
      BY <3>1 DEF Window, WindowOf
    <3> QED
      BY <1>1, <3>2 DEF ReceiveEmpty, FifoQueue, Window, driverVars
  <2>2. FifoArriving' = FifoArriving
    BY <1>1 DEF ReceiveEmpty, driverVars, FifoArriving, Writing
  <2>3. Fifo!ReadNothing
    BY <1>1, <2>1, <2>2 DEF ReceiveEmpty, Fifo!ReadNothing, NoReturn,
       PktRxDropped
  <2> QED
    BY <2>3 DEF Fifo!Next
<1>2. ASSUME ReceiveBegin PROVE [Fifo!Next]_Fifo!vars
  BY <1>2, FifoStutters DEF ReceiveBegin, driverVars, FifoQueue, FifoArriving,
     Window, Writing
<1>3. ASSUME ReceiveCheck PROVE [Fifo!Next]_Fifo!vars
  BY <1>3, FifoStutters DEF ReceiveCheck, driverVars, FifoQueue, FifoArriving,
     Window, Writing
<1>4. ASSUME ReceiveCopy PROVE [Fifo!Next]_Fifo!vars
  <2>1. FifoQueue' = FifoQueue /\ FifoArriving' = FifoArriving
    BY <1>4 DEF ReceiveCopy, driverVars, FifoQueue, FifoArriving, Window,
       Writing
  <2>2. ofs = rxOutOfs /\ rxOutOfs # rxInOfs /\ ~busy
    BY <1>4 DEF ReceiveCopy, RingInv, OffsetsInv, Reading
  <2>3. FifoQueue # <<>> /\ Head(FifoQueue) = pktRxBuf[ofs]
    BY <1>0, <2>2, WindowTail DEF FifoQueue, Window
  <2>4. ret' = Fifo!Verdict(pktRxBuf[ofs])
    BY <1>4 DEF ReceiveCopy, FifoInv, OkayInv, Sound, RightHandle, InSync,
       Fifo!Verdict
  <2>5. Fifo!Read
    BY <1>4, <2>1, <2>2, <2>3, <2>4 DEF ReceiveCopy, Fifo!Read, PktRxDropped
  <2> QED
    BY <2>5 DEF Fifo!Next
<1>5. ASSUME ReceiveAdvance PROVE [Fifo!Next]_Fifo!vars
  <2>1. ofs = rxOutOfs /\ rxOutOfs # rxInOfs /\ ~busy
    BY <1>5 DEF ReceiveAdvance, RingInv, OffsetsInv, Reading
  <2>2. rxOutOfs' = NextSlot(rxOutOfs) /\ pc' = "idle"
    BY <1>5, <2>1 DEF ReceiveAdvance, LocalOffset, GuardedBusy
  <2>3. WindowOf(pktRxBuf, rxInOfs, NextSlot(rxOutOfs)) = Tail(Window)
    BY <1>0, <2>1, WindowTail DEF Window
  <2>4. FifoQueue' = Tail(FifoQueue)
    BY <1>5, <2>1, <2>2, <2>3 DEF ReceiveAdvance, driverVars, FifoQueue,
       Window
  <2>5. FifoArriving' = FifoArriving
    BY <1>5 DEF ReceiveAdvance, driverVars, FifoArriving, Writing
  <2>6. Fifo!Free
    BY <1>5, <2>2, <2>4, <2>5 DEF ReceiveAdvance, Fifo!Free, PktRxDropped
  <2> QED
    BY <2>6 DEF Fifo!Next
<1>6. ASSUME ReceiveWrap PROVE [Fifo!Next]_Fifo!vars
  BY <1>6 DEF ReceiveWrap, RingInv, OffsetsInv, GuardedBusy, LocalOffset
<1>7. ASSUME NEW b \in BOOLEAN, QueueBusyGuarded(b)
      PROVE  [Fifo!Next]_Fifo!vars
  <2>1. FifoArriving = {} /\ FifoArriving' = {}
    BY <1>7 DEF QueueBusyGuarded, AppMayRun, driverVars, FifoArriving, Writing,
       NoUpcall
  <2>2. FifoQueue' = <<>>
    <3>1. CASE b
      BY <1>7, <3>1 DEF QueueBusyGuarded, FifoQueue
    <3>2. CASE ~b
      <4>1. Used(rxInOfs, rxInOfs) = 0
        BY <1>0, UsedRange
      <4>2. Window' = <<>>
        BY <1>7, <3>2, <4>1 DEF QueueBusyGuarded, driverVars, Window, WindowOf
      <4> QED
        BY <1>7, <3>2, <4>2 DEF QueueBusyGuarded, FifoQueue
    <3> QED
      BY <3>1, <3>2
  <2>3. PktRxDropped' = 0
    BY <1>7 DEF QueueBusyGuarded, PktRxDropped
  <2>4. pc # "advance" /\ pc' # "advance"
    BY <1>7 DEF QueueBusyGuarded, MayCallBusy
  <2>5. Fifo!SetClosed(b)
    BY <1>7, <2>1, <2>2, <2>3, <2>4 DEF QueueBusyGuarded, Fifo!SetClosed
  <2> QED
    BY <2>5 DEF Fifo!Next
<1>8. ASSUME NEW b \in BOOLEAN, QueueBusyRead(b) PROVE [Fifo!Next]_Fifo!vars
  BY <1>8 DEF QueueBusyRead
<1>9. ASSUME QueueBusyStore PROVE [Fifo!Next]_Fifo!vars
  BY <1>9 DEF QueueBusyStore, RingInv, OffsetsInv
<1>10. ASSUME QueueBusyWrap PROVE [Fifo!Next]_Fifo!vars
  BY <1>10 DEF QueueBusyWrap, RingInv, OffsetsInv
<1>11. ASSUME QueueBusyClear PROVE [Fifo!Next]_Fifo!vars
  BY <1>11 DEF QueueBusyClear, RingInv, OffsetsInv
<1> QED
  BY <1>1, <1>2, <1>3, <1>4, <1>5, <1>6, <1>7, <1>8, <1>9, <1>10, <1>11
     DEF App

(* The ring is a bounded FIFO: every behaviour of a guarded build, seen    *)
(* through the refinement mapping, is a behaviour of PktFifo.              *)
THEOREM RingImplementsFifo == ASSUME GuardedTarget PROVE Spec => FifoSpec
<1>1. RingInv /\ FifoInv /\ [Next]_vars => [Fifo!Next]_Fifo!vars
  <2> SUFFICES ASSUME RingInv, FifoInv, [Next]_vars
               PROVE  [Fifo!Next]_Fifo!vars
    OBVIOUS
  <2>1. CASE UNCHANGED vars
    BY <2>1, FifoStutters DEF vars, FifoQueue, FifoArriving, Window, Writing
  <2> QED
    BY <2>1, DriverRefines, AppRefines DEF Next
<1> QED
  BY <1>1, InitRefines, FifoInvariant, PTL DEF Spec, FifoSpec, Fifo!Spec

(* Every packet refused because the ring is full or busy adds exactly one  *)
(* to what PktRxDropped returns, across the carry between its two words.   *)
THEOREM DropsAreCounted == ASSUME GuardedTarget PROVE Spec => DropCounted
<1>1. /\ RingInv /\ [Next]_vars /\ upcall = NoUpcall /\ upcall' = Dumped
      => PktRxDropped' = (PktRxDropped + 1) % (Word * Word)
  <2> SUFFICES ASSUME RingInv, [Next]_vars, upcall = NoUpcall, upcall' = Dumped
               PROVE  PktRxDropped' = (PktRxDropped + 1) % (Word * Word)
    OBVIOUS
  <2>1. CountDrop
    <3>1. CASE Driver
      BY <3>1 DEF Driver, FirstUpcallTooBig, FirstUpcallDrop, FirstUpcall,
         DriverCopy, SecondUpcall, SecondUpcallNil, NoUpcall, Dumped, Skipped
    <3>2. CASE App
      BY <3>2 DEF App, driverVars, ReceiveEmpty, ReceiveBegin, ReceiveCheck,
         ReceiveCopy, ReceiveAdvance, ReceiveWrap, QueueBusyGuarded,
         QueueBusyRead, QueueBusyStore, QueueBusyWrap, QueueBusyClear,
         NoUpcall, Dumped
    <3> QED
      BY <3>1, <3>2 DEF Next, vars, NoUpcall, Dumped
  <2> QED
    BY <2>1, DropStep DEF RingInv
<1>2. RingInv /\ [Next]_vars
      => [CountsDrop]_vars
  BY <1>1 DEF CountsDrop
<1> QED
  BY <1>2, FifoInvariant, PTL DEF Spec, DropCounted

=============================================================================
