--------------------------- MODULE BufPoolProofs ----------------------------
(***************************************************************************)
(* Theorems about BufPool, for every number of buffers, size of the        *)
(* reserve and limit of the cards.                                         *)
(***************************************************************************)
EXTENDS BufPool, FiniteSetTheorems, SequenceTheorems, TLAPS

USE BufsAssumption, OverheadAssumption, CardsAssumption, MaxSendsAssumption,
    MaxBurstAssumption

-----------------------------------------------------------------------------
(* The invariant the proofs are built on: the places a buffer can be in    *)
(* hold disjoint sets of buffers, which make up the pool.                  *)

Elems(s) == {s[i] : i \in DOMAIN s}
Once(s)  == \A i, j \in DOMAIN s : s[i] = s[j] => i = j

CardPlaces == {"queue", "mgmtQueue", "sending", "receiving"}
LonePlaces == {"free", "protocol", "held"}
Locations  == (CardPlaces \X Cards) \cup (LonePlaces \X {NoBuf})

Holds(l) ==
  CASE l[1] = "free"      -> Elems(freePktBufs)
    [] l[1] = "protocol"  -> Elems(protocolQueue)
    [] l[1] = "held"      -> {held} \ {NoBuf}
    [] l[1] = "queue"     -> Elems(queue[l[2]])
    [] l[1] = "mgmtQueue" -> Elems(mgmtQueue[l[2]])
    [] l[1] = "sending"   -> sending[l[2]]
    [] l[1] = "receiving" -> {receiving[l[2]]} \ {NoBuf}

TypeInv ==
  /\ freePktBufs \in Seq(Bufs) /\ protocolQueue \in Seq(Bufs)
  /\ queue \in [Cards -> Seq(Bufs)] /\ mgmtQueue \in [Cards -> Seq(Bufs)]
  /\ sending \in [Cards -> SUBSET Bufs]
  /\ receiving \in [Cards -> Bufs \cup {NoBuf}]
  /\ held \in Bufs \cup {NoBuf} /\ mgmt \in SUBSET Bufs
  /\ from \in Cards /\ sendsPending \in [Cards -> Nat]

(* No queue holds a buffer twice.                                          *)
OnceEach ==
  /\ Once(freePktBufs) /\ Once(protocolQueue)
  /\ \A c \in Cards : Once(queue[c]) /\ Once(mgmtQueue[c])

(* No two places hold the same buffer, and every buffer is somewhere.      *)
Apart == \A l, k \in Locations : l # k => Holds(l) \cap Holds(k) = {}
Kept  == \A b \in Bufs : \E l \in Locations : b \in Holds(l)

(* What the main loop has tested is still so when it goes on: the          *)
(* interrupts only lengthen the queues and only take from sendsPending.    *)
LoopInv ==
  /\ pc = "mgmtSend" => mgmtQueue[to] # <<>> /\ sendsPending[to] < MaxSends
  /\ pc = "room" => queue[from] # <<>>
  /\ pc = "judge" => sendsPending[to] < MaxSends
  /\ held # NoBuf <=> pc \in {"judge", "handle"}

(* The management stack's buffers are queued for a card or at its driver.  *)
MgmtInv ==
  \A b \in mgmt : \E c \in Cards : b \in Elems(mgmtQueue[c]) \/ b \in sending[c]

IInv == /\ TypeInv /\ OnceEach /\ Apart /\ Kept /\ LoopInv /\ MgmtInv
        /\ ReserveKept /\ SendsCounted

-----------------------------------------------------------------------------
(* Lemmas on the lists of buffers.                                         *)

(* A buffer is put at the end.                                             *)
LEMMA AppendOnce ==
  ASSUME NEW s \in Seq(Bufs), NEW b \in Bufs, Once(s), b \notin Elems(s)
  PROVE  /\ Append(s, b) \in Seq(Bufs) /\ Once(Append(s, b))
         /\ Elems(Append(s, b)) = Elems(s) \cup {b}
         /\ Len(Append(s, b)) = Len(s) + 1
<1> DEFINE t == Append(s, b)
<1>1. t \in Seq(Bufs) /\ Len(t) = Len(s) + 1 /\ Len(s) \in Nat
  BY AppendProperties
<1>2. /\ DOMAIN s = 1 .. Len(s) /\ DOMAIN t = 1 .. Len(s) + 1
      /\ \A i \in DOMAIN s : t[i] = s[i]
      /\ t[Len(s) + 1] = b
  BY AppendProperties
<1> HIDE DEF t
<1>3. DOMAIN t = DOMAIN s \cup {Len(s) + 1}
  BY <1>1, <1>2
<1>4. Elems(t) = Elems(s) \cup {b}
  BY <1>2, <1>3 DEF Elems
<1>5. Once(t)
  BY <1>2, <1>3 DEF Once, Elems
<1> QED
  BY <1>1, <1>4, <1>5 DEF t

(* The first buffer is taken.                                              *)
LEMMA TailOnce ==
  ASSUME NEW s \in Seq(Bufs), Once(s), s # <<>>
  PROVE  /\ Head(s) \in Bufs /\ Head(s) \in Elems(s)
         /\ Tail(s) \in Seq(Bufs) /\ Once(Tail(s))
         /\ Elems(Tail(s)) = Elems(s) \ {Head(s)}
<1> DEFINE t == Tail(s)
<1>1. /\ t \in Seq(Bufs) /\ Len(t) = Len(s) - 1 /\ Len(s) \in Nat /\ Len(s) > 0
      /\ Head(s) = s[1] /\ Head(s) \in Bufs
      /\ \A i \in 1 .. Len(t) : t[i] = s[i + 1]
  BY HeadTailProperties, EmptySeq
<1>2. DOMAIN s = 1 .. Len(s) /\ DOMAIN t = 1 .. Len(s) - 1
  BY <1>1
<1> HIDE DEF t
<1>3. Once(t)
  <2> SUFFICES ASSUME NEW i \in DOMAIN t, NEW j \in DOMAIN t, t[i] = t[j]
               PROVE  i = j
    BY DEF Once
  <2>1. /\ i + 1 \in DOMAIN s /\ j + 1 \in DOMAIN s
        /\ s[i + 1] = s[j + 1]
    BY <1>1, <1>2
  <2> QED
    BY <1>2, <2>1 DEF Once
<1>4. \A b \in Elems(t) : b \in Elems(s) /\ b # Head(s)
  BY <1>1, <1>2 DEF Elems, Once
<1>5. ASSUME NEW i \in DOMAIN s, s[i] # Head(s) PROVE s[i] \in Elems(t)
  <2>1. i - 1 \in DOMAIN t /\ t[i - 1] = s[i]
    BY <1>1, <1>2, <1>5
  <2> QED
    BY <2>1 DEF Elems
<1>6. Elems(t) = Elems(s) \ {Head(s)}
  BY <1>4, <1>5 DEF Elems
<1>7. Head(s) \in Elems(s)
  BY <1>1, <1>2 DEF Elems
<1> QED
  BY <1>1, <1>3, <1>6, <1>7 DEF t

(* The last one is taken, as allocPktBuf does.                             *)
LEMMA PopOnce ==
  ASSUME NEW s \in Seq(Bufs), Once(s), Len(s) > 0
  PROVE  LET t == SubSeq(s, 1, Len(s) - 1)
         IN  /\ s[Len(s)] \in Bufs /\ s[Len(s)] \in Elems(s)
             /\ t \in Seq(Bufs) /\ Once(t) /\ Len(t) = Len(s) - 1
             /\ Elems(t) = Elems(s) \ {s[Len(s)]}
<1> DEFINE t == SubSeq(s, 1, Len(s) - 1)
<1>1. /\ Len(s) \in Nat /\ DOMAIN s = 1 .. Len(s)
      /\ s[Len(s)] \in Bufs
  OBVIOUS
<1>2. /\ t \in Seq(Bufs) /\ Len(t) = Len(s) - 1
      /\ \A i \in 1 .. Len(s) - 1 : t[i] = s[i]
  BY <1>1, SubSeqProperties
<1>3. DOMAIN t = 1 .. Len(s) - 1
  BY <1>2
<1> HIDE DEF t
<1>4. Once(t)
  BY <1>1, <1>2, <1>3 DEF Once
<1>5. Elems(t) = Elems(s) \ {s[Len(s)]}
  BY <1>1, <1>2, <1>3 DEF Elems, Once
<1>6. s[Len(s)] \in Elems(s)
  BY <1>1 DEF Elems
<1> QED
  BY <1>1, <1>2, <1>4, <1>5, <1>6 DEF t

(* How often a list without repetition holds a buffer.                     *)
LEMMA CountOnce ==
  ASSUME NEW s \in Seq(Bufs), Once(s), NEW b
  PROVE  Cardinality({i \in DOMAIN s : s[i] = b}) = IF b \in Elems(s) THEN 1 ELSE 0
<1> DEFINE I == {i \in DOMAIN s : s[i] = b}
<1>1. CASE b \in Elems(s)
  <2>1. PICK i \in DOMAIN s : s[i] = b
    BY <1>1 DEF Elems
  <2>2. I = {i}
    BY <2>1 DEF Once
  <2> QED
    BY <1>1, <2>2, FS_Singleton
<1>2. CASE b \notin Elems(s)
  <2>1. I = {}
    BY <1>2 DEF Elems
  <2> QED
    BY <1>2, <2>1, FS_EmptySet
<1> QED
  BY <1>1, <1>2

-----------------------------------------------------------------------------
(* Lemmas on the places.                                                   *)

(* What each place holds.                                                  *)
LEMMA HoldsEach ==
  /\ Holds(<<"free", NoBuf>>) = Elems(freePktBufs)
  /\ Holds(<<"protocol", NoBuf>>) = Elems(protocolQueue)
  /\ Holds(<<"held", NoBuf>>) = {held} \ {NoBuf}
  /\ \A c \in Cards :
       /\ Holds(<<"queue", c>>) = Elems(queue[c])
       /\ Holds(<<"mgmtQueue", c>>) = Elems(mgmtQueue[c])
       /\ Holds(<<"sending", c>>) = sending[c]
       /\ Holds(<<"receiving", c>>) = {receiving[c]} \ {NoBuf}
BY DEF Holds

(* The same in the next state.                                             *)
LEMMA HoldsEachNext ==
  /\ Holds(<<"free", NoBuf>>)' = Elems(freePktBufs')
  /\ Holds(<<"protocol", NoBuf>>)' = Elems(protocolQueue')
  /\ Holds(<<"held", NoBuf>>)' = {held'} \ {NoBuf}
  /\ \A c \in Cards :
       /\ Holds(<<"queue", c>>)' = Elems(queue'[c])
       /\ Holds(<<"mgmtQueue", c>>)' = Elems(mgmtQueue'[c])
       /\ Holds(<<"sending", c>>)' = sending'[c]
       /\ Holds(<<"receiving", c>>)' = {receiving'[c]} \ {NoBuf}
BY DEF Holds

(* The places are these.                                                   *)
LEMMA EachLocation ==
  /\ <<"free", NoBuf>> \in Locations /\ <<"protocol", NoBuf>> \in Locations
  /\ <<"held", NoBuf>> \in Locations
  /\ \A c \in Cards : /\ <<"queue", c>> \in Locations /\ <<"mgmtQueue", c>> \in Locations
                      /\ <<"sending", c>> \in Locations /\ <<"receiving", c>> \in Locations
  /\ \A l \in Locations :
       \/ l = <<"free", NoBuf>> \/ l = <<"protocol", NoBuf>> \/ l = <<"held", NoBuf>>
       \/ \E c \in Cards : \/ l = <<"queue", c>> \/ l = <<"mgmtQueue", c>>
                           \/ l = <<"sending", c>> \/ l = <<"receiving", c>>
BY DEF Locations, CardPlaces, LonePlaces

(* Places whose variables do not change hold what they held.               *)
LEMMA SameHolds ==
  ASSUME NEW L \in SUBSET Locations,
         <<"free", NoBuf>> \in L => freePktBufs' = freePktBufs,
         <<"protocol", NoBuf>> \in L => protocolQueue' = protocolQueue,
         <<"held", NoBuf>> \in L => held' = held,
         \A c \in Cards : /\ <<"queue", c>> \in L => queue'[c] = queue[c]
                          /\ <<"mgmtQueue", c>> \in L => mgmtQueue'[c] = mgmtQueue[c]
                          /\ <<"sending", c>> \in L => sending'[c] = sending[c]
                          /\ <<"receiving", c>> \in L => receiving'[c] = receiving[c]
  PROVE  \A m \in L : Holds(m)' = Holds(m)
<1> SUFFICES ASSUME NEW m \in L PROVE Holds(m)' = Holds(m)
  OBVIOUS
<1>1. CASE m = <<"free", NoBuf>>
  BY <1>1, HoldsEach, HoldsEachNext
<1>2. CASE m = <<"protocol", NoBuf>>
  BY <1>2, HoldsEach, HoldsEachNext
<1>3. CASE m = <<"held", NoBuf>>
  BY <1>3, HoldsEach, HoldsEachNext
<1>4. ASSUME NEW c \in Cards, m = <<"queue", c>> PROVE Holds(m)' = Holds(m)
  BY <1>4, HoldsEach, HoldsEachNext
<1>5. ASSUME NEW c \in Cards, m = <<"mgmtQueue", c>> PROVE Holds(m)' = Holds(m)
  BY <1>5, HoldsEach, HoldsEachNext
<1>6. ASSUME NEW c \in Cards, m = <<"sending", c>> PROVE Holds(m)' = Holds(m)
  BY <1>6, HoldsEach, HoldsEachNext
<1>7. ASSUME NEW c \in Cards, m = <<"receiving", c>> PROVE Holds(m)' = Holds(m)
  BY <1>7, HoldsEach, HoldsEachNext
<1> QED
  BY <1>1, <1>2, <1>3, <1>4, <1>5, <1>6, <1>7, EachLocation

(* A buffer goes from one place to another.                                *)
LEMMA Moved ==
  ASSUME Apart, Kept,
         NEW l \in Locations, NEW k \in Locations, l # k, NEW b, b \in Holds(l),
         Holds(l)' = Holds(l) \ {b}, Holds(k)' = Holds(k) \cup {b},
         \A m \in Locations \ {l, k} : Holds(m)' = Holds(m)
  PROVE  Apart' /\ Kept'
<1>1. \A m \in Locations \ {l} : b \notin Holds(m)
  BY DEF Apart
<1>2. \A m \in Locations : Holds(m)' = IF m = l THEN Holds(m) \ {b}
                                       ELSE IF m = k THEN Holds(m) \cup {b}
                                       ELSE Holds(m)
  OBVIOUS
<1>3. Locations' = Locations
  BY DEF Locations, Cards
<1>4. ASSUME NEW m \in Locations, NEW n \in Locations, m # n
      PROVE  Holds(m)' \cap Holds(n)' = {}
  <2>1. Holds(m) \cap Holds(n) = {}
    BY <1>4 DEF Apart
  <2> QED
    BY <1>1, <1>2, <1>4, <2>1
<1>5. ASSUME NEW a \in Bufs PROVE \E m \in Locations : a \in Holds(m)'
  <2>1. PICK m \in Locations : a \in Holds(m)
    BY DEF Kept
  <2>2. CASE a = b
    BY <1>2, <2>2
  <2>3. CASE a # b
    BY <1>2, <2>1, <2>3
  <2> QED
    BY <2>2, <2>3
<1>6. Apart'
  BY <1>3, <1>4 DEF Apart
<1>7. Kept'
  BY <1>3, <1>5 DEF Kept
<1> QED
  BY <1>6, <1>7

(* No buffer moves.                                                        *)
LEMMA NotMoved ==
  ASSUME Apart, Kept, \A m \in Locations : Holds(m)' = Holds(m)
  PROVE  Apart' /\ Kept'
<1>1. Locations' = Locations
  BY DEF Locations, Cards
<1> QED
  BY <1>1 DEF Apart, Kept

-----------------------------------------------------------------------------
(* The steps of the drivers.                                               *)

(* The reserve stands, and a buffer taken from the pool was in no other    *)
(* place.                                                                  *)
LEMMA Pop ==
  ASSUME IInv, Len(freePktBufs) > 0, freePktBufs' = Popped
  PROVE  /\ TopFree \in Bufs /\ TopFree \in Holds(<<"free", NoBuf>>)
         /\ \A l \in Locations \ {<<"free", NoBuf>>} : TopFree \notin Holds(l)
         /\ TopFree \notin mgmt
         /\ freePktBufs' \in Seq(Bufs) /\ Once(freePktBufs')
         /\ Len(freePktBufs') = Len(freePktBufs) - 1
         /\ Elems(freePktBufs') = Elems(freePktBufs) \ {TopFree}
<1>1. freePktBufs \in Seq(Bufs) /\ Once(freePktBufs)
  BY DEF IInv, TypeInv, OnceEach
<1>2. /\ TopFree \in Bufs /\ TopFree \in Elems(freePktBufs)
      /\ freePktBufs' \in Seq(Bufs) /\ Once(freePktBufs')
      /\ Len(freePktBufs') = Len(freePktBufs) - 1
      /\ Elems(freePktBufs') = Elems(freePktBufs) \ {TopFree}
  BY <1>1, PopOnce DEF TopFree, Popped
<1>3. \A l \in Locations \ {<<"free", NoBuf>>} : TopFree \notin Holds(l)
  BY <1>2, HoldsEach, EachLocation DEF IInv, Apart
<1>4. TopFree \notin mgmt
  <2>1. \A c \in Cards : TopFree \notin Elems(mgmtQueue[c]) /\ TopFree \notin sending[c]
    <3> TAKE c \in Cards
    <3>1. /\ <<"mgmtQueue", c>> \in Locations \ {<<"free", NoBuf>>}
          /\ <<"sending", c>> \in Locations \ {<<"free", NoBuf>>}
      BY EachLocation
    <3> QED
      BY <1>3, <3>1, HoldsEach
  <2> QED
    BY <2>1 DEF IInv, MgmtInv
<1> QED
  BY <1>2, <1>3, <1>4, HoldsEach

(* A buffer from any other place is given back to the pool.                *)
LEMMA Push ==
  ASSUME IInv, NEW b \in Bufs, NEW l \in Locations, l # <<"free", NoBuf>>,
         b \in Holds(l), freePktBufs' = Freed(b)
  PROVE  /\ freePktBufs' \in Seq(Bufs) /\ Once(freePktBufs')
         /\ Len(freePktBufs') = Len(freePktBufs) + 1
         /\ Elems(freePktBufs') = Elems(freePktBufs) \cup {b}
<1>1. freePktBufs \in Seq(Bufs) /\ Once(freePktBufs)
  BY DEF IInv, TypeInv, OnceEach
<1>2. b \notin Elems(freePktBufs)
  BY HoldsEach, EachLocation DEF IInv, Apart
<1> QED
  BY <1>1, <1>2, AppendOnce DEF Freed

(* Only the management stack's buffers count for the reserve.              *)
LEMMA MgmtCount ==
  ASSUME IInv
  PROVE  /\ IsFiniteSet(mgmt) /\ Cardinality(mgmt) \in Nat /\ Len(freePktBufs) \in Nat
         /\ Len(freePktBufs) + Cardinality(mgmt) >= Overhead
<1>1. mgmt \in SUBSET Bufs /\ freePktBufs \in Seq(Bufs)
  BY DEF IInv, TypeInv
<1>2. IsFiniteSet(mgmt)
  BY <1>1, FS_Subset
<1> QED
  BY <1>1, <1>2, FS_CardinalityType DEF IInv, ReserveKept

(* allocPktBuf takes a buffer only while the reserve stays.                *)
LEMMA ReceiveLookaheadIInv ==
  ASSUME IInv, NEW c \in Cards, ReceiveLookahead(c) PROVE IInv'
<1> USE DEF IInv
<1> DEFINE l == <<"free", NoBuf>>
           k == <<"receiving", c>>
           b == TopFree
<1>1. /\ receiving[c] = NoBuf /\ Len(freePktBufs) - 1 >= Overhead
      /\ freePktBufs' = Popped
      /\ receiving' = [receiving EXCEPT ![c] = b]
      /\ UNCHANGED <<queue, mgmtQueue, protocolQueue, sendsPending, sending, mgmt,
                     pc, from, held, burst>>
  BY DEF ReceiveLookahead, MayAlloc, FreePktBufPtr, mainVars
<1>2. /\ b \in Bufs /\ b \in Holds(l)
      /\ freePktBufs' \in Seq(Bufs) /\ Once(freePktBufs')
      /\ Len(freePktBufs') = Len(freePktBufs) - 1
      /\ Elems(freePktBufs') = Elems(freePktBufs) \ {b}
  BY <1>1, MgmtCount, Pop
<1> HIDE DEF b
<1>3. TypeInv'
  BY <1>1, <1>2 DEF TypeInv
<1>4. OnceEach'
  BY <1>1, <1>2 DEF OnceEach
<1>5. Apart' /\ Kept'
  <2>1. Holds(l)' = Holds(l) \ {b}
    BY <1>2, HoldsEach, HoldsEachNext
  <2>2. Holds(k)' = Holds(k) \cup {b}
    BY <1>1, <1>2, HoldsEach, HoldsEachNext DEF TypeInv
  <2>3. \A m \in Locations \ {l, k} : Holds(m)' = Holds(m)
    BY <1>1, SameHolds DEF TypeInv
  <2>4. l \in Locations /\ k \in Locations /\ l # k
    BY EachLocation
  <2> QED
    BY <1>2, <2>1, <2>2, <2>3, <2>4, Moved
<1>6. LoopInv' /\ MgmtInv' /\ SendsCounted'
  BY <1>1 DEF LoopInv, MgmtInv, SendsCounted, to
<1>7. ReserveKept'
  BY <1>1, <1>2, MgmtCount DEF ReserveKept
<1> QED
  BY <1>3, <1>4, <1>5, <1>6, <1>7

(* The driver's packet goes from its hands to the end of its queue.        *)
LEMMA ReceiveEnqueueIInv ==
  ASSUME IInv, NEW c \in Cards, ReceiveEnqueue(c) PROVE IInv'
<1> USE DEF IInv
<1> DEFINE l == <<"receiving", c>>
           k == <<"queue", c>>
           b == receiving[c]
<1>1. /\ b # NoBuf
      /\ queue' = [queue EXCEPT ![c] = Append(@, b)]
      /\ receiving' = [receiving EXCEPT ![c] = NoBuf]
      /\ UNCHANGED <<freePktBufs, mgmtQueue, protocolQueue, sendsPending, sending,
                     mgmt, pc, from, held, burst>>
  BY DEF ReceiveEnqueue, EnqueuePktBuf, mainVars
<1>2. b \in Bufs /\ b \in Holds(l) /\ queue[c] \in Seq(Bufs) /\ Once(queue[c])
  BY <1>1, HoldsEach DEF TypeInv, OnceEach
<1>3. l \in Locations /\ k \in Locations /\ l # k
  BY EachLocation
<1>4. b \notin Elems(queue[c])
  <2>1. b \notin Holds(k)
    BY <1>2, <1>3 DEF Apart
  <2> QED
    BY <2>1, HoldsEach
<1>5. /\ queue'[c] \in Seq(Bufs) /\ Once(queue'[c])
      /\ Elems(queue'[c]) = Elems(queue[c]) \cup {b} /\ queue'[c] # <<>>
      /\ \A d \in Cards \ {c} : queue'[d] = queue[d]
      /\ queue' \in [Cards -> Seq(Bufs)]
  <2>1. queue'[c] = Append(queue[c], b) /\ \A d \in Cards \ {c} : queue'[d] = queue[d]
    BY <1>1 DEF TypeInv
  <2>2. Append(queue[c], b) \in Seq(Bufs) /\ Append(queue[c], b) # <<>>
    BY <1>2, AppendProperties
  <2> QED
    BY <1>1, <1>2, <1>4, <2>1, <2>2, AppendOnce DEF TypeInv
<1>6. receiving'[c] = NoBuf /\ \A d \in Cards \ {c} : receiving'[d] = receiving[d]
  BY <1>1 DEF TypeInv
<1>7. TypeInv'
  BY <1>1, <1>5 DEF TypeInv
<1>8. OnceEach'
  BY <1>1, <1>5 DEF OnceEach
<1>9. Apart' /\ Kept'
  <2>1. Holds(l)' = Holds(l) \ {b}
    BY <1>6, HoldsEach, HoldsEachNext
  <2>2. Holds(k)' = Holds(k) \cup {b}
    BY <1>5, HoldsEach, HoldsEachNext
  <2>3. \A m \in Locations \ {l, k} : Holds(m)' = Holds(m)
    BY <1>1, <1>5, <1>6, SameHolds
  <2> HIDE DEF l, k, b
  <2> QED
    BY <1>2, <1>3, <2>1, <2>2, <2>3, Moved
<1>10. LoopInv' /\ MgmtInv' /\ SendsCounted' /\ ReserveKept'
  BY <1>1, <1>5 DEF LoopInv, MgmtInv, SendsCounted, ReserveKept, to
<1> QED
  BY <1>7, <1>8, <1>9, <1>10

(* Or back to the pool.                                                    *)
LEMMA ReceiveFailedIInv ==
  ASSUME IInv, NEW c \in Cards, ReceiveFailed(c) PROVE IInv'
<1> USE DEF IInv
<1> DEFINE l == <<"receiving", c>>
           k == <<"free", NoBuf>>
           b == receiving[c]
<1>1. /\ b # NoBuf
      /\ freePktBufs' = Freed(b)
      /\ receiving' = [receiving EXCEPT ![c] = NoBuf]
      /\ UNCHANGED <<queue, mgmtQueue, protocolQueue, sendsPending, sending,
                     mgmt, pc, from, held, burst>>
  BY DEF ReceiveFailed, mainVars
<1>2. b \in Bufs /\ b \in Holds(l)
  BY <1>1, HoldsEach DEF TypeInv
<1>3. l \in Locations /\ k \in Locations /\ l # k
  BY EachLocation
<1>4. /\ freePktBufs' \in Seq(Bufs) /\ Once(freePktBufs')
      /\ Len(freePktBufs') = Len(freePktBufs) + 1
      /\ Elems(freePktBufs') = Elems(freePktBufs) \cup {b}
  BY <1>1, <1>2, <1>3, Push
<1>5. receiving'[c] = NoBuf /\ \A d \in Cards \ {c} : receiving'[d] = receiving[d]
  BY <1>1 DEF TypeInv
<1>6. TypeInv'
  BY <1>1, <1>4 DEF TypeInv
<1>7. OnceEach'
  BY <1>1, <1>4 DEF OnceEach
<1>8. Apart' /\ Kept'
  <2>1. Holds(l)' = Holds(l) \ {b}
    BY <1>5, HoldsEach, HoldsEachNext
  <2>2. Holds(k)' = Holds(k) \cup {b}
    BY <1>4, HoldsEach, HoldsEachNext
  <2>3. \A m \in Locations \ {l, k} : Holds(m)' = Holds(m)
    BY <1>1, <1>5, SameHolds
  <2> HIDE DEF l, k, b
  <2> QED
    BY <1>2, <1>3, <2>1, <2>2, <2>3, Moved
<1>9. LoopInv' /\ MgmtInv' /\ SendsCounted'
  BY <1>1 DEF LoopInv, MgmtInv, SendsCounted, to
<1>10. ReserveKept'
  BY <1>1, <1>4, MgmtCount DEF ReserveKept
<1> QED
  BY <1>6, <1>7, <1>8, <1>9, <1>10

(* A packet that has been sent goes back to the pool.                      *)
LEMMA TransmitConfirmIInv ==
  ASSUME IInv, NEW c \in Cards, NEW b \in Bufs, TransmitConfirm(c, b) PROVE IInv'
<1> USE DEF IInv
<1> DEFINE l == <<"sending", c>>
           k == <<"free", NoBuf>>
<1>1. /\ b \in sending[c]
      /\ sending' = [sending EXCEPT ![c] = @ \ {b}]
      /\ sendsPending' = [sendsPending EXCEPT ![c] = @ - 1]
      /\ freePktBufs' = Freed(b) /\ mgmt' = mgmt \ {b}
      /\ UNCHANGED <<queue, mgmtQueue, protocolQueue, receiving, pc, from, held,
                     burst>>
  BY DEF TransmitConfirm, mainVars
<1>2. b \in Holds(l)
  BY <1>1, HoldsEach
<1>3. l \in Locations /\ k \in Locations /\ l # k
  BY EachLocation
<1>4. /\ freePktBufs' \in Seq(Bufs) /\ Once(freePktBufs')
      /\ Len(freePktBufs') = Len(freePktBufs) + 1
      /\ Elems(freePktBufs') = Elems(freePktBufs) \cup {b}
  BY <1>1, <1>2, <1>3, Push
<1>5. /\ sending'[c] = sending[c] \ {b}
      /\ \A d \in Cards \ {c} : sending'[d] = sending[d]
      /\ sendsPending'[c] = sendsPending[c] - 1
      /\ \A d \in Cards \ {c} : sendsPending'[d] = sendsPending[d]
  BY <1>1 DEF TypeInv
<1>6. /\ Cardinality(sending'[c]) = Cardinality(sending[c]) - 1
      /\ sendsPending'[c] \in Nat /\ sendsPending'[c] <= sendsPending[c]
      /\ sendsPending'[c] = Cardinality(sending'[c])
  <2>1. IsFiniteSet(sending[c])
    BY FS_Subset DEF TypeInv
  <2>2. /\ IsFiniteSet(sending'[c])
        /\ Cardinality(sending'[c]) = Cardinality(sending[c]) - 1
    BY <1>1, <1>5, <2>1, FS_RemoveElement
  <2>3. Cardinality(sending'[c]) \in Nat /\ Cardinality(sending[c]) \in Nat
    BY <2>1, <2>2, FS_CardinalityType
  <2>4. sendsPending[c] = Cardinality(sending[c])
    BY DEF SendsCounted
  <2> QED
    BY <1>5, <2>2, <2>3, <2>4
<1>7. TypeInv'
  BY <1>1, <1>4, <1>5, <1>6 DEF TypeInv
<1>8. OnceEach'
  BY <1>1, <1>4 DEF OnceEach
<1>9. Apart' /\ Kept'
  <2>1. Holds(l)' = Holds(l) \ {b}
    BY <1>5, HoldsEach, HoldsEachNext
  <2>2. Holds(k)' = Holds(k) \cup {b}
    BY <1>4, HoldsEach, HoldsEachNext
  <2>3. \A m \in Locations \ {l, k} : Holds(m)' = Holds(m)
    BY <1>1, <1>5, SameHolds
  <2> HIDE DEF l, k
  <2> QED
    BY <1>2, <1>3, <2>1, <2>2, <2>3, Moved
<1>10. ASSUME NEW d \in Cards
       PROVE  /\ sendsPending'[d] <= sendsPending[d]
              /\ sendsPending[d] \in Nat /\ sendsPending'[d] \in Nat
  <2>1. sendsPending[d] \in Nat
    BY DEF TypeInv
  <2>2. CASE d = c
    BY <1>6, <2>1, <2>2
  <2>3. CASE d # c
    BY <1>5, <2>1, <2>3
  <2> QED
    BY <2>2, <2>3
<1>11. LoopInv'
  <2>1. to \in Cards /\ to' = to
    BY <1>1 DEF to, Other, Cards
  <2> QED
    BY <1>1, <1>10, <2>1 DEF LoopInv
<1>12. MgmtInv'
  BY <1>1, <1>5 DEF MgmtInv
<1>13. SendsCounted'
  <2>1. ASSUME NEW d \in Cards
        PROVE  sendsPending'[d] = Cardinality(sending'[d]) /\ sendsPending'[d] <= MaxSends
    <3>1. sendsPending[d] = Cardinality(sending[d]) /\ sendsPending[d] <= MaxSends
      BY DEF SendsCounted
    <3>2. sendsPending'[d] <= MaxSends
      BY <1>10, <3>1
    <3> QED
      BY <1>5, <1>6, <3>1, <3>2
  <2> QED
    BY <2>1 DEF SendsCounted, Cards
<1>14. ReserveKept'
  <2>1. Cardinality(mgmt') \in Nat /\ Cardinality(mgmt') >= Cardinality(mgmt) - 1
    <3>1. /\ IsFiniteSet(mgmt \ {b})
          /\ \/ Cardinality(mgmt \ {b}) = Cardinality(mgmt)
             \/ Cardinality(mgmt \ {b}) = Cardinality(mgmt) - 1
      BY MgmtCount, FS_RemoveElement
    <3>2. Cardinality(mgmt \ {b}) \in Nat
      BY <3>1, FS_CardinalityType
    <3> QED
      BY <1>1, <3>1, <3>2, MgmtCount
  <2> QED
    BY <1>4, <2>1, MgmtCount DEF ReserveKept
<1> QED
  BY <1>7, <1>8, <1>9, <1>11, <1>12, <1>13, <1>14

-----------------------------------------------------------------------------
(* The steps of the main loop.                                             *)

(* sendPacket: a buffer goes from the place it is in to the driver or to   *)
(* the pool, and the driver had room for it.                               *)
LEMMA Sent ==
  ASSUME IInv, NEW b \in Bufs, NEW c \in Cards, NEW l \in Locations,
         l # <<"free", NoBuf>>, l # <<"sending", c>>, b \in Holds(l),
         Holds(l)' = Holds(l) \ {b},
         \A m \in Locations \ {l, <<"free", NoBuf>>, <<"sending", c>>} :
           sending' = [sending EXCEPT ![c] = sending'[c]] => Holds(m)' = Holds(m),
         sendsPending[c] < MaxSends, SendPacket(b, c)
  PROVE  /\ freePktBufs' \in Seq(Bufs) /\ Once(freePktBufs')
         /\ sending' \in [Cards -> SUBSET Bufs]
         /\ sendsPending' \in [Cards -> Nat] /\ mgmt' \in SUBSET mgmt
         /\ Apart' /\ Kept' /\ SendsCounted' /\ ReserveKept'
         /\ \A d \in Cards : sending[d] \subseteq sending'[d]
         /\ b \in mgmt' => b \in sending'[c]
<1> USE DEF IInv
<1> DEFINE f == <<"free", NoBuf>>
           s == <<"sending", c>>
<1>1. f \in Locations /\ s \in Locations /\ f # s
  BY EachLocation
<1>2. sending \in [Cards -> SUBSET Bufs] /\ sendsPending \in [Cards -> Nat]
  BY DEF TypeInv
<1>3. CASE /\ sending' = [sending EXCEPT ![c] = @ \cup {b}]
           /\ sendsPending' = [sendsPending EXCEPT ![c] = @ + 1]
           /\ UNCHANGED <<freePktBufs, mgmt>>
  <2>1. /\ sending'[c] = sending[c] \cup {b} /\ sendsPending'[c] = sendsPending[c] + 1
        /\ \A d \in Cards \ {c} : /\ sending'[d] = sending[d]
                                  /\ sendsPending'[d] = sendsPending[d]
        /\ sending' = [sending EXCEPT ![c] = sending'[c]]
        /\ sending' \in [Cards -> SUBSET Bufs] /\ sendsPending' \in [Cards -> Nat]
    BY <1>2, <1>3
  <2>2. freePktBufs' \in Seq(Bufs) /\ Once(freePktBufs') /\ mgmt' = mgmt
    BY <1>3 DEF TypeInv, OnceEach
  <2>3. Holds(s)' = Holds(s) \cup {b}
    BY <2>1, HoldsEach, HoldsEachNext
  <2>4. \A m \in Locations \ {l, s} : Holds(m)' = Holds(m)
    <3>1. Holds(f)' = Holds(f)
      BY <1>3, HoldsEach, HoldsEachNext
    <3> QED
      BY <2>1, <3>1
  <2>5. Apart' /\ Kept'
    BY <1>1, <2>3, <2>4, Moved
  <2>6. b \notin sending[c]
    <3>1. b \notin Holds(s)
      BY <1>1 DEF Apart
    <3> QED
      BY <3>1, HoldsEach
  <2>7. Cardinality(sending'[c]) = Cardinality(sending[c]) + 1
    BY <1>2, <2>1, <2>6, FS_Subset, FS_AddElement
  <2>8. SendsCounted'
    <3>1. ASSUME NEW d \in Cards
          PROVE  /\ sendsPending'[d] = Cardinality(sending'[d])
                 /\ sendsPending'[d] <= MaxSends
      <4>1. /\ sendsPending[d] = Cardinality(sending[d]) /\ sendsPending[d] <= MaxSends
            /\ sendsPending[d] \in Nat
        BY <1>2 DEF SendsCounted
      <4>2. CASE d = c
        BY <2>1, <2>7, <4>1, <4>2
      <4>3. CASE d # c
        BY <2>1, <4>1, <4>3
      <4> QED
        BY <4>2, <4>3
    <3> QED
      BY <3>1 DEF SendsCounted, Cards
  <2>9. ReserveKept'
    BY <1>3 DEF ReserveKept
  <2>10. \A d \in Cards : sending[d] \subseteq sending'[d]
    BY <2>1
  <2> QED
    BY <2>1, <2>2, <2>5, <2>8, <2>9, <2>10
<1>4. CASE /\ freePktBufs' = Freed(b)
           /\ mgmt' = mgmt \ {b}
           /\ UNCHANGED <<sending, sendsPending>>
  <2>1. /\ freePktBufs' \in Seq(Bufs) /\ Once(freePktBufs')
        /\ Len(freePktBufs') = Len(freePktBufs) + 1
        /\ Elems(freePktBufs') = Elems(freePktBufs) \cup {b}
    BY <1>4, Push
  <2>2. Holds(f)' = Holds(f) \cup {b}
    BY <2>1, HoldsEach, HoldsEachNext
  <2>3. sending' = [sending EXCEPT ![c] = sending'[c]]
    BY <1>2, <1>4
  <2>4. \A m \in Locations \ {l, f} : Holds(m)' = Holds(m)
    <3>1. Holds(s)' = Holds(s)
      BY <1>4, HoldsEach, HoldsEachNext
    <3> QED
      BY <2>3, <3>1
  <2>5. Apart' /\ Kept'
    BY <1>1, <2>2, <2>4, Moved
  <2>6. SendsCounted'
    BY <1>4 DEF SendsCounted, Cards
  <2>7. ReserveKept'
    <3>1. /\ IsFiniteSet(mgmt \ {b})
          /\ \/ Cardinality(mgmt \ {b}) = Cardinality(mgmt)
             \/ Cardinality(mgmt \ {b}) = Cardinality(mgmt) - 1
      BY MgmtCount, FS_RemoveElement
    <3>2. Cardinality(mgmt \ {b}) \in Nat
      BY <3>1, FS_CardinalityType
    <3> QED
      BY <1>4, <2>1, <3>1, <3>2, MgmtCount DEF ReserveKept
  <2> QED
    BY <1>2, <1>4, <2>1, <2>5, <2>6, <2>7
<1> QED
  BY <1>3, <1>4 DEF SendPacket

(* A step that moves no buffer and keeps what the loop has tested.         *)
LEMMA LoopStep ==
  ASSUME IInv, LoopInv', from' \in Cards,
         UNCHANGED <<freePktBufs, queue, mgmtQueue, protocolQueue, sendsPending,
                     sending, receiving, mgmt, held>>
  PROVE  IInv'
<1> USE DEF IInv
<1>1. TypeInv' /\ OnceEach' /\ MgmtInv' /\ ReserveKept' /\ SendsCounted'
  BY DEF TypeInv, OnceEach, MgmtInv, ReserveKept, SendsCounted, Cards
<1>2. \A m \in Locations : Holds(m)' = Holds(m)
  BY SameHolds
<1>3. Apart' /\ Kept'
  BY <1>2, NotMoved
<1> QED
  BY <1>1, <1>3

(* Test of the first loop.                                                 *)
LEMMA MgmtTestIInv == ASSUME IInv, MgmtTest PROVE IInv'
<1>1. to \in Cards /\ to' = to
  BY DEF IInv, TypeInv, MgmtTest, to, Other, Cards
<1>2. LoopInv'
  BY <1>1 DEF IInv, MgmtTest, LoopInv, macVars
<1>3. from' \in Cards
  BY DEF IInv, TypeInv, MgmtTest
<1> QED
  BY <1>2, <1>3, LoopStep DEF MgmtTest, macVars

(* Its body.                                                               *)
LEMMA MgmtSendIInv == ASSUME IInv, MgmtSend PROVE IInv'
<1> USE DEF IInv
<1>0. PICK c \in Cards : c = to
  BY DEF TypeInv, to, Other, Cards
<1> DEFINE l == <<"mgmtQueue", c>>
           b == Head(mgmtQueue[c])
<1>1. /\ pc = "mgmtSend" /\ pc' = "mgmt"
      /\ mgmtQueue[c] # <<>> /\ sendsPending[c] < MaxSends
      /\ SendPacket(b, c)
      /\ mgmtQueue' = [mgmtQueue EXCEPT ![c] = Tail(@)]
      /\ UNCHANGED <<queue, protocolQueue, receiving, from, held>>
  BY <1>0 DEF MgmtSend, LoopInv, DequeuePktBuf
<1>2. /\ b \in Bufs /\ b \in Elems(mgmtQueue[c])
      /\ Tail(mgmtQueue[c]) \in Seq(Bufs) /\ Once(Tail(mgmtQueue[c]))
      /\ Elems(Tail(mgmtQueue[c])) = Elems(mgmtQueue[c]) \ {b}
  BY <1>1, TailOnce DEF TypeInv, OnceEach
<1>3. /\ mgmtQueue'[c] = Tail(mgmtQueue[c])
      /\ \A d \in Cards \ {c} : mgmtQueue'[d] = mgmtQueue[d]
      /\ mgmtQueue' \in [Cards -> Seq(Bufs)]
  BY <1>1, <1>2 DEF TypeInv
<1>4. l \in Locations /\ l # <<"free", NoBuf>> /\ l # <<"sending", c>>
  BY <1>1, EachLocation
<1>5. b \in Holds(l) /\ Holds(l)' = Holds(l) \ {b}
  BY <1>1, <1>2, <1>3, HoldsEach, HoldsEachNext
<1> HIDE DEF b
<1>6. ASSUME sending' = [sending EXCEPT ![c] = sending'[c]]
      PROVE  \A m \in Locations \ {l, <<"free", NoBuf>>, <<"sending", c>>} :
               Holds(m)' = Holds(m)
  <2>1. \A d \in Cards \ {c} : sending'[d] = sending[d]
    BY <1>6 DEF TypeInv
  <2> QED
    BY <1>1, <1>3, <2>1, SameHolds
<1>7. /\ freePktBufs' \in Seq(Bufs) /\ Once(freePktBufs')
      /\ sending' \in [Cards -> SUBSET Bufs]
      /\ sendsPending' \in [Cards -> Nat] /\ mgmt' \in SUBSET mgmt
      /\ Apart' /\ Kept' /\ SendsCounted' /\ ReserveKept'
      /\ \A d \in Cards : sending[d] \subseteq sending'[d]
      /\ b \in mgmt' => b \in sending'[c]
  <2> HIDE DEF l, IInv
  <2> QED
    BY <1>1, <1>2, <1>4, <1>5, <1>6, Sent
<1>8. TypeInv'
  BY <1>1, <1>3, <1>7 DEF TypeInv
<1>9. OnceEach'
  BY <1>1, <1>2, <1>3, <1>7 DEF OnceEach
<1>10. LoopInv'
  BY <1>1 DEF LoopInv
<1>11. MgmtInv'
  <2> SUFFICES ASSUME NEW a \in mgmt'
               PROVE  \E d \in Cards : a \in Elems(mgmtQueue'[d]) \/ a \in sending'[d]
    BY DEF MgmtInv, Cards
  <2>1. PICK d \in Cards : a \in Elems(mgmtQueue[d]) \/ a \in sending[d]
    BY <1>7 DEF MgmtInv
  <2>2. CASE a = b
    BY <1>1, <1>7, <2>2
  <2>3. CASE a # b
    BY <1>2, <1>3, <1>7, <2>1, <2>3
  <2> QED
    BY <2>2, <2>3
<1> QED
  BY <1>7, <1>8, <1>9, <1>10, <1>11

(* Test of the second loop, first part.                                    *)
LEMMA OrderTestIInv == ASSUME IInv, OrderTest PROVE IInv'
<1>1. /\ pc = "order" /\ from' \in Cards
      /\ UNCHANGED <<freePktBufs, queue, mgmtQueue, protocolQueue, sendsPending,
                     sending, receiving, mgmt, held>>
  BY DEF IInv, TypeInv, OrderTest, Break, macVars, Cards
<1>2. \/ pc' \in {"mgmt", "ip"}
      \/ pc' = "room" /\ queue[from] # <<>> /\ from' = from
  BY DEF OrderTest, Break
<1>3. LoopInv'
  BY <1>1, <1>2 DEF IInv, LoopInv
<1> QED
  BY <1>1, <1>3, LoopStep

(* Second part, and the dequeue.                                           *)
LEMMA RoomTestIInv == ASSUME IInv, RoomTest PROVE IInv'
<1> USE DEF IInv
<1>1. /\ pc = "room" /\ held = NoBuf /\ queue[from] # <<>> /\ from \in Cards
      /\ UNCHANGED <<freePktBufs, mgmtQueue, protocolQueue, sendsPending, sending,
                     receiving, mgmt>>
  BY DEF RoomTest, LoopInv, macVars, TypeInv
<1>2. CASE NoRoom
  <2>1. UNCHANGED <<queue, held>> /\ pc' \in {"mgmt", "ip"} /\ from' \in Cards
    BY <1>1, <1>2 DEF RoomTest, Break, Cards
  <2>2. LoopInv'
    BY <1>1, <2>1 DEF LoopInv
  <2> QED
    BY <1>1, <2>1, <2>2, LoopStep
<1>3. CASE ~NoRoom
  <2>0. PICK c \in Cards : c = from
    BY <1>1
  <2> DEFINE l == <<"queue", c>>
             k == <<"held", NoBuf>>
             b == Head(queue[c])
  <2>1. /\ held' = b /\ queue' = [queue EXCEPT ![c] = Tail(@)]
        /\ pc' = "judge" /\ from' = from
    BY <1>3, <2>0 DEF RoomTest, DequeuePktBuf
  <2>2. /\ b \in Bufs /\ b \in Elems(queue[c])
        /\ Tail(queue[c]) \in Seq(Bufs) /\ Once(Tail(queue[c]))
        /\ Elems(Tail(queue[c])) = Elems(queue[c]) \ {b}
    BY <1>1, <2>0, TailOnce DEF TypeInv, OnceEach
  <2>3. /\ queue'[c] = Tail(queue[c])
        /\ \A d \in Cards \ {c} : queue'[d] = queue[d]
        /\ queue' \in [Cards -> Seq(Bufs)]
    BY <1>1, <2>1, <2>2 DEF TypeInv
  <2> HIDE DEF b
  <2>4. l \in Locations /\ k \in Locations /\ l # k
    BY <1>1, EachLocation
  <2>5. b \in Holds(l) /\ Holds(l)' = Holds(l) \ {b}
    BY <1>1, <2>2, <2>3, HoldsEach, HoldsEachNext
  <2>6. Holds(k)' = Holds(k) \cup {b}
    BY <1>1, <2>1, <2>2, HoldsEach, HoldsEachNext
  <2>7. \A m \in Locations \ {l, k} : Holds(m)' = Holds(m)
    BY <1>1, <2>3, SameHolds
  <2>8. Apart' /\ Kept'
    <3> HIDE DEF l, k
    <3> QED
      BY <2>4, <2>5, <2>6, <2>7, Moved
  <2>9. TypeInv'
    BY <1>1, <2>1, <2>2, <2>3 DEF TypeInv
  <2>10. OnceEach'
    BY <1>1, <2>2, <2>3 DEF OnceEach
  <2>11. LoopInv'
    <3>1. to' = to /\ to \in Cards /\ sendsPending[to] < MaxSends
      <4>1. to' = to /\ to \in Cards
        BY <1>1, <2>1 DEF to, Other, Cards
      <4>2. sendsPending[to] \in Nat
        BY <4>1 DEF TypeInv
      <4> QED
        BY <1>3, <4>1, <4>2 DEF NoRoom
    <3>2. b # NoBuf
      BY <2>2
    <3> QED
      BY <1>1, <2>1, <3>1, <3>2 DEF LoopInv
  <2>12. MgmtInv' /\ ReserveKept' /\ SendsCounted'
    BY <1>1 DEF MgmtInv, ReserveKept, SendsCounted, Cards
  <2> QED
    BY <2>8, <2>9, <2>10, <2>11, <2>12
<1> QED
  BY <1>2, <1>3

(* checkLocal said YES.                                                    *)
LEMMA JudgeLocalIInv == ASSUME IInv, JudgeLocal PROVE IInv'
<1> USE DEF IInv
<1>0. held \in Bufs
  BY DEF TypeInv, LoopInv, JudgeLocal
<1> DEFINE l == <<"held", NoBuf>>
           k == <<"protocol", NoBuf>>
<1>1. PICK b \in Bufs : b = held
  BY <1>0
<1>2. /\ protocolQueue' = Append(protocolQueue, b) /\ held' = NoBuf /\ pc' = "order"
      /\ UNCHANGED <<freePktBufs, queue, mgmtQueue, sendsPending, sending, receiving,
                     mgmt, from>>
  BY <1>1 DEF JudgeLocal, EnqueuePktBuf, macVars
<1>3. l \in Locations /\ k \in Locations /\ l # k
  BY EachLocation
<1>4. b \in Holds(l) /\ Holds(l)' = Holds(l) \ {b}
  BY <1>1, <1>2, HoldsEach, HoldsEachNext
<1>5. /\ protocolQueue' \in Seq(Bufs) /\ Once(protocolQueue')
      /\ Elems(protocolQueue') = Elems(protocolQueue) \cup {b}
  <2>1. b \notin Elems(protocolQueue)
    BY <1>3, <1>4, HoldsEach DEF Apart
  <2> QED
    BY <1>2, <2>1, AppendOnce DEF TypeInv, OnceEach
<1>6. Holds(k)' = Holds(k) \cup {b}
  BY <1>5, HoldsEach, HoldsEachNext
<1>7. \A m \in Locations \ {l, k} : Holds(m)' = Holds(m)
  BY <1>2, SameHolds
<1>8. Apart' /\ Kept'
  BY <1>3, <1>4, <1>6, <1>7, Moved
<1>9. TypeInv' /\ OnceEach'
  BY <1>2, <1>5 DEF TypeInv, OnceEach
<1>10. LoopInv' /\ MgmtInv' /\ ReserveKept' /\ SendsCounted'
  BY <1>2 DEF LoopInv, MgmtInv, ReserveKept, SendsCounted, Cards
<1> QED
  BY <1>8, <1>9, <1>10

(* checkFunction said YES.                                                 *)
LEMMA JudgeForwardIInv == ASSUME IInv, JudgeForward PROVE IInv'
<1> USE DEF IInv
<1> DEFINE l == <<"held", NoBuf>>
<1>1. /\ held \in Bufs /\ sendsPending[to] < MaxSends
      /\ SendPacket(held, to) /\ held' = NoBuf /\ pc' = "order"
      /\ UNCHANGED <<queue, mgmtQueue, protocolQueue, receiving, from>>
  BY DEF TypeInv, LoopInv, JudgeForward
<1>2. PICK b \in Bufs : b = held
  BY <1>1
<1>3. PICK c \in Cards : c = to
  BY DEF TypeInv, to, Other, Cards
<1>4. l \in Locations /\ l # <<"free", NoBuf>> /\ l # <<"sending", c>>
  BY EachLocation
<1>5. b \in Holds(l) /\ Holds(l)' = Holds(l) \ {b}
  BY <1>1, <1>2, HoldsEach, HoldsEachNext
<1>6. ASSUME sending' = [sending EXCEPT ![c] = sending'[c]]
      PROVE  \A m \in Locations \ {l, <<"free", NoBuf>>, <<"sending", c>>} :
               Holds(m)' = Holds(m)
  <2>1. \A d \in Cards \ {c} : sending'[d] = sending[d]
    BY <1>6 DEF TypeInv
  <2> QED
    BY <1>1, <2>1, SameHolds
<1>7. /\ freePktBufs' \in Seq(Bufs) /\ Once(freePktBufs')
      /\ sending' \in [Cards -> SUBSET Bufs]
      /\ sendsPending' \in [Cards -> Nat] /\ mgmt' \in SUBSET mgmt
      /\ Apart' /\ Kept' /\ SendsCounted' /\ ReserveKept'
      /\ \A d \in Cards : sending[d] \subseteq sending'[d]
  <2> HIDE DEF l, IInv
  <2> QED
    BY <1>1, <1>2, <1>3, <1>4, <1>5, <1>6, Sent
<1>8. TypeInv' /\ OnceEach'
  BY <1>1, <1>7 DEF TypeInv, OnceEach
<1>9. LoopInv'
  BY <1>1 DEF LoopInv
<1>10. MgmtInv'
  BY <1>1, <1>7 DEF MgmtInv, Cards
<1> QED
  BY <1>7, <1>8, <1>9, <1>10

(* The packet the main loop has in hand is given back to the pool: the     *)
(* filter said NO, or the packet has been handled.                         *)
LEMMA FreeHeld ==
  ASSUME IInv, held # NoBuf, freePktBufs' = Freed(held), held' = NoBuf,
         pc' \notin {"mgmtSend", "room", "judge", "handle"}, from' = from,
         UNCHANGED <<queue, mgmtQueue, protocolQueue, sendsPending, sending,
                     receiving, mgmt>>
  PROVE  IInv'
<1> USE DEF IInv
<1> DEFINE l == <<"held", NoBuf>>
           k == <<"free", NoBuf>>
<1>1. PICK b \in Bufs : b = held
  BY DEF TypeInv
<1>2. l \in Locations /\ k \in Locations /\ l # k
  BY EachLocation
<1>3. b \in Holds(l) /\ Holds(l)' = Holds(l) \ {b}
  BY <1>1, HoldsEach, HoldsEachNext
<1>4. /\ freePktBufs' \in Seq(Bufs) /\ Once(freePktBufs')
      /\ Len(freePktBufs') = Len(freePktBufs) + 1
      /\ Elems(freePktBufs') = Elems(freePktBufs) \cup {b}
  BY <1>1, <1>2, <1>3, Push
<1>5. Holds(k)' = Holds(k) \cup {b}
  BY <1>4, HoldsEach, HoldsEachNext
<1>6. \A m \in Locations \ {l, k} : Holds(m)' = Holds(m)
  BY SameHolds
<1>7. Apart' /\ Kept'
  BY <1>2, <1>3, <1>5, <1>6, Moved
<1>8. TypeInv' /\ OnceEach'
  BY <1>4 DEF TypeInv, OnceEach
<1>9. LoopInv' /\ MgmtInv' /\ SendsCounted'
  BY DEF LoopInv, MgmtInv, SendsCounted, Cards
<1>10. ReserveKept'
  BY <1>4, MgmtCount DEF ReserveKept
<1> QED
  BY <1>7, <1>8, <1>9, <1>10

(* It said NO.                                                             *)
LEMMA JudgeFilterIInv == ASSUME IInv, JudgeFilter PROVE IInv'
<1>1. held # NoBuf
  BY DEF IInv, LoopInv, JudgeFilter
<1> QED
  BY <1>1, FreeHeld DEF JudgeFilter, macVars

(* The packet has been handled.                                            *)
LEMMA CheckIpEndIInv == ASSUME IInv, CheckIpEnd PROVE IInv'
<1>1. held # NoBuf
  BY DEF IInv, LoopInv, CheckIpEnd
<1> QED
  BY <1>1, FreeHeld DEF CheckIpEnd, macVars

(* checkIp takes the first packet for this host.                           *)
LEMMA CheckIpIInv == ASSUME IInv, CheckIp PROVE IInv'
<1> USE DEF IInv
<1> DEFINE l == <<"protocol", NoBuf>>
           k == <<"held", NoBuf>>
<1>1. /\ held = NoBuf /\ held' = Head(protocolQueue)
      /\ protocolQueue' = Tail(protocolQueue) /\ pc' = "handle"
      /\ UNCHANGED <<freePktBufs, queue, mgmtQueue, sendsPending, sending, receiving,
                     mgmt, from>>
  BY DEF LoopInv, CheckIp, DequeuePktBuf, macVars
<1>2. /\ Head(protocolQueue) \in Bufs /\ Head(protocolQueue) \in Elems(protocolQueue)
      /\ protocolQueue' \in Seq(Bufs) /\ Once(protocolQueue')
      /\ Elems(protocolQueue') = Elems(protocolQueue) \ {Head(protocolQueue)}
  BY <1>1, TailOnce DEF CheckIp, TypeInv, OnceEach
<1>3. PICK b \in Bufs : b = Head(protocolQueue)
  BY <1>2
<1>4. l \in Locations /\ k \in Locations /\ l # k
  BY EachLocation
<1>5. b \in Holds(l) /\ Holds(l)' = Holds(l) \ {b}
  BY <1>2, <1>3, HoldsEach, HoldsEachNext
<1>6. Holds(k)' = Holds(k) \cup {b}
  BY <1>1, <1>3, HoldsEach, HoldsEachNext
<1>7. \A m \in Locations \ {l, k} : Holds(m)' = Holds(m)
  BY <1>1, SameHolds
<1>8. Apart' /\ Kept'
  BY <1>4, <1>5, <1>6, <1>7, Moved
<1>9. TypeInv' /\ OnceEach'
  BY <1>1, <1>2 DEF TypeInv, OnceEach
<1>10. LoopInv' /\ MgmtInv' /\ ReserveKept' /\ SendsCounted'
  BY <1>1, <1>3 DEF LoopInv, MgmtInv, ReserveKept, SendsCounted, Cards
<1> QED
  BY <1>8, <1>9, <1>10

(* There is none.                                                          *)
LEMMA CheckIpEmptyIInv == ASSUME IInv, CheckIpEmpty PROVE IInv'
<1>1. LoopInv' /\ from' \in Cards
  BY DEF IInv, TypeInv, LoopInv, CheckIpEmpty
<1> QED
  BY <1>1, LoopStep DEF CheckIpEmpty, macVars

(* The main loop goes round.                                               *)
LEMMA CheckMiscIInv == ASSUME IInv, CheckMisc PROVE IInv'
<1>1. LoopInv' /\ from' \in Cards
  BY DEF IInv, LoopInv, CheckMisc, Cards
<1> QED
  BY <1>1, LoopStep DEF CheckMisc, macVars

(* allocPktBufMgmt takes from the reserve what it counts in mgmt.          *)
LEMMA SendvRawMacIInv ==
  ASSUME IInv, NEW c \in Cards, SendvRawMac(c) PROVE IInv'
<1> USE DEF IInv
<1> DEFINE l == <<"free", NoBuf>>
           k == <<"mgmtQueue", c>>
<1>1. /\ Len(freePktBufs) > 0 /\ freePktBufs' = Popped
      /\ mgmtQueue' = [mgmtQueue EXCEPT ![c] = Append(@, TopFree)]
      /\ mgmt' = mgmt \cup {TopFree}
      /\ pc # "mgmtSend" /\ pc' = pc
      /\ UNCHANGED <<queue, protocolQueue, sendsPending, sending, receiving, from,
                     held>>
  BY MgmtCount DEF SendvRawMac, MayAllocMgmt, FreePktBufPtr, EnqueuePktBuf, macVars
<1>2. /\ TopFree \in Bufs /\ TopFree \in Holds(l)
      /\ \A m \in Locations \ {l} : TopFree \notin Holds(m)
      /\ TopFree \notin mgmt
      /\ freePktBufs' \in Seq(Bufs) /\ Once(freePktBufs')
      /\ Len(freePktBufs') = Len(freePktBufs) - 1
      /\ Elems(freePktBufs') = Elems(freePktBufs) \ {TopFree}
  BY <1>1, Pop
<1>3. PICK b \in Bufs : b = TopFree
  BY <1>2
<1>4. l \in Locations /\ k \in Locations /\ l # k
  BY EachLocation
<1>5. b \in Holds(l) /\ Holds(l)' = Holds(l) \ {b}
  BY <1>2, <1>3, HoldsEach, HoldsEachNext
<1>6. b \notin Elems(mgmtQueue[c])
  <2>1. b \notin Holds(k)
    BY <1>2, <1>3, <1>4
  <2> QED
    BY <2>1, HoldsEach
<1>7. /\ Append(mgmtQueue[c], b) \in Seq(Bufs) /\ Once(Append(mgmtQueue[c], b))
      /\ Elems(Append(mgmtQueue[c], b)) = Elems(mgmtQueue[c]) \cup {b}
  BY <1>6, AppendOnce DEF TypeInv, OnceEach
<1>8. /\ mgmtQueue'[c] = Append(mgmtQueue[c], b)
      /\ \A d \in Cards \ {c} : mgmtQueue'[d] = mgmtQueue[d]
      /\ mgmtQueue' \in [Cards -> Seq(Bufs)]
  BY <1>1, <1>3, <1>7 DEF TypeInv
<1>9. Holds(k)' = Holds(k) \cup {b}
  BY <1>7, <1>8, HoldsEach, HoldsEachNext
<1>10. \A m \in Locations \ {l, k} : Holds(m)' = Holds(m)
  BY <1>1, <1>8, SameHolds
<1>11. Apart' /\ Kept'
  <2> HIDE DEF l, k
  <2> QED
    BY <1>4, <1>5, <1>9, <1>10, Moved
<1>12. TypeInv' /\ OnceEach'
  BY <1>1, <1>2, <1>7, <1>8 DEF TypeInv, OnceEach
<1>13. LoopInv' /\ SendsCounted'
  BY <1>1 DEF LoopInv, SendsCounted, Cards, to
<1>14. MgmtInv'
  <2> SUFFICES ASSUME NEW a \in mgmt'
               PROVE  \E d \in Cards : a \in Elems(mgmtQueue'[d]) \/ a \in sending'[d]
    BY DEF MgmtInv, Cards
  <2>1. CASE a = b
    BY <1>7, <1>8, <2>1
  <2>2. CASE a # b
    <3>1. a \in mgmt
      BY <1>1, <1>3, <2>2
    <3>2. PICK d \in Cards : a \in Elems(mgmtQueue[d]) \/ a \in sending[d]
      BY <3>1 DEF MgmtInv
    <3> QED
      BY <1>1, <1>7, <1>8, <3>2
  <2> QED
    BY <2>1, <2>2
<1>15. ReserveKept'
  <2>1. Cardinality(mgmt') = Cardinality(mgmt) + 1
    BY <1>1, <1>2, MgmtCount, FS_AddElement
  <2> QED
    BY <1>2, <2>1, MgmtCount DEF ReserveKept
<1> QED
  BY <1>11, <1>12, <1>13, <1>14, <1>15

-----------------------------------------------------------------------------
(* The theorems.                                                           *)

(* initFreePktBufs puts every buffer into the pool once.                   *)
LEMMA InitIInv == Init => IInv
<1> SUFFICES ASSUME Init PROVE IInv
  OBVIOUS
<1> DEFINE N == Cardinality(Bufs)
<1>1. N \in Nat
  BY FS_CardinalityType
<1>2. /\ freePktBufs \in [1 .. N -> Bufs] /\ DOMAIN freePktBufs = 1 .. N
      /\ Once(freePktBufs)
  BY DEF Init, Once
<1>3. freePktBufs \in Seq(Bufs) /\ Len(freePktBufs) = N
  BY <1>1, <1>2
<1>4. Elems(freePktBufs) = Bufs
  <2>1. /\ IsFiniteSet(1 .. N) /\ Cardinality(1 .. N) = N
    BY <1>1, FS_Interval
  <2>2. freePktBufs \in Injection(1 .. N, Bufs)
    BY <1>2 DEF Injection, IsInjective, Once
  <2>3. freePktBufs \in Surjection(1 .. N, Bufs)
    BY <2>1, <2>2, FS_Injection
  <2> QED
    BY <1>2, <2>3 DEF Surjection, Elems
<1>5. /\ \A c \in Cards : queue[c] = <<>> /\ mgmtQueue[c] = <<>> /\ sending[c] = {}
                          /\ receiving[c] = NoBuf /\ sendsPending[c] = 0
      /\ protocolQueue = <<>> /\ held = NoBuf /\ mgmt = {} /\ pc = "mgmt"
      /\ from = Internet
  BY DEF Init
<1>6. TypeInv
  BY <1>3 DEF Init, TypeInv, Cards
<1>7. Once(<<>>) /\ Elems(<<>>) = {}
  BY DEF Once, Elems
<1>8. OnceEach
  BY <1>2, <1>5, <1>7 DEF OnceEach
<1>9. /\ Holds(<<"free", NoBuf>>) = Bufs
      /\ \A l \in Locations \ {<<"free", NoBuf>>} : Holds(l) = {}
  BY <1>4, <1>5, <1>7, HoldsEach, EachLocation
<1>10. Apart /\ Kept
  BY <1>9, EachLocation DEF Apart, Kept
<1>11. Cardinality({}) = 0
  BY FS_EmptySet
<1>12. LoopInv /\ MgmtInv
  BY <1>5 DEF LoopInv, MgmtInv
<1>13. SendsCounted
  <2>1. ASSUME NEW c \in Cards
        PROVE  sendsPending[c] = Cardinality(sending[c]) /\ sendsPending[c] <= MaxSends
    <3>1. sending[c] = {} /\ sendsPending[c] = 0
      BY <1>5
    <3> QED
      BY <1>11, <3>1
  <2> QED
    BY <2>1 DEF SendsCounted
<1>14. ReserveKept
  BY <1>1, <1>3, <1>5, <1>11 DEF ReserveKept
<1> QED
  BY <1>6, <1>8, <1>10, <1>12, <1>13, <1>14 DEF IInv

(* A step that changes nothing.                                            *)
LEMMA StutterIInv == ASSUME IInv, UNCHANGED vars PROVE IInv'
<1>1. LoopInv' /\ from' \in Cards
  BY DEF IInv, TypeInv, LoopInv, vars, mainVars, to
<1> QED
  BY <1>1, LoopStep DEF vars, mainVars

(* The inductive invariant holds whatever the interrupts do between the    *)
(* statements of the main loop.                                            *)
THEOREM IInvAlways == Spec => []IInv
<1>1. IInv /\ [Next]_vars => IInv'
  <2> SUFFICES ASSUME IInv, [Next]_vars PROVE IInv'
    OBVIOUS
  <2>1. ASSUME NEW c \in Cards, ReceiveLookahead(c) PROVE IInv'
    BY <2>1, ReceiveLookaheadIInv
  <2>2. ASSUME NEW c \in Cards, ReceiveEnqueue(c) PROVE IInv'
    BY <2>2, ReceiveEnqueueIInv
  <2>3. ASSUME NEW c \in Cards, ReceiveFailed(c) PROVE IInv'
    BY <2>3, ReceiveFailedIInv
  <2>4. ASSUME NEW c \in Cards, NEW b \in Bufs, TransmitConfirm(c, b) PROVE IInv'
    BY <2>4, TransmitConfirmIInv
  <2>5. CASE Interrupt
    BY <2>1, <2>2, <2>3, <2>4, <2>5 DEF Interrupt
  <2>6. CASE MainLoop
    BY <2>6, MgmtTestIInv, MgmtSendIInv, OrderTestIInv, RoomTestIInv,
       JudgeLocalIInv, JudgeForwardIInv, JudgeFilterIInv, CheckIpEmptyIInv,
       CheckIpIInv, CheckIpEndIInv, CheckMiscIInv DEF MainLoop
  <2>7. ASSUME NEW c \in Cards, SendvRawMac(c) PROVE IInv'
    BY <2>7, SendvRawMacIInv
  <2>8. CASE UNCHANGED vars
    BY <2>8, StutterIInv
  <2> QED
    BY <2>5, <2>6, <2>7, <2>8 DEF Next
<1> QED
  BY <1>1, InitIInv, PTL DEF Spec

(* One holding place: a buffer in it is counted once, in all others not.   *)
LEMMA OnePlace == IInv => BuffersConserved
<1> SUFFICES ASSUME IInv, NEW b \in Bufs PROVE Places(b) = 1
  BY DEF BuffersConserved
<1> USE DEF IInv
<1> DEFINE In(s) == Cardinality({i \in DOMAIN s : s[i] = b})
           If(p) == IF p THEN 1 ELSE 0
           At(c) == In(queue[c]) + In(mgmtQueue[c]) + If(b \in sending[c])
                      + If(receiving[c] = b)
           H(l)  == If(b \in Holds(l))
<1> HIDE DEF If
<1>1. /\ In(freePktBufs) = H(<<"free", NoBuf>>)
      /\ In(protocolQueue) = H(<<"protocol", NoBuf>>)
      /\ If(held = b) = H(<<"held", NoBuf>>)
  <2>1. ASSUME NEW s \in Seq(Bufs), Once(s) PROVE In(s) = If(b \in Elems(s))
    BY <2>1, CountOnce DEF If
  <2>2. /\ freePktBufs \in Seq(Bufs) /\ Once(freePktBufs)
        /\ protocolQueue \in Seq(Bufs) /\ Once(protocolQueue)
    BY DEF TypeInv, OnceEach
  <2>3. held = b <=> b \in Holds(<<"held", NoBuf>>)
    BY HoldsEach
  <2> HIDE DEF In
  <2> QED
    BY <2>1, <2>2, <2>3, HoldsEach
<1>2. ASSUME NEW c \in Cards
      PROVE  At(c) = H(<<"queue", c>>) + H(<<"mgmtQueue", c>>) + H(<<"sending", c>>)
                       + H(<<"receiving", c>>)
  <2>1. ASSUME NEW s \in Seq(Bufs), Once(s) PROVE In(s) = If(b \in Elems(s))
    BY <2>1, CountOnce DEF If
  <2>2. /\ queue[c] \in Seq(Bufs) /\ Once(queue[c])
        /\ mgmtQueue[c] \in Seq(Bufs) /\ Once(mgmtQueue[c])
    BY DEF TypeInv, OnceEach
  <2>3. /\ receiving[c] = b <=> b \in Holds(<<"receiving", c>>)
        /\ b \in sending[c] <=> b \in Holds(<<"sending", c>>)
    BY HoldsEach
  <2> HIDE DEF In
  <2>4. In(queue[c]) = H(<<"queue", c>>) /\ In(mgmtQueue[c]) = H(<<"mgmtQueue", c>>)
    BY <2>1, <2>2, HoldsEach
  <2>5. /\ If(b \in sending[c]) = H(<<"sending", c>>)
        /\ If(receiving[c] = b) = H(<<"receiving", c>>)
    BY <2>3 DEF If
  <2> QED
    BY <2>4, <2>5
<1>3. Places(b) = In(freePktBufs) + In(protocolQueue) + At(Internet) + At(Campus)
                    + If(held = b)
  BY DEF Places, If
<1>4. PICK l \in Locations : b \in Holds(l)
  BY DEF Kept
<1>5. H(l) = 1 /\ \A m \in Locations \ {l} : H(m) = 0
  BY <1>4 DEF Apart, If
<1> HIDE DEF H, In, At
<1>6. Internet \in Cards /\ Campus \in Cards /\ Internet # Campus
  BY DEF Cards
<1>7. ASSUME NEW c \in Cards, \A p \in CardPlaces : l # <<p, c>> PROVE At(c) = 0
  <2>1. ASSUME NEW p \in CardPlaces PROVE H(<<p, c>>) = 0
    BY <1>5, <1>7, <2>1 DEF Locations
  <2>2. /\ H(<<"queue", c>>) = 0 /\ H(<<"mgmtQueue", c>>) = 0
        /\ H(<<"sending", c>>) = 0 /\ H(<<"receiving", c>>) = 0
    BY <2>1 DEF CardPlaces
  <2> QED
    BY <1>2, <2>2
<1>8. CASE l \in LonePlaces \X {NoBuf}
  <2>1. At(Internet) = 0 /\ At(Campus) = 0
    BY <1>6, <1>7, <1>8 DEF LonePlaces, CardPlaces
  <2>2. ASSUME NEW p \in LonePlaces PROVE H(<<p, NoBuf>>) = IF l = <<p, NoBuf>> THEN 1 ELSE 0
    BY <1>5, <2>2 DEF Locations
  <2>3. PICK p \in LonePlaces : l = <<p, NoBuf>>
    BY <1>8
  <2> QED
    BY <1>1, <1>3, <2>1, <2>2, <2>3 DEF LonePlaces
<1>9. ASSUME NEW c \in Cards, NEW p \in CardPlaces, l = <<p, c>> PROVE Places(b) = 1
  <2>1. ASSUME NEW q \in LonePlaces PROVE H(<<q, NoBuf>>) = 0
    BY <1>5, <1>9, <2>1 DEF Locations, LonePlaces, CardPlaces
  <2>2. In(freePktBufs) = 0 /\ In(protocolQueue) = 0 /\ If(held = b) = 0
    BY <1>1, <2>1 DEF LonePlaces
  <2>3. ASSUME NEW q \in CardPlaces PROVE H(<<q, c>>) = IF q = p THEN 1 ELSE 0
    BY <1>5, <1>9, <2>3 DEF Locations
  <2>4. At(c) = 1
    BY <1>2, <2>3 DEF CardPlaces
  <2>5. ASSUME NEW d \in Cards, d # c PROVE At(d) = 0
    BY <1>7, <1>9, <2>5
  <2> QED
    BY <1>3, <1>6, <2>2, <2>4, <2>5 DEF Cards
<1> QED
  BY <1>8, <1>9 DEF Locations

(* Whatever the interrupts do between the statements of checkCard, no      *)
(* buffer is lost, freed twice or on two queues.                           *)
THEOREM BuffersAlwaysConserved == Spec => []BuffersConserved
BY OnePlace, IInvAlways, PTL

(* allocPktBuf leaves BUFFER_POOL_OVERHEAD buffers to the management       *)
(* stack, however many packets have come in and wait.                      *)
THEOREM ReserveAlwaysKept == Spec => []ReserveKept
<1>1. IInv => ReserveKept
  BY DEF IInv
<1> QED
  BY <1>1, IInvAlways, PTL

(* checkCard never gives a driver more packets than it takes, although it  *)
(* tests sendsPending some statements before it sends.                     *)
THEOREM SendsAlwaysCounted == Spec => []SendsCounted
<1>1. IInv => SendsCounted
  BY DEF IInv
<1> QED
  BY <1>1, IInvAlways, PTL
=============================================================================
