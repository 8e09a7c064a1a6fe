--------------------------- MODULE ArpTableProofs ---------------------------
(***************************************************************************)
(* Theorems about ArpTable, for every size of the table and every set of   *)
(* addresses, packets and timeouts.                                        *)
(***************************************************************************)
EXTENDS ArpTable, FiniteSetTheorems, WellFoundedInduction, TLAPS

USE SizeAssumption, RetriesAssumption, TimeoutAssumption, StationAssumption

(* The order of the natural numbers is well founded (the library's theorem *)
(* names the relation by an operator; here it is any set of pairs).        *)
LEMMA LessRelation ==
  \E R : IsWellFoundedOn(R, Nat) /\ \A x, y \in Nat : y < x => <<y, x>> \in R
<1>1. \A x, y \in Nat : y < x => <<y, x>> \in OpToRel(<, Nat)
  BY DEF OpToRel
<1> QED
  BY <1>1, NatLessThanWellFounded, Zenon

(* A set of entries that is not empty has a first one.                     *)
LEMMA FirstEntry ==
  ASSUME NEW S \in SUBSET Entries, S # {}
  PROVE  \E x \in S : \A y \in S : x <= y
<1>0. S \in SUBSET Nat
  BY DEF Entries
<1>1. PICK R : IsWellFoundedOn(R, Nat) /\ \A x, y \in Nat : y < x => <<y, x>> \in R
  BY LessRelation
<1>2. PICK x \in S : \A y \in S : ~ (<<y, x>> \in R)
  BY <1>0, <1>1, WFMin
<1>3. ASSUME NEW y \in S PROVE x <= y
  <2>1. x \in Nat /\ y \in Nat /\ ~(y < x)
    BY <1>0, <1>1, <1>2
  <2> QED
    BY <2>1
<1> QED
  BY <1>2, <1>3

(* arpLookupIp returns a used entry with the address it looks for.         *)
LEMMA LookupFinds ==
  ASSUME NEW addr, Matching(addr) # {}
  PROVE  /\ ArpLookupIp(addr) \in Entries
         /\ arpTable[ArpLookupIp(addr)].state # "free"
         /\ arpTable[ArpLookupIp(addr)].ipAddress = addr
<1>1. Matching(addr) \in SUBSET Entries
  BY DEF Matching, Used
<1>2. \E i \in Matching(addr) : \A j \in Matching(addr) : i <= j
  BY <1>1, FirstEntry
<1>3. ArpLookupIp(addr) \in Matching(addr)
  BY <1>2 DEF ArpLookupIp
<1> QED
  BY <1>3 DEF Matching, Used

(* arpAdd returns a free entry.                                            *)
LEMMA AddFinds ==
  ASSUME Unused # {}
  PROVE  ArpAdd \in Entries /\ arpTable[ArpAdd].state = "free"
<1>1. Unused \in SUBSET Entries
  BY DEF Unused
<1>2. \E i \in Unused : \A j \in Unused : i <= j
  BY <1>1, FirstEntry
<1>3. ArpAdd \in Unused
  BY <1>2 DEF ArpAdd
<1> QED
  BY <1>3 DEF Unused, Used

-----------------------------------------------------------------------------
(* The invariant the proofs are built on.  Beyond the type: a used entry   *)
(* has time left, so that no time goes below zero, and the packets of the  *)
(* pending entries differ, which is what the count in PacketsOwned says.   *)
UsedHasTime ==
  \A i \in Entries : arpTable[i].state # "free" => arpTable[i].timeToLive >= 1
HeapIsPending == heap = {arpTable[i].pendingPacket : i \in Pending}
OwnPackets ==
  \A i, j \in Pending :
    arpTable[i].pendingPacket = arpTable[j].pendingPacket => i = j

IInv == TypeOK /\ UsedHasTime /\ HeapIsPending /\ OwnPackets /\ OnePending

(* What an entry may be, as in TypeOK.                                     *)
EntryAddresses == Addresses \cup {SwapAddr(a) : a \in Addresses} \cup {NoAddress}
Entry == [state : {"free", "valid", "pending"},
          ipAddress : EntryAddresses,
          hardwareAddress : Hardware \cup {NoHardware},
          timeToLive : 0 .. EntryTimeout,
          retries : 0 .. ArpRetries + 1,
          pendingPacket : Packets \cup {NoPacket}]

(* The type invariant in these terms.                                      *)
LEMMA TableType == TypeOK <=> /\ arpTable \in [Entries -> Entry]
                              /\ heap \in SUBSET Packets
                              /\ exited \in BOOLEAN
BY DEF TypeOK, Entry, EntryAddresses

(* The addresses an entry is given, in either byte order.                  *)
LEMMA EntryAddressesHold ==
  /\ Addresses \subseteq EntryAddresses /\ NoAddress \in EntryAddresses
  /\ \A a \in Addresses : SwapAddr(a) \in EntryAddresses
BY DEF EntryAddresses

(* An entry that waits for the answer to a question is an entry.           *)
Asked(e, a, p) == [e EXCEPT !.state = "pending", !.ipAddress = a,
                            !.timeToLive = RetryTimeout, !.pendingPacket = p]

(* It is an entry, in the state and with the packet it was given.          *)
LEMMA AskedEntry ==
  ASSUME NEW e \in Entry, NEW a \in EntryAddresses, NEW p \in Packets
  PROVE  /\ Asked(e, a, p) \in Entry
         /\ Asked(e, a, p).state = "pending" /\ Asked(e, a, p).ipAddress = a
         /\ Asked(e, a, p).timeToLive >= 1 /\ Asked(e, a, p).pendingPacket = p
<1> DEFINE f1 == [e  EXCEPT !.state = "pending"]
           f2 == [f1 EXCEPT !.ipAddress = a]
           f3 == [f2 EXCEPT !.timeToLive = RetryTimeout]
           f4 == [f3 EXCEPT !.pendingPacket = p]
<1>1. f1 \in Entry /\ f1.state = "pending"
  BY DEF Entry
<1>2. f2 \in Entry /\ f2.state = "pending" /\ f2.ipAddress = a
  <2> HIDE DEF f1
  <2> QED
    BY <1>1 DEF Entry
<1>3. f3 \in Entry /\ f3.state = "pending" /\ f3.ipAddress = a
      /\ f3.timeToLive = RetryTimeout
  <2> HIDE DEF f2
  <2> QED
    BY <1>2 DEF Entry
<1>4. f4 \in Entry /\ f4.state = "pending" /\ f4.ipAddress = a
      /\ f4.timeToLive = RetryTimeout /\ f4.pendingPacket = p
  <2> HIDE DEF f3
  <2> QED
    BY <1>3 DEF Entry
<1>5. Asked(e, a, p) = f4 /\ RetryTimeout >= 1
  BY DEF Asked
<1> HIDE DEF f4
<1> QED
  BY <1>4, <1>5

(* The empty table has the invariant.                                      *)
LEMMA InitIInv == Init => IInv
<1> SUFFICES ASSUME Init PROVE IInv
  OBVIOUS
<1>1. Pending = {}
  BY DEF Init, Pending
<1>2. TypeOK
  <2>1. [state |-> "free", ipAddress |-> NoAddress, hardwareAddress |-> NoHardware,
         timeToLive |-> 0, retries |-> 0, pendingPacket |-> NoPacket] \in Entry
    BY EntryAddressesHold DEF Entry
  <2> QED
    BY <2>1, TableType DEF Init
<1> QED
  BY <1>1, <1>2 DEF Init, IInv, UsedHasTime, HeapIsPending, OwnPackets,
                    OnePending

(* A packet that is pending is allocated, and of no other entry.           *)
LEMMA PendingPacket ==
  ASSUME IInv, NEW i \in Pending
  PROVE  /\ arpTable[i].pendingPacket \in heap
         /\ arpTable[i].pendingPacket \in Packets
         /\ \A j \in Pending \ {i} :
              /\ arpTable[j].pendingPacket \in heap \ {arpTable[i].pendingPacket}
              /\ arpTable[j].ipAddress # arpTable[i].ipAddress
BY DEF IInv, TypeOK, HeapIsPending, OwnPackets, OnePending, Pending

(* What an entry holds when the pending one has left the table or got a    *)
(* packet of its own: the cases below have this in common.                 *)
LEMMA PacketIn ==
  ASSUME IInv, NEW i \in Entries, NEW p \in Packets, NEW e \in Entry,
         e.state = "pending", e.pendingPacket = p, e.timeToLive >= 1,
         IF i \in Pending THEN e.ipAddress = arpTable[i].ipAddress
                          ELSE \A j \in Pending : arpTable[j].ipAddress # e.ipAddress,
         NEW left, left = IF i \in Pending THEN heap \ {arpTable[i].pendingPacket}
                                       ELSE heap,
         p \notin left,
         arpTable' = [arpTable EXCEPT ![i] = e],
         heap' = left \cup {p}, UNCHANGED exited
  PROVE  IInv'
<1> USE DEF IInv
<1>1. Pending' = Pending \cup {i}
  BY DEF Pending, TypeOK
<1>2. \A j \in Entries : arpTable'[j] = IF j = i THEN e ELSE arpTable[j]
  BY DEF TypeOK
<1>3. left = {arpTable[j].pendingPacket : j \in Pending \ {i}}
  BY PendingPacket DEF HeapIsPending
<1>4. TypeOK'
  <2>1. /\ arpTable' \in [Entries -> Entry]
        /\ heap' \in SUBSET Packets
        /\ exited' \in BOOLEAN
    BY TableType
  <2> QED
    BY <2>1 DEF TypeOK, Entry, EntryAddresses
<1>5. UsedHasTime'
  BY <1>2 DEF UsedHasTime
<1>6. HeapIsPending'
  <2>1. heap' = {arpTable'[j].pendingPacket : j \in Pending \ {i}} \cup {p}
    BY <1>2, <1>3 DEF Pending
  <2>2. arpTable'[i].pendingPacket = p
    BY <1>2
  <2> QED
    BY <1>1, <2>1, <2>2 DEF HeapIsPending
<1>7. OwnPackets'
  BY <1>1, <1>2, <1>3 DEF OwnPackets, Pending
<1>8. OnePending'
  BY <1>1, <1>2, PendingPacket DEF OnePending, Pending
<1> QED
  BY <1>4, <1>5, <1>6, <1>7, <1>8

(* An entry that is not pending any more has given its packet back.        *)
LEMMA PacketOut ==
  ASSUME IInv, NEW i \in Entries, NEW e \in Entry,
         e.state = "valid", e.timeToLive >= 1,
         arpTable' = [arpTable EXCEPT ![i] = e],
         heap' = IF i \in Pending THEN heap \ {arpTable[i].pendingPacket} ELSE heap,
         exited' \in BOOLEAN
  PROVE  IInv'
<1> USE DEF IInv
<1>1. Pending' = Pending \ {i}
  BY DEF Pending, TypeOK
<1>2. \A j \in Entries : arpTable'[j] = IF j = i THEN e ELSE arpTable[j]
  BY DEF TypeOK
<1>3. heap' = {arpTable[j].pendingPacket : j \in Pending \ {i}}
  BY PendingPacket DEF HeapIsPending
<1>4. TypeOK'
  <2>1. /\ arpTable' \in [Entries -> Entry]
        /\ heap' \in SUBSET Packets
        /\ exited' \in BOOLEAN
    BY TableType
  <2> QED
    BY <2>1 DEF TypeOK, Entry, EntryAddresses
<1>5. UsedHasTime'
  BY <1>2 DEF UsedHasTime
<1>6. HeapIsPending'
  <2>1. heap' = {arpTable'[j].pendingPacket : j \in Pending \ {i}}
    BY <1>2, <1>3 DEF Pending
  <2> QED
    BY <1>1, <2>1 DEF HeapIsPending
<1>7. OwnPackets' /\ OnePending'
  BY <1>1, <1>2 DEF OwnPackets, OnePending, Pending
<1> QED
  BY <1>4, <1>5, <1>6, <1>7

(* sendvIp keeps the invariant.                                            *)
LEMMA SendIInv ==
  ASSUME IInv, NEW dest \in Addresses, SendvIp(dest)
  PROVE  IInv'
<1> USE DEF IInv
<1> DEFINE i == ArpLookupIp(dest)
<1>1. CASE SendDirect(dest)
  <2>1. i \in Entries /\ arpTable[i].state = "valid"
    BY <1>1, LookupFinds DEF SendDirect, StateOf
  <2>2. CASE arpTable' = arpTable /\ heap' = heap /\ exited' = TRUE
    BY <2>2 DEF TypeOK, UsedHasTime, HeapIsPending, OwnPackets, OnePending,
                Pending
  <2>3. CASE /\ arpTable' = [arpTable EXCEPT ![i].timeToLive = EntryTimeout]
             /\ UNCHANGED <<heap, exited>>
    <3> DEFINE e == [arpTable[i] EXCEPT !.timeToLive = EntryTimeout]
    <3>1. e \in Entry /\ e.state = "valid" /\ e.timeToLive >= 1
      <4>1. arpTable[i] \in Entry
        BY <2>1, TableType
      <4> QED
        BY <2>1, <4>1 DEF Entry
    <3>2. arpTable' = [arpTable EXCEPT ![i] = e]
      BY <2>3
    <3>3. i \notin Pending
      BY <2>1 DEF Pending
    <3>4. exited' \in BOOLEAN
      BY <2>3 DEF TypeOK
    <3> HIDE DEF e, i
    <3> QED
      BY <2>1, <2>3, <3>1, <3>2, <3>3, <3>4, PacketOut
  <2> QED
    BY <1>1, <2>2, <2>3 DEF SendDirect
<1>2. ASSUME NEW p \in Packets, SendFirst(dest, p) PROVE IInv'
  <2> DEFINE k == ArpAdd
             e == Asked(arpTable[k], dest, p)
  <2>1. k \in Entries /\ arpTable[k].state = "free"
    BY <1>2, AddFinds DEF SendFirst
  <2>2. e \in Entry /\ e.state = "pending" /\ e.timeToLive >= 1
        /\ e.pendingPacket = p /\ e.ipAddress = dest
    <3>1. arpTable[k] \in Entry /\ dest \in EntryAddresses
      BY <2>1, EntryAddressesHold, TableType
    <3> QED
      BY <3>1, AskedEntry
  <2>3. arpTable' = [arpTable EXCEPT ![k] = e]
    BY <1>2, <2>1 DEF SendFirst, TypeOK, Asked
  <2>4. k \notin Pending
    BY <2>1 DEF Pending
  <2>5. \A j \in Pending : arpTable[j].ipAddress # dest
    BY <1>2 DEF SendFirst, Matching, Used, Pending
  <2>6. p \notin heap /\ heap' = heap \cup {p} /\ UNCHANGED exited
    BY <1>2 DEF SendFirst
  <2> HIDE DEF e, k
  <2> QED
    BY <2>1, <2>2, <2>3, <2>4, <2>5, <2>6, PacketIn
<1>3. ASSUME NEW p \in Packets, SendAgain(dest, p) PROVE IInv'
  <2> DEFINE e    == [arpTable[i] EXCEPT !.timeToLive = RetryTimeout,
                                         !.pendingPacket = p]
             left == heap \ {arpTable[i].pendingPacket}
  <2>1. i \in Pending
    BY <1>3, LookupFinds DEF SendAgain, StateOf, Pending
  <2>2. i \in Entries
    BY <2>1 DEF Pending
  <2>3. e \in Entry /\ e.state = "pending" /\ e.timeToLive >= 1
        /\ e.pendingPacket = p /\ e.ipAddress = arpTable[i].ipAddress
    <3>1. arpTable[i] \in Entry /\ arpTable[i].state = "pending"
      BY <2>1, TableType DEF Pending
    <3>2. arpTable[i].ipAddress \in EntryAddresses
      BY <3>1 DEF Entry
    <3>3. e = Asked(arpTable[i], arpTable[i].ipAddress, p)
      BY <3>1 DEF Entry, Asked
    <3> QED
      BY <3>1, <3>2, <3>3, AskedEntry
  <2>4. arpTable' = [arpTable EXCEPT ![i] = e]
    BY <1>3, <2>2 DEF SendAgain, TypeOK
  <2>5. p \notin left /\ heap' = left \cup {p} /\ UNCHANGED exited
    BY <1>3 DEF SendAgain
  <2> HIDE DEF e, i
  <2> QED
    BY <2>1, <2>2, <2>3, <2>4, <2>5, PacketIn
<1>4. CASE SendNoEntry(dest)
  BY <1>4 DEF SendNoEntry, vars, TypeOK, UsedHasTime, HeapIsPending,
              OwnPackets, OnePending, Pending
<1> QED
  BY <1>1, <1>2, <1>3, <1>4 DEF SendvIp

(* An entry whose station has been heard of is an entry.                   *)
Answered(e, a, hw, t) == [e EXCEPT !.state = "valid", !.ipAddress = a,
                                   !.hardwareAddress = hw, !.timeToLive = t]

(* It is an entry, valid and with time left.                               *)
LEMMA AnsweredEntry ==
  ASSUME NEW e \in Entry, NEW a \in EntryAddresses, NEW hw \in Hardware,
         NEW t \in 1 .. EntryTimeout
  PROVE  /\ Answered(e, a, hw, t) \in Entry
         /\ Answered(e, a, hw, t).state = "valid"
         /\ Answered(e, a, hw, t).timeToLive >= 1
<1> DEFINE f1 == [e  EXCEPT !.state = "valid"]
           f2 == [f1 EXCEPT !.ipAddress = a]
           f3 == [f2 EXCEPT !.hardwareAddress = hw]
           f4 == [f3 EXCEPT !.timeToLive = t]
<1>1. f1 \in Entry /\ f1.state = "valid"
  BY DEF Entry
<1>2. f2 \in Entry /\ f2.state = "valid"
  <2> HIDE DEF f1
  <2> QED
    BY <1>1 DEF Entry
<1>3. f3 \in Entry /\ f3.state = "valid"
  <2> HIDE DEF f2
  <2> QED
    BY <1>2 DEF Entry
<1>4. f4 \in Entry /\ f4.state = "valid" /\ f4.timeToLive = t
  <2> HIDE DEF f3
  <2> QED
    BY <1>3 DEF Entry
<1>5. Answered(e, a, hw, t) = f4
  BY DEF Answered
<1> HIDE DEF f4
<1> QED
  BY <1>4, <1>5

(* handleArp keeps the invariant.                                          *)
LEMMA ArpIInv ==
  ASSUME IInv, NEW sender \in Addresses, NEW hw \in Hardware,
         HandleArp(sender, hw)
  PROVE  IInv'
<1> USE DEF IInv
<1>1. CASE HandleRequest(sender, hw)
  <2> DEFINE i == RequestEntry(sender)
             e == Answered(arpTable[i], RequestAddress(sender), hw, EntryTimeout)
  <2>1. i \in Entries
    BY <1>1, LookupFinds, AddFinds DEF HandleRequest, RequestEntry
  <2>2. arpTable[i] \in Entry /\ RequestAddress(sender) \in EntryAddresses
    BY <2>1, TableType, EntryAddressesHold DEF RequestAddress
  <2>3. e \in Entry /\ e.state = "valid" /\ e.timeToLive >= 1
    BY <2>2, AnsweredEntry
  <2>4. arpTable' = [arpTable EXCEPT ![i] = e]
    BY <1>1, <2>1 DEF HandleRequest, Answered, TypeOK
  <2>5. heap' = IF i \in Pending THEN heap \ {arpTable[i].pendingPacket} ELSE heap
    BY <1>1, <2>1 DEF HandleRequest, AfterRequest, Pending
  <2>6. exited' \in BOOLEAN
    BY <1>1 DEF HandleRequest
  <2> HIDE DEF e, i
  <2> QED
    BY <2>1, <2>3, <2>4, <2>5, <2>6, PacketOut
<1>2. CASE HandleReply(sender, hw)
  <2> DEFINE i == ArpLookupIp(sender)
             e == Answered(arpTable[i], arpTable[i].ipAddress, hw,
                           arpTable[i].timeToLive)
  <2>1. i \in Entries /\ arpTable[i].state = "pending"
    BY <1>2, LookupFinds DEF HandleReply, StateOf
  <2>2. /\ arpTable[i] \in Entry /\ arpTable[i].ipAddress \in EntryAddresses
        /\ arpTable[i].timeToLive \in 1 .. EntryTimeout
    <3>1. arpTable[i] \in Entry /\ arpTable[i].timeToLive >= 1
      BY <2>1, TableType DEF UsedHasTime
    <3> QED
      BY <3>1 DEF Entry
  <2>3. e \in Entry /\ e.state = "valid" /\ e.timeToLive >= 1
    BY <2>2, AnsweredEntry
  <2>4. e = [arpTable[i] EXCEPT !.state = "valid", !.hardwareAddress = hw]
    BY <2>2 DEF Answered, Entry
  <2>5. arpTable' = [arpTable EXCEPT ![i] = e]
    BY <1>2, <2>1, <2>4 DEF HandleReply, TypeOK
  <2>6. i \in Pending
    BY <2>1 DEF Pending
  <2>7. /\ heap' = IF i \in Pending THEN heap \ {arpTable[i].pendingPacket}
                                    ELSE heap
        /\ exited' \in BOOLEAN
    BY <1>2, <2>6 DEF HandleReply, TypeOK
  <2> HIDE DEF e, i
  <2> QED
    BY <2>1, <2>3, <2>5, <2>7, PacketOut
<1>3. CASE \/ HandleRequestNoEntry(sender) \/ HandleReplyIgnored(sender, hw)
           \/ HandleReplyUnknown(hw)
  <2>1. arpTable' = arpTable /\ heap' = heap /\ exited' \in BOOLEAN
    BY <1>3 DEF HandleRequestNoEntry, HandleReplyIgnored, HandleReplyUnknown,
                vars, TypeOK
  <2> QED
    BY <2>1 DEF TypeOK, UsedHasTime, HeapIsPending, OwnPackets, OnePending,
                Pending
<1> QED
  BY <1>1, <1>2, <1>3 DEF HandleArp

(* One round of the timer, for one entry: it stays as it is but for its    *)
(* time, its retries and whether it is used.                               *)
LEMMA AgedEntry ==
  ASSUME NEW e \in Entry, e.state # "free" => e.timeToLive >= 1
  PROVE  /\ Aged(e) \in Entry
         /\ Aged(e).state # "free" => Aged(e).timeToLive >= 1
         /\ Aged(e).pendingPacket = e.pendingPacket
         /\ Aged(e).ipAddress = e.ipAddress
         /\ Aged(e).state = "pending" <=> e.state = "pending" /\ ~GivenUp(e)
<1>1. CASE e.state = "free"
  <2>1. ~TimedOut(e) /\ ~AskedAgain(e) /\ ~GivenUp(e)
    BY <1>1 DEF AskedAgain, GivenUp, TimedOut
  <2>2. Aged(e) = e
    BY <1>1, <2>1 DEF Aged
  <2> QED
    BY <1>1, <2>1, <2>2
<1>2. CASE AskedAgain(e)
  <2> DEFINE f1 == [e  EXCEPT !.timeToLive = RetryTimeout]
             f2 == [f1 EXCEPT !.retries = @ + 1]
  <2>1. e.state = "pending" /\ ~GivenUp(e) /\ e.retries <= ArpRetries
    BY <1>2 DEF AskedAgain, GivenUp, Entry
  <2>2. f1 \in Entry /\ f1.timeToLive >= 1 /\ f1.state = e.state
        /\ f1.pendingPacket = e.pendingPacket /\ f1.ipAddress = e.ipAddress
        /\ f1.retries = e.retries
    BY DEF Entry
  <2>3. f2 \in Entry /\ f2.timeToLive >= 1 /\ f2.state = e.state
        /\ f2.pendingPacket = e.pendingPacket /\ f2.ipAddress = e.ipAddress
    <3> HIDE DEF f1
    <3> QED
      BY <2>1, <2>2 DEF Entry
  <2>4. Aged(e) = f2
    BY <1>2, <2>1 DEF Aged
  <2> HIDE DEF f2
  <2> QED
    BY <2>1, <2>3, <2>4
<1>3. CASE e.state # "free" /\ ~AskedAgain(e) /\ TimedOut(e)
  <2> DEFINE f1 == [e  EXCEPT !.timeToLive = @ - 1]
             f2 == [f1 EXCEPT !.state = "free"]
  <2>1. f1 \in Entry
        /\ f1.pendingPacket = e.pendingPacket /\ f1.ipAddress = e.ipAddress
    BY <1>3 DEF Entry
  <2>2. f2 \in Entry /\ f2.state = "free"
        /\ f2.pendingPacket = e.pendingPacket /\ f2.ipAddress = e.ipAddress
    <3> HIDE DEF f1
    <3> QED
      BY <2>1 DEF Entry
  <2>3. Aged(e) = f2
    BY <1>3 DEF Aged
  <2>4. e.state = "pending" => GivenUp(e)
    BY <1>3 DEF AskedAgain
  <2> HIDE DEF f2
  <2> QED
    BY <2>2, <2>3, <2>4
<1>4. CASE e.state # "free" /\ ~AskedAgain(e) /\ ~TimedOut(e)
  <2> DEFINE f == [e EXCEPT !.timeToLive = @ - 1]
  <2>1. e.timeToLive > 1
    BY <1>4 DEF TimedOut, Entry
  <2>2. f \in Entry /\ f.timeToLive >= 1 /\ f.state = e.state
        /\ f.pendingPacket = e.pendingPacket /\ f.ipAddress = e.ipAddress
    BY <2>1 DEF Entry
  <2>3. Aged(e) = f
    BY <1>4 DEF Aged
  <2>4. ~GivenUp(e)
    BY <1>4 DEF GivenUp
  <2> HIDE DEF f
  <2> QED
    BY <1>4, <2>2, <2>3, <2>4
<1> QED
  BY <1>1, <1>2, <1>3, <1>4

(* arpCallBack keeps the invariant.                                        *)
LEMMA TimerIInv == ASSUME IInv, ArpCallBack PROVE IInv'
<1> USE DEF IInv
<1> DEFINE Dead == {j \in Entries : GivenUp(arpTable[j])}
<1>1. arpTable' = [i \in Entries |-> Aged(arpTable[i])]
      /\ heap' = heap \ {arpTable[i].pendingPacket : i \in Dead}
      /\ exited' = exited
  BY DEF ArpCallBack
<1>2. ASSUME NEW i \in Entries
      PROVE  /\ arpTable'[i] \in Entry
             /\ arpTable'[i].state # "free" => arpTable'[i].timeToLive >= 1
             /\ arpTable'[i].pendingPacket = arpTable[i].pendingPacket
             /\ arpTable'[i].ipAddress = arpTable[i].ipAddress
             /\ arpTable'[i].state = "pending" <=> i \in Pending \ Dead
  <2>1. arpTable[i] \in Entry /\ (arpTable[i].state # "free" =>
                                    arpTable[i].timeToLive >= 1)
    BY TableType DEF UsedHasTime
  <2>2. arpTable'[i] = Aged(arpTable[i])
    BY <1>1
  <2> QED
    BY <2>1, <2>2, AgedEntry DEF Pending
<1>3. Pending' = Pending \ Dead
  BY <1>2 DEF Pending
<1>4. Dead \subseteq Pending
  BY DEF GivenUp, Pending
<1>5. TypeOK'
  <2>1. arpTable' \in [Entries -> Entry]
    BY <1>1, <1>2
  <2>2. heap' \in SUBSET Packets /\ exited' \in BOOLEAN
    BY <1>1 DEF TypeOK
  <2> QED
    BY <2>1, <2>2 DEF TypeOK, Entry, EntryAddresses
<1>6. UsedHasTime'
  BY <1>2 DEF UsedHasTime
<1>7. HeapIsPending'
  <2>1. heap' = {arpTable[i].pendingPacket : i \in Pending \ Dead}
    BY <1>1, <1>4 DEF HeapIsPending, OwnPackets
  <2>2. \A i \in Pending \ Dead :
          arpTable'[i].pendingPacket = arpTable[i].pendingPacket
    BY <1>2 DEF Pending
  <2> HIDE DEF Dead
  <2> QED
    BY <2>1, <2>2, <1>3 DEF HeapIsPending
<1>8. OwnPackets' /\ OnePending'
  BY <1>2, <1>3 DEF OwnPackets, OnePending, Pending
<1> QED
  BY <1>5, <1>6, <1>7, <1>8

(* The invariant holds in every state.                                     *)
LEMMA IInvAlways == Spec => []IInv
<1>1. ASSUME IInv, Next PROVE IInv'
  BY <1>1, SendIInv, ArpIInv, TimerIInv DEF Next
<1>2. ASSUME IInv, UNCHANGED vars PROVE IInv'
  BY <1>2 DEF vars, IInv, TypeOK, UsedHasTime, HeapIsPending, OwnPackets,
              OnePending, Pending
<1> QED
  BY InitIInv, <1>1, <1>2, PTL DEF Spec

-----------------------------------------------------------------------------
(* Every variable keeps its type; in particular no entry's time goes below *)
(* zero, and no question is asked more often than ARP_RETRIES allows.      *)
THEOREM ArpTypeCorrect == Spec => []TypeOK
BY IInvAlways, PTL DEF IInv

(* The packets allocated are those of the pending entries, one for each:   *)
(* handleArp, sendvIp and arpCallBack free no packet twice and lose none,  *)
(* although none of them clears pendingPacket.                             *)
THEOREM PacketsAlwaysOwned == Spec => []PacketsOwned
<1>1. ASSUME IInv PROVE PacketsOwned
  <2> DEFINE f == [i \in Pending |-> arpTable[i].pendingPacket]
  <2>1. heap = {arpTable[i].pendingPacket : i \in Pending}
    BY <1>1 DEF IInv, HeapIsPending
  <2>2. IsFiniteSet(Pending)
    <3>1. IsFiniteSet(Entries)
      BY FS_Interval DEF Entries
    <3> QED
      BY <3>1, FS_Subset DEF Pending
  <2>3. f \in Bijection(Pending, heap)
    <3>1. f \in [Pending -> heap]
      BY <2>1
    <3>2. \A i, j \in Pending : f[i] = f[j] => i = j
      BY <1>1 DEF IInv, OwnPackets
    <3>3. \A p \in heap : \E i \in Pending : f[i] = p
      BY <2>1
    <3> QED
      BY <3>1, <3>2, <3>3 DEF Bijection, Injection, Surjection, IsInjective
  <2>4. ExistsBijection(Pending, heap)
    BY <2>3 DEF ExistsBijection
  <2> QED
    BY <2>1, <2>2, <2>4, FS_Bijection DEF PacketsOwned
<1> QED
  BY <1>1, IInvAlways, PTL

(* At most one entry waits for an answer from an address, whatever entries *)
(* the requests of stations add or change in between.                      *)
THEOREM OneAlwaysPending == Spec => []OnePending
BY IInvAlways, PTL DEF IInv
=============================================================================
