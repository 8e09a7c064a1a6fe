------------------------------ MODULE ArpTable ------------------------------
(***************************************************************************)
(* The ARP table of the bridge program's management stack (src/NDIS/IP.C). *)
(* sendvIp keeps one packet per unresolved address until a reply or a      *)
(* request of that address tells where to send it; arpCallBack, which the  *)
(* event scheduler calls every second, repeats the question, gives up, and *)
(* forgets the addresses nobody used.  Everything runs in the main loop,   *)
(* one handler at a time.                                                  *)
(*                                                                         *)
(* An address is a pair of bytes: swapAddr reverses it.                    *)
(***************************************************************************)
EXTENDS Integers, FiniteSets

CONSTANTS
  ArpTableSize,     \* ARP_TABLE_SIZE
  ArpRetries,       \* ARP_RETRIES
  EntryTimeout,     \* ARP_ENTRY_TIMEOUT, in rounds of the timer
  RetryTimeout,     \* ARP_ENTRY_RETRY_TIMEOUT, likewise
  Addresses,        \* internet addresses, in the host's order
  Hardware,         \* hardware addresses
  Broadcast,        \* the hardware address of everybody
  Stations,         \* hardware addresses in the bridge's table
  Packets           \* blocks of memory that hold a pending packet

ASSUME SizeAssumption == ArpTableSize \in Nat \ {0}
ASSUME RetriesAssumption == ArpRetries \in Nat
ASSUME TimeoutAssumption ==
  /\ EntryTimeout \in Nat \ {0}
  /\ RetryTimeout \in Nat \ {0}
  /\ RetryTimeout < EntryTimeout
ASSUME StationAssumption == Stations \subseteq Hardware
ASSUME PacketAssumption ==
  IsFiniteSet(Packets) /\ Cardinality(Packets) >= ArpTableSize

VARIABLES
  arpTable,   \* the entries
  heap,       \* packets allocated by farmalloc and not freed
  exited      \* exit(1) has been called

vars == <<arpTable, heap, exited>>

Entries == 0 .. ArpTableSize - 1
NoPacket   == "NULL"
NoHardware == "zero"
NoAddress  == <<0, 0>>

(* swapAddr: the bytes of an address in the other order.                   *)
SwapAddr(a) == <<a[2], a[1]>>

Running == ~exited

Used == {i \in Entries : arpTable[i].state # "free"}

(* Mutant: pending entries are passed over.                                *)
MatchingValid(addr) ==
  {i \in Used : arpTable[i].state = "valid" /\ arpTable[i].ipAddress = addr}

(* arpLookupIp: the first used entry with the address, or NULL.            *)
Matching(addr) == {i \in Used : arpTable[i].ipAddress = addr}
ArpLookupIp(addr) == CHOOSE i \in Matching(addr) :
                       \A j \in Matching(addr) : i <= j

StateOf(addr) == IF Matching(addr) = {} THEN "free"
                                        ELSE arpTable[ArpLookupIp(addr)].state

(* arpAdd: the first free entry, or NULL.                                  *)
Unused == Entries \ Used
ArpAdd == CHOOSE i \in Unused : \A j \in Unused : i <= j

Init ==
  /\ arpTable = [i \in Entries |->
       [state |-> "free", ipAddress |-> NoAddress, hardwareAddress |-> NoHardware,
        timeToLive |-> 0, retries |-> 0, pendingPacket |-> NoPacket]]
  /\ heap = {}
  /\ exited = FALSE

-----------------------------------------------------------------------------
(* sendvIp.  dest is the destination or the gateway.                       *)

(* The address is known: send, which needs the station's card from the     *)
(* bridge's table, and use renews the entry.                               *)
SendDirect(dest) ==
  LET i == ArpLookupIp(dest)
  IN  /\ Running
      /\ StateOf(dest) = "valid"
      /\ IF arpTable[i].hardwareAddress \in Stations
           THEN /\ arpTable' = [arpTable EXCEPT ![i].timeToLive = EntryTimeout]
                /\ UNCHANGED exited
           ELSE exited' = TRUE /\ UNCHANGED arpTable
      /\ UNCHANGED heap

(* Unknown: keep the packet in a new entry and ask.                        *)
SendFirst(dest, p) ==
  /\ Running
  /\ Matching(dest) = {} /\ Unused # {}
  /\ p \in Packets \ heap
  /\ arpTable' = [arpTable EXCEPT ![ArpAdd] =
                    [@ EXCEPT !.state = "pending", !.ipAddress = dest,
                              !.timeToLive = RetryTimeout,
                              !.pendingPacket = p]]
  /\ heap' = heap \cup {p}
  /\ UNCHANGED exited

(* Mutant: the packet that is replaced is not freed.                       *)
SendAgainLeaks(dest, p) ==
  LET i == ArpLookupIp(dest)
  IN  /\ Running
      /\ StateOf(dest) = "pending"
      /\ p \in Packets \ heap
      /\ arpTable' = [arpTable EXCEPT ![i] =
                        [@ EXCEPT !.timeToLive = RetryTimeout,
                                  !.pendingPacket = p]]
      /\ heap' = heap \cup {p}
      /\ UNCHANGED exited

(* Asked for already: the new packet takes the place of the old one, whose *)
(* memory may be used again, and the timer starts afresh.                  *)
SendAgain(dest, p) ==
  LET i    == ArpLookupIp(dest)
      left == heap \ {arpTable[i].pendingPacket}
  IN  /\ Running
      /\ StateOf(dest) = "pending"
      /\ p \in Packets \ left
      /\ arpTable' = [arpTable EXCEPT ![i] =
                        [@ EXCEPT !.timeToLive = RetryTimeout,
                                  !.pendingPacket = p]]
      /\ heap' = left \cup {p}
      /\ UNCHANGED exited

(* No entry is free: the packet is dropped.                                *)
SendNoEntry(dest) ==
  /\ Running
  /\ Matching(dest) = {} /\ Unused = {}
  /\ UNCHANGED vars

SendvIp(dest) ==
  \/ SendDirect(dest)
  \/ \E p \in Packets : SendFirst(dest, p) \/ SendAgain(dest, p)
  \/ SendNoEntry(dest)

-----------------------------------------------------------------------------
(* handleArp.                                                              *)

(* The entry a request is noted in: the sender's, or a free one, which     *)
(* gets the address as it is in the packet, in network order.              *)
RequestEntry(sender) ==
  IF Matching(sender) # {} THEN ArpLookupIp(sender) ELSE ArpAdd
RequestAddress(sender) ==
  IF Matching(sender) # {} THEN sender ELSE SwapAddr(sender)

(* Mutant: the packet of a pending entry is sent and forgotten, not freed. *)
AfterRequestLeaks(i) == heap

(* Sent to the sender, the pending packet is freed; pendingPacket is not   *)
(* cleared.                                                                *)
AfterRequest(i) == IF arpTable[i].state = "pending"
                     THEN heap \ {arpTable[i].pendingPacket}
                     ELSE heap

(* ARP_REQUEST from sender at hw: note where it is, send what is pending   *)
(* for it, and answer.  Both need the station's card.                      *)
HandleRequest(sender, hw) ==
  LET i == RequestEntry(sender)
  IN  /\ Running
      /\ Matching(sender) # {} \/ Unused # {}
      /\ arpTable' = [arpTable EXCEPT ![i] =
                        [@ EXCEPT !.state = "valid",
                                  !.ipAddress = RequestAddress(sender),
                                  !.hardwareAddress = hw,
                                  !.timeToLive = EntryTimeout]]
      /\ heap' = AfterRequest(i)
      /\ exited' = (hw \notin Stations)

(* The table is full: not even the answer is sent.                         *)
HandleRequestNoEntry(sender) ==
  /\ Running
  /\ Matching(sender) = {} /\ Unused = {}
  /\ UNCHANGED vars

(* ARP_REPLY to a question of ours: send the packet that waited.           *)
HandleReply(sender, hw) ==
  LET i == ArpLookupIp(sender)
  IN  /\ Running
      /\ hw \in Stations /\ hw # Broadcast
      /\ StateOf(sender) = "pending"
      /\ arpTable' = [arpTable EXCEPT ![i] =
                        [@ EXCEPT !.state = "valid", !.hardwareAddress = hw]]
      /\ heap' = heap \ {arpTable[i].pendingPacket}
      /\ UNCHANGED exited

(* A reply nobody asked for, or one from everybody.                        *)
HandleReplyIgnored(sender, hw) ==
  /\ Running
  /\ hw \in Stations
  /\ hw = Broadcast \/ StateOf(sender) # "pending"
  /\ UNCHANGED vars

(* A reply from a station the bridge has never heard.                      *)
HandleReplyUnknown(hw) ==
  /\ Running
  /\ hw \notin Stations
  /\ exited' = TRUE
  /\ UNCHANGED <<arpTable, heap>>

HandleArp(sender, hw) ==
  \/ HandleRequest(sender, hw) \/ HandleRequestNoEntry(sender)
  \/ HandleReply(sender, hw) \/ HandleReplyIgnored(sender, hw)
  \/ HandleReplyUnknown(hw)

-----------------------------------------------------------------------------
(* arpCallBack: one second has gone by.                                    *)

TimedOut(e) == e.state # "free" /\ e.timeToLive <= 1
GivenUp(e)  == TimedOut(e) /\ e.state = "pending" /\ e.retries > ArpRetries
AskedAgain(e) == TimedOut(e) /\ e.state = "pending" /\ ~GivenUp(e)

(* Mutant: retries are not counted.                                        *)
AgedForEver(e) ==
  CASE e.state = "free" -> e
    [] AskedAgain(e)    -> [e EXCEPT !.timeToLive = RetryTimeout]
    [] TimedOut(e) /\ ~AskedAgain(e) -> [e EXCEPT !.timeToLive = @ - 1,
                                                  !.state = "free"]
    [] OTHER -> [e EXCEPT !.timeToLive = @ - 1]

Aged(e) ==
  CASE e.state = "free" -> e
    [] AskedAgain(e)    -> [e EXCEPT !.timeToLive = RetryTimeout,
                                     !.retries = @ + 1]
    [] TimedOut(e) /\ ~AskedAgain(e) -> [e EXCEPT !.timeToLive = @ - 1,
                                                  !.state = "free"]
    [] OTHER -> [e EXCEPT !.timeToLive = @ - 1]

ArpCallBack ==
  /\ Running
  /\ arpTable' = [i \in Entries |-> Aged(arpTable[i])]
  /\ heap' = heap \ {arpTable[i].pendingPacket :
                       i \in {j \in Entries : GivenUp(arpTable[j])}}
  /\ UNCHANGED exited

Next ==
  \/ \E dest \in Addresses : SendvIp(dest)
  \/ \E sender \in Addresses, hw \in Hardware : HandleArp(sender, hw)
  \/ ArpCallBack

Spec == Init /\ [][Next]_vars

(* The timer is served (the scheduler's part, see EventQueue).             *)
FairSpec == Spec /\ WF_vars(ArpCallBack)

-----------------------------------------------------------------------------
(* Properties                                                              *)

(* Type invariant.                                                         *)
TypeOK ==
  /\ arpTable \in
       [Entries ->
          [state : {"free", "valid", "pending"},
           ipAddress : Addresses \cup {SwapAddr(a) : a \in Addresses}
                                 \cup {NoAddress},
           hardwareAddress : Hardware \cup {NoHardware},
           timeToLive : 0 .. EntryTimeout,
           retries : 0 .. ArpRetries + 1,
           pendingPacket : Packets \cup {NoPacket}]]
  /\ heap \in SUBSET Packets
  /\ exited \in BOOLEAN

(* pendingPacket keeps its value after the packet is freed, in handleArp   *)
(* and in arpCallBack, and the entry is used again for other addresses.    *)
(* Still no packet is freed twice, used after it was freed, lost, or kept  *)
(* by two entries: the packets allocated are those of the pending entries, *)
(* one for each.                                                           *)
Pending == {i \in Entries : arpTable[i].state = "pending"}
PacketsOwned ==
  /\ heap = {arpTable[i].pendingPacket : i \in Pending}
  /\ Cardinality(heap) = Cardinality(Pending)

(* At most one entry waits for an answer from an address, whatever entries *)
(* the requests of stations add in between: an answer finds the packet.    *)
OnePending ==
  \A i, j \in Pending : arpTable[i].ipAddress = arpTable[j].ipAddress => i = j

(* An entry stays pending for ever only if packets for its address keep    *)
(* coming: each of them frees the one before and starts the timer afresh.  *)
(* Otherwise the packet is sent or given up, unless the program exits.     *)
Renewed(i) == \E dest \in Addresses, p \in Packets :
                SendAgain(dest, p) /\ ArpLookupIp(dest) = i
NoEndlessWait ==
  \A i \in Entries :
    <>[](Running /\ i \in Pending) => []<><<Renewed(i)>>_vars

=============================================================================
