---------------------------- MODULE BridgeTable -----------------------------
(***************************************************************************)
(* The table of the learning bridge (src/NDIS/BRIDGE.C), which maps the    *)
(* hardware address of a station to the card it was last heard on.         *)
(*                                                                         *)
(* bridge is called by the interrupt of a card for every frame it hears:   *)
(* it says whether the frame goes on to the other side and learns where    *)
(* its sender is.  One card's interrupt may interrupt another's, which     *)
(* then waits until the first has returned: `stack` holds the calls, the   *)
(* running one last.  Only what is between GUARD and UNGUARD is one step;  *)
(* an address is compared one word at a time.  bridgeLookUp is called by   *)
(* the main loop, which runs when no interrupt does.                       *)
(***************************************************************************)
EXTENDS Integers, FiniteSets, SequencesExt

CONSTANTS
  MaxNumAddresses,  \* MAX_NUM_ADDRESSES, slots of the table
  NumWords,         \* words of a hardware address (3 in the code)
  Stations,         \* addresses of stations
  Groups,           \* multicast and broadcast addresses
  Hash,             \* exclusive or of the words, & ADDRESS_HASH_MASK
  Cards,            \* MAC ids of the cards
  Frames            \* <<destination, source>> of the frames on the wires

ASSUME SizeAssumption == MaxNumAddresses \in Nat \ {0} /\ NumWords \in Nat \ {0}

Slots     == 0 .. MaxNumAddresses - 1
WordIds   == 1 .. NumWords
Addresses == Stations \cup Groups
Nowhere   == -1                        \* curr: not found, or no room
NoBoard   == 0                         \* memset

ZeroAddress == [w \in WordIds |-> 0]   \* memset: the address of a free slot

ASSUME AddressAssumption ==
  /\ Addresses \subseteq [WordIds -> Nat] /\ Stations \cap Groups = {}
  /\ ZeroAddress \notin Addresses
  /\ Hash \in [Addresses -> Slots]
ASSUME CardAssumption == IsFiniteSet(Cards) /\ NoBoard \notin Cards
ASSUME FrameAssumption == Frames \subseteq Addresses \X Addresses

VARIABLES
  hashTable,  \* slot -> address, valid and boardNumber
  stack,      \* cards whose interrupt is in bridge, the running one last
  call,       \* card -> the locals of its call; met: was it interrupted (history)
  main,       \* bridgeLookUp: the address asked for and the slot found
  heard,      \* address -> cards it was last heard on (history)
  known       \* addresses found when no interrupt was served (history)

vars == <<hashTable, stack, call, main, heard, known>>

FreeSlot == [address |-> ZeroAddress, valid |-> FALSE, boardNumber |-> NoBoard]
NoCall   == [pc |-> "idle"]
NoLookUp == [pc |-> "idle"]
Exited   == [pc |-> "exited"]

Running(c) == stack # <<>> /\ Last(stack) = c

(* Mutant: not masked.                                                     *)
NextSlotPastEnd(s) == s + 1
NextSlot(s) == (s + 1) % MaxNumAddresses

(* The slots a probe for a visits before slot s.                           *)
Before(a, s) == LET d == (s - Hash[a] + MaxNumAddresses) % MaxNumAddresses
                IN  {(Hash[a] + k) % MaxNumAddresses : k \in 0 .. d - 1}

(* The slot in which an undisturbed probe finds a, if any.                 *)
Finds(table, a, s) ==
  /\ table[s].address = a
  /\ \A t \in Before(a, s) : table[t].valid /\ table[t].address # a
Found(table) == {a \in Stations : \E s \in Slots : Finds(table, a, s)}
Find(table, a) == IF a \in Found(table)
                  THEN CHOOSE s \in Slots : Finds(table, a, s) ELSE Nowhere

Init ==
  /\ hashTable = [s \in Slots |-> FreeSlot]
  /\ stack = <<>>
  /\ call = [c \in Cards |-> NoCall]
  /\ main = NoLookUp
  /\ heard = [a \in Stations |-> {}] /\ known = {}

-----------------------------------------------------------------------------
(* bridge                                                                  *)

Goto(c, pc) == call' = [call EXCEPT ![c].pc = pc, ![c].word = 1]

(* A probe for a from slot s on.                                           *)
Probe(me, pc, a, s) ==
  [me EXCEPT !.pc = pc, !.addr = a, !.curr = s, !.word = 1]

(* Mutant: the probe goes on where the destination's ended.                *)
SourceFromThere(me) ==
  IF me.source \in Groups THEN Probe(me, "return", me.source, Nowhere)
  ELSE Probe(me, "source", me.source, me.curr)

(* After the destination comes the source; a group is not learnt.          *)
SourceOf(me) == IF me.source \in Groups THEN Probe(me, "return", me.source, Nowhere)
                ELSE Probe(me, "source", me.source, Hash[me.source])

(* History: c has heard a.  Of the calls for one station that ran at the   *)
(* same time, the order is not told apart.                                 *)
Ended(c, table, a) ==
  LET same  == {d \in Range(Front(stack)) : call[d].source = a}
      cards == IF call[c].met = "same" THEN heard[a] \cup {c} ELSE {c}
  IN  /\ heard' = IF a \in Stations THEN [heard EXCEPT ![a] = cards \cup same] ELSE heard
      /\ known' = IF Len(stack) = 1 THEN known \cup Found(table) ELSE known
      /\ call' = [d \in Cards |->
           CASE d = c -> NoCall
             [] d \in same -> [call[d] EXCEPT !.met = "same"]
             [] OTHER -> call[d]]

Return(c, table) ==
  /\ stack' = Front(stack)
  /\ Ended(c, table, call[c].source)

(* A frame arrives; the interrupt of its card calls bridge.  It looks for  *)
(* the destination, unless that is a group, and then for the source.       *)
Interrupt(c, dest, source) ==
  LET me == [pc |-> "dest", addr |-> dest, source |-> source, pass |-> TRUE,
             word |-> 1, curr |-> Hash[dest], met |-> "none"]
      waiting == [d \in Cards |-> IF call[d] # NoCall /\ call[d].met = "none"
                                 THEN [call[d] EXCEPT !.met = "other"] ELSE call[d]]
  IN  /\ c \notin Range(stack) /\ main # Exited
      /\ stack' = Append(stack, c)
      /\ call' = [waiting EXCEPT ![c] = IF dest \in Groups THEN SourceOf(me) ELSE me]
      /\ UNCHANGED <<hashTable, main, heard, known>>

(* Mutant: one word is compared.                                           *)
CompareOneWord(c) ==
  LET me == call[c]
      equal == hashTable[me.curr].address[me.word] = me.addr[me.word]
  IN  /\ Running(c) /\ me.pc \in {"dest", "source"}
      /\ \/ /\ ~equal
            /\ Goto(c, IF me.pc = "dest" THEN "destValid" ELSE "sourceValid")
         \/ /\ equal
            /\ Goto(c, IF me.pc = "dest" THEN "destBoard" ELSE "update")
      /\ UNCHANGED <<hashTable, stack, main, heard, known>>

(* One word of the slot's address is compared.                             *)
Compare(c) ==
  LET me == call[c]
      equal == hashTable[me.curr].address[me.word] = me.addr[me.word]
  IN  /\ Running(c) /\ me.pc \in {"dest", "source"}
      /\ \/ /\ ~equal
            /\ Goto(c, IF me.pc = "dest" THEN "destValid" ELSE "sourceValid")
         \/ /\ equal /\ me.word < NumWords
            /\ call' = [call EXCEPT ![c].word = @ + 1]
         \/ /\ equal /\ me.word = NumWords
            /\ Goto(c, IF me.pc = "dest" THEN "destBoard" ELSE "update")
      /\ UNCHANGED <<hashTable, stack, main, heard, known>>

(* The slot holds another address: it is free, or the next one is tried    *)
(* until the probe is back where it began.                                 *)
DestValid(c) ==
  LET me == call[c]
      next == NextSlot(me.curr)
  IN  /\ Running(c) /\ me.pc = "destValid"
      /\ \/ /\ ~hashTable[me.curr].valid \/ next = Hash[me.addr]
            /\ call' = [call EXCEPT ![c] = SourceOf(me)]
         \/ /\ hashTable[me.curr].valid /\ next # Hash[me.addr]
            /\ call' = [call EXCEPT ![c] = Probe(me, "dest", me.addr, next)]
      /\ UNCHANGED <<hashTable, stack, main, heard, known>>

(* A frame for a station on the side it came from is not passed on.        *)
DestBoard(c) ==
  LET me == call[c]
  IN  /\ Running(c) /\ me.pc = "destBoard"
      /\ call' = [call EXCEPT ![c] =
           SourceOf([me EXCEPT !.pass = hashTable[me.curr].boardNumber # c])]
      /\ UNCHANGED <<hashTable, stack, main, heard, known>>

(* Mutant: a slot with another address counts as free.                     *)
SourceValidUntested(c) ==
  /\ Running(c) /\ call[c].pc = "sourceValid"
  /\ Goto(c, "insert")
  /\ UNCHANGED <<hashTable, stack, main, heard, known>>

(* Mutant: one slot is tried.                                              *)
SourceValidOneSlot(c) ==
  LET me == call[c]
  IN  /\ Running(c) /\ me.pc = "sourceValid"
      /\ \/ ~hashTable[me.curr].valid /\ Goto(c, "insert")
         \/ /\ hashTable[me.curr].valid
            /\ call' = [call EXCEPT ![c] = Probe(me, "return", me.addr, Nowhere)]
      /\ UNCHANGED <<hashTable, stack, main, heard, known>>

SourceValid(c) ==
  LET me == call[c]
      next == NextSlot(me.curr)
  IN  /\ Running(c) /\ me.pc = "sourceValid"
      /\ \/ ~hashTable[me.curr].valid /\ Goto(c, "insert")
         \/ /\ hashTable[me.curr].valid /\ next = Hash[me.addr]
            /\ call' = [call EXCEPT ![c] = Probe(me, "return", me.addr, Nowhere)]
         \/ /\ hashTable[me.curr].valid /\ next # Hash[me.addr]
            /\ call' = [call EXCEPT ![c] = Probe(me, "source", me.addr, next)]
      /\ UNCHANGED <<hashTable, stack, main, heard, known>>

(* The first GUARD section: whether the slot is still free is not looked   *)
(* at again.                                                               *)
Insert(c) ==
  /\ Running(c) /\ call[c].pc = "insert"
  /\ hashTable' = [hashTable EXCEPT ![call[c].curr] =
       [address |-> call[c].source, valid |-> TRUE, boardNumber |-> c]]
  /\ Goto(c, "update")
  /\ UNCHANGED <<stack, main, heard, known>>

(* Mutant: the board is not updated.                                       *)
UpdateNothing(c) ==
  /\ Running(c) /\ call[c].pc = "update"
  /\ Return(c, hashTable)
  /\ UNCHANGED <<hashTable, main>>

(* The second GUARD section, and the return.                               *)
Update(c) ==
  LET table == [hashTable EXCEPT ![call[c].curr].boardNumber = c]
  IN  /\ Running(c) /\ call[c].pc = "update"
      /\ hashTable' = table
      /\ Return(c, table)
      /\ UNCHANGED main

(* The source was a group, or there is no room: the second GUARD section   *)
(* changes nothing.                                                        *)
ReturnOnly(c) ==
  /\ Running(c) /\ call[c].pc = "return"
  /\ Return(c, hashTable)
  /\ UNCHANGED <<hashTable, main>>

-----------------------------------------------------------------------------
(* bridgeLookUp, for the sender of a frame that waited in a queue since its *)
(* bridge call: the probe is guarded, the board number is read after        *)
(* UNGUARD.  The program stops if the address is not found (PERROR).        *)

LookUp(a) ==
  LET s == Find(hashTable, a)
  IN  /\ stack = <<>> /\ main = NoLookUp /\ heard[a] # {}
      /\ main' = IF s = Nowhere THEN Exited ELSE [pc |-> "found", addr |-> a, curr |-> s]
      /\ UNCHANGED <<hashTable, stack, call, heard, known>>

LookUpReturn ==
  /\ stack = <<>> /\ main.pc = "found"
  /\ main' = NoLookUp
  /\ UNCHANGED <<hashTable, stack, call, heard, known>>

Step(c) == \/ Compare(c) \/ DestValid(c) \/ DestBoard(c)
           \/ SourceValid(c) \/ Insert(c) \/ Update(c) \/ ReturnOnly(c)

Next ==
  \/ \E c \in Cards, f \in Frames : Interrupt(c, f[1], f[2])
  \/ \E c \in Cards : Step(c)
  \/ \E a \in Stations : LookUp(a)
  \/ LookUpReturn

Spec == Init /\ [][Next]_vars

-----------------------------------------------------------------------------
(* Type invariant.                                                         *)
TypeOK ==
  /\ hashTable \in [Slots -> [address : Addresses \cup {ZeroAddress},
                              valid : BOOLEAN, boardNumber : Cards \cup {NoBoard}]]
  /\ stack \in Seq(Cards) /\ IsInjective(stack)
  /\ \A c \in Cards :
       \/ c \notin Range(stack) /\ call[c] = NoCall
       \/ /\ c \in Range(stack)
          /\ call[c].curr \in Slots \cup {Nowhere} /\ call[c].word \in WordIds
          /\ call[c].curr = Nowhere <=> call[c].pc = "return"
  /\ main \in {NoLookUp, Exited} \cup
              [pc : {"found"}, addr : Stations, curr : Slots]
  /\ heard \in [Stations -> SUBSET Cards] /\ known \subseteq Stations

(* No probe ends too early: every slot between the one an address hashes   *)
(* to and the one that holds it is taken, whoever filled them in whatever  *)
(* order (bridge, 192-223).                                                *)
ChainsUnbroken ==
  \A s \in Slots : hashTable[s].valid =>
    \A t \in Before(hashTable[s].address, s) : hashTable[t].valid

(* An address that could be found while no interrupt was served is found   *)
(* ever after: two cards that insert at once may only overwrite what was   *)
(* inserted since (bridge, 180-213).  Nor does the slot that bridgeLookUp  *)
(* found change before it reads the board, with interrupts on again        *)
(* (bridgeLookUp, 77-85).                                                  *)
KnownStays ==
  /\ known \subseteq Found(hashTable)
  /\ main.pc = "found" => hashTable[main.curr].address = main.addr

(* Addresses a comparison that was interrupted between two words may       *)
(* confuse: one is the other but for words that are 0 in it, as they are   *)
(* in a free slot.                                                         *)
Alike(a, b) == a # b /\ \A w \in WordIds : a[w] \in {0, b[w]}
Distinct(a) == \A b \in Addresses : ~Alike(a, b) /\ ~Alike(b, a)

(* While no interrupt is served, a station that is found is on the card    *)
(* that heard it last; of two cards that heard it at once, on either       *)
(* (bridge, 225-238).                                                      *)
BoardIsCurrent ==
  stack = <<>> => \A a \in Stations \cap Found(hashTable) :
    Distinct(a) => hashTable[Find(hashTable, a)].boardNumber \in heard[a]

(* A frame is held back only if its destination was heard on the card it   *)
(* came from (bridge, 136-175).                                            *)
FilterJustified ==
  [][\A c \in Cards :
       /\ call[c].pc = "destBoard" /\ call'[c].pc # "destBoard" /\ ~call'[c].pass
       /\ Distinct(call[c].addr)
       => c \in heard[call[c].addr]]_vars

(* A call nobody interrupted has learnt the sender, unless the table is    *)
(* full.                                                                   *)
UndisturbedLearns ==
  [][\A c \in Cards :
       /\ stack = <<c>> /\ stack' = <<>> /\ call[c].met = "none"
       /\ call[c].source \in Stations
       => \/ \A s \in Slots : hashTable'[s].valid
          \/ call[c].source \in Found(hashTable')]_vars
=============================================================================
