-------------------------- MODULE BridgeTableProofs -------------------------
(***************************************************************************)
(* Theorems about BridgeTable, for every size of the table, every hash,    *)
(* any stations and any cards whose interrupts interrupt each other.       *)
(***************************************************************************)
EXTENDS BridgeTable, SequenceTheorems, TLAPS

USE SizeAssumption, AddressAssumption, CardAssumption

-----------------------------------------------------------------------------
(* Lemmas on the probe: the slots visited before s, as the probe goes on.  *)

(* The next slot, by cases instead of a remainder.                         *)
LEMMA NextSlotIs ==
  ASSUME NEW s \in Slots
  PROVE  /\ NextSlot(s) = IF s = MaxNumAddresses - 1 THEN 0 ELSE s + 1
         /\ NextSlot(s) \in Slots
BY DEF NextSlot, Slots

(* A remainder of a number below twice the divisor.                        *)
LEMMA ModTwice ==
  ASSUME NEW N \in Nat \ {0}, NEW x \in 0 .. 2 * N - 1
  PROVE  x % N = IF x < N THEN x ELSE x - N
OBVIOUS

(* Before(a, s) goes from the slot of the hash up to s, or on to the end   *)
(* of the table and from its start up to s.                                *)
LEMMA BeforeIs ==
  ASSUME NEW a \in Addresses, NEW s \in Slots
  PROVE  Before(a, s) = IF Hash[a] <= s
                        THEN {t \in Slots : Hash[a] <= t /\ t < s}
                        ELSE {t \in Slots : Hash[a] <= t \/ t < s}
<1> DEFINE N == MaxNumAddresses
           h == Hash[a]
           Rem(x) == x % N
           d == Rem(s - h + N)
           to == {Rem(h + k) : k \in 0 .. d - 1}
<1>1. N \in Nat \ {0} /\ h \in 0 .. N - 1 /\ s \in 0 .. N - 1 /\ Slots = 0 .. N - 1
  BY DEF Slots
<1>2. \A x \in 0 .. 2 * N - 1 : Rem(x) = IF x < N THEN x ELSE x - N
  BY <1>1, ModTwice
<1>3. Before(a, s) = to
  BY DEF Before
<1> HIDE DEF h, N, Rem
<1>4. d = IF h <= s THEN s - h ELSE s - h + N
  BY <1>1, <1>2
<1> HIDE DEF d, to
<1>5. ASSUME NEW k \in 0 .. d - 1
      PROVE  Rem(h + k) = IF h + k < N THEN h + k ELSE h + k - N
  BY <1>1, <1>2, <1>4
<1>6. \A t : t \in to <=> \E k \in 0 .. d - 1 : t = IF h + k < N THEN h + k ELSE h + k - N
  BY <1>5 DEF to
<1>7. ASSUME h <= s, NEW t
      PROVE  t \in to <=> t \in Slots /\ h <= t /\ t < s
  <2>1. ASSUME t \in to PROVE t \in Slots /\ h <= t /\ t < s
    <3>1. PICK k \in 0 .. d - 1 : t = IF h + k < N THEN h + k ELSE h + k - N
      BY <1>6, <2>1
    <3> QED
      BY <1>1, <1>4, <1>7, <3>1
  <2>2. ASSUME t \in Slots, h <= t, t < s PROVE t \in to
    <3>1. t - h \in 0 .. d - 1 /\ t = h + (t - h) /\ h + (t - h) < N
      BY <1>1, <1>4, <1>7, <2>2
    <3> QED
      BY <1>6, <3>1
  <2> QED
    BY <2>1, <2>2
<1>8. ASSUME ~(h <= s), NEW t
      PROVE  t \in to <=> t \in Slots /\ (h <= t \/ t < s)
  <2>1. ASSUME t \in to PROVE t \in Slots /\ (h <= t \/ t < s)
    <3>1. PICK k \in 0 .. d - 1 : t = IF h + k < N THEN h + k ELSE h + k - N
      BY <1>6, <2>1
    <3> QED
      BY <1>1, <1>4, <1>8, <3>1
  <2>2. ASSUME t \in Slots, h <= t PROVE t \in to
    <3>1. t - h \in 0 .. d - 1 /\ t = h + (t - h) /\ h + (t - h) < N
      BY <1>1, <1>4, <1>8, <2>2
    <3> QED
      BY <1>6, <3>1
  <2>3. ASSUME t \in Slots, t < s PROVE t \in to
    <3>1. /\ t - h + N \in 0 .. d - 1 /\ ~(h + (t - h + N) < N)
          /\ t = h + (t - h + N) - N
      BY <1>1, <1>4, <1>8, <2>3
    <3> QED
      BY <1>6, <3>1
  <2> QED
    BY <2>1, <2>2, <2>3
<1> QED
  BY <1>3, <1>7, <1>8 DEF h

(* A probe begins with nothing behind it, and leaves one slot behind with  *)
(* each step, until it has been everywhere.                                *)
LEMMA ProbeSteps ==
  ASSUME NEW a \in Addresses, NEW s \in Slots
  PROVE  /\ Hash[a] \in Slots /\ Before(a, Hash[a]) = {}
         /\ Before(a, s) \subseteq Slots /\ s \notin Before(a, s)
         /\ NextSlot(s) \in Slots
         /\ NextSlot(s) # Hash[a] => Before(a, NextSlot(s)) = Before(a, s) \cup {s}
         /\ NextSlot(s) = Hash[a] => Before(a, s) \cup {s} = Slots
<1> DEFINE next == NextSlot(s)
<1>1. /\ MaxNumAddresses \in Nat \ {0} /\ Hash[a] \in Slots /\ Slots = 0 .. MaxNumAddresses - 1
      /\ next = IF s = MaxNumAddresses - 1 THEN 0 ELSE s + 1
      /\ next \in Slots
  BY NextSlotIs DEF Slots
<1> HIDE DEF next
<1>2. Before(a, Hash[a]) = {}
  BY <1>1, BeforeIs
<1>3. Before(a, s) \subseteq Slots /\ s \notin Before(a, s)
  BY <1>1, BeforeIs
<1>4. ASSUME next # Hash[a] PROVE Before(a, next) = Before(a, s) \cup {s}
  <2>1. ASSUME NEW t \in Slots PROVE t \in Before(a, next) <=> t \in Before(a, s) \/ t = s
    BY <1>1, <1>4, BeforeIs
  <2>2. \A t \in Before(a, next) : t \in Slots
    <3>1. CASE Hash[a] <= next
      BY <1>1, <3>1, BeforeIs
    <3>2. CASE ~(Hash[a] <= next)
      BY <1>1, <3>2, BeforeIs
    <3> QED
      BY <3>1, <3>2
  <2> QED
    BY <1>3, <2>1, <2>2
<1>5. ASSUME next = Hash[a] PROVE Before(a, s) \cup {s} = Slots
  <2>1. ASSUME NEW t \in Slots PROVE t \in Before(a, s) \/ t = s
    <3>1. CASE s = MaxNumAddresses - 1
      BY <1>1, <1>5, <3>1, BeforeIs
    <3>2. CASE s # MaxNumAddresses - 1
      <4>1. Hash[a] = s + 1 /\ ~(Hash[a] <= s) /\ (Hash[a] <= t \/ t < s \/ t = s)
        BY <1>1, <1>5, <3>2
      <4> QED
        BY <4>1, BeforeIs
    <3> QED
      BY <3>1, <3>2
  <2> QED
    BY <1>3, <2>1
<1> QED
  BY <1>1, <1>2, <1>3, <1>4, <1>5 DEF next

(* The slots before s are slots, and other ones.                           *)
LEMMA BeforeSlots ==
  \A a \in Addresses, s \in Slots : \A t \in Before(a, s) : t \in Slots /\ t # s
BY ProbeSteps

-----------------------------------------------------------------------------
(* Lemmas on the stack of interrupts.                                      *)

(* An interrupt comes.                                                     *)
LEMMA Pushed ==
  ASSUME NEW S, NEW s \in Seq(S), IsInjective(s), NEW c \in S, c \notin Range(s)
  PROVE  /\ Append(s, c) \in Seq(S) /\ IsInjective(Append(s, c))
         /\ Range(Append(s, c)) = Range(s) \cup {c}
         /\ Last(Append(s, c)) = c /\ Append(s, c) # <<>>
<1> DEFINE t == Append(s, c)
<1>1. t \in Seq(S) /\ Len(t) = Len(s) + 1 /\ Len(s) \in Nat
  BY AppendProperties
<1>2. /\ DOMAIN s = 1 .. Len(s) /\ DOMAIN t = 1 .. Len(s) + 1
      /\ \A i \in DOMAIN s : t[i] = s[i]
      /\ t[Len(s) + 1] = c
  BY AppendProperties
<1> HIDE DEF t
<1>3. DOMAIN t = DOMAIN s \cup {Len(s) + 1}
  BY <1>1, <1>2
<1>4. Range(t) = Range(s) \cup {c}
  <2>1. t[Len(s) + 1] = c /\ Len(s) + 1 \in DOMAIN t /\ DOMAIN s \subseteq DOMAIN t
    BY <1>2, <1>3
  <2>2. Range(s) \cup {c} \subseteq Range(t)
    BY <1>2, <2>1 DEF Range
  <2>3. Range(t) \subseteq Range(s) \cup {c}
    BY <1>2, <1>3 DEF Range
  <2> QED
    BY <2>2, <2>3
<1>5. IsInjective(t)
  BY <1>2, <1>3 DEF IsInjective, Range
<1>6. Last(t) = c
  BY <1>1, <1>2 DEF Last
<1> QED
  BY <1>1, <1>4, <1>5, <1>6 DEF t

(* The running interrupt returns.                                          *)
LEMMA Popped ==
  ASSUME NEW S, NEW s \in Seq(S), IsInjective(s), s # <<>>
  PROVE  /\ Front(s) \in Seq(S) /\ IsInjective(Front(s))
         /\ Range(Front(s)) = Range(s) \ {Last(s)} /\ Last(s) \in Range(s)
         /\ Len(s) = 1 <=> Front(s) = <<>>
<1> DEFINE t == Front(s)
<1>1. /\ Len(s) \in Nat /\ DOMAIN s = 1 .. Len(s) /\ Len(s) > 0
      /\ \A i \in DOMAIN s : s[i] \in S
  BY EmptySeq
<1>2. /\ t \in Seq(S) /\ Len(t) = Len(s) - 1
      /\ \A i \in 1 .. Len(s) - 1 : t[i] = s[i]
  BY <1>1, SubSeqProperties DEF Front
<1>3. DOMAIN t = 1 .. Len(s) - 1 /\ DOMAIN s = DOMAIN t \cup {Len(s)}
  BY <1>1, <1>2
<1> HIDE DEF t
<1>4. IsInjective(t)
  BY <1>1, <1>2, <1>3 DEF IsInjective
<1>5. Range(s) = Range(t) \cup {Last(s)}
  BY <1>1, <1>2, <1>3 DEF Range, Last
<1>6. Last(s) \notin Range(t)
  BY <1>1, <1>2, <1>3 DEF Range, Last, IsInjective
<1>7. Len(s) = 1 <=> t = <<>>
  BY <1>1, <1>2, EmptySeq
<1> QED
  BY <1>2, <1>4, <1>5, <1>6, <1>7 DEF t
-----------------------------------------------------------------------------
(* The invariant the proofs are built on.                                  *)

Entry == [address : Addresses \cup {ZeroAddress}, valid : BOOLEAN,
          boardNumber : Cards \cup {NoBoard}]
Table == [Slots -> Entry]

Pcs      == {"dest", "destValid", "destBoard", "source", "sourceValid", "insert",
             "update", "return"}
ForSource == {"source", "sourceValid", "insert"}     \* the probe for the source
Calls == [pc : Pcs, addr : Addresses, source : Addresses, pass : BOOLEAN,
          word : WordIds, curr : Slots \cup {Nowhere}, met : {"none", "other", "same"}]

(* A call that interrupts others or waits for them.                        *)
CallOK(me) ==
  /\ me \in Calls
  /\ me.curr = Nowhere <=> me.pc = "return"
  /\ me.pc \in ForSource \cup {"update"} => me.addr = me.source /\ me.source \in Stations

(* A slot has an address once it is taken, as FreeSlot has none.           *)
SlotsOK(table) ==
  \A s \in Slots : IF table[s].valid THEN table[s].address \in Addresses
                                     ELSE table[s].address = ZeroAddress

TypeInv ==
  /\ hashTable \in Table /\ SlotsOK(hashTable)
  /\ stack \in Seq(Cards) /\ IsInjective(stack)
  /\ call = [c \in Cards |-> call[c]]
  /\ \A c \in Cards : IF c \in Range(stack) THEN CallOK(call[c]) ELSE call[c] = NoCall
  /\ main \in {NoLookUp, Exited} \cup [pc : {"found"}, addr : Stations, curr : Slots]
  /\ heard \in [Stations -> SUBSET Cards] /\ known \subseteq Stations

(* A probe for the source leaves no free slot behind, even while it is     *)
(* interrupted: taken slots stay taken.                                    *)
Passed(table, me) ==
  me.pc \in ForSource => \A t \in Before(me.addr, me.curr) : table[t].valid
Probing == \A c \in Range(stack) : Passed(hashTable, call[c])

(* Address a is found in slot s, and no call is about to write a slot that *)
(* the probe for a visits.                                                 *)
Safe(a, s) ==
  /\ Finds(hashTable, a, s)
  /\ \A c \in Range(stack) : call[c].pc = "insert" => call[c].curr \notin Before(a, s) \cup {s}
Settled ==
  /\ \A a \in known : \E s \in Slots : Safe(a, s)
  /\ main.pc = "found" => Safe(main.addr, main.curr)

(* What a call that was not interrupted knows of the table.                *)
Undisturbed(table, me) ==
  /\ me.pc \in ForSource =>
       \A t \in Before(me.addr, me.curr) : table[t].address # me.addr
  /\ me.pc = "source" =>
       \A w \in 1 .. me.word - 1 : table[me.curr].address[w] = me.addr[w]
  /\ me.pc = "sourceValid" => table[me.curr].address # me.addr
  /\ me.pc = "insert" => ~table[me.curr].valid
  /\ me.pc = "update" => Finds(table, me.addr, me.curr)
  /\ me.pc = "return" /\ me.source \in Stations =>
       \A s \in Slots : table[s].valid /\ table[s].address # me.source
Quiet ==
  \A c \in Range(stack) : call[c].met = "none" =>
    c = Last(stack) /\ Undisturbed(hashTable, call[c])

IInv == TypeInv /\ ChainsUnbroken /\ Probing /\ Settled /\ Quiet
-----------------------------------------------------------------------------
(* Lemmas on the records of the calls.                                     *)

(* A hash is a slot, and the first word comes before the last.             *)
LEMMA Sizes ==
  /\ 1 \in WordIds /\ NumWords \in WordIds /\ NumWords \in Nat
  /\ Nowhere \notin Slots /\ Slots \subseteq Int /\ WordIds = 1 .. NumWords
  /\ \A a \in Addresses : Hash[a] \in Slots
BY DEF WordIds, Slots, Nowhere

(* A call at another place of bridge.                                      *)
LEMMA GotoFields ==
  ASSUME NEW me \in Calls, NEW pc \in Pcs
  PROVE  LET next == [me EXCEPT !.pc = pc, !.word = 1]
         IN  /\ next \in Calls /\ next.pc = pc /\ next.word = 1 /\ next.curr = me.curr
             /\ next.addr = me.addr /\ next.source = me.source /\ next.met = me.met
BY Sizes DEF Calls

(* A probe begins or goes on.                                              *)
LEMMA ProbeFields ==
  ASSUME NEW me \in Calls, NEW pc \in Pcs, NEW a \in Addresses, NEW s \in Slots \cup {Nowhere}
  PROVE  LET next == Probe(me, pc, a, s)
         IN  /\ next \in Calls /\ next.pc = pc /\ next.word = 1 /\ next.curr = s
             /\ next.addr = a /\ next.source = me.source /\ next.met = me.met
BY Sizes DEF Calls, Probe

(* After the destination: nothing is known of the source yet.              *)
LEMMA SourceOfOK ==
  ASSUME NEW me \in Calls, NEW table
  PROVE  /\ CallOK(SourceOf(me)) /\ SourceOf(me).met = me.met
         /\ SourceOf(me).pc \in {"return", "source"}
         /\ Passed(table, SourceOf(me)) /\ Undisturbed(table, SourceOf(me))
<1>1. me.source \in Addresses
  BY DEF Calls
<1>2. CASE me.source \in Groups
  <2> DEFINE next == Probe(me, "return", me.source, Nowhere)
  <2>1. SourceOf(me) = next
    BY <1>2 DEF SourceOf
  <2>2. /\ next \in Calls /\ next.pc = "return" /\ next.curr = Nowhere
        /\ next.source = me.source /\ next.met = me.met
    <3>1. "return" \in Pcs /\ Nowhere \in Slots \cup {Nowhere}
      BY DEF Pcs
    <3> QED
      BY <1>1, <3>1, ProbeFields
  <2> HIDE DEF next
  <2>3. next.source \notin Stations
    BY <1>2, <2>2
  <2> QED
    BY <2>1, <2>2, <2>3 DEF CallOK, Passed, Undisturbed, ForSource
<1>3. CASE me.source \notin Groups
  <2> DEFINE next == Probe(me, "source", me.source, Hash[me.source])
  <2>1. SourceOf(me) = next
    BY <1>3 DEF SourceOf
  <2>2. /\ next \in Calls /\ next.pc = "source" /\ next.curr = Hash[me.source]
        /\ next.addr = me.source /\ next.source = me.source /\ next.met = me.met
        /\ next.word = 1
    <3>1. "source" \in Pcs /\ Hash[me.source] \in Slots \cup {Nowhere}
      BY <1>1, Sizes DEF Pcs
    <3> QED
      BY <1>1, <3>1, ProbeFields
  <2> HIDE DEF next
  <2>3. next.source \in Stations
    BY <1>1, <1>3, <2>2 DEF Addresses
  <2>4. Before(next.addr, next.curr) = {}
    <3>1. Before(me.source, Hash[me.source]) = {}
      BY <1>1, Sizes, ProbeSteps
    <3> QED
      BY <2>2, <3>1
  <2>5. 1 .. next.word - 1 = {} /\ next.curr # Nowhere
    BY <1>1, <2>2, Sizes
  <2> QED
    BY <2>1, <2>2, <2>3, <2>4, <2>5 DEF CallOK, Passed, Undisturbed
<1> QED
  BY <1>2, <1>3

(* The running call is the last on the stack.                              *)
LEMMA RunningLast ==
  ASSUME IInv, NEW c \in Cards, Running(c)
  PROVE  /\ stack # <<>> /\ c = Last(stack) /\ c \in Range(stack)
         /\ CallOK(call[c]) /\ call[c] \in Calls
         /\ Passed(hashTable, call[c])
         /\ call[c].met = "none" => Undisturbed(hashTable, call[c])
<1>1. stack # <<>> /\ c = Last(stack) /\ stack \in Seq(Cards) /\ IsInjective(stack)
  BY DEF IInv, TypeInv, Running
<1>2. c \in Range(stack)
  BY <1>1, Popped
<1> QED
  BY <1>1, <1>2 DEF IInv, TypeInv, Probing, Quiet, CallOK

(* What a call in progress is not.                                         *)
LEMMA NotIdle ==
  \A me \in Calls : me # NoCall
<1>1. NoCall.pc = "idle"
  BY DEF NoCall
<1>2. \A me \in Calls : me.pc # "idle"
  BY DEF Calls, Pcs
<1> QED
  BY <1>1, <1>2

-----------------------------------------------------------------------------
(* The steps of bridge.                                                    *)

(* A step of the running call that leaves the table alone.                 *)
LEMMA LocalIInv ==
  ASSUME IInv, NEW c \in Cards, Running(c), NEW next,
         CallOK(next), next.met = call[c].met, Passed(hashTable, next),
         next.pc = "insert" => ~hashTable[next.curr].valid,
         call[c].met = "none" => Undisturbed(hashTable, next),
         call' = [call EXCEPT ![c] = next],
         UNCHANGED <<hashTable, stack, main, heard, known>>
  PROVE  IInv'
<1>1. /\ call'[c] = next /\ \A d \in Cards \ {c} : call'[d] = call[d]
      /\ call' = [d \in Cards |-> call'[d]]
      /\ c \in Range(stack) /\ c = Last(stack) /\ Range(stack) \subseteq Cards
  <2>1. Range(stack) \subseteq Cards
    BY DEF IInv, TypeInv, Range
  <2>2. call = [d \in Cards |-> call[d]]
    BY DEF IInv, TypeInv
  <2> QED
    BY <2>1, <2>2, RunningLast
<1>2. TypeInv'
  BY <1>1 DEF IInv, TypeInv
<1>3. ChainsUnbroken'
  BY DEF IInv, ChainsUnbroken
<1>4. Probing'
  BY <1>1 DEF IInv, Probing
<1>5. ASSUME NEW a \in Stations, NEW s \in Slots, Safe(a, s) PROVE Safe(a, s)'
  <2>1. \A t \in Before(a, s) \cup {s} : hashTable[t].valid
    BY <1>5, AddressAssumption DEF IInv, TypeInv, SlotsOK, Safe, Finds, Addresses
  <2> QED
    BY <1>1, <1>5, <2>1 DEF Safe
<1>6. Settled'
  <2>1. \A a \in known' : \E s \in Slots : Safe(a, s)'
    BY <1>5 DEF IInv, TypeInv, Settled
  <2>2. ASSUME main.pc = "found" PROVE Safe(main.addr, main.curr)'
    <3>1. main.addr \in Stations /\ main.curr \in Slots
      BY <2>2 DEF IInv, TypeInv, NoLookUp, Exited
    <3> QED
      BY <1>5, <2>2, <3>1 DEF IInv, Settled
  <2> QED
    BY <2>1, <2>2 DEF Settled
<1>7. Quiet'
  BY <1>1 DEF IInv, Quiet
<1> QED
  BY <1>2, <1>3, <1>4, <1>6, <1>7 DEF IInv

(* Goto gives the call its new place.                                      *)
LEMMA GotoIs ==
  ASSUME IInv, NEW c \in Cards, NEW pc, Goto(c, pc)
  PROVE  call' = [call EXCEPT ![c] = [call[c] EXCEPT !.pc = pc, !.word = 1]]
<1>1. call = [d \in Cards |-> call[d]]
  BY DEF IInv, TypeInv
<1> QED
  BY <1>1 DEF Goto

(* One word is compared.                                                   *)
LEMMA CompareIInv ==
  ASSUME IInv, NEW c \in Cards, Compare(c)
  PROVE  IInv'
<1> DEFINE me    == call[c]
           equal == hashTable[me.curr].address[me.word] = me.addr[me.word]
<1>1. /\ Running(c) /\ me.pc \in {"dest", "source"}
      /\ UNCHANGED <<hashTable, stack, main, heard, known>>
  BY DEF Compare
<1>2. /\ CallOK(me) /\ me \in Calls /\ Passed(hashTable, me)
      /\ me.met = "none" => Undisturbed(hashTable, me)
  BY <1>1, RunningLast
<1>3. /\ me.curr \in Slots /\ me.word \in 1 .. NumWords
      /\ me.pc = "source" => me.addr = me.source /\ me.source \in Stations
  BY <1>1, <1>2, Sizes DEF CallOK, Calls, ForSource
<1>4. ASSUME NEW pc \in Pcs,
             \/ ~equal /\ me.pc = "dest" /\ pc = "destValid"
             \/ ~equal /\ me.pc = "source" /\ pc = "sourceValid"
             \/ equal /\ me.word = NumWords /\ me.pc = "dest" /\ pc = "destBoard"
             \/ equal /\ me.word = NumWords /\ me.pc = "source" /\ pc = "update",
             Goto(c, pc)
      PROVE  IInv'
  <2> DEFINE next == [me EXCEPT !.pc = pc, !.word = 1]
  <2>1. /\ next \in Calls /\ next.pc = pc /\ next.word = 1 /\ next.curr = me.curr
        /\ next.addr = me.addr /\ next.source = me.source /\ next.met = me.met
    BY <1>2, GotoFields
  <2>2. call' = [call EXCEPT ![c] = next]
    BY <1>4, GotoIs
  <2> HIDE DEF next
  <2>3. CallOK(next) /\ next.pc # "insert"
    BY <1>2, <1>3, <1>4, <2>1 DEF CallOK, ForSource
  <2>4. Passed(hashTable, next)
    BY <1>2, <1>4, <2>1 DEF Passed, ForSource
  <2>5. ASSUME me.met = "none" PROVE Undisturbed(hashTable, next)
    <3>1. CASE me.pc = "dest"
      BY <1>4, <2>1, <3>1 DEF Undisturbed, ForSource
    <3>2. CASE ~equal /\ me.pc = "source" /\ pc = "sourceValid"
      <4>1. hashTable[me.curr].address # me.addr
        BY <3>2
      <4> QED
        BY <1>2, <2>1, <2>5, <3>2, <4>1 DEF Undisturbed, ForSource
    <3>3. CASE equal /\ me.word = NumWords /\ me.pc = "source" /\ pc = "update"
      <4>1. \A w \in WordIds : hashTable[me.curr].address[w] = me.addr[w]
        BY <1>2, <1>3, <2>5, <3>3, Sizes DEF Undisturbed
      <4>2. hashTable[me.curr].address \in [WordIds -> Nat]
        BY <1>3, AddressAssumption DEF IInv, TypeInv, Table, Entry, ZeroAddress
      <4>3. me.addr \in [WordIds -> Nat]
        BY <1>2, AddressAssumption DEF Calls
      <4>4. hashTable[me.curr].address = me.addr
        BY <4>1, <4>2, <4>3
      <4>5. Finds(hashTable, me.addr, me.curr)
        BY <1>2, <2>5, <3>3, <4>4 DEF Passed, Undisturbed, Finds, ForSource
      <4> QED
        BY <2>1, <3>3, <4>5 DEF Undisturbed, ForSource
    <3> QED
      BY <1>4, <3>1, <3>2, <3>3
  <2> QED
    BY <1>1, <2>1, <2>2, <2>3, <2>4, <2>5, LocalIInv
<1>5. ASSUME equal, me.word < NumWords, call' = [call EXCEPT ![c].word = @ + 1]
      PROVE  IInv'
  <2> DEFINE next == [me EXCEPT !.word = @ + 1]
  <2>1. me.word + 1 \in WordIds /\ me.word \in WordIds
    BY <1>3, <1>5, Sizes
  <2>2. /\ next \in Calls /\ next.pc = me.pc /\ next.word = me.word + 1 /\ next.curr = me.curr
        /\ next.addr = me.addr /\ next.source = me.source /\ next.met = me.met
    BY <1>2, <2>1 DEF Calls
  <2>3. call' = [call EXCEPT ![c] = next]
    BY <1>5
  <2> HIDE DEF next
  <2>4. CallOK(next) /\ next.pc # "insert"
    BY <1>1, <1>2, <2>2 DEF CallOK, ForSource
  <2>5. Passed(hashTable, next)
    BY <1>2, <2>2 DEF Passed
  <2>6. ASSUME me.met = "none" PROVE Undisturbed(hashTable, next)
    <3>1. ASSUME me.pc = "source", NEW w \in 1 .. next.word - 1
          PROVE  hashTable[me.curr].address[w] = me.addr[w]
      <4>1. w \in 1 .. me.word - 1 \/ w = me.word
        BY <1>3, <2>2, <3>1
      <4> QED
        BY <1>2, <1>5, <2>6, <3>1, <4>1 DEF Undisturbed
    <3> QED
      BY <1>1, <1>2, <2>2, <2>6, <3>1 DEF Undisturbed, ForSource
  <2> QED
    BY <1>1, <2>2, <2>3, <2>4, <2>5, <2>6, LocalIInv
<1>6. \/ ~equal /\ Goto(c, IF me.pc = "dest" THEN "destValid" ELSE "sourceValid")
      \/ equal /\ me.word < NumWords /\ call' = [call EXCEPT ![c].word = @ + 1]
      \/ equal /\ me.word = NumWords /\ Goto(c, IF me.pc = "dest" THEN "destBoard" ELSE "update")
  BY DEF Compare
<1> HIDE DEF equal
<1>7. CASE ~equal /\ Goto(c, IF me.pc = "dest" THEN "destValid" ELSE "sourceValid")
  <2>1. CASE me.pc = "dest"
    BY <1>4, <1>7, <2>1 DEF Pcs
  <2>2. CASE me.pc = "source"
    BY <1>4, <1>7, <2>2 DEF Pcs
  <2> QED
    BY <1>1, <2>1, <2>2
<1>8. CASE /\ equal /\ me.word = NumWords
           /\ Goto(c, IF me.pc = "dest" THEN "destBoard" ELSE "update")
  <2>1. CASE me.pc = "dest"
    BY <1>4, <1>8, <2>1 DEF Pcs
  <2>2. CASE me.pc = "source"
    BY <1>4, <1>8, <2>2 DEF Pcs
  <2> QED
    BY <1>1, <2>1, <2>2
<1> QED
  BY <1>5, <1>6, <1>7, <1>8

(* The probe for the destination goes on, or ends.                         *)
LEMMA DestValidIInv ==
  ASSUME IInv, NEW c \in Cards, DestValid(c)
  PROVE  IInv'
<1> DEFINE me == call[c]
           next == NextSlot(me.curr)
<1>1. /\ Running(c) /\ me.pc = "destValid"
      /\ UNCHANGED <<hashTable, stack, main, heard, known>>
  BY DEF DestValid
<1>2. CallOK(me) /\ me \in Calls
  BY <1>1, RunningLast
<1>3. CASE call' = [call EXCEPT ![c] = SourceOf(me)]
  BY <1>1, <1>2, <1>3, SourceOfOK, LocalIInv
<1>4. CASE call' = [call EXCEPT ![c] = Probe(me, "dest", me.addr, next)]
  <2> DEFINE on == Probe(me, "dest", me.addr, next)
  <2>1. me.curr \in Slots /\ me.addr \in Addresses
    BY <1>1, <1>2 DEF CallOK, Calls
  <2>2. next \in Slots
    BY <2>1, NextSlotIs
  <2>3. on \in Calls /\ on.pc = "dest" /\ on.curr = next /\ on.met = me.met
    <3>1. "dest" \in Pcs
      BY DEF Pcs
    <3> QED
      BY <1>2, <2>1, <2>2, <3>1, ProbeFields
  <2>4. call' = [call EXCEPT ![c] = on]
    BY <1>4
  <2> HIDE DEF on, next
  <2>5. CallOK(on) /\ Passed(hashTable, on) /\ Undisturbed(hashTable, on)
    BY <2>2, <2>3, Sizes DEF CallOK, Passed, Undisturbed, ForSource
  <2> QED
    BY <1>1, <2>3, <2>4, <2>5, LocalIInv
<1> QED
  BY <1>3, <1>4 DEF DestValid

(* The board of the destination is looked at.                              *)
LEMMA DestBoardIInv ==
  ASSUME IInv, NEW c \in Cards, DestBoard(c)
  PROVE  IInv'
<1> DEFINE me == [call[c] EXCEPT !.pass = hashTable[call[c].curr].boardNumber # c]
<1>1. /\ Running(c) /\ call' = [call EXCEPT ![c] = SourceOf(me)]
      /\ UNCHANGED <<hashTable, stack, main, heard, known>>
  BY DEF DestBoard
<1>2. call[c] \in Calls
  BY <1>1, RunningLast
<1>3. me \in Calls /\ me.met = call[c].met
  BY <1>2 DEF Calls
<1> HIDE DEF me
<1> QED
  BY <1>1, <1>3, SourceOfOK, LocalIInv

(* The probe for the source ends at a free slot or where it began, or goes *)
(* on.                                                                     *)
LEMMA SourceValidIInv ==
  ASSUME IInv, NEW c \in Cards, SourceValid(c)
  PROVE  IInv'
<1> DEFINE me == call[c]
           next == NextSlot(me.curr)
<1>1. /\ Running(c) /\ me.pc = "sourceValid"
      /\ UNCHANGED <<hashTable, stack, main, heard, known>>
  BY DEF SourceValid
<1>2. /\ CallOK(me) /\ me \in Calls /\ Passed(hashTable, me)
      /\ me.met = "none" => Undisturbed(hashTable, me)
  BY <1>1, RunningLast
<1>3. /\ me.curr \in Slots /\ me.addr \in Addresses
      /\ me.addr = me.source /\ me.source \in Stations
  BY <1>1, <1>2 DEF CallOK, Calls, ForSource
<1>4. /\ \A t \in Before(me.addr, me.curr) : hashTable[t].valid
      /\ me.met = "none" =>
           /\ \A t \in Before(me.addr, me.curr) : hashTable[t].address # me.addr
           /\ hashTable[me.curr].address # me.addr
  BY <1>1, <1>2 DEF Passed, Undisturbed, ForSource
<1>5. /\ next \in Slots
      /\ next # Hash[me.addr] => Before(me.addr, next) = Before(me.addr, me.curr) \cup {me.curr}
      /\ next = Hash[me.addr] => Before(me.addr, me.curr) \cup {me.curr} = Slots
  BY <1>3, ProbeSteps
<1> HIDE DEF next
<1>6. CASE ~hashTable[me.curr].valid /\ Goto(c, "insert")
  <2> DEFINE on == [me EXCEPT !.pc = "insert", !.word = 1]
  <2>1. /\ on \in Calls /\ on.pc = "insert" /\ on.word = 1 /\ on.curr = me.curr
        /\ on.addr = me.addr /\ on.source = me.source /\ on.met = me.met
    <3>1. "insert" \in Pcs
      BY DEF Pcs
    <3> QED
      BY <1>2, <3>1, GotoFields
  <2>2. call' = [call EXCEPT ![c] = on]
    BY <1>6, GotoIs
  <2> HIDE DEF on
  <2>3. CallOK(on) /\ Passed(hashTable, on)
    BY <1>3, <1>4, <2>1, Sizes DEF CallOK, Passed
  <2>4. me.met = "none" => Undisturbed(hashTable, on)
    BY <1>4, <1>6, <2>1 DEF Undisturbed
  <2> QED
    BY <1>1, <1>6, <2>1, <2>2, <2>3, <2>4, LocalIInv
<1>7. CASE /\ hashTable[me.curr].valid /\ next = Hash[me.addr]
           /\ call' = [call EXCEPT ![c] = Probe(me, "return", me.addr, Nowhere)]
  <2> DEFINE on == Probe(me, "return", me.addr, Nowhere)
  <2>1. /\ on \in Calls /\ on.pc = "return" /\ on.curr = Nowhere /\ on.met = me.met
        /\ on.source = me.source
    <3>1. "return" \in Pcs /\ Nowhere \in Slots \cup {Nowhere}
      BY DEF Pcs
    <3> QED
      BY <1>2, <1>3, <3>1, ProbeFields
  <2>2. call' = [call EXCEPT ![c] = on]
    BY <1>7
  <2> HIDE DEF on
  <2>3. CallOK(on) /\ Passed(hashTable, on)
    BY <2>1 DEF CallOK, Passed, ForSource
  <2>4. \A s \in Slots : /\ hashTable[s].valid
                         /\ me.met = "none" => hashTable[s].address # me.source
    BY <1>3, <1>4, <1>5, <1>7
  <2>5. me.met = "none" => Undisturbed(hashTable, on)
    BY <2>1, <2>4 DEF Undisturbed, ForSource
  <2> QED
    BY <1>1, <2>1, <2>2, <2>3, <2>5, LocalIInv
<1>8. CASE /\ hashTable[me.curr].valid /\ next # Hash[me.addr]
           /\ call' = [call EXCEPT ![c] = Probe(me, "source", me.addr, next)]
  <2> DEFINE on == Probe(me, "source", me.addr, next)
  <2>1. /\ on \in Calls /\ on.pc = "source" /\ on.curr = next /\ on.met = me.met /\ on.word = 1
        /\ on.addr = me.addr /\ on.source = me.source
    <3>1. "source" \in Pcs /\ next \in Slots \cup {Nowhere}
      BY <1>5 DEF Pcs
    <3> QED
      BY <1>2, <1>3, <3>1, ProbeFields
  <2>2. call' = [call EXCEPT ![c] = on]
    BY <1>8
  <2> HIDE DEF on
  <2>3. CallOK(on) /\ Passed(hashTable, on)
    BY <1>3, <1>4, <1>5, <1>8, <2>1, Sizes DEF CallOK, Passed
  <2>4. 1 .. on.word - 1 = {}
    BY <2>1
  <2>5. me.met = "none" => Undisturbed(hashTable, on)
    BY <1>4, <1>5, <1>8, <2>1, <2>4 DEF Undisturbed
  <2> QED
    BY <1>1, <2>1, <2>2, <2>3, <2>5, LocalIInv
<1> QED
  BY <1>6, <1>7, <1>8 DEF SourceValid, next

(* The source is written into the slot the probe found free: whatever has  *)
(* become of that slot since, no probe is cut short, and none that must    *)
(* still find its address comes by.                                        *)
LEMMA InsertIInv ==
  ASSUME IInv, NEW c \in Cards, Insert(c)
  PROVE  IInv'
<1> DEFINE me   == call[c]
           x    == me.curr
           new  == [address |-> me.source, valid |-> TRUE, boardNumber |-> c]
           next == [me EXCEPT !.pc = "update", !.word = 1]
<1>1. /\ Running(c) /\ me.pc = "insert"
      /\ hashTable' = [hashTable EXCEPT ![x] = new]
      /\ call' = [call EXCEPT ![c] = next]
      /\ UNCHANGED <<stack, main, heard, known>>
  BY GotoIs DEF Insert
<1>2. /\ CallOK(me) /\ me \in Calls /\ Passed(hashTable, me)
      /\ me.met = "none" => Undisturbed(hashTable, me)
      /\ c \in Range(stack) /\ c = Last(stack) /\ Range(stack) \subseteq Cards
  <2>1. Range(stack) \subseteq Cards
    BY DEF IInv, TypeInv, Range
  <2> QED
    BY <1>1, <2>1, RunningLast
<1>3. x \in Slots /\ me.addr = me.source /\ me.source \in Stations /\ me.source \in Addresses
  BY <1>1, <1>2 DEF CallOK, Calls, ForSource
<1>4. /\ next \in Calls /\ next.pc = "update" /\ next.word = 1 /\ next.curr = x
      /\ next.addr = me.addr /\ next.source = me.source /\ next.met = me.met
  <2>1. "update" \in Pcs
    BY DEF Pcs
  <2> QED
    BY <1>2, <2>1, GotoFields
<1>5. /\ new \in Entry /\ new.address = me.source /\ new.valid = TRUE
      /\ hashTable \in Table
  BY <1>3 DEF Entry, IInv, TypeInv
<1> HIDE DEF new, next, x, me
<1>6. /\ hashTable' \in Table /\ hashTable'[x] = new
      /\ \A s \in Slots \ {x} : hashTable'[s] = hashTable[s]
      /\ \A s \in Slots : hashTable[s].valid => hashTable'[s].valid
  BY <1>1, <1>3, <1>5 DEF Table
<1>7. /\ call'[c] = next /\ \A d \in Cards \ {c} : call'[d] = call[d]
      /\ call' = [d \in Cards |-> call'[d]]
  <2>1. call = [d \in Cards |-> call[d]]
    BY DEF IInv, TypeInv
  <2> QED
    BY <1>1, <2>1
<1>8. TypeInv'
  <2>1. SlotsOK(hashTable')
    BY <1>3, <1>5, <1>6 DEF SlotsOK, IInv, TypeInv
  <2>2. CallOK(next)
    BY <1>3, <1>4, Sizes DEF CallOK
  <2>3. \A d \in Cards : IF d \in Range(stack) THEN CallOK(call'[d]) ELSE call'[d] = NoCall
    BY <1>2, <1>7, <2>2 DEF IInv, TypeInv
  <2> QED
    BY <1>1, <1>6, <1>7, <2>1, <2>3 DEF IInv, TypeInv
<1>9. \A t \in Before(me.source, x) : t # x /\ hashTable[t].valid /\ hashTable'[t].valid /\ t \in Slots
  <2>1. \A t \in Before(me.source, x) : t # x /\ t \in Slots
    BY <1>3, BeforeSlots
  <2>2. me.pc \in ForSource
    BY <1>1 DEF ForSource, me
  <2> QED
    BY <1>2, <1>3, <1>6, <2>1, <2>2 DEF Passed, x
<1>10. ChainsUnbroken'
  <2> SUFFICES ASSUME NEW s \in Slots, hashTable'[s].valid,
                      NEW t \in Before(hashTable'[s].address, s)
               PROVE  hashTable'[t].valid
    BY DEF ChainsUnbroken
  <2>1. CASE s = x
    BY <1>5, <1>6, <1>9, <2>1
  <2>2. CASE s # x
    <3>1. hashTable'[s] = hashTable[s] /\ hashTable[s].address \in Addresses
      BY <1>6, <2>2 DEF IInv, TypeInv, SlotsOK
    <3>2. t \in Slots /\ hashTable[t].valid
      BY <3>1, ProbeSteps DEF IInv, ChainsUnbroken
    <3> QED
      BY <1>6, <3>2
  <2> QED
    BY <2>1, <2>2
<1>11. Probing'
  <2> SUFFICES ASSUME NEW d \in Range(stack), call'[d].pc \in ForSource,
                      NEW t \in Before(call'[d].addr, call'[d].curr)
               PROVE  hashTable'[t].valid
    BY <1>1 DEF Probing, Passed
  <2>1. d # c
    BY <1>4, <1>7 DEF ForSource
  <2>2. call'[d] = call[d] /\ CallOK(call[d]) /\ hashTable[t].valid
    BY <1>2, <1>7, <2>1 DEF IInv, TypeInv, Probing, Passed
  <2>3. call[d].curr \in Slots /\ call[d].addr \in Addresses
    BY <2>2 DEF CallOK, Calls, ForSource
  <2>4. t \in Slots
    BY <2>2, <2>3, BeforeSlots
  <2> QED
    BY <1>6, <2>2, <2>4
<1>12. ASSUME NEW a \in Stations, NEW s \in Slots, Safe(a, s) PROVE Safe(a, s)'
  <2>1. x \notin Before(a, s) \cup {s} /\ a \in Addresses
    BY <1>1, <1>2, <1>12 DEF Safe, Addresses, me, x
  <2>2. \A t \in Before(a, s) \cup {s} : hashTable'[t] = hashTable[t]
    BY <1>6, <2>1, BeforeSlots
  <2>3. Finds(hashTable', a, s)
    BY <1>12, <2>2 DEF Safe, Finds
  <2> QED
    BY <1>1, <1>2, <1>4, <1>7, <1>12, <2>3 DEF Safe
<1>13. Settled'
  <2>1. \A a \in known' : \E s \in Slots : Safe(a, s)'
    BY <1>1, <1>12 DEF IInv, TypeInv, Settled
  <2>2. ASSUME main.pc = "found" PROVE Safe(main.addr, main.curr)'
    <3>1. main.addr \in Stations /\ main.curr \in Slots
      BY <2>2 DEF IInv, TypeInv, NoLookUp, Exited
    <3> QED
      BY <1>1, <1>12, <2>2, <3>1 DEF IInv, Settled
  <2> QED
    BY <1>1, <2>1, <2>2 DEF Settled
<1>14. Quiet'
  <2> SUFFICES ASSUME NEW d \in Range(stack), call'[d].met = "none"
               PROVE  d = Last(stack) /\ Undisturbed(hashTable', call'[d])
    BY <1>1 DEF Quiet
  <2>1. d = c
    <3>1. CASE d # c
      <4>1. call[d].met = "none"
        BY <1>2, <1>7, <3>1
      <4> QED
        BY <1>2, <4>1 DEF IInv, Quiet
    <3> QED
      BY <3>1
  <2>2. Undisturbed(hashTable, me)
    BY <1>2, <1>4, <1>7, <2>1
  <2>3. \A t \in Before(me.source, x) : hashTable'[t].address # me.source
    <3>1. me.pc \in ForSource
      BY <1>1 DEF ForSource, me
    <3> QED
      BY <1>3, <1>6, <1>9, <2>2, <3>1 DEF Undisturbed, x
  <2>4. Finds(hashTable', me.source, x)
    BY <1>5, <1>6, <1>9, <2>3 DEF Finds
  <2>5. Undisturbed(hashTable', next)
    BY <1>3, <1>4, <2>4 DEF Undisturbed, ForSource
  <2> QED
    BY <1>2, <1>7, <2>1, <2>5
<1> QED
  BY <1>8, <1>10, <1>11, <1>13, <1>14 DEF IInv

(* A call returns; nothing but boards has changed.                         *)
LEMMA ReturnIInv ==
  ASSUME IInv, NEW c \in Cards, Running(c), NEW table \in Table,
         \A s \in Slots : /\ table[s].address = hashTable[s].address
                          /\ table[s].valid = hashTable[s].valid,
         hashTable' = table, Return(c, table), UNCHANGED main
  PROVE  IInv'
<1> DEFINE a == call[c].source
           same  == {d \in Range(Front(stack)) : call[d].source = a}
           cards == IF call[c].met = "same" THEN heard[a] \cup {c} ELSE {c}
<1>1. /\ stack' = Front(stack)
      /\ heard' = IF a \in Stations THEN [heard EXCEPT ![a] = cards \cup same] ELSE heard
      /\ known' = IF Len(stack) = 1 THEN known \cup Found(table) ELSE known
      /\ call' = [d \in Cards |->
           CASE d = c -> NoCall
             [] d \in same -> [call[d] EXCEPT !.met = "same"]
             [] OTHER -> call[d]]
  BY DEF Return, Ended
<1>2. /\ c = Last(stack) /\ stack # <<>>
      /\ stack' \in Seq(Cards) /\ IsInjective(stack')
      /\ Range(stack') = Range(stack) \ {c}
      /\ Len(stack) = 1 <=> stack' = <<>>
      /\ Range(stack) \subseteq Cards /\ c \in Range(stack)
  <2>1. stack \in Seq(Cards) /\ IsInjective(stack) /\ Range(stack) \subseteq Cards
    BY DEF IInv, TypeInv, Range
  <2> QED
    BY <1>1, <2>1, RunningLast, Popped
<1>3. ASSUME NEW d \in Range(stack')
      PROVE  /\ d \in Cards /\ d # c /\ d \in Range(stack) /\ CallOK(call[d])
             /\ CallOK(call'[d]) /\ call'[d].pc = call[d].pc
             /\ call'[d].addr = call[d].addr /\ call'[d].curr = call[d].curr
             /\ call'[d].met # "none"
  <2>1. d \in Cards /\ d # c /\ d \in Range(stack) /\ CallOK(call[d])
    BY <1>2 DEF IInv, TypeInv
  <2>2. call[d].met # "none"
    BY <1>2, <2>1 DEF IInv, Quiet
  <2>3. call'[d] = IF d \in same THEN [call[d] EXCEPT !.met = "same"] ELSE call[d]
    BY <1>1, <2>1
  <2> HIDE DEF same
  <2>4. CASE d \in same
    BY <2>1, <2>3, <2>4 DEF CallOK, Calls
  <2>5. CASE d \notin same
    BY <2>1, <2>2, <2>3, <2>5
  <2> QED
    BY <2>1, <2>4, <2>5
<1>4. TypeInv'
  <2>1. hashTable' \in Table /\ SlotsOK(hashTable')
    BY DEF IInv, TypeInv, SlotsOK
  <2>2. call' = [d \in Cards |-> call'[d]]
    BY <1>1
  <2>3. \A d \in Cards : IF d \in Range(stack') THEN CallOK(call'[d]) ELSE call'[d] = NoCall
    <3>1. ASSUME NEW d \in Cards, d \notin Range(stack') PROVE call'[d] = NoCall
      <4>1. CASE d = c
        <5>1. c \notin same
          BY <1>1, <1>2
        <5> QED
          BY <1>1, <4>1, <5>1
      <4>2. CASE d # c
        BY <1>1, <1>2, <3>1, <4>2 DEF IInv, TypeInv
      <4> QED
        BY <4>1, <4>2
    <3> QED
      BY <1>3, <3>1
  <2>4. heard' \in [Stations -> SUBSET Cards]
    <3>1. same \subseteq Cards
      BY <1>1, <1>2
    <3>2. a \in Stations => cards \subseteq Cards
      BY DEF IInv, TypeInv
    <3> HIDE DEF same, cards, a
    <3> QED
      BY <1>1, <3>1, <3>2 DEF IInv, TypeInv
  <2>5. known' \subseteq Stations
    BY <1>1 DEF IInv, TypeInv, Found
  <2> QED
    BY <1>2, <2>1, <2>2, <2>3, <2>4, <2>5 DEF IInv, TypeInv
<1> HIDE DEF a, same, cards
<1>5. ChainsUnbroken'
  <2> SUFFICES ASSUME NEW s \in Slots, hashTable'[s].valid,
                      NEW t \in Before(hashTable'[s].address, s)
               PROVE  hashTable'[t].valid
    BY DEF ChainsUnbroken
  <2>1. hashTable[s].valid /\ t \in Before(hashTable[s].address, s)
    OBVIOUS
  <2>2. hashTable[t].valid /\ t \in Slots
    BY <2>1, ProbeSteps DEF IInv, TypeInv, ChainsUnbroken, SlotsOK
  <2> QED
    BY <2>2
<1>6. Probing'
  <2> SUFFICES ASSUME NEW d \in Range(stack'), call'[d].pc \in ForSource,
                      NEW t \in Before(call'[d].addr, call'[d].curr)
               PROVE  hashTable'[t].valid
    BY DEF Probing, Passed
  <2>1. d \in Range(stack) /\ CallOK(call[d]) /\ hashTable[t].valid
    BY <1>3 DEF IInv, Probing, Passed
  <2>2. call[d].curr \in Slots /\ call[d].addr \in Addresses
    BY <1>3, <2>1 DEF CallOK, Calls, ForSource
  <2>3. t \in Slots
    BY <1>3, <2>2, ProbeSteps
  <2> QED
    BY <2>1, <2>3
<1>7. \A b \in Addresses, s \in Slots : Finds(hashTable', b, s) <=> Finds(hashTable, b, s)
  <2> SUFFICES ASSUME NEW b \in Addresses, NEW s \in Slots
               PROVE  Finds(hashTable', b, s) <=> Finds(hashTable, b, s)
    OBVIOUS
  <2>1. Before(b, s) \subseteq Slots
    BY ProbeSteps
  <2> QED
    BY <2>1 DEF Finds
<1>8. ASSUME NEW b \in Stations, NEW s \in Slots, Safe(b, s) PROVE Safe(b, s)'
  <2>1. b \in Addresses
    BY DEF Addresses
  <2> QED
    BY <1>3, <1>7, <1>8, <2>1 DEF Safe
<1>9. Settled'
  <2>1. ASSUME NEW b \in known' PROVE \E s \in Slots : Safe(b, s)'
    <3>1. CASE b \in known
      BY <1>8, <3>1 DEF IInv, TypeInv, Settled
    <3>2. CASE b \notin known
      <4>1. Range(stack') = {}
        BY <1>1, <1>2, <2>1, <3>2 DEF Range
      <4>2. \E s \in Slots : Finds(hashTable', b, s)
        BY <1>1, <2>1, <3>2 DEF Found
      <4> QED
        BY <4>1, <4>2 DEF Safe
    <3> QED
      BY <3>1, <3>2
  <2>2. ASSUME main.pc = "found" PROVE Safe(main.addr, main.curr)'
    <3>1. main.addr \in Stations /\ main.curr \in Slots
      BY <2>2 DEF IInv, TypeInv, NoLookUp, Exited
    <3> QED
      BY <1>8, <2>2, <3>1 DEF IInv, Settled
  <2> QED
    BY <2>1, <2>2 DEF Settled
<1>10. Quiet'
  BY <1>3 DEF Quiet
<1> QED
  BY <1>4, <1>5, <1>6, <1>9, <1>10 DEF IInv

(* The board is set, and the call returns.                                 *)
LEMMA UpdateIInv ==
  ASSUME IInv, NEW c \in Cards, Update(c)
  PROVE  IInv'
<1> DEFINE x     == call[c].curr
           table == [hashTable EXCEPT ![x].boardNumber = c]
<1>1. /\ Running(c) /\ call[c].pc = "update" /\ hashTable' = table
      /\ Return(c, table) /\ UNCHANGED main
  BY DEF Update
<1>2. x \in Slots /\ hashTable \in Table
  BY <1>1, RunningLast DEF CallOK, Calls, IInv, TypeInv
<1> HIDE DEF x
<1>3. /\ table \in Table
      /\ \A s \in Slots : /\ table[s].address = hashTable[s].address
                          /\ table[s].valid = hashTable[s].valid
  <2> DEFINE new == [hashTable[x] EXCEPT !.boardNumber = c]
  <2>1. hashTable[x] \in Entry
    BY <1>2 DEF Table
  <2>2. new \in Entry /\ new.address = hashTable[x].address /\ new.valid = hashTable[x].valid
    BY <2>1 DEF Entry
  <2>3. table = [hashTable EXCEPT ![x] = new]
    OBVIOUS
  <2> HIDE DEF new, table
  <2> QED
    BY <1>2, <2>2, <2>3 DEF Table
<1> HIDE DEF table
<1> QED
  BY <1>1, <1>3, ReturnIInv

(* The call returns without a slot.                                        *)
LEMMA ReturnOnlyIInv ==
  ASSUME IInv, NEW c \in Cards, ReturnOnly(c)
  PROVE  IInv'
<1>1. Running(c) /\ Return(c, hashTable) /\ hashTable' = hashTable /\ UNCHANGED main
  BY DEF ReturnOnly
<1>2. hashTable \in Table
  BY DEF IInv, TypeInv
<1> QED
  BY <1>1, <1>2, ReturnIInv

(* A frame arrives: its call begins, and those it interrupts have been     *)
(* interrupted.                                                            *)
LEMMA InterruptIInv ==
  ASSUME IInv, NEW c \in Cards, NEW dest \in Addresses, NEW source \in Addresses,
         Interrupt(c, dest, source)
  PROVE  IInv'
<1> DEFINE me == [pc |-> "dest", addr |-> dest, source |-> source, pass |-> TRUE,
                  word |-> 1, curr |-> Hash[dest], met |-> "none"]
           waiting == [d \in Cards |-> IF call[d] # NoCall /\ call[d].met = "none"
                                      THEN [call[d] EXCEPT !.met = "other"] ELSE call[d]]
           next == IF dest \in Groups THEN SourceOf(me) ELSE me
<1>1. /\ c \notin Range(stack) /\ stack' = Append(stack, c)
      /\ call' = [waiting EXCEPT ![c] = next]
      /\ UNCHANGED <<hashTable, main, heard, known>>
  BY DEF Interrupt
<1>2. /\ stack' \in Seq(Cards) /\ IsInjective(stack')
      /\ Range(stack') = Range(stack) \cup {c}
      /\ c = Last(stack') /\ Range(stack) \subseteq Cards
  <2>1. stack \in Seq(Cards) /\ IsInjective(stack) /\ Range(stack) \subseteq Cards
    BY DEF IInv, TypeInv, Range
  <2> QED
    BY <1>1, <2>1, Pushed
<1>3. /\ CallOK(next) /\ Passed(hashTable, next) /\ Undisturbed(hashTable, next)
      /\ next.pc # "insert"
  <2>1. me \in Calls
    BY Sizes DEF Calls, Pcs
  <2>2. me.pc = "dest" /\ me.curr \in Slots
    BY Sizes
  <2> HIDE DEF me
  <2>3. CallOK(me) /\ Passed(hashTable, me) /\ Undisturbed(hashTable, me)
    BY <2>1, <2>2, Sizes DEF CallOK, Passed, Undisturbed, ForSource
  <2> QED
    BY <2>1, <2>2, <2>3, SourceOfOK
<1> HIDE DEF me, next
<1>4. ASSUME NEW d \in Range(stack)
      PROVE  /\ d \in Cards /\ d # c /\ CallOK(call[d])
             /\ CallOK(call'[d]) /\ call'[d].pc = call[d].pc
             /\ call'[d].addr = call[d].addr /\ call'[d].curr = call[d].curr
             /\ call'[d].met # "none"
  <2>1. d \in Cards /\ d # c /\ CallOK(call[d]) /\ call[d] \in Calls
    BY <1>1, <1>2 DEF IInv, TypeInv, CallOK
  <2>2. call'[d] = IF call[d].met = "none" THEN [call[d] EXCEPT !.met = "other"] ELSE call[d]
    BY <1>1, <2>1, NotIdle
  <2>3. CASE call[d].met = "none"
    BY <2>1, <2>2, <2>3 DEF CallOK, Calls
  <2>4. CASE call[d].met # "none"
    BY <2>1, <2>2, <2>4
  <2> QED
    BY <2>1, <2>3, <2>4
<1>5. /\ call'[c] = next /\ call' = [d \in Cards |-> call'[d]]
      /\ \A d \in Cards : d \notin Range(stack') => call'[d] = NoCall
  <2>1. ASSUME NEW d \in Cards, d \notin Range(stack') PROVE call'[d] = NoCall
    <3>1. d # c /\ call[d] = NoCall
      BY <1>2, <2>1 DEF IInv, TypeInv
    <3> QED
      BY <1>1, <3>1
  <2> QED
    BY <1>1, <2>1
<1> HIDE DEF waiting
<1>6. TypeInv'
  <2>1. \A d \in Cards : IF d \in Range(stack') THEN CallOK(call'[d]) ELSE call'[d] = NoCall
    BY <1>2, <1>3, <1>4, <1>5
  <2> QED
    BY <1>1, <1>2, <1>5, <2>1 DEF IInv, TypeInv
<1>7. ChainsUnbroken'
  BY <1>1 DEF IInv, ChainsUnbroken
<1>8. Probing'
  <2> SUFFICES ASSUME NEW d \in Range(stack') PROVE Passed(hashTable', call'[d])
    BY DEF Probing
  <2>1. CASE d = c
    BY <1>1, <1>3, <1>5, <2>1
  <2>2. CASE d # c
    BY <1>1, <1>2, <1>4, <2>2 DEF IInv, Probing, Passed
  <2> QED
    BY <2>1, <2>2
<1>9. ASSUME NEW a \in Stations, NEW s \in Slots, Safe(a, s) PROVE Safe(a, s)'
  BY <1>1, <1>2, <1>3, <1>4, <1>5, <1>9 DEF Safe
<1>10. Settled'
  <2>1. \A a \in known' : \E s \in Slots : Safe(a, s)'
    BY <1>1, <1>9 DEF IInv, TypeInv, Settled
  <2>2. ASSUME main.pc = "found" PROVE Safe(main.addr, main.curr)'
    <3>1. main.addr \in Stations /\ main.curr \in Slots
      BY <2>2 DEF IInv, TypeInv, NoLookUp, Exited
    <3> QED
      BY <1>1, <1>9, <2>2, <3>1 DEF IInv, Settled
  <2> QED
    BY <1>1, <2>1, <2>2 DEF Settled
<1>11. Quiet'
  BY <1>1, <1>2, <1>3, <1>4, <1>5 DEF Quiet
<1> QED
  BY <1>6, <1>7, <1>8, <1>10, <1>11 DEF IInv

-----------------------------------------------------------------------------
(* bridgeLookUp, and the theorems.                                         *)

(* The main loop finds an address while no interrupt is served.            *)
LEMMA LookUpIInv ==
  ASSUME IInv, NEW a \in Stations, LookUp(a)
  PROVE  IInv'
<1> DEFINE s == Find(hashTable, a)
<1>1. /\ stack = <<>>
      /\ main' = IF s = Nowhere THEN Exited ELSE [pc |-> "found", addr |-> a, curr |-> s]
      /\ UNCHANGED <<hashTable, stack, call, heard, known>>
  BY DEF LookUp
<1>2. s = Nowhere \/ (s \in Slots /\ Finds(hashTable, a, s))
  BY DEF Find, Found
<1> HIDE DEF s
<1>3. main' = Exited \/ (main' = [pc |-> "found", addr |-> a, curr |-> s] /\ s # Nowhere)
  BY <1>1
<1>4. TypeInv'
  BY <1>1, <1>2, <1>3 DEF IInv, TypeInv
<1>5. Settled'
  <2>1. Range(stack) = {}
    BY <1>1 DEF Range
  <2>2. \A b, t : Safe(b, t)' <=> Safe(b, t)
    BY <1>1 DEF Safe
  <2>3. \A b \in known' : \E t \in Slots : Safe(b, t)'
    BY <1>1, <2>2 DEF IInv, Settled
  <2>4. ASSUME main'.pc = "found" PROVE Safe(main.addr, main.curr)'
    <3>1. main'.addr = a /\ main'.curr = s /\ s # Nowhere
      BY <1>3, <2>4 DEF Exited
    <3>2. Finds(hashTable', main'.addr, main'.curr)
      BY <1>1, <1>2, <3>1
    <3> QED
      BY <1>1, <2>1, <3>2 DEF Safe
  <2> QED
    BY <2>3, <2>4 DEF Settled
<1> QED
  BY <1>1, <1>4, <1>5 DEF IInv, ChainsUnbroken, Probing, Quiet

(* It has read the board.                                                  *)
LEMMA LookUpReturnIInv ==
  ASSUME IInv, LookUpReturn
  PROVE  IInv'
<1>1. /\ main' = NoLookUp /\ main'.pc # "found"
      /\ UNCHANGED <<hashTable, stack, call, heard, known>>
  BY DEF LookUpReturn, NoLookUp
<1>2. TypeInv'
  BY <1>1 DEF IInv, TypeInv
<1>3. Settled'
  BY <1>1 DEF IInv, Settled, Safe
<1> QED
  BY <1>1, <1>2, <1>3 DEF IInv, ChainsUnbroken, Probing, Quiet

(* The table starts free.                                                  *)
LEMMA InitIInv == Init => IInv
<1> SUFFICES ASSUME Init PROVE IInv
  OBVIOUS
<1>1. /\ \A s \in Slots : hashTable[s] = FreeSlot
      /\ FreeSlot \in Entry /\ FreeSlot.valid = FALSE /\ FreeSlot.address = ZeroAddress
      /\ hashTable \in Table
  BY DEF Init, FreeSlot, Entry, Table
<1>2. stack = <<>> /\ Range(stack) = {} /\ stack \in Seq(Cards) /\ IsInjective(stack)
  BY DEF Init, Range, IsInjective
<1>3. main = NoLookUp /\ main.pc # "found"
  BY DEF Init, NoLookUp
<1>4. TypeInv
  BY <1>1, <1>2, <1>3 DEF Init, TypeInv, SlotsOK
<1> QED
  BY <1>1, <1>2, <1>3, <1>4
  DEF Init, IInv, ChainsUnbroken, Probing, Settled, Quiet

(* Every step keeps the inductive invariant.                               *)
LEMMA NextIInv == IInv /\ [Next]_vars => IInv'
<1> SUFFICES ASSUME IInv, [Next]_vars PROVE IInv'
  OBVIOUS
<1>1. ASSUME NEW c \in Cards, NEW f \in Frames, Interrupt(c, f[1], f[2]) PROVE IInv'
  <2>1. f[1] \in Addresses /\ f[2] \in Addresses
    BY FrameAssumption
  <2> QED
    BY <1>1, <2>1, InterruptIInv
<1>2. ASSUME NEW c \in Cards, Step(c) PROVE IInv'
  BY <1>2, CompareIInv, DestValidIInv, DestBoardIInv, SourceValidIInv, InsertIInv,
     UpdateIInv, ReturnOnlyIInv DEF Step
<1>3. ASSUME NEW a \in Stations, LookUp(a) PROVE IInv'
  BY <1>3, LookUpIInv
<1>4. CASE LookUpReturn
  BY <1>4, LookUpReturnIInv
<1>5. CASE UNCHANGED vars
  <2>1. UNCHANGED <<hashTable, stack, call, main, heard, known>>
    BY <1>5 DEF vars
  <2>2. TypeInv'
    BY <2>1 DEF IInv, TypeInv
  <2>3. Settled'
    BY <2>1 DEF IInv, Settled, Safe
  <2> QED
    BY <2>1, <2>2, <2>3 DEF IInv, ChainsUnbroken, Probing, Quiet
<1> QED
  BY <1>1, <1>2, <1>3, <1>4, <1>5 DEF Next

(* The inductive invariant holds however the interrupts interrupt each     *)
(* other.                                                                  *)
THEOREM IInvAlways == Spec => []IInv
BY InitIInv, NextIInv, PTL DEF Spec

(* Type correctness: a call's slot is one of the table, and the stack and  *)
(* the calls in progress agree.                                            *)
THEOREM TableTypeCorrect == Spec => []TypeOK
<1>1. IInv => TypeOK
  <2> SUFFICES ASSUME IInv PROVE TypeOK
    OBVIOUS
  <2>1. hashTable \in [Slots -> [address : Addresses \cup {ZeroAddress},
                              valid : BOOLEAN, boardNumber : Cards \cup {NoBoard}]]
    BY DEF IInv, TypeInv, Table, Entry
  <2>2. ASSUME NEW c \in Cards
        PROVE  \/ c \notin Range(stack) /\ call[c] = NoCall
               \/ /\ c \in Range(stack)
                  /\ call[c].curr \in Slots \cup {Nowhere} /\ call[c].word \in WordIds
                  /\ call[c].curr = Nowhere <=> call[c].pc = "return"
    BY DEF IInv, TypeInv, CallOK, Calls
  <2> QED
    BY <2>1, <2>2 DEF IInv, TypeInv, TypeOK
<1> QED
  BY <1>1, IInvAlways, PTL

(* No probe ends too early, whoever filled the slots in whatever order:    *)
(* whether a free slot is still free is not looked at again when it is     *)
(* taken, but taken slots stay taken.                                      *)
THEOREM ChainsNeverBroken == Spec => []ChainsUnbroken
<1>1. IInv => ChainsUnbroken
  BY DEF IInv
<1> QED
  BY <1>1, IInvAlways, PTL

(* An address that could be found while no interrupt was served is found   *)
(* ever after, and in the slot in which bridgeLookUp found it.             *)
THEOREM KnownAlwaysStays == Spec => []KnownStays
<1>1. IInv => KnownStays
  <2> SUFFICES ASSUME IInv PROVE KnownStays
    OBVIOUS
  <2>1. known \subseteq Found(hashTable)
    BY DEF IInv, TypeInv, Settled, Safe, Found
  <2>2. main.pc = "found" => hashTable[main.curr].address = main.addr
    BY DEF IInv, Settled, Safe, Finds
  <2> QED
    BY <2>1, <2>2 DEF KnownStays
<1> QED
  BY <1>1, IInvAlways, PTL

(* A call nobody interrupted has learnt the sender, unless the table is    *)
(* full.                                                                   *)
THEOREM UndisturbedAlwaysLearns == Spec => UndisturbedLearns
<1>1. IInv /\ [Next]_vars =>
        [\A c \in Cards :
           /\ stack = <<c>> /\ stack' = <<>> /\ call[c].met = "none"
           /\ call[c].source \in Stations
           => \/ \A s \in Slots : hashTable'[s].valid
              \/ call[c].source \in Found(hashTable')]_vars
  <2> SUFFICES ASSUME IInv, Next, NEW c \in Cards,
                      stack = <<c>>, stack' = <<>>, call[c].met = "none",
                      call[c].source \in Stations
               PROVE  \/ \A s \in Slots : hashTable'[s].valid
                      \/ call[c].source \in Found(hashTable')
    OBVIOUS
  <2>1. stack' # stack
    OBVIOUS
  <2>2. \A d \in Cards : Running(d) => d = c
    BY DEF Running, Last
  <2>3. Update(c) \/ ReturnOnly(c)
    <3>1. \A d \in Cards, f \in Frames : ~Interrupt(d, f[1], f[2])
      <4>1. \A d \in Cards : Append(stack, d) # <<>>
        BY Pushed DEF IInv, TypeInv, Range
      <4> QED
        BY <4>1 DEF Interrupt
    <3>2. PICK d \in Cards : Step(d)
      BY <2>1, <3>1 DEF Next, LookUp, LookUpReturn
    <3>3. Update(d) \/ ReturnOnly(d)
      BY <2>1, <3>2 DEF Step, Compare, DestValid, DestBoard, SourceValid, Insert
    <3> QED
      BY <2>2, <3>3 DEF Update, ReturnOnly
  <2>4. Running(c) /\ Undisturbed(hashTable, call[c]) /\ CallOK(call[c])
    BY <2>3, RunningLast DEF Update, ReturnOnly
  <2>5. CASE Update(c)
    <3> DEFINE x == call[c].curr
               a == call[c].source
    <3>1. /\ call[c].pc = "update" /\ hashTable' = [hashTable EXCEPT ![x].boardNumber = c]
          /\ x \in Slots /\ hashTable \in Table /\ call[c].addr = a /\ a \in Addresses
      BY <2>4, <2>5 DEF Update, CallOK, Calls, IInv, TypeInv
    <3>2. Finds(hashTable, a, x)
      BY <2>4, <3>1 DEF Undisturbed
    <3> HIDE DEF x, a
    <3>3. \A s \in Slots : /\ hashTable'[s].address = hashTable[s].address
                           /\ hashTable'[s].valid = hashTable[s].valid
      BY <3>1 DEF Table, Entry
    <3>4. Finds(hashTable', a, x)
      BY <3>1, <3>2, <3>3, BeforeSlots DEF Finds
    <3> QED
      BY <3>1, <3>4 DEF Found, a
  <2>6. CASE ReturnOnly(c)
    <3>1. call[c].pc = "return" /\ hashTable' = hashTable
      BY <2>6 DEF ReturnOnly
    <3> QED
      BY <2>4, <3>1 DEF Undisturbed
  <2> QED
    BY <2>3, <2>5, <2>6
<1> QED
  BY <1>1, IInvAlways, PTL DEF Spec, UndisturbedLearns

-----------------------------------------------------------------------------
(* Boards.  With the two cards of the machine an interrupt that interrupts *)
(* another is not interrupted itself.  With a third card the next two      *)
(* theorems are false: a slot found free may then be filled, overwritten   *)
(* and overwritten again, and an older entry of the first station, with an *)
(* older board, comes to light.                                            *)
TwoCards == \A c, d, e \in Cards : c = d \/ d = e \/ c = e

(* No other slot further on has the same address as t.                     *)
Sole(table, t) ==
  \A y \in Slots : table[y].address = table[t].address => t \notin Before(table[t].address, y)

(* The words of a that were compared with slot s, one at a time, and found *)
(* equal: the slot was free then for those that are 0.                     *)
Compared(table, a, s, upTo) ==
  \A w \in 1 .. upTo : a[w] \in {0, table[s].address[w]}

TornOK(table, me) ==
  /\ me.pc \in {"dest", "source"} => Compared(table, me.addr, me.curr, me.word - 1)
  /\ me.pc \in {"destBoard", "update"} => Compared(table, me.addr, me.curr, NumWords)
Torn == \A c \in Range(stack) : TornOK(hashTable, call[c])

(* The one interrupt that interrupts another is not interrupted itself.    *)
OnTop == \A c, d \in Range(stack) : c # d /\ d = Last(stack) => call[d].met = "none"

(* A slot that was found free, and may have been filled since, has no      *)
(* second entry of its address further on.  Only stations are looked for.  *)
FilledOK(table, me) ==
  /\ me.pc \in {"dest", "destValid", "destBoard"} => me.addr \in Stations
  /\ me.pc = "insert" /\ table[me.curr].valid => Sole(table, me.curr)
  /\ me.pc \in {"dest", "destValid"} =>
       \A t \in Before(me.addr, me.curr) :
          table[t].valid /\ (table[t].address = me.addr => Sole(table, t))
  /\ me.pc = "destValid" /\ table[me.curr].address = me.addr => Sole(table, me.curr)
  /\ me.pc = "destBoard" /\ Distinct(me.addr) => Finds(table, me.addr, me.curr)
Filled == \A c \in Range(stack) : FilledOK(hashTable, call[c])

(* An interrupted probe for the source is not past the slot in which the   *)
(* source is found, unless the interrupt is for the same source.           *)
NotPastOK(table, me) ==
  \A s \in Slots :
    me.source \in Stations /\ Distinct(me.source) /\ Finds(table, me.source, s) =>
      /\ me.pc = "source" => me.curr \in Before(me.source, s) \cup {s}
      /\ me.pc = "sourceValid" => me.curr \in Before(me.source, s)
      /\ me.pc = "update" => me.curr = s
      /\ me.pc # "insert" /\ me.pc # "return"
SameSource(c) ==
  \E d \in Range(stack) \ {c} : call[d].source = call[c].source /\ call[d].pc = "update"
NotPast ==
  \A c \in Range(stack) :
    call[c].met = "other" /\ ~SameSource(c) => NotPastOK(hashTable, call[c])

(* A slot that is found has a card that was heard last, or that is about   *)
(* to be.                                                                  *)
Owner(b, a, s) ==
  b \in Range(stack) /\ call[b].pc = "update" /\ call[b].source = a /\ call[b].curr = s
Right ==
  \A a \in Stations, s \in Slots : Distinct(a) /\ Finds(hashTable, a, s) =>
    hashTable[s].boardNumber \in heard[a] \/ Owner(hashTable[s].boardNumber, a, s)

BoardInv == Torn /\ OnTop /\ Filled /\ NotPast /\ Right

-----------------------------------------------------------------------------
(* Lemmas on the order in which a probe visits the slots.                  *)

(* How many slots a probe visits before t.                                 *)
Dist(a, t) == IF Hash[a] <= t THEN t - Hash[a] ELSE t - Hash[a] + MaxNumAddresses

(* The slots before s are those at a smaller distance.                     *)
LEMMA BeforeDist ==
  ASSUME NEW a \in Addresses, NEW s \in Slots, NEW t \in Slots
  PROVE  /\ t \in Before(a, s) <=> Dist(a, t) < Dist(a, s)
         /\ Dist(a, t) \in Nat /\ Dist(a, s) \in Nat
         /\ Dist(a, t) = Dist(a, s) => t = s
<1> DEFINE h == Hash[a]
<1>1. /\ MaxNumAddresses \in Nat \ {0} /\ h \in 0 .. MaxNumAddresses - 1
      /\ s \in 0 .. MaxNumAddresses - 1 /\ t \in 0 .. MaxNumAddresses - 1
  BY DEF Slots
<1>2. t \in Before(a, s) <=> IF h <= s THEN h <= t /\ t < s ELSE h <= t \/ t < s
  <2>1. CASE h <= s
    BY <2>1, BeforeIs
  <2>2. CASE ~(h <= s)
    BY <2>2, BeforeIs
  <2> QED
    BY <2>1, <2>2
<1> QED
  BY <1>1, <1>2 DEF Dist

(* The probe visits any two slots in one order.                            *)
LEMMA Order ==
  ASSUME NEW a \in Addresses, NEW s \in Slots, NEW t \in Slots
  PROVE  /\ t \in Before(a, s) \/ t = s \/ s \in Before(a, t)
         /\ t \in Before(a, s) => t # s /\ s \notin Before(a, t)
         /\ Hash[a] \in Before(a, s) \cup {s}
<1>1. t \in Before(a, s) \/ t = s \/ s \in Before(a, t)
  BY BeforeDist
<1>2. t \in Before(a, s) => t # s /\ s \notin Before(a, t)
  BY BeforeDist
<1>3. Hash[a] \in Before(a, s) \cup {s}
  <2>1. Hash[a] \in Slots /\ s \notin Before(a, Hash[a])
    BY ProbeSteps
  <2> QED
    BY <2>1, BeforeDist
<1> QED
  BY <1>1, <1>2, <1>3

(* From a slot before s the probe goes on to s or to one before it.        *)
LEMMA GoesOn ==
  ASSUME NEW a \in Addresses, NEW s \in Slots, NEW t \in Before(a, s)
  PROVE  NextSlot(t) # Hash[a] /\ NextSlot(t) \in Before(a, s) \cup {s}
<1>1. t \in Slots /\ t # s /\ s \notin Before(a, t)
  BY BeforeSlots, Order
<1>2. NextSlot(t) # Hash[a]
  BY <1>1, ProbeSteps
<1>3. NextSlot(t) \in Slots /\ s \notin Before(a, NextSlot(t))
  BY <1>1, <1>2, ProbeSteps
<1> QED
  BY <1>2, <1>3, Order

(* An address is found in one slot.                                        *)
LEMMA FoundOnce ==
  ASSUME NEW table, NEW a \in Addresses, NEW s \in Slots, NEW t \in Slots,
         Finds(table, a, s), Finds(table, a, t)
  PROVE  s = t
<1>1. t \notin Before(a, s) /\ s \notin Before(a, t)
  BY DEF Finds
<1> QED
  BY <1>1, Order

-----------------------------------------------------------------------------
(* Lemmas on the table.                                                    *)

ChainsOK(table) ==
  \A s \in Slots : table[s].valid => \A t \in Before(table[s].address, s) : table[t].valid

(* A slot that an address was compared with, word by word, has it, unless  *)
(* the two are alike but for words that are 0.                             *)
LEMMA ComparedIs ==
  ASSUME NEW table \in Table, SlotsOK(table), NEW a \in Addresses, NEW s \in Slots,
         Compared(table, a, s, NumWords)
  PROVE  /\ table[s].valid /\ table[s].address \in Addresses
         /\ Distinct(a) \/ Distinct(table[s].address) => table[s].address = a
<1> DEFINE b == table[s].address
<1>1. a \in [WordIds -> Nat] /\ b \in [WordIds -> Nat] /\ b \in Addresses \cup {ZeroAddress}
  BY AddressAssumption DEF Table, Entry, ZeroAddress
<1>2. \A w \in WordIds : a[w] \in {0, b[w]}
  BY Sizes DEF Compared
<1> HIDE DEF b
<1>3. b # ZeroAddress
  <2>1. ASSUME b = ZeroAddress PROVE a = ZeroAddress
    <3>1. \A w \in WordIds : a[w] = 0
      BY <1>2, <2>1 DEF ZeroAddress
    <3> QED
      BY <1>1, <3>1 DEF ZeroAddress
  <2> QED
    BY <2>1, AddressAssumption
<1>4. b \in Addresses /\ table[s].valid
  BY <1>1, <1>3 DEF SlotsOK, b
<1>5. a = b \/ Alike(a, b)
  BY <1>2 DEF Alike
<1>6. Distinct(a) \/ Distinct(b) => a = b
  BY <1>4, <1>5 DEF Distinct
<1> QED
  BY <1>4, <1>6 DEF b

(* An address is written into slot x: another one is found only where it   *)
(* was found before.                                                       *)
LEMMA NewlyFound ==
  ASSUME NEW table \in Table, NEW later \in Table, SlotsOK(table), ChainsOK(table),
         NEW x \in Slots, \A t \in Slots \ {x} : later[t] = table[t],
         table[x].valid => Sole(table, x),
         NEW a \in Addresses, NEW s \in Slots, Finds(later, a, s)
  PROVE  (s = x /\ a = later[x].address) \/ (s # x /\ Finds(table, a, s))
<1>1. CASE s = x
  BY <1>1 DEF Finds
<1>2. CASE s # x
  <2>1. table[s].address = a /\ table[s].valid
    BY <1>2, AddressAssumption DEF Finds, SlotsOK
  <2>2. \A t \in Before(a, s) : table[t].valid /\ t \in Slots
    BY <2>1, BeforeSlots DEF ChainsOK
  <2>3. \A t \in Before(a, s) : table[t].address # a
    <3>1. x \in Before(a, s) => table[x].address # a
      BY <2>1, <2>2 DEF Sole
    <3> QED
      BY <2>2, <3>1 DEF Finds
  <2> QED
    BY <1>2, <2>1, <2>2, <2>3 DEF Finds
<1> QED
  BY <1>1, <1>2

(* A free slot is taken, at the end of an undisturbed probe: nothing that  *)
(* was found, passed or compared changes.                                  *)
LEMMA FreeTaken ==
  ASSUME NEW table \in Table, NEW later \in Table, SlotsOK(table), ChainsOK(table),
         NEW x \in Slots, \A t \in Slots \ {x} : later[t] = table[t],
         ~table[x].valid, later[x].valid, later[x].address \in Addresses,
         \A t \in Before(later[x].address, x) :
           table[t].valid /\ table[t].address # later[x].address
  PROVE  /\ \A a \in Addresses, s \in Slots : Finds(table, a, s) => Finds(later, a, s)
         /\ \A t \in Slots : table[t].valid /\ Sole(table, t) => Sole(later, t)
         /\ Sole(later, x)
         /\ \A a, s, k : s \in Slots /\ k \in 0 .. NumWords /\ Compared(table, a, s, k)
                           => Compared(later, a, s, k)
<1> DEFINE u == later[x].address
<1>1. ASSUME NEW a \in Addresses, NEW s \in Slots, Finds(table, a, s) PROVE Finds(later, a, s)
  <2>1. \A t \in Before(a, s) : table[t].valid /\ t \in Slots /\ t # x
    BY <1>1, BeforeSlots DEF Finds
  <2>2. table[s].valid /\ s # x
    BY <1>1, AddressAssumption DEF Finds, SlotsOK
  <2> QED
    BY <1>1, <2>1, <2>2 DEF Finds
<1>2. ASSUME NEW t \in Slots, table[t].valid, Sole(table, t) PROVE Sole(later, t)
  <2> SUFFICES ASSUME NEW y \in Slots, later[y].address = later[t].address
               PROVE  t \notin Before(later[t].address, y)
    BY DEF Sole
  <2>1. t # x /\ later[t] = table[t]
    BY <1>2
  <2>2. CASE y = x
    BY <2>1, <2>2
  <2>3. CASE y # x
    BY <1>2, <2>1, <2>3 DEF Sole
  <2> QED
    BY <2>2, <2>3
<1>3. Sole(later, x)
  <2> SUFFICES ASSUME NEW y \in Slots, later[y].address = u PROVE x \notin Before(u, y)
    BY DEF Sole
  <2>1. CASE y = x
    BY <2>1, BeforeSlots
  <2>2. CASE y # x
    BY <2>2, AddressAssumption DEF SlotsOK, ChainsOK
  <2> QED
    BY <2>1, <2>2
<1>4. ASSUME NEW a, NEW s, NEW k, s \in Slots, k \in 0 .. NumWords, Compared(table, a, s, k)
      PROVE  Compared(later, a, s, k)
  <2>1. CASE s = x
    <3>1. table[x].address = ZeroAddress
      BY DEF SlotsOK
    <3>2. \A w \in 1 .. k : w \in WordIds
      BY <1>4, Sizes
    <3>3. \A w \in 1 .. k : a[w] = 0
      BY <1>4, <2>1, <3>1, <3>2 DEF Compared, ZeroAddress
    <3> QED
      BY <3>3 DEF Compared
  <2>2. CASE s # x
    BY <1>4, <2>2 DEF Compared
  <2> QED
    BY <2>1, <2>2
<1> QED
  BY <1>1, <1>2, <1>3, <1>4

(* Boards alone change: nothing is found, passed or compared otherwise.    *)
LEMMA SameAddresses ==
  ASSUME NEW table, NEW later,
         \A s \in Slots : /\ later[s].address = table[s].address
                          /\ later[s].valid = table[s].valid
  PROVE  /\ \A a \in Addresses, s \in Slots : Finds(later, a, s) <=> Finds(table, a, s)
         /\ \A t \in Slots : Sole(later, t) <=> Sole(table, t)
         /\ \A a, s, k : s \in Slots => (Compared(later, a, s, k) <=> Compared(table, a, s, k))
<1>1. \A a \in Addresses, s \in Slots : Finds(later, a, s) <=> Finds(table, a, s)
  BY BeforeSlots DEF Finds
<1>2. \A t \in Slots : Sole(later, t) <=> Sole(table, t)
  BY DEF Sole
<1>3. ASSUME NEW a, NEW s \in Slots, NEW k
      PROVE  Compared(later, a, s, k) <=> Compared(table, a, s, k)
  BY DEF Compared
<1> QED
  BY <1>1, <1>2, <1>3

-----------------------------------------------------------------------------
(* The steps of bridge keep the boards right.                              *)

(* A call that was not interrupted is not past its source either.          *)
LEMMA QuietNotPast ==
  ASSUME NEW table, NEW me, SlotsOK(table), CallOK(me), Passed(table, me),
         Undisturbed(table, me)
  PROVE  NotPastOK(table, me)
<1> SUFFICES ASSUME NEW s \in Slots, me.source \in Stations, Finds(table, me.source, s)
             PROVE  /\ me.pc = "source" => me.curr \in Before(me.source, s) \cup {s}
                    /\ me.pc = "sourceValid" => me.curr \in Before(me.source, s)
                    /\ me.pc = "update" => me.curr = s
                    /\ me.pc # "insert" /\ me.pc # "return"
  BY DEF NotPastOK
<1>1. me.source \in Addresses /\ table[s].address = me.source
  BY DEF Addresses, Finds
<1>2. ASSUME me.pc \in ForSource
      PROVE  me.curr \in Slots /\ me.addr = me.source /\ me.curr \in Before(me.source, s) \cup {s}
  <2>1. me.curr \in Slots /\ me.addr = me.source
    BY <1>2 DEF CallOK, Calls, ForSource
  <2>2. s \notin Before(me.source, me.curr)
    BY <1>1, <1>2, <2>1 DEF Undisturbed
  <2> QED
    BY <1>1, <2>1, <2>2, Order
<1>3. me.pc = "source" => me.curr \in Before(me.source, s) \cup {s}
  BY <1>2 DEF ForSource
<1>4. me.pc = "sourceValid" => me.curr \in Before(me.source, s)
  BY <1>1, <1>2 DEF ForSource, Undisturbed
<1>5. ASSUME me.pc = "insert" PROVE FALSE
  <2>1. ~table[me.curr].valid /\ me.curr \in Before(me.source, s) \cup {s} /\ me.curr \in Slots
    BY <1>2, <1>5 DEF ForSource, Undisturbed
  <2>2. me.curr = s
    BY <2>1 DEF Finds
  <2> QED
    BY <1>1, <2>1, <2>2, AddressAssumption DEF SlotsOK
<1>6. ASSUME me.pc = "update" PROVE me.curr = s
  <2>1. me.curr \in Slots /\ me.addr = me.source /\ Finds(table, me.addr, me.curr)
    BY <1>6 DEF CallOK, Calls, ForSource, Undisturbed
  <2> QED
    BY <1>1, <2>1, FoundOnce
<1>7. me.pc # "return"
  BY <1>1 DEF Undisturbed
<1> QED
  BY <1>3, <1>4, <1>5, <1>6, <1>7

(* A call that was interrupted runs alone.                                 *)
LEMMA RunsAlone ==
  ASSUME IInv, BoardInv, NEW c \in Cards, Running(c), call[c].met # "none"
  PROVE  Range(stack) = {c} /\ ~SameSource(c)
<1>1. c = Last(stack) /\ c \in Range(stack)
  BY RunningLast
<1>2. \A d \in Range(stack) : d = c
  BY <1>1 DEF BoardInv, OnTop
<1> QED
  BY <1>1, <1>2 DEF SameSource

(* A step of the running call that leaves the table alone.                 *)
LEMMA LocalBoards ==
  ASSUME IInv, BoardInv, NEW c \in Cards, Running(c), NEW next,
         next.met = call[c].met, next.source = call[c].source, call[c].pc # "update",
         TornOK(hashTable, next), FilledOK(hashTable, next),
         call[c].met = "other" => NotPastOK(hashTable, next),
         call' = [call EXCEPT ![c] = next],
         UNCHANGED <<hashTable, stack, main, heard, known>>
  PROVE  BoardInv'
<1>1. /\ call'[c] = next /\ \A d \in Cards \ {c} : call'[d] = call[d]
      /\ c \in Range(stack) /\ c = Last(stack) /\ Range(stack) \subseteq Cards
  <2>1. Range(stack) \subseteq Cards
    BY DEF IInv, TypeInv, Range
  <2>2. call = [d \in Cards |-> call[d]]
    BY DEF IInv, TypeInv
  <2> QED
    BY <2>1, <2>2, RunningLast
<1>2. Torn'
  BY <1>1 DEF BoardInv, Torn
<1>3. OnTop'
  BY <1>1 DEF BoardInv, OnTop
<1>4. Filled'
  BY <1>1 DEF BoardInv, Filled
<1>5. NotPast'
  <2> SUFFICES ASSUME NEW d \in Range(stack), call'[d].met = "other", ~SameSource(d)'
               PROVE  NotPastOK(hashTable, call'[d])
    BY DEF NotPast
  <2>1. CASE d = c
    BY <1>1, <2>1
  <2>2. CASE d # c
    <3>1. call'[d] = call[d]
      BY <1>1, <2>2
    <3>2. \A e \in Range(stack) : call'[e].source = call[e].source
      BY <1>1
    <3>3. \A e \in Range(stack) : call[e].pc = "update" => call'[e].pc = "update"
      BY <1>1
    <3>4. ~SameSource(d)
      BY <3>2, <3>3 DEF SameSource
    <3> QED
      BY <3>1, <3>4 DEF BoardInv, NotPast
  <2> QED
    BY <2>1, <2>2
<1>6. Right'
  <2>1. \A b, a, s : Owner(b, a, s) => Owner(b, a, s)'
    BY <1>1 DEF Owner
  <2> QED
    BY <2>1 DEF BoardInv, Right
<1> QED
  BY <1>2, <1>3, <1>4, <1>5, <1>6 DEF BoardInv

(* The call comes to its source.                                           *)
LEMMA SourceOfBoards ==
  ASSUME NEW me \in Calls, NEW table
  PROVE  /\ TornOK(table, SourceOf(me)) /\ FilledOK(table, SourceOf(me))
         /\ NotPastOK(table, SourceOf(me)) /\ SourceOf(me).source = me.source
<1>1. me.source \in Addresses
  BY DEF Calls
<1>2. CASE me.source \in Groups
  <2> DEFINE next == Probe(me, "return", me.source, Nowhere)
  <2>1. SourceOf(me) = next
    BY <1>2 DEF SourceOf
  <2>2. next.pc = "return" /\ next.source = me.source
    <3>1. "return" \in Pcs /\ Nowhere \in Slots \cup {Nowhere}
      BY DEF Pcs
    <3> QED
      BY <1>1, <3>1, ProbeFields
  <2> HIDE DEF next
  <2>3. next.source \notin Stations
    BY <1>2, <2>2
  <2> QED
    BY <2>1, <2>2, <2>3 DEF TornOK, FilledOK, NotPastOK
<1>3. CASE me.source \notin Groups
  <2> DEFINE next == Probe(me, "source", me.source, Hash[me.source])
  <2>1. SourceOf(me) = next
    BY <1>3 DEF SourceOf
  <2>2. /\ next.pc = "source" /\ next.curr = Hash[me.source]
        /\ next.source = me.source /\ next.word = 1
    <3>1. "source" \in Pcs /\ Hash[me.source] \in Slots \cup {Nowhere}
      BY <1>1, Sizes DEF Pcs
    <3> QED
      BY <1>1, <3>1, ProbeFields
  <2> HIDE DEF next
  <2>3. Compared(table, next.addr, next.curr, next.word - 1)
    BY <2>2 DEF Compared
  <2>4. \A s \in Slots : next.curr \in Before(next.source, s) \cup {s}
    BY <1>1, <2>2, Order
  <2> QED
    BY <2>1, <2>2, <2>3, <2>4 DEF TornOK, FilledOK, NotPastOK
<1> QED
  BY <1>2, <1>3

(* One word is compared.                                                   *)
LEMMA CompareBoards ==
  ASSUME IInv, BoardInv, NEW c \in Cards, Compare(c)
  PROVE  BoardInv'
<1> DEFINE me    == call[c]
           equal == hashTable[me.curr].address[me.word] = me.addr[me.word]
<1>1. /\ Running(c) /\ me.pc \in {"dest", "source"}
      /\ UNCHANGED <<hashTable, stack, main, heard, known>>
  BY DEF Compare
<1>2. /\ CallOK(me) /\ me \in Calls /\ c \in Range(stack)
      /\ TornOK(hashTable, me) /\ FilledOK(hashTable, me)
      /\ me.met = "other" => NotPastOK(hashTable, me)
      /\ hashTable \in Table /\ SlotsOK(hashTable)
  <2>1. CallOK(me) /\ me \in Calls /\ c \in Range(stack)
    BY <1>1, RunningLast
  <2>2. me.met = "other" => ~SameSource(c)
    BY <1>1, RunsAlone
  <2> QED
    BY <2>1, <2>2 DEF BoardInv, Torn, Filled, NotPast, IInv, TypeInv
<1>3. /\ me.curr \in Slots /\ me.word \in 1 .. NumWords /\ me.addr \in Addresses
      /\ me.pc = "source" => me.addr = me.source /\ me.source \in Stations
  BY <1>1, <1>2, Sizes DEF CallOK, Calls, ForSource
<1>4. Compared(hashTable, me.addr, me.curr, me.word - 1)
  BY <1>1, <1>2 DEF TornOK
<1>5. ASSUME equal PROVE Compared(hashTable, me.addr, me.curr, me.word)
  <2>1. ASSUME NEW w \in 1 .. me.word PROVE w \in 1 .. me.word - 1 \/ w = me.word
    <3>1. me.word \in Nat /\ w \in Nat /\ 1 <= w /\ w <= me.word
      BY <1>3, Sizes
    <3> QED
      BY <3>1
  <2> QED
    BY <1>4, <1>5, <2>1 DEF Compared
<1>6. ASSUME ~equal PROVE hashTable[me.curr].address # me.addr
  BY <1>6
<1> HIDE DEF equal
<1>7. ASSUME NEW pc \in Pcs,
             \/ ~equal /\ me.pc = "dest" /\ pc = "destValid"
             \/ ~equal /\ me.pc = "source" /\ pc = "sourceValid"
             \/ equal /\ me.word = NumWords /\ me.pc = "dest" /\ pc = "destBoard"
             \/ equal /\ me.word = NumWords /\ me.pc = "source" /\ pc = "update",
             Goto(c, pc)
      PROVE  BoardInv'
  <2> DEFINE next == [me EXCEPT !.pc = pc, !.word = 1]
  <2>1. /\ next \in Calls /\ next.pc = pc /\ next.word = 1 /\ next.curr = me.curr
        /\ next.addr = me.addr /\ next.source = me.source /\ next.met = me.met
    BY <1>2, GotoFields
  <2>2. call' = [call EXCEPT ![c] = next]
    BY <1>7, GotoIs
  <2> HIDE DEF next
  <2>3. TornOK(hashTable, next)
    BY <1>5, <1>7, <2>1 DEF TornOK
  <2>4. FilledOK(hashTable, next)
    <3>1. ASSUME pc = "destBoard", Distinct(me.addr) PROVE Finds(hashTable, me.addr, me.curr)
      <4>1. equal /\ me.word = NumWords /\ me.pc = "dest"
        BY <1>7, <3>1
      <4>2. hashTable[me.curr].address = me.addr
        BY <1>2, <1>3, <1>5, <3>1, <4>1, ComparedIs
      <4>3. \A t \in Before(me.addr, me.curr) :
              hashTable[t].valid /\ (hashTable[t].address = me.addr => Sole(hashTable, t))
        BY <1>2, <4>1 DEF FilledOK
      <4>4. \A t \in Before(me.addr, me.curr) : hashTable[t].address # me.addr
        BY <1>3, <4>2, <4>3 DEF Sole
      <4> QED
        BY <4>2, <4>3, <4>4 DEF Finds
    <3>2. ASSUME pc = "destValid"
          PROVE  \A t \in Before(me.addr, me.curr) :
                   hashTable[t].valid /\ (hashTable[t].address = me.addr => Sole(hashTable, t))
      BY <1>2, <1>7, <3>2 DEF FilledOK
    <3>3. pc = "destValid" => hashTable[me.curr].address # me.addr
      BY <1>6, <1>7
    <3>4. pc \in {"destValid", "destBoard"} => me.addr \in Stations
      BY <1>2, <1>7 DEF FilledOK
    <3> QED
      BY <1>7, <2>1, <3>1, <3>2, <3>3, <3>4 DEF FilledOK
  <2>5. ASSUME me.met = "other" PROVE NotPastOK(hashTable, next)
    <3> SUFFICES ASSUME NEW s \in Slots, me.source \in Stations, Distinct(me.source),
                        Finds(hashTable, me.source, s)
                 PROVE  /\ pc = "sourceValid" => me.curr \in Before(me.source, s)
                        /\ pc = "update" => me.curr = s
      BY <1>7, <2>1 DEF NotPastOK
    <3>1. ASSUME pc \in {"sourceValid", "update"}
          PROVE  me.curr \in Before(me.source, s) \cup {s} /\ me.addr = me.source
      BY <1>2, <1>3, <1>7, <2>5, <3>1 DEF NotPastOK
    <3>2. ASSUME pc = "sourceValid" PROVE me.curr # s
      BY <1>6, <1>7, <3>1, <3>2 DEF Finds
    <3>3. ASSUME pc = "update" PROVE me.curr = s
      <4>1. hashTable[me.curr].address = me.source
        BY <1>2, <1>3, <1>5, <1>7, <3>1, <3>3, ComparedIs
      <4> QED
        BY <3>1, <3>3, <4>1 DEF Finds
    <3> QED
      BY <3>1, <3>2, <3>3
  <2>6. me.pc # "update"
    BY <1>1
  <2> QED
    BY <1>1, <2>1, <2>2, <2>3, <2>4, <2>5, <2>6, LocalBoards
<1>8. ASSUME equal, me.word < NumWords, call' = [call EXCEPT ![c].word = @ + 1]
      PROVE  BoardInv'
  <2> DEFINE next == [me EXCEPT !.word = @ + 1]
  <2>1. /\ next.pc = me.pc /\ next.word = me.word + 1 /\ next.curr = me.curr
        /\ next.addr = me.addr /\ next.source = me.source /\ next.met = me.met
        /\ next.word - 1 = me.word
    BY <1>2, <1>3 DEF Calls
  <2>2. call' = [call EXCEPT ![c] = next]
    BY <1>8
  <2> HIDE DEF next
  <2>3. TornOK(hashTable, next)
    BY <1>1, <1>5, <1>8, <2>1 DEF TornOK
  <2>4. FilledOK(hashTable, next)
    BY <1>2, <2>1 DEF FilledOK
  <2>5. me.met = "other" => NotPastOK(hashTable, next)
    BY <1>2, <2>1 DEF NotPastOK
  <2>6. me.pc # "update"
    BY <1>1
  <2> QED
    BY <1>1, <2>1, <2>2, <2>3, <2>4, <2>5, <2>6, LocalBoards
<1>9. \/ ~equal /\ Goto(c, IF me.pc = "dest" THEN "destValid" ELSE "sourceValid")
      \/ equal /\ me.word < NumWords /\ call' = [call EXCEPT ![c].word = @ + 1]
      \/ equal /\ me.word = NumWords /\ Goto(c, IF me.pc = "dest" THEN "destBoard" ELSE "update")
  BY DEF Compare, equal
<1>10. CASE ~equal /\ Goto(c, IF me.pc = "dest" THEN "destValid" ELSE "sourceValid")
  <2>1. CASE me.pc = "dest"
    BY <1>7, <1>10, <2>1 DEF Pcs
  <2>2. CASE me.pc = "source"
    BY <1>7, <1>10, <2>2 DEF Pcs
  <2> QED
    BY <1>1, <2>1, <2>2
<1>11. CASE /\ equal /\ me.word = NumWords
            /\ Goto(c, IF me.pc = "dest" THEN "destBoard" ELSE "update")
  <2>1. CASE me.pc = "dest"
    BY <1>7, <1>11, <2>1 DEF Pcs
  <2>2. CASE me.pc = "source"
    BY <1>7, <1>11, <2>2 DEF Pcs
  <2> QED
    BY <1>1, <2>1, <2>2
<1> QED
  BY <1>8, <1>9, <1>10, <1>11

(* What is known of the running call.                                      *)
LEMMA RunningBoards ==
  ASSUME IInv, BoardInv, NEW c \in Cards, Running(c)
  PROVE  /\ CallOK(call[c]) /\ call[c] \in Calls /\ c \in Range(stack) /\ c = Last(stack)
         /\ TornOK(hashTable, call[c]) /\ FilledOK(hashTable, call[c])
         /\ call[c].met = "other" => NotPastOK(hashTable, call[c])
         /\ hashTable \in Table /\ SlotsOK(hashTable) /\ ChainsOK(hashTable)
<1>1. CallOK(call[c]) /\ call[c] \in Calls /\ c \in Range(stack) /\ c = Last(stack)
  BY RunningLast
<1>2. call[c].met = "other" => ~SameSource(c)
  BY RunsAlone
<1> QED
  BY <1>1, <1>2
  DEF BoardInv, Torn, Filled, NotPast, IInv, TypeInv, ChainsUnbroken, ChainsOK

(* The probe for the destination goes on, or ends.                         *)
LEMMA DestValidBoards ==
  ASSUME IInv, BoardInv, NEW c \in Cards, DestValid(c)
  PROVE  BoardInv'
<1> DEFINE me == call[c]
           next == NextSlot(me.curr)
<1>1. /\ Running(c) /\ me.pc = "destValid" /\ me.pc # "update"
      /\ UNCHANGED <<hashTable, stack, main, heard, known>>
  BY DEF DestValid
<1>2. CallOK(me) /\ me \in Calls /\ FilledOK(hashTable, me)
  BY <1>1, RunningBoards
<1>3. CASE call' = [call EXCEPT ![c] = SourceOf(me)]
  BY <1>1, <1>2, <1>3, SourceOfOK, SourceOfBoards, LocalBoards
<1>4. CASE /\ hashTable[me.curr].valid /\ next # Hash[me.addr]
           /\ call' = [call EXCEPT ![c] = Probe(me, "dest", me.addr, next)]
  <2> DEFINE on == Probe(me, "dest", me.addr, next)
  <2>1. me.curr \in Slots /\ me.addr \in Addresses
    BY <1>1, <1>2 DEF CallOK, Calls
  <2>2. next \in Slots /\ Before(me.addr, next) = Before(me.addr, me.curr) \cup {me.curr}
    BY <1>4, <2>1, ProbeSteps
  <2>3. /\ on.pc = "dest" /\ on.curr = next /\ on.met = me.met /\ on.word = 1
        /\ on.addr = me.addr /\ on.source = me.source
    <3>1. "dest" \in Pcs
      BY DEF Pcs
    <3> QED
      BY <1>2, <2>1, <2>2, <3>1, ProbeFields
  <2>4. call' = [call EXCEPT ![c] = on]
    BY <1>4
  <2> HIDE DEF on, next
  <2>5. TornOK(hashTable, on)
    <3>1. Compared(hashTable, on.addr, on.curr, on.word - 1)
      BY <2>3 DEF Compared
    <3> QED
      BY <2>3, <3>1 DEF TornOK
  <2>6. FilledOK(hashTable, on)
    <3>1. ASSUME NEW t \in Before(me.addr, next)
          PROVE  hashTable[t].valid /\ (hashTable[t].address = me.addr => Sole(hashTable, t))
      BY <1>1, <1>2, <1>4, <2>2 DEF FilledOK
    <3>2. me.addr \in Stations
      BY <1>1, <1>2 DEF FilledOK
    <3> QED
      BY <2>3, <3>1, <3>2 DEF FilledOK
  <2>7. NotPastOK(hashTable, on)
    BY <2>3 DEF NotPastOK
  <2> QED
    BY <1>1, <2>3, <2>4, <2>5, <2>6, <2>7, LocalBoards
<1> QED
  BY <1>3, <1>4 DEF DestValid

(* The board of the destination is looked at.                              *)
LEMMA DestBoardBoards ==
  ASSUME IInv, BoardInv, NEW c \in Cards, DestBoard(c)
  PROVE  BoardInv'
<1> DEFINE me == [call[c] EXCEPT !.pass = hashTable[call[c].curr].boardNumber # c]
<1>1. /\ Running(c) /\ call' = [call EXCEPT ![c] = SourceOf(me)] /\ call[c].pc # "update"
      /\ UNCHANGED <<hashTable, stack, main, heard, known>>
  BY DEF DestBoard
<1>2. call[c] \in Calls
  BY <1>1, RunningLast
<1>3. me \in Calls /\ me.met = call[c].met /\ me.source = call[c].source
  BY <1>2 DEF Calls
<1> HIDE DEF me
<1> QED
  BY <1>1, <1>3, SourceOfOK, SourceOfBoards, LocalBoards

(* The probe for the source ends at a free slot or where it began, or goes *)
(* on: it does not end before the slot in which the source is found.       *)
LEMMA SourceValidBoards ==
  ASSUME IInv, BoardInv, NEW c \in Cards, SourceValid(c)
  PROVE  BoardInv'
<1> DEFINE me == call[c]
           next == NextSlot(me.curr)
<1>1. /\ Running(c) /\ me.pc = "sourceValid" /\ me.pc # "update"
      /\ UNCHANGED <<hashTable, stack, main, heard, known>>
  BY DEF SourceValid
<1>2. /\ CallOK(me) /\ me \in Calls
      /\ me.met = "other" => NotPastOK(hashTable, me)
  BY <1>1, RunningBoards
<1>3. /\ me.curr \in Slots /\ me.addr \in Addresses
      /\ me.addr = me.source /\ me.source \in Stations
  BY <1>1, <1>2 DEF CallOK, Calls, ForSource
<1>4. ASSUME me.met = "other", NEW s \in Slots, Distinct(me.source),
             Finds(hashTable, me.source, s)
      PROVE  /\ hashTable[me.curr].valid /\ next # Hash[me.addr]
             /\ next \in Before(me.source, s) \cup {s}
  <2>1. me.curr \in Before(me.source, s)
    BY <1>1, <1>2, <1>3, <1>4 DEF NotPastOK
  <2>2. hashTable[me.curr].valid
    BY <1>4, <2>1 DEF Finds
  <2> QED
    BY <1>3, <2>1, <2>2, GoesOn
<1>5. next \in Slots
  BY <1>3, NextSlotIs
<1> HIDE DEF next
<1>6. CASE ~hashTable[me.curr].valid /\ Goto(c, "insert")
  <2> DEFINE on == [me EXCEPT !.pc = "insert", !.word = 1]
  <2>1. /\ on.pc = "insert" /\ on.curr = me.curr
        /\ on.source = me.source /\ on.met = me.met
    <3>1. "insert" \in Pcs
      BY DEF Pcs
    <3> QED
      BY <1>2, <3>1, GotoFields
  <2>2. call' = [call EXCEPT ![c] = on]
    BY <1>6, GotoIs
  <2> HIDE DEF on
  <2>3. TornOK(hashTable, on) /\ FilledOK(hashTable, on)
    BY <1>6, <2>1 DEF TornOK, FilledOK
  <2>4. me.met = "other" => NotPastOK(hashTable, on)
    BY <1>4, <1>6, <2>1 DEF NotPastOK
  <2> QED
    BY <1>1, <2>1, <2>2, <2>3, <2>4, LocalBoards
<1>7. CASE /\ hashTable[me.curr].valid /\ next = Hash[me.addr]
           /\ call' = [call EXCEPT ![c] = Probe(me, "return", me.addr, Nowhere)]
  <2> DEFINE on == Probe(me, "return", me.addr, Nowhere)
  <2>1. on.pc = "return" /\ on.met = me.met /\ on.source = me.source
    <3>1. "return" \in Pcs /\ Nowhere \in Slots \cup {Nowhere}
      BY DEF Pcs
    <3> QED
      BY <1>2, <1>3, <3>1, ProbeFields
  <2>2. call' = [call EXCEPT ![c] = on]
    BY <1>7
  <2> HIDE DEF on
  <2>3. TornOK(hashTable, on) /\ FilledOK(hashTable, on)
    BY <2>1 DEF TornOK, FilledOK
  <2>4. me.met = "other" => NotPastOK(hashTable, on)
    BY <1>4, <1>7, <2>1 DEF NotPastOK
  <2> QED
    BY <1>1, <2>1, <2>2, <2>3, <2>4, LocalBoards
<1>8. CASE /\ hashTable[me.curr].valid /\ next # Hash[me.addr]
           /\ call' = [call EXCEPT ![c] = Probe(me, "source", me.addr, next)]
  <2> DEFINE on == Probe(me, "source", me.addr, next)
  <2>1. /\ on.pc = "source" /\ on.curr = next /\ on.met = me.met /\ on.word = 1
        /\ on.addr = me.addr /\ on.source = me.source
    <3>1. "source" \in Pcs /\ next \in Slots \cup {Nowhere}
      BY <1>5 DEF Pcs
    <3> QED
      BY <1>2, <1>3, <3>1, ProbeFields
  <2>2. call' = [call EXCEPT ![c] = on]
    BY <1>8
  <2> HIDE DEF on
  <2>3. Compared(hashTable, on.addr, on.curr, on.word - 1)
    BY <2>1 DEF Compared
  <2>4. TornOK(hashTable, on) /\ FilledOK(hashTable, on)
    BY <2>1, <2>3 DEF TornOK, FilledOK
  <2>5. me.met = "other" => NotPastOK(hashTable, on)
    BY <1>4, <2>1 DEF NotPastOK
  <2> QED
    BY <1>1, <2>1, <2>2, <2>4, <2>5, LocalBoards
<1> QED
  BY <1>6, <1>7, <1>8 DEF SourceValid, next

(* The source is written.  If others wait for this call, it was not        *)
(* interrupted, and the slot is still free; if it was interrupted, it runs *)
(* alone.                                                                  *)
LEMMA InsertBoards ==
  ASSUME IInv, BoardInv, NEW c \in Cards, Insert(c)
  PROVE  BoardInv'
<1> DEFINE me   == call[c]
           x    == me.curr
           u    == me.source
           new  == [address |-> u, valid |-> TRUE, boardNumber |-> c]
           next == [me EXCEPT !.pc = "update", !.word = 1]
           later == hashTable'
<1>1. /\ Running(c) /\ me.pc = "insert"
      /\ later = [hashTable EXCEPT ![x] = new]
      /\ call' = [call EXCEPT ![c] = next]
      /\ UNCHANGED <<stack, main, heard, known>>
  BY GotoIs DEF Insert
<1>2. /\ CallOK(me) /\ me \in Calls /\ c \in Range(stack) /\ c = Last(stack)
      /\ FilledOK(hashTable, me) /\ Passed(hashTable, me)
      /\ me.met = "none" => Undisturbed(hashTable, me)
      /\ me.met = "other" => NotPastOK(hashTable, me)
      /\ hashTable \in Table /\ SlotsOK(hashTable) /\ ChainsOK(hashTable)
  BY <1>1, RunningBoards, RunningLast
<1>3. x \in Slots /\ me.addr = u /\ u \in Stations /\ u \in Addresses
  BY <1>1, <1>2 DEF CallOK, Calls, ForSource
<1>4. /\ next.pc = "update" /\ next.curr = x
      /\ next.addr = u /\ next.source = u /\ next.met = me.met
  <2>1. "update" \in Pcs
    BY DEF Pcs
  <2> QED
    BY <1>2, <1>3, <2>1, GotoFields
<1>5. new \in Entry /\ new.address = u /\ new.valid = TRUE /\ new.boardNumber = c
  BY <1>3 DEF Entry
<1>6. hashTable[x].valid => Sole(hashTable, x)
  BY <1>1, <1>2 DEF FilledOK
<1>7. ASSUME me.met = "none"
      PROVE  /\ ~hashTable[x].valid
             /\ \A t \in Before(u, x) : hashTable[t].valid /\ hashTable[t].address # u
  BY <1>1, <1>2, <1>3, <1>7 DEF Passed, Undisturbed, ForSource
<1>8. ASSUME me.met = "other", Distinct(u), NEW s \in Slots PROVE ~Finds(hashTable, u, s)
  BY <1>1, <1>2, <1>3, <1>8 DEF NotPastOK
<1> HIDE DEF new, next, x, u, me
<1>9. /\ later \in Table /\ later[x] = new
      /\ \A s \in Slots \ {x} : later[s] = hashTable[s]
  BY <1>1, <1>2, <1>3, <1>5 DEF Table
<1> HIDE DEF later
<1>10. ASSUME NEW a \in Addresses, NEW s \in Slots, Finds(later, a, s)
       PROVE  (s = x /\ a = u) \/ (s # x /\ Finds(hashTable, a, s))
  BY <1>2, <1>3, <1>5, <1>6, <1>9, <1>10, NewlyFound
<1>11. ASSUME NEW d \in Range(stack), d # c
       PROVE  /\ d \in Cards /\ CallOK(call[d]) /\ call'[d] = call[d]
              /\ me.met = "none"
  <2>1. Range(stack) \subseteq Cards
    BY DEF IInv, TypeInv, Range
  <2> QED
    BY <1>1, <1>2, <1>11, <2>1 DEF IInv, TypeInv, BoardInv, OnTop, me
<1>12. call'[c] = next /\ c \in Cards
  <2>1. call = [d \in Cards |-> call[d]]
    BY DEF IInv, TypeInv
  <2> QED
    BY <1>1, <2>1
<1>13. ASSUME me.met = "none"
       PROVE  /\ \A a \in Addresses, s \in Slots : Finds(hashTable, a, s) => Finds(later, a, s)
              /\ \A t \in Slots : hashTable[t].valid /\ Sole(hashTable, t) => Sole(later, t)
              /\ Sole(later, x)
              /\ \A a, s, k : s \in Slots /\ k \in 0 .. NumWords /\ Compared(hashTable, a, s, k)
                                => Compared(later, a, s, k)
  BY <1>2, <1>3, <1>5, <1>7, <1>9, <1>13, FreeTaken
<1>14. Torn'
  <2> SUFFICES ASSUME NEW d \in Range(stack) PROVE TornOK(later, call'[d])
    BY <1>1 DEF Torn, later
  <2>1. CASE d = c
    <3>1. Compared(later, next.addr, next.curr, NumWords)
      BY <1>4, <1>5, <1>9 DEF Compared
    <3> QED
      BY <1>4, <1>12, <2>1, <3>1 DEF TornOK
  <2>2. CASE d # c
    <3>1. CallOK(call[d]) /\ call'[d] = call[d] /\ me.met = "none" /\ TornOK(hashTable, call[d])
      BY <1>11, <2>2 DEF BoardInv, Torn
    <3>2. ASSUME call[d].pc \in {"dest", "source"}
          PROVE  Compared(later, call[d].addr, call[d].curr, call[d].word - 1)
      <4>1. call[d].curr \in Slots /\ call[d].word \in 1 .. NumWords
        BY <3>1, <3>2, Sizes DEF CallOK, Calls
      <4>2. call[d].word - 1 \in 0 .. NumWords
        BY <4>1, Sizes
      <4> QED
        BY <1>13, <3>1, <3>2, <4>1, <4>2 DEF TornOK
    <3>3. ASSUME call[d].pc \in {"destBoard", "update"}
          PROVE  Compared(later, call[d].addr, call[d].curr, NumWords)
      <4>1. call[d].curr \in Slots /\ NumWords \in 0 .. NumWords
        BY <3>1, <3>3, Sizes DEF CallOK, Calls
      <4> QED
        BY <1>13, <3>1, <3>3, <4>1 DEF TornOK
    <3> QED
      BY <3>1, <3>2, <3>3 DEF TornOK
  <2> QED
    BY <2>1, <2>2
<1>15. OnTop'
  <2> SUFFICES ASSUME NEW e \in Range(stack), NEW d \in Range(stack), e # d, d = Last(stack)
               PROVE  call'[d].met = "none"
    BY <1>1 DEF OnTop
  <2>1. d = c /\ e # c
    BY <1>2
  <2> QED
    BY <1>4, <1>11, <1>12, <2>1
<1>16. Filled'
  <2> SUFFICES ASSUME NEW d \in Range(stack) PROVE FilledOK(later, call'[d])
    BY <1>1 DEF Filled, later
  <2>1. CASE d = c
    BY <1>4, <1>12, <2>1 DEF FilledOK
  <2>2. CASE d # c
    <3> DEFINE it == call[d]
    <3>1. CallOK(it) /\ call'[d] = it /\ me.met = "none" /\ FilledOK(hashTable, it)
      BY <1>11, <2>2 DEF BoardInv, Filled
    <3>2. it.pc # "return" => it.curr \in Slots /\ it.addr \in Addresses
      BY <3>1 DEF CallOK, Calls
    <3>3. ASSUME it.pc = "insert", later[it.curr].valid PROVE Sole(later, it.curr)
      <4>1. CASE it.curr = x
        BY <1>13, <3>1, <4>1
      <4>2. CASE it.curr # x
        BY <1>9, <1>13, <3>1, <3>2, <3>3, <4>2 DEF FilledOK
      <4> QED
        BY <4>1, <4>2
    <3>4. ASSUME it.pc \in {"dest", "destValid"}, NEW t \in Before(it.addr, it.curr)
          PROVE  later[t].valid /\ (later[t].address = it.addr => Sole(later, t))
      <4>1. hashTable[t].valid /\ (hashTable[t].address = it.addr => Sole(hashTable, t))
        BY <3>1, <3>4 DEF FilledOK
      <4>2. t \in Slots
        BY <3>2, <3>4, BeforeSlots
      <4>3. later[t] = hashTable[t]
        BY <1>7, <1>9, <3>1, <4>1, <4>2
      <4> QED
        BY <1>13, <3>1, <4>1, <4>2, <4>3
    <3>5. ASSUME it.pc = "destValid", later[it.curr].address = it.addr
          PROVE  Sole(later, it.curr)
      <4>1. CASE it.curr = x
        BY <1>13, <3>1, <4>1
      <4>2. CASE it.curr # x
        <5>1. hashTable[it.curr].address = it.addr /\ it.curr \in Slots /\ it.addr \in Addresses
          BY <1>9, <3>2, <3>5, <4>2
        <5>2. hashTable[it.curr].valid
          BY <1>2, <5>1, AddressAssumption DEF SlotsOK
        <5> QED
          BY <1>13, <3>1, <3>5, <5>1, <5>2 DEF FilledOK
      <4> QED
        BY <4>1, <4>2
    <3>6. ASSUME it.pc = "destBoard", Distinct(it.addr) PROVE Finds(later, it.addr, it.curr)
      BY <1>13, <3>1, <3>2, <3>6 DEF FilledOK
    <3> HIDE DEF it
    <3> QED
      BY <3>1, <3>3, <3>4, <3>5, <3>6 DEF FilledOK
  <2> QED
    BY <2>1, <2>2
<1>17. NotPast'
  <2> SUFFICES ASSUME NEW d \in Range(stack), call'[d].met = "other", ~SameSource(d)'
               PROVE  NotPastOK(later, call'[d])
    BY <1>1 DEF NotPast, later
  <2>1. CASE d = c
    <3>1. me.met = "other"
      BY <1>4, <1>12, <2>1
    <3>2. ASSUME NEW s \in Slots, Distinct(u), Finds(later, u, s) PROVE s = x
      BY <1>3, <1>8, <1>10, <3>1, <3>2
    <3> QED
      BY <1>4, <1>12, <2>1, <3>2 DEF NotPastOK
  <2>2. CASE d # c
    <3>1. call'[d] = call[d]
      BY <1>11, <2>2
    <3>2. call[d].source # u
      BY <1>1, <1>2, <1>4, <1>12, <2>2, <3>1 DEF SameSource
    <3>3. ~SameSource(d)
      <4>1. ASSUME NEW e \in Range(stack) \ {d}, call[e].source = call[d].source,
                   call[e].pc = "update"
            PROVE  FALSE
        <5>1. e # c
          BY <1>1, <4>1 DEF me
        <5>2. call'[e] = call[e]
          BY <1>11, <5>1
        <5> QED
          BY <1>1, <3>1, <4>1, <5>2 DEF SameSource
      <4> QED
        BY <4>1 DEF SameSource
    <3>4. NotPastOK(hashTable, call[d])
      BY <2>2, <3>1, <3>3 DEF BoardInv, NotPast
    <3>5. ASSUME NEW s \in Slots, call[d].source \in Stations, Finds(later, call[d].source, s)
          PROVE  Finds(hashTable, call[d].source, s)
      BY <1>10, <3>2, <3>5 DEF Addresses
    <3> QED
      BY <3>1, <3>4, <3>5 DEF NotPastOK
  <2> QED
    BY <2>1, <2>2
<1>18. Right'
  <2> SUFFICES ASSUME NEW a \in Stations, NEW s \in Slots, Distinct(a), Finds(later, a, s),
                      NEW b, b = later[s].boardNumber
               PROVE  b \in heard[a] \/ Owner(b, a, s)'
    BY <1>1 DEF Right, Owner, later
  <2>1. CASE s = x /\ a = u
    <3>1. b = c
      BY <1>5, <1>9, <2>1
    <3>2. Owner(c, a, s)'
      BY <1>1, <1>2, <1>4, <1>12, <2>1 DEF Owner
    <3> QED
      BY <3>1, <3>2
  <2>2. CASE s # x /\ Finds(hashTable, a, s)
    <3>1. b = hashTable[s].boardNumber
      BY <1>9, <2>2
    <3>2. b \in heard[a] \/ Owner(b, a, s)
      BY <2>2, <3>1 DEF BoardInv, Right
    <3>3. ASSUME Owner(b, a, s) PROVE Owner(b, a, s)'
      <4>1. b \in Range(stack) /\ b # c
        BY <1>1, <3>3 DEF Owner, me
      <4>2. call'[b] = call[b]
        BY <1>11, <4>1
      <4> QED
        BY <1>1, <3>3, <4>2 DEF Owner
    <3> QED
      BY <3>2, <3>3
  <2> QED
    BY <1>10, <2>1, <2>2 DEF Addresses
<1> QED
  BY <1>14, <1>15, <1>16, <1>17, <1>18 DEF BoardInv

(* A call returns: its card is the one the source was heard on last.       *)
LEMMA ReturnBoards ==
  ASSUME TwoCards, IInv, BoardInv, NEW c \in Cards, Running(c),
         call[c].pc \in {"update", "return"}, NEW table,
         \A s \in Slots : /\ table[s].address = hashTable[s].address
                          /\ table[s].valid = hashTable[s].valid
                          /\ table[s].boardNumber =
                               IF call[c].pc = "update" /\ s = call[c].curr
                               THEN c ELSE hashTable[s].boardNumber,
         hashTable' = table, Return(c, table), UNCHANGED main
  PROVE  BoardInv'
<1> DEFINE me    == call[c]
           u     == me.source
           same  == {d \in Range(Front(stack)) : call[d].source = u}
           cards == IF me.met = "same" THEN heard[u] \cup {c} ELSE {c}
<1>1. /\ stack' = Front(stack)
      /\ heard' = IF u \in Stations THEN [heard EXCEPT ![u] = cards \cup same] ELSE heard
      /\ call' = [d \in Cards |->
           CASE d = c -> NoCall
             [] d \in same -> [call[d] EXCEPT !.met = "same"]
             [] OTHER -> call[d]]
  BY DEF Return, Ended
<1>2. /\ c = Last(stack) /\ stack # <<>>
      /\ Range(stack') = Range(stack) \ {c}
      /\ Range(stack) \subseteq Cards /\ c \in Range(stack)
  <2>1. stack \in Seq(Cards) /\ IsInjective(stack) /\ Range(stack) \subseteq Cards
    BY DEF IInv, TypeInv, Range
  <2> QED
    BY <1>1, <2>1, RunningLast, Popped
<1>3. ASSUME NEW d \in Range(stack')
      PROVE  /\ d \in Cards /\ d # c /\ d \in Range(stack) /\ CallOK(call[d])
             /\ call'[d].pc = call[d].pc /\ call'[d].source = call[d].source
             /\ call'[d].addr = call[d].addr /\ call'[d].curr = call[d].curr
             /\ call'[d].word = call[d].word
             /\ call[d].source = u => call'[d].met = "same"
             /\ call[d].source # u => call'[d] = call[d]
  <2>1. d \in Cards /\ d # c /\ d \in Range(stack) /\ CallOK(call[d])
    BY <1>2 DEF IInv, TypeInv
  <2>2. /\ call'[d] = IF d \in same THEN [call[d] EXCEPT !.met = "same"] ELSE call[d]
        /\ d \in same <=> call[d].source = u
    BY <1>1, <2>1
  <2> HIDE DEF same, u
  <2>3. CASE d \in same
    BY <2>1, <2>2, <2>3 DEF CallOK, Calls
  <2>4. CASE d \notin same
    BY <2>1, <2>2, <2>4
  <2> QED
    BY <2>1, <2>2, <2>3, <2>4
<1>4. /\ CallOK(me) /\ me \in Calls /\ TornOK(hashTable, me)
      /\ me.met = "other" => NotPastOK(hashTable, me)
      /\ me.met = "none" => Undisturbed(hashTable, me)
      /\ hashTable \in Table /\ SlotsOK(hashTable)
  BY RunningBoards, RunningLast
<1>5. /\ \A a \in Addresses, s \in Slots : Finds(hashTable', a, s) <=> Finds(hashTable, a, s)
      /\ \A t \in Slots : Sole(hashTable', t) <=> Sole(hashTable, t)
      /\ \A a, s, k : s \in Slots =>
           (Compared(hashTable', a, s, k) <=> Compared(hashTable, a, s, k))
  BY SameAddresses
<1>6. /\ u \in Addresses /\ me.pc \in {"update", "return"}
      /\ me.pc = "update" => me.curr \in Slots /\ me.addr = u /\ u \in Stations
  BY <1>4 DEF CallOK, Calls
<1>7. ASSUME u \in Stations
      PROVE  /\ c \in heard'[u] /\ \A d \in Range(stack') : call[d].source = u => d \in heard'[u]
             /\ me.met = "same" => heard[u] \subseteq heard'[u]
             /\ \A a \in Stations \ {u} : heard'[a] = heard[a]
  <2>1. heard'[u] = cards \cup same /\ \A a \in Stations \ {u} : heard'[a] = heard[a]
    BY <1>1, <1>7 DEF IInv, TypeInv
  <2> QED
    BY <1>1, <2>1
<1>8. u \notin Stations => heard' = heard
  BY <1>1
<1> HIDE DEF u, same, cards, me
<1>9. Torn'
  <2> SUFFICES ASSUME NEW d \in Range(stack') PROVE TornOK(hashTable', call'[d])
    BY DEF Torn
  <2>1. TornOK(hashTable, call[d]) /\ CallOK(call[d])
    BY <1>3 DEF BoardInv, Torn
  <2>2. call[d].pc # "return" => call[d].curr \in Slots
    BY <2>1 DEF CallOK, Calls
  <2> QED
    BY <1>3, <1>5, <2>1, <2>2 DEF TornOK
<1>10. OnTop'
  <2>1. \A d, e \in Range(stack') : d = e
    BY <1>3 DEF TwoCards
  <2> QED
    BY <2>1 DEF OnTop
<1>11. Filled'
  <2> SUFFICES ASSUME NEW d \in Range(stack') PROVE FilledOK(hashTable', call'[d])
    BY DEF Filled
  <2>1. FilledOK(hashTable, call[d]) /\ CallOK(call[d])
    BY <1>3 DEF BoardInv, Filled
  <2>2. call[d].pc # "return" => call[d].curr \in Slots /\ call[d].addr \in Addresses
    BY <2>1 DEF CallOK, Calls
  <2>3. FilledOK(hashTable', call[d])
    <3>1. ASSUME call[d].pc \in {"dest", "destValid"},
                 NEW t \in Before(call[d].addr, call[d].curr)
          PROVE  /\ hashTable'[t].valid
                 /\ hashTable'[t].address = call[d].addr => Sole(hashTable', t)
      <4>1. t \in Slots
        BY <2>2, <3>1, BeforeSlots
      <4> QED
        BY <1>5, <2>1, <3>1, <4>1 DEF FilledOK
    <3> QED
      BY <1>5, <2>1, <2>2, <3>1 DEF FilledOK
  <2> QED
    BY <1>3, <2>3 DEF FilledOK
<1>12. NotPast'
  <2> SUFFICES ASSUME NEW d \in Range(stack'), call'[d].met = "other", ~SameSource(d)'
               PROVE  NotPastOK(hashTable', call'[d])
    BY DEF NotPast
  <2>1. call[d].source # u /\ call'[d] = call[d]
    BY <1>3
  <2>2. ~SameSource(d)
    <3>1. ASSUME NEW e \in Range(stack) \ {d}, call[e].source = call[d].source,
                 call[e].pc = "update"
          PROVE  FALSE
      <4>1. e \in Range(stack') \ {d}
        BY <1>2, <2>1, <3>1 DEF u, me
      <4> QED
        BY <1>3, <3>1, <4>1 DEF SameSource
    <3> QED
      BY <3>1 DEF SameSource
  <2>3. NotPastOK(hashTable, call[d])
    BY <1>3, <2>1, <2>2 DEF BoardInv, NotPast
  <2> QED
    BY <1>5, <2>1, <2>3 DEF NotPastOK, Addresses
<1>13. Right'
  <2> SUFFICES ASSUME NEW a \in Stations, NEW s \in Slots, Distinct(a), Finds(hashTable', a, s),
                      NEW b, b = hashTable'[s].boardNumber
               PROVE  b \in heard'[a] \/ Owner(b, a, s)'
    BY DEF Right, Owner
  <2>1. Finds(hashTable, a, s) /\ a \in Addresses
    BY <1>5 DEF Addresses
  <2>2. CASE me.pc = "update" /\ s = me.curr
    <3>1. Compared(hashTable, u, s, NumWords)
      BY <1>4, <1>6, <2>2 DEF TornOK
    <3>2. hashTable[s].address = u /\ hashTable[s].address = a
      BY <1>4, <1>6, <2>1, <3>1, ComparedIs DEF Finds
    <3>3. b = c
      BY <2>2 DEF me
    <3> QED
      BY <1>7, <3>2, <3>3
  <2>3. CASE ~(me.pc = "update" /\ s = me.curr)
    <3>1. b = hashTable[s].boardNumber
      BY <2>3 DEF me
    <3>2. b \in heard[a] \/ Owner(b, a, s)
      BY <2>1, <3>1 DEF BoardInv, Right
    <3>3. ASSUME Owner(b, a, s)
          PROVE  b \in Range(stack') /\ call[b].source = a /\ Owner(b, a, s)'
      <4>1. b # c
        BY <2>3, <3>3 DEF Owner, me
      <4>2. b \in Range(stack')
        BY <1>2, <3>3, <4>1 DEF Owner
      <4> QED
        BY <1>3, <3>3, <4>2 DEF Owner
    <3>4. CASE a = u
      <4>1. ASSUME b \in heard[a] PROVE me.met = "same"
        <5>1. CASE me.met = "none"
          <6>1. Undisturbed(hashTable, me)
            BY <1>4, <5>1
          <6>2. me.pc # "return"
            BY <2>1, <3>4, <6>1 DEF Undisturbed, Finds, u
          <6>3. Finds(hashTable, u, me.curr)
            BY <1>6, <6>1, <6>2 DEF Undisturbed
          <6>4. s = me.curr
            BY <1>6, <2>1, <3>4, <6>2, <6>3, FoundOnce
          <6> QED
            BY <1>6, <2>3, <6>2, <6>4
        <5>2. CASE me.met = "other"
          <6>1. NotPastOK(hashTable, me)
            BY <1>4, <5>2
          <6> QED
            BY <1>6, <2>1, <2>3, <3>4, <6>1 DEF NotPastOK, u
        <5> QED
          BY <1>4, <5>1, <5>2 DEF Calls
      <4> QED
        BY <1>7, <3>2, <3>3, <3>4, <4>1
    <3>5. CASE a # u
      <4>1. heard'[a] = heard[a]
        BY <1>7, <1>8, <3>5
      <4> QED
        BY <3>2, <3>3, <4>1
    <3> QED
      BY <3>4, <3>5
  <2> QED
    BY <2>2, <2>3
<1> QED
  BY <1>9, <1>10, <1>11, <1>12, <1>13 DEF BoardInv

(* The board is set, and the call returns.                                 *)
LEMMA UpdateBoards ==
  ASSUME TwoCards, IInv, BoardInv, NEW c \in Cards, Update(c)
  PROVE  BoardInv'
<1> DEFINE x     == call[c].curr
           table == [hashTable EXCEPT ![x].boardNumber = c]
<1>1. /\ Running(c) /\ call[c].pc = "update" /\ hashTable' = table
      /\ Return(c, table) /\ UNCHANGED main
  BY DEF Update
<1>2. x \in Slots /\ hashTable \in Table
  BY <1>1, RunningLast DEF CallOK, Calls, IInv, TypeInv
<1>3. \A s \in Slots : /\ table[s].address = hashTable[s].address
                       /\ table[s].valid = hashTable[s].valid
                       /\ table[s].boardNumber =
                            IF call[c].pc = "update" /\ s = x
                            THEN c ELSE hashTable[s].boardNumber
  <2> HIDE DEF x
  <2> QED
    BY <1>1, <1>2 DEF Table, Entry
<1> HIDE DEF table
<1> QED
  BY <1>1, <1>3, ReturnBoards

(* The call returns without a slot.                                        *)
LEMMA ReturnOnlyBoards ==
  ASSUME TwoCards, IInv, BoardInv, NEW c \in Cards, ReturnOnly(c)
  PROVE  BoardInv'
<1>1. /\ Running(c) /\ call[c].pc = "return"
      /\ Return(c, hashTable) /\ hashTable' = hashTable /\ UNCHANGED main
  BY DEF ReturnOnly
<1> QED
  BY <1>1, ReturnBoards

(* A frame arrives: what its call interrupts was not past its source.      *)
LEMMA InterruptBoards ==
  ASSUME IInv, BoardInv, NEW c \in Cards, NEW dest \in Addresses, NEW source \in Addresses,
         Interrupt(c, dest, source)
  PROVE  BoardInv'
<1> DEFINE me == [pc |-> "dest", addr |-> dest, source |-> source, pass |-> TRUE,
                  word |-> 1, curr |-> Hash[dest], met |-> "none"]
           waiting == [d \in Cards |-> IF call[d] # NoCall /\ call[d].met = "none"
                                      THEN [call[d] EXCEPT !.met = "other"] ELSE call[d]]
           next == IF dest \in Groups THEN SourceOf(me) ELSE me
<1>1. /\ c \notin Range(stack) /\ stack' = Append(stack, c)
      /\ call' = [waiting EXCEPT ![c] = next]
      /\ UNCHANGED <<hashTable, main, heard, known>>
  BY DEF Interrupt
<1>2. /\ Range(stack') = Range(stack) \cup {c}
      /\ c = Last(stack') /\ Range(stack) \subseteq Cards
  <2>1. stack \in Seq(Cards) /\ IsInjective(stack) /\ Range(stack) \subseteq Cards
    BY DEF IInv, TypeInv, Range
  <2> QED
    BY <1>1, <2>1, Pushed
<1>3. TornOK(hashTable, next) /\ FilledOK(hashTable, next) /\ next.met = "none"
  <2>1. me \in Calls
    BY Sizes DEF Calls, Pcs
  <2>2. /\ me.pc = "dest" /\ me.addr = dest /\ me.curr = Hash[dest] /\ me.word = 1
        /\ me.met = "none"
    OBVIOUS
  <2> HIDE DEF me
  <2>3. Compared(hashTable, me.addr, me.curr, me.word - 1)
    BY <2>2 DEF Compared
  <2>4. Before(me.addr, me.curr) = {}
    <3>1. Before(dest, Hash[dest]) = {}
      BY Sizes, ProbeSteps
    <3> QED
      BY <2>2, <3>1
  <2>5. TornOK(hashTable, me) /\ (dest \notin Groups => FilledOK(hashTable, me))
    BY <2>2, <2>3, <2>4 DEF TornOK, FilledOK, Addresses
  <2> QED
    BY <2>1, <2>2, <2>5, SourceOfOK, SourceOfBoards
<1> HIDE DEF me, next
<1>4. ASSUME NEW d \in Range(stack)
      PROVE  /\ d # c /\ CallOK(call[d])
             /\ call'[d].pc = call[d].pc /\ call'[d].source = call[d].source
             /\ call'[d].addr = call[d].addr /\ call'[d].curr = call[d].curr
             /\ call'[d].word = call[d].word
             /\ call'[d].met = IF call[d].met = "none" THEN "other" ELSE call[d].met
  <2>1. d \in Cards /\ d # c /\ CallOK(call[d]) /\ call[d] \in Calls
    BY <1>1, <1>2 DEF IInv, TypeInv, CallOK
  <2>2. call'[d] = IF call[d].met = "none" THEN [call[d] EXCEPT !.met = "other"] ELSE call[d]
    BY <1>1, <2>1, NotIdle
  <2>3. CASE call[d].met = "none"
    BY <2>1, <2>2, <2>3 DEF CallOK, Calls
  <2>4. CASE call[d].met # "none"
    BY <2>1, <2>2, <2>4
  <2> QED
    BY <2>1, <2>3, <2>4
<1>5. call'[c] = next
  BY <1>1
<1> HIDE DEF waiting
<1>6. Torn'
  <2> SUFFICES ASSUME NEW d \in Range(stack') PROVE TornOK(hashTable, call'[d])
    BY <1>1 DEF Torn
  <2>1. CASE d = c
    BY <1>3, <1>5, <2>1
  <2>2. CASE d # c
    BY <1>2, <1>4, <2>2 DEF BoardInv, Torn, TornOK
  <2> QED
    BY <2>1, <2>2
<1>7. OnTop'
  BY <1>2, <1>3, <1>5 DEF OnTop
<1>8. Filled'
  <2> SUFFICES ASSUME NEW d \in Range(stack') PROVE FilledOK(hashTable, call'[d])
    BY <1>1 DEF Filled
  <2>1. CASE d = c
    BY <1>3, <1>5, <2>1
  <2>2. CASE d # c
    BY <1>2, <1>4, <2>2 DEF BoardInv, Filled, FilledOK
  <2> QED
    BY <2>1, <2>2
<1>9. NotPast'
  <2> SUFFICES ASSUME NEW d \in Range(stack'), call'[d].met = "other", ~SameSource(d)'
               PROVE  NotPastOK(hashTable, call'[d])
    BY <1>1 DEF NotPast
  <2>1. d # c /\ d \in Range(stack)
    BY <1>2, <1>3, <1>5
  <2>2. CASE call[d].met = "none"
    <3>1. CallOK(call[d]) /\ Passed(hashTable, call[d]) /\ Undisturbed(hashTable, call[d])
      BY <1>4, <2>1, <2>2 DEF IInv, Probing, Quiet
    <3>2. NotPastOK(hashTable, call[d])
      BY <3>1, QuietNotPast DEF IInv, TypeInv
    <3> QED
      BY <1>4, <2>1, <3>2 DEF NotPastOK
  <2>3. CASE call[d].met # "none"
    <3>1. ~SameSource(d)
      <4>1. ASSUME NEW e \in Range(stack) \ {d}, call[e].source = call[d].source,
                   call[e].pc = "update"
            PROVE  FALSE
        <5>1. e \in Range(stack') \ {d} /\ call'[e].source = call'[d].source
              /\ call'[e].pc = "update"
          BY <1>2, <1>4, <2>1, <4>1
        <5> QED
          BY <5>1 DEF SameSource
      <4> QED
        BY <4>1 DEF SameSource
    <3>2. NotPastOK(hashTable, call[d])
      BY <1>4, <2>1, <2>3, <3>1 DEF BoardInv, NotPast
    <3> QED
      BY <1>4, <2>1, <3>2 DEF NotPastOK
  <2> QED
    BY <2>2, <2>3
<1>10. Right'
  <2>1. \A b, a, s : Owner(b, a, s) => Owner(b, a, s)'
    BY <1>2, <1>4 DEF Owner
  <2> QED
    BY <1>1, <2>1 DEF BoardInv, Right
<1> QED
  BY <1>6, <1>7, <1>8, <1>9, <1>10 DEF BoardInv

(* Only main and known change, or nothing.                                 *)
LEMMA SameBoards ==
  ASSUME BoardInv, UNCHANGED <<hashTable, stack, call, heard>>
  PROVE  BoardInv'
<1>1. \A c \in Range(stack) : SameSource(c)' <=> SameSource(c)
  BY DEF SameSource
<1>2. \A b, a, s : Owner(b, a, s)' <=> Owner(b, a, s)
  BY DEF Owner
<1> QED
  BY <1>1, <1>2 DEF BoardInv, Torn, OnTop, Filled, NotPast, Right

(* The table starts with nothing to be found.                              *)
LEMMA InitBoards == Init => BoardInv
<1> SUFFICES ASSUME Init PROVE BoardInv
  OBVIOUS
<1>1. Range(stack) = {}
  BY DEF Init, Range
<1>2. \A s \in Slots : hashTable[s].address = ZeroAddress
  BY DEF Init, FreeSlot
<1>3. \A a \in Stations, s \in Slots : ~Finds(hashTable, a, s)
  BY <1>2, AddressAssumption DEF Finds, Addresses
<1> QED
  BY <1>1, <1>3 DEF BoardInv, Torn, OnTop, Filled, NotPast, Right

(* Every step keeps the boards right.                                      *)
LEMMA NextBoards ==
  ASSUME TwoCards
  PROVE  IInv /\ BoardInv /\ [Next]_vars => BoardInv'
<1> SUFFICES ASSUME IInv, BoardInv, [Next]_vars PROVE BoardInv'
  OBVIOUS
<1>1. ASSUME NEW c \in Cards, NEW f \in Frames, Interrupt(c, f[1], f[2]) PROVE BoardInv'
  <2>1. f[1] \in Addresses /\ f[2] \in Addresses
    BY FrameAssumption
  <2> QED
    BY <1>1, <2>1, InterruptBoards
<1>2. ASSUME NEW c \in Cards, Step(c) PROVE BoardInv'
  BY <1>2, CompareBoards, DestValidBoards, DestBoardBoards, SourceValidBoards,
     InsertBoards, UpdateBoards, ReturnOnlyBoards DEF Step
<1>3. ASSUME NEW a \in Stations, LookUp(a) PROVE BoardInv'
  BY <1>3, SameBoards DEF LookUp
<1>4. CASE LookUpReturn
  BY <1>4, SameBoards DEF LookUpReturn
<1>5. CASE UNCHANGED vars
  BY <1>5, SameBoards DEF vars
<1> QED
  BY <1>1, <1>2, <1>3, <1>4, <1>5 DEF Next

(* With two cards the board of every slot that is found is right, or about *)
(* to be.                                                                  *)
THEOREM BoardsAlwaysRight ==
  ASSUME TwoCards
  PROVE  Spec => []BoardInv
<1>1. Init => BoardInv
  BY InitBoards
<1>2. IInv /\ BoardInv /\ [Next]_vars => BoardInv'
  BY NextBoards
<1> QED
  BY <1>1, <1>2, IInvAlways, PTL DEF Spec

(* While no interrupt is served, a station that is found is on the card    *)
(* that heard it last, although two cards may have heard it at once and    *)
(* either may have inserted it, filled the slot the other had found free,  *)
(* or overwritten what the other inserted.                                 *)
THEOREM BoardAlwaysCurrent ==
  ASSUME TwoCards
  PROVE  Spec => []BoardIsCurrent
<1>1. IInv /\ BoardInv => BoardIsCurrent
  <2> SUFFICES ASSUME BoardInv, stack = <<>>, NEW a \in Stations \cap Found(hashTable),
                      Distinct(a)
               PROVE  hashTable[Find(hashTable, a)].boardNumber \in heard[a]
    BY DEF BoardIsCurrent
  <2>1. Find(hashTable, a) \in Slots /\ Finds(hashTable, a, Find(hashTable, a))
    BY DEF Find, Found
  <2>2. \A b, s : ~Owner(b, a, s)
    BY DEF Owner, Range
  <2> QED
    BY <2>1, <2>2 DEF BoardInv, Right
<1> QED
  BY <1>1, IInvAlways, BoardsAlwaysRight, PTL

(* A frame is held back only if its destination was heard on the card it   *)
(* came from: the probe for the destination, interrupted or not, ends at   *)
(* the slot in which the destination is found.                             *)
THEOREM FilterAlwaysJustified ==
  ASSUME TwoCards
  PROVE  Spec => FilterJustified
<1>1. IInv /\ BoardInv /\ [Next]_vars =>
        [\A c \in Cards :
           /\ call[c].pc = "destBoard" /\ call'[c].pc # "destBoard" /\ ~call'[c].pass
           /\ Distinct(call[c].addr)
           => c \in heard[call[c].addr]]_vars
  <2> SUFFICES ASSUME IInv, BoardInv, Next, NEW c \in Cards,
                      call[c].pc = "destBoard", call'[c].pc # "destBoard", ~call'[c].pass,
                      Distinct(call[c].addr)
               PROVE  c \in heard[call[c].addr]
    OBVIOUS
  <2>1. /\ c \in Range(stack) /\ CallOK(call[c]) /\ call[c] \in Calls /\ call[c] # NoCall
        /\ FilledOK(hashTable, call[c]) /\ call[c].curr \in Slots
    <3>1. c \in Range(stack)
      BY DEF IInv, TypeInv, NoCall
    <3>2. CallOK(call[c]) /\ FilledOK(hashTable, call[c])
      BY <3>1 DEF IInv, TypeInv, BoardInv, Filled
    <3> QED
      BY <3>1, <3>2, NotIdle DEF CallOK, Calls
  <2>2. DestBoard(c)
    <3>1. \A next : \A d \in Cards \ {c} : call' = [call EXCEPT ![d] = next] => call'[c] = call[c]
      BY DEF IInv, TypeInv
    <3>2. ASSUME NEW d \in Cards, NEW f \in Frames, Interrupt(d, f[1], f[2]) PROVE FALSE
      <4>1. d # c
        BY <2>1, <3>2 DEF Interrupt
      <4>2. call'[c] = IF call[c].met = "none" THEN [call[c] EXCEPT !.met = "other"] ELSE call[c]
        BY <2>1, <3>2, <4>1 DEF Interrupt
      <4> QED
        BY <2>1, <4>2 DEF Calls
    <3>3. ASSUME NEW d \in Cards \ {c}, NEW table, Return(d, table) PROVE FALSE
      <4>1. call'[c] = [call[c] EXCEPT !.met = "same"] \/ call'[c] = call[c]
        BY <3>3 DEF Return, Ended
      <4> QED
        BY <2>1, <4>1 DEF Calls
    <3>4. ASSUME NEW d \in Cards \ {c}, Step(d) PROVE FALSE
      <4>1. \A pc : ~Goto(d, pc)
        BY <3>1, GotoIs DEF Goto
      <4>2. ~Compare(d)
        <5>1. call' # [call EXCEPT ![d].word = @ + 1]
          BY <3>1
        <5> QED
          BY <4>1, <5>1 DEF Compare
      <4>3. ~DestValid(d) /\ ~DestBoard(d) /\ ~SourceValid(d)
        BY <3>1, <4>1 DEF DestValid, DestBoard, SourceValid
      <4>4. ~Insert(d) /\ ~Update(d) /\ ~ReturnOnly(d)
        BY <3>3, <4>1 DEF Insert, Update, ReturnOnly
      <4> QED
        BY <3>4, <4>2, <4>3, <4>4 DEF Step
    <3>5. ASSUME NEW a \in Stations, LookUp(a) PROVE FALSE
      BY <3>5 DEF LookUp
    <3>6. ~LookUpReturn
      BY DEF LookUpReturn
    <3>7. Step(c)
      BY <3>2, <3>4, <3>5, <3>6 DEF Next
    <3> QED
      BY <3>7 DEF Step, Compare, DestValid, SourceValid, Insert, Update, ReturnOnly
  <2> DEFINE me == [call[c] EXCEPT !.pass = hashTable[call[c].curr].boardNumber # c]
  <2>3. call'[c] = SourceOf(me)
    BY <2>2 DEF DestBoard, IInv, TypeInv
  <2>4. /\ me \in Calls
        /\ me.pass = (hashTable[call[c].curr].boardNumber # c)
    BY <2>1 DEF Calls
  <2> HIDE DEF me
  <2>5. SourceOf(me).pass = me.pass
    BY <2>4 DEF SourceOf, Probe, Calls
  <2>6. hashTable[call[c].curr].boardNumber = c
    BY <2>3, <2>4, <2>5
  <2>7. Finds(hashTable, call[c].addr, call[c].curr) /\ call[c].addr \in Stations
    BY <2>1 DEF FilledOK
  <2>8. ~Owner(c, call[c].addr, call[c].curr)
    BY DEF Owner
  <2> QED
    BY <2>1, <2>6, <2>7, <2>8 DEF BoardInv, Right
<1> QED
  BY <1>1, IInvAlways, BoardsAlwaysRight, PTL DEF Spec, FilterJustified

=============================================================================
