--------------------------- MODULE NetTableProofs ---------------------------
(***************************************************************************)
(* Theorems about NetTable, for every size of the tables and of extended   *)
(* memory, any networks and any hash.                                      *)
(***************************************************************************)
EXTENDS NetTable, FiniteSetTheorems, TLAPS

USE SlotsAssumption, HashAssumption, BlocksAssumption

-----------------------------------------------------------------------------
(* Lemmas on numbers.                                                      *)

(* A set of numbers up to L has a least one.                               *)
LEMMA Least ==
  ASSUME NEW L \in Nat, NEW S, S \subseteq 0 .. L, S # {}
  PROVE  \E x \in S : \A y \in S : x <= y
<1> DEFINE R == StrictSubsetOrdering(0 .. L)
           F == FiniteSubsetsOf(0 .. L)
           T == {0 .. m : m \in S}
<1>1. IsWellFoundedOn(R, F)
  BY FS_StrictSubsetOrderingWellFounded
<1>2. T \subseteq F /\ T # {}
  <2>1. IsFiniteSet(0 .. L)
    BY FS_Interval
  <2>2. ASSUME NEW m \in S PROVE 0 .. m \in F
    <3>1. 0 .. m \subseteq 0 .. L
      OBVIOUS
    <3>2. IsFiniteSet(0 .. m)
      BY <2>1, <3>1, FS_Subset
    <3> QED
      BY <3>1, <3>2 DEF FiniteSubsetsOf
  <2> QED
    BY <2>2
<1>3. PICK t \in T : \A u \in T : ~(<<u, t>> \in R)
  <2> HIDE DEF R, F, T
  <2> QED
    BY <1>1, <1>2, WFMin
<1>4. PICK x \in S : t = 0 .. x
  OBVIOUS
<1>5. ASSUME NEW y \in S PROVE x <= y
  <2>1. 0 .. y \in T
    OBVIOUS
  <2>2. ~(<<0 .. y, 0 .. x>> \in R)
    BY <1>3, <1>4, <2>1
  <2>3. 0 .. y \subseteq 0 .. L /\ 0 .. x \subseteq 0 .. L
    OBVIOUS
  <2>4. ~(0 .. y \subseteq 0 .. x /\ 0 .. y # 0 .. x)
    BY <2>2, <2>3 DEF StrictSubsetOrdering
  <2>5. ASSUME y < x PROVE FALSE
    <3>1. x \in Nat /\ y \in Nat /\ x \in 0 .. x /\ x \notin 0 .. y
      BY <2>5
    <3>2. 0 .. y \subseteq 0 .. x
      BY <3>1, <2>5
    <3> QED
      BY <2>4, <3>1, <3>2
  <2> QED
    BY <2>5
<1> QED
  BY <1>5

(* Induction up to L: P holds the numbers a property is true of.           *)
LEMMA UpTo ==
  ASSUME NEW L \in Nat, NEW P, 0 \in P, \A k \in 1 .. L : k - 1 \in P => k \in P
  PROVE  0 .. L \subseteq P
<1> DEFINE bad == (0 .. L) \ P
<1>1. SUFFICES ASSUME bad # {} PROVE FALSE
  OBVIOUS
<1>2. PICK x \in bad : \A y \in bad : x <= y
  BY <1>1, Least
<1>3. x \in 1 .. L /\ x - 1 \in 0 .. L
  OBVIOUS
<1> QED
  BY <1>2, <1>3

(* The states g of a loop whose steps are F[1], F[2] ... F[L].             *)
IsLoop(g, L, S, b, F) ==
  /\ g \in [0 .. L -> S]
  /\ \A k \in 0 .. L : g[k] = IF k = 0 THEN b ELSE F[k][g[k - 1]]

(* Each loop has states.                                                   *)
LEMMA Iterates ==
  ASSUME NEW L \in Nat, NEW S, NEW b \in S, NEW F \in [1 .. L -> [S -> S]]
  PROVE  \E g : IsLoop(g, L, S, b, F)
<1> DEFINE upto(m) == \E g \in [0 .. m -> S] :
             \A k \in 0 .. m : g[k] = IF k = 0 THEN b ELSE F[k][g[k - 1]]
           P == {m \in 0 .. L : upto(m)}
<1>1. upto(0)
  <2> DEFINE g == [k \in {0} |-> b]
  <2>1. 0 .. 0 = {0}
    OBVIOUS
  <2>2. g \in [0 .. 0 -> S] /\ \A k \in 0 .. 0 : g[k] = IF k = 0 THEN b ELSE F[k][g[k - 1]]
    BY <2>1
  <2> QED
    BY <2>2
<1>2. ASSUME NEW m \in 1 .. L, upto(m - 1) PROVE upto(m)
  <2>1. PICK g \in [0 .. m - 1 -> S] :
          \A k \in 0 .. m - 1 : g[k] = IF k = 0 THEN b ELSE F[k][g[k - 1]]
    BY <1>2
  <2> HIDE DEF upto, P
  <2> DEFINE h == [k \in 0 .. m |-> IF k = m THEN F[m][g[m - 1]] ELSE g[k]]
  <2>2. g[m - 1] \in S /\ F[m][g[m - 1]] \in S
    <3>1. m - 1 \in 0 .. m - 1
      OBVIOUS
    <3>2. g[m - 1] \in S
      BY <2>1, <3>1
    <3>3. F[m] \in [S -> S]
      OBVIOUS
    <3> QED
      BY <3>2, <3>3
  <2>3. h \in [0 .. m -> S]
    BY <2>1, <2>2
  <2>4. \A k \in 0 .. m : h[k] = IF k = 0 THEN b ELSE F[k][h[k - 1]]
    <3>1. ASSUME NEW k \in 0 .. m PROVE h[k] = IF k = 0 THEN b ELSE F[k][h[k - 1]]
      <4>1. CASE k = m
        BY <2>1, <4>1
      <4>2. CASE k = 0
        BY <2>1, <4>2
      <4>3. CASE k # m /\ k # 0
        <5>1. k \in 0 .. m - 1 /\ k - 1 \in 0 .. m - 1 /\ k - 1 # m
          BY <4>3
        <5>2. g[k] = F[k][g[k - 1]]
          BY <2>1, <4>3, <5>1
        <5> QED
          BY <4>3, <5>1, <5>2
      <4> QED
        BY <4>1, <4>2, <4>3
    <3> QED
      BY <3>1
  <2> HIDE DEF h
  <2> QED
    BY <2>3, <2>4 DEF upto
<1> HIDE DEF upto
<1>3. 0 \in P /\ \A k \in 1 .. L : k - 1 \in P => k \in P
  BY <1>1, <1>2
<1>4. 0 .. L \subseteq P
  <2> HIDE DEF P
  <2> QED
    BY <1>3, UpTo
<1>5. upto(L)
  BY <1>4
<1> QED
  BY <1>5 DEF upto, IsLoop

-----------------------------------------------------------------------------
(* Lemmas on slots and probes.                                             *)

(* A set of slots has a lowest and a highest one.                          *)
LEMMA LowestIn ==
  ASSUME NEW N \in Nat, NEW S, S \subseteq 0 .. N - 1, S # {}
  PROVE  /\ Lowest(S) \in S /\ \A t \in S : Lowest(S) <= t
         /\ Highest(S) \in S
<1>1. N - 1 \in Nat
  <2>1. PICK s \in S : TRUE
    OBVIOUS
  <2>2. s \in 0 .. N - 1
    BY <2>1
  <2> QED
    BY <2>2
<1>2. \E s \in S : \A t \in S : s <= t
  BY <1>1, Least
<1>3. \E s \in S : \A t \in S : t <= s
  <2> DEFINE U == {N - 1 - s : s \in S}
  <2>1. U \subseteq 0 .. N - 1 /\ U # {}
    <3>1. ASSUME NEW s \in S PROVE N - 1 - s \in 0 .. N - 1
      <4>1. s \in 0 .. N - 1
        OBVIOUS
      <4> QED
        BY <4>1
    <3> QED
      BY <3>1
  <2>2. PICK u \in U : \A v \in U : u <= v
    BY <1>1, <2>1, Least
  <2>3. PICK s \in S : u = N - 1 - s
    OBVIOUS
  <2>4. ASSUME NEW t \in S PROVE t <= s
    <3>1. N - 1 - t \in U
      OBVIOUS
    <3>2. u <= N - 1 - t
      BY <2>2, <3>1
    <3> QED
      BY <2>3, <3>2
  <2> QED
    BY <2>4
<1> QED
  BY <1>2, <1>3 DEF Lowest, Highest

(* A remainder of a number below twice the divisor.                        *)
LEMMA ModTwice ==
  ASSUME NEW N \in Nat \ {0}, NEW x \in 0 .. 2 * N - 1
  PROVE  x % N = IF x < N THEN x ELSE x - N
OBVIOUS

(* The steps of a probe by cases instead of remainders.                    *)
LEMMA DistanceIs ==
  ASSUME NEW p \in Slots, NEW s \in Slots
  PROVE  Distance(p, s) = IF p <= s THEN s - p ELSE s - p + MaxNumNetworks
<1> DEFINE N == MaxNumNetworks
           x == s - p + N
<1>1. N \in Nat \ {0} /\ x \in 0 .. 2 * N - 1
  BY DEF Slots
<1>2. x % N = IF x < N THEN x ELSE x - N
  <2> HIDE DEF x, N
  <2> QED
    BY <1>1, ModTwice
<1> QED
  BY <1>2 DEF Slots, Distance

(* The slot k places on, by cases.                                         *)
LEMMA AfterIs ==
  ASSUME NEW p \in Slots, NEW k \in 0 .. MaxNumNetworks
  PROVE  After(p, k) = IF p + k < MaxNumNetworks THEN p + k ELSE p + k - MaxNumNetworks
<1> DEFINE N == MaxNumNetworks
           x == p + k
<1>1. N \in Nat \ {0} /\ x \in 0 .. 2 * N - 1
  BY DEF Slots
<1>2. x % N = IF x < N THEN x ELSE x - N
  <2> HIDE DEF x, N
  <2> QED
    BY <1>1, ModTwice
<1> QED
  BY <1>2 DEF Slots, After

(* Distances are places on the way, and tell slots apart.                  *)
LEMMA Distances ==
  ASSUME NEW p \in Slots
  PROVE  /\ \A s \in Slots : Distance(p, s) \in 0 .. MaxNumNetworks - 1
         /\ \A s \in Slots : After(p, Distance(p, s)) = s
         /\ \A s, t \in Slots : Distance(p, s) = Distance(p, t) => s = t
         /\ \A k \in 0 .. MaxNumNetworks : After(p, k) \in Slots
         /\ \A k \in 0 .. MaxNumNetworks - 1 : Distance(p, After(p, k)) = k
         /\ After(p, 0) = p /\ Distance(p, p) = 0
<1>1. Slots = 0 .. MaxNumNetworks - 1 /\ MaxNumNetworks \in Nat \ {0}
  BY DEF Slots
<1>2. ASSUME NEW s \in Slots PROVE Distance(p, s) \in 0 .. MaxNumNetworks - 1
  <2> DEFINE d == Distance(p, s)
  <2>1. d = IF p <= s THEN s - p ELSE s - p + MaxNumNetworks
    BY DistanceIs
  <2> HIDE DEF d
  <2>2. d \in 0 .. MaxNumNetworks - 1
    BY <1>1, <2>1
  <2> QED
    BY <2>2 DEF d
<1>3. \A k \in 0 .. MaxNumNetworks : After(p, k) \in Slots
  BY <1>1, AfterIs
<1>4. ASSUME NEW s \in Slots PROVE After(p, Distance(p, s)) = s
  <2> DEFINE d == Distance(p, s)
  <2>1. d = IF p <= s THEN s - p ELSE s - p + MaxNumNetworks
    BY DistanceIs
  <2>2. d \in 0 .. MaxNumNetworks
    BY <1>1, <1>2
  <2> HIDE DEF d
  <2>3. After(p, d) = s
    BY <1>1, <2>1, <2>2, AfterIs
  <2> QED
    BY <2>3 DEF d
<1>5. ASSUME NEW k \in 0 .. MaxNumNetworks - 1 PROVE Distance(p, After(p, k)) = k
  <2> DEFINE s == After(p, k)
  <2>1. k \in 0 .. MaxNumNetworks
    BY <1>1
  <2>2. s = IF p + k < MaxNumNetworks THEN p + k ELSE p + k - MaxNumNetworks
    BY <2>1, AfterIs
  <2>3. s \in Slots
    BY <1>3, <2>1
  <2> HIDE DEF s
  <2>4. Distance(p, s) = k
    BY <1>1, <2>2, <2>3, DistanceIs
  <2> QED
    BY <2>4 DEF s
<1>6. After(p, 0) = p /\ Distance(p, p) = 0
  <2>1. 0 \in 0 .. MaxNumNetworks
    BY <1>1
  <2> QED
    BY <1>1, <2>1, AfterIs, DistanceIs
<1>7. \A s, t \in Slots : Distance(p, s) = Distance(p, t) => s = t
  BY <1>4
<1> QED
  BY <1>2, <1>3, <1>4, <1>5, <1>6, <1>7

(* Of two slots one comes first.                                           *)
LEMMA Apart ==
  ASSUME NEW p \in Slots, NEW s \in Slots, NEW t \in Slots
  PROVE  /\ Distance(p, s) \in Int /\ Distance(p, t) \in Int
         /\ s = t \/ Distance(p, s) < Distance(p, t) \/ Distance(p, t) < Distance(p, s)
<1> DEFINE ds == Distance(p, s)
           dt == Distance(p, t)
<1>1. ds \in 0 .. MaxNumNetworks - 1 /\ dt \in 0 .. MaxNumNetworks - 1 /\ (ds = dt => s = t)
  BY Distances
<1> HIDE DEF ds, dt
<1>2. ds \in Int /\ dt \in Int /\ (s = t \/ ds < dt \/ dt < ds)
  BY <1>1
<1> QED
  BY <1>2 DEF ds, dt

(* Of a set of slots one comes first, counted from p.                      *)
LEMMA Nearest ==
  ASSUME NEW p \in Slots, NEW S, S \subseteq Slots, S # {}
  PROVE  \E s \in S : \A t \in S : Distance(p, s) <= Distance(p, t)
<1> DEFINE D == {Distance(p, s) : s \in S}
<1>1. D \subseteq 0 .. MaxNumNetworks - 1 /\ D # {} /\ MaxNumNetworks - 1 \in Nat
  <2>1. \A s \in Slots : Distance(p, s) \in 0 .. MaxNumNetworks - 1
    BY Distances
  <2> QED
    BY <2>1
<1>2. PICK d \in D : \A e \in D : d <= e
  <2> HIDE DEF D
  <2> QED
    BY <1>1, Least
<1>3. PICK s \in S : d = Distance(p, s)
  OBVIOUS
<1>4. \A t \in S : Distance(p, t) \in D
  OBVIOUS
<1> QED
  BY <1>2, <1>3, <1>4

(* Where a probe ends.                                                     *)
LEMMA ProbeStops ==
  ASSUME NEW table, NEW n \in Networks, Stops(table, n) # {}
  PROVE  /\ Probe(table, n) \in Stops(table, n) /\ Probe(table, n) \in Slots
         /\ \A t \in Stops(table, n) :
              Distance(Hash[n], Probe(table, n)) <= Distance(Hash[n], t)
<1>1. Hash[n] \in Slots /\ Stops(table, n) \subseteq Slots
  BY DEF Slots, Stops
<1>2. \E s \in Stops(table, n) : \A t \in Stops(table, n) :
        Distance(Hash[n], s) <= Distance(Hash[n], t)
  BY <1>1, Nearest
<1> QED
  BY <1>1, <1>2 DEF Probe

-----------------------------------------------------------------------------
(* The invariant the proofs are built on.                                  *)

Table    == [Slots -> {EmptyEntry} \cup Entry]
NewTable == [NewSlots -> {NoEntry} \cup NewEntry]
Memory   == [Handles -> HostTable \cup {Free}]

(* No handle is in two places, and those in a place are those allocated.   *)
Owned(table, new, mem) ==
  /\ \A s, t \in Slots :
       table[s].hostTable = table[t].hostTable => table[s].hostTable = NoHandle \/ s = t
  /\ \A s, t \in NewSlots :
       new[s].hostTable = new[t].hostTable => new[s].hostTable = NoHandle \/ s = t
  /\ \A s \in Slots, t \in NewSlots :
       table[s].hostTable = new[t].hostTable => table[s].hostTable = NoHandle
  /\ \A h \in Handles :
       mem[h] # Free <=> \/ \E s \in Slots : table[s].hostTable = h
                         \/ \E s \in NewSlots : new[s].hostTable = h

(* A machine that is down has forgotten everything.                        *)
Blank ==
  pc \in {"down", "exited"} =>
    /\ addrTable = [s \in Slots |-> EmptyEntry]
    /\ newAddrTable = [s \in NewSlots |-> NoEntry]
    /\ networkCache = Flushed
    /\ xms = [h \in Handles |-> Free]

MemoryOwned == pc # "hung" => Owned(addrTable, newAddrTable, xms)

(* What the cache answers is what a fetch would answer.                    *)
Coherent(table, mem, cache) ==
  \A n \in Networks, b \in Blocks : \A w \in Ways : cache[w].tag = <<n, b>> =>
    /\ Found(table, n)
    /\ cache[w].value = Contents(mem, table[Probe(table, n)].hostTable)[b]

IInv == TypeOK /\ Blank /\ MemoryOwned /\ CacheCoherent

-----------------------------------------------------------------------------
(* Lemmas on handles and host tables.                                      *)

(* A host table is not what stands for free memory, nor for no file.       *)
LEMMA HostTables ==
  /\ JunkTable \in HostTable /\ Free = NoFile
  /\ \A t \in HostTable : t # Free
  /\ \A t \in HostTable, b \in Blocks, v \in Indices : [t EXCEPT ![b] = v] \in HostTable
  /\ \A t \in HostTable, b \in Blocks : t[b] \in Indices \cup {Junk}
<1>1. JunkTable \in HostTable
  BY DEF JunkTable, HostTable
<1>2. ASSUME NEW t \in HostTable PROVE t # Free
  <2>1. DOMAIN t = Blocks /\ 0 \in Blocks
    BY DEF HostTable, Blocks
  <2>2. DOMAIN Free = {}
    BY DEF Free
  <2> QED
    BY <2>1, <2>2
<1> QED
  BY <1>1, <1>2 DEF HostTable, Free, NoFile

(* Which entries have no host table.                                       *)
LEMMA Entries ==
  /\ NoHandle \notin Handles /\ EmptyEntry.hostTable = NoHandle /\ NoEntry.hostTable = NoHandle
  /\ EmptyEntry.network = NoNetwork /\ NoEntry.network = NoNetwork /\ ~EmptyEntry.dirty
  /\ \A table \in Table : \A s \in Slots :
       /\ table[s].hostTable \in Handles \cup {NoHandle}
       /\ table[s].network \in Networks \cup {NoNetwork}
       /\ table[s].network = NoNetwork => table[s] = EmptyEntry
       /\ table[s].network # NoNetwork => table[s] \in Entry
  /\ \A new \in NewTable : \A s \in NewSlots :
       /\ new[s].hostTable \in Handles \cup {NoHandle}
       /\ new[s].network \in Networks \cup {NoNetwork}
       /\ new[s].network = NoNetwork <=> new[s].hostTable = NoHandle
       /\ new[s].network = NoNetwork => new[s] = NoEntry
       /\ new[s].network # NoNetwork => new[s] \in NewEntry
<1>1. NoHandle \notin Handles
  BY MemoryAssumption
<1>2. /\ EmptyEntry.hostTable = NoHandle /\ NoEntry.hostTable = NoHandle
      /\ EmptyEntry.network = NoNetwork /\ NoEntry.network = NoNetwork /\ ~EmptyEntry.dirty
  BY DEF EmptyEntry, NoEntry
<1>3. ASSUME NEW e \in {EmptyEntry} \cup Entry
      PROVE  /\ e.hostTable \in Handles \cup {NoHandle}
             /\ e.network \in Networks \cup {NoNetwork}
             /\ e.network = NoNetwork => e = EmptyEntry
             /\ e.network # NoNetwork => e \in Entry
  <2>1. CASE e = EmptyEntry
    BY <1>2, <2>1
  <2>2. CASE e \in Entry
    BY <2>2 DEF Entry
  <2> QED
    BY <2>1, <2>2
<1>4. ASSUME NEW e \in {NoEntry} \cup NewEntry
      PROVE  /\ e.hostTable \in Handles \cup {NoHandle}
             /\ e.network \in Networks \cup {NoNetwork}
             /\ e.network = NoNetwork <=> e.hostTable = NoHandle
             /\ e.network = NoNetwork => e = NoEntry
             /\ e.network # NoNetwork => e \in NewEntry
  <2>1. CASE e = NoEntry
    BY <1>2, <2>1
  <2>2. CASE e \in NewEntry
    BY <1>1, <2>2 DEF NewEntry
  <2> QED
    BY <2>1, <2>2
<1>5. /\ \A table \in Table : \A s \in Slots : table[s] \in {EmptyEntry} \cup Entry
      /\ \A new \in NewTable : \A s \in NewSlots : new[s] \in {NoEntry} \cup NewEntry
  BY DEF Table, NewTable
<1> QED
  BY <1>1, <1>2, <1>3, <1>4, <1>5

(* Freeing memory.                                                         *)
LEMMA FreeMemIs ==
  ASSUME NEW mem \in Memory, NEW h \in Handles \cup {NoHandle}
  PROVE  /\ FreeMem(mem, h) \in Memory
         /\ \A g \in Handles : FreeMem(mem, h)[g] = IF g = h THEN Free ELSE mem[g]
BY Entries DEF FreeMem, Memory

(* The table of a new network is given up.                                 *)
LEMMA FreeNew ==
  ASSUME NEW table \in Table, NEW new \in NewTable, NEW mem \in Memory,
         Owned(table, new, mem), NEW i \in NewSlots
  PROVE  Owned(table, [new EXCEPT ![i] = NoEntry], FreeMem(mem, new[i].hostTable))
<1> DEFINE g == new[i].hostTable
           new1 == [new EXCEPT ![i] = NoEntry]
           mem1 == FreeMem(mem, g)
<1>1. \A s \in NewSlots : new1[s].hostTable = IF s = i THEN NoHandle ELSE new[s].hostTable
  BY Entries DEF NewTable
<1>2. g \in Handles \cup {NoHandle}
  BY Entries
<1>3. \A h \in Handles : mem1[h] = IF h = g THEN Free ELSE mem[h]
  BY <1>2, FreeMemIs
<1>4. NoHandle \notin Handles
  BY Entries
<1> HIDE DEF mem1, new1
<1>5. ASSUME NEW h \in Handles
      PROVE  mem1[h] # Free <=> \/ \E s \in Slots : table[s].hostTable = h
                                \/ \E s \in NewSlots : new1[s].hostTable = h
  BY <1>1, <1>3, <1>4 DEF Owned
<1>6. Owned(table, new1, mem1)
  BY <1>1, <1>4, <1>5 DEF Owned
<1> QED
  BY <1>6 DEF mem1, new1

(* A table is allocated for a slot that has none.                          *)
LEMMA Allocate ==
  ASSUME NEW table \in Table, NEW new \in NewTable, NEW mem \in Memory,
         Owned(table, new, mem), NEW i \in NewSlots, new[i].hostTable = NoHandle,
         NEW h \in Handles, mem[h] = Free, NEW c \in HostTable,
         NEW e, e.hostTable = h
  PROVE  Owned(table, [new EXCEPT ![i] = e], [mem EXCEPT ![h] = c])
<1> DEFINE new1 == [new EXCEPT ![i] = e]
           mem1 == [mem EXCEPT ![h] = c]
<1>1. \A s \in NewSlots : new1[s].hostTable = IF s = i THEN h ELSE new[s].hostTable
  BY DEF NewTable
<1>2. \A g \in Handles : mem1[g] = IF g = h THEN c ELSE mem[g]
  BY DEF Memory
<1>3. NoHandle \notin Handles /\ c # Free
  BY Entries, HostTables
<1> HIDE DEF mem1, new1
<1>4. ASSUME NEW g \in Handles
      PROVE  mem1[g] # Free <=> \/ \E s \in Slots : table[s].hostTable = g
                                \/ \E s \in NewSlots : new1[s].hostTable = g
  BY <1>1, <1>2, <1>3 DEF Owned
<1>5. /\ \A s \in Slots : table[s].hostTable # h
      /\ \A s \in NewSlots : new[s].hostTable # h
  BY DEF Owned
<1>6. Owned(table, new1, mem1)
  BY <1>1, <1>3, <1>4, <1>5 DEF Owned
<1> QED
  BY <1>6 DEF mem1, new1

(* A block of a table that is allocated changes.                           *)
LEMMA Overwrite ==
  ASSUME NEW table, NEW new, NEW mem \in Memory,
         Owned(table, new, mem), NEW h \in Handles, mem[h] # Free, NEW c \in HostTable
  PROVE  Owned(table, new, [mem EXCEPT ![h] = c])
<1> DEFINE mem1 == [mem EXCEPT ![h] = c]
<1>1. \A g \in Handles : mem1[g] # Free <=> mem[g] # Free
  BY HostTables DEF Memory
<1> HIDE DEF mem1
<1>2. Owned(table, new, mem1)
  BY <1>1 DEF Owned
<1> QED
  BY <1>2 DEF mem1

(* The table of a slot of the hash table is freed.                         *)
LEMMA FreeOld ==
  ASSUME NEW table \in Table, NEW new \in NewTable, NEW mem \in Memory,
         Owned(table, new, mem), NEW p \in Slots, NEW e, e.hostTable = NoHandle
  PROVE  Owned([table EXCEPT ![p] = e], new, FreeMem(mem, table[p].hostTable))
<1> DEFINE g == table[p].hostTable
           table1 == [table EXCEPT ![p] = e]
           mem1 == FreeMem(mem, g)
<1>1. \A s \in Slots : table1[s].hostTable = IF s = p THEN NoHandle ELSE table[s].hostTable
  BY DEF Table
<1>2. g \in Handles \cup {NoHandle}
  BY Entries
<1>3. \A h \in Handles : mem1[h] = IF h = g THEN Free ELSE mem[h]
  BY <1>2, FreeMemIs
<1>4. NoHandle \notin Handles
  BY Entries
<1> HIDE DEF mem1, table1
<1>5. ASSUME NEW h \in Handles
      PROVE  mem1[h] # Free <=> \/ \E s \in Slots : table1[s].hostTable = h
                                \/ \E s \in NewSlots : new[s].hostTable = h
  BY <1>1, <1>3, <1>4 DEF Owned
<1>6. Owned(table1, new, mem1)
  BY <1>1, <1>4, <1>5 DEF Owned
<1> QED
  BY <1>6 DEF mem1, table1

(* A handle moves from the new networks array to the hash table.           *)
LEMMA Move ==
  ASSUME NEW table \in Table, NEW new \in NewTable, NEW mem,
         Owned(table, new, mem), NEW p \in Slots, table[p].hostTable = NoHandle,
         NEW i \in NewSlots, NEW e, e.hostTable = new[i].hostTable
  PROVE  Owned([table EXCEPT ![p] = e], [new EXCEPT ![i] = NoEntry], mem)
<1> DEFINE g == new[i].hostTable
           table1 == [table EXCEPT ![p] = e]
           new1 == [new EXCEPT ![i] = NoEntry]
<1>1. \A s \in Slots : table1[s].hostTable = IF s = p THEN g ELSE table[s].hostTable
  BY DEF Table
<1>2. \A s \in NewSlots : new1[s].hostTable = IF s = i THEN NoHandle ELSE new[s].hostTable
  BY Entries DEF NewTable
<1>3. NoHandle \notin Handles
  BY Entries
<1> HIDE DEF table1, new1
<1>4. ASSUME NEW h \in Handles
      PROVE  mem[h] # Free <=> \/ \E s \in Slots : table1[s].hostTable = h
                               \/ \E s \in NewSlots : new1[s].hostTable = h
  BY <1>1, <1>2, <1>3 DEF Owned
<1>5. \A s, t \in Slots :
        table1[s].hostTable = table1[t].hostTable => table1[s].hostTable = NoHandle \/ s = t
  BY <1>1 DEF Owned
<1>6. \A s \in Slots, t \in NewSlots :
        table1[s].hostTable = new1[t].hostTable => table1[s].hostTable = NoHandle
  BY <1>1, <1>2 DEF Owned
<1>7. \A s, t \in NewSlots :
        new1[s].hostTable = new1[t].hostTable => new1[s].hostTable = NoHandle \/ s = t
  BY <1>2 DEF Owned
<1>8. Owned(table1, new1, mem)
  BY <1>4, <1>5, <1>6, <1>7 DEF Owned
<1> QED
  BY <1>8 DEF table1, new1

-----------------------------------------------------------------------------
(* Lemmas on the cache.                                                    *)

(* The invariant with tables, memory and cache as parameters.              *)
LEMMA CacheCoherentIs ==
  CacheCoherent <=> (pc = "main" => Coherent(addrTable, xms, networkCache))
BY DEF CacheCoherent, Coherent, Hits

(* A cache that was flushed answers nothing.                               *)
LEMMA FlushedCache ==
  /\ \A table, mem : Coherent(table, mem, Flushed)
  /\ Flushed \in [Ways -> [tag : {<<>>} \cup (Networks \X Blocks),
                            value : Indices \cup {Junk}]]
<1>1. \A w \in Ways : Flushed[w].tag = <<>>
  BY DEF Flushed, NoTag
<1>2. \A n, b : <<n, b>> # <<>>
  OBVIOUS
<1>3. \A table, mem : Coherent(table, mem, Flushed)
  BY <1>1, <1>2 DEF Coherent
<1>4. NoTag \in [tag : {<<>>} \cup (Networks \X Blocks), value : Indices \cup {Junk}]
  BY DEF NoTag
<1> QED
  BY <1>3, <1>4 DEF Flushed

(* A probe sees the networks of a table only.                              *)
LEMMA SameProbe ==
  ASSUME NEW t1, NEW t2, \A s \in Slots : t1[s].network = t2[s].network, NEW n
  PROVE  Stops(t1, n) = Stops(t2, n) /\ Probe(t1, n) = Probe(t2, n)
<1>1. Stops(t1, n) = Stops(t2, n)
  BY DEF Stops
<1> QED
  BY <1>1 DEF Probe

(* The answers of the cache stay right while networks, handles and the     *)
(* host tables of the hash table stay as they are.                         *)
LEMMA SameAnswers ==
  ASSUME NEW t1, NEW m1, NEW t2, NEW m2, NEW cache, Coherent(t1, m1, cache),
         \A s \in Slots : t1[s].network = t2[s].network,
         \A s \in Slots : Contents(m1, t1[s].hostTable) = Contents(m2, t2[s].hostTable)
  PROVE  Coherent(t2, m2, cache)
<1>1. ASSUME NEW n \in Networks, NEW b \in Blocks, NEW w \in Ways, cache[w].tag = <<n, b>>
      PROVE  /\ Found(t2, n)
             /\ cache[w].value = Contents(m2, t2[Probe(t2, n)].hostTable)[b]
  <2>1. /\ Found(t1, n)
        /\ cache[w].value = Contents(m1, t1[Probe(t1, n)].hostTable)[b]
    BY <1>1 DEF Coherent
  <2>2. Stops(t1, n) = Stops(t2, n) /\ Probe(t1, n) = Probe(t2, n)
    BY SameProbe
  <2>3. Probe(t1, n) \in Slots
    BY <2>1, ProbeStops DEF Found
  <2> QED
    BY <2>1, <2>2, <2>3 DEF Found
<1> QED
  BY <1>1 DEF Coherent

-----------------------------------------------------------------------------
(* The steps.                                                              *)

(* Before the first request.                                               *)
LEMMA InitIInv == Init => IInv
<1>1. SUFFICES ASSUME Init PROVE IInv
  OBVIOUS
<1>2. /\ \A s \in Slots : addrTable[s].hostTable = NoHandle
      /\ \A s \in NewSlots : newAddrTable[s].hostTable = NoHandle
  BY <1>1, Entries DEF Init
<1>3. Owned(addrTable, newAddrTable, xms)
  BY <1>1, <1>2, Entries DEF Init, Owned
<1>4. CacheCoherent
  BY <1>1, CacheCoherentIs, FlushedCache DEF Init
<1>5. TypeOK
  BY <1>1, FlushedCache DEF Init, TypeOK
<1> QED
  BY <1>1, <1>3, <1>4, <1>5 DEF Init, IInv, Blank, MemoryOwned

(* A lookup changes the cache only, and puts there what it fetched.        *)
LEMMA LookupStep ==
  ASSUME IInv, NEW n \in Networks, NEW b \in Blocks, Lookup(n, b)
  PROVE  IInv' /\ UNCHANGED <<addrTable, newAddrTable, xms, disk, pc>>
<1>1. CASE UNCHANGED vars
  BY <1>1 DEF IInv, TypeOK, Blank, MemoryOwned, CacheCoherent, Hits, vars
<1>2. CASE LookupFetch(n, b)
  <2> DEFINE h == addrTable[Probe(addrTable, n)].hostTable
             answer == Contents(xms, h)[b]
  <2>1. /\ pc = "main" /\ Found(addrTable, n)
        /\ UNCHANGED <<addrTable, newAddrTable, xms, disk, pc>>
    BY <1>2 DEF LookupFetch
  <2>2. PICK w \in Ways :
          networkCache' = [networkCache EXCEPT ![w] = [tag |-> <<n, b>>, value |-> answer]]
    BY <1>2 DEF LookupFetch
  <2>3. h \in Handles \cup {NoHandle} /\ (h \in Handles => xms[h] \in HostTable)
    <3>1. Probe(addrTable, n) \in Slots
      BY <2>1, ProbeStops DEF Found
    <3>2. h \in Handles \cup {NoHandle}
      BY <3>1, Entries DEF IInv, TypeOK, Table
    <3>3. h \in Handles => xms[h] # Free
      BY <2>1, <3>1 DEF IInv, MemoryOwned, Owned
    <3> QED
      BY <3>2, <3>3 DEF IInv, TypeOK
  <2>4. answer \in Indices \cup {Junk}
    BY <2>3, HostTables DEF Contents
  <2> DEFINE tags == {<<>>} \cup (Networks \X Blocks)
             entry == [tag |-> <<n, b>>, value |-> answer]
  <2>5. entry \in [tag : tags, value : Indices \cup {Junk}]
    BY <2>4
  <2>6. networkCache \in [Ways -> [tag : tags, value : Indices \cup {Junk}]]
    BY DEF IInv, TypeOK
  <2> HIDE DEF entry, tags
  <2>7. networkCache' \in [Ways -> [tag : tags, value : Indices \cup {Junk}]]
    BY <2>2, <2>5, <2>6 DEF entry
  <2>8. TypeOK'
    BY <2>1, <2>7 DEF tags, IInv, TypeOK
  <2>9. Coherent(addrTable, xms, networkCache)
    BY <2>1, CacheCoherentIs DEF IInv
  <2>10. \A u \in Ways : networkCache'[u] = IF u = w THEN entry ELSE networkCache[u]
    BY <2>2, <2>6 DEF entry
  <2>11. entry.tag = <<n, b>> /\ entry.value = answer
    BY DEF entry
  <2>12. ASSUME NEW m \in Networks, NEW c \in Blocks, NEW u \in Ways,
                networkCache'[u].tag = <<m, c>>
         PROVE  /\ Found(addrTable, m)
                /\ networkCache'[u].value
                     = Contents(xms, addrTable[Probe(addrTable, m)].hostTable)[c]
    <3>1. CASE u = w
      <4>1. m = n /\ c = b
        BY <2>10, <2>11, <2>12, <3>1
      <4> QED
        BY <2>1, <2>10, <2>11, <3>1, <4>1
    <3>2. CASE u # w
      BY <2>9, <2>10, <2>12, <3>2 DEF Coherent
    <3> QED
      BY <3>1, <3>2
  <2>13. Coherent(addrTable', xms', networkCache')
    BY <2>1, <2>12 DEF Coherent
  <2>14. CacheCoherent'
    BY <2>13, CacheCoherentIs DEF CacheCoherent, Coherent, Hits
  <2> QED
    BY <2>1, <2>8, <2>14 DEF IInv, Blank, MemoryOwned
<1> QED
  BY <1>1, <1>2 DEF Lookup, LookupHit, LookupUnknown, vars

(* The primed invariant, from what the parts of it say.                    *)
LEMMA NextIs ==
  ASSUME TypeOK', Blank', pc' # "hung" => Owned(addrTable', newAddrTable', xms'),
         pc' = "main" => Coherent(addrTable', xms', networkCache')
  PROVE  IInv'
<1>1. MemoryOwned'
  BY DEF MemoryOwned
<1>2. CacheCoherent'
  BY DEF CacheCoherent, Coherent, Hits
<1> QED
  BY <1>1, <1>2 DEF IInv

(* The invariant while requests are served.                                *)
LEMMA AtMain ==
  ASSUME IInv, pc = "main"
  PROVE  /\ addrTable \in Table /\ newAddrTable \in NewTable /\ xms \in Memory
         /\ Owned(addrTable, newAddrTable, xms)
         /\ Coherent(addrTable, xms, networkCache)
BY CacheCoherentIs DEF IInv, TypeOK, MemoryOwned, Table, NewTable, Memory

(* The slot of the new networks array is one that holds the network, or    *)
(* none.                                                                   *)
LEMMA NewSlotIs ==
  ASSUME NEW n \in Networks, NEW begin \in BOOLEAN, NewSlot(n, begin) # {}
  PROVE  LET i == Lowest(NewSlot(n, begin))
         IN  /\ i \in NewSlots
             /\ newAddrTable[i].network \in {n, NoNetwork}
             /\ ~begin => newAddrTable[i].network = n
<1> DEFINE slots == NewSlot(n, begin)
           i == Lowest(slots)
<1>1. slots \subseteq 0 .. MaxNumNewNetworks - 1 /\ slots # {}
  BY DEF NewSlot, Loading, NewSlots
<1>2. i \in slots
  <2> HIDE DEF slots
  <2> QED
    BY <1>1, LowestIn
<1> HIDE DEF i
<1>3. /\ i \in NewSlots
      /\ newAddrTable[i].network \in {n, NoNetwork}
      /\ ~begin => newAddrTable[i].network = n
  BY <1>2 DEF NewSlot, Loading
<1> QED
  BY <1>3 DEF i

(* A table that was being loaded is given up.                              *)
LEMMA LoadNoMemoryStep ==
  ASSUME IInv, NEW n \in Networks, LoadNoMemory(n)
  PROVE  /\ IInv' /\ UNCHANGED <<addrTable, disk, pc>> /\ pc = "main"
         /\ \A s \in Slots : Contents(xms', addrTable[s].hostTable)
                             = Contents(xms, addrTable[s].hostTable)
<1> DEFINE i == Lowest(NewSlot(n, TRUE))
           g == newAddrTable[i].hostTable
<1>1. /\ pc = "main" /\ NewSlot(n, TRUE) # {}
      /\ newAddrTable' = [newAddrTable EXCEPT ![i] = NoEntry]
      /\ xms' = FreeMem(xms, g)
      /\ UNCHANGED <<addrTable, networkCache, disk, pc>>
  BY DEF LoadNoMemory
<1>2. i \in NewSlots
  BY <1>1, NewSlotIs
<1> HIDE DEF i
<1>3. /\ addrTable \in Table /\ newAddrTable \in NewTable /\ xms \in Memory
      /\ Owned(addrTable, newAddrTable, xms) /\ Coherent(addrTable, xms, networkCache)
  BY <1>1, AtMain
<1>4. g \in Handles \cup {NoHandle}
  BY <1>2, <1>3, Entries
<1>5. xms' \in Memory /\ \A h \in Handles : xms'[h] = IF h = g THEN Free ELSE xms[h]
  BY <1>1, <1>3, <1>4, FreeMemIs
<1>6. newAddrTable' \in NewTable
  BY <1>1, <1>3 DEF NewTable
<1>7. Owned(addrTable', newAddrTable', xms')
  BY <1>1, <1>2, <1>3, FreeNew
<1>8. ASSUME NEW s \in Slots
      PROVE  Contents(xms', addrTable[s].hostTable) = Contents(xms, addrTable[s].hostTable)
  <2> DEFINE h == addrTable[s].hostTable
  <2>1. h \in Handles \cup {NoHandle}
    BY <1>3, Entries
  <2>2. h # NoHandle => h # g
    BY <1>2, <1>3 DEF Owned
  <2> QED
    BY <1>5, <2>1, <2>2 DEF Contents
<1>9. Coherent(addrTable', xms', networkCache')
  BY <1>1, <1>3, <1>8, SameAnswers
<1>10. TypeOK'
  BY <1>1, <1>5, <1>6 DEF IInv, TypeOK, NewTable, Memory
<1>11. Blank'
  BY <1>1 DEF Blank
<1>12. IInv'
  BY <1>7, <1>9, <1>10, <1>11, NextIs
<1> QED
  BY <1>1, <1>8, <1>12

(* A block of a host table has come, in memory that belongs to slot i of   *)
(* the new networks array.                                                 *)
Received(n, i, h, new, mem) ==
  /\ i \in NewSlots /\ h \in Handles /\ new \in NewTable /\ mem \in Memory
  /\ new = [newAddrTable EXCEPT ![i] = [network |-> n, hostTable |-> h]]
  /\ Owned(addrTable, new, mem)
  /\ \A s \in Slots : Contents(mem, addrTable[s].hostTable)
                      = Contents(xms, addrTable[s].hostTable)

(* The first block: the old table is freed and one is allocated.           *)
LEMMA FirstBlock ==
  ASSUME IInv, pc = "main", NEW n \in Networks, NEW b \in Blocks, NEW v \in Indices,
         NEW i \in NewSlots, NEW h \in Handles,
         FreeMem(xms, newAddrTable[i].hostTable)[h] = Free
  PROVE  LET mem == [FreeMem(xms, newAddrTable[i].hostTable) EXCEPT ![h] = JunkTable]
         IN  Received(n, i, h, [newAddrTable EXCEPT ![i] = [network |-> n, hostTable |-> h]],
                      [mem EXCEPT ![h] = [@ EXCEPT ![b] = v]])
<1> DEFINE g == newAddrTable[i].hostTable
           freed == FreeMem(xms, g)
           mem == [freed EXCEPT ![h] = JunkTable]
           c == [JunkTable EXCEPT ![b] = v]
           copied == [freed EXCEPT ![h] = c]
           e == [network |-> n, hostTable |-> h]
           gone == [newAddrTable EXCEPT ![i] = NoEntry]
           new == [newAddrTable EXCEPT ![i] = e]
<1>1. /\ addrTable \in Table /\ newAddrTable \in NewTable /\ xms \in Memory
      /\ Owned(addrTable, newAddrTable, xms)
  BY AtMain
<1>2. g \in Handles \cup {NoHandle}
  BY <1>1, Entries
<1>3. freed \in Memory /\ \A k \in Handles : freed[k] = IF k = g THEN Free ELSE xms[k]
  BY <1>1, <1>2, FreeMemIs
<1>4. Owned(addrTable, gone, freed) /\ gone \in NewTable /\ gone[i] = NoEntry
  BY <1>1, FreeNew DEF NewTable
<1>5. c \in HostTable
  BY HostTables
<1>6. freed[h] = Free
  OBVIOUS
<1> HIDE DEF freed, c
<1>7. [mem EXCEPT ![h] = [@ EXCEPT ![b] = v]] = copied
  BY <1>3 DEF Memory, c
<1>8. new = [gone EXCEPT ![i] = e]
  BY <1>1 DEF NewTable
<1>9. e.hostTable = h /\ e \in NewEntry
  BY DEF NewEntry
<1>10. new \in NewTable
  BY <1>1, <1>9 DEF NewTable
<1>11. copied \in Memory /\ \A k \in Handles : copied[k] = IF k = h THEN c ELSE freed[k]
  BY <1>3, <1>5 DEF Memory
<1> HIDE DEF gone, new, e, copied
<1>12. Owned(addrTable, new, copied)
  <2>1. gone[i].hostTable = NoHandle
    BY <1>4, Entries
  <2>2. Owned(addrTable, [gone EXCEPT ![i] = e], [freed EXCEPT ![h] = c])
    BY <1>1, <1>3, <1>4, <1>5, <1>6, <1>9, <2>1, Allocate
  <2> QED
    BY <1>8, <2>2 DEF copied
<1>13. ASSUME NEW s \in Slots
       PROVE  Contents(copied, addrTable[s].hostTable) = Contents(xms, addrTable[s].hostTable)
  <2> DEFINE k == addrTable[s].hostTable
  <2>1. k \in Handles \cup {NoHandle}
    BY <1>1, Entries
  <2>2. k # NoHandle => k # g
    BY <1>1 DEF Owned
  <2>3. k # NoHandle => k # h
    <3>1. k # NoHandle => freed[k] # Free
      BY <1>4, <2>1 DEF Owned
    <3> QED
      BY <1>6, <3>1
  <2> QED
    BY <1>3, <1>11, <2>1, <2>2, <2>3 DEF Contents
<1>14. Received(n, i, h, new, copied)
  BY <1>10, <1>11, <1>12, <1>13 DEF Received, new, e
<1> QED
  BY <1>7, <1>14 DEF new, e, freed

(* Another block, for the table that slot i has.                           *)
LEMMA NextBlock ==
  ASSUME IInv, pc = "main", NEW n \in Networks, NEW b \in Blocks, NEW v \in Indices,
         NEW i \in NewSlots, newAddrTable[i].network = n,
         NEW h, h = newAddrTable[i].hostTable
  PROVE  Received(n, i, h, [newAddrTable EXCEPT ![i] = [network |-> n, hostTable |-> h]],
                  [xms EXCEPT ![h] = [@ EXCEPT ![b] = v]])
<1> DEFINE c == [xms[h] EXCEPT ![b] = v]
           copied == [xms EXCEPT ![h] = c]
           e == [network |-> n, hostTable |-> h]
           new == [newAddrTable EXCEPT ![i] = e]
<1>1. /\ addrTable \in Table /\ newAddrTable \in NewTable /\ xms \in Memory
      /\ Owned(addrTable, newAddrTable, xms)
  BY AtMain
<1>2. newAddrTable[i] \in NewEntry /\ h \in Handles
  <2>1. newAddrTable[i].network # NoNetwork
    OBVIOUS
  <2>2. newAddrTable[i] \in NewEntry
    BY <1>1, <2>1, Entries
  <2> QED
    BY <2>2 DEF NewEntry
<1>3. newAddrTable[i] = e
  BY <1>2 DEF NewEntry
<1>4. new = newAddrTable
  BY <1>1, <1>3 DEF NewTable
<1>5. xms[h] # Free
  BY <1>1, <1>2 DEF Owned
<1>6. xms[h] \in HostTable
  BY <1>1, <1>2, <1>5 DEF Memory
<1>7. c \in HostTable
  BY <1>6, HostTables
<1> HIDE DEF c
<1>8. Owned(addrTable, newAddrTable, copied)
  BY <1>1, <1>2, <1>5, <1>7, Overwrite
<1>9. copied \in Memory /\ \A k \in Handles : copied[k] = IF k = h THEN c ELSE xms[k]
  BY <1>1, <1>7 DEF Memory
<1> HIDE DEF copied
<1>10. ASSUME NEW s \in Slots
       PROVE  Contents(copied, addrTable[s].hostTable) = Contents(xms, addrTable[s].hostTable)
  <2> DEFINE k == addrTable[s].hostTable
  <2>1. k \in Handles \cup {NoHandle}
    BY <1>1, Entries
  <2>2. k # NoHandle => k # h
    BY <1>1 DEF Owned
  <2> QED
    BY <1>9, <2>1, <2>2 DEF Contents
<1>11. Received(n, i, h, new, copied)
  BY <1>1, <1>2, <1>4, <1>8, <1>9, <1>10 DEF Received
<1> QED
  BY <1>11 DEF copied, c

(* Where an entry for n goes: the slot the probe ends at, or the first one *)
(* if it would never end.                                                  *)
Where(table, n) == IF Stops(table, n) = {} THEN Hash[n] ELSE Probe(table, n)

(* A dirty entry for n is put into the table, and the tables of the other  *)
(* slots stay as they are.                                                 *)
Installed(n) ==
  /\ networkCache' = Flushed
  /\ \E e \in Entry :
       /\ e.network = n /\ e.dirty
       /\ addrTable' = [addrTable EXCEPT ![Where(addrTable, n)] = e]
  /\ \A s \in Slots \ {Where(addrTable, n)} :
       Contents(xms', addrTable[s].hostTable) = Contents(xms, addrTable[s].hostTable)

(* The last block: the new table replaces the one in its slot.             *)
LEMMA InstallStep ==
  ASSUME IInv, pc = "main", NEW n \in Networks, NEW i, NEW h, NEW new, NEW mem,
         Received(n, i, h, new, mem), Install(mem, n, i, h)
  PROVE  /\ Installed(n) /\ addrTable' \in Table /\ newAddrTable' \in NewTable
         /\ xms' \in Memory /\ Owned(addrTable', newAddrTable', xms')
<1> DEFINE full == Stops(addrTable, n) = {}
           p == Where(addrTable, n)
           g == addrTable[p].hostTable
           kept == IF full THEN NoHandle ELSE h
           mem1 == IF full THEN FreeMem(mem, h) ELSE mem
           e == [network |-> n, dirty |-> TRUE, hostTable |-> kept]
           gone == [new EXCEPT ![i] = NoEntry]
<1>1. /\ addrTable \in Table /\ newAddrTable \in NewTable /\ xms \in Memory
  BY AtMain
<1>2. /\ i \in NewSlots /\ h \in Handles /\ new \in NewTable /\ mem \in Memory
      /\ new = [newAddrTable EXCEPT ![i] = [network |-> n, hostTable |-> h]]
      /\ Owned(addrTable, new, mem)
      /\ \A s \in Slots : Contents(mem, addrTable[s].hostTable)
                          = Contents(xms, addrTable[s].hostTable)
  BY DEF Received
<1>3. p \in Slots
  BY ProbeStops DEF Where, Slots
<1>4. /\ addrTable' = [addrTable EXCEPT ![p] = e]
      /\ newAddrTable' = [newAddrTable EXCEPT ![i] = NoEntry]
      /\ xms' = FreeMem(mem1, g)
      /\ networkCache' = Flushed
  BY DEF Install, InstallEntry, PreviousFreed, Where
<1>5. e \in Entry /\ e.network = n /\ e.dirty /\ e.hostTable = kept
  BY <1>2 DEF Entry
<1>6. newAddrTable' = gone /\ gone \in NewTable
  BY <1>1, <1>2, <1>4 DEF NewTable
<1>7. new[i].hostTable = h /\ g \in Handles \cup {NoHandle}
  <2>1. new[i] = [network |-> n, hostTable |-> h]
    BY <1>1, <1>2 DEF NewTable
  <2> QED
    BY <1>1, <1>3, <2>1, Entries
<1>8. mem1 \in Memory /\ \A k \in Handles : mem1[k] = IF full /\ k = h THEN Free ELSE mem[k]
  BY <1>2, FreeMemIs
<1> HIDE DEF p, mem1, e, gone
<1>9. xms' \in Memory /\ \A k \in Handles : xms'[k] = IF k = g THEN Free ELSE mem1[k]
  BY <1>4, <1>7, <1>8, FreeMemIs
<1>10. Owned(addrTable', newAddrTable', xms')
  <2>1. CASE full
    <3>1. Owned(addrTable, gone, mem1)
      <4>1. mem1 = FreeMem(mem, new[i].hostTable)
        BY <1>7, <2>1 DEF mem1
      <4> QED
        BY <1>1, <1>2, <4>1, FreeNew DEF gone
    <3>2. e.hostTable = NoHandle
      BY <1>5, <2>1
    <3> QED
      BY <1>1, <1>3, <1>4, <1>6, <1>8, <3>1, <3>2, FreeOld
  <2>2. CASE ~full
    <3> DEFINE table0 == [addrTable EXCEPT ![p] = EmptyEntry]
    <3>1. mem1 = mem /\ e.hostTable = new[i].hostTable
      BY <1>5, <1>7, <2>2 DEF mem1
    <3>2. /\ table0 \in Table /\ table0[p].hostTable = NoHandle
          /\ addrTable' = [table0 EXCEPT ![p] = e]
      BY <1>1, <1>3, <1>4, Entries DEF Table
    <3>3. Owned(table0, new, xms')
      BY <1>1, <1>2, <1>3, <1>4, <3>1, Entries, FreeOld
    <3> HIDE DEF table0
    <3> QED
      BY <1>2, <1>3, <1>6, <3>1, <3>2, <3>3, Move DEF gone
  <2> QED
    BY <2>1, <2>2
<1>11. ASSUME NEW s \in Slots \ {p}
       PROVE  Contents(xms', addrTable[s].hostTable) = Contents(xms, addrTable[s].hostTable)
  <2> DEFINE k == addrTable[s].hostTable
  <2>1. k \in Handles \cup {NoHandle}
    BY <1>1, Entries
  <2>2. k # NoHandle => k # g
    BY <1>2, <1>3 DEF Owned
  <2>3. k # NoHandle => k # h
    BY <1>2, <1>7 DEF Owned
  <2>4. Contents(xms', k) = Contents(mem, k)
    BY <1>8, <1>9, <2>1, <2>2, <2>3 DEF Contents
  <2> QED
    BY <1>2, <2>4
<1>12. addrTable' \in Table
  BY <1>1, <1>3, <1>4, <1>5 DEF Table
<1>13. Installed(n)
  BY <1>4, <1>5, <1>11 DEF Installed, p
<1> QED
  BY <1>6, <1>9, <1>10, <1>12, <1>13

(* What a block changes.                                                   *)
LEMMA LoadStep ==
  ASSUME IInv, NEW n \in Networks, NEW b \in Blocks, NEW v \in Indices,
         NEW begin \in BOOLEAN, NEW end \in BOOLEAN, Load(n, b, v, begin, end)
  PROVE  /\ IInv' /\ UNCHANGED <<disk, pc>> /\ pc = "main"
         /\ \/ Installed(n)
            \/ /\ addrTable' = addrTable
               /\ \A s \in Slots : Contents(xms', addrTable[s].hostTable)
                                   = Contents(xms, addrTable[s].hostTable)
<1> DEFINE i == Lowest(NewSlot(n, begin))
           freed == IF begin THEN FreeMem(xms, newAddrTable[i].hostTable) ELSE xms
           copied(h) == LET mem == IF begin THEN [freed EXCEPT ![h] = JunkTable] ELSE xms
                        IN  [mem EXCEPT ![h] = [@ EXCEPT ![b] = v]]
           new(h) == [newAddrTable EXCEPT ![i] = [network |-> n, hostTable |-> h]]
<1>1. /\ pc = "main" /\ NewSlot(n, begin) # {} /\ UNCHANGED <<disk, pc>>
  BY DEF Load
<1>2. PICK h \in Handles :
        /\ IF begin THEN freed[h] = Free ELSE h = newAddrTable[i].hostTable
        /\ IF end THEN Install(copied(h), n, i, h)
                  ELSE /\ newAddrTable' = new(h) /\ xms' = copied(h)
                       /\ UNCHANGED <<addrTable, networkCache>>
  BY DEF Load
<1>3. /\ i \in NewSlots /\ (~begin => newAddrTable[i].network = n)
  BY <1>1, NewSlotIs
<1> HIDE DEF i
<1>4. Received(n, i, h, new(h), copied(h))
  <2>1. CASE begin
    BY <1>1, <1>2, <1>3, <2>1, FirstBlock
  <2>2. CASE ~begin
    BY <1>1, <1>2, <1>3, <2>2, NextBlock
  <2> QED
    BY <2>1, <2>2
<1> DEFINE mem == copied(h)
           next == new(h)
<1> HIDE DEF copied, new, mem, next
<1>5. CASE end
  <2>1. Install(mem, n, i, h) /\ Received(n, i, h, next, mem)
    BY <1>2, <1>4, <1>5 DEF mem, next
  <2>2. /\ Installed(n) /\ addrTable' \in Table /\ newAddrTable' \in NewTable
        /\ xms' \in Memory /\ Owned(addrTable', newAddrTable', xms')
    BY <1>1, <2>1, InstallStep
  <2>3. networkCache' = Flushed
    BY <2>2 DEF Installed
  <2>4. TypeOK'
    BY <1>1, <2>2, <2>3, FlushedCache DEF IInv, TypeOK, Table, NewTable, Memory
  <2>5. Blank'
    BY <1>1 DEF Blank
  <2>6. Coherent(addrTable', xms', networkCache')
    BY <2>3, FlushedCache
  <2>7. IInv'
    BY <2>2, <2>4, <2>5, <2>6, NextIs
  <2> QED
    BY <1>1, <2>2, <2>7
<1>6. CASE ~end
  <2>1. /\ newAddrTable' = next /\ xms' = mem /\ UNCHANGED <<addrTable, networkCache>>
        /\ Received(n, i, h, next, mem)
    BY <1>2, <1>4, <1>6 DEF mem, next
  <2>2. /\ newAddrTable' \in NewTable /\ xms' \in Memory
        /\ Owned(addrTable', newAddrTable', xms')
        /\ \A s \in Slots : Contents(xms', addrTable[s].hostTable)
                            = Contents(xms, addrTable[s].hostTable)
    BY <2>1 DEF Received
  <2>3. Coherent(addrTable', xms', networkCache')
    <3>1. Coherent(addrTable, xms, networkCache)
      BY <1>1, AtMain
    <3> QED
      BY <2>1, <2>2, <3>1, SameAnswers
  <2>4. TypeOK'
    BY <1>1, <2>1, <2>2 DEF IInv, TypeOK, NewTable, Memory
  <2>5. Blank'
    BY <1>1 DEF Blank
  <2>6. IInv'
    BY <2>2, <2>3, <2>4, <2>5, NextIs
  <2> QED
    BY <1>1, <2>1, <2>2, <2>6
<1> QED
  BY <1>5, <1>6

-----------------------------------------------------------------------------
(* The shuffle.                                                            *)

(* The slots after the hash of n up to the first vacant one.               *)
LEMMA VisitedIs ==
  ASSUME NEW n \in Networks, Vacant # {}
  PROVE  LET len == Len(Visited(n))
         IN  /\ len \in 0 .. MaxNumNetworks - 1
             /\ \A k \in 1 .. len : Visited(n)[k] = After(Hash[n], k) /\ Visited(n)[k] \in Slots
             /\ \E s \in Vacant :
                  /\ Distance(After(Hash[n], 1), s) = len
                  /\ \A t \in Vacant : len <= Distance(After(Hash[n], 1), t)
<1> DEFINE p == After(Hash[n], 1)
           first == CHOOSE s \in Vacant : \A t \in Vacant : Distance(p, s) <= Distance(p, t)
           len == Distance(p, first)
<1>1. Hash[n] \in Slots /\ 1 \in 0 .. MaxNumNetworks
  BY DEF Slots
<1>2. p \in Slots
  BY <1>1, Distances
<1>3. Vacant \subseteq Slots
  BY DEF Vacant, Holding
<1>4. first \in Vacant /\ \A t \in Vacant : Distance(p, first) <= Distance(p, t)
  <2>1. \E s \in Vacant : \A t \in Vacant : Distance(p, s) <= Distance(p, t)
    <3> HIDE DEF p
    <3> QED
      BY <1>2, <1>3, Nearest
  <2> QED
    BY <2>1
<1>5. Visited(n) = [k \in 1 .. len |-> After(Hash[n], k)]
  BY DEF Visited
<1> HIDE DEF p, first
<1>6. len \in 0 .. MaxNumNetworks - 1
  BY <1>2, <1>3, <1>4, Distances
<1> HIDE DEF len
<1>7. Len(Visited(n)) = len
  BY <1>5, <1>6
<1>8. ASSUME NEW k \in 1 .. len
      PROVE  Visited(n)[k] = After(Hash[n], k) /\ Visited(n)[k] \in Slots
  <2>1. k \in 0 .. MaxNumNetworks
    BY <1>6
  <2> QED
    BY <1>1, <1>5, <2>1, Distances
<1>9. Distance(p, first) = len /\ \A t \in Vacant : len <= Distance(p, t)
  BY <1>4 DEF len
<1> QED
  BY <1>4, <1>6, <1>7, <1>8, <1>9 DEF p

(* States of the loop: the slots outside moved are as they were, and the   *)
(* others hold the entries they held, each of them once, but for the one   *)
(* of slot i0 and for slot i, which has been given up.                     *)
ShuffleStates == [table : Table, i : Slots]

Permutes(perm, moved) ==
  /\ perm \in [Slots -> Slots]
  /\ \A s, t \in Slots : perm[s] = perm[t] => s = t
  /\ \A s \in Slots : \E t \in Slots : perm[t] = s
  /\ \A s \in Slots \ moved : perm[s] = s

Permuted(st, i0, moved, perm) ==
  /\ Permutes(perm, moved) /\ perm[st.i] = i0
  /\ \A t \in Slots \ {st.i} : st.table[t] = addrTable[perm[t]]

(* The slots of the shuffle, and whether all they hold has the hash of n.  *)
Moved(n) == {Lowest(Holding(n))} \cup {Visited(n)[k] : k \in 1 .. Len(Visited(n))}
Uniform(n) == \A s \in Moved(n) : Hash[addrTable[s].network] = Hash[n]

(* One step of it.                                                         *)
LEMMA ShiftStep ==
  ASSUME NEW st \in ShuffleStates, NEW i0 \in Slots, NEW moved, moved \subseteq Slots,
         i0 \in moved, NEW s \in moved, NEW perm, Permuted(st, i0, moved, perm),
         st.i \in moved, NEW n \in Networks
  PROVE  /\ Shift(st, s, n) \in ShuffleStates /\ Shift(st, s, n).i \in moved
         /\ \E q : Permuted(Shift(st, s, n), i0, moved, q)
         /\ (\A u \in moved : Hash[addrTable[u].network] = Hash[n]) => Shift(st, s, n).i = s
<1> DEFINE same == Hash[st.table[s].network] = Hash[n]
           table1 == [st.table EXCEPT ![st.i] = st.table[s]]
           st1 == [table |-> table1, i |-> s]
<1>1. Shift(st, s, n) = IF same THEN st1 ELSE st
  BY DEF Shift
<1>2. s \in Slots /\ st.i \in Slots /\ st.table \in Table
  BY DEF ShuffleStates
<1>3. /\ table1 \in Table
      /\ \A t \in Slots : table1[t] = IF t = st.i THEN st.table[s] ELSE st.table[t]
  BY <1>2 DEF Table
<1> HIDE DEF table1
<1>4. st1 \in ShuffleStates /\ st1.i = s /\ st1.table = table1
  BY <1>2, <1>3 DEF ShuffleStates
<1> HIDE DEF st1, same
<1>5. Shift(st, s, n) \in ShuffleStates /\ Shift(st, s, n).i \in moved
  BY <1>1, <1>4
<1> DEFINE q == [t \in Slots |-> IF t = st.i THEN perm[s]
                                ELSE IF t = s THEN perm[st.i] ELSE perm[t]]
<1>6. Permuted(st1, i0, moved, q)
  <2>1. /\ perm \in [Slots -> Slots] /\ perm[st.i] = i0
        /\ \A u, t \in Slots : perm[u] = perm[t] => u = t
        /\ \A u \in Slots : \E t \in Slots : perm[t] = u
        /\ \A u \in Slots \ moved : perm[u] = u
        /\ \A t \in Slots \ {st.i} : st.table[t] = addrTable[perm[t]]
    BY DEF Permuted, Permutes
  <2>2. /\ q \in [Slots -> Slots]
        /\ \A t \in Slots : q[t] = IF t = st.i THEN perm[s]
                                    ELSE IF t = s THEN perm[st.i] ELSE perm[t]
    BY <1>2, <2>1
  <2> HIDE DEF q
  <2>3. \A u, t \in Slots : q[u] = q[t] => u = t
    BY <1>2, <2>1, <2>2
  <2>4. ASSUME NEW u \in Slots PROVE \E t \in Slots : q[t] = u
    <3>1. PICK t \in Slots : perm[t] = u
      BY <2>1
    <3>2. CASE t = st.i
      <4>1. q[s] = u
        BY <1>2, <2>2, <3>1, <3>2
      <4> QED
        BY <1>2, <4>1
    <3>3. CASE t = s /\ t # st.i
      <4>1. q[st.i] = u
        BY <1>2, <2>2, <3>1, <3>3
      <4> QED
        BY <1>2, <4>1
    <3>4. CASE t # s /\ t # st.i
      BY <2>2, <3>1, <3>4
    <3> QED
      BY <3>2, <3>3, <3>4
  <2>5. \A u \in Slots \ moved : q[u] = u
    BY <1>2, <2>1, <2>2
  <2>6. q[s] = i0
    BY <1>2, <2>1, <2>2
  <2>7. ASSUME NEW t \in Slots \ {s} PROVE table1[t] = addrTable[q[t]]
    <3>1. CASE t = st.i
      BY <1>2, <1>3, <2>1, <2>2, <2>7, <3>1
    <3>2. CASE t # st.i
      BY <1>2, <1>3, <2>1, <2>2, <2>7, <3>2
    <3> QED
      BY <3>1, <3>2
  <2> QED
    BY <1>4, <2>2, <2>3, <2>4, <2>5, <2>6, <2>7 DEF Permuted, Permutes
<1>7. \E r : Permuted(Shift(st, s, n), i0, moved, r)
  BY <1>1, <1>6
<1>8. ASSUME \A u \in moved : Hash[addrTable[u].network] = Hash[n]
      PROVE  Shift(st, s, n).i = s
  <2>1. CASE s = st.i
    BY <1>1, <1>4, <2>1
  <2>2. CASE s # st.i
    <3>1. st.table[s] = addrTable[perm[s]]
      BY <1>2, <2>2 DEF Permuted
    <3>2. perm[s] \in moved
      BY <1>2 DEF Permuted, Permutes
    <3> QED
      BY <1>1, <1>4, <1>8, <3>1, <3>2 DEF same
  <2> QED
    BY <2>1, <2>2
<1> QED
  BY <1>5, <1>7, <1>8

(* All of it: the entries are permuted, and if all that the loop passes    *)
(* has the hash of n, the last slot it passed is the one given up.         *)
LEMMA ShuffleIs ==
  ASSUME addrTable \in Table, NEW n \in Networks, Holding(n) # {}, Vacant # {}
  PROVE  LET len == Len(Visited(n))
         IN  /\ Shuffle(n) \in ShuffleStates
             /\ \E perm : Permuted(Shuffle(n), Lowest(Holding(n)), Moved(n), perm)
             /\ Uniform(n) => Shuffle(n).i = IF len = 0 THEN Lowest(Holding(n))
                                              ELSE Visited(n)[len]
<1> DEFINE V == Visited(n)
           L == Len(V)
           i0 == Lowest(Holding(n))
           moved == Moved(n)
           b == [table |-> addrTable, i |-> i0]
           state == CHOOSE f : f = [k \in 0 .. L |-> IF k = 0 THEN b ELSE Shift(f[k - 1], V[k], n)]
           Good == {st \in ShuffleStates : st.i \in moved /\ \E perm : Permuted(st, i0, moved, perm)}
<1>1. Shuffle(n) = state[L]
  BY DEF Shuffle
<1>2. L \in Nat /\ \A k \in 1 .. L : V[k] \in moved /\ V[k] \in Slots
  BY VisitedIs DEF Moved
<1>3. i0 \in Slots /\ i0 \in moved /\ moved \subseteq Slots
  <2>1. Holding(n) \subseteq 0 .. MaxNumNetworks - 1
    BY DEF Holding, Slots
  <2>2. i0 \in Holding(n)
    BY <2>1, LowestIn
  <2> QED
    BY <1>2, <2>2 DEF Holding, Moved
<1>4. Uniform(n) <=> \A u \in moved : Hash[addrTable[u].network] = Hash[n]
  BY DEF Uniform
<1> HIDE DEF V, L, i0, moved
<1>5. b \in Good
  <2>1. b \in ShuffleStates /\ b.i = i0 /\ b.table = addrTable
    BY <1>3 DEF ShuffleStates
  <2> DEFINE id == [s \in Slots |-> s]
  <2>2. Permuted(b, i0, moved, id)
    BY <1>3, <2>1 DEF Permuted, Permutes
  <2> QED
    BY <1>3, <2>1, <2>2
<1>6. ASSUME NEW st \in Good, NEW k \in 1 .. L
      PROVE  Shift(st, V[k], n) \in Good /\ (Uniform(n) => Shift(st, V[k], n).i = V[k])
  <2>1. PICK perm : Permuted(st, i0, moved, perm)
    OBVIOUS
  <2>2. /\ st \in ShuffleStates /\ st.i \in moved /\ V[k] \in moved
    BY <1>2
  <2> QED
    BY <1>3, <1>4, <2>1, <2>2, ShiftStep
<1> HIDE DEF Good, b
<1>7. state = [k \in 0 .. L |-> IF k = 0 THEN b ELSE Shift(state[k - 1], V[k], n)]
  <2> DEFINE F == [k \in 1 .. L |-> [st \in Good |-> Shift(st, V[k], n)]]
  <2>1. F \in [1 .. L -> [Good -> Good]]
    BY <1>6
  <2>2. PICK g : IsLoop(g, L, Good, b, F)
    <3> HIDE DEF F, state
    <3> QED
      BY <1>2, <1>5, <2>1, Iterates
  <2>3. ASSUME NEW k \in 1 .. L PROVE F[k][g[k - 1]] = Shift(g[k - 1], V[k], n)
    <3>1. k - 1 \in 0 .. L
      BY <1>2
    <3> QED
      BY <2>2, <3>1 DEF IsLoop
  <2> HIDE DEF F
  <2>4. ASSUME NEW k \in 0 .. L
        PROVE  g[k] = IF k = 0 THEN b ELSE Shift(g[k - 1], V[k], n)
    <3>1. g[k] = IF k = 0 THEN b ELSE F[k][g[k - 1]]
      BY <2>2 DEF IsLoop
    <3>2. k # 0 => F[k][g[k - 1]] = Shift(g[k - 1], V[k], n)
      BY <1>2, <2>3
    <3> QED
      BY <3>1, <3>2
  <2>5. g = [k \in 0 .. L |-> IF k = 0 THEN b ELSE Shift(g[k - 1], V[k], n)]
    BY <2>2, <2>4 DEF IsLoop
  <2> QED
    BY <2>5
<1> HIDE DEF state
<1>8. \A k \in 0 .. L : state[k] = IF k = 0 THEN b ELSE Shift(state[k - 1], V[k], n)
  BY <1>7
<1> DEFINE ok(k) == /\ state[k] \in Good
                    /\ Uniform(n) => state[k].i = IF k = 0 THEN i0 ELSE V[k]
           P == {k \in 0 .. L : ok(k)}
<1>9. ok(0)
  <2>1. state[0] = b /\ 0 \in 0 .. L
    BY <1>2, <1>8
  <2>2. b.i = i0
    BY DEF b
  <2> QED
    BY <1>5, <2>1, <2>2
<1>10. ASSUME NEW k \in 1 .. L, ok(k - 1) PROVE ok(k)
  <2>1. state[k] = Shift(state[k - 1], V[k], n) /\ k \in 0 .. L /\ k # 0
    BY <1>2, <1>8
  <2>2. state[k - 1] \in Good
    BY <1>10
  <2> QED
    BY <1>6, <2>1, <2>2
<1>11. ok(L)
  <2> HIDE DEF ok
  <2>1. 0 \in P /\ \A k \in 1 .. L : k - 1 \in P => k \in P
    BY <1>2, <1>9, <1>10
  <2>2. 0 .. L \subseteq P
    <3> HIDE DEF P
    <3> QED
      BY <1>2, <2>1, UpTo
  <2> QED
    BY <1>2, <2>2
<1>12. state[L] \in Good /\ (Uniform(n) => state[L].i = IF L = 0 THEN i0 ELSE V[L])
  BY <1>11
<1> HIDE DEF P
<1>13. /\ state[L] \in ShuffleStates
       /\ \E perm : Permuted(state[L], i0, moved, perm)
  BY <1>12 DEF Good
<1> QED
  BY <1>1, <1>12, <1>13 DEF L, V, i0, moved

(* A permutation of the slots passes their handles on, but for the one of  *)
(* slot i0, which is freed.                                                *)
LEMMA PermutedOwned ==
  ASSUME NEW table \in Table, NEW new \in NewTable, NEW mem \in Memory,
         Owned(table, new, mem), NEW i0 \in Slots, NEW last \in Slots, NEW moved,
         NEW perm, Permutes(perm, moved), perm[last] = i0,
         NEW table1 \in Table,
         \A s \in Slots : table1[s] = IF s = last THEN EmptyEntry ELSE table[perm[s]]
  PROVE  Owned(table1, new, FreeMem(mem, table[i0].hostTable))
<1> DEFINE g == table[i0].hostTable
           mem1 == FreeMem(mem, g)
<1>1. g \in Handles \cup {NoHandle} /\ NoHandle \notin Handles
  BY Entries
<1>2. \A h \in Handles : mem1[h] = IF h = g THEN Free ELSE mem[h]
  BY <1>1, FreeMemIs
<1>3. /\ perm \in [Slots -> Slots]
      /\ \A s, t \in Slots : perm[s] = perm[t] => s = t
      /\ \A s \in Slots : \E t \in Slots : perm[t] = s
  BY DEF Permutes
<1>4. \A s \in Slots : table1[s].hostTable = IF s = last THEN NoHandle ELSE table[perm[s]].hostTable
  BY Entries
<1> HIDE DEF mem1
<1>5. ASSUME NEW s \in Slots, NEW t \in Slots, table1[s].hostTable = table1[t].hostTable
      PROVE  table1[s].hostTable = NoHandle \/ s = t
  <2>1. CASE s = last \/ t = last
    BY <1>4, <1>5, <2>1
  <2>2. CASE s # last /\ t # last
    <3>1. perm[s] \in Slots /\ perm[t] \in Slots
      BY <1>3
    <3>2. table[perm[s]].hostTable = table[perm[t]].hostTable
      BY <1>4, <1>5, <2>2
    <3> QED
      BY <1>3, <1>4, <2>2, <3>1, <3>2 DEF Owned
  <2> QED
    BY <2>1, <2>2
<1>6. ASSUME NEW s \in Slots, NEW t \in NewSlots, table1[s].hostTable = new[t].hostTable
      PROVE  table1[s].hostTable = NoHandle
  <2>1. CASE s = last
    BY <1>4, <2>1
  <2>2. CASE s # last
    <3>1. perm[s] \in Slots /\ table1[s].hostTable = table[perm[s]].hostTable
      BY <1>3, <1>4, <2>2
    <3>2. table[perm[s]].hostTable = new[t].hostTable
      BY <1>6, <3>1
    <3>3. table[perm[s]].hostTable = NoHandle
      BY <3>1, <3>2 DEF Owned
    <3> QED
      BY <3>1, <3>3
  <2> QED
    BY <2>1, <2>2
<1>7. ASSUME NEW h \in Handles
      PROVE  mem1[h] # Free <=> \/ \E s \in Slots : table1[s].hostTable = h
                                \/ \E s \in NewSlots : new[s].hostTable = h
  <2>1. ASSUME mem1[h] # Free
        PROVE  \/ \E s \in Slots : table1[s].hostTable = h
               \/ \E s \in NewSlots : new[s].hostTable = h
    <3>1. h # g /\ mem[h] # Free
      BY <1>2, <2>1
    <3>2. CASE \E s \in Slots : table[s].hostTable = h
      <4>1. PICK s \in Slots : table[s].hostTable = h
        BY <3>2
      <4>2. PICK t \in Slots : perm[t] = s
        BY <1>3
      <4>3. t # last
        BY <3>1, <4>1, <4>2
      <4> QED
        BY <1>4, <4>1, <4>2, <4>3
    <3>3. CASE \E s \in NewSlots : new[s].hostTable = h
      BY <3>3
    <3> QED
      BY <3>1, <3>2, <3>3 DEF Owned
  <2>2. ASSUME NEW s \in Slots, table1[s].hostTable = h PROVE mem1[h] # Free
    <3>1. s # last /\ perm[s] \in Slots /\ table[perm[s]].hostTable = h
      BY <1>1, <1>3, <1>4, <2>2
    <3>2. perm[s] # i0
      BY <1>3, <3>1
    <3>3. h # g
      BY <1>1, <3>1, <3>2 DEF Owned
    <3>4. mem[h] # Free
      BY <3>1 DEF Owned
    <3> QED
      BY <1>2, <3>3, <3>4
  <2>3. ASSUME NEW s \in NewSlots, new[s].hostTable = h PROVE mem1[h] # Free
    <3>1. h # g /\ mem[h] # Free
      BY <1>1, <2>3 DEF Owned
    <3> QED
      BY <1>2, <3>1
  <2> QED
    BY <2>1, <2>2, <2>3
<1>8. Owned(table1, new, mem1)
  BY <1>5, <1>6, <1>7 DEF Owned
<1> QED
  BY <1>8 DEF mem1

(* What a release leaves: slot last is empty, and the others hold what     *)
(* they held in another order, without the entry of slot i0.               *)
Released(n) ==
  /\ Holding(n) # {} /\ Vacant # {} /\ networkCache' = Flushed
  /\ disk' = [disk EXCEPT ![n] = NoFile] /\ addrTable' \in Table
  /\ xms' = FreeMem(xms, addrTable[Lowest(Holding(n))].hostTable)
  /\ \E last \in Slots, perm \in [Slots -> Slots] :
       /\ Permutes(perm, Moved(n)) /\ perm[last] = Lowest(Holding(n))
       /\ \A s \in Slots : addrTable'[s] = IF s = last THEN EmptyEntry ELSE addrTable[perm[s]]
       /\ Uniform(n) => last = IF Len(Visited(n)) = 0 THEN Lowest(Holding(n))
                               ELSE Visited(n)[Len(Visited(n))]

(* The lowest slot that holds a network.                                   *)
LEMMA HoldingSlot ==
  ASSUME NEW n \in Networks, Holding(n) # {}
  PROVE  Lowest(Holding(n)) \in Slots /\ addrTable[Lowest(Holding(n))].network = n
<1>1. Holding(n) \subseteq 0 .. MaxNumNetworks - 1
  BY DEF Holding, Slots
<1>2. Lowest(Holding(n)) \in Holding(n)
  BY <1>1, LowestIn
<1> QED
  BY <1>2 DEF Holding

(* A release.                                                              *)
LEMMA ReleaseStep ==
  ASSUME IInv, NEW n \in Networks, Release(n)
  PROVE  IInv' /\ Released(n) /\ pc = "main" /\ pc' = pc
<1>1. /\ pc = "main" /\ Holding(n) # {} /\ Vacant # {}
      /\ disk' = [disk EXCEPT ![n] = NoFile]
      /\ xms' = FreeMem(xms, addrTable[Lowest(Holding(n))].hostTable)
      /\ addrTable' = Shuffled(n) /\ networkCache' = Flushed
      /\ UNCHANGED <<newAddrTable, pc>>
  BY DEF Release
<1>2. /\ addrTable \in Table /\ newAddrTable \in NewTable /\ xms \in Memory
      /\ Owned(addrTable, newAddrTable, xms)
  BY <1>1, AtMain
<1> DEFINE st == Shuffle(n)
           i0 == Lowest(Holding(n))
           last == st.i
<1>3. /\ st \in ShuffleStates
      /\ Uniform(n) => st.i = IF Len(Visited(n)) = 0 THEN i0 ELSE Visited(n)[Len(Visited(n))]
  BY <1>1, <1>2, ShuffleIs
<1>4. PICK perm : Permuted(st, i0, Moved(n), perm)
  BY <1>1, <1>2, ShuffleIs
<1>5. addrTable' = [st.table EXCEPT ![st.i] = EmptyEntry]
  BY <1>1 DEF Shuffled
<1>6. i0 \in Slots
  BY <1>1, HoldingSlot
<1> HIDE DEF st, i0
<1>7. last \in Slots /\ st.table \in Table
  BY <1>3 DEF ShuffleStates
<1>8. /\ perm \in [Slots -> Slots] /\ Permutes(perm, Moved(n)) /\ perm[last] = i0
      /\ \A t \in Slots \ {last} : st.table[t] = addrTable[perm[t]]
  BY <1>4 DEF Permuted, Permutes
<1>9. /\ addrTable' \in Table
      /\ \A s \in Slots : addrTable'[s] = IF s = last THEN EmptyEntry ELSE addrTable[perm[s]]
  BY <1>5, <1>7, <1>8 DEF Table
<1> HIDE DEF last
<1>10. Owned(addrTable', newAddrTable', xms')
  <2>1. xms' = FreeMem(xms, addrTable[i0].hostTable)
    BY <1>1 DEF i0
  <2> QED
    BY <1>1, <1>2, <1>6, <1>7, <1>8, <1>9, <2>1, PermutedOwned
<1>11. xms' \in Memory
  BY <1>1, <1>2, <1>6, Entries, FreeMemIs DEF i0
<1>12. disk' \in [Networks -> HostTable \cup {NoFile}]
  BY <1>1 DEF IInv, TypeOK
<1>13. TypeOK'
  BY <1>1, <1>9, <1>11, <1>12, FlushedCache DEF IInv, TypeOK, Table, Memory
<1>14. Blank'
  BY <1>1 DEF Blank
<1>15. Coherent(addrTable', xms', networkCache')
  BY <1>1, FlushedCache
<1>16. IInv'
  BY <1>10, <1>13, <1>14, <1>15, NextIs
<1>17. Released(n)
  BY <1>1, <1>3, <1>7, <1>8, <1>9 DEF Released, i0, last
<1> QED
  BY <1>1, <1>16, <1>17

(* A release that never ends.                                              *)
LEMMA ReleaseHangsStep ==
  ASSUME IInv, NEW n \in Networks, ReleaseHangs(n)
  PROVE  IInv' /\ pc' = "hung"
<1>1. /\ pc = "main" /\ Holding(n) # {} /\ pc' = "hung"
      /\ disk' = [disk EXCEPT ![n] = NoFile]
      /\ xms' = FreeMem(xms, addrTable[Lowest(Holding(n))].hostTable)
      /\ UNCHANGED <<addrTable, newAddrTable, networkCache>>
  BY DEF ReleaseHangs
<1>2. addrTable \in Table /\ xms \in Memory
  BY <1>1, AtMain
<1>3. addrTable[Lowest(Holding(n))].hostTable \in Handles \cup {NoHandle}
  BY <1>1, <1>2, HoldingSlot, Entries
<1>4. xms' \in Memory
  BY <1>1, <1>2, <1>3, FreeMemIs
<1>5. disk' \in [Networks -> HostTable \cup {NoFile}]
  BY <1>1 DEF IInv, TypeOK
<1>6. TypeOK'
  BY <1>1, <1>4, <1>5 DEF IInv, TypeOK, Memory
<1>7. Blank'
  BY <1>1 DEF Blank
<1> QED
  BY <1>1, <1>6, <1>7, NextIs

-----------------------------------------------------------------------------
(* Chains: between the hash of a network and its slot no slot is vacant,   *)
(* and none holds the same network.                                        *)

Chain(table) ==
  \A s, t \in Slots :
    LET m == table[s].network
    IN  m # NoNetwork /\ Distance(Hash[m], t) < Distance(Hash[m], s) =>
          table[t].network # NoNetwork /\ table[t].network # m

(* In such a table each network has one slot.                              *)
LEMMA OneSlotEach ==
  ASSUME NEW table \in Table, Chain(table), NEW s \in Slots, NEW t \in Slots,
         table[s].network # NoNetwork, table[s].network = table[t].network
  PROVE  s = t
<1> DEFINE m == table[s].network
           ds == Distance(Hash[m], s)
           dt == Distance(Hash[m], t)
<1>1. m \in Networks
  BY Entries
<1>2. Hash[m] \in Slots
  BY <1>1 DEF Slots
<1>3. s = t \/ ds < dt \/ dt < ds
  BY <1>2, Apart
<1>4. ~(dt < ds) /\ ~(ds < dt)
  BY DEF Chain
<1> HIDE DEF ds, dt
<1> QED
  BY <1>3, <1>4

(* Chains are what Findable is about.                                      *)
LEMMA ChainIsProbe ==
  ASSUME NEW table \in Table
  PROVE  Chain(table) <=> \A s \in Slots : table[s].network # NoNetwork =>
           Found(table, table[s].network) /\ Probe(table, table[s].network) = s
<1>1. ASSUME Chain(table), NEW s \in Slots, table[s].network # NoNetwork
      PROVE  Found(table, table[s].network) /\ Probe(table, table[s].network) = s
  <2> DEFINE m == table[s].network
             p == Probe(table, m)
  <2>1. m \in Networks /\ Hash[m] \in Slots
    <3>1. m \in Networks
      BY <1>1, Entries
    <3> QED
      BY <3>1 DEF Slots
  <2>2. s \in Stops(table, m)
    BY DEF Stops
  <2>3. /\ p \in Slots /\ p \in Stops(table, m)
        /\ Distance(Hash[m], p) <= Distance(Hash[m], s)
    BY <2>1, <2>2, ProbeStops
  <2>4. table[p].network \in {m, NoNetwork}
    BY <2>3 DEF Stops
  <2> HIDE DEF p
  <2>5. ~(Distance(Hash[m], p) < Distance(Hash[m], s))
    BY <1>1, <2>3, <2>4 DEF Chain
  <2>6. p = s
    <3>1. /\ Distance(Hash[m], p) \in Int /\ Distance(Hash[m], s) \in Int
          /\ p = s \/ Distance(Hash[m], p) < Distance(Hash[m], s)
                   \/ Distance(Hash[m], s) < Distance(Hash[m], p)
      BY <2>1, <2>3, Apart
    <3> QED
      BY <2>3, <2>5, <3>1
  <2> QED
    BY <2>2, <2>6 DEF p, Found
<1>2. ASSUME \A s \in Slots : table[s].network # NoNetwork =>
               Found(table, table[s].network) /\ Probe(table, table[s].network) = s
      PROVE  Chain(table)
  <2>1. SUFFICES ASSUME NEW s \in Slots, NEW t \in Slots, table[s].network # NoNetwork,
                        Distance(Hash[table[s].network], t) < Distance(Hash[table[s].network], s)
                 PROVE  table[t].network # NoNetwork /\ table[t].network # table[s].network
    BY DEF Chain
  <2> DEFINE m == table[s].network
  <2>2. m \in Networks /\ Hash[m] \in Slots
    <3>1. m \in Networks
      BY <2>1, Entries
    <3> QED
      BY <3>1 DEF Slots
  <2>3. Stops(table, m) # {} /\ Probe(table, m) = s
    BY <1>2, <2>1 DEF Found
  <2>4. t \in Stops(table, m) => Distance(Hash[m], s) <= Distance(Hash[m], t)
    BY <2>2, <2>3, ProbeStops
  <2>5. Distance(Hash[m], s) \in Int /\ Distance(Hash[m], t) \in Int
    BY <2>2, Apart
  <2>6. t \notin Stops(table, m)
    BY <2>1, <2>4, <2>5
  <2> QED
    BY <2>6 DEF Stops
<1> QED
  BY <1>1, <1>2

(* An entry put where it goes leaves the chains as they are.               *)
LEMMA ChainKept ==
  ASSUME NEW table \in Table, Chain(table), NEW n \in Networks, NEW e, e.network = n
  PROVE  Chain([table EXCEPT ![Where(table, n)] = e])
<1> DEFINE p == Where(table, n)
           table1 == [table EXCEPT ![p] = e]
<1>1. Hash[n] \in Slots
  BY DEF Slots
<1>2. p \in Slots
  BY <1>1, ProbeStops DEF Where
<1>3. \A t \in Slots : Distance(Hash[n], t) < Distance(Hash[n], p) => t \notin Stops(table, n)
  <2>1. CASE Stops(table, n) = {}
    BY <2>1
  <2>2. CASE Stops(table, n) # {}
    <3>1. p = Probe(table, n)
      BY <2>2 DEF Where
    <3>2. \A t \in Stops(table, n) : Distance(Hash[n], p) <= Distance(Hash[n], t)
      BY <2>2, <3>1, ProbeStops
    <3>3. \A t \in Slots : Distance(Hash[n], t) \in Int
      BY <1>1, Distances
    <3> HIDE DEF p
    <3> QED
      BY <1>2, <3>2, <3>3
  <2> QED
    BY <2>1, <2>2
<1>4. Stops(table, n) # {} => p \in Stops(table, n)
  BY ProbeStops DEF Where
<1> HIDE DEF p
<1>5. \A t \in Slots : table1[t] = IF t = p THEN e ELSE table[t]
  BY DEF Table
<1> HIDE DEF table1
<1>6. ASSUME NEW s \in Slots, s # p, table[s].network = n PROVE FALSE
  <2>1. s \in Stops(table, n) /\ n # NoNetwork
    BY <1>6 DEF Stops
  <2>2. p \in Stops(table, n)
    BY <1>4, <2>1
  <2>3. ~(Distance(Hash[n], s) < Distance(Hash[n], p))
    BY <1>3, <2>1
  <2>4. ~(Distance(Hash[n], p) < Distance(Hash[n], s))
    BY <1>2, <1>6, <2>1, <2>2 DEF Chain, Stops
  <2>5. s = p
    BY <1>1, <1>2, <2>3, <2>4, Apart
  <2> QED
    BY <1>6, <2>5
<1>7. ASSUME NEW s \in Slots, NEW t \in Slots, table1[s].network # NoNetwork,
             Distance(Hash[table1[s].network], t) < Distance(Hash[table1[s].network], s)
      PROVE  table1[t].network # NoNetwork /\ table1[t].network # table1[s].network
  <2>1. n # NoNetwork
    OBVIOUS
  <2>2. CASE s = p
    <3>1. table1[s].network = n
      BY <1>5, <2>2
    <3>2. t # p
      <4>1. Distance(Hash[n], p) \in Int
        BY <1>1, <1>2, Distances
      <4> QED
        BY <1>7, <2>2, <3>1, <4>1
    <3>3. t \notin Stops(table, n)
      BY <1>3, <1>7, <2>2, <3>1
    <3> QED
      BY <1>5, <3>1, <3>2, <3>3 DEF Stops
  <2>3. CASE s # p
    <3>1. table1[s].network = table[s].network /\ table[s].network # n
      BY <1>5, <1>6, <2>3
    <3>2. CASE t = p
      BY <1>5, <2>1, <3>1, <3>2
    <3>3. CASE t # p
      <4>1. table1[t] = table[t]
        BY <1>5, <3>3
      <4> QED
        BY <1>7, <3>1, <4>1 DEF Chain
    <3> QED
      BY <3>2, <3>3
  <2> QED
    BY <2>2, <2>3
<1>8. Chain(table1)
  BY <1>7 DEF Chain
<1> QED
  BY <1>8 DEF table1, p

(* The networks of a table are among the first k of a sequence.            *)
Among(table, order, k) ==
  \A s \in Slots : table[s].network # NoNetwork =>
    \E j \in 1 .. k : table[s].network = order[j]

(* A table with fewer networks than slots has a vacant slot.               *)
LEMMA SlotLeft ==
  ASSUME NEW table \in Table, Chain(table), NEW k \in Nat, k < MaxNumNetworks, NEW order,
         Among(table, order, k)
  PROVE  \E s \in Slots : table[s].network = NoNetwork
<1>1. SUFFICES ASSUME \A s \in Slots : table[s].network # NoNetwork PROVE FALSE
  OBVIOUS
<1> DEFINE f == [s \in Slots |-> CHOOSE j \in 1 .. k : table[s].network = order[j]]
<1>2. \A s \in Slots : f[s] \in 1 .. k /\ table[s].network = order[f[s]]
  BY <1>1 DEF Among
<1>3. f \in [Slots -> 1 .. k]
  BY <1>2
<1> HIDE DEF f
<1>4. \A s, t \in Slots : f[s] = f[t] => s = t
  <2>1. ASSUME NEW s \in Slots, NEW t \in Slots, f[s] = f[t] PROVE s = t
    <3>1. table[s].network = table[t].network
      BY <1>2, <2>1
    <3> QED
      BY <1>1, <3>1, OneSlotEach
  <2> QED
    BY <2>1
<1>5. f \in Injection(Slots, 1 .. k)
  BY <1>3, <1>4 DEF Injection, IsInjective
<1>6. Cardinality(Slots) = MaxNumNetworks /\ IsFiniteSet(1 .. k) /\ Cardinality(1 .. k) = k
  <2>1. Cardinality(0 .. MaxNumNetworks - 1) = MaxNumNetworks
    BY FS_Interval
  <2>2. IsFiniteSet(1 .. k) /\ Cardinality(1 .. k) = k
    BY FS_Interval
  <2> QED
    BY <2>1, <2>2 DEF Slots
<1>7. Cardinality(Slots) <= Cardinality(1 .. k)
  BY <1>5, <1>6, FS_Injection
<1> QED
  BY <1>6, <1>7

-----------------------------------------------------------------------------
(* Writing, restarts.                                                      *)

(* What is read through a handle of the hash table is a host table.        *)
LEMMA ContentsIs ==
  ASSUME NEW table \in Table, NEW new, NEW mem \in Memory, Owned(table, new, mem),
         NEW s \in Slots
  PROVE  Contents(mem, table[s].hostTable) \in HostTable
<1> DEFINE h == table[s].hostTable
<1>1. h \in Handles \cup {NoHandle}
  BY Entries
<1>2. h \in Handles => mem[h] # Free
  BY DEF Owned
<1> QED
  BY <1>1, <1>2, HostTables DEF Contents, Memory

(* The files that are written are host tables.                             *)
LEMMA FilesAre ==
  ASSUME IInv, pc = "main", NEW stop \in 0 .. MaxNumNetworks
  PROVE  /\ FilesAt(stop) \in [Networks -> HostTable \cup {NoFile}]
         /\ \A n \in Networks : Written(n, stop) # {} =>
              /\ Highest(Written(n, stop)) \in Written(n, stop)
              /\ FilesAt(stop)[n]
                   = Contents(xms, addrTable[Highest(Written(n, stop))].hostTable)
         /\ \A n \in Networks : Written(n, stop) = {} => FilesAt(stop)[n] = disk[n]
<1>1. /\ addrTable \in Table /\ xms \in Memory
      /\ Owned(addrTable, newAddrTable, xms) /\ disk \in [Networks -> HostTable \cup {NoFile}]
  BY AtMain DEF IInv, TypeOK
<1>2. \A n \in Networks :
        FilesAt(stop)[n] = IF Written(n, stop) = {} THEN disk[n]
                           ELSE Contents(xms, addrTable[Highest(Written(n, stop))].hostTable)
  BY DEF FilesAt
<1>3. ASSUME NEW n \in Networks, Written(n, stop) # {}
      PROVE  Highest(Written(n, stop)) \in Written(n, stop) /\ Highest(Written(n, stop)) \in Slots
  <2>1. Written(n, stop) \subseteq 0 .. MaxNumNetworks - 1
    BY DEF Written, Slots
  <2>2. Highest(Written(n, stop)) \in Written(n, stop)
    BY <1>3, <2>1, LowestIn
  <2> QED
    BY <2>2 DEF Written
<1>4. ASSUME NEW n \in Networks PROVE FilesAt(stop)[n] \in HostTable \cup {NoFile}
  <2>1. CASE Written(n, stop) = {}
    BY <1>1, <1>2, <2>1
  <2>2. CASE Written(n, stop) # {}
    BY <1>1, <1>2, <1>3, <2>2, ContentsIs
  <2> QED
    BY <2>1, <2>2
<1>5. FilesAt(stop) = [n \in Networks |-> FilesAt(stop)[n]]
  BY DEF FilesAt
<1> QED
  BY <1>2, <1>3, <1>4, <1>5

(* So is a file that is cut off.                                           *)
LEMMA WriteFileIs ==
  ASSUME IInv, pc = "main", NEW files \in [Networks -> HostTable \cup {NoFile}],
         NEW s \in Slots, Dirty(s), NEW cut
  PROVE  /\ WriteFile(files, s, cut) \in [Networks -> HostTable \cup {NoFile}]
         /\ \A n \in Networks : n # addrTable[s].network =>
              WriteFile(files, s, cut)[n] = files[n]
<1>1. addrTable \in Table /\ xms \in Memory /\ Owned(addrTable, newAddrTable, xms)
  BY AtMain
<1> DEFINE m == addrTable[s].network
           old == IF files[m] = NoFile THEN JunkTable ELSE files[m]
           now == Contents(xms, addrTable[s].hostTable)
           mixed == [b \in Blocks |-> IF b < cut THEN now[b] ELSE old[b]]
<1>2. m \in Networks
  <2>1. addrTable[s] # EmptyEntry
    BY Entries DEF Dirty
  <2> QED
    BY <1>1, <2>1, Entries
<1>3. now \in HostTable
  BY <1>1, ContentsIs
<1>4. old \in HostTable
  BY <1>2, HostTables
<1>5. WriteFile(files, s, cut) = [files EXCEPT ![m] = mixed]
  BY DEF WriteFile
<1> HIDE DEF now, old
<1>6. mixed \in HostTable
  BY <1>3, <1>4 DEF HostTable
<1> HIDE DEF mixed, m
<1>7. /\ WriteFile(files, s, cut) \in [Networks -> HostTable \cup {NoFile}]
      /\ \A n \in Networks : n # m => WriteFile(files, s, cut)[n] = files[n]
  BY <1>2, <1>5, <1>6
<1> QED
  BY <1>7 DEF m

(* A function changed to what it is.                                       *)
LEMMA SameFunction ==
  ASSUME NEW S, NEW T, NEW f \in [S -> T], NEW x \in S
  PROVE  [f EXCEPT ![x] = f[x]] = f
OBVIOUS

(* A table whose entries are the same but for dirty.                       *)
LEMMA CleanedIs ==
  ASSUME addrTable \in Table, NEW stop \in 0 .. MaxNumNetworks
  PROVE  /\ Cleaned(stop) \in Table
         /\ \A s \in Slots :
              /\ Cleaned(stop)[s].network = addrTable[s].network
              /\ Cleaned(stop)[s].hostTable = addrTable[s].hostTable
              /\ Cleaned(stop)[s].dirty <=> addrTable[s].dirty /\ ~(s < stop)
<1>1. ASSUME NEW e \in {EmptyEntry} \cup Entry
      PROVE  LET clean == [e EXCEPT !.dirty = FALSE]
             IN  /\ clean \in {EmptyEntry} \cup Entry /\ ~clean.dirty
                 /\ clean.network = e.network /\ clean.hostTable = e.hostTable
  <2>1. CASE e = EmptyEntry
    <3> DEFINE F == {"network", "dirty", "hostTable"}
    <3>1. EmptyEntry = [x \in F |-> EmptyEntry[x]] /\ ~EmptyEntry.dirty
      BY DEF EmptyEntry
    <3>2. EmptyEntry["dirty"] = FALSE /\ "dirty" \in F
      BY DEF EmptyEntry
    <3>3. EmptyEntry \in [F -> {EmptyEntry[x] : x \in F}]
      BY <3>1
    <3> HIDE DEF F
    <3>4. [EmptyEntry EXCEPT !["dirty"] = EmptyEntry["dirty"]] = EmptyEntry
      BY <3>2, <3>3, SameFunction
    <3>5. [EmptyEntry EXCEPT !.dirty = FALSE] = EmptyEntry
      BY <3>2, <3>4
    <3> QED
      BY <2>1, <3>5, Entries
  <2>2. CASE e \in Entry
    BY <2>2 DEF Entry
  <2> QED
    BY <2>1, <2>2
<1>2. \A s \in Slots : addrTable[s] \in {EmptyEntry} \cup Entry
  BY DEF Table
<1>3. \A s \in Slots : Cleaned(stop)[s] = IF s < stop THEN [addrTable[s] EXCEPT !.dirty = FALSE]
                                           ELSE addrTable[s]
  BY DEF Cleaned
<1>4. Cleaned(stop) = [s \in Slots |-> Cleaned(stop)[s]]
  BY DEF Cleaned
<1>5. ASSUME NEW s \in Slots
      PROVE  /\ Cleaned(stop)[s] \in {EmptyEntry} \cup Entry
             /\ Cleaned(stop)[s].network = addrTable[s].network
             /\ Cleaned(stop)[s].hostTable = addrTable[s].hostTable
             /\ Cleaned(stop)[s].dirty <=> addrTable[s].dirty /\ ~(s < stop)
  <2>1. CASE s < stop
    BY <1>1, <1>2, <1>3, <2>1
  <2>2. CASE ~(s < stop)
    BY <1>2, <1>3, <2>2
  <2> QED
    BY <2>1, <2>2
<1> QED
  BY <1>4, <1>5 DEF Table

(* Files are written and entries marked as clean.                          *)
LEMMA WriteStep ==
  ASSUME IInv, pc = "main", NEW stop \in 0 .. MaxNumNetworks,
         disk' \in [Networks -> HostTable \cup {NoFile}], addrTable' = Cleaned(stop),
         UNCHANGED <<newAddrTable, networkCache, xms, pc>>
  PROVE  IInv'
<1>1. /\ addrTable \in Table /\ newAddrTable \in NewTable /\ xms \in Memory
      /\ Owned(addrTable, newAddrTable, xms) /\ Coherent(addrTable, xms, networkCache)
  BY AtMain
<1>2. /\ addrTable' \in Table
      /\ \A s \in Slots : /\ addrTable'[s].network = addrTable[s].network
                          /\ addrTable'[s].hostTable = addrTable[s].hostTable
  BY <1>1, CleanedIs
<1>3. Owned(addrTable', newAddrTable', xms')
  BY <1>1, <1>2 DEF Owned
<1>4. Coherent(addrTable', xms', networkCache')
  BY <1>1, <1>2, SameAnswers
<1>5. TypeOK'
  BY <1>2 DEF IInv, TypeOK, Table
<1>6. Blank'
  BY DEF Blank
<1> QED
  BY <1>3, <1>4, <1>5, <1>6, NextIs

(* The machine stops.                                                      *)
LEMMA CrashStep ==
  ASSUME IInv, Crash
  PROVE  IInv' /\ pc' = "down"
<1>1. /\ addrTable' = [s \in Slots |-> EmptyEntry]
      /\ newAddrTable' = [s \in NewSlots |-> NoEntry]
      /\ networkCache' = Flushed /\ xms' = [h \in Handles |-> Free]
      /\ pc' = "down" /\ disk' = disk
  BY DEF Crash
<1>2. /\ \A s \in Slots : addrTable'[s].hostTable = NoHandle
      /\ \A s \in NewSlots : newAddrTable'[s].hostTable = NoHandle
      /\ \A h \in Handles : xms'[h] = Free
  BY <1>1, Entries
<1>3. Owned(addrTable', newAddrTable', xms')
  BY <1>2, Entries DEF Owned
<1>4. TypeOK'
  BY <1>1, FlushedCache DEF IInv, TypeOK
<1>5. Blank'
  BY <1>1 DEF Blank
<1> QED
  BY <1>1, <1>3, <1>4, <1>5, NextIs
-----------------------------------------------------------------------------
(* Start of the program.                                                   *)

(* A sequence of the files has each of them once.                          *)
LEMMA OrderIs ==
  ASSUME NEW order \in SetToSeqs(Files)
  PROVE  LET L == Cardinality(Files)
         IN  /\ L \in Nat /\ Len(order) = L
             /\ \A k \in 1 .. L : order[k] \in Files
             /\ \A j, k \in 1 .. L : order[j] = order[k] => j = k
             /\ \A n \in Files : \E k \in 1 .. L : order[k] = n
<1> DEFINE L == Cardinality(Files)
<1>1. IsFiniteSet(Files) /\ L \in Nat
  <2>1. IsFiniteSet(Files)
    BY NetworksAssumption, FS_Subset DEF Files
  <2> QED
    BY <2>1, FS_CardinalityType
<1>2. order \in [1 .. L -> Files] /\ \A j, k \in 1 .. L : j # k => order[j] # order[k]
  BY DEF SetToSeqs
<1>3. order \in Injection(1 .. L, Files)
  BY <1>2 DEF Injection, IsInjective
<1>4. Cardinality(1 .. L) = L
  <2> HIDE DEF L
  <2> QED
    BY <1>1, FS_Interval
<1>5. order \in Surjection(1 .. L, Files)
  BY <1>1, <1>3, <1>4, FS_Injection
<1> HIDE DEF L
<1>6. Len(order) = L
  BY <1>1, <1>2
<1>7. \A n \in Files : \E k \in 1 .. L : order[k] = n
  BY <1>5 DEF Surjection
<1> QED
  BY <1>1, <1>2, <1>6, <1>7 DEF L

(* What is put into the table for a file.                                  *)
Loaded(n, h) == [network |-> n, dirty |-> FALSE, hostTable |-> h[n]]

(* A table with one entry for each of the first k files.                   *)
LoadedUpTo(table, order, h, k) ==
  /\ table \in Table /\ Chain(table)
  /\ \A s \in Slots : table[s].network # NoNetwork =>
       \E j \in 1 .. k : table[s] = Loaded(order[j], h)
  /\ \A j \in 1 .. k : \E s \in Slots : table[s] = Loaded(order[j], h)

(* One of the files is inserted.                                           *)
LEMMA InsertStep ==
  ASSUME NEW order, NEW L \in Nat, L <= MaxNumNetworks,
         \A k \in 1 .. L : order[k] \in Networks,
         \A j, k \in 1 .. L : order[j] = order[k] => j = k,
         NEW h, NEW k \in 1 .. L, h[order[k]] \in Handles,
         NEW table, LoadedUpTo(table, order, h, k - 1)
  PROVE  LoadedUpTo([table EXCEPT ![Probe(table, order[k])] = Loaded(order[k], h)], order, h, k)
<1> DEFINE n == order[k]
           e == Loaded(n, h)
           p == Probe(table, n)
           table1 == [table EXCEPT ![p] = e]
<1>1. /\ table \in Table /\ Chain(table)
      /\ \A s \in Slots : table[s].network # NoNetwork =>
           \E j \in 1 .. k - 1 : table[s] = Loaded(order[j], h)
      /\ \A j \in 1 .. k - 1 : \E s \in Slots : table[s] = Loaded(order[j], h)
  BY DEF LoadedUpTo
<1>2. \A m : Loaded(m, h).network = m
  BY DEF Loaded
<1>3. n \in Networks /\ e \in Entry /\ e.network = n /\ n # NoNetwork
  <2>1. n \in Networks /\ n # NoNetwork
    OBVIOUS
  <2> QED
    BY <2>1 DEF Loaded, Entry
<1>4. \E s \in Slots : table[s].network = NoNetwork
  <2> DEFINE before == k - 1
  <2>1. Among(table, order, before)
    BY <1>1, <1>2 DEF Among
  <2>2. before \in Nat /\ before < MaxNumNetworks
    OBVIOUS
  <2>3. table \in Table /\ Chain(table)
    BY <1>1
  <2> HIDE DEF before
  <2> QED
    BY <2>1, <2>2, <2>3, SlotLeft
<1>5. Stops(table, n) # {}
  BY <1>4 DEF Stops
<1>6. p \in Slots /\ p \in Stops(table, n) /\ p = Where(table, n)
  BY <1>3, <1>5, ProbeStops DEF Where
<1>7. table[p].network = NoNetwork
  <2>1. ASSUME table[p].network = n PROVE FALSE
    <3>1. PICK j \in 1 .. k - 1 : table[p] = Loaded(order[j], h)
      BY <1>1, <1>3, <1>6, <2>1
    <3>2. order[j] = order[k] /\ j \in 1 .. L /\ j # k
      BY <1>2, <2>1, <3>1
    <3> QED
      BY <3>2
  <2> QED
    BY <1>6, <2>1 DEF Stops
<1>8. Chain(table1)
  BY <1>1, <1>3, <1>6, ChainKept
<1> HIDE DEF n, e, p
<1>9. table1 \in Table /\ \A s \in Slots : table1[s] = IF s = p THEN e ELSE table[s]
  BY <1>1, <1>3, <1>6 DEF Table
<1> HIDE DEF table1
<1>10. e = Loaded(order[k], h) /\ k \in 1 .. k /\ \A j \in 1 .. k - 1 : j \in 1 .. k
  BY DEF e, n
<1>11. ASSUME NEW s \in Slots, table1[s].network # NoNetwork
       PROVE  \E j \in 1 .. k : table1[s] = Loaded(order[j], h)
  <2>1. CASE s = p
    BY <1>9, <1>10, <2>1
  <2>2. CASE s # p
    BY <1>1, <1>9, <1>10, <1>11, <2>2
  <2> QED
    BY <2>1, <2>2
<1>12. ASSUME NEW j \in 1 .. k PROVE \E s \in Slots : table1[s] = Loaded(order[j], h)
  <2>1. CASE j = k
    BY <1>6, <1>9, <1>10, <2>1
  <2>2. CASE j # k
    <3>1. j \in 1 .. k - 1 /\ order[j] \in Networks
      BY <2>2
    <3>2. PICK s \in Slots : table[s] = Loaded(order[j], h)
      BY <1>1, <3>1
    <3>3. table[s].network # NoNetwork
      BY <1>2, <3>1, <3>2
    <3>4. table1[s] = table[s]
      BY <1>7, <1>9, <3>3
    <3> QED
      BY <3>2, <3>4
  <2> QED
    BY <2>1, <2>2
<1>13. LoadedUpTo(table1, order, h, k)
  BY <1>8, <1>9, <1>11, <1>12 DEF LoadedUpTo
<1> QED
  BY <1>13 DEF table1, p, n, e

(* All of the files are.                                                   *)
LEMMA InsertedIs ==
  ASSUME addrTable = [s \in Slots |-> EmptyEntry],
         Cardinality(Files) <= MaxNumNetworks, NEW order \in SetToSeqs(Files),
         NEW h \in [Files -> Handles]
  PROVE  LoadedUpTo(Inserted(order, h), order, h, Cardinality(Files))
<1> DEFINE L == Len(order)
           put(table, k) == [table EXCEPT ![Probe(table, order[k])] = Loaded(order[k], h)]
           state == CHOOSE f : f = [k \in 0 .. L |-> IF k = 0 THEN addrTable
                      ELSE [f[k - 1] EXCEPT ![Probe(f[k - 1], order[k])] =
                              [network |-> order[k], dirty |-> FALSE, hostTable |-> h[order[k]]]]]
<1>1. /\ L = Cardinality(Files) /\ L \in Nat /\ L <= MaxNumNetworks
      /\ \A k \in 1 .. L : order[k] \in Files
      /\ \A j, k \in 1 .. L : order[j] = order[k] => j = k
  BY OrderIs
<1>2. Inserted(order, h) = state[L]
  BY DEF Inserted
<1> HIDE DEF L
<1>3. \A k \in 1 .. L : order[k] \in Networks /\ h[order[k]] \in Handles
  BY <1>1 DEF Files
<1>4. ASSUME NEW k \in 1 .. L, NEW table \in Table PROVE put(table, k) \in Table
  <2>1. Loaded(order[k], h) \in Entry
    BY <1>3 DEF Loaded, Entry
  <2> QED
    BY <2>1 DEF Table
<1>5. addrTable \in Table
  BY DEF Table
<1>6. state = [k \in 0 .. L |-> IF k = 0 THEN addrTable ELSE put(state[k - 1], k)]
  <2> DEFINE F == [k \in 1 .. L |-> [table \in Table |-> put(table, k)]]
  <2>1. F \in [1 .. L -> [Table -> Table]]
    <3> HIDE DEF put
    <3> QED
      BY <1>4
  <2>2. PICK g : IsLoop(g, L, Table, addrTable, F)
    <3> HIDE DEF F, state
    <3> QED
      BY <1>1, <1>5, <2>1, Iterates
  <2>3. ASSUME NEW k \in 1 .. L PROVE F[k][g[k - 1]] = put(g[k - 1], k)
    <3>1. k - 1 \in 0 .. L
      BY <1>1
    <3>2. g[k - 1] \in Table
      BY <2>2, <3>1 DEF IsLoop
    <3> HIDE DEF put
    <3> QED
      BY <3>2
  <2> HIDE DEF F
  <2>4. ASSUME NEW k \in 0 .. L
        PROVE  g[k] = IF k = 0 THEN addrTable ELSE put(g[k - 1], k)
    <3>1. g[k] = IF k = 0 THEN addrTable ELSE F[k][g[k - 1]]
      BY <2>2 DEF IsLoop
    <3>2. k # 0 => F[k][g[k - 1]] = put(g[k - 1], k)
      <4> HIDE DEF put
      <4> QED
        BY <1>1, <2>3
    <3> HIDE DEF put
    <3> QED
      BY <3>1, <3>2
  <2>5. g = [k \in 0 .. L |-> IF k = 0 THEN addrTable ELSE put(g[k - 1], k)]
    <3> HIDE DEF put
    <3> QED
      BY <2>2, <2>4 DEF IsLoop
  <2>6. g = [k \in 0 .. L |-> IF k = 0 THEN addrTable
               ELSE [g[k - 1] EXCEPT ![Probe(g[k - 1], order[k])] =
                       [network |-> order[k], dirty |-> FALSE, hostTable |-> h[order[k]]]]]
    BY <2>5 DEF Loaded
  <2>7. state = [k \in 0 .. L |-> IF k = 0 THEN addrTable
               ELSE [state[k - 1] EXCEPT ![Probe(state[k - 1], order[k])] =
                       [network |-> order[k], dirty |-> FALSE, hostTable |-> h[order[k]]]]]
    BY <2>6
  <2> QED
    BY <2>7 DEF Loaded
<1> HIDE DEF state
<1>7. \A k \in 0 .. L : state[k] = IF k = 0 THEN addrTable ELSE put(state[k - 1], k)
  <2> HIDE DEF put
  <2> QED
    BY <1>6
<1> DEFINE ok(k) == LoadedUpTo(state[k], order, h, k)
           P == {k \in 0 .. L : ok(k)}
<1>8. ok(0)
  <2>1. state[0] = addrTable
    <3>1. 0 \in 0 .. L
      BY <1>1
    <3> QED
      BY <1>7, <3>1
  <2>2. \A s \in Slots : addrTable[s].network = NoNetwork
    BY Entries
  <2>3. Chain(addrTable)
    BY <2>2 DEF Chain
  <2>4. LoadedUpTo(addrTable, order, h, 0)
    BY <1>5, <2>2, <2>3 DEF LoadedUpTo
  <2> QED
    BY <2>1, <2>4
<1>9. ASSUME NEW k \in 1 .. L, ok(k - 1) PROVE ok(k)
  <2>1. state[k] = put(state[k - 1], k)
    <3>1. k \in 0 .. L /\ k # 0
      BY <1>1
    <3> HIDE DEF put
    <3> QED
      BY <1>7, <3>1
  <2> DEFINE table == state[k - 1]
  <2>2. LoadedUpTo(table, order, h, k - 1)
    BY <1>9
  <2> HIDE DEF table
  <2>3. LoadedUpTo([table EXCEPT ![Probe(table, order[k])] = Loaded(order[k], h)], order, h, k)
    BY <1>1, <1>3, <2>2, InsertStep
  <2> QED
    BY <2>1, <2>3 DEF table
<1>10. ok(L)
  <2> HIDE DEF ok
  <2>1. 0 \in P /\ \A k \in 1 .. L : k - 1 \in P => k \in P
    BY <1>1, <1>8, <1>9
  <2>2. 0 .. L \subseteq P
    <3> HIDE DEF P
    <3> QED
      BY <1>1, <2>1, UpTo
  <2> QED
    BY <1>1, <2>2
<1> QED
  BY <1>1, <1>2, <1>10

(* The files of the entries that are not dirty hold their tables.          *)
Saved(table, mem, files) ==
  \A s \in Slots :
    table[s].network # NoNetwork /\ ~table[s].dirty /\ table[s].hostTable # NoHandle =>
      files[table[s].network] = mem[table[s].hostTable]

(* The program starts.                                                     *)
LEMMA BootStep ==
  ASSUME IInv, Boot
  PROVE  IInv' /\ Chain(addrTable') /\ Saved(addrTable', xms', disk')
<1>1. /\ pc = "down" /\ Cardinality(Files) <= MaxNumNetworks /\ pc' = "main"
      /\ UNCHANGED <<newAddrTable, networkCache, disk>>
  BY DEF Boot
<1>2. PICK order \in SetToSeqs(Files), h \in Injection(Files, Handles) :
        /\ addrTable' = Inserted(order, h)
        /\ xms' = [k \in Handles |-> IF \E n \in Files : h[n] = k
                     THEN disk[CHOOSE n \in Files : h[n] = k] ELSE Free]
  BY DEF Boot
<1>3. /\ addrTable = [s \in Slots |-> EmptyEntry] /\ networkCache = Flushed
      /\ newAddrTable = [s \in NewSlots |-> NoEntry]
  BY <1>1 DEF IInv, Blank
<1>4. h \in [Files -> Handles] /\ \A m, n \in Files : h[m] = h[n] => m = n
  BY <1>2 DEF Injection, IsInjective
<1>5. /\ Cardinality(Files) \in Nat
      /\ \A k \in 1 .. Cardinality(Files) : order[k] \in Files
      /\ \A n \in Files : \E k \in 1 .. Cardinality(Files) : order[k] = n
  BY <1>2, OrderIs
<1>6. LoadedUpTo(addrTable', order, h, Cardinality(Files))
  BY <1>1, <1>2, <1>3, <1>4, InsertedIs
<1>7. addrTable' \in Table /\ Chain(addrTable')
  BY <1>6 DEF LoadedUpTo
<1>8. ASSUME NEW s \in Slots, addrTable'[s].network # NoNetwork
      PROVE  \E n \in Files : addrTable'[s] = Loaded(n, h)
  BY <1>5, <1>6, <1>8 DEF LoadedUpTo
<1>9. \A n \in Files : \E s \in Slots : addrTable'[s] = Loaded(n, h)
  BY <1>5, <1>6 DEF LoadedUpTo
<1>10. \A n : /\ Loaded(n, h).network = n /\ Loaded(n, h).hostTable = h[n]
  BY DEF Loaded
<1>11. \A n \in Files : disk[n] \in HostTable /\ disk[n] # Free /\ n \in Networks
  BY HostTables DEF IInv, TypeOK, Files
<1>12. ASSUME NEW n \in Files PROVE xms'[h[n]] = disk[n]
  <2>1. h[n] \in Handles /\ (CHOOSE m \in Files : h[m] = h[n]) = n
    BY <1>4
  <2> QED
    BY <1>2, <2>1
<1>13. ASSUME NEW k \in Handles, \A n \in Files : h[n] # k PROVE xms'[k] = Free
  BY <1>2, <1>13
<1>14. xms' \in Memory
  <2>1. ASSUME NEW k \in Handles PROVE xms'[k] \in HostTable \cup {Free}
    <3>1. CASE \E n \in Files : h[n] = k
      BY <1>11, <1>12, <3>1
    <3>2. CASE \A n \in Files : h[n] # k
      BY <1>13, <3>2
    <3> QED
      BY <3>1, <3>2
  <2>2. xms' = [k \in Handles |-> xms'[k]]
    BY <1>2
  <2> QED
    BY <2>1, <2>2 DEF Memory
<1>15. ASSUME NEW s \in Slots, addrTable'[s].hostTable # NoHandle
       PROVE  \E n \in Files : addrTable'[s] = Loaded(n, h)
  <2>1. addrTable'[s].network # NoNetwork
    BY <1>7, <1>15, Entries
  <2> QED
    BY <1>8, <2>1
<1>16. \A s \in NewSlots : newAddrTable'[s].hostTable = NoHandle
  BY <1>1, <1>3, Entries
<1>17. Owned(addrTable', newAddrTable', xms')
  <2>1. ASSUME NEW s \in Slots, NEW t \in Slots,
               addrTable'[s].hostTable = addrTable'[t].hostTable,
               addrTable'[s].hostTable # NoHandle
        PROVE  s = t
    <3>1. PICK m \in Files : addrTable'[s] = Loaded(m, h)
      BY <1>15, <2>1
    <3>2. PICK n \in Files : addrTable'[t] = Loaded(n, h)
      BY <1>15, <2>1
    <3>3. m = n
      BY <1>4, <1>10, <2>1, <3>1, <3>2
    <3>4. addrTable'[s].network = m /\ addrTable'[t].network = m /\ m # NoNetwork
      BY <1>10, <1>11, <3>1, <3>2, <3>3
    <3> QED
      BY <1>7, <3>4, OneSlotEach
  <2>2. ASSUME NEW k \in Handles
        PROVE  xms'[k] # Free <=> \E s \in Slots : addrTable'[s].hostTable = k
    <3>1. CASE \E n \in Files : h[n] = k
      <4>1. PICK n \in Files : h[n] = k
        BY <3>1
      <4>2. PICK s \in Slots : addrTable'[s] = Loaded(n, h)
        BY <1>9
      <4> QED
        BY <1>10, <1>11, <1>12, <4>1, <4>2
    <3>2. CASE \A n \in Files : h[n] # k
      <4>1. ASSUME NEW s \in Slots, addrTable'[s].hostTable = k PROVE FALSE
        <5>1. k # NoHandle
          BY Entries
        <5>2. PICK n \in Files : addrTable'[s] = Loaded(n, h)
          BY <1>15, <4>1, <5>1
        <5> QED
          BY <1>10, <3>2, <4>1, <5>2
      <4> QED
        BY <1>13, <3>2, <4>1
    <3> QED
      BY <3>1, <3>2
  <2>3. NoHandle \notin Handles
    BY Entries
  <2> QED
    BY <1>16, <2>1, <2>2, <2>3 DEF Owned
<1>18. Coherent(addrTable', xms', networkCache')
  BY <1>1, <1>3, FlushedCache
<1>19. TypeOK'
  BY <1>1, <1>7, <1>14 DEF IInv, TypeOK, Table, Memory
<1>20. Blank'
  BY <1>1 DEF Blank
<1>21. Saved(addrTable', xms', disk')
  <2>1. ASSUME NEW s \in Slots, addrTable'[s].network # NoNetwork
        PROVE  disk'[addrTable'[s].network] = xms'[addrTable'[s].hostTable]
    <3>1. PICK n \in Files : addrTable'[s] = Loaded(n, h)
      BY <1>8, <2>1
    <3>2. addrTable'[s].network = n /\ addrTable'[s].hostTable = h[n]
      BY <1>10, <3>1
    <3> QED
      BY <1>1, <1>12, <3>2
  <2> QED
    BY <2>1 DEF Saved
<1>22. IInv'
  BY <1>17, <1>18, <1>19, <1>20, NextIs
<1> QED
  BY <1>7, <1>21, <1>22

(* It does not.                                                            *)
LEMMA BootExitsStep ==
  ASSUME IInv, BootExits
  PROVE  IInv' /\ pc' = "exited"
<1>1. /\ pc = "down" /\ pc' = "exited"
      /\ UNCHANGED <<addrTable, newAddrTable, networkCache, xms, disk>>
  BY DEF BootExits
<1>2. Blank'
  BY <1>1 DEF IInv, Blank
<1>3. TypeOK'
  BY <1>1 DEF IInv, TypeOK
<1>4. Owned(addrTable, newAddrTable, xms)
  BY <1>1 DEF IInv, MemoryOwned
<1> QED
  BY <1>1, <1>2, <1>3, <1>4, NextIs

(* Nothing changes.                                                        *)
LEMMA StutterStep ==
  ASSUME IInv, UNCHANGED vars
  PROVE  IInv'
BY DEF IInv, TypeOK, Blank, MemoryOwned, CacheCoherent, Hits, vars

(* The actions of the next-state relation by what they change.             *)
LEMMA Cases ==
  ASSUME [Next]_vars
  PROVE  \/ UNCHANGED vars
         \/ \E n \in Networks, b \in Blocks : Lookup(n, b)
         \/ \E n \in Networks : LoadNoMemory(n)
         \/ \E n \in Networks, b \in Blocks, v \in Indices, begin, end \in BOOLEAN :
              Load(n, b, v, begin, end)
         \/ \E n \in Networks : Release(n)
         \/ \E n \in Networks : ReleaseHangs(n)
         \/ Write
         \/ \E stop \in Slots, cut \in 0 .. NumBlocks : WriteFails(stop, cut)
         \/ Crash \/ Boot \/ BootExits
BY DEF Next, LoadRefused, ReleaseUnknown

(* All the slots, or those up to one of them.                              *)
LEMMA StopIs ==
  MaxNumNetworks \in 0 .. MaxNumNetworks /\ Slots \subseteq 0 .. MaxNumNetworks
BY DEF Slots

(* Written in whole or in part.                                            *)
LEMMA WriteIs ==
  ASSUME IInv
  PROVE  /\ Write => /\ pc = "main" /\ disk' = FilesAt(MaxNumNetworks)
                     /\ addrTable' = Cleaned(MaxNumNetworks)
                     /\ UNCHANGED <<newAddrTable, networkCache, xms, pc>> /\ IInv'
         /\ \A stop \in Slots, cut \in 0 .. NumBlocks : WriteFails(stop, cut) =>
              /\ pc = "main" /\ Dirty(stop)
              /\ disk' \in {FilesAt(stop), WriteFile(FilesAt(stop), stop, cut)}
              /\ addrTable' = Cleaned(stop)
              /\ UNCHANGED <<newAddrTable, networkCache, xms, pc>> /\ IInv'
<1>1. ASSUME Write PROVE IInv'
  <2>1. /\ pc = "main" /\ disk' = FilesAt(MaxNumNetworks) /\ addrTable' = Cleaned(MaxNumNetworks)
        /\ UNCHANGED <<newAddrTable, networkCache, xms, pc>>
    BY <1>1 DEF Write
  <2>2. disk' \in [Networks -> HostTable \cup {NoFile}]
    BY <2>1, StopIs, FilesAre
  <2> QED
    BY <2>1, <2>2, StopIs, WriteStep
<1>2. ASSUME NEW stop \in Slots, NEW cut \in 0 .. NumBlocks, WriteFails(stop, cut) PROVE IInv'
  <2>1. /\ pc = "main" /\ Dirty(stop)
        /\ disk' \in {FilesAt(stop), WriteFile(FilesAt(stop), stop, cut)}
        /\ addrTable' = Cleaned(stop)
        /\ UNCHANGED <<newAddrTable, networkCache, xms, pc>>
    BY <1>2 DEF WriteFails
  <2>2. stop \in 0 .. MaxNumNetworks
    BY StopIs
  <2>3. FilesAt(stop) \in [Networks -> HostTable \cup {NoFile}]
    BY <2>1, <2>2, FilesAre
  <2>4. WriteFile(FilesAt(stop), stop, cut) \in [Networks -> HostTable \cup {NoFile}]
    BY <2>1, <2>3, WriteFileIs
  <2>5. disk' \in [Networks -> HostTable \cup {NoFile}]
    BY <2>1, <2>3, <2>4
  <2> QED
    BY <2>1, <2>2, <2>5, WriteStep
<1> QED
  BY <1>1, <1>2 DEF Write, WriteFails

(* Every step preserves the invariant.                                     *)
LEMMA NextIInv ==
  ASSUME IInv, [Next]_vars
  PROVE  IInv'
<1>1. CASE UNCHANGED vars
  BY <1>1, StutterStep
<1>2. ASSUME NEW n \in Networks, NEW b \in Blocks, Lookup(n, b) PROVE IInv'
  BY <1>2, LookupStep
<1>3. ASSUME NEW n \in Networks, LoadNoMemory(n) PROVE IInv'
  BY <1>3, LoadNoMemoryStep
<1>4. ASSUME NEW n \in Networks, NEW b \in Blocks, NEW v \in Indices, NEW begin \in BOOLEAN,
             NEW end \in BOOLEAN, Load(n, b, v, begin, end)
      PROVE  IInv'
  BY <1>4, LoadStep
<1>5. ASSUME NEW n \in Networks, Release(n) PROVE IInv'
  BY <1>5, ReleaseStep
<1>6. ASSUME NEW n \in Networks, ReleaseHangs(n) PROVE IInv'
  BY <1>6, ReleaseHangsStep
<1>7. CASE Write
  BY <1>7, WriteIs
<1>8. ASSUME NEW stop \in Slots, NEW cut \in 0 .. NumBlocks, WriteFails(stop, cut) PROVE IInv'
  BY <1>8, WriteIs
<1>9. CASE Crash
  BY <1>9, CrashStep
<1>10. CASE Boot
  BY <1>10, BootStep
<1>11. CASE BootExits
  BY <1>11, BootExitsStep
<1> QED
  BY <1>1, <1>2, <1>3, <1>4, <1>5, <1>6, <1>7, <1>8, <1>9, <1>10, <1>11, Cases

(* The invariant holds in every state.                                     *)
LEMMA IInvAlways == Spec => []IInv
<1>1. IInv /\ [Next]_vars => IInv'
  BY NextIInv
<1> QED
  BY InitIInv, <1>1, PTL DEF Spec
-----------------------------------------------------------------------------
(* Saved files.                                                            *)

(* The invariant with tables, memory and files as parameters.              *)
LEMMA PersistedIs ==
  /\ Persisted <=> (pc = "main" => Saved(addrTable, xms, disk))
  /\ Findable => (IInv /\ pc = "main" => Chain(addrTable))
<1>1. Persisted <=> (pc = "main" => Saved(addrTable, xms, disk))
  BY DEF Persisted, Saved
<1>2. ASSUME Findable, IInv, pc = "main" PROVE Chain(addrTable)
  <2>1. addrTable \in Table
    BY <1>2, AtMain
  <2>2. \A s \in Slots : addrTable[s].network # NoNetwork =>
          Found(addrTable, addrTable[s].network) /\ Probe(addrTable, addrTable[s].network) = s
    BY <1>2 DEF Findable
  <2> QED
    BY <2>1, <2>2, ChainIsProbe
<1> QED
  BY <1>1, <1>2

(* Files stay saved while tables do not change under them.                 *)
LEMMA SavedKept ==
  ASSUME addrTable \in Table, Saved(addrTable, xms, disk), disk' = disk, NEW p,
         \A s \in Slots \ {p} : /\ addrTable'[s] = addrTable[s]
                                /\ Contents(xms', addrTable[s].hostTable)
                                     = Contents(xms, addrTable[s].hostTable),
         p \in Slots => addrTable'[p].dirty
  PROVE  Saved(addrTable', xms', disk')
<1>1. ASSUME NEW s \in Slots, addrTable'[s].network # NoNetwork, ~addrTable'[s].dirty,
             addrTable'[s].hostTable # NoHandle
      PROVE  disk'[addrTable'[s].network] = xms'[addrTable'[s].hostTable]
  <2>1. s # p
    BY <1>1
  <2>2. /\ addrTable'[s] = addrTable[s]
        /\ xms'[addrTable[s].hostTable] = xms[addrTable[s].hostTable]
    BY <1>1, <2>1 DEF Contents
  <2> QED
    BY <1>1, <2>2 DEF Saved
<1> QED
  BY <1>1 DEF Saved

(* A release takes the file of a network away, and its one entry.          *)
LEMMA SavedAfterRelease ==
  ASSUME IInv, NEW n \in Networks, Release(n), Chain(addrTable), Saved(addrTable, xms, disk)
  PROVE  Saved(addrTable', xms', disk')
<1> DEFINE i0 == Lowest(Holding(n))
           g == addrTable[i0].hostTable
<1>1. /\ addrTable \in Table /\ newAddrTable \in NewTable /\ xms \in Memory
      /\ Owned(addrTable, newAddrTable, xms) /\ disk \in [Networks -> HostTable \cup {NoFile}]
  BY AtMain DEF Release, IInv, TypeOK
<1>2. /\ Holding(n) # {} /\ disk' = [disk EXCEPT ![n] = NoFile] /\ xms' = FreeMem(xms, g)
  BY DEF Release
<1>3. i0 \in Slots /\ addrTable[i0].network = n
  BY <1>2, HoldingSlot
<1>4. PICK last \in Slots, perm \in [Slots -> Slots] :
        /\ Permutes(perm, Moved(n)) /\ perm[last] = i0
        /\ \A s \in Slots : addrTable'[s] = IF s = last THEN EmptyEntry ELSE addrTable[perm[s]]
  BY ReleaseStep DEF Released
<1> HIDE DEF i0
<1>5. g \in Handles \cup {NoHandle} /\ NoHandle \notin Handles
  BY <1>1, <1>3, Entries
<1>6. \A h \in Handles : xms'[h] = IF h = g THEN Free ELSE xms[h]
  BY <1>1, <1>2, <1>5, FreeMemIs
<1>7. ASSUME NEW s \in Slots, addrTable'[s].network # NoNetwork, ~addrTable'[s].dirty,
             addrTable'[s].hostTable # NoHandle
      PROVE  disk'[addrTable'[s].network] = xms'[addrTable'[s].hostTable]
  <2> DEFINE u == perm[s]
             h == addrTable[u].hostTable
             m == addrTable[u].network
  <2>1. s # last
    BY <1>4, <1>7, Entries
  <2>2. u \in Slots /\ u # i0 /\ addrTable'[s] = addrTable[u]
    BY <1>4, <2>1 DEF Permutes
  <2> HIDE DEF u
  <2>3. h \in Handles /\ h # NoHandle /\ m # NoNetwork /\ ~addrTable[u].dirty /\ m \in Networks
    BY <1>1, <1>7, <2>2, Entries
  <2>4. h # g
    BY <1>1, <1>3, <2>2, <2>3 DEF Owned
  <2>5. m # n
    BY <1>1, <1>3, <2>2, <2>3, OneSlotEach
  <2>6. disk[m] = xms[h]
    BY <2>2, <2>3 DEF Saved
  <2>7. disk'[m] = disk[m] /\ xms'[h] = xms[h]
    BY <1>1, <1>2, <1>6, <2>3, <2>4, <2>5
  <2> QED
    BY <2>2, <2>6, <2>7
<1> QED
  BY <1>7 DEF Saved

(* The file of an entry before slot stop, or one that was clean.           *)
LEMMA FileOf ==
  ASSUME IInv, pc = "main", Chain(addrTable), Saved(addrTable, xms, disk),
         NEW stop \in 0 .. MaxNumNetworks, NEW s \in Slots, s < stop \/ ~Dirty(s),
         addrTable[s].network # NoNetwork, addrTable[s].hostTable # NoHandle
  PROVE  FilesAt(stop)[addrTable[s].network] = xms[addrTable[s].hostTable]
<1> DEFINE n == addrTable[s].network
           h == addrTable[s].hostTable
           W == Written(n, stop)
<1>1. addrTable \in Table /\ n \in Networks
  BY AtMain, Entries
<1>2. \A t \in W : t = s
  <2>1. ASSUME NEW t \in W PROVE t = s
    <3>1. t \in Slots /\ addrTable[t].network = n
      BY DEF Written
    <3> QED
      BY <1>1, <3>1, OneSlotEach
  <2> QED
    BY <2>1
<1>3. CASE W = {}
  <2>1. ~Dirty(s)
    BY <1>3 DEF Written
  <2>2. disk[n] = xms[h]
    BY <2>1 DEF Saved, Dirty
  <2>3. FilesAt(stop)[n] = disk[n]
    <3> HIDE DEF n
    <3> QED
      BY <1>1, <1>3, FilesAre
  <2> QED
    BY <2>2, <2>3
<1>4. CASE W # {}
  <2>1. Highest(W) \in W /\ FilesAt(stop)[n] = Contents(xms, addrTable[Highest(W)].hostTable)
    <3> HIDE DEF n
    <3> QED
      BY <1>1, <1>4, FilesAre
  <2>2. Highest(W) = s
    BY <1>2, <2>1
  <2> HIDE DEF W
  <2> QED
    BY <2>1, <2>2 DEF Contents
<1> QED
  BY <1>3, <1>4

(* A write saves what it marks as clean, and spoils no file but that of    *)
(* the entry it stops at.                                                  *)
LEMMA SavedAfterWrite ==
  ASSUME IInv, pc = "main", Chain(addrTable), Saved(addrTable, xms, disk),
         NEW stop \in 0 .. MaxNumNetworks, addrTable' = Cleaned(stop), xms' = xms,
         NEW file, disk' = FilesAt(stop) \/
                     /\ stop \in Slots /\ Dirty(stop) /\ file = addrTable[stop].network
                     /\ \A n \in Networks \ {file} : disk'[n] = FilesAt(stop)[n]
  PROVE  Saved(addrTable', xms', disk')
<1>1. addrTable \in Table
  BY AtMain
<1>2. ASSUME NEW s \in Slots, addrTable'[s].network # NoNetwork, ~addrTable'[s].dirty,
             addrTable'[s].hostTable # NoHandle
      PROVE  disk'[addrTable'[s].network] = xms'[addrTable'[s].hostTable]
  <2> DEFINE n == addrTable[s].network
  <2>1. /\ addrTable'[s].network = n /\ addrTable'[s].hostTable = addrTable[s].hostTable
        /\ s < stop \/ ~Dirty(s)
    BY <1>1, <1>2, CleanedIs DEF Dirty
  <2>2. n \in Networks /\ n # NoNetwork
    BY <1>1, <1>2, <2>1, Entries
  <2>3. FilesAt(stop)[n] = xms[addrTable[s].hostTable]
    BY <1>2, <2>1, <2>2, FileOf
  <2>4. disk'[n] = FilesAt(stop)[n]
    <3>1. CASE disk' = FilesAt(stop)
      BY <3>1
    <3>2. CASE /\ stop \in Slots /\ Dirty(stop) /\ file = addrTable[stop].network
               /\ \A m \in Networks \ {file} : disk'[m] = FilesAt(stop)[m]
      <4>1. s # stop
        BY <2>1, <3>2 DEF Slots
      <4>2. n # file
        BY <1>1, <2>2, <3>2, <4>1, OneSlotEach
      <4> HIDE DEF n
      <4> QED
        BY <2>2, <3>2, <4>2
    <3> QED
      BY <3>1, <3>2
  <2> QED
    BY <2>1, <2>3, <2>4
<1> QED
  BY <1>2 DEF Saved

(* Every step keeps the files saved, as long as probes find the networks.  *)
LEMMA NextPersisted ==
  ASSUME IInv, Findable, Persisted, [Next]_vars
  PROVE  Persisted'
<1>1. pc = "main" => /\ Chain(addrTable) /\ Saved(addrTable, xms, disk) /\ addrTable \in Table
  BY PersistedIs, AtMain
<1>2. SUFFICES pc' = "main" => Saved(addrTable', xms', disk')
  BY DEF Persisted, Saved
<1>3. CASE UNCHANGED vars
  BY <1>1, <1>3 DEF Saved, vars
<1>4. ASSUME NEW n \in Networks, NEW b \in Blocks, Lookup(n, b), pc' = "main"
      PROVE  Saved(addrTable', xms', disk')
  <2>1. UNCHANGED <<addrTable, newAddrTable, xms, disk, pc>>
    BY <1>4, LookupStep
  <2> QED
    BY <1>1, <1>4, <2>1 DEF Saved
<1>5. ASSUME NEW n \in Networks, LoadNoMemory(n) PROVE Saved(addrTable', xms', disk')
  <2>1. /\ UNCHANGED <<addrTable, disk, pc>> /\ pc = "main"
        /\ \A s \in Slots : Contents(xms', addrTable[s].hostTable)
                            = Contents(xms, addrTable[s].hostTable)
    BY <1>5, LoadNoMemoryStep
  <2>2. -1 \notin Slots
    BY DEF Slots
  <2> QED
    BY <1>1, <2>1, <2>2, SavedKept
<1>6. ASSUME NEW n \in Networks, NEW b \in Blocks, NEW v \in Indices, NEW begin \in BOOLEAN,
             NEW end \in BOOLEAN, Load(n, b, v, begin, end)
      PROVE  Saved(addrTable', xms', disk')
  <2>1. /\ UNCHANGED <<disk, pc>> /\ pc = "main"
        /\ \/ Installed(n)
           \/ /\ addrTable' = addrTable
              /\ \A s \in Slots : Contents(xms', addrTable[s].hostTable)
                                  = Contents(xms, addrTable[s].hostTable)
    BY <1>6, LoadStep
  <2>2. CASE Installed(n)
    <3> DEFINE p == Where(addrTable, n)
    <3>1. PICK e \in Entry : e.dirty /\ addrTable' = [addrTable EXCEPT ![p] = e]
      BY <2>2 DEF Installed
    <3>2. \A s \in Slots \ {p} : /\ addrTable'[s] = addrTable[s]
                                 /\ Contents(xms', addrTable[s].hostTable)
                                      = Contents(xms, addrTable[s].hostTable)
      BY <1>1, <2>1, <2>2, <3>1 DEF Installed, Table
    <3>3. p \in Slots => addrTable'[p].dirty
      BY <1>1, <2>1, <3>1 DEF Table
    <3> HIDE DEF p
    <3> QED
      BY <1>1, <2>1, <3>2, <3>3, SavedKept
  <2>3. CASE ~Installed(n)
    <3>1. -1 \notin Slots
      BY DEF Slots
    <3> QED
      BY <1>1, <2>1, <2>3, <3>1, SavedKept
  <2> QED
    BY <2>2, <2>3
<1>7. ASSUME NEW n \in Networks, Release(n) PROVE Saved(addrTable', xms', disk')
  <2>1. pc = "main"
    BY <1>7 DEF Release
  <2> QED
    BY <1>1, <1>7, <2>1, SavedAfterRelease
<1>8. ASSUME NEW n \in Networks, ReleaseHangs(n) PROVE pc' # "main"
  BY <1>8 DEF ReleaseHangs
<1>9. CASE Write
  <2>1. /\ pc = "main" /\ disk' = FilesAt(MaxNumNetworks)
        /\ addrTable' = Cleaned(MaxNumNetworks) /\ xms' = xms
    BY <1>9 DEF Write
  <2> QED
    BY <1>1, <2>1, StopIs, SavedAfterWrite
<1>10. ASSUME NEW stop \in Slots, NEW cut \in 0 .. NumBlocks, WriteFails(stop, cut)
       PROVE  Saved(addrTable', xms', disk')
  <2>1. /\ pc = "main" /\ Dirty(stop) /\ addrTable' = Cleaned(stop) /\ xms' = xms
        /\ disk' \in {FilesAt(stop), WriteFile(FilesAt(stop), stop, cut)}
    BY <1>10 DEF WriteFails
  <2>2. stop \in 0 .. MaxNumNetworks
    BY StopIs
  <2>3. FilesAt(stop) \in [Networks -> HostTable \cup {NoFile}]
    BY <2>1, <2>2, FilesAre
  <2>4. \A n \in Networks \ {addrTable[stop].network} :
          WriteFile(FilesAt(stop), stop, cut)[n] = FilesAt(stop)[n]
    BY <2>1, <2>3, WriteFileIs
  <2>5. disk' = FilesAt(stop) \/
          \A n \in Networks \ {addrTable[stop].network} : disk'[n] = FilesAt(stop)[n]
    BY <2>1, <2>4
  <2> QED
    BY <1>1, <2>1, <2>2, <2>5, SavedAfterWrite
<1>11. CASE Crash
  BY <1>11, CrashStep
<1>12. CASE Boot
  BY <1>12, BootStep
<1>13. CASE BootExits
  BY <1>13, BootExitsStep
<1> QED
  BY <1>3, <1>4, <1>5, <1>6, <1>7, <1>8, <1>9, <1>10, <1>11, <1>12, <1>13, Cases

-----------------------------------------------------------------------------
(* Chains and the shuffle.                                                 *)

(* A release of a network meets entries with its hash only: all slots      *)
(* after the hash of the network, up to the first vacant one, hold such.   *)
Separate ==
  pc = "main" =>
    \A n \in Networks : Holding(n) # {} /\ Vacant # {} =>
      \A k \in 1 .. Len(Visited(n)) : Hash[addrTable[Visited(n)[k]].network] = Hash[n]

(* The slot after one is one place farther on.                             *)
LEMMA Successor ==
  ASSUME NEW q \in Slots, NEW t \in Slots, NEW s \in Slots, Distance(q, t) < Distance(q, s)
  PROVE  After(t, 1) \in Slots /\ Distance(q, After(t, 1)) = Distance(q, t) + 1
<1> DEFINE N == MaxNumNetworks
           a == After(t, 1)
           d == Distance(q, t)
           e == Distance(q, a)
           f == Distance(q, s)
<1>1. N \in Nat \ {0} /\ 1 \in 0 .. N /\ q \in 0 .. N - 1 /\ t \in 0 .. N - 1
  BY DEF Slots
<1>2. a = IF t + 1 < N THEN t + 1 ELSE t + 1 - N
  BY <1>1, AfterIs
<1>3. a \in Slots /\ a \in 0 .. N - 1
  BY <1>1, <1>2 DEF Slots
<1>4. d = IF q <= t THEN t - q ELSE t - q + N
  BY DistanceIs
<1> HIDE DEF a
<1>5. e = IF q <= a THEN a - q ELSE a - q + N
  BY <1>3, DistanceIs
<1>6. f \in 0 .. N - 1 /\ d < f
  BY Distances
<1> HIDE DEF d, e, f, N
<1>7. e = d + 1
  BY <1>1, <1>2, <1>3, <1>4, <1>5, <1>6
<1> QED
  BY <1>3, <1>7 DEF a, d, e

(* The slots from the hash of a network that is held, up to those the      *)
(* shuffle visits last, are occupied, and the one after them is vacant.    *)
LEMMA Run ==
  ASSUME addrTable \in Table, Chain(addrTable), NEW n \in Networks, Holding(n) # {}, Vacant # {}
  PROVE  LET p == Hash[n]
             len == Len(Visited(n))
         IN  /\ len + 1 \in 0 .. MaxNumNetworks - 1
             /\ \A k \in 0 .. len : addrTable[After(p, k)].network # NoNetwork
             /\ addrTable[After(p, len + 1)].network = NoNetwork
             /\ Distance(p, Lowest(Holding(n))) <= len
<1> DEFINE p == Hash[n]
           len == Len(Visited(n))
           i0 == Lowest(Holding(n))
           p1 == After(p, 1)
<1>1. p \in Slots /\ 1 \in 0 .. MaxNumNetworks /\ MaxNumNetworks \in Nat
  BY DEF Slots
<1>2. i0 \in Slots /\ addrTable[i0].network = n /\ n # NoNetwork
  BY HoldingSlot
<1>3. len \in 0 .. MaxNumNetworks - 1
  BY VisitedIs
<1>4. PICK first \in Vacant : /\ Distance(p1, first) = len
                              /\ \A t \in Vacant : len <= Distance(p1, t)
  BY VisitedIs
<1>5. p1 \in Slots /\ first \in Slots /\ addrTable[first].network = NoNetwork
  BY <1>1, Distances DEF Vacant, Holding
<1>6. \A t \in Slots : Distance(p, t) < Distance(p, i0) => addrTable[t].network # NoNetwork
  BY <1>2 DEF Chain
<1> HIDE DEF i0, len
<1>7. \A k \in 0 .. MaxNumNetworks - 1 : After(p1, k) = After(p, k + 1)
  <2>1. ASSUME NEW k \in 0 .. MaxNumNetworks - 1 PROVE After(p1, k) = After(p, k + 1)
    <3> DEFINE a == After(p1, k)
               b == After(p, k + 1)
    <3>1. p1 = IF p + 1 < MaxNumNetworks THEN p + 1 ELSE p + 1 - MaxNumNetworks
      BY <1>1, AfterIs
    <3>2. b = IF p + (k + 1) < MaxNumNetworks THEN p + (k + 1) ELSE p + (k + 1) - MaxNumNetworks
      BY <1>1, AfterIs
    <3>3. p \in 0 .. MaxNumNetworks - 1
      BY <1>1 DEF Slots
    <3> HIDE DEF p1
    <3>4. a = IF p1 + k < MaxNumNetworks THEN p1 + k ELSE p1 + k - MaxNumNetworks
      BY <1>1, <1>5, AfterIs
    <3> HIDE DEF a, b, p
    <3>5. a = b
      BY <1>1, <3>1, <3>2, <3>3, <3>4
    <3> QED
      BY <3>5 DEF a, b
  <2> QED
    BY <2>1
<1>8. first = After(p, len + 1)
  <2>1. After(p1, Distance(p1, first)) = first
    <3> HIDE DEF p1
    <3> QED
      BY <1>5, Distances
  <2> HIDE DEF p1
  <2> QED
    BY <1>3, <1>4, <1>7, <2>1
<1>9. addrTable[p].network # NoNetwork
  <2>1. CASE p = i0
    BY <1>2, <2>1
  <2>2. CASE p # i0
    <3>1. Distance(p, p) < Distance(p, i0)
      <4>1. ~(Distance(p, i0) < Distance(p, p))
        <5>1. Distance(p, i0) \in 0 .. MaxNumNetworks - 1 /\ Distance(p, p) = 0
          BY <1>1, <1>2, Distances
        <5> QED
          BY <5>1
      <4> QED
        BY <1>1, <1>2, <2>2, <4>1, Apart
    <3> QED
      BY <1>1, <1>6, <3>1
  <2> QED
    BY <2>1, <2>2
<1>10. len + 1 # MaxNumNetworks
  <2>1. ASSUME len + 1 = MaxNumNetworks PROVE first = p
    <3>1. MaxNumNetworks \in 0 .. MaxNumNetworks /\ p \in 0 .. MaxNumNetworks - 1
      BY <1>1 DEF Slots
    <3>2. After(p, MaxNumNetworks) = p
      BY <1>1, <3>1, AfterIs
    <3> QED
      BY <1>8, <2>1, <3>2
  <2> QED
    BY <1>5, <1>9, <2>1
<1>11. len + 1 \in 0 .. MaxNumNetworks - 1
  BY <1>1, <1>3, <1>10
<1>12. ASSUME NEW k \in 0 .. len PROVE addrTable[After(p, k)].network # NoNetwork
  <2>1. CASE k = 0
    BY <1>1, <1>9, <2>1, Distances
  <2>2. CASE k # 0
    <3> DEFINE j == k - 1
               t == After(p1, j)
    <3>1. j \in 0 .. MaxNumNetworks - 1 /\ j < len /\ j + 1 = k
      BY <1>3, <2>2
    <3>2. j \in 0 .. MaxNumNetworks /\ len \in Int
      BY <1>3, <3>1
    <3>3. t = After(p, k)
      BY <1>7, <3>1
    <3> HIDE DEF p1, j
    <3>4. t \in Slots /\ Distance(p1, t) = j
      BY <1>5, <3>1, <3>2, Distances
    <3>5. t \notin Vacant
      BY <1>4, <3>1, <3>2, <3>4
    <3> QED
      BY <3>3, <3>4, <3>5 DEF Vacant, Holding
  <2> QED
    BY <2>1, <2>2
<1>13. Distance(p, i0) <= len
  <2>1. Distance(p, first) = len + 1
    BY <1>1, <1>8, <1>11, Distances
  <2>2. ~(Distance(p, first) < Distance(p, i0))
    BY <1>5, <1>6
  <2>3. Distance(p, first) # Distance(p, i0)
    <3>1. first # i0
      BY <1>2, <1>5
    <3> QED
      BY <1>1, <1>2, <1>5, <3>1, Distances
  <2>4. Distance(p, i0) \in Int
    BY <1>1, <1>2, Apart
  <2> HIDE DEF p
  <2> QED
    BY <1>3, <2>1, <2>2, <2>3, <2>4
<1> QED
  BY <1>5, <1>8, <1>11, <1>12, <1>13 DEF i0, len
(* The shuffle keeps the chains, if it meets entries with one hash only:   *)
(* those that stay would be cut off by the slot given up only if they came *)
(* after it, and there is a vacant slot before them.                       *)
LEMMA ChainAfterRelease ==
  ASSUME IInv, Separate, NEW n \in Networks, Release(n), Chain(addrTable)
  PROVE  Chain(addrTable')
<1> DEFINE p == Hash[n]
           len == Len(Visited(n))
           i0 == Lowest(Holding(n))
           end == After(p, len + 1)
<1>1. /\ addrTable \in Table /\ Holding(n) # {} /\ Vacant # {} /\ pc = "main"
  BY AtMain DEF Release
<1>2. /\ len + 1 \in 0 .. MaxNumNetworks - 1
      /\ \A k \in 0 .. len : addrTable[After(p, k)].network # NoNetwork
      /\ addrTable[end].network = NoNetwork
      /\ Distance(p, i0) <= len
  BY <1>1, Run
<1>3. len \in Nat /\ \A k \in 1 .. len : Visited(n)[k] = After(p, k)
  BY <1>1, VisitedIs
<1>4. i0 \in Slots /\ addrTable[i0].network = n
  BY <1>1, HoldingSlot
<1>5. p \in Slots
  BY DEF Slots
<1>6. \A u \in Moved(n) : Hash[addrTable[u].network] = p
  BY <1>1, <1>4 DEF Moved, Separate
<1>7. \A u \in Moved(n) : \E k \in 0 .. len : u = After(p, k)
  <2>1. ASSUME NEW u \in Moved(n) PROVE \E k \in 0 .. len : u = After(p, k)
    <3>1. CASE u = i0
      <4>1. Distance(p, i0) \in 0 .. MaxNumNetworks - 1 /\ After(p, Distance(p, i0)) = i0
        BY <1>4, <1>5, Distances
      <4>2. Distance(p, i0) \in 0 .. len
        BY <1>2, <1>3, <4>1
      <4> QED
        BY <3>1, <4>1, <4>2
    <3>2. CASE u # i0
      <4>1. PICK k \in 1 .. len : u = Visited(n)[k]
        BY <3>2 DEF Moved
      <4>2. k \in 0 .. len /\ u = After(p, k)
        BY <1>3, <4>1
      <4> QED
        BY <4>2
    <3> QED
      BY <3>1, <3>2
  <2> QED
    BY <2>1
<1>8. PICK last \in Slots, perm \in [Slots -> Slots] :
        /\ Permutes(perm, Moved(n)) /\ perm[last] = i0
        /\ \A s \in Slots : addrTable'[s] = IF s = last THEN EmptyEntry ELSE addrTable[perm[s]]
        /\ Uniform(n) => last = IF len = 0 THEN i0 ELSE Visited(n)[len]
  BY ReleaseStep DEF Released
<1>9. last = After(p, len)
  <2>1. last = IF len = 0 THEN i0 ELSE Visited(n)[len]
    BY <1>6, <1>8 DEF Uniform
  <2>2. CASE len = 0
    <3>1. Distance(p, i0) \in 0 .. MaxNumNetworks - 1 /\ After(p, Distance(p, i0)) = i0
      BY <1>4, <1>5, Distances
    <3>2. Distance(p, i0) = 0
      BY <1>2, <2>2, <3>1
    <3> QED
      BY <2>1, <2>2, <3>1, <3>2
  <2>3. CASE len # 0
    <3>1. len \in 1 .. len
      BY <1>3, <2>3
    <3> QED
      BY <1>3, <2>1, <2>3, <3>1
  <2> QED
    BY <2>2, <2>3
<1>10. last \in Slots /\ end \in Slots /\ Distance(p, last) = len /\ Distance(p, end) = len + 1
  <2>1. len \in 0 .. MaxNumNetworks - 1 /\ len \in 0 .. MaxNumNetworks
        /\ len + 1 \in 0 .. MaxNumNetworks
    BY <1>2, <1>3
  <2> QED
    BY <1>2, <1>5, <1>9, <2>1, Distances
<1>11. After(last, 1) = end
  <2>1. Distance(p, last) < Distance(p, end)
    BY <1>3, <1>10
  <2>2. After(last, 1) \in Slots /\ Distance(p, After(last, 1)) = Distance(p, end)
    BY <1>5, <1>10, <2>1, Successor
  <2> QED
    BY <1>5, <1>10, <2>2, Distances
<1> HIDE DEF p, len, i0, end
<1>12. \A u \in Moved(n) : addrTable[u].network # NoNetwork
  BY <1>2, <1>7
<1>13. /\ \A s, t \in Slots : perm[s] = perm[t] => s = t
       /\ \A s \in Slots \ Moved(n) : perm[s] = s
       /\ \A s \in Slots : perm[s] \in Slots
  BY <1>8 DEF Permutes
<1>14. ASSUME NEW t \in Slots, t # last, addrTable[t].network # NoNetwork
       PROVE  addrTable'[t].network # NoNetwork
  <2>1. addrTable'[t] = addrTable[perm[t]]
    BY <1>8, <1>14
  <2>2. CASE t \notin Moved(n)
    BY <1>13, <1>14, <2>1, <2>2
  <2>3. CASE t \in Moved(n)
    <3>1. perm[t] \in Moved(n)
      BY <1>13, <2>3
    <3> QED
      BY <1>12, <2>1, <3>1
  <2> QED
    BY <2>2, <2>3
<1>15. ASSUME NEW s \in Slots, NEW t \in Slots, addrTable'[s].network # NoNetwork,
              Distance(Hash[addrTable'[s].network], t) < Distance(Hash[addrTable'[s].network], s)
       PROVE  addrTable'[t].network # NoNetwork /\ addrTable'[t].network # addrTable'[s].network
  <2> DEFINE m == addrTable'[s].network
             q == Hash[m]
             u == perm[s]
  <2>1. s # last
    BY <1>8, <1>15, Entries
  <2>2. u \in Slots /\ addrTable'[s] = addrTable[u] /\ m = addrTable[u].network
    BY <1>8, <1>13, <2>1
  <2>3. m \in Networks /\ q \in Slots
    <3>1. m \in Networks
      BY <1>1, <1>15, <2>2, Entries
    <3> QED
      BY <3>1 DEF Slots
  <2>4. Distance(q, t) < Distance(q, s) /\ m # NoNetwork
    BY <1>15
  <2>5. t # last /\ addrTable[t].network # NoNetwork
    <3>1. CASE s \notin Moved(n)
      <4>1. u = s
        BY <1>13, <3>1
      <4> HIDE DEF q, m, u
      <4>2. ASSUME NEW v \in Slots, Distance(q, v) < Distance(q, s)
            PROVE  addrTable[v].network # NoNetwork
        <5>1. addrTable[s].network = m
          BY <2>2, <4>1
        <5> QED
          BY <2>4, <4>2, <5>1 DEF Chain, q
      <4>3. ASSUME t = last PROVE FALSE
        <5>1. Distance(q, end) = Distance(q, last) + 1
          BY <1>10, <1>11, <2>3, <2>4, <4>3, Successor
        <5>2. ~(Distance(q, end) < Distance(q, s))
          BY <1>2, <1>10, <4>2
        <5>3. end # s
          BY <1>2, <2>2, <2>4, <4>1
        <5>4. /\ Distance(q, end) \in Int /\ Distance(q, s) \in Int /\ Distance(q, last) \in Int
              /\ Distance(q, end) # Distance(q, s)
          BY <1>10, <2>3, <5>3, Apart, Distances
        <5> QED
          BY <2>4, <4>3, <5>1, <5>2, <5>4
      <4> QED
        BY <2>4, <4>2, <4>3
    <3>2. CASE s \in Moved(n)
      <4>1. u \in Moved(n)
        BY <1>13, <3>2
      <4>2. q = p
        BY <1>6, <2>2, <4>1
      <4> HIDE DEF q, m, u
      <4>3. PICK k \in 0 .. len : s = After(p, k)
        BY <1>7, <3>2
      <4>4. k \in 0 .. MaxNumNetworks - 1
        BY <1>2, <1>3
      <4>5. Distance(p, s) = k
        BY <1>5, <4>3, <4>4, Distances
      <4>6. Distance(p, t) \in 0 .. MaxNumNetworks - 1 /\ t = After(p, Distance(p, t))
        BY <1>5, Distances
      <4>7. Distance(p, t) < k
        BY <2>4, <4>2, <4>5
      <4>8. Distance(p, t) \in 0 .. len /\ Distance(p, t) # len
        BY <1>3, <4>6, <4>7
      <4> QED
        BY <1>2, <1>10, <4>6, <4>8
    <3> QED
      BY <3>1, <3>2
  <2>6. addrTable'[t].network # NoNetwork
    BY <1>14, <2>5
  <2>7. addrTable'[t].network # m
    <3>1. s # t
      <4>1. Distance(q, s) \in Int
        BY <2>3, Apart
      <4> HIDE DEF q, m, u
      <4> QED
        BY <2>4, <4>1
    <3>2. perm[t] # u /\ perm[t] \in Slots /\ addrTable'[t] = addrTable[perm[t]]
      BY <1>8, <1>13, <2>5, <3>1
    <3> HIDE DEF u
    <3> QED
      BY <1>1, <2>2, <2>4, <3>2, OneSlotEach
  <2> QED
    BY <2>6, <2>7
<1> QED
  BY <1>15 DEF Chain

(* The chains while requests are served.                                   *)
Chained == pc = "main" => Chain(addrTable)

(* Every step keeps them, as long as networks are separate.                *)
LEMMA NextChained ==
  ASSUME IInv, Separate, Chained, [Next]_vars
  PROVE  Chained'
<1>1. pc = "main" => Chain(addrTable) /\ addrTable \in Table
  BY AtMain DEF Chained
<1>2. SUFFICES pc' = "main" => Chain(addrTable')
  BY DEF Chained, Chain
<1>3. CASE UNCHANGED vars
  BY <1>1, <1>3 DEF vars
<1>4. ASSUME NEW n \in Networks, NEW b \in Blocks, Lookup(n, b), pc' = "main"
      PROVE  Chain(addrTable')
  <2>1. UNCHANGED <<addrTable, newAddrTable, xms, disk, pc>>
    BY <1>4, LookupStep
  <2> QED
    BY <1>1, <1>4, <2>1
<1>5. ASSUME NEW n \in Networks, LoadNoMemory(n) PROVE Chain(addrTable')
  BY <1>1, <1>5 DEF LoadNoMemory
<1>6. ASSUME NEW n \in Networks, NEW b \in Blocks, NEW v \in Indices, NEW begin \in BOOLEAN,
             NEW end \in BOOLEAN, Load(n, b, v, begin, end)
      PROVE  Chain(addrTable')
  <2>1. pc = "main" /\ (Installed(n) \/ addrTable' = addrTable)
    BY <1>6, LoadStep
  <2>2. CASE Installed(n)
    <3>1. PICK e : e.network = n /\ addrTable' = [addrTable EXCEPT ![Where(addrTable, n)] = e]
      BY <2>2 DEF Installed
    <3> QED
      BY <1>1, <2>1, <3>1, ChainKept
  <2>3. CASE addrTable' = addrTable
    BY <1>1, <2>1, <2>3
  <2> QED
    BY <2>1, <2>2, <2>3
<1>7. ASSUME NEW n \in Networks, Release(n) PROVE Chain(addrTable')
  <2>1. pc = "main"
    BY <1>7 DEF Release
  <2> QED
    BY <1>1, <1>7, <2>1, ChainAfterRelease
<1>8. ASSUME NEW n \in Networks, ReleaseHangs(n) PROVE pc' # "main"
  BY <1>8 DEF ReleaseHangs
<1>9. ASSUME NEW stop \in 0 .. MaxNumNetworks, pc = "main", addrTable' = Cleaned(stop)
      PROVE  Chain(addrTable')
  <2>1. \A s \in Slots : addrTable'[s].network = addrTable[s].network
    BY <1>1, <1>9, CleanedIs
  <2> QED
    BY <1>1, <1>9, <2>1 DEF Chain
<1>10. CASE Write
  BY <1>9, <1>10, StopIs DEF Write
<1>11. ASSUME NEW stop \in Slots, NEW cut \in 0 .. NumBlocks, WriteFails(stop, cut)
       PROVE  Chain(addrTable')
  BY <1>9, <1>11, StopIs DEF WriteFails
<1>12. CASE Crash
  BY <1>12, CrashStep
<1>13. CASE Boot
  BY <1>13, BootStep
<1>14. CASE BootExits
  BY <1>14, BootExitsStep
<1> QED
  BY <1>3, <1>4, <1>5, <1>6, <1>7, <1>8, <1>10, <1>11, <1>12, <1>13, <1>14, Cases

(* A chain is where a probe looks.                                         *)
LEMMA FindableIs == IInv /\ Chained => Findable
<1>1. SUFFICES ASSUME IInv, Chained, pc = "main" PROVE Findable
  BY DEF Findable
<1>2. addrTable \in Table
  BY <1>1, AtMain
<1>3. Chain(addrTable)
  BY <1>1 DEF Chained
<1> QED
  BY <1>2, <1>3, ChainIsProbe DEF Findable

(* All networks have one hash.                                             *)
OneHash == \A m, n \in Networks : Hash[m] = Hash[n]

(* Then they are separate: a slot that is visited is occupied.             *)
LEMMA OneHashSeparate == OneHash /\ IInv => Separate
<1>1. SUFFICES ASSUME OneHash, IInv, pc = "main", NEW n \in Networks, Vacant # {},
                      NEW k \in 1 .. Len(Visited(n))
               PROVE  Hash[addrTable[Visited(n)[k]].network] = Hash[n]
  BY DEF Separate
<1> DEFINE len == Len(Visited(n))
           p1 == After(Hash[n], 1)
           s == Visited(n)[k]
<1>2. addrTable \in Table
  BY <1>1, AtMain
<1>3. Hash[n] \in Slots /\ 1 \in 0 .. MaxNumNetworks /\ MaxNumNetworks \in Nat
  BY DEF Slots
<1>4. p1 \in Slots
  BY <1>3, Distances
<1>5. /\ len \in 0 .. MaxNumNetworks - 1 /\ s = After(Hash[n], k) /\ s \in Slots
      /\ \A t \in Vacant : len <= Distance(p1, t)
  BY <1>1, VisitedIs
<1> HIDE DEF s, len
<1>6. Distance(p1, s) < len
  <2> DEFINE p == Hash[n]
             N == MaxNumNetworks
             d == Distance(p1, s)
  <2>1. k \in 1 .. len /\ p \in 0 .. N - 1 /\ N \in Nat \ {0}
    BY <1>1, <1>3 DEF len, Slots
  <2>2. p1 = IF p + 1 < N THEN p + 1 ELSE p + 1 - N
    BY <1>3, AfterIs
  <2>3. k \in 0 .. N
    BY <1>5, <2>1
  <2>4. s = IF p + k < N THEN p + k ELSE p + k - N
    BY <1>3, <1>5, <2>3, AfterIs
  <2> HIDE DEF p1
  <2>5. d = IF p1 <= s THEN s - p1 ELSE s - p1 + N
    BY <1>4, <1>5, DistanceIs
  <2> HIDE DEF d, p, N
  <2>6. d = k - 1
    BY <2>1, <2>2, <2>3, <2>4, <2>5, <1>5 DEF N
  <2> QED
    BY <1>5, <2>1, <2>6 DEF d
<1>7. s \notin Vacant
  <2>1. Distance(p1, s) \in Int /\ len \in Int
    <3> HIDE DEF p1
    <3> QED
      BY <1>4, <1>5, Apart
  <2> QED
    BY <1>5, <1>6, <2>1
<1>8. addrTable[s].network \in Networks
  BY <1>2, <1>5, <1>7, Entries DEF Vacant, Holding
<1> QED
  BY <1>1, <1>8 DEF OneHash, s

-----------------------------------------------------------------------------
(* The theorems.                                                           *)

(* The tables, the cache, memory and the files keep the shape the code     *)
(* gives them; an entry without a network is all zero.                     *)
THEOREM NetTypeCorrect == Spec => []TypeOK
<1>1. IInv => TypeOK
  BY DEF IInv
<1> QED
  BY <1>1, IInvAlways, PTL

(* Extended memory is neither lost nor shared, whatever is loaded,         *)
(* replaced, released, refused for want of memory or of a slot, and with   *)
(* networks that a hole in the table has doubled: each block that is       *)
(* allocated is the host table of exactly one slot.                        *)
THEOREM BlocksAlwaysOwned == Spec => []BlocksOwned
<1>1. ASSUME IInv PROVE BlocksOwned
  <2>1. SUFFICES ASSUME pc = "main", NEW h \in Handles
                 PROVE  Cardinality(Owners(h)) = IF xms[h] = Free THEN 0 ELSE 1
    BY DEF BlocksOwned
  <2>2. Owned(addrTable, newAddrTable, xms) /\ NoHandle \notin Handles
    BY <1>1, <2>1, AtMain, Entries
  <2>3. \A o : o \in Owners(h) <=>
          \/ \E s \in Slots : o = <<0, s>> /\ addrTable[s].hostTable = h
          \/ \E s \in NewSlots : o = <<1, s>> /\ newAddrTable[s].hostTable = h
    BY DEF Owners
  <2>4. CASE xms[h] = Free
    <3>1. Owners(h) = {}
      BY <2>2, <2>3, <2>4 DEF Owned
    <3> QED
      BY <2>4, <3>1, FS_EmptySet
  <2>5. CASE xms[h] # Free
    <3>1. \E o : Owners(h) = {o}
      <4>1. CASE \E s \in Slots : addrTable[s].hostTable = h
        <5>1. PICK s \in Slots : addrTable[s].hostTable = h
          BY <4>1
        <5>2. \A t \in Slots : addrTable[t].hostTable = h => t = s
          BY <2>2, <5>1 DEF Owned
        <5>3. \A t \in NewSlots : newAddrTable[t].hostTable # h
          BY <2>2, <5>1 DEF Owned
        <5>4. Owners(h) = {<<0, s>>}
          BY <2>3, <5>1, <5>2, <5>3
        <5> QED
          BY <5>4
      <4>2. CASE \E s \in NewSlots : newAddrTable[s].hostTable = h
        <5>1. PICK s \in NewSlots : newAddrTable[s].hostTable = h
          BY <4>2
        <5>2. \A t \in NewSlots : newAddrTable[t].hostTable = h => t = s
          BY <2>2, <5>1 DEF Owned
        <5>3. \A t \in Slots : addrTable[t].hostTable # h
          BY <2>2, <5>1 DEF Owned
        <5>4. Owners(h) = {<<1, s>>}
          BY <2>3, <5>1, <5>2, <5>3
        <5> QED
          BY <5>4
      <4> QED
        BY <2>2, <2>5, <4>1, <4>2 DEF Owned
    <3> QED
      BY <2>5, <3>1, FS_Singleton
  <2> QED
    BY <2>4, <2>5
<1>2. IInv => BlocksOwned
  BY <1>1
<1> QED
  BY <1>2, IInvAlways, PTL

(* What the cache answers is what a fetch from the hash table and extended *)
(* memory would answer.                                                    *)
THEOREM CacheAlwaysCoherent == Spec => []CacheCoherent
<1>1. IInv => CacheCoherent
  BY DEF IInv
<1> QED
  BY <1>1, IInvAlways, PTL

(* As long as releases meet entries with one hash only, each network is    *)
(* where a probe looks for it, and only there.                             *)
THEOREM AlwaysFindable == Spec /\ []Separate => []Findable
<1>1. Init => Chained
  <2>1. SUFFICES ASSUME Init PROVE Chain(addrTable)
    BY DEF Chained
  <2>2. \A s \in Slots : addrTable[s].network = NoNetwork
    BY <2>1, Entries DEF Init
  <2> QED
    BY <2>2 DEF Chain
<1>2. IInv /\ Separate /\ Chained /\ [Next]_vars => Chained'
  BY NextChained
<1> QED
  BY <1>1, <1>2, IInvAlways, FindableIs, PTL DEF Spec

(* As long as probes find the networks, the file of a table that is not    *)
(* dirty holds that table, after writes that failed in the middle and      *)
(* restarts too.                                                           *)
THEOREM AlwaysPersisted == Spec /\ []Findable => []Persisted
<1>1. Init => Persisted
  BY Entries DEF Init, Persisted
<1>2. IInv /\ Findable /\ Persisted /\ [Next]_vars => Persisted'
  BY NextPersisted
<1> QED
  BY <1>1, <1>2, IInvAlways, PTL DEF Spec

(* With networks of one hash both hold in every run.                       *)
THEOREM OneHashSound ==
  ASSUME OneHash
  PROVE  Spec => [](Findable /\ Persisted)
<1>1. IInv => Separate
  BY OneHashSeparate
<1> QED
  BY <1>1, IInvAlways, AlwaysFindable, AlwaysPersisted, PTL
=============================================================================
