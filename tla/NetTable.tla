------------------------------ MODULE NetTable ------------------------------
(***************************************************************************)
(* The network tables of the bridge program: the hash table of networks    *)
(* and its cache (src/NDIS/FILTER.C), and the management requests that     *)
(* load, release and write networks (src/NDIS/MANAGE.C).                   *)
(*                                                                         *)
(* A network has a host table in extended memory, which maps each of its   *)
(* hosts to an access list.  A manager sends it in blocks, the first with  *)
(* the flag BEGIN and the last with END; the new table replaces the old    *)
(* one at END.  Tables that were loaded and not yet written are dirty.     *)
(* Requests and lookups take place one at a time in the main loop.  The    *)
(* machine may be restarted at any time; in the middle of handleWrite, that *)
(* is a write that fails there and then a restart, since all but the disk  *)
(* is lost.                                                                *)
(***************************************************************************)
EXTENDS Integers, FiniteSets, SequencesExt

CONSTANTS
  MaxNumNetworks,     \* MAX_NUM_NETWORKS, slots of the hash table
  MaxNumNewNetworks,  \* MAX_NUM_NEW_NETWORKS
  Networks,           \* networks of class B or C
  Hash,               \* (network & NETWORK_HASH_MASK) >> 19
  NumBlocks,          \* blocks of a host table, in the order of the file
  Indices,            \* numbers of access lists
  Handles,            \* handles of the extended memory manager, but for 0
  NoNetwork,          \* address 0
  NoHandle,           \* handle 0: conventional memory
  Junk,               \* what memory nobody wrote to holds
  Ways                \* entries of the one set of the cache that is modelled

ASSUME SlotsAssumption ==
  MaxNumNetworks \in Nat \ {0} /\ MaxNumNewNetworks \in Nat \ {0}
ASSUME HashAssumption ==
  Hash \in [Networks -> 0 .. MaxNumNetworks - 1] /\ NoNetwork \notin Networks
ASSUME NetworksAssumption == IsFiniteSet(Networks)
ASSUME BlocksAssumption == NumBlocks \in Nat \ {0}
ASSUME MemoryAssumption ==
  /\ NoHandle \notin Handles /\ Junk \notin Indices
  /\ IsFiniteSet(Handles)
  /\ Cardinality(Handles) >= MaxNumNetworks + MaxNumNewNetworks

VARIABLES
  addrTable,     \* the hash table
  newAddrTable,  \* networks that are being loaded
  networkCache,  \* one set of the cache
  xms,           \* host tables in extended memory
  disk,          \* the file of each network
  pc             \* "main", "hung" (in an endless loop), "down" or "exited"

vars == <<addrTable, newAddrTable, networkCache, xms, disk, pc>>

Slots    == 0 .. MaxNumNetworks - 1
NewSlots == 0 .. MaxNumNewNetworks - 1
Blocks   == 0 .. NumBlocks - 1

HostTable == [Blocks -> Indices \cup {Junk}]
JunkTable == [b \in Blocks |-> Junk]
Free      == <<>>      \* xms: a handle not allocated
NoFile    == <<>>      \* disk: no file of that name

EmptyEntry == [network |-> NoNetwork, dirty |-> FALSE, hostTable |-> NoHandle]
NoEntry    == [network |-> NoNetwork, hostTable |-> NoHandle]
NoTag      == [tag |-> <<>>, value |-> Junk]

Flushed    == [w \in Ways |-> NoTag]                    \* networkCacheFlush

(* Slots in the order in which a probe that starts at p visits them.       *)
After(p, k)   == (p + k) % MaxNumNetworks
Distance(p, s) == (s - p + MaxNumNetworks) % MaxNumNetworks

(* The slots that hold n or nothing, and the first one that a probe for n  *)
(* meets.                                                                  *)
Stops(table, n) == {s \in Slots : table[s].network \in {n, NoNetwork}}
Probe(table, n) == CHOOSE s \in Stops(table, n) :
                     \A t \in Stops(table, n) :
                       Distance(Hash[n], s) <= Distance(Hash[n], t)

(* Does networkCacheFetch find the network?                                *)
Found(table, n) ==
  Stops(table, n) # {} /\ table[Probe(table, n)].network = n

(* What extended memory, or for handle 0 conventional memory, holds.       *)
Contents(mem, h) == IF h = NoHandle THEN JunkTable ELSE mem[h]

FreeMem(mem, h) == IF h = NoHandle THEN mem ELSE [mem EXCEPT ![h] = Free]

Init ==
  /\ addrTable = [s \in Slots |-> EmptyEntry]
  /\ newAddrTable = [s \in NewSlots |-> NoEntry]
  /\ networkCache = Flushed
  /\ xms = [h \in Handles |-> Free]
  /\ disk = [n \in Networks |-> NoFile]
  /\ pc = "main"

-----------------------------------------------------------------------------
(* networkCacheLookup and networkCacheFetch, for a packet or a query.      *)

Hits(n, b) == {w \in Ways : networkCache[w].tag = <<n, b>>}

LookupHit(n, b) ==
  /\ pc = "main"
  /\ Hits(n, b) # {}
  /\ UNCHANGED vars

(* Which way is replaced depends on time stamps, which are left out.       *)
LookupFetch(n, b) ==
  LET h == addrTable[Probe(addrTable, n)].hostTable
  IN  /\ pc = "main"
      /\ Hits(n, b) = {} /\ Found(addrTable, n)
      /\ \E w \in Ways : networkCache' = [networkCache EXCEPT ![w] =
           [tag |-> <<n, b>>, value |-> Contents(xms, h)[b]]]
      /\ UNCHANGED <<addrTable, newAddrTable, xms, disk, pc>>

(* The network is not in the table: access list 0, nothing is cached.      *)
LookupUnknown(n, b) ==
  /\ pc = "main"
  /\ Hits(n, b) = {} /\ ~Found(addrTable, n)
  /\ UNCHANGED vars

Lookup(n, b) == LookupHit(n, b) \/ LookupFetch(n, b) \/ LookupUnknown(n, b)

-----------------------------------------------------------------------------
(* handleLoad, FM_LOAD_NETWORK.                                            *)

Loading(n)  == {s \in NewSlots : newAddrTable[s].network = n}
Lowest(set)  == CHOOSE s \in set : \A t \in set : s <= t
Highest(set) == CHOOSE s \in set : \A t \in set : t <= s

(* The slot of the new networks array for a block with these flags; there  *)
(* is none if the set is empty.                                            *)
NewSlot(n, begin) ==
  IF Loading(n) # {} \/ ~begin THEN Loading(n) ELSE Loading(NoNetwork)

(* No slot: an error is sent back.                                         *)
LoadRefused(n, begin) ==
  /\ pc = "main"
  /\ NewSlot(n, begin) = {}
  /\ UNCHANGED vars

(* BEGIN, and extended memory is exhausted.  A table begun before is gone. *)
LoadNoMemory(n) ==
  LET i == Lowest(NewSlot(n, TRUE))
  IN  /\ pc = "main"
      /\ NewSlot(n, TRUE) # {}
      /\ newAddrTable' = [newAddrTable EXCEPT ![i] = NoEntry]
      /\ xms' = FreeMem(xms, newAddrTable[i].hostTable)
      /\ UNCHANGED <<addrTable, networkCache, disk, pc>>

(* Mutant: the table that is replaced is not freed.                        *)
PreviousKept(mem, p) == mem

PreviousFreed(mem, p) == FreeMem(mem, addrTable[p].hostTable)

(* END: install slot i of the new networks array.  If the hash table is    *)
(* full, an error is sent, the new table is freed, and the code goes on    *)
(* with the slot the probe ended at, the first one.                        *)
InstallEntry(mem, n, i, h, cache) ==
  LET full == Stops(addrTable, n) = {}
      p    == IF full THEN Hash[n] ELSE Probe(addrTable, n)
      kept == IF full THEN NoHandle ELSE h
      mem1 == IF full THEN FreeMem(mem, h) ELSE mem
  IN  /\ addrTable' = [addrTable EXCEPT ![p] =
                         [network |-> n, dirty |-> TRUE, hostTable |-> kept]]
      /\ newAddrTable' = [newAddrTable EXCEPT ![i] = NoEntry]
      /\ xms' = PreviousFreed(mem1, p)
      /\ networkCache' = cache

(* Mutant: the cache is not flushed.                                       *)
InstallUnflushed(mem, n, i, h) == InstallEntry(mem, n, i, h, networkCache)

Install(mem, n, i, h) == InstallEntry(mem, n, i, h, Flushed)

Load(n, b, v, begin, end) ==
  LET i == Lowest(NewSlot(n, begin))
  IN  /\ pc = "main"
      /\ NewSlot(n, begin) # {}
      /\ \E h \in Handles :
           LET freed == IF begin THEN FreeMem(xms, newAddrTable[i].hostTable)
                                 ELSE xms
               mem   == IF begin THEN [freed EXCEPT ![h] = JunkTable] ELSE xms
               copied == [mem EXCEPT ![h] = [@ EXCEPT ![b] = v]]
           IN  /\ IF begin THEN freed[h] = Free
                           ELSE h = newAddrTable[i].hostTable
               /\ IF end
                    THEN Install(copied, n, i, h)
                    ELSE /\ newAddrTable' = [newAddrTable EXCEPT ![i] =
                              [network |-> n, hostTable |-> h]]
                         /\ xms' = copied
                         /\ UNCHANGED <<addrTable, networkCache>>
      /\ UNCHANGED <<disk, pc>>

-----------------------------------------------------------------------------
(* handleRelease, FM_RELEASE_NETWORK.                                      *)

Holding(n) == {s \in Slots : addrTable[s].network = n}
Vacant     == Holding(NoNetwork)

(* The slots after the hash of n, up to the first vacant one.              *)
Visited(n) ==
  LET first == CHOOSE s \in Vacant : \A t \in Vacant :
                 Distance(After(Hash[n], 1), s) <= Distance(After(Hash[n], 1), t)
  IN  [k \in 1 .. Distance(After(Hash[n], 1), first) |-> After(Hash[n], k)]

(* Mutant: the entry is cleared and nothing is moved.                      *)
ShuffledNot(n) == [addrTable EXCEPT ![Lowest(Holding(n))] = EmptyEntry]

(* The shuffle: an entry with the hash of n moves to the slot that was      *)
(* given up last, and the slot it leaves is the next to be given up.       *)
Shift(st, s, n) ==
  IF Hash[st.table[s].network] # Hash[n] THEN st
  ELSE [table |-> [st.table EXCEPT ![st.i] = st.table[s]], i |-> s]

Shuffle(n) ==
  LET state[k \in 0 .. Len(Visited(n))] ==
        IF k = 0 THEN [table |-> addrTable, i |-> Lowest(Holding(n))]
                 ELSE Shift(state[k - 1], Visited(n)[k], n)
  IN  state[Len(Visited(n))]

Shuffled(n) == LET last == Shuffle(n)
               IN  [last.table EXCEPT ![last.i] = EmptyEntry]

ReleaseUnknown(n) ==
  /\ pc = "main"
  /\ Holding(n) = {}
  /\ UNCHANGED vars

(* The shuffle ends at a vacant slot only.                                 *)
ReleaseHangs(n) ==
  /\ pc = "main"
  /\ Holding(n) # {} /\ Vacant = {}
  /\ disk' = [disk EXCEPT ![n] = NoFile]
  /\ xms' = FreeMem(xms, addrTable[Lowest(Holding(n))].hostTable)
  /\ pc' = "hung"
  /\ UNCHANGED <<addrTable, newAddrTable, networkCache>>

Release(n) ==
  /\ pc = "main"
  /\ Holding(n) # {} /\ Vacant # {}
  /\ disk' = [disk EXCEPT ![n] = NoFile]
  /\ xms' = FreeMem(xms, addrTable[Lowest(Holding(n))].hostTable)
  /\ addrTable' = Shuffled(n)
  /\ networkCache' = Flushed
  /\ UNCHANGED <<newAddrTable, pc>>

-----------------------------------------------------------------------------
(* handleWrite, its loop over the network tables.                          *)

Dirty(s)   == addrTable[s].dirty

(* The files when the first cut blocks of slot s are written over what was *)
(* in its file, which is not truncated.                                    *)
WriteFile(files, s, cut) ==
  LET n   == addrTable[s].network
      old == IF files[n] = NoFile THEN JunkTable ELSE files[n]
  IN  [files EXCEPT ![n] = [b \in Blocks |->
         IF b < cut THEN Contents(xms, addrTable[s].hostTable)[b] ELSE old[b]]]

(* The files when the loop has come to slot stop: a file that was written  *)
(* is that of the last dirty slot with its network.                        *)
Written(n, stop) ==
  {s \in Slots : s < stop /\ Dirty(s) /\ addrTable[s].network = n}

FilesAt(stop) ==
  [n \in Networks |->
     IF Written(n, stop) = {} THEN disk[n]
     ELSE Contents(xms, addrTable[Highest(Written(n, stop))].hostTable)]

(* Mutant: dirty is cleared before the file is complete.                   *)
CleanedEarly(stop) ==
  [s \in Slots |-> IF s <= stop THEN [addrTable[s] EXCEPT !.dirty = FALSE]
                                ELSE addrTable[s]]

Cleaned(stop) ==
  [s \in Slots |-> IF s < stop THEN [addrTable[s] EXCEPT !.dirty = FALSE]
                               ELSE addrTable[s]]

Write ==
  /\ pc = "main"
  /\ disk' = FilesAt(MaxNumNetworks)
  /\ addrTable' = Cleaned(MaxNumNetworks)
  /\ UNCHANGED <<newAddrTable, networkCache, xms, pc>>

(* The file of slot stop cannot be opened, or it cannot be written after   *)
(* its first cut blocks.  The handler returns.                             *)
WriteFails(stop, cut) ==
  /\ pc = "main"
  /\ Dirty(stop)
  /\ disk' \in {FilesAt(stop), WriteFile(FilesAt(stop), stop, cut)}
  /\ addrTable' = Cleaned(stop)
  /\ UNCHANGED <<newAddrTable, networkCache, xms, pc>>

-----------------------------------------------------------------------------
(* The machine stops, and all but the disk is lost.                        *)
Crash ==
  /\ addrTable' = [s \in Slots |-> EmptyEntry]
  /\ newAddrTable' = [s \in NewSlots |-> NoEntry]
  /\ networkCache' = Flushed
  /\ xms' = [h \in Handles |-> Free]
  /\ pc' = "down"
  /\ UNCHANGED disk

(* initNetworks.  Files come in the order of the directory.  What a file   *)
(* lacks stays what the buffer held.                                       *)
Files == {n \in Networks : disk[n] # NoFile}

(* The table when the files of a sequence were inserted, with handles h.   *)
Inserted(order, h) ==
  LET table[k \in 0 .. Len(order)] ==
        IF k = 0 THEN addrTable
        ELSE [table[k - 1] EXCEPT ![Probe(table[k - 1], order[k])] =
                [network |-> order[k], dirty |-> FALSE,
                 hostTable |-> h[order[k]]]]
  IN  table[Len(order)]

Boot ==
  /\ pc = "down"
  /\ Cardinality(Files) <= MaxNumNetworks
  /\ \E order \in SetToSeqs(Files), h \in Injection(Files, Handles) :
       /\ addrTable' = Inserted(order, h)
       /\ xms' = [k \in Handles |-> IF \E n \in Files : h[n] = k
                    THEN disk[CHOOSE n \in Files : h[n] = k] ELSE Free]
  /\ pc' = "main"
  /\ UNCHANGED <<newAddrTable, networkCache, disk>>

(* More files than slots, or too little memory: initNetworks exits.        *)
BootExits ==
  /\ pc = "down"
  /\ Files # {}
  /\ pc' = "exited"
  /\ UNCHANGED <<addrTable, newAddrTable, networkCache, xms, disk>>

-----------------------------------------------------------------------------
Next ==
  \/ \E n \in Networks :
       \/ \E b \in Blocks : Lookup(n, b)
       \/ \E begin \in BOOLEAN : LoadRefused(n, begin)
       \/ LoadNoMemory(n)
       \/ \E b \in Blocks, v \in Indices, begin, end \in BOOLEAN :
            Load(n, b, v, begin, end)
       \/ Release(n) \/ ReleaseUnknown(n) \/ ReleaseHangs(n)
  \/ Write
  \/ \E stop \in Slots, cut \in 0 .. NumBlocks : WriteFails(stop, cut)
  \/ Crash \/ Boot \/ BootExits

Spec == Init /\ [][Next]_vars

-----------------------------------------------------------------------------
(* Type invariant: a slot without a network is all zero, one of the new    *)
(* networks array has a table as long as it has a network.                 *)
(* What a slot that is taken holds.                                        *)
Entry    == [network : Networks, dirty : BOOLEAN,
             hostTable : Handles \cup {NoHandle}]
NewEntry == [network : Networks, hostTable : Handles]

TypeOK ==
  /\ addrTable \in [Slots -> {EmptyEntry} \cup Entry]
  /\ newAddrTable \in [NewSlots -> {NoEntry} \cup NewEntry]
  /\ networkCache \in [Ways -> [tag : {<<>>} \cup (Networks \X Blocks),
                                value : Indices \cup {Junk}]]
  /\ xms \in [Handles -> HostTable \cup {Free}]
  /\ disk \in [Networks -> HostTable \cup {NoFile}]
  /\ pc \in {"main", "hung", "down", "exited"}

(* Extended memory is neither lost nor shared: unless the program is done  *)
(* for, each block that is allocated is the host table of exactly one slot *)
(* of the two arrays, and no slot refers to a block that was freed.  Every *)
(* path of handleLoad and handleRelease moves or frees a handle by hand.   *)
Owners(h) ==
  {<<0, s>> : s \in {t \in Slots : addrTable[t].hostTable = h}} \cup
  {<<1, s>> : s \in {t \in NewSlots : newAddrTable[t].hostTable = h}}

BlocksOwned ==
  pc = "main" =>
    \A h \in Handles : Cardinality(Owners(h)) = IF xms[h] = Free THEN 0 ELSE 1

(* What the cache answers is what a fetch would answer now: a table that   *)
(* is replaced, released or evicted leaves nothing behind in the cache     *)
(* (networkCacheFlush after each change of the hash table).                *)
CacheCoherent ==
  pc = "main" =>
    \A n \in Networks, b \in Blocks : \A w \in Hits(n, b) :
      /\ Found(addrTable, n)
      /\ networkCache[w].value =
           Contents(xms, addrTable[Probe(addrTable, n)].hostTable)[b]

(* Each network in the hash table is where a probe looks for it, and only  *)
(* there: handleLoad, networkCacheFetch and initNetworks all "hash into    *)
(* the table and see if the network has been defined" (MANAGE.C:599).      *)
Findable ==
  pc = "main" =>
    \A s \in Slots : addrTable[s].network # NoNetwork =>
      Found(addrTable, addrTable[s].network)
      /\ Probe(addrTable, addrTable[s].network) = s

(* "dirty" says which tables are "not saved" (MANAGE.C:633): the file of a *)
(* table that is not dirty holds the same table, so that a restart brings  *)
(* back what was acknowledged, after writes that failed in the middle too. *)
Persisted ==
  pc = "main" =>
    \A s \in Slots :
      addrTable[s].network # NoNetwork /\ ~addrTable[s].dirty
      /\ addrTable[s].hostTable # NoHandle =>
        disk[addrTable[s].network] = xms[addrTable[s].hostTable]
=============================================================================
