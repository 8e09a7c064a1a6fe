# A TLA+ model of the DOS packet capture and bridge code

This directory holds specifications, model-checking configurations and
machine-checked proofs for the code of pcap-msdos: the receive path under
libpcap for DOS (`pktdrvr.c`, `pkt_rx0.asm`, `pkt_rx1.s`) and the filtering
bridge in `NDIS/`. The repository's `pm_drvr/`, which is 95 % of its lines, is a
port of Linux network drivers and is not modelled.

Paths below are relative to `src/`.

## 1. Inventory

### 1.1 Receive path of the packet driver interface

*State.* `pktRxBuf`, a ring of `NUM_RX_BUF` slots of type `RX_ELEMENT`;
`rxInOfs` and `rxOutOfs`, byte offsets of slots; `pktDrop`, 32 bits kept in two
words. They live in real-mode memory inside the receiver stub (`pkt_rx0.asm` for
Phar Lap and real mode, `pkt_rx1.s`, assembled into `pkt_stub.inc`, for DJGPP and
DOS4GW).

*Operations.* `PktReceiver`, called by the resident packet driver from its
interrupt handler twice per packet: with AX=0 it hands out a slot or refuses the
packet, with AX=1 it publishes the slot. `PktReceive`, `PktQueueBusy`,
`PktBuffersUsed` and `PktRxDropped` (`pktdrvr.c:774-1004`), each in four versions
that differ in how they reach the stub's memory and in whether they switch
interrupts off.

*Hard.* A single-producer single-consumer queue without a lock, with steps of
the two sides interleaved at any statement; a driver that lets the application
run between its two upcalls; closing and reopening the queue while a packet is
being delivered; builds that wrap the offset at different moments; the carry of
the drop counter.

*Correct means:* slots never shared, packets read once, in order and unmixed,
refused only when full or closed, and counted then.

### 1.2 Control calls of the packet driver interface

`PktInitDriver`, `PktExitDriver`, `PktSetAccess`, `PktTransmit`, statistics
(`pktdrvr.c`): sequences of software interrupts and DPMI calls with early
returns that have to undo what came before. State: `pktInfo` with the handle,
the receive mode, the DOS memory block. Hard: partial failure, and memory given
back while the driver may still call into it (`PktFreeMem`, line 1009).

### 1.3 Event scheduler of the bridge program (`NDIS/MAIN.C`)

*State.* `events`, `nextEvent` (0 = none), `startTime`, `days`, `lastMyTime`;
times are BIOS ticks since midnight. *Operations.* `addScheduledEvent`;
`checkMisc`, called in each round of the main loop, which notices midnight,
retimes the table and runs the callbacks that are due; `handleReboot`
(`MANAGE.C`), which adds an event when a manager asks for it. *Hard.* The clock
runs and wraps between any two statements; times are relative to a midnight the
loop learns of late; callbacks add their own event again while the table is
walked. *Correct means:* periodic events stay armed exactly once and are served
within a bounded time, for ever; the uptime is right.

### 1.4 ARP table (`NDIS/IP.C`)

*State.* `arpTable` with states free, pending, valid, a timer, a retry count and
one packet that waits. *Operations.* `sendvIp`, `handleArp` for requests and
replies, `arpCallBack` once a second. *Hard.* Memory of the waiting packet is
freed in four places and never cleared; slots are used again; answers race
timeouts; addresses in two byte orders. *Correct means:* packets neither leaked
nor freed twice; an address has one entry; no packet waits for ever.

### 1.5 Packet buffers and the forwarding loop (`NDIS/QUEUE.C`, `FILTER.C`, `IP.C`)

*State.* The stack of free buffers; per card a receive queue, a management queue
and `sendsPending`; the queue of the local protocol stack. *Operations.*
`allocPktBuf`, `allocPktBufMgmt`, `freePktBuf`, `enqueuePktBuf`,
`dequeuePktBuf`, under `GUARD`/`UNGUARD`; `checkCards`, `checkIp`,
`sendvRawMac`; the callbacks of the NDIS drivers, which interrupt the loop
anywhere else. *Hard.* Values tested in one guarded section and used in a later
one; a reserve of the pool; two directions that wait for each other in the order
of arrival. *Correct means:* buffers conserved, the reserve kept, no driver
overrun, no mutual waiting.

### 1.6 Network tables (`NDIS/FILTER.C`, `MANAGE.C`, `XMS.C`)

*State.* `addrTable`, an open-addressed hash table of 32 networks, each with a
host table in extended memory that maps hosts to access lists; `newAddrTable`,
8 networks that are being loaded; a cache of single entries; one file per
network. *Operations.* Lookup through the cache; load in blocks with BEGIN and
END, release, write (management requests); `initNetworks` at the start. *Hard.*
Deleting from an open-addressed table; a full table; handles moved by hand
between the arrays; a cache that must be flushed; writes that fail in the middle
and restarts. *Correct means:* memory owned once, cache and files in step with
the table, every network found.

### 1.7 Learning bridge (`NDIS/BRIDGE.C`)

*State.* `hashTable`, 8192 slots of an open-addressed table that maps a hardware
address to the card it was heard on. Nothing is ever removed. *Operations.*
`bridge`, called by the interrupt of a card for each frame: is the destination on
this side, and where is the sender? `bridgeLookUp`, called by the main loop.
*Hard.* One card's interrupt interrupts another's in the middle of `bridge`; only
the two stores are guarded, not the probe before them, and an address is compared
in three words. *Correct means:* an address that is known stays known, is on the
card that heard it last, and frames are held back for no other reason.

### 1.8 Management protocol (`NDIS/MANAGE.C`, `POTP.C`)

*State.* The password and its file, one session key for all managers,
`rebootRequested`. *Operations.* `filtMessage`, the dispatcher, which deciphers and
checks a packet; `handleSync`, which makes a key of two random halves;
`handleNewkey`, `handleReboot`, and the handlers of 1.6 and 1.9; `deliverPacket`.
*Hard.* A stream cipher without sequence numbers over UDP: each packet lost,
doubled or overtaken puts the two ends at different places of the stream;
several managers with one key; errors are not enciphered, and some are followed
by an answer; restarts forget the key, also in the middle of writing the file. *Correct means:* no command is run twice, an answer is of the command it is
taken for, what a manager was told is in the file, the ends find together again.

### 1.9 Access lists, reject and allow tables (`NDIS/FILTER.C`, `MANAGE.C`)

*State.* `rejectTable`, `allowTable`, and 256 access lists in each of `in`, `out`,
`source` and `udp`; four buffers in extended memory that a load fills; three dirty
flags and files. *Operations.* Load (the access lists in as many packets as
lists, with BEGIN and END), release, write, and `initMemory`, `initTables` at the
start. *Hard.* Buffers that belong to no manager in particular; packets that
come again after END; writes cut off in the middle. *Correct means:* a load is
installed whole or not at all, what was saved comes back.

### 1.10 The rest

| Part | Where | State and hard behaviour |
|---|---|---|
| Checks of a packet against the rules | `FILTER.C:66-800` | none; matching of ranges and masks |
| Bit generator of the cipher | `POTP.C` | three shift registers of 32 bits |
| Statistics, syslog | `STAT.C`, `SYSLOG.C` | output only |
| NDIS 2 binding | `ndis2.c`, `ndis_0.asm` | a pool of stacks, one transmission at a time; unfinished |
| Time of day | `gettod.c` | floating-point calibration |
| DOS layer under the drivers | `pm_drvr/irq.c`, `timer.c`, `dma.c`, `lock.c` | interrupt dispatch |
| Linux drivers | the rest of `pm_drvr/` | vendored |

`NDIS.C`, `misc.asm`, `db.h` and `pcap-dos.c` are used by the code and not in the
tree. What they do is modelled from their use and marked external.

### 1.11 How the parts interact

The resident packet driver calls `PktReceiver` by interrupt; libpcap polls
`PktReceive`. In the bridge program one main loop (`MAIN.C:313-327`) runs
`checkCards`, `checkIp` and `checkMisc` in turn; driver callbacks interrupt it
and share the pool, the queues, `sendsPending` and the bridge's hash table with
it. `checkIp` hands packets to ARP, UDP and management; these queue answers on
the management queues of the cards. `checkMisc` runs the ARP timer. A filtered
packet is judged through the network tables and the access lists. `filtMessage`
is called by `checkIp`, so that a management request is handled between two
rounds of everything else; the bridge answers `sendvIp`'s question on which card
an address is.

## 2. Modules

| Module | Models | Composes |
|---|---|---|
| `PktFifo` | abstract specification: a bounded FIFO that can be closed and counts what it refuses | |
| `PktRing` | 1.1, four builds | instantiates `PktFifo` under a refinement mapping |
| `PktRingProofs` | theorems about every build, and about the guarded ones: the refinement | extends `PktRing` |
| `EventQueue` | 1.3 with the BIOS clock and the reboot request | |
| `ArpTable` | 1.4 | |
| `BufPool` | 1.5: main loop, driver callbacks, management stack | |
| `NetTable` | 1.6 with requests, the extended-memory manager, files, restarts | |
| `BridgeTable` | 1.7: nested interrupts and the main loop | |
| `Session` | 1.8: the bridge, managers, the network between them | |
| `AccessList` | 1.9 with files and restarts | |
| `EventQueueProofs`, `ArpTableProofs`, `BufPoolProofs`, `NetTableProofs`, `BridgeTableProofs`, `SessionProofs`, `AccessListProofs` | the theorems about these modules | each extends its module |
| `MC*` | instances for TLC | |

### PktRing

An offset is the number of a slot. `FirstUpcall`, `FirstUpcallTooBig`,
`FirstUpcallDrop` and `SecondUpcall`, `SecondUpcallNil` are the paths of
`PktReceiver`, each atomic since it runs with interrupts off; `DriverCopy` is
the driver's copy in between. `PktReceive` is a chain of actions, `ReceiveBegin`,
`ReceiveCheck`, `ReceiveCopy`, `ReceiveAdvance`, `ReceiveWrap`: one for each
access to memory that an interrupt may see. `Target` selects the build:
`QueueBusyGuarded` is the version of DJGPP and DOS4GW with interrupts off,
`QueueBusyRead`, `QueueBusyStore`, `QueueBusyWrap`, `QueueBusyClear` the one of
Phar Lap and real mode, statement by statement. `CarryingDrop` tells the two
stubs apart, `LocalOffset` the builds that compute the wrapped offset before
they store it. `SplitUpcalls` is a driver that lets the application run between
its two upcalls. Truncation to the caller's `max` is abstracted, statistics and
error strings are left out, and an application does not call `PktReceive` while
it has the queue busy (the caller, `pcap-dos.c`, is not in the tree).

### EventQueue

`Tick` is the BIOS clock, `CheckMisc` one sample of it with everything up to the
walk of the table, `FirePeriodic`, `FireReboot` and `SkipSlot` one slot each,
`CheckMiscEnd` the new `nextEvent`. `HandleReboot` comes between two rounds, since
`checkIp` runs there. `lag`, `age` and `elapsed` are bookkeeping for the
properties and for the bound `MaxLag` on the ticks between two samples. The key
`$`, which exits, and the keys that print statistics are left out.

### ArpTable

`SendvIp`, `HandleArp` and `ArpCallBack` are whole handlers; their paths are
named. An address is a pair, and `SwapAddr` reverses it: whether an address reads
the same in both orders decides what lookups find. Packets are blocks of memory,
`heap` those allocated. `exited` is the program's `exit(1)` when a station is not
in the bridge's table. Building frames and a failing `farmalloc` are left out.

### BufPool

The main loop's `pc` goes through `checkCard` for each direction (`MgmtTest`,
`OrderTest`, `RoomTest`, `JudgeLocal`/`JudgeForward`/`JudgeFilter`), `checkIp` and
`checkMisc`; each guarded section is one action, and the driver's callbacks
(`ReceiveLookahead`, `ReceiveEnqueue`, `ReceiveFailed`, `TransmitConfirm`) come
between any two. What the filter decides about a packet is a free choice.
Packets of one card are queued in the order of their lookaheads, as
`QUEUE.C:60` says. `allocPktBufMgmt` and the enqueue in `sendvRawMac` are one
step: the buffer is in nobody else's reach in between.

### NetTable

`Lookup` is a packet's or a query's way through the cache; `Load` one block,
with the flags as in the request and, at END, `Install`; `Release` and
`ReleaseHangs` the two outcomes of the shuffle; `Write` and `WriteFails` the loop
over the dirty tables, up to any block of any table. `handleWrite` is one step
because nothing but a crash can see it half done, and a crash erases all but the
disk: it is `WriteFails` and then `Crash`. `Boot` is `initNetworks` with the files
in any order. `Junk` is what memory nobody wrote to holds: a new host table,
which the comment at `MANAGE.C:554` says is cleared and the code does not clear,
the missing part of a file, and conventional memory read through handle 0. A
file is created with its header in one step. One set of the cache is modelled,
its replacement is a free choice. The three loops over the table are written as
what they leave: `Shuffle` and `Inserted` are recursive functions of the number of
rounds, `FilesAt` gives each file the table of the last dirty slot with its network.

### BridgeTable

`stack` is the nest of interrupts; the last one runs. `Interrupt` enters `bridge`,
`Compare` compares one word, `DestValid`, `DestBoard`, `SourceValid` are the
statements that read a slot, `Insert` and `Update` the two sections between `GUARD`
and `UNGUARD`; any other card's interrupt may come between two of them. `LookUp` is
the guarded probe of `bridgeLookUp`, `LookUpReturn` its read of the board. A lookup is
for a sender that has been heard, as in `IP.C`; when it is not found the program
exits. A card does not interrupt itself, and the main loop does not run while an
interrupt does. The place of the addresses in the frame, and token ring, which
exits, are left out.

The table may forget a station that was being inserted when another one took
the slot: `KnownStays` and `UndisturbedLearns` say just how much of the comment "we
never modify any existing entry" (`BRIDGE.C:77`) is true. And a comparison that
is interrupted after a word that is 0 in both a free slot and the address asked
for may take the address inserted meanwhile for it: `Alike` are the pairs this can
happen to, for which `BoardIsCurrent` and `FilterJustified` do not hold.

### Session

A key is the set of the halves it was made of with a position in its stream;
two packets decipher each other when both are equal. `Ignored`, `WrongMode`,
`LostSync`, `handleSync`, `handleQuery`, `QueryFails`, `QueryFailsAndGoesOn`, `Eaten`,
`handleReboot`, `handleNewkey` and `NewkeyUnopened` are the ways through `filtMessage`;
answers go out through `deliverPacket` (`Outgoing`, `Deliver`), which enciphers one if
the session key is valid *at that moment*: SYNCACK goes out in the old key if
there is one, and its receiver makes a key of it that the bridge does not have
(`Garbage`). `handleQuery` and `QueryFails` stand for all commands that have no part in
the session. Two of these send their error and then go on to the answer: a
network loaded into a full table (`MANAGE.C:615` and 650) and statistics of an unknown
type (1310 and 1314); the bridge is then one position ahead of a manager that took the
error (`QueryFailsAndGoesOn`). A packet of unknown type is deciphered and not
answered (`Eaten`). A packet takes one position of the stream, whatever its length;
random halves differ from those still in use; a check sum that is right by
chance is left out.

NEWKEY takes two steps: `handleNewkey` up to `fopen`, which truncates the file, and
`newkeyEnds`, the rest; the machine may lose its power in between and then has an
empty file and no password. The rest fails (`NewkeyUnwritten`), or writes, answers and
loads the password (`NewkeyWritten`), with a file that `fclose` left empty, or a
password that is another one in the file, in memory or in both, since it came
without a terminator (`MANAGE.C:283`). Passwords are names: a half that was
enciphered with one and deciphered with another is `Garbage`, so that a manager
whose password another manager has replaced gets no session any more.

The managers' program is not in the repository. They are modelled as what the
code expects of them: one command at a time, SYNC before the first one, and
starting over after LOSTSYNC, a wrong mode or silence. `Receive` and `filtMessage` take
the oldest packet, or by a fault a later one, or one without removing it; `Lose`
loses one; `Timeout` may come too early. `PowerFail` and `reboot` restart the bridge with
the password file as it is. A manager that was told that its new password is
taken uses it from then on.

Five variables or fields are history: `ran`, the places of the streams of which the
bridge took a command; `newest` and `spoilt`, who waits for the answer to the last
NEWKEY and whether it left something else in the file; `misled` and `owed`, whether
a manager took an error for the answer to another command, and whether an answer
followed the error it took last.

### AccessList

What a list says is abstracted to the manager whose load it came from, which is
enough to tell whether a load was installed whole. `LoadBegin`, `LoadNext` and `LoadAgain`
are the packets of a load (`handleLoad` with the flags), each of them for every list
number; `LoadNoMemory` an allocation that fails after the first, second or third
buffer; `LoadTable` the loads of the two small tables. `wild` becomes true when a
packet finds a buffer with handle 0, which is conventional memory to the
extended-memory driver: the model stops. `handleWrite` and `WriteFails` write the
three files in their order, the latter up to any cell of any of them; a file is
not truncated before. `handleRelease` empties a table and removes its file.
`PowerFail` is a restart, at rest or after a part of a write.

## 3. Runs

| Run | Asks | Instance |
|---|---|---|
| `ring_fifo` | Does the DJGPP ring implement `PktFifo`, with reads, closing and opening in any order, does it count each packet it drops, and does it drain? | 3 slots, two handles, two lengths (one too long), one content; counter of two one-bit words |
| `ring_realmode` | Are slots apart where the offset leaves the ring for a moment and closing races with interrupts? | real mode, 3 slots |
| `ring_lap` (violation) | Does that moment lose packets? | real mode |
| `events` | Is no event lost, doubled or late, across midnights? | a day of 8 ticks, delays of 2, 4 slots, 2 ticks between samples |
| `events_stall` (violation) | Does a reboot request keep `nextEvent`? | the same, 3 ticks |
| `arp` | Who owns a waiting packet, and how long does it wait? | 2 entries, 3 addresses, one the same in both orders |
| `pool` | Are buffers conserved, the reserve kept, drivers not overrun, and do queues empty? | 4 buffers, reserve 1, both cards listening, 2 sends, a burst of 1 |
| `nettable` | Do memory, cache, table and files stay in step? | 4 networks of one hash, 3 slots, 1 new slot, 4 handles |
| `nettable_hole` (violation) | And with two hashes? | 3 networks, 4 slots |
| `bridge` | Does the table learn, keep and update stations while interrupts nest? | 2 cards, 3 stations in 2 slots, addresses of 2 words, one of them with a 0 |
| `session` | Do commands run once, is what was acknowledged so, and does a manager get through? | 2 managers, one of which never gives up, 2 passwords; 1 and 1 commands with 1 fault, 2 and 1 with none, 2 and 0 with 1 |
| `access` | Are loads whole, and do clean tables survive a restart? | 2 managers, 2 lists, 4 commands, 2 faults |

*Why the bounds are enough.* Three slots make the ring empty, partly full, full
and wrapped; two are the least that works, and with three the slot being
written, the one being read and the free one differ. Two one-bit words carry
and wrap the counter within four drops. A day of 8 ticks and delays of 2 put
samples, deadlines and midnight in every order; `MaxLag` excludes a whole day
between two samples, which the loop takes many times a second. Two ARP entries
fill the table and let one slot be used again while another waits; a retry
limit of 1 and timeouts of 2 and 3 reach a retry, the give-up and the
expiry. Four buffers with a reserve of one exhaust the pool for received packets
while management still takes one. Four networks in three slots reach the full
table, the eviction there, and more files than slots at a restart. One block per
table is a limit of this instance: a write can be cut off before the block or
after it, but a table half loaded, or a file half new and half old, needs two
blocks, which the module has and this run has not. The table is checked with one hash because with two it does not hold: that is what
`nettable_hole` shows. In a table of one hash no probe passes a vacant slot.

In `bridge` three stations in two slots fill the table, collide, wrap around and
turn one away; two words are the least between which an interrupt can come, and
two cards nest to the only depth the two cards of the machine allow
(`MAIN.C` has `campus` and `internet`). With a third card `BoardIsCurrent` would not hold:
one call finds a slot free and is interrupted before it inserts, two more fill
that slot and overwrite it, and an older entry of the same station farther on
comes to light, with a card that is out of date; the theorems that need two cards
say so. In `session`
the one fault may be any of those listed, at any place: a packet lost, doubled,
overtaken or of no known type, an early timeout, a restart, a disk error, a password
without a terminator; two managers make the session void for each other, and
replace each other's password, without any fault. The three plans are each other's
complement: a fault between two managers, two commands of one manager between which
another comes, and two commands of one manager with a fault. All of it at once,
2 and 1 commands with a fault, has more than five million states and is left to the
proofs, which need no bound. In `access` two
lists are needed for a load of several packets, two managers for loads that
overlap, and two faults for, say, a failed allocation and a restart.

A run lists the properties that could be wrong. The type invariants of
`ArpTable`, `BufPool` and `NetTable` are there for proofs and are not listed.

`CHECK_DEADLOCK FALSE` stands where the system ends or the bounds of commands and
faults are used up: after the reboot, after `exit(1)`, in the endless loop of
`ReleaseHangs`, when `wild`, and when every manager is done.

Symmetry is used in `nettable` (handles, access lists, networks of one hash),
`bridge` (cards) and `access` (managers), whose properties are invariants and
properties of single steps.

### What the violations show

* `ring_lap`: real-mode `PktReceive` (`pktdrvr.c:975`) adds to `rxOutOfs` and wraps
  it in a later statement. An interrupt between them compares with an offset one
  past the ring, finds a full ring not full, and overwrites unread packets.
* `events_stall`: events due just before midnight are retimed to 0;
  `addScheduledEvent`, called before they are served, stores that 0 in
  `nextEvent`, where it means that nothing is pending (`MAIN.C:132`).
* `nettable_hole`: the shuffle in `handleRelease` (`MANAGE.C:1117`) moves only
  entries of one hash. An entry of another hash behind the slot it vacates is
  lost to probes: its hosts fall back to access list 0, and loading the network
  again makes a second entry.

### Other disagreements between code and text

These were met while modelling and are not runs of their own.

* `pkt_rx0.asm:161`: `INC` does not set the carry that `ADC` adds, so the high word of
  `pktDrop` stays 0 (`CarryingDrop` in `PktRing`).
* `IP.C:561` adds the sender of an ARP request in network order, which no lookup
  finds, so that "No entry for this guy yet" (551) is true of every request and
  the table fills with copies.
* `BRIDGE.C:77`, "we never modify any existing entry": two interrupts that find the
  same slot free both write it, and the second one overwrites the first.
* `MANAGE.C:765`, "The tables will have always been allocated": not after a restart in
  the middle of a load, nor when the packet with END comes twice.
* `MANAGE.C:1209` lets the UDP list begin at 0, `FILTER.C:1050` at 1. A range that
  begins at 0 ends a list, so that after a release all UDP ports above 68 are
  refused until the next start; and since the list is no longer dirty a restart
  changes it. `RestartKeeps` excepts this list.
* `MANAGE.C:1174` answers the release of the reject table with RELEASE instead of
  RELEASEACK.
* An ERROR packet is neither enciphered nor numbered, so that a copy of one is
  taken for the answer to a later command, which has been run all the same:
  "used to detect an invalid packet in the case of a dropped or spoofed packet"
  (`MANAGE.C:1326`) does not extend to these. `PositionsAgree` excepts a manager
  misled in this way until its next SYNC.
* `MANAGE.C:615` and 1310 send an error and go on to the answer (650, 1314). The
  manager takes the error; the answer, for which nobody waits, has advanced the
  bridge's key, so that the next command of that manager fails and it must start
  over. `PositionsAgree` states this as one position of difference (`owed`).
* A power cut while the password file is open (`MANAGE.C:120` to 137) leaves it empty:
  the machine that was secured starts in insecure mode, and the old password is
  gone. Nobody has been told by then that there is a new one, which is all that
  `NewkeyLasts` can say. What `fclose` loses without a word is worse, the manager has
  been told; the property excepts it.
* After handleReboot the bridge answers nobody (`MANAGE.C:1340`) until the event it
  added is served, which may be never: `addScheduledEvent` may have no room and its
  result is not looked at (273), or `nextEvent` is left at 0 (`events_stall`).

## 4. Fairness

* `PktRing`: weak fairness of the upcalls that have begun (an interrupt handler
  ends) and strong fairness of the polling application: interrupts disable it
  again and again, and never take the processor for ever.
* `EventQueue`: weak fairness of the clock and of the main loop, which never
  waits for anything.
* `ArpTable`: weak fairness of `ArpCallBack`, the periodic event that the
  scheduler's `PeriodicServed` is about.
* `BufPool`: weak fairness of the main loop, and of a driver finishing a receive
  or a transmission it has begun. No fairness of traffic.
* `Session`: weak fairness of each manager and of `filtMessage` for each socket, which
  the main loop polls, and of `newkeyEnds`, since a handler that has begun ends. A
  manager's step may be a timeout, so fairness forces nothing but that it does not
  wait for ever; packets that are not lost arrive. Nothing is assumed of `reboot`,
  which the scheduler may never serve. Faults are bounded, and only one manager
  never gives up: two that do, each of whose SYNC makes the other's session void,
  can keep each other from being served for ever, and nothing in the code prevents
  it. `Served` has three premises, each of which the code does not provide: the
  machine does not ignore managers for ever after a request to reboot; in the end
  the manager knows the bridge's password, which another manager's NEWKEY, or one
  without a terminator, may have replaced; and now and then no packet of the manager is
  on its way. Without the last, a manager that starts over at once may take the
  SYNCACK to its last SYNC for the one to the next, and so on for ever, since
  SYNCACK does not say which SYNC it answers.
* `NetTable`, `BridgeTable`, `AccessList`: none.

## 5. Proofs

Each theorem is about all values of the constants that satisfy the assumptions
named in the module of its component; a hypothesis beyond those is in the last
column.

| Module | Theorem | Says | Under |
|---|---|---|---|
| `PktRingProofs` | `RingInvariant` | `[]RingInv` | `NoOverrun`: upcalls not split, or a guarded build |
| | `SlotConflictFree` | `[]NoSlotConflict` | the same |
| | `FifoInvariant` | `[](RingInv /\ FifoInv)` | `GuardedTarget`: upcalls not split, a guarded build |
| | `BusyRingRefuses` | `BusyRefuses` | the same |
| | `RingImplementsFifo` | `FifoSpec`, that is `PktFifo!Spec` under the mapping | the same |
| | `DropsAreCounted` | `DropCounted` | the same |
| | `UpcallsAppend` | `UpcallAppends` | `GuardedBusy`: a guarded build, upcalls split or not |
| `EventQueueProofs` | `SchedulerTypeCorrect` | `[]TypeOK` | |
| | `AlwaysArmed` | `[]PeriodicArmed` | |
| | `NextEventAlwaysKept` | `[]NextEventKept` | |
| | `NoEventLate` | `[]NeverLate` | |
| | `UptimeAlwaysExact` | `[]UptimeExact` | |
| `ArpTableProofs` | `ArpTypeCorrect` | `[]TypeOK` | |
| | `PacketsAlwaysOwned` | `[]PacketsOwned` | |
| | `OneAlwaysPending` | `[]OnePending` | |
| `BufPoolProofs` | `BuffersAlwaysConserved` | `[]BuffersConserved` | |
| | `ReserveAlwaysKept` | `[]ReserveKept` | |
| | `SendsAlwaysCounted` | `[]SendsCounted` | |
| `NetTableProofs` | `NetTypeCorrect` | `[]TypeOK` | |
| | `BlocksAlwaysOwned` | `[]BlocksOwned` | |
| | `CacheAlwaysCoherent` | `[]CacheCoherent` | |
| | `AlwaysFindable` | `[]Findable` | `[]Separate` |
| | `AlwaysPersisted` | `[]Persisted` | `[]Findable` |
| | `OneHashSound` | `[](Findable /\ Persisted)` | `OneHash`: all networks have one hash |
| `BridgeTableProofs` | `TableTypeCorrect` | `[]TypeOK` | |
| | `ChainsNeverBroken` | `[]ChainsUnbroken` | |
| | `KnownAlwaysStays` | `[]KnownStays` | |
| | `UndisturbedAlwaysLearns` | `UndisturbedLearns` | |
| | `BoardsAlwaysRight` | `[]BoardInv` | `TwoCards` |
| | `BoardAlwaysCurrent` | `[]BoardIsCurrent` | `TwoCards` |
| | `FilterAlwaysJustified` | `FilterJustified` | `TwoCards` |
| `SessionProofs` | `SessionTypeCorrect` | `[]TypeOK` | `[]FreshHalf` |
| | `NeverReplayed` | `[]NoReplay` | `[]FreshHalf` |
| | `AlwaysInStep` | `[]PositionsAgree` | `[]FreshHalf` |
| | `AcksAlwaysMeanRan` | `AckMeansRan` | `[]FreshHalf` |
| | `NewkeyAlwaysLasts` | `NewkeyLasts` | `[]FreshHalf` |
| | `FreshAlways` | `[]FreshHalf` | finitely many managers, infinitely many halves |
| `AccessListProofs` | `AccessTypeCorrect` | `[]TypeOK` | |
| | `RestartAlwaysKeeps` | `[]RestartKeeps` | |
| | `MixedAlwaysFromFile` | `[]MixedFromFile` | |
| | `UndisturbedAlwaysLoads` | `UndisturbedLoads` | |

In each module `IInv` is the inductive invariant (`RingInv` and `FifoInv` in `PktRingProofs`),
there is a lemma for the steps of each action, and the theorems follow from `[]IInv`.
All conjuncts of each `IInv` were model-checked on the instance of the component's
run before they were proved.

**The ring.** `NoSlotConflict` is not inductive: that the driver writes the
slot `rxInOfs` and the application reads the slot `rxOutOfs` has to be known, that
these two differ while one is read, and that the slot the driver will move on to
is not the one being read. `RingInv` adds just that (`OffsetsInv`, `UpcallInv`).
In the real-mode build `rxOutOfs` may lie one past the ring, which is why the
first conjunct of `OffsetsInv` depends on `pc`.

For the refinement the queue is `Window`, the packets from `rxOutOfs` to
`rxInOfs`, as a sequence, or empty while the ring is busy. `FifoInv` adds that a
busy ring looks full (so that it refuses), that the slot being filled holds the
frame that was announced, and that `okay` still judges the slot it was computed
from. The lemmas `WindowFrame`, `WindowAppend` and `WindowTail` say what writing
the slot `rxInOfs`, moving `rxInOfs` and moving `rxOutOfs` do to that sequence; each
step of the ring then maps to a step of `PktFifo` or a stutter. `UpcallsAppend` needs
less than `FifoInv`: the part of it about the slot being filled (`PktInv`), which
only the steps of the driver can disturb, with `RingInv`.

**The scheduler.** Deadlines are taken back by a day at midnight, so nothing can be
compared with the clock itself. `Unwrapped` is the clock as it would be without
midnight, and `ClockInv` ties the two together; `UptimeInv` gives the days, the last
sample and the ticks since it as the ticks that have passed, but for whole
rounds of the day counter. `KeptInv` and `LateInv` split the table while the firing
loop is in it: slots that were `Settled` have deadlines in the future, the others
may be late by what one more round allows. `LateInv` holds until a reboot is asked
for, the case of `events_stall`.

**ARP.** The heap is exactly the packets of the pending entries, no two of them the
same; that a used entry has time left is needed so that no time passes below 0.

**The pool.** "In one place" is three facts, because a queue may hold a buffer twice
(`OnceEach`), two places the same one (`Apart`), or none may hold it (`Kept`). `LoopInv` is
what the main loop relies on across interrupts: what it tested is still so,
since callbacks only lengthen queues and only lower `sendsPending`. `MgmtInv` says
where the buffers of the management stack are while they count for it.

**The network tables.** `MemoryOwned` states the ownership of handles without
counting them: no handle in two slots, and the handles in slots are those
allocated. `Allocate`, `FreeNew`, `Overwrite`, `FreeOld` and `Move` say what the
five things the code does with a handle do to it; the shuffle is a permutation
of the slots (`ShuffleIs`) and moves handles only. This and `CacheCoherent` need no
hypothesis: they hold when a hole has hidden a network and doubled it.

The other two do need one, as `nettable_hole` shows. `Separate` says that a release
finds only entries with the hash of its network between that hash and the next
vacant slot: just what the test in the loop (`MANAGE.C:1121`) takes for granted. Then
`Chain` is kept, that no slot between the hash of a network and its slot is
vacant or holds the same network: the slot given up last lies before the vacant
slot that ended the loop, so that no other chain goes through it. `Chain` is
`Findable` put as a fact about slots (`ChainIsProbe`). `Persisted` rests on `Findable` alone: with
one slot for each network, a file has one table that can be written to it, and
removing it concerns one entry. Networks of one hash are always `Separate`
(`OneHashSound`), which is what the run `nettable` checks on its instance.

What the loops of this module compute is proved by induction over the rounds.
The induction theorems of the library cannot be used, since they take an operator;
`UpTo` states the principle for a set of numbers, and `Iterates` that a loop has
states. `Least` proves the least number they need from the well-founded order
of finite sets.

**The bridge's table.** `Probing`: a probe for the source has passed taken slots only,
even while it is interrupted, because a slot once taken stays so. `Settled`: no
interrupted call is about to write a slot on the way to a station that is known.
`Quiet`: what a call knows that was not interrupted. That gives the first four
theorems for any number of cards. For the cards named in the entries, `Torn` says which
words an interrupted comparison has seen, `OnTop` that the upper one of two calls is
not interrupted, `Filled` and `NotPast` where an older entry of a station may still be,
and `Right` that the entry found names a card that heard the station last, or will do so
when the call that is about to update it goes on. With three cards this is false
(section 3); the program has two.

**The protocol.** `Private`: nobody has a key with a half that was sent but not
answered. `Behind` and `UsedUp`: each place in a key stream that was run lies before
the bridge's position in the same key. `InStep` relates managers to it, `AnswersRan` the
answers on their way. `InHand`: the NEWKEY whose file is open was the last command
taken, and nobody is past it. `OwnWord`: a packet that is at the place where a
manager's command is carries what that manager sent. `Written`: an
answer on its way to the manager in `newest` tells the truth about the file, which is
`NewkeyLasts` put as an invariant. New halves are random numbers in the code; the hypothesis is
`FreshHalf`, that one which is not in use is there to be drawn, and `FreshAlways` shows that
infinitely many halves suffice for it in all runs. The finite instance of the
run `session` meets it as well, as each key that is thrown away gives its halves back.

**Access lists.** `Kept` is `RestartKeeps` cell by cell, with the one list excepted that a
release and a start set differently (`ReleaseUnwritten`). `BuffersAlike`: the four
buffers of a load are filled alike, so that what is installed before it is
written is of one load (`Unmixed`). `CalmInv`: what a manager sent in a load that
nothing came between is in the buffers.

*Only model-checked:* the liveness properties `FullRingDrains`, `PeriodicServed`,
`NoEndlessWait`, `QuietDrains` and `Served`: temporal reasoning with `ENABLED` is
outside what the prover does. Every other property of a passing run is stated by
a theorem. `Findable` and `Persisted` are proved under the hypotheses above, `BoardIsCurrent` and
`FilterJustified` for two cards.

*Only proved:* what holds when the application runs between the two upcalls of a
packet. No run has split upcalls; `RingInvariant`, `SlotConflictFree` and
`UpcallsAppend` include them for the guarded builds. `UpcallAppends` is not true
of the real-mode build, which `ring_lap` shows.

## 6. Not modelled, and known limits

* `PktQueueBusy` of the Phar Lap and real-mode builds is in the model, and races
  with interrupts there; `BusyRefuses` is stated for the guarded builds only. A
  second upcall after `PktQueueBusy(TRUE)` under a driver with split upcalls makes
  the busy ring look empty, which is why `BusyRefuses` assumes a driver that does
  not split them.
* `ReleaseHangs`: a release while the table is full never ends. The model stops
  there; nothing in the repository states the contrary to check against.
* The retries and the timeout that a reused ARP slot inherits are modelled as
  the code has them; no property speaks of them.
* The earlier parts of `handleWrite`, which write the access, reject and allow
  tables and may return before the networks, change nothing of `NetTable`.
* `xmsCopy` beyond the end of a block, which exits, is not reached by the offsets
  the model has.
* 1.2, the control calls: a chain of software interrupts and DPMI calls, most of
  whose behaviour is in the resident driver and the DOS extender, which are not
  in the tree.
* What a packet's headers and the rules say about it (`checkIncomingPacket`,
  `checkOutgoingPacket`): a function of the packet and the tables without state of
  its own. `BufPool` leaves the outcome open.
* The contents of answers to queries and statistics; the bit generator.
* `ndis2.c`: `mediaType` is never set, so that `NdisInit` always fails; the routines it
  calls are not in the tree.
* `pm_drvr/`, nine tenths of the lines: drivers of Linux, written by others for
  hardware whose behaviour is not in the tree either. What this project maps is
  a small share of all lines for that reason.
* In `Session`: the ACK of a reboot that is lost leaves its manager to start over
  with a machine that may not be up; `socket()` returning NULL for a sixth manager
  (`MANAGE.C:1506`); a blank in a password, at which reading it back ends (159); that RELEASE
  instead of RELEASEACK (1174) is no answer to a manager that minds.

## 7. Plan

1. Abstract specifications for the tables, and proofs that the modules implement
   them: `BridgeTable` a map from stations to cards, `NetTable` under `Separate` a map from
   networks to host tables.
2. `UptimeExact` and `NeverLate` without `MaxLag`, that is, which lag of the loop breaks them.
3. A sufficient condition for `Separate` that speaks of the networks only, for
   example of hashes farther apart than the networks that share one.

None of these modules declares a RECURSIVE operator.

## 8. How to run

    tlc -config MCPktRing_fifo.cfg MCPktRing
    tlapm PktRingProofs.tla

Each passing run takes less than three minutes on two cores, each of the proof
modules less than four minutes from nothing; the mutants named in
the modules ("Mutant: ...") are deliberate errors, each of which makes one of the
properties fail.
