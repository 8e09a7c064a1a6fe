----------------------------- MODULE EventQueue -----------------------------
(***************************************************************************)
(* The event scheduler of the bridge program (src/NDIS/MAIN.C): a table of *)
(* one-shot events, served by checkMisc, which the main loop calls after   *)
(* it has looked at the cards and at the protocol queue.  Two events renew *)
(* themselves in their callback, the keyboard check and the ARP timer; the *)
(* third is the reboot that a manager asks for.                            *)
(*                                                                         *)
(* Time is the BIOS counter of ticks since midnight, which the timer       *)
(* interrupt advances between any two steps of the main loop.              *)
(***************************************************************************)
EXTENDS Integers, FiniteSets

CONSTANTS
  MaxNumEvents,  \* MAX_NUM_EVENTS
  Midnight,      \* 0x1800B0, ticks of a day
  KeyTicks,      \* period of keyCheckCallBack: (1 * 182) / 10
  ArpTicks,      \* period of arpCallBack: (ARP_TIMER_GRANULARITY * 182) / 10
  RebootTicks,   \* delay of reboot: (2 * 182) / 10
  BootTimes,     \* the clock when the program starts
  Word,          \* 2^32: days counts modulo Word
  MaxLag,        \* bound: ticks between two samples of the clock by checkMisc
  AgeCap         \* bound: ages are not told apart from AgeCap on

ASSUME SlotAssumption == MaxNumEvents \in Nat /\ MaxNumEvents >= 4
ASSUME MidnightAssumption == Midnight \in Nat /\ Midnight >= 4
ASSUME TicksAssumption ==
  /\ KeyTicks \in Nat \ {0} /\ ArpTicks \in Nat \ {0}
  /\ RebootTicks \in Nat \ {0}
ASSUME BootAssumption == BootTimes \subseteq 0 .. Midnight - 1
ASSUME WordAssumption == Word \in Nat /\ Word >= 2
ASSUME LagAssumption == MaxLag \in Nat /\ MaxLag + 4 <= Midnight
ASSUME AgeAssumption == AgeCap \in Nat

VARIABLES
  events,           \* the table
  nextEvent,        \* time of the earliest event, 0 when there is none
  days,             \* midnights seen
  startTime,        \* clock at start
  lastMyTime,       \* clock at the last sample
  rebootRequested,  \* handleReboot has run: packets are ignored
  clock,            \* the BIOS counter at 0040:006C
  pc,               \* "main", "firing" (inside checkMisc) or "rebooted"
  index,            \* i, the slot checkMisc is about to look at
  myTime,           \* the sample checkMisc compares with
  lag,              \* ticks since the last sample (no variable of the code)
  age,              \* ticks since each event was added (same)
  elapsed           \* ticks since the program started, as days wraps (same)

ghosts == <<lag, age, elapsed>>
vars == <<events, nextEvent, days, startTime, lastMyTime, rebootRequested,
          clock, pc, index, myTime, lag, age, elapsed>>

Slots     == 0 .. MaxNumEvents - 1
CallBacks == {"keyCheckCallBack", "arpCallBack", "reboot"}
Expire(c) == CASE c = "keyCheckCallBack" -> KeyTicks
               [] c = "arpCallBack"      -> ArpTicks
               [] c = "reboot"           -> RebootTicks

(* A slot filled with zeroes by init; its callback is never looked at.     *)
NoEvent == [valid |-> FALSE, new |-> FALSE, time |-> 0,
            callBack |-> "keyCheckCallBack"]

Valid(ev) == {i \in Slots : ev[i].valid}

(* The loops that set nextEvent: the earliest time, or 0 for no event.  An *)
(* event whose own time is 0 gives 0 as well.                              *)
EarliestTime(ev) ==
  IF Valid(ev) = {} THEN 0
  ELSE CHOOSE t \in {ev[i].time : i \in Valid(ev)} :
         \A i \in Valid(ev) : t <= ev[i].time

FreeSlots(ev) == Slots \ Valid(ev)
FirstFree(ev) == CHOOSE i \in FreeSlots(ev) : \A j \in FreeSlots(ev) : i <= j

(* addScheduledEvent; NULL when the table is full.                         *)
AddScheduledEvent(ev, c) ==
  IF FreeSlots(ev) = {} THEN ev
  ELSE [ev EXCEPT ![FirstFree(ev)] =
          [valid |-> TRUE, new |-> TRUE, time |-> clock + Expire(c),
           callBack |-> c]]

(* Bookkeeping only: an event that has just been added has age 0.          *)
AgeAfterAdd(ev) ==
  IF FreeSlots(ev) = {} THEN age ELSE [age EXCEPT ![FirstFree(ev)] = 0]

(* init: the keyboard check, then initIp's ARP timer.                      *)
Init ==
  /\ clock \in BootTimes
  /\ startTime = clock /\ lastMyTime = clock
  /\ events = [i \in Slots |->
       CASE i = 0 -> [valid |-> TRUE, new |-> TRUE, time |-> clock + KeyTicks,
                      callBack |-> "keyCheckCallBack"]
         [] i = 1 -> [valid |-> TRUE, new |-> TRUE, time |-> clock + ArpTicks,
                      callBack |-> "arpCallBack"]
         [] OTHER -> NoEvent]
  /\ nextEvent = EarliestTime(events)
  /\ days = 0
  /\ rebootRequested = FALSE
  /\ pc = "main" /\ index = 0 /\ myTime = clock
  /\ lag = 0 /\ age = [i \in Slots |-> 0] /\ elapsed = 0

-----------------------------------------------------------------------------
(* The timer interrupt of the BIOS.                                        *)
Tick ==
  /\ pc # "rebooted"
  /\ lag < MaxLag
  /\ clock' = (clock + 1) % Midnight
  /\ lag' = lag + 1
  /\ age' = [i \in Slots |-> IF age[i] < AgeCap THEN age[i] + 1 ELSE AgeCap]
  /\ elapsed' = (elapsed + 1) % (Word * Midnight)
  /\ UNCHANGED <<events, nextEvent, days, startTime, lastMyTime,
                 rebootRequested, pc, index, myTime>>

(* Mutants: times may go below 0; the table is left as it is.              *)
RetimeSigned(ev) ==
  [i \in Slots |-> IF ev[i].valid THEN [ev[i] EXCEPT !.time = @ - Midnight]
                                  ELSE ev[i]]
RetimeNothing(ev) == ev

(* Midnight: bring the table back by a day.  Times are unsigned.           *)
Retime(ev) ==
  [i \in Slots |->
     IF ~ev[i].valid THEN ev[i]
     ELSE [ev[i] EXCEPT !.time = IF @ < Midnight THEN 0 ELSE @ - Midnight]]

(* Mutant: nextEvent is retimed like an event.                             *)
RetimeNextPlain(next) == IF next < Midnight THEN 0 ELSE next - Midnight

RetimeNext(next) ==
  CASE next = 0                      -> 0
    [] next # 0 /\ next <= Midnight  -> 1
    [] next > Midnight               -> next - Midnight

(* Mutant: the days are not counted.                                       *)
DaysKept(midnight) == days

CountDay(midnight) == IF midnight THEN (days + 1) % Word ELSE days

(* checkMisc up to the test of nextEvent: sample the clock, retime the     *)
(* table when it has gone back, and enter the firing loop if due.          *)
CheckMisc ==
  LET midnight == clock < lastMyTime
      retimed  == IF midnight THEN Retime(events) ELSE events
      next     == IF midnight THEN RetimeNext(nextEvent) ELSE nextEvent
      due      == next # 0 /\ next < clock
  IN  /\ pc = "main"
      /\ myTime' = clock
      /\ lastMyTime' = clock
      /\ days' = CountDay(midnight)
      /\ nextEvent' = next
      /\ events' = IF due THEN [i \in Slots |-> [retimed[i] EXCEPT !.new = FALSE]]
                          ELSE retimed
      /\ pc' = IF due THEN "firing" ELSE "main"
      /\ index' = 0
      /\ lag' = 0
      /\ UNCHANGED <<startTime, rebootRequested, clock, age, elapsed>>

Due(e) == e.valid /\ ~e.new /\ e.time < myTime

(* Mutant: the slot is given back before the callback, which takes it.     *)
FirePeriodicFreesFirst ==
  /\ pc = "firing" /\ index < MaxNumEvents
  /\ Due(events[index]) /\ events[index].callBack # "reboot"
  /\ LET freed == [events EXCEPT ![index].valid = FALSE]
         added == AddScheduledEvent(freed, events[index].callBack)
     IN  /\ nextEvent' = EarliestTime(added)
         /\ events' = [added EXCEPT ![index].valid = FALSE]
         /\ age' = AgeAfterAdd(freed)
  /\ index' = index + 1
  /\ UNCHANGED <<days, startTime, lastMyTime, rebootRequested, clock, pc,
                 myTime, lag, elapsed>>

(* The firing loop, one slot.  A periodic callback adds its event again    *)
(* while its own slot is still taken; the slot is given back afterwards.   *)
FirePeriodic ==
  /\ pc = "firing" /\ index < MaxNumEvents
  /\ Due(events[index]) /\ events[index].callBack # "reboot"
  /\ LET added == AddScheduledEvent(events, events[index].callBack)
     IN  /\ nextEvent' = EarliestTime(added)
         /\ events' = [added EXCEPT ![index].valid = FALSE]
  /\ age' = AgeAfterAdd(events)
  /\ index' = index + 1
  /\ UNCHANGED <<days, startTime, lastMyTime, rebootRequested, clock, pc,
                 myTime, lag, elapsed>>

(* reboot jumps to the warm start vector.                                  *)
FireReboot ==
  /\ pc = "firing" /\ index < MaxNumEvents
  /\ Due(events[index]) /\ events[index].callBack = "reboot"
  /\ pc' = "rebooted"
  /\ UNCHANGED <<events, nextEvent, days, startTime, lastMyTime,
                 rebootRequested, clock, index, myTime, ghosts>>

SkipSlot ==
  /\ pc = "firing" /\ index < MaxNumEvents
  /\ ~Due(events[index])
  /\ index' = index + 1
  /\ UNCHANGED <<events, nextEvent, days, startTime, lastMyTime,
                 rebootRequested, clock, pc, myTime, ghosts>>

(* The end of checkMisc: compute nextEvent anew.                           *)
CheckMiscEnd ==
  /\ pc = "firing" /\ index = MaxNumEvents
  /\ nextEvent' = EarliestTime(events)
  /\ pc' = "main"
  /\ index' = 0
  /\ UNCHANGED <<events, days, startTime, lastMyTime, rebootRequested, clock,
                 myTime, ghosts>>

(* handleReboot, from checkIp.  Every later packet is ignored.             *)
HandleReboot ==
  /\ pc = "main" /\ ~rebootRequested
  /\ rebootRequested' = TRUE
  /\ events' = AddScheduledEvent(events, "reboot")
  /\ nextEvent' = EarliestTime(events')
  /\ age' = AgeAfterAdd(events)
  /\ UNCHANGED <<days, startTime, lastMyTime, clock, pc, index, myTime, lag,
                 elapsed>>

MainLoop == CheckMisc \/ FirePeriodic \/ FireReboot \/ SkipSlot \/ CheckMiscEnd

Next == Tick \/ MainLoop \/ HandleReboot

Spec == Init /\ [][Next]_vars

(* The clock runs, and the main loop goes round for ever.                  *)
FairSpec == Spec /\ WF_vars(Tick) /\ WF_vars(MainLoop)

-----------------------------------------------------------------------------
(* Properties                                                              *)

(* Type invariant.                                                         *)
TypeOK ==
  /\ events \in [Slots -> [valid : BOOLEAN, new : BOOLEAN, time : Nat,
                           callBack : CallBacks]]
  /\ nextEvent \in Nat
  /\ days \in 0 .. Word - 1
  /\ startTime \in 0 .. Midnight - 1
  /\ lastMyTime \in 0 .. Midnight - 1
  /\ rebootRequested \in BOOLEAN
  /\ clock \in 0 .. Midnight - 1
  /\ pc \in {"main", "firing", "rebooted"}
  /\ index \in 0 .. MaxNumEvents
  /\ myTime \in 0 .. Midnight - 1
  /\ lag \in 0 .. MaxLag
  /\ age \in [Slots -> 0 .. AgeCap]
  /\ elapsed \in 0 .. Word * Midnight - 1

(* A periodic event is never lost and never doubled, although it is added  *)
(* again before its slot is free: the table holds exactly one event for    *)
(* each of the two callbacks whenever a callback is not running.           *)
PeriodicArmed ==
  \A c \in {"keyCheckCallBack", "arpCallBack"} :
    Cardinality({i \in Valid(events) : events[i].callBack = c}) = 1

(* "Be careful not to set nextEvent to zero since this means no event is   *)
(* pending" (MAIN.C:132): outside checkMisc nextEvent is 0 only when the   *)
(* table is empty.  It holds as long as no manager asks for a reboot.      *)
NextEventPending == pc = "main" /\ nextEvent = 0 => Valid(events) = {}
NextEventKept    == ~rebootRequested => NextEventPending

(* No event is served more than three rounds of the main loop after its    *)
(* delay is over, on whichever day it was added, as long as no manager     *)
(* asks for a reboot: one round that samples its very tick, those that     *)
(* sample the first two ticks after midnight, and the one that serves it.  *)
Lateness == 3 * MaxLag + 1
NeverLate ==
  ~rebootRequested =>
    \A i \in Valid(events) : age[i] <= Expire(events[i].callBack) + Lateness

(* handleStatistics and printStats compute the uptime as                   *)
(* days * 0x1800B0 + clock - startTime.  Unless midnight has passed since  *)
(* the last sample, that is the time since the program started: checkMisc  *)
(* misses no midnight and counts none twice.                               *)
Uptime == (days * Midnight + clock - startTime) % (Word * Midnight)
UptimeExact == clock >= lastMyTime => Uptime = elapsed

(* Unless a reboot is asked for, the keyboard check and the ARP timer run  *)
(* again and again, past every midnight.                                   *)
Served(c) == index < MaxNumEvents /\ events[index].callBack = c /\ FirePeriodic
PeriodicServed ==
  \/ <>rebootRequested
  \/ /\ []<><<Served("keyCheckCallBack")>>_vars
     /\ []<><<Served("arpCallBack")>>_vars

=============================================================================
