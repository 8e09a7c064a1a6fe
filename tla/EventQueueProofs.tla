-------------------------- MODULE EventQueueProofs --------------------------
(***************************************************************************)
(* Theorems about EventQueue, for every length of the day, size of the     *)
(* table and period of the events.                                         *)
(***************************************************************************)
EXTENDS EventQueue, FiniteSetTheorems, WellFoundedInduction, TLAPS

USE SlotAssumption, MidnightAssumption, TicksAssumption, BootAssumption,
    WordAssumption, LagAssumption, AgeAssumption

-----------------------------------------------------------------------------
(* The invariant the proofs are built on.                                  *)

(* Ticks since the midnight before the last sample: the clock, before it   *)
(* is taken back by a day.                                                 *)
Unwrapped == lastMyTime + lag

(* Since the last sample the clock has passed midnight once at most.       *)
ClockInv ==
  /\ clock = IF Unwrapped < Midnight THEN Unwrapped ELSE Unwrapped - Midnight
  /\ pc = "firing" => myTime = lastMyTime /\ 1 < myTime

(* The days, the last sample and the ticks since make up the ticks since   *)
(* the program started, but for whole rounds of days.                      *)
Cycle == Word * Midnight
UptimeInv ==
  \E q \in Int : days * Midnight + Unwrapped - startTime = elapsed + q * Cycle

(* One event for each periodic callback, one at most for the reboot, and   *)
(* neither that one nor the reboot before it is asked for.                 *)
ArmedInv ==
  /\ \A c \in {"keyCheckCallBack", "arpCallBack"} :
       \E i \in Valid(events) : events[i].callBack = c
  /\ \A i, j \in Valid(events) :
       events[i].callBack = events[j].callBack => i = j
  /\ rebootRequested \/ \A i \in Valid(events) : events[i].callBack # "reboot"
  /\ pc = "rebooted" => rebootRequested

(* The part of the table the firing loop has settled: the slots it has     *)
(* looked at and the events added meanwhile.                               *)
Settled == {i \in Valid(events) : i < index \/ events[i].new}

KeptInv ==
  /\ pc = "firing" => \A i \in Settled : events[i].time > 0
  /\ pc = "main" /\ ~rebootRequested => nextEvent > 0

LateBy(i) == age[i] - Expire(events[i].callBack)

LateInv ==
  /\ \A i \in Valid(events) : events[i].time > 0 =>
       LateBy(i) <= Unwrapped - events[i].time
  /\ pc = "firing" => \A i \in Valid(events) :
       /\ i \in Settled => LateBy(i) <= lag
       /\ LateBy(i) <= 2 * MaxLag + 1 + lag
  /\ pc = "main" => \A i \in Valid(events) :
       /\ events[i].time > 0 => /\ nextEvent <= events[i].time
                                /\ LateBy(i) <= lag
       /\ events[i].time = 0 => /\ nextEvent = 1 /\ lastMyTime <= 1
                                /\ LateBy(i) <= MaxLag + Unwrapped

IInv == /\ TypeOK /\ ClockInv /\ UptimeInv /\ ArmedInv /\ KeptInv
        /\ ~rebootRequested => LateInv

-----------------------------------------------------------------------------
(* The order of the natural numbers is well founded (the library's theorem *)
(* names the relation by an operator; here it is any set of pairs).        *)
LEMMA LessRelation ==
  \E R : IsWellFoundedOn(R, Nat) /\ \A x, y \in Nat : y < x => <<y, x>> \in R
<1>1. \A x, y \in Nat : y < x => <<y, x>> \in OpToRel(<, Nat)
  BY DEF OpToRel
<1> QED
  BY <1>1, NatLessThanWellFounded, Zenon

(* A set of natural numbers that is not empty has a least member.          *)
LEMMA LeastNumber ==
  ASSUME NEW S \in SUBSET Nat, S # {}
  PROVE  \E x \in S : \A y \in S : x <= y
<1>1. PICK R : IsWellFoundedOn(R, Nat) /\ \A x, y \in Nat : y < x => <<y, x>> \in R
  BY LessRelation
<1>2. PICK x \in S : \A y \in S : ~ (<<y, x>> \in R)
  BY <1>1, WFMin
<1>3. ASSUME NEW y \in S PROVE x <= y
  <2>1. x \in Nat /\ y \in Nat /\ ~(y < x)
    BY <1>1, <1>2
  <2> QED
    BY <2>1
<1> QED
  BY <1>2, <1>3

(* A clock that counts modulo N, one tick on.                              *)
LEMMA ModOne ==
  ASSUME NEW N \in Nat \ {0}, NEW x \in 0 .. N
  PROVE  x % N = IF x = N THEN 0 ELSE x
OBVIOUS

(* A number that differs from a remainder by whole rounds has it.          *)
LEMMA ModUnique ==
  ASSUME NEW N \in Nat \ {0}, NEW x \in 0 .. N - 1, NEW q \in Int
  PROVE  (x + q * N) % N = x
OBVIOUS

(* Ticks after which the days begin again with 0.                          *)
LEMMA CycleType ==
  Cycle \in Nat \ {0} /\ 0 .. Word * Midnight - 1 = 0 .. Cycle - 1
BY DEF Cycle

(* The delays of the three events are positive.                            *)
LEMMA ExpirePositive == \A c \in CallBacks : Expire(c) \in Nat \ {0}
BY DEF Expire, CallBacks

(* What an event is, as in TypeOK.                                         *)
Event == [valid : BOOLEAN, new : BOOLEAN, time : Nat, callBack : CallBacks]
Table == [Slots -> Event]

(* nextEvent is the earliest time of the table's events.                   *)
LEMMA Earliest ==
  ASSUME NEW ev \in Table
  PROVE  /\ EarliestTime(ev) \in Nat
         /\ \A i \in Valid(ev) : EarliestTime(ev) <= ev[i].time
         /\ (\A i \in Valid(ev) : ev[i].time > 0) /\ Valid(ev) # {} =>
              EarliestTime(ev) > 0
<1> DEFINE T == {ev[i].time : i \in Valid(ev)}
<1>1. CASE Valid(ev) = {}
  BY <1>1 DEF EarliestTime
<1>2. CASE Valid(ev) # {}
  <2>1. T \in SUBSET Nat
    BY DEF Valid, Table, Event
  <2>2. T # {}
    BY <1>2
  <2>3. \E t \in T : \A u \in T : t <= u
    BY <2>1, <2>2, LeastNumber
  <2>4. \E t \in T : \A i \in Valid(ev) : t <= ev[i].time
    BY <2>3
  <2>5. EarliestTime(ev) \in T /\ \A i \in Valid(ev) : EarliestTime(ev) <= ev[i].time
    BY <1>2, <2>4 DEF EarliestTime
  <2> QED
    BY <2>1, <2>5
<1> QED
  BY <1>1, <1>2

(* The event that addScheduledEvent enters.                                *)
NewEvent(c) == [valid |-> TRUE, new |-> TRUE, time |-> clock + Expire(c),
                callBack |-> c]

(* It enters it in a slot that is free, as one of any four slots is.       *)
LEMMA AddsEvent ==
  ASSUME TypeOK, ArmedInv, NEW c \in CallBacks
  PROVE  /\ NewEvent(c) \in Event
         /\ \E k \in Slots :
              /\ ~events[k].valid
              /\ AddScheduledEvent(events, c) = [events EXCEPT ![k] = NewEvent(c)]
              /\ AgeAfterAdd(events) = [age EXCEPT ![k] = 0]
<1>1. NewEvent(c) \in Event
  BY ExpirePositive DEF NewEvent, Event, TypeOK
<1>2. FreeSlots(events) # {}
  <2>1. 0 \in Slots /\ 1 \in Slots /\ 2 \in Slots /\ 3 \in Slots
    BY DEF Slots
  <2>2. \A i \in Slots : events[i].callBack \in CallBacks
    BY DEF TypeOK
  <2>3. ~(\A i \in {0, 1, 2, 3} : i \in Valid(events))
    BY <2>1, <2>2 DEF ArmedInv, CallBacks
  <2> QED
    BY <2>1, <2>3 DEF FreeSlots
<1>3. FreeSlots(events) \in SUBSET Nat
  BY DEF FreeSlots, Slots
<1>4. \E i \in FreeSlots(events) : \A j \in FreeSlots(events) : i <= j
  BY <1>2, <1>3, LeastNumber
<1>5. FirstFree(events) \in FreeSlots(events)
  BY <1>4 DEF FirstFree
<1>6. FirstFree(events) \in Slots /\ ~events[FirstFree(events)].valid
  BY <1>5 DEF FreeSlots, Valid
<1> QED
  BY <1>1, <1>2, <1>6 DEF AddScheduledEvent, AgeAfterAdd, NewEvent

-----------------------------------------------------------------------------
(* The steps.                                                              *)

(* The state in which init leaves the table has the invariant.             *)
LEMMA InitIInv == Init => IInv
<1> SUFFICES ASSUME Init PROVE IInv
  OBVIOUS
<1>1. clock \in 0 .. Midnight - 1 /\ lastMyTime = clock /\ myTime = clock
      /\ startTime = clock /\ pc = "main" /\ index = 0 /\ lag = 0
  BY DEF Init
<1>2. /\ 0 \in Slots /\ 1 \in Slots
      /\ "keyCheckCallBack" \in CallBacks /\ "arpCallBack" \in CallBacks
      /\ Expire("keyCheckCallBack") = KeyTicks /\ Expire("arpCallBack") = ArpTicks
  BY DEF Slots, CallBacks, Expire
<1>3. /\ events \in Table /\ Valid(events) = {0, 1}
      /\ events[0] = [valid |-> TRUE, new |-> TRUE, time |-> clock + KeyTicks,
                      callBack |-> "keyCheckCallBack"]
      /\ events[1] = [valid |-> TRUE, new |-> TRUE, time |-> clock + ArpTicks,
                      callBack |-> "arpCallBack"]
  <2>1. events = [i \in Slots |->
          CASE i = 0 -> [valid |-> TRUE, new |-> TRUE, time |-> clock + KeyTicks,
                         callBack |-> "keyCheckCallBack"]
            [] i = 1 -> [valid |-> TRUE, new |-> TRUE, time |-> clock + ArpTicks,
                         callBack |-> "arpCallBack"]
            [] OTHER -> NoEvent]
    BY DEF Init
  <2>2. events[0] = [valid |-> TRUE, new |-> TRUE, time |-> clock + KeyTicks,
                     callBack |-> "keyCheckCallBack"]
    BY <2>1, <1>2
  <2>3. events[1] = [valid |-> TRUE, new |-> TRUE, time |-> clock + ArpTicks,
                     callBack |-> "arpCallBack"]
    BY <2>1, <1>2
  <2>4. \A i \in Slots \ {0, 1} : events[i] = NoEvent
    BY <2>1
  <2>5. events[0] \in Event /\ events[1] \in Event /\ NoEvent \in Event
    BY <1>1, <1>2, <2>2, <2>3 DEF Event, NoEvent, CallBacks
  <2>6. events \in Table
    BY <2>1, <2>4, <2>5 DEF Table
  <2>7. Valid(events) = {0, 1}
    BY <1>2, <2>2, <2>3, <2>4 DEF Valid, NoEvent
  <2> QED
    BY <2>2, <2>3, <2>6, <2>7
<1>4. nextEvent = EarliestTime(events) /\ nextEvent \in Nat
      /\ nextEvent > 0 /\ nextEvent <= events[0].time /\ nextEvent <= events[1].time
  <2>1. nextEvent = EarliestTime(events)
    BY DEF Init
  <2>2. \A i \in Valid(events) : events[i].time > 0
    BY <1>1, <1>3
  <2> QED
    BY <1>3, <2>1, <2>2, Earliest
<1>5. age = [i \in Slots |-> 0] /\ elapsed = 0 /\ days = 0 /\ rebootRequested = FALSE
  BY DEF Init
<1>6. TypeOK
  <2>1. elapsed \in 0 .. Word * Midnight - 1
    BY <1>5
  <2>2. age \in [Slots -> 0 .. AgeCap]
    BY <1>5
  <2>3. /\ days \in 0 .. Word - 1 /\ lag \in 0 .. MaxLag
        /\ index \in 0 .. MaxNumEvents
    BY <1>1, <1>5
  <2>5. rebootRequested \in BOOLEAN /\ pc \in {"main", "firing", "rebooted"}
    BY <1>1, <1>5, Zenon
  <2>4. events \in [Slots -> [valid : BOOLEAN, new : BOOLEAN, time : Nat,
                             callBack : CallBacks]]
    BY <1>3 DEF Table, Event
  <2> QED
    BY <1>1, <1>4, <2>1, <2>2, <2>3, <2>4, <2>5 DEF TypeOK
<1>7. ClockInv
  BY <1>1 DEF ClockInv, Unwrapped
<1>8. UptimeInv
  <2>0. PICK q \in Int : q = 0
    OBVIOUS
  <2>1. days * Midnight + Unwrapped - startTime = elapsed + q * Cycle
    <3>1. days * Midnight = 0 /\ q * Cycle = 0
      BY <1>5, <2>0, CycleType
    <3> QED
      BY <1>1, <1>5, <3>1 DEF Unwrapped
  <2> QED
    BY <2>1 DEF UptimeInv
<1>9. ArmedInv
  BY <1>1, <1>3 DEF ArmedInv
<1>10. KeptInv
  BY <1>1, <1>4 DEF KeptInv
<1>11. LateInv
  BY <1>1, <1>2, <1>3, <1>4, <1>5 DEF LateInv, LateBy, Unwrapped
<1> QED
  BY <1>6, <1>7, <1>8, <1>9, <1>10, <1>11 DEF IInv

(* The timer interrupt.                                                    *)
LEMMA TickIInv == ASSUME IInv, Tick PROVE IInv'
<1> USE DEF IInv
<1>0. /\ lag < MaxLag /\ lag' = lag + 1
      /\ clock' = (clock + 1) % Midnight
      /\ age' = [i \in Slots |-> IF age[i] < AgeCap THEN age[i] + 1 ELSE AgeCap]
      /\ elapsed' = (elapsed + 1) % (Word * Midnight)
      /\ UNCHANGED <<events, nextEvent, days, startTime, lastMyTime,
                     rebootRequested, pc, index, myTime>>
  BY DEF Tick
<1>1. /\ lag \in 0 .. MaxLag /\ clock \in 0 .. Midnight - 1
      /\ lastMyTime \in 0 .. Midnight - 1
      /\ elapsed \in 0 .. Word * Midnight - 1 /\ age \in [Slots -> 0 .. AgeCap]
  BY DEF TypeOK
<1>2. clock' = IF clock + 1 = Midnight THEN 0 ELSE clock + 1
  <2>1. Midnight \in Nat \ {0} /\ clock + 1 \in 0 .. Midnight
    BY <1>1
  <2> QED
    BY <1>0, <2>1, ModOne
<1>3. elapsed' = IF elapsed + 1 = Cycle THEN 0 ELSE elapsed + 1
  <2>1. Cycle \in Nat \ {0} /\ elapsed \in 0 .. Cycle - 1
    BY <1>1, CycleType
  <2>2. elapsed + 1 \in 0 .. Cycle
    BY <2>1
  <2>3. elapsed' = (elapsed + 1) % Cycle
    BY <1>0 DEF Cycle
  <2> QED
    BY <2>1, <2>2, <2>3, ModOne
<1>4. Unwrapped' = Unwrapped + 1
  BY <1>0, <1>1 DEF Unwrapped
<1>5. TypeOK'
  <2>1. age' \in [Slots -> 0 .. AgeCap]
    BY <1>0, <1>1
  <2>2. elapsed' \in 0 .. Word * Midnight - 1
    <3>1. elapsed' \in 0 .. Cycle - 1
      BY <1>1, <1>3, CycleType
    <3> QED
      BY <3>1 DEF Cycle
  <2>3. clock' \in 0 .. Midnight - 1 /\ lag' \in 0 .. MaxLag
    BY <1>0, <1>1, <1>2
  <2> QED
    BY <1>0, <2>1, <2>2, <2>3 DEF TypeOK
<1>6. ClockInv'
  BY <1>0, <1>1, <1>2, <1>4 DEF ClockInv, Unwrapped
<1>7. UptimeInv'
  <2>1. PICK q \in Int : days * Midnight + Unwrapped - startTime
                           = elapsed + q * Cycle
    BY DEF UptimeInv
  <2> DEFINE r == IF elapsed + 1 = Cycle THEN q + 1 ELSE q
  <2>2. days' * Midnight + Unwrapped' - startTime'
          = elapsed + 1 + q * Cycle
    <3>1. /\ days * Midnight \in Int /\ Unwrapped \in Int /\ startTime \in Int
          /\ q * Cycle \in Int /\ elapsed \in Int
      BY <1>1, CycleType DEF TypeOK, Unwrapped
    <3>2. days' = days /\ startTime' = startTime /\ Unwrapped' = Unwrapped + 1
      BY <1>0, <1>4
    <3> QED
      BY <2>1, <3>1, <3>2
  <2>3. elapsed + 1 + q * Cycle = elapsed' + r * Cycle
    BY <1>1, <1>3, CycleType
  <2>4. r \in Int
    OBVIOUS
  <2> HIDE DEF r
  <2> QED
    BY <1>0, <2>2, <2>3, <2>4 DEF UptimeInv
<1>8. ArmedInv' /\ KeptInv'
  BY <1>0 DEF ArmedInv, KeptInv, Valid, Settled
<1>9. ~rebootRequested' => LateInv'
  <2>1. \A i \in Slots : age'[i] <= age[i] + 1
    BY <1>0, <1>1
  <2>2. \A i \in Valid(events) :
          /\ events[i].time \in Nat /\ LateBy(i) \in Int
          /\ LateBy(i)' \in Int /\ LateBy(i)' <= LateBy(i) + 1
    <3> TAKE i \in Valid(events)
    <3>1. i \in Slots /\ events[i].callBack \in CallBacks /\ events[i].time \in Nat
      BY DEF TypeOK, Valid
    <3>2. age[i] \in Int /\ age'[i] \in Int /\ age'[i] <= age[i] + 1
      BY <1>0, <1>1, <2>1, <3>1
    <3> QED
      BY <1>0, <3>1, <3>2, ExpirePositive DEF LateBy
  <2>3. Valid(events)' = Valid(events) /\ Settled' = Settled
    BY <1>0 DEF Valid, Settled
  <2>4. Unwrapped \in Int
    BY <1>1 DEF Unwrapped
  <2> QED
    BY <1>0, <1>1, <1>4, <2>2, <2>3, <2>4 DEF LateInv
<1> QED
  BY <1>5, <1>6, <1>7, <1>8, <1>9

(* Bringing the table back by a day: the events stay, their times go down  *)
(* by a day or to 0.                                                       *)
LEMMA RetimeEffect ==
  ASSUME events \in Table
  PROVE  /\ Retime(events) \in Table
         /\ \A i \in Slots :
              LET e == events[i]  f == Retime(events)[i]
              IN  /\ f.valid = e.valid /\ f.new = e.new /\ f.callBack = e.callBack
                  /\ e.valid => f.time = IF e.time < Midnight THEN 0
                                         ELSE e.time - Midnight
<1>1. ASSUME NEW i \in Slots
      PROVE  /\ Retime(events)[i] \in Event
             /\ Retime(events)[i].valid = events[i].valid
             /\ Retime(events)[i].new = events[i].new
             /\ Retime(events)[i].callBack = events[i].callBack
             /\ events[i].valid =>
                  Retime(events)[i].time = IF events[i].time < Midnight THEN 0
                                           ELSE events[i].time - Midnight
  <2>1. events[i] \in Event
    BY DEF Table
  <2>2. CASE ~events[i].valid
    BY <2>1, <2>2 DEF Retime
  <2>3. CASE events[i].valid
    <3> DEFINE e == events[i]
               t == IF e.time < Midnight THEN 0 ELSE e.time - Midnight
    <3>1. t \in Nat
      BY <2>1 DEF Event
    <3>2. Retime(events)[i] = [e EXCEPT !.time = t]
      BY <2>3 DEF Retime
    <3> HIDE DEF e
    <3>3. e \in Event
      BY <2>1 DEF e
    <3> HIDE DEF t
    <3>4. [e EXCEPT !.time = t] \in Event
      BY <3>1, <3>3 DEF Event
    <3>5. /\ [e EXCEPT !.time = t].valid = e.valid
          /\ [e EXCEPT !.time = t].new = e.new
          /\ [e EXCEPT !.time = t].callBack = e.callBack
          /\ [e EXCEPT !.time = t].time = t
      BY <3>3 DEF Event
    <3> USE DEF t
    <3> QED
      BY <3>2, <3>4, <3>5 DEF e
  <2> QED
    BY <2>2, <2>3
<1>2. Retime(events) \in Table
  BY <1>1 DEF Retime, Table
<1> QED
  BY <1>1, <1>2

(* A sample of the clock, and what it makes of the table.                  *)
LEMMA CheckMiscEffect ==
  ASSUME TypeOK, CheckMisc
  PROVE  LET midnight == clock < lastMyTime
             next     == IF midnight THEN RetimeNext(nextEvent) ELSE nextEvent
             due      == next # 0 /\ next < clock
         IN  /\ events' \in Table /\ nextEvent' = next /\ next \in Nat
             /\ pc = "main" /\ pc' = IF due THEN "firing" ELSE "main"
             /\ index' = 0 /\ lag' = 0 /\ lastMyTime' = clock /\ myTime' = clock
             /\ days' = IF midnight THEN (days + 1) % Word ELSE days
             /\ UNCHANGED <<startTime, rebootRequested, clock, age, elapsed>>
             /\ \A i \in Slots :
                  /\ events'[i].valid = events[i].valid
                  /\ events'[i].callBack = events[i].callBack
                  /\ due => events'[i].new = FALSE
                  /\ events[i].valid =>
                       events'[i].time =
                         IF ~midnight THEN events[i].time
                         ELSE IF events[i].time < Midnight THEN 0
                         ELSE events[i].time - Midnight
<1> DEFINE midnight == clock < lastMyTime
           next     == IF midnight THEN RetimeNext(nextEvent) ELSE nextEvent
           due      == next # 0 /\ next < clock
           retimed  == IF midnight THEN Retime(events) ELSE events
<1>1. events \in Table
  BY DEF TypeOK, Table, Event
<1>2. retimed \in Table
  BY <1>1, RetimeEffect
<1>3. next \in Nat
  BY DEF TypeOK, RetimeNext
<1>4. /\ events' = IF due THEN [i \in Slots |-> [retimed[i] EXCEPT !.new = FALSE]]
                          ELSE retimed
      /\ pc = "main" /\ nextEvent' = next
      /\ pc' = IF due THEN "firing" ELSE "main"
      /\ index' = 0 /\ lag' = 0 /\ lastMyTime' = clock /\ myTime' = clock
      /\ days' = IF midnight THEN (days + 1) % Word ELSE days
      /\ UNCHANGED <<startTime, rebootRequested, clock, age, elapsed>>
  BY DEF CheckMisc, CountDay
<1>5. ASSUME NEW i \in Slots
      PROVE  /\ retimed[i].valid = events[i].valid
             /\ retimed[i].callBack = events[i].callBack
             /\ events[i].valid =>
                  retimed[i].time = IF ~midnight THEN events[i].time
                                    ELSE IF events[i].time < Midnight THEN 0
                                    ELSE events[i].time - Midnight
  BY <1>1, RetimeEffect
<1> HIDE DEF retimed, due
<1>6. ASSUME NEW i \in Slots
      PROVE  /\ events'[i] \in Event
             /\ events'[i].valid = retimed[i].valid
             /\ events'[i].callBack = retimed[i].callBack
             /\ events'[i].time = retimed[i].time
             /\ due => events'[i].new = FALSE
  <2>1. retimed[i] \in Event
    BY <1>2 DEF Table
  <2>2. CASE due
    <3>1. events'[i] = [retimed[i] EXCEPT !.new = FALSE]
      BY <1>4, <2>2
    <3> QED
      BY <2>1, <3>1 DEF Event
  <2>3. CASE ~due
    BY <1>4, <2>1, <2>3
  <2> QED
    BY <2>2, <2>3
<1>7. events' \in Table
  BY <1>2, <1>4, <1>6 DEF Table
<1> HIDE DEF next, midnight
<1>8. /\ events' \in Table /\ nextEvent' = next /\ next \in Nat
      /\ \A i \in Slots :
           /\ events'[i].valid = events[i].valid
           /\ events'[i].callBack = events[i].callBack
           /\ due => events'[i].new = FALSE
           /\ events[i].valid =>
                events'[i].time =
                  IF ~midnight THEN events[i].time
                  ELSE IF events[i].time < Midnight THEN 0
                  ELSE events[i].time - Midnight
  BY <1>3, <1>4, <1>5, <1>6, <1>7
<1> QED
  BY <1>4, <1>8 DEF due, next, midnight

(* Sampling keeps the invariant.  A sample across midnight counts the day  *)
(* and puts an event whose time has come to 0; nextEvent is then 1, and    *)
(* the loop starts two ticks after midnight at the latest.                 *)
LEMMA CheckMiscIInv == ASSUME IInv, CheckMisc PROVE IInv'
<1> USE DEF IInv
<1> DEFINE midnight == clock < lastMyTime
           next     == IF midnight THEN RetimeNext(nextEvent) ELSE nextEvent
           due      == next # 0 /\ next < clock
<1>1. /\ lag \in 0 .. MaxLag /\ clock \in 0 .. Midnight - 1
      /\ lastMyTime \in 0 .. Midnight - 1 /\ days \in 0 .. Word - 1
      /\ nextEvent \in Nat /\ startTime \in 0 .. Midnight - 1
      /\ elapsed \in 0 .. Word * Midnight - 1 /\ age \in [Slots -> 0 .. AgeCap]
  BY DEF TypeOK
<1>2. /\ events' \in Table /\ nextEvent' = next /\ next \in Nat
      /\ pc = "main" /\ pc' = IF due THEN "firing" ELSE "main"
      /\ index' = 0 /\ lag' = 0 /\ lastMyTime' = clock /\ myTime' = clock
      /\ days' = IF midnight THEN (days + 1) % Word ELSE days
      /\ UNCHANGED <<startTime, rebootRequested, clock, age, elapsed>>
  BY CheckMiscEffect
<1>3. ASSUME NEW i \in Slots
      PROVE  /\ events'[i].valid = events[i].valid
             /\ events'[i].callBack = events[i].callBack
             /\ due => events'[i].new = FALSE
             /\ events[i].valid =>
                  events'[i].time = IF ~midnight THEN events[i].time
                                    ELSE IF events[i].time < Midnight THEN 0
                                    ELSE events[i].time - Midnight
  BY CheckMiscEffect
<1>4. Valid(events)' = Valid(events)
  BY <1>3 DEF Valid
<1>5. /\ Unwrapped' = clock
      /\ midnight  => clock = Unwrapped - Midnight /\ Unwrapped >= Midnight
      /\ ~midnight => clock = Unwrapped
  BY <1>1, <1>2 DEF ClockInv, Unwrapped
<1>6. next = IF ~midnight THEN nextEvent
             ELSE IF nextEvent = 0 THEN 0
             ELSE IF nextEvent <= Midnight THEN 1 ELSE nextEvent - Midnight
  BY <1>1 DEF RetimeNext
<1>7. days' = IF midnight THEN (IF days + 1 = Word THEN 0 ELSE days + 1) ELSE days
  <2>1. Word \in Nat \ {0} /\ days + 1 \in 0 .. Word
    BY <1>1
  <2> QED
    BY <1>2, <2>1, ModOne
<1> HIDE DEF midnight, next
<1>8. TypeOK'
  <2>1. /\ days' \in 0 .. Word - 1 /\ lastMyTime' \in 0 .. Midnight - 1
        /\ myTime' \in 0 .. Midnight - 1 /\ clock' \in 0 .. Midnight - 1
        /\ index' \in 0 .. MaxNumEvents /\ lag' \in 0 .. MaxLag
        /\ nextEvent' \in Nat /\ startTime' \in 0 .. Midnight - 1
        /\ elapsed' \in 0 .. Word * Midnight - 1 /\ age' \in [Slots -> 0 .. AgeCap]
    BY <1>1, <1>2, <1>7
  <2>2. pc' \in {"main", "firing", "rebooted"}
    BY <1>2
  <2>3. rebootRequested' \in BOOLEAN
    BY <1>2 DEF TypeOK
  <2> QED
    BY <1>2, <2>1, <2>2, <2>3 DEF TypeOK, Table, Event
<1>9. ClockInv'
  BY <1>1, <1>2, <1>5 DEF ClockInv
<1>10. UptimeInv'
  <2>1. PICK q \in Int : days * Midnight + Unwrapped - startTime
                           = elapsed + q * Cycle
    BY DEF UptimeInv
  <2>2. CASE ~midnight
    BY <1>2, <1>5, <2>1, <2>2 DEF UptimeInv
  <2>3. CASE midnight /\ days + 1 # Word
    <3>1. days' * Midnight + Unwrapped' - startTime
            = days * Midnight + Unwrapped - startTime
      BY <1>1, <1>5, <1>7, <2>3 DEF Unwrapped
    <3> QED
      BY <1>2, <2>1, <3>1 DEF UptimeInv
  <2>4. CASE midnight /\ days + 1 = Word
    <3>1. days' * Midnight + Unwrapped' = days * Midnight + Unwrapped - Cycle
      BY <1>1, <1>5, <1>7, <2>4 DEF Unwrapped, Cycle
    <3>2. days' * Midnight + Unwrapped' - startTime = elapsed + (q - 1) * Cycle
      <4>1. /\ days * Midnight \in Int /\ Unwrapped \in Int /\ days' * Midnight \in Int
            /\ Unwrapped' \in Int /\ q * Cycle \in Int /\ Cycle \in Int
            /\ startTime \in Int /\ elapsed \in Int
        BY <1>1, <1>5, <1>7, CycleType DEF Unwrapped
      <4>2. (q - 1) * Cycle = q * Cycle - Cycle
        BY <4>1
      <4> QED
        BY <2>1, <3>1, <4>1, <4>2
    <3>3. q - 1 \in Int
      OBVIOUS
    <3> QED
      BY <1>2, <3>2, <3>3 DEF UptimeInv
  <2> QED
    BY <2>2, <2>3, <2>4
<1>11. ArmedInv'
  <2>1. \A i \in Valid(events) : events'[i].callBack = events[i].callBack
    BY <1>3 DEF Valid
  <2> QED
    BY <1>2, <1>4, <2>1 DEF ArmedInv
<1>12. KeptInv'
  <2>1. due => Settled' = {}
    <3> SUFFICES ASSUME due, NEW i \in Settled' PROVE FALSE
      OBVIOUS
    <3>1. i \in Slots /\ (i < 0 \/ events'[i].new)
      BY <1>2 DEF Settled, Valid
    <3>2. events'[i].new = FALSE
      BY <1>3, <3>1
    <3>3. ~(i < 0)
      BY <3>1 DEF Slots
    <3> QED
      BY <3>1, <3>2, <3>3
  <2>2. nextEvent > 0 => next > 0
    BY <1>1, <1>6
  <2> QED
    BY <1>2, <2>1, <2>2 DEF KeptInv
<1>13. ASSUME ~rebootRequested' PROVE LateInv'
  <2>1. LateInv /\ nextEvent > 0
    BY <1>2, <1>13 DEF KeptInv
  <2>2. ASSUME NEW i \in Valid(events)
        PROVE  /\ events[i].time \in Nat /\ LateBy(i) \in Int /\ LateBy(i)' = LateBy(i)
               /\ events'[i].time \in Nat
               /\ events'[i].time = IF ~midnight THEN events[i].time
                                    ELSE IF events[i].time < Midnight THEN 0
                                    ELSE events[i].time - Midnight
               /\ events[i].time > 0 => /\ LateBy(i) <= Unwrapped - events[i].time
                                        /\ nextEvent <= events[i].time
                                        /\ LateBy(i) <= lag
               /\ events[i].time = 0 => /\ nextEvent = 1 /\ lastMyTime <= 1
                                        /\ LateBy(i) <= MaxLag + Unwrapped
    <3>1. i \in Slots /\ events[i].valid
      BY DEF Valid
    <3>2. events[i].time \in Nat /\ events[i].callBack \in CallBacks /\ age[i] \in Int
      BY <1>1, <3>1 DEF TypeOK
    <3>3. events'[i].time \in Nat
      BY <1>2, <3>1 DEF Table, Event
    <3>4. LateBy(i) \in Int /\ LateBy(i)' = LateBy(i)
      <4>1. events'[i].callBack = events[i].callBack /\ age' = age
        BY <1>2, <1>3, <3>1
      <4>2. Expire(events[i].callBack) \in Nat
        BY <3>2, ExpirePositive
      <4> QED
        BY <3>2, <4>1, <4>2 DEF LateBy
    <3> QED
      BY <1>2, <1>3, <2>1, <3>1, <3>2, <3>3, <3>4 DEF LateInv
  <2>3. ASSUME NEW i \in Valid(events)
        PROVE  /\ events'[i].time > 0 => LateBy(i) <= clock - events'[i].time
               /\ due => LateBy(i) <= 2 * MaxLag + 1
               /\ ~due /\ events'[i].time > 0 => /\ next <= events'[i].time
                                                 /\ LateBy(i) <= 0
               /\ ~due /\ events'[i].time = 0 => /\ next = 1 /\ clock <= 1
                                                 /\ LateBy(i) <= MaxLag + clock
    <3>1. CASE ~midnight
      <4>1. events'[i].time = events[i].time /\ next = nextEvent /\ clock = Unwrapped
        BY <1>5, <1>6, <2>2, <3>1
      <4> QED
        BY <1>1, <2>1, <2>2, <4>1 DEF Unwrapped
    <3>2. CASE midnight
      <4>1. clock = Unwrapped - Midnight /\ Unwrapped >= Midnight
        BY <1>5, <3>2
      <4>2. events[i].time > 0
        BY <1>1, <2>2, <4>1 DEF Unwrapped
      <4>3. next = IF nextEvent <= Midnight THEN 1 ELSE nextEvent - Midnight
        BY <1>6, <2>1, <3>2
      <4> QED
        BY <1>1, <2>1, <2>2, <3>2, <4>1, <4>2, <4>3 DEF Unwrapped
    <3> QED
      BY <3>1, <3>2
  <2>4. due => \A i \in Valid(events)' : i \notin Settled'
    <3> SUFFICES ASSUME due, NEW i \in Settled' PROVE FALSE
      OBVIOUS
    <3>1. i \in Slots /\ (i < 0 \/ events'[i].new)
      BY <1>2 DEF Settled, Valid
    <3>2. events'[i].new = FALSE
      BY <1>3, <3>1
    <3>3. ~(i < 0)
      BY <3>1 DEF Slots
    <3> QED
      BY <3>1, <3>2, <3>3
  <2> HIDE DEF due
  <2>5. \A i \in Valid(events)' : events'[i].time > 0 =>
          LateBy(i)' <= Unwrapped' - events'[i].time
    BY <1>4, <1>5, <2>2, <2>3
  <2>6. pc' = "firing" => \A i \in Valid(events)' :
          /\ i \in Settled' => LateBy(i)' <= lag'
          /\ LateBy(i)' <= 2 * MaxLag + 1 + lag'
    BY <1>2, <1>4, <2>2, <2>3, <2>4
  <2>7. pc' = "main" => \A i \in Valid(events)' :
          /\ events'[i].time > 0 => nextEvent' <= events'[i].time /\ LateBy(i)' <= lag'
          /\ events'[i].time = 0 => /\ nextEvent' = 1 /\ lastMyTime' <= 1
                                    /\ LateBy(i)' <= MaxLag + Unwrapped'
    BY <1>2, <1>4, <1>5, <2>2, <2>3
  <2> QED
    BY <2>5, <2>6, <2>7 DEF LateInv
<1> QED
  BY <1>8, <1>9, <1>10, <1>11, <1>12, <1>13

(* The effect of a periodic event: its callback adds a new one in slot k,  *)
(* then its own slot is given back.                                        *)
LEMMA FireEffect ==
  ASSUME TypeOK, ArmedInv, FirePeriodic
  PROVE  \E k \in Slots :
           /\ index \in Slots /\ ~events[k].valid /\ Due(events[index])
           /\ k # index /\ events[index].callBack \in CallBacks \ {"reboot"}
           /\ events' \in Table /\ nextEvent' \in Nat
           /\ ~events'[index].valid
           /\ events'[k] = NewEvent(events[index].callBack)
           /\ \A i \in Slots \ {k, index} : events'[i] = events[i]
           /\ age' = [age EXCEPT ![k] = 0]
           /\ pc = "firing" /\ index' = index + 1
           /\ UNCHANGED <<days, startTime, lastMyTime, rebootRequested, clock, pc,
                          myTime, lag, elapsed>>
<1> DEFINE c == events[index].callBack
           added == AddScheduledEvent(events, c)
<1>1. index \in Slots /\ Due(events[index]) /\ c \in CallBacks \ {"reboot"}
  <2>1. index \in Slots
    BY DEF FirePeriodic, TypeOK, Slots
  <2>2. c \in CallBacks
    BY <2>1 DEF TypeOK
  <2> QED
    BY <2>1, <2>2 DEF FirePeriodic
<1>2. PICK k \in Slots : /\ ~events[k].valid
                         /\ added = [events EXCEPT ![k] = NewEvent(c)]
                         /\ AgeAfterAdd(events) = [age EXCEPT ![k] = 0]
  BY <1>1, AddsEvent
<1>3. NewEvent(c) \in Event
  BY <1>1, AddsEvent
<1>4. events \in Table
  BY DEF TypeOK, Table, Event
<1>5. k # index
  BY <1>1, <1>2 DEF Due
<1>6. added \in Table
  BY <1>2, <1>3, <1>4 DEF Table
<1>7. /\ events' = [added EXCEPT ![index].valid = FALSE]
      /\ nextEvent' = EarliestTime(added) /\ age' = AgeAfterAdd(events)
      /\ pc = "firing" /\ index' = index + 1
      /\ UNCHANGED <<days, startTime, lastMyTime, rebootRequested, clock, pc,
                     myTime, lag, elapsed>>
  BY DEF FirePeriodic
<1>8. nextEvent' \in Nat
  BY <1>6, <1>7, Earliest
<1>9. added[k] = NewEvent(c) /\ \A i \in Slots \ {k} : added[i] = events[i]
  BY <1>2, <1>4 DEF Table
<1> HIDE DEF added
<1>10. /\ events' \in Table /\ ~events'[index].valid
       /\ \A i \in Slots \ {index} : events'[i] = added[i]
  <2>1. added[index] \in Event
    BY <1>1, <1>6 DEF Table
  <2>2. [added[index] EXCEPT !.valid = FALSE] \in Event
    BY <2>1 DEF Event
  <2>3. events' = [added EXCEPT ![index] = [added[index] EXCEPT !.valid = FALSE]]
    BY <1>7
  <2>4. ~[added[index] EXCEPT !.valid = FALSE].valid
    BY <2>1 DEF Event
  <2> QED
    BY <1>1, <1>6, <2>2, <2>3, <2>4 DEF Table
<1> QED
  BY <1>1, <1>2, <1>5, <1>7, <1>8, <1>9, <1>10

(* The round a periodic event makes: it is rearmed before its slot is      *)
(* free, and the event it leaves is of the same callback.                  *)
LEMMA FirePeriodicIInv == ASSUME IInv, FirePeriodic PROVE IInv'
<1> USE DEF IInv
<1> DEFINE c == events[index].callBack
<1>1. PICK k \in Slots :
           /\ index \in Slots /\ ~events[k].valid /\ Due(events[index])
           /\ k # index /\ events[index].callBack \in CallBacks \ {"reboot"}
           /\ events' \in Table /\ nextEvent' \in Nat
           /\ ~events'[index].valid
           /\ events'[k] = NewEvent(events[index].callBack)
           /\ \A i \in Slots \ {k, index} : events'[i] = events[i]
           /\ age' = [age EXCEPT ![k] = 0]
           /\ pc = "firing" /\ index' = index + 1
           /\ UNCHANGED <<days, startTime, lastMyTime, rebootRequested, clock, pc,
                          myTime, lag, elapsed>>
  BY FireEffect
<1>2. index \in Valid(events) /\ k \notin Valid(events)
  BY <1>1 DEF Due, Valid
<1>3. Valid(events)' = (Valid(events) \ {index}) \cup {k}
  BY <1>1, <1>2 DEF Valid, NewEvent
<1>4. /\ lag \in 0 .. MaxLag /\ clock \in 0 .. Midnight - 1
      /\ lastMyTime \in 0 .. Midnight - 1 /\ age \in [Slots -> 0 .. AgeCap]
  BY DEF TypeOK
<1>5. /\ events'[k].valid /\ events'[k].new /\ events'[k].callBack = c
      /\ events'[k].time = clock + Expire(c) /\ Expire(c) \in Nat \ {0}
  BY <1>1, ExpirePositive DEF NewEvent
<1>6. TypeOK'
  <2>1. age' \in [Slots -> 0 .. AgeCap]
    BY <1>1, <1>4
  <2>2. index' \in 0 .. MaxNumEvents
    BY <1>1 DEF Slots
  <2> QED
    BY <1>1, <2>1, <2>2 DEF TypeOK, Table, Event
<1>7. ClockInv' /\ UptimeInv'
  <2>1. Unwrapped' = Unwrapped
    BY <1>1 DEF Unwrapped
  <2> QED
    BY <1>1, <2>1 DEF ClockInv, UptimeInv
<1>8. ArmedInv'
  <2>1. \A i \in Valid(events)' \ {k} :
          i \in Valid(events) \ {index} /\ events'[i].callBack = events[i].callBack
    BY <1>1, <1>3 DEF Valid
  <2>2. \A d \in {"keyCheckCallBack", "arpCallBack"} :
          \E i \in Valid(events)' : events'[i].callBack = d
    <3> TAKE d \in {"keyCheckCallBack", "arpCallBack"}
    <3>1. CASE d = c
      BY <1>3, <1>5, <3>1
    <3>2. CASE d # c
      <4>1. PICK i \in Valid(events) : events[i].callBack = d
        BY DEF ArmedInv
      <4>2. i \in Valid(events)' \ {k}
        BY <1>2, <1>3, <3>2, <4>1
      <4> QED
        BY <2>1, <4>1, <4>2
    <3> QED
      BY <3>1, <3>2
  <2>3. \A i, j \in Valid(events)' :
          events'[i].callBack = events'[j].callBack => i = j
    <3>1. \A i \in Valid(events)' \ {k} : events'[i].callBack # c
      BY <1>2, <2>1 DEF ArmedInv
    <3> QED
      BY <1>5, <2>1, <3>1 DEF ArmedInv
  <2>4. rebootRequested' \/ \A i \in Valid(events)' : events'[i].callBack # "reboot"
    BY <1>1, <1>5, <2>1 DEF ArmedInv
  <2> QED
    BY <1>1, <2>2, <2>3, <2>4 DEF ArmedInv
<1>9. \A i \in Settled' : i = k \/ (i \in Settled /\ i # k /\ i # index)
  BY <1>1, <1>3 DEF Settled, Slots, Valid
<1>10. \A i \in Slots \ {k, index} : events'[i] = events[i] /\ age'[i] = age[i]
  BY <1>1, <1>4
<1>11. KeptInv'
  <2>1. events'[k].time > 0
    BY <1>4, <1>5
  <2>2. \A i \in Settled : i \in Slots /\ events[i].time > 0
    BY <1>1 DEF KeptInv, Settled, Valid
  <2>3. \A i \in Settled' : events'[i].time > 0
    BY <1>9, <1>10, <2>1, <2>2
  <2> QED
    BY <1>1, <2>3 DEF KeptInv
<1>12. ASSUME ~rebootRequested' PROVE LateInv'
  <2>1. LateInv
    BY <1>1, <1>12
  <2>2. age'[k] = 0 /\ LateBy(k)' = 0 - Expire(c)
    BY <1>1, <1>4, <1>5 DEF LateBy
  <2>3. Unwrapped' = Unwrapped /\ Unwrapped >= clock /\ Unwrapped \in Int
    BY <1>1, <1>4 DEF Unwrapped, ClockInv
  <2>4. ASSUME NEW i \in Valid(events)', i # k
        PROVE  /\ i \in Valid(events) /\ events'[i] = events[i]
               /\ LateBy(i)' = LateBy(i)
    <3>1. i \in Valid(events) /\ i \in Slots \ {k, index}
      BY <1>3, <1>2, <2>4 DEF Valid
    <3> QED
      BY <1>10, <3>1 DEF LateBy
  <2>5. \A i \in Valid(events)' : events'[i].time > 0 =>
          LateBy(i)' <= Unwrapped' - events'[i].time
    <3> TAKE i \in Valid(events)'
    <3>1. CASE i = k
      <4>1. 0 - Expire(c) <= Unwrapped - (clock + Expire(c))
        BY <1>4, <1>5, <2>3
      <4> QED
        BY <1>5, <2>2, <2>3, <3>1, <4>1
    <3>2. CASE i # k
      BY <2>1, <2>3, <2>4, <3>2 DEF LateInv
    <3> QED
      BY <3>1, <3>2
  <2>6. \A i \in Valid(events)' :
          /\ i \in Settled' => LateBy(i)' <= lag'
          /\ LateBy(i)' <= 2 * MaxLag + 1 + lag'
    <3> TAKE i \in Valid(events)'
    <3>1. CASE i = k
      <4>1. 0 - Expire(c) <= lag /\ 0 - Expire(c) <= 2 * MaxLag + 1 + lag
        BY <1>4, <1>5
      <4> QED
        BY <1>1, <2>2, <3>1, <4>1
    <3>2. CASE i # k
      BY <1>1, <1>9, <2>1, <2>4, <3>2 DEF LateInv
    <3> QED
      BY <3>1, <3>2
  <2> QED
    BY <1>1, <2>5, <2>6 DEF LateInv
<1> QED
  BY <1>6, <1>7, <1>8, <1>11, <1>12

(* A slot that is passed over is settled: were its time 0, it would have   *)
(* been due.                                                               *)
LEMMA SkipSlotIInv == ASSUME IInv, SkipSlot PROVE IInv'
<1> USE DEF IInv
<1>1. /\ pc = "firing" /\ index \in Slots /\ ~Due(events[index])
      /\ index' = index + 1
      /\ UNCHANGED <<events, nextEvent, days, startTime, lastMyTime,
                     rebootRequested, clock, pc, myTime, lag, age, elapsed>>
  BY DEF SkipSlot, ghosts, TypeOK, Slots
<1>2. TypeOK'
  <2>1. index' \in 0 .. MaxNumEvents
    BY <1>1 DEF Slots
  <2> QED
    BY <1>1, <2>1 DEF TypeOK
<1>3. ClockInv' /\ UptimeInv' /\ ArmedInv'
  <2>1. Unwrapped' = Unwrapped /\ Valid(events)' = Valid(events)
    BY <1>1 DEF Unwrapped, Valid
  <2> QED
    BY <1>1, <2>1 DEF ClockInv, UptimeInv, ArmedInv
<1>4. \A i \in Settled' : i \in Settled \/ (i = index /\ ~events[index].new)
  BY <1>1 DEF Settled, Slots, Valid
<1>5. index \in Valid(events) /\ ~events[index].new =>
        events[index].time \in Nat /\ events[index].time >= myTime
  BY <1>1 DEF Due, Valid, TypeOK
<1>6. myTime = lastMyTime /\ 1 < myTime /\ lastMyTime \in 0 .. Midnight - 1
  BY <1>1 DEF ClockInv, TypeOK
<1>7. Settled' \subseteq Valid(events)
  BY <1>1 DEF Settled, Valid
<1>8. KeptInv'
  <2>1. \A i \in Settled' : events[i].time > 0
    BY <1>1, <1>4, <1>5, <1>6, <1>7 DEF KeptInv
  <2> QED
    BY <1>1, <2>1 DEF KeptInv
<1>9. ASSUME ~rebootRequested' PROVE LateInv'
  <2>1. LateInv
    BY <1>1, <1>9
  <2>2. Valid(events)' = Valid(events) /\ Unwrapped' = Unwrapped
        /\ \A i \in Valid(events) : LateBy(i)' = LateBy(i) /\ LateBy(i) \in Int
    <3>1. \A i \in Valid(events) : LateBy(i) \in Int
      BY ExpirePositive DEF LateBy, Valid, TypeOK
    <3> QED
      BY <1>1, <3>1 DEF Valid, Unwrapped, LateBy
  <2>3. ASSUME NEW i \in Settled' PROVE LateBy(i) <= lag
    <3>1. CASE i \in Settled
      BY <1>1, <1>7, <2>1, <3>1 DEF LateInv
    <3>2. CASE i = index /\ ~events[index].new
      <4>1. LateBy(i) <= Unwrapped - events[i].time
        BY <1>5, <1>6, <1>7, <2>1, <3>2 DEF LateInv
      <4> QED
        BY <1>5, <1>6, <1>7, <2>2, <3>2, <4>1 DEF Unwrapped, TypeOK
    <3> QED
      BY <1>4, <3>1, <3>2
  <2> QED
    BY <1>1, <2>1, <2>2, <2>3 DEF LateInv
<1> QED
  BY <1>2, <1>3, <1>8, <1>9

(* The end of the loop: the whole table is settled, so nextEvent is the    *)
(* time of an event, and not 0.                                            *)
LEMMA CheckMiscEndIInv == ASSUME IInv, CheckMiscEnd PROVE IInv'
<1> USE DEF IInv
<1>1. /\ pc = "firing" /\ index = MaxNumEvents
      /\ nextEvent' = EarliestTime(events) /\ pc' = "main" /\ index' = 0
      /\ UNCHANGED <<events, days, startTime, lastMyTime, rebootRequested, clock,
                     myTime, lag, age, elapsed>>
  BY DEF CheckMiscEnd, ghosts
<1>2. events \in Table
  BY DEF TypeOK, Table, Event
<1>3. Settled = Valid(events)
  BY <1>1 DEF Settled, Valid, Slots
<1>4. Valid(events) # {}
  BY DEF ArmedInv
<1>5. \A i \in Valid(events) : events[i].time > 0
  BY <1>1, <1>3 DEF KeptInv
<1>6. /\ nextEvent' \in Nat /\ nextEvent' > 0
      /\ \A i \in Valid(events) : nextEvent' <= events[i].time
  BY <1>1, <1>2, <1>4, <1>5, Earliest
<1>7. Valid(events)' = Valid(events) /\ Unwrapped' = Unwrapped
  BY <1>1 DEF Valid, Unwrapped
<1>8. TypeOK'
  BY <1>1, <1>6 DEF TypeOK
<1>9. ClockInv' /\ UptimeInv' /\ ArmedInv' /\ KeptInv'
  BY <1>1, <1>6, <1>7 DEF ClockInv, UptimeInv, ArmedInv, KeptInv
<1>10. ASSUME ~rebootRequested' PROVE LateInv'
  <2>1. LateInv
    BY <1>1, <1>10
  <2>2. \A i \in Valid(events) : LateBy(i)' = LateBy(i)
    BY <1>1 DEF LateBy
  <2>3. \A i \in Valid(events) : /\ events[i].time \in Nat
                                 /\ ~(events[i].time = 0)
    BY <1>2, <1>5 DEF Valid, Table, Event
  <2> QED
    BY <1>1, <1>3, <1>5, <1>6, <1>7, <2>1, <2>2, <2>3 DEF LateInv
<1> QED
  BY <1>8, <1>9, <1>10

(* The reboot a manager asks for takes a slot of its own; from then on     *)
(* nothing is promised of the other events' times.                         *)
LEMMA HandleRebootIInv == ASSUME IInv, HandleReboot PROVE IInv'
<1> USE DEF IInv
<1>1. /\ pc = "main" /\ rebootRequested = FALSE /\ rebootRequested' = TRUE
      /\ events' = AddScheduledEvent(events, "reboot")
      /\ nextEvent' = EarliestTime(events') /\ age' = AgeAfterAdd(events)
      /\ UNCHANGED <<days, startTime, lastMyTime, clock, pc, index, myTime, lag,
                     elapsed>>
  BY DEF HandleReboot, TypeOK
<1>2. "reboot" \in CallBacks
  BY DEF CallBacks
<1>3. PICK k \in Slots :
        /\ ~events[k].valid
        /\ AddScheduledEvent(events, "reboot") = [events EXCEPT ![k] = NewEvent("reboot")]
        /\ AgeAfterAdd(events) = [age EXCEPT ![k] = 0]
  BY <1>2, AddsEvent
<1>4. NewEvent("reboot") \in Event
  BY <1>2, AddsEvent
<1>5. events \in Table /\ age \in [Slots -> 0 .. AgeCap]
  BY DEF TypeOK, Table, Event
<1>6. /\ events' \in Table /\ age' \in [Slots -> 0 .. AgeCap]
      /\ events'[k] = NewEvent("reboot")
      /\ \A i \in Slots \ {k} : events'[i] = events[i]
  BY <1>1, <1>3, <1>4, <1>5 DEF Table
<1>7. nextEvent' \in Nat
  BY <1>1, <1>6, Earliest
<1>8. TypeOK'
  BY <1>1, <1>6, <1>7 DEF TypeOK, Table, Event
<1>9. ClockInv' /\ UptimeInv' /\ KeptInv'
  BY <1>1 DEF ClockInv, UptimeInv, KeptInv, Unwrapped
<1>10. ArmedInv'
  <2>1. Valid(events)' = Valid(events) \cup {k} /\ k \notin Valid(events)
    BY <1>3, <1>6 DEF Valid, NewEvent
  <2>2. \A i \in Valid(events) : events'[i] = events[i]
    BY <1>6, <2>1 DEF Valid
  <2>3. events'[k].callBack = "reboot"
    BY <1>6 DEF NewEvent
  <2>4. \A i \in Valid(events) : events[i].callBack # "reboot"
    BY <1>1 DEF ArmedInv
  <2> QED
    BY <1>1, <2>1, <2>2, <2>3, <2>4 DEF ArmedInv
<1> QED
  BY <1>1, <1>8, <1>9, <1>10

(* The reboot itself, and a step in which nothing happens.                 *)
LEMMA StillIInv == ASSUME IInv, FireReboot \/ UNCHANGED vars PROVE IInv'
<1> USE DEF IInv
<1>1. /\ UNCHANGED <<events, nextEvent, days, startTime, lastMyTime,
                     rebootRequested, clock, index, myTime, lag, age, elapsed>>
      /\ pc' = pc \/ (pc' = "rebooted" /\ rebootRequested)
  <2>1. CASE FireReboot
    <3>1. index \in Slots /\ events[index].valid /\ events[index].callBack = "reboot"
      BY <2>1 DEF FireReboot, Due, TypeOK, Slots
    <3> QED
      BY <2>1, <3>1 DEF FireReboot, ghosts, ArmedInv, Valid
  <2>2. CASE UNCHANGED vars
    BY <2>2 DEF vars
  <2> QED
    BY <2>1, <2>2
<1>2. TypeOK'
  BY <1>1 DEF TypeOK
<1>3. ClockInv' /\ UptimeInv' /\ ArmedInv' /\ KeptInv'
  BY <1>1 DEF ClockInv, UptimeInv, ArmedInv, KeptInv, Unwrapped, Valid, Settled
<1>4. ~rebootRequested' => LateInv'
  BY <1>1 DEF LateInv, LateBy, Unwrapped, Valid, Settled
<1> QED
  BY <1>2, <1>3, <1>4

(* The invariant holds in every state.                                     *)
LEMMA IInvAlways == Spec => []IInv
<1>1. ASSUME IInv, [Next]_vars PROVE IInv'
  BY <1>1, TickIInv, CheckMiscIInv, FirePeriodicIInv, SkipSlotIInv,
     CheckMiscEndIInv, HandleRebootIInv, StillIInv DEF Next, MainLoop
<1> QED
  BY InitIInv, <1>1, PTL DEF Spec

-----------------------------------------------------------------------------
(* The theorems.                                                           *)

(* Every variable keeps its type: no time or slot leaves its range, and    *)
(* the two sides of the uptime stay below their cycle.                     *)
THEOREM SchedulerTypeCorrect == Spec => []TypeOK
BY IInvAlways, PTL DEF IInv

(* The table holds exactly one keyboard check and one ARP timer, in every  *)
(* state, however many slots it has: the callback always finds a slot for  *)
(* the event it renews, and the old one is given back.                     *)
THEOREM AlwaysArmed == Spec => []PeriodicArmed
<1>1. ASSUME IInv PROVE PeriodicArmed
  <2> SUFFICES ASSUME NEW c \in {"keyCheckCallBack", "arpCallBack"}
               PROVE  Cardinality({i \in Valid(events) : events[i].callBack = c}) = 1
    BY DEF PeriodicArmed
  <2>1. PICK i \in Valid(events) : events[i].callBack = c
    BY <1>1 DEF IInv, ArmedInv
  <2>2. {j \in Valid(events) : events[j].callBack = c} = {i}
    BY <1>1, <2>1 DEF IInv, ArmedInv
  <2> QED
    BY <2>2, FS_Singleton
<1> QED
  BY <1>1, IInvAlways, PTL

(* nextEvent is never 0 while an event is pending, unless a reboot has     *)
(* been asked for: RetimeNext and the settled table keep it positive.      *)
THEOREM NextEventAlwaysKept == Spec => []NextEventKept
<1>1. IInv => NextEventKept
  BY DEF IInv, KeptInv, NextEventKept, NextEventPending, TypeOK
<1> QED
  BY <1>1, IInvAlways, PTL

(* No event is late by more than three rounds of the main loop, past any   *)
(* number of midnights, for every length of a round that is shorter than   *)
(* a day.                                                                  *)
THEOREM NoEventLate == Spec => []NeverLate
<1>1. ASSUME IInv, ~rebootRequested, NEW i \in Valid(events)
      PROVE  age[i] <= Expire(events[i].callBack) + Lateness
  <2>1. TypeOK /\ LateInv
    BY <1>1 DEF IInv
  <2>2. /\ i \in Slots /\ age[i] \in Nat /\ events[i].time \in Nat
        /\ Expire(events[i].callBack) \in Nat /\ lag \in 0 .. MaxLag
    BY <2>1, ExpirePositive DEF TypeOK, Valid
  <2>3. LateBy(i) <= Lateness
    <3>1. CASE pc = "firing"
      BY <2>1, <2>2, <3>1 DEF LateInv, LateBy, Lateness
    <3>2. CASE pc = "main"
      BY <2>1, <2>2, <3>2 DEF LateInv, LateBy, Lateness, Unwrapped, TypeOK
    <3>3. pc # "rebooted"
      BY <1>1 DEF IInv, ArmedInv
    <3> QED
      BY <2>1, <3>1, <3>2, <3>3 DEF TypeOK
  <2> QED
    BY <2>2, <2>3 DEF LateBy, Lateness
<1>2. IInv => NeverLate
  BY <1>1 DEF NeverLate
<1> QED
  BY <1>2, IInvAlways, PTL

(* The uptime of the statistics is the time since the program started,     *)
(* modulo the cycle of the counter of days: no midnight is missed or       *)
(* counted twice.                                                          *)
THEOREM UptimeAlwaysExact == Spec => []UptimeExact
<1>1. ASSUME IInv, clock >= lastMyTime PROVE Uptime = elapsed
  <2>1. clock = Unwrapped
    BY <1>1 DEF IInv, TypeOK, ClockInv, Unwrapped
  <2>2. PICK q \in Int : days * Midnight + Unwrapped - startTime = elapsed + q * Cycle
    BY <1>1 DEF IInv, UptimeInv
  <2>3. elapsed \in 0 .. Cycle - 1
    BY <1>1, CycleType DEF IInv, TypeOK
  <2>4. (elapsed + q * Cycle) % Cycle = elapsed
    BY <2>3, CycleType, ModUnique
  <2> QED
    BY <2>1, <2>2, <2>4 DEF Uptime, Cycle
<1>2. IInv => UptimeExact
  BY <1>1 DEF UptimeExact
<1> QED
  BY <1>2, IInvAlways, PTL
=============================================================================
