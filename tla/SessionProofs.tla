--------------------------- MODULE SessionProofs ----------------------------
(***************************************************************************)
(* Theorems about Session, for any managers, commands and faults, as long  *)
(* as there is a half of a key that is not in use.                         *)
(***************************************************************************)
EXTENDS Session, FiniteSetTheorems, FunctionTheorems, SequenceTheorems, TLAPS

-----------------------------------------------------------------------------
(* What the theorems assume: the random halves do not repeat while the old *)
(* ones are in use.  FreshAlways shows it of halves without end.           *)
FreshHalf == \E h \in Halves : h \notin HalvesInUse

(* The invariant the proofs are built on.                                  *)

FinKeys     == {k \in Keys : IsFiniteSet(k.halves)}
PacketTypes == Kinds \cup {"SYNC", "SYNCACK", "ACK"} \cup Codes
Packets == [type : PacketTypes, flags : BOOLEAN, half : HalfSets, word : NoneOrPassword,
            cipher : FinKeys, of : FinKeys, more : BOOLEAN]
Bridges == [passwordLoaded : BOOLEAN, password : NoneOrPassword, sessionKeyValid : BOOLEAN,
            sessionKey : FinKeys, rebootRequested : BOOLEAN]
Sides   == [pc : {"idle", "sync", "wait"}, secure : BOOLEAN, synced : BOOLEAN,
            half : HalfSets, key : FinKeys, word : NoneOrPassword, sent : NoneOrPassword,
            misled : BOOLEAN, owed : BOOLEAN]
Writes  == [from : Managers, of : FinKeys, word : NoneOrPassword]

TypeInv ==
  /\ bridge \in Bridges /\ file \in NoneOrPassword \cup {"empty"}
  /\ writing = {} \/ \E w \in Writes : writing = {w}
  /\ up \in [Managers -> Seq(Packets)] /\ down \in [Managers -> Seq(Packets)]
  /\ mgr \in [Managers -> Sides]
  /\ left \in [Managers -> Nat] /\ faults \in Nat
  /\ ran \subseteq FinKeys /\ IsFiniteSet(ran)
  /\ newest \subseteq Managers /\ spoilt \in BOOLEAN
  /\ bridge.sessionKeyValid => bridge.passwordLoaded

(* A manager has a key once it is synchronised, and waits for the answer   *)
(* to a command it still has.                                              *)
Stages ==
  \A m \in Managers :
    /\ mgr[m].synced => mgr[m].secure /\ mgr[m].pc # "sync" /\ mgr[m].key.halves # {}
    /\ ~mgr[m].synced => mgr[m].key = Clear
    /\ mgr[m].pc = "sync" => mgr[m].secure /\ mgr[m].half # {}
    /\ mgr[m].pc = "wait" /\ mgr[m].secure => mgr[m].synced
    /\ mgr[m].pc # "idle" => left[m] > 0
    /\ mgr[m].owed => mgr[m].pc = "idle" /\ (mgr[m].secure => mgr[m].synced)

(* The packets on their way, and the places that were taken for commands   *)
(* which are on their way, in hand or refused; of the last two, and of the *)
(* commands that were run, the bridge is done with.                        *)
UpPackets   == UNION {Range(up[m]) : m \in Managers}
DownPackets == UNION {Range(down[m]) : m \in Managers}
Acks        == {p \in DownPackets : p.type = "ACK"}
Failures    == {p \in DownPackets : p.type = "FAILED"}
Places == {p.cipher : p \in UpPackets} \cup {p.of : p \in Failures} \cup {w.of : w \in writing}
Done   == ran \cup {p.of : p \in Failures} \cup {w.of : w \in writing}

(* The half a manager sent with SYNC: nobody has a key with it but the     *)
(* bridge, and that has not been used.                                     *)
Private ==
  \A m \in Managers : mgr[m].pc = "sync" => \A h \in mgr[m].half :
    /\ \A k \in Places : h \notin k.halves
    /\ \A p \in Acks : h \notin p.cipher.halves
    /\ \A p \in DownPackets : p.type = "SYNCACK" => h \notin p.half
    /\ \A n \in Managers : /\ mgr[n].synced => h \notin mgr[n].key.halves
                           /\ n # m /\ mgr[n].pc = "sync" => h \notin mgr[n].half
    /\ h \in bridge.sessionKey.halves => bridge.sessionKey.pos = 0

(* What was enciphered with a manager's key, by the manager or in answer   *)
(* to it, was so at earlier places than the next; no two managers have the *)
(* same key.                                                               *)
Behind ==
  \A m \in Managers : mgr[m].synced =>
    /\ \A k \in Places : k.halves = mgr[m].key.halves => k.pos < mgr[m].key.pos
    /\ \A p \in Acks : p.cipher.halves = mgr[m].key.halves
                         => p.cipher.pos <= mgr[m].key.pos
    /\ \A n \in Managers \ {m} : mgr[n].synced => mgr[n].key.halves # mgr[m].key.halves

(* What the bridge took and answered, it did at earlier places of its      *)
(* stream.                                                                 *)
UsedUp ==
  bridge.sessionKeyValid =>
    /\ \A k \in Done :
         k.halves = bridge.sessionKey.halves => k.pos < bridge.sessionKey.pos
    /\ \A p \in Acks :
         p.cipher.halves = bridge.sessionKey.halves => p.cipher.pos < bridge.sessionKey.pos
    /\ \A m \in newest :
         mgr[m].key.halves = bridge.sessionKey.halves => mgr[m].key.pos <= bridge.sessionKey.pos

(* A manager that waits is one place ahead of the bridge, or at the same   *)
(* place if the handler failed or sent nothing yet, or one behind if its   *)
(* answer is on the way.                                                   *)
Ahead(of) == IF of THEN 1 ELSE 0
SameKey(m) == /\ mgr[m].synced /\ ~mgr[m].misled /\ bridge.sessionKeyValid
              /\ mgr[m].key.halves = bridge.sessionKey.halves
InStep ==
  \A m \in Managers : SameKey(m) =>
    /\ mgr[m].pc = "idle" => bridge.sessionKey.pos = mgr[m].key.pos + Ahead(mgr[m].owed)
    /\ mgr[m].pc = "wait" =>
         /\ bridge.sessionKey.pos \in mgr[m].key.pos - 1 .. mgr[m].key.pos + 1
         /\ \A p \in Failures :
              p.of = Place(m) => bridge.sessionKey.pos = mgr[m].key.pos + Ahead(p.more)

(* An answer on its way to a manager that waits for it says that the       *)
(* command was run.                                                        *)
AnswersRan ==
  \A m \in Managers, p \in Acks : mgr[m].synced /\ p.cipher = mgr[m].key => Place(m) \in ran

(* While the bridge writes a password, it is at the place of the answer,   *)
(* and nobody with the same key does anything but wait for it.             *)
InHand ==
  \A w \in writing : bridge.sessionKeyValid =>
    /\ w.of.halves = bridge.sessionKey.halves /\ bridge.sessionKey.pos = w.of.pos + 1
    /\ \A p \in Failures : p.of # w.of
    /\ \A m \in Managers : /\ SameKey(m) => /\ mgr[m].pc = "wait"
                                           /\ mgr[m].key.pos = bridge.sessionKey.pos
                           /\ mgr[m].synced /\ Place(m) = w.of => Place(m) \in ran

(* A NEWKEY at the place of a manager's last command is that command.      *)
OwnWord ==
  \A m \in Managers : mgr[m].synced /\ mgr[m].pc = "wait" =>
    \A p \in UpPackets : p.type = "newkey" /\ p.cipher = Place(m) => p.word = mgr[m].sent

(* The manager for which the file was last opened waits, and an answer to  *)
(* it that is on its way tells the truth about the file.                   *)
Written ==
  \A m \in newest :
    /\ mgr[m].synced /\ mgr[m].pc = "wait"
    /\ \A w \in writing : w.word = mgr[m].sent
    /\ \A p \in Acks : p.cipher = mgr[m].key =>
         writing = {} /\ (spoilt \/ file = mgr[m].sent)

KeysInv == Private /\ Behind /\ UsedUp /\ InStep /\ AnswersRan /\ InHand /\ OwnWord /\ Written
IInv    == TypeInv /\ Stages /\ KeysInv

-----------------------------------------------------------------------------
(* Lemmas on the channels.                                                 *)

(* A packet taken out.                                                     *)
LEMMA Removed ==
  ASSUME NEW S, NEW s \in Seq(S), NEW i \in DOMAIN s
  PROVE  /\ RemoveAt(s, i) \in Seq(S) /\ Range(RemoveAt(s, i)) \subseteq Range(s)
         /\ Tail(s) \in Seq(S) /\ Range(Tail(s)) \subseteq Range(s)
         /\ s[i] \in S /\ s[i] \in Range(s)
<1>1. /\ Len(s) \in Nat /\ DOMAIN s = 1 .. Len(s) /\ i \in 1 .. Len(s)
      /\ s[i] \in S /\ s[i] \in Range(s)
  BY DEF Range
<1>2. RemoveAt(s, i) \in Seq(S) /\ Range(RemoveAt(s, i)) \subseteq Range(s)
  <2> DEFINE a == SubSeq(s, 1, i - 1)
             b == SubSeq(s, i + 1, Len(s))
  <2>1. /\ a \in Seq(S) /\ Len(a) = i - 1
        /\ \A j \in 1 .. i - 1 : a[j] = s[j]
    BY <1>1, SubSeqProperties
  <2>2. /\ b \in Seq(S) /\ Len(b) = Len(s) - i
        /\ \A j \in 1 .. Len(s) - i : b[j] = s[i + j]
    BY <1>1, SubSeqProperties
  <2> HIDE DEF a, b
  <2>3. /\ a \o b \in Seq(S) /\ Len(a \o b) = Len(s) - 1
        /\ \A j \in 1 .. Len(s) - 1 : (a \o b)[j] = IF j <= i - 1 THEN a[j] ELSE b[j - (i - 1)]
    <3>1. /\ a \o b \in Seq(S) /\ Len(a \o b) = Len(a) + Len(b)
          /\ \A j \in 1 .. Len(a) + Len(b) :
               (a \o b)[j] = IF j <= Len(a) THEN a[j] ELSE b[j - Len(a)]
      BY <2>1, <2>2, ConcatProperties
    <3>2. Len(a) = i - 1 /\ Len(b) = Len(s) - i /\ Len(a) + Len(b) = Len(s) - 1
      BY <1>1, <2>1, <2>2
    <3> QED
      BY <3>1, <3>2
  <2>4. ASSUME NEW j \in 1 .. Len(s) - 1 PROVE (a \o b)[j] \in Range(s)
    <3>1. CASE j <= i - 1
      BY <1>1, <2>1, <2>3, <3>1 DEF Range
    <3>2. CASE ~(j <= i - 1)
      <4>1. /\ j - (i - 1) \in 1 .. Len(s) - i
            /\ i + (j - (i - 1)) \in DOMAIN s
        BY <1>1, <3>2
      <4> QED
        BY <2>2, <2>3, <3>2, <4>1 DEF Range
    <3> QED
      BY <3>1, <3>2
  <2>5. DOMAIN (a \o b) = 1 .. Len(s) - 1
    BY <2>3
  <2> QED
    BY <2>3, <2>4, <2>5 DEF RemoveAt, Range, a, b
<1>3. Tail(s) \in Seq(S) /\ Range(Tail(s)) \subseteq Range(s)
  <2>1. s # <<>>
    BY <1>1
  <2>2. /\ Tail(s) \in Seq(S) /\ Len(Tail(s)) = Len(s) - 1
        /\ \A j \in 1 .. Len(Tail(s)) : Tail(s)[j] = s[j + 1]
    BY <2>1, HeadTailProperties
  <2>3. \A j \in DOMAIN Tail(s) : j + 1 \in DOMAIN s /\ Tail(s)[j] = s[j + 1]
    BY <1>1, <2>2
  <2> QED
    BY <2>2, <2>3 DEF Range
<1> QED
  BY <1>1, <1>2, <1>3

(* A packet sent.                                                          *)
LEMMA Appended ==
  ASSUME NEW S, NEW s \in Seq(S), NEW x \in S
  PROVE  Append(s, x) \in Seq(S) /\ Range(Append(s, x)) = Range(s) \cup {x}
<1>1. /\ Append(s, x) \in Seq(S) /\ Len(Append(s, x)) = Len(s) + 1 /\ Len(s) \in Nat
      /\ \A j \in 1 .. Len(s) : Append(s, x)[j] = s[j]
      /\ Append(s, x)[Len(s) + 1] = x
  BY AppendProperties
<1>2. DOMAIN s = 1 .. Len(s) /\ DOMAIN Append(s, x) = 1 .. Len(s) + 1
  BY <1>1
<1> QED
  BY <1>1, <1>2 DEF Range

(* One channel of the managers' loses packets.                             *)
LEMMA UpShrinks ==
  ASSUME TypeInv, NEW m \in Managers, NEW rest \in Seq(Packets),
         Range(rest) \subseteq Range(up[m]), up' = [up EXCEPT ![m] = rest]
  PROVE  up' \in [Managers -> Seq(Packets)] /\ UpPackets' \subseteq UpPackets
<1>1. /\ up'[m] = rest /\ \A n \in Managers \ {m} : up'[n] = up[n]
      /\ up' \in [Managers -> Seq(Packets)]
  BY DEF TypeInv
<1>2. \A n \in Managers : Range(up'[n]) \subseteq Range(up[n])
  BY <1>1
<1> QED
  BY <1>1, <1>2 DEF UpPackets

(* One of the bridge's.                                                    *)
LEMMA DownShrinks ==
  ASSUME TypeInv, NEW m \in Managers, NEW rest \in Seq(Packets),
         Range(rest) \subseteq Range(down[m]), down' = [down EXCEPT ![m] = rest]
  PROVE  down' \in [Managers -> Seq(Packets)] /\ DownPackets' \subseteq DownPackets
<1>1. /\ down'[m] = rest /\ \A n \in Managers \ {m} : down'[n] = down[n]
      /\ down' \in [Managers -> Seq(Packets)]
  BY DEF TypeInv
<1>2. \A n \in Managers : Range(down'[n]) \subseteq Range(down[n])
  BY <1>1
<1> QED
  BY <1>1, <1>2 DEF DownPackets

(* A manager sends a packet.                                               *)
LEMMA UpGrows ==
  ASSUME TypeInv, NEW m \in Managers, NEW q \in Packets,
         up' = [up EXCEPT ![m] = Append(@, q)]
  PROVE  up' \in [Managers -> Seq(Packets)] /\ UpPackets' \subseteq UpPackets \cup {q}
<1>1. up[m] \in Seq(Packets)
  BY DEF TypeInv
<1>2. Append(up[m], q) \in Seq(Packets) /\ Range(Append(up[m], q)) = Range(up[m]) \cup {q}
  BY <1>1, Appended
<1>3. /\ up'[m] = Append(up[m], q) /\ \A n \in Managers \ {m} : up'[n] = up[n]
      /\ up' \in [Managers -> Seq(Packets)]
  BY <1>2 DEF TypeInv
<1>4. \A n \in Managers : Range(up'[n]) \subseteq Range(up[n]) \cup {q}
  BY <1>2, <1>3
<1> QED
  BY <1>3, <1>4 DEF UpPackets

(* The bridge does.                                                        *)
LEMMA DownGrows ==
  ASSUME TypeInv, NEW m \in Managers, NEW q \in Packets,
         down' = [down EXCEPT ![m] = Append(@, q)]
  PROVE  down' \in [Managers -> Seq(Packets)] /\ DownPackets' \subseteq DownPackets \cup {q}
<1>1. down[m] \in Seq(Packets)
  BY DEF TypeInv
<1>2. Append(down[m], q) \in Seq(Packets) /\ Range(Append(down[m], q)) = Range(down[m]) \cup {q}
  BY <1>1, Appended
<1>3. /\ down'[m] = Append(down[m], q) /\ \A n \in Managers \ {m} : down'[n] = down[n]
      /\ down' \in [Managers -> Seq(Packets)]
  BY <1>2 DEF TypeInv
<1>4. \A n \in Managers : Range(down'[n]) \subseteq Range(down[n]) \cup {q}
  BY <1>2, <1>3
<1> QED
  BY <1>3, <1>4 DEF DownPackets

(* Two packets sent.                                                       *)
LEMMA Joined ==
  ASSUME NEW S, NEW s \in Seq(S), NEW t \in Seq(S)
  PROVE  s \o t \in Seq(S) /\ Range(s \o t) \subseteq Range(s) \cup Range(t)
<1>1. /\ s \o t \in Seq(S) /\ Len(s \o t) = Len(s) + Len(t)
      /\ \A j \in 1 .. Len(s) + Len(t) : (s \o t)[j] = IF j <= Len(s) THEN s[j] ELSE t[j - Len(s)]
      /\ Len(s) \in Nat /\ Len(t) \in Nat
  BY ConcatProperties
<1>2. DOMAIN s = 1 .. Len(s) /\ DOMAIN t = 1 .. Len(t) /\ DOMAIN (s \o t) = 1 .. Len(s) + Len(t)
  BY <1>1
<1>3. ASSUME NEW j \in 1 .. Len(s) + Len(t) PROVE (s \o t)[j] \in Range(s) \cup Range(t)
  <2>1. CASE j <= Len(s)
    BY <1>1, <1>2, <2>1 DEF Range
  <2>2. CASE ~(j <= Len(s))
    <3>1. j - Len(s) \in DOMAIN t
      BY <1>1, <1>2, <2>2
    <3> QED
      BY <1>1, <2>2, <3>1 DEF Range
  <2> QED
    BY <2>1, <2>2
<1> QED
  BY <1>1, <1>2, <1>3 DEF Range

(* The bridge sends two.                                                   *)
LEMMA DownGrowsTwo ==
  ASSUME TypeInv, NEW m \in Managers, NEW a \in Packets, NEW b \in Packets,
         down' = [down EXCEPT ![m] = @ \o <<a, b>>]
  PROVE  down' \in [Managers -> Seq(Packets)] /\ DownPackets' \subseteq DownPackets \cup {a, b}
<1>1. down[m] \in Seq(Packets) /\ <<a, b>> \in Seq(Packets)
  BY DEF TypeInv
<1>2. Range(<<a, b>>) = {a, b}
  BY DEF Range
<1>3. /\ down[m] \o <<a, b>> \in Seq(Packets)
      /\ Range(down[m] \o <<a, b>>) \subseteq Range(down[m]) \cup {a, b}
  BY <1>1, <1>2, Joined
<1>4. /\ down'[m] = down[m] \o <<a, b>> /\ \A n \in Managers \ {m} : down'[n] = down[n]
      /\ down' \in [Managers -> Seq(Packets)]
  BY <1>3 DEF TypeInv
<1>5. \A n \in Managers : Range(down'[n]) \subseteq Range(down[n]) \cup {a, b}
  BY <1>3, <1>4
<1> QED
  BY <1>4, <1>5 DEF DownPackets

(* What arrives was on its way.                                            *)
LEMMA Arrival ==
  ASSUME TypeInv, NEW s \in Seq(Packets), NEW i \in DOMAIN s, NEW rest, Arrives(s, i, rest)
  PROVE  /\ rest \in Seq(Packets) /\ Range(rest) \subseteq Range(s)
         /\ s[i] \in Packets /\ s[i] \in Range(s) /\ faults' \in Nat
<1>1. faults' \in Nat
  BY DEF TypeInv, Arrives, Fault, NoFault
<1>2. /\ RemoveAt(s, i) \in Seq(Packets) /\ Range(RemoveAt(s, i)) \subseteq Range(s)
      /\ Tail(s) \in Seq(Packets) /\ Range(Tail(s)) \subseteq Range(s)
      /\ s[i] \in Packets /\ s[i] \in Range(s)
  BY Removed
<1>3. rest \in {RemoveAt(s, i), Tail(s), s}
  BY DEF Arrives
<1> QED
  BY <1>1, <1>2, <1>3

-----------------------------------------------------------------------------
(* Lemmas on keys and packets.                                             *)

(* The parts of the state are of their types.                              *)
LEMMA Types ==
  ASSUME TypeInv
  PROVE  /\ \A p \in UpPackets \cup DownPackets :
              /\ p \in Packets /\ p.cipher \in FinKeys /\ p.of \in FinKeys
              /\ p.cipher.pos \in Nat /\ p.of.pos \in Nat
              /\ p.half \in HalfSets /\ p.word \in NoneOrPassword
         /\ \A k \in Places \cup Done : k \in FinKeys /\ k.pos \in Nat
         /\ bridge.sessionKey \in FinKeys /\ bridge.sessionKey.pos \in Nat
         /\ \A m \in Managers : /\ mgr[m] \in Sides /\ mgr[m].key \in FinKeys
                                /\ mgr[m].key.pos \in Nat /\ mgr[m].half \in HalfSets
                                /\ mgr[m].word \in NoneOrPassword
<1>1. ASSUME NEW p \in UpPackets \cup DownPackets PROVE p \in Packets
  <2>1. PICK m \in Managers : p \in Range(up[m]) \/ p \in Range(down[m])
    BY DEF UpPackets, DownPackets
  <2>2. up[m] \in Seq(Packets) /\ down[m] \in Seq(Packets)
    BY DEF TypeInv
  <2>3. ASSUME NEW s \in Seq(Packets), p \in Range(s) PROVE p \in Packets
    BY <2>3 DEF Range
  <2> QED
    BY <2>1, <2>2, <2>3
<1>2. \A p \in Packets : /\ p.cipher \in FinKeys /\ p.of \in FinKeys
                         /\ p.cipher.pos \in Nat /\ p.of.pos \in Nat
                         /\ p.half \in HalfSets /\ p.word \in NoneOrPassword
  BY DEF Packets, FinKeys, Keys
<1>3. bridge.sessionKey \in FinKeys /\ bridge.sessionKey.pos \in Nat
  BY DEF TypeInv, Bridges, FinKeys, Keys
<1>4. ASSUME NEW m \in Managers
      PROVE  /\ mgr[m] \in Sides /\ mgr[m].key \in FinKeys
             /\ mgr[m].key.pos \in Nat /\ mgr[m].half \in HalfSets
             /\ mgr[m].word \in NoneOrPassword
  <2>1. mgr[m] \in Sides
    BY DEF TypeInv
  <2> QED
    BY <2>1 DEF Sides, FinKeys, Keys
<1>5. ASSUME NEW k \in Places \cup Done PROVE k \in FinKeys /\ k.pos \in Nat
  <2>1. \A p \in Failures : p \in Packets
    BY <1>1 DEF Failures
  <2>2. \A w \in writing : w.of \in FinKeys
    BY DEF TypeInv, Writes
  <2>3. \A p \in UpPackets : p.cipher \in FinKeys
    BY <1>1, <1>2
  <2>4. ran \subseteq FinKeys
    BY DEF TypeInv
  <2>5. k \in FinKeys
    BY <1>2, <2>1, <2>2, <2>3, <2>4 DEF Places, Done
  <2> QED
    BY <2>5 DEF FinKeys, Keys
<1> QED
  BY <1>1, <1>2, <1>3, <1>4, <1>5

(* What a half may be deciphered to.                                       *)
Parts == HalfSets \cup {{Garbage}}

(* How the places of a stream are counted, and what a new key is.          *)
LEMMA KeyTypes ==
  /\ Clear \in FinKeys /\ Clear.halves = {} /\ Clear.pos = 0
  /\ \A k \in FinKeys : /\ Advance(k) \in FinKeys /\ Advance(k).halves = k.halves
                        /\ Advance(k).pos = k.pos + 1 /\ k.pos \in Nat
                        /\ k = [halves |-> k.halves, pos |-> k.pos]
  /\ \A a, b \in Parts : /\ NewKey(a, b) \in FinKeys
                         /\ NewKey(a, b).halves = a \cup b /\ NewKey(a, b).pos = 0
<1>1. \A a \in Parts : IsFiniteSet(a)
  <2>1. IsFiniteSet({}) /\ \A h \in Halves \cup {Garbage} : IsFiniteSet({h})
    BY FS_EmptySet, FS_Singleton
  <2>2. \A a \in Parts : a = {} \/ \E h \in Halves \cup {Garbage} : a = {h}
    BY DEF Parts, HalfSets
  <2> QED
    BY <2>1, <2>2
<1>2. \A a, b \in Parts : IsFiniteSet(a \cup b)
  BY <1>1, FS_Union
<1>3. Clear \in FinKeys /\ Clear.halves = {} /\ Clear.pos = 0
  BY FS_EmptySet DEF FinKeys, Keys, Clear
<1>4. ASSUME NEW k \in FinKeys
      PROVE  /\ Advance(k) \in FinKeys /\ Advance(k).halves = k.halves
             /\ Advance(k).pos = k.pos + 1 /\ k.pos \in Nat
             /\ k = [halves |-> k.halves, pos |-> k.pos]
  BY DEF FinKeys, Keys, Advance
<1>5. ASSUME NEW a \in Parts, NEW b \in Parts
      PROVE  /\ NewKey(a, b) \in FinKeys
             /\ NewKey(a, b).halves = a \cup b /\ NewKey(a, b).pos = 0
  BY <1>2 DEF FinKeys, Keys, NewKey, Parts, HalfSets
<1> QED
  BY <1>3, <1>4, <1>5

(* A half that was deciphered.                                             *)
LEMMA DecipheredTypes ==
  ASSUME TypeInv, NEW p \in UpPackets \cup DownPackets, NEW password
  PROVE  Deciphered(p, password) \in Parts
BY Types DEF Deciphered, Parts

(* A new half is in no packet and in no key.                               *)
LEMMA NewHalfIsNew ==
  ASSUME FreshHalf
  PROVE  /\ NewHalf \in Halves /\ NewHalf # Garbage /\ {NewHalf} \in HalfSets
         /\ \A p \in UpPackets \cup DownPackets :
              NewHalf \notin p.cipher.halves /\ NewHalf \notin p.half /\ NewHalf \notin p.of.halves
         /\ \A k \in Places \cup Done : NewHalf \notin k.halves
         /\ NewHalf \notin bridge.sessionKey.halves
         /\ \A m \in Managers : NewHalf \notin mgr[m].key.halves /\ NewHalf \notin mgr[m].half
<1>1. NewHalf \in Halves /\ NewHalf \notin HalvesInUse /\ NewHalf # Garbage
  BY SessionAssumption DEF FreshHalf, NewHalf
<1>2. {NewHalf} \in HalfSets
  BY <1>1 DEF HalfSets
<1>3. UpPackets \cup DownPackets \subseteq OnTheWay
  BY DEF UpPackets, DownPackets, OnTheWay
<1>4. /\ \A p \in OnTheWay : p.cipher.halves \cup p.half \cup p.of.halves \subseteq HalvesInUse
      /\ \A k \in ran : k.halves \subseteq HalvesInUse
      /\ \A w \in writing : w.of.halves \subseteq HalvesInUse
      /\ bridge.sessionKey.halves \subseteq HalvesInUse
      /\ \A m \in Managers : mgr[m].key.halves \cup mgr[m].half \subseteq HalvesInUse
  BY DEF HalvesInUse
<1>5. \A k \in Places \cup Done : NewHalf \notin k.halves
  BY <1>1, <1>3, <1>4 DEF Places, Done, Failures
<1> QED
  BY <1>1, <1>2, <1>3, <1>4, <1>5

-----------------------------------------------------------------------------
(* What the steps of the bridge and of the network do to the keys.         *)

(* Nothing is taken, answered or refused.                                  *)
LEMMA Fewer ==
  ASSUME UpPackets' \subseteq UpPackets, writing' \subseteq writing, ran' = ran,
         \A p \in DownPackets' : p \in DownPackets \/ p.type \notin {"ACK", "FAILED"}
  PROVE  /\ Acks' \subseteq Acks /\ Failures' \subseteq Failures
         /\ Places' \subseteq Places /\ Done' \subseteq Done
<1>1. Acks' \subseteq Acks /\ Failures' \subseteq Failures
  BY DEF Acks, Failures
<1>2. Places' \subseteq Places /\ Done' \subseteq Done
  BY <1>1 DEF Places, Done
<1> QED
  BY <1>1, <1>2

(* No key is used; the bridge may drop its own.                            *)
LEMMA KeysUnused ==
  ASSUME IInv, UpPackets' \subseteq UpPackets, mgr' = mgr, ran' = ran,
         \A p \in DownPackets' : p \in DownPackets \/ p.type \notin {"ACK", "SYNCACK", "FAILED"},
         writing' \subseteq writing, UNCHANGED <<file, newest, spoilt>>,
         \/ /\ bridge'.sessionKey = bridge.sessionKey
            /\ bridge'.sessionKeyValid = bridge.sessionKeyValid
         \/ bridge'.sessionKey = Clear /\ bridge'.sessionKeyValid = FALSE
  PROVE  KeysInv'
<1> USE DEF IInv, KeysInv
<1>1. /\ \A m \in Managers : Place(m)' = Place(m)
      /\ Acks' \subseteq Acks /\ Failures' \subseteq Failures
      /\ Places' \subseteq Places /\ Done' \subseteq Done
  BY Fewer DEF Place
<1>2. \A m \in Managers : SameKey(m)' => SameKey(m) /\ bridge'.sessionKey = bridge.sessionKey
  BY DEF SameKey
<1>3. Private'
  BY <1>1, KeyTypes DEF Private
<1>4. Behind'
  BY <1>1 DEF Behind
<1>5. UsedUp'
  BY <1>1 DEF UsedUp
<1>6. InStep'
  BY <1>1, <1>2 DEF InStep
<1>7. AnswersRan'
  BY <1>1 DEF AnswersRan
<1>8. InHand'
  BY <1>1, <1>2 DEF InHand
<1>9. OwnWord' /\ Written'
  BY <1>1 DEF OwnWord, Written
<1> QED
  BY <1>3, <1>4, <1>5, <1>6, <1>7, <1>8, <1>9

(* SYNC: the bridge has a new key, with a half that nobody has seen.       *)
LEMMA KeysSynchronised ==
  ASSUME IInv, FreshHalf, UpPackets' \subseteq UpPackets, mgr' = mgr, ran' = ran,
         \A p \in DownPackets' :
           p \in DownPackets \/ (p.type = "SYNCACK" /\ p.half = {NewHalf}),
         writing' = {}, UNCHANGED <<file, newest, spoilt>>,
         NEW half \in Parts, bridge'.sessionKey = NewKey({NewHalf}, half)
  PROVE  KeysInv'
<1> USE DEF IInv, KeysInv
<1>1. /\ bridge'.sessionKey.halves = {NewHalf} \cup half
      /\ bridge'.sessionKey.pos = 0
  BY KeyTypes, NewHalfIsNew DEF Parts
<1>2. /\ \A m \in Managers : Place(m)' = Place(m)
      /\ Acks' \subseteq Acks /\ Failures' \subseteq Failures
      /\ Places' \subseteq Places /\ Done' \subseteq Done
  BY Fewer DEF Place
<1>3. \A p \in Acks : p \in DownPackets
  BY DEF Acks
<1>4. Private'
  <2>1. ASSUME NEW m \in Managers, mgr[m].pc = "sync", NEW h \in mgr[m].half,
               NEW p \in DownPackets', p.type = "SYNCACK"
        PROVE  h \notin p.half
    <3>1. h # NewHalf
      BY <2>1, NewHalfIsNew
    <3>2. p \in DownPackets \/ p.half = {NewHalf}
      BY <2>1
    <3> QED
      BY <2>1, <3>1, <3>2 DEF Private
  <2> QED
    BY <1>1, <1>2, <2>1 DEF Private
<1>5. Behind'
  BY <1>2 DEF Behind
<1>6. UsedUp'
  BY <1>1, <1>2, <1>3, NewHalfIsNew DEF UsedUp, TypeInv
<1>7. InStep'
  BY <1>1, NewHalfIsNew DEF InStep, SameKey
<1>8. AnswersRan' /\ InHand'
  BY <1>2 DEF AnswersRan, InHand
<1>9. OwnWord' /\ Written'
  BY <1>2 DEF OwnWord, Written
<1> QED
  BY <1>4, <1>5, <1>6, <1>7, <1>8, <1>9

(* A command was taken and nothing of the stream is left to be sent, or    *)
(* its password is now to be written; sent is what was sent.               *)
Taken(p, sent) ==
  /\ UpPackets' \subseteq UpPackets /\ mgr' = mgr
  /\ DownPackets' \subseteq DownPackets \cup sent
  /\ bridge'.sessionKeyValid = bridge.sessionKeyValid
  /\ bridge'.sessionKey \in {Read, Used(Read)}
  /\ \A a \in sent :
       \/ /\ a.type = "ACK" /\ bridge'.sessionKey = Used(Read)
          /\ a.cipher = IF bridge.sessionKeyValid THEN Read ELSE Clear
       \/ /\ a.type = "FAILED" /\ a.of = p.cipher
          /\ bridge'.sessionKey = IF a.more THEN Used(Read) ELSE Read
  /\ \/ writing' = {} /\ UNCHANGED <<file, newest, spoilt>>
     \/ /\ sent = {} /\ bridge'.sessionKey = Read
        /\ \E w \in Writes :
             writing' = {w} /\ w.of = p.cipher /\ w.word = p.word /\ p.type = "newkey"
        /\ newest' = {n \in Managers : /\ bridge.passwordLoaded /\ mgr[n].pc = "wait"
                                       /\ mgr[n].synced /\ Place(n) = p.cipher}

(* No place is taken that was not one of a command.                        *)
LEMMA TakenPlaces ==
  ASSUME NEW p \in UpPackets, NEW sent, Taken(p, sent), writing = {},
         ran' \subseteq ran \cup {p.cipher}
  PROVE  /\ Places' \subseteq Places /\ Done' \subseteq Done \cup {p.cipher}
         /\ \A a \in Acks' : a \in Acks \/ (a \in sent /\ a.type = "ACK")
         /\ \A a \in Failures' : a \in Failures \/ (a \in sent /\ a.type = "FAILED")
         /\ \A a \in DownPackets' : a.type = "SYNCACK" => a \in DownPackets
         /\ \A w \in writing' : w.of = p.cipher /\ sent = {}
<1>1. /\ \A a \in Acks' : a \in Acks \/ (a \in sent /\ a.type = "ACK")
      /\ \A a \in Failures' : a \in Failures \/ (a \in sent /\ a.type = "FAILED")
  BY DEF Taken, Acks, Failures
<1>2. \A a \in sent : a.type = "FAILED" => a.of = p.cipher
  BY DEF Taken
<1>3. \A w \in writing' : w.of = p.cipher /\ sent = {}
  BY DEF Taken
<1>4. Places' \subseteq Places
  BY <1>1, <1>2, <1>3 DEF Places, Taken
<1>5. Done' \subseteq Done \cup {p.cipher}
  BY <1>1, <1>2, <1>3 DEF Done
<1>6. \A a \in DownPackets' : a.type = "SYNCACK" => a \in DownPackets
  BY DEF Taken
<1> QED
  BY <1>1, <1>3, <1>4, <1>5, <1>6

(* In the open, or in a session that the bridge has lost.                  *)
LEMMA KeysTakenOpen ==
  ASSUME IInv, NEW p \in UpPackets, NEW kind, Accepted(p, kind), writing = {},
         NEW sent, Taken(p, sent), ~bridge.sessionKeyValid
  PROVE  KeysInv'
<1> USE DEF IInv, KeysInv
<1>1. /\ \A m \in Managers : Place(m)' = Place(m)
      /\ \A m \in Managers : Place(m) \in ran => Place(m) \in ran'
      /\ ~bridge.passwordLoaded /\ ran' \subseteq ran \cup {p.cipher}
      /\ mgr' = mgr /\ UpPackets' \subseteq UpPackets /\ ~bridge'.sessionKeyValid
      /\ bridge'.sessionKey = bridge.sessionKey
  BY DEF Taken, Accepted, Deciphers, Kept, Place, Read, Used
<1>2. /\ Places' \subseteq Places
      /\ \A a \in Acks' : a \in Acks \/ (a \in sent /\ a.type = "ACK")
      /\ \A a \in DownPackets' : a.type = "SYNCACK" => a \in DownPackets
  BY <1>1, TakenPlaces
<1>3. \A a \in Acks' : a \in Acks \/ a.cipher.halves = {}
  BY <1>2, KeyTypes DEF Taken
<1>4. Private'
  BY <1>1, <1>2, <1>3 DEF Private
<1>5. Behind'
  BY <1>1, <1>2, <1>3 DEF Behind, Stages
<1>6. UsedUp' /\ InStep' /\ InHand'
  BY <1>1 DEF UsedUp, InStep, SameKey, InHand
<1>7. AnswersRan'
  BY <1>1, <1>3 DEF AnswersRan, Stages
<1>8. OwnWord'
  BY <1>1 DEF OwnWord
<1>9. Written'
  <2>1. CASE writing' = {} /\ UNCHANGED <<file, newest, spoilt>>
    <3>1. \A m \in newest : m \in Managers /\ mgr[m].synced /\ mgr[m].key.halves # {}
      BY DEF TypeInv, Written, Stages
    <3>2. \A m \in newest, a \in Acks' : a.cipher = mgr[m].key => a \in Acks
      BY <1>3, <3>1
    <3> QED
      BY <1>1, <2>1, <3>1, <3>2 DEF Written
  <2>2. CASE newest' = {}
    BY <2>2 DEF Written
  <2> QED
    BY <1>1, <2>1, <2>2 DEF Taken
<1> QED
  BY <1>4, <1>5, <1>6, <1>7, <1>8, <1>9

(* In a session.                                                           *)
LEMMA KeysTakenSecure ==
  ASSUME IInv, NEW p \in UpPackets, NEW kind, Accepted(p, kind), writing = {},
         NEW sent, Taken(p, sent), bridge.sessionKeyValid
  PROVE  KeysInv'
<1> USE DEF IInv, KeysInv
<1> DEFINE K  == bridge.sessionKey.halves
           B  == bridge.sessionKey.pos
           B1 == bridge'.sessionKey.pos
<1>1. /\ \A m \in Managers : Place(m)' = Place(m)
      /\ mgr' = mgr /\ UpPackets' \subseteq UpPackets /\ bridge'.sessionKeyValid
  BY DEF Taken, Place
<1>2. /\ p.cipher = bridge.sessionKey
      /\ ran' \subseteq ran \cup {bridge.sessionKey}
      /\ \A m \in Managers :
           Place(m) \in ran \cup {bridge.sessionKey} => Place(m) \in ran'
  BY DEF TypeInv, Accepted, RightMode, Deciphers, Kept
<1>3. bridge.sessionKey \in FinKeys /\ B \in Nat
  BY Types
<1>4. /\ Read \in FinKeys /\ Read.halves = K /\ Read.pos = B + 1
      /\ Used(Read).halves = K /\ Used(Read).pos = B + 2
  <2>1. Read = Advance(bridge.sessionKey) /\ Used(Read) = Advance(Read)
    BY DEF Read, Used
  <2>2. Read \in FinKeys /\ Read.halves = K /\ Read.pos = B + 1
    BY <1>3, <2>1, KeyTypes
  <2>3. Used(Read).halves = K /\ Used(Read).pos = (B + 1) + 1
    BY <2>1, <2>2, KeyTypes
  <2> QED
    BY <1>3, <2>2, <2>3
<1>5. bridge'.sessionKey.halves = K /\ B1 \in {B + 1, B + 2}
  BY <1>4 DEF Taken
<1>6. \A a \in sent :
        /\ a.type = "ACK" => a.cipher = Read /\ B1 = B + 2
        /\ a.type = "FAILED" => a.of = bridge.sessionKey /\ B1 = B + 1 + Ahead(a.more)
  BY <1>2, <1>3, <1>4 DEF Taken, Ahead
<1>7. /\ Places' \subseteq Places /\ Done' \subseteq Done \cup {bridge.sessionKey}
      /\ \A a \in Acks' : a \in Acks \/ (a \in sent /\ a.type = "ACK")
      /\ \A a \in Failures' : a \in Failures \/ (a \in sent /\ a.type = "FAILED")
      /\ \A a \in DownPackets' : a.type = "SYNCACK" => a \in DownPackets
      /\ \A w \in writing' : w.of = bridge.sessionKey /\ sent = {}
  BY <1>2, TakenPlaces
<1>8. bridge.sessionKey \in Places
  BY <1>2 DEF Places
<1>9. ASSUME NEW m \in Managers, mgr[m].synced, mgr[m].key.halves = K
      PROVE  B < mgr[m].key.pos /\ mgr[m].key.pos \in Nat
  BY <1>8, <1>9, Types DEF Behind
<1>10. ASSUME NEW m \in Managers, SameKey(m)
       PROVE  /\ mgr[m].pc = "wait" /\ mgr[m].key.pos = B + 1
              /\ Place(m) = bridge.sessionKey
  <2>1. mgr[m].synced /\ mgr[m].key.halves = K /\ mgr[m].key \in FinKeys
    BY <1>10, Types DEF SameKey
  <2>2. B < mgr[m].key.pos /\ mgr[m].key.pos \in Nat
    BY <1>9, <2>1
  <2>3. mgr[m].pc = "wait"
    <3>1. mgr[m].pc # "idle"
      BY <1>3, <1>10, <2>2 DEF InStep, Ahead
    <3>2. mgr[m].pc # "sync" /\ mgr[m].pc \in {"idle", "sync", "wait"}
      BY <2>1, Types DEF Stages, Sides
    <3> QED
      BY <3>1, <3>2
  <2>4. mgr[m].key.pos = B + 1
    BY <1>3, <1>10, <2>2, <2>3 DEF InStep
  <2>5. Place(m) = [halves |-> K, pos |-> B]
    BY <1>3, <2>1, <2>4 DEF Place, FinKeys, Keys
  <2> QED
    BY <1>3, <2>3, <2>4, <2>5, KeyTypes
<1>11. \A a \in Failures : a.of # bridge.sessionKey
  <2>1. \A a \in Failures : a.of \in Done
    BY DEF Done
  <2>2. bridge.sessionKey \notin Done
    BY <1>3 DEF UsedUp
  <2> QED
    BY <2>1, <2>2
<1>12. Private'
  <2>1. \A m \in Managers : mgr[m].pc = "sync" => \A h \in mgr[m].half : h \notin K
    BY <1>8 DEF Private
  <2>2. \A a \in Acks' : a \in Acks \/ a.cipher.halves = K
    BY <1>4, <1>6, <1>7
  <2> QED
    BY <1>1, <1>5, <1>7, <2>1, <2>2 DEF Private
<1>13. Behind'
  <2> SUFFICES ASSUME NEW m \in Managers, mgr[m].synced, NEW a \in Acks',
                      a.cipher.halves = mgr[m].key.halves
               PROVE  a.cipher.pos <= mgr[m].key.pos
    BY <1>1, <1>7 DEF Behind
  <2>1. CASE a \in Acks
    BY <2>1 DEF Behind
  <2>2. CASE a \in sent /\ a.type = "ACK"
    <3>1. a.cipher.halves = K /\ a.cipher.pos = B + 1
      BY <1>4, <1>6, <2>2
    <3>2. B < mgr[m].key.pos /\ mgr[m].key.pos \in Nat
      BY <1>9, <3>1
    <3> QED
      BY <1>3, <3>1, <3>2
  <2> QED
    BY <1>7, <2>1, <2>2
<1>14. UsedUp'
  <2>1. ASSUME NEW k \in Done', k.halves = K PROVE k.pos < B1
    <3>1. k.pos \in Nat /\ k.pos <= B
      BY <1>3, <1>7, <2>1, Types DEF UsedUp
    <3> QED
      BY <1>3, <1>5, <3>1
  <2>2. ASSUME NEW a \in Acks', a.cipher.halves = K PROVE a.cipher.pos < B1
    <3>1. CASE a \in Acks
      <4>1. a.cipher.pos \in Nat /\ a.cipher.pos < B
        BY <2>2, <3>1, Types DEF UsedUp, Acks
      <4> QED
        BY <1>3, <1>5, <4>1
    <3>2. CASE a \in sent /\ a.type = "ACK"
      <4>1. a.cipher.pos = B + 1 /\ B1 = B + 2
        BY <1>4, <1>6, <3>2
      <4> QED
        BY <1>3, <4>1
    <3> QED
      BY <1>7, <3>1, <3>2
  <2>3. ASSUME NEW m \in newest', mgr[m].key.halves = K PROVE mgr[m].key.pos <= B1
    <3>1. CASE newest' = newest
      <4>1. m \in Managers /\ mgr[m].key.pos \in Nat /\ mgr[m].key.pos <= B
        BY <2>3, <3>1, Types DEF UsedUp, TypeInv
      <4> QED
        BY <1>3, <1>5, <4>1
    <3>2. CASE m \in Managers /\ Place(m) = p.cipher
      <4>1. mgr[m].key \in FinKeys /\ mgr[m].key.pos \in Nat
        BY <3>2, Types
      <4>2. mgr[m].key.pos - 1 = B
        BY <1>2, <3>2, <4>1 DEF Place, FinKeys, Keys
      <4> QED
        BY <1>3, <1>5, <4>1, <4>2
    <3> QED
      BY <2>3, <3>1, <3>2 DEF Taken
  <2> QED
    BY <1>1, <1>5, <2>1, <2>2, <2>3 DEF UsedUp
<1>15. InStep'
  <2> SUFFICES ASSUME NEW m \in Managers, SameKey(m)'
               PROVE  /\ mgr[m].pc = "wait" /\ B1 \in mgr[m].key.pos - 1 .. mgr[m].key.pos + 1
                      /\ \A a \in Failures' : a.of = Place(m) => B1 = mgr[m].key.pos + Ahead(a.more)
    BY <1>1 DEF InStep
  <2>1. mgr[m].pc = "wait" /\ mgr[m].key.pos = B + 1 /\ Place(m) = bridge.sessionKey
    BY <1>1, <1>5, <1>10 DEF SameKey
  <2>2. ASSUME NEW a \in Failures', a.of = Place(m) PROVE B1 = mgr[m].key.pos + Ahead(a.more)
    BY <1>6, <1>7, <1>11, <2>1, <2>2
  <2> QED
    BY <1>3, <1>5, <2>1, <2>2
<1>16. ASSUME NEW m \in Managers, mgr[m].synced, NEW a \in sent, a.type = "ACK",
              a.cipher = mgr[m].key
       PROVE  Place(m) = bridge.sessionKey
  <2>1. mgr[m].key = Read
    BY <1>6, <1>16
  <2>2. Place(m) = [halves |-> K, pos |-> B]
    BY <1>3, <1>4, <2>1 DEF Place, FinKeys, Keys
  <2> QED
    BY <1>3, <2>2, KeyTypes
<1>17. AnswersRan'
  BY <1>1, <1>2, <1>7, <1>16 DEF AnswersRan
<1>18. InHand'
  <2> SUFFICES ASSUME NEW w \in writing'
               PROVE  /\ w.of = bridge.sessionKey /\ B1 = B + 1 /\ Failures' \subseteq Failures
    <3>1. \A m \in Managers : SameKey(m)' => SameKey(m)
      BY <1>1, <1>5 DEF SameKey
    <3> QED
      BY <1>1, <1>2, <1>5, <1>10, <1>11, <3>1 DEF InHand
  <2> QED
    BY <1>4, <1>7 DEF Taken
<1>19. OwnWord'
  BY <1>1 DEF OwnWord
<1>20. Written'
  <2>1. CASE writing' = {} /\ UNCHANGED <<file, newest, spoilt>>
    <3>1. ASSUME NEW m \in newest, NEW a \in Acks', a.cipher = mgr[m].key PROVE a \in Acks
      <4>1. CASE a \in sent /\ a.type = "ACK"
        <5>1. m \in Managers /\ mgr[m].synced /\ mgr[m].key.halves = K
          BY <1>4, <1>6, <3>1, <4>1 DEF TypeInv, Written
        <5>2. mgr[m].key.pos <= B /\ B < mgr[m].key.pos /\ mgr[m].key.pos \in Nat
          BY <1>9, <5>1 DEF UsedUp
        <5> QED
          BY <1>3, <5>2
      <4> QED
        BY <1>7, <4>1
    <3> QED
      BY <1>1, <2>1, <3>1 DEF Written
  <2>2. CASE ~(writing' = {} /\ UNCHANGED <<file, newest, spoilt>>)
    <3>1. /\ sent = {} /\ p.type = "newkey" /\ \A w \in writing' : w.word = p.word
          /\ \A m \in newest' : /\ m \in Managers /\ mgr[m].pc = "wait" /\ mgr[m].synced
                                /\ Place(m) = p.cipher
      BY <2>2 DEF Taken
    <3>2. ASSUME NEW m \in newest', NEW a \in Acks', a.cipher = mgr[m].key PROVE FALSE
      <4>1. a \in Acks /\ mgr[m].key \in FinKeys
        BY <1>7, <3>1, Types
      <4>2. mgr[m].key.halves = K /\ mgr[m].key.pos - 1 = B /\ mgr[m].key.pos \in Nat
        BY <1>2, <3>1, <4>1 DEF Place, FinKeys, Keys
      <4>3. mgr[m].key.pos < B
        BY <3>2, <4>1, <4>2 DEF UsedUp
      <4> QED
        BY <1>3, <4>2, <4>3
    <3>3. \A m \in newest', w \in writing' : w.word = mgr[m].sent
      BY <3>1 DEF OwnWord
    <3> QED
      BY <1>1, <3>1, <3>2, <3>3 DEF Written
  <2> QED
    BY <2>1, <2>2
<1> QED
  BY <1>12, <1>13, <1>14, <1>15, <1>17, <1>18, <1>19, <1>20

(* The password is written, or not.                                        *)
LEMMA KeysEnded ==
  ASSUME IInv, NEW w, writing = {w}, writing' = {},
         UNCHANGED <<up, mgr, ran, newest>>, NEW a \in Packets,
         DownPackets' \subseteq DownPackets \cup {a},
         bridge'.sessionKeyValid = bridge.sessionKeyValid,
         \/ /\ a.type = "FAILED" /\ a.of = w.of /\ a.more = FALSE
            /\ bridge'.sessionKey = bridge.sessionKey
         \/ /\ a.type = "ACK" /\ bridge'.sessionKey = Used(bridge.sessionKey)
            /\ a.cipher = IF bridge.sessionKeyValid THEN bridge.sessionKey ELSE Clear
            /\ spoilt' = (file' # w.word)
  PROVE  KeysInv'
<1> USE DEF IInv, KeysInv
<1> DEFINE K  == bridge.sessionKey.halves
           B  == bridge.sessionKey.pos
           B1 == bridge'.sessionKey.pos
<1>1. /\ \A m \in Managers : Place(m)' = Place(m)
      /\ UpPackets' = UpPackets
  BY DEF Place, UpPackets
<1>2. /\ \A r \in Acks' : r \in Acks \/ (r = a /\ a.type = "ACK")
      /\ \A r \in Failures' : r \in Failures \/ (r = a /\ a.type = "FAILED")
      /\ \A r \in DownPackets' : r.type = "SYNCACK" => r \in DownPackets
  BY DEF Acks, Failures
<1>3. Places' \subseteq Places /\ Done' \subseteq Done /\ w.of \in Places /\ w.of \in Done
  <2>1. \A r \in Failures' : r \in Failures \/ r.of = w.of
    BY <1>2
  <2> QED
    BY <1>1, <2>1 DEF Places, Done
<1>4. bridge.sessionKey \in FinKeys /\ B \in Nat /\ w.of.pos \in Nat
  BY <1>3, Types
<1>5. /\ bridge'.sessionKey.halves = K
      /\ ~bridge.sessionKeyValid => bridge'.sessionKey = bridge.sessionKey
      /\ bridge.sessionKeyValid => B1 = IF a.type = "ACK" THEN B + 1 ELSE B
  BY <1>4, KeyTypes DEF Used
<1>6. ASSUME bridge.sessionKeyValid
      PROVE  /\ w.of.halves = K /\ B = w.of.pos + 1
             /\ \A r \in Failures : r.of # w.of
             /\ \A m \in Managers : SameKey(m) => mgr[m].pc = "wait" /\ mgr[m].key.pos = B
             /\ \A m \in Managers : mgr[m].synced /\ Place(m) = w.of => Place(m) \in ran
  <2>1. w \in writing /\ InHand
    OBVIOUS
  <2> HIDE DEF IInv, KeysInv
  <2>2. /\ w.of.halves = bridge.sessionKey.halves /\ bridge.sessionKey.pos = w.of.pos + 1
        /\ \A r \in Failures : r.of # w.of
    BY <1>6, <2>1 DEF InHand
  <2>3. \A m \in Managers : /\ SameKey(m) => /\ mgr[m].pc = "wait"
                                            /\ mgr[m].key.pos = bridge.sessionKey.pos
                            /\ mgr[m].synced /\ Place(m) = w.of => Place(m) \in ran
    BY <1>6, <2>1, Zenon DEF InHand
  <2> QED
    BY <2>2, <2>3
<1>7. \A r \in Acks' : \/ r \in Acks
                       \/ r.cipher = Clear /\ ~bridge.sessionKeyValid
                       \/ r.cipher = bridge.sessionKey /\ bridge.sessionKeyValid /\ r = a
  BY <1>2
<1>8. Private'
  <2>1. \A m \in Managers : mgr[m].pc = "sync" => \A h \in mgr[m].half :
          /\ bridge.sessionKeyValid => h \notin K
          /\ \A r \in Acks' : h \notin r.cipher.halves
    BY <1>3, <1>6, <1>7, KeyTypes DEF Private
  <2>2. ASSUME NEW m \in Managers, mgr[m].pc = "sync", NEW h \in mgr[m].half, h \in K
        PROVE  B1 = 0
    BY <1>5, <2>1, <2>2 DEF Private
  <2> QED
    BY <1>1, <1>2, <1>3, <1>5, <2>1, <2>2 DEF Private
<1>9. Behind'
  <2> SUFFICES ASSUME NEW m \in Managers, mgr[m].synced, NEW r \in Acks',
                      r.cipher.halves = mgr[m].key.halves
               PROVE  r.cipher.pos <= mgr[m].key.pos
    BY <1>1, <1>3 DEF Behind
  <2>1. CASE r \in Acks
    BY <2>1 DEF Behind
  <2>2. CASE r.cipher = Clear
    BY <2>2, KeyTypes DEF Stages
  <2>3. CASE r.cipher = bridge.sessionKey /\ bridge.sessionKeyValid
    <3>1. w.of.pos < mgr[m].key.pos /\ mgr[m].key.pos \in Nat
      BY <1>3, <1>6, <2>3, Types DEF Behind
    <3> QED
      BY <1>4, <1>6, <2>3, <3>1
  <2> QED
    BY <1>7, <2>1, <2>2, <2>3
<1>10. UsedUp'
  <2> SUFFICES ASSUME bridge.sessionKeyValid
               PROVE  /\ \A k \in Done' : k.halves = K => k.pos < B1
                      /\ \A r \in Acks' : r.cipher.halves = K => r.cipher.pos < B1
                      /\ \A m \in newest : mgr[m].key.halves = K => mgr[m].key.pos <= B1
    BY <1>5 DEF UsedUp
  <2>1. B1 \in {B, B + 1}
    BY <1>5
  <2>2. \A k \in Done : k.halves = K => k.pos \in Nat /\ k.pos < B
    BY Types DEF UsedUp
  <2>3. \A r \in Acks : r.cipher.halves = K => r.cipher.pos \in Nat /\ r.cipher.pos < B
    BY Types DEF UsedUp, Acks
  <2>4. \A m \in newest : mgr[m].key.halves = K => mgr[m].key.pos \in Nat /\ mgr[m].key.pos <= B
    BY Types DEF UsedUp, TypeInv
  <2>5. ASSUME NEW r \in Acks', r.cipher.halves = K PROVE r.cipher.pos < B1
    <3>1. CASE r \in Acks
      BY <1>4, <2>1, <2>3, <2>5, <3>1
    <3>2. CASE r = a /\ a.type = "ACK"
      BY <1>4, <1>5, <3>2
    <3> QED
      BY <1>2, <3>1, <3>2
  <2> QED
    BY <1>3, <1>4, <2>1, <2>2, <2>4, <2>5
<1>11. ASSUME NEW m \in Managers, SameKey(m)
       PROVE  /\ mgr[m].pc = "wait" /\ mgr[m].key.pos = B /\ Place(m) = w.of
  <2>1. bridge.sessionKeyValid
    BY <1>11 DEF SameKey
  <2>5. mgr[m].pc = "wait" /\ mgr[m].key.pos = B
    BY <1>6, <1>11, <2>1
  <2>2. mgr[m].key \in FinKeys /\ mgr[m].key.halves = K /\ w.of \in FinKeys
    BY <1>3, <1>11, Types DEF SameKey
  <2>3. Place(m) = [halves |-> K, pos |-> B - 1]
    BY <2>2, <2>5 DEF Place, FinKeys, Keys
  <2>4. w.of = [halves |-> K, pos |-> B - 1]
    BY <1>4, <1>6, <2>1, <2>2, KeyTypes
  <2> QED
    BY <2>3, <2>4, <2>5
<1>12. InStep'
  <2> SUFFICES ASSUME NEW m \in Managers, SameKey(m)'
               PROVE  /\ mgr[m].pc = "wait" /\ B1 \in mgr[m].key.pos - 1 .. mgr[m].key.pos + 1
                      /\ \A r \in Failures' : r.of = Place(m) => B1 = mgr[m].key.pos + Ahead(r.more)
    BY <1>1 DEF InStep
  <2>1. /\ bridge.sessionKeyValid
        /\ mgr[m].pc = "wait" /\ mgr[m].key.pos = B /\ Place(m) = w.of
    BY <1>5, <1>11 DEF SameKey
  <2>2. ASSUME NEW r \in Failures', r.of = Place(m) PROVE B1 = mgr[m].key.pos + Ahead(r.more)
    <3>1. r = a /\ a.type = "FAILED" /\ a.more = FALSE
      BY <1>2, <1>6, <2>1, <2>2
    <3> QED
      BY <1>4, <1>5, <2>1, <3>1 DEF Ahead
  <2> QED
    BY <1>4, <1>5, <2>1, <2>2
<1>13. AnswersRan'
  <2> SUFFICES ASSUME NEW m \in Managers, mgr[m].synced, NEW r \in Acks', r.cipher = mgr[m].key
               PROVE  Place(m) \in ran
    BY <1>1 DEF AnswersRan
  <2>1. CASE r \in Acks
    BY <2>1 DEF AnswersRan
  <2>2. CASE r.cipher = Clear
    BY <2>2, KeyTypes DEF Stages
  <2>3. CASE r.cipher = bridge.sessionKey /\ bridge.sessionKeyValid
    <3>1. Place(m) = [halves |-> K, pos |-> B - 1]
      BY <1>4, <2>3 DEF Place, FinKeys, Keys
    <3>2. w.of = [halves |-> K, pos |-> B - 1]
      BY <1>3, <1>4, <1>6, <2>3, Types, KeyTypes
    <3> QED
      BY <1>6, <2>3, <3>1, <3>2
  <2> QED
    BY <1>7, <2>1, <2>2, <2>3
<1>14. InHand' /\ OwnWord'
  BY <1>1 DEF InHand, OwnWord
<1>15. Written'
  <2>1. ASSUME NEW m \in newest, NEW r \in Acks', r.cipher = mgr[m].key
        PROVE  spoilt' \/ file' = mgr[m].sent
    <3>1. r \notin Acks /\ w.word = mgr[m].sent
      BY <2>1 DEF Written
    <3> QED
      BY <1>2, <3>1
  <2> QED
    BY <1>1, <2>1 DEF Written
<1> QED
  BY <1>8, <1>9, <1>10, <1>12, <1>13, <1>14, <1>15

-----------------------------------------------------------------------------
(* The steps of the bridge, for a packet p that came from manager m.       *)

(* What filtMessage leaves alone.                                          *)
Outside == /\ up' \in [Managers -> Seq(Packets)] /\ UpPackets' \subseteq UpPackets
           /\ faults' \in Nat /\ writing = {}
           /\ UNCHANGED <<mgr, left>>

(* The packets the bridge sends.                                           *)
LEMMA SentTypes ==
  ASSUME TypeInv
  PROVE  /\ \A key \in FinKeys :
              /\ Answer(key) \in Packets /\ Answer(key).type = "ACK"
              /\ Answer(key).cipher = IF bridge.sessionKeyValid THEN key ELSE Clear
         /\ \A code \in Codes : Error(code) \in Packets /\ Error(code).type = code
         /\ \A of \in FinKeys, more \in BOOLEAN :
              /\ Failure(of, more) \in Packets /\ Failure(of, more).type = "FAILED"
              /\ Failure(of, more).of = of /\ Failure(of, more).more = more
         /\ \A half \in HalfSets, key \in FinKeys :
              LET q == Outgoing("SYNCACK", half, bridge.password, key)
              IN  q \in Packets /\ q.type = "SYNCACK" /\ q.half = half
<1>1. /\ bridge.passwordLoaded \in BOOLEAN /\ bridge.password \in NoneOrPassword
      /\ "none" \in NoneOrPassword /\ {} \in HalfSets /\ Clear \in FinKeys
  BY KeyTypes DEF TypeInv, Bridges, NoneOrPassword, HalfSets
<1>2. ASSUME NEW type \in PacketTypes, NEW half \in HalfSets, NEW word \in NoneOrPassword,
             NEW key \in FinKeys
      PROVE  /\ Outgoing(type, half, word, key) \in Packets
             /\ Outgoing(type, half, word, key).type = type
             /\ Outgoing(type, half, word, key).half = half
             /\ Outgoing(type, half, word, key).cipher =
                  IF bridge.sessionKeyValid /\ type \notin Codes THEN key ELSE Clear
  BY <1>1 DEF Outgoing, Packet, Packets
<1>3. /\ "ACK" \in PacketTypes /\ "SYNCACK" \in PacketTypes /\ Codes \subseteq PacketTypes
      /\ "ACK" \notin Codes /\ "FAILED" \in Codes
  BY DEF PacketTypes, Codes
<1>4. \A code \in Codes : Error(code) \in Packets /\ Error(code).type = code
  BY <1>1, <1>2, <1>3 DEF Error
<1>5. ASSUME NEW of \in FinKeys, NEW more \in BOOLEAN
      PROVE  /\ Failure(of, more) \in Packets /\ Failure(of, more).type = "FAILED"
             /\ Failure(of, more).of = of /\ Failure(of, more).more = more
  BY <1>3, <1>4 DEF Failure, Packets
<1>6. ASSUME NEW key \in FinKeys
      PROVE  /\ Answer(key) \in Packets /\ Answer(key).type = "ACK"
             /\ Answer(key).cipher = IF bridge.sessionKeyValid THEN key ELSE Clear
  BY <1>1, <1>2, <1>3 DEF Answer
<1> QED
  BY <1>1, <1>2, <1>3, <1>4, <1>5, <1>6

(* One of them is sent.                                                    *)
LEMMA DeliverPacket ==
  ASSUME TypeInv, NEW m \in Managers, NEW q \in Packets, Deliver(m, q)
  PROVE  down' \in [Managers -> Seq(Packets)] /\ DownPackets' \subseteq DownPackets \cup {q}
BY DownGrows DEF Deliver

(* A request to reboot has come before: nothing is done.                   *)
LEMMA IgnoredIInv ==
  ASSUME IInv, NEW m \in Managers, NEW p \in UpPackets, Outside, Ignored(m, p)
  PROVE  IInv'
<1>1. TypeInv' /\ Stages'
  BY DEF IInv, Outside, Ignored, TypeInv, Stages, file_vars
<1>2. DownPackets' = DownPackets
  BY DEF Ignored, DownPackets
<1>3. KeysInv'
  BY <1>2, KeysUnused DEF Outside, Ignored, file_vars
<1> QED
  BY <1>1, <1>3 DEF IInv

(* A packet that is answered with an error only; the bridge may drop its   *)
(* key.                                                                    *)
LEMMA ErrorIInv ==
  ASSUME IInv, NEW m \in Managers, Outside,
         NEW code \in {"SECURE", "INSECURE", "LOSTSYNC"}, Deliver(m, Error(code)),
         UNCHANGED <<ran, file_vars>>,
         bridge' \in {bridge, [bridge EXCEPT !.sessionKeyValid = FALSE, !.sessionKey = Clear]}
  PROVE  IInv'
<1> USE DEF IInv
<1>1. /\ Error(code) \in Packets /\ Error(code).type = code
      /\ down' \in [Managers -> Seq(Packets)]
      /\ DownPackets' \subseteq DownPackets \cup {Error(code)}
  <2>1. Error(code) \in Packets /\ Error(code).type = code
    BY SentTypes DEF Codes
  <2> QED
    BY <2>1, DeliverPacket
<1>2. /\ bridge' \in Bridges
      /\ \/ /\ bridge'.sessionKey = bridge.sessionKey
            /\ bridge'.sessionKeyValid = bridge.sessionKeyValid
         \/ bridge'.sessionKey = Clear /\ bridge'.sessionKeyValid = FALSE
      /\ bridge'.passwordLoaded = bridge.passwordLoaded
  BY KeyTypes DEF TypeInv, Bridges
<1>3. TypeInv' /\ Stages'
  BY <1>1, <1>2 DEF Outside, TypeInv, Stages, file_vars
<1>4. KeysInv'
  <2>1. \A r \in DownPackets' :
          r \in DownPackets \/ r.type \notin {"ACK", "SYNCACK", "FAILED"}
    BY <1>1
  <2> QED
    BY <1>2, <2>1, KeysUnused DEF Outside, file_vars
<1> QED
  BY <1>3, <1>4

(* A packet of the wrong mode; one that does not decipher.                 *)
LEMMA WrongModeIInv ==
  ASSUME IInv, NEW m \in Managers, NEW p \in UpPackets, Outside,
         WrongMode(m, p) \/ LostSync(m, p)
  PROVE  IInv'
<1>1. CASE WrongMode(m, p)
  <2>1. PICK code \in {"SECURE", "INSECURE"} : Deliver(m, Error(code))
    BY <1>1 DEF WrongMode
  <2> QED
    BY <1>1, <2>1, ErrorIInv DEF WrongMode
<1>2. CASE LostSync(m, p)
  BY <1>2, ErrorIInv DEF LostSync
<1> QED
  BY <1>1, <1>2

(* SYNC: a new key, whatever became of the old one.                        *)
LEMMA handleSyncIInv ==
  ASSUME IInv, FreshHalf, NEW m \in Managers, NEW p \in UpPackets, Outside, handleSync(m, p)
  PROVE  IInv'
<1> USE DEF IInv
<1> DEFINE half == Deciphered(p, bridge.password)
           q    == Outgoing("SYNCACK", {NewHalf}, bridge.password, bridge.sessionKey)
<1>1. /\ bridge' = [bridge EXCEPT !.sessionKeyValid = TRUE,
                                 !.sessionKey = NewKey({NewHalf}, half)]
      /\ Deliver(m, q) /\ bridge.passwordLoaded
      /\ UNCHANGED <<ran, file_vars>>
  BY DEF handleSync
<1>2. half \in Parts /\ {NewHalf} \in HalfSets /\ bridge.sessionKey \in FinKeys
  BY Types, DecipheredTypes, NewHalfIsNew
<1>3. q \in Packets /\ q.type = "SYNCACK" /\ q.half = {NewHalf}
  BY <1>2, SentTypes
<1> HIDE DEF half, q
<1>4. /\ down' \in [Managers -> Seq(Packets)] /\ DownPackets' \subseteq DownPackets \cup {q}
  BY <1>1, <1>3, DeliverPacket
<1>5. NewKey({NewHalf}, half) \in FinKeys
  BY <1>2, KeyTypes DEF Parts
<1>6. /\ bridge' \in Bridges /\ bridge'.sessionKey = NewKey({NewHalf}, half)
      /\ bridge'.passwordLoaded = bridge.passwordLoaded
  BY <1>1, <1>5 DEF TypeInv, Bridges
<1>7. TypeInv' /\ Stages'
  BY <1>1, <1>4, <1>6 DEF Outside, TypeInv, Stages, file_vars
<1>8. KeysInv'
  <2>1. \A r \in DownPackets' :
          r \in DownPackets \/ (r.type = "SYNCACK" /\ r.half = {NewHalf})
    BY <1>3, <1>4
  <2> QED
    BY <1>1, <1>2, <1>6, <2>1, KeysSynchronised DEF Outside, file_vars
<1> QED
  BY <1>7, <1>8

(* A command was taken: what all handlers have in common.                  *)
LEMMA AcceptedIInv ==
  ASSUME IInv, NEW m \in Managers, NEW p \in UpPackets, Outside, NEW kind, Accepted(p, kind),
         NEW reboots \in BOOLEAN, NEW key \in {Read, Used(Read)},
         bridge' = [bridge EXCEPT !.sessionKey = key, !.rebootRequested = @ \/ reboots],
         NEW sent, down' \in [Managers -> Seq(Packets)], Taken(p, sent),
         file' \in NoneOrPassword \cup {"empty"}, spoilt' \in BOOLEAN
  PROVE  IInv'
<1> USE DEF IInv
<1>1. bridge \in Bridges /\ bridge.sessionKey \in FinKeys /\ p.cipher \in FinKeys
  BY Types DEF TypeInv
<1>2. key \in FinKeys
  BY <1>1, KeyTypes DEF Read, Used
<1>3. /\ bridge' \in Bridges /\ bridge'.sessionKeyValid = bridge.sessionKeyValid
      /\ bridge'.passwordLoaded = bridge.passwordLoaded
  BY <1>1, <1>2 DEF Bridges
<1>4. ran' \subseteq FinKeys /\ IsFiniteSet(ran')
  <2>1. ran' \subseteq ran \cup {p.cipher}
    BY DEF Accepted, Kept
  <2>2. IsFiniteSet(ran \cup {p.cipher})
    BY FS_AddElement DEF TypeInv
  <2> QED
    BY <1>1, <2>1, <2>2, FS_Subset DEF TypeInv
<1>5. /\ writing' = {} \/ \E w \in Writes : writing' = {w}
      /\ newest' \subseteq Managers
  BY DEF Taken, TypeInv
<1>6. TypeInv' /\ Stages'
  BY <1>3, <1>4, <1>5 DEF Outside, TypeInv, Stages
<1>7. KeysInv'
  BY KeysTakenOpen, KeysTakenSecure DEF Outside
<1> QED
  BY <1>6, <1>7

(* The session key after the command and the answer.                       *)
LEMMA Advances ==
  ASSUME TypeInv, NEW key \in {Read, Used(Read)}
  PROVE  LET after == [bridge EXCEPT !.sessionKey = key]
         IN  /\ after = [bridge EXCEPT !.sessionKey = key, !.rebootRequested = @ \/ FALSE]
             /\ after.sessionKey = key /\ after.sessionKeyValid = bridge.sessionKeyValid
             /\ Read \in FinKeys
<1>1. bridge \in Bridges /\ bridge.sessionKey \in FinKeys
  BY Types DEF TypeInv
<1>2. Read \in FinKeys
  BY <1>1, KeyTypes DEF Read, Used
<1> QED
  BY <1>1, <1>2 DEF Bridges

(* A query, or a NEWKEY whose file cannot be opened: nothing is left to    *)
(* be done.                                                                *)
LEMMA HandledIInv ==
  ASSUME IInv, NEW m \in Managers, NEW p \in UpPackets, Outside, NEW kind, Accepted(p, kind),
         UNCHANGED file_vars,
         \/ Deliver(m, Answer(Read)) /\ bridge' = [bridge EXCEPT !.sessionKey = Used(Read)]
         \/ Deliver(m, Failure(p.cipher, FALSE)) /\ bridge' = [bridge EXCEPT !.sessionKey = Read]
         \/ /\ down' = [down EXCEPT ![m] = @ \o <<Failure(p.cipher, TRUE), Answer(Read)>>]
            /\ bridge' = [bridge EXCEPT !.sessionKey = Used(Read)]
         \/ UNCHANGED down /\ bridge' = [bridge EXCEPT !.sessionKey = Read]
  PROVE  IInv'
<1> USE DEF IInv
<1>1. PICK key \in {Read, Used(Read)} : bridge' = [bridge EXCEPT !.sessionKey = key]
  OBVIOUS
<1>2. /\ bridge' = [bridge EXCEPT !.sessionKey = key, !.rebootRequested = @ \/ FALSE]
      /\ bridge'.sessionKey = key /\ bridge'.sessionKeyValid = bridge.sessionKeyValid
      /\ Read \in FinKeys
  BY <1>1, Advances
<1>3. p.cipher \in FinKeys
  BY Types
<1>4. /\ file' \in NoneOrPassword \cup {"empty"} /\ spoilt' \in BOOLEAN
      /\ writing' = {} /\ UNCHANGED <<file, newest, spoilt>>
  BY DEF file_vars, TypeInv, Outside
<1>5. /\ Answer(Read) \in Packets /\ Answer(Read).type = "ACK"
      /\ Answer(Read).cipher = IF bridge.sessionKeyValid THEN Read ELSE Clear
      /\ \A more \in BOOLEAN :
           /\ Failure(p.cipher, more) \in Packets /\ Failure(p.cipher, more).type = "FAILED"
           /\ Failure(p.cipher, more).of = p.cipher /\ Failure(p.cipher, more).more = more
  BY <1>2, <1>3, SentTypes
<1>6. \E sent : down' \in [Managers -> Seq(Packets)] /\ Taken(p, sent)
  <2>1. CASE Deliver(m, Answer(Read)) /\ bridge' = [bridge EXCEPT !.sessionKey = Used(Read)]
    <3>1. /\ down' \in [Managers -> Seq(Packets)]
          /\ DownPackets' \subseteq DownPackets \cup {Answer(Read)}
      BY <1>5, <2>1, DeliverPacket
    <3>2. bridge'.sessionKey = Used(Read) /\ bridge'.sessionKeyValid = bridge.sessionKeyValid
      BY <2>1, Advances
    <3>3. Taken(p, {Answer(Read)})
      BY <1>4, <1>5, <3>1, <3>2 DEF Taken, Outside
    <3> QED
      BY <3>1, <3>3
  <2>2. CASE /\ Deliver(m, Failure(p.cipher, FALSE))
             /\ bridge' = [bridge EXCEPT !.sessionKey = Read]
    <3>1. /\ down' \in [Managers -> Seq(Packets)]
          /\ DownPackets' \subseteq DownPackets \cup {Failure(p.cipher, FALSE)}
      BY <1>5, <2>2, DeliverPacket
    <3>2. bridge'.sessionKey = Read /\ bridge'.sessionKeyValid = bridge.sessionKeyValid
      BY <2>2, Advances
    <3>3. Taken(p, {Failure(p.cipher, FALSE)})
      BY <1>4, <1>5, <3>1, <3>2 DEF Taken, Outside
    <3> QED
      BY <3>1, <3>3
  <2>3. CASE /\ down' = [down EXCEPT ![m] = @ \o <<Failure(p.cipher, TRUE), Answer(Read)>>]
             /\ bridge' = [bridge EXCEPT !.sessionKey = Used(Read)]
    <3>1. /\ down' \in [Managers -> Seq(Packets)]
          /\ DownPackets' \subseteq DownPackets \cup {Failure(p.cipher, TRUE), Answer(Read)}
      BY <1>5, <2>3, DownGrowsTwo
    <3>2. bridge'.sessionKey = Used(Read) /\ bridge'.sessionKeyValid = bridge.sessionKeyValid
      BY <2>3, Advances
    <3>3. Taken(p, {Failure(p.cipher, TRUE), Answer(Read)})
      BY <1>4, <1>5, <3>1, <3>2 DEF Taken, Outside
    <3> QED
      BY <3>1, <3>3
  <2>4. CASE UNCHANGED down /\ bridge' = [bridge EXCEPT !.sessionKey = Read]
    <3>1. down' \in [Managers -> Seq(Packets)] /\ DownPackets' \subseteq DownPackets
      BY <2>4 DEF TypeInv, DownPackets
    <3>2. bridge'.sessionKey = Read /\ bridge'.sessionKeyValid = bridge.sessionKeyValid
      BY <2>4, Advances
    <3>3. Taken(p, {})
      BY <1>4, <3>1, <3>2 DEF Taken, Outside
    <3> QED
      BY <3>1, <3>3
  <2> QED
    BY <2>1, <2>2, <2>3, <2>4
<1> QED
  BY <1>2, <1>4, <1>6, AcceptedIInv


(* A request to reboot.                                                    *)
LEMMA handleRebootIInv ==
  ASSUME IInv, NEW m \in Managers, NEW p \in UpPackets, Outside, handleReboot(m, p)
  PROVE  IInv'
<1> USE DEF IInv
<1> DEFINE sent == {Answer(Read)}
<1>1. /\ bridge' = [bridge EXCEPT !.sessionKey = Used(Read), !.rebootRequested = @ \/ TRUE]
      /\ Deliver(m, Answer(Read)) /\ Accepted(p, "reboot") /\ UNCHANGED file_vars
  BY DEF handleReboot, TypeInv, Bridges
<1>2. /\ bridge'.sessionKey = Used(Read) /\ bridge'.sessionKeyValid = bridge.sessionKeyValid
      /\ Read \in FinKeys
  BY <1>1, Advances DEF TypeInv, Bridges
<1>3. /\ Answer(Read) \in Packets /\ Answer(Read).type = "ACK"
      /\ Answer(Read).cipher = IF bridge.sessionKeyValid THEN Read ELSE Clear
  BY <1>2, SentTypes
<1>4. down' \in [Managers -> Seq(Packets)] /\ DownPackets' \subseteq DownPackets \cup sent
  BY <1>1, <1>3, DeliverPacket
<1>5. /\ file' \in NoneOrPassword \cup {"empty"} /\ spoilt' \in BOOLEAN
      /\ writing' = {} /\ UNCHANGED <<file, newest, spoilt>>
  BY <1>1 DEF file_vars, TypeInv, Outside
<1>6. Taken(p, sent)
  BY <1>2, <1>3, <1>4, <1>5 DEF Taken, Outside
<1> HIDE DEF sent
<1> QED
  BY <1>1, <1>4, <1>5, <1>6, AcceptedIInv

(* A new password is in hand, and the file is open.                        *)
LEMMA handleNewkeyIInv ==
  ASSUME IInv, NEW m \in Managers, NEW p \in UpPackets, Outside, handleNewkey(m, p)
  PROVE  IInv'
<1> USE DEF IInv
<1> DEFINE w == [from |-> m, of |-> p.cipher, word |-> p.word]
<1>1. /\ bridge' = [bridge EXCEPT !.sessionKey = Read]
      /\ Accepted(p, "newkey") /\ p.type = "newkey" /\ down' = down
      /\ file' = "empty" /\ spoilt' = FALSE /\ writing' = {w}
      /\ newest' = {n \in Managers : /\ bridge.passwordLoaded /\ mgr[n].pc = "wait"
                                     /\ mgr[n].synced /\ Place(n) = p.cipher}
  BY DEF handleNewkey, Accepted
<1>2. /\ bridge' = [bridge EXCEPT !.sessionKey = Read, !.rebootRequested = @ \/ FALSE]
      /\ bridge'.sessionKey = Read /\ bridge'.sessionKeyValid = bridge.sessionKeyValid
  BY <1>1, Advances
<1>3. w \in Writes /\ w.of = p.cipher /\ w.word = p.word
  BY Types DEF Writes
<1>4. down' \in [Managers -> Seq(Packets)] /\ DownPackets' = DownPackets
  BY <1>1 DEF TypeInv, DownPackets
<1> HIDE DEF w
<1>5. Taken(p, {})
  BY <1>1, <1>2, <1>3, <1>4 DEF Taken, Outside
<1>6. file' \in NoneOrPassword \cup {"empty"} /\ spoilt' \in BOOLEAN
  BY <1>1
<1> QED
  BY <1>1, <1>2, <1>4, <1>5, <1>6, AcceptedIInv

(* The rest of handleNewkey.                                               *)
LEMMA newkeyEndsIInv ==
  ASSUME IInv, newkeyEnds PROVE IInv'
<1> USE DEF IInv
<1>1. PICK w \in writing :
        /\ \/ NewkeyUnwritten(w)
           \/ \E inFile \in Passwords \cup {"empty", w.word},
                inMemory \in Passwords \cup {w.word} : NewkeyWritten(w, inFile, inMemory)
        /\ Fault \/ NoFault
        /\ writing' = {} /\ UNCHANGED <<up, mgr, left, ran, newest>>
  BY DEF newkeyEnds
<1>2. /\ writing = {w} /\ w \in Writes
      /\ w.from \in Managers /\ w.of \in FinKeys /\ w.word \in NoneOrPassword
  BY DEF TypeInv, Writes
<1>3. bridge \in Bridges /\ bridge.sessionKey \in FinKeys /\ faults' \in Nat
  BY <1>1, Types DEF TypeInv, Fault, NoFault
<1>4. CASE NewkeyUnwritten(w)
  <2> DEFINE a == Failure(w.of, FALSE)
  <2>1. a \in Packets /\ a.type = "FAILED" /\ a.of = w.of /\ a.more = FALSE
    BY <1>2, SentTypes
  <2> HIDE DEF a
  <2>2. /\ down' \in [Managers -> Seq(Packets)] /\ DownPackets' \subseteq DownPackets \cup {a}
    BY <1>2, <1>4, <2>1, DeliverPacket DEF NewkeyUnwritten, a
  <2>3. UNCHANGED <<bridge, file, spoilt>>
    BY <1>4 DEF NewkeyUnwritten
  <2>4. TypeInv' /\ Stages'
    BY <1>1, <1>3, <2>2, <2>3 DEF TypeInv, Stages
  <2>5. KeysInv'
    BY <1>1, <1>2, <2>1, <2>2, <2>3, KeysEnded
  <2> QED
    BY <2>4, <2>5
<1>5. ASSUME NEW inFile \in Passwords \cup {"empty", w.word},
             NEW inMemory \in Passwords \cup {w.word}, NewkeyWritten(w, inFile, inMemory)
      PROVE  IInv'
  <2> DEFINE a == Answer(bridge.sessionKey)
  <2>1. /\ a \in Packets /\ a.type = "ACK"
        /\ a.cipher = IF bridge.sessionKeyValid THEN bridge.sessionKey ELSE Clear
    BY <1>3, SentTypes
  <2> HIDE DEF a
  <2>2. /\ down' \in [Managers -> Seq(Packets)] /\ DownPackets' \subseteq DownPackets \cup {a}
    BY <1>2, <1>5, <2>1, DeliverPacket DEF NewkeyWritten, a
  <2>3. Used(bridge.sessionKey) \in FinKeys
    BY <1>3, KeyTypes DEF Used
  <2>4. /\ inFile \in NoneOrPassword \cup {"empty"} /\ inMemory \in NoneOrPassword
        /\ file' = inFile /\ spoilt' = (inFile # w.word)
    BY <1>2, <1>5 DEF NoneOrPassword, NewkeyWritten
  <2>5. /\ bridge' \in Bridges /\ bridge'.sessionKeyValid = bridge.sessionKeyValid
        /\ bridge'.passwordLoaded = TRUE /\ bridge'.sessionKey = Used(bridge.sessionKey)
    BY <1>3, <1>5, <2>3, <2>4 DEF NewkeyWritten, Bridges
  <2>6. TypeInv' /\ Stages'
    BY <1>1, <1>3, <2>2, <2>4, <2>5 DEF TypeInv, Stages
  <2>7. spoilt' = (file' # w.word)
    BY <2>4
  <2>8. KeysInv'
    BY <1>1, <1>2, <2>1, <2>2, <2>5, <2>7, KeysEnded
  <2> QED
    BY <2>6, <2>8
<1> QED
  BY <1>1, <1>4, <1>5

-----------------------------------------------------------------------------
(* The steps of the managers.                                              *)

(* A manager's side of the session changes, and that of no other.          *)
LEMMA SideChanged ==
  ASSUME TypeInv, NEW m \in Managers, NEW next \in Sides, Becomes(m, next)
  PROVE  /\ mgr' \in [Managers -> Sides] /\ mgr'[m] = next
         /\ \A n \in Managers : n # m => mgr'[n] = mgr[n] /\ Place(n)' = Place(n)
<1>1. /\ mgr' \in [Managers -> Sides] /\ mgr'[m] = next
      /\ \A n \in Managers : n # m => mgr'[n] = mgr[n]
  BY DEF TypeInv, Becomes
<1> QED
  BY <1>1 DEF Place

(* What manager m may become when it sends the packets of sent: what the   *)
(* parts of the invariant ask of its side.                                 *)
NewPlaces(sent) == Places \cup {p.cipher : p \in sent}
Before(next)    == [next.key EXCEPT !.pos = @ - 1]

HalfFits(m, next, sent) ==
  /\ next.pc = "sync" => \A h \in next.half :
       /\ \A k \in NewPlaces(sent) : h \notin k.halves
       /\ \A p \in Acks : h \notin p.cipher.halves
       /\ \A p \in DownPackets : p.type = "SYNCACK" => h \notin p.half
       /\ \A n \in Managers \ {m} : /\ mgr[n].synced => h \notin mgr[n].key.halves
                                    /\ mgr[n].pc = "sync" => h \notin mgr[n].half
       /\ h \notin bridge.sessionKey.halves /\ ~next.synced
  /\ \A n \in Managers \ {m} : mgr[n].pc = "sync" => \A h \in mgr[n].half :
       /\ next.synced => h \notin next.key.halves
       /\ \A p \in sent : h \notin p.cipher.halves

KeyFits(m, next, sent) ==
  /\ next.synced =>
       /\ \A k \in NewPlaces(sent) : k.halves = next.key.halves => k.pos < next.key.pos
       /\ \A p \in Acks : p.cipher.halves = next.key.halves => p.cipher.pos <= next.key.pos
  /\ \A n \in Managers \ {m} : mgr[n].synced =>
       /\ next.synced => next.key.halves # mgr[n].key.halves
       /\ \A p \in sent : p.cipher.halves # mgr[n].key.halves

StepFits(next) ==
  /\ next.synced /\ ~next.misled /\ bridge.sessionKeyValid
  /\ next.key.halves = bridge.sessionKey.halves
  => /\ writing = {}
     /\ next.pc = "idle" => bridge.sessionKey.pos = next.key.pos + Ahead(next.owed)
     /\ next.pc = "wait" => /\ bridge.sessionKey.pos \in next.key.pos - 1 .. next.key.pos
                            /\ \A p \in Failures : p.of # Before(next)

RanFits(next) ==
  next.synced =>
    /\ \A p \in Acks : p.cipher = next.key => Before(next) \in ran
    /\ \A w \in writing :
         bridge.sessionKeyValid /\ Before(next) = w.of => Before(next) \in ran

WordFits(next, sent) ==
  next.synced /\ next.pc = "wait" =>
    \A p \in UpPackets \cup sent :
      p.type = "newkey" /\ p.cipher = Before(next) => p.word = next.sent

(* A manager that does so leaves the rest of the invariant as it was.      *)
LEMMA SideKeys ==
  ASSUME IInv, NEW m \in Managers, NEW next \in Sides, Becomes(m, next),
         UNCHANGED <<bridge, file, writing, ran, spoilt>>, newest' \subseteq newest \ {m},
         DownPackets' \subseteq DownPackets, NEW sent, UpPackets' \subseteq UpPackets \cup sent,
         HalfFits(m, next, sent), KeyFits(m, next, sent), StepFits(next), RanFits(next),
         WordFits(next, sent)
  PROVE  KeysInv'
<1> USE DEF IInv, KeysInv
<1>1. /\ mgr'[m] = next /\ Place(m)' = Before(next)
      /\ \A n \in Managers \ {m} : mgr'[n] = mgr[n] /\ Place(n)' = Place(n)
  BY SideChanged DEF Place, Before
<1>2. /\ Acks' \subseteq Acks /\ Failures' \subseteq Failures
      /\ Places' \subseteq NewPlaces(sent) /\ Done' \subseteq Done
  <2>1. Acks' \subseteq Acks /\ Failures' \subseteq Failures
    BY DEF Acks, Failures
  <2> QED
    BY <2>1 DEF Places, Done, NewPlaces
<1>3. \A k \in NewPlaces(sent) : k \in Places \/ \E p \in sent : k = p.cipher
  BY DEF NewPlaces
<1>4. Private'
  <2>1. ASSUME NEW n \in Managers, mgr'[n].pc = "sync", NEW h \in mgr'[n].half
        PROVE  /\ \A k \in Places' : h \notin k.halves
               /\ \A p \in Acks' : h \notin p.cipher.halves
               /\ \A p \in DownPackets' : p.type = "SYNCACK" => h \notin p.half
               /\ \A k \in Managers : /\ mgr'[k].synced => h \notin mgr'[k].key.halves
                                      /\ k # n /\ mgr'[k].pc = "sync" => h \notin mgr'[k].half
               /\ h \in bridge'.sessionKey.halves => bridge'.sessionKey.pos = 0
    <3>1. CASE n = m
      BY <1>1, <1>2, <2>1, <3>1 DEF HalfFits
    <3>2. CASE n # m
      <4>1. mgr[n].pc = "sync" /\ h \in mgr[n].half
        BY <1>1, <2>1, <3>2
      <4>2. \A k \in Managers : /\ mgr'[k].synced => h \notin mgr'[k].key.halves
                                /\ k # n /\ mgr'[k].pc = "sync" => h \notin mgr'[k].half
        BY <1>1, <3>2, <4>1 DEF HalfFits, Private
      <4>3. \A k \in Places' : h \notin k.halves
        BY <1>2, <1>3, <3>2, <4>1 DEF HalfFits, Private
      <4> QED
        BY <1>2, <3>2, <4>1, <4>2, <4>3 DEF Private
    <3> QED
      BY <3>1, <3>2
  <2> QED
    BY <2>1 DEF Private
<1>5. Behind'
  <2>1. ASSUME NEW n \in Managers, mgr'[n].synced
        PROVE  /\ \A k \in Places' : k.halves = mgr'[n].key.halves => k.pos < mgr'[n].key.pos
               /\ \A p \in Acks' : p.cipher.halves = mgr'[n].key.halves
                                     => p.cipher.pos <= mgr'[n].key.pos
               /\ \A k \in Managers \ {n} :
                    mgr'[k].synced => mgr'[k].key.halves # mgr'[n].key.halves
    <3>1. CASE n = m
      BY <1>1, <1>2, <2>1, <3>1 DEF KeyFits
    <3>2. CASE n # m
      BY <1>1, <1>2, <1>3, <2>1, <3>2 DEF KeyFits, Behind
    <3> QED
      BY <3>1, <3>2
  <2> QED
    BY <2>1 DEF Behind
<1>6. UsedUp'
  BY <1>1, <1>2 DEF UsedUp, TypeInv
<1>7. InStep'
  <2> SUFFICES ASSUME NEW n \in Managers, SameKey(n)'
               PROVE  /\ mgr'[n].pc = "idle" =>
                           bridge'.sessionKey.pos = mgr'[n].key.pos + Ahead(mgr'[n].owed)
                      /\ mgr'[n].pc = "wait" =>
                           /\ bridge'.sessionKey.pos \in mgr'[n].key.pos - 1 .. mgr'[n].key.pos + 1
                           /\ \A p \in Failures' : p.of = Place(n)' =>
                                bridge'.sessionKey.pos = mgr'[n].key.pos + Ahead(p.more)
    BY DEF InStep, Ahead
  <2>1. CASE n = m
    <3>1. /\ next.pc = "idle" => bridge.sessionKey.pos = next.key.pos + Ahead(next.owed)
          /\ next.pc = "wait" => /\ bridge.sessionKey.pos \in next.key.pos - 1 .. next.key.pos
                                 /\ \A p \in Failures : p.of # Before(next)
      BY <1>1, <2>1 DEF SameKey, StepFits
    <3>2. next.key.pos \in Nat
      BY DEF Sides, FinKeys, Keys
    <3> QED
      BY <1>1, <1>2, <2>1, <3>1, <3>2
  <2>2. CASE n # m
    <3>1. SameKey(n)
      BY <1>1, <2>2 DEF SameKey
    <3> QED
      BY <1>1, <1>2, <2>2, <3>1 DEF InStep
  <2> QED
    BY <2>1, <2>2
<1>8. AnswersRan'
  BY <1>1, <1>2 DEF AnswersRan, RanFits
<1>9. InHand'
  <2> SUFFICES ASSUME NEW w \in writing, bridge.sessionKeyValid, NEW n \in Managers
               PROVE  /\ SameKey(n)' => /\ mgr'[n].pc = "wait"
                                        /\ mgr'[n].key.pos = bridge.sessionKey.pos
                      /\ mgr'[n].synced /\ Place(n)' = w.of => Place(n)' \in ran
    BY <1>2 DEF InHand
  <2>1. CASE n = m
    BY <1>1, <2>1 DEF SameKey, StepFits, RanFits
  <2>2. CASE n # m
    <3>1. SameKey(n)' => SameKey(n)
      BY <1>1, <2>2 DEF SameKey
    <3> QED
      BY <1>1, <2>2, <3>1 DEF InHand
  <2> QED
    BY <2>1, <2>2
<1>10. OwnWord'
  <2> SUFFICES ASSUME NEW n \in Managers, mgr'[n].synced, mgr'[n].pc = "wait",
                      NEW p \in UpPackets', p.type = "newkey", p.cipher = Place(n)'
               PROVE  p.word = mgr'[n].sent
    BY DEF OwnWord
  <2>1. CASE n = m
    BY <1>1, <2>1 DEF WordFits
  <2>2. CASE n # m
    <3>1. mgr'[n] = mgr[n] /\ Place(n)' = Place(n) /\ Place(n).halves = mgr[n].key.halves
      BY <1>1, <2>2, Types DEF Place, FinKeys, Keys
    <3>2. p \notin sent
      BY <2>2, <3>1 DEF KeyFits
    <3> QED
      BY <3>1, <3>2 DEF OwnWord
  <2> QED
    BY <2>1, <2>2
<1>11. Written'
  BY <1>1, <1>2 DEF Written, TypeInv
<1> QED
  BY <1>4, <1>5, <1>6, <1>7, <1>8, <1>9, <1>10, <1>11

(* What a manager leaves alone when it gets a packet or waits no more.     *)
Inside == /\ down' \in [Managers -> Seq(Packets)] /\ DownPackets' \subseteq DownPackets
          /\ faults' \in Nat
          /\ UNCHANGED <<bridge, file, writing, up, ran, spoilt>>

(* It starts over, or gives up.                                            *)
LEMMA StartOverIInv ==
  ASSUME IInv, NEW m \in Managers, NEW secure \in BOOLEAN, Inside, StartOver(m, secure)
  PROVE  IInv'
<1> USE DEF IInv
<1> DEFINE next == Fresh(secure, mgr[m].word)
<1>1. next \in Sides
  BY Types, KeyTypes DEF Sides, HalfSets, NoneOrPassword, Fresh
<1>2. next.pc = "idle" /\ next.synced = FALSE /\ next.key = Clear /\ next.owed = FALSE
  BY DEF Fresh
<1>3. Becomes(m, next) /\ newest' \subseteq newest \ {m}
  BY DEF StartOver
<1> HIDE DEF next
<1>4. /\ mgr' \in [Managers -> Sides] /\ mgr'[m] = next
      /\ \A n \in Managers : n # m => mgr'[n] = mgr[n]
  BY <1>1, <1>3, SideChanged
<1>5. UpPackets' \subseteq UpPackets \cup {}
  BY DEF Inside, UpPackets
<1>6. left' \in [Managers -> Nat] /\ \A n \in Managers : n # m => left'[n] = left[n]
  BY DEF StartOver, TypeInv
<1>7. TypeInv'
  BY <1>3, <1>4, <1>6 DEF Inside, TypeInv
<1>8. Stages'
  BY <1>2, <1>4, <1>6 DEF Stages
<1>9. /\ HalfFits(m, next, {}) /\ KeyFits(m, next, {}) /\ StepFits(next)
      /\ RanFits(next) /\ WordFits(next, {})
  BY <1>2 DEF HalfFits, KeyFits, StepFits, RanFits, WordFits
<1>10. KeysInv'
  BY <1>1, <1>3, <1>5, <1>9, SideKeys DEF Inside
<1> QED
  BY <1>7, <1>8, <1>10

(* SYNC, with a half that nobody has seen.                                 *)
LEMMA SendSyncIInv ==
  ASSUME IInv, FreshHalf, NEW m \in Managers, SendSync(m) PROVE IInv'
<1> USE DEF IInv, KeysInv
<1> DEFINE next == [mgr[m] EXCEPT !.pc = "sync", !.half = {NewHalf}]
           q == Packet("SYNC", TRUE, {NewHalf}, mgr[m].word, Clear)
<1>1. /\ next \in Sides /\ next.pc = "sync" /\ next.half = {NewHalf} /\ next.synced = FALSE
      /\ next.secure = TRUE /\ next.key = mgr[m].key /\ next.owed = mgr[m].owed
      /\ next.owed = FALSE
  BY NewHalfIsNew DEF SendSync, TypeInv, Sides, Stages
<1>2. q \in Packets /\ q.cipher = Clear /\ q.cipher.halves = {} /\ q.type = "SYNC"
  BY NewHalfIsNew, Types, KeyTypes DEF Packet, Packets, PacketTypes
<1>3. /\ Becomes(m, next) /\ up' = [up EXCEPT ![m] = Append(@, q)]
      /\ UNCHANGED <<bridge, down, left, faults, ran>>
      /\ UNCHANGED <<file, writing, newest, spoilt>>
      /\ left[m] > 0 /\ mgr[m].synced = FALSE /\ mgr[m].pc = "idle"
  BY DEF SendSync, TypeInv, Sides, file_vars
<1> HIDE DEF next, q
<1>4. /\ mgr' \in [Managers -> Sides] /\ mgr'[m] = next
      /\ \A n \in Managers : n # m => mgr'[n] = mgr[n]
  BY <1>1, <1>3, SideChanged
<1>5. up' \in [Managers -> Seq(Packets)] /\ UpPackets' \subseteq UpPackets \cup {q}
  BY <1>2, <1>3, UpGrows
<1>6. DownPackets' \subseteq DownPackets
  BY <1>3 DEF DownPackets
<1>7. newest' \subseteq newest \ {m}
  BY <1>3 DEF Written
<1>8. TypeInv'
  BY <1>3, <1>4, <1>5 DEF TypeInv
<1>9. Stages'
  BY <1>1, <1>3, <1>4 DEF Stages
<1>10. HalfFits(m, next, {q})
  <2>1. \A p \in Acks : p \in DownPackets
    BY DEF Acks
  <2>2. \A k \in NewPlaces({q}) : NewHalf \notin k.halves
    BY <1>2, NewHalfIsNew DEF NewPlaces
  <2> QED
    BY <1>1, <1>2, <2>1, <2>2, NewHalfIsNew DEF HalfFits
<1>11. KeyFits(m, next, {q})
  BY <1>1, <1>2 DEF KeyFits, Stages
<1>12. StepFits(next) /\ RanFits(next) /\ WordFits(next, {q})
  BY <1>1 DEF StepFits, RanFits, WordFits
<1>13. KeysInv'
  BY <1>1, <1>3, <1>5, <1>6, <1>7, <1>10, <1>11, <1>12, SideKeys
<1> QED
  BY <1>8, <1>9, <1>13

(* A command takes the next place of the stream.                           *)
LEMMA SendCommandIInv ==
  ASSUME IInv, NEW m \in Managers, NEW kind \in Kinds, SendCommand(m, kind) PROVE IInv'
<1> USE DEF IInv, KeysInv
<1>1. PICK word \in Words(m, kind) :
        /\ Becomes(m, [mgr[m] EXCEPT !.pc = "wait", !.sent = word, !.owed = FALSE,
                                     !.key = IF mgr[m].secure THEN Advance(@) ELSE @])
        /\ up' = [up EXCEPT ![m] = Append(@, Packet(kind, mgr[m].secure, {}, word, mgr[m].key))]
  BY DEF SendCommand
<1> DEFINE me == mgr[m]
           key == IF me.secure THEN Advance(me.key) ELSE me.key
           next == [me EXCEPT !.pc = "wait", !.sent = word, !.owed = FALSE, !.key = key]
           q == Packet(kind, me.secure, {}, word, me.key)
<1>2. me \in Sides /\ me.key \in FinKeys /\ me.key.pos \in Nat /\ me.secure \in BOOLEAN
  BY Types DEF Sides
<1>3. key \in FinKeys
  BY <1>2, KeyTypes
<1>4. word \in NoneOrPassword
  BY DEF Words, NoneOrPassword
<1>5. /\ next \in Sides /\ next.pc = "wait" /\ next.synced = me.synced
      /\ next.secure = me.secure /\ next.misled = me.misled /\ next.owed = FALSE
      /\ next.key = key /\ next.sent = word
  BY <1>2, <1>3, <1>4 DEF Sides
<1>6. /\ left[m] > 0 /\ me.pc = "idle" /\ (me.secure => me.synced) /\ (me.synced => me.secure)
      /\ ~me.synced => me.key = Clear
  BY DEF SendCommand, Stages
<1>7. me.synced => key.halves = me.key.halves /\ key.pos = me.key.pos + 1
  BY <1>2, <1>6, KeyTypes
<1>8. ~me.synced => me.key = Clear /\ key = Clear /\ ~me.secure
  BY <1>6
<1>9. q \in Packets /\ q.cipher = me.key /\ q.word = word
  BY <1>2, <1>4, KeyTypes DEF Packet, Packets, PacketTypes, HalfSets
<1>10. /\ Becomes(m, next) /\ up' = [up EXCEPT ![m] = Append(@, q)]
       /\ UNCHANGED <<bridge, down, left, ran>> /\ faults' \in Nat
       /\ UNCHANGED <<file, writing, newest, spoilt>>
  <2>1. /\ UNCHANGED <<bridge, down, left, ran>>
        /\ UNCHANGED <<file, writing, newest, spoilt>>
    BY DEF SendCommand, file_vars
  <2>2. Fault \/ NoFault
    BY DEF SendCommand
  <2>3. faults' \in Nat
    BY <2>2 DEF Fault, NoFault, TypeInv
  <2> QED
    BY <1>1, <2>1, <2>3
<1>11. me.synced => Before(next) = me.key
  BY <1>2, <1>5, <1>6, <1>7 DEF Before, FinKeys, Keys, Advance
<1> HIDE DEF next, q, key
<1>12. /\ mgr' \in [Managers -> Sides] /\ mgr'[m] = next
       /\ \A n \in Managers : n # m => mgr'[n] = mgr[n]
  BY <1>5, <1>10, SideChanged
<1>13. up' \in [Managers -> Seq(Packets)] /\ UpPackets' \subseteq UpPackets \cup {q}
  BY <1>9, <1>10, UpGrows
<1>14. DownPackets' \subseteq DownPackets
  BY <1>10 DEF DownPackets
<1>15. newest' \subseteq newest \ {m}
  BY <1>6, <1>10 DEF Written
<1>16. TypeInv'
  BY <1>10, <1>12, <1>13 DEF TypeInv
<1>17. Stages'
  BY <1>5, <1>6, <1>7, <1>8, <1>10, <1>12 DEF Stages
<1>18. HalfFits(m, next, {q})
  <2>1. ASSUME NEW n \in Managers \ {m}, mgr[n].pc = "sync", NEW h \in mgr[n].half
        PROVE  h \notin me.key.halves
    BY <1>8, <2>1, KeyTypes DEF Private
  <2> QED
    BY <1>5, <1>7, <1>9, <2>1 DEF HalfFits
<1>19. KeyFits(m, next, {q})
  <2>1. ASSUME me.synced, NEW k \in NewPlaces({q}), k.halves = me.key.halves
        PROVE  k.pos < key.pos
    <3>1. CASE k \in Places
      <4>1. k.pos < me.key.pos /\ k.pos \in Nat
        BY <2>1, <3>1, Types DEF Behind
      <4> QED
        BY <1>2, <1>7, <2>1, <4>1
    <3>2. CASE k = me.key
      BY <1>2, <1>7, <2>1, <3>2
    <3> QED
      BY <1>9, <3>1, <3>2 DEF NewPlaces
  <2>2. ASSUME me.synced, NEW p \in Acks, p.cipher.halves = me.key.halves
        PROVE  p.cipher.pos <= key.pos
    <3>1. p.cipher.pos <= me.key.pos /\ p.cipher.pos \in Nat
      BY <2>2, Types DEF Behind, Acks
    <3> QED
      BY <1>2, <1>7, <2>2, <3>1
  <2>3. ASSUME NEW n \in Managers \ {m}, mgr[n].synced
        PROVE  me.key.halves # mgr[n].key.halves
    BY <1>8, <2>3, KeyTypes DEF Behind, Stages
  <2> QED
    BY <1>5, <1>7, <1>9, <2>1, <2>2, <2>3 DEF KeyFits
<1>20. \A k \in Places : me.synced => k # me.key
  BY <1>2 DEF Behind
<1>21. StepFits(next)
  <2> SUFFICES ASSUME me.synced, ~me.misled, bridge.sessionKeyValid,
                      key.halves = bridge.sessionKey.halves
               PROVE  /\ writing = {} /\ bridge.sessionKey.pos \in key.pos - 1 .. key.pos
                      /\ \A p \in Failures : p.of # me.key
    BY <1>5, <1>11 DEF StepFits
  <2>1. SameKey(m)
    BY <1>7 DEF SameKey
  <2>2. writing = {}
    BY <1>6, <2>1 DEF InHand
  <2>3. bridge.sessionKey.pos \in {me.key.pos, me.key.pos + 1}
    BY <1>2, <1>6, <2>1 DEF InStep, Ahead
  <2>4. \A p \in Failures : p.of # me.key
    BY <1>20 DEF Places
  <2> QED
    BY <1>2, <1>7, <2>2, <2>3, <2>4
<1>22. RanFits(next)
  <2>1. ASSUME me.synced, NEW p \in Acks, p.cipher = key PROVE FALSE
    <3>1. p.cipher.pos <= me.key.pos /\ p.cipher.pos = me.key.pos + 1
      BY <1>7, <2>1 DEF Behind
    <3> QED
      BY <1>2, <3>1
  <2>2. \A w \in writing : me.synced => w.of # me.key
    BY <1>20 DEF Places
  <2> QED
    BY <1>5, <1>11, <2>1, <2>2 DEF RanFits
<1>23. WordFits(next, {q})
  <2>1. \A p \in UpPackets : me.synced => p.cipher # me.key
    BY <1>20 DEF Places
  <2> QED
    BY <1>5, <1>9, <1>11, <2>1 DEF WordFits
<1>24. KeysInv'
  BY <1>5, <1>10, <1>13, <1>14, <1>15, <1>18, <1>19, <1>21, <1>22, <1>23, SideKeys
<1> QED
  BY <1>16, <1>17, <1>24

(* The answer to SYNC makes a key.                                         *)
LEMMA GetSyncAckIInv ==
  ASSUME IInv, NEW m \in Managers, NEW p \in DownPackets, Inside, GetSyncAck(m, p)
  PROVE  IInv'
<1> USE DEF IInv, KeysInv
<1> DEFINE me == mgr[m]
           theirs == IF p.cipher = Clear THEN Deciphered(p, me.word) ELSE {Garbage}
           key == NewKey(me.half, theirs)
           next == [me EXCEPT !.pc = "idle", !.synced = TRUE, !.half = {}, !.key = key]
<1>1. /\ me \in Sides /\ me.half \in HalfSets /\ me.pc = "sync" /\ p.type = "SYNCACK"
      /\ p.half \in HalfSets /\ me.secure /\ me.half # {} /\ me.synced = FALSE
      /\ me.owed = FALSE
  BY Types DEF GetSyncAck, Stages, Sides
<1>2. theirs \in Parts /\ theirs \in {p.half, {Garbage}}
  BY DecipheredTypes DEF Parts, Deciphered
<1> HIDE DEF theirs
<1>3. key \in FinKeys /\ key.halves = me.half \cup theirs /\ key.pos = 0
  BY <1>1, <1>2, KeyTypes DEF Parts
<1>4. /\ next \in Sides /\ next.pc = "idle" /\ next.synced = TRUE
      /\ next.secure = me.secure /\ next.key = key /\ next.owed = FALSE
  BY <1>1, <1>3 DEF Sides, HalfSets
<1>5. Becomes(m, next) /\ left' = left /\ newest' = newest
  BY DEF GetSyncAck, theirs
<1>6. PICK h \in me.half : h \in Halves
  BY <1>1 DEF HalfSets
<1>7. h \in key.halves
  BY <1>3, <1>6
<1> HIDE DEF next, key
<1>8. /\ mgr' \in [Managers -> Sides] /\ mgr'[m] = next
      /\ \A n \in Managers : n # m => mgr'[n] = mgr[n]
  BY <1>4, <1>5, SideChanged
<1>9. UpPackets' \subseteq UpPackets \cup {}
  BY DEF Inside, UpPackets
<1>10. newest' \subseteq newest \ {m}
  BY <1>1, <1>5 DEF Written
<1>11. TypeInv'
  BY <1>5, <1>8 DEF Inside, TypeInv
<1>12. Stages'
  BY <1>1, <1>4, <1>5, <1>7, <1>8 DEF Stages
<1>13. /\ \A k \in Places : k.halves # key.halves
       /\ \A r \in Acks : r.cipher.halves # key.halves
       /\ \A n \in Managers : mgr[n].synced => mgr[n].key.halves # key.halves
       /\ bridge.sessionKey.halves = key.halves => bridge.sessionKey.pos = 0
  BY <1>1, <1>6, <1>7 DEF Private
<1>14. HalfFits(m, next, {})
  <2>1. ASSUME NEW n \in Managers \ {m}, mgr[n].pc = "sync", NEW g \in mgr[n].half
        PROVE  g \notin key.halves
    <3>1. g # Garbage
      BY <2>1, Types, SessionAssumption DEF HalfSets
    <3>2. g \notin me.half /\ g \notin p.half
      BY <1>1, <2>1 DEF Private
    <3> QED
      BY <1>2, <1>3, <3>1, <3>2
  <2> QED
    BY <1>4, <2>1 DEF HalfFits
<1>15. KeyFits(m, next, {})
  BY <1>4, <1>13 DEF KeyFits, NewPlaces
<1>16. StepFits(next)
  <2> SUFFICES ASSUME bridge.sessionKeyValid, key.halves = bridge.sessionKey.halves
               PROVE  writing = {} /\ bridge.sessionKey.pos = key.pos + Ahead(next.owed)
    BY <1>4 DEF StepFits
  <2>1. \A w \in writing : w.of.halves # key.halves
    BY <1>13 DEF Places
  <2>2. writing = {}
    BY <2>1 DEF InHand
  <2> QED
    BY <1>3, <1>4, <1>13, <2>2 DEF Ahead
<1>17. RanFits(next)
  <2>1. Before(next).halves = key.halves
    BY <1>3, <1>4 DEF Before, FinKeys, Keys
  <2> QED
    BY <1>4, <1>13, <2>1 DEF RanFits, Places
<1>18. WordFits(next, {})
  BY <1>4 DEF WordFits
<1>19. KeysInv'
  BY <1>4, <1>5, <1>9, <1>10, <1>14, <1>15, <1>16, <1>17, <1>18, SideKeys DEF Inside
<1> QED
  BY <1>11, <1>12, <1>19

(* The answer to a command: the manager goes on, at the next place of the  *)
(* stream unless the answer was an error.                                  *)
LEMMA Answered ==
  ASSUME IInv, NEW m \in Managers, Inside, mgr[m].pc = "wait",
         NEW next \in Sides, Becomes(m, next), left' = [left EXCEPT ![m] = @ - 1],
         newest' = newest \ {m}, next.pc = "idle", next.secure = mgr[m].secure,
         next.synced = mgr[m].synced, mgr[m].misled => next.misled,
         NEW d \in {0, 1}, d = 0 => next.key = mgr[m].key,
         mgr[m].synced => /\ next.key.halves = mgr[m].key.halves
                          /\ next.key.pos = mgr[m].key.pos + d,
         ~mgr[m].synced => next.key = mgr[m].key,
         SameKey(m) /\ ~next.misled =>
           writing = {} /\ bridge.sessionKey.pos = next.key.pos + Ahead(next.owed)
  PROVE  IInv'
<1> USE DEF IInv, KeysInv
<1> DEFINE me == mgr[m]
<1>1. /\ mgr' \in [Managers -> Sides] /\ mgr'[m] = next
      /\ \A n \in Managers : n # m => mgr'[n] = mgr[n] /\ Place(n)' = Place(n)
  BY SideChanged
<1>2. UpPackets' \subseteq UpPackets \cup {}
  BY DEF Inside, UpPackets
<1>3. left' \in [Managers -> Nat] /\ \A n \in Managers : n # m => left'[n] = left[n]
  <2>1. left[m] \in Nat /\ left[m] > 0
    BY DEF TypeInv, Stages
  <2>2. left[m] - 1 \in Nat
    BY <2>1
  <2> QED
    BY <2>2 DEF TypeInv
<1>4. TypeInv'
  BY <1>1, <1>3 DEF Inside, TypeInv
<1>5. Stages'
  BY <1>1, <1>3 DEF Stages
<1>6. /\ me.key \in FinKeys /\ next.key \in FinKeys /\ me.key.pos \in Nat
      /\ me.synced => next.key.pos \in {me.key.pos, me.key.pos + 1}
  BY Types DEF Sides
<1>7. HalfFits(m, next, {})
  BY DEF HalfFits, Private
<1>8. KeyFits(m, next, {})
  <2>1. ASSUME me.synced, NEW k \in Places, k.halves = me.key.halves
        PROVE  k.pos < next.key.pos
    <3>1. k.pos < me.key.pos /\ k.pos \in Nat
      BY <2>1, Types DEF Behind
    <3> QED
      BY <1>6, <2>1, <3>1
  <2>2. ASSUME me.synced, NEW r \in Acks, r.cipher.halves = me.key.halves
        PROVE  r.cipher.pos <= next.key.pos
    <3>1. r.cipher.pos <= me.key.pos /\ r.cipher.pos \in Nat
      BY <2>2, Types DEF Behind, Acks
    <3> QED
      BY <1>6, <2>2, <3>1
  <2>3. ASSUME NEW n \in Managers \ {m}, mgr[n].synced, me.synced
        PROVE  next.key.halves # mgr[n].key.halves
    BY <2>3 DEF Behind
  <2> QED
    BY <2>1, <2>2, <2>3 DEF KeyFits, NewPlaces
<1>9. StepFits(next)
  <2> SUFFICES ASSUME me.synced, ~next.misled, bridge.sessionKeyValid,
                      next.key.halves = bridge.sessionKey.halves
               PROVE  writing = {} /\ bridge.sessionKey.pos = next.key.pos + Ahead(next.owed)
    BY DEF StepFits
  <2>1. SameKey(m)
    BY DEF SameKey
  <2> QED
    BY <2>1
<1>10. RanFits(next)
  <2>1. CASE next.key = me.key
    <3>1. Before(next) = Place(m)
      BY <2>1 DEF Before, Place
    <3> QED
      BY <2>1, <3>1 DEF RanFits, AnswersRan, InHand
  <2>2. CASE me.synced /\ d = 1
    <3>1. \A r \in Acks : r.cipher # next.key
      BY <1>6, <2>2 DEF Behind
    <3>2. Before(next).halves = me.key.halves /\ Before(next).pos = me.key.pos
      BY <1>6, <2>2 DEF Before, FinKeys, Keys
    <3>3. \A w \in writing : w.of # Before(next)
      BY <1>6, <2>2, <3>2 DEF Behind, Places
    <3> QED
      BY <3>1, <3>3 DEF RanFits
  <2> QED
    BY <2>1, <2>2
<1>11. WordFits(next, {})
  BY DEF WordFits
<1>12. KeysInv'
  BY <1>2, <1>7, <1>8, <1>9, <1>10, <1>11, SideKeys DEF Inside
<1> QED
  BY <1>4, <1>5, <1>12

(* It is an answer, in the stream if the session is secure.                *)
LEMMA GetAckIInv ==
  ASSUME IInv, NEW m \in Managers, NEW p \in DownPackets, Inside, GetAck(m, p)
  PROVE  IInv'
<1> USE DEF IInv, KeysInv
<1> DEFINE me == mgr[m]
           key == IF me.secure THEN Advance(me.key) ELSE me.key
           word == IF me.sent # "none" THEN me.sent ELSE me.word
           next == [me EXCEPT !.pc = "idle", !.sent = "none", !.word = word, !.key = key]
           d == IF me.secure THEN 1 ELSE 0
<1>1. /\ me \in Sides /\ me.key \in FinKeys /\ me.key.pos \in Nat /\ me.secure \in BOOLEAN
      /\ me.pc = "wait" /\ p.type = "ACK" /\ p \in Acks
  BY Types DEF Sides, GetAck, Acks
<1>2. CASE p.cipher # me.key
  <2>1. StartOver(m, me.secure)
    BY <1>2 DEF GetAck
  <2> QED
    BY <1>1, <2>1, StartOverIInv
<1>3. CASE p.cipher = me.key
  <2>1. /\ Becomes(m, next) /\ left' = [left EXCEPT ![m] = @ - 1]
        /\ newest' = newest \ {m}
    BY <1>3 DEF GetAck
  <2>2. key \in FinKeys /\ word \in NoneOrPassword
    BY <1>1, KeyTypes DEF Sides
  <2>3. /\ next \in Sides /\ next.pc = "idle" /\ next.synced = me.synced
        /\ next.secure = me.secure /\ next.misled = me.misled /\ next.key = key
        /\ next.owed = me.owed
    BY <1>1, <2>2 DEF Sides, NoneOrPassword
  <2>4. (me.synced <=> me.secure) /\ me.owed = FALSE
    BY <1>1 DEF Stages, Sides
  <2>5. me.synced => /\ key.halves = me.key.halves /\ key.pos = me.key.pos + d
    BY <1>1, <2>4, KeyTypes
  <2>6. ~me.synced => key = me.key
    BY <2>4
  <2>7. d \in {0, 1} /\ (d = 0 => key = me.key)
    BY <1>1
  <2>8. SameKey(m) => writing = {} /\ bridge.sessionKey.pos = key.pos
    <3> SUFFICES ASSUME SameKey(m)
                 PROVE  writing = {} /\ bridge.sessionKey.pos = key.pos
      OBVIOUS
    <3>1. p.cipher.pos < bridge.sessionKey.pos
      BY <1>1, <1>3 DEF SameKey, UsedUp
    <3>2. bridge.sessionKey.pos \in me.key.pos - 1 .. me.key.pos + 1
      BY <1>1 DEF InStep
    <3>3. bridge.sessionKey.pos = me.key.pos + 1
      BY <1>1, <1>3, <3>1, <3>2
    <3>4. key.pos = me.key.pos + 1
      BY <1>1, <2>4, KeyTypes DEF SameKey
    <3>5. bridge.sessionKeyValid
      BY DEF SameKey
    <3>6. \A w \in writing : me.key.pos = bridge.sessionKey.pos
      BY <3>5 DEF InHand
    <3>7. writing = {}
      BY <1>1, <3>3, <3>6
    <3> QED
      BY <3>3, <3>4, <3>7
  <2> HIDE DEF key, d, word
  <2>9. /\ SameKey(m) /\ ~next.misled =>
             writing = {} /\ bridge.sessionKey.pos = next.key.pos + Ahead(next.owed)
        /\ me.synced => /\ next.key.halves = me.key.halves
                        /\ next.key.pos = me.key.pos + d
        /\ ~me.synced => next.key = me.key
        /\ me.misled => next.misled
        /\ d = 0 => next.key = me.key
    <3>1. key.pos \in Nat
      BY <2>2 DEF FinKeys, Keys
    <3> QED
      BY <2>3, <2>4, <2>5, <2>6, <2>7, <2>8, <3>1 DEF Ahead
  <2> HIDE DEF next
  <2> QED
    BY <1>1, <2>1, <2>3, <2>7, <2>9, Answered
<1> QED
  BY <1>2, <1>3

(* It is an error.                                                         *)
LEMMA GetErrorIInv ==
  ASSUME IInv, NEW m \in Managers, NEW p \in DownPackets, Inside, GetError(m, p)
  PROVE  IInv'
<1> USE DEF IInv, KeysInv
<1> DEFINE me == mgr[m]
           misled == me.misled \/ (me.secure /\ p.of # Place(m))
           next == [me EXCEPT !.pc = "idle", !.sent = "none", !.owed = p.more, !.misled = misled]
<1>1. /\ me \in Sides /\ me.key \in FinKeys /\ me.key.pos \in Nat /\ me.secure \in BOOLEAN
      /\ me.misled \in BOOLEAN /\ p.more \in BOOLEAN
  BY Types DEF Sides, Packets
<1>2. CASE p.type = "FAILED" /\ me.pc = "wait"
  <2>1. /\ Becomes(m, next) /\ left' = [left EXCEPT ![m] = @ - 1]
        /\ newest' = newest \ {m} /\ p \in Failures
    BY <1>2 DEF GetError, Failures
  <2>2. misled \in BOOLEAN
    BY <1>1
  <2>3. /\ next \in Sides /\ next.pc = "idle" /\ next.synced = me.synced
        /\ next.secure = me.secure /\ next.key = me.key /\ next.misled = misled
        /\ next.owed = p.more
    BY <1>1, <2>2 DEF Sides, NoneOrPassword
  <2>4. me.misled => next.misled
    BY <2>3
  <2>5. SameKey(m) /\ ~next.misled =>
          writing = {} /\ bridge.sessionKey.pos = next.key.pos + Ahead(next.owed)
    <3> SUFFICES ASSUME SameKey(m), ~misled
                 PROVE  writing = {} /\ bridge.sessionKey.pos = me.key.pos + Ahead(p.more)
      BY <2>3
    <3>1. p.of = Place(m) /\ Place(m) = [halves |-> me.key.halves, pos |-> me.key.pos - 1]
      BY <1>1 DEF SameKey, Stages, Place, FinKeys, Keys
    <3>2. bridge.sessionKey.pos = me.key.pos + Ahead(p.more)
      BY <1>2, <2>1, <3>1 DEF InStep
    <3>3. ASSUME NEW w \in writing PROVE FALSE
      <4>1. bridge.sessionKeyValid /\ me.key.halves = bridge.sessionKey.halves
        BY DEF SameKey
      <4>2. /\ w.of.halves = me.key.halves /\ bridge.sessionKey.pos = w.of.pos + 1
            /\ p.of # w.of /\ me.key.pos = bridge.sessionKey.pos
        BY <2>1, <4>1 DEF InHand
      <4>3. w.of \in FinKeys /\ w.of.pos \in Nat
        BY Types DEF Places
      <4>4. w.of = [halves |-> me.key.halves, pos |-> me.key.pos - 1]
        BY <4>2, <4>3, KeyTypes
      <4> QED
        BY <3>1, <4>2, <4>4
    <3> QED
      BY <3>2, <3>3
  <2>6. /\ 0 \in {0, 1} /\ (0 = 0 => next.key = me.key)
        /\ me.synced => /\ next.key.halves = me.key.halves /\ next.key.pos = me.key.pos + 0
        /\ ~me.synced => next.key = me.key
    BY <1>1, <2>3
  <2> HIDE DEF next
  <2> QED
    BY <1>2, <2>1, <2>3, <2>4, <2>5, <2>6, Answered
<1>3. CASE \E secure \in BOOLEAN : StartOver(m, secure)
  BY <1>3, StartOverIInv
<1> QED
  BY <1>1, <1>2, <1>3 DEF GetError

(* A packet comes to a manager.                                            *)
LEMMA ReceiveIInv ==
  ASSUME IInv, NEW m \in Managers, Receive(m) PROVE IInv'
<1> USE DEF IInv
<1>1. PICK i \in DOMAIN down[m] :
        /\ \E rest \in {down[m], RemoveAt(down[m], i)} :
             Arrives(down[m], i, rest) /\ down' = [down EXCEPT ![m] = rest]
        /\ \/ GetSyncAck(m, down[m][i]) \/ GetAck(m, down[m][i])
           \/ GetError(m, down[m][i]) \/ Unexpected(m, down[m][i])
  BY DEF Receive
<1>2. PICK rest : Arrives(down[m], i, rest) /\ down' = [down EXCEPT ![m] = rest]
  BY <1>1
<1>3. down[m] \in Seq(Packets)
  BY DEF TypeInv
<1>4. /\ rest \in Seq(Packets) /\ Range(rest) \subseteq Range(down[m])
      /\ down[m][i] \in Range(down[m]) /\ faults' \in Nat
  BY <1>2, <1>3, Arrival
<1>5. Inside
  BY <1>2, <1>4, DownShrinks DEF Inside, Receive
<1>6. down[m][i] \in DownPackets
  BY <1>4 DEF DownPackets
<1>7. CASE Unexpected(m, down[m][i])
  <2>1. TypeInv' /\ Stages'
    BY <1>5, <1>7 DEF Inside, Unexpected, TypeInv, Stages
  <2>2. UpPackets' = UpPackets
    BY <1>5 DEF Inside, UpPackets
  <2>3. KeysInv'
    BY <1>5, <1>7, <2>2, KeysUnused DEF Inside, Unexpected
  <2> QED
    BY <2>1, <2>3
<1> QED
  BY <1>1, <1>5, <1>6, <1>7, GetSyncAckIInv, GetAckIInv, GetErrorIInv

(* None comes.                                                             *)
LEMMA TimeoutIInv ==
  ASSUME IInv, NEW m \in Managers, Timeout(m) PROVE IInv'
<1>1. Inside
  BY DEF IInv, TypeInv, Inside, Timeout, Fault, NoFault, DownPackets
<1>2. mgr[m].secure \in BOOLEAN
  BY Types DEF IInv, Sides
<1> QED
  BY <1>1, <1>2, StartOverIInv DEF Timeout

-----------------------------------------------------------------------------
(* The other steps.                                                        *)

(* Packets are lost.                                                       *)
LEMMA LoseIInv ==
  ASSUME IInv, NEW m \in Managers, Lose(m) PROVE IInv'
<1> USE DEF IInv
<1>1. /\ UNCHANGED <<bridge, mgr, left, ran>> /\ UNCHANGED <<file, writing, newest, spoilt>>
      /\ faults' \in Nat
  BY DEF Lose, Fault, TypeInv, file_vars
<1>2. /\ up' \in [Managers -> Seq(Packets)] /\ UpPackets' \subseteq UpPackets
      /\ down' \in [Managers -> Seq(Packets)] /\ DownPackets' \subseteq DownPackets
  <2>1. up \in [Managers -> Seq(Packets)] /\ down \in [Managers -> Seq(Packets)]
    BY DEF TypeInv
  <2>2. ASSUME NEW i \in DOMAIN up[m], up' = [up EXCEPT ![m] = RemoveAt(@, i)], down' = down
        PROVE  up' \in [Managers -> Seq(Packets)] /\ UpPackets' \subseteq UpPackets
    <3>1. up[m] \in Seq(Packets)
      BY <2>1
    <3>2. RemoveAt(up[m], i) \in Seq(Packets) /\ Range(RemoveAt(up[m], i)) \subseteq Range(up[m])
      BY <3>1, Removed
    <3> QED
      BY <2>2, <3>2, UpShrinks
  <2>3. ASSUME NEW i \in DOMAIN down[m], down' = [down EXCEPT ![m] = RemoveAt(@, i)], up' = up
        PROVE  down' \in [Managers -> Seq(Packets)] /\ DownPackets' \subseteq DownPackets
    <3>1. down[m] \in Seq(Packets)
      BY <2>1
    <3>2. /\ RemoveAt(down[m], i) \in Seq(Packets)
          /\ Range(RemoveAt(down[m], i)) \subseteq Range(down[m])
      BY <3>1, Removed
    <3> QED
      BY <2>3, <3>2, DownShrinks
  <2>4. /\ up' = up => UpPackets' = UpPackets
        /\ down' = down => DownPackets' = DownPackets
    BY DEF UpPackets, DownPackets
  <2> QED
    BY <2>1, <2>2, <2>3, <2>4 DEF Lose
<1>3. TypeInv' /\ Stages'
  BY <1>1, <1>2 DEF TypeInv, Stages
<1>4. KeysInv'
  BY <1>1, <1>2, KeysUnused
<1> QED
  BY <1>3, <1>4

(* The bridge comes up again without a key, and with what is in the file.  *)
LEMMA RestartIInv ==
  ASSUME IInv, Restart, faults' \in Nat PROVE IInv'
<1> USE DEF IInv
<1>1. /\ bridge' \in Bridges /\ bridge'.sessionKey = Clear /\ bridge'.sessionKeyValid = FALSE
  BY KeyTypes DEF Restart, Started, Bridges, NoneOrPassword
<1>2. TypeInv' /\ Stages'
  BY <1>1 DEF Restart, TypeInv, Stages
<1>3. UpPackets' = UpPackets /\ DownPackets' = DownPackets
  BY DEF Restart, UpPackets, DownPackets
<1>4. KeysInv'
  BY <1>1, <1>3, KeysUnused DEF Restart
<1> QED
  BY <1>2, <1>4

(* The bridge takes a packet.                                              *)
LEMMA filtMessageIInv ==
  ASSUME IInv, FreshHalf, NEW m \in Managers, filtMessage(m) PROVE IInv'
<1>1. TypeInv /\ up[m] \in Seq(Packets) /\ writing = {} /\ UNCHANGED <<mgr, left>>
  BY DEF IInv, TypeInv, filtMessage
<1>2. PICK i \in DOMAIN up[m] :
        \/ /\ \E rest \in {up[m], RemoveAt(up[m], i)} :
               Arrives(up[m], i, rest) /\ up' = [up EXCEPT ![m] = rest]
           /\ \/ Ignored(m, up[m][i]) \/ WrongMode(m, up[m][i]) \/ LostSync(m, up[m][i])
              \/ handleSync(m, up[m][i]) \/ handleQuery(m, up[m][i])
              \/ QueryFails(m, up[m][i]) \/ QueryFailsAndGoesOn(m, up[m][i])
              \/ Eaten(m, up[m][i]) \/ handleReboot(m, up[m][i]) \/ handleNewkey(m, up[m][i])
        \/ /\ i = 1 /\ Fault /\ up' = [up EXCEPT ![m] = Tail(@)]
           /\ NewkeyUnopened(m, up[m][i])
  BY DEF filtMessage
<1>3. up[m][i] \in UpPackets
  BY <1>1, Removed DEF UpPackets
<1>4. Outside
  <2>1. CASE \E rest : Arrives(up[m], i, rest) /\ up' = [up EXCEPT ![m] = rest]
    <3>1. PICK rest : Arrives(up[m], i, rest) /\ up' = [up EXCEPT ![m] = rest]
      BY <2>1
    <3>2. /\ rest \in Seq(Packets) /\ Range(rest) \subseteq Range(up[m])
          /\ faults' \in Nat
      BY <1>1, <3>1, Arrival
    <3> QED
      BY <1>1, <3>1, <3>2, UpShrinks DEF Outside
  <2>2. CASE Fault /\ up' = [up EXCEPT ![m] = Tail(@)]
    <3>1. Tail(up[m]) \in Seq(Packets) /\ Range(Tail(up[m])) \subseteq Range(up[m])
      BY <1>1, Removed
    <3>2. faults' \in Nat
      BY <1>1, <2>2 DEF Fault, TypeInv
    <3> QED
      BY <1>1, <2>2, <3>1, <3>2, UpShrinks DEF Outside
  <2> QED
    BY <1>2, <2>1, <2>2
<1>5. CASE \/ handleQuery(m, up[m][i]) \/ QueryFails(m, up[m][i])
           \/ QueryFailsAndGoesOn(m, up[m][i])
  BY <1>3, <1>4, <1>5, HandledIInv DEF handleQuery, QueryFails, QueryFailsAndGoesOn
<1>6. CASE Eaten(m, up[m][i]) \/ NewkeyUnopened(m, up[m][i])
  BY <1>3, <1>4, <1>6, HandledIInv DEF Eaten, NewkeyUnopened
<1> QED
  BY <1>2, <1>3, <1>4, <1>5, <1>6, IgnoredIInv, WrongModeIInv, handleSyncIInv,
     handleRebootIInv, handleNewkeyIInv

(* A step that changes nothing.                                            *)
LEMMA StutterIInv == ASSUME IInv, UNCHANGED vars PROVE IInv'
<1>1. TypeInv' /\ Stages'
  BY DEF IInv, vars, file_vars, TypeInv, Stages
<1>2. UpPackets' = UpPackets /\ DownPackets' = DownPackets
  BY DEF vars, UpPackets, DownPackets
<1>3. KeysInv'
  BY <1>2, KeysUnused DEF vars, file_vars
<1> QED
  BY <1>1, <1>3 DEF IInv

-----------------------------------------------------------------------------
(* The theorems.                                                           *)

(* The bridge and the managers start without keys.                         *)
LEMMA InitIInv == Init => IInv
<1> SUFFICES ASSUME Init PROVE IInv
  OBVIOUS
<1>1. bridge \in Bridges /\ bridge.sessionKey = Clear /\ bridge.sessionKeyValid = FALSE
  BY KeyTypes DEF Init, Started, Bridges, NoneOrPassword
<1>2. /\ mgr \in [Managers -> Sides]
      /\ \A m \in Managers : /\ mgr[m].pc = "idle" /\ mgr[m].synced = FALSE
                             /\ mgr[m].key = Clear /\ mgr[m].owed = FALSE
  <2>1. ASSUME NEW secure \in BOOLEAN
        PROVE  LET side == Fresh(secure, Installed)
               IN  /\ side \in Sides /\ side.pc = "idle" /\ side.synced = FALSE
                   /\ side.key = Clear /\ side.owed = FALSE
    BY KeyTypes, SessionAssumption DEF Fresh, Sides, HalfSets, NoneOrPassword
  <2>2. PICK secure \in BOOLEAN : mgr = [m \in Managers |-> Fresh(secure, Installed)]
    BY DEF Init
  <2> QED
    BY <2>1, <2>2
<1>3. /\ up \in [Managers -> Seq(Packets)] /\ down \in [Managers -> Seq(Packets)]
      /\ \A m \in Managers : up[m] = <<>> /\ down[m] = <<>>
  BY DEF Init
<1>4. UpPackets = {} /\ DownPackets = {}
  BY <1>3 DEF UpPackets, DownPackets, Range
<1>5. TypeInv
  <2>1. file \in NoneOrPassword \cup {"empty"}
    BY SessionAssumption DEF Init, NoneOrPassword
  <2>2. left \in [Managers -> Nat] /\ faults \in Nat
    BY SessionAssumption DEF Init
  <2>3. ran \subseteq FinKeys /\ IsFiniteSet(ran)
    BY FS_EmptySet DEF Init
  <2>4. spoilt \in BOOLEAN /\ newest \subseteq Managers /\ writing = {}
    BY DEF Init
  <2>5. bridge.sessionKeyValid => bridge.passwordLoaded
    BY <1>1
  <2> QED
    BY <1>1, <1>2, <1>3, <2>1, <2>2, <2>3, <2>4, <2>5 DEF TypeInv
<1>6. Stages
  BY <1>2 DEF Stages
<1>7. KeysInv
  <2>1. Places = {} /\ Acks = {} /\ Failures = {} /\ writing = {} /\ newest = {}
    BY <1>4 DEF Init, Places, Acks, Failures
  <2> QED
    BY <1>1, <1>2, <1>4, <2>1
    DEF KeysInv, Private, Behind, UsedUp, InStep, SameKey, AnswersRan, InHand, OwnWord, Written
<1> QED
  BY <1>5, <1>6, <1>7 DEF IInv

(* Every step keeps the inductive invariant while there is a new half.     *)
LEMMA NextIInv == IInv /\ FreshHalf /\ [Next]_vars => IInv'
<1> SUFFICES ASSUME IInv, FreshHalf, [Next]_vars PROVE IInv'
  OBVIOUS
<1>1. ASSUME NEW m \in Managers, Manager(m) PROVE IInv'
  BY <1>1, SendSyncIInv, SendCommandIInv, ReceiveIInv, TimeoutIInv DEF Manager
<1>2. ASSUME NEW m \in Managers, filtMessage(m) PROVE IInv'
  BY <1>2, filtMessageIInv
<1>3. ASSUME NEW m \in Managers, Lose(m) PROVE IInv'
  BY <1>3, LoseIInv
<1>4. CASE reboot
  BY <1>4, RestartIInv DEF reboot, NoFault, IInv, TypeInv
<1>5. CASE PowerFail
  BY <1>5, RestartIInv DEF PowerFail, Fault, IInv, TypeInv
<1>6. CASE UNCHANGED vars
  BY <1>6, StutterIInv
<1>7. CASE newkeyEnds
  BY <1>7, newkeyEndsIInv
<1> QED
  BY <1>1, <1>2, <1>3, <1>4, <1>5, <1>6, <1>7 DEF Next

(* The inductive invariant holds whatever the network loses, doubles or    *)
(* reorders, and whenever the bridge restarts.                             *)
THEOREM IInvAlways == Spec /\ []FreshHalf => []IInv
BY InitIInv, NextIInv, PTL DEF Spec

(* Type correctness.                                                       *)
THEOREM SessionTypeCorrect == Spec /\ []FreshHalf => []TypeOK
<1>1. IInv => TypeOK
  <2> SUFFICES ASSUME IInv PROVE TypeOK
    OBVIOUS
  <2> USE DEF IInv
  <2>1. FinKeys \subseteq Keys /\ OnTheWay = UpPackets \cup DownPackets
    BY DEF FinKeys, OnTheWay, UpPackets, DownPackets
  <2>2. /\ up \in [Managers -> Seq(OnTheWay)]
        /\ down \in [Managers -> Seq(OnTheWay)]
    <3>1. ASSUME NEW m \in Managers
          PROVE  up[m] \in Seq(OnTheWay) /\ down[m] \in Seq(OnTheWay)
      <4>1. Range(up[m]) \subseteq OnTheWay /\ Range(down[m]) \subseteq OnTheWay
        BY DEF OnTheWay
      <4>2. up[m] \in Seq(Packets) /\ down[m] \in Seq(Packets)
        BY DEF TypeInv
      <4> QED
        BY <4>1, <4>2 DEF Range
    <3> QED
      BY <3>1 DEF TypeInv
  <2>3. OnTheWay \subseteq [type : Kinds \cup {"SYNC", "SYNCACK", "ACK"} \cup Codes,
                           flags : BOOLEAN, half : HalfSets, word : NoneOrPassword,
                           cipher : Keys, of : Keys, more : BOOLEAN]
    <3>1. \A p \in OnTheWay : p \in Packets
      BY <2>1, Types
    <3> QED
      BY <2>1, <3>1 DEF Packets, PacketTypes
  <2>4. bridge \in [passwordLoaded : BOOLEAN, password : NoneOrPassword,
                   sessionKeyValid : BOOLEAN, sessionKey : Keys, rebootRequested : BOOLEAN]
    BY <2>1 DEF TypeInv, Bridges
  <2>5. mgr \in [Managers -> [pc : {"idle", "sync", "wait"}, secure : BOOLEAN,
                             synced : BOOLEAN, half : HalfSets, key : Keys,
                             word : NoneOrPassword, sent : NoneOrPassword,
                             misled : BOOLEAN, owed : BOOLEAN]]
    BY <2>1 DEF TypeInv, Sides
  <2>6. /\ writing \subseteq [from : Managers, of : Keys, word : NoneOrPassword]
        /\ Cardinality(writing) <= 1
    <3>1. CASE writing = {}
      BY <3>1, FS_EmptySet
    <3>2. CASE \E w \in Writes : writing = {w}
      <4>1. PICK w \in Writes : writing = {w}
        BY <3>2
      <4>2. Cardinality({w}) = 1
        BY FS_Singleton
      <4>3. w \in [from : Managers, of : Keys, word : NoneOrPassword]
        BY <2>1 DEF Writes
      <4> QED
        BY <4>1, <4>2, <4>3
    <3> QED
      BY <3>1, <3>2 DEF TypeInv
  <2> QED
    BY <2>1, <2>2, <2>3, <2>4, <2>5, <2>6 DEF TypeOK, TypeInv
<1> QED
  BY <1>1, IInvAlways, PTL

(* A command the bridge took in secure mode is not taken again: no copy of *)
(* its packet, whenever it comes, deciphers any more.                      *)
THEOREM NeverReplayed == Spec /\ []FreshHalf => []NoReplay
<1>1. IInv => NoReplay
  BY Types DEF IInv, KeysInv, UsedUp, Done, NoReplay
<1> QED
  BY <1>1, IInvAlways, PTL

(* A manager between two commands and the bridge, with the same key, are   *)
(* at the same place of the stream, or one apart while the bridge owes the *)
(* answer after an error, unless the manager took a copy of an error for   *)
(* its answer.                                                             *)
THEOREM AlwaysInStep == Spec /\ []FreshHalf => []PositionsAgree
<1>1. IInv => PositionsAgree
  <2> SUFFICES ASSUME IInv, NEW m \in Managers,
                      mgr[m].pc = "idle" /\ mgr[m].synced /\ ~mgr[m].misled,
                      bridge.sessionKeyValid,
                      mgr[m].key.halves = bridge.sessionKey.halves
               PROVE  bridge.sessionKey = IF mgr[m].owed THEN Advance(mgr[m].key) ELSE mgr[m].key
    BY DEF PositionsAgree
  <2>1. bridge.sessionKey.pos = mgr[m].key.pos + Ahead(mgr[m].owed)
    BY DEF IInv, KeysInv, InStep, SameKey
  <2>2. /\ mgr[m].key \in FinKeys /\ mgr[m].key.pos \in Nat
        /\ bridge.sessionKey \in FinKeys
    BY Types DEF IInv
  <2>3. CASE mgr[m].owed
    <3>1. /\ Advance(mgr[m].key) \in FinKeys
          /\ Advance(mgr[m].key).halves = bridge.sessionKey.halves
          /\ Advance(mgr[m].key).pos = bridge.sessionKey.pos
      BY <2>1, <2>2, <2>3, KeyTypes DEF Ahead
    <3> QED
      BY <2>2, <2>3, <3>1, KeyTypes
  <2>4. CASE ~mgr[m].owed
    <3>1. mgr[m].key.pos = bridge.sessionKey.pos
      BY <2>1, <2>2, <2>4 DEF Ahead
    <3> QED
      BY <2>2, <2>4, <3>1, KeyTypes
  <2> QED
    BY <2>3, <2>4
<1> QED
  BY <1>1, IInvAlways, PTL

(* What a manager takes for the answer to its command is a packet on its   *)
(* way that was enciphered at its own place of its own stream.             *)
LEMMA AnsweredByAck ==
  ASSUME IInv, Next, NEW m \in Managers, IsAnswered(m)
  PROVE  mgr[m].synced /\ \E p \in Acks : p.cipher = mgr[m].key
<1>1. /\ mgr \in [Managers -> Sides] /\ mgr[m].key.pos \in Nat /\ mgr[m] \in Sides
      /\ mgr[m].secure /\ mgr[m].pc = "wait" /\ mgr'[m].pc = "idle"
      /\ mgr'[m].key.pos > mgr[m].key.pos
  BY Types DEF IInv, TypeInv, IsAnswered
<1>2. mgr'[m] # mgr[m]
  BY <1>1
<1>3. PICK n \in Managers : Manager(n)
  BY <1>2 DEF Next, filtMessage, Lose, reboot, PowerFail, Restart, newkeyEnds
<1>4. ASSUME NEW k \in Managers, NEW next, Becomes(k, next)
      PROVE  m = k /\ mgr'[m] = next
  <2>1. mgr' = [mgr EXCEPT ![k] = next]
    BY <1>4 DEF Becomes
  <2>2. m = k
    BY <1>1, <1>2, <2>1
  <2> QED
    BY <1>1, <2>1, <2>2
<1>5. ASSUME NEW k \in Managers, NEW secure, StartOver(k, secure)
      PROVE  FALSE
  <2>1. mgr'[m] = Fresh(secure, mgr[k].word)
    BY <1>4, <1>5 DEF StartOver
  <2>2. mgr'[m].key.pos = 0
    BY <2>1 DEF Fresh, Clear
  <2> QED
    BY <1>1, <2>2
<1>6. Receive(n)
  <2>1. ASSUME SendSync(n) PROVE FALSE
    <3>1. m = n /\ mgr[n].pc = "idle"
      BY <1>4, <2>1 DEF SendSync
    <3> QED
      BY <1>1, <3>1
  <2>2. ASSUME NEW kind \in Kinds, SendCommand(n, kind) PROVE FALSE
    <3>1. m = n /\ mgr[n].pc = "idle"
      BY <1>4, <2>2 DEF SendCommand
    <3> QED
      BY <1>1, <3>1
  <2>3. ASSUME Timeout(n) PROVE FALSE
    BY <1>5, <2>3 DEF Timeout
  <2> QED
    BY <1>3, <2>1, <2>2, <2>3 DEF Manager
<1>7. PICK i \in DOMAIN down[n] :
        \/ GetSyncAck(n, down[n][i]) \/ GetAck(n, down[n][i])
        \/ GetError(n, down[n][i]) \/ Unexpected(n, down[n][i])
  BY <1>6 DEF Receive
<1>8. m = n /\ GetAck(n, down[n][i])
  <2>1. ASSUME GetSyncAck(n, down[n][i]) PROVE FALSE
    <3>1. m = n /\ mgr[n].pc = "sync"
      BY <1>4, <2>1 DEF GetSyncAck
    <3> QED
      BY <1>1, <3>1
  <2>2. ASSUME GetError(n, down[n][i]) PROVE FALSE
    <3> DEFINE lied == mgr[n].misled \/ (mgr[n].secure /\ down[n][i].of # Place(n))
    <3>1. Becomes(n, [mgr[n] EXCEPT !.pc = "idle", !.sent = "none",
                                   !.owed = down[n][i].more, !.misled = lied])
      BY <1>5, <2>2 DEF GetError
    <3> HIDE DEF lied
    <3>2. m = n /\ mgr'[m] = [mgr[n] EXCEPT !.pc = "idle", !.sent = "none",
                                           !.owed = down[n][i].more, !.misled = lied]
      BY <1>4, <3>1
    <3>3. mgr'[m].key = mgr[m].key
      BY <1>1, <3>2 DEF Sides
    <3> QED
      BY <1>1, <3>3
  <2>3. ASSUME Unexpected(n, down[n][i]) PROVE FALSE
    BY <1>2, <2>3 DEF Unexpected
  <2>4. GetAck(n, down[n][i])
    BY <1>7, <2>1, <2>2, <2>3
  <2>5. m = n
    BY <1>4, <1>5, <2>4 DEF GetAck
  <2> QED
    BY <2>4, <2>5
<1>9. down[m][i] \in DownPackets
  <2>1. down[m] \in Seq(Packets) /\ i \in DOMAIN down[m]
    BY <1>7, <1>8 DEF IInv, TypeInv
  <2> QED
    BY <2>1, Removed DEF DownPackets
<1>10. down[m][i].type = "ACK" /\ down[m][i].cipher = mgr[m].key
  BY <1>5, <1>8 DEF GetAck
<1>11. mgr[m].synced
  BY <1>1 DEF IInv, Stages
<1> QED
  BY <1>9, <1>10, <1>11 DEF Acks

(* What a manager takes for the answer to its command in secure mode, the  *)
(* bridge sent after it took that command.                                 *)
THEOREM AcksAlwaysMeanRan == Spec /\ []FreshHalf => AckMeansRan
<1>1. IInv /\ [Next]_vars => [\A m \in Managers : IsAnswered(m) => Place(m) \in ran]_vars
  BY AnsweredByAck DEF IInv, KeysInv, AnswersRan
<1> QED
  BY <1>1, IInvAlways, PTL DEF Spec, AckMeansRan

(* A manager that is told that its new password is taken finds it in the   *)
(* file, unless the file was opened again or something else was put into   *)
(* it: no restart in between, and none while it was written, has undone    *)
(* what the answer says.                                                   *)
THEOREM NewkeyAlwaysLasts == Spec /\ []FreshHalf => NewkeyLasts
<1>1. IInv /\ [Next]_vars =>
        [\A m \in newest : IsAnswered(m) /\ ~spoilt => file = mgr[m].sent]_vars
  <2> SUFFICES ASSUME IInv, Next, NEW m \in newest, IsAnswered(m), ~spoilt
               PROVE  file = mgr[m].sent
    OBVIOUS
  <2>1. m \in Managers
    BY DEF IInv, TypeInv
  <2>2. \E p \in Acks : p.cipher = mgr[m].key
    BY <2>1, AnsweredByAck
  <2> QED
    BY <2>2 DEF IInv, KeysInv, Written
<1> QED
  BY <1>1, IInvAlways, PTL DEF Spec, NewkeyLasts

-----------------------------------------------------------------------------
(* Where there is always a new half: with finitely many managers, only     *)
(* finitely many halves are in use at a time.                              *)

(* The values of a function on a finite set are finitely many.             *)
LEMMA FiniteImage ==
  ASSUME NEW S, IsFiniteSet(S), NEW V, NEW f \in [S -> V], \A v \in V : \E x \in S : f[x] = v
  PROVE  IsFiniteSet(V)
<1>1. f \in Surjection(S, V)
  BY Fun_IsSurj
<1> QED
  BY <1>1, FS_Surjection

(* So are the packets in a channel.                                        *)
LEMMA FiniteRange ==
  ASSUME NEW S, NEW s \in Seq(S)
  PROVE  IsFiniteSet(Range(s))
<1>1. Len(s) \in Nat /\ DOMAIN s = 1 .. Len(s) /\ s = [i \in 1 .. Len(s) |-> s[i]]
  OBVIOUS
<1>2. IsFiniteSet(1 .. Len(s))
  <2>1. 1 \in Int /\ Len(s) \in Int
    BY <1>1
  <2> QED
    BY <2>1, FS_Interval
<1>3. s \in [1 .. Len(s) -> Range(s)] /\ \A v \in Range(s) : \E i \in 1 .. Len(s) : s[i] = v
  BY <1>1 DEF Range
<1> QED
  BY <1>2, <1>3, FiniteImage

(* A half that is not in use.                                              *)
LEMMA HalfLeft ==
  ASSUME IsFiniteSet(Managers), ~IsFiniteSet(Halves), TypeInv
  PROVE  FreshHalf
<1>1. IsFiniteSet(OnTheWay) /\ OnTheWay = UpPackets \cup DownPackets
  <2> DEFINE on == [m \in Managers |-> Range(up[m]) \cup Range(down[m])]
             Channels == {on[m] : m \in Managers}
  <2>1. OnTheWay = UNION Channels
    BY DEF OnTheWay
  <2>2. ASSUME NEW C \in Channels PROVE IsFiniteSet(C)
    <3>1. PICK m \in Managers : C = Range(up[m]) \cup Range(down[m])
      OBVIOUS
    <3>2. up[m] \in Seq(Packets) /\ down[m] \in Seq(Packets)
      BY DEF TypeInv
    <3> QED
      BY <3>1, <3>2, FiniteRange, FS_Union
  <2>3. IsFiniteSet(Channels)
    <3>1. on \in [Managers -> Channels] /\ \A C \in Channels : \E m \in Managers : on[m] = C
      OBVIOUS
    <3> HIDE DEF on, Channels
    <3> QED
      BY <3>1, FiniteImage
  <2>4. OnTheWay = UpPackets \cup DownPackets
    BY DEF OnTheWay, UpPackets, DownPackets
  <2> HIDE DEF Channels
  <2> QED
    BY <2>1, <2>2, <2>3, <2>4, FS_UNION
<1>2. \A a \in HalfSets : IsFiniteSet(a)
  BY FS_EmptySet, FS_Singleton DEF HalfSets
<1> DEFINE ofPacket  == [p \in OnTheWay |-> p.cipher.halves \cup p.half \cup p.of.halves]
           ofPlace   == [k \in ran |-> k.halves]
           ofWrite   == [w \in writing |-> w.of.halves]
           ofManager == [m \in Managers |-> mgr[m].key.halves \cup mgr[m].half]
           A == {ofPacket[p] : p \in OnTheWay}
           B == {ofPlace[k] : k \in ran}
           C == {ofManager[m] : m \in Managers}
           D == {bridge.sessionKey.halves}
           E == {ofWrite[w] : w \in writing}
<1>3. HalvesInUse = UNION (A \cup B \cup E \cup D \cup C)
  BY DEF HalvesInUse
<1>4. /\ \A X \in A : IsFiniteSet(X)
      /\ IsFiniteSet(A)
  <2>1. ASSUME NEW p \in OnTheWay
        PROVE  IsFiniteSet(p.cipher.halves \cup p.half \cup p.of.halves)
    <3>1. p \in Packets
      BY <1>1, Types
    <3>2. IsFiniteSet(p.cipher.halves) /\ IsFiniteSet(p.half) /\ IsFiniteSet(p.of.halves)
      BY <1>2, <3>1 DEF Packets, FinKeys
    <3> QED
      BY <3>2, FS_Union
  <2>2. ofPacket \in [OnTheWay -> A] /\ \A X \in A : \E p \in OnTheWay : ofPacket[p] = X
    OBVIOUS
  <2>3. \A X \in A : IsFiniteSet(X)
    BY <2>1
  <2> HIDE DEF ofPacket, A
  <2> QED
    BY <1>1, <2>2, <2>3, FiniteImage
<1>5. /\ \A X \in B : IsFiniteSet(X)
      /\ IsFiniteSet(B)
  <2>1. \A X \in B : IsFiniteSet(X)
    BY DEF TypeInv, FinKeys
  <2>2. /\ ofPlace \in [ran -> B] /\ \A X \in B : \E k \in ran : ofPlace[k] = X
        /\ IsFiniteSet(ran)
    BY DEF TypeInv
  <2> HIDE DEF ofPlace, B
  <2> QED
    BY <2>1, <2>2, FiniteImage
<1>6. /\ \A X \in C : IsFiniteSet(X)
      /\ IsFiniteSet(C)
  <2>1. ASSUME NEW m \in Managers PROVE IsFiniteSet(mgr[m].key.halves \cup mgr[m].half)
    <3>1. IsFiniteSet(mgr[m].key.halves) /\ IsFiniteSet(mgr[m].half)
      BY <1>2, Types DEF FinKeys
    <3> QED
      BY <3>1, FS_Union
  <2>2. ofManager \in [Managers -> C] /\ \A X \in C : \E m \in Managers : ofManager[m] = X
    OBVIOUS
  <2>3. \A X \in C : IsFiniteSet(X)
    BY <2>1
  <2> HIDE DEF ofManager, C
  <2> QED
    BY <2>2, <2>3, FiniteImage
<1>7. /\ \A X \in D : IsFiniteSet(X)
      /\ IsFiniteSet(D)
  BY Types, FS_Singleton DEF FinKeys
<1>8. /\ \A X \in E : IsFiniteSet(X)
       /\ IsFiniteSet(E)
  <2>1. IsFiniteSet(writing) /\ \A w \in writing : IsFiniteSet(w.of.halves)
    <3>1. CASE writing = {}
      BY <3>1, FS_EmptySet
    <3>2. CASE \E w \in Writes : writing = {w}
      <4>1. PICK w \in Writes : writing = {w}
        BY <3>2
      <4>2. IsFiniteSet({w})
        BY FS_Singleton
      <4>3. IsFiniteSet(w.of.halves)
        BY DEF Writes, FinKeys
      <4> QED
        BY <4>1, <4>2, <4>3
    <3> QED
      BY <3>1, <3>2 DEF TypeInv
  <2>2. ofWrite \in [writing -> E] /\ \A X \in E : \E w \in writing : ofWrite[w] = X
    OBVIOUS
  <2>3. \A X \in E : IsFiniteSet(X)
    BY <2>1
  <2> HIDE DEF ofWrite, E
  <2> QED
    BY <2>1, <2>2, <2>3, FiniteImage
<1> HIDE DEF A, B, C, D, E
<1>9. /\ IsFiniteSet(A \cup B) /\ IsFiniteSet(A \cup B \cup E)
      /\ IsFiniteSet(A \cup B \cup E \cup D)
  BY <1>4, <1>5, <1>7, <1>8, FS_Union
<1>10. IsFiniteSet(A \cup B \cup E \cup D \cup C)
  BY <1>6, <1>9, FS_Union
<1>11. IsFiniteSet(HalvesInUse)
  <2>1. \A X \in A \cup B \cup E \cup D \cup C : IsFiniteSet(X)
    BY <1>4, <1>5, <1>6, <1>7, <1>8
  <2> QED
    BY <1>3, <1>10, <2>1, FS_UNION
<1>12. ~(Halves \subseteq HalvesInUse)
  BY <1>11, FS_Subset
<1> QED
  BY <1>12 DEF FreshHalf

(* The hypothesis of the theorems holds of halves without end: they are    *)
(* then true of every behaviour.                                           *)
THEOREM FreshAlways ==
  ASSUME IsFiniteSet(Managers), ~IsFiniteSet(Halves)
  PROVE  Spec => []FreshHalf
<1>1. Init => IInv
  BY InitIInv
<1>2. IInv => FreshHalf
  BY HalfLeft DEF IInv
<1>3. IInv /\ [Next]_vars => IInv'
  BY <1>2, NextIInv
<1> QED
  BY <1>1, <1>2, <1>3, PTL DEF Spec
=============================================================================
