------------------------------ MODULE Session -------------------------------
(***************************************************************************)
(* The management protocol of the bridge program (src/NDIS/MANAGE.C, with  *)
(* the key exchange of src/NDIS/POTP.C): managers send commands in UDP     *)
(* packets, which the network may lose, duplicate and reorder.             *)
(*                                                                         *)
(* In secure mode all but SYNC, SYNCACK and ERROR is enciphered with one   *)
(* key stream for both directions; there are no sequence numbers.  A       *)
(* packet that was enciphered elsewhere in the stream fails its check sum; *)
(* the bridge then drops its key, and the manager has to start over with   *)
(* SYNC.  All managers share the bridge's one key.                         *)
(*                                                                         *)
(* A key is the set of the halves it was built from (their exclusive or);  *)
(* every packet takes one position of its stream, whatever its length.  A  *)
(* check sum that comes out right by chance is left out.  A password says  *)
(* no more than whether it is another one's, or was read back at all.  The *)
(* managers are not part of the source: they start over as filtMessage     *)
(* expects.                                                                *)
(***************************************************************************)
EXTENDS Integers, FiniteSets, SequencesExt

CONSTANTS
  Managers,    \* the bridge has a socket for each
  Persistent,  \* those that start over after an error
  Halves,      \* random halves of keys
  Garbage,     \* a half that was enciphered with a key the reader lacks
  Passwords,
  Installed,   \* the password that all managers know at the beginning
  Plans        \* commands: how many each manager has to give; faults (bound):
               \* packets lost, doubled, overtaken or of no known type, early
               \* timeouts, restarts, disk errors, bad passwords

ASSUME SessionAssumption ==
  /\ Persistent \subseteq Managers /\ Garbage \notin Halves
  /\ Installed \in Passwords /\ {"none", "empty"} \cap Passwords = {}
  /\ Plans \subseteq [commands : [Managers -> Nat], faults : Nat]

VARIABLES
  bridge,  \* passwordLoaded, password, sessionKeyValid, sessionKey, rebootRequested
  file,    \* the password file: "none", "empty" or the password
  writing, \* the NEWKEY that handleNewkey is writing to the file, if any
  up,      \* manager -> packets on their way from it, in the order sent
  down,    \* manager -> packets on their way to it
  mgr,     \* manager -> its side of the session
  left,    \* manager -> commands left
  faults,  \* faults left
  ran,     \* places of the streams of which the bridge took a command (history)
  newest,  \* the manager, if any, that waits for the answer to the NEWKEY for
           \* which the file was last opened (history)
  spoilt   \* that NEWKEY left something else in the file (history)

file_vars == <<file, writing, newest, spoilt>>
vars == <<bridge, up, down, mgr, left, faults, ran, file_vars>>

Clear == [halves |-> {}, pos |-> 0]      \* not enciphered
Advance(key) == [key EXCEPT !.pos = @ + 1]
NewKey(mine, theirs) == [halves |-> mine \cup theirs, pos |-> 0]
Codes == {"SECURE", "INSECURE", "LOSTSYNC", "FAILED"}   \* of ERROR packets
Kinds == {"query", "newkey", "reboot", "unknown"}

(* Halves that are still in use somewhere; a new one differs from all.     *)
OnTheWay == UNION {Range(up[m]) \cup Range(down[m]) : m \in Managers}
HalvesInUse ==
  UNION ({p.cipher.halves \cup p.half \cup p.of.halves : p \in OnTheWay}
         \cup {k.halves : k \in ran} \cup {w.of.halves : w \in writing}
         \cup {bridge.sessionKey.halves}
         \cup {mgr[m].key.halves \cup mgr[m].half : m \in Managers})
NewHalf == CHOOSE h \in Halves : h \notin HalvesInUse

(* clientInit and serverInit: a half is enciphered with the password of    *)
(* its sender; with another one its reader makes something else of it.     *)
Deciphered(p, password) == IF p.word = password THEN p.half ELSE {Garbage}

Started == [passwordLoaded |-> file \in Passwords,
            password |-> IF file \in Passwords THEN file ELSE "none",
            sessionKeyValid |-> FALSE, sessionKey |-> Clear, rebootRequested |-> FALSE]

(* A manager that has no session; misled, owed (history): see GetError.    *)
Fresh(secure, word) ==
  [pc |-> "idle", secure |-> secure, synced |-> FALSE, half |-> {}, key |-> Clear,
   word |-> word, sent |-> "none", misled |-> FALSE, owed |-> FALSE]

Init ==
  /\ file \in {"none", Installed}
  /\ bridge = Started                                     \* readPassword
  /\ up = [m \in Managers |-> <<>>] /\ down = up
  /\ \E plan \in Plans : left = plan.commands /\ faults = plan.faults
  /\ ran = {} /\ writing = {} /\ newest = {} /\ spoilt = FALSE
  /\ \E secure \in BOOLEAN : mgr = [m \in Managers |-> Fresh(secure, Installed)]

Fault == faults > 0 /\ faults' = faults - 1
NoFault == UNCHANGED faults

(* word: the password of NEWKEY, or the one a half is enciphered with.     *)
(* of, more (history): the command that an error answers, and whether an   *)
(* answer follows the error.                                               *)
Packet(type, flags, half, word, cipher) ==
  [type |-> type, flags |-> flags, half |-> half, word |-> word, cipher |-> cipher,
   of |-> Clear, more |-> FALSE]

(* Packet i of a channel arrives: in turn, or by a fault out of turn or    *)
(* once more.                                                              *)
Arrives(channel, i, rest) ==
  \/ i = 1 /\ rest = Tail(channel) /\ NoFault
  \/ i > 1 /\ rest = RemoveAt(channel, i) /\ Fault
  \/ rest = channel /\ Fault

(* What is kept of the history: places whose packets may still come, or    *)
(* whose answer a manager waits for.                                       *)
Place(m) == [mgr[m].key EXCEPT !.pos = @ - 1]
Kept(places) == places \cap ({p.cipher : p \in OnTheWay'} \cup {Place(m) : m \in Managers})

-----------------------------------------------------------------------------
(* The bridge                                                              *)

(* deliverPacket: whether the session key is valid is asked whatever the   *)
(* type; errors are never enciphered.                                      *)
Outgoing(type, half, word, key) ==
  Packet(type, bridge.passwordLoaded, half, word,
         IF bridge.sessionKeyValid /\ type \notin Codes THEN key ELSE Clear)
Deliver(m, packet) == down' = [down EXCEPT ![m] = Append(@, packet)]

Answer(key)       == Outgoing("ACK", {}, "none", key)
Error(code)       == Outgoing(code, {}, "none", Clear)
Failure(of, more) == [Error("FAILED") EXCEPT !.of = of, !.more = more]

(* Mutant: the key is passed by value.                                     *)
UsedKept(key) == key

(* The session key after one more packet was deciphered or enciphered.     *)
Used(key) == IF bridge.sessionKeyValid THEN Advance(key) ELSE key
Read == Used(bridge.sessionKey)

(* Mutant: the request to reboot is looked at after the answer.            *)
IgnoredLate(m, p) ==
  /\ bridge.rebootRequested
  /\ Deliver(m, Answer(Read))
  /\ bridge' = [bridge EXCEPT !.sessionKey = Used(Read)]
  /\ UNCHANGED <<ran, file_vars>>

(* filtMessage: p comes from manager m.  First what is not dispatched.     *)
Ignored(m, p) ==
  /\ bridge.rebootRequested
  /\ UNCHANGED <<bridge, down, ran, file_vars>>

WrongMode(m, p) ==
  /\ ~bridge.rebootRequested
  /\ p.flags # bridge.passwordLoaded \/ (p.type = "SYNC" /\ ~bridge.passwordLoaded)
  /\ Deliver(m, Error(IF bridge.passwordLoaded THEN "SECURE" ELSE "INSECURE"))
  /\ UNCHANGED <<bridge, ran, file_vars>>

RightMode(p) == ~bridge.rebootRequested /\ p.flags = bridge.passwordLoaded
Deciphers(p) == bridge.sessionKeyValid /\ p.cipher = bridge.sessionKey

(* Mutant: the key is not given up.                                        *)
LostSyncKept(m, p) ==
  /\ RightMode(p) /\ bridge.passwordLoaded /\ p.type # "SYNC" /\ ~Deciphers(p)
  /\ Deliver(m, Error("LOSTSYNC"))
  /\ UNCHANGED <<bridge, ran, file_vars>>

(* The key itself stays, but is not used until the next SYNC.              *)
LostSync(m, p) ==
  /\ RightMode(p) /\ bridge.passwordLoaded /\ p.type # "SYNC" /\ ~Deciphers(p)
  /\ bridge' = [bridge EXCEPT !.sessionKeyValid = FALSE, !.sessionKey = Clear]
  /\ Deliver(m, Error("LOSTSYNC"))
  /\ UNCHANGED <<ran, file_vars>>

(* handleSync: the answer is enciphered with the old key if there is one.  *)
handleSync(m, p) ==
  /\ RightMode(p) /\ bridge.passwordLoaded /\ p.type = "SYNC"
  /\ Deliver(m, Outgoing("SYNCACK", {NewHalf}, bridge.password, bridge.sessionKey))
  /\ bridge' = [bridge EXCEPT !.sessionKeyValid = TRUE,
                  !.sessionKey = NewKey({NewHalf}, Deciphered(p, bridge.password))]
  /\ UNCHANGED <<ran, file_vars>>

Accepted(p, kind) ==
  /\ RightMode(p) /\ p.type = kind
  /\ bridge.passwordLoaded => Deciphers(p)
  /\ ran' = Kept(IF bridge.passwordLoaded THEN ran \cup {p.cipher} ELSE ran)

(* handleQuery and all commands without a part in the session; the tables  *)
(* they change are in other modules.                                       *)
handleQuery(m, p) ==
  /\ Deliver(m, Answer(Read))
  /\ bridge' = [bridge EXCEPT !.sessionKey = Used(Read)]
  /\ Accepted(p, "query") /\ UNCHANGED file_vars

(* What is asked for is not there, or cannot be done.                      *)
QueryFails(m, p) ==
  /\ Deliver(m, Failure(p.cipher, FALSE))
  /\ bridge' = [bridge EXCEPT !.sessionKey = Read]
  /\ Accepted(p, "query") /\ UNCHANGED file_vars

(* handleLoad of a network into a full table, and handleStatistics of a    *)
(* type that is unknown, send their error and go on to the answer.         *)
QueryFailsAndGoesOn(m, p) ==
  /\ down' = [down EXCEPT ![m] = @ \o <<Failure(p.cipher, TRUE), Answer(Read)>>]
  /\ bridge' = [bridge EXCEPT !.sessionKey = Used(Read)]
  /\ Accepted(p, "query") /\ UNCHANGED file_vars

(* The default of filtMessage: deciphered, and silently eaten.             *)
Eaten(m, p) ==
  /\ bridge' = [bridge EXCEPT !.sessionKey = Read]
  /\ UNCHANGED <<down, file_vars>> /\ Accepted(p, "unknown")

handleReboot(m, p) ==
  /\ Deliver(m, Answer(Read))
  /\ bridge' = [bridge EXCEPT !.sessionKey = Used(Read), !.rebootRequested = TRUE]
  /\ Accepted(p, "reboot") /\ UNCHANGED file_vars

(* Mutant: the answer is sent before the file is written.                  *)
handleNewkeyEarly(m, p) ==
  /\ Deliver(m, Answer(Read))
  /\ bridge' = [bridge EXCEPT !.sessionKey = Used(Read)]
  /\ Accepted(p, "newkey")
  /\ file' = "empty" /\ spoilt' = FALSE
  /\ writing' = {[from |-> m, of |-> p.cipher, word |-> p.word]}
  /\ newest' = {n \in Managers : /\ bridge.passwordLoaded /\ mgr[n].pc = "wait"
                                 /\ mgr[n].synced /\ Place(n) = p.cipher}

(* handleNewkey as far as fopen in writePassword, which truncates the file. *)
handleNewkey(m, p) ==
  /\ bridge' = [bridge EXCEPT !.sessionKey = Read]
  /\ UNCHANGED down /\ Accepted(p, "newkey")
  /\ file' = "empty" /\ spoilt' = FALSE
  /\ writing' = {[from |-> m, of |-> p.cipher, word |-> p.word]}
  /\ newest' = {n \in Managers : /\ bridge.passwordLoaded /\ mgr[n].pc = "wait"
                                 /\ mgr[n].synced /\ Place(n) = p.cipher}

(* The file cannot be opened.                                              *)
NewkeyUnopened(m, p) ==
  /\ Deliver(m, Failure(p.cipher, FALSE))
  /\ bridge' = [bridge EXCEPT !.sessionKey = Read]
  /\ Accepted(p, "newkey") /\ UNCHANGED file_vars

(* Mutant: the answer is enciphered though it is an error.                 *)
NewkeyUnwrittenInKey(w) ==
  /\ Deliver(w.from, Failure(w.of, FALSE))
  /\ bridge' = [bridge EXCEPT !.sessionKey = Used(@)]
  /\ UNCHANGED <<file, spoilt>>

(* Mutant: the password in use is dropped.                                 *)
NewkeyUnwrittenOpen(w) ==
  /\ Deliver(w.from, Failure(w.of, FALSE))
  /\ bridge' = [bridge EXCEPT !.passwordLoaded = FALSE]
  /\ UNCHANGED <<file, spoilt>>

(* The rest of handleNewkey: the password cannot be written, or is written *)
(* and loaded.                                                             *)
NewkeyUnwritten(w) ==
  /\ Deliver(w.from, Failure(w.of, FALSE))
  /\ UNCHANGED <<bridge, file, spoilt>>

NewkeyWritten(w, inFile, inMemory) ==
  /\ Deliver(w.from, Answer(bridge.sessionKey))
  /\ bridge' = [bridge EXCEPT !.sessionKey = Used(@),
                              !.passwordLoaded = TRUE, !.password = inMemory]
  /\ file' = inFile /\ spoilt' = (inFile # w.word)

(* What fclose returns is not looked at: the file may be empty all the     *)
(* same.  A password without a terminator goes to the file with what       *)
(* happens to follow it on the stack, and to memory with the end of the    *)
(* password before it.                                                     *)
newkeyEnds ==
  \E w \in writing :
    /\ \/ NoFault /\ NewkeyWritten(w, w.word, w.word)
       \/ Fault /\ (NewkeyUnwritten(w) \/ NewkeyWritten(w, "empty", w.word))
       \/ Fault /\ \E inFile, inMemory \in Passwords : NewkeyWritten(w, inFile, inMemory)
    /\ writing' = {} /\ UNCHANGED <<up, mgr, left, ran, newest>>

filtMessage(m) ==
  /\ writing = {}
  /\ \E i \in DOMAIN up[m] : LET p == up[m][i] IN
       \/ /\ \E rest \in {up[m], RemoveAt(up[m], i)} :
              Arrives(up[m], i, rest) /\ up' = [up EXCEPT ![m] = rest]
          /\ \/ Ignored(m, p) \/ WrongMode(m, p) \/ LostSync(m, p)
             \/ handleSync(m, p) \/ handleQuery(m, p) \/ QueryFails(m, p)
             \/ QueryFailsAndGoesOn(m, p) \/ Eaten(m, p)
             \/ handleReboot(m, p) \/ handleNewkey(m, p)
       \/ /\ i = 1 /\ Fault /\ up' = [up EXCEPT ![m] = Tail(@)]
          /\ NewkeyUnopened(m, p)
  /\ UNCHANGED <<mgr, left>>

(* The machine starts again: on the warm start that handleReboot asked for *)
(* (if the scheduler ever serves that event), or at any time, also while   *)
(* the password file is written.                                           *)
Restart ==
  /\ bridge' = Started /\ writing' = {}
  /\ UNCHANGED <<file, up, down, mgr, left, ran, newest, spoilt>>
reboot    == bridge.rebootRequested /\ writing = {} /\ Restart /\ NoFault
PowerFail == Fault /\ Restart

-----------------------------------------------------------------------------
(* A manager                                                               *)

Becomes(m, next) == mgr' = [mgr EXCEPT ![m] = next]

(* Start over, or give up.                                                 *)
StartOver(m, secure) ==
  /\ Becomes(m, Fresh(secure, mgr[m].word)) /\ newest' = newest \ {m}
  /\ left' = IF m \in Persistent THEN left ELSE [left EXCEPT ![m] = 0]

SendSync(m) ==
  /\ mgr[m].pc = "idle" /\ left[m] > 0 /\ mgr[m].secure /\ ~mgr[m].synced
  /\ Becomes(m, [mgr[m] EXCEPT !.pc = "sync", !.half = {NewHalf}])
  /\ up' = [up EXCEPT ![m] = Append(@, Packet("SYNC", TRUE, {NewHalf}, mgr[m].word, Clear))]
  /\ UNCHANGED <<bridge, down, left, faults, ran, file_vars>>

(* Of no known type: the manager is one for another version.               *)
Words(m, kind) == IF kind = "newkey" THEN Passwords \ {mgr[m].word} ELSE {"none"}

SendCommand(m, kind) ==
  LET me == mgr[m]
  IN  /\ me.pc = "idle" /\ left[m] > 0 /\ (me.secure => me.synced)
      /\ \E word \in Words(m, kind) :
           /\ Becomes(m, [me EXCEPT !.pc = "wait", !.sent = word, !.owed = FALSE,
                                    !.key = IF me.secure THEN Advance(@) ELSE @])
           /\ up' = [up EXCEPT ![m] = Append(@, Packet(kind, me.secure, {}, word, me.key))]
      /\ IF kind = "unknown" THEN Fault ELSE NoFault
      /\ UNCHANGED <<bridge, down, left, ran, file_vars>>

(* The answer to SYNC is taken as it comes; one that was enciphered with   *)
(* the key of the session before, or with another password, makes a key    *)
(* that the bridge does not have.                                          *)
GetSyncAck(m, p) ==
  /\ mgr[m].pc = "sync" /\ p.type = "SYNCACK"
  /\ Becomes(m, [mgr[m] EXCEPT !.pc = "idle", !.synced = TRUE, !.half = {},
       !.key = NewKey(mgr[m].half, IF p.cipher = Clear THEN Deciphered(p, mgr[m].word)
                                                      ELSE {Garbage})])
  /\ UNCHANGED <<left, newest>>

(* A manager that is told of its new password uses it from now on.         *)
GetAck(m, p) ==
  /\ mgr[m].pc = "wait" /\ p.type = "ACK"
  /\ IF p.cipher = mgr[m].key
     THEN /\ Becomes(m, [mgr[m] EXCEPT !.pc = "idle", !.sent = "none",
               !.word = IF mgr[m].sent # "none" THEN mgr[m].sent ELSE @,
               !.key = IF mgr[m].secure THEN Advance(@) ELSE @])
          /\ left' = [left EXCEPT ![m] = @ - 1] /\ newest' = newest \ {m}
     ELSE StartOver(m, mgr[m].secure)

(* An error that a handler sends is not enciphered.  A copy of an earlier  *)
(* one passes for the answer to a later command: misled (history) says     *)
(* that it did.  And the bridge may have gone on to an answer after it,    *)
(* which the manager does not wait for: owed (history).                    *)
GetError(m, p) ==
  /\ mgr[m].pc \in {"sync", "wait"}
  /\ \/ p.type = "FAILED" /\ mgr[m].pc = "wait"
        /\ Becomes(m, [mgr[m] EXCEPT !.pc = "idle", !.sent = "none", !.owed = p.more,
                          !.misled = @ \/ (mgr[m].secure /\ p.of # Place(m))])
        /\ left' = [left EXCEPT ![m] = @ - 1] /\ newest' = newest \ {m}
     \/ p.type = "LOSTSYNC" /\ StartOver(m, mgr[m].secure)
     \/ p.type = "SECURE" /\ StartOver(m, TRUE)
     \/ p.type = "INSECURE" /\ StartOver(m, FALSE)

(* Nothing it waits for: the packet goes nowhere.                          *)
Unexpected(m, p) ==
  /\ \/ mgr[m].pc = "idle"
     \/ mgr[m].pc = "sync" /\ p.type \in {"ACK", "FAILED"}
     \/ mgr[m].pc = "wait" /\ p.type = "SYNCACK"
  /\ UNCHANGED <<mgr, left, newest>>

Receive(m) ==
  /\ \E i \in DOMAIN down[m] : LET p == down[m][i] IN
       /\ \E rest \in {down[m], RemoveAt(down[m], i)} :
            Arrives(down[m], i, rest) /\ down' = [down EXCEPT ![m] = rest]
       /\ GetSyncAck(m, p) \/ GetAck(m, p) \/ GetError(m, p) \/ Unexpected(m, p)
  /\ UNCHANGED <<bridge, up, ran, file, writing, spoilt>>

(* An answer does not come, or comes too late.                             *)
Timeout(m) ==
  /\ mgr[m].pc \in {"sync", "wait"}
  /\ IF up[m] = <<>> /\ down[m] = <<>> THEN NoFault ELSE Fault
  /\ StartOver(m, mgr[m].secure)
  /\ UNCHANGED <<bridge, up, down, ran, file, writing, spoilt>>

-----------------------------------------------------------------------------
Lose(m) ==
  /\ Fault
  /\ \/ \E i \in DOMAIN up[m] : up' = [up EXCEPT ![m] = RemoveAt(@, i)] /\ UNCHANGED down
     \/ \E i \in DOMAIN down[m] : down' = [down EXCEPT ![m] = RemoveAt(@, i)] /\ UNCHANGED up
  /\ UNCHANGED <<bridge, mgr, left, ran, file_vars>>

Manager(m) == \/ SendSync(m) \/ \E kind \in Kinds : SendCommand(m, kind)
              \/ Receive(m) \/ Timeout(m)

Next ==
  \/ \E m \in Managers : Manager(m) \/ filtMessage(m) \/ Lose(m)
  \/ newkeyEnds \/ reboot \/ PowerFail

(* Packets that are not lost arrive, after the faults in the order in which *)
(* they were sent; a manager goes on, and the bridge takes packets as its  *)
(* main loop turns and ends what it began.  Nothing is assumed of reboot:  *)
(* the scheduler may have no room for that event (addScheduledEvent returns *)
(* NULL), or never serve it (EventQueue, events_stall).                    *)
Fairness ==
  /\ \A m \in Managers : WF_vars(Manager(m)) /\ WF_vars(filtMessage(m))
  /\ WF_vars(newkeyEnds)

Spec == Init /\ [][Next]_vars /\ Fairness

-----------------------------------------------------------------------------
Keys == [halves : SUBSET (Halves \cup {Garbage}), pos : Nat]
HalfSets == {{}} \cup {{h} : h \in Halves}
NoneOrPassword == {"none"} \cup Passwords

(* Type invariant.                                                         *)
TypeOK ==
  /\ bridge \in [passwordLoaded : BOOLEAN, password : NoneOrPassword,
                 sessionKeyValid : BOOLEAN, sessionKey : Keys, rebootRequested : BOOLEAN]
  /\ file \in NoneOrPassword \cup {"empty"}
  /\ writing \subseteq [from : Managers, of : Keys, word : NoneOrPassword]
  /\ Cardinality(writing) <= 1
  /\ up \in [Managers -> Seq(OnTheWay)] /\ down \in [Managers -> Seq(OnTheWay)]
  /\ OnTheWay \subseteq [type : Kinds \cup {"SYNC", "SYNCACK", "ACK"} \cup Codes,
                        flags : BOOLEAN, half : HalfSets, word : NoneOrPassword,
                        cipher : Keys, of : Keys, more : BOOLEAN]
  /\ mgr \in [Managers -> [pc : {"idle", "sync", "wait"}, secure : BOOLEAN,
                           synced : BOOLEAN, half : HalfSets, key : Keys,
                           word : NoneOrPassword, sent : NoneOrPassword,
                           misled : BOOLEAN, owed : BOOLEAN]]
  /\ left \in [Managers -> Nat] /\ faults \in Nat
  /\ ran \subseteq Keys /\ newest \subseteq Managers /\ spoilt \in BOOLEAN
  /\ bridge.sessionKeyValid => bridge.passwordLoaded

(* A command the bridge took in secure mode is not taken again, however    *)
(* often its packet comes: no copy deciphers any more (filtMessage,        *)
(* 1389-1427).                                                             *)
NoReplay ==
  bridge.sessionKeyValid => bridge.sessionKey \notin ran

(* A manager between two commands and the bridge, if they have the same    *)
(* key, are at the same place of the stream: what was lost, late or        *)
(* doubled has made one of them drop the key.  Just after an error that    *)
(* was followed by an answer (615 and 650, 1310 and 1314) the bridge is    *)
(* one place ahead, and the next command makes it drop the key.  The only  *)
(* exception is a manager that took a copy of an error for the answer to a *)
(* later command.                                                          *)
PositionsAgree ==
  \A m \in Managers :
    /\ mgr[m].pc = "idle" /\ mgr[m].synced /\ ~mgr[m].misled /\ bridge.sessionKeyValid
    /\ mgr[m].key.halves = bridge.sessionKey.halves
    => bridge.sessionKey = IF mgr[m].owed THEN Advance(mgr[m].key) ELSE mgr[m].key

(* Manager m takes a packet for the answer to its command in secure mode.  *)
IsAnswered(m) ==
  /\ mgr[m].secure /\ mgr[m].pc = "wait" /\ mgr'[m].pc = "idle"
  /\ mgr'[m].key.pos > mgr[m].key.pos

(* What a manager takes for the answer to its command in secure mode, the  *)
(* bridge sent after it took that command.                                 *)
AckMeansRan == [][\A m \in Managers : IsAnswered(m) => Place(m) \in ran]_vars

(* A manager that is told in secure mode that its new password is taken    *)
(* will find it: the password is in the file, for a restart at any later   *)
(* time to read, unless another NEWKEY has opened the file since, the disk *)
(* lost it at fclose, or it had no terminator (handleNewkey, writePassword). *)
NewkeyLasts ==
  [][\A m \in newest : IsAnswered(m) /\ ~spoilt => file = mgr[m].sent]_vars

(* Whatever was lost, doubled or late, and however often the bridge was    *)
(* restarted: a manager that starts over has all its commands answered in  *)
(* the end if the others give up at an error, the machine does not ignore  *)
(* managers for ever after a request to reboot, and in the end the manager *)
(* knows the password.  It must also let the network fall silent now and   *)
(* then: one that starts over at once may take the answer to its last SYNC *)
(* for the answer to the next, for ever (filtMessage, handleSync).         *)
Knows(m) == bridge.passwordLoaded => bridge.password = mgr[m].word
Silent(m) == up[m] = <<>> /\ down[m] = <<>>
Served ==
  \A m \in Persistent :
    []<>~bridge.rebootRequested /\ []<>Silent(m) /\ <>[]Knows(m) => <>[](left[m] = 0)
=============================================================================
