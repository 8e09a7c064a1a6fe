----------------------------- MODULE AccessList -----------------------------
(***************************************************************************)
(* The rules of the filter: the reject table, the allow table and the      *)
(* access lists (src/NDIS/MANAGE.C, src/NDIS/FILTER.C), which managers     *)
(* load, release and write to disk, and the restart that reads them back.  *)
(*                                                                         *)
(* There are four tables of access lists.  A manager sends them list by    *)
(* list, every packet with the same list of each table, the first with the *)
(* flag BEGIN and the last with END.  They are gathered in four buffers in *)
(* extended memory and copied over the ones in use at END.  The buffers    *)
(* are shared by all managers.  A buffer that was not allocated has handle *)
(* 0, which is conventional memory: a copy to it overwrites the interrupt  *)
(* vectors, and nothing can be said of the program from then on.           *)
(*                                                                         *)
(* What a list says is abstracted to the load it came from.  The reject    *)
(* and the allow table have one cell, the access lists one per list and    *)
(* table, table after table as in their file.                              *)
(***************************************************************************)
EXTENDS Integers, FiniteSets, SequencesExt

CONSTANTS
  Managers,    \* each sends lists of its own
  NumLists,    \* MAX_NUM_ACCESS_LISTS
  MaxCommands, \* bound: commands of the managers
  MaxFaults    \* bound: packets sent again, restarts, disk errors, failed
               \* allocations

ASSUME ListsAssumption == NumLists \in Nat \ {0}
ASSUME BoundsAssumption == MaxCommands \in Nat /\ MaxFaults \in Nat

VARIABLES
  mem,       \* rejectTable, allowTable, and in, out, source and udp in a row
  new,       \* newIn, newOut, newSource, newUdp: what the buffers hold
  dirty,     \* rejectTableDirty, allowTableDirty, accessTableDirty
  file,      \* the files
  wild,      \* conventional memory was overwritten
  last,      \* manager -> its last packet of a load
  sent,      \* manager -> the lists of its load so far (history)
  calm,      \* manager -> nothing came between its packets (history)
  commands,  \* commands left
  faults     \* faults left

vars == <<mem, new, dirty, file, wild, last, sent, calm, commands, faults>>

Files  == <<"reject", "allow", "access">>    \* in the order of handleWrite
Names  == Range(Files)
Tables == 1 .. 4                             \* in, out, source, udp
Lists  == 1 .. NumLists
Cell(t, i) == (t - 1) * NumLists + i
Cells  == 1 .. 4 * NumLists
TableOf(c) == ((c - 1) \div NumLists) + 1
ListOf(c)  == ((c - 1) % NumLists) + 1

Empty   == "empty"     \* zeros: all is refused
Default == "default"   \* the first list of each table
From0   == "from0"     \* the first UDP list after a release: it begins at 0
Stale   == "stale"     \* what memory held before
NoBuffer == <<>>       \* handle 0
Packets  == [list : Lists, begin : BOOLEAN, end : BOOLEAN]
NoPacket == <<>>
Buffers == [Lists -> Managers \cup {Stale}]

(* What the lists say is never taken for one of these marks.               *)
ASSUME ManagersAssumption == Managers \cap {Empty, Default, From0, Stale} = {}

(* initMemory.                                                             *)
Defaults(f) ==
  IF f = "access" THEN [c \in Cells |-> IF ListOf(c) = 1 THEN Default ELSE Empty]
                  ELSE <<Empty>>

(* handleRelease.  A range that begins at 0 ends a list, so that of the    *)
(* UDP ports all from 69 on are refused.                                   *)
Released(f) ==
  IF f = "access" THEN [Defaults(f) EXCEPT ![Cell(4, 1)] = From0] ELSE Defaults(f)

(* initTables: what the file lacks stays as initMemory left it.            *)
Loaded(f, content) ==
  content \o SubSeq(Defaults(f), Len(content) + 1, Len(Defaults(f)))

Init ==
  /\ mem = [f \in Names |-> Defaults(f)]
  /\ new = [t \in Tables |-> NoBuffer]
  /\ dirty = [f \in Names |-> FALSE]
  /\ file = [f \in Names |-> <<>>]
  /\ wild = FALSE
  /\ last = [m \in Managers |-> NoPacket]
  /\ sent = [m \in Managers |-> {}] /\ calm = [m \in Managers |-> FALSE]
  /\ commands = MaxCommands /\ faults = MaxFaults

Fault   == faults > 0 /\ faults' = faults - 1
NoFault == UNCHANGED faults
Command == commands > 0 /\ commands' = commands - 1
Disturbed(others) == calm' = [m \in Managers |-> calm[m] /\ m \notin others]

-----------------------------------------------------------------------------
(* handleLoad                                                              *)

(* LOAD_REJECT and LOAD_ALLOW: one packet has the whole table.             *)
LoadTable(m, f) ==
  /\ Command
  /\ mem' = [mem EXCEPT ![f] = <<m>>]
  /\ dirty' = [dirty EXCEPT ![f] = TRUE]
  /\ UNCHANGED <<new, file, wild, last, sent, calm, faults>>

(* BEGIN allocates the buffers that are not there; the memory may suffice  *)
(* for the first of them only.                                             *)
Allocated(upTo) ==
  [t \in Tables |-> IF new[t] = NoBuffer /\ t <= upTo THEN [i \in Lists |-> Stale] ELSE new[t]]
AllThere(buffers) == \A t \in Tables : buffers[t] # NoBuffer

(* Mutant: counted from one more.                                          *)
FilledNext(buffers, m, i) ==
  [t \in Tables |-> IF buffers[t] = NoBuffer \/ i = NumLists THEN buffers[t]
                   ELSE [buffers[t] EXCEPT ![i + 1] = m]]

(* List i of manager m is copied to the buffers there are.                 *)
Filled(buffers, m, i) ==
  [t \in Tables |-> IF buffers[t] = NoBuffer THEN NoBuffer ELSE [buffers[t] EXCEPT ![i] = m]]

(* Mutant: newUdp is not installed.                                        *)
InstalledThree(buffers) ==
  [c \in Cells |-> IF TableOf(c) = 4 THEN mem["access"][c] ELSE buffers[TableOf(c)][ListOf(c)]]

(* END: the buffers, as lists of one table after the other; they are freed *)
(* then.                                                                   *)
Installed(buffers) ==
  [c \in Cells |-> buffers[TableOf(c)][ListOf(c)]]

(* Mutant: newUdp keeps its handle.                                        *)
FreedThree == [t \in Tables |-> IF t = 4 THEN [i \in Lists |-> Stale] ELSE NoBuffer]

Freed == [t \in Tables |-> NoBuffer]

(* LOAD_CLASS, the buffers being allocated: without BEGIN handle 0 is      *)
(* written to, or read from at END, as it comes.                           *)
handleLoad(m, p, buffers) ==
  LET filled == Filled(buffers, m, p.list)
  IN  /\ wild' = ~AllThere(buffers)
      /\ IF p.end /\ ~wild'
         THEN /\ mem' = [mem EXCEPT !["access"] = Installed(filled)]
              /\ new' = Freed
              /\ dirty' = [dirty EXCEPT !["access"] = TRUE]
         ELSE new' = filled /\ UNCHANGED <<mem, dirty>>
      /\ last' = [last EXCEPT ![m] = p]
      /\ UNCHANGED file

Packet(i, begin, end) == [list |-> i, begin |-> begin, end |-> end]
Loading(m) == last[m] # NoPacket /\ ~last[m].end

(* A load begins.  What the buffers held of another load stays in them.    *)
LoadBegin(m, i, end) ==
  /\ ~Loading(m) /\ Command /\ NoFault
  /\ handleLoad(m, Packet(i, TRUE, end), Allocated(4))
  /\ sent' = [sent EXCEPT ![m] = {i}]
  /\ calm' = [n \in Managers |-> n = m]

(* Not all buffers can be allocated: an error is sent back, and the        *)
(* manager gives up; those that could be allocated stay.                   *)
LoadNoMemory(m) ==
  /\ ~Loading(m) /\ Command /\ Fault
  /\ \E t \in 0 .. 3 : ~AllThere(Allocated(t)) /\ new' = Allocated(t)
  /\ Disturbed(Managers)
  /\ UNCHANGED <<mem, dirty, file, wild, last, sent>>

LoadNext(m, i, end) ==
  /\ Loading(m) /\ i \notin sent[m] /\ NoFault
  /\ handleLoad(m, Packet(i, FALSE, end), new)
  /\ sent' = [sent EXCEPT ![m] = @ \cup {i}]
  /\ Disturbed(Managers \ {m})
  /\ UNCHANGED commands

(* The last packet comes once more: doubled on its way, or sent again for  *)
(* want of an answer.  That is harmless until END.                         *)
LoadAgain(m) ==
  /\ last[m] # NoPacket /\ Fault
  /\ handleLoad(m, last[m], IF last[m].begin THEN Allocated(4) ELSE new)
  /\ Disturbed(IF last[m].end THEN Managers ELSE Managers \ {m})
  /\ UNCHANGED <<sent, commands>>

-----------------------------------------------------------------------------
(* handleWrite: reject, allow, access, those that are dirty.               *)

Position(f) == CHOOSE k \in DOMAIN Files : Files[k] = f
Earlier(f)  == {g \in Names : dirty[g] /\ Position(g) < Position(f)}

Cuts(f) == 0 .. Len(mem[f])

(* The files when those before f were written, and k cells of f.  A file   *)
(* is not truncated before.                                                *)
WrittenUpTo(f, k) ==
  [g \in Names |-> IF g \in Earlier(f) THEN mem[g]
                   ELSE IF g = f THEN SubSeq(mem[f], 1, k) \o SubSeq(file[f], k + 1, Len(file[f]))
                   ELSE file[g]]

handleWrite ==
  /\ Command /\ NoFault
  /\ file' = [f \in Names |-> IF dirty[f] THEN mem[f] ELSE file[f]]
  /\ dirty' = [f \in Names |-> FALSE]
  /\ UNCHANGED <<mem, new, wild, last, sent, calm>>

(* Mutant: the flag of the file that failed is cleared too.                *)
WriteFailsClean(f, k) ==
  /\ Command /\ Fault
  /\ dirty[f] /\ k \in Cuts(f) \ {Len(mem[f])}
  /\ file' = WrittenUpTo(f, k)
  /\ dirty' = [g \in Names |-> dirty[g] /\ g \notin Earlier(f) \cup {f}]
  /\ UNCHANGED <<mem, new, wild, last, sent, calm>>

(* f cannot be opened or not be written to its end: the handler returns.   *)
WriteFails(f, k) ==
  /\ Command /\ Fault
  /\ dirty[f] /\ k \in Cuts(f) \ {Len(mem[f])}
  /\ file' = WrittenUpTo(f, k)
  /\ dirty' = [g \in Names |-> dirty[g] /\ g \notin Earlier(f)]
  /\ UNCHANGED <<mem, new, wild, last, sent, calm>>

(* handleRelease, of one file's tables.                                    *)
handleRelease(f) ==
  /\ Command /\ NoFault
  /\ mem' = [mem EXCEPT ![f] = Released(f)]
  /\ file' = [file EXCEPT ![f] = <<>>]
  /\ dirty' = [dirty EXCEPT ![f] = FALSE]
  /\ UNCHANGED <<new, wild, last, sent, calm>>

-----------------------------------------------------------------------------
(* The machine stops, at rest or within handleWrite, and starts again with *)
(* the files as they are then.                                             *)
PowerFail ==
  /\ Fault
  /\ \/ UNCHANGED file
     \/ \E f \in Names : dirty[f] /\ \E k \in Cuts(f) : file' = WrittenUpTo(f, k)
  /\ mem' = [f \in Names |-> Loaded(f, file'[f])]
  /\ dirty' = [f \in Names |-> FALSE]
  /\ new' = [t \in Tables |-> NoBuffer]
  /\ Disturbed(Managers)
  /\ UNCHANGED <<wild, last, sent, commands>>

Next ==
  /\ ~wild
  /\ \/ \E m \in Managers :
          \/ \E f \in Names \ {"access"} : LoadTable(m, f)
          \/ \E i \in Lists, end \in BOOLEAN : LoadBegin(m, i, end) \/ LoadNext(m, i, end)
          \/ LoadNoMemory(m) \/ LoadAgain(m)
     \/ handleWrite
     \/ \E f \in Names : handleRelease(f) \/ \E k \in Cuts(f) : WriteFails(f, k)
     \/ PowerFail

Spec == Init /\ [][Next]_vars

-----------------------------------------------------------------------------
(* Type invariant.  The buffers are allocated in the order of the tables,  *)
(* and freed together.                                                     *)
TypeOK ==
  /\ \A f \in Names : mem[f] \in [DOMAIN Defaults(f) -> Managers \cup {Empty, Default, From0, Stale}]
  /\ new \in [Tables -> Buffers \cup {NoBuffer}]
  /\ \A t \in Tables : t > 1 /\ new[t] # NoBuffer => new[t - 1] # NoBuffer
  /\ dirty \in [Names -> BOOLEAN] /\ DOMAIN file = Names
  /\ \A f \in Names : /\ Len(file[f]) <= Len(mem[f])
                      /\ Range(file[f]) \subseteq Managers \cup {Empty, Default, From0, Stale}
  /\ wild \in BOOLEAN /\ calm \in [Managers -> BOOLEAN]
  /\ last \in [Managers -> Packets \cup {NoPacket}] /\ sent \in [Managers -> SUBSET Lists]
  /\ commands \in 0 .. MaxCommands /\ faults \in 0 .. MaxFaults

(* A table that is not dirty is the same after a restart (dirty flags of   *)
(* handleWrite and handleRelease, initTables), but for the first UDP list  *)
(* after a release.                                                        *)
RestartKeeps ==
  \A f \in Names : ~dirty[f] =>
    Loaded(f, file[f]) = [c \in DOMAIN mem[f] |-> IF mem[f][c] = From0 THEN Default ELSE mem[f][c]]

(* The four tables of a list in use come from the same load or default; if *)
(* they do not, they were read from a file whose write was cut short, and  *)
(* not from handleLoad.                                                    *)
Origin(c) == IF mem["access"][c] \in {Default, From0} THEN Empty ELSE mem["access"][c]
MixedFromFile ==
  ~dirty["access"] \/ \A i \in Lists, t \in Tables : Origin(Cell(t, i)) = Origin(Cell(1, i))

(* A load whose packets came in turn, with at most a packet before END     *)
(* doubled, no packet of another manager's load among them and no restart, *)
(* never touches handle 0, and at END each list it sent is in use in all   *)
(* four tables.                                                            *)
UndisturbedLoads ==
  [][\A m \in Managers : last'[m] # last[m] /\ calm'[m] =>
       /\ ~wild'
       /\ last'[m].end => \A i \in sent'[m], t \in Tables : mem'["access"][Cell(t, i)] = m]_vars
=============================================================================
