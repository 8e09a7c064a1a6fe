-------------------------- MODULE AccessListProofs --------------------------
(***************************************************************************)
(* Theorems about AccessList, for any managers and any number of lists,    *)
(* commands, doubled packets, failures and restarts.                       *)
(***************************************************************************)
EXTENDS AccessList, SequenceTheorems, TLAPS

USE ListsAssumption, BoundsAssumption, ManagersAssumption

-----------------------------------------------------------------------------
(* The invariant the proofs are built on.                                  *)

Contents == Managers \cup {Empty, Default, From0, Stale}
Size(f)  == IF f = "access" THEN 4 * NumLists ELSE 1     \* cells of a table
Untold   == [i \in Lists |-> Stale]                      \* a fresh buffer

TypeInv ==
  /\ mem \in [Names -> Seq(Contents)] /\ file \in [Names -> Seq(Contents)]
  /\ \A f \in Names : Len(mem[f]) = Size(f) /\ Len(file[f]) <= Size(f)
  /\ new \in [Tables -> Buffers \cup {NoBuffer}]
  /\ \A t \in Tables : t > 1 /\ new[t] # NoBuffer => new[t - 1] # NoBuffer
  /\ dirty \in [Names -> BOOLEAN]
  /\ wild \in BOOLEAN /\ calm \in [Managers -> BOOLEAN]
  /\ last \in [Managers -> Packets \cup {NoPacket}] /\ sent \in [Managers -> SUBSET Lists]
  /\ commands \in 0 .. MaxCommands /\ faults \in 0 .. MaxFaults

(* The buffers are filled alike; those that were allocated when others     *)
(* could not be have not been filled, or handle 0 had been written to.     *)
BuffersAlike ==
  /\ \A t, u \in Tables : new[t] # NoBuffer /\ new[u] # NoBuffer => new[t] = new[u]
  /\ ~wild /\ ~AllThere(new) => \A t \in Tables : new[t] \in {NoBuffer, Untold}

(* The list that a release leaves and a start does not is in memory only,  *)
(* and only while there is nothing to be written.                          *)
ReleaseUnwritten ==
  \A f \in Names : /\ \A c \in 1 .. Len(file[f]) : file[f][c] # From0
                   /\ dirty[f] => \A c \in 1 .. Len(mem[f]) : mem[f][c] # From0

(* What was sent in a load that nothing came between is in the buffers.    *)
CalmInv ==
  \A m \in Managers : calm[m] /\ Loading(m) =>
    AllThere(new) /\ \A t \in Tables, i \in sent[m] : new[t][i] = m

(* A cell that is not dirty is as the file, or the start, has it.          *)
OnDisk(f, c) == IF c <= Len(file[f]) THEN file[f][c] ELSE Defaults(f)[c]
Kept ==
  \A f \in Names : ~dirty[f] =>
    \A c \in 1 .. Size(f) : OnDisk(f, c) = IF mem[f][c] = From0 THEN Default ELSE mem[f][c]

(* The lists that were installed and not written since are of one load.    *)
Unmixed ==
  dirty["access"] =>
    \A i \in Lists, t \in Tables : mem["access"][Cell(t, i)] = mem["access"][Cell(1, i)]

IInv == TypeInv /\ BuffersAlike /\ ReleaseUnwritten /\ CalmInv /\ Kept /\ Unmixed

-----------------------------------------------------------------------------
(* Lemmas on the tables and their cells.                                   *)

(* The three files, and their order.                                       *)
LEMMA NamesAre ==
  /\ Names = {"reject", "allow", "access"} /\ "access" \in Names
  /\ \A f \in Names : Position(f) \in Int
<1>1. /\ DOMAIN Files = {1, 2, 3}
      /\ Files[1] = "reject" /\ Files[2] = "allow" /\ Files[3] = "access"
  BY DEF Files
<1>2. Names = {"reject", "allow", "access"}
  BY <1>1 DEF Names, Range
<1>3. ASSUME NEW f \in Names PROVE Position(f) \in DOMAIN Files
  <2>1. \E k \in DOMAIN Files : Files[k] = f
    BY <1>1, <1>2
  <2> QED
    BY <2>1 DEF Position
<1> QED
  BY <1>1, <1>2, <1>3

(* A table has a cell, and an access list table has a cell for each list   *)
(* of each of the four.                                                    *)
LEMMA Sizes ==
  /\ \A f \in Names : Size(f) \in Nat \ {0}
  /\ Cells = 1 .. Size("access") /\ Lists = 1 .. NumLists /\ Tables = {1, 2, 3, 4}
BY DEF Size, Cells, Lists, Tables

(* A quotient and a remainder of a number below four times the divisor.    *)
LEMMA DivMod ==
  ASSUME NEW N \in Nat \ {0}, NEW x \in 0 .. 4 * N - 1
  PROVE  /\ x \div N = IF x < N THEN 0 ELSE IF x < 2 * N THEN 1 ELSE IF x < 3 * N THEN 2 ELSE 3
         /\ x % N = IF x < N THEN x ELSE IF x < 2 * N THEN x - N
                    ELSE IF x < 3 * N THEN x - 2 * N ELSE x - 3 * N
<1>1. CASE x < N
  BY <1>1
<1>2. CASE N <= x /\ x < 2 * N
  BY <1>2
<1>3. CASE 2 * N <= x /\ x < 3 * N
  BY <1>3
<1>4. CASE 3 * N <= x
  BY <1>4
<1> QED
  BY <1>1, <1>2, <1>3, <1>4

(* The cells are the lists of one table after the other.                   *)
LEMMA CellIs ==
  ASSUME NEW t \in Tables, NEW i \in Lists
  PROVE  Cell(t, i) \in Cells /\ TableOf(Cell(t, i)) = t /\ ListOf(Cell(t, i)) = i
<1> DEFINE N == NumLists
           x == Cell(t, i) - 1
           Div(y) == y \div N
           Rem(y) == y % N
<1>1. N \in Nat \ {0} /\ t \in 1 .. 4 /\ i \in 1 .. N
  BY DEF Tables, Lists
<1>2. Cell(t, i) = IF t = 1 THEN i ELSE IF t = 2 THEN N + i
                   ELSE IF t = 3 THEN 2 * N + i ELSE 3 * N + i
  BY <1>1 DEF Cell
<1>3. /\ Cells = 1 .. 4 * N
      /\ TableOf(Cell(t, i)) = Div(x) + 1 /\ ListOf(Cell(t, i)) = Rem(x) + 1
  BY DEF Cells, TableOf, ListOf
<1>4. \A y \in 0 .. 4 * N - 1 :
        /\ Div(y) = IF y < N THEN 0 ELSE IF y < 2 * N THEN 1 ELSE IF y < 3 * N THEN 2 ELSE 3
        /\ Rem(y) = IF y < N THEN y ELSE IF y < 2 * N THEN y - N
                    ELSE IF y < 3 * N THEN y - 2 * N ELSE y - 3 * N
  BY <1>1, DivMod
<1> HIDE DEF N, Div, Rem
<1>5. Div(x) = t - 1 /\ Rem(x) = i - 1
  BY <1>1, <1>2, <1>4
<1>6. Cell(t, i) \in 1 .. 4 * N
  BY <1>1, <1>2
<1> QED
  BY <1>1, <1>3, <1>5, <1>6

(* Every cell is that of a list in a table.                                *)
LEMMA ListIs ==
  ASSUME NEW c \in Cells
  PROVE  TableOf(c) \in Tables /\ ListOf(c) \in Lists
<1> DEFINE N == NumLists
<1>1. N \in Nat \ {0} /\ c \in 1 .. 4 * N
  BY DEF Cells
<1>2. PICK t \in 1 .. 4, i \in 1 .. N :
        c = IF t = 1 THEN i ELSE IF t = 2 THEN N + i
            ELSE IF t = 3 THEN 2 * N + i ELSE 3 * N + i
  <2>1. CASE c <= N
    <3>1. c \in 1 .. N /\ 1 \in 1 .. 4
      BY <1>1, <2>1
    <3> QED
      BY <3>1
  <2>2. CASE c > N /\ c <= 2 * N
    <3>1. c - N \in 1 .. N /\ 2 \in 1 .. 4 /\ c = N + (c - N)
      BY <1>1, <2>2
    <3> QED
      BY <3>1
  <2>3. CASE c > 2 * N /\ c <= 3 * N
    <3>1. c - 2 * N \in 1 .. N /\ 3 \in 1 .. 4 /\ c = 2 * N + (c - 2 * N)
      BY <1>1, <2>3
    <3> QED
      BY <3>1
  <2>4. CASE c > 3 * N
    <3>1. c - 3 * N \in 1 .. N /\ 4 \in 1 .. 4 /\ c = 3 * N + (c - 3 * N)
      BY <1>1, <2>4
    <3> QED
      BY <3>1
  <2> QED
    BY <1>1, <2>1, <2>2, <2>3, <2>4
<1>3. t \in Tables /\ i \in Lists
  BY DEF Tables, Lists
<1>4. c = Cell(t, i)
  BY <1>1, <1>2 DEF Cell
<1> QED
  BY <1>3, <1>4, CellIs

(* A function on the first n numbers is a sequence of length n.            *)
LEMMA OfLength ==
  ASSUME NEW S, NEW n \in Nat, NEW g \in [1 .. n -> S]
  PROVE  g \in Seq(S) /\ Len(g) = n
<1>1. g \in Seq(S)
  BY SeqDef
<1>2. Len(g) \in Nat /\ 1 .. Len(g) = 1 .. n
  BY <1>1, LenProperties
<1>3. Len(g) = n
  <2>1. \A k \in Nat : k > 0 => k \in 1 .. k
    OBVIOUS
  <2> QED
    BY <1>2, <2>1
<1> QED
  BY <1>1, <1>3

(* A table as it is at the start.                                          *)
LEMMA DefaultsAre ==
  ASSUME NEW f \in Names
  PROVE  /\ Defaults(f) \in Seq({Empty, Default}) /\ Len(Defaults(f)) = Size(f)
         /\ Defaults(f) \in Seq(Contents)
         /\ \A c \in 1 .. Size(f) : Defaults(f)[c] # From0 /\ Defaults(f)[c] \in Contents
<1>1. Defaults(f) \in [1 .. Size(f) -> {Empty, Default}]
  <2>1. CASE f = "access"
    BY <2>1, Sizes DEF Defaults
  <2>2. CASE f # "access"
    BY <2>2 DEF Defaults, Size
  <2> QED
    BY <2>1, <2>2
<1>2. Defaults(f) \in Seq({Empty, Default}) /\ Len(Defaults(f)) = Size(f)
  BY <1>1, Sizes, OfLength
<1>3. Defaults(f) \in [1 .. Size(f) -> Contents]
  BY <1>1 DEF Contents
<1>4. Defaults(f) \in Seq(Contents)
  BY <1>3, Sizes, OfLength
<1>5. From0 \notin {Empty, Default}
  BY DEF From0, Empty, Default
<1> QED
  BY <1>1, <1>2, <1>3, <1>4, <1>5

(* The program starts with a file: what it lacks is as at the start.       *)
LEMMA LoadedIs ==
  ASSUME NEW f \in Names, NEW content \in Seq(Contents), Len(content) <= Size(f)
  PROVE  /\ Loaded(f, content) \in Seq(Contents) /\ Len(Loaded(f, content)) = Size(f)
         /\ \A c \in 1 .. Size(f) :
              Loaded(f, content)[c] = IF c <= Len(content) THEN content[c] ELSE Defaults(f)[c]
<1> DEFINE n == Size(f)
           k == Len(content)
           rest == SubSeq(Defaults(f), k + 1, n)
<1>1. n \in Nat /\ k \in Nat /\ k <= n
  BY Sizes, LenProperties
<1>2. Loaded(f, content) = content \o rest
  BY DefaultsAre DEF Loaded
<1>3. \A i \in k + 1 .. n : Defaults(f)[i] \in Contents
  BY <1>1, DefaultsAre
<1>4. /\ rest \in Seq(Contents) /\ Len(rest) = IF k + 1 <= n THEN n - (k + 1) + 1 ELSE 0
      /\ \A i \in 1 .. n - (k + 1) + 1 : rest[i] = Defaults(f)[k + 1 + i - 1]
  <2>1. k + 1 \in Int /\ n \in Int
    BY <1>1
  <2> HIDE DEF k, n
  <2> QED
    BY <1>3, <2>1, SubSeqProperties
<1> HIDE DEF rest, n
<1>5. Len(rest) = n - k
  BY <1>1, <1>4
<1>6. /\ content \o rest \in Seq(Contents) /\ Len(content \o rest) = k + Len(rest)
      /\ \A i \in 1 .. k + Len(rest) :
           (content \o rest)[i] = IF i <= k THEN content[i] ELSE rest[i - k]
  BY <1>4, ConcatProperties
<1>7. ASSUME NEW c \in 1 .. n PROVE (content \o rest)[c] = IF c <= k THEN content[c] ELSE Defaults(f)[c]
  <2>1. (content \o rest)[c] = IF c <= k THEN content[c] ELSE rest[c - k]
    BY <1>1, <1>5, <1>6
  <2>2. ASSUME ~(c <= k) PROVE rest[c - k] = Defaults(f)[c]
    <3>1. c - k \in 1 .. n - (k + 1) + 1 /\ k + 1 + (c - k) - 1 = c
      BY <1>1, <2>2
    <3> QED
      BY <1>4, <3>1
  <2> QED
    BY <2>1, <2>2
<1> QED
  BY <1>1, <1>2, <1>5, <1>6, <1>7 DEF n

(* A file of which k cells were written.                                   *)
LEMMA CutIs ==
  ASSUME NEW s \in Seq(Contents), NEW old \in Seq(Contents), NEW k \in 0 .. Len(s),
         Len(old) <= Len(s)
  PROVE  LET cut == SubSeq(s, 1, k) \o SubSeq(old, k + 1, Len(old))
         IN  /\ cut \in Seq(Contents) /\ Len(cut) <= Len(s)
             /\ \A c \in 1 .. Len(cut) : \/ c \in 1 .. Len(s) /\ cut[c] = s[c]
                                         \/ c \in 1 .. Len(old) /\ cut[c] = old[c]
<1> DEFINE n == Len(old)
           first == SubSeq(s, 1, k)
           rest  == SubSeq(old, k + 1, n)
<1>1. n \in Nat /\ Len(s) \in Nat /\ k \in Nat /\ k <= Len(s) /\ n <= Len(s)
  BY LenProperties
<1>2. /\ first \in Seq(Contents) /\ Len(first) = IF 1 <= k THEN k - 1 + 1 ELSE 0
      /\ \A i \in 1 .. k - 1 + 1 : first[i] = s[1 + i - 1]
  <2>1. \A i \in 1 .. k : s[i] \in Contents
    BY <1>1, ElementOfSeq
  <2> QED
    BY <1>1, <2>1, SubSeqProperties
<1>3. /\ rest \in Seq(Contents) /\ Len(rest) = IF k + 1 <= n THEN n - (k + 1) + 1 ELSE 0
      /\ \A i \in 1 .. n - (k + 1) + 1 : rest[i] = old[k + 1 + i - 1]
  <2>1. \A i \in k + 1 .. n : old[i] \in Contents
    BY <1>1, ElementOfSeq
  <2>2. k + 1 \in Int /\ n \in Int
    BY <1>1
  <2> HIDE DEF n
  <2> QED
    BY <2>1, <2>2, SubSeqProperties
<1> HIDE DEF first, rest, n
<1>4. Len(first) = k /\ Len(rest) = IF k < n THEN n - k ELSE 0
  BY <1>1, <1>2, <1>3
<1>5. /\ first \o rest \in Seq(Contents) /\ Len(first \o rest) = k + Len(rest)
      /\ \A i \in 1 .. k + Len(rest) :
           (first \o rest)[i] = IF i <= k THEN first[i] ELSE rest[i - k]
  <2>1. /\ first \o rest \in Seq(Contents) /\ Len(first \o rest) = Len(first) + Len(rest)
        /\ \A i \in 1 .. Len(first) + Len(rest) :
             (first \o rest)[i] = IF i <= Len(first) THEN first[i] ELSE rest[i - Len(first)]
    <3>1. first \in Seq(Contents) /\ rest \in Seq(Contents)
      BY <1>2, <1>3
    <3> QED
      BY <3>1, ConcatProperties
  <2>2. Len(first) = k
    BY <1>4
  <2> QED
    BY <2>1, <2>2, Zenon
<1>6. ASSUME NEW c \in 1 .. k + Len(rest)
      PROVE  \/ c \in 1 .. Len(s) /\ (first \o rest)[c] = s[c]
             \/ c \in 1 .. n /\ (first \o rest)[c] = old[c]
  <2>1. CASE c <= k
    <3>1. c \in 1 .. k - 1 + 1 /\ 1 + c - 1 = c /\ c \in 1 .. Len(s)
      BY <1>1, <1>4, <2>1
    <3> QED
      BY <1>2, <1>5, <2>1, <3>1
  <2>2. CASE ~(c <= k)
    <3>1. c - k \in 1 .. n - (k + 1) + 1 /\ k + 1 + (c - k) - 1 = c /\ c \in 1 .. n
      BY <1>1, <1>4, <2>2
    <3> QED
      BY <1>3, <1>5, <2>2, <3>1
  <2> QED
    BY <2>1, <2>2
<1>7. Len(first \o rest) <= Len(s)
  BY <1>1, <1>4, <1>5
<1> QED
  BY <1>5, <1>6, <1>7 DEF first, rest, n

(* A table after a release: at the next start only the first UDP list will *)
(* be another.                                                             *)
LEMMA ReleasedIs ==
  ASSUME NEW f \in Names
  PROVE  /\ Released(f) \in Seq(Contents) /\ Len(Released(f)) = Size(f)
         /\ \A c \in 1 .. Size(f) :
              Defaults(f)[c] = IF Released(f)[c] = From0 THEN Default ELSE Released(f)[c]
<1>1. CASE f = "access"
  <2> DEFINE x == Cell(4, 1)
  <2>1. Released(f) = [Defaults(f) EXCEPT ![x] = From0]
    BY <1>1 DEF Released
  <2>2. 4 \in Tables /\ 1 \in Lists
    BY DEF Tables, Lists
  <2>3. x \in 1 .. Size(f) /\ ListOf(x) = 1
    BY <1>1, <2>2, CellIs, Sizes
  <2> HIDE DEF x
  <2>4. Defaults(f)[x] = Default
    BY <1>1, <2>3, Sizes DEF Defaults
  <2>5. From0 \in Contents
    BY DEF Contents
  <2>6. /\ Released(f) \in Seq(Contents) /\ Len(Released(f)) = Size(f)
        /\ \A c \in 1 .. Size(f) : Released(f)[c] = IF c = x THEN From0 ELSE Defaults(f)[c]
    BY <2>1, <2>3, <2>5, DefaultsAre, ExceptSeq
  <2> QED
    BY <2>4, <2>6, DefaultsAre
<1>2. CASE f # "access"
  BY <1>2, DefaultsAre DEF Released
<1> QED
  BY <1>1, <1>2

-----------------------------------------------------------------------------
(* Lemmas on the buffers.                                                  *)

(* What the four buffers may be.                                           *)
BufferSet(buffers) ==
  /\ buffers \in [Tables -> Buffers \cup {NoBuffer}]
  /\ \A t \in Tables : t > 1 /\ buffers[t] # NoBuffer => buffers[t - 1] # NoBuffer
  /\ \A t, u \in Tables : buffers[t] # NoBuffer /\ buffers[u] # NoBuffer => buffers[t] = buffers[u]

(* A buffer is not the handle 0.                                           *)
LEMMA BufferThere == \A b \in Buffers : b # NoBuffer
<1>1. 1 \in Lists
  BY DEF Lists
<1>2. \A b \in Buffers : 1 \in DOMAIN b
  BY <1>1 DEF Buffers
<1>3. DOMAIN NoBuffer = {}
  BY DEF NoBuffer
<1> QED
  BY <1>2, <1>3

(* BEGIN allocates the buffers there is memory for.                        *)
LEMMA AllocatedIs ==
  ASSUME IInv, ~wild, NEW k \in 0 .. 4
  PROVE  /\ BufferSet(Allocated(k))
         /\ k = 4 => AllThere(Allocated(k))
         /\ AllThere(new) => Allocated(k) = new
         /\ ~AllThere(Allocated(k)) => \A t \in Tables : Allocated(k)[t] \in {NoBuffer, Untold}
<1> DEFINE buffers == Allocated(k)
<1>1. Untold \in Buffers /\ Untold # NoBuffer
  BY BufferThere DEF Untold, Buffers
<1>2. /\ buffers = [t \in Tables |-> IF new[t] = NoBuffer /\ t <= k THEN Untold ELSE new[t]]
      /\ Tables = 1 .. 4
  BY DEF Allocated, Untold, Tables
<1> HIDE DEF buffers
<1>3. new \in [Tables -> Buffers \cup {NoBuffer}]
  BY DEF IInv, TypeInv
<1>4. buffers \in [Tables -> Buffers \cup {NoBuffer}]
  BY <1>1, <1>2, <1>3
<1>5. AllThere(new) => buffers = new
  BY <1>2, <1>3 DEF AllThere
<1>6. ASSUME ~AllThere(new) PROVE \A t \in Tables : buffers[t] \in {NoBuffer, Untold}
  BY <1>2, <1>6 DEF IInv, BuffersAlike
<1>7. \A t, u \in Tables : buffers[t] # NoBuffer /\ buffers[u] # NoBuffer => buffers[t] = buffers[u]
  BY <1>5, <1>6 DEF IInv, BuffersAlike
<1>8. \A t \in Tables : t > 1 /\ buffers[t] # NoBuffer => buffers[t - 1] # NoBuffer
  <2> SUFFICES ASSUME NEW t \in Tables, t > 1, buffers[t] # NoBuffer
               PROVE  buffers[t - 1] # NoBuffer
    OBVIOUS
  <2>1. t - 1 \in Tables /\ t - 1 <= t
    BY <1>2
  <2>2. CASE new[t] = NoBuffer
    BY <1>1, <1>2, <2>1, <2>2
  <2>3. CASE new[t] # NoBuffer
    BY <1>2, <2>1, <2>3 DEF IInv, TypeInv
  <2> QED
    BY <2>2, <2>3
<1>9. k = 4 => AllThere(buffers)
  BY <1>1, <1>2 DEF AllThere
<1> QED
  BY <1>4, <1>5, <1>6, <1>7, <1>8, <1>9 DEF BufferSet, buffers

(* A list is copied to the buffers there are.                              *)
LEMMA FilledIs ==
  ASSUME NEW buffers, BufferSet(buffers), NEW m \in Managers, NEW i \in Lists
  PROVE  /\ BufferSet(Filled(buffers, m, i))
         /\ AllThere(Filled(buffers, m, i)) <=> AllThere(buffers)
         /\ AllThere(buffers) => \A t \in Tables : Filled(buffers, m, i)[t] \in Buffers
         /\ AllThere(buffers) => \A t \in Tables, j \in Lists :
              Filled(buffers, m, i)[t][j] = IF j = i THEN m ELSE buffers[t][j]
<1> DEFINE filled == Filled(buffers, m, i)
           With(b) == [b EXCEPT ![i] = m]
<1>1. filled = [t \in Tables |-> IF buffers[t] = NoBuffer THEN NoBuffer ELSE With(buffers[t])]
  BY DEF Filled
<1>2. \A b \in Buffers : /\ With(b) \in Buffers /\ With(b) # NoBuffer
                         /\ \A j \in Lists : With(b)[j] = IF j = i THEN m ELSE b[j]
  <2>1. \A b \in Buffers : /\ With(b) \in Buffers
                           /\ \A j \in Lists : With(b)[j] = IF j = i THEN m ELSE b[j]
    BY DEF Buffers
  <2> QED
    BY <2>1, BufferThere
<1> HIDE DEF filled, With
<1>3. \A t \in Tables : buffers[t] # NoBuffer => buffers[t] \in Buffers
  BY DEF BufferSet
<1>4. \A t \in Tables : /\ filled[t] \in Buffers \cup {NoBuffer}
                        /\ filled[t] = NoBuffer <=> buffers[t] = NoBuffer
                        /\ filled[t] # NoBuffer => filled[t] = With(buffers[t])
  BY <1>1, <1>2, <1>3
<1>5. BufferSet(filled)
  <2>1. filled \in [Tables -> Buffers \cup {NoBuffer}]
    BY <1>1, <1>4
  <2>2. \A t \in Tables : t > 1 => t - 1 \in Tables
    BY DEF Tables
  <2>3. \A t \in Tables : t > 1 /\ filled[t] # NoBuffer => filled[t - 1] # NoBuffer
    BY <1>4, <2>2 DEF BufferSet
  <2>4. \A t, u \in Tables : filled[t] # NoBuffer /\ filled[u] # NoBuffer => filled[t] = filled[u]
    BY <1>4 DEF BufferSet
  <2> QED
    BY <2>1, <2>3, <2>4 DEF BufferSet
<1>6. AllThere(filled) <=> AllThere(buffers)
  BY <1>4 DEF AllThere
<1>7. ASSUME AllThere(buffers), NEW t \in Tables
      PROVE  filled[t] \in Buffers /\ \A j \in Lists : filled[t][j] = IF j = i THEN m ELSE buffers[t][j]
  <2>1. buffers[t] \in Buffers /\ filled[t] = With(buffers[t])
    BY <1>3, <1>4, <1>7 DEF AllThere
  <2> QED
    BY <1>2, <2>1
<1> QED
  BY <1>5, <1>6, <1>7 DEF filled

(* At END the lists in the buffers are in use.                             *)
LEMMA InstalledIs ==
  ASSUME NEW buffers, BufferSet(buffers), AllThere(buffers)
  PROVE  /\ Installed(buffers) \in Seq(Contents) /\ Len(Installed(buffers)) = Size("access")
         /\ \A c \in 1 .. Size("access") : Installed(buffers)[c] # From0
         /\ \A i \in Lists, t \in Tables : Installed(buffers)[Cell(t, i)] = buffers[t][i]
         /\ \A i \in Lists, t \in Tables :
              Installed(buffers)[Cell(t, i)] = Installed(buffers)[Cell(1, i)]
<1> DEFINE used == Installed(buffers)
<1>1. \A t \in Tables, i \in Lists : buffers[t][i] \in Managers \cup {Stale}
  BY DEF BufferSet, AllThere, Buffers
<1>2. \A c \in Cells : used[c] = buffers[TableOf(c)][ListOf(c)]
  BY DEF Installed
<1>3. used \in [Cells -> Managers \cup {Stale}]
  BY <1>1, ListIs DEF Installed
<1> HIDE DEF used
<1>4. used \in [1 .. Size("access") -> Contents]
  BY <1>3, Sizes DEF Contents
<1>5. used \in Seq(Contents) /\ Len(used) = Size("access")
  BY <1>4, Sizes, NamesAre, OfLength
<1>6. From0 \notin Managers \cup {Stale}
  BY DEF From0, Stale
<1>7. \A i \in Lists, t \in Tables : used[Cell(t, i)] = buffers[t][i]
  BY <1>2, CellIs
<1>8. \A i \in Lists, t \in Tables : buffers[t][i] = buffers[1][i] /\ 1 \in Tables
  BY DEF BufferSet, AllThere, Tables
<1> QED
  BY <1>3, <1>5, <1>6, <1>7, <1>8, Sizes DEF used

-----------------------------------------------------------------------------
(* The steps.                                                              *)

(* A packet is handled.                                                    *)
LEMMA handleLoadIs ==
  ASSUME IInv, ~wild, NEW m \in Managers, NEW p \in Packets, NEW buffers,
         buffers = new \/ buffers = Allocated(4), handleLoad(m, p, buffers)
  PROVE  /\ mem' \in [Names -> Seq(Contents)] /\ file' \in [Names -> Seq(Contents)]
         /\ \A f \in Names : Len(mem'[f]) = Size(f) /\ Len(file'[f]) <= Size(f)
         /\ BufferSet(new') /\ dirty' \in [Names -> BOOLEAN] /\ wild' \in BOOLEAN
         /\ last' \in [Managers -> Packets \cup {NoPacket}]
         /\ last'[m] = p /\ \A n \in Managers \ {m} : last'[n] = last[n]
         /\ BuffersAlike' /\ ReleaseUnwritten' /\ Kept' /\ Unmixed'
         /\ AllThere(buffers) =>
              /\ ~wild'
              /\ ~p.end => AllThere(new') /\ \A t \in Tables, i \in Lists :
                             new'[t][i] = IF i = p.list THEN m ELSE buffers[t][i]
              /\ p.end => \A t \in Tables, i \in Lists :
                   mem'["access"][Cell(t, i)] = IF i = p.list THEN m ELSE buffers[t][i]
<1> DEFINE filled == Filled(buffers, m, p.list)
<1>1. /\ wild' = ~AllThere(buffers) /\ file' = file /\ last' = [last EXCEPT ![m] = p]
      /\ \/ /\ p.end /\ AllThere(buffers)
            /\ mem' = [mem EXCEPT !["access"] = Installed(filled)]
            /\ new' = Freed /\ dirty' = [dirty EXCEPT !["access"] = TRUE]
         \/ /\ ~(p.end /\ AllThere(buffers))
            /\ new' = filled /\ mem' = mem /\ dirty' = dirty
  BY DEF handleLoad
<1>2. p.list \in Lists /\ "access" \in Names
  BY NamesAre DEF Packets
<1>3. BufferSet(new)
  BY DEF IInv, TypeInv, BuffersAlike, BufferSet
<1>4. BufferSet(buffers)
  <2>1. 4 \in 0 .. 4
    OBVIOUS
  <2> QED
    BY <1>3, <2>1, AllocatedIs
<1>5. /\ BufferSet(filled) /\ (AllThere(filled) <=> AllThere(buffers))
      /\ AllThere(buffers) => \A t \in Tables, j \in Lists :
           filled[t][j] = IF j = p.list THEN m ELSE buffers[t][j]
  BY <1>2, <1>4, FilledIs
<1> HIDE DEF filled
<1>6. BufferSet(Freed) /\ \A t \in Tables : Freed[t] = NoBuffer
  BY DEF Freed, BufferSet, Tables
<1>7. wild' \in BOOLEAN /\ (wild' <=> ~AllThere(buffers))
  BY <1>1
<1>8. /\ last' \in [Managers -> Packets \cup {NoPacket}]
      /\ last'[m] = p /\ \A n \in Managers \ {m} : last'[n] = last[n]
  BY <1>1 DEF IInv, TypeInv
<1>9. CASE p.end /\ AllThere(buffers)
  <2> DEFINE used == Installed(filled)
  <2>1. /\ mem' = [mem EXCEPT !["access"] = used]
        /\ new' = Freed /\ dirty' = [dirty EXCEPT !["access"] = TRUE]
    BY <1>1, <1>9
  <2>2. /\ used \in Seq(Contents) /\ Len(used) = Size("access")
        /\ \A c \in 1 .. Size("access") : used[c] # From0
        /\ \A i \in Lists, t \in Tables : used[Cell(t, i)] = filled[t][i]
        /\ \A i \in Lists, t \in Tables : used[Cell(t, i)] = used[Cell(1, i)]
    BY <1>5, <1>9, InstalledIs
  <2> HIDE DEF used
  <2>3. /\ mem'["access"] = used /\ dirty'["access"] = TRUE
        /\ \A f \in Names \ {"access"} : mem'[f] = mem[f] /\ dirty'[f] = dirty[f]
        /\ mem' \in [Names -> Seq(Contents)] /\ dirty' \in [Names -> BOOLEAN]
    BY <1>2, <2>1, <2>2 DEF IInv, TypeInv
  <2>4. ASSUME NEW f \in Names PROVE Len(mem'[f]) = Size(f)
    <3>1. CASE f = "access"
      BY <2>2, <2>3, <3>1
    <3>2. CASE f # "access"
      BY <2>3, <3>2 DEF IInv, TypeInv
    <3> QED
      BY <3>1, <3>2
  <2>5. BuffersAlike'
    BY <1>6, <2>1 DEF BuffersAlike
  <2>6. ReleaseUnwritten'
    <3> SUFFICES ASSUME NEW f \in Names
                 PROVE  /\ \A c \in 1 .. Len(file[f]) : file[f][c] # From0
                        /\ dirty'[f] => \A c \in 1 .. Len(mem'[f]) : mem'[f][c] # From0
      BY <1>1 DEF ReleaseUnwritten
    <3>1. CASE f = "access"
      BY <2>2, <2>3, <3>1 DEF IInv, ReleaseUnwritten
    <3>2. CASE f # "access"
      BY <2>3, <3>2 DEF IInv, ReleaseUnwritten
    <3> QED
      BY <3>1, <3>2
  <2>7. Kept'
    BY <1>1, <2>3 DEF IInv, Kept, OnDisk
  <2>8. Unmixed'
    BY <2>2, <2>3 DEF Unmixed
  <2> QED
    BY <1>1, <1>5, <1>6, <1>7, <1>8, <1>9, <2>1, <2>2, <2>3, <2>4, <2>5, <2>6, <2>7, <2>8
    DEF IInv, TypeInv
<1>10. CASE ~(p.end /\ AllThere(buffers))
  <2>1. new' = filled /\ mem' = mem /\ dirty' = dirty
    BY <1>1, <1>10
  <2>2. BuffersAlike'
    <3>1. ~wild' => \A t \in Tables : new'[t] # NoBuffer
      BY <1>5, <1>7, <2>1 DEF AllThere
    <3>2. \A t, u \in Tables : new'[t] # NoBuffer /\ new'[u] # NoBuffer => new'[t] = new'[u]
      <4>1. BufferSet(filled)
        BY <1>5
      <4> QED
        BY <2>1, <4>1 DEF BufferSet
    <3> QED
      BY <3>1, <3>2 DEF BuffersAlike, AllThere
  <2>3. ReleaseUnwritten' /\ Kept' /\ Unmixed'
    BY <1>1, <2>1 DEF IInv, ReleaseUnwritten, Kept, OnDisk, Unmixed
  <2>4. ASSUME AllThere(buffers)
        PROVE  /\ ~wild' /\ ~p.end /\ AllThere(new')
               /\ \A t \in Tables, i \in Lists : new'[t][i] = IF i = p.list THEN m ELSE buffers[t][i]
    BY <1>5, <1>7, <1>10, <2>1, <2>4
  <2>5. /\ mem' \in [Names -> Seq(Contents)] /\ file' \in [Names -> Seq(Contents)]
        /\ \A f \in Names : Len(mem'[f]) = Size(f) /\ Len(file'[f]) <= Size(f)
        /\ dirty' \in [Names -> BOOLEAN]
    BY <1>1, <2>1 DEF IInv, TypeInv
  <2>6. BufferSet(new')
    BY <1>5, <2>1, Zenon
  <2> QED
    BY <1>7, <1>8, <2>2, <2>3, <2>4, <2>5, <2>6
<1> QED
  BY <1>9, <1>10

(* A load begins.                                                          *)
LEMMA LoadBeginIInv ==
  ASSUME IInv, ~wild, NEW m \in Managers, NEW i \in Lists, NEW end \in BOOLEAN,
         LoadBegin(m, i, end)
  PROVE  IInv'
<1> DEFINE p == Packet(i, TRUE, end)
<1>1. /\ handleLoad(m, p, Allocated(4)) /\ Command /\ NoFault
      /\ sent' = [sent EXCEPT ![m] = {i}]
      /\ calm' = [n \in Managers |-> n = m]
  BY DEF LoadBegin
<1>2. p \in Packets /\ p.list = i /\ p.end = end
  BY DEF Packet, Packets
<1> HIDE DEF p
<1>3. AllThere(Allocated(4))
  <2>1. 4 \in 0 .. 4
    OBVIOUS
  <2> QED
    BY <2>1, AllocatedIs
<1>4. TypeInv'
  <2>1. calm' \in [Managers -> BOOLEAN] /\ sent' \in [Managers -> SUBSET Lists]
    BY <1>1 DEF IInv, TypeInv
  <2>2. commands' \in 0 .. MaxCommands /\ faults' \in 0 .. MaxFaults
    BY <1>1 DEF IInv, TypeInv, Command, NoFault
  <2> QED
    BY <1>1, <1>2, <2>1, <2>2, handleLoadIs DEF TypeInv, BufferSet
<1>5. CalmInv'
  <2> SUFFICES ASSUME NEW n \in Managers, calm'[n], Loading(n)'
               PROVE  AllThere(new') /\ \A t \in Tables, j \in sent'[n] : new'[t][j] = n
    BY DEF CalmInv, AllThere
  <2>1. n = m /\ sent'[n] = {i}
    BY <1>1 DEF IInv, TypeInv
  <2>2. last'[m] = p
    BY <1>1, <1>2, handleLoadIs
  <2>3. ~p.end
    BY <2>1, <2>2 DEF Loading
  <2> QED
    BY <1>1, <1>2, <1>3, <2>1, <2>3, handleLoadIs
<1> QED
  BY <1>1, <1>2, <1>4, <1>5, handleLoadIs DEF IInv

(* What a calm load finds, and the manager's next packet.                  *)
LEMMA LoadNextIInv ==
  ASSUME IInv, ~wild, NEW m \in Managers, NEW i \in Lists, NEW end \in BOOLEAN,
         LoadNext(m, i, end)
  PROVE  IInv'
<1> DEFINE p == Packet(i, FALSE, end)
<1>1. /\ handleLoad(m, p, new) /\ Loading(m) /\ NoFault
      /\ sent' = [sent EXCEPT ![m] = @ \cup {i}]
      /\ Disturbed(Managers \ {m}) /\ UNCHANGED commands
  BY DEF LoadNext
<1>2. p \in Packets /\ p.list = i /\ p.end = end
  BY DEF Packet, Packets
<1> HIDE DEF p
<1>3. calm' = [n \in Managers |-> calm[n] /\ n = m]
  BY <1>1 DEF Disturbed
<1>4. TypeInv'
  <2>1. calm' \in [Managers -> BOOLEAN] /\ sent' \in [Managers -> SUBSET Lists]
    BY <1>1, <1>3 DEF IInv, TypeInv
  <2>2. commands' \in 0 .. MaxCommands /\ faults' \in 0 .. MaxFaults
    BY <1>1 DEF IInv, TypeInv, NoFault
  <2> QED
    BY <1>1, <1>2, <2>1, <2>2, handleLoadIs DEF TypeInv, BufferSet
<1>5. CalmInv'
  <2> SUFFICES ASSUME NEW n \in Managers, calm'[n], Loading(n)'
               PROVE  AllThere(new') /\ \A t \in Tables, j \in sent'[n] : new'[t][j] = n
    BY DEF CalmInv, AllThere
  <2>1. n = m /\ calm[m] /\ sent'[m] = sent[m] \cup {i} /\ sent[m] \subseteq Lists
    BY <1>1, <1>3 DEF IInv, TypeInv
  <2>2. AllThere(new) /\ \A t \in Tables, j \in sent[m] : new[t][j] = m
    BY <1>1, <2>1 DEF IInv, CalmInv
  <2>3. ~p.end
    BY <1>1, <1>2, <2>1, handleLoadIs DEF Loading
  <2>4. AllThere(new') /\ \A t \in Tables, j \in Lists :
          new'[t][j] = IF j = i THEN m ELSE new[t][j]
    BY <1>1, <1>2, <2>2, <2>3, handleLoadIs
  <2> QED
    BY <2>1, <2>2, <2>4
<1> QED
  BY <1>1, <1>2, <1>4, <1>5, handleLoadIs DEF IInv

(* A packet comes once more.                                               *)
LEMMA LoadAgainIInv ==
  ASSUME IInv, ~wild, NEW m \in Managers, LoadAgain(m)
  PROVE  IInv'
<1> DEFINE p == last[m]
           buffers == IF p.begin THEN Allocated(4) ELSE new
<1>1. /\ handleLoad(m, p, buffers) /\ Fault
      /\ Disturbed(IF p.end THEN Managers ELSE Managers \ {m}) /\ UNCHANGED <<sent, commands>>
      /\ p \in Packets
  BY DEF LoadAgain, IInv, TypeInv
<1>2. buffers = new \/ buffers = Allocated(4)
  OBVIOUS
<1> HIDE DEF p, buffers
<1>3. \A n \in Managers : calm'[n] => calm[n] /\ n = m /\ ~p.end
  BY <1>1 DEF Disturbed
<1>4. TypeInv'
  <2>1. calm' \in [Managers -> BOOLEAN] /\ sent' \in [Managers -> SUBSET Lists]
    BY <1>1 DEF IInv, TypeInv, Disturbed
  <2>2. commands' \in 0 .. MaxCommands /\ faults' \in 0 .. MaxFaults
    BY <1>1 DEF IInv, TypeInv, Fault
  <2> QED
    BY <1>1, <1>2, <2>1, <2>2, handleLoadIs DEF TypeInv, BufferSet
<1>5. CalmInv'
  <2> SUFFICES ASSUME NEW n \in Managers, calm'[n], Loading(n)'
               PROVE  AllThere(new') /\ \A t \in Tables, j \in sent'[n] : new'[t][j] = n
    BY DEF CalmInv, AllThere
  <2>1. n = m /\ calm[m] /\ ~p.end /\ sent'[m] = sent[m] /\ sent[m] \subseteq Lists
    BY <1>1, <1>3 DEF IInv, TypeInv
  <2>2. Loading(m)
    <3>1. last[m] # NoPacket
      BY DEF LoadAgain
    <3> QED
      BY <2>1, <3>1 DEF Loading, p
  <2>3. AllThere(new) /\ \A t \in Tables, j \in sent[m] : new[t][j] = m
    BY <2>1, <2>2 DEF IInv, CalmInv
  <2>4. buffers = new
    <3>1. 4 \in 0 .. 4
      OBVIOUS
    <3> QED
      BY <1>2, <2>3, <3>1, AllocatedIs
  <2>5. AllThere(new') /\ \A t \in Tables, j \in Lists :
          new'[t][j] = IF j = p.list THEN m ELSE new[t][j]
    BY <1>1, <2>1, <2>3, <2>4, handleLoadIs
  <2> QED
    BY <2>1, <2>3, <2>5
<1> QED
  BY <1>1, <1>2, <1>4, <1>5, handleLoadIs DEF IInv

(* Not all buffers can be allocated.                                       *)
LEMMA LoadNoMemoryIInv ==
  ASSUME IInv, ~wild, NEW m \in Managers, LoadNoMemory(m)
  PROVE  IInv'
<1>1. /\ Command /\ Fault /\ Disturbed(Managers)
      /\ UNCHANGED <<mem, dirty, file, wild, last, sent>>
  BY DEF LoadNoMemory
<1>2. PICK k \in 0 .. 3 : ~AllThere(Allocated(k)) /\ new' = Allocated(k)
  BY DEF LoadNoMemory
<1>3. BufferSet(new') /\ \A t \in Tables : new'[t] \in {NoBuffer, Untold}
  <2>1. k \in 0 .. 4
    OBVIOUS
  <2> QED
    BY <1>2, <2>1, AllocatedIs
<1>4. \A n \in Managers : ~calm'[n]
  BY <1>1 DEF Disturbed
<1>5. TypeInv'
  <2>1. calm' \in [Managers -> BOOLEAN]
    BY <1>1 DEF Disturbed
  <2>2. commands' \in 0 .. MaxCommands /\ faults' \in 0 .. MaxFaults
    BY <1>1 DEF IInv, TypeInv, Fault, Command
  <2> QED
    BY <1>1, <1>3, <2>1, <2>2 DEF IInv, TypeInv, BufferSet
<1>6. BuffersAlike'
  BY <1>3 DEF BuffersAlike, BufferSet
<1>7. CalmInv'
  BY <1>4 DEF CalmInv
<1> QED
  BY <1>1, <1>5, <1>6, <1>7 DEF IInv, ReleaseUnwritten, Kept, OnDisk, Unmixed

(* The reject or the allow table is loaded.                                *)
LEMMA LoadTableIInv ==
  ASSUME IInv, ~wild, NEW m \in Managers, NEW f \in Names \ {"access"}, LoadTable(m, f)
  PROVE  IInv'
<1>1. /\ Command /\ mem' = [mem EXCEPT ![f] = <<m>>] /\ dirty' = [dirty EXCEPT ![f] = TRUE]
      /\ UNCHANGED <<new, file, wild, last, sent, calm, faults>>
  BY DEF LoadTable
<1>2. <<m>> \in Seq(Contents) /\ Len(<<m>>) = 1 /\ <<m>>[1] = m /\ m # From0 /\ Size(f) = 1
  BY DEF Contents, Size
<1>3. /\ mem' \in [Names -> Seq(Contents)] /\ mem'[f] = <<m>>
      /\ dirty' \in [Names -> BOOLEAN] /\ dirty'[f]
      /\ \A g \in Names \ {f} : mem'[g] = mem[g] /\ dirty'[g] = dirty[g]
  BY <1>1, <1>2 DEF IInv, TypeInv
<1>4. TypeInv'
  <2>1. ASSUME NEW g \in Names PROVE Len(mem'[g]) = Size(g)
    <3>1. CASE g = f
      BY <1>2, <1>3, <3>1
    <3>2. CASE g # f
      BY <1>3, <3>2 DEF IInv, TypeInv
    <3> QED
      BY <3>1, <3>2
  <2>2. commands' \in 0 .. MaxCommands
    BY <1>1 DEF IInv, TypeInv, Command
  <2> QED
    BY <1>1, <1>3, <2>1, <2>2 DEF IInv, TypeInv
<1>5. ReleaseUnwritten'
  <2> SUFFICES ASSUME NEW g \in Names
               PROVE  /\ \A c \in 1 .. Len(file[g]) : file[g][c] # From0
                      /\ dirty'[g] => \A c \in 1 .. Len(mem'[g]) : mem'[g][c] # From0
    BY <1>1 DEF ReleaseUnwritten
  <2>1. CASE g = f
    BY <1>2, <1>3, <2>1 DEF IInv, ReleaseUnwritten
  <2>2. CASE g # f
    <3>1. mem'[g] = mem[g] /\ dirty'[g] = dirty[g]
      BY <1>3, <2>2
    <3> QED
      BY <3>1 DEF IInv, ReleaseUnwritten
  <2> QED
    BY <2>1, <2>2
<1>6. Kept'
  BY <1>1, <1>3 DEF IInv, Kept, OnDisk
<1>7. Unmixed'
  BY <1>3, NamesAre DEF IInv, Unmixed
<1>8. BuffersAlike' /\ CalmInv'
  BY <1>1 DEF IInv, BuffersAlike, CalmInv, Loading
<1> QED
  BY <1>4, <1>5, <1>6, <1>7, <1>8 DEF IInv

(* The files when some were written: of each that changed, what is in      *)
(* memory is not of a release.                                             *)
LEMMA WrittenIs ==
  ASSUME IInv, NEW f \in Names, dirty[f], NEW k \in Cuts(f)
  PROVE  LET w == WrittenUpTo(f, k)
         IN  /\ w \in [Names -> Seq(Contents)]
             /\ \A g \in Names : Len(w[g]) <= Size(g) /\ \A c \in 1 .. Len(w[g]) : w[g][c] # From0
             /\ f \notin Earlier(f)
             /\ \A g \in Earlier(f) : w[g] = mem[g] /\ dirty[g]
             /\ \A g \in Names : g # f /\ g \notin Earlier(f) => w[g] = file[g]
<1> DEFINE w == WrittenUpTo(f, k)
           cut == SubSeq(mem[f], 1, k) \o SubSeq(file[f], k + 1, Len(file[f]))
<1>1. w = [g \in Names |-> IF g \in Earlier(f) THEN mem[g] ELSE IF g = f THEN cut ELSE file[g]]
  BY DEF WrittenUpTo
<1>2. /\ \A g \in Names : /\ mem[g] \in Seq(Contents) /\ file[g] \in Seq(Contents)
                          /\ Len(mem[g]) = Size(g) /\ Len(file[g]) <= Size(g)
                          /\ \A c \in 1 .. Len(file[g]) : file[g][c] # From0
                          /\ dirty[g] => \A c \in 1 .. Len(mem[g]) : mem[g][c] # From0
      /\ k \in 0 .. Len(mem[f])
  BY DEF IInv, TypeInv, ReleaseUnwritten, Cuts
<1>3. /\ cut \in Seq(Contents) /\ Len(cut) <= Len(mem[f])
      /\ \A c \in 1 .. Len(cut) : \/ c \in 1 .. Len(mem[f]) /\ cut[c] = mem[f][c]
                                  \/ c \in 1 .. Len(file[f]) /\ cut[c] = file[f][c]
  <2>1. /\ mem[f] \in Seq(Contents) /\ file[f] \in Seq(Contents)
        /\ k \in 0 .. Len(mem[f]) /\ Len(file[f]) <= Len(mem[f])
    BY <1>2
  <2> QED
    BY <2>1, CutIs, Zenon
<1> HIDE DEF w, cut
<1>4. /\ f \notin Earlier(f)
      /\ \A g \in Earlier(f) : g \in Names /\ dirty[g]
  BY NamesAre DEF Earlier
<1>5. ASSUME NEW g \in Names
      PROVE  /\ w[g] \in Seq(Contents) /\ Len(w[g]) <= Size(g)
             /\ \A c \in 1 .. Len(w[g]) : w[g][c] # From0
  <2>1. CASE g \in Earlier(f)
    <3>1. w[g] = mem[g] /\ dirty[g]
      BY <1>1, <1>4, <2>1
    <3> QED
      BY <1>2, <3>1, Sizes
  <2>2. CASE g = f
    <3>1. w[g] = cut
      BY <1>1, <1>4, <2>2
    <3> QED
      BY <1>2, <1>3, <2>2, <3>1
  <2>3. CASE g # f /\ g \notin Earlier(f)
    <3>1. w[g] = file[g]
      BY <1>1, <2>3
    <3> QED
      BY <1>2, <3>1
  <2> QED
    BY <2>1, <2>2, <2>3
<1>6. w \in [Names -> Seq(Contents)]
  BY <1>1, <1>5
<1> QED
  BY <1>1, <1>4, <1>5, <1>6 DEF w

(* All that is dirty is written.                                           *)
LEMMA handleWriteIInv ==
  ASSUME IInv, ~wild, handleWrite
  PROVE  IInv'
<1>1. /\ Command /\ NoFault
      /\ file' = [f \in Names |-> IF dirty[f] THEN mem[f] ELSE file[f]]
      /\ dirty' = [f \in Names |-> FALSE]
      /\ UNCHANGED <<mem, new, wild, last, sent, calm>>
  BY DEF handleWrite
<1>2. TypeInv'
  <2>1. /\ file' \in [Names -> Seq(Contents)]
        /\ \A f \in Names : Len(file'[f]) <= Size(f)
    BY <1>1, Sizes DEF IInv, TypeInv
  <2>2. commands' \in 0 .. MaxCommands /\ faults' \in 0 .. MaxFaults
    BY <1>1 DEF IInv, TypeInv, Command, NoFault
  <2> QED
    BY <1>1, <2>1, <2>2 DEF IInv, TypeInv
<1>3. ReleaseUnwritten'
  BY <1>1 DEF IInv, ReleaseUnwritten
<1>4. Kept'
  <2> SUFFICES ASSUME NEW f \in Names, NEW c \in 1 .. Size(f)
               PROVE  (IF c <= Len(file'[f]) THEN file'[f][c] ELSE Defaults(f)[c])
                        = IF mem[f][c] = From0 THEN Default ELSE mem[f][c]
    BY <1>1 DEF Kept, OnDisk
  <2>1. CASE dirty[f]
    <3>1. file'[f] = mem[f] /\ Len(mem[f]) = Size(f)
      BY <1>1, <2>1 DEF IInv, TypeInv
    <3>2. c \in 1 .. Len(mem[f]) /\ c <= Len(mem[f])
      BY <3>1, Sizes
    <3> QED
      BY <2>1, <3>1, <3>2 DEF IInv, ReleaseUnwritten
  <2>2. CASE ~dirty[f]
    <3>1. file'[f] = file[f]
      BY <1>1, <2>2
    <3> QED
      BY <2>2, <3>1 DEF IInv, Kept, OnDisk
  <2> QED
    BY <2>1, <2>2
<1>5. Unmixed'
  BY <1>1, NamesAre DEF Unmixed
<1>6. BuffersAlike' /\ CalmInv'
  BY <1>1 DEF IInv, BuffersAlike, CalmInv, Loading
<1> QED
  BY <1>2, <1>3, <1>4, <1>5, <1>6 DEF IInv

(* The write of a file fails: it stays dirty, however much of it was       *)
(* written.                                                                *)
LEMMA WriteFailsIInv ==
  ASSUME IInv, ~wild, NEW f \in Names, NEW k \in Cuts(f), WriteFails(f, k)
  PROVE  IInv'
<1> DEFINE w == WrittenUpTo(f, k)
<1>1. /\ Command /\ Fault /\ dirty[f] /\ file' = w
      /\ dirty' = [g \in Names |-> dirty[g] /\ g \notin Earlier(f)]
      /\ UNCHANGED <<mem, new, wild, last, sent, calm>>
  BY DEF WriteFails
<1>2. /\ w \in [Names -> Seq(Contents)]
      /\ \A g \in Names : Len(w[g]) <= Size(g) /\ \A c \in 1 .. Len(w[g]) : w[g][c] # From0
      /\ f \notin Earlier(f)
      /\ \A g \in Earlier(f) : w[g] = mem[g] /\ dirty[g]
      /\ \A g \in Names : g # f /\ g \notin Earlier(f) => w[g] = file[g]
  BY <1>1, WrittenIs
<1> HIDE DEF w
<1>3. TypeInv'
  <2>1. dirty' \in [Names -> BOOLEAN]
    BY <1>1
  <2>2. commands' \in 0 .. MaxCommands /\ faults' \in 0 .. MaxFaults
    BY <1>1 DEF IInv, TypeInv, Command, Fault
  <2> QED
    BY <1>1, <1>2, <2>1, <2>2 DEF IInv, TypeInv
<1>4. ReleaseUnwritten'
  BY <1>1, <1>2 DEF IInv, ReleaseUnwritten
<1>5. Kept'
  <2> SUFFICES ASSUME NEW g \in Names, ~dirty'[g], NEW c \in 1 .. Size(g)
               PROVE  (IF c <= Len(w[g]) THEN w[g][c] ELSE Defaults(g)[c])
                        = IF mem[g][c] = From0 THEN Default ELSE mem[g][c]
    BY <1>1 DEF Kept, OnDisk
  <2>1. CASE g \in Earlier(f)
    <3>1. w[g] = mem[g] /\ Len(mem[g]) = Size(g) /\ dirty[g]
      BY <1>2, <2>1 DEF IInv, TypeInv
    <3>2. c \in 1 .. Len(mem[g]) /\ c <= Len(mem[g])
      BY <3>1, Sizes
    <3> QED
      BY <3>1, <3>2 DEF IInv, ReleaseUnwritten
  <2>2. CASE g \notin Earlier(f)
    <3>1. ~dirty[g]
      BY <1>1, <2>2
    <3>2. w[g] = file[g]
      BY <1>1, <1>2, <2>2, <3>1
    <3> QED
      BY <3>1, <3>2 DEF IInv, Kept, OnDisk
  <2> QED
    BY <2>1, <2>2
<1>6. Unmixed'
  BY <1>1, NamesAre DEF IInv, Unmixed
<1>7. BuffersAlike' /\ CalmInv'
  BY <1>1 DEF IInv, BuffersAlike, CalmInv, Loading
<1> QED
  BY <1>3, <1>4, <1>5, <1>6, <1>7 DEF IInv

(* The tables of a file are released.                                      *)
LEMMA handleReleaseIInv ==
  ASSUME IInv, ~wild, NEW f \in Names, handleRelease(f)
  PROVE  IInv'
<1>1. /\ Command /\ NoFault
      /\ mem' = [mem EXCEPT ![f] = Released(f)]
      /\ file' = [file EXCEPT ![f] = <<>>]
      /\ dirty' = [dirty EXCEPT ![f] = FALSE]
      /\ UNCHANGED <<new, wild, last, sent, calm>>
  BY DEF handleRelease
<1>2. <<>> \in Seq(Contents) /\ Len(<<>>) = 0 /\ Size(f) \in Nat
  BY Sizes, EmptySeq
<1>3. /\ mem' \in [Names -> Seq(Contents)] /\ mem'[f] = Released(f)
      /\ file' \in [Names -> Seq(Contents)] /\ file'[f] = <<>>
      /\ dirty' \in [Names -> BOOLEAN] /\ dirty'[f] = FALSE
      /\ \A g \in Names \ {f} : mem'[g] = mem[g] /\ dirty'[g] = dirty[g] /\ file'[g] = file[g]
  BY <1>1, <1>2, ReleasedIs DEF IInv, TypeInv
<1>4. TypeInv'
  <2>1. ASSUME NEW g \in Names PROVE Len(mem'[g]) = Size(g) /\ Len(file'[g]) <= Size(g)
    <3>1. CASE g = f
      BY <1>2, <1>3, <3>1, ReleasedIs
    <3>2. CASE g # f
      BY <1>3, <3>2 DEF IInv, TypeInv
    <3> QED
      BY <3>1, <3>2
  <2>2. commands' \in 0 .. MaxCommands /\ faults' \in 0 .. MaxFaults
    BY <1>1 DEF IInv, TypeInv, Command, NoFault
  <2> QED
    BY <1>1, <1>3, <2>1, <2>2 DEF IInv, TypeInv
<1>5. ReleaseUnwritten'
  <2> SUFFICES ASSUME NEW g \in Names
               PROVE  /\ \A c \in 1 .. Len(file'[g]) : file'[g][c] # From0
                      /\ dirty'[g] => \A c \in 1 .. Len(mem'[g]) : mem'[g][c] # From0
    BY DEF ReleaseUnwritten
  <2>1. CASE g = f
    BY <1>2, <1>3, <2>1
  <2>2. CASE g # f
    <3>1. mem'[g] = mem[g] /\ dirty'[g] = dirty[g] /\ file'[g] = file[g]
      BY <1>3, <2>2
    <3> QED
      BY <3>1 DEF IInv, ReleaseUnwritten
  <2> QED
    BY <2>1, <2>2
<1>6. Kept'
  <2> SUFFICES ASSUME NEW g \in Names, ~dirty'[g], NEW c \in 1 .. Size(g)
               PROVE  (IF c <= Len(file'[g]) THEN file'[g][c] ELSE Defaults(g)[c])
                        = IF mem'[g][c] = From0 THEN Default ELSE mem'[g][c]
    BY DEF Kept, OnDisk
  <2>1. CASE g = f
    <3>1. ~(c <= Len(file'[f]))
      BY <1>2, <1>3, <2>1
    <3> QED
      BY <1>3, <2>1, <3>1, ReleasedIs
  <2>2. CASE g # f
    <3>1. mem'[g] = mem[g] /\ dirty'[g] = dirty[g] /\ file'[g] = file[g]
      BY <1>3, <2>2
    <3> QED
      BY <3>1 DEF IInv, Kept, OnDisk
  <2> QED
    BY <2>1, <2>2
<1>7. Unmixed'
  <2>1. CASE f = "access"
    BY <1>3, <2>1 DEF Unmixed
  <2>2. CASE f # "access"
    BY <1>3, <2>2, NamesAre DEF IInv, Unmixed
  <2> QED
    BY <2>1, <2>2
<1>8. BuffersAlike' /\ CalmInv'
  BY <1>1 DEF IInv, BuffersAlike, CalmInv, Loading
<1> QED
  BY <1>4, <1>5, <1>6, <1>7, <1>8 DEF IInv

(* The machine stops and starts again.                                     *)
LEMMA PowerFailIInv ==
  ASSUME IInv, ~wild, PowerFail
  PROVE  IInv'
<1>1. /\ Fault /\ Disturbed(Managers)
      /\ mem' = [f \in Names |-> Loaded(f, file'[f])]
      /\ dirty' = [f \in Names |-> FALSE]
      /\ new' = [t \in Tables |-> NoBuffer]
      /\ UNCHANGED <<wild, last, sent, commands>>
  BY DEF PowerFail
<1>2. /\ file' \in [Names -> Seq(Contents)]
      /\ \A g \in Names : Len(file'[g]) <= Size(g) /\ \A c \in 1 .. Len(file'[g]) : file'[g][c] # From0
  <2>1. CASE UNCHANGED file
    BY <2>1 DEF IInv, TypeInv, ReleaseUnwritten
  <2>2. CASE \E f \in Names : dirty[f] /\ \E k \in Cuts(f) : file' = WrittenUpTo(f, k)
    <3>1. PICK f \in Names : dirty[f] /\ \E k \in Cuts(f) : file' = WrittenUpTo(f, k)
      BY <2>2
    <3>2. PICK k \in Cuts(f) : file' = WrittenUpTo(f, k)
      BY <3>1
    <3> QED
      BY <3>1, <3>2, WrittenIs
  <2> QED
    BY <2>1, <2>2 DEF PowerFail
<1>3. ASSUME NEW f \in Names
      PROVE  /\ mem'[f] \in Seq(Contents) /\ Len(mem'[f]) = Size(f)
             /\ \A c \in 1 .. Size(f) : /\ mem'[f][c] = IF c <= Len(file'[f]) THEN file'[f][c]
                                                        ELSE Defaults(f)[c]
                                        /\ mem'[f][c] # From0
  <2>1. file'[f] \in Seq(Contents) /\ Len(file'[f]) <= Size(f) /\ mem'[f] = Loaded(f, file'[f])
    BY <1>1, <1>2
  <2>2. /\ mem'[f] \in Seq(Contents) /\ Len(mem'[f]) = Size(f)
        /\ \A c \in 1 .. Size(f) :
             mem'[f][c] = IF c <= Len(file'[f]) THEN file'[f][c] ELSE Defaults(f)[c]
    BY <2>1, LoadedIs
  <2>3. ASSUME NEW c \in 1 .. Size(f) PROVE mem'[f][c] # From0
    <3>1. CASE c <= Len(file'[f])
      <4>1. c \in 1 .. Len(file'[f])
        BY <2>1, <3>1, LenProperties, Sizes
      <4> QED
        BY <1>2, <2>2, <3>1, <4>1
    <3>2. CASE ~(c <= Len(file'[f]))
      BY <2>2, <3>2, DefaultsAre
    <3> QED
      BY <3>1, <3>2
  <2> QED
    BY <2>2, <2>3
<1>4. TypeInv'
  <2>1. mem' \in [Names -> Seq(Contents)]
    BY <1>1, <1>3
  <2>2. /\ new' \in [Tables -> Buffers \cup {NoBuffer}]
        /\ \A t \in Tables : t > 1 /\ new'[t] # NoBuffer => new'[t - 1] # NoBuffer
    BY <1>1
  <2>3. calm' \in [Managers -> BOOLEAN] /\ faults' \in 0 .. MaxFaults /\ dirty' \in [Names -> BOOLEAN]
    BY <1>1 DEF IInv, TypeInv, Fault, Disturbed
  <2> QED
    BY <1>1, <1>2, <1>3, <2>1, <2>2, <2>3 DEF IInv, TypeInv
<1>5. BuffersAlike'
  BY <1>1 DEF BuffersAlike
<1>6. ReleaseUnwritten'
  BY <1>1, <1>2 DEF ReleaseUnwritten
<1>7. CalmInv'
  BY <1>1 DEF CalmInv, Disturbed
<1>8. Kept'
  BY <1>3 DEF Kept, OnDisk
<1>9. Unmixed'
  BY <1>1, NamesAre DEF Unmixed
<1> QED
  BY <1>4, <1>5, <1>6, <1>7, <1>8, <1>9 DEF IInv

(* The start: nothing is on disk, and nothing dirty.                       *)
LEMMA InitIInv == Init => IInv
<1> SUFFICES ASSUME Init PROVE IInv
  OBVIOUS
<1>1. /\ mem = [f \in Names |-> Defaults(f)]
      /\ new = [t \in Tables |-> NoBuffer]
      /\ dirty = [f \in Names |-> FALSE]
      /\ file = [f \in Names |-> <<>>]
      /\ wild = FALSE
      /\ last = [m \in Managers |-> NoPacket]
      /\ sent = [m \in Managers |-> {}] /\ calm = [m \in Managers |-> FALSE]
      /\ commands = MaxCommands /\ faults = MaxFaults
  BY DEF Init
<1>2. \A f \in Names : /\ file[f] \in Seq(Contents) /\ Len(file[f]) = 0 /\ Size(f) \in Nat
                       /\ mem[f] \in Seq(Contents) /\ Len(mem[f]) = Size(f)
                       /\ mem[f] = Defaults(f)
  BY <1>1, Sizes, DefaultsAre, EmptySeq
<1>3. TypeInv
  <2>1. mem \in [Names -> Seq(Contents)] /\ file \in [Names -> Seq(Contents)]
    BY <1>1, <1>2
  <2>2. /\ new \in [Tables -> Buffers \cup {NoBuffer}]
        /\ \A t \in Tables : t > 1 /\ new[t] # NoBuffer => new[t - 1] # NoBuffer
    BY <1>1
  <2>3. /\ dirty \in [Names -> BOOLEAN] /\ wild \in BOOLEAN /\ calm \in [Managers -> BOOLEAN]
        /\ last \in [Managers -> Packets \cup {NoPacket}]
    BY <1>1
  <2>5. sent \in [Managers -> SUBSET Lists]
    BY <1>1
  <2>6. commands \in 0 .. MaxCommands /\ faults \in 0 .. MaxFaults
    BY <1>1
  <2>4. \A f \in Names : Len(mem[f]) = Size(f) /\ Len(file[f]) <= Size(f)
    BY <1>2
  <2> QED
    BY <2>1, <2>2, <2>3, <2>4, <2>5, <2>6 DEF TypeInv
<1>4. BuffersAlike /\ CalmInv
  BY <1>1 DEF BuffersAlike, CalmInv
<1>5. ReleaseUnwritten /\ Unmixed
  BY <1>1, <1>2, NamesAre DEF ReleaseUnwritten, Unmixed
<1>6. Kept
  <2> SUFFICES ASSUME NEW f \in Names, NEW c \in 1 .. Size(f)
               PROVE  OnDisk(f, c) = IF mem[f][c] = From0 THEN Default ELSE mem[f][c]
    BY DEF Kept
  <2>1. OnDisk(f, c) = Defaults(f)[c]
    BY <1>2 DEF OnDisk
  <2> QED
    BY <1>2, <2>1, DefaultsAre
<1> QED
  BY <1>3, <1>4, <1>5, <1>6 DEF IInv

(* Every step keeps the inductive invariant.                               *)
LEMMA NextIInv == IInv /\ [Next]_vars => IInv'
<1> SUFFICES ASSUME IInv, [Next]_vars PROVE IInv'
  OBVIOUS
<1>1. CASE Next
  <2>1. ~wild
    BY <1>1 DEF Next
  <2>2. ASSUME NEW m \in Managers, NEW f \in Names \ {"access"}, LoadTable(m, f) PROVE IInv'
    BY <2>1, <2>2, LoadTableIInv
  <2>3. ASSUME NEW m \in Managers, NEW i \in Lists, NEW end \in BOOLEAN,
               LoadBegin(m, i, end) \/ LoadNext(m, i, end)
        PROVE  IInv'
    BY <2>1, <2>3, LoadBeginIInv, LoadNextIInv
  <2>4. ASSUME NEW m \in Managers, LoadNoMemory(m) \/ LoadAgain(m) PROVE IInv'
    BY <2>1, <2>4, LoadNoMemoryIInv, LoadAgainIInv
  <2>5. CASE handleWrite
    BY <2>1, <2>5, handleWriteIInv
  <2>6. ASSUME NEW f \in Names, handleRelease(f) PROVE IInv'
    BY <2>1, <2>6, handleReleaseIInv
  <2>7. ASSUME NEW f \in Names, NEW k \in Cuts(f), WriteFails(f, k) PROVE IInv'
    BY <2>1, <2>7, WriteFailsIInv
  <2>8. CASE PowerFail
    BY <2>1, <2>8, PowerFailIInv
  <2> QED
    BY <1>1, <2>2, <2>3, <2>4, <2>5, <2>6, <2>7, <2>8 DEF Next
<1>2. CASE UNCHANGED vars
  <2>1. UNCHANGED <<mem, new, dirty, file, wild, last, sent, calm, commands, faults>>
    BY <1>2 DEF vars
  <2>2. TypeInv'
    BY <2>1 DEF IInv, TypeInv
  <2>3. BuffersAlike' /\ CalmInv'
    BY <2>1 DEF IInv, BuffersAlike, CalmInv, Loading
  <2>4. ReleaseUnwritten' /\ Kept' /\ Unmixed'
    BY <2>1 DEF IInv, ReleaseUnwritten, Kept, OnDisk, Unmixed
  <2> QED
    BY <2>2, <2>3, <2>4 DEF IInv
<1> QED
  BY <1>1, <1>2

-----------------------------------------------------------------------------
(* The theorems.                                                           *)

(* The inductive invariant holds whatever managers and disk do.            *)
THEOREM IInvAlways == Spec => []IInv
BY InitIInv, NextIInv, PTL DEF Spec

(* Type correctness: the buffers are allocated in the order of the tables  *)
(* and freed together, and no file is longer than its table.               *)
THEOREM AccessTypeCorrect == Spec => []TypeOK
<1>1. IInv => TypeOK
  <2> SUFFICES ASSUME IInv PROVE TypeOK
    OBVIOUS
  <2>1. ASSUME NEW f \in Names
        PROVE  /\ mem[f] \in [DOMAIN Defaults(f) -> Managers \cup {Empty, Default, From0, Stale}]
               /\ Len(file[f]) <= Len(mem[f])
               /\ Range(file[f]) \subseteq Managers \cup {Empty, Default, From0, Stale}
    <3>1. /\ mem[f] \in Seq(Contents) /\ file[f] \in Seq(Contents)
          /\ Len(mem[f]) = Size(f) /\ Len(file[f]) <= Size(f)
      BY DEF IInv, TypeInv
    <3>2. mem[f] \in [DOMAIN Defaults(f) -> Contents]
      <4>1. mem[f] \in [1 .. Size(f) -> Contents]
        BY <3>1, LenProperties
      <4>2. DOMAIN Defaults(f) = 1 .. Size(f)
        BY DefaultsAre, LenProperties
      <4> QED
        BY <4>1, <4>2
    <3>3. Range(file[f]) \subseteq Contents
      BY <3>1, LenProperties DEF Range
    <3> QED
      BY <3>1, <3>2, <3>3 DEF Contents
  <2>2. DOMAIN file = Names
    BY DEF IInv, TypeInv
  <2> QED
    BY <2>1, <2>2 DEF IInv, TypeInv, TypeOK
<1> QED
  BY <1>1, IInvAlways, PTL

(* What is not marked as dirty is the same after a restart, whichever      *)
(* writes failed or were cut off before.                                   *)
THEOREM RestartAlwaysKeeps == Spec => []RestartKeeps
<1>1. IInv => RestartKeeps
  <2> SUFFICES ASSUME IInv, NEW f \in Names, ~dirty[f]
               PROVE  Loaded(f, file[f]) =
                        [c \in DOMAIN mem[f] |-> IF mem[f][c] = From0 THEN Default ELSE mem[f][c]]
    BY DEF RestartKeeps
  <2>1. /\ mem[f] \in Seq(Contents) /\ file[f] \in Seq(Contents)
        /\ Len(mem[f]) = Size(f) /\ Len(file[f]) <= Size(f)
    BY DEF IInv, TypeInv
  <2>2. DOMAIN mem[f] = 1 .. Size(f)
    BY <2>1, LenProperties
  <2>3. /\ Loaded(f, file[f]) \in [1 .. Size(f) -> Contents]
        /\ \A c \in 1 .. Size(f) : Loaded(f, file[f])[c] = OnDisk(f, c)
    <3>1. /\ Loaded(f, file[f]) \in Seq(Contents) /\ Len(Loaded(f, file[f])) = Size(f)
          /\ \A c \in 1 .. Size(f) : Loaded(f, file[f])[c] = OnDisk(f, c)
      BY <2>1, LoadedIs DEF OnDisk
    <3> QED
      BY <3>1, LenProperties
  <2>4. \A c \in 1 .. Size(f) :
          Loaded(f, file[f])[c] = IF mem[f][c] = From0 THEN Default ELSE mem[f][c]
    BY <2>3 DEF IInv, Kept
  <2> QED
    BY <2>2, <2>3, <2>4
<1> QED
  BY <1>1, IInvAlways, PTL

(* The four tables of a list that was not read from a file come from one   *)
(* load, although the buffers are anybody's.                               *)
THEOREM MixedAlwaysFromFile == Spec => []MixedFromFile
<1>1. IInv => MixedFromFile
  <2>1. 1 \in Tables
    BY DEF Tables
  <2> QED
    BY <2>1 DEF IInv, Unmixed, MixedFromFile, Origin
<1> QED
  BY <1>1, IInvAlways, PTL

(* A load whose packets came in turn never touches handle 0, and at END    *)
(* each list it sent is in use in all four tables.                         *)
THEOREM UndisturbedAlwaysLoads == Spec => UndisturbedLoads
<1>1. IInv /\ [Next]_vars =>
        [\A m \in Managers : last'[m] # last[m] /\ calm'[m] =>
           /\ ~wild'
           /\ last'[m].end => \A i \in sent'[m], t \in Tables : mem'["access"][Cell(t, i)] = m]_vars
  <2> SUFFICES ASSUME IInv, Next, NEW m \in Managers, last'[m] # last[m], calm'[m]
               PROVE  /\ ~wild'
                      /\ last'[m].end =>
                           \A i \in sent'[m], t \in Tables : mem'["access"][Cell(t, i)] = m
    OBVIOUS
  <2>1. ~wild
    BY DEF Next
  <2>2. PICK n \in Managers, i \in Lists, end \in BOOLEAN :
          LoadBegin(n, i, end) \/ LoadNext(n, i, end)
    <3>1. \A n \in Managers : ~LoadAgain(n)
      BY DEF LoadAgain, handleLoad, IInv, TypeInv
    <3> QED
      BY <3>1 DEF Next, LoadTable, LoadNoMemory, handleWrite, handleRelease, WriteFails, PowerFail
  <2>3. CASE LoadBegin(n, i, end)
    <3> DEFINE p == Packet(i, TRUE, end)
    <3>1. p \in Packets /\ p.list = i /\ p.end = end
      BY DEF Packet, Packets
    <3>2. handleLoad(n, p, Allocated(4)) /\ calm' = [l \in Managers |-> l = n]
          /\ sent' = [sent EXCEPT ![n] = {i}]
      BY <2>3 DEF LoadBegin
    <3> HIDE DEF p
    <3>3. n = m /\ sent'[m] = {i}
      BY <3>2 DEF IInv, TypeInv
    <3>4. AllThere(Allocated(4))
      <4>1. 4 \in 0 .. 4
        OBVIOUS
      <4> QED
        BY <2>1, <4>1, AllocatedIs
    <3>5. /\ ~wild' /\ last'[m] = p
          /\ p.end => \A t \in Tables, j \in Lists :
               mem'["access"][Cell(t, j)] = IF j = p.list THEN m ELSE Allocated(4)[t][j]
      BY <2>1, <3>1, <3>2, <3>3, <3>4, handleLoadIs
    <3> QED
      BY <3>1, <3>3, <3>5
  <2>4. CASE LoadNext(n, i, end)
    <3> DEFINE p == Packet(i, FALSE, end)
    <3>1. p \in Packets /\ p.list = i /\ p.end = end
      BY DEF Packet, Packets
    <3>2. /\ handleLoad(n, p, new) /\ Disturbed(Managers \ {n}) /\ Loading(n)
          /\ sent' = [sent EXCEPT ![n] = @ \cup {i}]
      BY <2>4 DEF LoadNext
    <3> HIDE DEF p
    <3>3. n = m /\ calm[m] /\ sent'[m] = sent[m] \cup {i} /\ sent[m] \subseteq Lists
      BY <3>2 DEF IInv, TypeInv, Disturbed
    <3>4. AllThere(new) /\ \A t \in Tables, j \in sent[m] : new[t][j] = m
      BY <3>2, <3>3 DEF IInv, CalmInv
    <3>5. /\ ~wild' /\ last'[m] = p
          /\ p.end => \A t \in Tables, j \in Lists :
               mem'["access"][Cell(t, j)] = IF j = p.list THEN m ELSE new[t][j]
      BY <2>1, <3>1, <3>2, <3>3, <3>4, handleLoadIs
    <3> QED
      BY <3>1, <3>3, <3>4, <3>5
  <2> QED
    BY <2>2, <2>3, <2>4
<1> QED
  BY <1>1, IInvAlways, PTL DEF Spec, UndisturbedLoads

=============================================================================
