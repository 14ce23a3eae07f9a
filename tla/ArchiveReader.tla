---------------------------- MODULE ArchiveReader ----------------------------
(***************************************************************************)
(* The tar reader of the installer: class ArchiveReader of                 *)
(* UPlugin.AppManager.cpp, after the package has been inflated.            *)
(*                                                                         *)
(* The archive is a stream of units: a header of BLOCK units, a body, and  *)
(* padding up to a multiple of BLOCK.  A unit of a body is the number of   *)
(* its entry.  The stream may be cut anywhere, and a size that oct2dec     *)
(* reads wrongly makes the reader lose its place in it.  One step is one   *)
(* turn of ExtractPKG's loop.                                              *)
(***************************************************************************)
EXTENDS Integers, Sequences

CONSTANTS
  BLOCK,    \* 512 in the code
  COUNT,    \* digits of the size field that are read, 11 in the code
  Name,     \* the paths in the archives
  Above,    \* the directories a path is in, below the temporary directory
  Header,   \* the headers that archives are made of, and all that the
            \* reader may take other bytes for
  Archives, \* the archives that may arrive
  Absent    \* no such file

(* A size field: its digits, where a blank counts as ' ' - '0'.            *)
SizeField == [1..COUNT -> (0..7) \cup {-16}]

VARIABLES
  archive,  \* the entries of the package
  cut,      \* how many units of it arrived
  pos,      \* the position of the stream, or Eof once a read fell short
  data,     \* ExtractPKG's buffer, which all entries share
  file,     \* the files written: their units, or Absent
  dirs,     \* the directories made
  pc        \* "reading", "done" or, after an exception, "thrown"

vars == <<archive, cut, pos, data, file, dirs, pc>>

Eof == -1

-----------------------------------------------------------------------------
(* What the digits d[1], d[2], ... amount to in base b, up to each of     *)
(* them; in base 1, their sums.                                            *)
Value(b, d) ==
  LET v[n \in Nat] == IF n = 0 THEN 0 ELSE b * v[n - 1] + d[n] IN v

(* oct2dec, over the digits 1 .. COUNT of the field (the first is skipped): *)
(* the digits are or'ed together, so that one negative digit makes the     *)
(* result negative.                                                        *)
oct2dec(bytes) ==
  IF \E i \in 2..COUNT : bytes[i] < 0 THEN -1
  ELSE Value(8, [bytes EXCEPT ![1] = 0])[COUNT]

(* The size that the field stands for.                                     *)
SizeOf(e) ==
  Value(8, [i \in 1..COUNT |-> IF e.size[i] < 0 THEN 0 ELSE e.size[i]])[COUNT]

ASSUME ArchiveAssumption ==
  /\ BLOCK \in Nat \ {0, 1} /\ COUNT \in Nat \ {0, 1}
  /\ Above \in [Name -> SUBSET Name]
  /\ Header \subseteq [path : Name, kind : {"file", "dir", "other"},
                       size : SizeField]
  /\ Archives \subseteq Seq(Header)
  /\ \A a \in Archives : \A k, n \in 1..Len(a) :
       Absent # [j \in 1..SizeOf(a[k]) |-> n]

(* Mutant: a body that fills its last block is followed by another block.  *)
PaddingMutant(n) == BLOCK - (n % BLOCK)

Padding(n) == IF n % BLOCK = 0 THEN 0 ELSE BLOCK - (n % BLOCK)

(* Where the archive's entries start and end, as the tar format has it.    *)
Blocks(n) == (n + BLOCK - 1) \div BLOCK

Span(n) == BLOCK * (1 + Blocks(n))

Start(k) ==
  Value(1, [i \in 1..Len(archive) |-> Span(SizeOf(archive[i]))])[k - 1]

Length == Start(Len(archive) + 1)

(* The entry in whose body unit u of the stream lies; 0 for a unit of a    *)
(* header or of the padding.                                               *)
InBody(k, u) ==
  Start(k) + BLOCK <= u /\ u < Start(k) + BLOCK + SizeOf(archive[k])

Unit(u) ==
  IF \E k \in 1..Len(archive) : InBody(k, u)
  THEN CHOOSE k \in 1..Len(archive) : InBody(k, u)
  ELSE 0

TypeOK ==
  /\ archive \in Archives
  /\ cut \in 0..Length
  /\ pos \in 0..cut \cup {Eof}
  /\ data \in Seq(0..Len(archive))
  /\ file \in [Name -> Seq(0..Len(archive)) \cup {Absent}]
  /\ dirs \subseteq Name
  /\ pc \in {"reading", "done", "thrown"}

Init ==
  /\ archive \in Archives
  /\ cut \in 0..Length
  /\ pos = 0
  /\ data = <<>>
  /\ file = [p \in Name |-> Absent]
  /\ dirs = {}
  /\ pc = "reading"

-----------------------------------------------------------------------------
(* Mutant: the buffer only grows.                                          *)
resizeMutant(n) == [j \in 1..(IF n > Len(data) THEN n ELSE Len(data)) |->
                     IF j <= Len(data) THEN data[j] ELSE 0]

(* data.resize(n): what is there stays, what is new is zero.               *)
resize(n) == [j \in 1..n |-> IF j <= Len(data) THEN data[j] ELSE 0]

(* There is something left to read: gcount will not be 0.                  *)
More == pos # Eof /\ pos < cut

(* The entries whose headers begin where the stream stands: one, or none   *)
(* when the reader has lost its place.                                     *)
AtHeader == {k \in 1..Len(archive) : pos = Start(k)}

(* What ReadHeader may take the next units for: the entry's own header, if *)
(* all of it arrived.  What a read that fell short leaves of the array is  *)
(* uninitialised, and what is not a header is read as one: path, size and  *)
(* indicator may then be anything.                                         *)
ReadHeader ==
  IF AtHeader # {} /\ pos + BLOCK <= cut THEN {archive[k] : k \in AtHeader}
  ELSE Header

(* Mutant: the position after the body does not depend on what arrived.    *)
ReadBodyMutant(n) ==
  LET at == pos + BLOCK
  IN /\ data' = [j \in DOMAIN resize(n) |->
                   IF at + j <= cut THEN Unit(at + j - 1) ELSE resize(n)[j]]
     /\ pos' = at + n + Padding(n)

(* ReadEntry's reads of a body of n units and of its padding: the buffer,  *)
(* and where the stream is afterwards.  A short read is not noticed.       *)
ReadBody(n) ==
  LET at   == pos + BLOCK
      last == at + n + Padding(n)
  IN /\ data' = [j \in DOMAIN resize(n) |->
                   IF at + j <= cut THEN Unit(at + j - 1) ELSE resize(n)[j]]
     /\ pos' = IF last <= cut THEN last ELSE Eof

(* ExtractPKG's switch: a buffer that is not empty goes to a file whose    *)
(* directory exists; an ofstream that does not open is not noticed.  A new *)
(* directory is made with those above it, which throws when a file is in   *)
(* the way.                                                                *)
CanOpen(p) == Above[p] \subseteq dirs /\ p \notin dirs
Exists(p)  == p \in dirs \/ file[p] # Absent
InTheWay(p) == \E d \in Above[p] : file[d] # Absent

Extract(h) ==
  \/ /\ h.kind = "file" /\ Len(data') > 0 /\ CanOpen(h.path)
     /\ file' = [file EXCEPT ![h.path] = data']
     /\ UNCHANGED <<dirs, pc>>
  \/ /\ \/ h.kind = "file" /\ (Len(data') = 0 \/ ~CanOpen(h.path))
        \/ h.kind = "dir" /\ Exists(h.path)
        \/ h.kind = "other"
     /\ UNCHANGED <<file, dirs, pc>>
  \/ /\ h.kind = "dir" /\ ~Exists(h.path) /\ ~InTheWay(h.path)
     /\ dirs' = dirs \cup {h.path} \cup Above[h.path]
     /\ UNCHANGED <<file, pc>>
  \/ /\ h.kind = "dir" /\ ~Exists(h.path) /\ InTheWay(h.path)
     /\ pc' = "thrown"
     /\ UNCHANGED <<file, dirs>>

(* An entry with a body.                                                   *)
ReadEntry(h) ==
  /\ oct2dec(h.size) > 0
  /\ ReadBody(oct2dec(h.size))
  /\ Extract(h)
  /\ UNCHANGED <<archive, cut>>

(* Mutant: the header of an empty entry is read again and again.           *)
ReadEmptyEntryMutant(h) ==
  /\ oct2dec(h.size) = 0
  /\ UNCHANGED <<pos, data>>
  /\ Extract(h)
  /\ UNCHANGED <<archive, cut>>

(* An entry without one: the early return leaves the buffer as it is.      *)
ReadEmptyEntry(h) ==
  /\ oct2dec(h.size) = 0
  /\ pos' = IF pos + BLOCK <= cut THEN pos + BLOCK ELSE Eof
  /\ UNCHANGED data
  /\ Extract(h)
  /\ UNCHANGED <<archive, cut>>

(* The end: nothing to read, a size that is negative, or a first byte that *)
(* is 0, which no header has but any other unit may.                       *)
ReadEnd ==
  /\ \/ ~More
     \/ AtHeader = {}
     \/ \E h \in ReadHeader : oct2dec(h.size) < 0
  /\ pc' = "done"
  /\ UNCHANGED <<archive, cut, pos, data, file, dirs>>

Next ==
  /\ pc = "reading"
  /\ \/ More /\ \E h \in ReadHeader : ReadEntry(h) \/ ReadEmptyEntry(h)
     \/ ReadEnd

Spec == Init /\ [][Next]_vars /\ WF_vars(Next)

-----------------------------------------------------------------------------
(* No size is taken for another one: a field is read as what it stands for *)
(* or, with a blank among its digits, refused.                             *)
SizesRead ==
  \A i \in 1..Len(archive) :
    oct2dec(archive[i].size) \in {SizeOf(archive[i]), -1}

Legible(k) == \A i \in 1..k : oct2dec(archive[i].size) = SizeOf(archive[i])

(* The cut goes through a header.                                          *)
Torn ==
  SizesRead /\ \E i \in 1..Len(archive) : Start(i) < cut /\ cut < Start(i) + BLOCK

(* Entry k should be on the disk: its bytes arrived, its directories come  *)
(* before it, and nothing that arrived in part or whole has its path after *)
(* it, or takes a file for a directory.                                    *)
Delivered(k) ==
  /\ archive[k].kind = "file" /\ SizeOf(archive[k]) > 0
  /\ SizesRead /\ Legible(k)
  /\ Start(k) + BLOCK + SizeOf(archive[k]) <= cut
  /\ \A d \in Above[archive[k].path] :
       \E i \in 1..(k - 1) : archive[i].path = d /\ archive[i].kind = "dir"
  /\ \A i \in 1..Len(archive) :
       /\ archive[k].path \notin Above[archive[i].path]
       /\ archive[i].path \in Above[archive[k].path] => archive[i].kind = "dir"
       /\ i # k /\ archive[i].path = archive[k].path =>
            i < k /\ archive[i].kind = "file"

(* The file of entry k holds the entry's body and no more.                *)
Intact(k) == file[archive[k].path] = [j \in 1..SizeOf(archive[k]) |-> k]

Lost == {k \in 1..Len(archive) : Delivered(k) /\ ~Intact(k)}

(* When the reader is done, every file whose body arrived is on the disk   *)
(* with that body and no more.  Only where the cut goes through a header,  *)
(* the rest of which ReadHeader takes from an uninitialised array, one     *)
(* such file may be lost: it is written over, but never a second one.      *)
DeliveredIsIntact ==
  pc = "done" => Lost = {} \/ (Torn /\ \E k \in Lost : Lost = {k})

(* A file of an archive that arrived whole, in which no size is taken for  *)
(* another, holds exactly the body of one of its entries, unless one of    *)
(* them is empty: the shared buffer mixes no two bodies and keeps no tail. *)
FilesAreWhole ==
  cut = Length /\ SizesRead =>
    \A p \in Name : file[p] # Absent =>
      \E k \in 1..Len(archive) :
        /\ archive[k].path = p /\ archive[k].kind = "file"
        /\ SizeOf(archive[k]) = 0 \/ Intact(k)

(* The reader comes to an end, whatever the archive and the cut, and       *)
(* whatever it takes the units for that are not headers.                   *)
ReaderEnds == <>(pc # "reading")

(* A file of such an archive holds only what an entry of its path brought. *)
NoForeignBytes ==
  cut = Length /\ SizesRead =>
    \A p \in Name : file[p] # Absent =>
      \A j \in 1..Len(file[p]) : archive[file[p][j]].path = p

Reading == INSTANCE Delivery WITH
  wanted <- {k \in 1..Len(archive) : Delivered(k)},
  have   <- {k \in 1..Len(archive) : Delivered(k) /\ Intact(k)},
  torn   <- Torn,
  state  <- IF pc = "reading" /\ Torn /\ pos = Eof THEN "ending" ELSE pc

(* The reader delivers what arrived, entry by entry: what is on the disk   *)
(* stays there as it is and the end comes when all of it is there, but for *)
(* the one file that a header cut in two may cost at the very end.         *)
ImplementsDelivery == Reading!Spec
=============================================================================
