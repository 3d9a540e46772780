---------------------------- MODULE Archive_proofs ----------------------------
(***************************************************************************)
(* Proofs about Archive, for any names, contents, number of entries and    *)
(* size of a header.                                                       *)
(***************************************************************************)
EXTENDS Archive, FiniteSetTheorems, SequenceTheorems, TLAPS

(* The entries of the header are used from the first on, and counted.      *)
CountInv == Used = 1 .. header.block_count

(* The header of a new archive is written into an empty file.  A file is   *)
(* added in the next entry and behind the header; utar is behind the       *)
(* header as well, and at an entry while it writes a file.                 *)
PlaceInv == /\ pc = "create" => state = "empty"
            /\ pc \in {"name", "copy", "entry"} => /\ slot = header.block_count + 1
                                                   /\ at >= HeaderSize
                                                   /\ name \in Names
            /\ pc \in {"unpack", "extract"} => at >= HeaderSize
            /\ pc = "extract" => slot \in Entries

IInv == TypeOK /\ CountInv /\ PlaceInv

(* From p on there are the name f, a zero and n bytes of c.                *)
Holds(p, f, c, n) == /\ p >= HeaderSize
                     /\ p + Len(f) + 1 + n <= EndOfFile
                     /\ \A k \in 1 .. Len(f) : ByteAt(p + k - 1) = f[k]
                     /\ ByteAt(p + Len(f)) = 0
                     /\ \A k \in 1 .. n : ByteAt(p + Len(f) + k) = c[k]

(* The byte that ctar writes behind a content: the last one once more, or  *)
(* the zero that byte holds at first (tar.c:179-203).                      *)
Padding(c) == IF c = <<>> THEN 0 ELSE c[Len(c)]

(* From p on there are the name f, a zero, all of c and that byte.         *)
Whole(p, f, c) == /\ Holds(p, f, c, Len(c))
                  /\ p + Len(f) + Len(c) + 2 <= EndOfFile
                  /\ ByteAt(p + Len(f) + Len(c) + 1) = Padding(c)

(* Every entry is a whole file, ...                                        *)
WholeInv == state = "archive" =>
               \A i \in Used : \E f \in Names, c \in Seq(Byte) :
                   Whole(header.file_name[i], f, c) /\ header.file_size[i] = Len(c)

(* ... they follow each other, and eop is the end of the last one.         *)
OrderInv == state = "archive" =>
               /\ \A i \in Used : i > 1 => EndOf(i - 1) <= header.file_name[i]
               /\ header.eop = IF header.block_count = 0 THEN HeaderSize
                               ELSE EndOf(header.block_count)

(* What is written of the file that is added, behind every entry; no entry *)
(* has a name of its kind that could be recognised.                        *)
CopyInv ==
    /\ pc = "name" => at = EndOfFile /\ count = 0 /\ byte = 0
    /\ pc = "copy" => \/ /\ count = 0 /\ byte = 0
                         /\ EndOfFile = at + Len(name)
                         /\ \A k \in 1 .. Len(name) : ByteAt(at + k - 1) = name[k]
                      \/ /\ count \in 1 .. Len(files[name])
                         /\ byte = files[name][count]
                         /\ EndOfFile = at + Len(name) + 1 + count
                         /\ Holds(at, name, files[name], count)
    /\ pc = "entry" => /\ count = Len(files[name])
                       /\ EndOfFile = at + Len(name) + count + 2
                       /\ Whole(at, name, files[name])
    /\ pc \in {"name", "copy", "entry"} =>
          \A i \in Used : /\ EndOf(i) <= at
                          /\ name \in Intact => StringAt(header.file_name[i]) # name

DInv == WholeInv /\ OrderInv /\ CopyInv

-----------------------------------------------------------------------------
(* A header without entries is typed and counted.                          *)
LEMMA EmptyTyped ==
  /\ EmptyHeader \in [eop : Nat, block_count : 0 .. Slots,
                      file_size : [Entries -> Nat], file_name : [Entries -> Nat]]
  /\ \A i \in Entries : EmptyHeader.file_name[i] = Unused
  /\ EmptyHeader.block_count = 0
  BY ArchiveAssumption DEF EmptyHeader, Unused

(* Names and what is returned for lost ones are sequences of bytes.        *)
LEMMA NamesTyped == \A f \in Names \cup Junk : f \in Seq(Byte) /\ Len(f) \in Nat
<1>1. \A f \in Seq(Byte \ {0}) : f \in Seq(Byte) /\ Len(f) \in Nat
  OBVIOUS
<1> QED BY <1>1, ArchiveAssumption

(* The end of the archive is behind its header.                            *)
LEMMA EndTyped == ASSUME IInv PROVE EndOfFile \in Nat /\ EndOfFile >= HeaderSize
<1>1. Len(body) \in Nat
  BY DEF IInv, TypeOK
<1> QED BY <1>1, ArchiveAssumption DEF EndOfFile

(* With an entry free, the first such one is next to those that are used.  *)
LEMMA FirstFreeIsNext ==
  ASSUME IInv, Used # Entries
  PROVE  FirstFree \in Entries \ Used /\ FirstFree = header.block_count + 1
<1> DEFINE next == header.block_count + 1
<1>1. header.block_count \in 0 .. Slots
  BY DEF IInv, TypeOK
<1>2. Used = 1 .. header.block_count
  BY DEF IInv, CountInv
<1>3. next \in Entries \ Used
  BY <1>1, <1>2, ArchiveAssumption DEF Entries
<1>4. \A j \in Entries \ Used : next <= j
  BY <1>1, <1>2, ArchiveAssumption DEF Entries
<1>5. \A i \in Entries \ Used : (\A j \in Entries \ Used : i <= j) => i = next
  BY <1>1, <1>3, <1>4, ArchiveAssumption DEF Entries
<1> QED BY <1>3, <1>4, <1>5 DEF FirstFree

-----------------------------------------------------------------------------
(* The initial states satisfy the invariant.                               *)
LEMMA InitIInv == Init => IInv
<1> SUFFICES ASSUME Init PROVE IInv
  OBVIOUS
<1>1. header = EmptyHeader
  BY DEF Init
<1>2. TypeOK
  BY EmptyTyped, ArchiveAssumption DEF Init, TypeOK
<1>3. CountInv /\ PlaceInv
  BY EmptyTyped DEF Init, CountInv, PlaceInv, Used
<1> QED BY <1>2, <1>3 DEF IInv

(* The invariant holds when a command has ended.                           *)
LEMMA EndIInv ==
  ASSUME IInv, End, UNCHANGED <<files, commands>>,
         state' \in {"absent", "empty", "archive", "broken"},
         \/ UNCHANGED <<header, body>>
         \/ header' = EmptyHeader /\ body' = <<>>
  PROVE  IInv'
<1>1. TypeOK'
  <2>1. /\ header' \in [eop : Nat, block_count : 0 .. Slots,
                       file_size : [Entries -> Nat], file_name : [Entries -> Nat]]
        /\ body' \in Seq(Byte)
    <3>1. CASE UNCHANGED <<header, body>>
      BY <3>1 DEF IInv, TypeOK
    <3>2. CASE header' = EmptyHeader /\ body' = <<>>
      BY <3>2, EmptyTyped
    <3> QED BY <3>1, <3>2
  <2>2. /\ args' \in Seq(Names) /\ name' \in Names \cup Junk \cup {<<>>}
        /\ slot' \in 1 .. Slots + 1
        /\ at' \in Nat /\ count' \in Nat /\ byte' \in Byte /\ pc' = "idle"
    BY ArchiveAssumption DEF End
  <2> QED BY <2>1, <2>2 DEF IInv, TypeOK
<1>2. CountInv'
  BY EmptyTyped DEF IInv, CountInv, Used
<1>3. PlaceInv'
  BY DEF End, PlaceInv
<1> QED BY <1>1, <1>2, <1>3 DEF IInv

(* What the user does to the directory.                                    *)
LEMMA UserIInv == ASSUME IInv, User PROVE IInv'
<1> USE DEF IInv
<1>1. ASSUME NEW f \in Names, NEW c \in Contents[f], Write(f, c) PROVE IInv'
  <2>1. c \in Seq(Byte)
    BY ArchiveAssumption
  <2>2. TypeOK'
    BY <1>1, <2>1 DEF Write, Stored, TypeOK, disk, process
  <2> QED BY <1>1, <2>2 DEF Write, CountInv, PlaceInv, Used, disk, process
<1>2. ASSUME NEW f \in Names \cup Junk, Remove(f) PROVE IInv'
  <2>1. TypeOK'
    BY <1>2 DEF Remove, TypeOK, disk, process
  <2> QED BY <1>2, <2>1 DEF Remove, CountInv, PlaceInv, Used, disk, process
<1>3. CASE RemoveArchive
  <2>1. TypeOK'
    BY <1>3, EmptyTyped DEF RemoveArchive, TypeOK, process
  <2> QED BY <1>3, <2>1, EmptyTyped DEF RemoveArchive, CountInv, PlaceInv, Used, process
<1>4. ASSUME NEW list \in UNION {[1 .. n -> Names] : n \in 0 .. MaxArgs}, AppendFiles(list)
      PROVE  IInv'
  <2>1. PICK n \in 0 .. MaxArgs : list \in [1 .. n -> Names]
    OBVIOUS
  <2>2. list \in Seq(Names)
    BY <2>1, ArchiveAssumption
  <2>3. commands' \in 0 .. MaxCommands
    BY <1>4, ArchiveAssumption DEF AppendFiles, Give, TypeOK
  <2>4. TypeOK'
    BY <1>4, <2>2, <2>3 DEF AppendFiles, Give, TypeOK
  <2> QED BY <1>4, <2>4 DEF AppendFiles, CountInv, PlaceInv, Used
<1>5. CASE Delete
  <2>1. commands' \in 0 .. MaxCommands
    BY <1>5, ArchiveAssumption DEF Delete, Give, TypeOK
  <2>2. TypeOK'
    <3>1. UNCHANGED <<files, state, header, body, pc, args, name, slot, at, count, byte>>
      BY <1>5 DEF Delete, disk, process
    <3> QED BY <2>1, <3>1 DEF TypeOK, Used
  <2> QED BY <1>5, <2>2 DEF Delete, CountInv, PlaceInv, Used, disk, process
<1>6. CASE Unpack
  <2>1. commands' \in 0 .. MaxCommands
    BY <1>6, ArchiveAssumption DEF Unpack, Give, TypeOK
  <2>2. TypeOK'
    BY <1>6, <2>1, ArchiveAssumption DEF Unpack, TypeOK, disk
  <2> QED BY <1>6, <2>2, ArchiveAssumption DEF Unpack, CountInv, PlaceInv, Used, disk
<1> QED BY <1>1, <1>2, <1>3, <1>4, <1>5, <1>6 DEF User

(* ctar between two files.                                                 *)
LEMMA ConsiderIInv ==
  ASSUME IInv, NEW f \in Names, Missing(f) \/ Refused(f) \/ NoSlot(f) \/ NoHeader(f) \/ AddFile(f)
  PROVE  IInv'
<1> USE DEF IInv
<1>1. /\ pc = "args" /\ args # <<>>
      /\ UNCHANGED <<files, commands>>
      /\ Tail(args) \in Seq(Names)
  BY DEF Missing, Refused, NoSlot, NoHeader, AddFile, Accepted, Considers, TypeOK
<1>2. CASE Missing(f)
  <2>1. TypeOK'
    BY <1>1, <1>2 DEF Missing, TypeOK, disk
  <2> QED BY <1>2, <2>1 DEF Missing, CountInv, PlaceInv, Used, disk
<1>3. CASE Refused(f)
  <2>1. CASE args' = Tail(args) /\ UNCHANGED <<pc, name, slot, at, count, byte>>
    <3>1. TypeOK'
      BY <1>1, <1>3, <2>1 DEF Refused, TypeOK, disk
    <3> QED BY <1>3, <2>1, <3>1 DEF Refused, CountInv, PlaceInv, Used, disk
  <2>2. CASE End
    BY <1>1, <1>3, <2>2, EndIInv DEF Refused, disk, TypeOK
  <2> QED BY <1>3, <2>1, <2>2 DEF Refused
<1>4. CASE NoSlot(f)
  BY <1>1, <1>4, EndIInv DEF NoSlot, disk, TypeOK
<1>5. CASE NoHeader(f)
  BY <1>1, <1>5, EndIInv DEF NoHeader
<1>6. CASE AddFile(f)
  <2>1. /\ slot' \in Entries \ Used
        /\ slot' = header.block_count + 1
    BY <1>6, FirstFreeIsNext DEF AddFile
  <2>2. at' \in Nat /\ at' >= HeaderSize
    BY <1>6, EndTyped DEF AddFile
  <2>3. /\ f \in DOMAIN files /\ state = "archive" /\ name' = f
        /\ count' = 0 /\ byte' = 0 /\ pc' = "name" /\ args' = Tail(args)
        /\ UNCHANGED <<state, header, body>>
    BY <1>6 DEF AddFile, Accepted, disk
  <2>4. Used' = Used
    BY <2>3 DEF Used
  <2>5. slot' \in 1 .. Slots + 1
    BY <2>1, ArchiveAssumption DEF Entries
  <2>6. TypeOK'
    BY <1>1, <2>1, <2>2, <2>3, <2>4, <2>5, ArchiveAssumption DEF TypeOK
  <2> QED BY <2>1, <2>2, <2>3, <2>4, <2>6 DEF CountInv, PlaceInv
<1> QED BY <1>2, <1>3, <1>4, <1>5, <1>6

(* A write at an offset behind the header leaves bytes behind it.          *)
LEMMA WriteAtTyped ==
  ASSUME body \in Seq(Byte), NEW p \in Nat, p >= HeaderSize, NEW b \in Byte, WriteAt(p, b)
  PROVE  body' \in Seq(Byte)
<1> DEFINE n == p - HeaderSize + 1
<1>1. n \in Nat
  BY ArchiveAssumption
<1>2. \A k \in 1 .. n : (IF k = n THEN b ELSE IF k <= Len(body) THEN body[k] ELSE 0) \in Byte
  BY ArchiveAssumption
<1>3. body' \in [1 .. n -> Byte]
  BY <1>2 DEF WriteAt
<1> QED BY <1>1, <1>3

(* ctar while it adds a file.                                              *)
LEMMA AddIInv == ASSUME IInv, WriteName \/ CopyByte \/ WriteEntry PROVE IInv'
<1> USE DEF IInv
<1>1. CASE WriteName
  <2>1. body' \in Seq(Byte)
    <3>1. name \in Seq(Byte)
      BY NamesTyped, <1>1 DEF WriteName, TypeOK
    <3> QED BY <1>1, <3>1 DEF WriteName, TypeOK
  <2>2. Used' = Used
    BY <1>1 DEF WriteName, Used
  <2>3. TypeOK'
    BY <1>1, <2>1, <2>2 DEF WriteName, TypeOK, process
  <2> QED BY <1>1, <2>2, <2>3 DEF WriteName, CountInv, PlaceInv, process
<1>2. CASE CopyByte
  <2>1. /\ pc = "copy" /\ pc' \in {"copy", "entry"}
        /\ UNCHANGED <<files, state, header, args, name, slot, at, commands>>
        /\ WriteAt(at + Len(name) + 1 + count, byte')
    BY <1>2 DEF CopyByte, CopyFrom
  <2>2. byte' \in Byte /\ count' \in Nat
    BY <1>2, <2>1 DEF CopyByte, CopyFrom, TypeOK
  <2>3. at + Len(name) + 1 + count \in Nat /\ at + Len(name) + 1 + count >= HeaderSize
    <3>1. Len(name) \in Nat
      BY NamesTyped, <2>1 DEF TypeOK
    <3>2. at \in Nat /\ at >= HeaderSize /\ count \in Nat /\ HeaderSize \in Nat
      BY <2>1, ArchiveAssumption DEF TypeOK, PlaceInv
    <3> QED BY <3>1, <3>2
  <2>4. body' \in Seq(Byte)
    BY <2>1, <2>2, <2>3, WriteAtTyped DEF TypeOK
  <2>5. Used' = Used
    BY <2>1 DEF Used
  <2>6. TypeOK'
    BY <2>1, <2>2, <2>4, <2>5 DEF TypeOK
  <2> QED BY <2>1, <2>5, <2>6 DEF CountInv, PlaceInv
<1>3. CASE WriteEntry
  <2>1. /\ pc = "entry" /\ pc' = "args"
        /\ slot \in Entries \ Used /\ slot = header.block_count + 1
        /\ at \in Nat /\ at >= HeaderSize /\ count \in Nat
    BY <1>3 DEF WriteEntry, TypeOK, PlaceInv
  <2>2. /\ header'.eop = EndOfFile
        /\ header'.block_count = header.block_count + 1
        /\ header'.file_name = [header.file_name EXCEPT ![slot] = at]
        /\ header' = [eop |-> EndOfFile, block_count |-> header.block_count + 1,
                      file_size |-> [header.file_size EXCEPT ![slot] = count],
                      file_name |-> [header.file_name EXCEPT ![slot] = at]]
    BY <1>3 DEF WriteEntry
  <2>3. header.block_count + 1 \in 0 .. Slots
    BY <2>1, ArchiveAssumption DEF TypeOK, Entries
  <2>4. header' \in [eop : Nat, block_count : 0 .. Slots,
                     file_size : [Entries -> Nat], file_name : [Entries -> Nat]]
    BY <2>1, <2>2, <2>3, EndTyped DEF TypeOK
  <2>5. Used' = Used \cup {slot}
    <3>1. header.file_name \in [Entries -> Nat]
      BY DEF TypeOK
    <3>2. at # Unused
      BY <2>1, ArchiveAssumption DEF Unused
    <3> QED BY <2>1, <2>2, <3>1, <3>2 DEF Used
  <2>6. CountInv'
    BY <2>1, <2>2, <2>5 DEF CountInv, TypeOK
  <2>7. TypeOK'
    BY <1>3, <2>1, <2>4 DEF WriteEntry, TypeOK, process
  <2> QED BY <2>1, <2>6, <2>7 DEF PlaceInv
<1> QED BY <1>1, <1>2, <1>3

(* utar.                                                                   *)
LEMMA UnpackIInv ==
  ASSUME IInv, PassOver \/ (\E f \in Intact \cup Junk : Extract(f)) \/ ExtractByte
  PROVE  IInv'
<1> USE DEF IInv
<1>1. CASE PassOver
  <2>1. slot' \in 1 .. Slots + 1
    BY <1>1, ArchiveAssumption DEF PassOver, Entries
  <2>2. TypeOK'
    BY <1>1, <2>1 DEF PassOver, TypeOK, disk
  <2> QED BY <1>1, <2>2 DEF PassOver, CountInv, PlaceInv, Used, disk
<1>2. ASSUME NEW f \in Intact \cup Junk, Extract(f) PROVE IInv'
  <2>1. f \in Names \cup Junk /\ Len(f) \in Nat
    BY ArchiveAssumption, NamesTyped
  <2>2. CASE End /\ UNCHANGED <<files, disk, commands>>
    BY <2>2, EndIInv DEF disk, TypeOK
  <2>3. CASE f \notin DOMAIN files /\ Start(f)
    <3>1. DOMAIN files' \subseteq Names \cup Junk /\ \A g \in DOMAIN files' : files'[g] \in Seq(Byte)
      BY <2>1, <2>3 DEF Start, Stored, TypeOK
    <3>2. at' \in Nat /\ at' >= HeaderSize
      BY <1>2, <2>1, <2>3, ArchiveAssumption DEF Start, Extract, TypeOK, PlaceInv
    <3>3. slot \in Entries
      BY <1>2 DEF Extract, Used
    <3>4. TypeOK'
      BY <2>1, <2>3, <3>1, <3>2 DEF Start, TypeOK, disk
    <3> QED BY <2>3, <3>2, <3>3, <3>4 DEF Start, CountInv, PlaceInv, Used, disk
  <2> QED BY <1>2, <2>2, <2>3 DEF Extract
<1>3. CASE ExtractByte
  <2>1. /\ pc = "extract" /\ slot \in Entries /\ pc' \in {"extract", "unpack"}
        /\ slot' = slot \/ (slot' = slot + 1 /\ pc' = "unpack")
        /\ UNCHANGED <<state, header, body, args, name, commands>>
    BY <1>3 DEF ExtractByte, CopyWhile, NextEntry, PlaceInv, disk
  <2>2. slot' \in 1 .. Slots + 1
    BY <2>1, ArchiveAssumption DEF Entries
  <2>3. at \in Nat /\ at >= HeaderSize /\ count \in Nat /\ byte \in Byte
    BY <2>1 DEF TypeOK, PlaceInv
  <2>4. ASSUME at < EndOfFile PROVE ByteAt(at) \in Byte
    BY <2>3, <2>4, ArchiveAssumption DEF ByteAt, EndOfFile, TypeOK
  <2>5. at' \in Nat /\ at' >= HeaderSize /\ count' \in Nat /\ byte' \in Byte
    BY <1>3, <2>3, <2>4, ArchiveAssumption DEF ExtractByte, CopyWhile
  <2>6. ASSUME NEW b \in Byte, Put(b)
        PROVE  DOMAIN files' = DOMAIN files /\ \A g \in DOMAIN files' : files'[g] \in Seq(Byte)
    BY <2>6 DEF Put, TypeOK
  <2>7. DOMAIN files' = DOMAIN files /\ \A g \in DOMAIN files' : files'[g] \in Seq(Byte)
    <3>1. UNCHANGED files \/ \E b \in Byte : Put(b)
      BY <1>3, <2>3, <2>5 DEF ExtractByte, CopyWhile
    <3> QED BY <2>6, <3>1 DEF TypeOK
  <2>8. TypeOK'
    BY <2>1, <2>2, <2>5, <2>7 DEF TypeOK
  <2> QED BY <2>1, <2>5, <2>8 DEF CountInv, PlaceInv, Used
<1> QED BY <1>1, <1>2, <1>3

(* Every step keeps the invariant.                                         *)
LEMMA NextIInv == IInv /\ [Next]_vars => IInv'
<1> SUFFICES ASSUME IInv, [Next]_vars PROVE IInv'
  OBVIOUS
<1>1. CASE UNCHANGED vars
  BY <1>1 DEF vars, IInv, TypeOK, CountInv, PlaceInv, Used
<1>2. CASE User
  BY <1>2, UserIInv
<1>3. CASE addHeader
  <2>1. TypeOK'
    BY <1>3, EmptyTyped DEF addHeader, IInv, TypeOK, process
  <2> QED BY <1>3, <2>1, EmptyTyped DEF addHeader, IInv, CountInv, PlaceInv, Used
<1>4. CASE NoMoreFiles \/ Finished \/ Kill
  BY <1>4, EndIInv DEF NoMoreFiles, Finished, Kill, disk, IInv, TypeOK
<1>5. CASE \E f \in Names : Missing(f) \/ Refused(f) \/ NoSlot(f) \/ NoHeader(f) \/ AddFile(f)
  BY <1>5, ConsiderIInv
<1>6. CASE WriteName \/ CopyByte \/ WriteEntry
  BY <1>6, AddIInv
<1>7. CASE PassOver \/ (\E f \in Intact \cup Junk : Extract(f)) \/ ExtractByte
  BY <1>7, UnpackIInv
<1> QED BY <1>1, <1>2, <1>3, <1>4, <1>5, <1>6, <1>7 DEF Next, Program

(* The inductive invariant holds, however commands are killed.             *)
THEOREM Invariance == Spec => []IInv
  BY InitIInv, NextIInv, PTL DEF Spec

(* Every variable keeps its type, and what a command works on stays in     *)
(* place: an entry that is filled was free (ctar.c:246-253), so the count  *)
(* never exceeds the entries (ctar.c:293).                                 *)
THEOREM TypeCorrect == Spec => []TypeOK
<1>1. IInv => TypeOK
  BY DEF IInv
<1> QED BY <1>1, Invariance, PTL

-----------------------------------------------------------------------------
(* No file that was there when a command began is changed or removed by    *)
(* it, but for the one it is extracting (utar.c:102).                      *)
THEOREM NothingOverwritten == Spec => OnlyNewFiles
<1> DEFINE Harmless == pc # "idle" => \A f \in DOMAIN files :
                           /\ f \in DOMAIN files'
                           /\ (files'[f] = files[f] \/ (pc = "extract" /\ f = name))
<1>1. ASSUME [Next]_vars PROVE [Harmless]_vars
  <2>1. CASE UNCHANGED files
    BY <2>1
  <2>2. CASE User
    BY <2>2 DEF User, Write, Remove, RemoveArchive, AppendFiles, Delete, Unpack, Give
  <2>3. ASSUME NEW f \in Intact \cup Junk, Extract(f) PROVE Harmless
    BY <2>3 DEF Extract, Start, Stored
  <2>4. CASE ExtractByte
    <3>1. ASSUME NEW b, Put(b) PROVE Harmless
      BY <2>4, <3>1 DEF Put, ExtractByte, CopyWhile
    <3> QED BY <2>1, <2>4, <3>1 DEF ExtractByte, CopyWhile
  <2>5. CASE Program \/ Kill
    BY <2>1, <2>3, <2>4, <2>5 DEF Program, Kill, addHeader, NoMoreFiles, Missing, Refused, NoSlot,
       NoHeader, AddFile, Accepted, Considers, WriteName, CopyByte, CopyFrom, WriteEntry,
       Finished, PassOver
  <2> QED BY <1>1, <2>1, <2>2, <2>5 DEF Next, vars
<1> QED BY <1>1, PTL DEF Spec, OnlyNewFiles

-----------------------------------------------------------------------------
(* The bytes of entries.                                                   *)

(* A whole file is read back: its name ends at the zero, since no name has *)
(* one, and what follows is its content.                                   *)
ReadBack ==
  TypeOK =>
    \A i \in Entries, f \in Names, c \in Seq(Byte) :
      Whole(header.file_name[i], f, c) /\ header.file_size[i] = Len(c) =>
        /\ StringAt(header.file_name[i]) = f
        /\ Length(header.file_name[i]) = Len(f)
        /\ Content(i) = c
        /\ EndOf(i) = header.file_name[i] + Len(f) + Len(c) + 2
        /\ EndOf(i) <= EndOfFile
        /\ ByteAt(EndOf(i) - 1) = Padding(c)

LEMMA EntryReadBack == ReadBack
<1> SUFFICES ASSUME TypeOK, NEW i \in Entries, NEW f \in Names, NEW c \in Seq(Byte),
                    Whole(header.file_name[i], f, c), header.file_size[i] = Len(c)
             PROVE  /\ StringAt(header.file_name[i]) = f
                    /\ Length(header.file_name[i]) = Len(f)
                    /\ Content(i) = c
                    /\ EndOf(i) = header.file_name[i] + Len(f) + Len(c) + 2
                    /\ EndOf(i) <= EndOfFile
                    /\ ByteAt(EndOf(i) - 1) = Padding(c)
  BY DEF ReadBack
<1> DEFINE p == header.file_name[i]
<1>1. /\ f \in Seq(Byte \ {0}) /\ Len(f) \in Nat /\ Len(c) \in Nat /\ p \in Nat
      /\ EndOfFile \in Nat
  BY ArchiveAssumption DEF TypeOK, EndOfFile
<1>2. /\ \A k \in 1 .. Len(f) : ByteAt(p + k - 1) = f[k] /\ f[k] # 0
      /\ ByteAt(p + Len(f)) = 0
      /\ \A k \in 1 .. Len(c) : ByteAt(p + Len(f) + k) = c[k]
      /\ p + Len(f) + Len(c) + 2 <= EndOfFile
      /\ ByteAt(p + Len(f) + Len(c) + 1) = Padding(c)
  BY <1>1 DEF Whole, Holds
<1>3. \A k \in 0 .. Len(f) - 1 : ByteAt(p + k) # 0
  <2> TAKE k \in 0 .. Len(f) - 1
  <2>1. k + 1 \in 1 .. Len(f) /\ p + (k + 1) - 1 = p + k
    BY <1>1
  <2> QED BY <1>2, <2>1
<1> HIDE DEF p
<1>4. Length(p) = Len(f)
  <2> DEFINE Stops(n) == /\ n = EndOfFile - p \/ ByteAt(p + n) = 0
                         /\ \A k \in 0 .. n - 1 : ByteAt(p + k) # 0
  <2>1. Len(f) \in 0 .. EndOfFile - p /\ Stops(Len(f))
    BY <1>1, <1>2, <1>3
  <2>2. ASSUME NEW n \in 0 .. EndOfFile - p, Stops(n) PROVE n = Len(f)
    <3>1. n >= Len(f)
      BY <1>1, <1>2, <1>3, <2>2
    <3>2. n <= Len(f)
      BY <1>1, <1>2, <2>2
    <3> QED BY <1>1, <3>1, <3>2
  <2> HIDE DEF Stops
  <2>3. Length(p) = CHOOSE n \in 0 .. EndOfFile - p : Stops(n)
    BY DEF Length, Stops
  <2> QED BY <2>1, <2>2, <2>3
<1>5. StringAt(p) = f
  <2>1. f = [k \in 1 .. Len(f) |-> f[k]]
    BY <1>1
  <2>2. StringAt(p) = [k \in 1 .. Len(f) |-> ByteAt(p + k - 1)]
    BY <1>4 DEF StringAt
  <2> QED BY <1>2, <2>1, <2>2
<1>6. Content(i) = c
  <2>1. c = [k \in 1 .. Len(c) |-> c[k]]
    OBVIOUS
  <2>2. Content(i) = [k \in 1 .. Len(c) |-> ByteAt(p + Len(f) + k)]
    BY <1>4 DEF Content, p
  <2> QED BY <1>2, <2>1, <2>2
<1>7. EndOf(i) = p + Len(f) + Len(c) + 2
  BY <1>1, <1>4 DEF EndOf, DataEnd, p
<1>8. EndOf(i) - 1 = p + Len(f) + Len(c) + 1
  BY <1>1, <1>7
<1> QED BY <1>2, <1>4, <1>5, <1>6, <1>7, <1>8 DEF p

(* The archive only gets longer.                                           *)
Grows == /\ Len(body) <= Len(body')
         /\ \A k \in 1 .. Len(body) : body'[k] = body[k]

(* Bytes that are there stay.                                              *)
LEMMA GrowthKeepsBytes ==
  ASSUME TypeOK, TypeOK', Grows
  PROVE  /\ EndOfFile \in Nat /\ EndOfFile' \in Nat /\ EndOfFile <= EndOfFile'
         /\ \A p \in Nat : HeaderSize <= p /\ p < EndOfFile => ByteAt(p)' = ByteAt(p)
<1>1. Len(body) \in Nat /\ Len(body') \in Nat
  BY DEF TypeOK
<1>2. ASSUME NEW p \in Nat, HeaderSize <= p, p < EndOfFile PROVE ByteAt(p)' = ByteAt(p)
  <2>1. p - HeaderSize + 1 \in 1 .. Len(body)
    BY <1>1, <1>2, ArchiveAssumption DEF EndOfFile
  <2> QED BY <2>1 DEF ByteAt, Grows
<1> QED BY <1>1, <1>2, ArchiveAssumption DEF EndOfFile, Grows

(* What is held stays held.                                                *)
LEMMA GrowthKeepsHolds ==
  ASSUME TypeOK, TypeOK', Grows, NEW p \in Nat, NEW f \in Names, NEW c, NEW n \in Nat,
         Holds(p, f, c, n)
  PROVE  Holds(p, f, c, n)'
<1>1. Len(f) \in Nat
  BY NamesTyped
<1>2. p >= HeaderSize /\ HeaderSize \in Nat /\ p + Len(f) + 1 + n <= EndOfFile
  BY ArchiveAssumption DEF Holds
<1>3. \A k \in 1 .. Len(f) : ByteAt(p + k - 1)' = ByteAt(p + k - 1)
  BY <1>1, <1>2, GrowthKeepsBytes
<1>4. ByteAt(p + Len(f))' = ByteAt(p + Len(f))
  BY <1>1, <1>2, GrowthKeepsBytes
<1>5. \A k \in 1 .. n : ByteAt(p + Len(f) + k)' = ByteAt(p + Len(f) + k)
  BY <1>1, <1>2, GrowthKeepsBytes
<1>6. p + Len(f) + 1 + n <= EndOfFile'
  BY <1>1, <1>2, GrowthKeepsBytes
<1> QED BY <1>2, <1>3, <1>4, <1>5, <1>6 DEF Holds

(* Whole files stay whole.                                                 *)
LEMMA GrowthKeepsWhole ==
  ASSUME TypeOK, TypeOK', Grows, NEW p \in Nat, NEW f \in Names, NEW c \in Seq(Byte), Whole(p, f, c)
  PROVE  Whole(p, f, c)'
<1>1. Len(f) \in Nat /\ Len(c) \in Nat
  BY NamesTyped
<1>2. Holds(p, f, c, Len(c))'
  BY <1>1, GrowthKeepsHolds DEF Whole
<1>3. p >= HeaderSize /\ HeaderSize \in Nat /\ p + Len(f) + Len(c) + 2 <= EndOfFile
  BY ArchiveAssumption DEF Whole, Holds
<1>4. ByteAt(p + Len(f) + Len(c) + 1)' = ByteAt(p + Len(f) + Len(c) + 1)
  BY <1>1, <1>3, GrowthKeepsBytes
<1>5. p + Len(f) + Len(c) + 2 <= EndOfFile'
  BY <1>1, <1>3, GrowthKeepsBytes
<1> QED BY <1>2, <1>4, <1>5 DEF Whole

(* An entry that stays in the header keeps its name, content and end while *)
(* the archive grows.                                                      *)
LEMMA GrowthKeepsEntry ==
  ASSUME IInv, IInv', WholeInv, state = "archive", Grows, NEW i \in Used,
         header'.file_name[i] = header.file_name[i],
         header'.file_size[i] = header.file_size[i]
  PROVE  /\ \E f \in Names, c \in Seq(Byte) :
                /\ Whole(header.file_name[i], f, c)'
                /\ header'.file_size[i] = Len(c)
         /\ Entry(i)' = Entry(i)
         /\ EndOf(i)' = EndOf(i)
         /\ EndOf(i) \in Nat /\ EndOf(i) <= EndOfFile
         /\ StringAt(header.file_name[i])' = StringAt(header.file_name[i])
<1>1. PICK f \in Names, c \in Seq(Byte) :
            Whole(header.file_name[i], f, c) /\ header.file_size[i] = Len(c)
  BY DEF WholeInv
<1>2. i \in Entries /\ header.file_name[i] \in Nat /\ Len(f) \in Nat /\ Len(c) \in Nat
  BY NamesTyped DEF Used, IInv, TypeOK
<1>3. Whole(header.file_name[i], f, c)'
  BY <1>1, <1>2, GrowthKeepsWhole DEF IInv
<1>4. ReadBack /\ ReadBack'
  BY EntryReadBack, PTL
<1>5. /\ StringAt(header.file_name[i]) = f /\ Content(i) = c
      /\ EndOf(i) = header.file_name[i] + Len(f) + Len(c) + 2 /\ EndOf(i) <= EndOfFile
  BY <1>1, <1>2, <1>4 DEF ReadBack, IInv
<1>6. /\ StringAt(header.file_name[i])' = f /\ Content(i)' = c
      /\ EndOf(i)' = header.file_name[i] + Len(f) + Len(c) + 2
  BY <1>1, <1>2, <1>3, <1>4 DEF ReadBack, IInv
<1>7. Entry(i)' = Entry(i)
  BY <1>5, <1>6 DEF Entry
<1>8. EndOf(i) \in Nat
  BY <1>2, <1>5
<1> QED BY <1>1, <1>3, <1>5, <1>6, <1>7, <1>8

-----------------------------------------------------------------------------
(* The entries, whole and in order.                                        *)
Adding == {"name", "copy", "entry"}

(* The initial states have no entries.                                     *)
LEMMA InitDInv == Init => DInv
  BY DEF Init, DInv, WholeInv, OrderInv, CopyInv

(* Steps that leave the archive alone and add nothing.                     *)
LEMMA QuietDInv ==
  ASSUME DInv, UNCHANGED disk, pc' \notin Adding
  PROVE  DInv'
<1>1. CopyInv'
  BY DEF CopyInv, Adding
<1>2. WholeInv' /\ OrderInv'
  BY DEF DInv, WholeInv, OrderInv, Whole, Holds, EndOf, DataEnd, Length, EndOfFile, ByteAt, Used, disk
<1> QED BY <1>1, <1>2 DEF DInv

(* Without an archive there is nothing to be said.                         *)
LEMMA NoArchiveDInv == ASSUME state' # "archive", pc' \notin Adding PROVE DInv'
  BY DEF DInv, WholeInv, OrderInv, CopyInv, Adding

(* The new header has no entries.                                          *)
LEMMA HeaderDInv == ASSUME addHeader PROVE DInv'
<1>1. header' = EmptyHeader /\ pc' = "args"
  BY DEF addHeader
<1>2. Used' = {} /\ header'.eop = HeaderSize /\ header'.block_count = 0
  BY <1>1, EmptyTyped DEF Used, EmptyHeader
<1> QED BY <1>1, <1>2 DEF DInv, WholeInv, OrderInv, CopyInv

(* Every entry of an archive ends in it.                                   *)
LEMMA EntriesEnd ==
  ASSUME IInv, WholeInv, state = "archive", NEW i \in Used
  PROVE  EndOf(i) \in Nat /\ EndOf(i) <= EndOfFile
<1>1. PICK f \in Names, c \in Seq(Byte) :
            Whole(header.file_name[i], f, c) /\ header.file_size[i] = Len(c)
  BY DEF WholeInv
<1>2. i \in Entries /\ header.file_name[i] \in Nat /\ Len(f) \in Nat /\ Len(c) \in Nat
  BY NamesTyped DEF Used, IInv, TypeOK
<1>3. EndOf(i) = header.file_name[i] + Len(f) + Len(c) + 2 /\ EndOf(i) <= EndOfFile
  BY <1>1, <1>2, EntryReadBack DEF ReadBack, IInv
<1> QED BY <1>2, <1>3

(* A file is accepted: its entry will be behind all others.                *)
LEMMA AddFileDInv == ASSUME IInv, DInv, NEW f \in Names, AddFile(f) PROVE DInv'
<1>1. /\ state = "archive" /\ ~Duplicate(f)
      /\ UNCHANGED disk /\ pc' = "name" /\ name' = f
      /\ at' = EndOfFile /\ count' = 0 /\ byte' = 0
  BY DEF AddFile, Accepted
<1>2. WholeInv' /\ OrderInv'
  BY <1>1 DEF DInv, WholeInv, OrderInv, Whole, Holds, EndOf, DataEnd, Length, EndOfFile, ByteAt, Used, disk
<1>3. \A i \in Used : EndOf(i) <= EndOfFile
  BY <1>1, EntriesEnd DEF DInv
<1>4. ASSUME f \in Intact, NEW i \in Used PROVE StringAt(header.file_name[i]) # f
  BY <1>1, <1>4 DEF Duplicate, getFilename
<1>5. \A i \in Used : EndOf(i)' = EndOf(i) /\ StringAt(header.file_name[i])' = StringAt(header.file_name[i])
  BY <1>1 DEF EndOf, DataEnd, StringAt, Length, EndOfFile, ByteAt, disk
<1>6. Used' = Used /\ EndOfFile' = EndOfFile
  BY <1>1 DEF Used, EndOfFile, disk
<1>7. CopyInv'
  BY <1>1, <1>3, <1>4, <1>5, <1>6 DEF CopyInv
<1> QED BY <1>2, <1>7 DEF DInv

(* While a file is written the entries stay as they are.                   *)
LEMMA WritingDInv ==
  ASSUME IInv, IInv', DInv, Grows, pc \in Adding, pc' \in Adding,
         UNCHANGED <<header, state, at, name>>
  PROVE  /\ WholeInv' /\ OrderInv'
         /\ \A i \in Used' : /\ EndOf(i)' <= at'
                             /\ name' \in Intact => StringAt(header.file_name[i])' # name'
         /\ Kept' = Kept
<1>1. state = "archive" /\ Used' = Used
  BY DEF IInv, TypeOK, Adding, Used
<1>2. \A i \in Used : /\ \E f \in Names, c \in Seq(Byte) :
                            /\ Whole(header.file_name[i], f, c)'
                            /\ header'.file_size[i] = Len(c)
                      /\ Entry(i)' = Entry(i)
                      /\ EndOf(i)' = EndOf(i)
                      /\ StringAt(header.file_name[i])' = StringAt(header.file_name[i])
  BY <1>1, GrowthKeepsEntry DEF DInv
<1>3. WholeInv'
  BY <1>1, <1>2 DEF WholeInv
<1>4. Used = 1 .. header.block_count /\ header.block_count \in Nat
  BY ArchiveAssumption DEF IInv, CountInv, TypeOK
<1>5. OrderInv'
  <2>1. \A i \in Used : i > 1 => i - 1 \in Used
    BY <1>4
  <2>2. header.block_count # 0 => header.block_count \in Used
    BY <1>4
  <2> QED BY <1>1, <1>2, <2>1, <2>2 DEF DInv, OrderInv
<1>6. \A i \in Used : EndOf(i) <= at /\ (name \in Intact => StringAt(header.file_name[i]) # name)
  BY DEF DInv, CopyInv, Adding
<1>7. Kept' = Kept
  <2>1. Cardinality(Used) = header.block_count
    BY <1>4, FS_Interval
  <2>2. \A i \in 1 .. Cardinality(Used) : Entry(i)' = Entry(i)
    BY <1>2, <1>4, <2>1
  <2> QED BY <1>1, <2>2 DEF Kept
<1> QED BY <1>1, <1>2, <1>3, <1>5, <1>6, <1>7

(* The name is written behind the entries.                                 *)
LEMMA WriteNameDInv == ASSUME IInv, IInv', DInv, WriteName PROVE DInv' /\ Kept' = Kept
<1>1. /\ pc = "name" /\ pc' = "copy" /\ body' = body \o name
      /\ UNCHANGED <<files, state, header, args, name, slot, at, count, byte>>
  BY DEF WriteName, process
<1>2. name \in Seq(Byte) /\ Len(name) \in Nat /\ body \in Seq(Byte) /\ Len(body) \in Nat
  BY <1>1, NamesTyped DEF IInv, TypeOK
<1>3. Grows
  BY <1>1, <1>2 DEF Grows
<1>4. /\ WholeInv' /\ OrderInv' /\ Kept' = Kept
      /\ \A i \in Used' : /\ EndOf(i)' <= at'
                          /\ name' \in Intact => StringAt(header.file_name[i])' # name'
  BY <1>1, <1>3, WritingDInv DEF Adding
<1>5. at = HeaderSize + Len(body) /\ count = 0 /\ byte = 0
  BY <1>1 DEF DInv, CopyInv, EndOfFile
<1>6. EndOfFile' = at + Len(name)
  BY <1>1, <1>2, <1>5, ArchiveAssumption DEF EndOfFile
<1>7. \A k \in 1 .. Len(name) : ByteAt(at + k - 1)' = name[k]
  <2> TAKE k \in 1 .. Len(name)
  <2>1. (at + k - 1) - HeaderSize + 1 = Len(body) + k
    BY <1>2, <1>5, ArchiveAssumption
  <2>2. body'[Len(body) + k] = name[k]
    BY <1>1, <1>2
  <2> QED BY <1>1, <2>1, <2>2 DEF ByteAt
<1>8. CopyInv'
  BY <1>1, <1>4, <1>5, <1>6, <1>7 DEF CopyInv
<1> QED BY <1>4, <1>8 DEF DInv

(* What a write at the end, or one byte behind it, leaves.                 *)
LEMMA WriteAtGrows ==
  ASSUME TypeOK, NEW p \in Nat, p \in {EndOfFile, EndOfFile + 1}, NEW b, WriteAt(p, b)
  PROVE  /\ Grows
         /\ EndOfFile' = p + 1
         /\ ByteAt(p)' = b
         /\ \A q \in Nat : q = EndOfFile /\ p = q + 1 => ByteAt(q)' = 0
<1> DEFINE n == p - HeaderSize + 1
<1>1. Len(body) \in Nat /\ HeaderSize \in Nat /\ EndOfFile = HeaderSize + Len(body)
  BY ArchiveAssumption DEF TypeOK, EndOfFile
<1>2. n \in Nat /\ Len(body) < n /\ p = HeaderSize + n - 1
  BY <1>1
<1>3. body' = [k \in 1 .. n |-> IF k = n THEN b ELSE IF k <= Len(body) THEN body[k] ELSE 0]
  BY DEF WriteAt
<1> HIDE DEF n
<1>4. Len(body') = n
  BY <1>2, <1>3
<1>5. Grows
  BY <1>1, <1>2, <1>3, <1>4 DEF Grows
<1>6. EndOfFile' = p + 1
  BY <1>1, <1>2, <1>4 DEF EndOfFile
<1>7. ByteAt(p)' = b
  BY <1>1, <1>2, <1>3 DEF ByteAt, n
<1>8. ASSUME NEW q \in Nat, q = EndOfFile, p = q + 1 PROVE ByteAt(q)' = 0
  <2>1. n = Len(body) + 2 /\ q - HeaderSize + 1 = Len(body) + 1
    BY <1>1, <1>2, <1>8
  <2>2. body'[Len(body) + 1] = 0
    BY <1>1, <1>3, <2>1
  <2> QED BY <2>1, <2>2 DEF ByteAt
<1> QED BY <1>5, <1>6, <1>7, <1>8

(* A byte is copied, or the padding is written.                            *)
LEMMA CopyByteDInv == ASSUME IInv, IInv', DInv, CopyByte PROVE DInv' /\ Kept' = Kept
<1>1. PICK p, f, c, n, start :
         /\ p = at /\ f = name /\ c = files[name] /\ n = count
         /\ start = p + Len(f) + 1
  OBVIOUS
<1>2. /\ pc = "copy"
      /\ WriteAt(start + n, byte')
      /\ UNCHANGED <<files, state, header, args, name, slot, at, commands>>
      /\ \/ /\ n < Len(c) /\ byte' = c[n + 1] /\ count' = n + 1 /\ pc' = "copy"
         \/ /\ ~(n < Len(c)) /\ byte' = byte /\ count' = n /\ pc' = "entry"
  BY <1>1 DEF CopyByte, CopyFrom
<1>3. /\ f \in Names /\ c \in Seq(Byte)
      /\ f \in Seq(Byte) /\ Len(f) \in Nat /\ Len(c) \in Nat
      /\ p \in Nat /\ n \in Nat /\ p >= HeaderSize /\ HeaderSize \in Nat
      /\ start = p + Len(f) + 1
  <2>1. name \in DOMAIN files /\ name \in Names
    BY <1>2 DEF IInv, TypeOK, PlaceInv
  <2>2. f \in Seq(Byte) /\ Len(f) \in Nat /\ c \in Seq(Byte)
    BY <1>1, <2>1, NamesTyped DEF IInv, TypeOK
  <2> QED BY <1>1, <1>2, <2>1, <2>2, ArchiveAssumption DEF IInv, TypeOK, PlaceInv
<1>4. \/ /\ n = 0 /\ byte = 0
         /\ EndOfFile = p + Len(f)
         /\ \A k \in 1 .. Len(f) : ByteAt(p + k - 1) = f[k]
      \/ /\ n \in 1 .. Len(c)
         /\ byte = c[n]
         /\ EndOfFile = start + n
         /\ Holds(p, f, c, n)
  BY <1>1, <1>2, <1>3 DEF DInv, CopyInv
<1>5. start + n \in Nat /\ start + n \in {EndOfFile, EndOfFile + 1}
  <2>1. (EndOfFile = p + Len(f) /\ n = 0) \/ EndOfFile = start + n
    BY <1>4
  <2> QED BY <1>3, <2>1
<1>6. /\ Grows
      /\ EndOfFile' = start + n + 1
      /\ ByteAt(start + n)' = byte'
      /\ \A q \in Nat : q = EndOfFile /\ start + n = q + 1 => ByteAt(q)' = 0
  <2>1. PICK e, b : e = start + n /\ b = byte'
    OBVIOUS
  <2>2. WriteAt(e, b) /\ e \in Nat /\ e \in {EndOfFile, EndOfFile + 1}
    BY <1>2, <1>5, <2>1
  <2>3. /\ Grows
        /\ EndOfFile' = e + 1
        /\ ByteAt(e)' = b
        /\ \A q \in Nat : q = EndOfFile /\ e = q + 1 => ByteAt(q)' = 0
    BY <2>2, WriteAtGrows DEF IInv
  <2> QED BY <2>1, <2>3
<1>7. /\ WholeInv' /\ OrderInv' /\ Kept' = Kept
      /\ \A i \in Used' : /\ EndOf(i)' <= at'
                          /\ name' \in Intact => StringAt(header.file_name[i])' # name'
  BY <1>2, <1>6, WritingDInv DEF Adding
(* What was copied before is held.                                         *)
<1>8. Holds(p, f, c, n)'
  <2>1. CASE n = 0 /\ EndOfFile = p + Len(f)
    <3>1. \A k \in 1 .. Len(f) : ByteAt(p + k - 1)' = f[k]
      <4> TAKE k \in 1 .. Len(f)
      <4>1. p + k - 1 \in Nat /\ HeaderSize <= p + k - 1 /\ p + k - 1 < EndOfFile
        BY <1>3, <2>1
      <4>2. ByteAt(p + k - 1)' = ByteAt(p + k - 1)
        BY <1>6, <4>1, GrowthKeepsBytes DEF IInv
      <4>3. ByteAt(p + k - 1) = f[k]
        BY <1>3, <1>4, <2>1
      <4> QED BY <4>2, <4>3
    <3>2. ByteAt(p + Len(f))' = 0
      <4>1. start + n = EndOfFile + 1 /\ p + Len(f) = EndOfFile /\ p + Len(f) \in Nat
        BY <1>3, <2>1
      <4> QED BY <1>6, <4>1
    <3>3. p >= HeaderSize /\ p + Len(f) + 1 + n <= EndOfFile'
      BY <1>3, <1>6
    <3> QED BY <2>1, <3>1, <3>2, <3>3 DEF Holds
  <2>2. CASE Holds(p, f, c, n)
    BY <1>3, <1>6, <2>2, GrowthKeepsHolds DEF IInv
  <2> QED BY <1>4, <2>1, <2>2
<1>9. CopyInv'
  <2>1. CASE n < Len(c)
    <3>1. count' = n + 1 /\ pc' = "copy" /\ byte' = c[n + 1]
      BY <1>2, <2>1
    <3>2. Holds(p, f, c, n + 1)'
      <4>1. start + n = p + Len(f) + (n + 1)
        BY <1>3
      <4>2. \A k \in 1 .. n + 1 : ByteAt(p + Len(f) + k)' = c[k]
        <5> TAKE k \in 1 .. n + 1
        <5>1. CASE k \in 1 .. n
          BY <1>8, <5>1 DEF Holds
        <5>2. CASE k = n + 1
          BY <1>6, <3>1, <4>1, <5>2
        <5> QED BY <1>3, <5>1, <5>2
      <4>3. p + Len(f) + 1 + (n + 1) <= EndOfFile'
        BY <1>3, <1>6
      <4> QED BY <1>8, <4>2, <4>3 DEF Holds
    <3>3. n + 1 \in 1 .. Len(c) /\ EndOfFile' = p + Len(f) + 1 + (n + 1)
      BY <1>3, <1>6, <2>1
    <3>4. /\ count' \in 1 .. Len(files'[name'])
          /\ byte' = files'[name'][count']
          /\ EndOfFile' = at' + Len(name') + 1 + count'
          /\ Holds(at, name, files[name], count)'
      BY <1>1, <1>2, <3>1, <3>2, <3>3 DEF Holds
    <3> QED BY <1>7, <3>1, <3>4 DEF CopyInv
  <2>2. CASE ~(n < Len(c))
    <3>1. count' = n /\ pc' = "entry" /\ byte' = byte
      BY <1>2, <2>2
    <3>2. n = Len(c)
      BY <1>3, <1>4, <2>2
    <3>3. byte = Padding(c)
      BY <1>3, <1>4, <3>2 DEF Padding
    <3>4. start + n = p + Len(f) + Len(c) + 1 /\ EndOfFile' = p + Len(f) + Len(c) + 2
      BY <1>3, <1>6, <3>2
    <3>5. Whole(p, f, c)'
      BY <1>3, <1>6, <1>8, <3>1, <3>2, <3>3, <3>4 DEF Whole
    <3>6. /\ count' = Len(files'[name'])
          /\ EndOfFile' = at' + Len(name') + count' + 2
          /\ Whole(at, name, files[name])'
      BY <1>1, <1>2, <3>1, <3>2, <3>4, <3>5 DEF Whole, Holds, Padding
    <3> QED BY <1>7, <3>1, <3>6 DEF CopyInv
  <2> QED BY <2>1, <2>2
<1> QED BY <1>7, <1>9 DEF DInv

(* A sequence with one more element, as a function.                        *)
LEMMA AppendIs ==
  ASSUME NEW T, NEW s \in Seq(T), NEW e \in T
  PROVE  Append(s, e) = [i \in 1 .. Len(s) + 1 |-> IF i = Len(s) + 1 THEN e ELSE s[i]]
<1> DEFINE n == Len(s) + 1
           a == Append(s, e)
<1>1. a \in Seq(T) /\ Len(a) = n /\ Len(s) \in Nat /\ n \in Nat
  BY AppendProperties
<1>2. a = [i \in 1 .. n |-> a[i]]
  <2>1. \A t \in Seq(T) : t = [i \in 1 .. Len(t) |-> t[i]]
    OBVIOUS
  <2> HIDE DEF a
  <2> QED BY <1>1, <2>1
<1>3. ASSUME NEW i \in 1 .. n PROVE a[i] = IF i = n THEN e ELSE s[i]
  <2>1. CASE i = n
    BY <2>1, AppendProperties
  <2>2. CASE i # n
    <3>1. i \in 1 .. Len(s)
      BY <1>1, <2>2
    <3> QED BY <2>2, <3>1, AppendProperties
  <2> QED BY <2>1, <2>2
<1> HIDE DEF a
<1>4. a = [i \in 1 .. n |-> IF i = n THEN e ELSE s[i]]
  BY <1>2, <1>3
<1> QED BY <1>4 DEF a

(* The entry is written: the file becomes the last one kept.               *)
LEMMA WriteEntryDInv ==
  ASSUME IInv, IInv', DInv, WriteEntry
  PROVE  /\ DInv'
         /\ Kept' = Append(Kept, [name |-> name, content |-> files[name]])
<1>1. PICK j, p, f, c : j = slot /\ p = at /\ f = name /\ c = files[name]
  OBVIOUS
<1>2. /\ pc = "entry" /\ pc' = "args" /\ state = "archive"
      /\ header'.eop = EndOfFile
      /\ header'.block_count = header.block_count + 1
      /\ header'.file_size = [header.file_size EXCEPT ![j] = count]
      /\ header'.file_name = [header.file_name EXCEPT ![j] = p]
      /\ body' = body
  BY <1>1 DEF WriteEntry, process, IInv, TypeOK
<1>3. /\ f \in Names /\ c \in Seq(Byte) /\ j \in Entries \ Used
      /\ j = header.block_count + 1 /\ header.block_count \in Nat
      /\ Used = 1 .. header.block_count /\ Used' = 1 .. j
      /\ header.file_name \in [Entries -> Nat] /\ header.file_size \in [Entries -> Nat]
      /\ p \in Nat /\ p >= HeaderSize
  <2>1. f \in Names /\ c \in Seq(Byte) /\ j \in Entries \ Used /\ p \in Nat /\ p >= HeaderSize
    BY <1>1, <1>2 DEF IInv, TypeOK, PlaceInv
  <2>2. j = header.block_count + 1 /\ header.block_count \in Nat /\ Used = 1 .. header.block_count
    BY <1>1, <1>2, ArchiveAssumption DEF IInv, TypeOK, CountInv, PlaceInv
  <2>3. Used' = 1 .. j
    BY <1>2, <2>2 DEF IInv, CountInv
  <2>4. header.file_name \in [Entries -> Nat] /\ header.file_size \in [Entries -> Nat]
    BY DEF IInv, TypeOK
  <2> QED BY <2>1, <2>2, <2>3, <2>4
<1>4. Grows
  BY <1>2 DEF Grows, IInv, TypeOK
<1>5. ASSUME NEW i \in Used
      PROVE  /\ header'.file_name[i] = header.file_name[i]
             /\ header'.file_size[i] = header.file_size[i]
  BY <1>2, <1>3, <1>5 DEF Used
<1>6. \A i \in Used : /\ \E g \in Names, d \in Seq(Byte) :
                            /\ Whole(header.file_name[i], g, d)'
                            /\ header'.file_size[i] = Len(d)
                      /\ Entry(i)' = Entry(i)
                      /\ EndOf(i)' = EndOf(i)
  BY <1>2, <1>4, <1>5, GrowthKeepsEntry DEF DInv
<1>7. /\ Whole(p, f, c) /\ count = Len(c)
      /\ EndOfFile = p + Len(f) + Len(c) + 2
      /\ \A i \in Used : EndOf(i) <= p
  BY <1>1, <1>2 DEF DInv, CopyInv
<1>8. header'.file_name[j] = p /\ header'.file_size[j] = Len(c)
  BY <1>2, <1>3, <1>7
<1>9. Whole(header.file_name[j], f, c)'
  <2>1. Whole(p, f, c)'
    BY <1>2, <1>7 DEF Whole, Holds, EndOfFile, ByteAt, Padding
  <2> QED BY <1>8, <2>1 DEF Whole, Holds, ByteAt
<1>10. Entry(j)' = [name |-> f, content |-> c] /\ EndOf(j)' = EndOfFile
  <2>1. ReadBack'
    BY EntryReadBack, PTL
  <2>2. /\ StringAt(header.file_name[j])' = f /\ Content(j)' = c
        /\ EndOf(j)' = p + Len(f) + Len(c) + 2
    BY <1>3, <1>8, <1>9, <2>1 DEF ReadBack, IInv
  <2> QED BY <1>7, <2>2 DEF Entry
<1>11. WholeInv'
  <2>1. \A i \in Used' : i \in Used \/ i = j
    BY <1>3
  <2>2. \A i \in Used' : \E g \in Names, d \in Seq(Byte) :
                            Whole(header.file_name[i], g, d)' /\ header'.file_size[i] = Len(d)
    BY <1>3, <1>6, <1>8, <1>9, <2>1
  <2> QED BY <2>2 DEF WholeInv
<1>12. OrderInv'
  <2>1. ASSUME NEW i \in Used', i > 1 PROVE EndOf(i - 1)' <= header'.file_name[i]
    <3>1. i - 1 \in Used
      BY <1>3, <2>1
    <3>2. EndOf(i - 1)' = EndOf(i - 1)
      BY <1>6, <3>1
    <3>3. CASE i \in Used
      BY <1>2, <1>5, <2>1, <3>2, <3>3 DEF DInv, OrderInv
    <3>4. CASE i = j
      BY <1>7, <1>8, <3>1, <3>2, <3>4
    <3> QED BY <1>3, <2>1, <3>3, <3>4
  <2>2. header'.eop = EndOf(j)' /\ header'.block_count = j /\ j # 0
    BY <1>2, <1>3, <1>10
  <2> QED BY <2>1, <2>2 DEF OrderInv
<1>13. CopyInv'
  BY <1>2 DEF CopyInv
<1>14. Kept' = Append(Kept, [name |-> f, content |-> c])
  <2>1. Cardinality(Used) = j - 1 /\ Cardinality(Used') = j /\ j \in Nat
    <3>1. j - 1 \in Nat /\ j \in Nat
      BY <1>3
    <3>2. Cardinality(1 .. j - 1) = j - 1 /\ Cardinality(1 .. j) = j
      BY <3>1, FS_Interval
    <3>3. Used = 1 .. j - 1
      BY <1>3
    <3> QED BY <1>3, <3>1, <3>2, <3>3
  <2>2. Kept = [i \in 1 .. j - 1 |-> Entry(i)]
    BY <2>1 DEF Kept
  <2>3. Kept' = [i \in 1 .. j |-> Entry(i)']
    BY <2>1 DEF Kept
  <2>4. \A i \in 1 .. j - 1 : Entry(i)' = Entry(i)
    BY <1>3, <1>6
  <2> DEFINE e == [name |-> f, content |-> c]
             T == {Entry(i) : i \in 1 .. j - 1} \cup {e}
  <2>5. Kept \in Seq(T) /\ Len(Kept) = j - 1 /\ e \in T
    BY <1>3, <2>1, <2>2
  <2>6. Append(Kept, e) = [i \in 1 .. j |-> IF i = j THEN e ELSE Kept[i]]
    <3>1. j - 1 + 1 = j
      BY <2>1
    <3> HIDE DEF e, T
    <3> QED BY <2>5, <3>1, AppendIs
  <2>7. \A i \in 1 .. j : Entry(i)' = IF i = j THEN e ELSE Kept[i]
    BY <1>10, <2>1, <2>2, <2>4
  <2> QED BY <2>3, <2>6, <2>7
<1> QED BY <1>1, <1>11, <1>12, <1>13, <1>14 DEF DInv

-----------------------------------------------------------------------------
(* The steps that leave the archive's file alone and add no file to it.    *)
Quiet == \/ \E f \in Names : \E c \in Contents[f] : Write(f, c)
         \/ \E f \in Names \cup Junk : Remove(f)
         \/ \E list : AppendFiles(list) /\ state # "absent"
         \/ Delete \/ Unpack \/ NoMoreFiles
         \/ \E f \in Names : Missing(f) \/ Refused(f) \/ (NoSlot(f) /\ UNCHANGED disk)
         \/ Finished \/ PassOver \/ (\E f \in Intact \cup Junk : Extract(f)) \/ ExtractByte
         \/ Kill

(* Those after which it is no archive: it is removed or spoilt, or an      *)
(* empty file has been made.                                               *)
Spoils == \E f \in Names : (NoSlot(f) /\ state' = "broken") \/ NoHeader(f)
Makes == \E list : AppendFiles(list) /\ state = "absent"

(* A step is one of these, or takes part in adding a file.                 *)
LEMMA Steps ==
  ASSUME [Next]_vars
  PROVE  \/ UNCHANGED vars \/ Quiet \/ RemoveArchive \/ Spoils \/ Makes \/ addHeader
         \/ \E f \in Names : AddFile(f)
         \/ WriteName \/ CopyByte \/ WriteEntry
<1>1. CASE User
  BY <1>1 DEF User, Quiet, Makes
<1>2. CASE Program
  <2>1. ASSUME NEW f \in Names, NoSlot(f) PROVE UNCHANGED disk \/ state' = "broken"
    BY <2>1 DEF NoSlot
  <2> QED BY <1>2, <2>1 DEF Program, Quiet, Spoils
<1> QED BY <1>1, <1>2 DEF Next, Quiet

LEMMA QuietSteps == ASSUME IInv, Quiet PROVE UNCHANGED disk /\ pc' \notin Adding
<1>1. CASE Delete \/ Unpack \/ NoMoreFiles \/ Finished \/ PassOver \/ ExtractByte \/ Kill
  BY <1>1 DEF Delete, Unpack, Give, NoMoreFiles, Finished, PassOver, ExtractByte, CopyWhile,
     NextEntry, Kill, End, Adding
<1>2. CASE \E f \in Names : \E c \in Contents[f] : Write(f, c)
  BY <1>2 DEF Write, Adding
<1>3. CASE \E f \in Names \cup Junk : Remove(f)
  BY <1>3 DEF Remove, Adding
<1>4. CASE \E list : AppendFiles(list) /\ state # "absent"
  BY <1>4 DEF AppendFiles, Adding, disk
<1>5. CASE \E f \in Names : Missing(f) \/ Refused(f) \/ (NoSlot(f) /\ UNCHANGED disk)
  BY <1>5 DEF Missing, Refused, NoSlot, Accepted, Considers, End, Adding
<1>6. CASE \E f \in Intact \cup Junk : Extract(f)
  BY <1>6 DEF Extract, Start, End, Adding
<1> QED BY <1>1, <1>2, <1>3, <1>4, <1>5, <1>6 DEF Quiet

LEMMA MakesAndSpoils ==
  /\ Makes => /\ state = "absent" /\ state' = "empty" /\ pc' \notin Adding
              /\ UNCHANGED <<files, header, body>>
  /\ Spoils => /\ state' = "broken" /\ pc' \notin Adding /\ UNCHANGED files
               /\ \/ state = "empty"
                  \/ state = "archive" /\ Used = Entries
  /\ RemoveArchive => state' = "absent" /\ UNCHANGED <<files, pc>> /\ pc = "idle"
<1>1. ASSUME NEW list, AppendFiles(list), state = "absent"
      PROVE  /\ state' = "empty" /\ pc' \notin Adding
             /\ UNCHANGED <<files, header, body>>
  BY <1>1 DEF AppendFiles, Adding
<1>2. ASSUME NEW f \in Names, NoSlot(f), state' = "broken"
      PROVE  /\ pc' \notin Adding /\ UNCHANGED files
             /\ state = "archive" /\ Used = Entries
  BY <1>2 DEF NoSlot, Accepted, Considers, End, Adding
<1>3. ASSUME NEW f \in Names, NoHeader(f)
      PROVE  state' = "broken" /\ pc' \notin Adding /\ UNCHANGED files /\ state = "empty"
  BY <1>3 DEF NoHeader, Accepted, Considers, End, Adding
<1>4. RemoveArchive => state' = "absent" /\ UNCHANGED <<files, pc>> /\ pc = "idle"
  BY DEF RemoveArchive
<1>5. Makes => /\ state = "absent" /\ state' = "empty" /\ pc' \notin Adding
               /\ UNCHANGED <<files, header, body>>
  BY <1>1 DEF Makes
<1>6. Spoils => /\ state' = "broken" /\ pc' \notin Adding /\ UNCHANGED files
                /\ \/ state = "empty"
                   \/ state = "archive" /\ Used = Entries
  BY <1>2, <1>3 DEF Spoils
<1> QED BY <1>4, <1>5, <1>6

(* Every step keeps the entries whole and in order.                        *)
LEMMA NextDInv == IInv /\ IInv' /\ DInv /\ [Next]_vars => DInv'
<1> SUFFICES ASSUME IInv, IInv', DInv, [Next]_vars PROVE DInv'
  OBVIOUS
<1>1. CASE UNCHANGED vars
  <2>1. WholeInv' /\ OrderInv'
    BY <1>1 DEF vars, DInv, WholeInv, OrderInv, Whole, Holds, EndOf, DataEnd, Length, EndOfFile, ByteAt, Used
  <2>2. UNCHANGED <<files, pc, name, at, count, byte, Used, EndOfFile>>
    BY <1>1 DEF vars, Used, EndOfFile
  <2>3. UNCHANGED <<body, header>>
    BY <1>1 DEF vars
  <2>4. pc' = "name" => at' = EndOfFile' /\ count' = 0 /\ byte' = 0
    BY <2>2 DEF DInv, CopyInv
  <2>5. pc' = "copy" => \/ /\ count' = 0 /\ byte' = 0
                           /\ EndOfFile' = at' + Len(name')
                           /\ \A k \in 1 .. Len(name') : ByteAt(at + k - 1)' = name'[k]
                        \/ /\ count' \in 1 .. Len(files'[name'])
                           /\ byte' = files'[name'][count']
                           /\ EndOfFile' = at' + Len(name') + 1 + count'
                           /\ Holds(at, name, files[name], count)'
    BY <2>2, <2>3 DEF DInv, CopyInv, Holds, ByteAt, EndOfFile
  <2>6. pc' = "entry" => /\ count' = Len(files'[name'])
                         /\ EndOfFile' = at' + Len(name') + count' + 2
                         /\ Whole(at, name, files[name])'
    BY <2>2, <2>3 DEF DInv, CopyInv, Whole, Holds, ByteAt, EndOfFile, Padding
  <2>7. \A i \in Used : /\ EndOf(i)' = EndOf(i)
                        /\ StringAt(header.file_name[i])' = StringAt(header.file_name[i])
    BY <2>3 DEF EndOf, DataEnd, StringAt, Length, EndOfFile, ByteAt
  <2>8. pc' \in Adding =>
           \A i \in Used' : /\ EndOf(i)' <= at'
                            /\ name' \in Intact => StringAt(header.file_name[i])' # name'
    BY <2>2, <2>7 DEF DInv, CopyInv, Adding
  <2>9. CopyInv'
    BY <2>4, <2>5, <2>6, <2>8 DEF CopyInv, Adding
  <2> QED BY <2>1, <2>9 DEF DInv
<1>2. CASE Quiet
  BY <1>2, QuietSteps, QuietDInv
<1>3. CASE RemoveArchive \/ Spoils \/ Makes
  <2>1. state' # "archive" /\ pc' \notin Adding
    BY <1>3, MakesAndSpoils DEF Adding
  <2> QED BY <2>1, NoArchiveDInv
<1>4. CASE addHeader
  BY <1>4, HeaderDInv
<1>5. CASE \E f \in Names : AddFile(f)
  BY <1>5, AddFileDInv
<1>6. CASE WriteName \/ CopyByte \/ WriteEntry
  BY <1>6, WriteNameDInv, CopyByteDInv, WriteEntryDInv
<1> QED BY <1>1, <1>2, <1>3, <1>4, <1>5, <1>6, Steps

(* The entries are whole and in order, however commands are killed.        *)
THEOREM EntriesWhole == Spec => [](IInv /\ DInv)
<1>1. Init => IInv /\ DInv
  BY InitIInv, InitDInv
<1>2. IInv /\ DInv /\ [Next]_vars => IInv' /\ DInv'
  BY NextIInv, NextDInv
<1> QED BY <1>1, <1>2, PTL DEF Spec

(* Whatever commands were killed, the header describes the bytes behind it *)
(* (tar.h:11, ctar.c:276-296): each entry names a file and its data, none  *)
(* overlaps another, eop has all of them before it and lies in the file.   *)
THEOREM DescribedByHeader == Spec => []HeaderDescribes
<1>1. IInv /\ DInv => HeaderDescribes
  <2> SUFFICES ASSUME IInv, DInv, state = "archive"
               PROVE  LET last == Cardinality(Used)
                      IN /\ Used = 1 .. last
                         /\ header.block_count = last
                         /\ \A i \in Used :
                               /\ header.file_name[i] >= IF i = 1 THEN HeaderSize ELSE DataEnd(i - 1)
                               /\ StringAt(header.file_name[i]) \in Names
                               /\ DataEnd(i) <= EndOfFile
                         /\ header.eop >= IF last = 0 THEN HeaderSize ELSE DataEnd(last)
                         /\ header.eop <= EndOfFile
    BY DEF HeaderDescribes
  <2>1. header.block_count \in Nat /\ Used = 1 .. header.block_count
    BY ArchiveAssumption DEF IInv, TypeOK, CountInv
  <2>2. Cardinality(Used) = header.block_count
    BY <2>1, FS_Interval
  <2>3. ASSUME NEW i \in Used
        PROVE  /\ DataEnd(i) \in Nat /\ EndOf(i) = DataEnd(i) + 1 /\ EndOf(i) <= EndOfFile
               /\ StringAt(header.file_name[i]) \in Names
               /\ header.file_name[i] \in Nat /\ header.file_name[i] >= HeaderSize
    <3>1. PICK f \in Names, c \in Seq(Byte) :
                Whole(header.file_name[i], f, c) /\ header.file_size[i] = Len(c)
      BY DEF DInv, WholeInv
    <3>2. i \in Entries /\ header.file_name[i] \in Nat
      BY DEF Used, IInv, TypeOK
    <3>3. /\ StringAt(header.file_name[i]) = f /\ EndOf(i) <= EndOfFile
          /\ EndOf(i) = header.file_name[i] + Len(f) + Len(c) + 2
      BY <3>1, <3>2, EntryReadBack DEF ReadBack, IInv
    <3>4. header.file_name[i] >= HeaderSize
      BY <3>1 DEF Whole, Holds
    <3>5. DataEnd(i) = header.file_name[i] + Length(header.file_name[i]) + 1 + Len(c)
      BY <3>1 DEF DataEnd
    <3>6. Length(header.file_name[i]) = Len(f)
      BY <3>1, <3>2, EntryReadBack DEF ReadBack, IInv
    <3>7. Len(f) \in Nat /\ Len(c) \in Nat
      BY NamesTyped
    <3>8. DataEnd(i) \in Nat
      BY <3>2, <3>5, <3>6, <3>7
    <3> QED BY <3>2, <3>3, <3>4, <3>8 DEF EndOf
  <2>4. EndOfFile \in Nat
    BY EndTyped
  <2>5. ASSUME NEW i \in Used
        PROVE  /\ header.file_name[i] >= IF i = 1 THEN HeaderSize ELSE DataEnd(i - 1)
               /\ StringAt(header.file_name[i]) \in Names
               /\ DataEnd(i) <= EndOfFile
    <3>1. i # 1 => i > 1
      BY <2>1
    <3>2. ASSUME i > 1 PROVE header.file_name[i] >= DataEnd(i - 1)
      <4>1. i - 1 \in Used
        BY <2>1, <3>2
      <4>2. EndOf(i - 1) <= header.file_name[i]
        BY <3>2 DEF DInv, OrderInv
      <4>3. EndOf(i - 1) = DataEnd(i - 1) + 1 /\ DataEnd(i - 1) \in Nat
        BY <2>3, <4>1
      <4>4. header.file_name[i] \in Nat
        BY <2>3
      <4> QED BY <4>2, <4>3, <4>4
    <3>3. DataEnd(i) <= EndOfFile
      BY <2>3, <2>4
    <3> QED BY <2>3, <3>1, <3>2, <3>3
  <2>6. header.eop = IF header.block_count = 0 THEN HeaderSize ELSE EndOf(header.block_count)
    BY DEF DInv, OrderInv
  <2>7. CASE header.block_count = 0
    <3>1. HeaderSize \in Nat /\ HeaderSize <= EndOfFile
      BY EndTyped, ArchiveAssumption
    <3> QED BY <2>1, <2>2, <2>5, <2>6, <2>7, <3>1
  <2>8. CASE header.block_count # 0
    <3> DEFINE last == header.block_count
    <3>1. last \in Used
      BY <2>1, <2>8
    <3>2. /\ header.eop = DataEnd(last) + 1 /\ DataEnd(last) \in Nat
          /\ header.eop <= EndOfFile
      BY <2>3, <2>6, <2>8, <3>1
    <3>3. header.eop >= DataEnd(last)
      BY <3>2
    <3> QED BY <2>1, <2>2, <2>5, <2>8, <3>2, <3>3
  <2> QED BY <2>7, <2>8
<1> QED BY <1>1, EntriesWhole, PTL

-----------------------------------------------------------------------------
(* The refinement.  What the archive's file is as a store: *)
Place == CASE state = "absent" -> "none"
           [] state = "broken" -> "spoilt"
           [] OTHER -> "good"
Row == IF state = "archive" THEN Kept ELSE <<>>

(* The bytes that stay keep what they say.                                 *)
LEMMA QuietKept == ASSUME UNCHANGED disk PROVE UNCHANGED <<Place, Row>>
<1>1. UNCHANGED <<state, header, body>>
  BY DEF disk
<1>2. UNCHANGED Kept
  BY <1>1 DEF Kept, Entry, Content, StringAt, Length, EndOfFile, ByteAt, Used
<1> QED BY <1>1, <1>2 DEF Place, Row

(* There are as many files in the row as the header counts.                *)
LEMMA RowLength ==
  ASSUME IInv, state = "archive"
  PROVE  /\ Row = Kept /\ Len(Row) = header.block_count
         /\ header.block_count \in Nat
         /\ \A i \in 1 .. Len(Row) : i \in Used /\ Row[i] = Entry(i)
<1>1. header.block_count \in Nat /\ Used = 1 .. header.block_count
  BY ArchiveAssumption DEF IInv, TypeOK, CountInv
<1>2. Cardinality(Used) = header.block_count
  BY <1>1, FS_Interval
<1> QED BY <1>1, <1>2 DEF Row, Kept

(* The steps of the store, in these terms.                                 *)
LEMMA StoreSteps ==
  /\ UNCHANGED <<Place, Row>> => Vault!StoreNext
  /\ Place = "none" /\ Place' = "good" /\ UNCHANGED <<files, Row>> => Vault!StoreNext
  /\ Place' = "none" /\ Row' = <<>> /\ UNCHANGED files => Vault!StoreNext
  /\ Place = "good" /\ Place' = "spoilt" /\ Row' = <<>> /\ Len(Row) \in {0, Slots}
        /\ UNCHANGED files => Vault!StoreNext
  /\ \A n \in Names :
        /\ Place = "good" /\ n \in DOMAIN files /\ Len(Row) < Slots
        /\ n \in Intact => \A k \in 1 .. Len(Row) : Row[k].name # n
        /\ Row' = Append(Row, [name |-> n, content |-> files[n]])
        /\ UNCHANGED <<files, Place>>
        => Vault!StoreNext
<1>1. UNCHANGED <<Place, Row>> => Vault!Change
  BY DEF Place, Row, Vault!Change
<1>2. Place = "none" /\ Place' = "good" /\ UNCHANGED <<files, Row>> => Vault!Create
  BY DEF Place, Row, Vault!Create
<1>3. Place' = "none" /\ Row' = <<>> /\ UNCHANGED files => Vault!Discard
  BY DEF Place, Row, Vault!Discard
<1>4. Place = "good" /\ Place' = "spoilt" /\ Row' = <<>> /\ Len(Row) \in {0, Slots}
        /\ UNCHANGED files => Vault!Spoil
  BY DEF Place, Row, Vault!Spoil
<1>5. \A n \in Names :
        /\ Place = "good" /\ n \in DOMAIN files /\ Len(Row) < Slots
        /\ n \in Intact => \A k \in 1 .. Len(Row) : Row[k].name # n
        /\ Row' = Append(Row, [name |-> n, content |-> files[n]])
        /\ UNCHANGED <<files, Place>>
        => Vault!Add(n)
  BY DEF Place, Row, Vault!Add
<1> QED BY <1>1, <1>2, <1>3, <1>4, <1>5 DEF Vault!StoreNext

(* A file whose entry is written is added to the row.                      *)
LEMMA EntryAdds ==
  ASSUME IInv, IInv', DInv, WriteEntry
  PROVE  Vault!StoreNext
<1>1. /\ pc = "entry" /\ state = "archive" /\ UNCHANGED <<files, state>>
      /\ name \in Names /\ name \in DOMAIN files
      /\ slot \in Entries /\ slot = header.block_count + 1
  BY DEF WriteEntry, IInv, TypeOK, PlaceInv
<1>2. Row' = Append(Row, [name |-> name, content |-> files[name]])
  BY <1>1, WriteEntryDInv DEF Row
<1>3. Len(Row) < Slots
  BY <1>1, RowLength, ArchiveAssumption DEF Entries
<1>4. ASSUME name \in Intact, NEW k \in 1 .. Len(Row) PROVE Row[k].name # name
  <2>1. k \in Used /\ Row[k].name = StringAt(header.file_name[k])
    <3>1. k \in Used /\ Row[k] = Entry(k)
      BY <1>1, RowLength
    <3>2. Entry(k).name = StringAt(header.file_name[k])
      BY DEF Entry
    <3> QED BY <3>1, <3>2
  <2> QED BY <1>1, <1>4, <2>1 DEF DInv, CopyInv
<1>5. Place = "good" /\ UNCHANGED Place
  BY <1>1 DEF Place
<1> QED BY <1>1, <1>2, <1>3, <1>4, <1>5, StoreSteps

(* Every step is one of the store, or none of it.                          *)
LEMMA NextStore ==
  IInv /\ IInv' /\ DInv /\ [Next]_vars => Vault!StoreNext
<1> SUFFICES ASSUME IInv, IInv', DInv, [Next]_vars PROVE Vault!StoreNext
  OBVIOUS
<1>1. CASE UNCHANGED disk
  BY <1>1, QuietKept, StoreSteps
<1>2. CASE UNCHANGED vars
  BY <1>1, <1>2 DEF vars, disk
<1>3. CASE Quiet
  BY <1>1, <1>3, QuietSteps
<1>4. CASE Makes
  BY <1>4, MakesAndSpoils, StoreSteps DEF Place, Row
<1>5. CASE RemoveArchive
  BY <1>5, MakesAndSpoils, StoreSteps DEF Place, Row
<1>6. CASE Spoils
  <2>1. Len(Row) \in {0, Slots}
    <3>1. CASE state = "empty"
      BY <3>1 DEF Row
    <3>2. CASE state = "archive" /\ Used = Entries
      <4>1. header.block_count = Slots
        BY <3>2, ArchiveAssumption DEF IInv, TypeOK, CountInv, Entries
      <4> QED BY <3>2, <4>1, RowLength
    <3> QED BY <1>6, <3>1, <3>2, MakesAndSpoils
  <2> QED BY <1>6, <2>1, MakesAndSpoils, StoreSteps DEF Place, Row
<1>7. CASE addHeader
  <2>1. state = "empty" /\ state' = "archive" /\ header' = EmptyHeader
    BY <1>7 DEF addHeader, IInv, PlaceInv
  <2>2. Used' = {}
    BY <2>1, EmptyTyped DEF Used
  <2>3. Kept' = <<>>
    BY <2>2, FS_EmptySet DEF Kept
  <2> QED BY <2>1, <2>3, StoreSteps DEF Place, Row
<1>8. CASE \E f \in Names : AddFile(f)
  BY <1>1, <1>8 DEF AddFile
<1>9. CASE WriteName \/ CopyByte
  <2>1. Kept' = Kept
    BY <1>9, WriteNameDInv, CopyByteDInv
  <2>2. UNCHANGED state
    BY <1>9 DEF WriteName, CopyByte, CopyFrom
  <2> QED BY <2>1, <2>2, StoreSteps DEF Place, Row
<1>10. CASE WriteEntry
  BY <1>10, EntryAdds
<1> QED BY <1>2, <1>3, <1>4, <1>5, <1>6, <1>7, <1>8, <1>9, <1>10, Steps

(* The archive implements the store of whole files: entries are added one  *)
(* at a time with what the file contains, no recognisable name twice, and  *)
(* stay as they are whatever is killed (ctar.c:203, tar.c:179).            *)
THEOREM Refinement == Spec => KeepsWholeFiles
<1>1. Init => Vault!StoreInit
  BY DEF Init, Vault!StoreInit
<1> QED BY <1>1, EntriesWhole, NextStore, PTL DEF Spec, KeepsWholeFiles, Vault!StoreSpec

-----------------------------------------------------------------------------
(* What utar has to make of the entry i, and what it is called.            *)
Text(i) == StringAt(header.file_name[i])
Padded(i) == Append(Content(i), Padding(Content(i)))
Unpacking == {"unpack", "extract"}

(* The entries behind utar have been unpacked, as far as they are straight. *)
DoneInv == pc \in Unpacking =>
              /\ state = "archive"
              /\ \A i \in Used : i < slot /\ Straight(i) =>
                    Text(i) \in DOMAIN files /\ files[Text(i)] = Padded(i)

(* It is where the next of them begins, if that follows without a gap.     *)
NextInv == pc = "unpack" /\ slot \in Used /\ Straight(slot) => at = header.file_name[slot]

(* The file it is writing is none of those, and has the bytes that it has  *)
(* passed.                                                                 *)
WriteInv ==
    pc = "extract" =>
        /\ slot \in Used
        /\ \A i \in Used : i < slot /\ Straight(i) => Text(i) # name
        /\ Straight(slot) =>
              /\ name = Text(slot) /\ name \in DOMAIN files
              /\ count <= header.file_size[slot] + 1
              /\ at = header.file_name[slot] + Len(name) + 1 + count
              /\ files[name] = SubSeq(Padded(slot), 1, count)

UInv == DoneInv /\ NextInv /\ WriteInv

-----------------------------------------------------------------------------
(* What an entry says, byte by byte.                                       *)
LEMMA EntryBytes ==
  ASSUME IInv, DInv, state = "archive", NEW i \in Used
  PROVE  /\ i \in Entries /\ header.file_name[i] \in Nat /\ header.file_name[i] >= HeaderSize
         /\ Text(i) \in Names /\ Len(Text(i)) \in Nat
         /\ header.file_size[i] \in Nat
         /\ Padded(i) \in Seq(Byte) /\ Len(Padded(i)) = header.file_size[i] + 1
         /\ EndOf(i) = header.file_name[i] + Len(Text(i)) + header.file_size[i] + 2
         /\ EndOf(i) <= EndOfFile
         /\ \A k \in 1 .. header.file_size[i] + 1 :
               ByteAt(header.file_name[i] + Len(Text(i)) + k) = Padded(i)[k]
<1>1. PICK f \in Names, c \in Seq(Byte) :
            Whole(header.file_name[i], f, c) /\ header.file_size[i] = Len(c)
  BY DEF DInv, WholeInv
<1> DEFINE p == header.file_name[i]
<1>2. i \in Entries /\ p \in Nat /\ Len(f) \in Nat /\ Len(c) \in Nat
  BY NamesTyped DEF Used, IInv, TypeOK
<1>3. /\ Text(i) = f /\ Content(i) = c
      /\ EndOf(i) = p + Len(f) + Len(c) + 2 /\ EndOf(i) <= EndOfFile
  BY <1>1, <1>2, EntryReadBack DEF ReadBack, IInv, Text
<1>4. /\ p >= HeaderSize
      /\ \A k \in 1 .. Len(c) : ByteAt(p + Len(f) + k) = c[k]
      /\ ByteAt(p + Len(f) + Len(c) + 1) = Padding(c)
  BY <1>1 DEF Whole, Holds
<1>5. Padding(c) \in Byte
  BY <1>2, ArchiveAssumption DEF Padding
<1>6. Padded(i) = Append(c, Padding(c))
  BY <1>3 DEF Padded
<1>7. /\ Padded(i) \in Seq(Byte) /\ Len(Padded(i)) = Len(c) + 1
      /\ \A k \in 1 .. Len(c) : Padded(i)[k] = c[k]
      /\ Padded(i)[Len(c) + 1] = Padding(c)
  BY <1>5, <1>6
<1> HIDE DEF p
<1>8. ASSUME NEW k \in 1 .. Len(c) + 1 PROVE ByteAt(p + Len(f) + k) = Padded(i)[k]
  <2>1. CASE k \in 1 .. Len(c)
    BY <1>4, <1>7, <2>1
  <2>2. CASE k = Len(c) + 1
    <3>1. p + Len(f) + k = p + Len(f) + Len(c) + 1
      BY <1>2, <2>2 DEF p
    <3> QED BY <1>4, <1>7, <2>2, <3>1
  <2> QED BY <1>2, <2>1, <2>2
<1> QED BY <1>1, <1>2, <1>3, <1>4, <1>7, <1>8 DEF p

(* While utar runs, the archive is not touched, and says what it said.     *)
LEMMA DiskKeeps ==
  ASSUME UNCHANGED disk
  PROVE  /\ Used' = Used /\ EndOfFile' = EndOfFile
         /\ UNCHANGED <<state, header>>
         /\ \A i : /\ Text(i)' = Text(i) /\ Padded(i)' = Padded(i)
                   /\ Straight(i)' = Straight(i) /\ EndOf(i)' = EndOf(i)
<1>1. UNCHANGED <<state, header, body>>
  BY DEF disk
<1>2. Used' = Used /\ EndOfFile' = EndOfFile
  BY <1>1 DEF Used, EndOfFile
<1>3. ASSUME NEW i PROVE Text(i)' = Text(i) /\ Padded(i)' = Padded(i) /\ EndOf(i)' = EndOf(i)
  BY <1>1 DEF Text, StringAt, Padded, Content, EndOf, DataEnd, Length, EndOfFile, ByteAt
<1>4. ASSUME NEW i PROVE Straight(i)' = Straight(i)
  BY <1>1 DEF Straight, StringAt, EndOf, DataEnd, Length, EndOfFile, ByteAt
<1> QED BY <1>1, <1>2, <1>3, <1>4

(* Entries that are straight up to one are so up to those before it.       *)
LEMMA StraightBefore ==
  ASSUME NEW i \in Nat, NEW j \in 1 .. i, Straight(i)
  PROVE  /\ Straight(j) /\ Text(j) \in Intact
         /\ header.file_name[j] = IF j = 1 THEN HeaderSize ELSE EndOf(j - 1)
<1>1. \A k \in 1 .. j : k \in 1 .. i
  OBVIOUS
<1> QED BY <1>1 DEF Straight, Text

(* No command of ctar is one of utar.                                      *)
LEMMA NotUnpacking == pc' \notin Unpacking => UInv'
  BY DEF UInv, DoneInv, NextInv, WriteInv, Unpacking

LEMMA UnpackUInv == ASSUME Unpack PROVE UInv'
<1>1. state' = "archive" /\ pc' = "unpack" /\ slot' = 1 /\ at' = HeaderSize
  BY DEF Unpack, disk
<1>2. DoneInv'
  <2>1. \A i \in Used' : ~(i < 1)
    BY DEF Used, Entries
  <2> QED BY <1>1, <2>1 DEF DoneInv
<1>3. ASSUME Straight(slot)' PROVE header'.file_name[1] = HeaderSize
  BY <1>1, <1>3 DEF Straight
<1>4. NextInv' /\ WriteInv'
  BY <1>1, <1>3 DEF NextInv, WriteInv
<1> QED BY <1>2, <1>4 DEF UInv

(* The entries that are used come first: behind one that is not there are  *)
(* none.                                                                   *)
LEMMA PassOverUInv == ASSUME IInv, UInv, PassOver PROVE UInv'
<1>1. /\ pc = "unpack" /\ pc' = "unpack" /\ slot \in Entries \ Used /\ slot' = slot + 1
      /\ UNCHANGED <<files, disk>>
  BY DEF PassOver
<1>2. Used = 1 .. header.block_count /\ header.block_count \in Nat /\ slot \in Nat
  BY <1>1, ArchiveAssumption DEF IInv, TypeOK, CountInv, Entries
<1>3. slot' \notin Used /\ \A i \in Used : i < slot
  BY <1>1, <1>2 DEF Entries
<1>4. DoneInv'
  BY <1>1, <1>3, DiskKeeps DEF UInv, DoneInv, Unpacking
<1>5. NextInv' /\ WriteInv'
  BY <1>1, <1>3, DiskKeeps DEF NextInv, WriteInv
<1> QED BY <1>4, <1>5 DEF UInv

(* A file that is not there is begun, with no bytes.                       *)
LEMMA ExtractUInv ==
  ASSUME IInv, DInv, UInv, NEW f \in Intact \cup Junk, Extract(f)
  PROVE  UInv'
<1>1. CASE End
  BY <1>1, NotUnpacking DEF End, Unpacking
<1>2. CASE f \notin DOMAIN files /\ Start(f)
  <2>1. /\ pc = "unpack" /\ slot \in Used /\ f \in getFilename(header.file_name[slot])
        /\ name' = f /\ files' = (IF f = <<>> THEN files ELSE Stored(f, <<>>))
        /\ at' = at + Len(f) + 1 /\ count' = 0 /\ pc' = "extract"
        /\ UNCHANGED <<disk, slot>>
    BY <1>2 DEF Extract, Start
  <2>2. /\ state = "archive"
        /\ \A i \in Used : i < slot /\ Straight(i) =>
              Text(i) \in DOMAIN files /\ files[Text(i)] = Padded(i)
    BY <2>1 DEF UInv, DoneInv, Unpacking
  <2>3. \A i \in Used : i < slot /\ Straight(i) => Text(i) # f
    BY <1>2, <2>2
  <2>4. \A g \in DOMAIN files : g \in DOMAIN files' /\ (g # f => files'[g] = files[g])
    BY <2>1 DEF Stored
  <2>5. DoneInv'
    <3>1. \A i \in Used : i < slot /\ Straight(i) =>
              Text(i) \in DOMAIN files' /\ files'[Text(i)] = Padded(i)
      BY <2>2, <2>3, <2>4
    <3> QED BY <2>1, <2>2, <3>1, DiskKeeps DEF DoneInv
  <2>6. ASSUME Straight(slot)
        PROVE  /\ f = Text(slot) /\ f \in DOMAIN files' /\ files'[f] = <<>>
               /\ at' = header.file_name[slot] + Len(f) + 1 + 0
               /\ 0 <= header.file_size[slot] + 1
    <3>1. slot \in Nat /\ slot \in 1 .. slot
      BY <2>1, ArchiveAssumption DEF Used, Entries
    <3>2. Text(slot) \in Intact
      BY <2>6, <3>1, StraightBefore
    <3>3. f = Text(slot)
      BY <2>1, <3>2 DEF getFilename, Text
    <3>4. f # <<>>
      BY <3>2, <3>3, ArchiveAssumption
    <3>5. f \in DOMAIN files' /\ files'[f] = <<>>
      BY <2>1, <3>4 DEF Stored
    <3>6. at = header.file_name[slot]
      BY <2>1, <2>6 DEF UInv, NextInv
    <3>7. /\ header.file_name[slot] \in Nat /\ header.file_size[slot] \in Nat
          /\ Len(f) \in Nat
      BY <2>1, <2>2, <3>3, EntryBytes
    <3> QED BY <2>1, <3>3, <3>5, <3>6, <3>7
  <2>7. SubSeq(Padded(slot), 1, 0) = <<>>
    BY <2>1, <2>2, EntryBytes
  <2>8. WriteInv'
    BY <2>1, <2>3, <2>6, <2>7, DiskKeeps DEF WriteInv
  <2>9. NextInv'
    BY <2>1 DEF NextInv
  <2> QED BY <2>5, <2>8, <2>9 DEF UInv
<1> QED BY <1>1, <1>2 DEF Extract

(* A byte is written: the one that follows in the entry, up to the padding. *)
LEMMA ExtractByteUInv == ASSUME IInv, DInv, UInv, ExtractByte PROVE UInv'
<1>1. /\ pc = "extract" /\ UNCHANGED <<disk, name>> /\ slot \in Used /\ state = "archive"
      /\ \A i \in Used : i < slot /\ Straight(i) =>
            /\ Text(i) \in DOMAIN files /\ files[Text(i)] = Padded(i)
            /\ Text(i) # name
  BY DEF ExtractByte, CopyWhile, UInv, DoneInv, WriteInv, Unpacking
<1> DEFINE p == header.file_name[slot]
           size == header.file_size[slot]
           text == Text(slot)
           q == Padded(slot)
<1>2. /\ slot \in Nat /\ p \in Nat /\ size \in Nat /\ Len(text) \in Nat
      /\ q \in Seq(Byte) /\ Len(q) = size + 1
      /\ EndOf(slot) = p + Len(text) + size + 2 /\ EndOf(slot) <= EndOfFile
      /\ \A k \in 1 .. size + 1 : ByteAt(p + Len(text) + k) = q[k]
  BY <1>1, EntryBytes, ArchiveAssumption DEF Entries
<1>3. count \in Nat /\ at \in Nat /\ EndOfFile \in Nat
  BY EndTyped DEF IInv, TypeOK
<1>4. Straight(slot) => /\ name = text /\ name \in DOMAIN files
                        /\ count <= size + 1
                        /\ at = p + Len(name) + 1 + count
                        /\ files[name] = SubSeq(q, 1, count)
  BY <1>1 DEF UInv, WriteInv
<1> HIDE DEF p, size, text, q
<1>5. ASSUME NEW i \in Used, i < slot, Straight(i)
      PROVE  Text(i) \in DOMAIN files' /\ files'[Text(i)] = Padded(i)
  <2>1. ASSUME NEW b, Put(b)
        PROVE  Text(i) \in DOMAIN files' /\ files'[Text(i)] = Padded(i)
    BY <1>1, <1>5, <2>1 DEF Put
  <2>2. UNCHANGED files \/ \E b : Put(b)
    BY DEF ExtractByte, CopyWhile
  <2> QED BY <1>1, <1>5, <2>1, <2>2
(* The count is past the size: the entry is done. *)
<1>6. CASE ~(count <= size) /\ NextEntry /\ UNCHANGED <<files, at, count>>
  <2>1. ASSUME Straight(slot)
        PROVE  /\ text \in DOMAIN files' /\ files'[text] = q
               /\ at' = EndOf(slot)
    <3>1. count = size + 1
      BY <1>2, <1>3, <1>4, <1>6, <2>1
    <3>2. SubSeq(q, 1, count) = q
      BY <1>2, <3>1
    <3> QED BY <1>2, <1>4, <1>6, <2>1, <3>1, <3>2
  <2>2. /\ pc' = "unpack" /\ slot' = slot + 1
    BY <1>6 DEF NextEntry
  <2>3. ASSUME NEW i \in Used, i < slot + 1, Straight(i)
        PROVE  Text(i) \in DOMAIN files' /\ files'[Text(i)] = Padded(i)
    <3>1. i \in Nat
      BY ArchiveAssumption DEF Used, Entries
    <3>2. i < slot \/ i = slot
      BY <1>2, <2>3, <3>1
    <3> QED BY <1>5, <2>1, <2>3, <3>2 DEF text, q
  <2>4. DoneInv'
    BY <1>1, <2>2, <2>3, DiskKeeps DEF DoneInv
  <2>5. ASSUME slot + 1 \in Used, Straight(slot + 1) PROVE at' = header.file_name[slot + 1]
    <3>1. slot + 1 \in Nat /\ slot \in 1 .. slot + 1 /\ slot + 1 \in 1 .. slot + 1
          /\ slot + 1 # 1 /\ (slot + 1) - 1 = slot
      BY <1>1, <1>2, ArchiveAssumption DEF Used, Entries
    <3>2. Straight(slot)
      BY <2>5, <3>1, StraightBefore
    <3>3. header.file_name[slot + 1] = EndOf(slot)
      BY <2>5, <3>1, StraightBefore
    <3> QED BY <2>1, <3>2, <3>3
  <2>6. NextInv'
    BY <1>1, <2>2, <2>5, DiskKeeps DEF NextInv
  <2>7. WriteInv'
    BY <2>2 DEF WriteInv
  <2> QED BY <2>4, <2>6, <2>7 DEF UInv
(* The next byte of the archive is the next one of the entry. *)
<1>7. CASE /\ count <= size /\ at < EndOfFile /\ Put(ByteAt(at))
           /\ at' = at + 1 /\ count' = count + 1 /\ UNCHANGED <<pc, slot>>
  <2>1. ASSUME Straight(slot)
        PROVE  /\ name = text /\ name \in DOMAIN files'
               /\ count' <= size + 1
               /\ at' = p + Len(name) + 1 + count'
               /\ files'[name] = SubSeq(q, 1, count')
    <3>1. /\ name = text /\ name \in DOMAIN files /\ at = p + Len(text) + 1 + count
          /\ files[name] = SubSeq(q, 1, count)
      BY <1>4, <2>1
    <3>2. count + 1 \in 1 .. size + 1
      BY <1>2, <1>3, <1>7
    <3>3. at = p + Len(text) + (count + 1)
      BY <1>2, <1>3, <3>1
    <3>4. ByteAt(at) = q[count + 1]
      BY <1>2, <3>2, <3>3
    <3>5. name \in DOMAIN files' /\ files'[name] = Append(SubSeq(q, 1, count), q[count + 1])
      BY <1>7, <3>1, <3>4 DEF Put
    <3>6. Append(SubSeq(q, 1, count), q[count + 1]) = SubSeq(q, 1, count + 1)
      BY <1>2, <1>3, <3>2
    <3>7. at' = p + Len(name) + 1 + count' /\ count' <= size + 1
      BY <1>2, <1>3, <1>7, <3>1
    <3> QED BY <1>7, <3>1, <3>5, <3>6, <3>7
  <2>2. pc' = "extract" /\ slot' = slot
    BY <1>1, <1>7
  <2>3. DoneInv'
    BY <1>1, <1>5, <2>2, DiskKeeps DEF DoneInv
  <2>4. WriteInv'
    BY <1>1, <2>1, <2>2, DiskKeeps DEF WriteInv, p, size, text, q
  <2>5. NextInv'
    BY <2>2 DEF NextInv
  <2> QED BY <2>3, <2>4, <2>5 DEF UInv
(* At the end of the archive, which no straight entry reaches. *)
<1>8. CASE count <= size /\ at >= EndOfFile /\ NextEntry
  <2>1. ~Straight(slot)
    <3>1. ASSUME Straight(slot) PROVE FALSE
      BY <1>2, <1>3, <1>4, <1>8, <3>1
    <3> QED BY <3>1
  <2>2. pc' = "unpack" /\ slot' = slot + 1
    BY <1>8 DEF NextEntry
  <2>3. ASSUME NEW i \in Used, i < slot + 1, Straight(i) PROVE i < slot
    <3>1. i \in Nat /\ i # slot
      BY <2>1, <2>3, ArchiveAssumption DEF Used, Entries
    <3> QED BY <1>2, <2>3, <3>1
  <2>4. DoneInv'
    BY <1>1, <1>5, <2>2, <2>3, DiskKeeps DEF DoneInv
  <2>5. ~Straight(slot + 1)
    <3>1. slot + 1 \in Nat /\ slot \in 1 .. slot + 1
      BY <1>1, <1>2, ArchiveAssumption DEF Used, Entries
    <3> QED BY <2>1, <3>1, StraightBefore
  <2>6. NextInv' /\ WriteInv'
    BY <1>1, <2>2, <2>5, DiskKeeps DEF NextInv, WriteInv
  <2> QED BY <2>4, <2>6 DEF UInv
<1> QED BY <1>6, <1>7, <1>8 DEF ExtractByte, CopyWhile, size

(* Every step keeps what has been unpacked; other commands are not utar.   *)
LEMMA NextUInv == IInv /\ DInv /\ UInv /\ [Next]_vars => UInv'
<1> SUFFICES ASSUME IInv, DInv, UInv, [Next]_vars PROVE UInv'
  OBVIOUS
<1>1. CASE UNCHANGED vars
  <2>1. UNCHANGED disk /\ UNCHANGED <<files, pc, slot, at, name, count>>
    BY <1>1 DEF vars, disk
  <2> QED BY <2>1, DiskKeeps DEF UInv, DoneInv, NextInv, WriteInv
<1>2. CASE Unpack
  BY <1>2, UnpackUInv
<1>3. CASE PassOver
  BY <1>3, PassOverUInv
<1>4. CASE \E f \in Intact \cup Junk : Extract(f)
  BY <1>4, ExtractUInv
<1>5. CASE ExtractByte
  BY <1>5, ExtractByteUInv
<1>6. ASSUME pc' \in Unpacking, ~UNCHANGED vars
      PROVE  Unpack \/ PassOver \/ (\E f \in Intact \cup Junk : Extract(f)) \/ ExtractByte
  <2>1. CASE User
    BY <1>6, <2>1 DEF User, Write, Remove, RemoveArchive, AppendFiles, Delete, Give, Unpacking
  <2>2. CASE Kill \/ NoMoreFiles \/ Finished
    BY <1>6, <2>2 DEF Kill, NoMoreFiles, Finished, End, Unpacking
  <2>3. CASE addHeader \/ WriteName \/ CopyByte \/ WriteEntry
    BY <1>6, <2>3 DEF addHeader, WriteName, CopyByte, CopyFrom, WriteEntry, Unpacking
  <2>4. ASSUME NEW f \in Names, Missing(f) \/ Refused(f) \/ NoSlot(f) \/ NoHeader(f) \/ AddFile(f)
        PROVE  FALSE
    BY <1>6, <2>4 DEF Missing, Refused, NoSlot, NoHeader, AddFile, Accepted, Considers, End,
       Unpacking
  <2> QED BY <1>6, <2>1, <2>2, <2>3, <2>4 DEF Next, Program
<1>7. CASE pc' \notin Unpacking
  BY <1>7, NotUnpacking
<1> QED BY <1>1, <1>2, <1>3, <1>4, <1>5, <1>6, <1>7

(* utar makes of every entry, up to the first that is not straight, a file *)
(* with every byte that was archived in its place (utar.c:42, 111), at any *)
(* moment of all of those behind it and as far as it is at its own.        *)
THEOREM UnpacksAsArchived == Spec => []Unpacked
<1>1. Init => UInv
  BY DEF Init, UInv, DoneInv, NextInv, WriteInv, Unpacking
<1>2. IInv /\ DInv /\ UInv => Unpacked
  <2> SUFFICES ASSUME IInv, DInv, UInv, pc \in Unpacking,
                      NEW i \in Used, i <= slot, Straight(i)
               PROVE  /\ i < slot => /\ Text(i) \in DOMAIN files
                                     /\ Len(Content(i)) <= Len(files[Text(i)])
                                     /\ Agree(files[Text(i)], Content(i))
                      /\ i = slot /\ pc = "extract" => /\ Text(i) \in DOMAIN files
                                                       /\ Agree(files[Text(i)], Content(i))
    BY DEF Unpacked, Unpacking, Entry, Text
  <2>1. state = "archive"
    BY DEF UInv, DoneInv
  <2>2. i \in Entries /\ Content(i) \in Seq(Byte)
    <3>1. PICK f \in Names, d \in Seq(Byte) :
                Whole(header.file_name[i], f, d) /\ header.file_size[i] = Len(d)
      BY <2>1 DEF DInv, WholeInv
    <3>2. i \in Entries
      BY DEF Used
    <3>3. Content(i) = d
      BY <3>1, <3>2, EntryReadBack DEF ReadBack, IInv
    <3> QED BY <3>2, <3>3
  <2>3. Padding(Content(i)) \in Byte
    BY <2>2, ArchiveAssumption DEF Padding
  <2> DEFINE c == Content(i)
             s == Padded(i)
  <2>4. /\ s \in Seq(Byte) /\ Len(s) = Len(c) + 1 /\ Len(c) \in Nat
        /\ \A k \in 1 .. Len(c) : s[k] = c[k]
    BY <2>2, <2>3 DEF Padded
  <2> HIDE DEF c, s
  <2>5. i < slot => Text(i) \in DOMAIN files /\ files[Text(i)] = s
    BY DEF UInv, DoneInv, s
  <2>6. ASSUME i = slot, pc = "extract"
        PROVE  /\ Text(i) \in DOMAIN files /\ files[Text(i)] = SubSeq(s, 1, count)
               /\ count <= header.file_size[i] + 1
    BY <2>6 DEF UInv, WriteInv, s
  <2>7. Agree(s, c)
    BY <2>4 DEF Agree
  <2>8. ASSUME i = slot, pc = "extract" PROVE Agree(files[Text(i)], c)
    <3>1. count \in Nat /\ header.file_size[i] \in Nat /\ Len(s) = header.file_size[i] + 1
      BY <2>1, EntryBytes DEF IInv, TypeOK, s
    <3>2. count <= Len(s)
      BY <2>6, <2>8, <3>1
    <3>3. /\ Len(SubSeq(s, 1, count)) = count
          /\ \A k \in 1 .. count : SubSeq(s, 1, count)[k] = s[k]
      BY <2>4, <3>1, <3>2
    <3>4. Agree(SubSeq(s, 1, count), c)
      BY <2>4, <3>1, <3>3 DEF Agree
    <3> QED BY <2>6, <2>8, <3>4
  <2>9. Len(c) <= Len(s)
    BY <2>4
  <2> QED BY <2>5, <2>6, <2>7, <2>8, <2>9 DEF c
<1> QED BY <1>1, <1>2, EntriesWhole, NextUInv, PTL DEF Spec
=============================================================================
