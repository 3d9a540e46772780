------------------------------- MODULE Archive -------------------------------
(***************************************************************************)
(* ctar and utar of src/Program-2: commands that run one after the other   *)
(* on an archive, between them a user who edits files, and a kill that may *)
(* end a command between any two of its system calls.                      *)
(*                                                                         *)
(* The archive's file is its header block, which every entry is written to *)
(* last, and the bytes after it.  Nothing ever sets next or deleted, so    *)
(* there is one block and no entry of it is deleted.  A file that is no    *)
(* archive any more ("broken") has no contents here and no more commands;  *)
(* an empty one is not unpacked.                                           *)
(***************************************************************************)
EXTENDS Integers, Sequences, FiniteSets

CONSTANTS Byte,         \* the bytes that names and contents are made of
          Names,        \* the files of the user
          Intact,       \* those whose names survive getFilename()
          Junk,         \* what it returns for the others
          Contents,     \* what each of them may contain
          Slots,        \* entries of a header: four
          HeaderSize,   \* its bytes: 52
          MaxArgs,      \* bound: files named in a command
          MaxCommands   \* bound: commands given

ASSUME ArchiveAssumption ==
    /\ Byte \subseteq Nat /\ 0 \in Byte
    /\ Names \subseteq Seq(Byte \ {0}) /\ <<>> \notin Names
    /\ Intact \subseteq Names
    /\ Junk \subseteq Seq(Byte \ {0}) /\ Junk \cap Names = {}
    /\ Junk # {}
    /\ Contents \in [Names -> SUBSET Seq(Byte)]
    /\ Slots \in Nat \ {0}
    /\ HeaderSize \in Nat \ {0}
    /\ MaxArgs \in Nat /\ MaxCommands \in Nat

VARIABLES files,        \* the directory: what each file contains
          state,        \* the archive's file: "absent", "empty", "archive", "broken"
          header,       \* the header block at its beginning
          body,         \* the bytes after it
          pc,           \* where the command is; "idle" between commands
          args,         \* the files ctar has still to add
          name,         \* the name of the file that is copied
          slot,         \* its entry: i
          at,           \* namePointer; utar's offset in the archive
          count,        \* the bytes copied
          byte,         \* the last of them
          commands      \* the commands given

vars == <<files, state, header, body, pc, args, name, slot, at, count, byte, commands>>
disk == <<state, header, body>>
process == <<args, name, slot, at, count, byte>>

Entries == 1 .. Slots
Unused == 0
EmptyHeader == [eop |-> HeaderSize, block_count |-> 0,
                file_size |-> [i \in Entries |-> 0],
                file_name |-> [i \in Entries |-> Unused]]

EndOfFile == HeaderSize + Len(body)
ByteAt(p) == body[p - HeaderSize + 1]

(* The string at an offset: the bytes up to the first that is zero.        *)
Length(p) == CHOOSE n \in 0 .. EndOfFile - p :
                /\ n = EndOfFile - p \/ ByteAt(p + n) = 0
                /\ \A k \in 0 .. n - 1 : ByteAt(p + k) # 0
StringAt(p) == [k \in 1 .. Length(p) |-> ByteAt(p + k - 1)]

(* getFilename() returns memory that it has freed: a name of some length   *)
(* is still there, of a shorter one the allocator has overwritten.         *)
getFilename(p) == IF StringAt(p) \in Intact THEN {StringAt(p)} ELSE Junk

Used == {i \in Entries : header.file_name[i] # Unused}
FirstAlways == 1                                             \* mutant: no search
FirstFree == CHOOSE i \in Entries \ Used : \A j \in Entries \ Used : i <= j

(* checkFileDuplicates(): the name of some entry is this one.              *)
Duplicate(f) == \E i \in Used : f \in getFilename(header.file_name[i])

Init == /\ files = <<>>
        /\ state = "absent"
        /\ header = EmptyHeader
        /\ body = <<>>
        /\ pc = "idle"
        /\ args = <<>>
        /\ name = <<>>
        /\ slot = 1
        /\ at = 0
        /\ count = 0
        /\ byte = 0
        /\ commands = 0

-----------------------------------------------------------------------------
(* The user: writes and removes files, the archive among them.             *)
Stored(f, c) == [g \in DOMAIN files \cup {f} |-> IF g = f THEN c ELSE files[g]]

Write(f, c) == /\ pc = "idle"
               /\ files' = Stored(f, c)
               /\ UNCHANGED <<disk, pc, process, commands>>

Remove(f) == /\ pc = "idle"
             /\ f \in DOMAIN files
             /\ files' = [g \in DOMAIN files \ {f} |-> files[g]]
             /\ UNCHANGED <<disk, pc, process, commands>>

RemoveArchive == /\ pc = "idle"
                 /\ state # "absent"
                 /\ state' = "absent"
                 /\ header' = EmptyHeader
                 /\ body' = <<>>
                 /\ UNCHANGED <<files, pc, process, commands>>

Give == /\ pc = "idle"
        /\ commands < MaxCommands
        /\ commands' = commands + 1

-----------------------------------------------------------------------------
(* ctar -a: createArchive() takes a file that exists as it is ...          *)
AppendFiles(list) ==
    /\ Give
    /\ state # "broken"
    /\ args' = list
    /\ IF state = "absent" THEN state' = "empty" /\ pc' = "create"
                           ELSE UNCHANGED state /\ pc' = "args"
    /\ UNCHANGED <<files, header, body, name, slot, at, count, byte>>

(* ... and writes a header into one that it has made.                      *)
addHeader == /\ pc = "create"
             /\ state' = "archive"
             /\ header' = EmptyHeader
             /\ pc' = "args"
             /\ UNCHANGED <<files, body, process, commands>>

End == /\ args' = <<>> /\ name' = <<>> /\ slot' = 1
       /\ at' = 0 /\ count' = 0 /\ byte' = 0
       /\ pc' = "idle"

NoMoreFiles == /\ pc = "args"
               /\ args = <<>>
               /\ End
               /\ UNCHANGED <<files, disk, commands>>

Considers(f) == /\ pc = "args"
                /\ args # <<>>
                /\ f = Head(args)
                /\ UNCHANGED <<files, commands>>

(* addFile(): a file that is not there is passed over.                     *)
Missing(f) == /\ Considers(f)
              /\ f \notin DOMAIN files
              /\ args' = Tail(args)
              /\ UNCHANGED <<disk, pc, name, slot, at, count, byte>>

(* A duplicate is reported, and addFile() goes on with both descriptors    *)
(* closed, so that nothing is written; or the report's own double free     *)
(* aborts the program.                                                     *)
Refused(f) == /\ Considers(f)
              /\ f \in DOMAIN files
              /\ state = "archive" /\ Duplicate(f)
              /\ \/ args' = Tail(args) /\ UNCHANGED <<pc, name, slot, at, count, byte>>
                 \/ End
              /\ UNCHANGED disk

Accepted(f) == /\ Considers(f)
               /\ f \in DOMAIN files
               /\ state = "archive" => ~Duplicate(f)

(* No entry is free: findNextHeader() reads through a pointer that was     *)
(* never set.  The program ends by it, before or after it has written into *)
(* the middle of the header.                                               *)
NoSlot(f) == /\ Accepted(f)
             /\ state = "archive" /\ Used = Entries
             /\ \/ UNCHANGED disk
                \/ state' = "broken" /\ header' = EmptyHeader /\ body' = <<>>
             /\ End

(* No header: the creation was interrupted.  The entry's pointer is zero,  *)
(* and the header is written behind the content.                           *)
NoHeader(f) == /\ Accepted(f)
               /\ state = "empty"
               /\ state' = "broken"
               /\ End
               /\ UNCHANGED <<header, body>>

AddFile(f) == /\ Accepted(f)
              /\ state = "archive" /\ Used # Entries
              /\ args' = Tail(args)
              /\ name' = f
              /\ slot' = FirstFree
              /\ at' = EndOfFile
              /\ count' = 0 /\ byte' = 0
              /\ pc' = "name"
              /\ UNCHANGED disk

(* The name is written at the end, without its terminator.                 *)
WriteName == /\ pc = "name"
             /\ body' = body \o name
             /\ pc' = "copy"
             /\ UNCHANGED <<files, state, header, process, commands>>

(* A write at an offset; what is skipped before it becomes zero.           *)
WriteAt(p, b) ==
    body' = [k \in 1 .. p - HeaderSize + 1 |->
                IF k = p - HeaderSize + 1 THEN b
                ELSE IF k <= Len(body) THEN body[k] ELSE 0]

(* copyToArchive(), from namePointer + strlen + 1 on: the byte it reads,   *)
(* and once more the last one when there is nothing left to read.          *)
CopyFrom(start) ==
    /\ pc = "copy"
    /\ IF count < Len(files[name])
       THEN /\ byte' = files[name][count + 1]
            /\ count' = count + 1
            /\ UNCHANGED pc
       ELSE /\ pc' = "entry"
            /\ UNCHANGED <<byte, count>>
    /\ WriteAt(start + count, byte')
    /\ UNCHANGED <<files, state, header, args, name, slot, at, commands>>
CopyFurther == CopyFrom(at + Len(name) + 2)                  \* mutant: counts the zero twice
CopyByte == CopyFrom(at + Len(name) + 1)

(* The header is written back with the new entry.                          *)
WriteEntryUncounted ==                                       \* mutant: no block_count += 1
    /\ pc = "entry"
    /\ header' = [header EXCEPT !.eop = EndOfFile, !.file_size[slot] = count,
                                !.file_name[slot] = at]
    /\ pc' = "args"
    /\ UNCHANGED <<files, state, body, process, commands>>
WriteEntry == /\ pc = "entry"
              /\ header' = [eop |-> EndOfFile,
                            block_count |-> header.block_count + 1,
                            file_size |-> [header.file_size EXCEPT ![slot] = count],
                            file_name |-> [header.file_name EXCEPT ![slot] = at]]
              /\ pc' = "args"
              /\ UNCHANGED <<files, state, body, process, commands>>

(* ctar -d looks the names up and deletes nothing.                         *)
Delete == /\ Give
          /\ state # "broken"
          /\ UNCHANGED <<files, disk, pc, process>>

-----------------------------------------------------------------------------
(* utar: the entries in turn, the contents from wherever it has got to.    *)
Unpack == /\ Give
          /\ state = "archive"
          /\ pc' = "unpack"
          /\ slot' = 1
          /\ at' = HeaderSize
          /\ UNCHANGED <<files, disk, args, name, count, byte>>

Finished == /\ pc = "unpack"
            /\ slot > Slots
            /\ End
            /\ UNCHANGED <<files, disk, commands>>

PassOver == /\ pc = "unpack"
            /\ slot \in Entries \ Used
            /\ slot' = slot + 1
            /\ UNCHANGED <<files, disk, pc, args, name, at, count, byte, commands>>

(* open() makes the file, unless its name is empty; the offset passes over *)
(* the name and the zero behind it.                                        *)
StartEarly(f) == /\ name' = f                               \* mutant: not the zero
                 /\ files' = IF f = <<>> THEN files ELSE Stored(f, <<>>)
                 /\ at' = at + Len(f)
                 /\ count' = 0
                 /\ byte' \in Byte
                 /\ pc' = "extract"
                 /\ UNCHANGED <<disk, args, slot, commands>>
Start(f) == /\ name' = f
            /\ files' = IF f = <<>> THEN files ELSE Stored(f, <<>>)
            /\ at' = at + Len(f) + 1
            /\ count' = 0
            /\ byte' \in Byte           \* not initialised
            /\ pc' = "extract"
            /\ UNCHANGED <<disk, args, slot, commands>>

(* The name is read where the header says it is; a file of that name ends  *)
(* the command.                                                            *)
ExtractOver(f) == /\ pc = "unpack"                           \* mutant: no doesFileExist()
                  /\ slot \in Used
                  /\ f \in getFilename(header.file_name[slot])
                  /\ Start(f)
Extract(f) == /\ pc = "unpack"
              /\ slot \in Used
              /\ f \in getFilename(header.file_name[slot])
              /\ \/ f \notin DOMAIN files /\ Start(f)
                 \/ f \in DOMAIN files /\ End /\ UNCHANGED <<files, disk, commands>>

Put(b) == files' = IF name \in DOMAIN files
                   THEN [files EXCEPT ![name] = Append(@, b)] ELSE files
NextEntry == /\ pc' = "unpack"
             /\ slot' = slot + 1

(* writeNewFile(): bytes are copied while count <= size; at the end of the *)
(* archive the last one is written once more.                              *)
CopyWhile(more) ==
    /\ pc = "extract"
    /\ \/ /\ ~more
          /\ NextEntry
          /\ UNCHANGED <<files, at, count, byte>>
       \/ /\ more /\ at < EndOfFile
          /\ byte' = ByteAt(at)
          /\ Put(byte')
          /\ at' = at + 1
          /\ count' = count + 1
          /\ UNCHANGED <<pc, slot>>
       \/ /\ more /\ at >= EndOfFile
          /\ Put(byte)
          /\ NextEntry
          /\ UNCHANGED <<at, count, byte>>
    /\ UNCHANGED <<disk, args, name, commands>>
ExtractByte == CopyWhile(count <= header.file_size[slot])

-----------------------------------------------------------------------------
Kill == /\ pc # "idle"
        /\ End
        /\ UNCHANGED <<files, disk, commands>>

User == \/ \E f \in Names : \E c \in Contents[f] : Write(f, c)
        \/ \E f \in Names \cup Junk : Remove(f)
        \/ RemoveArchive
        \/ \E list \in UNION {[1 .. n -> Names] : n \in 0 .. MaxArgs} : AppendFiles(list)
        \/ Delete
        \/ Unpack

Program == \/ addHeader \/ NoMoreFiles
           \/ \E f \in Names : Missing(f) \/ Refused(f) \/ NoSlot(f) \/ NoHeader(f) \/ AddFile(f)
           \/ WriteName \/ CopyByte \/ WriteEntry
           \/ Finished \/ PassOver \/ (\E f \in Intact \cup Junk : Extract(f)) \/ ExtractByte

Next == User \/ Program \/ Kill

Spec == Init /\ [][Next]_vars

-----------------------------------------------------------------------------
(* The entry i as the bytes of the archive say it; where it ends.          *)
Content(i) == LET p == header.file_name[i]
              IN [k \in 1 .. header.file_size[i] |-> ByteAt(p + Length(p) + k)]
Entry(i) == [name |-> StringAt(header.file_name[i]), content |-> Content(i)]
DataEnd(i) == header.file_name[i] + Length(header.file_name[i]) + 1 + header.file_size[i]

(* Where ctar goes on: it has written the last byte once more.             *)
EndOf(i) == DataEnd(i) + 1

Kept == [i \in 1 .. Cardinality(Used) |-> Entry(i)]

(* Every variable has its type, and what a command works on is in place:   *)
(* the file it copies is there, its entry is free.                         *)
TypeOK ==
    /\ DOMAIN files \subseteq Names \cup Junk
    /\ \A f \in DOMAIN files : files[f] \in Seq(Byte)
    /\ state \in {"absent", "empty", "archive", "broken"}
    /\ header \in [eop : Nat, block_count : 0 .. Slots,
                   file_size : [Entries -> Nat], file_name : [Entries -> Nat]]
    /\ body \in Seq(Byte)
    /\ pc \in {"idle", "create", "args", "name", "copy", "entry", "unpack", "extract"}
    /\ args \in Seq(Names)
    /\ name \in Names \cup Junk \cup {<<>>}
    /\ slot \in 1 .. Slots + 1
    /\ at \in Nat /\ count \in Nat /\ byte \in Byte
    /\ commands \in 0 .. MaxCommands
    /\ pc \in {"name", "copy", "entry"} => /\ name \in DOMAIN files
                                           /\ state = "archive"
                                           /\ slot \in Entries \ Used

(* Whatever commands were killed, the header describes the bytes behind it *)
(* (tar.h:11): its entries are used from the first on and counted, each    *)
(* names a file and its data behind the header, no two overlap, and eop    *)
(* has all of them before it and does not point past the file              *)
(* (ctar.c:276-296).                                                       *)
HeaderDescribes ==
    state = "archive" =>
        LET last == Cardinality(Used)
        IN /\ Used = 1 .. last
           /\ header.block_count = last
           /\ \A i \in Used :
                 /\ header.file_name[i] >= IF i = 1 THEN HeaderSize ELSE DataEnd(i - 1)
                 /\ StringAt(header.file_name[i]) \in Names
                 /\ DataEnd(i) <= EndOfFile
           /\ header.eop >= IF last = 0 THEN HeaderSize ELSE DataEnd(last)
           /\ header.eop <= EndOfFile

(* The entries up to i have names that can be read back, and nothing, left *)
(* by a command that was killed, lies between them.                        *)
Straight(i) == \A j \in 1 .. i :
                   /\ StringAt(header.file_name[j]) \in Intact
                   /\ header.file_name[j] = IF j = 1 THEN HeaderSize ELSE EndOf(j - 1)

(* utar reads the contents from where it has got to and not from where the *)
(* header says.  Of such entries every byte comes out all the same, in its *)
(* place and in the file of its name (utar.c:42, 111).                     *)
Agree(s, c) == \A k \in 1 .. Len(c) : k <= Len(s) => s[k] = c[k]
Unpacked ==
    pc \in {"unpack", "extract"} =>
        \A i \in Used : i <= slot /\ Straight(i) =>
            LET e == Entry(i)
            IN /\ i < slot => /\ e.name \in DOMAIN files
                              /\ Len(e.content) <= Len(files[e.name])
                              /\ Agree(files[e.name], e.content)
               /\ i = slot /\ pc = "extract" => /\ e.name \in DOMAIN files
                                                /\ Agree(files[e.name], e.content)

(* No command changes or removes a file that was there when it began: ctar *)
(* only reads them, utar stops at the first that it would overwrite        *)
(* (utar.c:102).                                                           *)
OnlyNewFiles ==
    [][pc # "idle" => \A f \in DOMAIN files :
            /\ f \in DOMAIN files'
            /\ (files'[f] = files[f] \/ (pc = "extract" /\ f = name))]_vars

(* The bytes of the archive are a store of whole files: entries are added  *)
(* one at a time with what the file contains, stay as they are whatever is *)
(* killed, and go only with the archive (ctar.c:203, tar.c:179).           *)
Vault == INSTANCE Store WITH
            place <- CASE state = "absent" -> "none"
                       [] state = "broken" -> "spoilt"
                       [] OTHER -> "good",
            entries <- IF state = "archive" THEN Kept ELSE <<>>
KeepsWholeFiles == Vault!StoreSpec

-----------------------------------------------------------------------------
(* What the documents say and the code does not do. *)

(* README:74, utar.c:25 "of size fileSize": a file that was unpacked is    *)
(* the file that was archived.                                             *)
UnpackedExactly ==
    pc = "unpack" =>
        \A i \in Used : i < slot /\ Straight(i) =>
            LET e == Entry(i)
            IN e.name \in DOMAIN files /\ files[e.name] = e.content
=============================================================================
