# TLA+ models of the S19-CS3411 programs

The repository holds five course programs in C. This directory models them in
TLA+, checks the models with TLC and proves the central results with TLAPS.
`PROJECT.json` lists components, runs, mutants, the line each definition
translates, the hazards and what was found.

## The system

| Part | State it keeps | Operations | Interacts through |
|---|---|---|---|
| Chat server `Program-5/cserver.c` | `connections[256]`: socket, send queue, sending and receiving buffer with a cursor each; the listener | one `select()` turn: `readin`, `newConnection`, `receiveServerMsg`, `sendPeerMsg`, `closeClientConnection`; SIGINT | TCP connections |
| Chat client `Program-5/cclient.c` | one `peer_t` for the server | one `select()` turn: `readInput`, `receivePeerMsg`, `sendPeerMsg`; `exit`, SIGINT | TCP connection |
| Peers `Program-5/message.h` | `message_queue_t` (a bounded stack), the two buffers and cursors | `enqueue`, `dequeue`, `dequeueAll`, `sendPeerMsg`, `receivePeerMsg`, `readSTDIN` | used by both |
| Shell `Program-4` | descriptors 0 and 1, the children it forked, the status it reports | `spawnShell`, `runCommand`, `runMultipleCommands`, `childRunner`, builtins, `splitArgs`, `trim`, `input` | `fork`, `pipe`, `dup`, `exec`, `wait` |
| File sorter `Program-3/asort.c` | `pData[]`: pid and status for each file | a fork for each file, `waitpid` in order, report | `fork`, `exec sort`, `waitpid` |
| Archiver `Program-2` (`ctar`, `utar`, `tar.c`) | the archive file: a header of four entries, then names and contents | `createArchive`, `addFile`, `deleteFile`, `unpackArchive` | the file system |
| Encoders `Program-1/encode.c` | none | int and float to text, hex, BCD and back | none |
| `submissionPractice`, `Program-1/test.c`, `Program-5/protocol.c`, makefiles | none | an exercise, a test driver, unused code | none |

What is hard: in the chat, two programs with a `select()` loop each, fixed-size
messages cut anywhere by TCP, slots and buffers that are reused, blocking
`send()` and disappearing peers; in the shell, which process holds which end of
which pipe, and which child a `wait()` collects; in the sorter, which child a
status belongs to when something fails; in the archiver, sizes that are counted
in three places and commands that are killed half way; in the encoders and the
line readers, boundaries.

What makes each part correct:

- Messages: a receiver that only counts bytes hands over whole messages, in the
  order they were dequeued, and everything accepted is delivered.
- Chat: the slot table is a table of live connections; nobody hears their own
  messages or what was meant for an earlier client of their slot; the server
  prints what clients sent; turns end; ended peers are noticed.
- Shell: the prompt comes after the output, shows the right status, and leaves
  no descriptor behind that would keep a reader from end of input.
- Sorter: all children are collected and each status belongs to its file.
- Archiver: the archive keeps whole files, whatever is killed; unpacking gives
  back what was archived and overwrites nothing.
- Encoders: the text is that of the number.
- Line readers: every word comes to its place, and the buffer has room for it.

## Modules

| Module | Models | Correspondence |
|---|---|---|
| `MessageQueue` | `enqueue`, `dequeue` of `message.h` | pure operators on a sequence; the end is the top |
| `PeerLink` | one direction of a connection: `peerAdd`, `sendPeerMsg`, `receivePeerMsg` / `receiveServerMsg` | cursors and buffers as in `peer_t`; a byte is its place in a message; `SendBytes(n)` and `RecvBytes(n)` are a `send()` and a `recv()` of any length `n` the call may move; `SizeMax` is `(size_t) -1` |
| `Mailbox` | what a connection promises, in terms of messages only | the abstract specification of `PeerLink` |
| `Chat` | `cserver` and the `cclient` processes | the server's turn is `SrvSelect`, then for each ready descriptor, in the code's order, one step per system call; the same for `CliSelect`; connecting, leaving, resets and Ctrl-C are actions of their own |
| `Asort` | `asort.c` | `pc` and `i` are the position in `main()`; a child is forked, sorts, ends, is collected |
| `Shell` | `shell.c`, `singleCommand.c`, `multiCommand.c` | a process table; the fields `in`, `out`, `ends` are descriptors 0, 1 and every other open pipe end; `i` is the C index plus one |
| `Archive` | `ctar` and `utar`, one command after the other | the archive is its `header` and the bytes behind it (`body`); one action per system call that changes either or makes a file: `addHeader`, `WriteName`, `CopyByte` for each byte, `WriteEntry`; `Extract` and `ExtractByte` for `utar`; `Kill` ends a command between any two; the user edits files between commands |
| `Store` | what an archive promises: a row of whole files that only grows | the abstract specification of `Archive` |
| `Calls` | one call of a function that keeps no state | shared by the next three |
| `Encode` | `encode.c`, integers | one operator per function; the digit loops are recursive functions that list digits as they are written, from right to left; a packed decimal is its eight nibbles |
| `EncodeFloat` | `float_to_ascii()` | every operation on a float rounds to 24 bits, to even; a magnitude is its whole number and the rest in units of 2^-30 |
| `Lines` | `input()`, `splitArgs()`, `trim()` of the shell in `spawnShell()`'s order; `readSTDIN()` of the chat | the growing buffer of `input()` is a recursive function of the characters read; a place of an array of strings is a word, the null pointer or unset |
| `PeerLink_proofs`, `Chat_proofs`, `Asort_proofs`, `Shell_proofs`, `ShellPipes_proofs`, `Archive_proofs`, `Lines_proofs`, `Encode_proofs` | | theorems and proofs |
| `MCPeerLink`, `MCChat`, `MCAsort`, `MCShell`, `MCArchive`, `MCFunctions` | | instances for TLC |

`Chat` uses `MessageQueue` and the result of `PeerLink`: because bytes stay in
place, a `send()` or `recv()` in `Chat` moves one *part* of a message, and a
message has `Calls` parts. The parts of one buffer may stem from different
messages, which is what the interesting behaviours of the server are about.

### What is abstracted

- A message is who typed it and a number. Formatting and printing are left out;
  histories (`log`, `screen`, `sent`, `since`, `lines`, `taken`, `delivered`,
  `ended`, `typed`) record what the properties talk about.
- In `Chat` a part that was sent has arrived. Delay is still there, because the
  other end may be scheduled as late as one likes. `PipeSize` is the room of a
  connection in parts; where it is used up, `send()` waits.
- Several lines pending at a terminal reach `readSTDIN()` as one read; the last
  one counts.
- In `Shell` a line is already split into commands and words, as `Lines` does it. A program is what
  it does with its descriptors. Input from the terminal or a file ends at once.
  `leftover` is the value `evaluateBuiltins()` happens to return for a name that
  is no builtin, as gcc without optimisation (the `Makefile`) compiles it. A `cd`
  that fails returns 127, which makes it a command to fork and exec; as there is
  no such program, its child ends like one that cannot be started.
- Undefined values are choices: an uninitialised status (`Garbage`), a pid
  `lastChild` that was never set, the exit code of `return;` in `asort`, the
  `stat` buffer of `doesDirExist()`, the last byte of `writeNewFile()`.
- In `Archive` names and contents are sequences of bytes, a name without a zero.
  `getFilename()` returns memory it has freed. Which names are still readable
  there depends on the allocator (with glibc, those of more than about 128
  bytes): `Intact` is the set of them, whatever it is, and for the others the
  function may return any name of `Junk`, the empty one included. The fields
  `magic`, `next` and `deleted` never change and are left out, so the loops over
  header blocks run once.
- One command runs at a time, and files are edited only between commands. The
  device has room. `doesFileExist()` tests `errno` and not the result of
  `open()`; the failing `close()` behind it (`tar.c:136`) is what keeps an old
  `ENOENT` from being seen by the next call, so the test is as good as the result.

## Runs

| Run | Instance | Shows |
|---|---|---|
| `peer_link` | messages of 3 bytes, 2 a call, 5 bytes on the wire, queue of 3, 5 offers | `IntactDelivery` and the inductive invariant `IInv`; `PeerLink` implements `Mailbox`; `AcceptedIsHandled` |
| `chat_lines` | 2 clients, 2 slots, 1 line each from a client and the operator, connections that hold one message | `SlotTable`, `NoEcho`, `ServerLinesWhole`; `TurnEnds`, `LineReachesServer`, `HangupReclaimed`, `EndReachesClients` |
| `chat_reuse` | 2 clients, 1 slot, 2 lines each and 1 from the operator | `NoInheritance`, `LogIsSent`, `WholeAtBoundary` |
| `asort` | 3 files, every fault | `AllReaped`, `StatusOfItsChild`, `NoFailureLost`, `Terminates` |
| `shell` | 14 lines of 1 to 3 commands, 2 of them typed, 5 processes, pipes of one write | `OutputComplete`, `PipelineStatus`, `PromptIsClean`, `OnlyFeederWrites`, `LineEnds` |
| `archive` | 3 names, two of them intact, 5 contents of at most 2 bytes, 2 entries, 3 commands of at most 2 files | `HeaderDescribes`, `Unpacked`, `OnlyNewFiles`; `Archive` implements `Store` (`KeepsWholeFiles`) |
| `functions` | ints from -300 to 1300, around the limits of the formats and the extremes; 4374 packed decimals; floats around every hundredth; lines of up to 5 characters; up to 3 reads | `TextIsNumber`, `LowestPlaces`, `PackedRoundTrip`, `PackedText`, `NearestHundredth`, `LineFits`, `WordsInPlace`, `LastLineFirst` |
| `chat_shown_once` | 2 clients, 2 slots, 1 line from a client | violation: a message cut in two is broadcast twice |
| `chat_keeps_operating` | as `chat_lines`, connections that hold two messages | violation: SIGPIPE ends the server |
| `shell_waits` | as `shell`, 4 processes | violation: a simple command is not waited for |
| `shell_exit_code` | one line | violation: exit code 1 is shown as 2 |
| `archive_unpacked` | as `archive` | violation: an unpacked file is longer than the one archived |

### Why the bounds are enough

`peer_link`: 3 and 2 make a message take two calls, the second one shorter; the
wire holds less than two messages, so both `send()` and `recv()` are cut in the
middle of messages and across them; the fourth offer meets a full queue. The
proofs then cover all sizes.

The chat: two parts are enough for a message to be torn at its only place, two
slots for a sender and a listener, one slot for reuse, two lines of a client for
one receive call to end after, between and within messages, and a queue of two
to be full. A third client would only be a second listener. Client names are
symmetric within typists and others (`ClientSymmetry`), which is used where no
liveness is checked.

In `chat_lines` a connection holds one message, while what is queued for the
client that does not type may be up to three: the operator's line, and the typed
one twice where it is torn. So the server's `send()` to a client that has not
yet read waits in the middle of a message, with the rest of another client's line
already there to be received; the turn ends and the line is printed all the same.

Two ends of a connection that wait for each other need more lines from both than
that run has, and less room than a queue takes. Each end reads before it writes,
until nothing is left, and then sends no more than its queue held. Of two ends
that both write, one emptied the connection towards it after the other last did,
so what is under way towards it is what the other sent in one turn: it fits if the
connection has room for a full queue. Ten messages are 6.4 KB, and a TCP
connection holds tens of KB each way. With less room it happens: with `MaxClients`
= 1, one client, `QueueSize` = 1, `PipeSize` = 1 and two lines typed at either
end, TLC shows both in `send()` for ever; with `PipeSize` = 2, which is a full
queue there, `TurnEnds` holds.

`asort`: with three files a failed fork's `waitpid(-1)` can take the child of
either neighbour. `shell`: the lines contain each kind of command, both builtin
effects, every redirect that changes control, three commands for a middle one,
and lines that leave a second shell behind; the second line meets the zombies,
strays and descriptors of the first. Five processes are enough for two pipelines
of two, and few enough for `fork()` to fail for the first, the second or all
commands of a line. A pipe of one write blocks a source that writes twice.

`archive`: two entries stand for four, since the code treats each alike: the
first starts behind the header, the second behind another one, and a third file
meets a full header. Three commands are an addition that is killed, one that
succeeds behind its remains, and what then reads the archive; or two additions
and an unpacking. The contents are empty, a zero byte, and bytes that look like
a name; one name is a suffix of another. `HeaderSize` is only an offset.

`functions`: the small numbers have every pattern of zero and other digits up to
three places, with both signs; the large ones are on both sides of seven digits
and of a power of 16, and reach both ends of an int. The packed decimals have
every pattern of zero, small and large digits. The floats have wholes of one to
six digits and, within a whole, 1024 even steps and the floats on both sides of
each half of a hundredth. The lines are all those of letters, blanks, tabs and bars up
to a length at which words, empty commands and blanks on both sides of each
occur and the buffer, which starts with two bytes, has grown; the reads are
shorter than, as long as and together longer than the buffer.

`MaxOffers`, `ServerLines`, `ClientLines`, `Typists`, `MaxLines`, `MaxPids`,
`MaxArgs` and `MaxCommands` are the bounds that only the model has (`MaxPids` stands for a process limit).

### Deadlock

`CHECK_DEADLOCK FALSE` is set where the system may stop: an idle chat or shell
waits for its users, `asort` ends, one function is called. `peer_link` and `archive` are
checked for deadlock.

### Fairness

- `PeerLink`: weak fairness of starting and going on with `sendPeerMsg()` and of
  receiving. The main loops call both for every descriptor `select()` reports.
- `Chat`: weak fairness of `SrvStep` and of each `CliStep(c)`: the operating
  system schedules the processes and `select()` returns while a socket stays
  ready. Nobody has to type, connect, leave or press Ctrl-C.
- `Asort`: weak fairness of the parent and each child: `sort` ends.
- `Shell`: weak fairness of each process. Nobody has to type a line.

## Proofs

TLAPS proves, for every value of the constants their assumptions allow
(`SizesAssumption`, `ChatAssumption`, `AsortAssumption`, `ShellAssumption`,
`ArchiveAssumption`, `LinesAssumption`, `EncodeAssumption`):

- `PeerLink_proofs!TypeCorrect`, `Invariance`, `Framing`, `Refinement`. Framing
  (`IntactDelivery`) is not inductive: it does not say what is under way. `IInv`
  adds that the bytes on the wire, with the byte the sender sends next appended,
  are consecutive in the sequence of all frames (`StreamInv`, `Consecutive`),
  that they start with the byte the receiver expects, that below its cursor the
  receive buffer holds the expected message (`BufferInv`), and that nothing is
  received that was not dequeued (`CountInv`). `ExtendStream` and `ShiftStream`
  show that appending what a `send()` moves and dropping what a `recv()` moves
  keep a sequence consecutive; everything else follows from the definitions.
  `Refinement` maps every step to a `Mailbox` step or a stutter.
- `Chat_proofs!TypeCorrect`, `TableIsLive`, `NeverEchoed`, `NothingInherited`,
  `PrintsWhatWasSent`, `BroadcastsWhole`, `OperatorLinesWhole`: every invariant of
  the chat that the runs check, for any number of clients, slots, lines and
  parts of a message. Each action is first reduced to what it does to one slot
  or one client (`StepIs` and the predicates it names: `Tells`, `Takes`,
  `Speaks` and the like), so that an invariant is proved for a handful of
  shapes and not for every action again. The invariants build on each other.
  `TableInv`: a slot in use has the socket of one live client, and a cursor at
  zero means an empty buffer. `OriginInv`: whatever lies in a queue, a buffer or
  on the wire to a client was accepted while that client had the slot, and is
  not from that client (`OwnInv`, `MetInv`, `GivenInv`, `ReachInv`); this is why
  closing a slot has to clear its queue. `UpInv`: the parts on the way up
  continue where the server's receiving buffer ends, inside the stream of what
  the client has sent, and the log is a prefix of that stream (`Follows`, `Out`,
  `Comes`). `DownInv`: the same towards a client for what is not torn, with a
  stream that exists and is not written down, since the server forgets what it
  queued.
- `Asort_proofs!TypeCorrect`, `EveryChildReaped`, `StatusBelongs`, `NoFailureIsLost`. A file's pid
  tells whether it has a child (`PidInv`); every file the wait loop has passed
  has its child collected, by its own `waitpid()` or by an earlier one for "any
  child" (`ReapInv`); and a child is collected before its turn only where some
  `fork()` failed (`OrderInv`), which is why a status belongs to its file when
  none did. `LossInv` adds that the exit code of every collected child is stored
  for some file the loop has passed, which a failed `waitpid()`, storing the last
  status once more, leaves as it is.
- `Shell_proofs!Invariance`, `TypeCorrect`, `PromptClean`. A status is an exit
  code, -1 or -2 (`KnownStatuses` shows it of each program's). `TypeOK` needs that
  every process, those that exec or stray included, is well placed in its line
  (`Placed`). `PromptIsClean` speaks of the prompt only; `MainWell` says what
  holds on the way there: the first shell never runs a child's code, outside the
  loop of a pipeline its output is the terminal, which `saveStdout` keeps while
  it is inside, and it has pipe ends only between `pipe()` and `close()`, of the
  pipe it has just made. The last is what makes the two `close()` calls of each
  turn enough.
- `ShellPipes_proofs!FeederAlone`, `NothingLeftWriting`, `StatusOfLast`. The three
  properties of plain pipelines speak of any two processes, so the invariant
  `CrewInv` says what each process is by itself (`Shaped`) and what holds of each
  ordered pair (`Related`). A process names only pipes that were made (`Born`), so
  a new pid is known to nobody; besides the child itself and the shell between
  `fork()` and `close()`, only its feeder keeps the write end of a command's pipe
  (`Feeds`); a line has one shell, which knows the pid of its last command until
  it has collected it, and then has its status (`Owns`); and every command before
  the last writes to a pipe of its own line (`Pipes`), which the shell's own
  output, given back by `dup2()`, is not. Shells that stray from other lines, and
  simple commands, touch none of this (`Outsider`). A step changes one process
  or two (`OneCrew`, `TwoCrew`), or ends one and orphans its children (`EndCrew`);
  for a line that is typed, `GrownRelated` carries the invariant over.
- `Archive_proofs!TypeCorrect`, `NothingOverwritten`, `DescribedByHeader`,
  `Refinement`, `UnpacksAsArchived`. The entries of a header are used from the first on, as many as
  it counts (`CountInv`), so that the first free one is next to them; and a file
  is added there, behind the header (`PlaceInv`). Every entry is a whole file:
  name, zero, content and one byte more, the last once again (`WholeInv`); entries
  follow each other up to `eop` (`OrderInv`). `HeaderDescribes` asks for less: that
  names and data are in the archive without overlapping, and `eop` behind them. Neither is inductive: a file is in the archive byte by
  byte before the header has it, so `CopyInv` says how much of it is there at
  each step, that it is behind every entry, and that no entry has its name if
  it can be recognised. `EntryReadBack` shows that such bytes read back as the
  file, because a name has no zero in it; `GrowthKeepsEntry`, that what is
  written behind an entry leaves it as it was, killed or not. Then `WriteEntry`
  is `Add` of `Store` (`WriteEntryDInv`), and every other step changes nothing
  in the row or loses all of it (`NextStore`). `Unpacked` needs where `utar` is:
  while entries follow each other without a gap and have readable names, it
  begins each where the header says it is (`NextInv`), and is in the middle of
  one as many bytes behind its name as it has written (`WriteInv`); what it has
  written before stays, since it opens no file that is there (`DoneInv`). The
  invariants say exactly what it writes, the extra byte included; `Unpacked` only
  that every byte archived is in its place.
- `Lines_proofs!LastComesFirst`, `LineIsKept`, `WordsComeInPlace`, for every line
  that is typed, any pending reads without a zero byte and any size of the
  buffers. A place of the
  chat's buffer holds what the last read that reached it wrote (`BufferHolds`);
  so the text ends behind the last read, or nowhere. The loop of the shell's
  `input()` is a recursive function; `After` is what it computes, written down
  without recursion, and `ReadingIsAfter` shows that nothing else satisfies its
  equation: the first turn that differed would follow one that did not
  (`LeastNatural`).
  `strtok()`'s runs and the pieces a reader cuts a line into are found by
  counting: the j-th number of a set is the one with j members up to it
  (`UptoCounts`, `NthIs`, `NthInOrder`). Where delimiters are single and inside,
  no piece is empty (`NoEmptyPiece`), so runs are pieces (`RunsArePieces`), there
  are as many as `argAmt` says (`SplitPlain`), and joining them gives the line
  back (`JoinedPieces`); what `trim()` leaves of a piece is its `Core`
  (`TrimLeavesCore`).
- `Encode_proofs!WrittenAsItself`, `NoWrongDigit`, `PackedAndBack`,
  `PackedIsText`, for every int, every packed decimal and every buffer of at
  least 13 bytes; `RoundedNearly`, for every float below 2^24 that is a multiple
  of 2^-30, of either sign. The digit loops are recursive functions over the
  ints, and all are one loop (`Turn`) with another base, other digits that end it
  and another alphabet. What it writes, down to the first place at which it is left
  (`Count`), is written down without recursion (`Spelt`); `TurnsSpell` shows that
  nothing else satisfies the loop's equation, because a quotient is smaller.
  `ShapeStarts` and `ShapeReads` say what a buffer of blanks, a sign, digits and
  a terminator reads as, given the numbers its digits stand for from each place
  on (`Horner`). For an int these are its quotients, cut off (`PartsAreSums`,
  by `DivDiv` and `LowPlaces`); for a packed decimal the sums of its weighed
  nibbles (`Weighed`), below the highest that is not zero. `ExactIsWhole`: a loop
  that meets no digit that ends it ends because nothing is left.
  A float's last bit is at one of the powers of two from 2^-30 to one
  (`Places`), and every number that `float_to_ascii()` computes is a multiple of
  one. Adding half a hundredth carries into the whole number, or leaves it and
  keeps the last bit (`Wide`), or, below one, moves the last bit by one place at
  most (`Narrow`): `RoundedIs`. Each `remainder *= 10` splits off a digit and
  drops up to four bits, rounded (`Tenfold`, `Times10Is`). After a carry both
  digits are zero (`CarriedDigits`), and from one on the distance to the next
  float is more than all that is lost (`WideClose`). Below one the bounds of the
  three roundings add up to more than that distance, so `SmallClose` goes
  through the thirteen pairs of places, which leave each rounding few ways; in
  one pair it takes that a tie is rounded to even. `FloatShape` then says that
  the text without the point is the digits of the hundredths, and it is read as
  the text of an int is.

Only model-checked: all liveness, which is out of the proof system's reach.

## What was found

Five runs show what the code does against its own documents and comments;
`PROJECT.json` quotes both:

- `chat_shown_once`: a message that arrives in two `recv()` calls is broadcast
  twice (`cserver.c:379`).
- `chat_keeps_operating`: a client that leaves while it is sent to ends the server
  by SIGPIPE (`message.h:330`).
- `shell_waits`: `wait()` may collect an earlier line's child instead of the
  command (`singleCommand.c:178`).
- `shell_exit_code`: `if (exitStatus = 2)` makes every failure a 2, the 127 of a
  command that is not there included (`shell.c:45`). `TypeOK` only has it
  that a status is an exit code or one of the shell's own.
- `archive_unpacked`: an unpacked file is one byte longer than what was archived,
  the last byte repeated (`utar.c:42`). The two extra bytes cancel out for `utar`:
  it reads as many as `ctar` wrote, so the next entry is found.

Further departures that the models contain as the code has them, without a run:

- The message queue is last in, first out (`message.h:145`). `Mailbox` promises
  the order of `dequeue()`.
- Of several messages that one receive call completes, only the last is sent on
  to the other clients (`cserver.c:374`).
- A comment says that `exit` typed at the server stops it (`cserver.c:274`); the
  function does not look.
- A sort that a signal killed counts as success: `WEXITSTATUS` of its status is
  0 (`asort.c:276`), though `README:44` of Program-3 has success reported only if
  all processes completed normally. `NoFailureLost` speaks of exit codes.
- `asort` may not make `SORTED` (`asort.c:60`), and a file whose `fork()` failed
  is reported with another child's status (`asort.c:256`). A child whose exec
  fails stores its `errno` where nobody looks and returns without a value
  (`asort.c:249`): if the code it leaves is 0, it counts as sorted.
- A builtin inside a pipeline, and a pipeline redirect that cannot be opened,
  turn the child into a second shell on the same terminal (`multiCommand.c:36`,
  `53`). The shell properties are stated for lines without these (`Plain`),
  typed while such shells exist.
- A redirect of a simple command crashes its child (`singleCommand.c:89`,
  `111`), and in a pipeline `>` is seen only where the command's place happens
  to be one less than its number of words (`multiCommand.c:43`).
- The digit loops of the encoders end at the first zero digit (`encode.c:97`,
  `158`, `237`), in hexadecimal also at an A: 105 is written `05` and packed as
  5, though `encode.h:4` has the number encoded. `TextIsNumber` is stated for numbers without these digits; `LowestPlaces`
  and `PackedRoundTrip` say what is left of the others.
- A packed decimal whose digits are all zero is unpacked to a sign only
  (`encode.c:357`); `abs()` of the least int overflows (`encode.c:12`).
- `float_to_ascii()` may round to the wrong side by less than the distance to
  the next float, and writes `-0.00` for
  a small negative number (`encode.c:334`).
- At the end of the shell's input the terminator may be written one byte past
  the buffer (`utils.c:108`).
- A line that fills the chat's buffer is left without a terminator
  (`message.h:374`), and of several pending lines a longer earlier one shows
  behind the last.
- `copyToArchive()` writes before it looks at what it read, so the last byte is
  in the archive twice, and a zero for an empty file (`tar.c:198`). The next name
  does not follow the data as in the layout of `README:57-66` of Program-2, and the
  size is not that of the formula of `README:119`. `HeaderDescribes` says nothing
  of what lies between two entries.
- After an addition that was killed, the bytes are there and `eop` is still the
  old size (`ctar.c:296`). `README:53` has `eop` checked against the size of the
  file, which the code never does; `HeaderDescribes` only has every entry before
  `eop`.
- A line with a blank at an end or two in a row has unset pointers among its
  words (`utils.c:192`), which are trimmed, executed and freed. `WordsInPlace` is
  stated for single delimiters inside the line.
- An archive that exists is never verified, by `ctar` (`ctar.c:53` returns before)
  or by `utar` (`utar.c:81` compares the function's address). A creation that was
  killed leaves an empty file, and the first file added to it spoils it.
- `ctar -d` deletes nothing (`ctar.c:96` passes 0 for `remove`). `README:93`'s
  "all or nothing" does not hold: files are added one by one, and one that is
  missing is passed over.
- Names that `getFilename()` loses make `utar` create files of other names, and
  duplicates go unnoticed; `Store` promises uniqueness for `Intact` names only.
- After an addition that was killed, or a name
  that is lost, `utar` reads what follows from a wrong offset (`utar.c:111`).
- The file after the last free entry ends `ctar` and may spoil the archive
  (`ctar.c:256`).
- If the last command of a pipeline cannot be forked, the shell waits for any
  child, and may do so for ever. `LineEnds` excludes exactly this.

## Not modelled

- End of input on the chat's and the shell's terminals, as an event of its own:
  from then on every turn reads an empty line, as if one were typed, for ever.
- A chat client that is stopped and never reads, which blocks the server in
  `send()` when the socket buffers are full; `TurnEnds` assumes it is scheduled.
- The branches for out-of-band data (`except_fds`: `cserver.c:459-465`,
  `484-488`, `cclient.c:265-269`, `283-287`). No program here sends any.
- The heap. `ctar.c:282` writes the terminator of a copied name one byte past its
  allocation; what is there is up to the allocator, and the byte is never read.
- Being interrupted inside `malloc()`; start-up errors of the listener; name
  resolution; `pipe()` failing; running out of descriptors.
- `asort`: two arguments with one base name, which sort to the same output.
- Packed words that are no decimals; floats from 2^24 on, those below 2^-6 with
  bits finer than 2^-30, infinities and NaNs.
- Two `ctar` at once, or one that a file is edited under; an archive that is
  added to itself, which never ends as the file grows while it is copied; a full
  device, whose failing writes are not looked at; files that cannot be read;
  files that are no archive, and what a spoilt archive contains: what the
  programs do with them depends on bytes they never check.
- `protocol.c`, the two `utils.c` with print helpers, the exercise, makefiles.

## Plan

1. Done: `PeerLink` with `Mailbox`, `Chat`, `Asort`, `Shell`, `Archive` with
   `Store`, `Encode`, `EncodeFloat`, `Lines`; the proof modules of `PeerLink`,
   `Chat`, `Asort`, `Shell`, `Archive`, `Lines` and `Encode`.
2. `Chat`: a stopped client.
