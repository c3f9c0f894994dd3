# Verification of libsmart

TLA+ specifications of libsmart (`src/smart`), a C++ library for embedded Linux
boards: buffers, device access, WAVE files, password files and system helpers.
The modules are translated from the sources; TLC checks small instances, and
TLAPS proves the theorems of the eight modules `*Proofs.tla` for every instance.

    tlc -workers 2 -config MCCircularBuffer.cfg MCCircularBuffer.tla
    tlapm CircularBufferProofs.tla     (a minute or two for each of these; FilesProofs six)

## 1. Inventory

| component | state | operations | hard behaviour | correct when | module |
|---|---|---|---|---|---|
| `CircularBuffer.h` | vector, two atomic indices | push, push range, pop, pop(E&), pop_n, peek, peek_at, clear, empty, full, size, available | two threads without a lock, weak memory, wrap-around | it is a bounded queue; no slot is used by both threads; nothing pushed is lost | `CircularBuffer`, `BoundedFifo`, `CircularBufferProofs` |
| `passwd.cpp`, files | `/etc/passwd`, `/etc/shadow`, their backups and `.new` files, stdio streams | changePassword, changeMaxPasswordAge, changeWarningPeriod, addNewUser, deleteUser, getUserByName | several files per call, renames before the flush, death in between, other processes | a call that returns made its one change, a call that throws made none; an edit that dies leaves the old contents in the file or in its backup | `PasswdStore`, `AccountStore`, `PasswdStoreProofs` |
| `passwd.cpp`, aging | a line of `/etc/shadow`, the calendar | the edits, passwordExpired, getPasswordExpirationInfo | off, zero and last days; two functions that must agree | a user is warned before expiry and told the right number of days | `PasswordAging`, `ShadowEntry`, `PasswordAgingProofs` |
| `TimeScheduler.cpp` | time of day of the last tick | tick | midnight, a clock that is unset or goes back | the event runs once a day, when due | `TimeScheduler`, `TimeSchedulerProofs` |
| `hw/AxiDataCapture.cpp` | registers, DMA ring, tail, transfer count | startCapture, fetchPacket, isCaptureInProgress, stopCapture, clearBuffer | hardware that never waits, packets that wrap, zero-copy reads, a cache, a count that wraps | packets are consecutive; nothing is lost by a program that keeps up; transfers end | `AxiDataCapture`, `Uio`, `UioProofs` |
| `UioDevice.cpp` | open device, maps, configuration, sync descriptor | find, open, close, getIpCoreConfiguration, getRequiredMap, getConfigurationUInt32, syncBufferForCpu | devices that come and go while one is opened; a search of the device tree by address; a constructor that throws midway | everything belongs to one device, the one asked for; nothing stays open | `UioDevice`, `Uio`, `UioProofs` |
| `MappedFile.cpp` | mapping, shadow registers | read32, write32, write32Masked, createShadow | last index, shadow never filled, a device that changes its registers | the shadow agrees with the device; bits outside the mask stay | `MappedFile`, `Uio`, `UioProofs` |
| `WavFile*.{h,cpp}` | tree of chunks, pieces, file ranges | build, parse, getData, iterators, writeFile | pad bytes, nested sizes, decimation, names cut to four characters | sizes written are the bytes written; what is written can be parsed | `RiffFile`, `WavFile`, `WavFileDisk`, `Wav`, `WavProofs` |
| `WavFormat.cpp` | none | fillHeader, writeFile, readHeader | sizes, fields of other programs, short files | header describes the file, samples are found | `WavFormat`, `Wav`, `WavProofs` |
| `Process.cpp` | child, pipe, descriptors | create, checkOutput, wait, safeSystem | child and parent race, pipe capacity, full table of descriptors | output is returned, calls end | `Process`, `ProcessProofs` |
| `Directory.cpp`, `File.cpp` | file system, umask | create, verifyAndCreate, copyFile, renameFile, deleteFile, read/write all | other threads between two system calls, part writes, unseen failures | the path exists; what was written or copied is whole; a reader gets one version | `FileSystem`, `Directory`, `File`, `Files`, `FilesProofs`; renameFile also in `PasswdStore` |
| `ts/Queue.h` | deque | push, pop, peek, size | none: one mutex per member | a FIFO | not modelled |
| `ModbusPacket`, `proc`, `string`, `time`, `net`, `Random`, `Path`, `Symlink`, `Disk`, `getopt`, `mylogf`, `SerialPort` | none, or one system call | conversions | text | tests | not modelled |
| `apps/uio` | the command | capture, fill, dump | order of calls, an exception in the loop | as `AxiDataCapture` and `MappedFile` | `Uio` |
| other `apps`, `examples`, `tests` | | | | | callers and references |

Interactions. `AxiDataCapture` owns a `UioDevice` and works on two of its
`MappedFile`s; `apps/uio/uio_main.cpp` drives it in a polling loop. `passwd`
wraps its C streams in `File`, whose destructor flushes them, and renames with
`File::renameFile`. `CircularBuffer` connects one producer and one consumer
thread of the caller. `TimeScheduler` reads local time through `time.cpp` and
is ticked by the caller's loop. There are no callbacks; the concurrency is
threads (CircularBuffer), processes (passwd, Process, Directory) and hardware
(AxiDataCapture).

The hazards, with lines, and the properties that cover them are in
`PROJECT.json`.

## 2. Modules

### CircularBuffer, BoundedFifo
One step per atomic access and per copied element. `push_index_`, `pop_index_`
and `buffer_` are the members of the class; `p_*` and `c_*` are the locals of a
member function in progress on the producer's and the consumer's thread.
`PushLoad`, `PushRangeLoad`, `CopyIn` and `PublishPush` are the two `push`;
`PopLoad`, `PopNLoad`, `PeekLoad`, `DiscardLoad` and `ClearLoad` are the loads
with which the consumer's members begin, `CopyOut` their loop, `FinishCopy` and
`StorePop` their store. `UncheckedPop`, `UncheckedSkip` and `PeekAt` are the
members that "do not check": the model calls them as their caller must, with
at most the number of elements an earlier `size()` or `empty()` has shown
(`c_known`).

Loads of an index by the thread that does not own it may be old: the load and
the use of it are different steps. Memory order is modelled on the data: what
the consumer may read from slot i is the set `seen[i]`; storing adds to it, an
acquire load of `push_index_` reduces it to the published value, a relaxed one
leaves it alone when the processor reorders loads. Whether it does is chosen
at the start (`loads_ordered`; an x86 does not) and never changes
(`SameProcessor`). `MCCircularBuffer` leaves out the members with a relaxed load
on a processor that reorders: they are what ring_relaxed_peek_pop is about.

`BoundedFifo` is what callers are promised: a queue of at most
`Capacity` elements, a push accepted whole or refused, takes from the front.
A refusal or an "empty" may rest on an old load, and the abstract queue says
so: `Refuse` is allowed when there was no room at some point since the request.

### PasswdStore, AccountStore, ShadowEntry, PasswordAging
`ShadowEntry` has the edits of one line and the two questions about expiry as
operators; `PasswordAging` follows one account through days and edits.

`PasswdStore` takes the same edits as sequences of file operations. `dir` maps
the six names to inodes and `disk` inodes to lines; `out` is a stream with all that
was put into it. `at` is the next operation of a process, `doing` its call. A call is
`Begin`, `CheckPasswd`, `CheckShadow` (getUserByName, with which each begins: it throws
when a file is not there), for deleteUser `CheckGroup`, then
`OpenOld`, `OpenNew`, `Copy`, `RenameToBackup`, `RenameToLive` (twice for
deleteUser) or `AppendPasswd`, `AppendShadow`, and `Close`; `Unwind` is the
destructors of the `File` wrappers, which run on return and on throw, one
stream at a time in reverse order. How much of what `Copy` writes is in the file by
then is open: stdio writes when its buffer is full, so any number of the first lines may be there
(`CopyLines`), and the rest comes when the stream is closed, after the renames. A line that
is cut counts as missing. On a `faulty` system `Die` may strike between any two operations
and `/dev/urandom` may be missing (`SaltFails`). What a null pointer does is `Dead`:
deleteUser does not check its `fopen` of the old file, opens the new one, and reads.

`AccountStore` is the promise, with the call and its outcome as state: a call is asked for
(`Ask`), and either done (`Do`: its one change is made and it returns) or refused
(`Refuse`: it could not be done, nothing changes and it throws). A lookup answers whether the
account is there. So neither a call that returns without its change nor one that throws after
it is a step of it. The mapping takes the accounts as they are between calls.

### TimeScheduler
`tick` against `clock`, the local wall clock in seconds. The clock is unset
until `TickSet`; then it moves on by at most `Gap` seconds per tick, or back by
at most `Slip`. `since`, `fired` and `back` are history; `back`, the days the clock went
back in, is what `OncePerSteadyDay` excuses: there the event can run again, and
a clock set back across midnight runs it at once.

### Process
The caller's steps are its system calls: `checkOutput` (pipe), `Fork` or `ForkFails`,
`Select` and `Read`, `SelectTimeout` and `Waitpid`, `LastRead` with the destructor
of `fd_auto`; `safeSystem` and `Wait`. The command (external) writes in pieces, waits
while the pipe is full, and ends or is killed. `open` counts the caller's
descriptors over all its calls, `inherited` those the command still has after `Exec`;
`emitted` is what the command wrote, `so_far` what was read of it.
`quiet` is history. A select that is interrupted by a signal, and a SIGCHLD that is
ignored, are not modelled.

### MCServices
The password store, the ages of a password, the scheduler and `Process` share no state.
One run checks them: `component` is chosen at the start, its actions are those of the one
chosen, and the others stay where they began. What the run says of each is what a run of it
alone would say.

### AxiDataCapture
The driver's register accesses and its reads of the DMA buffer are steps;
`MoveBurst` is the core (external: inferred from the registers), which moves a
burst whenever it is triggered. Where a capture begins in the ring is left
open. Units of a capture are numbered, so a slot shows what it was given.
`overrun` records that the core overwrote something the program had not read
yet; `keeps_up` chooses, at the start, a program fast enough to prevent it.
Accesses made while the core is off are one step: nothing else can move then.
`fetchPacket` is only called while streaming, as its comment demands.

The constructor writes BLOCKS_PER_TRANSFER in blocks of 128 bytes, `startCapture` in bytes.
Which of the two the core counts cannot be told from the repository: `block`, the units of
the buffer in one block, is chosen when the core is found, 1 or a burst, and what is stated
holds for either. A transfer may have any size; `startCapture` cuts it to whole samples, which
need not be whole bursts.

The buffer may not be coherent with the cache (`coherent`): then a unit that was
read once is read from `cached`, until `syncBufferForCpu` drops it. The driver
never calls that; `syncs` is a program that does, each time before it fetches.

### UioDevice, MappedFile, Uio
`UioDevice` opens a device by index or name: `isDevicePresent` and `ReadName` are
the scan, `OpenFile`, `ListMaps`, `ReadMap` and `OpenSync` are `_init`, with
`getIpCoreConfiguration` in between, one access to the system a step. That looks in the device tree
for a node whose name ends with the address of the first map (`FindNode`), whatever device
it is of, lists its files (`ListNode`) and reads one after the other (`ReadProperty`); a node
that has gone by then makes it throw, no node at all gives an empty
configuration. `Change` is the kernel: between any two of them a device goes, or one
comes at a free index, possibly with the address of the one that went. `file`,
`maps` and `ipCoreConfiguration` hold the device each was taken from, so that a
mixture shows; `plugged` is whether the device behind `file` is still there. `held` is what
the process has open; `Throw` is a constructor that throws, whose members release what they hold.

`MappedFile` is a register as a set of bits, its shadow and the read mask.
`write32Masked` is two steps (`MaskedRead`, `MaskedWrite`), as a device may change a
register of its own (`DeviceSets`, for `volatile` ones) between them. `Stray` is an
access the check of the index lets through behind the mapping (`outside`).

`Uio` composes them: after the device was opened a program `Chooses` what to do.
`uio_capture` with `CaptureLoop`, `uio_fill` with `FillWord` and `uio_dump` are the
commands of `apps/uio/uio_main.cpp`; nobody looks whether the file could be opened that
`CaptureLoop` writes to, and without it the first packet ends the program (`Crash`). `Capture`
is a program that makes the calls of the driver in any order, with a device that is
still plugged in, `UseRegisters` one that makes those of `MappedFile`.
`Initialise` and `Constructing` are the constructor of `AxiDataCapture`, which finds
the core as it was left, also streaming for a program that was killed (`FindCore`);
`EndCapture` is its destructor, also after an exception in the middle of a packet,
and `CloseDevice` that of the device. `Forget` drops what the system looked like,
which nothing looks at again.

### FileSystem, Directory, File, Files
`FileSystem` is what the system calls work on: `links` says what has a path, `data`
what each file holds; a file that is open stays that file when its path is renamed
or removed. `Directory` and `File` take the functions one system call a step:
`Look`, `ReadUmask`, `ResetUmask`, `Component`, `MakeComponent` and `RestoreUmask`
are `make_path`, `Verify`, `VerifyPart` and `MakePart` `verifyAndCreate`;
`CopyFrom`, `CopyTo`, `CopyRead` and `CopyWrite` are `copyFile`, with part writes;
`WriteOpen`, `WriteStream` and `WriteClose` a file written through a stream;
`ReadSize`, `ReadOpen` and `ReadUnits` `read_all_bytes`, with its loop over chunks
for files whose size is said to be 0; a read that fails ends it as the end of the file does,
with what was read by then. `readAllLines` is the operator that splits
what was read; `Scanned` is its loop. Every thread of `Files` makes the one call its scene gives it:
the other threads are all that interferes, and `MCFiles` has the scenes of any two
calls. A scene is a tree of paths with what they name, and calls on paths of that tree
(`ScenesAssumption`: with a path all that it goes through is of the tree, and is a
directory or a link to one when the path is there). `Opened` is what an `open` of a path gives.
The subdirectory given to `verifyAndCreate` may be empty (`root` is then the whole path). `together` puts the threads into one process, with one umask.

### RiffFile, WavFile, WavFileDisk, WavFormat, Wav
`RiffFile` is the file between writers and readers: its length, the size in the
RIFF header, and where each chunk's header is with what it says. Contents are
extents; a label and an associated file have the four characters of the name of their cue
point. The number of points is to be told from the size of the cue chunk, as the reader sets
the count it read to 0. `Sums` are the totals that sizes and positions are made of.

`WavFile` is `WavFileSimplePcm` and the chunk classes below it: the session
variables are the constructor's `format`, the cue `points`, the list's `assoc`,
the `pieces` of the data chunk, and, while the rate is reduced, the iterator `it`
of the write loop with what it has `sampled`. `getSize` and `DataSize` are what
the headers are filled with before anything is written; `WriteFile` lays out
what is written. One sample is one step (`writeSample`), by `SetPos` and
`NextPos`, which are `SampleIteratorMemory`; the loop asks for as many samples as one has
bytes, and where copying those goes past the end of a piece the program may end there (`crashed`).
`Fourcc` is the key a name is kept by: its first four characters, or filled up with
spaces. `ByHand` is a format of a tree put
together without `setSampleWidth`, which `fillBuffer` can write to memory. A piece
may be empty: `addData` takes any length (`SetPos` and `CutData` are what comes of it).

`WavFileDisk` is the constructor of `WavFileDiskPcm`, one step per round of its
loop over the file and of the inner loop over a LIST. A label or file is kept by its four
characters, so that of two names that share them the last chunk is found under both; a name of
fewer characters is never found (`Lookup`). `WavFormat` is the writer of
a header with samples and `readHeader`, one step per field. Where what it takes for a field
is none, which field it looks like and of what size is left open (`Misread`), negative sizes
included: `misreadField` finds data, goes on from there, or fails, and `back` records that
`fseek` went backwards.

`Wav` puts them together: a file is written by `WavFileSimplePcm`, by
`WavFormat`, by another program (up to `MaxForeign` chunks of any of the
`ForeignChunks`, in any order, with duplicates, unknown chunks and odd sizes), or
is not there; `CutShort` ends it early, in or after a header or before its last
byte; then either reader reads it. There is no abstract writer: that what was
given is read back is stated as an invariant across both
(`ReadsBackWhatWasWritten`).

## 3. Runs

| run | config | bounds | shows |
|---|---|---|---|
| ring | `MCCircularBuffer` | 3 slots, 2 values, loads in order or not | all members: `PushHasRoom`, `CallWithinSize`, `KnownIsThere`, `NoSharedSlot`; of those that acquire, `CopiesTheQueue`; with fairness the ring implements `BoundedFifo!FairSpec` |
| ring_relaxed_peek_pop | `MCCircularBufferRelaxedPop` | the same | `pop_n(E*, n)` and `peek(E*, n)` may copy an old value |
| services | `MCServices` | see below | four components that share no state, each by itself |
| ... passwd | | 1 process, 4 users, one added and deleted, or edits of 2 users with any number of deaths, any part of a file written by then | `ImplementsStore`, `PairedWhenQuiet`; `OldContentKept` |
| ... aging | | 7 days, ages -1..3, warnings 0..4 | `WarnedBeforeExpiry`, `TurningOnGrantsPeriod`, `DaysLeftCountsDown` |
| ... scheduler | | a day of 12 s, window 4, gap 3, back by up to 2, 4 days, every event time | `FiresWhenDue`, `OncePerSteadyDay`, `NoDaySkipped` |
| ... process | | buffer of 2, pipe of 4, outputs up to 7, 5 descriptors, 5 calls | `ShortOutputIsWhole`, `OnlyStandardDescriptors`, `CallsReturn` |
| passwd_reader | `MCPasswdStoreReader` | 2 processes, 3 accounts | a reader is told an existing account is missing |
| scheduler_back | `MCTimeSchedulerSlip` | as above | fires twice in a day |
| process_output | `MCProcessOutput` | as above | the end of a command's output is missing |
| uio | `MCUio` | 2 indices, 5 kinds of device, 2 changes while opening; ring of 6, bursts of 2, packets of 4, samples of 3, transfers of 2 and 4, 10 units, a count of 2 values; 2 registers of 2 bits, a mask of 1 register | one device or nothing is opened; packets are consecutive and get fetched; transfers end and are not reported early; the shadow agrees, masked bits stay |
| uio_index | `MCUioIndex` | the same | an access behind the last register |
| files | `MCFiles` | 2 threads with one call each, of one process or two; paths of 2 components, files of 0, 3 and 5 units read in twos, 1 failure; every text of up to 5 units | directories made are there, some creator wins, the umask is kept, copies and writes are whole, reads are one version |
| files_errors | `MCFilesErrors` | the same | a write that failed is not reported |
| wav | `MCWav` | 6 formats, up to 3 pieces of 0, 1, 2 or 6 bytes, 2 points, labels or files of 3 names in 2 keys, foreign files of up to 3 chunks of 9 kinds, every cut at a header | sizes announced are sizes written, samples are every factor-th, both readers find what is there, and end |
| wav_riff_size | `MCWavRiffSize` | formats that are reduced, pieces of 2 or 6 bytes | a file longer than its RIFF header says |

Why the bounds are enough. Three slots let a range wrap, fill the ring and be
refused while another is being popped; every interleaving of one call on each
side occurs in them. A packet of 4 in a ring of 6 with bursts of 2 begins at
each of 0, 2 and 4, wraps, and meets every lag up to a lap and beyond; a transfer of 4 units is
less than two samples of 3, and ends in the middle of a burst, one of 2 is less than a sample. In the
scheduler each event time meets each tick phase; the window is larger than the
gap as 10 minutes are than a loop's period. Wave data of
up to three pieces lets an iterator skip a piece, end within one and be refused
by the last; the formats have rows that are one frame exactly and rows with one to three
bytes to spare; odd and even sizes of every chunk that can have them occur. Of the three names two
share their four characters and one has fewer. Two edited
users and a bystander stand for any number; the state of the files is the same after one death or many, which is
why any number of deaths gives a finite graph.

A device that changes twice while it is opened (unplugged, and another plugged in at
its index) meets every step of the opening,
three of the kinds have the same name, so that the wrong one could be taken, and two
the same address with different configurations, so that the wrong node could be read.
Two registers are one with a bit in the read mask and one without. A path of two
components has one to be made as a parent and one that is the last. Buffers of two
units split files of three and five into full chunks and a rest.

Deadlock is checked in all runs but those of `wav`, whose writer and readers end, `uio` and
`files`, whose programs end, and `services` and process_output, where a program makes `MaxCalls`
calls and a month its days.

Findings. Seven runs end in a violation; each contradicts a comment, a message or a test that
`PROJECT.json` quotes.
- ring_relaxed_peek_pop: `peek_pop` loads `push_index_` relaxed (CircularBuffer.h:212).
- passwd_reader: the new file has its name before it has its lines (passwd.cpp:553).
- scheduler_back: the event runs twice after the clock went back (TimeScheduler.cpp:47).
- process_output: checkOutput reads one buffer after the end of the command and no more
  (Process.cpp:216), against "Both standard and error output are capture".
- wav_riff_size: reduced data that are no whole rows make a file longer than its header says
  (WavFile.cpp:589), which the tests rule out for reduced and for cut data.
- files_errors: what the destructor fails to write nobody is told (File.cpp:150), against "throw
  exceptions on errors".
- uio_index: the index behind the last register is not refused (MappedFile.cpp:156).

What is conditional. `NoDaySkipped` excepts events due in the last `Gap`
seconds of a day: when tick sees the next day it does not look at the rest of
the last one. `PacketIsNext` holds as long as nothing unread was overwritten, which the driver cannot
tell (a full lap looks empty), and, in memory that is not coherent, for programs
that call `syncBufferForCpu` before every packet. `uio capture` does not.
`OneDevice` says which device is opened only when nothing changed meanwhile; the scan
for a name ends at the first index that is free. It speaks of the configuration only
while the device is there: that of a device that was unplugged is empty, or of the
device that has its address by then. `LeavesNothing` excepts a program that crashed, whose core goes on
writing. `OthersKept` excepts a register whose shadow was never filled
(it merges into 0), one that the device changes by itself and is shadowed, and a change
between the read and the write. A transfer of less than one sample is started as streaming, and is for
`TransfersEnd` no transfer; that a core moves no more than was asked for, if it counts blocks where
the driver writes bytes, is stated nowhere and not claimed.
`MadePathExists` excepts a file that somebody puts in the
place of a component during the call: as the last one `make_path` takes it for the
directory. `UmaskKept` excepts two threads in `read_umask` at once, where the process may
keep the umask 0. `WholeWhenReturned` and `ReadsOneVersion` are
about runs in which no system call has failed: a read that fails ends a copy or a read as the
end of the file does, and what a stream holds is written by the destructor (files_errors). The copy
of a shorter file onto a longer one keeps the longer one's tail (`CopiedAll`), and that of a
directory is an empty file. `ReadsOneVersion` lets a reader get the first part of a new, longer file
when the old one is replaced between `stat` and `fopen` (`Outgrown`). That the lines are those of what
was read holds also after a failure.
`PairedWhenQuiet` and `ImplementsStore` need a system without faults: without `/dev/urandom`
addNewUser leaves a line in `/etc/passwd` only. `OldContentKept` is about one edit: what
`/etc/shadow` held when it began is in the file or in its backup at every step, the death of the process
included. It does not say that accounts survive two edits, and they do not: when the first dies after the
renames, with the part of the file written by then still naming the user of the second, the second
renames that part over the full backup. `passwd` has one process at a time: with two, writers undo
each other's changes. The properties of aging are about accounts whose expiration is on: an
account of addNewUser, whose expiration is off, is expired to `passwordExpired` and not to
`getPasswordExpirationInfo` (passwd.cpp:368). `RiffSizeIsLength` is about data whose rows are full
(`RowsAreFull`) and that have no empty piece; the other files may differ from their header
(wav_riff_size). An empty piece ends the write of pieces that are cut to rows (`CutData`), so that the file
is shorter than its header says, and as the first piece it makes `SetPos` fail, so
that a file with a reduced rate gets its header and no samples: `SamplesEveryFactor` excepts that.
The properties of written files are about programs that survive the copy of `writeSample`.
`ReadsHeaders` and `FindsFirst` are about files whose chunks are padded, those of other programs
included, and the second about chunks that begin within the RIFF size. `ReadsBackWhatWasWritten` says of a
name what its four characters lead to, which may be another name's label, and nothing for a shorter one. `ReadHeaderFindsData` is about files of this library: `readHeader` does
not skip pad bytes, so after a field of odd size in another program's file it reads
the wrong bytes (`misreadField`). `ReadingEnds` excepts walks in which `fseek` went backwards: where a
long has 32 bits, sizes of 2^31 and more do that, and the loop need not end. The size `WavFormat`
writes for the RIFF chunk is 8 less than what follows it; `readHeader` does not
look at it, and no property rests on it. An empty data chunk that is read from a file has a
`getDataSize()` of 8 (`ReadDataSize`).
`ShortOutputIsWhole` is what checkOutput does keep: no more than one buffer is not cut. `wait` answers
0 for a command that was killed. Every checkOutput leaves the write end of its pipe
open in the caller; when the table is full the next one throws, and the command before
that gets the caller's descriptors, which is what `OnlyStandardDescriptors` excepts.

### Fairness
`CircularBuffer!FairSpec`: a thread inside a member function goes on (weak
fairness of `ProducerStep` and `ConsumerStep`: the functions neither block nor
wait), and the consumer calls `pop(E&)` again and again (strong fairness of
`PopLoad`, an assumption on the caller: it may call other members in between).
The producer need not push. `ServicesSpec`, as `ProcessSpec`: the caller goes on
(`CallerStep`: its calls to the system return), and the command
writes whenever the pipe has room and then ends (`CommandStep`); nobody kills it. `Wav!Spec`: a reader that has begun reads on; nobody
need begin, and no writer need end. `Uio!FairSpec`: the core and the
driver's functions go on, and a program that captures calls `fetchPacket` again and
again, as the loop of `apps/uio/uio_main.cpp` does, or `isCaptureInProgress` while it
waits for a transfer, and `syncBufferForCpu` where it does so at all: strong fairness,
as it may make other calls in between. Nobody need open a device or end.

## 4. Proofs

Each theorem is about the specification TLC runs, with nothing replaced, for every value
of the constants that satisfies the ASSUMEs of the modules (TLC evaluates those in the runs).
The listed theorems and the properties they state are in `PROJECT.json`. In each module
the proof has the same shape: an inductive invariant, a lemma that it holds initially, one
lemma per action or group of actions, and a temporal step. TLC checked the invariants on
the runs' instances before they were proved.

**`CircularBufferProofs`**, for every `BufferSize` of at least 1 and every set of values and
calls, on processors that keep loads in order and on those that do not.
- `TypeCorrect`: `Spec => []TypeOK`. `AgreementHolds`: `Spec => []Agreement`.
  `PushHasRoom`, `CallWithinSize`, `KnownIsThere` are not inductive one by one: that
  a push in progress has room is kept by the consumer's steps only because those
  take away no more than is stored (`CallWithinSize`), and that only because the producer
  publishes no more than it was granted. `Agreement` is their conjunction with what ties the
  locals to the indices. `NoSharedSlot` follows by arithmetic on the ring.
- `CopiesTheQueueAlways`, by `CopyInvariant`: a stored slot is settled (only the value
  stored last can be read from it), and what was copied is a prefix of the queue. This is
  under `OthersAcquire`: on a processor that reorders, the consumer calls only members that
  acquire `push_index_`, or read no slot. Without it the property is false
  (ring_relaxed_peek_pop).
- `ImplementsFifo`: `Spec => Fifo!Spec`, the safety part of the refinement, under the
  same assumption. `PushInProgress` carries what the producer has copied and not published;
  each action is shown to be a step of `BoundedFifo` or to leave its state alone.

Lemmas about distances in a ring (`DistanceAdds`, `DistanceOfAdvance`, ...) reduce
`%` to a case distinction once (`ReduceOnce`); the rest is linear arithmetic.

**`TimeSchedulerProofs`**, for every length of a day, window, gap and slip.
- `ArmedHolds`: between ticks the scheduler holds the time of day of its clock.
- `FiresWhenDueAlways`, under `SmallSlip`: a clock goes back at most a day less two
  windows. A larger step, from the end of a day to its start, is to `tick` the same
  as midnight; a correction of an hour is far from it.
- `OncePerSteadyDayAlways` by `FiredIsPast` (a day of `fired` in which the clock has
  not gone back has its event behind the clock), `NoDaySkippedAlways` by `RanSoFar`.

**`PasswordAgingProofs`**, for every calendar and every argument: `Sensible` (fields in
range, no change of password in the future; the ranges exclude a warning of 0 days,
which `WithWarning` stores as off) and, from it, the three properties.

**`UioProofs`**, about the whole of `Uio`. A lemma first shows that
every step of the program is, for the registers, the device or the capture, one of
the component's actions or a stutter.
- `RegisterInvariantHolds`, for any number and width of registers, and any mask of
  reads: `ShadowAgrees`, and `WillKeepOthers` for a masked write between its two steps,
  without which `OthersKept` is not inductive.
- `DeviceInvariantHolds`: what is held at each step of `_init` (`HoldsOneDevice`), what the
  scan has passed over (`FindsWhatWasAsked`) and what was read of the node so far (`ReadsItsNode`):
  while the device is there the node with its address is its own (`NodeIsFile`, as the registers at an
  address belong to one device at a time), so that what is read and what is still to be read make up its
  configuration. From it `OneDeviceAlways` and `LeavesNothingAlways`, the latter with the core
  (`NoneRunning`). `NamesAssumption` says that no program asks for the name of an empty index.
- `CaptureInvariantHolds`: where the tail is, seen from the core (`TailFollows`, with `Linked`
  for equality around the ring), what the last lap of the buffer holds
  (`LastLapStored`), that nobody is lapped (`NotLapped`), and that the cache holds only
  the packet being read (`CacheFollows`). `TailIsNext` and `PacketIsNext` need all
  four: that a packet is the next one rests on where it is in the ring, on what
  the core put there, on it not being overwritten since and on the cache.
- `DoneMeansMovedAlways`, for transfers of any size and either unit of the core, by `CountTells`:
  until the core has moved all, the count is the one recorded (`BlocksCover`: so many blocks hold so many units).

**`ProcessProofs`**, for every size of buffer, pipe and table of descriptors: `NothingLost`
(what was written has been read or is in the pipe) and `FewDescriptors` (a call
leaves at most one behind), hence `ShortOutputIsWholeAlways`, as what is in the pipe at the last
read is no more than was written, and `OnlyStandardDescriptorsAlways`.

**`FilesProofs`**, for any number of threads, any tree of paths and files, any calls on it and
any number of faults.
- `FileTypesHold`: a thread is at a place of its own call (`Placed`) and has open what it
  is about to read or write.
- `UmaskKeptAlways`, by `MaskIsKnown`: what a thread restores is the user's mask,
  unless two were in `read_umask` at once.
- `MadePathExistsAlways`. All steps of all calls change `links` in a way that
  `PathStep` describes (a directory never goes); so the components a call has passed stay
  directories, or became files that another thread put there (`Settled`,
  `Progress`), and whatever has a path has a directory as its parent (`Tree`).
- `SomeCreatorWinsAlways`. A thread fails at a component only when another one made it, and
  that one has gone on (`FailsBehind`, `MadeByAnother`, `Beyond`). So if all failed
  each did so behind one that came further, which cannot be of the one that came furthest.
  That there is one needs a bound on the length of paths, the theorem's hypothesis, as
  the system has one (PATH_MAX), and `LeastNat`, from well-founded induction.
- `WholeWhenReturnedAlways`, by `WritesInvariant`: while no call has failed, what the destination holds is the old
  contents overlaid with as much of the source as is counted, and the buffer is the
  part that comes next, also when source and destination are one file. The lemmas
  `Overlaid...`, `DropOfPart`, `TakeOfPart`, `TakeOfDrop` are the facts about sequences it
  rests on; `OthersSpared` shows that another thread's step leaves a thread's files alone, or
  sets `disturbed`.
- `ReadsOneVersionAlways`. What is read so far is a prefix of the open file, and the size
  asked for is the length of the file `stat` looked at (`ReadsInvariant`); it is all of it when the read
  ends, unless one has failed. The lines are about
  data only: `ScansText` is the invariant of the loop of `readAllLines` (the lines so far, put
  together, are what is kept of the text before the line that has begun, and no line feed has
  come since), `LineIs` that `_append_line` leaves out exactly the carriage return that
  `Kept` does, `LinesAreText` the outcome for every text. That the recursive functions `Scanned`,
  `Kept` and `Joined` exist and have their steps is `SomeValues`, by induction over a number
  (`UpTo`, by the least counterexample).

**`WavProofs`**, for any formats, any number and size of pieces, labels, associated files and cue
points, any foreign chunks, and wherever a file is cut. It assumes that sizes are
numbers, those of labels and associated files not 0 (`SizesAssumption`), and that a foreign LIST
is filled by the chunks in it (`ForeignAssumption`): the readers rest on that.
- `SamplesEveryFactorAlways`, by `WriterInvariant`: pieces are whole samples where the rate
  is reduced (`PiecesDivide`), and the iterator of the write loop is on the next multiple
  of the factor, or there is none left (`SamplingFollows`). That `NextPos` gets from one to the
  next across pieces of any size, also empty ones, is the main lemma.
- `RiffSizeIsLengthAlways`, by `FileInvariant`: a file is that of its writer while it is whole, and
  every file has a `Layout`: chunks are apart, and what follows one, and in a list what follows
  one inside it, is a chunk or the end; only samples may be shorter or longer than their header says. The length is
  compared with the announced size chunk by chunk, through `SumsStep` and its like.
- `ReadsHeadersAlways` and `FindsFirstAlways`, by `DiskInvariant`: the position of the reader is
  one where a chunk follows, and up to there it has found the first of each kind.
- `ReadHeaderFindsDataAlways`, by `HeaderInvariant`: the fields before the position are not the
  data, in files whose format comes first and that have no chunk of odd size but the data
  (`Plain`), which those of the two writers are.
- `ReadsBackWhatWasWrittenAlways`, by `NamedInvariant`: the walk through the list holds, for every
  name, the last label or file before its position. `AssocPlaces` and `KindsAre` say where
  the writer's chunks are; `MaxIs` and `LastIs` tie the last one in the file to the last one given.

**`PasswdStoreProofs`**, for any users, accounts and arguments of the edits.
- `OldContentKeptAlways`, for one process that calls changePassword, changeMaxPasswordAge and
  changeWarningPeriod on a system with faults: with two processes, or an addNewUser after a death
  between the renames, it is false. `Edits` says at which step which of `/etc/shadow` and its
  backup is what it was when the call began, and that the stream is not of either until
  then; nothing is assumed of the files at the start of a call, as it is about what
  the call finds. A new file gets an inode of its own (`FreshIsFree`, by counting them).
- `PairedWhenQuietAlways` and `ImplementsAccountStore`, for one process that makes any calls
  without faults, if nobody's uid is above those given and nobody is not added. `Effect` is what a call is to make of the two files, as a function of their
  contents when it began (`before`), and `AnswerIsStep` that its outcome is `Do`'s or `Refuse`'s; `Sound` contents
  have one line per name in both files, own uids, and nobody's uid above those that are given. `EffectIsSound` and `DoneIsStep`
  are about contents only: an effect is sound again, and seen as accounts is what `Do` makes of
  them. The invariant `Works` ties the disk to them: at each step of a call each
  of the files is `Untouched`, `Pending` (renamed or opened, with the first of the new lines in it and
  all of them in its stream) or `Done`, never anything else, so that after the last stream is closed the
  contents are `before` or its `Effect` (`Turns`).
  The provisos are needed: `NextUid` does not count nobody's uid, so an account nobody that
  was made by addNewUser would share its uid with the next account made, and a uid
  given above nobody's could reach it (`NobodyApart`). With two processes both are false, and
  on a faulty system what they say does not hold, which is why they except it.
  What deleteUser keeps is a recursive function (`Remaining`); `SomeKept`, `KeptIs` and
  `WithoutPicks` prove what it has, by the least length for which it would not.

Only model-checked.
- Liveness (`ImplementsFairFifo` beyond its safety part, `PacketsAreFetched`,
  `TransfersEnd`, `CallsReturn`, `ReadingEnds`): fairness and ENABLED are out of the prover's reach.

What recursive functions compute (`Sums`, `Remaining`, `Kept`, `Scanned`, `Joined`) is proved with the least
counterexample among the numbers (`LeastNat`); theorems of the library that take an operator as a parameter are
not used.

## 5. Not modelled, and why

`ts::Queue` is atomic by its mutex. Codecs, text functions and parsers have no
behaviour over time. Windows branches, the parsing of the password files, wording
and logging are left out. Of `Directory` and `File`, `getFiles` and the `exists`
functions, which only look, permissions and `chmod` are left out; of `UioDevice` the
comparison of names without case, and device names with a space at the end. A width of
sample and a number of channels that give less than a byte (startCapture then divides by
0), and a capture time of `uio` whose microseconds do not fit 32 bits, are
not modelled: what follows is a crash, and a shorter capture. Files of 2 GB and more, whose
size `read_all_bytes` keeps in an int, are not modelled. Of the wave files, the parsing of text in labels and the formats beyond PCM are left
out; the iterator over a file's data and `writeFile` of a file read from disk are planned.

## 6. Plan

1. Done: CircularBuffer with its proofs, the password store, aging, scheduler,
   capture.
2. Done: the wave files' writer and readers. Left: the iterators of
   `WavFileDiskPcm` (a chunk on disk as the source of a write, two iterators on one file).
3. Done: `UioDevice` and `MappedFile` with `AxiDataCapture` in the run `uio`;
   `Process`; `Directory` and `File` in the run `files`.
4. Done: the proofs of section 4, which state every invariant and action property of
   the runs that pass.
