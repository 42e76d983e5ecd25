# TLA+ model of the TFTP client and server

This directory models the two programs of this repository, `tftp-client` and
`tftp-server`: what they do to each other over UDP, and what they promise about
the files they copy. Paths below are relative to the repository root.

## The system

| Part | State | Operations | Talks to |
|---|---|---|---|
| `TftpClient::Read` (`src/tftp-client/Read.cpp`) | server port, block number, retries, destination file | send RRQ, take the first response, ACK / receive DATA until a short block, final ACK | a handler, by datagrams |
| `TftpClient::Write` (`Write.cpp`) | server port, block number, retries, position in stdin | send WRQ, take the first response, DATA / wait for its ACK | a handler |
| `TftpServer` (`src/tftp-server/TftpServer.cpp`) | the threads it started | one thread for every datagram at the well-known port; join at SIGINT | handlers, by threads and signals |
| `ClientHandler` (`ClientHandler.cpp`) | block number, retries, file | serve an RRQ, serve a WRQ | the client; the file system, shared with other handlers |
| `UdpClient` (`src/common/udp/UdpClient`) | `timeout_`, the socket's `SO_RCVTIMEO` | Send, Receive, ChangeTimeout, IncreaseTimeout, TimeoutReset | the network |
| Packets (`src/common/TftpPacketStuff`) | - | build and parse | - |
| Files (`src/common/IO`) | open file, offset, netascii carry-over | ReadFile, WriteFile, ReadBytesFromStdin | the disk, stdin |
| SIGINT flag (`src/common/sigint.cpp`) | one atomic flag | set by the signal handler, polled everywhere | all |

What is hard here:

- **Delivery.** Datagrams are lost, late, repeated and reordered, and left over
  from earlier transfers. The receiving side of a transfer repeats its ACK; the
  sending side sends every DATA packet once.
- **Several handlers.** Every copy of a request starts a thread; all of them
  answer, and the client binds to the port it hears first.
- **Block numbers** are 16 bits in a packet and at the client, an `int` at the
  server, and compared without reduction.
- **Timers.** The retry count, the doubling timeout and the negotiated timeout
  are three pieces of state that are changed in different places.
- **Shared files.** The threads of the server test, create, empty, write, read
  and delete the same files without any lock.
- **Shutdown.** One flag, polled in many places; SIGINT may come between a test
  and the wait it guards; threads end the whole process.
- **Conversions** of option values, and of netascii text whose length changes
  between reading it and cutting it into blocks.
- **Failures**: full disk, unreadable file, SIGINT between any two steps or
  inside `recvfrom`.

What makes the parts correct: the receiver's file is always a prefix of the
sender's; success is reported for whole files only; the two sides stay within
one block of each other; only one handler writes; both sides stop; losses that
the protocol retransmits for are repaired; both use the same block size and
the timeout they agreed on; what was stored stays stored; the server ends when told to. `PROJECT.json` lists every hazard at
its line with the properties that cover it.

## Modules

| Module | Models |
|---|---|
| `TransferSpec` | the promise of a transfer: the copy grows block by block in order, `done` only when whole, a failure leaves a prefix or nothing |
| `TftpPackets` | datagrams, one constructor per packet class; a payload is the index of its block |
| `UdpClient` | the receive timer: the member `timeout_` and the socket option, which differ; `Doubled`, the reference for the backoff |
| `Download` | `Read` against `FollowOnRRQ`; extends the two above, instantiates `TransferSpec` |
| `Upload` | `Write` against `FollowOnWRQ`, likewise |
| `TftpServer` | the server process: `TftpServer::run`, its threads, the directory they share, SIGINT |
| `OptionNegotiation` | `Option`, both `ParseOptions`, `NegotiateOptions`, the tsize loop, `ValidateOptionsInOack`, `SetupUdpClient` |
| `FileIO` | `Reader::ReadFile`, `StdHandler::ReadBytesFromStdin`, `Writer::WriteFile`, the netascii conversions |
| `MCDownload`, `MCUpload`, `MCTftpServer`, `MCOptionNegotiation`, `MCFileIO` | instances for TLC: left-over datagrams, what may be lost, option lists, texts |
| `TftpPacketsProofs` | what the packet constructors build and the timer operations do; used by the next two |
| `DownloadProofs`, `UploadProofs`, `TftpServerProofs`, `OptionNegotiationProofs`, `FileIOProofs` | TLAPS proofs about the module each is named after |
| `NetasciiProofs` | proofs about the senders of `FileIO` in netascii mode; extends `FileIOProofs` |
| `Induction` | induction and recursion on numbers in a form the provers can use |

`Download` and `Upload` follow one transfer packet by packet. `TftpServer` looks
at the same handlers from the side of the file system, where only their file
operations, waits and checks of the flag count. `OptionNegotiation` opens up the
"with options" of the first two, `FileIO` the blocks of all three.

### Download and Upload

**Steps.** A step of a process goes from one return of `UdpClient::Receive` to
the next call: handle the packet or the timeout, read or write the file, send,
wait. Nothing another process does in between can be observed by it, since the
only shared state is the network and, among upload handlers, the file. There is
one action per branch of the code. Client variables keep the names of the
source (`server_port` is `server_address_.sin_port`, `strangers` the `retries`
of `RecievePacketFromServer`); those of a handler start with `h`. `phase` says
which loop the client waits in: `request` (first loop), `transfer` (second
loop), `finish` (before the final ACK), or how the process ended: `done`,
`failed` (an exception), `interrupted` (SIGINT seen by a check of the flag),
`eintr` (SIGINT inside `recvfrom`).

**Network.** `net` is the set of datagrams in flight. With `Timely = FALSE` it
never forgets, so that every datagram may arrive any number of times at any
later moment or never, and a timer may expire at any moment: these runs and all
the proofs cover loss, delay, duplication and reordering together. With `Timely
= TRUE`, for the liveness runs, a datagram is delivered once unless `Lose` drops
it, at most `MaxLoss` times and only those in `Lossy`, and a timer expires only
when nothing is in flight to somebody who waits, the shortest one first.

**Left-overs.** `Late` holds datagrams of earlier transfers. It is assumed that
their block numbers are beyond this file and that what reaches the client comes
from a server port; a genuine-looking first answer from a stranger would be
accepted by the code (`Read.cpp:41`), and no property could hold.

**Calm.** A behaviour is calm or not from the start (`Weather`). In a calm one
there are no left-overs and no faults, and only packets are lost whose loss the
code repairs: RRQs and ACKs of a download, ACKs of an upload but the last.
`Completes` speaks of calm behaviours, `Termination` of all.

**Timers.** A timer is compared with others by its length, not by the time it
has left. That orders the events of one loss round correctly as long as nobody
has been waiting longer than the others, so losses of an OACK, which make
client and handler wait from different moments, do not happen in calm
behaviours (the others have them).

**Abstractions.** The options of a request are present or not, with the one
value the client sends (`timeout`, 255 in `main.cpp:95`); blksize is the same on
both sides, and a block is its index.

### TftpServer

A step is a system call that others can observe. `main` is where `run()` is:
testing the flag (`check`), between the test and `recvfrom` (`enter`), inside
`recvfrom` (`recv`), sending SIGUSR1 (`signal`), joining (`join`). `tphase` is the
same for a thread, from `intro` to `refused`, `failed` or `done`; whether the
packet it waits for arrives, comes too late or is wrong is a free choice. Files
have an identity apart from their name, as inodes do, so that a thread can go on
writing to a file that lost its name. A block is marked with who wrote it and
with its number; a Reader reads ahead by a free number of blocks, as a stream's
buffer does. SIGINT goes to the main thread, as Linux does while that thread
does not block it. `status` says how the process ended: `stopped` (run()
returned), `killed` (SIGUSR1), `terminated` (`std::terminate` of a thread).

### OptionNegotiation

`world` says whether our two programs talk to each other, or one of them to a
program that sends any list of options. A value is what `stoi`, `stoll` and
`stoull` make of its text: an int and its number, beyond int, beyond 64 bits, no
number, empty, or cut off. An action of the server is one outcome of
`ReadWritePacket`'s constructor and `FollowOnRRQ` or `FollowOnWRQ` up to the first
answer; the tsize loop takes one step per block. Request and answer arrive. The
tsize loop is that of octet mode. An option has the text of its name (`nameStr`)
beside the enum made from it (`NameOf`), which is all that the parsers compare.
`ctimeout` and `stimeout` are the timers in force, `SO_RCVTIMEO` of the two sockets;
`ServerTimeoutReset` and `ClientTimeoutReset` are the first `TimeoutReset` of either
side, with which the transfer goes from its first wait (`transfer`) to the data
loop (`data`).

### FileIO

A step is one call of `ReadFile`, `ReadBytesFromStdin` or `WriteFile` with the
block size `n`, repeated as the transfers do until a block is short. Data
characters are numbered by their place in the text, so that a loss, repetition
or move shows; line ends are all alike. `held` is `overflow_buffer_` or `tbw_later_buffer_`. A byte that
`read` did not assign at the end of the input may be anything in `UninitByte`.
The shipped client always asks for octet; netascii is met by the server with
other clients.

## Runs

| Run | Checks | Bounds |
|---|---|---|
| `download_safety` | TypeOK, Prefix, WholeFile, Lockstep, ServerReport, Backoff, Refinement | 3 blocks, 2 handlers, 2 retries, all faults, left-overs, never-forgetting network; symmetric in the handlers |
| `download_liveness` | Termination, Completes | 3 blocks, 3 retries; any two losses, SIGINT, read error, left-overs that count no retry; and calm |
| `upload_safety` | TypeOK, StoredPrefix, SingleWriter, ServerReport, Lockstep, Backoff, Refinement | 2 blocks, otherwise as `download_safety` |
| `upload_liveness` | Termination, Completes | 3 blocks, 3 retries; any two losses of answers or DATA, SIGINT, left-overs that count no retry; and calm |
| `server` | TypeOK, LoneUploadIntact, BlocksInPlace, ServedPrefix, ExistingFileKept, Stops | 3 requests for one path that exists or not, 2 blocks, failing open and write, SIGINT |
| `options` | TypeOK, Agreement, RefusedForCause, OackJudged, GetsAnswer | all lists of up to two options, values on both sides of every limit, file sizes around one and two blocks |
| `io` | TypeOK, OctetExact, DataKept, LinesKept, WriterDecodes, ComesToAnEnd | blocks of 8, the least that can be negotiated; all texts of data, CR and LF up to 8 characters, of data and LF up to 12, and patterns of up to 5 characters repeated to 17 and 24; for the writer also texts with NUL up to 7 |

What these runs say. `Backoff`: the member `timeout_` follows the retry count on both
sides, and the socket waits that long or the negotiated time; which of the two is the
subject of `options_inforce`. `Agreement`: both sides use one block size, and
the timeout of the OACK holds for the wait after it. `RefusedForCause` and
`OackJudged` name the two refusals that comments of the code exclude: two unknown
options, and a lower timeout. `ExistingFileKept`: no upload touches a file that was
there, although the test and the opening are far apart; only a SIGINT removes
it (a thread deletes what it was only reading). `LoneUploadIntact`: an upload
that nobody joined between its test and its opening is stored exactly and keeps
its name, also when it failed half-way - which is why a partial file blocks its
name. Two that did race share the file; `BlocksInPlace` bounds the damage.
`ServedPrefix`: a file may be downloaded while it is written, but what is sent
is a prefix of one upload. `Stops`: after SIGINT the process ends, unless the
flag was set between the last test and `recvfrom`; then one more datagram is
needed. `GetsAnswer`: every request is answered but those with a number out of
the conversion's range, a tsize that cannot be stored, and a tsize request for
a file of exactly one block, which keeps the measuring loop going for ever.
`DataKept`: converting the surplus of a block again with the next one neither
repeats nor moves a data character of any text, and loses none of a text with
plain newlines. With `StdHandler` it does lose some, once a block ends in a
newline and the loop takes the whole input (`StdHandler.cpp:73`), but what is sent
stays in order. Data characters are all but CR, LF, NUL and what an unassigned byte
may be: `DataKept` does not see what happens to line ends. `LinesKept` says that
none is lost or passes a data character; that some are added, in the middle of lines
too, is what `io_lines` shows. `WriterDecodes`: the Writer fails on a
text whose last block is empty (`Writer.cpp:51`), and decodes every other one
exactly unless the text has a NUL after a CR: the CR that `WriteFile` holds back
at the end of a block may be one it has decoded already, is decoded a second
time with the next block, and then takes such a NUL for its other half (LF LF LF
CR NUL in blocks of 8 loses the NUL). `ComesToAnEnd`: re-converting the surplus
does not go on for ever. Its bound, forty times the text and a block, is the one
that is proved; on the texts of the run four times and two blocks would do. That
the least block size is 8 (`Option.cpp`) matters: in blocks of 4 the text CR CR CR
would have no end, as conversion and line ends make up for every block.

`Refinement` is a safety property that does not mention handlers, so it may be
checked under the symmetry of the safety runs. The wrap of block numbers in a
download needs no run: the theorems hold for files longer than the block
numbers. That of an upload needs none for the same reason: `StoredCorrect` is about
inputs of any length, and `UploadRefines` too, with options on, as in `main.cpp`:
without them the ACK 0 of the beginning, delivered late, is taken for the ACK of block 2^16.

Two handlers are enough to have a stale and a bound one; a third behaves like
the stale one. Three blocks have a first, a middle and a last one; two retries
have a first retry and the limit. Of three threads two can race and a third
comes late or reads; two blocks have a first and a last one. Two options show
every relation between options that the code looks at (repeated, more than
requested, not requested). Twelve characters cross two block boundaries, and
their conversion three. Deadlock checking is off because every
transfer ends.

Five runs show that the code does not do what a comment or document says
(`findings` in `PROJECT.json`):

- `download_dataloss`: one lost DATA packet ends the transfer, as it is never
  sent again (`ClientHandler.cpp:174` says otherwise; `Write.cpp:135` does the
  same in an upload). If the last packet is lost the server even reports
  success.
- `upload_response`: after one timeout of the WRQ the client sends DATA to the
  well-known port without any response (`README.md:17`).
- `server_cleanup`: SIGUSR1, for which there is no handler, kills the server
  before its threads have cleaned up (`manual.pdf`, 3.1).
- `options_inforce`: what a side works with is not what the answer says. `TimeoutReset`
  puts the default back before or after the first block, so that a negotiated timeout
  is not what the two sides wait while data flows (`README.md:30`). An option that the
  answer leaves out stays as it was asked for (`Read.cpp:59`, `:87`): a client that asked
  for blocks of 1024 takes a full block of 512 for the last one.
- `io_lines`: every full netascii block that does not end in CR LF gets one, which
  the comment wants at the end of the file only (`Reader.cpp:111`): a line of 9
  characters goes out as two in blocks of 8. There is more of this kind in the model: a
  short last block gets a CR LF also when it has one, and a pair that was cut by a
  block is converted again, so that seven characters and a newline, then `h`, go out as
  the seven, CR CR LF, `h`, CR LF, CR LF.

Other disagreements that the models contain and no run is spent on: two different
options the server does not know are refused as one option twice
(`ReadWritePacket.cpp:104`), though unknown ones are to be ignored
(`ClientHandler.cpp:451`); the client refuses a lower timeout (`TftpClient.cpp:198`) that
its comment allows (`TftpClient.cpp:180`); a SIGINT
inside the client's `recvfrom` leaves the unfinished file (`manual.pdf`, 3.1); without
the last ACK the client of an upload fails (`manual.pdf`, 2.1.2); the measured tsize
goes into a copy of the option and never into the OACK (`ClientHandler.cpp:103`).

Some properties except what the code is known to do, and the hazard's note says so:
`ExistingFileKept` the deletions after SIGINT, `RefusedForCause` and `OackJudged` the two
refusals just named, `Stops` the window before `recvfrom`,
`GetsAnswer` the requests listed above, `WriterDecodes` the empty last block and the
NUL after a CR. They show that there is no further exception.

**Fairness.** `FairSpec` has weak fairness for the client and for each handler:
the operating system runs every thread, and `SO_RCVTIMEO` ends every wait. It
does not make the network deliver: a receive or a timeout is taken because a
process that waits always has one of the two. Faults and losses have no
fairness. `Termination` needs no more; `Completes` needs the bounds on losses.
`TftpServer` has the same for the main thread's own steps and for every thread;
`Accept` has none, since nobody has to send a request. `OptionNegotiation` has it
for the server's thread only. `FileIO` needs none: that the blocks come to an end
is a bound on their total length.

## Proofs

Every invariant that the passing runs check but `LinesKept`, and every action or
refinement property, is a theorem as well, for every value of the constants that the named
assumptions admit: any number of blocks, block numbers, handlers, threads and
paths, any retry limit, option lists and texts of any length. In each component
the invariant to be proved is not inductive; `IInv` (with `TimerInv`,
`KeptInv` and `LengthInv`) in the component's module is the strengthening, which TLC has checked on the run's
instance too. There is one lemma per action, or group of actions that do the
same, `NextInv` puts them together, and the theorems follow from `Invariance`.

| Module | Theorems (property) |
|---|---|
| `DownloadProofs` | `TypeCorrect` (TypeOK), `DownloadCorrect` (Prefix), `SuccessIsWhole` (WholeFile), `StopAndWait` (Lockstep), `ServerReportCorrect`, `BackoffInStep` (Backoff), `DownloadRefines` (Refinement) |
| `UploadProofs` | `TypeCorrect`, `StoredCorrect` (StoredPrefix), `OneWriter` (SingleWriter), `ServerReportCorrect`, `StopAndWait` (Lockstep), `BackoffInStep`, `UploadRefines` |
| `TftpServerProofs` | `TypeCorrect`, `ExistingFilesKept`, `LoneUploads` (LoneUploadIntact), `BlocksAtTheirPlace` (BlocksInPlace), `ServedPrefixes` (ServedPrefix) |
| `OptionNegotiationProofs` | `TypeCorrect`, `AgreementHolds`, `RefusalsJustified` (RefusedForCause), `OacksJudged` |
| `FileIOProofs` | `TypeCorrect`, `OctetCorrect`, `WriterCorrect` (WriterDecodes) |
| `NetasciiProofs` | `DataCorrect` (DataKept), `EndCorrect` (ComesToAnEnd) |

**Download.** What arrives next depends on what is in flight. `NetInv`: a DATA
packet that is no left-over carries the block its number says (modulo 2^16) and
its handler has got that far; an ACK that is no left-over was sent to the bound
handler, for a block that has been written. `ClientInv`: in the transfer loop the
block number is the length of the file, less than the whole. `HandlerInv`: ranges
of the handler's block number per phase. The central lemmas are `GenuineData`
(DATA whose number is one of this file's is that block - here the wrap is
settled: the client never accepts number 2^16, which no packet carries) and
`GenuineAck` (an ACK that matches a handler's block was sent by the client that is
bound to it). `NetStep` says that packets in flight stay right as long as client
and handlers only move forward; `ClientChange` and `HandlerChange` reduce a step
of one side to its own conjuncts. For the refinement, `NextFileStep` classifies
every step as writing the next block, finishing, failing or leaving file and
report alone.

**Upload.** The client's block number wraps and the server's does not, so that a
number stands for many blocks of a long input. `PacketInv` therefore says of DATA
only that its payload has been read, and that below 2^16 the number is the
block's; `ClientInv` allows a client to be far ahead once its handler is stuck at
block 2^16 - 1. That is enough for the file (`StoredCorrect`, `OneWriter`,
`ServerReportCorrect`), for inputs of any size. Lockstep and refinement need the
hypothesis `NumbersDistinct`: the input has fewer blocks than there are block
numbers, or requests have options, as those of `main.cpp` do. Without it they are
false (an ACK 0 of the beginning taken for that of block 2^16). The single writer
rests on: a handler that has a block is the one the client is bound to, since
DATA goes to no other port.

**Timers.** `Backoff` speaks of processes that wait: `timeout_` is the default doubled
once per retry, and the socket's timer that or the negotiated one; `TimerInv` adds what their
sockets are before that, and that a handler's `timeout_` agrees with its retries in
the data loop. `ClientTimerStep` and `TimerMove` are the few things a step may do to
a timer, and each keeps it in step with the retries. The power of two is the
recursive function `Doubled`; `DoubledFacts` is what it computes.

**TftpServer.** The races are settled by who may have which inode open:
`InodeInv` (an inode is an old file's, or that of the thread that created it at
its own path), `UploadInv` (an upload is admitted only for a free path, so it never
meets an old file there; without a rival it meets no file at all), `ContentInv` and
`PlaceInv` (what is in a file, by the number of its writers), `FetchInv` (what a
reader has fetched is a prefix of the one writer's input, with its read-ahead).
`ThreadsAssumption`: the set of threads is finite, since two of the properties
count the writers of a file.

**OptionNegotiation.** `ServerInv` ties the server's stored values and its answer
to the parsed request, `ClientInv` the client's to its own; `PairInv` is what the
two have in common, the block size. In `RefusalsJustified` options that are one to the
parser have one name (`SameNameStr`), unless there are two unknown ones in the request
(`OneUnknownName`). `FitsFacts` is the difference between what the client accepts
and what its comment says, a lower timeout. The lemmas are about lists: `NegotiatedFacts` (what
`NegotiateOptions` copies), `ValueOf` and the two parsers. `ClientListsAssumption`
says that our client's lists are ones that its own `Option` constructors accept.

**FileIO.** `WriterInv`: what is written, followed by what the rest decodes to
behind the CR that is held back, is the whole. The step uses `DecodeBlock`: cutting
an encoded text anywhere, decoding the front, holding back a final CR and decoding
it with the remainder gives the same as decoding at once. This is false for texts
in general, and `Unambiguous` is the condition: what follows a CR NUL is not
something that a CR would take. `ToUnambiguous` shows that `FormatToNETASCII`
produces such texts when the original has no NUL after a CR; planning this
lemma is how the loss of a NUL described above was found. `JoinLaw` is the same
for two decoded pieces.

**Netascii senders.** `ReadBlock` reduces a call to what it takes (`u`: of the
surplus, or all of it and some of the rest), what it adds (`b`: the byte that was
never assigned) and what it loses, and tells the four kinds of blocks apart: all
there is, n characters, up to the first character behind a run of newlines, or
until the input runs out. `KeptInv` then says that the data characters of `out`, `held`
and `rest` together are those of the text, and what makes the loss of the end of a
long surplus harmless: behind its first n characters there is at most one that
counts, next to newlines, which the next block takes (`Shape`); and a CR without
LF can only be the last of the input (`LoneCRLast`).
For the length, `LengthInv` gives every character of the rest a credit of 40 and
every one of the surplus 20, and shows that a full block costs more credit than it
is long. A surplus has been converted before, so it is made of pairs CR LF and CR
NUL (`Paired`), of which only the latter grow, by one in two (`PairedGrows`), and
runs of newlines not at all (`RunGrows`). What is left is the growth at the seams:
a pair that the last block cut in two, the byte at the end, the line end. With
blocks of 8 these add up to a surplus that is as long as it was; `StartsWithLF` in
the credit is for this case, as it cannot follow itself. It is here that
n must be at least 8 (`BlockAssumption`).

**Data of any length.** Recursive functions (`Negotiated`, the conversions,
`DataOf`, `Doubled`) are proved about with module `Induction`: `SetInduction` is induction over
a set in place of a predicate, from the well-foundedness of the naturals;
`Recursion`, `BackRecursion` and `NatRecursion` give the existence of a function
from its first (or last) value and a step, from which the recursive definition's
equation follows.

**Only model-checked.** Liveness (`Termination`, `Completes`, `Stops`,
`GetsAnswer`), which needs fairness and ENABLED, outside of what the proof system
supports; in `FileIO` the bound on the length takes its place. `LinesKept`, on the
run's texts. That texts need no
more than four times their length is a fact about the run's texts.

## Not modelled

Byte layout and malformed packets (a request or OACK is parsed from its list of
options on; a malformed packet is the illegal or the ignored one it ends as);
argument parsing and logging; the sanity checks of paths, beyond that they
refuse; several directories and links; running out of threads; the tsize loop
in netascii mode. `PROJECT.json` gives the reason for each component.

## Plan

1. Done: all modules above, their runs, and the proofs about each component.
2. A timed variant of the timers, for losses of an OACK.
