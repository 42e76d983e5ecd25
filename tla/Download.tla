------------------------------ MODULE Download ------------------------------
(***************************************************************************)
(* A download: TftpClient::Read (src/tftp-client/Read.cpp) against the      *)
(* server threads that run ClientHandler::FollowOnRRQ                       *)
(* (src/tftp-server/ClientHandler.cpp), over UDP.                           *)
(*                                                                          *)
(* One step of a process goes from one return of UdpClient::Receive to the  *)
(* next call of it: handle the packet (or the timeout), write or read the   *)
(* file, send, wait again.  Every request that reaches the well-known port  *)
(* starts a new handler, so a retransmitted RRQ makes several handlers      *)
(* serve the same file to the same client.                                  *)
(*                                                                          *)
(* The network `net' is the set of datagrams in flight.  With Timely =      *)
(* FALSE it never forgets: a datagram may be delivered late, out of order,  *)
(* many times, or never, and a timer may expire at any moment.  With        *)
(* Timely = TRUE a datagram is delivered once unless Lose drops it, and a   *)
(* timer expires only when nothing is on the way, the shortest one first.   *)
(***************************************************************************)
EXTENDS TftpPackets, UdpClient, Sequences

CONSTANTS
    NBlocks,            \* DATA packets the file takes; the last one is short
    MaxRetries,         \* MAX_RETRIES: 5 in TftpClient.h and ClientHandler.h
    NegotiatedTimeout,  \* value of the timeout option: 255 in main.cpp
    Late,               \* datagrams of earlier transfers still in flight
    Timely, Lossy, MaxLoss,
    Faults,             \* environment faults that may happen
    Weather             \* {FALSE}, or {TRUE, FALSE} for calm behaviours too

ASSUME NBlocksAssumption == NBlocks \in Nat \ {0}
ASSUME MaxRetriesAssumption == MaxRetries \in Nat \ {0}
ASSUME TimeoutAssumption == NegotiatedTimeout \in 1 .. 255
ASSUME NetworkAssumption ==
    /\ Timely \in BOOLEAN /\ MaxLoss \in Nat /\ Lossy \subseteq STRING
    /\ Weather \in (SUBSET BOOLEAN) \ {{}}

ASSUME FaultsAssumption ==
    Faults \subseteq {"sigint", "full", "denied", "read"}

\* Left-over datagrams carry block numbers beyond this file; only TIDs of the
\* server reach the client, which takes its first response from anybody; and
\* none is a request to the server, which would start a transfer of its own.
ASSUME LateAssumption ==
    /\ Late \subseteq Packets
    /\ \A m \in Late : m.op \in {"DATA", "ACK"} => m.blk > NBlocks
    /\ \A m \in Late : m.dst = Client => m.src \in Handlers
    /\ \A m \in Late : m.dst # Main /\ m.src # Main

VARIABLES
    net,           \* datagrams in flight
    losses,        \* datagrams dropped so far
    source,        \* what FollowOnRRQ finds at the requested path
    calm,          \* no left-overs, no faults, only losses that are repaired
    \* the client: TftpClient and the locals of Read()
    phase,         \* where Read() waits, or how the process ended
    options,       \* args_.options is not empty
    server_port,   \* server_address_.sin_port
    block_number,  \* the uint16_t of Read.cpp:23
    retries,
    strangers,     \* retries of RecievePacketFromServer
    udp,           \* udp_client_
    file,          \* the blocks written to dest_filepath, in order
    \* the server's handlers: ClientHandler and the locals of FollowOnRRQ
    hphase, hblock, hretries, hstrangers, hudp

clientVars == <<phase, options, server_port, block_number, retries, strangers,
                udp, file>>
handlerVars == <<hphase, hblock, hretries, hstrangers, hudp>>
envVars == <<losses, source, calm>>
vars == <<net, envVars, clientVars, handlerVars>>

ClientPhases == {"start", "request", "transfer", "finish",
                 "done", "failed", "interrupted", "eintr"}
HandlerPhases == {"idle", "oack", "data", "done", "failed"}

TypeOK ==
    /\ net \subseteq Packets
    /\ losses \in 0 .. MaxLoss
    /\ source \in {"file", "missing", "outside"}
    /\ calm \in BOOLEAN
    /\ phase \in ClientPhases
    /\ options \in BOOLEAN
    /\ server_port \in Handlers \cup {Main}
    /\ block_number \in BlockNumbers
    /\ retries \in 0 .. MaxRetries
    /\ strangers \in 0 .. MaxRetries
    /\ udp \in Socket
    /\ file \in Seq(1 .. NBlocks)
    /\ hphase \in [Handlers -> HandlerPhases]
    /\ hblock \in [Handlers -> 0 .. Modulus]
    /\ hretries \in [Handlers -> 0 .. MaxRetries]
    /\ hstrangers \in [Handlers -> 0 .. MaxRetries]
    /\ hudp \in [Handlers -> Socket]

Init ==
    /\ calm \in Weather
    /\ net = IF calm THEN {} ELSE Late
    /\ losses = 0
    /\ source \in {"file", "missing", "outside"}
    /\ phase = "start"
    /\ options \in BOOLEAN
    /\ server_port = Main
    /\ block_number = 0
    /\ retries = 0
    /\ strangers = 0
    \* The constructor calls SetupUdpClient before anything is negotiated.
    /\ udp = IF options THEN ChangeTimeout(NewUdpClient, NegotiatedTimeout)
             ELSE NewUdpClient
    /\ file = <<>>
    /\ hphase = [h \in Handlers |-> "idle"]
    /\ hblock = [h \in Handlers |-> 0]
    /\ hretries = [h \in Handlers |-> 0]
    /\ hstrangers = [h \in Handlers |-> 0]
    /\ hudp = [h \in Handlers |-> NewUdpClient]

-----------------------------------------------------------------------------
(* The network and the timers.                                              *)

\* A step consumes the datagrams `in' and sends the datagrams `out'.
Exchange(in, out) ==
    net' = (IF Timely THEN net \ in ELSE net) \cup out

Waiting == phase \in {"request", "transfer"}
HWaiting(h) == hphase[h] \in {"oack", "data"}

\* Nothing in flight is about to be received, nobody is about to send.
Quiet ==
    /\ phase \notin {"start", "finish"}
    /\ \A m \in net :
          /\ m.dst = Client => ~Waiting
          /\ m.dst = Main => \A h \in Handlers : hphase[h] # "idle"
          /\ \A h \in Handlers : m.dst = h => ~HWaiting(h)

ExpiresNever(t) == FALSE

\* SO_RCVTIMEO of t seconds runs out (UdpClient::Receive, EAGAIN).
Expires(t) ==
    Timely => /\ Quiet
              /\ Waiting => t <= udp.rcvtimeo
              /\ \A h \in Handlers : HWaiting(h) => t <= hudp[h].rcvtimeo

\* A fault of the environment that this behaviour may meet.
May(fault) == ~calm /\ fault \in Faults

Lose(m) ==
    /\ Timely
    /\ losses < MaxLoss
    /\ m \in net
    /\ m.op \in Lossy
    /\ calm => m.op \in {"RRQ", "ACK"}
    /\ net' = net \ {m}
    /\ losses' = losses + 1
    /\ UNCHANGED <<source, calm, clientVars, handlerVars>>

-----------------------------------------------------------------------------
(* The client.                                                              *)

RetriesLeftOffByOne(n) == n <= MaxRetries

RetriesLeftButOne(n) == n + 1 < MaxRetries

\* The condition of every retry loop, of both programs.
RetriesLeft(n) == n < MaxRetries

LastPacketIfNotLarger(m) == TRUE

\* data.size() < blksize_.
LastPacket(m) == m.short

Rrq == RequestPacket("RRQ", options)
ClientError(port, code) == ErrorPacket(Client, port, code)

\* Read() throws: the exception's ERROR packet, if it has one, goes to the
\* current server address (TftpClient::run) and the process exits.
ClientFails(in, out) ==
    /\ phase' = "failed"
    /\ Exchange(in, out)
    /\ UNCHANGED <<envVars, handlerVars>>

WriteErrors == {"DISK_FULL", "ACCESS_VIOLATION"}

\* WriteFile throws: the disk is full, or the file cannot be opened, which
\* the first write does.
WriteFails(code) ==
    \/ code = "DISK_FULL" /\ May("full")
    \/ code = "ACCESS_VIOLATION" /\ May("denied") /\ file = <<>>

SendRrq ==
    /\ phase = "start"
    /\ phase' = "request"
    /\ Exchange({}, {Rrq})
    /\ UNCHANGED <<envVars, options, server_port, block_number, retries,
                   strangers, udp, file, handlerVars>>

\* The first response may come from any port, which becomes the peer's TID.
FirstResponse(m) ==
    /\ phase = "request"
    /\ m \in net
    /\ m.dst = Client
    /\ server_port' = m.src

AnyFirstBlock(m) == m.op = "DATA"

FirstBlock(m) == m.op = "DATA" /\ m.blk = 1

\* Read() has got its answer and enters the transfer loop, which starts by
\* acknowledging block n; after the last block it goes to the final ACK.
EnterTransfer(m, n, last) ==
    /\ block_number' = n
    /\ retries' = 0
    /\ strangers' = 0
    /\ phase' = IF last THEN "finish" ELSE "transfer"
    /\ Exchange({m}, IF last THEN {} ELSE {AckPacket(Client, m.src, n)})
    /\ UNCHANGED <<envVars, handlerVars>>

\* DATA instead of OACK: the server knows no options, go on without.
FirstData(m) ==
    /\ FirstResponse(m)
    /\ FirstBlock(m)
    /\ options' = FALSE
    /\ udp' = TimeoutReset(udp)
    /\ file' = Append(file, m.val)
    /\ EnterTransfer(m, 1, LastPacket(m))

FirstDataNotWritten(m, code) ==
    /\ FirstResponse(m)
    /\ FirstBlock(m)
    /\ WriteFails(code)
    /\ options' = FALSE
    /\ block_number' = 1
    /\ ClientFails({m}, {ClientError(m.src, code)})
    /\ UNCHANGED <<retries, strangers, udp, file>>

\* The options of an OACK are in force until TimeoutReset drops the timeout.
FirstOack(m) ==
    /\ FirstResponse(m)
    /\ m.op = "OACK"
    /\ options
    /\ udp' = TimeoutReset(ChangeTimeout(udp, NegotiatedTimeout))
    /\ EnterTransfer(m, 0, FALSE)
    /\ UNCHANGED <<options, file>>

FirstError(m) ==
    /\ FirstResponse(m)
    /\ m.op = "ERROR"
    /\ ClientFails({m}, {})
    /\ UNCHANGED <<options, block_number, retries, strangers, udp, file>>

\* DATA other than block 1, an OACK nobody asked for, any other opcode.
FirstIllegal(m) ==
    /\ FirstResponse(m)
    /\ \/ m.op = "DATA" /\ m.blk # 1
       \/ m.op = "OACK" /\ ~options
       \/ m.op \notin {"DATA", "OACK", "ERROR"}
    /\ ClientFails({m}, {ClientError(m.src, "ILLEGAL_OPERATION")})
    /\ UNCHANGED <<options, block_number, retries, strangers, udp, file>>

\* What the client repeats on every turn of the loop it waits in.
Repeated ==
    IF phase = "request" THEN Rrq
    ELSE AckPacket(Client, server_port, block_number)

\* One more retry, with a longer timeout, and the packet sent again; or the
\* limit is reached and Read() throws.
Retry(in) ==
    /\ retries' = retries + 1
    /\ strangers' = 0
    /\ udp' = IncreaseTimeout(udp)
    /\ \/ /\ RetriesLeft(retries + 1)
          /\ Exchange(in, {Repeated})
          /\ UNCHANGED <<phase, envVars, handlerVars>>
       \/ /\ ~RetriesLeft(retries + 1)
          /\ ClientFails(in, {ClientError(server_port, "ILLEGAL_OPERATION")})
    /\ UNCHANGED <<options, server_port, block_number, file>>

ClientTimeout ==
    /\ Waiting
    /\ Expires(udp.rcvtimeo)
    /\ Retry({})

\* RecievePacketFromServer in the transfer loop: a datagram of the peer, ...
FromServer(m) ==
    /\ phase = "transfer"
    /\ m \in net
    /\ m.dst = Client
    /\ m.src = server_port
    /\ strangers < MaxRetries

\* ... of somebody else, who is told so, ...
StrangerToClient(m) ==
    /\ phase = "transfer"
    /\ m \in net
    /\ m.dst = Client
    /\ m.src # server_port
    /\ strangers < MaxRetries
    /\ strangers' = strangers + 1
    /\ Exchange({m}, {ClientError(m.src, "UNKNOWN_TID")})
    /\ UNCHANGED <<envVars, phase, options, server_port, block_number,
                   retries, udp, file, handlerVars>>

\* ... and after MAX_RETRIES of those the next datagram counts as a timeout.
TooManyStrangers(m) ==
    /\ phase = "transfer"
    /\ m \in net
    /\ m.dst = Client
    /\ strangers = MaxRetries
    /\ Retry({m})

NextOrOldBlock(m) == m.op = "DATA" /\ m.blk <= block_number + 1

\* data_n.block_number == block_number + 1, compared as int.
NextBlock(m) == m.op = "DATA" /\ m.blk = block_number + 1

AcceptData(m) ==
    /\ FromServer(m)
    /\ NextBlock(m)
    /\ file' = Append(file, m.val)
    /\ udp' = TimeoutReset(udp)
    /\ EnterTransfer(m, Wire(block_number + 1), LastPacket(m))
    /\ UNCHANGED <<options, server_port>>

DataNotWritten(m, code) ==
    /\ FromServer(m)
    /\ NextBlock(m)
    /\ WriteFails(code)
    /\ block_number' = Wire(block_number + 1)
    /\ ClientFails({m}, {ClientError(server_port, code)})
    /\ UNCHANGED <<options, server_port, retries, strangers, udp, file>>

OldData(m) ==
    /\ FromServer(m)
    /\ m.op = "DATA"
    /\ m.blk < block_number + 1
    /\ Retry({m})

FutureData(m) ==
    /\ FromServer(m)
    /\ m.op = "DATA"
    /\ m.blk > block_number + 1
    /\ ClientFails({m}, {ClientError(server_port, "ILLEGAL_OPERATION")})
    /\ UNCHANGED <<options, server_port, block_number, retries, strangers,
                   udp, file>>

ServerError(m) ==
    /\ FromServer(m)
    /\ m.op = "ERROR"
    /\ ClientFails({m}, {})
    /\ UNCHANGED <<options, server_port, block_number, retries, strangers,
                   udp, file>>

\* Any other opcode: the loop turns without counting a retry.
OtherToClient(m) ==
    /\ FromServer(m)
    /\ m.op \notin {"DATA", "ERROR"}
    /\ strangers' = 0
    /\ Exchange({m}, {Repeated})
    /\ UNCHANGED <<envVars, phase, options, server_port, block_number,
                   retries, udp, file, handlerVars>>

FinalAck ==
    /\ phase = "finish"
    /\ phase' = "done"
    /\ Exchange({}, {AckPacket(Client, server_port, block_number)})
    /\ UNCHANGED <<envVars, options, server_port, block_number, retries,
                   strangers, udp, file, handlerVars>>

\* SIGINT seen by a check of the flag: tell the server, delete the file, exit.
CheckForSigintRRQ ==
    /\ May("sigint")
    /\ phase \in {"start", "request", "transfer", "finish"}
    /\ phase' = "interrupted"
    /\ file' = <<>>
    /\ Exchange({}, {ClientError(server_port, "NOT_DEFINED")})
    /\ UNCHANGED <<envVars, options, server_port, block_number, retries,
                   strangers, udp, handlerVars>>

\* SIGINT while recvfrom blocks: EINTR is thrown as a plain UdpException,
\* which only main() catches.
SigintInReceive ==
    /\ May("sigint")
    /\ Waiting
    /\ phase' = "eintr"
    /\ UNCHANGED <<net, envVars, options, server_port, block_number, retries,
                   strangers, udp, file, handlerVars>>

ClientStep ==
    \/ SendRrq
    \/ \E m \in net :
          \/ FirstData(m) \/ FirstOack(m) \/ FirstError(m) \/ FirstIllegal(m)
          \/ StrangerToClient(m) \/ TooManyStrangers(m)
          \/ AcceptData(m) \/ OldData(m) \/ FutureData(m)
          \/ ServerError(m) \/ OtherToClient(m)
    \/ ClientTimeout
    \/ FinalAck

-----------------------------------------------------------------------------
(* The server's handlers.                                                   *)

\* The handler's thread ends, normally or by an exception (swallowed by
\* StartCommsWithClient after FollowOnIntroPacket sent its ERROR, if any).
HandlerEnds(h, how, in, out) ==
    /\ hphase' = [hphase EXCEPT ![h] = how]
    /\ Exchange(in, out)
    /\ UNCHANGED <<envVars, clientVars>>

HandlerError(h, code) == ErrorPacket(h, Client, code)

\* ReadFile and Send of block n: DATA leaves once, before the wait for its
\* ACK.
SendBlock(h, n, in) ==
    /\ hphase' = [hphase EXCEPT ![h] = "data"]
    /\ hblock' = [hblock EXCEPT ![h] = n]
    /\ hretries' = [hretries EXCEPT ![h] = 0]
    /\ hstrangers' = [hstrangers EXCEPT ![h] = 0]
    /\ Exchange(in, {DataPacket(h, Client, n, NBlocks)})
    /\ UNCHANGED <<envVars, clientVars>>

\* TftpServer::run hands whatever arrives at the well-known port to a thread.
Intro(h, m) ==
    /\ hphase[h] = "idle"
    /\ m \in net
    /\ m.dst = Main

ServeWithOptions(h, m) ==
    /\ Intro(h, m)
    /\ m.op = "RRQ" /\ m.opts
    /\ source = "file"
    /\ hphase' = [hphase EXCEPT ![h] = "oack"]
    /\ hudp' = [hudp EXCEPT ![h] = ChangeTimeout(@, NegotiatedTimeout)]
    /\ Exchange({m}, {OackPacket(h, Client)})
    /\ UNCHANGED <<envVars, clientVars, hblock, hretries, hstrangers>>

ServeWithoutOptions(h, m) ==
    /\ Intro(h, m)
    /\ m.op = "RRQ" /\ ~m.opts
    /\ source = "file"
    /\ SendBlock(h, 1, {m})
    /\ UNCHANGED hudp

RefuseIntro(h, m) ==
    /\ Intro(h, m)
    /\ \E code \in ErrorCodes :
          /\ \/ code = "FILE_NOT_FOUND" /\ m.op = "RRQ" /\ source = "missing"
             \/ code = "ACCESS_VIOLATION" /\ m.op = "RRQ" /\ source = "outside"
             \/ code = "ILLEGAL_OPERATION" /\ m.op \notin {"RRQ", "WRQ"}
          /\ HandlerEnds(h, "failed", {m}, {HandlerError(h, code)})
    /\ UNCHANGED <<hblock, hretries, hstrangers, hudp>>

GiveUpQuietly(h, in) == HandlerEnds(h, "done", in, {})

\* The retry limit: while the last block waits for its ACK it is no error (the
\* timer of a socket that is about to be closed is left as it is).
GiveUp(h, in) ==
    IF hphase[h] = "data" /\ hblock[h] = NBlocks
    THEN HandlerEnds(h, "done", in, {})
    ELSE HandlerEnds(h, "failed", in, {HandlerError(h, "ILLEGAL_OPERATION")})

\* One more retry; nothing is sent again.
HandlerRetry(h, in) ==
    /\ hretries' = [hretries EXCEPT ![h] = @ + 1]
    /\ hstrangers' = [hstrangers EXCEPT ![h] = 0]
    /\ \/ /\ RetriesLeft(hretries[h] + 1)
          /\ Exchange(in, {})
          /\ UNCHANGED <<envVars, clientVars, hphase>>
       \/ /\ ~RetriesLeft(hretries[h] + 1)
          /\ GiveUp(h, in)
    /\ UNCHANGED hblock

HandlerTimeout(h) ==
    /\ HWaiting(h)
    /\ Expires(hudp[h].rcvtimeo)
    /\ HandlerRetry(h, {})
    /\ hudp' = [hudp EXCEPT ![h] = IncreaseTimeout(@)]

\* RecievePacketFromClient, as in the client.
FromClient(h, m) ==
    /\ HWaiting(h)
    /\ m \in net
    /\ m.dst = h
    /\ m.src = Client
    /\ hstrangers[h] < MaxRetries

StrangerToHandler(h, m) ==
    /\ HWaiting(h)
    /\ m \in net
    /\ m.dst = h
    /\ m.src # Client
    /\ hstrangers[h] < MaxRetries
    /\ hstrangers' = [hstrangers EXCEPT ![h] = @ + 1]
    /\ Exchange({m}, {ErrorPacket(h, m.src, "UNKNOWN_TID")})
    /\ UNCHANGED <<envVars, clientVars, hphase, hblock, hretries, hudp>>

HandlerTooManyStrangers(h, m) ==
    /\ HWaiting(h)
    /\ m \in net
    /\ m.dst = h
    /\ hstrangers[h] = MaxRetries
    /\ HandlerRetry(h, {m})
    /\ hudp' = [hudp EXCEPT ![h] = IncreaseTimeout(@)]

\* ACK 0 for the OACK.
OackAcked(h, m) ==
    /\ FromClient(h, m)
    /\ hphase[h] = "oack"
    /\ m.op = "ACK" /\ m.blk = 0
    /\ SendBlock(h, 1, {m})
    /\ hudp' = [hudp EXCEPT ![h] = TimeoutReset(@)]

\* The RRQ again: a retry without a longer timeout.
RrqAgain(h, m) ==
    /\ FromClient(h, m)
    /\ hphase[h] = "oack"
    /\ m.op = "RRQ"
    /\ HandlerRetry(h, {m})
    /\ UNCHANGED hudp

AckMatchesOrOlder(h, m) == m.op = "ACK" /\ m.blk <= hblock[h]

\* ack_n.block_number == block_number, an int that is not reduced mod 2^16.
AckMatches(h, m) == m.op = "ACK" /\ m.blk = hblock[h]

BlockAcked(h, m) ==
    /\ FromClient(h, m)
    /\ hphase[h] = "data"
    /\ AckMatches(h, m)
    /\ hblock[h] < NBlocks
    /\ SendBlock(h, hblock[h] + 1, {m})
    /\ hudp' = [hudp EXCEPT ![h] = TimeoutReset(@)]

LastBlockAcked(h, m) ==
    /\ FromClient(h, m)
    /\ hphase[h] = "data"
    /\ AckMatches(h, m)
    /\ hblock[h] = NBlocks
    /\ HandlerEnds(h, "done", {m}, {})
    /\ hudp' = [hudp EXCEPT ![h] = TimeoutReset(@)]
    /\ UNCHANGED <<hblock, hretries, hstrangers>>

OldAck(h, m) ==
    /\ FromClient(h, m)
    /\ hphase[h] = "data"
    /\ m.op = "ACK" /\ m.blk < hblock[h]
    /\ HandlerRetry(h, {m})
    /\ hudp' = [hudp EXCEPT ![h] = IncreaseTimeout(@)]

\* An ACK from the future; in the wait for ACK 0, any other opcode as well.
IllegalToHandler(h, m) ==
    /\ FromClient(h, m)
    /\ \/ hphase[h] = "data" /\ m.op = "ACK" /\ m.blk > hblock[h]
       \/ hphase[h] = "oack" /\ m.op = "ACK" /\ m.blk # 0
       \/ hphase[h] = "oack" /\ m.op \notin {"ACK", "RRQ", "ERROR"}
    /\ HandlerEnds(h, "failed", {m}, {HandlerError(h, "ILLEGAL_OPERATION")})
    /\ UNCHANGED <<hblock, hretries, hstrangers, hudp>>

ErrorToHandler(h, m) ==
    /\ FromClient(h, m)
    /\ m.op = "ERROR"
    /\ HandlerEnds(h, "failed", {m}, {})
    /\ UNCHANGED <<hblock, hretries, hstrangers, hudp>>

\* In the data loop every other opcode is dropped without counting a retry.
OtherToHandler(h, m) ==
    /\ FromClient(h, m)
    /\ hphase[h] = "data"
    /\ m.op \notin {"ACK", "ERROR"}
    /\ hstrangers' = [hstrangers EXCEPT ![h] = 0]
    /\ Exchange({m}, {})
    /\ UNCHANGED <<envVars, clientVars, hphase, hblock, hretries, hudp>>

\* ReadFile throws where a block would be read next: no exception of Reader is
\* a TFTP error, so no ERROR packet tells the client.
ReadFails(h, m) ==
    /\ May("read")
    /\ \/ Intro(h, m) /\ m.op = "RRQ" /\ ~m.opts /\ source = "file"
       \/ FromClient(h, m) /\ hphase[h] = "oack" /\ m.op = "ACK" /\ m.blk = 0
       \/ /\ FromClient(h, m)
          /\ hphase[h] = "data"
          /\ AckMatches(h, m)
          /\ hblock[h] < NBlocks
    /\ HandlerEnds(h, "failed", {m}, {})
    /\ UNCHANGED <<hblock, hretries, hstrangers, hudp>>

HandlerStep(h) ==
    \/ \E m \in net :
          \/ ServeWithOptions(h, m) \/ ServeWithoutOptions(h, m)
          \/ RefuseIntro(h, m)
          \/ StrangerToHandler(h, m) \/ HandlerTooManyStrangers(h, m)
          \/ OackAcked(h, m) \/ RrqAgain(h, m)
          \/ BlockAcked(h, m) \/ LastBlockAcked(h, m) \/ OldAck(h, m)
          \/ IllegalToHandler(h, m) \/ ErrorToHandler(h, m)
          \/ OtherToHandler(h, m)
    \/ HandlerTimeout(h)

-----------------------------------------------------------------------------
\* Faults of the environment, none of which has to happen.
Fault ==
    \/ CheckForSigintRRQ
    \/ SigintInReceive
    \/ \E m \in net, code \in WriteErrors :
          FirstDataNotWritten(m, code) \/ DataNotWritten(m, code)
    \/ \E m \in net, h \in Handlers : ReadFails(h, m)
    \/ \E m \in net : Lose(m)

Next == ClientStep \/ (\E h \in Handlers : HandlerStep(h)) \/ Fault

Spec == Init /\ [][Next]_vars

\* Each process that can go on does: the operating system schedules the client
\* and every server thread, and SO_RCVTIMEO ends every wait.
FairSpec ==
    /\ Spec
    /\ WF_vars(ClientStep)
    /\ \A h \in Handlers : WF_vars(HandlerStep(h))

-----------------------------------------------------------------------------
(* Properties.                                                              *)

\* The destination file is a prefix of the served file: no block is repeated,
\* skipped or taken from another transfer, although DATA may arrive late, twice
\* or from several handlers (Read.cpp:50, Read.cpp:158).
Prefix == \A i \in 1 .. Len(file) : file[i] = i

\* Success is the whole file: Read() gets past its loop only after the short
\* block (Read.cpp:64, Read.cpp:174).
WholeFile == phase \in {"finish", "done"} => Len(file) = NBlocks

\* Stop and wait: a handler that is past block 1 is the one the client has
\* bound to, and client and handler are never more than one block apart, so
\* the handlers started by a repeated RRQ cannot stream the file as well.
Lockstep ==
    /\ \A h \in Handlers :
          hblock[h] > 1 => server_port = h /\ hblock[h] <= block_number + 1
    /\ \A h \in Handlers : server_port = h => block_number <= hblock[h]

\* A handler that reports a complete transfer of more than one block has had
\* every block but the last acknowledged by this client: giving up on the ACK
\* of the last block (ClientHandler.cpp:227) is all it takes on trust.
ServerReport ==
    \A h \in Handlers :
       hphase[h] = "done" /\ NBlocks > 1 =>
          server_port = h /\ block_number + 1 >= NBlocks

\* Exponential backoff never gets out of step with the retry count: timeout_,
\* which the next IncreaseTimeout doubles, starts again wherever `retries' is
\* cleared.  The socket waits for that long or for the negotiated time, never
\* without a limit (SO_RCVTIMEO 0 would block for ever), and without options
\* for exactly that long.  (Which of the two it is with options is the question
\* of AnswerInForce in OptionNegotiation; TimeoutReset does not leave the
\* negotiated one in force in the data loops.)
Backoff ==
    /\ Waiting =>
          /\ udp.timeout = Doubled[retries]
          /\ udp.rcvtimeo \in {udp.timeout, NegotiatedTimeout} \ {0}
          /\ ~options => udp.rcvtimeo = udp.timeout
    /\ \A h \in Handlers : HWaiting(h) =>
          /\ hudp[h].timeout \in 1 .. Doubled[hretries[h]]
          /\ hphase[h] = "data" => hudp[h].timeout = Doubled[hretries[h]]
          /\ hudp[h].rcvtimeo \in {hudp[h].timeout, NegotiatedTimeout} \ {0}

\* Why the above holds.  A DATA packet on its way to the client is a left-over
\* or carries what its block number says, and its handler sent it; an ACK on
\* its way to a handler is a left-over or was sent by a client that is bound to
\* that handler and has written that block.
PacketInv(m) ==
    /\ m.dst = Client => m.src \in Handlers
    /\ m.op = "DATA" /\ m.dst = Client /\ m \notin Late =>
          /\ m.val \in 1 .. NBlocks
          /\ m.val <= Modulus
          /\ m.blk = Wire(m.val)
          /\ m.short <=> m.val = NBlocks
          /\ m.val <= hblock[m.src]
    /\ m.op = "ACK" /\ m.src = Client /\ m \notin Late =>
          /\ m.dst = server_port
          /\ m.blk <= block_number
          /\ phase \notin {"start", "request"}

NetInv == \A m \in net : PacketInv(m)

ClientInv ==
    /\ phase \in {"start", "request"} =>
          file = <<>> /\ server_port = Main /\ block_number = 0
    /\ phase \in {"transfer", "finish", "done"} => server_port \in Handlers
    /\ phase = "transfer" => block_number = Len(file) /\ Len(file) < NBlocks
    /\ phase \in {"finish", "done"} => Len(file) = NBlocks
    /\ Waiting \/ phase = "start" => retries < MaxRetries

HandlerInv ==
    \A h \in Handlers :
       /\ hblock[h] <= NBlocks
       /\ hphase[h] \in {"idle", "oack"} => hblock[h] = 0
       /\ hphase[h] = "data" => hblock[h] > 0
       /\ hphase[h] = "done" => hblock[h] = NBlocks
       /\ HWaiting(h) \/ hphase[h] = "idle" => hretries[h] < MaxRetries

\* The inductive invariant of the proofs.
IInv == TypeOK /\ Prefix /\ NetInv /\ ClientInv /\ HandlerInv /\ Lockstep

\* The timers of both sides, also of the sockets that do not wait yet.  What was
\* negotiated is in force until the first TimeoutReset or IncreaseTimeout.
TimerInv ==
    /\ Waiting =>
          /\ udp.timeout = Doubled[retries]
          /\ \/ udp.rcvtimeo = Doubled[retries]
             \/ /\ phase = "request" /\ retries = 0 /\ options
                /\ udp.rcvtimeo = NegotiatedTimeout
    /\ phase = "start" =>
          /\ retries = 0 /\ udp.timeout = DefaultTimeout
          /\ \/ udp.rcvtimeo = DefaultTimeout
             \/ options /\ udp.rcvtimeo = NegotiatedTimeout
    /\ \A h \in Handlers :
          /\ HWaiting(h) =>
                /\ hudp[h].timeout \in 1 .. Doubled[hretries[h]]
                /\ hudp[h].rcvtimeo \in {hudp[h].timeout, NegotiatedTimeout}
          /\ hphase[h] = "data" =>
                /\ hudp[h].rcvtimeo = Doubled[hretries[h]]
                /\ hudp[h].timeout = Doubled[hretries[h]]
          /\ hphase[h] = "idle" => hretries[h] = 0 /\ hudp[h] = NewUdpClient

\* What the client's process reports.
Status ==
    CASE phase = "done" -> "done"
      [] phase \in {"failed", "interrupted", "eintr"} -> "aborted"
      [] OTHER -> "running"

\* What Read() promises.
Transfer == INSTANCE TransferSpec WITH copy <- file, status <- Status

\* The download implements the abstract transfer on every network.
Refinement == Transfer!TSpec

\* Both sides stop: every wait has a limit, every loop a retry counter or a
\* bounded number of packets to drop.
Termination ==
    <>(/\ phase \in {"done", "failed", "interrupted", "eintr"}
       /\ \A h \in Handlers : ~HWaiting(h))

\* The file arrives, and its handler knows it.
Delivered ==
    /\ phase = "done"
    /\ \E h \in Handlers : hphase[h] = "done"

\* Lost RRQs and ACKs, up to MAX_RETRIES - 1 of them, are repaired by what the
\* client sends again, and an existing file arrives.
Completes == source = "file" /\ calm => <>Delivered

\* "keep sending DATA packets until an ACK packet with the correct block number
\* is received or retry limit is reached" (ClientHandler.cpp:174): an existing
\* file arrives although the network loses a DATA packet.
DataLossRepaired == source = "file" => <>Delivered
=============================================================================
