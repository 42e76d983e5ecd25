------------------------------- MODULE Upload -------------------------------
(***************************************************************************)
(* An upload: TftpClient::Write (src/tftp-client/Write.cpp) against the     *)
(* server threads that run ClientHandler::FollowOnWRQ                       *)
(* (src/tftp-server/ClientHandler.cpp), over UDP.                           *)
(*                                                                          *)
(* Steps, network and timers are those of module Download: one step goes    *)
(* from one return of Receive to the next call of it.  The two loops of     *)
(* FollowOnWRQ are one here: before the first block (hblock = 0) a handler  *)
(* repeats its OACK or ACK 0 and expects block 1, afterwards it repeats     *)
(* ACK hblock and expects block hblock + 1.                                 *)
(***************************************************************************)
EXTENDS TftpPackets, UdpClient, Sequences

CONSTANTS
    NBlocks,            \* DATA packets the input takes; the last one is short
    MaxRetries,         \* MAX_RETRIES: 5 in TftpClient.h and ClientHandler.h
    NegotiatedTimeout,  \* value of the timeout option: 255 in main.cpp
    RequestOptions,     \* does the WRQ have options: {TRUE} in main.cpp
    Late,               \* datagrams of earlier transfers still in flight
    Timely, Lossy, MaxLoss,
    Faults,             \* environment faults that may happen
    Weather             \* {FALSE}, or {TRUE, FALSE} for calm behaviours too

ASSUME NBlocksAssumption == NBlocks \in Nat \ {0}

\* SendWrq compares its one retry with MAX_RETRIES; the test fails for both
\* values the code has ever had reason to use, so it is not modelled.
ASSUME MaxRetriesAssumption == MaxRetries \in Nat \ {0, 1}

ASSUME TimeoutAssumption == NegotiatedTimeout \in 1 .. 255
ASSUME OptionsAssumption == RequestOptions \in SUBSET BOOLEAN \ {{}}
ASSUME NetworkAssumption ==
    /\ Timely \in BOOLEAN /\ MaxLoss \in Nat /\ Lossy \subseteq Packets
    /\ Weather \in (SUBSET BOOLEAN) \ {{}}

ASSUME FaultsAssumption ==
    Faults \subseteq {"sigint", "full", "denied", "stdin"}

\* As in Download.
ASSUME LateAssumption ==
    /\ Late \subseteq Packets
    /\ \A m \in Late : m.op \in {"DATA", "ACK"} => m.blk > NBlocks
    /\ \A m \in Late : m.dst = Client => m.src \in Handlers
    /\ \A m \in Late : m.dst # Main /\ m.src # Main

VARIABLES
    net,           \* datagrams in flight
    losses,        \* datagrams dropped so far
    calm,          \* no left-overs, no faults, only losses that are repaired
    target,        \* what FollowOnWRQ finds at the path: nothing ("free"), a
                   \* file of earlier times ("taken"), nothing and outside of
                   \* the root directory, or a file a handler has opened
    store,         \* the blocks of that file; <<0>> for the earlier one
    \* the client: TftpClient and the locals of SendWrq and SendData
    phase, options, server_port,
    sent,          \* how many blocks were read from stdin and sent
    block_number,  \* the uint16_t of Write.cpp:111
    retries, strangers, udp,
    \* the server's handlers: ClientHandler and the locals of FollowOnWRQ
    hphase,
    hopts,         \* wrq.options is not empty
    hblock,        \* blocks received; the Writer's file offset as well
    hretries, hstrangers, hudp

clientVars == <<phase, options, server_port, sent, block_number, retries,
                strangers, udp>>
fileVars == <<target, store>>
handlerVars == <<fileVars, hphase, hopts, hblock, hretries, hstrangers, hudp>>
envVars == <<losses, calm>>
vars == <<net, envVars, clientVars, handlerVars>>

ClientPhases == {"start", "request", "transfer",
                 "done", "failed", "interrupted", "eintr"}

TypeOK ==
    /\ net \subseteq Packets
    /\ losses \in 0 .. MaxLoss
    /\ calm \in BOOLEAN
    /\ target \in {"free", "taken", "outside", "written"}
    /\ store \in Seq(0 .. NBlocks)
    /\ phase \in ClientPhases
    /\ options \in BOOLEAN
    /\ server_port \in Handlers \cup {Main}
    /\ sent \in 0 .. NBlocks
    /\ block_number \in BlockNumbers
    /\ retries \in 0 .. MaxRetries
    /\ strangers \in 0 .. MaxRetries
    /\ udp \in Socket
    /\ hphase \in [Handlers -> {"idle", "data", "done", "failed"}]
    /\ hopts \in [Handlers -> BOOLEAN]
    /\ hblock \in [Handlers -> 0 .. Modulus - 1]
    /\ hretries \in [Handlers -> 0 .. MaxRetries]
    /\ hstrangers \in [Handlers -> 0 .. MaxRetries]
    /\ hudp \in [Handlers -> Socket]

Init ==
    /\ calm \in Weather
    /\ net = IF calm THEN {} ELSE Late
    /\ losses = 0
    /\ target \in {"free", "taken", "outside"}
    /\ store = IF target = "taken" THEN <<0>> ELSE <<>>
    /\ phase = "start"
    /\ options \in RequestOptions
    /\ server_port = Main
    /\ sent = 0
    /\ block_number = 1
    /\ retries = 0
    /\ strangers = 0
    \* The constructor calls SetupUdpClient before anything is negotiated.
    /\ udp = IF options THEN ChangeTimeout(NewUdpClient, NegotiatedTimeout)
             ELSE NewUdpClient
    /\ hphase = [h \in Handlers |-> "idle"]
    /\ hopts = [h \in Handlers |-> FALSE]
    /\ hblock = [h \in Handlers |-> 0]
    /\ hretries = [h \in Handlers |-> 0]
    /\ hstrangers = [h \in Handlers |-> 0]
    /\ hudp = [h \in Handlers |-> NewUdpClient]

-----------------------------------------------------------------------------
(* The network and the timers, as in Download.                              *)

Exchange(in, out) ==
    net' = (IF Timely THEN net \ in ELSE net) \cup out

Waiting == phase \in {"request", "transfer"}
HWaiting(h) == hphase[h] = "data"

Quiet ==
    /\ phase # "start"
    /\ \A m \in net :
          /\ m.dst = Client => ~Waiting
          /\ m.dst = Main => \A h \in Handlers : hphase[h] # "idle"
          /\ \A h \in Handlers : m.dst = h => ~HWaiting(h)

ExpiresNever(t) == FALSE

Expires(t) ==
    Timely => /\ Quiet
              /\ Waiting => t <= udp.rcvtimeo
              /\ \A h \in Handlers : HWaiting(h) => t <= hudp[h].rcvtimeo

May(fault) == ~calm /\ fault \in Faults

Lose(m) ==
    /\ Timely
    /\ losses < MaxLoss
    /\ m \in net \cap Lossy
    /\ calm => m.op = "ACK" /\ m.blk \in 1 .. NBlocks - 1
    /\ net' = net \ {m}
    /\ losses' = losses + 1
    /\ UNCHANGED <<calm, clientVars, handlerVars>>

RetriesLeftOffByOne(n) == n <= MaxRetries

RetriesLeft(n) == n < MaxRetries

-----------------------------------------------------------------------------
(* The client.                                                              *)

ClientError(port, code) == ErrorPacket(Client, port, code)

ClientFails(in, out) ==
    /\ phase' = "failed"
    /\ Exchange(in, out)
    /\ UNCHANGED <<envVars, handlerVars>>

SendWrq ==
    /\ phase = "start"
    /\ phase' = "request"
    /\ Exchange({}, {RequestPacket("WRQ", options)})
    /\ UNCHANGED <<envVars, options, server_port, sent, block_number, retries,
                   strangers, udp, handlerVars>>

\* ReadBytesFromStdin and Send: DATA leaves once, before the wait for its ACK.
\* If the read fails, TFTPUnknownError is none of the errors run() answers
\* with an ERROR packet.
SendBlock(in, port, n, wire) ==
    /\ block_number' = wire
    /\ retries' = 0
    /\ strangers' = 0
    /\ \/ /\ phase' = "transfer"
          /\ sent' = n
          /\ Exchange(in, {[DataPacket(Client, port, n, NBlocks)
                            EXCEPT !.blk = wire]})
          /\ UNCHANGED <<envVars, handlerVars>>
       \/ /\ May("stdin")
          /\ ClientFails(in, {})
          /\ UNCHANGED sent

FirstResponse(m) ==
    /\ phase = "request"
    /\ m \in net
    /\ m.dst = Client
    /\ server_port' = m.src

\* ACK 0: the server knows no options, go on without.
FirstAck(m) ==
    /\ FirstResponse(m)
    /\ m.op = "ACK" /\ m.blk = 0
    /\ options' = FALSE
    /\ SendBlock({m}, m.src, 1, 1)
    /\ UNCHANGED udp

\* The negotiated timeout holds until the first TimeoutReset.
FirstOack(m) ==
    /\ FirstResponse(m)
    /\ m.op = "OACK"
    /\ options
    /\ SendBlock({m}, m.src, 1, 1)
    /\ udp' = ChangeTimeout(udp, NegotiatedTimeout)
    /\ UNCHANGED options

FirstError(m) ==
    /\ FirstResponse(m)
    /\ m.op = "ERROR"
    /\ ClientFails({m}, {})
    /\ UNCHANGED <<options, sent, block_number, retries, strangers, udp>>

FirstIllegal(m) ==
    /\ FirstResponse(m)
    /\ \/ m.op = "ACK" /\ m.blk # 0
       \/ m.op = "OACK" /\ ~options
       \/ m.op \notin {"ACK", "OACK", "ERROR"}
    /\ ClientFails({m}, {ClientError(m.src, "ILLEGAL_OPERATION")})
    /\ UNCHANGED <<options, sent, block_number, retries, strangers, udp>>

\* The handler of UdpTimeoutException is outside of SendWrq's loop: the WRQ is
\* not repeated, SendData starts without a response, towards the port the WRQ
\* went to.
RequestTimeout ==
    /\ phase = "request"
    /\ Expires(udp.rcvtimeo)
    /\ udp' = TimeoutReset(IncreaseTimeout(udp))
    /\ SendBlock({}, server_port, 1, 1)
    /\ UNCHANGED <<options, server_port>>

\* One more retry, or the limit; nothing is sent again.  The limit is an
\* error for the last block too.
Retry(in) ==
    /\ retries' = retries + 1
    /\ strangers' = 0
    /\ udp' = IncreaseTimeout(udp)
    /\ \/ /\ RetriesLeft(retries + 1)
          /\ Exchange(in, {})
          /\ UNCHANGED <<phase, envVars, handlerVars>>
       \/ /\ ~RetriesLeft(retries + 1)
          /\ ClientFails(in, {ClientError(server_port, "ILLEGAL_OPERATION")})
    /\ UNCHANGED <<options, server_port, sent, block_number>>

TransferTimeout ==
    /\ phase = "transfer"
    /\ Expires(udp.rcvtimeo)
    /\ Retry({})

\* RecievePacketFromServer, as in Download.
FromServer(m) ==
    /\ phase = "transfer"
    /\ m \in net
    /\ m.dst = Client
    /\ m.src = server_port
    /\ strangers < MaxRetries

StrangerToClient(m) ==
    /\ phase = "transfer"
    /\ m \in net
    /\ m.dst = Client
    /\ m.src # server_port
    /\ strangers < MaxRetries
    /\ strangers' = strangers + 1
    /\ Exchange({m}, {ClientError(m.src, "UNKNOWN_TID")})
    /\ UNCHANGED <<envVars, phase, options, server_port, sent, block_number,
                   retries, udp, handlerVars>>

TooManyStrangers(m) ==
    /\ phase = "transfer"
    /\ m \in net
    /\ m.dst = Client
    /\ strangers = MaxRetries
    /\ Retry({m})

AckMatchesOrOlder(m) == m.op = "ACK" /\ m.blk <= block_number

\* ack_n.block_number == block_number, both uint16_t.
AckMatches(m) == m.op = "ACK" /\ m.blk = block_number

BlockAcked(m) ==
    /\ FromServer(m)
    /\ AckMatches(m)
    /\ sent < NBlocks
    /\ udp' = TimeoutReset(udp)
    /\ SendBlock({m}, server_port, sent + 1, Wire(block_number + 1))
    /\ UNCHANGED <<options, server_port>>

LastBlockAcked(m) ==
    /\ FromServer(m)
    /\ AckMatches(m)
    /\ sent = NBlocks
    /\ phase' = "done"
    /\ udp' = TimeoutReset(udp)
    /\ block_number' = Wire(block_number + 1)
    /\ Exchange({m}, {})
    /\ UNCHANGED <<envVars, options, server_port, sent, retries, strangers,
                   handlerVars>>

OldAck(m) ==
    /\ FromServer(m)
    /\ m.op = "ACK" /\ m.blk < block_number
    /\ Retry({m})

FutureAck(m) ==
    /\ FromServer(m)
    /\ m.op = "ACK" /\ m.blk > block_number
    /\ ClientFails({m}, {ClientError(server_port, "ILLEGAL_OPERATION")})
    /\ UNCHANGED <<options, server_port, sent, block_number, retries,
                   strangers, udp>>

ServerError(m) ==
    /\ FromServer(m)
    /\ m.op = "ERROR"
    /\ ClientFails({m}, {})
    /\ UNCHANGED <<options, server_port, sent, block_number, retries,
                   strangers, udp>>

OtherToClient(m) ==
    /\ FromServer(m)
    /\ m.op \notin {"ACK", "ERROR"}
    /\ strangers' = 0
    /\ Exchange({m}, {})
    /\ UNCHANGED <<envVars, phase, options, server_port, sent, block_number,
                   retries, udp, handlerVars>>

CheckForSigintWRQ ==
    /\ May("sigint")
    /\ phase = "start" \/ Waiting
    /\ phase' = "interrupted"
    /\ Exchange({}, {ClientError(server_port, "NOT_DEFINED")})
    /\ UNCHANGED <<envVars, options, server_port, sent, block_number, retries,
                   strangers, udp, handlerVars>>

SigintInReceive ==
    /\ May("sigint")
    /\ Waiting
    /\ phase' = "eintr"
    /\ UNCHANGED <<net, envVars, options, server_port, sent, block_number,
                   retries, strangers, udp, handlerVars>>

ClientStep ==
    \/ SendWrq
    \/ \E m \in net :
          \/ FirstAck(m) \/ FirstOack(m) \/ FirstError(m) \/ FirstIllegal(m)
          \/ StrangerToClient(m) \/ TooManyStrangers(m)
          \/ BlockAcked(m) \/ LastBlockAcked(m) \/ OldAck(m) \/ FutureAck(m)
          \/ ServerError(m) \/ OtherToClient(m)
    \/ RequestTimeout
    \/ TransferTimeout

-----------------------------------------------------------------------------
(* The server's handlers.                                                   *)

HandlerFails(h, in, out) ==
    /\ hphase' = [hphase EXCEPT ![h] = "failed"]
    /\ Exchange(in, out)
    /\ UNCHANGED <<envVars, clientVars>>

HandlerError(h, code) == ErrorPacket(h, Client, code)

RepeatedResponse(h, opts, n) ==
    IF opts THEN OackPacket(h, Client) ELSE AckPacket(h, Client, 0)

\* What a handler sends on every turn of the loop it waits in.
Repeated(h, opts, n) ==
    IF n = 0 /\ opts THEN OackPacket(h, Client) ELSE AckPacket(h, Client, n)

Intro(h, m) ==
    /\ hphase[h] = "idle"
    /\ m \in net
    /\ m.dst = Main

\* FileExists is false.
FileAbsent == target \in {"free", "outside"}

AcceptWrq(h, m) ==
    /\ Intro(h, m)
    /\ m.op = "WRQ"
    /\ FileAbsent
    /\ target # "outside"
    /\ hphase' = [hphase EXCEPT ![h] = "data"]
    /\ hopts' = [hopts EXCEPT ![h] = m.opts]
    /\ hudp' = [hudp EXCEPT ![h] =
                   IF m.opts THEN ChangeTimeout(@, NegotiatedTimeout) ELSE @]
    /\ Exchange({m}, {Repeated(h, m.opts, 0)})
    /\ UNCHANGED <<envVars, clientVars, fileVars, hblock, hretries, hstrangers>>

RefuseIntro(h, m) ==
    /\ Intro(h, m)
    /\ \E code \in ErrorCodes :
          /\ \/ code = "FILE_ALREADY_EXISTS" /\ m.op = "WRQ" /\ ~FileAbsent
             \/ /\ code = "ACCESS_VIOLATION"
                /\ m.op = "WRQ" /\ FileAbsent /\ target = "outside"
             \/ code = "ILLEGAL_OPERATION" /\ m.op \notin {"RRQ", "WRQ"}
          /\ HandlerFails(h, {m}, {HandlerError(h, code)})
    /\ UNCHANGED <<fileVars, hopts, hblock, hretries, hstrangers, hudp>>

HandlerRetry(h, in) ==
    /\ hretries' = [hretries EXCEPT ![h] = @ + 1]
    /\ hstrangers' = [hstrangers EXCEPT ![h] = 0]
    /\ hudp' = [hudp EXCEPT ![h] = IncreaseTimeout(@)]
    /\ \/ /\ RetriesLeft(hretries[h] + 1)
          /\ Exchange(in, {Repeated(h, hopts[h], hblock[h])})
          /\ UNCHANGED <<envVars, clientVars, hphase>>
       \/ /\ ~RetriesLeft(hretries[h] + 1)
          /\ HandlerFails(h, in, {HandlerError(h, "ILLEGAL_OPERATION")})
    /\ UNCHANGED <<fileVars, hopts, hblock>>

HandlerTimeout(h) ==
    /\ HWaiting(h)
    /\ Expires(hudp[h].rcvtimeo)
    /\ HandlerRetry(h, {})

FromClient(h, m) ==
    /\ HWaiting(h)
    /\ m \in net
    /\ m.dst = h
    /\ m.src = Client
    /\ hstrangers[h] < MaxRetries

StrangerToHandler(h, m) ==
    /\ HWaiting(h)
    /\ m \in net
    /\ m.dst = h
    /\ m.src # Client
    /\ hstrangers[h] < MaxRetries
    /\ hstrangers' = [hstrangers EXCEPT ![h] = @ + 1]
    /\ Exchange({m}, {ErrorPacket(h, m.src, "UNKNOWN_TID")})
    /\ UNCHANGED <<envVars, clientVars, fileVars, hphase, hopts, hblock,
                   hretries, hudp>>

HandlerTooManyStrangers(h, m) ==
    /\ HWaiting(h)
    /\ m \in net
    /\ m.dst = h
    /\ hstrangers[h] = MaxRetries
    /\ HandlerRetry(h, {m})

NextOrOldBlock(h, m) == m.op = "DATA" /\ m.blk <= hblock[h] + 1

\* data_n.block_number == block_number + 1, the latter an int.
NextBlock(h, m) == m.op = "DATA" /\ m.blk = hblock[h] + 1

WrittenReopening(pos, v) == <<v>>

\* Writer::WriteFile: the first write opens, and so empties, the file; later
\* ones go to the writer's own offset, whatever others did to the file.
Written(pos, v) ==
    IF pos = 0 THEN <<v>>
    ELSE [i \in 1 .. IF Len(store) > pos THEN Len(store) ELSE pos + 1 |->
            IF i = pos + 1 THEN v ELSE IF i <= Len(store) THEN store[i] ELSE 0]

LastPacketIfNotLarger(m) == TRUE

\* data.size() < blksize_.
LastPacket(m) == m.short

AcceptData(h, m) ==
    /\ FromClient(h, m)
    /\ NextBlock(h, m)
    /\ target' = "written"
    /\ store' = Written(hblock[h], m.val)
    /\ hblock' = [hblock EXCEPT ![h] = @ + 1]
    /\ hphase' = [hphase EXCEPT ![h] = IF LastPacket(m) THEN "done" ELSE @]
    /\ hretries' = [hretries EXCEPT ![h] = 0]
    /\ hstrangers' = [hstrangers EXCEPT ![h] = 0]
    /\ hudp' = [hudp EXCEPT ![h] = TimeoutReset(@)]
    /\ Exchange({m}, {AckPacket(h, Client, hblock[h] + 1)})
    /\ UNCHANGED <<envVars, clientVars, hopts>>

WriteErrors == {"DISK_FULL", "ACCESS_VIOLATION"}

\* WriteFile throws: the disk is full, or the first write cannot open.
DataNotWritten(h, m, code) ==
    /\ FromClient(h, m)
    /\ NextBlock(h, m)
    /\ \/ /\ code = "DISK_FULL" /\ May("full")
          /\ target' = "written"
          /\ store' = IF hblock[h] = 0 THEN <<>> ELSE store
       \/ /\ code = "ACCESS_VIOLATION" /\ May("denied")
          /\ hblock[h] = 0
          /\ UNCHANGED fileVars
    /\ HandlerFails(h, {m}, {HandlerError(h, code)})
    /\ UNCHANGED <<hopts, hblock, hretries, hstrangers, hudp>>

OldData(h, m) ==
    /\ FromClient(h, m)
    /\ m.op = "DATA" /\ m.blk < hblock[h] + 1
    /\ HandlerRetry(h, {m})

FutureData(h, m) ==
    /\ FromClient(h, m)
    /\ m.op = "DATA" /\ m.blk > hblock[h] + 1
    /\ HandlerFails(h, {m}, {HandlerError(h, "ILLEGAL_OPERATION")})
    /\ UNCHANGED <<fileVars, hopts, hblock, hretries, hstrangers, hudp>>

ErrorToHandler(h, m) ==
    /\ FromClient(h, m)
    /\ m.op = "ERROR"
    /\ HandlerFails(h, {m}, {})
    /\ UNCHANGED <<fileVars, hopts, hblock, hretries, hstrangers, hudp>>

\* Any other opcode: the loop turns, and sends, without counting a retry.
OtherToHandler(h, m) ==
    /\ FromClient(h, m)
    /\ m.op \notin {"DATA", "ERROR"}
    /\ hstrangers' = [hstrangers EXCEPT ![h] = 0]
    /\ Exchange({m}, {Repeated(h, hopts[h], hblock[h])})
    /\ UNCHANGED <<envVars, clientVars, fileVars, hphase, hopts, hblock,
                   hretries, hudp>>

HandlerStep(h) ==
    \/ \E m \in net :
          \/ AcceptWrq(h, m) \/ RefuseIntro(h, m)
          \/ StrangerToHandler(h, m) \/ HandlerTooManyStrangers(h, m)
          \/ AcceptData(h, m) \/ OldData(h, m) \/ FutureData(h, m)
          \/ ErrorToHandler(h, m) \/ OtherToHandler(h, m)
    \/ HandlerTimeout(h)

-----------------------------------------------------------------------------
Fault ==
    \/ CheckForSigintWRQ
    \/ SigintInReceive
    \/ \E m \in net, h \in Handlers, code \in WriteErrors :
          DataNotWritten(h, m, code)
    \/ \E m \in net : Lose(m)

Next == ClientStep \/ (\E h \in Handlers : HandlerStep(h)) \/ Fault

Spec == Init /\ [][Next]_vars

FairSpec ==
    /\ Spec
    /\ WF_vars(ClientStep)
    /\ \A h \in Handlers : WF_vars(HandlerStep(h))

-----------------------------------------------------------------------------
(* Properties.                                                              *)

\* The server's file is a prefix of the client's input, and a file that was
\* there before is not touched, although DATA may arrive late, twice or after
\* the client gave up (ClientHandler.cpp:248, 295, 367).
StoredPrefix ==
    IF target = "taken" THEN store = <<0>>
    ELSE \A i \in 1 .. Len(store) : store[i] = i

\* However many handlers a duplicated WRQ started - all of them found no file -
\* only the one the client bound to ever opens the file (Writer.cpp:37), so
\* that none truncates or overwrites what another one stored.
SingleWriter ==
    \A h \in Handlers : hblock[h] > 0 => server_port = h /\ Len(store) = hblock[h]

\* A handler reports a complete transfer only for the whole file
\* (ClientHandler.cpp:309, 383).
ServerReport ==
    \A h \in Handlers :
       hphase[h] = "done" => server_port = h /\ Len(store) = NBlocks

\* The client never runs ahead: while it waits, the server has stored all
\* blocks but the one in flight.
Lockstep ==
    phase = "transfer" /\ server_port # Main =>
       hblock[server_port] \in {sent - 1, sent}

\* Exponential backoff never gets out of step with the retry count, on either
\* side: timeout_, which the next IncreaseTimeout doubles, starts again with
\* every block.  The socket waits for that long or for the negotiated time, never
\* without a limit, and without options for exactly that long (but the first
\* block of a client whose options the server ignored: its SetupUdpClient
\* restores no default).  (Which of the two it is with options is the question of
\* AnswerInForce in OptionNegotiation; from the second block on it is not the
\* negotiated one.)
Backoff ==
    /\ phase = "transfer" =>
          /\ udp.timeout = Doubled[retries]
          /\ udp.rcvtimeo \in {udp.timeout, NegotiatedTimeout} \ {0}
          /\ ~options /\ sent > 1 => udp.rcvtimeo = udp.timeout
    /\ \A h \in Handlers : HWaiting(h) =>
          /\ hudp[h].timeout = Doubled[hretries[h]]
          /\ hudp[h].rcvtimeo \in {hudp[h].timeout, NegotiatedTimeout} \ {0}
          /\ ~hopts[h] => hudp[h].rcvtimeo = hudp[h].timeout

-----------------------------------------------------------------------------
(* The inductive invariant of the proofs.                                   *)

\* No ACK can be taken for that of a block 2^16 later: the input has fewer
\* blocks than there are block numbers, or the request has options, so that no
\* handler sends an ACK 0.
NumbersDistinct == NBlocks < Modulus \/ RequestOptions = {TRUE}

\* Datagrams in flight: blocks of the input that have been read and are under
\* way to the one port the client is bound to, and ACKs of blocks received.
PacketInv(m) ==
    /\ m.dst = Client => m.src \in Handlers
    /\ m.op = "WRQ" /\ m.dst = Main => m.opts \in RequestOptions
    /\ m.op = "DATA" /\ m.src = Client /\ m \notin Late =>
          /\ m.val \in 1 .. sent
          /\ m.val < Modulus => m.blk = m.val
          /\ m.short <=> m.val = NBlocks
          /\ m.dst = server_port
          /\ phase \notin {"start", "request"}
    /\ m.op = "ACK" /\ m.dst = Client /\ m \notin Late =>
          /\ m.blk <= hblock[m.src]
          /\ m.blk = 0 => FALSE \in RequestOptions

NetInv == \A m \in net : PacketInv(m)

ClientInv ==
    /\ phase \in {"start", "request"} =>
          server_port = Main /\ sent = 0 /\ options \in RequestOptions
    /\ phase \in {"start", "request", "transfer"} => retries < MaxRetries
    /\ phase = "transfer" =>
          /\ sent > 0
          /\ sent < Modulus => block_number = sent
          /\ sent = Modulus => block_number = 0
    /\ NumbersDistinct => sent <= Modulus
    /\ server_port \in Handlers =>
          \/ sent <= hblock[server_port] + 1
          \/ hblock[server_port] = Modulus - 1

HandlerInv ==
    \A h \in Handlers :
       /\ hphase[h] = "idle" => hblock[h] = 0
       /\ hphase[h] = "data" => hblock[h] < NBlocks /\ hopts[h] \in RequestOptions
       /\ hphase[h] = "done" => hblock[h] = NBlocks
       /\ hphase[h] \in {"idle", "data"} => hretries[h] < MaxRetries
       /\ hblock[h] > 0 =>
             /\ server_port = h /\ hblock[h] <= sent
             /\ target = "written" /\ Len(store) = hblock[h]

FileInv ==
    /\ (\E h \in Handlers : hphase[h] = "data") => target \in {"free", "written"}
    /\ target # "taken" /\ (\A h \in Handlers : hblock[h] = 0) => store = <<>>

IInv == TypeOK /\ StoredPrefix /\ NetInv /\ ClientInv /\ HandlerInv /\ FileInv

\* The timers of both sides, also of the sockets that have not sent or received
\* DATA yet.  What was negotiated is in force until the first TimeoutReset or
\* IncreaseTimeout; SendWrq returns without one (Write.cpp:82).
TimerInv ==
    /\ phase = "transfer" =>
          /\ udp.timeout = Doubled[retries]
          /\ \/ udp.rcvtimeo = Doubled[retries]
             \/ sent = 1 /\ retries = 0 /\ udp.rcvtimeo = NegotiatedTimeout
    /\ phase \in {"start", "request"} =>
          /\ udp.timeout = DefaultTimeout
          /\ udp.rcvtimeo \in {DefaultTimeout, NegotiatedTimeout}
    /\ \A h \in Handlers :
          /\ HWaiting(h) =>
                /\ hudp[h].timeout = Doubled[hretries[h]]
                /\ \/ hudp[h].rcvtimeo = Doubled[hretries[h]]
                   \/ /\ hblock[h] = 0 /\ hretries[h] = 0 /\ hopts[h]
                      /\ hudp[h].rcvtimeo = NegotiatedTimeout
          /\ hphase[h] = "idle" =>
                hblock[h] = 0 /\ hretries[h] = 0 /\ hudp[h] = NewUdpClient

-----------------------------------------------------------------------------
\* What the client's process reports.
Status ==
    CASE phase = "done" -> "done"
      [] phase \in {"failed", "interrupted", "eintr"} -> "aborted"
      [] OTHER -> "running"

\* What Write() promises; a file of earlier times is not part of the copy.
Transfer == INSTANCE TransferSpec WITH
    copy <- IF target = "taken" THEN <<>> ELSE store,
    status <- Status

\* The upload implements the abstract transfer: in particular the client ends
\* well only if the server has stored the whole input.
Refinement == Transfer!TSpec

\* Both sides stop.
Termination ==
    <>(/\ phase \in {"done", "failed", "interrupted", "eintr"}
       /\ \A h \in Handlers : ~HWaiting(h))

\* Lost ACKs of blocks other than the last, up to MAX_RETRIES - 1 of them, are
\* repaired by what the server sends again: the input arrives at a free path,
\* and both sides know it.
Completes ==
    target = "free" /\ calm => <>(/\ phase = "done"
                                  /\ \E h \in Handlers : hphase[h] = "done")

\* "The server responds accordingly, and the data transfer proceeds"
\* (README.md:17): DATA is sent to a server that has responded.
DataFollowsResponse == phase = "transfer" => server_port # Main
=============================================================================
