---------------------------- MODULE UploadProofs ----------------------------
(***************************************************************************)
(* Proofs about module Upload, for every input size, every number of block  *)
(* numbers and of handlers, every retry limit, every network and every set  *)
(* of left-over datagrams that Upload's assumptions admit.                  *)
(***************************************************************************)
EXTENDS Upload, TftpPacketsProofs

USE ModulusAssumption, HandlersAssumption, NBlocksAssumption,
    MaxRetriesAssumption

\* The DATA packet the client sends: block n of its input, under the number its
\* own uint16_t counter has.
LEMMA SentDataFields ==
    ASSUME NEW dst \in Endpoints, NEW n \in Nat, NEW wire \in BlockNumbers
    PROVE  LET m == [DataPacket(Client, dst, n, NBlocks) EXCEPT !.blk = wire] IN
           /\ m \in Packets
           /\ m.op = "DATA" /\ m.src = Client /\ m.dst = dst
           /\ m.blk = wire /\ m.val = n
           /\ m.short <=> n = NBlocks
<1>1. Client \in Endpoints /\ (n = NBlocks) \in BOOLEAN
  BY DEF Endpoints
<1>2. [DataPacket(Client, dst, n, NBlocks) EXCEPT !.blk = wire] =
      [op |-> "DATA", src |-> Client, dst |-> dst,
       blk |-> wire, val |-> n, short |-> (n = NBlocks)]
  BY DEF DataPacket
<1> QED
  BY <1>1, <1>2 DEF Packets

\* Whatever the network does, a step adds only the packets it sends.
LEMMA ExchangeAdds ==
    ASSUME NEW in, NEW out, Exchange(in, out)
    PROVE  net' \subseteq net \cup out
BY DEF Exchange

\* The port the client talks to is never its own.
LEMMA ServerPort ==
    ASSUME IInv
    PROVE  server_port \in Endpoints \ {Client}
BY DEF IInv, TypeOK, Endpoints, Client, Main

\* A datagram the client receives comes from a handler.
LEMMA SenderIsHandler ==
    ASSUME IInv, NEW m \in net, m.dst = Client
    PROVE  m.src \in Handlers /\ m.src \in Endpoints \ {Client}
<1>1. m.src \in Handlers
  BY DEF IInv, NetInv, PacketInv
<1> QED
  BY <1>1 DEF Endpoints

-----------------------------------------------------------------------------
(* The inductive invariant.                                                 *)

\* Initially only left-over datagrams are in flight.
LEMMA InitInv == Init => IInv
<1> SUFFICES ASSUME Init PROVE IInv
  OBVIOUS
<1>1. TypeOK
  <2>1. udp \in Socket
    <3>1. NegotiatedTimeout \in Nat
      BY TimeoutAssumption
    <3>2. ChangeTimeout(NewUdpClient, NegotiatedTimeout) \in Socket
      BY <3>1, NewSocket, SocketType
    <3> QED
      BY <3>2, NewSocket DEF Init
  <2>2. options \in BOOLEAN /\ calm \in BOOLEAN
    BY OptionsAssumption, NetworkAssumption DEF Init
  <2>3. store \in Seq(0 .. NBlocks)
    <3>1. <<0>> \in Seq(0 .. NBlocks) /\ <<>> \in Seq(0 .. NBlocks)
      OBVIOUS
    <3> QED
      BY <3>1 DEF Init
  <2>4. net \subseteq Packets
    BY LateAssumption DEF Init
  <2> QED
    BY <2>1, <2>2, <2>3, <2>4, NewSocket, NetworkAssumption
       DEF Init, TypeOK, ClientPhases, BlockNumbers
<1>2. NetInv
  BY LateAssumption DEF Init, NetInv, PacketInv
<1>3. StoredPrefix /\ ClientInv /\ HandlerInv /\ FileInv
  BY DEF Init, StoredPrefix, ClientInv, HandlerInv, FileInv
<1> QED
  BY <1>1, <1>2, <1>3 DEF IInv

\* The datagrams in flight stay what they are when a step only moves the two
\* sides forward and what it sends is right.
LEMMA NetStep ==
    ASSUME IInv, NEW out,
           net' \subseteq net \cup out,
           out \subseteq Packets,
           \A m \in out : PacketInv(m)',
           sent' \in Nat, sent <= sent',
           hblock' \in [Handlers -> Nat],
           \A h \in Handlers : hblock[h] <= hblock'[h],
           phase \notin {"start", "request"} =>
              /\ server_port' = server_port
              /\ phase' \notin {"start", "request"}
    PROVE  net' \subseteq Packets /\ NetInv'
<1>1. net' \subseteq Packets
  BY DEF IInv, TypeOK
<1> SUFFICES ASSUME NEW m \in net PROVE PacketInv(m)'
  BY <1>1 DEF NetInv
<1>2. m \in Packets /\ PacketInv(m)
  BY DEF IInv, TypeOK, NetInv
<1>3. /\ m.op \in {"DATA", "ACK"} => m.blk \in BlockNumbers
      /\ m.op = "DATA" => m.val \in Nat
  BY <1>2, PacketFields
<1>4. sent \in Nat /\ hblock \in [Handlers -> Nat]
  BY DEF IInv, TypeOK
<1>5. CASE m.op = "DATA"
  <2> SUFFICES ASSUME m.src = Client, m \notin Late
               PROVE  /\ m.val \in 1 .. sent'
                      /\ m.val < Modulus => m.blk = m.val
                      /\ m.short <=> m.val = NBlocks
                      /\ m.dst = server_port'
                      /\ phase' \notin {"start", "request"}
    BY <1>2, <1>5 DEF PacketInv
  <2>1. /\ m.val \in 1 .. sent
        /\ m.val < Modulus => m.blk = m.val
        /\ m.dst = server_port
        /\ phase \notin {"start", "request"}
    BY <1>2, <1>5 DEF PacketInv
  <2>2. m.short <=> m.val = NBlocks
    BY <1>2, <1>5 DEF PacketInv
  <2> QED
    BY <1>3, <1>4, <1>5, <2>1, <2>2
<1>6. CASE m.op = "ACK"
  <2> SUFFICES ASSUME m.dst = Client, m \notin Late
               PROVE  m.blk <= hblock'[m.src]
    BY <1>2, <1>6 DEF PacketInv
  <2>1. m.src \in Handlers /\ m.blk <= hblock[m.src]
    BY <1>2, <1>6 DEF PacketInv
  <2> QED
    BY <1>3, <1>4, <1>6, <2>1 DEF BlockNumbers
<1>7. CASE m.op \notin {"DATA", "ACK"}
  BY <1>2, <1>7, Zenon DEF PacketInv
<1> QED
  BY <1>5, <1>6, <1>7

\* Packets without a block number and an option list are right in any state.
LEMMA PlainPacket ==
    ASSUME NEW m, m.op \in {"ERROR", "OACK"}, m.dst = Client => m.src \in Handlers
    PROVE  PacketInv(m)'
BY DEF PacketInv

-----------------------------------------------------------------------------
(* The client.                                                              *)

\* What a step of the client must establish; the handlers do not move.
LEMMA ClientChange ==
    ASSUME IInv, NEW out,
           net' \subseteq net \cup out,
           out \subseteq Packets,
           \A m \in out : PacketInv(m)',
           UNCHANGED <<envVars, handlerVars>>,
           phase' \in ClientPhases, options' \in BOOLEAN,
           server_port' \in Handlers \cup {Main}, sent' \in 0 .. NBlocks,
           block_number' \in BlockNumbers,
           retries' \in 0 .. MaxRetries, strangers' \in 0 .. MaxRetries,
           udp' \in Socket, sent <= sent',
           phase \notin {"start", "request"} =>
              /\ server_port' = server_port
              /\ phase' \notin {"start", "request"},
           ClientInv'
    PROVE  IInv'
<1>1. UNCHANGED <<losses, calm, target, store, hphase, hopts, hblock, hretries,
                  hstrangers, hudp>>
  BY DEF envVars, handlerVars, fileVars
<1>2. net' \subseteq Packets /\ NetInv'
  <2>1. sent' \in Nat /\ hblock' \in [Handlers -> Nat]
    BY <1>1 DEF IInv, TypeOK
  <2>2. \A h \in Handlers : hblock[h] <= hblock'[h]
    BY <1>1 DEF IInv, TypeOK
  <2> QED
    BY <2>1, <2>2, NetStep
<1>3. TypeOK'
  BY <1>1, <1>2 DEF IInv, TypeOK
<1>4. StoredPrefix' /\ FileInv'
  BY <1>1 DEF IInv, StoredPrefix, FileInv
<1>5. HandlerInv'
  <2> SUFFICES ASSUME NEW h \in Handlers, hblock[h] > 0
               PROVE  server_port' = h /\ hblock[h] <= sent'
    BY <1>1 DEF IInv, HandlerInv
  <2>1. server_port = h /\ hblock[h] <= sent
    BY DEF IInv, HandlerInv
  <2>2. phase \notin {"start", "request"}
    BY <2>1 DEF IInv, ClientInv
  <2> QED
    BY <2>1, <2>2 DEF IInv, TypeOK
<1> QED
  BY <1>2, <1>3, <1>4, <1>5 DEF IInv

\* Write() throws, with an ERROR packet to some port or without; the port the
\* client is bound to is the old one, or that of the first response.
LEMMA ClientFailsInv ==
    ASSUME IInv, NEW in, NEW out, ClientFails(in, out),
           NEW port \in Endpoints \ {Client}, NEW code \in ErrorCodes,
           out \in {{}, {ClientError(port, code)}},
           options' \in BOOLEAN, sent' = sent, block_number' \in BlockNumbers,
           retries' \in 0 .. MaxRetries, strangers' \in 0 .. MaxRetries,
           udp' \in Socket,
           \/ server_port' = server_port
           \/ phase = "request" /\ server_port' \in Handlers
    PROVE  IInv'
<1>1. net' \subseteq net \cup out
  BY ExchangeAdds DEF ClientFails
<1>2. Client \in Endpoints
  BY DEF Endpoints
<1>3. out \subseteq Packets /\ \A m \in out : PacketInv(m)'
  <2> DEFINE e == ClientError(port, code)
  <2>1. e \in Packets /\ e.op = "ERROR" /\ e.dst = port
    BY <1>2, ErrorFields DEF ClientError
  <2>2. PacketInv(e)'
    BY <2>1, PlainPacket
  <2> QED
    BY <2>1, <2>2
<1>4. phase' = "failed" /\ phase' \in ClientPhases
      /\ UNCHANGED <<envVars, handlerVars>>
  BY DEF ClientFails, ClientPhases
<1>5. /\ server_port' \in Handlers \cup {Main} /\ sent' \in 0 .. NBlocks
      /\ sent <= sent' /\ hblock' = hblock
      /\ hblock \in [Handlers -> Nat]
  BY <1>4 DEF IInv, TypeOK, handlerVars
<1>6. phase = "request" => sent = 0
  BY DEF IInv, ClientInv
<1>7. ClientInv'
  BY <1>4, <1>5, <1>6 DEF IInv, ClientInv
<1> QED
  BY <1>1, <1>3, <1>4, <1>5, <1>7, ClientChange

\* The request is sent, once.
LEMMA SendWrqInv == ASSUME IInv, SendWrq PROVE IInv'
<1> DEFINE w == RequestPacket("WRQ", options)
<1>1. /\ phase = "start" /\ phase' = "request" /\ Exchange({}, {w})
      /\ UNCHANGED <<envVars, handlerVars>>
      /\ UNCHANGED <<options, server_port, sent, block_number, retries,
                     strangers, udp>>
  BY DEF SendWrq
<1>2. net' \subseteq net \cup {w}
  BY <1>1, ExchangeAdds
<1>3. options \in RequestOptions /\ options \in BOOLEAN
  BY <1>1 DEF IInv, TypeOK, ClientInv
<1>4. /\ w \in Packets /\ w.op = "WRQ" /\ w.opts = options
      /\ w.src = Client /\ w.dst = Main
  BY <1>3, RequestFields
<1>5. ASSUME NEW m \in {w} PROVE PacketInv(m)'
  <2>1. m.dst # Client /\ m.op \notin {"DATA", "ACK"}
    BY <1>4 DEF Client, Main
  <2>2. m.opts \in RequestOptions
    BY <1>3, <1>4, Zenon
  <2> QED
    BY <2>1, <2>2, Zenon DEF PacketInv
<1>6. ClientInv'
  BY <1>1 DEF IInv, ClientInv, handlerVars
<1>7. /\ phase' \in ClientPhases /\ options' \in BOOLEAN
      /\ server_port' \in Handlers \cup {Main} /\ sent' \in 0 .. NBlocks
      /\ block_number' \in BlockNumbers
      /\ retries' \in 0 .. MaxRetries /\ strangers' \in 0 .. MaxRetries
      /\ udp' \in Socket /\ sent <= sent'
  BY <1>1, <1>3 DEF IInv, TypeOK, ClientPhases
<1> DEFINE out == {w}
<1>8. net' \subseteq net \cup out /\ out \subseteq Packets
      /\ \A m \in out : PacketInv(m)'
  BY <1>2, <1>4, <1>5
<1> HIDE DEF out
<1> QED
  BY <1>1, <1>6, <1>7, <1>8, ClientChange

\* The first response ends the program.
LEMMA FirstFailureInv ==
    ASSUME IInv, NEW m \in net, FirstError(m) \/ FirstIllegal(m)
    PROVE  IInv'
<1>1. /\ phase = "request" /\ m.dst = Client /\ server_port' = m.src
      /\ ClientFails({m}, {}) \/
         ClientFails({m}, {ClientError(m.src, "ILLEGAL_OPERATION")})
      /\ UNCHANGED <<options, sent, block_number, retries, strangers, udp>>
  BY DEF FirstError, FirstIllegal, FirstResponse
<1>2. /\ m.src \in Handlers /\ m.src \in Endpoints \ {Client}
      /\ "ILLEGAL_OPERATION" \in ErrorCodes
  BY <1>1, SenderIsHandler DEF ErrorCodes
<1>3. /\ options' \in BOOLEAN /\ block_number' \in BlockNumbers
      /\ retries' \in 0 .. MaxRetries /\ strangers' \in 0 .. MaxRetries
      /\ udp' \in Socket
  BY <1>1 DEF IInv, TypeOK
<1> QED
  BY <1>1, <1>2, <1>3, ClientFailsInv

\* The next block leaves for the port the client is bound to, unless stdin
\* fails: the handler there has stored all blocks before it, or has used up its
\* block numbers.
LEMMA SendBlockInv ==
    ASSUME IInv, NEW in, NEW n \in 1 .. NBlocks, NEW wire \in BlockNumbers,
           SendBlock(in, server_port', n, wire),
           server_port' \in Handlers \cup {Main},
           options' \in BOOLEAN, udp' \in Socket,
           \/ phase = "request"
           \/ phase = "transfer" /\ server_port' = server_port,
           sent <= n,
           n < Modulus => wire = n,
           n = Modulus => wire = 0,
           NumbersDistinct => n <= Modulus,
           server_port' \in Handlers =>
              \/ n <= hblock[server_port'] + 1
              \/ hblock[server_port'] = Modulus - 1
    PROVE  IInv'
<1>1. block_number' = wire /\ retries' = 0 /\ strangers' = 0
  BY DEF SendBlock
<1>2. server_port' \in Endpoints \ {Client}
  BY DEF Endpoints, Client, Main
<1> DEFINE d == [DataPacket(Client, server_port', n, NBlocks) EXCEPT !.blk = wire]
<1>3. CASE /\ phase' = "transfer" /\ sent' = n /\ Exchange(in, {d})
           /\ UNCHANGED <<envVars, handlerVars>>
  <2>1. net' \subseteq net \cup {d}
    BY <1>3, ExchangeAdds
  <2>2. /\ d \in Packets
        /\ d.op = "DATA" /\ d.src = Client /\ d.dst = server_port'
        /\ d.blk = wire /\ d.val = n
        /\ d.short <=> n = NBlocks
    BY <1>2, SentDataFields
  <2> HIDE DEF d
  <2>3. ASSUME NEW m \in {d} PROVE PacketInv(m)'
    <3>1. m.val \in 1 .. sent' /\ phase' \notin {"start", "request"}
      BY <1>3, <2>2
    <3>2. (m.val < Modulus => m.blk = m.val) /\ m.dst = server_port'
      BY <2>2
    <3>3. m.dst # Client /\ m.op \notin {"WRQ", "ACK"}
      BY <1>2, <2>2
    <3>4. m.short <=> m.val = NBlocks
      BY <2>2
    <3> QED
      BY <3>1, <3>2, <3>3, <3>4, Zenon DEF PacketInv
  <2>4. ClientInv'
    <3>1. hblock' = hblock
      BY <1>3 DEF handlerVars
    <3> QED
      BY <1>1, <1>3, <3>1 DEF ClientInv
  <2>5. /\ phase' \in ClientPhases /\ phase' \notin {"start", "request"}
        /\ sent' \in 0 .. NBlocks /\ sent <= sent'
        /\ block_number' \in BlockNumbers
        /\ retries' \in 0 .. MaxRetries /\ strangers' \in 0 .. MaxRetries
    BY <1>1, <1>3 DEF ClientPhases
  <2> DEFINE out == {d}
  <2>6. net' \subseteq net \cup out /\ out \subseteq Packets
        /\ \A m \in out : PacketInv(m)'
    BY <2>1, <2>2, <2>3
  <2> HIDE DEF out
  <2> QED
    BY <1>3, <2>4, <2>5, <2>6, ClientChange
<1>4. CASE ClientFails(in, {}) /\ sent' = sent
  <2>1. "NOT_DEFINED" \in ErrorCodes
    BY DEF ErrorCodes
  <2>2. \/ server_port' = server_port
        \/ phase = "request" /\ server_port' \in Handlers
    BY DEF IInv, ClientInv
  <2>3. /\ block_number' \in BlockNumbers
        /\ retries' \in 0 .. MaxRetries /\ strangers' \in 0 .. MaxRetries
    BY <1>1
  <2> QED
    BY <1>2, <1>4, <2>1, <2>2, <2>3, ClientFailsInv
<1> QED
  BY <1>3, <1>4 DEF SendBlock

\* The first block follows the first response, or the time-out of the request.
LEMMA FirstBlockInv ==
    ASSUME IInv,
           RequestTimeout \/ \E m \in net : FirstAck(m) \/ FirstOack(m)
    PROVE  IInv'
<1>1. \E in : SendBlock(in, server_port', 1, 1)
  BY DEF RequestTimeout, FirstAck, FirstOack, FirstResponse
<1>2. /\ phase = "request"
      /\ options' \in {options, FALSE}
      /\ udp' \in {udp, ChangeTimeout(udp, NegotiatedTimeout),
                   TimeoutReset(IncreaseTimeout(udp))}
      /\ \/ server_port' = server_port
         \/ \E m \in net : m.dst = Client /\ server_port' = m.src
  BY DEF RequestTimeout, FirstAck, FirstOack, FirstResponse
<1>3. server_port' \in Handlers \cup {Main}
  BY <1>2, SenderIsHandler DEF IInv, TypeOK
<1>4. udp' \in Socket
  <2>1. udp \in Socket /\ NegotiatedTimeout \in Nat
    BY TimeoutAssumption DEF IInv, TypeOK
  <2>2. /\ ChangeTimeout(udp, NegotiatedTimeout) \in Socket
        /\ TimeoutReset(IncreaseTimeout(udp)) \in Socket
    BY <2>1, SocketType
  <2> QED
    BY <1>2, <2>1, <2>2
<1>5. options \in BOOLEAN
  BY DEF IInv, TypeOK
<1>6. options' \in BOOLEAN
  BY <1>2, <1>5, Zenon
<1>7. sent = 0 /\ hblock \in [Handlers -> Nat]
  BY <1>2 DEF IInv, TypeOK, ClientInv
<1>8. server_port' \in Handlers => 1 <= hblock[server_port'] + 1
  BY <1>7
<1>9. 1 \in 1 .. NBlocks /\ 1 \in BlockNumbers /\ 1 <= Modulus /\ 1 # Modulus
  BY DEF BlockNumbers
<1> QED
  BY <1>1, <1>2, <1>3, <1>4, <1>6, <1>7, <1>8, <1>9, SendBlockInv

\* A retry sends nothing; the last one ends the program with an ERROR packet.
LEMMA RetryInv ==
    ASSUME IInv, NEW in, phase = "transfer", Retry(in)
    PROVE  IInv'
<1>1. /\ retries' = retries + 1 /\ strangers' = 0
      /\ udp' = IncreaseTimeout(udp)
      /\ UNCHANGED <<options, server_port, sent, block_number>>
  BY DEF Retry
<1>2. retries < MaxRetries
  BY DEF IInv, ClientInv
<1>3. /\ options' \in BOOLEAN /\ server_port' \in Handlers \cup {Main}
      /\ sent' \in 0 .. NBlocks /\ sent <= sent'
      /\ block_number' \in BlockNumbers /\ retries' \in 0 .. MaxRetries
      /\ strangers' \in 0 .. MaxRetries
  BY <1>1, <1>2 DEF IInv, TypeOK
<1>4. udp' \in Socket
  BY <1>1, SocketType DEF IInv, TypeOK
<1>5. CASE /\ RetriesLeft(retries + 1) /\ Exchange(in, {})
           /\ UNCHANGED <<phase, envVars, handlerVars>>
  <2>1. net' \subseteq net \cup {}
    BY <1>5, ExchangeAdds
  <2>2. ClientInv'
    BY <1>1, <1>5 DEF IInv, ClientInv, RetriesLeft, handlerVars
  <2>3. phase' = phase /\ phase' \in ClientPhases
    BY <1>5 DEF IInv, TypeOK
  <2> QED
    BY <1>1, <1>3, <1>4, <1>5, <2>1, <2>2, <2>3, ClientChange
<1>6. CASE ClientFails(in, {ClientError(server_port, "ILLEGAL_OPERATION")})
  <2>1. "ILLEGAL_OPERATION" \in ErrorCodes
    BY DEF ErrorCodes
  <2> QED
    BY <1>1, <1>3, <1>4, <1>6, <2>1, ServerPort, ClientFailsInv
<1> QED
  BY <1>5, <1>6 DEF Retry

\* The three ways to a retry.
LEMMA RetriesInv ==
    ASSUME IInv,
           TransferTimeout \/ \E m \in net : TooManyStrangers(m) \/ OldAck(m)
    PROVE  IInv'
<1>1. phase = "transfer" /\ \E in : Retry(in)
  BY DEF TransferTimeout, TooManyStrangers, OldAck, FromServer
<1> QED
  BY <1>1, RetryInv

\* Somebody else's datagram is answered and forgotten.
LEMMA StrangerToClientInv ==
    ASSUME IInv, NEW m \in net, StrangerToClient(m) PROVE IInv'
<1> DEFINE out == {ClientError(m.src, "UNKNOWN_TID")}
<1>1. /\ phase = "transfer" /\ m.dst = Client
      /\ strangers < MaxRetries /\ strangers' = strangers + 1
      /\ Exchange({m}, out) /\ UNCHANGED <<envVars, handlerVars>>
      /\ UNCHANGED <<phase, options, server_port, sent, block_number, retries,
                     udp>>
  BY DEF StrangerToClient
<1>2. net' \subseteq net \cup out
  BY <1>1, ExchangeAdds
<1>3. out \subseteq Packets /\ \A e \in out : PacketInv(e)'
  <2>1. /\ Client \in Endpoints /\ m.src \in Endpoints \ {Client}
        /\ "UNKNOWN_TID" \in ErrorCodes
    BY <1>1, SenderIsHandler DEF Endpoints, ErrorCodes
  <2> QED
    BY <2>1, ErrorFields, PlainPacket DEF ClientError
<1>4. ClientInv'
  BY <1>1 DEF IInv, ClientInv, handlerVars
<1>5. /\ phase' \in ClientPhases
      /\ options' \in BOOLEAN /\ server_port' \in Handlers \cup {Main}
      /\ sent' \in 0 .. NBlocks /\ sent <= sent'
      /\ block_number' \in BlockNumbers /\ retries' \in 0 .. MaxRetries
      /\ strangers' \in 0 .. MaxRetries /\ udp' \in Socket
  BY <1>1 DEF IInv, TypeOK
<1> HIDE DEF out
<1> QED
  BY <1>1, <1>2, <1>3, <1>4, <1>5, ClientChange

\* The ACK the client waits for comes from the handler it is bound to.  It was
\* sent for the very block when the number is one of this round; otherwise the
\* handler has used up its numbers.
LEMMA GenuineAck ==
    ASSUME IInv, NEW m \in net, FromServer(m), AckMatches(m)
    PROVE  /\ phase = "transfer" /\ server_port \in Handlers
           /\ sent \in 1 .. NBlocks /\ block_number \in BlockNumbers
           /\ hblock[server_port] \in 0 .. Modulus - 1
           /\ sent < Modulus =>
                 block_number = sent /\ sent <= hblock[server_port]
           /\ sent >= Modulus => hblock[server_port] = Modulus - 1
           /\ NumbersDistinct => sent < Modulus
<1>1. /\ phase = "transfer" /\ m.dst = Client /\ m.src = server_port
      /\ m.op = "ACK" /\ m.blk = block_number
  BY DEF FromServer, AckMatches
<1>2. server_port \in Handlers
  BY <1>1, SenderIsHandler
<1>3. /\ sent \in 1 .. NBlocks /\ block_number \in BlockNumbers
      /\ hblock[server_port] \in 0 .. Modulus - 1
      /\ sent < Modulus => block_number = sent
      /\ sent = Modulus => block_number = 0
      /\ NumbersDistinct => sent <= Modulus
      /\ \/ sent <= hblock[server_port] + 1
         \/ hblock[server_port] = Modulus - 1
  BY <1>1, <1>2 DEF IInv, TypeOK, ClientInv
<1>4. m \notin Late
  BY <1>1, <1>3, LateAssumption DEF BlockNumbers
<1>5. /\ m.blk <= hblock[server_port]
      /\ m.blk = 0 => FALSE \in RequestOptions
  BY <1>1, <1>2, <1>4 DEF IInv, NetInv, PacketInv
<1>6. sent >= Modulus => hblock[server_port] = Modulus - 1
  BY <1>3
<1>7. NumbersDistinct => sent < Modulus
  <2> SUFFICES ASSUME NumbersDistinct, sent = Modulus PROVE FALSE
    BY <1>3
  <2>1. m.blk = 0 /\ ~(NBlocks < Modulus)
    BY <1>1, <1>3
  <2> QED
    BY <1>5, <2>1, Zenon DEF NumbersDistinct
<1> QED
  BY <1>1, <1>2, <1>3, <1>5, <1>6, <1>7

\* The next block follows its ACK.
LEMMA BlockAckedInv ==
    ASSUME IInv, NEW m \in net, BlockAcked(m) PROVE IInv'
<1> DEFINE n == sent + 1
           wire == Wire(block_number + 1)
<1>1. /\ FromServer(m) /\ AckMatches(m) /\ sent < NBlocks
      /\ udp' = TimeoutReset(udp) /\ UNCHANGED <<options, server_port>>
      /\ SendBlock({m}, server_port', n, wire)
  BY DEF BlockAcked
<1>2. /\ phase = "transfer" /\ server_port \in Handlers
      /\ sent \in 1 .. NBlocks /\ block_number \in BlockNumbers
      /\ hblock[server_port] \in 0 .. Modulus - 1
      /\ sent < Modulus =>
            block_number = sent /\ sent <= hblock[server_port]
      /\ sent >= Modulus => hblock[server_port] = Modulus - 1
      /\ NumbersDistinct => sent < Modulus
  BY <1>1, GenuineAck
<1>3. block_number + 1 \in Nat
  BY <1>2 DEF BlockNumbers
<1>4. /\ wire \in BlockNumbers
      /\ block_number + 1 < Modulus => wire = block_number + 1
      /\ block_number + 1 = Modulus => wire = 0
  BY <1>3, WireFacts
<1>5. /\ n \in 1 .. NBlocks /\ sent <= n
      /\ n < Modulus => wire = n
      /\ n = Modulus => wire = 0
      /\ NumbersDistinct => n <= Modulus
      /\ \/ n <= hblock[server_port] + 1
         \/ hblock[server_port] = Modulus - 1
  BY <1>1, <1>2, <1>4
<1>6. /\ udp' \in Socket /\ options' \in BOOLEAN
      /\ server_port' = server_port
  BY <1>1, SocketType DEF IInv, TypeOK
<1> HIDE DEF n, wire
<1> QED
  BY <1>1, <1>2, <1>4, <1>5, <1>6, SendBlockInv

\* The ACK of the last block ends Write().
LEMMA LastBlockAckedInv ==
    ASSUME IInv, NEW m \in net, LastBlockAcked(m) PROVE IInv'
<1>1. /\ FromServer(m) /\ AckMatches(m) /\ phase' = "done"
      /\ udp' = TimeoutReset(udp) /\ block_number' = Wire(block_number + 1)
      /\ Exchange({m}, {}) /\ UNCHANGED <<envVars, handlerVars>>
      /\ UNCHANGED <<options, server_port, sent, retries, strangers>>
  BY DEF LastBlockAcked
<1>2. net' \subseteq net \cup {} /\ phase = "transfer"
  BY <1>1, ExchangeAdds DEF FromServer
<1>3. ClientInv'
  BY <1>1 DEF IInv, ClientInv, handlerVars
<1>4. block_number' \in BlockNumbers
  <2>1. block_number + 1 \in Nat
    BY DEF IInv, TypeOK, BlockNumbers
  <2> QED
    BY <1>1, <2>1, WireFacts
<1>5. /\ phase' \in ClientPhases /\ options' \in BOOLEAN
      /\ server_port' \in Handlers \cup {Main}
      /\ sent' \in 0 .. NBlocks /\ sent <= sent'
      /\ retries' \in 0 .. MaxRetries /\ strangers' \in 0 .. MaxRetries
  BY <1>1 DEF IInv, TypeOK, ClientPhases
<1>6. udp' \in Socket
  BY <1>1, SocketType DEF IInv, TypeOK
<1> QED
  BY <1>1, <1>2, <1>3, <1>4, <1>5, <1>6, ClientChange

\* An ACK from the future, or an ERROR: Write() throws.
LEMMA TransferFailureInv ==
    ASSUME IInv, NEW m \in net, FutureAck(m) \/ ServerError(m)
    PROVE  IInv'
<1>1. /\ ClientFails({m}, {}) \/
         ClientFails({m}, {ClientError(server_port, "ILLEGAL_OPERATION")})
      /\ UNCHANGED <<options, server_port, sent, block_number, retries,
                     strangers, udp>>
  BY DEF FutureAck, ServerError
<1>2. "ILLEGAL_OPERATION" \in ErrorCodes
  BY DEF ErrorCodes
<1>3. /\ options' \in BOOLEAN /\ block_number' \in BlockNumbers
      /\ retries' \in 0 .. MaxRetries /\ strangers' \in 0 .. MaxRetries
      /\ udp' \in Socket
  BY <1>1 DEF IInv, TypeOK
<1> QED
  BY <1>1, <1>2, <1>3, ServerPort, ClientFailsInv

\* A packet that is no answer is dropped.
LEMMA OtherToClientInv ==
    ASSUME IInv, NEW m \in net, OtherToClient(m) PROVE IInv'
<1>1. /\ phase = "transfer" /\ strangers' = 0 /\ Exchange({m}, {})
      /\ UNCHANGED <<envVars, handlerVars>>
      /\ UNCHANGED <<phase, options, server_port, sent, block_number, retries,
                     udp>>
  BY DEF OtherToClient, FromServer
<1>2. net' \subseteq net \cup {}
  BY <1>1, ExchangeAdds
<1>3. ClientInv'
  BY <1>1 DEF IInv, ClientInv, handlerVars
<1>4. /\ phase' \in ClientPhases
      /\ options' \in BOOLEAN /\ server_port' \in Handlers \cup {Main}
      /\ sent' \in 0 .. NBlocks /\ sent <= sent'
      /\ block_number' \in BlockNumbers /\ retries' \in 0 .. MaxRetries
      /\ strangers' \in 0 .. MaxRetries /\ udp' \in Socket
  BY <1>1 DEF IInv, TypeOK
<1> QED
  BY <1>1, <1>2, <1>3, <1>4, ClientChange

\* SIGINT, seen by a check of the flag or by recvfrom.
LEMMA SigintInv ==
    ASSUME IInv, CheckForSigintWRQ \/ SigintInReceive
    PROVE  IInv'
<1> DEFINE out == {ClientError(server_port, "NOT_DEFINED")}
<1>1. /\ phase' \in {"interrupted", "eintr"}
      /\ UNCHANGED <<envVars, handlerVars>>
      /\ UNCHANGED <<options, server_port, sent, block_number, retries,
                     strangers, udp>>
  BY DEF CheckForSigintWRQ, SigintInReceive
<1>2. net' \subseteq net \cup out
  BY ExchangeAdds DEF CheckForSigintWRQ, SigintInReceive
<1>3. out \subseteq Packets /\ \A e \in out : PacketInv(e)'
  <2>1. Client \in Endpoints /\ "NOT_DEFINED" \in ErrorCodes
    BY DEF Endpoints, ErrorCodes
  <2> QED
    BY <2>1, ServerPort, ErrorFields, PlainPacket DEF ClientError
<1>4. ClientInv'
  BY <1>1 DEF IInv, ClientInv, handlerVars
<1>5. /\ phase' \in ClientPhases /\ phase' \notin {"start", "request"}
      /\ options' \in BOOLEAN /\ server_port' \in Handlers \cup {Main}
      /\ sent' \in 0 .. NBlocks /\ sent <= sent'
      /\ block_number' \in BlockNumbers /\ retries' \in 0 .. MaxRetries
      /\ strangers' \in 0 .. MaxRetries /\ udp' \in Socket
  BY <1>1 DEF IInv, TypeOK, ClientPhases
<1> HIDE DEF out
<1> QED
  BY <1>1, <1>2, <1>3, <1>4, <1>5, ClientChange

\* The network drops a datagram.
LEMMA LoseInv == ASSUME IInv, NEW m \in net, Lose(m) PROVE IInv'
<1>1. /\ net' \subseteq net /\ losses' \in 0 .. MaxLoss /\ calm' = calm
      /\ UNCHANGED <<clientVars, handlerVars>>
  BY NetworkAssumption DEF Lose, IInv, TypeOK
<1>2. UNCHANGED <<target, store, phase, options, server_port, sent,
                  block_number, retries, strangers, udp, hphase, hopts,
                  hblock, hretries, hstrangers, hudp>>
  BY <1>1 DEF clientVars, handlerVars, fileVars
<1>3. TypeOK'
  BY <1>1, <1>2 DEF IInv, TypeOK
<1>4. NetInv'
  BY <1>1, <1>2 DEF IInv, NetInv, PacketInv
<1>5. StoredPrefix' /\ ClientInv' /\ HandlerInv' /\ FileInv'
  BY <1>2 DEF IInv, StoredPrefix, ClientInv, HandlerInv, FileInv
<1> QED
  BY <1>3, <1>4, <1>5 DEF IInv

-----------------------------------------------------------------------------
(* The handlers.                                                            *)

\* What a step of one handler must establish; the client does not move.  The
\* file either stays as it is, or it is the one writer's, with one block for
\* each block it has received.
LEMMA HandlerChange ==
    ASSUME IInv, NEW h \in Handlers, NEW out,
           net' \subseteq net \cup out,
           out \subseteq Packets,
           \A m \in out : PacketInv(m)',
           UNCHANGED <<envVars, clientVars>>,
           NEW p \in {"idle", "data", "done", "failed"},
           hphase' = [hphase EXCEPT ![h] = p],
           NEW o \in BOOLEAN, hopts' = [hopts EXCEPT ![h] = o],
           NEW b \in 0 .. Modulus - 1, hblock' = [hblock EXCEPT ![h] = b],
           NEW r \in 0 .. MaxRetries, hretries' = [hretries EXCEPT ![h] = r],
           NEW s \in 0 .. MaxRetries,
           hstrangers' = [hstrangers EXCEPT ![h] = s],
           NEW u \in Socket, hudp' = [hudp EXCEPT ![h] = u],
           p = "idle" => b = 0,
           p = "data" => /\ b < NBlocks /\ o \in RequestOptions
                         /\ target' \in {"free", "written"},
           p = "done" => b = NBlocks,
           p \in {"idle", "data"} => r < MaxRetries,
           \/ UNCHANGED fileVars /\ b = hblock[h]
           \/ /\ server_port = h /\ hblock[h] <= b /\ b <= sent
              /\ target' = "written" /\ store' \in Seq(0 .. NBlocks)
              /\ StoredPrefix' /\ Len(store') = b
    PROVE  IInv'
<1>1. /\ hphase \in [Handlers -> {"idle", "data", "done", "failed"}]
      /\ hopts \in [Handlers -> BOOLEAN]
      /\ hblock \in [Handlers -> 0 .. Modulus - 1]
      /\ hretries \in [Handlers -> 0 .. MaxRetries]
      /\ hstrangers \in [Handlers -> 0 .. MaxRetries]
      /\ hudp \in [Handlers -> Socket]
      /\ sent \in Nat
  BY DEF IInv, TypeOK
<1>2. /\ hphase' \in [Handlers -> {"idle", "data", "done", "failed"}]
      /\ hblock' \in [Handlers -> 0 .. Modulus - 1]
      /\ hretries' \in [Handlers -> 0 .. MaxRetries]
      /\ hstrangers' \in [Handlers -> 0 .. MaxRetries]
      /\ hudp' \in [Handlers -> Socket]
  BY <1>1
<1>3. hopts' \in [Handlers -> BOOLEAN]
  BY <1>1
<1>4. /\ hphase'[h] = p /\ hopts'[h] = o /\ hblock'[h] = b /\ hretries'[h] = r
      /\ \A g \in Handlers \ {h} :
            /\ hphase'[g] = hphase[g] /\ hopts'[g] = hopts[g]
            /\ hblock'[g] = hblock[g] /\ hretries'[g] = hretries[g]
  BY <1>1
<1>5. UNCHANGED <<losses, calm, phase, options, server_port, sent,
                  block_number, retries, strangers, udp>>
  BY DEF envVars, clientVars
<1>6. /\ hblock[h] <= b
      /\ target' \in {target, "written"}
      /\ target' \in {"free", "taken", "outside", "written"}
      /\ store' \in Seq(0 .. NBlocks)
  BY <1>1 DEF IInv, TypeOK, fileVars
<1>7. net' \subseteq Packets /\ NetInv'
  <2>1. sent' \in Nat /\ sent <= sent' /\ hblock' \in [Handlers -> Nat]
    BY <1>1, <1>2, <1>5
  <2>2. \A g \in Handlers : hblock[g] <= hblock'[g]
    BY <1>1, <1>4, <1>6
  <2>3. phase \notin {"start", "request"} =>
           server_port' = server_port /\ phase' \notin {"start", "request"}
    BY <1>5
  <2> QED
    BY <2>1, <2>2, <2>3, NetStep
<1>8. TypeOK'
  BY <1>2, <1>3, <1>5, <1>6, <1>7 DEF IInv, TypeOK
<1>9. StoredPrefix'
  BY DEF IInv, StoredPrefix, fileVars
<1>10. ClientInv'
  <2>1. \A g \in Handlers : hblock[g] <= hblock'[g] /\ hblock'[g] <= Modulus - 1
    BY <1>1, <1>2, <1>4, <1>6
  <2>2. server_port \in Handlers =>
           \/ sent <= hblock'[server_port] + 1
           \/ hblock'[server_port] = Modulus - 1
    BY <1>1, <1>2, <2>1 DEF IInv, ClientInv
  <2> QED
    BY <1>5, <2>2 DEF IInv, ClientInv
<1>11. HandlerInv'
  <2> SUFFICES ASSUME NEW g \in Handlers
               PROVE  /\ hphase'[g] = "idle" => hblock'[g] = 0
                      /\ hphase'[g] = "data" =>
                            hblock'[g] < NBlocks /\ hopts'[g] \in RequestOptions
                      /\ hphase'[g] = "done" => hblock'[g] = NBlocks
                      /\ hphase'[g] \in {"idle", "data"} =>
                            hretries'[g] < MaxRetries
                      /\ hblock'[g] > 0 =>
                            /\ server_port' = g /\ hblock'[g] <= sent'
                            /\ target' = "written" /\ Len(store') = hblock'[g]
    BY DEF HandlerInv
  <2>1. CASE g = h
    BY <1>1, <1>4, <1>5, <2>1 DEF IInv, HandlerInv, fileVars
  <2>2. CASE g # h
    <3>1. hblock[g] > 0 => UNCHANGED fileVars
      BY <2>2 DEF IInv, HandlerInv
    <3> QED
      BY <1>1, <1>4, <1>5, <2>2, <3>1 DEF IInv, HandlerInv, fileVars
  <2> QED
    BY <2>1, <2>2
<1>12. FileInv'
  <2>1. ASSUME NEW g \in Handlers, hphase'[g] = "data"
        PROVE  target' \in {"free", "written"}
    BY <1>1, <1>4, <1>6, <2>1 DEF IInv, FileInv
  <2>2. ASSUME target' # "taken", \A g \in Handlers : hblock'[g] = 0
        PROVE  store' = <<>>
    <3>1. b = 0 /\ \A g \in Handlers : hblock[g] = 0
      BY <1>1, <1>4, <1>6, <2>2
    <3>2. CASE UNCHANGED fileVars
      BY <2>2, <3>1, <3>2 DEF IInv, FileInv, fileVars
    <3>3. CASE Len(store') = b
      BY <1>6, <3>1, <3>3
    <3> QED
      BY <3>2, <3>3
  <2> QED
    BY <2>1, <2>2 DEF FileInv
<1> QED
  BY <1>7, <1>8, <1>9, <1>10, <1>11, <1>12 DEF IInv

\* The state of one handler.
LEMMA HandlerFacts ==
    ASSUME IInv, NEW h \in Handlers
    PROVE  /\ hphase[h] \in {"idle", "data", "done", "failed"}
           /\ hopts[h] \in BOOLEAN
           /\ hblock[h] \in 0 .. Modulus - 1
           /\ hretries[h] \in 0 .. MaxRetries
           /\ hstrangers[h] \in 0 .. MaxRetries /\ hudp[h] \in Socket
           /\ hphase[h] = "idle" => hblock[h] = 0
           /\ hphase[h] = "data" =>
                 /\ hblock[h] < NBlocks /\ hopts[h] \in RequestOptions
                 /\ target \in {"free", "written"}
           /\ hphase[h] = "done" => hblock[h] = NBlocks
           /\ hphase[h] \in {"idle", "data"} => hretries[h] < MaxRetries
           /\ hphase = [hphase EXCEPT ![h] = hphase[h]]
           /\ hopts = [hopts EXCEPT ![h] = hopts[h]]
           /\ hblock = [hblock EXCEPT ![h] = hblock[h]]
           /\ hretries = [hretries EXCEPT ![h] = hretries[h]]
           /\ hstrangers = [hstrangers EXCEPT ![h] = hstrangers[h]]
           /\ hudp = [hudp EXCEPT ![h] = hudp[h]]
           /\ h \in Endpoints /\ Client \in Endpoints /\ h # Client
<1>1. /\ hphase \in [Handlers -> {"idle", "data", "done", "failed"}]
      /\ hopts \in [Handlers -> BOOLEAN]
      /\ hblock \in [Handlers -> 0 .. Modulus - 1]
      /\ hretries \in [Handlers -> 0 .. MaxRetries]
      /\ hstrangers \in [Handlers -> 0 .. MaxRetries]
      /\ hudp \in [Handlers -> Socket]
  BY DEF IInv, TypeOK
<1>2. /\ hphase[h] = "idle" => hblock[h] = 0
      /\ hphase[h] = "data" =>
            hblock[h] < NBlocks /\ target \in {"free", "written"}
      /\ hphase[h] = "done" => hblock[h] = NBlocks
      /\ hphase[h] \in {"idle", "data"} => hretries[h] < MaxRetries
  BY DEF IInv, HandlerInv, FileInv
<1>3. hphase[h] = "data" => hopts[h] \in RequestOptions
  BY DEF IInv, HandlerInv
<1>4. h \in Endpoints /\ Client \in Endpoints /\ h # Client
  BY DEF Endpoints
<1> QED
  BY <1>1, <1>2, <1>3, <1>4

\* An OACK, or the ACK of a block the handler has received; ACK 0 only answers
\* a request without options.
LEMMA RepeatedFacts ==
    ASSUME NEW h \in Handlers, NEW opts \in BOOLEAN, opts \in RequestOptions,
           NEW n \in 0 .. Modulus - 1, n <= hblock'[h]
    PROVE  /\ {Repeated(h, opts, n)} \subseteq Packets
           /\ \A m \in {Repeated(h, opts, n)} : PacketInv(m)'
<1> SUFFICES ASSUME NEW m, m = Repeated(h, opts, n)
             PROVE  m \in Packets /\ PacketInv(m)'
  OBVIOUS
<1>1. h \in Endpoints /\ Client \in Endpoints /\ n \in Nat /\ Wire(n) = n
  BY WireFacts DEF Endpoints
<1>2. CASE n = 0 /\ opts
  <2>1. m = OackPacket(h, Client)
    BY <1>2 DEF Repeated
  <2>2. m \in Packets /\ m.op = "OACK" /\ m.src = h
    BY <1>1, <2>1, OackFields
  <2> QED
    BY <2>2, PlainPacket
<1>3. CASE ~(n = 0 /\ opts)
  <2>1. m = AckPacket(h, Client, n)
    BY <1>3 DEF Repeated
  <2>2. m \in Packets /\ m.op = "ACK" /\ m.src = h /\ m.blk = n
    BY <1>1, <2>1, AckFields
  <2>3. m.blk = 0 => FALSE \in RequestOptions
    <3>1. m.blk = 0 => opts = FALSE
      BY <1>3, <2>2
    <3> QED
      BY <3>1, Zenon
  <2>4. m.op \notin {"WRQ", "DATA"} /\ m.blk <= hblock'[m.src]
    BY <2>2
  <2> QED
    BY <2>2, <2>3, <2>4, Zenon DEF PacketInv
<1> QED
  BY <1>2, <1>3

\* A write request starts a handler, if there is no file yet.
LEMMA AcceptWrqInv ==
    ASSUME IInv, NEW h \in Handlers, NEW m \in net, AcceptWrq(h, m)
    PROVE  IInv'
<1>1. /\ hphase[h] = "idle" /\ m.dst = Main /\ m.op = "WRQ"
      /\ target = "free"
      /\ hphase' = [hphase EXCEPT ![h] = "data"]
      /\ hopts' = [hopts EXCEPT ![h] = m.opts]
      /\ hudp' = [hudp EXCEPT ![h] =
            IF m.opts THEN ChangeTimeout(hudp[h], NegotiatedTimeout)
            ELSE hudp[h]]
      /\ Exchange({m}, {Repeated(h, m.opts, 0)})
      /\ UNCHANGED <<envVars, clientVars>>
      /\ UNCHANGED <<fileVars, hblock, hretries, hstrangers>>
  BY DEF AcceptWrq, Intro, FileAbsent
<1> DEFINE o == m.opts
           u == IF o THEN ChangeTimeout(hudp[h], NegotiatedTimeout)
                ELSE hudp[h]
           out == {Repeated(h, o, 0)}
<1>2. o \in RequestOptions
  BY <1>1 DEF IInv, NetInv, PacketInv
<1>3. o \in BOOLEAN
  BY <1>2, OptionsAssumption
<1>4. net' \subseteq net \cup out
  BY <1>1, ExchangeAdds
<1>5. u \in Socket
  <2>1. hudp[h] \in Socket /\ NegotiatedTimeout \in Nat
    BY HandlerFacts, TimeoutAssumption
  <2> QED
    BY <2>1, SocketType
<1>6. /\ hblock[h] = 0 /\ hblock[h] \in 0 .. Modulus - 1
      /\ hretries[h] \in 0 .. MaxRetries /\ hretries[h] < MaxRetries
      /\ hstrangers[h] \in 0 .. MaxRetries
      /\ hblock' = [hblock EXCEPT ![h] = hblock[h]]
      /\ hretries' = [hretries EXCEPT ![h] = hretries[h]]
      /\ hstrangers' = [hstrangers EXCEPT ![h] = hstrangers[h]]
      /\ hopts' = [hopts EXCEPT ![h] = o]
      /\ hudp' = [hudp EXCEPT ![h] = u]
  BY <1>1, HandlerFacts
<1>7. 0 \in 0 .. Modulus - 1 /\ 0 <= hblock'[h] /\ hblock[h] < NBlocks
  BY <1>1, <1>6
<1>8. out \subseteq Packets /\ \A a \in out : PacketInv(a)'
  BY <1>2, <1>3, <1>7, RepeatedFacts
<1>9. target' \in {"free", "written"} /\ UNCHANGED fileVars
  BY <1>1 DEF fileVars
<1> HIDE DEF o, u, out
<1> DEFINE p == "data"
           b == hblock[h]
           r == hretries[h]
           s == hstrangers[h]
<1>10. /\ p \in {"idle", "data", "done", "failed"}
       /\ p = "data" /\ hphase' = [hphase EXCEPT ![h] = p]
       /\ UNCHANGED <<envVars, clientVars>>
       /\ b \in 0 .. Modulus - 1 /\ hblock' = [hblock EXCEPT ![h] = b]
       /\ r \in 0 .. MaxRetries /\ hretries' = [hretries EXCEPT ![h] = r]
       /\ s \in 0 .. MaxRetries /\ hstrangers' = [hstrangers EXCEPT ![h] = s]
       /\ b = hblock[h] /\ b < NBlocks /\ r < MaxRetries
  BY <1>1, <1>6, <1>7
<1>11. hopts' = [hopts EXCEPT ![h] = o] /\ hudp' = [hudp EXCEPT ![h] = u]
  BY <1>6
<1> HIDE DEF p, b, r, s
<1> QED
  BY <1>2, <1>3, <1>4, <1>5, <1>8, <1>9, <1>10, <1>11, HandlerChange

\* A handler stops, with an ERROR packet or without; the file stays.
LEMMA HandlerFailsInv ==
    ASSUME IInv, NEW h \in Handlers, NEW in, NEW out, HandlerFails(h, in, out),
           NEW code \in ErrorCodes, out \in {{}, {HandlerError(h, code)}},
           UNCHANGED <<hopts, hblock>>,
           NEW r \in 0 .. MaxRetries, hretries' = [hretries EXCEPT ![h] = r],
           NEW s \in 0 .. MaxRetries,
           hstrangers' = [hstrangers EXCEPT ![h] = s],
           NEW u \in Socket, hudp' = [hudp EXCEPT ![h] = u],
           \/ UNCHANGED fileVars
           \/ /\ server_port = h /\ hblock[h] <= sent
              /\ target' = "written" /\ store' \in Seq(0 .. NBlocks)
              /\ StoredPrefix' /\ Len(store') = hblock[h]
    PROVE  IInv'
<1>1. /\ hphase' = [hphase EXCEPT ![h] = "failed"]
      /\ UNCHANGED <<envVars, clientVars>>
      /\ net' \subseteq net \cup out
  BY ExchangeAdds DEF HandlerFails
<1>2. out \subseteq Packets /\ \A m \in out : PacketInv(m)'
  <2>1. h \in Endpoints /\ Client \in Endpoints
    BY HandlerFacts
  <2> QED
    BY <2>1, ErrorFields, PlainPacket DEF HandlerError
<1> DEFINE p == "failed"
           o == hopts[h]
           b == hblock[h]
<1>3. /\ p \in {"idle", "data", "done", "failed"}
      /\ p \notin {"idle", "data", "done"}
      /\ hphase' = [hphase EXCEPT ![h] = p]
      /\ o \in BOOLEAN /\ hopts' = [hopts EXCEPT ![h] = o]
      /\ b \in 0 .. Modulus - 1 /\ hblock' = [hblock EXCEPT ![h] = b]
      /\ b = hblock[h] /\ hblock[h] <= b
  BY <1>1, HandlerFacts
<1>4. \/ UNCHANGED fileVars
      \/ /\ server_port = h /\ b <= sent
         /\ target' = "written" /\ store' \in Seq(0 .. NBlocks)
         /\ StoredPrefix' /\ Len(store') = b
  OBVIOUS
<1> HIDE DEF p, o, b
<1> QED
  BY <1>1, <1>2, <1>3, <1>4, HandlerChange

\* A retry repeats what was sent last; the last one ends the handler.
LEMMA HandlerRetryInv ==
    ASSUME IInv, NEW h \in Handlers, NEW in, HWaiting(h), HandlerRetry(h, in)
    PROVE  IInv'
<1> DEFINE r == hretries[h] + 1
           s == 0
           u == IncreaseTimeout(hudp[h])
<1>1. /\ hretries' = [hretries EXCEPT ![h] = r]
      /\ hstrangers' = [hstrangers EXCEPT ![h] = s]
      /\ hudp' = [hudp EXCEPT ![h] = u]
      /\ UNCHANGED <<hopts, hblock>> /\ UNCHANGED fileVars
  BY DEF HandlerRetry
<1>2. /\ hphase[h] = "data" /\ hretries[h] < MaxRetries
      /\ hretries[h] \in 0 .. MaxRetries /\ hblock[h] < NBlocks
      /\ target \in {"free", "written"}
  BY HandlerFacts DEF HWaiting
<1>3. hopts[h] \in RequestOptions /\ hopts[h] \in BOOLEAN
  BY <1>2, HandlerFacts
<1>4. r \in 0 .. MaxRetries /\ s \in 0 .. MaxRetries
  BY <1>2
<1>5. u \in Socket
  BY HandlerFacts, SocketType
<1>6. CASE /\ RetriesLeft(hretries[h] + 1)
           /\ Exchange(in, {Repeated(h, hopts[h], hblock[h])})
           /\ UNCHANGED <<envVars, clientVars, hphase>>
  <2> DEFINE out == {Repeated(h, hopts[h], hblock[h])}
             o == hopts[h]
             b == hblock[h]
             p == "data"
  <2>1. net' \subseteq net \cup out
    BY <1>6, ExchangeAdds
  <2>2. hblock[h] \in 0 .. Modulus - 1 /\ hblock[h] <= hblock'[h]
    BY <1>1, HandlerFacts
  <2>3. out \subseteq Packets /\ \A m \in out : PacketInv(m)'
    BY <1>3, <2>2, RepeatedFacts
  <2>4. r < MaxRetries /\ target' \in {"free", "written"}
    BY <1>1, <1>2, <1>6 DEF RetriesLeft, fileVars
  <2>5. /\ p \in {"idle", "data", "done", "failed"}
        /\ p = "data" /\ hphase' = [hphase EXCEPT ![h] = p]
        /\ hopts' = [hopts EXCEPT ![h] = o]
        /\ b \in 0 .. Modulus - 1 /\ hblock' = [hblock EXCEPT ![h] = b]
        /\ b = hblock[h] /\ b < NBlocks
    BY <1>1, <1>2, <1>6, HandlerFacts
  <2>6. o \in BOOLEAN /\ o \in RequestOptions
    BY <1>3
  <2>7. UNCHANGED <<envVars, clientVars>>
    BY <1>6
  <2> HIDE DEF out, r, s, u, o, b, p
  <2> QED
    BY <1>1, <1>4, <1>5, <2>1, <2>3, <2>4, <2>5, <2>6, <2>7, HandlerChange
<1>7. CASE HandlerFails(h, in, {HandlerError(h, "ILLEGAL_OPERATION")})
  <2>1. "ILLEGAL_OPERATION" \in ErrorCodes
    BY DEF ErrorCodes
  <2> HIDE DEF r, s, u
  <2> QED
    BY <1>1, <1>4, <1>5, <1>7, <2>1, HandlerFailsInv
<1> QED
  BY <1>6, <1>7 DEF HandlerRetry

\* The three ways to a retry.
LEMMA HandlerRetriesInv ==
    ASSUME IInv, NEW h \in Handlers,
           \/ HandlerTimeout(h)
           \/ \E m \in net : HandlerTooManyStrangers(h, m) \/ OldData(h, m)
    PROVE  IInv'
<1>1. HWaiting(h) /\ \E in : HandlerRetry(h, in)
  BY DEF HandlerTimeout, HandlerTooManyStrangers, OldData, FromClient
<1> QED
  BY <1>1, HandlerRetryInv

\* A DATA packet with the number the handler expects is the next block of the
\* input, sent by the client that is bound to this handler: a left-over of an
\* earlier transfer has a greater number, and a block 2^16 further has not been
\* sent while the handler has numbers left.
LEMMA GenuineData ==
    ASSUME IInv, NEW h \in Handlers, NEW m \in net,
           FromClient(h, m), NextBlock(h, m)
    PROVE  /\ hphase[h] = "data" /\ server_port = h
           /\ hblock[h] \in Nat /\ hblock[h] + 1 \in 0 .. Modulus - 1
           /\ m.val = hblock[h] + 1
           /\ hblock[h] + 1 <= sent /\ hblock[h] + 1 <= NBlocks
           /\ m.short <=> hblock[h] + 1 = NBlocks
           /\ store \in Seq(0 .. NBlocks) /\ Len(store) = hblock[h]
           /\ \A i \in 1 .. Len(store) : store[i] = i
<1>1. /\ hphase[h] = "data" /\ m.dst = h /\ m.src = Client
      /\ m.op = "DATA" /\ m.blk = hblock[h] + 1
  BY DEF FromClient, HWaiting, NextBlock
<1>2. m \in Packets /\ PacketInv(m)
  BY DEF IInv, TypeOK, NetInv
<1>3. m.blk \in BlockNumbers /\ m.val \in Nat
  BY <1>1, <1>2, PacketFields
<1>4. /\ hblock[h] \in 0 .. Modulus - 1 /\ hblock[h] < NBlocks
      /\ target \in {"free", "written"}
  BY <1>1, HandlerFacts
<1>5. m \notin Late
  BY <1>1, <1>3, <1>4, LateAssumption DEF BlockNumbers
<1>6. /\ m.val \in 1 .. sent /\ server_port = h
      /\ m.val < Modulus => m.blk = m.val
  BY <1>1, <1>2, <1>5 DEF PacketInv
<1>7. m.short <=> m.val = NBlocks
  BY <1>1, <1>2, <1>5 DEF PacketInv
<1>8. sent \in Nat /\ hblock[h] + 1 \in 0 .. Modulus - 1
  BY <1>1, <1>3, <1>4 DEF IInv, TypeOK, BlockNumbers
<1>9. sent <= hblock[h] + 1
  BY <1>4, <1>6, <1>8 DEF IInv, ClientInv
<1>10. m.val = hblock[h] + 1
  BY <1>1, <1>3, <1>6, <1>8, <1>9
<1>11. store \in Seq(0 .. NBlocks) /\ \A i \in 1 .. Len(store) : store[i] = i
  BY <1>4 DEF IInv, TypeOK, StoredPrefix
<1>12. Len(store) = hblock[h]
  <2>1. CASE hblock[h] > 0
    BY <2>1 DEF IInv, HandlerInv
  <2>2. CASE hblock[h] = 0
    <3>1. \A g \in Handlers : hblock[g] \in Nat
      BY DEF IInv, TypeOK
    <3>2. \A g \in Handlers : hblock[g] = 0
      <4> SUFFICES ASSUME NEW g \in Handlers, hblock[g] # 0 PROVE FALSE
        OBVIOUS
      <4>1. server_port = g
        BY <3>1 DEF IInv, HandlerInv
      <4> QED
        BY <1>6, <2>2, <4>1
    <3>3. store = <<>>
      BY <1>4, <3>2 DEF IInv, FileInv
    <3> QED
      BY <2>2, <3>3
  <2> QED
    BY <1>4, <2>1, <2>2
<1> QED
  BY <1>1, <1>4, <1>6, <1>7, <1>8, <1>10, <1>11, <1>12

\* At the end of a file, the Writer's offset appends.
LEMMA WrittenAppends ==
    ASSUME store \in Seq(0 .. NBlocks), NEW v \in 0 .. NBlocks
    PROVE  /\ Written(Len(store), v) = Append(store, v)
           /\ Written(Len(store), v) \in Seq(0 .. NBlocks)
           /\ Len(Written(Len(store), v)) = Len(store) + 1
<1>1. Append(store, v) \in Seq(0 .. NBlocks) /\ Len(Append(store, v)) = Len(store) + 1
  OBVIOUS
<1>2. Written(Len(store), v) = Append(store, v)
  <2>1. CASE Len(store) = 0
    BY <2>1 DEF Written
  <2>2. CASE Len(store) # 0
    <3> DEFINE n == Len(store) + 1
               f == [i \in 1 .. n |-> IF i = n THEN v ELSE store[i]]
    <3>1. n \in Nat /\ n = Len(store) + 1
      OBVIOUS
    <3>2. Written(Len(store), v) = f
      BY <2>2 DEF Written
    <3>3. f \in Seq(0 .. NBlocks) /\ Len(f) = n
      <4>1. \A i \in 1 .. n : i # n => i \in 1 .. Len(store)
        OBVIOUS
      <4>2. \A i \in 1 .. n : f[i] \in 0 .. NBlocks
        BY <4>1
      <4> QED
        BY <3>1, <4>2
    <3>4. \A i \in 1 .. n : Append(store, v)[i] = f[i]
      OBVIOUS
    <3> HIDE DEF f, n
    <3> QED
      BY <1>1, <3>1, <3>2, <3>3, <3>4
  <2> QED
    BY <2>1, <2>2
<1> QED
  BY <1>1, <1>2

\* The block that is due is written, then acknowledged.
LEMMA AcceptDataInv ==
    ASSUME IInv, NEW h \in Handlers, NEW m \in net, AcceptData(h, m)
    PROVE  IInv'
<1> DEFINE b == hblock[h] + 1
           p == IF LastPacket(m) THEN "done" ELSE "data"
           o == hopts[h]
           z == 0
           u == TimeoutReset(hudp[h])
           out == {AckPacket(h, Client, b)}
<1>1. /\ hphase[h] = "data" /\ server_port = h
      /\ hblock[h] \in Nat /\ b \in 0 .. Modulus - 1
      /\ m.val = b /\ b <= sent /\ b <= NBlocks
      /\ store \in Seq(0 .. NBlocks) /\ Len(store) = hblock[h]
      /\ \A i \in 1 .. Len(store) : store[i] = i
  BY GenuineData DEF AcceptData
<1>2. m.short <=> b = NBlocks
  BY GenuineData DEF AcceptData
<1>3. /\ target' = "written" /\ store' = Written(hblock[h], b)
      /\ hblock' = [hblock EXCEPT ![h] = b]
      /\ hphase' = [hphase EXCEPT ![h] = p]
      /\ hretries' = [hretries EXCEPT ![h] = z]
      /\ hstrangers' = [hstrangers EXCEPT ![h] = z]
      /\ hudp' = [hudp EXCEPT ![h] = u]
      /\ Exchange({m}, out) /\ UNCHANGED <<envVars, clientVars>>
      /\ hopts' = hopts
  BY <1>1 DEF AcceptData
<1>4. net' \subseteq net \cup out
  BY <1>3, ExchangeAdds
<1>5. out \subseteq Packets /\ \A a \in out : PacketInv(a)'
  <2> SUFFICES ASSUME NEW a, a = AckPacket(h, Client, b)
               PROVE  a \in Packets /\ PacketInv(a)'
    OBVIOUS
  <2>1. h \in Endpoints /\ Client \in Endpoints /\ b \in Nat /\ Wire(b) = b
    BY <1>1, HandlerFacts, WireFacts
  <2>2. a \in Packets /\ a.op = "ACK" /\ a.src = h /\ a.blk = b
    BY <2>1, AckFields
  <2>3. hblock'[h] = b
    BY <1>3 DEF IInv, TypeOK
  <2>4. a.op \notin {"WRQ", "DATA"} /\ a.blk <= hblock'[a.src] /\ a.blk # 0
    BY <1>1, <2>2, <2>3
  <2> QED
    BY <2>2, <2>4 DEF PacketInv
<1>6. /\ store' = Append(store, b) /\ store' \in Seq(0 .. NBlocks)
      /\ Len(store') = b
  <2>1. b \in 0 .. NBlocks
    BY <1>1
  <2> QED
    BY <1>1, <1>3, <2>1, WrittenAppends
<1>7. StoredPrefix'
  <2>1. \A i \in 1 .. b : Append(store, b)[i] = i
    BY <1>1
  <2> QED
    BY <1>3, <1>6, <2>1 DEF StoredPrefix
<1>8. /\ p \in {"idle", "data", "done", "failed"} /\ p # "idle"
      /\ p = "data" => b < NBlocks
      /\ p = "done" => b = NBlocks
  BY <1>1, <1>2 DEF LastPacket
<1>9. /\ z \in 0 .. MaxRetries /\ z < MaxRetries
      /\ target' \in {"free", "written"}
      /\ hblock[h] <= b
  BY <1>1, <1>3
<1>10. o \in BOOLEAN /\ o \in RequestOptions
  BY <1>1, HandlerFacts
<1>11. hopts' = [hopts EXCEPT ![h] = o]
  BY <1>3, HandlerFacts
<1>12. u \in Socket
  BY HandlerFacts, SocketType
<1> HIDE DEF b, p, o, z, u, out
<1> QED
  BY <1>1, <1>3, <1>4, <1>5, <1>6, <1>7, <1>8, <1>9, <1>10, <1>11, <1>12,
     HandlerChange

\* Without a write: a refused request, a block from the future, an ERROR.
LEMMA HandlerEndsInv ==
    ASSUME IInv, NEW h \in Handlers, NEW m \in net,
           RefuseIntro(h, m) \/ FutureData(h, m) \/ ErrorToHandler(h, m)
    PROVE  IInv'
<1>1. /\ \E code \in ErrorCodes :
            \/ HandlerFails(h, {m}, {})
            \/ HandlerFails(h, {m}, {HandlerError(h, code)})
      /\ UNCHANGED fileVars
      /\ UNCHANGED <<hopts, hblock, hretries, hstrangers, hudp>>
  BY DEF RefuseIntro, FutureData, ErrorToHandler, ErrorCodes
<1> DEFINE r == hretries[h]
           s == hstrangers[h]
           u == hudp[h]
<1>2. /\ r \in 0 .. MaxRetries /\ hretries' = [hretries EXCEPT ![h] = r]
      /\ s \in 0 .. MaxRetries /\ hstrangers' = [hstrangers EXCEPT ![h] = s]
      /\ u \in Socket /\ hudp' = [hudp EXCEPT ![h] = u]
  BY <1>1, HandlerFacts
<1> HIDE DEF r, s, u
<1>3. PICK code \in ErrorCodes :
         \/ HandlerFails(h, {m}, {})
         \/ HandlerFails(h, {m}, {HandlerError(h, code)})
  BY <1>1
<1>4. PICK out \in {{}, {HandlerError(h, code)}} : HandlerFails(h, {m}, out)
  BY <1>3
<1> QED
  BY <1>1, <1>2, <1>4, HandlerFailsInv

\* A write that fails leaves what was there; a first one empties the file, but
\* then this handler is the only writer and nothing was stored.
LEMMA DataNotWrittenInv ==
    ASSUME IInv, NEW h \in Handlers, NEW m \in net, NEW code \in WriteErrors,
           DataNotWritten(h, m, code)
    PROVE  IInv'
<1>1. /\ FromClient(h, m) /\ NextBlock(h, m)
      /\ HandlerFails(h, {m}, {HandlerError(h, code)})
      /\ UNCHANGED <<hopts, hblock, hretries, hstrangers, hudp>>
      /\ \/ UNCHANGED fileVars
         \/ /\ target' = "written"
            /\ store' = IF hblock[h] = 0 THEN <<>> ELSE store
  BY DEF DataNotWritten
<1>2. code \in ErrorCodes
  BY DEF WriteErrors, ErrorCodes
<1>3. /\ server_port = h /\ hblock[h] \in Nat /\ hblock[h] + 1 <= sent
      /\ store \in Seq(0 .. NBlocks) /\ Len(store) = hblock[h]
      /\ \A i \in 1 .. Len(store) : store[i] = i
      /\ sent \in Nat
  BY <1>1, GenuineData DEF IInv, TypeOK
<1>4. \/ UNCHANGED fileVars
      \/ /\ target' = "written" /\ store' = store
         /\ store' \in Seq(0 .. NBlocks)
         /\ StoredPrefix' /\ Len(store') = hblock[h]
  <2> SUFFICES ASSUME target' = "written",
                      store' = IF hblock[h] = 0 THEN <<>> ELSE store
               PROVE  /\ store' = store
                      /\ StoredPrefix'
    BY <1>1, <1>3
  <2>1. hblock[h] = 0 => store = <<>>
    BY <1>3
  <2> QED
    BY <1>3, <2>1 DEF StoredPrefix
<1>5. hblock[h] <= sent
  BY <1>3
<1> DEFINE r == hretries[h]
           s == hstrangers[h]
           u == hudp[h]
<1>6. /\ r \in 0 .. MaxRetries /\ hretries' = [hretries EXCEPT ![h] = r]
      /\ s \in 0 .. MaxRetries /\ hstrangers' = [hstrangers EXCEPT ![h] = s]
      /\ u \in Socket /\ hudp' = [hudp EXCEPT ![h] = u]
  BY <1>1, HandlerFacts
<1> HIDE DEF r, s, u
<1>7. UNCHANGED <<hopts, hblock>> /\ server_port = h
  BY <1>1, <1>3
<1> DEFINE out == {HandlerError(h, code)}
<1>8. HandlerFails(h, {m}, out) /\ out \in {{}, {HandlerError(h, code)}}
  BY <1>1
<1> HIDE DEF out
<1> QED
  BY <1>2, <1>4, <1>5, <1>6, <1>7, <1>8, HandlerFailsInv

\* A stranger gets an ERROR packet, any other packet of the client the last
\* answer again; the handler stays where it is.
LEMMA HandlerIdlesInv ==
    ASSUME IInv, NEW h \in Handlers, NEW m \in net,
           StrangerToHandler(h, m) \/ OtherToHandler(h, m)
    PROVE  IInv'
<1> DEFINE out == IF StrangerToHandler(h, m)
                  THEN {ErrorPacket(h, m.src, "UNKNOWN_TID")}
                  ELSE {Repeated(h, hopts[h], hblock[h])}
           p == "data"
           o == hopts[h]
           b == hblock[h]
           r == hretries[h]
           s == hstrangers'[h]
           u == hudp[h]
<1>1. /\ hphase[h] = "data"
      /\ StrangerToHandler(h, m) => m.src # Client
      /\ \/ hstrangers[h] < MaxRetries
            /\ hstrangers' = [hstrangers EXCEPT ![h] = hstrangers[h] + 1]
         \/ hstrangers' = [hstrangers EXCEPT ![h] = 0]
      /\ Exchange({m}, out) /\ UNCHANGED <<envVars, clientVars>>
      /\ UNCHANGED fileVars /\ UNCHANGED <<hphase, hopts, hblock, hretries, hudp>>
  BY DEF StrangerToHandler, OtherToHandler, FromClient, HWaiting
<1>2. net' \subseteq net \cup out
  BY <1>1, ExchangeAdds
<1>3. /\ o \in BOOLEAN /\ o \in RequestOptions
      /\ target \in {"free", "written"}
  BY <1>1, HandlerFacts
<1>4. out \subseteq Packets /\ \A a \in out : PacketInv(a)'
  <2>1. CASE StrangerToHandler(h, m)
    <3>1. m.src \in Endpoints /\ m.src # Client
      BY <1>1, <2>1, PacketFields DEF IInv, TypeOK
    <3>2. h \in Endpoints /\ "UNKNOWN_TID" \in ErrorCodes
      BY HandlerFacts DEF ErrorCodes
    <3> QED
      BY <2>1, <3>1, <3>2, ErrorFields, PlainPacket
  <2>2. CASE ~StrangerToHandler(h, m)
    <3>1. hblock[h] \in 0 .. Modulus - 1 /\ hblock[h] <= hblock'[h]
      BY <1>1, HandlerFacts
    <3> QED
      BY <1>3, <2>2, <3>1, RepeatedFacts
  <2> QED
    BY <2>1, <2>2
<1>5. s \in 0 .. MaxRetries /\ hstrangers' = [hstrangers EXCEPT ![h] = s]
  <2>1. hstrangers \in [Handlers -> 0 .. MaxRetries]
    BY DEF IInv, TypeOK
  <2> QED
    BY <1>1, <2>1
<1>6. /\ p \in {"idle", "data", "done", "failed"} /\ p = "data"
      /\ hphase' = [hphase EXCEPT ![h] = p]
      /\ hopts' = [hopts EXCEPT ![h] = o]
      /\ b \in 0 .. Modulus - 1 /\ hblock' = [hblock EXCEPT ![h] = b]
      /\ r \in 0 .. MaxRetries /\ hretries' = [hretries EXCEPT ![h] = r]
      /\ u \in Socket /\ hudp' = [hudp EXCEPT ![h] = u]
      /\ b = hblock[h] /\ b < NBlocks /\ r < MaxRetries
  BY <1>1, HandlerFacts
<1>7. target' \in {"free", "written"} /\ UNCHANGED fileVars
  BY <1>1, <1>3 DEF fileVars
<1>8. UNCHANGED <<envVars, clientVars>>
  BY <1>1
<1> HIDE DEF out, p, o, b, r, s, u
<1> QED
  BY <1>2, <1>3, <1>4, <1>5, <1>6, <1>7, <1>8, HandlerChange

-----------------------------------------------------------------------------
(* The theorems.                                                            *)

\* Every step of client, handlers and environment keeps the invariant.
LEMMA NextInv == IInv /\ [Next]_vars => IInv'
<1> SUFFICES ASSUME IInv, [Next]_vars PROVE IInv'
  OBVIOUS
<1>1. CASE ClientStep
  BY <1>1, SendWrqInv, FirstBlockInv, FirstFailureInv, StrangerToClientInv,
     RetriesInv, BlockAckedInv, LastBlockAckedInv, TransferFailureInv,
     OtherToClientInv DEF ClientStep
<1>2. ASSUME NEW h \in Handlers, HandlerStep(h) PROVE IInv'
  BY <1>2, AcceptWrqInv, HandlerEndsInv, HandlerIdlesInv, HandlerRetriesInv,
     AcceptDataInv DEF HandlerStep
<1>3. CASE Fault
  BY <1>3, SigintInv, DataNotWrittenInv, LoseInv DEF Fault
<1>4. CASE UNCHANGED vars
  <2>1. UNCHANGED <<net, losses, calm, target, store, phase, options,
                    server_port, sent, block_number, retries, strangers, udp,
                    hphase, hopts, hblock, hretries, hstrangers, hudp>>
    BY <1>4 DEF vars, envVars, clientVars, handlerVars, fileVars
  <2>2. TypeOK' /\ NetInv'
    BY <2>1 DEF IInv, TypeOK, NetInv, PacketInv
  <2>3. StoredPrefix' /\ ClientInv' /\ HandlerInv' /\ FileInv'
    BY <2>1 DEF IInv, StoredPrefix, ClientInv, HandlerInv, FileInv
  <2> QED
    BY <2>2, <2>3 DEF IInv
<1> QED
  BY <1>1, <1>2, <1>3, <1>4 DEF Next

\* The invariant holds of every reachable state.
LEMMA Invariance == Spec => []IInv
<1>1. Init => IInv
  BY InitInv
<1>2. IInv /\ [Next]_vars => IInv'
  BY NextInv
<1> QED
  BY <1>1, <1>2, PTL DEF Spec

\* Type correctness: the retry and stranger counters of both sides stay within
\* MAX_RETRIES, the client's uint16_t wraps and the server's int block number
\* never leaves 16 bits (Write.cpp:145, ClientHandler.cpp:274 and 355).
THEOREM TypeCorrect == Spec => []TypeOK
<1>1. IInv => TypeOK
  BY DEF IInv
<1> QED
  BY <1>1, Invariance, PTL

\* For an input of any size the server's file is a prefix of it, and a file of
\* earlier times stays what it was, although a block number stands for many
\* blocks once the client's counter has wrapped (ClientHandler.cpp:295, 367).
THEOREM StoredCorrect == Spec => []StoredPrefix
<1>1. IInv => StoredPrefix
  BY DEF IInv
<1> QED
  BY <1>1, Invariance, PTL

\* However many handlers found no file and so accepted the request, only the one
\* the client is bound to ever opens the file, and its count of blocks is the
\* length of the file (Writer.cpp:37).
THEOREM OneWriter == Spec => []SingleWriter
<1>1. IInv => SingleWriter
  BY DEF IInv, HandlerInv, SingleWriter
<1> QED
  BY <1>1, Invariance, PTL

\* A handler reports success only when the whole input is in the file
\* (ClientHandler.cpp:309, 383).
THEOREM ServerReportCorrect == Spec => []ServerReport
<1>1. IInv => ServerReport
  <2> SUFFICES ASSUME IInv, NEW h \in Handlers, hphase[h] = "done"
               PROVE  server_port = h /\ Len(store) = NBlocks
    BY DEF ServerReport
  <2>1. hblock[h] = NBlocks
    BY DEF IInv, HandlerInv
  <2> QED
    BY <2>1 DEF IInv, HandlerInv
<1> QED
  BY <1>1, Invariance, PTL

\* Stop and wait, when no ACK 0 can be taken for the ACK of block 2^16: while
\* the client waits, the handler it is bound to has stored all blocks but the
\* one in flight (Write.cpp:152, ClientHandler.cpp:367).
THEOREM StopAndWait ==
    ASSUME NumbersDistinct
    PROVE  Spec => []Lockstep
<1>1. IInv => Lockstep
  <2> SUFFICES ASSUME IInv, phase = "transfer", server_port # Main
               PROVE  hblock[server_port] \in {sent - 1, sent}
    BY DEF Lockstep
  <2>1. /\ server_port \in Handlers /\ sent \in Nat /\ sent <= Modulus
        /\ hblock[server_port] \in 0 .. Modulus - 1
    BY DEF IInv, TypeOK, ClientInv
  <2>2. sent <= hblock[server_port] + 1
    BY <2>1 DEF IInv, ClientInv
  <2>3. hblock[server_port] <= sent
    BY <2>1 DEF IInv, HandlerInv
  <2> QED
    BY <2>1, <2>2, <2>3
<1> QED
  BY <1>1, Invariance, PTL

-----------------------------------------------------------------------------
(* The upload implements TransferSpec.                                      *)

\* What is at the server's path of the file that is being uploaded.
Copy == IF target = "taken" THEN <<>> ELSE store

Live == {"start", "request", "transfer"}
Aborted == {"failed", "interrupted", "eintr"}

\* What a step of the client may do to its report.
ReportStep ==
    \/ phase' = phase
    \/ phase \in Live /\ phase' \in Live \cup Aborted
    \/ phase = "transfer" /\ phase' = "done" /\ Len(Copy) = NBlocks

\* Sending a block, or failing to read it.
LEMMA SendBlockReport ==
    ASSUME NEW in, NEW port, NEW n, NEW wire, SendBlock(in, port, n, wire),
           phase \in Live
    PROVE  ReportStep /\ UNCHANGED fileVars
BY DEF SendBlock, ClientFails, ReportStep, Live, Aborted, handlerVars

\* The client reports success only if the server has the whole input.
LEMMA DoneReport ==
    ASSUME IInv, NumbersDistinct, NEW m \in net, LastBlockAcked(m)
    PROVE  ReportStep /\ UNCHANGED fileVars
<1>1. /\ FromServer(m) /\ AckMatches(m) /\ sent = NBlocks
      /\ phase = "transfer" /\ phase' = "done" /\ UNCHANGED handlerVars
  BY DEF LastBlockAcked, FromServer
<1>2. /\ server_port \in Handlers /\ hblock[server_port] \in Nat
      /\ NBlocks <= hblock[server_port]
  BY <1>1, GenuineAck
<1>3. /\ target = "written" /\ Len(store) = hblock[server_port]
      /\ hblock[server_port] <= sent
  BY <1>2 DEF IInv, HandlerInv
<1> QED
  BY <1>1, <1>2, <1>3 DEF ReportStep, Copy, handlerVars

\* Every step of the client leaves the file alone.
LEMMA ClientReport ==
    ASSUME IInv, NumbersDistinct,
           ClientStep \/ CheckForSigintWRQ \/ SigintInReceive
    PROVE  ReportStep /\ UNCHANGED fileVars
<1>1. CASE RequestTimeout \/ \E m \in net : FirstAck(m) \/ FirstOack(m)
                                            \/ BlockAcked(m)
  <2>1. /\ phase \in Live
        /\ \E in, port, n, wire : SendBlock(in, port, n, wire)
    BY <1>1 DEF RequestTimeout, FirstAck, FirstOack, BlockAcked, FirstResponse,
       FromServer, Live
  <2> QED
    BY <2>1, SendBlockReport
<1>2. CASE \E m \in net : LastBlockAcked(m)
  BY <1>2, DoneReport
<1>3. CASE \E m \in net : FirstError(m) \/ FirstIllegal(m) \/ FutureAck(m)
                          \/ ServerError(m)
  BY <1>3 DEF FirstError, FirstIllegal, FutureAck, ServerError, FirstResponse,
     FromServer, ClientFails, ReportStep, Live, Aborted, handlerVars
<1>4. CASE TransferTimeout \/ \E m \in net : TooManyStrangers(m) \/ OldAck(m)
  <2>1. phase = "transfer" /\ \E in : Retry(in)
    BY <1>4 DEF TransferTimeout, TooManyStrangers, OldAck, FromServer
  <2> QED
    BY <2>1 DEF Retry, ClientFails, ReportStep, Live, Aborted, handlerVars
<1>5. CASE SendWrq \/ CheckForSigintWRQ \/ SigintInReceive
           \/ \E m \in net : StrangerToClient(m) \/ OtherToClient(m)
  BY <1>5 DEF SendWrq, CheckForSigintWRQ, SigintInReceive, Waiting,
     StrangerToClient, OtherToClient, ReportStep, Live, Aborted, handlerVars
<1> QED
  BY <1>1, <1>2, <1>3, <1>4, <1>5 DEF ClientStep

\* A step of a handler appends the next block of the input, or none.
LEMMA HandlerCopy ==
    ASSUME IInv, NEW h \in Handlers,
           \/ HandlerStep(h)
           \/ \E m \in net, code \in WriteErrors : DataNotWritten(h, m, code)
    PROVE  /\ phase' = phase
           /\ \/ Copy' = Copy
              \/ Len(Copy) < NBlocks /\ Copy' = Append(Copy, Len(Copy) + 1)
<1>1. UNCHANGED clientVars
  BY DEF HandlerStep, DataNotWritten, AcceptWrq, RefuseIntro,
     StrangerToHandler, HandlerTooManyStrangers, AcceptData, OldData,
     FutureData, ErrorToHandler, OtherToHandler, HandlerTimeout, HandlerRetry,
     HandlerFails
<1>2. CASE \E m \in net : AcceptData(h, m)
  <2>1. PICK m \in net : AcceptData(h, m)
    BY <1>2
  <2>2. /\ hphase[h] = "data" /\ hblock[h] \in Nat
        /\ m.val = hblock[h] + 1 /\ hblock[h] + 1 <= NBlocks
        /\ store \in Seq(0 .. NBlocks) /\ Len(store) = hblock[h]
    BY <2>1, GenuineData DEF AcceptData
  <2>3. hblock[h] + 1 \in 0 .. NBlocks
    BY <2>2
  <2>4. target' = "written" /\ store' = Append(store, Len(store) + 1)
    BY <2>1, <2>2, <2>3, WrittenAppends DEF AcceptData
  <2>5. target \in {"free", "written"}
    BY <2>2, HandlerFacts
  <2> QED
    BY <1>1, <2>2, <2>4, <2>5 DEF Copy, clientVars
<1>3. CASE \E m \in net, code \in WriteErrors : DataNotWritten(h, m, code)
  <2>1. PICK m \in net, code \in WriteErrors : DataNotWritten(h, m, code)
    BY <1>3
  <2>2. /\ hphase[h] = "data"
        /\ store \in Seq(0 .. NBlocks) /\ Len(store) = hblock[h]
    BY <2>1, GenuineData DEF DataNotWritten
  <2>3. target \in {"free", "written"}
    BY <2>2, HandlerFacts
  <2>4. hblock[h] = 0 => store = <<>>
    BY <2>2
  <2>5. \/ UNCHANGED fileVars
        \/ target' = "written" /\ store' = store
    BY <2>1, <2>4 DEF DataNotWritten
  <2> QED
    BY <1>1, <2>3, <2>5 DEF Copy, clientVars, fileVars
<1>4. CASE UNCHANGED fileVars
  BY <1>1, <1>4 DEF Copy, clientVars, fileVars
<1> QED
  BY <1>2, <1>3, <1>4 DEF HandlerStep, AcceptWrq, RefuseIntro,
     StrangerToHandler, HandlerTooManyStrangers, OldData, FutureData,
     ErrorToHandler, OtherToHandler, HandlerTimeout, HandlerRetry

\* What a step does to the copy and to the report, together.
LEMMA NextCopy ==
    ASSUME IInv, NumbersDistinct, [Next]_vars
    PROVE  \/ Copy' = Copy /\ ReportStep
           \/ /\ phase' = phase /\ Len(Copy) < NBlocks
              /\ Copy' = Append(Copy, Len(Copy) + 1)
<1>1. CASE ClientStep \/ CheckForSigintWRQ \/ SigintInReceive
  BY <1>1, ClientReport DEF Copy, fileVars
<1>2. CASE \E h \in Handlers :
              \/ HandlerStep(h)
              \/ \E m \in net, code \in WriteErrors : DataNotWritten(h, m, code)
  BY <1>2, HandlerCopy DEF ReportStep
<1>3. CASE UNCHANGED vars \/ \E m \in net : Lose(m)
  BY <1>3 DEF vars, Lose, clientVars, handlerVars, fileVars, Copy, ReportStep
<1> QED
  BY <1>1, <1>2, <1>3 DEF Next, Fault

\* When no ACK 0 can be taken for the ACK of block 2^16, every behaviour of
\* client, handlers, network and environment is one of the abstract transfer's:
\* in particular the client ends well only if the server has stored the whole
\* input (Write.cpp:152, ClientHandler.cpp:295 and 367).
THEOREM UploadRefines ==
    ASSUME NumbersDistinct
    PROVE  Spec => Refinement
<1>1. Init => Transfer!TInit
  BY DEF Init, Status, Transfer!TInit
<1>2. IInv /\ [Next]_vars => [Transfer!TNext]_<<Copy, Status>>
  <2> SUFFICES ASSUME IInv, [Next]_vars
               PROVE  [Transfer!TNext]_<<Copy, Status>>
    OBVIOUS
  <2>1. \/ Copy' = Copy /\ ReportStep
        \/ /\ phase' = phase /\ Len(Copy) < NBlocks
           /\ Copy' = Append(Copy, Len(Copy) + 1)
    BY NextCopy
  <2> QED
    BY <2>1 DEF ReportStep, Live, Aborted, Status, Copy, Transfer!TNext,
       Transfer!Extend, Transfer!Complete, Transfer!Abort
<1> QED
  BY <1>1, <1>2, Invariance, PTL DEF Spec, Refinement, Transfer!TSpec, Copy


-----------------------------------------------------------------------------
(* The timers.                                                              *)

\* The invariant of the client's socket, and of one of a handler.
ClientTimer(p, n, r, u) ==
    /\ p = "transfer" =>
          /\ u.timeout = Doubled[r]
          /\ \/ u.rcvtimeo = Doubled[r]
             \/ n = 1 /\ r = 0 /\ u.rcvtimeo = NegotiatedTimeout
    /\ p \in {"start", "request"} =>
          /\ u.timeout = DefaultTimeout
          /\ u.rcvtimeo \in {DefaultTimeout, NegotiatedTimeout}

HandlerTimer(p, b, o, r, u) ==
    /\ p = "data" =>
          /\ u.timeout = Doubled[r]
          /\ \/ u.rcvtimeo = Doubled[r]
             \/ b = 0 /\ r = 0 /\ o /\ u.rcvtimeo = NegotiatedTimeout
    /\ p = "idle" => b = 0 /\ r = 0 /\ u = NewUdpClient

\* TimerInv is the invariant of every socket.
LEMMA TimerParts ==
    TimerInv <=> /\ ClientTimer(phase, sent, retries, udp)
                 /\ \A h \in Handlers :
                       HandlerTimer(hphase[h], hblock[h], hopts[h], hretries[h], hudp[h])
BY DEF TimerInv, ClientTimer, HandlerTimer, HWaiting

\* The same of the next state.
LEMMA TimerPartsNext ==
    TimerInv' <=> /\ ClientTimer(phase', sent', retries', udp')
                  /\ \A h \in Handlers :
                        HandlerTimer(hphase'[h], hblock'[h], hopts'[h],
                                     hretries'[h], hudp'[h])
BY DEF TimerInv, ClientTimer, HandlerTimer, HWaiting

\* What a step may do to the client's timer.
ClientTimerStep ==
    \/ phase' \in {"done", "failed", "interrupted", "eintr"}
    \/ UNCHANGED <<phase, sent, retries, udp>>
    \/ phase = "start" /\ phase' = "request" /\ UNCHANGED udp
    \/ /\ phase = "request" /\ phase' = "transfer" /\ retries' = 0 /\ sent' = 1
       /\ udp' \in {udp, ChangeTimeout(udp, NegotiatedTimeout)}
    \/ retries' = 0 /\ phase' = "transfer" /\ \E u \in Socket : udp' = TimeoutReset(u)
    \/ /\ phase = "transfer" /\ phase' = phase
       /\ retries' = retries + 1 /\ udp' = IncreaseTimeout(udp)

\* Whatever the client does to its timer keeps it in step with its retries.
LEMMA ClientTimerKept ==
    ASSUME IInv, ClientTimer(phase, sent, retries, udp), ClientTimerStep
    PROVE  ClientTimer(phase', sent', retries', udp')
<1>0. retries \in Nat /\ udp \in Socket
  BY DEF IInv, TypeOK
<1>1. CASE phase' \in {"done", "failed", "interrupted", "eintr"}
  BY <1>1 DEF ClientTimer
<1>2. CASE UNCHANGED <<phase, sent, retries, udp>>
  BY <1>2
<1>3. CASE phase = "start" /\ phase' = "request" /\ UNCHANGED udp
  BY <1>3 DEF ClientTimer
<1>4. CASE /\ phase = "request" /\ phase' = "transfer" /\ retries' = 0 /\ sent' = 1
           /\ udp' \in {udp, ChangeTimeout(udp, NegotiatedTimeout)}
  BY <1>0, <1>4, TimerFacts DEF ClientTimer, DefaultTimeout
<1>5. CASE /\ retries' = 0 /\ phase' = "transfer"
           /\ \E u \in Socket : udp' = TimeoutReset(u)
  BY <1>0, <1>5, TimerFacts DEF ClientTimer
<1>6. CASE /\ phase = "transfer" /\ phase' = phase
           /\ retries' = retries + 1 /\ udp' = IncreaseTimeout(udp)
  BY <1>0, <1>6, TimerFacts DEF ClientTimer
<1> QED
  BY <1>1, <1>2, <1>3, <1>4, <1>5, <1>6 DEF ClientTimerStep

\* The client's steps and its faults are such, and leave the handlers alone.
LEMMA ClientTimerSteps ==
    ASSUME IInv, ClientStep \/ CheckForSigintWRQ \/ SigintInReceive
    PROVE  ClientTimerStep /\ UNCHANGED handlerVars
<1>0. udp \in Socket /\ IncreaseTimeout(udp) \in Socket
  <2>1. udp \in Socket
    BY DEF IInv, TypeOK
  <2> QED
    BY <2>1, SocketType
<1>1. ASSUME NEW in, NEW port, NEW n, NEW wire, SendBlock(in, port, n, wire)
      PROVE  /\ retries' = 0 /\ UNCHANGED handlerVars
             /\ phase' = "failed" \/ (phase' = "transfer" /\ sent' = n)
  BY <1>1 DEF SendBlock, ClientFails
<1>2. ASSUME NEW m \in net, FirstAck(m) \/ FirstOack(m)
      PROVE  ClientTimerStep /\ UNCHANGED handlerVars
  <2>1. /\ phase = "request" /\ SendBlock({m}, m.src, 1, 1)
        /\ udp' \in {udp, ChangeTimeout(udp, NegotiatedTimeout)}
    BY <1>2 DEF FirstAck, FirstOack, FirstResponse
  <2> QED
    BY <1>1, <2>1 DEF ClientTimerStep
<1>3. CASE RequestTimeout \/ \E m \in net : BlockAcked(m)
  <2>1. \E u \in Socket : udp' = TimeoutReset(u)
    BY <1>0, <1>3 DEF RequestTimeout, BlockAcked
  <2>2. \E in, port, n, wire : SendBlock(in, port, n, wire)
    BY <1>3 DEF RequestTimeout, BlockAcked
  <2> QED
    BY <1>1, <2>1, <2>2 DEF ClientTimerStep
<1>4. ASSUME phase = "transfer", NEW in, Retry(in)
      PROVE  ClientTimerStep /\ UNCHANGED handlerVars
  BY <1>4 DEF Retry, ClientFails, ClientTimerStep
<1>5. CASE TransferTimeout \/ \E m \in net : TooManyStrangers(m) \/ OldAck(m)
  <2>1. phase = "transfer" /\ \E in : Retry(in)
    BY <1>5 DEF TransferTimeout, TooManyStrangers, OldAck, FromServer
  <2> QED
    BY <1>4, <2>1
<1>6. CASE \E m \in net : \/ FirstError(m) \/ FirstIllegal(m)
                          \/ FutureAck(m) \/ ServerError(m)
  BY <1>6 DEF FirstError, FirstIllegal, FutureAck, ServerError, ClientFails,
              ClientTimerStep
<1>7. CASE SendWrq \/ \E m \in net : \/ StrangerToClient(m) \/ OtherToClient(m)
                                     \/ LastBlockAcked(m)
  BY <1>7 DEF SendWrq, StrangerToClient, OtherToClient, LastBlockAcked, ClientTimerStep
<1>8. CASE CheckForSigintWRQ \/ SigintInReceive
  BY <1>8 DEF CheckForSigintWRQ, SigintInReceive, ClientTimerStep
<1> QED
  BY <1>2, <1>3, <1>5, <1>6, <1>7, <1>8 DEF ClientStep

\* What a step of handler h may do to its timer: end, wait on, start with a
\* new socket, get a block, or count a retry.
SetTimer(h, p, r, u) ==
    /\ hphase' = [hphase EXCEPT ![h] = p]
    /\ hretries' = [hretries EXCEPT ![h] = r]
    /\ hudp' = [hudp EXCEPT ![h] = u]

TimerMove(h, p, r, u) ==
    \/ p \in {"done", "failed"}
    \/ /\ p = hphase[h] /\ r = hretries[h] /\ u = hudp[h]
       /\ hblock'[h] = hblock[h] /\ hopts'[h] = hopts[h]
    \/ /\ hphase[h] = "idle" /\ p = "data" /\ r = hretries[h] /\ hblock'[h] = hblock[h]
       /\ \/ u = hudp[h]
          \/ hopts'[h] /\ u = ChangeTimeout(hudp[h], NegotiatedTimeout)
    \/ p = "data" /\ r = 0 /\ u = TimeoutReset(hudp[h])
    \/ /\ hphase[h] = "data" /\ p = "data" /\ r = hretries[h] + 1
       /\ u = IncreaseTimeout(hudp[h])

HandlerTimerStep(h) ==
    /\ \A g \in Handlers : g # h => hblock'[g] = hblock[g] /\ hopts'[g] = hopts[g]
    /\ \E p \in {"idle", "data", "done", "failed"}, r \in Nat, u \in Socket :
          SetTimer(h, p, r, u) /\ TimerMove(h, p, r, u)

\* Whatever a handler does to its timer keeps it in step with its retries.
LEMMA HandlerTimerKept ==
    ASSUME IInv, NEW h \in Handlers, HandlerTimerStep(h),
           \A g \in Handlers :
              HandlerTimer(hphase[g], hblock[g], hopts[g], hretries[g], hudp[g])
    PROVE  \A g \in Handlers :
              HandlerTimer(hphase'[g], hblock'[g], hopts'[g], hretries'[g], hudp'[g])
<1>1. PICK p \in {"idle", "data", "done", "failed"}, r \in Nat, u \in Socket :
             SetTimer(h, p, r, u) /\ TimerMove(h, p, r, u)
  BY DEF HandlerTimerStep
<1>2. /\ hphase \in [Handlers -> {"idle", "data", "done", "failed"}]
      /\ hretries \in [Handlers -> 0 .. MaxRetries] /\ hudp \in [Handlers -> Socket]
  BY DEF IInv, TypeOK
<1> DEFINE v == hudp[h]
           q == hretries[h]
           b == hblock'[h]
           o == hopts'[h]
<1>3. /\ v \in Socket /\ q \in Nat /\ HandlerTimer(hphase[h], hblock[h], hopts[h], q, v)
      /\ NewUdpClient.timeout = 1 /\ NewUdpClient.rcvtimeo = 1
  BY <1>2 DEF NewUdpClient, DefaultTimeout
<1>4. HandlerTimer(p, b, o, r, u)
  <2>1. CASE p \in {"done", "failed"}
    BY <2>1 DEF HandlerTimer
  <2>2. CASE p = hphase[h] /\ r = q /\ u = v /\ b = hblock[h] /\ o = hopts[h]
    BY <1>3, <2>2
  <2>3. CASE /\ hphase[h] = "idle" /\ p = "data" /\ r = q /\ b = hblock[h]
             /\ u = v \/ (o /\ u = ChangeTimeout(v, NegotiatedTimeout))
    <3>1. /\ r = 0 /\ b = 0 /\ u.timeout = 1 /\ Doubled[0] = 1
          /\ u.rcvtimeo = 1 \/ (o /\ u.rcvtimeo = NegotiatedTimeout)
      BY <1>3, <2>3, TimerFacts DEF HandlerTimer
    <3> QED
      BY <2>3, <3>1 DEF HandlerTimer
  <2>4. CASE p = "data" /\ r = 0 /\ u = TimeoutReset(v)
    <3>1. u.timeout = 1 /\ u.rcvtimeo = 1 /\ Doubled[0] = 1
      BY <1>3, <2>4, TimerFacts
    <3> QED
      BY <2>4, <3>1 DEF HandlerTimer
  <2>5. CASE hphase[h] = "data" /\ p = "data" /\ r = q + 1 /\ u = IncreaseTimeout(v)
    <3>1. /\ u.timeout = 2 * v.timeout /\ u.rcvtimeo = 2 * v.timeout
          /\ Doubled[r] = 2 * Doubled[q]
      BY <1>3, <2>5, TimerFacts
    <3>2. v.timeout = Doubled[q]
      BY <1>3, <2>5 DEF HandlerTimer
    <3> QED
      BY <2>5, <3>1, <3>2 DEF HandlerTimer
  <2> QED
    BY <1>1, <2>1, <2>2, <2>3, <2>4, <2>5 DEF TimerMove
<1>5. /\ hphase'[h] = p /\ hretries'[h] = r /\ hudp'[h] = u
      /\ \A g \in Handlers : g # h =>
            /\ hphase'[g] = hphase[g] /\ hretries'[g] = hretries[g]
            /\ hudp'[g] = hudp[g]
  BY <1>1, <1>2 DEF SetTimer
<1> QED
  BY <1>4, <1>5 DEF HandlerTimerStep

\* The handlers' steps, and a failing write, are such, and leave the client alone.
LEMMA HandlerTimerSteps ==
    ASSUME IInv, NEW h \in Handlers,
           HandlerStep(h)
           \/ \E m \in net, code \in WriteErrors : DataNotWritten(h, m, code)
    PROVE  HandlerTimerStep(h) /\ UNCHANGED clientVars
<1> DEFINE q == hretries[h]
           v == hudp[h]
<1>0. /\ hphase \in [Handlers -> {"idle", "data", "done", "failed"}]
      /\ hblock \in [Handlers -> 0 .. Modulus - 1] /\ hopts \in [Handlers -> BOOLEAN]
      /\ hretries \in [Handlers -> 0 .. MaxRetries] /\ hudp \in [Handlers -> Socket]
  BY DEF IInv, TypeOK
<1>1. /\ q \in Nat /\ q + 1 \in Nat /\ v \in Socket /\ IncreaseTimeout(v) \in Socket
      /\ TimeoutReset(v) \in Socket /\ ChangeTimeout(v, NegotiatedTimeout) \in Socket
      /\ 0 \in Nat /\ hphase[h] \in {"idle", "data", "done", "failed"}
      /\ hphase = [hphase EXCEPT ![h] = hphase[h]]
      /\ hretries = [hretries EXCEPT ![h] = q]
      /\ hudp = [hudp EXCEPT ![h] = v]
  <2>1. v \in Socket /\ NegotiatedTimeout \in Nat
    BY <1>0, TimeoutAssumption
  <2>2. /\ IncreaseTimeout(v) \in Socket /\ TimeoutReset(v) \in Socket
        /\ ChangeTimeout(v, NegotiatedTimeout) \in Socket
    <3> HIDE DEF v
    <3> QED
      BY <2>1, SocketType
  <2>3. /\ hphase = [hphase EXCEPT ![h] = hphase[h]]
        /\ hretries = [hretries EXCEPT ![h] = q]
        /\ hudp = [hudp EXCEPT ![h] = v]
    BY <1>0
  <2>4. q \in Nat /\ q + 1 \in Nat /\ hphase[h] \in {"idle", "data", "done", "failed"}
    BY <1>0
  <2> QED
    BY <2>1, <2>2, <2>3, <2>4
<1>2. /\ UNCHANGED clientVars
      /\ \A g \in Handlers : g # h => hblock'[g] = hblock[g] /\ hopts'[g] = hopts[g]
  BY <1>0 DEF HandlerStep, DataNotWritten, AcceptWrq, RefuseIntro, StrangerToHandler,
     HandlerTooManyStrangers, AcceptData, OldData, FutureData, ErrorToHandler,
     OtherToHandler, HandlerTimeout, HandlerRetry, HandlerFails
<1>3. ASSUME NEW p \in {"idle", "data", "done", "failed"}, NEW r \in Nat, NEW u \in Socket,
             SetTimer(h, p, r, u), TimerMove(h, p, r, u)
      PROVE  HandlerTimerStep(h)
  BY <1>2, <1>3 DEF HandlerTimerStep
<1>4. CASE \/ \E m \in net : RefuseIntro(h, m) \/ FutureData(h, m) \/ ErrorToHandler(h, m)
           \/ \E m \in net, code \in WriteErrors : DataNotWritten(h, m, code)
  <2>1. hphase' = [hphase EXCEPT ![h] = "failed"] /\ UNCHANGED <<hretries, hudp>>
    BY <1>4 DEF RefuseIntro, FutureData, ErrorToHandler, DataNotWritten, HandlerFails
  <2>2. SetTimer(h, "failed", q, v) /\ TimerMove(h, "failed", q, v)
    BY <1>1, <2>1 DEF SetTimer, TimerMove
  <2> QED
    BY <1>1, <1>2, <1>3, <2>2
<1>5. CASE \E m \in net : StrangerToHandler(h, m) \/ OtherToHandler(h, m)
  <2>1. UNCHANGED <<hphase, hblock, hopts, hretries, hudp>>
    BY <1>5 DEF StrangerToHandler, OtherToHandler
  <2>2. SetTimer(h, hphase[h], q, v) /\ TimerMove(h, hphase[h], q, v)
    BY <1>1, <2>1 DEF SetTimer, TimerMove
  <2> QED
    BY <1>1, <1>2, <1>3, <2>2
<1>6. CASE \E m \in net : AcceptWrq(h, m)
  <2>1. PICK w \in {v, ChangeTimeout(v, NegotiatedTimeout)} :
               /\ hudp' = [hudp EXCEPT ![h] = w]
               /\ w = v \/ (hopts'[h] /\ w = ChangeTimeout(v, NegotiatedTimeout))
    BY <1>0, <1>6 DEF AcceptWrq
  <2>2. /\ hphase[h] = "idle" /\ hphase' = [hphase EXCEPT ![h] = "data"]
        /\ UNCHANGED <<hblock, hretries>>
    BY <1>6 DEF AcceptWrq, Intro
  <2>3. w \in Socket
    BY <1>1, <2>1
  <2>4. SetTimer(h, "data", q, w) /\ TimerMove(h, "data", q, w)
    BY <1>1, <2>1, <2>2 DEF SetTimer, TimerMove
  <2> QED
    BY <1>1, <1>2, <1>3, <2>3, <2>4
<1>7. CASE \E m \in net : AcceptData(h, m)
  <2>1. PICK p \in {"done", "data"} : hphase' = [hphase EXCEPT ![h] = p]
    BY <1>7 DEF AcceptData, FromClient, HWaiting
  <2>2. SetTimer(h, p, 0, TimeoutReset(v))
    BY <1>7, <2>1 DEF AcceptData, SetTimer
  <2>3. TimerMove(h, p, 0, TimeoutReset(v))
    BY <2>1 DEF TimerMove
  <2> QED
    BY <1>1, <1>2, <1>3, <2>2, <2>3
\* A retry, up to the limit and at it.
<1>8. CASE HandlerTimeout(h)
           \/ \E m \in net : HandlerTooManyStrangers(h, m) \/ OldData(h, m)
  <2> DEFINE w == IncreaseTimeout(v)
  <2>1. hphase[h] = "data" /\ \E in : HandlerRetry(h, in)
    BY <1>8 DEF HandlerTimeout, HandlerTooManyStrangers, OldData, FromClient, HWaiting
  <2>2. PICK p \in {"data", "failed"} : SetTimer(h, p, q + 1, w)
    BY <1>1, <2>1 DEF HandlerRetry, HandlerFails, SetTimer
  <2>3. TimerMove(h, p, q + 1, w)
    BY <2>1 DEF TimerMove
  <2> QED
    BY <1>1, <1>2, <1>3, <2>2, <2>3
<1> QED
  BY <1>2, <1>4, <1>5, <1>6, <1>7, <1>8 DEF HandlerStep

\* New sockets wait for the default timeout, the client's for the one it asks
\* for when it has options.
LEMMA InitTimers == Init => TimerInv
<1> SUFFICES ASSUME Init PROVE TimerInv
  OBVIOUS
<1>1. ClientTimer(phase, sent, retries, udp)
  BY DEF Init, ClientTimer, NewUdpClient, ChangeTimeout, DefaultTimeout
<1>2. \A h \in Handlers :
         HandlerTimer(hphase[h], hblock[h], hopts[h], hretries[h], hudp[h])
  BY DEF Init, HandlerTimer
<1> QED
  BY <1>1, <1>2, TimerParts

\* Every step keeps all timers right.
LEMMA NextTimers == IInv /\ TimerInv /\ [Next]_vars => TimerInv'
<1> SUFFICES ASSUME IInv, TimerInv, [Next]_vars PROVE TimerInv'
  OBVIOUS
<1>1. /\ ClientTimer(phase, sent, retries, udp)
      /\ \A h \in Handlers :
            HandlerTimer(hphase[h], hblock[h], hopts[h], hretries[h], hudp[h])
  BY TimerParts
<1>2. CASE ClientStep \/ CheckForSigintWRQ \/ SigintInReceive
  <2>1. ClientTimerStep /\ UNCHANGED <<hphase, hblock, hopts, hretries, hudp>>
    BY <1>2, ClientTimerSteps DEF handlerVars
  <2> QED
    BY <1>1, <2>1, ClientTimerKept, TimerPartsNext
<1>3. ASSUME NEW h \in Handlers,
             HandlerStep(h)
             \/ \E m \in net, code \in WriteErrors : DataNotWritten(h, m, code)
      PROVE  TimerInv'
  <2>1. HandlerTimerStep(h) /\ UNCHANGED <<phase, sent, retries, udp>>
    BY <1>3, HandlerTimerSteps DEF clientVars
  <2> QED
    BY <1>1, <2>1, HandlerTimerKept, TimerPartsNext
<1>4. CASE UNCHANGED vars \/ \E m \in net : Lose(m)
  <2>1. UNCHANGED <<phase, sent, retries, udp,
                  hphase, hblock, hopts, hretries, hudp>>
    BY <1>4 DEF vars, Lose, clientVars, handlerVars
  <2> QED
    BY <1>1, <2>1, TimerPartsNext
<1> QED
  BY <1>2, <1>3, <1>4 DEF Next, Fault

\* timeout_ is what the retries of the current block have made it, on both
\* sides, and every wait for an ACK or for DATA is that long or as long as was
\* negotiated, and ends: the doubling starts again with every block (UdpClient.cpp:73 and 78,
\* Write.cpp:97, 177 and 189, ClientHandler.cpp:340, 349, 409 and 421).
THEOREM BackoffInStep == Spec => []Backoff
<1>1. Init => TimerInv
  BY InitTimers
<1>2. IInv /\ TimerInv /\ [Next]_vars => TimerInv'
  BY NextTimers
<1>3. IInv /\ TimerInv => Backoff
  <2> SUFFICES ASSUME IInv, TimerInv PROVE Backoff
    OBVIOUS
  <2>1. retries \in Nat /\ (\A h \in Handlers : hretries[h] \in Nat)
    <3>1. retries \in 0 .. MaxRetries /\ hretries \in [Handlers -> 0 .. MaxRetries]
      BY DEF IInv, TypeOK
    <3> QED
      BY <3>1
  <2>2. 0 # NegotiatedTimeout
    BY TimeoutAssumption
  <2>3. Doubled[retries] # 0 /\ \A h \in Handlers : Doubled[hretries[h]] # 0
    BY <2>1, DoubledFacts DEF DefaultTimeout
  <2>4. phase = "transfer" =>
          /\ udp.timeout = Doubled[retries]
          /\ udp.rcvtimeo \in {udp.timeout, NegotiatedTimeout} \ {0}
          /\ ~options /\ sent > 1 => udp.rcvtimeo = udp.timeout
    BY <2>3, <2>2 DEF TimerInv
  <2>5. \A h \in Handlers : HWaiting(h) =>
          /\ hudp[h].timeout = Doubled[hretries[h]]
          /\ hudp[h].rcvtimeo \in {hudp[h].timeout, NegotiatedTimeout} \ {0}
          /\ ~hopts[h] => hudp[h].rcvtimeo = hudp[h].timeout
    BY <2>3, <2>2 DEF TimerInv
  <2> QED
    BY <2>4, <2>5 DEF Backoff
<1> QED
  BY <1>1, <1>2, <1>3, Invariance, PTL DEF Spec
=============================================================================
