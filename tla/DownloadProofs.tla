--------------------------- MODULE DownloadProofs ---------------------------
(***************************************************************************)
(* Proofs about module Download, for every file size, every number of block *)
(* numbers and of handlers, every retry limit, every network and every set  *)
(* of left-over datagrams that Download's assumptions admit.                *)
(***************************************************************************)
EXTENDS Download, TftpPacketsProofs

USE ModulusAssumption, HandlersAssumption, NBlocksAssumption,
    MaxRetriesAssumption

-----------------------------------------------------------------------------
(* The inductive invariant.                                                 *)

\* Whatever the network does, a step adds only the packets it sends.
LEMMA ExchangeAdds ==
    ASSUME NEW in, NEW out, Exchange(in, out)
    PROVE  net' \subseteq net \cup out
BY DEF Exchange

\* Initially only left-over datagrams are in flight.
LEMMA InitInv == Init => IInv
<1> SUFFICES ASSUME Init PROVE IInv
  OBVIOUS
<1>1. TypeOK
  <2>1. udp \in Socket
    BY NewSocket, SocketType, TimeoutAssumption DEF Init
  <2> QED
    BY <2>1, NewSocket, LateAssumption, NetworkAssumption
       DEF Init, TypeOK, ClientPhases, HandlerPhases, BlockNumbers
<1>2. NetInv
  BY LateAssumption DEF Init, NetInv, PacketInv
<1>3. Prefix /\ ClientInv /\ HandlerInv /\ Lockstep
  BY DEF Init, Prefix, ClientInv, Waiting, HandlerInv, HWaiting, Lockstep
<1> QED
  BY <1>1, <1>2, <1>3 DEF IInv

\* The datagrams in flight stay what they are when a step only moves the two
\* sides forward and what it sends is right.
LEMMA NetStep ==
    ASSUME IInv, NEW out,
           net' \subseteq net \cup out,
           out \subseteq Packets,
           \A m \in out : PacketInv(m)',
           block_number' \in Nat, hblock' \in [Handlers -> Nat],
           \A h \in Handlers : hblock[h] <= hblock'[h],
           phase \notin {"start", "request"} =>
              /\ server_port' = server_port
              /\ block_number <= block_number'
              /\ phase' \notin {"start", "request"}
    PROVE  net' \subseteq Packets /\ NetInv'
<1>1. net' \subseteq Packets
  BY DEF IInv, TypeOK
<1> SUFFICES ASSUME NEW m \in net PROVE PacketInv(m)'
  BY <1>1 DEF NetInv
<1>2. m \in Packets /\ PacketInv(m)
  BY DEF IInv, TypeOK, NetInv
<1>3. /\ m.op \in {"DATA", "ACK"} => m.blk \in BlockNumbers
      /\ m.op = "DATA" => m.val \in Nat
  BY <1>2, PacketFields
<1> QED
  BY <1>2, <1>3 DEF PacketInv, IInv, TypeOK, BlockNumbers

\* A DATA packet whose number is one of this file's carries that very block,
\* and its handler has come that far.
LEMMA GenuineData ==
    ASSUME IInv, NEW m \in net, m.dst = Client, m.op = "DATA",
           m.blk > 0, m.blk <= NBlocks
    PROVE  /\ m.src \in Handlers
           /\ m.val = m.blk
           /\ m.short <=> m.blk = NBlocks
           /\ m.blk <= hblock[m.src]
<1>1. m \in Packets /\ PacketInv(m)
  BY DEF IInv, TypeOK, NetInv
<1>2. m.blk \in BlockNumbers /\ m.val \in Nat
  BY <1>1, PacketFields
<1>3. m \notin Late
  BY <1>2, LateAssumption DEF BlockNumbers
<1>4. m.val < Modulus
  BY <1>1, <1>2, <1>3, WireFacts DEF PacketInv
<1> QED
  BY <1>1, <1>2, <1>3, <1>4, WireFacts DEF PacketInv

\* A datagram the client receives comes from a handler.
LEMMA SenderIsHandler ==
    ASSUME IInv, NEW m \in net, m.dst = Client
    PROVE  m.src \in Handlers
BY DEF IInv, NetInv, PacketInv

\* What a step of the client must establish; the handlers do not move.
LEMMA ClientChange ==
    ASSUME IInv, NEW out,
           net' \subseteq net \cup out,
           out \subseteq Packets,
           \A m \in out : PacketInv(m)',
           losses' \in 0 .. MaxLoss, source' = source, calm' = calm,
           UNCHANGED handlerVars,
           phase' \in ClientPhases, options' \in BOOLEAN,
           server_port' \in Handlers \cup {Main}, block_number' \in BlockNumbers,
           retries' \in 0 .. MaxRetries, strangers' \in 0 .. MaxRetries,
           udp' \in Socket, file' \in Seq(1 .. NBlocks),
           phase \notin {"start", "request"} =>
              /\ server_port' = server_port
              /\ block_number <= block_number'
              /\ phase' \notin {"start", "request"},
           Prefix', ClientInv', Lockstep'
    PROVE  IInv'
<1>1. net' \subseteq Packets /\ NetInv'
  <2>1. block_number' \in Nat /\ hblock' \in [Handlers -> Nat]
    BY DEF IInv, TypeOK, handlerVars, BlockNumbers
  <2>2. \A h \in Handlers : hblock[h] <= hblock'[h]
    BY DEF IInv, TypeOK, handlerVars
  <2> QED
    BY <2>1, <2>2, NetStep
<1>2. TypeOK'
  BY <1>1 DEF IInv, TypeOK, handlerVars
<1>3. HandlerInv'
  BY DEF IInv, HandlerInv, HWaiting, handlerVars
<1> QED
  BY <1>1, <1>2, <1>3 DEF IInv

\* Read() throws, with an ERROR packet to some port or without.
LEMMA ClientFailsInv ==
    ASSUME IInv, NEW in, NEW out, ClientFails(in, out),
           NEW port \in Endpoints \ {Client}, NEW code \in ErrorCodes,
           out \in {{}, {ClientError(port, code)}},
           options' \in BOOLEAN,
           server_port' \in Handlers \cup {Main}, block_number' \in BlockNumbers,
           retries' \in 0 .. MaxRetries, strangers' \in 0 .. MaxRetries,
           udp' \in Socket, file' = file,
           phase \notin {"start", "request"} =>
              server_port' = server_port /\ block_number <= block_number',
           Lockstep'
    PROVE  IInv'
<1>1. net' \subseteq net \cup out
  BY ExchangeAdds DEF ClientFails
<1>2. Client \in Endpoints
  BY DEF Endpoints
<1>3. out \subseteq Packets /\ \A m \in out : PacketInv(m)'
  BY <1>2, ErrorFields DEF ClientError, PacketInv
<1>4. Prefix'
  BY DEF IInv, Prefix
<1>5. ClientInv'
  BY DEF ClientFails, ClientInv, Waiting
<1>6. losses' \in 0 .. MaxLoss /\ UNCHANGED <<source, calm, handlerVars>>
  BY DEF IInv, TypeOK, ClientFails, envVars
<1>7. phase' = "failed" /\ phase' \in ClientPhases /\ file' \in Seq(1 .. NBlocks)
  BY DEF IInv, TypeOK, ClientFails, ClientPhases
<1> QED
  BY <1>1, <1>3, <1>4, <1>5, <1>6, <1>7, ClientChange

\* The request is sent for the first time.
LEMMA SendRrqInv == ASSUME IInv, SendRrq PROVE IInv'
<1> DEFINE out == {Rrq}
<1>1. net' \subseteq net \cup out
  BY ExchangeAdds DEF SendRrq
<1>2. out \subseteq Packets /\ \A m \in out : PacketInv(m)'
  BY RequestFields DEF Rrq, PacketInv, IInv, TypeOK, Client, Main
<1>3. Prefix' /\ ClientInv' /\ Lockstep'
  BY DEF SendRrq, IInv, TypeOK, Prefix, ClientInv, Waiting, Lockstep,
         handlerVars
<1>4. /\ losses' = losses /\ UNCHANGED <<source, calm, handlerVars>>
      /\ phase = "start" /\ phase' = "request"
      /\ UNCHANGED <<options, server_port, block_number, retries, strangers,
                     udp, file>>
  BY DEF SendRrq, envVars
<1>5. /\ losses' \in 0 .. MaxLoss /\ phase' \in ClientPhases
      /\ options' \in BOOLEAN /\ server_port' \in Handlers \cup {Main}
      /\ block_number' \in BlockNumbers /\ retries' \in 0 .. MaxRetries
      /\ strangers' \in 0 .. MaxRetries /\ udp' \in Socket
      /\ file' \in Seq(1 .. NBlocks)
  BY <1>4 DEF IInv, TypeOK, ClientPhases
<1> QED
  BY <1>1, <1>2, <1>3, <1>4, <1>5, ClientChange

\* The first response ends the program.
LEMMA FirstFailureInv ==
    ASSUME IInv, NEW m \in net, FirstError(m) \/ FirstIllegal(m)
    PROVE  IInv'
<1>1. /\ phase = "request" /\ m.dst = Client /\ server_port' = m.src
      /\ ClientFails({m}, {}) \/
         ClientFails({m}, {ClientError(m.src, "ILLEGAL_OPERATION")})
      /\ UNCHANGED <<options, block_number, retries, strangers, udp, file>>
  BY DEF FirstError, FirstIllegal, FirstResponse
<1>2. m.src \in Handlers
  BY <1>1, SenderIsHandler
<1>3. m.src \in Endpoints \ {Client} /\ "ILLEGAL_OPERATION" \in ErrorCodes
  BY <1>2 DEF Endpoints, ErrorCodes
<1>4. UNCHANGED handlerVars
  BY <1>1 DEF ClientFails
<1>5. Lockstep'
  BY <1>1, <1>2, <1>4 DEF IInv, TypeOK, ClientInv, HandlerInv, Lockstep,
     handlerVars
<1>6. /\ options' \in BOOLEAN /\ server_port' \in Handlers \cup {Main}
      /\ block_number' \in BlockNumbers /\ retries' \in 0 .. MaxRetries
      /\ strangers' \in 0 .. MaxRetries /\ udp' \in Socket
  BY <1>1, <1>2 DEF IInv, TypeOK
<1> QED
  BY <1>1, <1>2, <1>3, <1>5, <1>6, ClientFailsInv

\* Block 1 as the first response.
LEMMA FirstBlockFacts ==
    ASSUME IInv, NEW m \in net, FirstResponse(m), FirstBlock(m)
    PROVE  /\ m.src \in Handlers /\ m.val = 1 /\ 1 <= hblock[m.src]
           /\ m.short <=> NBlocks = 1
           /\ phase = "request" /\ server_port' = m.src
           /\ \A h \in Handlers : hblock[h] <= 1
<1>1. m.blk = 1 /\ m.dst = Client /\ m.op = "DATA" /\ phase = "request"
      /\ server_port' = m.src
  BY DEF FirstResponse, FirstBlock
<1>2. \A h \in Handlers : hblock[h] <= 1
  BY <1>1 DEF IInv, TypeOK, ClientInv, Lockstep
<1> QED
  BY <1>1, <1>2, GenuineData

\* It is written.
LEMMA FirstDataInv == ASSUME IInv, NEW m \in net, FirstData(m) PROVE IInv'
<1> DEFINE out == IF LastPacket(m) THEN {} ELSE {AckPacket(Client, m.src, 1)}
<1>1. /\ FirstResponse(m) /\ FirstBlock(m) /\ options' = FALSE
      /\ udp' = TimeoutReset(udp) /\ file' = Append(file, m.val)
      /\ block_number' = 1 /\ retries' = 0 /\ strangers' = 0
      /\ phase' = IF LastPacket(m) THEN "finish" ELSE "transfer"
      /\ Exchange({m}, out)
      /\ losses' = losses /\ UNCHANGED <<source, calm, handlerVars>>
  BY DEF FirstData, EnterTransfer, envVars
<1>2. /\ m.src \in Handlers /\ m.val = 1 /\ 1 <= hblock[m.src]
      /\ m.short <=> NBlocks = 1
      /\ phase = "request" /\ server_port' = m.src
      /\ \A h \in Handlers : hblock[h] <= 1
  BY <1>1, FirstBlockFacts
<1>3. net' \subseteq net \cup out
  BY <1>1, ExchangeAdds
<1>4. out \subseteq Packets /\ \A a \in out : PacketInv(a)'
  <2>1. Client \in Endpoints /\ m.src \in Endpoints /\ m.src # Client
    BY <1>2 DEF Endpoints
  <2>2. Wire(1) = 1
    BY WireFacts
  <2> QED
    BY <1>1, <1>2, <2>1, <2>2, AckFields DEF PacketInv
<1>5. file' = <<1>> /\ file' \in Seq(1 .. NBlocks)
  BY <1>1, <1>2 DEF IInv, ClientInv
<1>6. Prefix' /\ ClientInv' /\ Lockstep'
  BY <1>1, <1>2, <1>5
     DEF IInv, TypeOK, Prefix, ClientInv, Waiting, Lockstep, LastPacket,
         handlerVars
<1>7. losses' \in 0 .. MaxLoss /\ udp' \in Socket
      /\ block_number' \in BlockNumbers
  BY <1>1, SocketType DEF IInv, TypeOK, BlockNumbers
<1>8. phase' \in ClientPhases /\ phase' \notin {"start", "request"}
  BY <1>1 DEF ClientPhases
<1>9. options' \in BOOLEAN
  BY <1>1, Zenon
<1>10. /\ server_port' \in Handlers \cup {Main}
       /\ retries' \in 0 .. MaxRetries /\ strangers' \in 0 .. MaxRetries
  BY <1>1, <1>2
<1> QED
  BY <1>1, <1>2, <1>3, <1>4, <1>5, <1>6, <1>7, <1>8, <1>9, <1>10,
     ClientChange

\* It cannot be written.
LEMMA FirstDataNotWrittenInv ==
    ASSUME IInv, NEW m \in net, NEW code \in ErrorCodes,
           FirstDataNotWritten(m, code)
    PROVE  IInv'
<1>1. /\ FirstResponse(m) /\ FirstBlock(m) /\ options' = FALSE
      /\ block_number' = 1 /\ ClientFails({m}, {ClientError(m.src, code)})
      /\ UNCHANGED <<retries, strangers, udp, file>>
  BY DEF FirstDataNotWritten
<1>2. /\ m.src \in Handlers /\ 1 <= hblock[m.src]
      /\ phase = "request" /\ server_port' = m.src
      /\ \A h \in Handlers : hblock[h] <= 1
  BY <1>1, FirstBlockFacts
<1>3. m.src \in Endpoints \ {Client} /\ block_number' \in BlockNumbers
  BY <1>1, <1>2 DEF Endpoints, BlockNumbers
<1>4. UNCHANGED handlerVars
  BY <1>1 DEF ClientFails
<1>5. Lockstep'
  BY <1>1, <1>2, <1>4 DEF IInv, TypeOK, Lockstep, handlerVars
<1>6. /\ options' \in BOOLEAN /\ server_port' \in Handlers \cup {Main}
      /\ retries' \in 0 .. MaxRetries
      /\ strangers' \in 0 .. MaxRetries /\ udp' \in Socket
  BY <1>1, <1>2 DEF IInv, TypeOK
<1> QED
  BY <1>1, <1>2, <1>3, <1>5, <1>6, ClientFailsInv

\* An OACK as the first response.
LEMMA FirstOackInv == ASSUME IInv, NEW m \in net, FirstOack(m) PROVE IInv'
<1> DEFINE out == {AckPacket(Client, m.src, 0)}
<1>1. /\ phase = "request" /\ m.dst = Client /\ server_port' = m.src
      /\ udp' = TimeoutReset(ChangeTimeout(udp, NegotiatedTimeout))
      /\ block_number' = 0 /\ retries' = 0 /\ strangers' = 0
      /\ phase' = "transfer"
      /\ Exchange({m}, out)
      /\ losses' = losses /\ UNCHANGED <<source, calm, handlerVars>>
      /\ UNCHANGED <<options, file>>
  BY DEF FirstOack, FirstResponse, EnterTransfer, envVars
<1>2. m.src \in Handlers
  BY <1>1, SenderIsHandler
<1>3. net' \subseteq net \cup out
  BY <1>1, ExchangeAdds
<1>4. out \subseteq Packets /\ \A a \in out : PacketInv(a)'
  <2>1. Client \in Endpoints /\ m.src \in Endpoints /\ m.src # Client
    BY <1>2 DEF Endpoints
  <2>2. Wire(0) = 0
    BY WireFacts
  <2> QED
    BY <1>1, <1>2, <2>1, <2>2, AckFields DEF PacketInv
<1>5. Prefix' /\ ClientInv' /\ Lockstep'
  BY <1>1, <1>2
     DEF IInv, TypeOK, Prefix, ClientInv, Waiting, Lockstep, handlerVars
<1>6. udp' \in Socket
  <2>1. ChangeTimeout(udp, NegotiatedTimeout) \in Socket
    <3>1. udp \in Socket /\ NegotiatedTimeout \in Nat
      BY TimeoutAssumption DEF IInv, TypeOK
    <3> QED
      BY <3>1, SocketType
  <2> QED
    BY <1>1, <2>1, SocketType
<1>7. /\ losses' \in 0 .. MaxLoss /\ phase' \in ClientPhases
      /\ options' \in BOOLEAN /\ server_port' \in Handlers \cup {Main}
      /\ block_number' \in BlockNumbers /\ retries' \in 0 .. MaxRetries
      /\ strangers' \in 0 .. MaxRetries /\ file' \in Seq(1 .. NBlocks)
  BY <1>1, <1>2 DEF IInv, TypeOK, ClientPhases, BlockNumbers
<1> QED
  BY <1>1, <1>2, <1>3, <1>4, <1>5, <1>6, <1>7, ClientChange

\* The packet the client repeats.
LEMMA RepeatedFacts ==
    ASSUME IInv, Waiting, UNCHANGED <<phase, server_port, block_number, hblock>>
    PROVE  Repeated \in Packets /\ \A m \in {Repeated} : PacketInv(m)'
<1>1. CASE phase = "request"
  <2>1. Repeated = RequestPacket("RRQ", options) /\ options \in BOOLEAN
    BY <1>1 DEF Repeated, Rrq, IInv, TypeOK
  <2>2. /\ Repeated \in Packets
        /\ Repeated.op = "RRQ" /\ Repeated.dst = Main
    BY <2>1, RequestFields
  <2> QED
    BY <2>2 DEF PacketInv, Client, Main
<1>2. CASE phase = "transfer"
  <2>1. /\ Client \in Endpoints /\ server_port \in Endpoints
        /\ server_port # Client /\ block_number \in Nat
        /\ block_number < Modulus
    BY <1>2 DEF IInv, TypeOK, ClientInv, Endpoints, BlockNumbers
  <2>2. Wire(block_number) = block_number
    BY <2>1, WireFacts
  <2> QED
    BY <1>2, <2>1, <2>2, AckFields DEF Repeated, PacketInv
<1> QED
  BY <1>1, <1>2 DEF Waiting

\* A retry, or the last one.
LEMMA RetryInv ==
    ASSUME IInv, NEW in, Waiting, Retry(in)
    PROVE  IInv'
<1>1. /\ retries' = retries + 1 /\ strangers' = 0
      /\ udp' = IncreaseTimeout(udp)
      /\ UNCHANGED <<options, server_port, block_number, file>>
  BY DEF Retry
<1>2. retries < MaxRetries
  BY DEF IInv, ClientInv
<1>3. /\ options' \in BOOLEAN /\ server_port' \in Handlers \cup {Main}
      /\ block_number' \in BlockNumbers /\ retries' \in 0 .. MaxRetries
      /\ strangers' \in 0 .. MaxRetries /\ file' \in Seq(1 .. NBlocks)
      /\ block_number <= block_number'
  BY <1>1, <1>2 DEF IInv, TypeOK, BlockNumbers
<1>4. udp' \in Socket
  BY <1>1, SocketType DEF IInv, TypeOK
<1>5. CASE /\ RetriesLeft(retries + 1) /\ Exchange(in, {Repeated})
           /\ UNCHANGED <<phase, envVars, handlerVars>>
  <2> DEFINE out == {Repeated}
  <2>1. net' \subseteq net \cup out
    BY <1>5, ExchangeAdds
  <2>2. out \subseteq Packets /\ \A m \in out : PacketInv(m)'
    BY <1>1, <1>5, RepeatedFacts DEF handlerVars
  <2>3. Prefix' /\ ClientInv' /\ Lockstep'
    BY <1>1, <1>5
       DEF IInv, TypeOK, Prefix, ClientInv, Waiting, Lockstep, RetriesLeft,
           handlerVars
  <2>4. /\ losses' \in 0 .. MaxLoss /\ UNCHANGED <<source, calm>>
        /\ UNCHANGED handlerVars /\ phase' = phase /\ phase' \in ClientPhases
    BY <1>5 DEF IInv, TypeOK, envVars
  <2> QED
    BY <1>1, <1>3, <1>4, <2>1, <2>2, <2>3, <2>4, ClientChange
<1>6. CASE ClientFails(in, {ClientError(server_port, "ILLEGAL_OPERATION")})
  <2>1. /\ server_port \in Endpoints \ {Client}
        /\ "ILLEGAL_OPERATION" \in ErrorCodes
    BY DEF IInv, TypeOK, Endpoints, ErrorCodes, Client, Main
  <2>2. Lockstep'
    BY <1>1, <1>6 DEF IInv, Lockstep, ClientFails, handlerVars
  <2> QED
    BY <1>1, <1>3, <1>4, <1>6, <2>1, <2>2, ClientFailsInv
<1> QED
  BY <1>5, <1>6 DEF Retry

\* The three ways to a retry.
LEMMA RetriesInv ==
    ASSUME IInv,
           \/ ClientTimeout
           \/ \E m \in net : TooManyStrangers(m) \/ OldData(m)
    PROVE  IInv'
<1>1. Waiting /\ \E in : Retry(in)
  BY DEF ClientTimeout, TooManyStrangers, OldData, FromServer, Waiting
<1> QED
  BY <1>1, RetryInv

\* Somebody else's datagram is answered and forgotten.
LEMMA StrangerToClientInv ==
    ASSUME IInv, NEW m \in net, StrangerToClient(m) PROVE IInv'
<1> DEFINE out == {ClientError(m.src, "UNKNOWN_TID")}
<1>1. /\ phase = "transfer" /\ m.dst = Client
      /\ strangers < MaxRetries /\ strangers' = strangers + 1
      /\ Exchange({m}, out)
      /\ losses' = losses /\ UNCHANGED <<source, calm, handlerVars>>
      /\ UNCHANGED <<phase, options, server_port, block_number, retries, udp,
                     file>>
  BY DEF StrangerToClient, envVars
<1>2. net' \subseteq net \cup out
  BY <1>1, ExchangeAdds
<1>3. out \subseteq Packets /\ \A e \in out : PacketInv(e)'
  <2>1. m.src \in Handlers
    BY <1>1, SenderIsHandler
  <2>2. /\ Client \in Endpoints /\ m.src \in Endpoints /\ m.src # Client
        /\ "UNKNOWN_TID" \in ErrorCodes
    BY <2>1 DEF Endpoints, ErrorCodes
  <2> QED
    BY <2>2, ErrorFields DEF ClientError, PacketInv
<1>4. Prefix' /\ ClientInv' /\ Lockstep'
  BY <1>1 DEF IInv, Prefix, ClientInv, Waiting, Lockstep, handlerVars
<1>5. /\ losses' \in 0 .. MaxLoss /\ phase' \in ClientPhases
      /\ options' \in BOOLEAN /\ server_port' \in Handlers \cup {Main}
      /\ block_number' \in BlockNumbers /\ retries' \in 0 .. MaxRetries
      /\ strangers' \in 0 .. MaxRetries /\ udp' \in Socket
      /\ file' \in Seq(1 .. NBlocks) /\ block_number <= block_number'
  BY <1>1 DEF IInv, TypeOK, BlockNumbers
<1> QED
  BY <1>1, <1>2, <1>3, <1>4, <1>5, ClientChange

\* The block that is due.
LEMMA NextBlockFacts ==
    ASSUME IInv, NEW m \in net, FromServer(m), NextBlock(m)
    PROVE  /\ phase = "transfer" /\ server_port \in Handlers
           /\ block_number \in Nat /\ block_number = Len(file)
           /\ m.val = block_number + 1 /\ block_number + 1 < Modulus
           /\ Wire(block_number + 1) = block_number + 1
           /\ block_number + 1 <= NBlocks
           /\ block_number + 1 <= hblock[server_port]
           /\ m.short <=> block_number + 1 = NBlocks
<1>1. /\ phase = "transfer" /\ m.dst = Client /\ m.op = "DATA"
      /\ m.src = server_port /\ m.blk = block_number + 1
  BY DEF FromServer, NextBlock
<1>2. /\ server_port \in Handlers /\ block_number \in Nat
      /\ block_number = Len(file) /\ block_number + 1 <= NBlocks
  BY <1>1 DEF IInv, TypeOK, ClientInv, BlockNumbers
<1>3. m \in Packets
  BY DEF IInv, TypeOK
<1>4. m.blk \in BlockNumbers
  BY <1>1, <1>3, PacketFields
<1>5. block_number + 1 < Modulus
  BY <1>1, <1>2, <1>4 DEF BlockNumbers
<1> QED
  BY <1>1, <1>2, <1>5, GenuineData, WireFacts

\* It is written.
LEMMA AcceptDataInv == ASSUME IInv, NEW m \in net, AcceptData(m) PROVE IInv'
<1> DEFINE n == block_number + 1
           out == IF LastPacket(m) THEN {}
                  ELSE {AckPacket(Client, server_port, n)}
<1>1. /\ phase = "transfer" /\ server_port \in Handlers
      /\ block_number \in Nat /\ block_number = Len(file)
      /\ m.val = n /\ n < Modulus /\ Wire(n) = n /\ n <= NBlocks
      /\ n <= hblock[server_port]
      /\ m.short <=> n = NBlocks
  BY NextBlockFacts DEF AcceptData
<1>2. /\ m.src = server_port
      /\ udp' = TimeoutReset(udp) /\ file' = Append(file, n)
      /\ block_number' = n /\ retries' = 0 /\ strangers' = 0
      /\ phase' = IF LastPacket(m) THEN "finish" ELSE "transfer"
      /\ Exchange({m}, out)
      /\ losses' = losses /\ UNCHANGED <<source, calm, handlerVars>>
      /\ UNCHANGED <<options, server_port>>
  BY <1>1 DEF AcceptData, FromServer, EnterTransfer, envVars
<1>3. net' \subseteq net \cup out
  BY <1>2, ExchangeAdds
<1>4. out \subseteq Packets /\ \A a \in out : PacketInv(a)'
  <2>1. /\ Client \in Endpoints /\ server_port \in Endpoints
        /\ server_port # Client /\ n \in Nat
    BY <1>1 DEF Endpoints
  <2> QED
    BY <1>1, <1>2, <2>1, AckFields DEF PacketInv
<1>5. file' \in Seq(1 .. NBlocks) /\ Len(file') = n /\ Prefix'
  <2>1. file \in Seq(1 .. NBlocks) /\ n \in 1 .. NBlocks
    BY <1>1 DEF IInv, TypeOK
  <2> QED
    BY <1>1, <1>2, <2>1 DEF IInv, Prefix
<1>6. ClientInv' /\ Lockstep'
  BY <1>1, <1>2, <1>5
     DEF IInv, TypeOK, ClientInv, Waiting, Lockstep, LastPacket, handlerVars
<1>7. udp' \in Socket
  BY <1>2, SocketType DEF IInv, TypeOK
<1>8. /\ losses' \in 0 .. MaxLoss /\ options' \in BOOLEAN
      /\ server_port' \in Handlers \cup {Main}
      /\ block_number' \in BlockNumbers /\ retries' \in 0 .. MaxRetries
      /\ strangers' \in 0 .. MaxRetries /\ block_number <= block_number'
  BY <1>1, <1>2 DEF IInv, TypeOK, BlockNumbers
<1>9. phase' \in ClientPhases /\ phase' \notin {"start", "request"}
  BY <1>2 DEF ClientPhases
<1> QED
  BY <1>1, <1>2, <1>3, <1>4, <1>5, <1>6, <1>7, <1>8, <1>9, ClientChange

\* It cannot be written.
LEMMA DataNotWrittenInv ==
    ASSUME IInv, NEW m \in net, NEW code \in ErrorCodes, DataNotWritten(m, code)
    PROVE  IInv'
<1>1. /\ server_port \in Handlers /\ block_number \in Nat
      /\ block_number + 1 < Modulus
      /\ Wire(block_number + 1) = block_number + 1
      /\ block_number + 1 <= hblock[server_port]
  BY NextBlockFacts DEF DataNotWritten
<1>2. /\ block_number' = block_number + 1
      /\ ClientFails({m}, {ClientError(server_port, code)})
      /\ UNCHANGED <<options, server_port, retries, strangers, udp, file>>
  BY <1>1 DEF DataNotWritten
<1>3. server_port \in Endpoints \ {Client} /\ block_number' \in BlockNumbers
  BY <1>1, <1>2 DEF Endpoints, BlockNumbers
<1>4. Lockstep'
  BY <1>1, <1>2 DEF IInv, TypeOK, Lockstep, ClientFails, handlerVars
<1>5. /\ options' \in BOOLEAN /\ server_port' \in Handlers \cup {Main}
      /\ retries' \in 0 .. MaxRetries /\ strangers' \in 0 .. MaxRetries
      /\ udp' \in Socket /\ block_number <= block_number'
  BY <1>1, <1>2 DEF IInv, TypeOK
<1> QED
  BY <1>2, <1>3, <1>4, <1>5, ClientFailsInv

\* A block from the future, or an ERROR: Read() throws.
LEMMA TransferFailureInv ==
    ASSUME IInv, NEW m \in net, FutureData(m) \/ ServerError(m)
    PROVE  IInv'
<1>1. /\ ClientFails({m}, {}) \/
         ClientFails({m}, {ClientError(server_port, "ILLEGAL_OPERATION")})
      /\ UNCHANGED <<options, server_port, block_number, retries, strangers,
                     udp, file>>
  BY DEF FutureData, ServerError
<1>2. /\ server_port \in Endpoints \ {Client}
      /\ "ILLEGAL_OPERATION" \in ErrorCodes
  BY DEF IInv, TypeOK, Endpoints, ErrorCodes, Client, Main
<1>3. Lockstep'
  BY <1>1 DEF IInv, Lockstep, ClientFails, handlerVars
<1>4. /\ options' \in BOOLEAN /\ server_port' \in Handlers \cup {Main}
      /\ block_number' \in BlockNumbers /\ retries' \in 0 .. MaxRetries
      /\ strangers' \in 0 .. MaxRetries /\ udp' \in Socket
      /\ block_number <= block_number'
  BY <1>1 DEF IInv, TypeOK, BlockNumbers
<1> QED
  BY <1>1, <1>2, <1>3, <1>4, ClientFailsInv

\* The ACK again after a packet that is no answer, or the final ACK.
LEMMA AckAgainInv ==
    ASSUME IInv, FinalAck \/ \E m \in net : OtherToClient(m)
    PROVE  IInv'
<1> DEFINE out == {AckPacket(Client, server_port, block_number)}
<1>1. /\ \E in : Exchange(in, out)
      /\ \/ phase = "transfer" /\ phase' = "transfer"
         \/ phase = "finish" /\ phase' = "done"
      /\ strangers' \in {0, strangers}
      /\ losses' = losses /\ UNCHANGED <<source, calm, handlerVars>>
      /\ UNCHANGED <<options, server_port, block_number, retries, udp, file>>
  BY DEF FinalAck, OtherToClient, FromServer, Repeated, envVars
<1>2. net' \subseteq net \cup out
  BY <1>1, ExchangeAdds
<1>3. out \subseteq Packets /\ \A a \in out : PacketInv(a)'
  <2>1. /\ Client \in Endpoints /\ server_port \in Endpoints
        /\ server_port # Client /\ block_number \in Nat
        /\ block_number < Modulus
    BY <1>1 DEF IInv, TypeOK, ClientInv, Endpoints, BlockNumbers
  <2>2. Wire(block_number) = block_number
    BY <2>1, WireFacts
  <2> QED
    BY <1>1, <2>1, <2>2, AckFields DEF PacketInv
<1>4. Prefix' /\ ClientInv' /\ Lockstep'
  BY <1>1 DEF IInv, Prefix, ClientInv, Waiting, Lockstep, handlerVars
<1>5. /\ losses' \in 0 .. MaxLoss /\ phase' \in ClientPhases
      /\ options' \in BOOLEAN /\ server_port' \in Handlers \cup {Main}
      /\ block_number' \in BlockNumbers /\ retries' \in 0 .. MaxRetries
      /\ strangers' \in 0 .. MaxRetries /\ udp' \in Socket
      /\ file' \in Seq(1 .. NBlocks) /\ block_number <= block_number'
  BY <1>1 DEF IInv, TypeOK, BlockNumbers, ClientPhases
<1> QED
  BY <1>1, <1>2, <1>3, <1>4, <1>5, ClientChange

\* SIGINT, seen by a check of the flag or by recvfrom.
LEMMA SigintInv ==
    ASSUME IInv, CheckForSigintRRQ \/ SigintInReceive
    PROVE  IInv'
<1> DEFINE out == {ClientError(server_port, "NOT_DEFINED")}
<1>1. /\ phase' \in {"interrupted", "eintr"}
      /\ file' \in {file, <<>>}
      /\ losses' = losses /\ UNCHANGED <<source, calm, handlerVars>>
      /\ UNCHANGED <<options, server_port, block_number, retries, strangers,
                     udp>>
  BY DEF CheckForSigintRRQ, SigintInReceive, envVars
<1>2. net' \subseteq net \cup out
  BY ExchangeAdds DEF CheckForSigintRRQ, SigintInReceive
<1>3. out \subseteq Packets /\ \A e \in out : PacketInv(e)'
  <2>1. /\ Client \in Endpoints /\ server_port \in Endpoints
        /\ server_port # Client /\ "NOT_DEFINED" \in ErrorCodes
    BY DEF IInv, TypeOK, Endpoints, ErrorCodes, Client, Main
  <2> QED
    BY <2>1, ErrorFields DEF ClientError, PacketInv
<1>4. Prefix' /\ ClientInv' /\ Lockstep'
  BY <1>1 DEF IInv, Prefix, ClientInv, Waiting, Lockstep, handlerVars
<1>5. /\ losses' \in 0 .. MaxLoss /\ phase' \in ClientPhases
      /\ options' \in BOOLEAN /\ server_port' \in Handlers \cup {Main}
      /\ block_number' \in BlockNumbers /\ retries' \in 0 .. MaxRetries
      /\ strangers' \in 0 .. MaxRetries /\ udp' \in Socket
      /\ block_number <= block_number'
      /\ phase' \notin {"start", "request"}
  BY <1>1 DEF IInv, TypeOK, BlockNumbers, ClientPhases
<1>6. file' \in Seq(1 .. NBlocks)
  <2>1. file \in Seq(1 .. NBlocks)
    BY DEF IInv, TypeOK
  <2>2. <<>> \in Seq(1 .. NBlocks)
    OBVIOUS
  <2> QED
    BY <1>1, <2>1, <2>2
<1> QED
  BY <1>1, <1>2, <1>3, <1>4, <1>5, <1>6, ClientChange

\* The network drops a datagram.
LEMMA LoseInv == ASSUME IInv, NEW m \in net, Lose(m) PROVE IInv'
<1>1. /\ net' \subseteq net /\ losses' \in 0 .. MaxLoss /\ UNCHANGED <<source, calm>>
      /\ UNCHANGED <<clientVars, handlerVars>>
  BY NetworkAssumption DEF Lose, IInv, TypeOK
<1>2. TypeOK'
  BY <1>1 DEF IInv, TypeOK, clientVars, handlerVars
<1>3. NetInv'
  BY <1>1 DEF IInv, NetInv, PacketInv, clientVars, handlerVars
<1>4. Prefix' /\ ClientInv' /\ HandlerInv' /\ Lockstep'
  BY <1>1 DEF IInv, Prefix, ClientInv, Waiting, HandlerInv, HWaiting,
              Lockstep, clientVars, handlerVars
<1> QED
  BY <1>2, <1>3, <1>4 DEF IInv

-----------------------------------------------------------------------------
(* The handlers.                                                            *)

\* What a step of one handler must establish; the client does not move.
LEMMA HandlerChange ==
    ASSUME IInv, NEW h \in Handlers, NEW out,
           net' \subseteq net \cup out,
           out \subseteq Packets,
           \A m \in out : PacketInv(m)',
           UNCHANGED <<losses, source, calm, clientVars>>,
           NEW p \in HandlerPhases, hphase' = [hphase EXCEPT ![h] = p],
           NEW b \in 0 .. Modulus, hblock' = [hblock EXCEPT ![h] = b],
           NEW r \in 0 .. MaxRetries, hretries' = [hretries EXCEPT ![h] = r],
           NEW s \in 0 .. MaxRetries,
           hstrangers' = [hstrangers EXCEPT ![h] = s],
           NEW u \in Socket, hudp' = [hudp EXCEPT ![h] = u],
           hblock[h] <= b, b <= NBlocks,
           p \in {"idle", "oack"} => b = 0,
           p = "data" => b > 0,
           p = "done" => b = NBlocks,
           p \in {"idle", "oack", "data"} => r < MaxRetries,
           b > 1 => server_port = h /\ b <= block_number + 1
    PROVE  IInv'
<1>1. /\ hphase \in [Handlers -> HandlerPhases]
      /\ hblock \in [Handlers -> 0 .. Modulus]
      /\ hretries \in [Handlers -> 0 .. MaxRetries]
      /\ hstrangers \in [Handlers -> 0 .. MaxRetries]
      /\ hudp \in [Handlers -> Socket]
      /\ block_number \in Nat
  BY DEF IInv, TypeOK, BlockNumbers
<1>2. /\ hphase' \in [Handlers -> HandlerPhases]
      /\ hblock' \in [Handlers -> 0 .. Modulus]
      /\ hretries' \in [Handlers -> 0 .. MaxRetries]
      /\ hstrangers' \in [Handlers -> 0 .. MaxRetries]
      /\ hudp' \in [Handlers -> Socket]
  BY <1>1
<1>3. /\ hphase'[h] = p /\ hblock'[h] = b /\ hretries'[h] = r
      /\ \A g \in Handlers \ {h} :
            /\ hphase'[g] = hphase[g] /\ hblock'[g] = hblock[g]
            /\ hretries'[g] = hretries[g]
  BY <1>1
<1>4. net' \subseteq Packets /\ NetInv'
  <2>1. block_number' \in Nat /\ hblock' \in [Handlers -> Nat]
    BY <1>1, <1>2 DEF clientVars
  <2>2. \A g \in Handlers : hblock[g] <= hblock'[g]
    BY <1>1, <1>3
  <2>3. phase \notin {"start", "request"} =>
           /\ server_port' = server_port /\ block_number <= block_number'
           /\ phase' \notin {"start", "request"}
    BY <1>1 DEF clientVars
  <2> QED
    BY <2>1, <2>2, <2>3, NetStep
<1>5. TypeOK'
  BY <1>2, <1>4 DEF IInv, TypeOK, clientVars
<1>6. Prefix' /\ ClientInv'
  BY DEF IInv, Prefix, ClientInv, Waiting, clientVars
<1>7. HandlerInv'
  BY <1>1, <1>3 DEF IInv, HandlerInv, HWaiting
<1>8. Lockstep'
  BY <1>1, <1>3 DEF IInv, Lockstep, clientVars
<1> QED
  BY <1>4, <1>5, <1>6, <1>7, <1>8 DEF IInv

\* The state of one handler.
LEMMA HandlerFacts ==
    ASSUME IInv, NEW h \in Handlers
    PROVE  /\ hphase[h] \in HandlerPhases
           /\ hblock[h] \in 0 .. Modulus /\ hblock[h] <= NBlocks
           /\ hretries[h] \in 0 .. MaxRetries
           /\ hstrangers[h] \in 0 .. MaxRetries /\ hudp[h] \in Socket
           /\ hphase[h] \in {"idle", "oack"} => hblock[h] = 0
           /\ hphase[h] = "data" => hblock[h] > 0
           /\ hphase[h] = "done" => hblock[h] = NBlocks
           /\ hphase[h] \in {"idle", "oack", "data"} => hretries[h] < MaxRetries
           /\ hblock[h] > 1 =>
                 server_port = h /\ hblock[h] <= block_number + 1
           /\ hphase = [hphase EXCEPT ![h] = hphase[h]]
           /\ hblock = [hblock EXCEPT ![h] = hblock[h]]
           /\ hretries = [hretries EXCEPT ![h] = hretries[h]]
           /\ hstrangers = [hstrangers EXCEPT ![h] = hstrangers[h]]
           /\ hudp = [hudp EXCEPT ![h] = hudp[h]]
BY DEF IInv, TypeOK, HandlerInv, HWaiting, Lockstep

\* An ERROR packet of a handler, to the client or to a stranger.
LEMMA HandlerErrorFacts ==
    ASSUME NEW h \in Handlers, NEW dst \in Endpoints, NEW code \in ErrorCodes
    PROVE  /\ ErrorPacket(h, dst, code) \in Packets
           /\ \A m \in {ErrorPacket(h, dst, code)} : PacketInv(m)'
<1>1. h \in Endpoints
  BY DEF Endpoints
<1>2. LET m == ErrorPacket(h, dst, code) IN
      m \in Packets /\ m.op = "ERROR" /\ m.src = h
  BY <1>1, ErrorFields
<1> QED
  BY <1>2 DEF PacketInv

\* A handler that stays where it is in the file, whatever it does to its retry
\* count and timer, with an ERROR packet or without.
LEMMA HandlerStays ==
    ASSUME IInv, NEW h \in Handlers, NEW in, NEW out, Exchange(in, out),
           NEW dst \in Endpoints, NEW code \in ErrorCodes,
           out \in {{}, {ErrorPacket(h, dst, code)}},
           UNCHANGED <<envVars, clientVars, hblock>>,
           NEW p \in HandlerPhases, hphase' = [hphase EXCEPT ![h] = p],
           NEW r \in 0 .. MaxRetries, hretries' = [hretries EXCEPT ![h] = r],
           NEW s \in 0 .. MaxRetries,
           hstrangers' = [hstrangers EXCEPT ![h] = s],
           NEW u \in Socket, hudp' = [hudp EXCEPT ![h] = u],
           \/ p = "failed"
           \/ p = hphase[h] /\ r < MaxRetries
           \/ p = "done" /\ hblock[h] = NBlocks
    PROVE  IInv'
<1>1. net' \subseteq net \cup out
  BY ExchangeAdds
<1>2. out \subseteq Packets /\ \A m \in out : PacketInv(m)'
  BY HandlerErrorFacts
<1>3. UNCHANGED <<losses, source, calm, clientVars>>
  BY DEF envVars
<1> DEFINE b == hblock[h]
<1>4. /\ b \in 0 .. Modulus /\ hblock' = [hblock EXCEPT ![h] = b]
      /\ hblock[h] <= b /\ b <= NBlocks
      /\ b > 1 => server_port = h /\ b <= block_number + 1
  BY HandlerFacts
<1>5. /\ p \in {"idle", "oack"} => b = 0
      /\ p = "data" => b > 0
      /\ p = "done" => b = NBlocks
      /\ p \in {"idle", "oack", "data"} => r < MaxRetries
  BY HandlerFacts
<1> HIDE DEF b
<1> QED
  BY <1>1, <1>2, <1>3, <1>4, <1>5, HandlerChange

\* A handler ends: refused, illegal, an ERROR received, or ReadFile throws.
LEMMA HandlerFailsInv ==
    ASSUME IInv, NEW h \in Handlers,
           NEW in, NEW code \in ErrorCodes,
           \/ HandlerEnds(h, "failed", in, {HandlerError(h, code)})
           \/ HandlerEnds(h, "failed", in, {}),
           UNCHANGED <<hblock, hretries, hstrangers, hudp>>
    PROVE  IInv'
<1>1. /\ hretries[h] \in 0 .. MaxRetries /\ hstrangers[h] \in 0 .. MaxRetries
      /\ hudp[h] \in Socket
      /\ hretries' = [hretries EXCEPT ![h] = hretries[h]]
      /\ hstrangers' = [hstrangers EXCEPT ![h] = hstrangers[h]]
      /\ hudp' = [hudp EXCEPT ![h] = hudp[h]]
  BY HandlerFacts
<1>2. Client \in Endpoints /\ "failed" \in HandlerPhases
  BY DEF Endpoints, HandlerPhases
<1>3. PICK out \in {{}, {ErrorPacket(h, Client, code)}} :
         HandlerEnds(h, "failed", in, out)
  BY DEF HandlerError
<1>4. /\ Exchange(in, out) /\ hphase' = [hphase EXCEPT ![h] = "failed"]
      /\ UNCHANGED <<envVars, clientVars, hblock>>
  BY <1>3 DEF HandlerEnds
<1> QED
  BY <1>1, <1>2, <1>3, <1>4, HandlerStays

\* A retry of a handler, or its last.
LEMMA HandlerRetryInv ==
    ASSUME IInv, NEW h \in Handlers, HWaiting(h), NEW in, HandlerRetry(h, in),
           hudp' \in {hudp, [hudp EXCEPT ![h] = IncreaseTimeout(hudp[h])]}
    PROVE  IInv'
<1> DEFINE r == hretries[h] + 1
<1>1. /\ hphase[h] \in HandlerPhases /\ hudp[h] \in Socket
      /\ hudp = [hudp EXCEPT ![h] = hudp[h]]
      /\ hphase = [hphase EXCEPT ![h] = hphase[h]]
  BY HandlerFacts
<1>2. r \in 0 .. MaxRetries /\ 0 \in 0 .. MaxRetries
  BY HandlerFacts DEF HWaiting
<1>3. /\ hretries' = [hretries EXCEPT ![h] = r]
      /\ hstrangers' = [hstrangers EXCEPT ![h] = 0] /\ hblock' = hblock
  BY DEF HandlerRetry
<1>4. PICK u \in Socket : hudp' = [hudp EXCEPT ![h] = u]
  BY <1>1, SocketType
<1>5. Client \in Endpoints /\ "ILLEGAL_OPERATION" \in ErrorCodes
  BY DEF Endpoints, ErrorCodes
<1>6. "failed" \in HandlerPhases /\ "done" \in HandlerPhases
  BY DEF HandlerPhases
<1>7. PICK p \in HandlerPhases,
           out \in {{}, {ErrorPacket(h, Client, "ILLEGAL_OPERATION")}} :
         /\ hphase' = [hphase EXCEPT ![h] = p] /\ Exchange(in, out)
         /\ UNCHANGED <<envVars, clientVars>>
         /\ \/ p = "failed"
            \/ p = hphase[h] /\ r < MaxRetries
            \/ p = "done" /\ hblock[h] = NBlocks
  <2>1. CASE /\ RetriesLeft(r) /\ Exchange(in, {})
             /\ UNCHANGED <<envVars, clientVars, hphase>>
    BY <1>1, <2>1 DEF RetriesLeft
  <2>2. CASE GiveUp(h, in)
    BY <1>6, <2>2 DEF GiveUp, HandlerEnds, HandlerError
  <2> QED
    BY <2>1, <2>2 DEF HandlerRetry
<1> HIDE DEF r
<1> QED
  BY <1>2, <1>3, <1>4, <1>5, <1>7, HandlerStays

\* The four ways to a retry.
LEMMA HandlerRetriesInv ==
    ASSUME IInv, NEW h \in Handlers,
           \/ HandlerTimeout(h)
           \/ \E m \in net : \/ HandlerTooManyStrangers(h, m) \/ RrqAgain(h, m)
                             \/ OldAck(h, m)
    PROVE  IInv'
<1>1. /\ HWaiting(h) /\ \E in : HandlerRetry(h, in)
      /\ hudp' \in {hudp, [hudp EXCEPT ![h] = IncreaseTimeout(hudp[h])]}
  BY DEF HandlerTimeout, HandlerTooManyStrangers, RrqAgain, OldAck, FromClient
<1> QED
  BY <1>1, HandlerRetryInv

\* A handler is told off by nobody it serves.
LEMMA HandlerIdlesInv ==
    ASSUME IInv, NEW h \in Handlers, NEW m \in net,
           StrangerToHandler(h, m) \/ OtherToHandler(h, m)
    PROVE  IInv'
<1>1. /\ hretries[h] \in 0 .. MaxRetries /\ hudp[h] \in Socket
      /\ hphase[h] \in HandlerPhases
      /\ hstrangers[h] \in 0 .. MaxRetries
      /\ hphase = [hphase EXCEPT ![h] = hphase[h]]
      /\ hretries = [hretries EXCEPT ![h] = hretries[h]]
      /\ hudp = [hudp EXCEPT ![h] = hudp[h]]
  BY HandlerFacts
<1>2. HWaiting(h) /\ hretries[h] < MaxRetries
  BY HandlerFacts
     DEF StrangerToHandler, OtherToHandler, FromClient, HWaiting
<1>3. PICK s \in 0 .. MaxRetries : hstrangers' = [hstrangers EXCEPT ![h] = s]
  BY <1>1 DEF StrangerToHandler, OtherToHandler
<1>4. m.src \in Endpoints /\ "UNKNOWN_TID" \in ErrorCodes
  <2>1. m \in Packets
    BY DEF IInv, TypeOK
  <2> QED
    BY <2>1, PacketFields DEF ErrorCodes
<1>5. PICK out \in {{}, {ErrorPacket(h, m.src, "UNKNOWN_TID")}} :
         Exchange({m}, out)
  BY DEF StrangerToHandler, OtherToHandler
<1>6. UNCHANGED <<envVars, clientVars, hphase, hblock, hretries, hudp>>
  BY DEF StrangerToHandler, OtherToHandler
<1> QED
  BY <1>1, <1>2, <1>3, <1>4, <1>5, <1>6, HandlerStays

\* A handler ends without a retry.
LEMMA HandlerEndsInv ==
    ASSUME IInv, NEW h \in Handlers, NEW m \in net,
           \/ RefuseIntro(h, m) \/ IllegalToHandler(h, m)
           \/ ErrorToHandler(h, m) \/ ReadFails(h, m)
    PROVE  IInv'
<1>1. /\ UNCHANGED <<hblock, hretries, hstrangers, hudp>>
      /\ \E code \in ErrorCodes :
            \/ HandlerEnds(h, "failed", {m}, {HandlerError(h, code)})
            \/ HandlerEnds(h, "failed", {m}, {})
  BY DEF RefuseIntro, IllegalToHandler, ErrorToHandler, ReadFails, ErrorCodes
<1> QED
  BY <1>1, HandlerFailsInv

\* The last block is acknowledged.
LEMMA LastBlockAckedInv ==
    ASSUME IInv, NEW h \in Handlers, NEW m \in net, LastBlockAcked(h, m)
    PROVE  IInv'
<1>1. /\ hretries[h] \in 0 .. MaxRetries /\ hudp[h] \in Socket
      /\ hstrangers[h] \in 0 .. MaxRetries
      /\ hretries = [hretries EXCEPT ![h] = hretries[h]]
      /\ hstrangers = [hstrangers EXCEPT ![h] = hstrangers[h]]
  BY HandlerFacts
<1>2. /\ hblock[h] = NBlocks /\ hphase' = [hphase EXCEPT ![h] = "done"]
      /\ Exchange({m}, {}) /\ UNCHANGED <<envVars, clientVars>>
      /\ hudp' = [hudp EXCEPT ![h] = TimeoutReset(hudp[h])]
      /\ UNCHANGED <<hblock, hretries, hstrangers>>
  BY DEF LastBlockAcked, HandlerEnds
<1>3. TimeoutReset(hudp[h]) \in Socket
  BY <1>1, SocketType
<1>4. /\ Client \in Endpoints /\ "NOT_DEFINED" \in ErrorCodes
      /\ "done" \in HandlerPhases
  BY DEF Endpoints, ErrorCodes, HandlerPhases
<1> QED
  BY <1>1, <1>2, <1>3, <1>4, HandlerStays

\* An ACK that matches a block of this file was sent by the client for it.
LEMMA GenuineAck ==
    ASSUME IInv, NEW h \in Handlers, NEW m \in net, FromClient(h, m),
           m.op = "ACK", m.blk <= NBlocks
    PROVE  /\ h = server_port /\ m.blk <= block_number
           /\ m.blk \in BlockNumbers /\ block_number \in BlockNumbers
<1>1. m \in Packets /\ PacketInv(m) /\ block_number \in BlockNumbers
  BY DEF IInv, TypeOK, NetInv
<1>2. m.blk \in BlockNumbers
  BY <1>1, PacketFields
<1>3. m \notin Late
  BY <1>2, LateAssumption DEF BlockNumbers
<1> QED
  BY <1>1, <1>2, <1>3 DEF PacketInv, FromClient

\* A handler sends block n.
LEMMA SendBlockInv ==
    ASSUME IInv, NEW h \in Handlers, NEW n \in 1 .. NBlocks, n <= Modulus,
           NEW in, SendBlock(h, n, in),
           NEW u \in Socket, hudp' = [hudp EXCEPT ![h] = u],
           hblock[h] <= n,
           n > 1 => server_port = h /\ n <= block_number + 1
    PROVE  IInv'
<1> DEFINE out == {DataPacket(h, Client, n, NBlocks)}
<1>1. /\ hphase' = [hphase EXCEPT ![h] = "data"]
      /\ hblock' = [hblock EXCEPT ![h] = n]
      /\ hretries' = [hretries EXCEPT ![h] = 0]
      /\ hstrangers' = [hstrangers EXCEPT ![h] = 0]
      /\ Exchange(in, out) /\ UNCHANGED <<losses, source, calm, clientVars>>
  BY DEF SendBlock, envVars
<1>2. net' \subseteq net \cup out
  BY <1>1, ExchangeAdds
<1>3. out \subseteq Packets /\ \A m \in out : PacketInv(m)'
  <2>1. h \in Endpoints /\ Client \in Endpoints /\ h # Client /\ n \in Nat
    BY DEF Endpoints
  <2>2. hblock'[h] = n
    BY <1>1 DEF IInv, TypeOK
  <2>3. LET m == DataPacket(h, Client, n, NBlocks) IN
        /\ m \in Packets
        /\ m.op = "DATA" /\ m.src = h /\ m.dst = Client
        /\ m.blk = Wire(n) /\ m.val = n
        /\ m.short <=> n = NBlocks
    BY <2>1, DataFields
  <2> QED
    BY <2>1, <2>2, <2>3 DEF PacketInv
<1>4. "data" \in HandlerPhases /\ n \in 0 .. Modulus /\ 0 \in 0 .. MaxRetries
      /\ 0 < MaxRetries /\ n <= NBlocks /\ n > 0
  BY DEF HandlerPhases
<1> HIDE DEF out
<1> QED
  BY <1>1, <1>2, <1>3, <1>4, HandlerChange

\* Block 1 is sent, to a client without options or after ACK 0; or block n + 1
\* after ACK n.
LEMMA BlocksInv ==
    ASSUME IInv, NEW h \in Handlers, NEW m \in net,
           \/ ServeWithoutOptions(h, m) \/ OackAcked(h, m) \/ BlockAcked(h, m)
    PROVE  IInv'
<1>1. hudp[h] \in Socket /\ hudp = [hudp EXCEPT ![h] = hudp[h]]
  BY HandlerFacts
<1>2. PICK u \in Socket : hudp' = [hudp EXCEPT ![h] = u]
  <2>1. TimeoutReset(hudp[h]) \in Socket
    BY <1>1, SocketType
  <2> QED
    BY <1>1, <2>1 DEF ServeWithoutOptions, OackAcked, BlockAcked
<1>3. CASE ServeWithoutOptions(h, m) \/ OackAcked(h, m)
  <2> DEFINE n == 1
  <2>1. SendBlock(h, n, {m}) /\ hphase[h] \in {"idle", "oack"}
    BY <1>3 DEF ServeWithoutOptions, OackAcked, Intro
  <2>2. /\ hblock[h] <= n /\ n \in 1 .. NBlocks /\ n <= Modulus
        /\ n > 1 => server_port = h /\ n <= block_number + 1
    BY <2>1, HandlerFacts
  <2> HIDE DEF n
  <2> QED
    BY <1>2, <2>1, <2>2, SendBlockInv
<1>4. CASE BlockAcked(h, m)
  <2> DEFINE n == hblock[h] + 1
  <2>1. /\ FromClient(h, m) /\ m.op = "ACK" /\ m.blk = hblock[h]
        /\ hblock[h] < NBlocks /\ SendBlock(h, n, {m})
    BY <1>4 DEF BlockAcked, AckMatches
  <2>2. hblock[h] \in Nat
    BY HandlerFacts
  <2>3. /\ h = server_port /\ hblock[h] <= block_number
        /\ hblock[h] \in BlockNumbers /\ block_number \in BlockNumbers
    BY <2>1, <2>2, GenuineAck
  <2>4. /\ n \in 1 .. NBlocks /\ n <= Modulus /\ hblock[h] <= n
        /\ n <= block_number + 1
    BY <2>1, <2>2, <2>3 DEF BlockNumbers
  <2> HIDE DEF n
  <2> QED
    BY <1>2, <2>1, <2>3, <2>4, SendBlockInv
<1> QED
  BY <1>3, <1>4

\* An OACK answers a request with options.
LEMMA ServeWithOptionsInv ==
    ASSUME IInv, NEW h \in Handlers, NEW m \in net, ServeWithOptions(h, m)
    PROVE  IInv'
<1> DEFINE out == {OackPacket(h, Client)}
<1>1. /\ hphase[h] = "idle" /\ hphase' = [hphase EXCEPT ![h] = "oack"]
      /\ hudp' = [hudp EXCEPT ![h] = ChangeTimeout(hudp[h], NegotiatedTimeout)]
      /\ Exchange({m}, out) /\ UNCHANGED <<losses, source, calm, clientVars>>
      /\ UNCHANGED <<hblock, hretries, hstrangers>>
  BY DEF ServeWithOptions, Intro, envVars
<1>2. net' \subseteq net \cup out
  BY <1>1, ExchangeAdds
<1>3. out \subseteq Packets /\ \A o \in out : PacketInv(o)'
  <2>1. h \in Endpoints /\ Client \in Endpoints
    BY DEF Endpoints
  <2>2. LET o == OackPacket(h, Client) IN
        o \in Packets /\ o.op = "OACK" /\ o.src = h
    BY <2>1, OackFields
  <2> QED
    BY <2>2 DEF PacketInv
<1>4. /\ hblock[h] = 0 /\ hretries[h] \in 0 .. MaxRetries
      /\ hretries[h] < MaxRetries
      /\ hstrangers[h] \in 0 .. MaxRetries /\ hudp[h] \in Socket
      /\ hretries' = [hretries EXCEPT ![h] = hretries[h]]
      /\ hstrangers' = [hstrangers EXCEPT ![h] = hstrangers[h]]
  BY <1>1, HandlerFacts
<1>5. ChangeTimeout(hudp[h], NegotiatedTimeout) \in Socket
  <2>1. NegotiatedTimeout \in Nat
    BY TimeoutAssumption
  <2> QED
    BY <1>4, <2>1, SocketType
<1> DEFINE b == hblock[h]
<1>6. /\ "oack" \in HandlerPhases /\ b = 0 /\ b \in 0 .. Modulus
      /\ hblock' = [hblock EXCEPT ![h] = b]
      /\ hblock[h] <= b /\ b <= NBlocks
      /\ b > 1 => server_port = h /\ b <= block_number + 1
  BY <1>1, <1>4, HandlerFacts DEF HandlerPhases
<1> HIDE DEF out, b
<1> QED
  BY <1>1, <1>2, <1>3, <1>4, <1>5, <1>6, HandlerChange

-----------------------------------------------------------------------------
(* The theorems.                                                            *)

\* The errors of a failing write (Read.cpp:70) are error codes.
LEMMA WriteErrorCodes == \A code \in WriteErrors : code \in ErrorCodes
  BY DEF WriteErrors, ErrorCodes

\* Every step of client, handlers and environment keeps the invariant.
LEMMA NextInv == IInv /\ [Next]_vars => IInv'
<1> SUFFICES ASSUME IInv, [Next]_vars PROVE IInv'
  OBVIOUS
<1>1. CASE ClientStep
  BY <1>1, SendRrqInv, FirstDataInv, FirstOackInv, FirstFailureInv,
     StrangerToClientInv, RetriesInv, AcceptDataInv, TransferFailureInv,
     AckAgainInv DEF ClientStep
<1>2. ASSUME NEW h \in Handlers, HandlerStep(h) PROVE IInv'
  BY <1>2, ServeWithOptionsInv, BlocksInv, HandlerEndsInv, HandlerIdlesInv,
     HandlerRetriesInv, LastBlockAckedInv DEF HandlerStep
<1>3. CASE Fault
  BY <1>3, SigintInv, FirstDataNotWrittenInv, DataNotWrittenInv,
     HandlerEndsInv, LoseInv, WriteErrorCodes DEF Fault
<1>4. CASE UNCHANGED vars
  <2>1. UNCHANGED <<net, losses, source, calm, clientVars, handlerVars>>
    BY <1>4 DEF vars, envVars
  <2>2. TypeOK' /\ NetInv'
    BY <2>1 DEF IInv, TypeOK, NetInv, PacketInv, clientVars, handlerVars
  <2>3. Prefix' /\ ClientInv' /\ HandlerInv' /\ Lockstep'
    BY <2>1 DEF IInv, Prefix, ClientInv, Waiting, HandlerInv, HWaiting,
                Lockstep, clientVars, handlerVars
  <2> QED
    BY <2>2, <2>3 DEF IInv
<1> QED
  BY <1>1, <1>2, <1>3, <1>4 DEF Next

\* The invariant holds of every reachable state.
LEMMA Invariance == Spec => []IInv
<1>1. Init => IInv
  BY InitInv
<1>2. IInv /\ [Next]_vars => IInv'
  BY NextInv
<1> QED
  BY <1>1, <1>2, PTL DEF Spec

\* Type correctness: in particular the client's uint16_t block number and the
\* retry counters of both sides never leave their range, because every retry
\* loop stops at MAX_RETRIES and the server's int block number gets no further
\* than 2^16 (Read.cpp:25, 145 and 158, ClientHandler.cpp:126, 184 and 190).
THEOREM TypeCorrect == Spec => []TypeOK
<1>1. IInv => TypeOK
  BY DEF IInv
<1> QED
  BY <1>1, Invariance, PTL

\* The downloaded file is a prefix of the served one, whatever is lost, late,
\* repeated or reordered and however many handlers a repeated RRQ has started
\* (Read.cpp:50, Read.cpp:158).
THEOREM DownloadCorrect == Spec => []Prefix
<1>1. IInv => Prefix
  BY DEF IInv
<1> QED
  BY <1>1, Invariance, PTL

\* Read() gets past its loop, to the last ACK and to success, only with the
\* whole file (Read.cpp:64, Read.cpp:174).
THEOREM SuccessIsWhole == Spec => []WholeFile
<1>1. IInv => WholeFile
  BY DEF IInv, ClientInv, WholeFile
<1> QED
  BY <1>1, Invariance, PTL

\* Stop and wait: only the handler the client is bound to gets past block 1, and
\* the two are never more than one block apart (ClientHandler.cpp:190).
THEOREM StopAndWait == Spec => []Lockstep
<1>1. IInv => Lockstep
  BY DEF IInv
<1> QED
  BY <1>1, Invariance, PTL

\* A handler that reports success has had all blocks but the last acknowledged
\* by the client it served (ClientHandler.cpp:227).
THEOREM ServerReportCorrect == Spec => []ServerReport
<1>1. IInv => ServerReport
  <2> SUFFICES ASSUME IInv, NEW h \in Handlers,
                      hphase[h] = "done", NBlocks > 1
               PROVE  server_port = h /\ block_number + 1 >= NBlocks
    BY DEF ServerReport
  <2>1. hblock[h] = NBlocks
    BY DEF IInv, HandlerInv
  <2> QED
    BY <2>1 DEF IInv, TypeOK, BlockNumbers, Lockstep
<1> QED
  BY <1>1, Invariance, PTL

-----------------------------------------------------------------------------
(* The download implements TransferSpec.                                    *)

Live == {"start", "request", "transfer", "finish"}
Aborted == {"failed", "interrupted", "eintr"}

\* What a step may do to the file and to the client's report.
FileStep ==
    \/ file' = file /\ (phase' = phase \/ (phase \in Live /\ phase' \in Live))
    \/ /\ file' = Append(file, Len(file) + 1) /\ Len(file) < NBlocks
       /\ phase \in Live /\ phase' \in Live
    \/ file' = file /\ phase = "finish" /\ phase' = "done"
    \/ file' \in {file, <<>>} /\ phase \in Live /\ phase' \in Aborted

\* A retry writes nothing.
LEMMA RetryFileStep ==
    ASSUME NEW in, Waiting, Retry(in) PROVE FileStep
BY DEF Retry, ClientFails, Waiting, FileStep, Live, Aborted

\* The block that is written is the next one of the file.
LEMMA WriteFileStep ==
    ASSUME IInv, NEW m \in net, FirstData(m) \/ AcceptData(m)
    PROVE  FileStep
<1>1. phase \in Live /\ phase' \in Live
  BY DEF FirstData, AcceptData, FirstResponse, FromServer, EnterTransfer, Live
<1>2. CASE FirstData(m)
  <2>1. FirstResponse(m) /\ FirstBlock(m) /\ file' = Append(file, m.val)
    BY <1>2 DEF FirstData
  <2>2. m.val = 1 /\ phase = "request"
    BY <2>1, FirstBlockFacts
  <2>3. Len(file) = 0
    BY <2>2 DEF IInv, ClientInv
  <2> QED
    BY <1>1, <2>1, <2>2, <2>3 DEF FileStep
<1>3. CASE AcceptData(m)
  <2>1. FromServer(m) /\ NextBlock(m) /\ file' = Append(file, m.val)
    BY <1>3 DEF AcceptData
  <2>2. /\ block_number \in Nat /\ block_number = Len(file)
        /\ m.val = block_number + 1 /\ block_number + 1 <= NBlocks
    BY <2>1, NextBlockFacts
  <2> QED
    BY <1>1, <2>1, <2>2 DEF FileStep
<1> QED
  BY <1>2, <1>3

\* Every step of the download.
LEMMA NextFileStep == IInv /\ [Next]_vars => FileStep
<1> SUFFICES ASSUME IInv, [Next]_vars PROVE FileStep
  OBVIOUS
<1>1. CASE \E m \in net : FirstData(m) \/ AcceptData(m)
  BY <1>1, WriteFileStep
<1>2. CASE \E m \in net : FirstError(m) \/ FirstIllegal(m) \/ FirstOack(m)
  BY <1>2 DEF FirstError, FirstIllegal, FirstOack, FirstResponse, ClientFails,
              EnterTransfer, FileStep, Live, Aborted
<1>3. CASE ClientTimeout \/ \E m \in net : TooManyStrangers(m) \/ OldData(m)
  <2>1. Waiting /\ \E in : Retry(in)
    BY <1>3 DEF ClientTimeout, TooManyStrangers, OldData, FromServer, Waiting
  <2> QED
    BY <2>1, RetryFileStep
<1>4. CASE \E m \in net : FutureData(m) \/ ServerError(m)
  BY <1>4 DEF FutureData, ServerError, FromServer, ClientFails, FileStep,
              Live, Aborted
<1>5. CASE SendRrq \/ FinalAck
           \/ \E m \in net : StrangerToClient(m) \/ OtherToClient(m)
  BY <1>5 DEF SendRrq, FinalAck, StrangerToClient, OtherToClient, FileStep, Live
<1>6. CASE \E m \in net, code \in WriteErrors :
              FirstDataNotWritten(m, code) \/ DataNotWritten(m, code)
  BY <1>6 DEF FirstDataNotWritten, DataNotWritten, FirstResponse, FromServer,
              ClientFails, FileStep, Live, Aborted
<1>7. CASE CheckForSigintRRQ \/ SigintInReceive
  BY <1>7 DEF CheckForSigintRRQ, SigintInReceive, Waiting, FileStep, Live,
              Aborted
<1>8. ASSUME NEW h \in Handlers,
             HandlerStep(h) \/ \E m \in net : ReadFails(h, m)
      PROVE  FileStep
  <2>1. UNCHANGED clientVars
    BY <1>8 DEF HandlerStep, ReadFails, ServeWithOptions, ServeWithoutOptions,
       RefuseIntro, StrangerToHandler, HandlerTooManyStrangers, OackAcked,
       RrqAgain, BlockAcked, LastBlockAcked, OldAck, IllegalToHandler,
       ErrorToHandler, OtherToHandler, HandlerTimeout, HandlerRetry, GiveUp,
       HandlerEnds, SendBlock
  <2> QED
    BY <2>1 DEF clientVars, FileStep
<1>9. CASE UNCHANGED vars \/ \E m \in net : Lose(m)
  BY <1>9 DEF vars, Lose, clientVars, FileStep
<1> QED
  BY <1>1, <1>2, <1>3, <1>4, <1>5, <1>6, <1>7, <1>8, <1>9
     DEF Next, ClientStep, Fault

\* Every behaviour of client, handlers, network and environment is one of the
\* abstract transfer's: the copy grows block by block in file order, success is
\* reported for a whole copy only, and a failed transfer leaves a prefix or
\* nothing (Read.cpp:69, 167, 207 and 215).
THEOREM DownloadRefines == Spec => Refinement
<1>1. Init => Transfer!TInit
  BY DEF Init, Status, Transfer!TInit
<1>2. IInv /\ [Next]_vars => [Transfer!TNext]_<<file, Status>>
  <2> SUFFICES ASSUME IInv, [Next]_vars
               PROVE  [Transfer!TNext]_<<file, Status>>
    OBVIOUS
  <2>1. FileStep
    BY NextFileStep
  <2>2. phase = "finish" => Len(file) = NBlocks
    BY DEF IInv, ClientInv
  <2> QED
    BY <2>1, <2>2 DEF FileStep, Live, Aborted, Status, Transfer!TNext,
       Transfer!Extend, Transfer!Complete, Transfer!Abort
<1> QED
  BY <1>1, <1>2, Invariance, PTL DEF Spec, Refinement, Transfer!TSpec


-----------------------------------------------------------------------------
(* The timers.                                                              *)

\* The invariant of one socket of the client, and of one of a handler.
ClientTimer(p, o, r, u) ==
    /\ p \in {"request", "transfer"} =>
          /\ u.timeout = Doubled[r]
          /\ \/ u.rcvtimeo = Doubled[r]
             \/ p = "request" /\ r = 0 /\ o /\ u.rcvtimeo = NegotiatedTimeout
    /\ p = "start" =>
          /\ r = 0 /\ u.timeout = DefaultTimeout
          /\ \/ u.rcvtimeo = DefaultTimeout
             \/ o /\ u.rcvtimeo = NegotiatedTimeout

HandlerTimer(p, r, u) ==
    /\ p \in {"oack", "data"} =>
          /\ u.timeout \in 1 .. Doubled[r]
          /\ u.rcvtimeo \in {u.timeout, NegotiatedTimeout}
          /\ p = "data" => u.rcvtimeo = Doubled[r] /\ u.timeout = Doubled[r]
    /\ p = "idle" => r = 0 /\ u = NewUdpClient

\* TimerInv is the invariant of every socket.
LEMMA TimerParts ==
    TimerInv <=> /\ ClientTimer(phase, options, retries, udp)
                 /\ \A h \in Handlers : HandlerTimer(hphase[h], hretries[h], hudp[h])
BY DEF TimerInv, ClientTimer, HandlerTimer, Waiting, HWaiting

\* The same of the next state.
LEMMA TimerPartsNext ==
    TimerInv' <=> /\ ClientTimer(phase', options', retries', udp')
                  /\ \A h \in Handlers :
                        HandlerTimer(hphase'[h], hretries'[h], hudp'[h])
BY DEF TimerInv, ClientTimer, HandlerTimer, Waiting, HWaiting

\* What a step may do to the client's timer.
ClientTimerStep ==
    \/ phase' \in {"finish", "done", "failed", "interrupted", "eintr"}
    \/ UNCHANGED <<phase, options, retries, udp>>
    \/ phase = "start" /\ phase' = "request" /\ UNCHANGED <<options, retries, udp>>
    \/ retries' = 0 /\ phase' = "transfer" /\ \E u \in Socket : udp' = TimeoutReset(u)
    \/ /\ Waiting /\ phase' = phase /\ retries' = retries + 1
       /\ udp' = IncreaseTimeout(udp)

\* Whatever the client does to its timer keeps it in step with its retries.
LEMMA ClientTimerKept ==
    ASSUME IInv, ClientTimer(phase, options, retries, udp), ClientTimerStep
    PROVE  ClientTimer(phase', options', retries', udp')
<1>0. retries \in Nat /\ udp \in Socket
  BY DEF IInv, TypeOK
<1>1. CASE phase' \in {"finish", "done", "failed", "interrupted", "eintr"}
  BY <1>1 DEF ClientTimer
<1>2. CASE UNCHANGED <<phase, options, retries, udp>>
  BY <1>2
<1>3. CASE phase = "start" /\ phase' = "request" /\ UNCHANGED <<options, retries, udp>>
  BY <1>0, <1>3, TimerFacts DEF ClientTimer, DefaultTimeout
<1>4. CASE /\ retries' = 0 /\ phase' = "transfer"
           /\ \E u \in Socket : udp' = TimeoutReset(u)
  BY <1>0, <1>4, TimerFacts DEF ClientTimer
<1>5. CASE /\ Waiting /\ phase' = phase
           /\ retries' = retries + 1 /\ udp' = IncreaseTimeout(udp)
  BY <1>0, <1>5, TimerFacts DEF ClientTimer, Waiting
<1> QED
  BY <1>1, <1>2, <1>3, <1>4, <1>5 DEF ClientTimerStep

\* The client's steps and its faults are such, and leave the handlers alone.
LEMMA ClientTimerSteps ==
    ASSUME IInv,
           ClientStep \/ CheckForSigintRRQ \/ SigintInReceive
           \/ \E m \in net, code \in WriteErrors :
                 FirstDataNotWritten(m, code) \/ DataNotWritten(m, code)
    PROVE  ClientTimerStep /\ UNCHANGED handlerVars
<1>0. /\ udp \in Socket /\ ChangeTimeout(udp, NegotiatedTimeout) \in Socket
  <2>1. udp \in Socket /\ NegotiatedTimeout \in Nat
    BY TimeoutAssumption DEF IInv, TypeOK
  <2> QED
    BY <2>1, SocketType
<1>1. ASSUME NEW m \in net, FirstData(m) \/ FirstOack(m) \/ AcceptData(m)
      PROVE  ClientTimerStep /\ UNCHANGED handlerVars
  <2>1. /\ retries' = 0 /\ phase' \in {"finish", "transfer"}
        /\ UNCHANGED handlerVars
    BY <1>1 DEF FirstData, FirstOack, AcceptData, EnterTransfer
  <2>2. \E u \in Socket : udp' = TimeoutReset(u)
    BY <1>0, <1>1 DEF FirstData, FirstOack, AcceptData
  <2> QED
    BY <2>1, <2>2 DEF ClientTimerStep
<1>2. ASSUME Waiting, NEW in, Retry(in)
      PROVE  ClientTimerStep /\ UNCHANGED handlerVars
  BY <1>2 DEF Retry, ClientFails, ClientTimerStep
<1>3. CASE ClientTimeout \/ \E m \in net : TooManyStrangers(m) \/ OldData(m)
  <2>1. Waiting /\ \E in : Retry(in)
    BY <1>3 DEF ClientTimeout, TooManyStrangers, OldData, FromServer, Waiting
  <2> QED
    BY <1>2, <2>1
<1>4. CASE \E m \in net : \/ FirstError(m) \/ FirstIllegal(m)
                          \/ FutureData(m) \/ ServerError(m)
  BY <1>4 DEF FirstError, FirstIllegal, FutureData, ServerError, ClientFails,
              ClientTimerStep
<1>5. CASE SendRrq \/ FinalAck
           \/ \E m \in net : StrangerToClient(m) \/ OtherToClient(m)
  BY <1>5 DEF SendRrq, FinalAck, StrangerToClient, OtherToClient, ClientTimerStep
<1>6. CASE \E m \in net, code \in WriteErrors :
              FirstDataNotWritten(m, code) \/ DataNotWritten(m, code)
  BY <1>6 DEF FirstDataNotWritten, DataNotWritten, ClientFails, ClientTimerStep
<1>7. CASE CheckForSigintRRQ \/ SigintInReceive
  BY <1>7 DEF CheckForSigintRRQ, SigintInReceive, ClientTimerStep
<1> QED
  BY <1>1, <1>3, <1>4, <1>5, <1>6, <1>7 DEF ClientStep

\* What a step of handler h may do to its timer: end, wait on, start with a
\* new socket, begin a block, or count a retry, with a longer timeout or, for a
\* repeated RRQ, without.
SetTimer(h, p, r, u) ==
    /\ hphase' = [hphase EXCEPT ![h] = p]
    /\ hretries' = [hretries EXCEPT ![h] = r]
    /\ hudp' = [hudp EXCEPT ![h] = u]

TimerMove(h, p, r, u) ==
    \/ p \in {"done", "failed"}
    \/ p = hphase[h] /\ r = hretries[h] /\ u = hudp[h]
    \/ /\ hphase[h] = "idle" /\ p = "oack" /\ r = hretries[h]
       /\ u = ChangeTimeout(hudp[h], NegotiatedTimeout)
    \/ hphase[h] = "idle" /\ p = "data" /\ r = 0 /\ u = hudp[h]
    \/ p = "data" /\ r = 0 /\ u = TimeoutReset(hudp[h])
    \/ /\ HWaiting(h) /\ p = hphase[h] /\ r = hretries[h] + 1
       /\ u = IncreaseTimeout(hudp[h])
    \/ hphase[h] = "oack" /\ p = "oack" /\ r = hretries[h] + 1 /\ u = hudp[h]

HandlerTimerStep(h) ==
    \E p \in HandlerPhases, r \in Nat, u \in Socket :
       SetTimer(h, p, r, u) /\ TimerMove(h, p, r, u)

\* Whatever a handler does to its timer keeps it in step with its retries.
LEMMA HandlerTimerKept ==
    ASSUME IInv, NEW h \in Handlers, HandlerTimerStep(h),
           \A g \in Handlers : HandlerTimer(hphase[g], hretries[g], hudp[g])
    PROVE  \A g \in Handlers : HandlerTimer(hphase'[g], hretries'[g], hudp'[g])
<1>1. PICK p \in HandlerPhases, r \in Nat, u \in Socket :
             SetTimer(h, p, r, u) /\ TimerMove(h, p, r, u)
  BY DEF HandlerTimerStep
<1>2. /\ hphase \in [Handlers -> HandlerPhases]
      /\ hretries \in [Handlers -> 0 .. MaxRetries] /\ hudp \in [Handlers -> Socket]
  BY DEF IInv, TypeOK
<1> DEFINE v == hudp[h]
           q == hretries[h]
<1>3. /\ v \in Socket /\ q \in Nat /\ HandlerTimer(hphase[h], q, v)
      /\ NewUdpClient.timeout = 1 /\ NewUdpClient.rcvtimeo = 1
  BY <1>2 DEF NewUdpClient, DefaultTimeout
<1>4. HandlerTimer(p, r, u)
  <2>1. CASE p \in {"done", "failed"}
    BY <2>1 DEF HandlerTimer
  <2>2. CASE p = hphase[h] /\ r = q /\ u = v
    BY <1>3, <2>2
  <2>3. CASE /\ hphase[h] = "idle" /\ p = "oack" /\ r = q
             /\ u = ChangeTimeout(v, NegotiatedTimeout)
    <3>1. r = 0 /\ u.timeout = 1 /\ u.rcvtimeo = NegotiatedTimeout /\ Doubled[0] = 1
      BY <1>3, <2>3, TimerFacts DEF HandlerTimer
    <3> QED
      BY <2>3, <3>1 DEF HandlerTimer
  <2>4. CASE hphase[h] = "idle" /\ p = "data" /\ r = 0 /\ u = v
    <3>1. u.timeout = 1 /\ u.rcvtimeo = 1 /\ Doubled[0] = 1
      BY <1>3, <2>4, TimerFacts DEF HandlerTimer
    <3> QED
      BY <2>4, <3>1 DEF HandlerTimer
  <2>5. CASE p = "data" /\ r = 0 /\ u = TimeoutReset(v)
    <3>1. u.timeout = 1 /\ u.rcvtimeo = 1 /\ Doubled[0] = 1
      BY <1>3, <2>5, TimerFacts
    <3> QED
      BY <2>5, <3>1 DEF HandlerTimer
  <2>6. CASE HWaiting(h) /\ p = hphase[h] /\ r = q + 1 /\ u = IncreaseTimeout(v)
    <3>1. /\ u.timeout = 2 * v.timeout /\ u.rcvtimeo = 2 * v.timeout
          /\ Doubled[r] = 2 * Doubled[q] /\ Doubled[q] \in Nat /\ v.timeout \in Nat
      BY <1>3, <2>6, TimerFacts
    <3>2. p \in {"oack", "data"} /\ v.timeout \in 1 .. Doubled[q]
          /\ (p = "data" => v.timeout = Doubled[q])
      BY <1>3, <2>6 DEF HandlerTimer, HWaiting
    <3>3. u.timeout \in 1 .. Doubled[r] /\ (p = "data" => u.timeout = Doubled[r])
      BY <3>1, <3>2
    <3> QED
      BY <3>1, <3>2, <3>3 DEF HandlerTimer
  <2>7. CASE hphase[h] = "oack" /\ p = "oack" /\ r = q + 1 /\ u = v
    <3>1. Doubled[r] = 2 * Doubled[q] /\ Doubled[q] \in Nat /\ v.timeout \in Nat
      BY <1>3, <2>7, TimerFacts
    <3>2. /\ v.timeout \in 1 .. Doubled[q]
          /\ v.rcvtimeo \in {v.timeout, NegotiatedTimeout}
      BY <1>3, <2>7 DEF HandlerTimer
    <3>3. u.timeout \in 1 .. Doubled[r]
      BY <2>7, <3>1, <3>2
    <3> QED
      BY <2>7, <3>2, <3>3 DEF HandlerTimer
  <2> QED
    BY <1>1, <2>1, <2>2, <2>3, <2>4, <2>5, <2>6, <2>7 DEF TimerMove
<1>5. /\ hphase'[h] = p /\ hretries'[h] = r /\ hudp'[h] = u
      /\ \A g \in Handlers : g # h =>
            hphase'[g] = hphase[g] /\ hretries'[g] = hretries[g] /\ hudp'[g] = hudp[g]
  BY <1>1, <1>2 DEF SetTimer
<1> QED
  BY <1>4, <1>5

\* The handlers' steps, and a failing read, are such, and leave the client alone.
LEMMA HandlerTimerSteps ==
    ASSUME IInv, NEW h \in Handlers, HandlerStep(h) \/ \E m \in net : ReadFails(h, m)
    PROVE  HandlerTimerStep(h) /\ UNCHANGED clientVars
<1> DEFINE q == hretries[h]
           v == hudp[h]
<1>0. /\ hphase \in [Handlers -> HandlerPhases]
      /\ hretries \in [Handlers -> 0 .. MaxRetries] /\ hudp \in [Handlers -> Socket]
  BY DEF IInv, TypeOK
<1>1. /\ q \in Nat /\ q + 1 \in Nat /\ v \in Socket /\ IncreaseTimeout(v) \in Socket
      /\ TimeoutReset(v) \in Socket /\ ChangeTimeout(v, NegotiatedTimeout) \in Socket
      /\ hphase[h] \in HandlerPhases /\ 0 \in Nat
      /\ {"oack", "data", "done", "failed"} \subseteq HandlerPhases
      /\ hphase = [hphase EXCEPT ![h] = hphase[h]]
      /\ hretries = [hretries EXCEPT ![h] = q]
      /\ hudp = [hudp EXCEPT ![h] = v]
  <2>1. v \in Socket /\ NegotiatedTimeout \in Nat
    BY <1>0, TimeoutAssumption
  <2>2. /\ IncreaseTimeout(v) \in Socket /\ TimeoutReset(v) \in Socket
        /\ ChangeTimeout(v, NegotiatedTimeout) \in Socket
    <3> HIDE DEF v
    <3> QED
      BY <2>1, SocketType
  <2>3. /\ hphase = [hphase EXCEPT ![h] = hphase[h]]
        /\ hretries = [hretries EXCEPT ![h] = q]
        /\ hudp = [hudp EXCEPT ![h] = v]
    BY <1>0
  <2>4. /\ q \in Nat /\ q + 1 \in Nat /\ hphase[h] \in HandlerPhases
        /\ {"oack", "data", "done", "failed"} \subseteq HandlerPhases
    BY <1>0 DEF HandlerPhases
  <2> QED
    BY <2>1, <2>2, <2>3, <2>4
<1>2. UNCHANGED clientVars
  BY DEF HandlerStep, ReadFails, ServeWithOptions, ServeWithoutOptions,
     RefuseIntro, StrangerToHandler, HandlerTooManyStrangers, OackAcked,
     RrqAgain, BlockAcked, LastBlockAcked, OldAck, IllegalToHandler,
     ErrorToHandler, OtherToHandler, HandlerTimeout, HandlerRetry, GiveUp,
     HandlerEnds, SendBlock
<1>3. ASSUME NEW p \in HandlerPhases, NEW r \in Nat, NEW u \in Socket,
             SetTimer(h, p, r, u), TimerMove(h, p, r, u)
      PROVE  HandlerTimerStep(h)
  BY <1>3 DEF HandlerTimerStep
<1>4. CASE \E m \in net : \/ RefuseIntro(h, m) \/ IllegalToHandler(h, m)
                          \/ ErrorToHandler(h, m) \/ ReadFails(h, m)
  <2>1. hphase' = [hphase EXCEPT ![h] = "failed"] /\ UNCHANGED <<hretries, hudp>>
    BY <1>4 DEF RefuseIntro, IllegalToHandler, ErrorToHandler, ReadFails, HandlerEnds
  <2>2. SetTimer(h, "failed", q, v) /\ TimerMove(h, "failed", q, v)
    BY <1>1, <2>1 DEF SetTimer, TimerMove
  <2> QED
    BY <1>1, <1>2, <1>3, <2>2
<1>5. CASE \E m \in net : LastBlockAcked(h, m)
  <2>1. /\ hphase' = [hphase EXCEPT ![h] = "done"] /\ UNCHANGED hretries
        /\ hudp' = [hudp EXCEPT ![h] = TimeoutReset(v)]
    BY <1>5 DEF LastBlockAcked, HandlerEnds
  <2>2. /\ SetTimer(h, "done", q, TimeoutReset(v))
        /\ TimerMove(h, "done", q, TimeoutReset(v))
    BY <1>1, <2>1 DEF SetTimer, TimerMove
  <2> QED
    BY <1>1, <1>2, <1>3, <2>2
<1>6. CASE \E m \in net : StrangerToHandler(h, m) \/ OtherToHandler(h, m)
  <2>1. UNCHANGED <<hphase, hretries, hudp>>
    BY <1>6 DEF StrangerToHandler, OtherToHandler
  <2>2. SetTimer(h, hphase[h], q, v) /\ TimerMove(h, hphase[h], q, v)
    BY <1>1, <2>1 DEF SetTimer, TimerMove
  <2> QED
    BY <1>1, <1>2, <1>3, <2>2
<1>7. CASE \E m \in net : ServeWithOptions(h, m)
  <2> DEFINE w == ChangeTimeout(v, NegotiatedTimeout)
  <2>1. /\ hphase[h] = "idle" /\ hphase' = [hphase EXCEPT ![h] = "oack"]
        /\ UNCHANGED hretries /\ hudp' = [hudp EXCEPT ![h] = w]
    BY <1>7 DEF ServeWithOptions, Intro
  <2>2. SetTimer(h, "oack", q, w) /\ TimerMove(h, "oack", q, w)
    BY <1>1, <2>1 DEF SetTimer, TimerMove
  <2> QED
    BY <1>1, <1>2, <1>3, <2>2
<1>8. CASE \E m \in net : ServeWithoutOptions(h, m)
  <2>1. /\ hphase[h] = "idle" /\ hphase' = [hphase EXCEPT ![h] = "data"]
        /\ hretries' = [hretries EXCEPT ![h] = 0] /\ UNCHANGED hudp
    BY <1>8 DEF ServeWithoutOptions, Intro, SendBlock
  <2>2. SetTimer(h, "data", 0, v) /\ TimerMove(h, "data", 0, v)
    BY <1>1, <2>1 DEF SetTimer, TimerMove
  <2> QED
    BY <1>1, <1>2, <1>3, <2>2
<1>9. CASE \E m \in net : OackAcked(h, m) \/ BlockAcked(h, m)
  <2>1. SetTimer(h, "data", 0, TimeoutReset(v))
    BY <1>9 DEF OackAcked, BlockAcked, SendBlock, SetTimer
  <2>2. TimerMove(h, "data", 0, TimeoutReset(v))
    BY DEF TimerMove
  <2> QED
    BY <1>1, <1>2, <1>3, <2>1, <2>2
\* A retry, up to the limit and at it.
<1>10. ASSUME NEW in, HandlerRetry(h, in)
       PROVE  /\ hretries' = [hretries EXCEPT ![h] = q + 1]
              /\ \E p \in {hphase[h], "done", "failed"} :
                    hphase' = [hphase EXCEPT ![h] = p]
  BY <1>1, <1>10 DEF HandlerRetry, GiveUp, HandlerEnds
<1>11. CASE HandlerTimeout(h)
            \/ \E m \in net : HandlerTooManyStrangers(h, m) \/ OldAck(h, m)
  <2> DEFINE w == IncreaseTimeout(v)
  <2>1. /\ HWaiting(h) /\ hudp' = [hudp EXCEPT ![h] = w]
        /\ \E in : HandlerRetry(h, in)
    BY <1>11 DEF HandlerTimeout, HandlerTooManyStrangers, OldAck, FromClient
  <2>2. PICK p \in {hphase[h], "done", "failed"} : SetTimer(h, p, q + 1, w)
    BY <1>10, <2>1 DEF SetTimer
  <2>3. TimerMove(h, p, q + 1, w)
    BY <2>1 DEF TimerMove
  <2> QED
    BY <1>1, <1>2, <1>3, <2>2, <2>3
<1>12. CASE \E m \in net : RrqAgain(h, m)
  <2>1. hphase[h] = "oack" /\ UNCHANGED hudp /\ \E in : HandlerRetry(h, in)
    BY <1>12 DEF RrqAgain
  <2>2. PICK p \in {hphase[h], "done", "failed"} : SetTimer(h, p, q + 1, v)
    BY <1>1, <1>10, <2>1 DEF SetTimer
  <2>3. TimerMove(h, p, q + 1, v)
    BY <2>1 DEF TimerMove
  <2> QED
    BY <1>1, <1>2, <1>3, <2>2, <2>3
<1> QED
  BY <1>2, <1>4, <1>5, <1>6, <1>7, <1>8, <1>9, <1>11, <1>12 DEF HandlerStep

\* New sockets wait for the default timeout, the client's for the one it asks
\* for when it has options.
LEMMA InitTimers == Init => TimerInv
<1> SUFFICES ASSUME Init PROVE TimerInv
  OBVIOUS
<1>1. ClientTimer(phase, options, retries, udp)
  BY DEF Init, ClientTimer, NewUdpClient, ChangeTimeout, DefaultTimeout
<1>2. \A h \in Handlers : HandlerTimer(hphase[h], hretries[h], hudp[h])
  BY DEF Init, HandlerTimer
<1> QED
  BY <1>1, <1>2, TimerParts

\* Every step keeps all timers right.
LEMMA NextTimers == IInv /\ TimerInv /\ [Next]_vars => TimerInv'
<1> SUFFICES ASSUME IInv, TimerInv, [Next]_vars PROVE TimerInv'
  OBVIOUS
<1>1. /\ ClientTimer(phase, options, retries, udp)
      /\ \A h \in Handlers : HandlerTimer(hphase[h], hretries[h], hudp[h])
  BY TimerParts
<1>2. CASE \/ ClientStep \/ CheckForSigintRRQ \/ SigintInReceive
           \/ \E m \in net, code \in WriteErrors :
                 FirstDataNotWritten(m, code) \/ DataNotWritten(m, code)
  <2>1. ClientTimerStep /\ UNCHANGED <<hphase, hretries, hudp>>
    BY <1>2, ClientTimerSteps DEF handlerVars
  <2> QED
    BY <1>1, <2>1, ClientTimerKept, TimerPartsNext
<1>3. ASSUME NEW h \in Handlers, HandlerStep(h) \/ \E m \in net : ReadFails(h, m)
      PROVE  TimerInv'
  <2>1. HandlerTimerStep(h) /\ UNCHANGED <<phase, options, retries, udp>>
    BY <1>3, HandlerTimerSteps DEF clientVars
  <2> QED
    BY <1>1, <2>1, HandlerTimerKept, TimerPartsNext
<1>4. CASE UNCHANGED vars \/ \E m \in net : Lose(m)
  <2>1. UNCHANGED <<phase, options, retries, udp, hphase, hretries, hudp>>
    BY <1>4 DEF vars, Lose, clientVars, handlerVars
  <2> QED
    BY <1>1, <2>1, TimerPartsNext
<1> QED
  BY <1>2, <1>3, <1>4 DEF Next, Fault

\* timeout_ is what the retries of the current block have made it, on both
\* sides, and every wait is that long or as long as was negotiated, and ends:
\* the doubling starts again with every block (UdpClient.cpp:73 and 78,
\* Read.cpp:115, 125, 200 and 210, ClientHandler.cpp:150, 159, 222 and 235).
THEOREM BackoffInStep == Spec => []Backoff
<1>1. Init => TimerInv
  BY InitTimers
<1>2. IInv /\ TimerInv /\ [Next]_vars => TimerInv'
  BY NextTimers
<1>3. IInv /\ TimerInv => Backoff
  <2> SUFFICES ASSUME IInv, TimerInv PROVE Backoff
    OBVIOUS
  <2>1. retries \in Nat /\ (\A h \in Handlers : hretries[h] \in Nat)
    <3>1. retries \in 0 .. MaxRetries /\ hretries \in [Handlers -> 0 .. MaxRetries]
      BY DEF IInv, TypeOK
    <3> QED
      BY <3>1
  <2>2. 0 # NegotiatedTimeout
    BY TimeoutAssumption
  <2>3. Doubled[retries] # 0 /\ \A h \in Handlers : Doubled[hretries[h]] # 0
    BY <2>1, DoubledFacts DEF DefaultTimeout
  <2>4. Waiting =>
          /\ udp.timeout = Doubled[retries]
          /\ udp.rcvtimeo \in {udp.timeout, NegotiatedTimeout} \ {0}
          /\ ~options => udp.rcvtimeo = udp.timeout
    BY <2>3, <2>2 DEF TimerInv
  <2>5. ASSUME NEW h \in Handlers, HWaiting(h)
        PROVE  /\ hudp[h].timeout \in 1 .. Doubled[hretries[h]]
               /\ hphase[h] = "data" => hudp[h].timeout = Doubled[hretries[h]]
               /\ hudp[h].rcvtimeo \in {hudp[h].timeout, NegotiatedTimeout} \ {0}
    <3>1. /\ hudp[h].timeout \in 1 .. Doubled[hretries[h]]
          /\ hudp[h].rcvtimeo \in {hudp[h].timeout, NegotiatedTimeout}
          /\ hphase[h] = "data" => hudp[h].timeout = Doubled[hretries[h]]
      BY <2>5 DEF TimerInv
    <3>2. hudp[h].timeout # 0
      BY <3>1
    <3> QED
      BY <2>2, <3>1, <3>2
  <2> QED
    BY <2>4, <2>5 DEF Backoff
<1> QED
  BY <1>1, <1>2, <1>3, Invariance, PTL DEF Spec
=============================================================================
