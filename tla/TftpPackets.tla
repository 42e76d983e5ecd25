---------------------------- MODULE TftpPackets ----------------------------
(***************************************************************************)
(* The datagrams exchanged by client and server, one constructor per class  *)
(* of src/common/TftpPacketStuff.  Opcode, addresses and the fields that    *)
(* the receivers branch on are kept; the byte layout is not.  A payload is  *)
(* the index of the file block it carries, 0 standing for bytes that belong *)
(* to no block of this file.                                                *)
(***************************************************************************)
EXTENDS Naturals

CONSTANTS Handlers,  \* server threads; each owns a socket, so it is also a TID
          Modulus    \* number of block numbers: 2^16 in the code

ASSUME ModulusAssumption == Modulus \in Nat /\ Modulus > 1

Client == "client"       \* the client's ephemeral port
Main   == "main"         \* the well-known port, read by TftpServer::run
Other  == "other"        \* any third host

Endpoints == Handlers \cup {Client, Main, Other}

ASSUME HandlersAssumption == Handlers \cap {Client, Main, Other} = {}

BlockNumbers == 0 .. Modulus - 1

\* uint16_t conversion of a block number handed to a packet constructor.
Wire(n) == n % Modulus

ErrorCodes == {"NOT_DEFINED", "FILE_NOT_FOUND", "ACCESS_VIOLATION",
               "DISK_FULL", "ILLEGAL_OPERATION", "UNKNOWN_TID",
               "FILE_ALREADY_EXISTS"}

\* opcode is "RRQ" or "WRQ"; opts tells whether the option list is non-empty.
RequestPacket(opcode, opts) ==
    [op |-> opcode, src |-> Client, dst |-> Main, opts |-> opts]

\* short: the payload is smaller than blksize, which ends the transfer.
DataPacket(src, dst, n, last) ==
    [op |-> "DATA", src |-> src, dst |-> dst,
     blk |-> Wire(n), val |-> n, short |-> (n = last)]

AckPacket(src, dst, n) ==
    [op |-> "ACK", src |-> src, dst |-> dst, blk |-> Wire(n)]

OackPacket(src, dst) == [op |-> "OACK", src |-> src, dst |-> dst]

ErrorPacket(src, dst, code) ==
    [op |-> "ERROR", src |-> src, dst |-> dst, code |-> code]

Packets ==
    [op : {"RRQ", "WRQ"}, src : Endpoints, dst : Endpoints, opts : BOOLEAN]
    \cup [op : {"DATA"}, src : Endpoints, dst : Endpoints,
          blk : BlockNumbers, val : Nat, short : BOOLEAN]
    \cup [op : {"ACK"}, src : Endpoints, dst : Endpoints, blk : BlockNumbers]
    \cup [op : {"OACK"}, src : Endpoints, dst : Endpoints]
    \cup [op : {"ERROR"}, src : Endpoints, dst : Endpoints, code : ErrorCodes]
=============================================================================
