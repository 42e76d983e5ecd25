-------------------------- MODULE OptionNegotiation --------------------------
(***************************************************************************)
(* How the two sides of a transfer agree on blksize, timeout and tsize:     *)
(* the option list of a request, ClientHandler::NegotiateOptions and the    *)
(* tsize loop of FollowOnRRQ, the OACK, and what TftpClient makes of it.    *)
(*                                                                          *)
(* Either side may be somebody else's program: a client that sends any list *)
(* to our server, or a server that gives our client any answer.  The        *)
(* request and the answer arrive; loss is the subject of Download and       *)
(* Upload.                                                                  *)
(*                                                                          *)
(* A value is what the conversions of the standard library make of its      *)
(* text: an int with its number, "huge" (beyond int), "vast" (beyond 64     *)
(* bits), "nan" (no number), "empty", or "cut" (the packet ends before the  *)
(* terminating null, also when a request was cut at 512 bytes).             *)
(***************************************************************************)
EXTENDS Integers, Sequences

CONSTANTS
    ClientLists,    \* option lists TftpClient may be given
    ForeignLists,   \* option lists another program may send
    FileSizes,      \* size of the file an RRQ asks for
    Free            \* bytes free on the disks

DefaultBlksize == 512
DefaultTimeout == 1
MIN_BLOCK_SIZE == 8
MAX_BLOCK_SIZE == 65464
MIN_TIMEOUT == 1
MAX_TIMEOUT == 255

ValueKinds == {"int", "huge", "vast", "nan", "empty", "cut"}
OptionNames == {"BLKSIZE", "TIMEOUT", "TSIZE", "UNSUPPORTED"}

\* Option::Option: the enum of a lower-cased name.
NameOf(nameStr) ==
    CASE nameStr = "blksize" -> "BLKSIZE"
      [] nameStr = "timeout" -> "TIMEOUT"
      [] nameStr = "tsize" -> "TSIZE"
      [] OTHER -> "UNSUPPORTED"

Options ==
    {o \in [name : OptionNames, nameStr : STRING, kind : ValueKinds, n : Int] :
        o.name = NameOf(o.nameStr)}

ASSUME ListsAssumption ==
    ClientLists \subseteq Seq(Options) /\ ForeignLists \subseteq Seq(Options)
ASSUME SizesAssumption == FileSizes \subseteq Nat /\ Free \in Nat

VARIABLES
    world,      \* which of our programs take part: both, client, server
    op,         \* RRQ or WRQ
    request,    \* the options of the request
    size,       \* of the file, where our server is asked for one
    exists,     \* the destination file of our client's RRQ is already there
    reply,      \* the first answer
    \* the client: TftpClient
    cphase, options, cblk,
    ctimeout,   \* SO_RCVTIMEO of its socket
    cerror,     \* the error it sends
    \* the server: ClientHandler
    sphase, sblk,
    stimeout,   \* SO_RCVTIMEO of its socket
    bytes_read  \* of the tsize loop

fixedVars == <<world, op, request, size, exists>>
clientVars == <<cphase, options, cblk, ctimeout, cerror>>
serverVars == <<reply, sphase, sblk, stimeout, bytes_read>>
vars == <<fixedVars, clientVars, serverVars>>

NoError == "none"
Codes == {"ILLEGAL_OPERATION", "FAILED_NEGOTIATION"}
Answer(o, list, code) == [op |-> o, options |-> list, code |-> code]
NoReply == Answer("none", <<>>, NoError)

TypeOK ==
    /\ world \in {"both", "client", "server"}
    /\ op \in {"RRQ", "WRQ"}
    /\ request \in Seq(Options)
    /\ size \in FileSizes \cup {0}
    /\ exists \in BOOLEAN
    /\ reply \in [op : {"none", "OACK", "DATA", "ACK", "ERROR"},
                  options : Seq(Options), code : Codes \cup {NoError}]
    /\ cphase \in {"start", "wait", "transfer", "data", "failed"}
    /\ options \in Seq(Options)
    /\ cblk \in MIN_BLOCK_SIZE .. MAX_BLOCK_SIZE
    /\ ctimeout \in MIN_TIMEOUT .. MAX_TIMEOUT
    /\ cerror \in Codes \cup {NoError}
    /\ sphase \in {"idle", "tsize", "answer", "transfer", "data", "failed"}
    /\ sblk \in MIN_BLOCK_SIZE .. MAX_BLOCK_SIZE
    /\ stimeout \in MIN_TIMEOUT .. MAX_TIMEOUT
    /\ bytes_read \in 0 .. 2 * MAX_BLOCK_SIZE

-----------------------------------------------------------------------------
(* Options and their parsers.                                               *)

Lists(list, name) == \E i \in 1 .. Len(list) : list[i].name = name
ValueOf(list, name, default) ==
    IF Lists(list, name)
    THEN list[CHOOSE i \in 1 .. Len(list) : list[i].name = name].n
    ELSE default

\* Values that make the constructor's stoi, stoll or stoull throw
\* std::out_of_range, which nobody catches as an option error.
TooBig == [BLKSIZE |-> {"huge", "vast"}, TIMEOUT |-> {"vast"},
           TSIZE |-> {"vast"}, UNSUPPORTED |-> {}]

InLimitsAboveMinimum(o) ==
    CASE o.name = "BLKSIZE" -> o.kind = "int" /\ o.n <= MAX_BLOCK_SIZE
      [] o.name = "TIMEOUT" -> o.kind = "int" /\ o.n <= MAX_TIMEOUT
      [] o.name = "TSIZE" -> o.kind \in {"int", "huge"}
      [] OTHER -> TRUE

\* stoull wraps a negative tsize around instead of refusing it.
InLimits(o) ==
    CASE o.name = "BLKSIZE" ->
            o.kind = "int" /\ o.n \in MIN_BLOCK_SIZE .. MAX_BLOCK_SIZE
      [] o.name = "TIMEOUT" ->
            o.kind = "int" /\ o.n \in MIN_TIMEOUT .. MAX_TIMEOUT
      [] o.name = "TSIZE" -> o.kind \in {"int", "huge"}
      [] OTHER -> TRUE

\* Option::Option: how it ends.
Construct(o) ==
    IF o.kind \in TooBig[o.name] THEN "out_of_range"
    ELSE IF InLimits(o) THEN "ok" ELSE "invalid"

RepeatedUpTo(list, i) ==
    \E j \in 1 .. i : list[j].name = list[i].name

\* Compared by the enum: any two options that are not known are the same one.
RepeatedBefore(list, i) ==
    \E j \in 1 .. i - 1 : list[j].name = list[i].name

\* What TftpClient is given has passed Option's constructor, with numbers that
\* are ints and no name twice; main gives it one timeout.
ASSUME ClientListsAssumption ==
    \A list \in ClientLists : \A i \in 1 .. Len(list) :
        /\ Construct(list[i]) = "ok"
        /\ \A j \in 1 .. i - 1 : list[j].name # list[i].name
        /\ list[i].name # "UNSUPPORTED" => list[i].kind = "int"

Fault(list, i, inOack) ==
    IF list[i].kind = "cut" \/ (inOack /\ list[i].kind = "empty") THEN "illegal"
    ELSE IF Construct(list[i]) # "ok" THEN Construct(list[i])
    ELSE IF RepeatedBefore(list, i) THEN "illegal" ELSE "ok"

\* The first of a loop's outcomes that is not "ok" ends the loop.
FirstOf(outcomes) ==
    LET bad == {i \in DOMAIN outcomes : outcomes[i] # "ok"}
    IN IF bad = {} THEN "ok"
       ELSE outcomes[CHOOSE i \in bad : \A j \in bad : i <= j]

\* ParseOptions of ReadWritePacket and of OackPacket, which refuses an empty
\* value itself.
ParseOptions(list, inOack) ==
    FirstOf([i \in 1 .. Len(list) |-> Fault(list, i, inOack)])

\* The ERROR packet an exception ends in, on either side: TFTP errors are
\* sent, others (out_of_range, NotEnoughSpaceException) only logged.
ErrorCode(outcome) ==
    CASE outcome = "illegal" -> "ILLEGAL_OPERATION"
      [] outcome = "invalid" -> "FAILED_NEGOTIATION"
      [] OTHER -> NoError

\* FileHandler::HasEnoughSpace of a path that exists; a negative number is a
\* very large uintmax_t.
HasEnoughSpace(n) == n >= 0 /\ Free >= n

-----------------------------------------------------------------------------
\* The client's constructor has already run SetupUdpClient with what it is
\* going to ask for.
Init ==
    /\ world \in {"both", "client", "server"}
    /\ op \in {"RRQ", "WRQ"}
    /\ request \in IF world = "server" THEN ForeignLists ELSE ClientLists
    /\ size \in IF op = "RRQ" /\ world # "client" THEN FileSizes ELSE {0}
    /\ exists \in IF op = "RRQ" /\ world # "server" THEN BOOLEAN ELSE {FALSE}
    /\ reply = NoReply
    /\ cphase = "start"
    /\ options = IF world = "server" THEN <<>> ELSE request
    /\ cblk = ValueOf(options, "BLKSIZE", DefaultBlksize)
    /\ ctimeout = ValueOf(options, "TIMEOUT", DefaultTimeout)
    /\ cerror = NoError
    /\ sphase = "idle"
    /\ sblk = DefaultBlksize
    /\ stimeout = DefaultTimeout
    /\ bytes_read = 0

\* Option::MakeRaw throws for an option it does not know: nothing is sent.
SendRequest ==
    /\ cphase = "start"
    /\ cphase' = IF world # "server" /\ Lists(request, "UNSUPPORTED")
                 THEN "failed" ELSE "wait"
    /\ UNCHANGED <<fixedVars, options, cblk, ctimeout, cerror, serverVars>>

-----------------------------------------------------------------------------
(* The server.                                                              *)

Asked == cphase = "wait" /\ sphase = "idle" /\ world # "client"

\* The thread ends with an exception, before it has sent anything else.
ServerFails(outcome) ==
    /\ sphase' = "failed"
    /\ reply' = IF ErrorCode(outcome) = NoError THEN reply
                ELSE Answer("ERROR", <<>>, ErrorCode(outcome))
    /\ UNCHANGED <<fixedVars, clientVars, sblk, stimeout, bytes_read>>

RejectRequest ==
    /\ Asked
    /\ ParseOptions(request, FALSE) # "ok"
    /\ ServerFails(ParseOptions(request, FALSE))

\* NegotiateOptions stores tsize with stoi, and an upload must fit.
TsizeFails ==
    /\ Asked
    /\ ParseOptions(request, FALSE) = "ok"
    /\ \E i \in 1 .. Len(request) :
          /\ request[i].name = "TSIZE"
          /\ \/ request[i].kind = "huge"
             \/ op = "WRQ" /\ ~HasEnoughSpace(request[i].n)
    /\ ServerFails("exception")

BlksizeAtMostDefault(list) ==
    LET asked == ValueOf(list, "BLKSIZE", DefaultBlksize)
    IN IF asked > DefaultBlksize THEN DefaultBlksize ELSE asked

\* What NegotiateOptions stores in blksize_.
BlksizeFor(list) == ValueOf(list, "BLKSIZE", DefaultBlksize)

\* NegotiateOptions, and for an upload the space for its tsize_.
Negotiate ==
    /\ Asked
    /\ ParseOptions(request, FALSE) = "ok"
    /\ \A i \in 1 .. Len(request) : request[i].name = "TSIZE" =>
          /\ request[i].kind = "int"
          /\ op = "WRQ" => HasEnoughSpace(request[i].n)
    /\ sblk' = BlksizeFor(request)
    /\ stimeout' = ValueOf(request, "TIMEOUT", DefaultTimeout)
    /\ sphase' = IF op = "RRQ" /\ Lists(request, "TSIZE") THEN "tsize"
                 ELSE "answer"
    /\ UNCHANGED <<fixedVars, clientVars, reply, bytes_read>>

TsizeAgainFrom(n) == n >= sblk

\* The condition of the loop that measures the file.
TsizeAgain(n) == n = sblk

\* One turn of that loop: another block, an empty one at the end of the file.
\* The total goes into a copy of the option and is dropped.
TsizeRead ==
    /\ sphase = "tsize"
    /\ LET left == size - bytes_read
           n == bytes_read + IF left < sblk THEN left ELSE sblk
       IN /\ bytes_read' = n
          /\ sphase' = IF TsizeAgain(n) THEN "tsize" ELSE "answer"
    /\ UNCHANGED <<fixedVars, clientVars, reply, sblk, stimeout>>

\* negotiated_options: what the loop of NegotiateOptions has copied after i
\* options of the list.
Negotiated(list) ==
    LET copied[i \in 0 .. Len(list)] ==
            IF i = 0 THEN <<>>
            ELSE IF list[i].name = "UNSUPPORTED" THEN copied[i - 1]
            ELSE Append(copied[i - 1], list[i])
    IN copied[Len(list)]

\* An OACK with the options NegotiateOptions knows, values as requested; to a
\* request without options the first block or ACK 0.  It waits for what follows
\* with the timeout it has negotiated.
SendAnswer ==
    /\ sphase = "answer"
    /\ sphase' = "transfer"
    /\ reply' =
          IF request # <<>> THEN Answer("OACK", Negotiated(request), NoError)
          ELSE Answer(IF op = "RRQ" THEN "DATA" ELSE "ACK", <<>>, NoError)
    /\ UNCHANGED <<fixedVars, clientVars, sblk, stimeout, bytes_read>>

\* The client's first packet, ACK 0 or ACK 1 or block 1, and with it TimeoutReset:
\* the default timeout is back, whatever was negotiated.
ServerTimeoutReset ==
    /\ sphase = "transfer"
    /\ world = "server" \/ cphase \in {"transfer", "data"}
    /\ sphase' = "data"
    /\ stimeout' = DefaultTimeout
    /\ UNCHANGED <<fixedVars, clientVars, reply, sblk, bytes_read>>

\* Somebody else's server.
ForeignAnswer ==
    /\ world = "client" /\ cphase = "wait" /\ reply = NoReply
    /\ \/ \E list \in ForeignLists : reply' = Answer("OACK", list, NoError)
       \/ \E o \in {"DATA", "ACK", "ERROR"} : reply' = Answer(o, <<>>, NoError)
    /\ UNCHANGED <<fixedVars, clientVars, sphase, sblk, stimeout, bytes_read>>

-----------------------------------------------------------------------------
(* The client.                                                              *)

Answered(o) ==
    cphase = "wait" /\ world # "server" /\ reply.op = o

ClientFails(outcome) ==
    /\ cphase' = "failed"
    /\ cerror' = ErrorCode(outcome)
    /\ UNCHANGED <<fixedVars, options, cblk, ctimeout, serverVars>>

ValidAgainstAnyTimeout(o, mine) ==
    CASE o.name = "BLKSIZE" -> IF o.n > mine THEN "illegal" ELSE "ok"
      [] o.name = "TSIZE" -> IF o.kind = "huge" THEN "out_of_range"
                             ELSE IF o.n # mine THEN "illegal" ELSE "ok"
      [] o.name = "UNSUPPORTED" -> "illegal"
      [] OTHER -> "ok"

\* One option of the OACK against the client's own one of that name: blksize
\* may be smaller, timeout and tsize must be the same.
ValidAgainst(o, mine) ==
    CASE o.name = "BLKSIZE" -> IF o.n > mine THEN "illegal" ELSE "ok"
      [] o.name = "TSIZE" /\ o.kind = "huge" -> "out_of_range"
      [] o.name = "UNSUPPORTED" -> "illegal"
      [] OTHER -> IF o.n # mine THEN "illegal" ELSE "ok"

ValidateOptionsInOack(list) ==
    FirstOf([i \in 1 .. Len(list) |->
        IF Lists(options, list[i].name)
        THEN ValidAgainst(list[i], ValueOf(options, list[i].name, 0))
        ELSE "illegal"])

\* The parser, the number of options, their values, and for a download the
\* space for tsize bytes: statvfs fails on a destination that does not exist
\* yet, which counts as no space.
JudgeOack(list) ==
    FirstOf(<<ParseOptions(list, TRUE),
              IF Len(options) < Len(list) THEN "illegal" ELSE "ok",
              ValidateOptionsInOack(list),
              IF op = "RRQ" /\ Lists(list, "TSIZE")
                    /\ ~(exists /\ HasEnoughSpace(ValueOf(list, "TSIZE", 0)))
              THEN "exception" ELSE "ok">>)

\* Read calls TimeoutReset before it goes on, SendWrq returns without.
AfterAnswer(timeout) == IF op = "RRQ" THEN DefaultTimeout ELSE timeout

AcceptOack ==
    /\ Answered("OACK")
    /\ JudgeOack(reply.options) = "ok"
    /\ cphase' = "transfer"
    /\ options' = reply.options
    /\ cblk' = ValueOf(reply.options, "BLKSIZE", cblk)
    /\ ctimeout' = AfterAnswer(ValueOf(reply.options, "TIMEOUT", ctimeout))
    /\ UNCHANGED <<fixedVars, cerror, serverVars>>

RefuseOack ==
    /\ Answered("OACK")
    /\ JudgeOack(reply.options) # "ok"
    /\ ClientFails(JudgeOack(reply.options))

FirstAnswer == IF op = "RRQ" THEN "DATA" ELSE "ACK"

\* No options at the server: the client drops its own and calls
\* SetupUdpClient, which finds no option to set.
FallBack ==
    /\ Answered(FirstAnswer)
    /\ cphase' = "transfer"
    /\ options' = <<>>
    /\ ctimeout' = AfterAnswer(ctimeout)
    /\ UNCHANGED <<fixedVars, cblk, cerror, serverVars>>

ReceiveError ==
    /\ Answered("ERROR")
    /\ ClientFails("exception")

ReceiveOther ==
    /\ \E o \in {"DATA", "ACK"} \ {FirstAnswer} : Answered(o)
    /\ ClientFails("illegal")

\* The next block, or the ACK of the first one, and with it TimeoutReset.
ClientTimeoutReset ==
    /\ cphase = "transfer"
    /\ world = "client" \/ sphase = "data"
    /\ cphase' = "data"
    /\ ctimeout' = DefaultTimeout
    /\ UNCHANGED <<fixedVars, options, cblk, cerror, serverVars>>

-----------------------------------------------------------------------------
ServerStep == RejectRequest \/ TsizeFails \/ Negotiate \/ TsizeRead \/ SendAnswer
ClientStep == AcceptOack \/ RefuseOack \/ FallBack \/ ReceiveError \/ ReceiveOther

TransferStep == ServerTimeoutReset \/ ClientTimeoutReset

Next == SendRequest \/ ServerStep \/ ForeignAnswer \/ ClientStep \/ TransferStep

Spec == Init /\ [][Next]_vars

\* The server's thread goes on while it can; nobody else has to.
FairSpec == Spec /\ WF_vars(ServerStep)

-----------------------------------------------------------------------------
(* Properties.                                                              *)

ServerRuns == sphase \in {"transfer", "data"}
ClientRuns == cphase \in {"transfer", "data"}

\* Both sides use the same block size when data flows: our server the one its
\* OACK says, for everybody's client, and our client the same.  Another one
\* would make one side see the last block where there is none.  The OACK adds
\* nothing to the request and changes nothing of it, and the server waits for
\* the answer to it as long as it says.  (For no longer: AnswerInForce.)
Agreement ==
    ServerRuns =>
        /\ sblk = ValueOf(reply.options, "BLKSIZE", DefaultBlksize)
        /\ \A i \in 1 .. Len(reply.options) :
              \E j \in 1 .. Len(request) : reply.options[i] = request[j]
        /\ ClientRuns => cblk = sblk
        /\ sphase = "transfer" =>
              stimeout = ValueOf(reply.options, "TIMEOUT", DefaultTimeout)

\* What may be wrong with a request: for error 8, the value of an option that is
\* known is no number or outside of its limits; for error 4, the list is cut or
\* has a name twice.
Refused == sphase = "failed" /\ reply.op = "ERROR"
RefusalCause ==
    IF reply.code = "FAILED_NEGOTIATION"
    THEN \E i \in 1 .. Len(request) :
            /\ request[i].name # "UNSUPPORTED"
            /\ \/ request[i].kind \in {"nan", "empty", "huge"}
               \/ request[i].kind = "int" /\ ~InLimits(request[i])
    ELSE \/ \E i \in 1 .. Len(request) : request[i].kind = "cut"
         \/ \E i, j \in 1 .. Len(request) :
               i # j /\ request[i].nameStr = request[j].nameStr

OneUnknownName ==
    \A i, j \in 1 .. Len(request) :
        request[i].name = "UNSUPPORTED" /\ request[j].name = "UNSUPPORTED" =>
            request[i].nameStr = request[j].nameStr

\* A request is refused for what is wrong with it, and with the code of that, or
\* with error 4 because it has two different names that the server does not know:
\* the parser takes them for one (ReadWritePacket.cpp:104), before
\* NegotiateOptions would "ignore" them (ClientHandler.cpp:451).
RefusedForCause ==
    Refused => \/ RefusalCause
               \/ reply.code = "ILLEGAL_OPERATION" /\ ~OneUnknownName

\* An OACK our client may accept, by the comment at TftpClient.cpp:176-183: options
\* it asked for, each once, "blksize" and "timeout" the same or lower, "tsize"
\* the same.
OackFits(list) ==
    \A i \in 1 .. Len(list) :
        /\ list[i].kind \in {"int", "huge"}
        /\ \A j \in 1 .. i - 1 : list[j].name # list[i].name
        /\ \E j \in 1 .. Len(request) :
              /\ request[j].name = list[i].name
              /\ IF list[i].name = "TSIZE" THEN list[i].n = request[j].n
                 ELSE list[i].n <= request[j].n

LowerTimeout(list) ==
    \E i \in 1 .. Len(list), j \in 1 .. Len(request) :
        /\ list[i].name = "TIMEOUT" /\ request[j].name = "TIMEOUT"
        /\ list[i].n < request[j].n

\* Whatever list a server sends, the client goes on only with one that fits,
\* with the block size of the list where it has one, and an upload waits for its
\* first ACK as long as the list says; and it reports an illegal OACK only if
\* the list does not fit or has a lower timeout, which the comment allows and the
\* code refuses (TftpClient.cpp:180 and 198).
OackJudged ==
    reply.op = "OACK" =>
        /\ ClientRuns =>
              /\ OackFits(reply.options)
              /\ Lists(reply.options, "BLKSIZE") =>
                    cblk = ValueOf(reply.options, "BLKSIZE", 0)
              /\ op = "WRQ" /\ cphase = "transfer" /\ Lists(reply.options, "TIMEOUT") =>
                    ctimeout = ValueOf(reply.options, "TIMEOUT", 0)
        /\ cerror = "ILLEGAL_OPERATION" /\ ~LowerTimeout(reply.options) =>
              ~OackFits(reply.options)

\* "Timeout Option: Specifies the time both client and server wait before
\* retransmitting responses" (src/README.md:30); "set up udp_client_ to use options
\* from OACK packet" (Read.cpp:87), "to use default block size and timeout"
\* without OACK (Read.cpp:59): while data flows both sides work with the block
\* size and the timeout that the answer says, and where it says none with the
\* default.
AnswerInForce ==
    /\ ClientRuns =>
          /\ cblk = ValueOf(reply.options, "BLKSIZE", DefaultBlksize)
          /\ ctimeout = ValueOf(reply.options, "TIMEOUT", DefaultTimeout)
    /\ ServerRuns => stimeout = ValueOf(reply.options, "TIMEOUT", DefaultTimeout)

-----------------------------------------------------------------------------
(* The inductive invariant of the proofs.                                   *)

RequestInv ==
    request \in IF world = "server" THEN ForeignLists ELSE ClientLists

\* Until it has an answer the client is what its request says.
ClientInv ==
    /\ cphase \in {"start", "wait"} =>
          /\ options = IF world = "server" THEN <<>> ELSE request
          /\ cblk = ValueOf(options, "BLKSIZE", DefaultBlksize)
          /\ ctimeout = ValueOf(options, "TIMEOUT", DefaultTimeout)
    /\ cphase = "start" => reply = NoReply /\ sphase = "idle"
    /\ world = "server" => cphase \in {"start", "wait"}
    /\ world # "server" /\ cphase \notin {"start", "failed"} =>
          ~Lists(request, "UNSUPPORTED")
    /\ ClientRuns => reply # NoReply
    /\ cphase # "failed" => cerror = NoError

\* Our server works only for a client that waits, on a list that it parsed,
\* and answers with what it has stored.
ServerInv ==
    /\ sphase # "idle" => world # "client"
    /\ world # "client" /\ sphase \in {"idle", "tsize", "answer"} =>
          reply = NoReply
    /\ sphase \in {"tsize", "answer"} => cphase = "wait"
    /\ sphase \in {"tsize", "answer", "transfer", "data"} =>
          /\ ParseOptions(request, FALSE) = "ok"
          /\ sblk = ValueOf(request, "BLKSIZE", DefaultBlksize)
    /\ sphase \in {"tsize", "answer", "transfer"} =>
          stimeout = ValueOf(request, "TIMEOUT", DefaultTimeout)
    /\ ServerRuns =>
          reply = IF request # <<>>
                  THEN Answer("OACK", Negotiated(request), NoError)
                  ELSE Answer(FirstAnswer, <<>>, NoError)
    /\ sphase = "idle" => bytes_read = 0
    /\ sphase = "tsize" => bytes_read \in {0, sblk} /\ bytes_read <= size

\* Both sides of a transfer store the same.
PairInv == ServerRuns /\ ClientRuns => cblk = sblk

IInv ==
    /\ TypeOK /\ RequestInv /\ ClientInv /\ ServerInv /\ PairInv
    /\ RefusedForCause /\ OackJudged

-----------------------------------------------------------------------------
\* Requests our server leaves without an answer: a number that no conversion
\* takes, a tsize it cannot store, and the tsize of a file of exactly one
\* block, which keeps the loop going for ever.
Unanswerable ==
    \E i \in 1 .. Len(request) :
        \/ request[i].kind \in TooBig[request[i].name]
        \/ /\ request[i].name = "TSIZE"
           /\ \/ request[i].kind = "huge"
              \/ op = "WRQ" /\ ~HasEnoughSpace(request[i].n)
              \/ op = "RRQ" /\ size = ValueOf(request, "BLKSIZE", DefaultBlksize)

\* Every other request gets an answer: the tsize loop ends for a file of any
\* other size, and no other exception is swallowed.
GetsAnswer ==
    (cphase = "wait" /\ world # "client" /\ ~Unanswerable) ~> reply # NoReply
=============================================================================
