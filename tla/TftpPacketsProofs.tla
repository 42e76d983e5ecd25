------------------------- MODULE TftpPacketsProofs -------------------------
(***************************************************************************)
(* Facts about packets and socket timers on which the proofs about          *)
(* transfers rest.                                                          *)
(***************************************************************************)
EXTENDS TftpPackets, UdpClient, Induction

USE ModulusAssumption, HandlersAssumption

-----------------------------------------------------------------------------
(* Packets: what a receiver may assume of any datagram, and what each       *)
(* constructor builds.  With these the record types stay out of the proofs. *)

\* What is sent as a block number is one; below 2^16 it is the number itself.
LEMMA WireFacts ==
    ASSUME NEW n \in Nat
    PROVE  /\ Wire(n) \in BlockNumbers
           /\ n < Modulus => Wire(n) = n
           /\ n = Modulus => Wire(n) = 0
BY DEF Wire, BlockNumbers

\* Every datagram has addresses, and the fields its opcode calls for.
LEMMA PacketFields ==
    ASSUME NEW m \in Packets
    PROVE  /\ m.src \in Endpoints /\ m.dst \in Endpoints
           /\ m.op \in {"DATA", "ACK"} => m.blk \in BlockNumbers
           /\ m.op = "DATA" => m.val \in Nat
BY SMTT(30) DEF Packets

\* A request goes from the client to the well-known port.
LEMMA RequestFields ==
    ASSUME NEW op \in {"RRQ", "WRQ"}, NEW opts \in BOOLEAN
    PROVE  LET m == RequestPacket(op, opts) IN
           /\ m \in Packets
           /\ m.op = op /\ m.opts = opts /\ m.src = Client /\ m.dst = Main
BY DEF RequestPacket, Packets, Endpoints

\* A DATA packet carries block n under the number n mod 2^16.
LEMMA DataFields ==
    ASSUME NEW src \in Endpoints, NEW dst \in Endpoints, NEW n \in Nat,
           NEW last \in Nat
    PROVE  LET m == DataPacket(src, dst, n, last) IN
           /\ m \in Packets
           /\ m.op = "DATA" /\ m.src = src /\ m.dst = dst
           /\ m.blk = Wire(n) /\ m.val = n
           /\ m.short <=> n = last
<1>1. Wire(n) \in BlockNumbers
  BY WireFacts
<1>2. (n = last) \in BOOLEAN
  OBVIOUS
<1> QED
  BY <1>1, <1>2 DEF DataPacket, Packets

\* An ACK carries n mod 2^16.
LEMMA AckFields ==
    ASSUME NEW src \in Endpoints, NEW dst \in Endpoints, NEW n \in Nat
    PROVE  LET m == AckPacket(src, dst, n) IN
           /\ m \in Packets
           /\ m.op = "ACK" /\ m.src = src /\ m.dst = dst /\ m.blk = Wire(n)
BY WireFacts DEF AckPacket, Packets

\* An OACK has addresses only.
LEMMA OackFields ==
    ASSUME NEW src \in Endpoints, NEW dst \in Endpoints
    PROVE  LET m == OackPacket(src, dst) IN
           /\ m \in Packets
           /\ m.op = "OACK" /\ m.src = src /\ m.dst = dst
BY DEF OackPacket, Packets

\* An ERROR packet carries one of the error codes.
LEMMA ErrorFields ==
    ASSUME NEW src \in Endpoints, NEW dst \in Endpoints, NEW code \in ErrorCodes
    PROVE  LET m == ErrorPacket(src, dst, code) IN
           /\ m \in Packets
           /\ m.op = "ERROR" /\ m.src = src /\ m.dst = dst
BY DEF ErrorPacket, Packets

\* The operations on a socket's timer yield a socket.
LEMMA SocketType ==
    ASSUME NEW u \in Socket
    PROVE  /\ IncreaseTimeout(u) \in Socket
           /\ TimeoutReset(u) \in Socket
           /\ \A t \in Nat : ChangeTimeout(u, t) \in Socket
BY DEF Socket, IncreaseTimeout, TimeoutReset, ChangeTimeout, DefaultTimeout

\* A new socket is one.
LEMMA NewSocket == NewUdpClient \in Socket
BY DEF Socket, NewUdpClient, DefaultTimeout

\* What the recursive definition of the backoff computes.
LEMMA DoubledFacts ==
    /\ Doubled[0] = DefaultTimeout
    /\ \A r \in Nat : /\ Doubled[r] \in Nat /\ Doubled[r] >= DefaultTimeout
                     /\ Doubled[r + 1] = 2 * Doubled[r]
<1> DEFINE Body(f) == [r \in Nat |-> IF r = 0 THEN DefaultTimeout ELSE 2 * f[r - 1]]
           step == [t \in Nat |-> 2 * t]
           f == CHOOSE g : g = Body(g)
<1>1. DefaultTimeout \in Nat
  BY DEF DefaultTimeout
<1>2. step \in [Nat -> Nat] /\ \A t \in Nat : step[t] = 2 * t
  OBVIOUS
<1>3. PICK g : ComputesAll(g, DefaultTimeout, step, Nat)
  <2>1. IsNatStep(step, Nat)
    BY <1>2 DEF IsNatStep
  <2> HIDE DEF step
  <2> QED
    BY <1>1, <2>1, NatRecursion
<1>4. g = Body(g)
  <2>1. \A r \in Nat : r # 0 => g[r] = 2 * g[r - 1]
    <3> SUFFICES ASSUME NEW r \in Nat, r # 0 PROVE g[r] = 2 * g[r - 1]
      OBVIOUS
    <3>1. r - 1 \in Nat /\ (r - 1) + 1 = r /\ g[r - 1] \in Nat
      BY <1>3 DEF ComputesAll
    <3> HIDE DEF step
    <3> QED
      BY <1>2, <1>3, <3>1 DEF ComputesAll
  <2> QED
    BY <1>3, <2>1 DEF ComputesAll
<1>5. f = Body(f)
  <2> HIDE DEF Body
  <2> QED
    BY <1>4
<1>6. Doubled = f
  BY DEF Doubled
<1> HIDE DEF f
<1>7. f[0] = DefaultTimeout /\ \A r \in Nat : f[r + 1] = 2 * f[r]
  <2>1. \A r \in Nat : f[r] = IF r = 0 THEN DefaultTimeout ELSE 2 * f[r - 1]
    BY <1>5
  <2>2. \A r \in Nat : r + 1 \in Nat /\ r + 1 # 0 /\ (r + 1) - 1 = r
    OBVIOUS
  <2> HIDE DEF Body
  <2> QED
    BY <2>1, <2>2
<1> HIDE DEF Body, step
<1> DEFINE S == {r \in Nat : f[r] \in Nat /\ f[r] >= DefaultTimeout}
<1>8. 0 \in S
  BY <1>1, <1>7
<1>9. ASSUME NEW r \in Nat, r \in S PROVE r + 1 \in S
  <2>1. f[r + 1] = 2 * f[r] /\ f[r] \in Nat /\ f[r] >= DefaultTimeout
    BY <1>7, <1>9
  <2> QED
    BY <1>1, <2>1
<1>10. \A r \in Nat : r \in S
  <2> HIDE DEF S
  <2> QED
    BY <1>8, <1>9, SetInduction
<1> QED
  BY <1>6, <1>7, <1>10

\* A longer timeout with the retry, a fresh one with a fresh count.
LEMMA TimerFacts ==
    ASSUME NEW r \in Nat, NEW u \in Socket
    PROVE  /\ Doubled[0] = 1 /\ Doubled[r] \in Nat /\ Doubled[r] >= 1
           /\ Doubled[r + 1] = 2 * Doubled[r]
           /\ IncreaseTimeout(u).timeout = 2 * u.timeout
           /\ IncreaseTimeout(u).rcvtimeo = 2 * u.timeout
           /\ TimeoutReset(u).timeout = 1 /\ TimeoutReset(u).rcvtimeo = 1
           /\ \A t : ChangeTimeout(u, t).timeout = u.timeout
           /\ \A t : ChangeTimeout(u, t).rcvtimeo = t
           /\ u.timeout \in Nat
BY DoubledFacts DEF Socket, IncreaseTimeout, TimeoutReset, ChangeTimeout,
                    DefaultTimeout
=============================================================================
