------------------------------ MODULE MCUpload ------------------------------
(* Instances of Upload for TLC. *)
EXTENDS Upload, TLC

Sym == Permutations(Handlers)

\* Left-overs of earlier transfers on the same ports, one for every branch the
\* transfer itself cannot reach.
LateDatagrams ==
    UNION {{AckPacket(h, Client, NBlocks + 1),
            DataPacket(Client, h, NBlocks + 1, 0),
            DataPacket(h, Client, NBlocks + 1, 0),
            OackPacket(h, Client),
            OackPacket(Client, h),
            AckPacket(Other, h, NBlocks + 1)} : h \in Handlers}

\* The ones that are dropped without counting a retry.
UncountedDatagrams ==
    UNION {{OackPacket(h, Client), OackPacket(Client, h),
            AckPacket(Other, h, NBlocks + 1)} : h \in Handlers}

NoDatagrams == {}

\* What the network may drop, per run.
MiddleAcks == {AckPacket(h, Client, n) : h \in Handlers, n \in 1 .. NBlocks - 1}
LastAck == {AckPacket(h, Client, NBlocks) : h \in Handlers}
Data == {DataPacket(Client, h, n, NBlocks) : h \in Handlers, n \in 1 .. NBlocks}
AnyAnswer == MiddleAcks \cup LastAck \cup Data
             \cup {OackPacket(h, Client) : h \in Handlers}
=============================================================================
