----------------------------- MODULE MCDownload -----------------------------
(* Instances of Download for TLC. *)
EXTENDS Download, TLC

Sym == Permutations(Handlers)

\* Left-overs of earlier transfers on the same ports, one for every branch the
\* transfer itself cannot reach: a block from the future in either direction,
\* an answer of the wrong kind, a request sent to a TID, a third host.
LateDatagrams ==
    UNION {{DataPacket(h, Client, NBlocks + 1, 0),
            AckPacket(Client, h, NBlocks + 1),
            OackPacket(h, Client),
            OackPacket(Client, h),
            [op |-> "RRQ", src |-> Client, dst |-> h, opts |-> TRUE],
            AckPacket(Other, h, NBlocks + 1)} : h \in Handlers}

\* The ones that are dropped without counting a retry.
UncountedDatagrams ==
    UNION {{OackPacket(h, Client), OackPacket(Client, h),
            AckPacket(Other, h, NBlocks + 1)} : h \in Handlers}

NoDatagrams == {}
=============================================================================
