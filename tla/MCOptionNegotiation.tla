------------------------ MODULE MCOptionNegotiation ------------------------
(* Instances of OptionNegotiation: every list of at most two options, with  *)
(* values on both sides of every limit.                                     *)
EXTENDS OptionNegotiation

Known == [BLKSIZE |-> "blksize", TIMEOUT |-> "timeout", TSIZE |-> "tsize"]
Opt(nameStr, k, n) ==
    [name |-> NameOf(nameStr), nameStr |-> nameStr, kind |-> k, n |-> n]
Number(name, ns) == {Opt(Known[name], "int", n) : n \in ns}
Text(name, kinds) == {Opt(Known[name], k, 0) : k \in kinds}
Unknown(nameStr, kinds) == {Opt(nameStr, k, 0) : k \in kinds}

Good ==
    Number("BLKSIZE", {8, 512, 65464}) \cup Number("TIMEOUT", {1, 255})
    \cup Number("TSIZE", {-1, 0, 1000}) \cup Unknown("multicast", {"nan"})

\* The numbers of the greatest values do not matter.
Any ==
    Good
    \cup Number("BLKSIZE", {7, 65465}) \cup Number("TIMEOUT", {0, 256})
    \cup Number("TSIZE", {1001})
    \cup Text("BLKSIZE", {"huge", "nan", "cut"})
    \cup Text("TIMEOUT", {"huge", "vast", "empty"})
    \cup Text("TSIZE", {"huge", "vast", "nan"})
    \cup Unknown("multicast", {"empty", "cut"}) \cup Unknown("windowsize", {"nan"})

Pairs(first, second) == {<<a, b>> : a \in first, b \in second}
UpToTwo(S) ==
    {<<>>} \cup {<<o>> : o \in S}
    \cup Pairs({o \in S : o.kind # "cut"}, S)

MCForeignLists == UpToTwo(Any)

\* What TftpClient is given has passed Option's constructor, no name twice.
MCClientLists ==
    {l \in UpToTwo(Good) : Len(l) = 2 => l[1].name # l[2].name}

\* A client that asks for large blocks and the timeout of main.cpp, and a server
\* that knows only timeouts.
BlksizeAndTimeout == {<<Opt("blksize", "int", 1024), Opt("timeout", "int", 255)>>}
TimeoutOnly == {<<Opt("timeout", "int", 255)>>}
=============================================================================
