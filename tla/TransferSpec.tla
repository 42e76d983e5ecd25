---------------------------- MODULE TransferSpec ----------------------------
(***************************************************************************)
(* What a transfer promises, whatever the network does: the copy grows one  *)
(* block at a time, in file order, without gaps or repetitions; success is  *)
(* reported only for a whole copy; a transfer that fails leaves a prefix,   *)
(* or nothing when the receiver cleans up.                                  *)
(***************************************************************************)
EXTENDS Naturals, Sequences

CONSTANT NBlocks

VARIABLES copy,    \* the blocks the receiver has stored, in order
          status   \* what the requesting process reports

TInit ==
    /\ copy = <<>>
    /\ status = "running"

Extend ==
    /\ Len(copy) < NBlocks
    /\ copy' = Append(copy, Len(copy) + 1)
    /\ UNCHANGED status

Complete ==
    /\ status = "running"
    /\ Len(copy) = NBlocks
    /\ status' = "done"
    /\ UNCHANGED copy

Abort ==
    /\ status = "running"
    /\ status' = "aborted"
    /\ copy' \in {copy, <<>>}

TNext == Extend \/ Complete \/ Abort

TSpec == TInit /\ [][TNext]_<<copy, status>>
=============================================================================
