---------------------------- MODULE MCTftpServer ----------------------------
(* Instances of TftpServer: the requests that race for one path.  Threads   *)
(* are interchangeable; liveness runs use no symmetry.                      *)
EXTENDS TftpServer, TLC

ThreadSymmetry == Permutations(Threads)
=============================================================================
