----------------------------- MODULE TftpServer -----------------------------
(***************************************************************************)
(* The server process: the main loop of TftpServer::run, the threads it     *)
(* starts, the directory they share, and SIGINT.                            *)
(*                                                                          *)
(* A step is a system call that others can observe: a thread blocks in      *)
(* recvfrom, returns from it, opens, writes, reads or deletes a file.  What *)
(* a thread says to its client is the subject of Download and Upload; here  *)
(* the awaited packet arrives, or it does not.  All uploads have the same   *)
(* number of blocks, the last one short.                                    *)
(*                                                                          *)
(* Files have an identity apart from their name, as inodes do: a thread     *)
(* goes on writing to a file it opened after another one unlinked it.  The  *)
(* name of a file that was there before the server is also its inode; a     *)
(* file created by an upload has the thread as inode.                       *)
(***************************************************************************)
EXTENDS Naturals, Sequences, FiniteSets

CONSTANTS Threads, Paths, NBlocks, Faults

ASSUME ServerAssumption ==
    NBlocks \in Nat \ {0} /\ Faults \subseteq {"full", "denied"}

Inodes == Paths \cup Threads
None == "none"
Hole == <<None, 0>>

ASSUME NoneAssumption == None \notin Inodes /\ Threads \cap Paths = {}
ASSUME ThreadsAssumption == IsFiniteSet(Threads)

Block(who, i) == <<who, i>>
Input(who, n) == [i \in 1 .. n |-> Block(who, i)]

VARIABLES
    status,    \* of the process: up, or how it ended
    sigint,    \* SIGINT_RECEIVED
    main,      \* where TftpServer::run is
    dir,       \* directory: the inode each path names
    content,   \* inode: blocks, Hole where nothing was written
    \* a thread: ClientHandler and the locals of FollowOnRRQ, FollowOnWRQ
    tphase,
    job,       \* opcode and path of the intro packet
    fd,        \* inode its Reader or Writer has open
    pos,       \* calls of WriteFile or ReadFile that returned
    fetched    \* what its Reader has read from the file so far

threadVars == <<tphase, job, fd, pos, fetched>>
vars == <<status, sigint, main, dir, content, threadVars>>

Jobs == [op : {"RRQ", "WRQ"}, path : Paths]
NoJob == [op |-> None, path |-> None]

Ended == {"refused", "failed", "done"}
Busy == {"intro", "check", "recv", "open", "write", "read", "cleanup", "abort"}

TypeOK ==
    /\ status \in {"up", "stopped", "killed", "terminated"}
    /\ sigint \in BOOLEAN
    /\ main \in {"check", "enter", "recv", "signal", "join"}
    /\ dir \in [Paths -> Inodes \cup {None}]
    /\ content \in [Inodes -> Seq((Inodes \X (1 .. NBlocks)) \cup {Hole})]
    /\ tphase \in [Threads -> {"none"} \cup Busy \cup Ended]
    /\ job \in [Threads -> Jobs \cup {NoJob}]
    /\ fd \in [Threads -> Inodes \cup {None}]
    /\ pos \in [Threads -> 0 .. NBlocks + 1]
    /\ fetched \in [Threads -> Seq((Inodes \X (1 .. NBlocks)) \cup {Hole})]

Init ==
    /\ status = "up"
    /\ sigint = FALSE
    /\ main = "check"
    /\ \E old \in SUBSET Paths :
          /\ dir = [p \in Paths |-> IF p \in old THEN p ELSE None]
          /\ content = [n \in Inodes |->
                          IF n \in old THEN Input(n, NBlocks) ELSE <<>>]
    /\ tphase = [t \in Threads |-> "none"]
    /\ job = [t \in Threads |-> NoJob]
    /\ fd = [t \in Threads |-> None]
    /\ pos = [t \in Threads |-> 0]
    /\ fetched = [t \in Threads |-> <<>>]

-----------------------------------------------------------------------------
(* The main thread.                                                         *)

\* SigintHandler.  Linux gives a signal of the process to its main thread: if
\* that one is inside recvfrom, UdpServer::Receive returns false and both
\* loops are left.  Between a check of the flag and recvfrom it interrupts
\* nothing.
Sigint ==
    /\ status = "up"
    /\ sigint' = TRUE
    /\ main' = IF main = "recv" THEN "signal" ELSE main
    /\ UNCHANGED <<status, dir, content, threadVars>>

CheckFlagOnce ==
    /\ status = "up"
    /\ main = "check"
    /\ main' = "enter"
    /\ UNCHANGED <<status, sigint, dir, content, threadVars>>

\* The checks of the flag by run() and, just before recvfrom, by
\* UdpServer::Receive.
CheckFlag ==
    /\ status = "up"
    /\ main = "check"
    /\ main' = IF sigint THEN "signal" ELSE "enter"
    /\ UNCHANGED <<status, sigint, dir, content, threadVars>>

\* The call of recvfrom: from here on a signal interrupts it.
EnterRecv ==
    /\ status = "up"
    /\ main = "enter"
    /\ main' = "recv"
    /\ UNCHANGED <<status, sigint, dir, content, threadVars>>

\* A request arrives and gets a thread, unless SIGINT came first.
Accept(t, j) ==
    /\ status = "up"
    /\ main = "recv"
    /\ tphase[t] = "none"
    /\ IF sigint
       THEN main' = "signal" /\ UNCHANGED threadVars
       ELSE /\ main' = "check"
            /\ tphase' = [tphase EXCEPT ![t] = "intro"]
            /\ job' = [job EXCEPT ![t] = j]
            /\ UNCHANGED <<fd, pos, fetched>>
    /\ UNCHANGED <<status, sigint, dir, content>>

\* pthread_kill(SIGUSR1) to every thread.  Nobody handles SIGUSR1, so the
\* first thread that still runs takes the whole process down.
SignalThreads ==
    /\ status = "up"
    /\ main = "signal"
    /\ IF \E t \in Threads : tphase[t] \in Busy
       THEN status' = "killed" /\ UNCHANGED main
       ELSE main' = "join" /\ UNCHANGED status
    /\ UNCHANGED <<sigint, dir, content, threadVars>>

\* Every thread has been joined, and run() returns.
Join ==
    /\ status = "up"
    /\ main = "join"
    /\ \A t \in Threads : tphase[t] \in Ended \cup {"none"}
    /\ status' = "stopped"
    /\ UNCHANGED <<sigint, main, dir, content, threadVars>>

MainStep == CheckFlag \/ EnterRecv \/ SignalThreads \/ Join

-----------------------------------------------------------------------------
(* A thread.                                                                *)

At(t, ph) == status = "up" /\ tphase[t] = ph
Goto(t, ph) == tphase' = [tphase EXCEPT ![t] = ph]
PathOf(t) == job[t].path
IsWrq(t) == job[t].op = "WRQ"

\* FileHandler::FileExists.
FileExists(p) == dir[p] # None

IntroWrqUnchecked(t) ==
    /\ At(t, "intro") /\ IsWrq(t)
    /\ Goto(t, "check")
    /\ UNCHANGED <<status, sigint, main, dir, content, job, fd, pos, fetched>>

\* FollowOnWRQ up to its first answer: the path must be free.
IntroWrq(t) ==
    /\ At(t, "intro") /\ IsWrq(t)
    /\ Goto(t, IF FileExists(PathOf(t)) THEN "refused" ELSE "check")
    /\ UNCHANGED <<status, sigint, main, dir, content, job, fd, pos, fetched>>

\* FollowOnRRQ up to its first answer: an OACK, or the first block at once.
IntroRrq(t) ==
    /\ At(t, "intro") /\ ~IsWrq(t)
    /\ \/ ~FileExists(PathOf(t)) /\ Goto(t, "refused")
       \/ FileExists(PathOf(t)) /\ (Goto(t, "check") \/ Goto(t, "read"))
    /\ UNCHANGED <<status, sigint, main, dir, content, job, fd, pos, fetched>>

\* A request that is refused for another reason: malformed, of another kind,
\* outside of the root directory, or with options that cannot be had.
RefuseIntro(t) ==
    /\ At(t, "intro")
    /\ Goto(t, "refused")
    /\ UNCHANGED <<status, sigint, main, dir, content, job, fd, pos, fetched>>

\* UdpClient::Receive looks at the flag before it blocks; its
\* UdpSigintException leads to CheckForSigintWRQ or CheckForSigintRRQ, which
\* tell the client and close the file.
CheckBeforeReceive(t) ==
    /\ At(t, "check")
    /\ Goto(t, IF sigint THEN "cleanup" ELSE "recv")
    /\ UNCHANGED <<status, sigint, main, dir, content, job, fd, pos, fetched>>

\* The last block a reading thread sent was short: the file's own last block,
\* or an empty one at what was then the end of the file.
LastSent(t) ==
    /\ pos[t] > 0
    /\ pos[t] <= Len(fetched[t]) => fetched[t][pos[t]][2] = NBlocks

\* The awaited DATA or ACK arrives.
Receive(t) ==
    /\ At(t, "recv")
    /\ Goto(t, IF IsWrq(t) THEN IF fd[t] = None THEN "open" ELSE "write"
               ELSE IF LastSent(t) THEN "done" ELSE "read")
    /\ UNCHANGED <<status, sigint, main, dir, content, job, fd, pos, fetched>>

\* A timeout or an unusable packet with retries left.
Retry(t) ==
    /\ At(t, "recv")
    /\ Goto(t, "check")
    /\ UNCHANGED <<status, sigint, main, dir, content, job, fd, pos, fetched>>

\* The retry limit, an ERROR or an illegal packet: the thread ends and its
\* file stays as it is.  For a sender's last block the limit is no error.
GiveUp(t) ==
    /\ At(t, "recv")
    /\ \/ Goto(t, "failed")
       \/ ~IsWrq(t) /\ LastSent(t) /\ Goto(t, "done")
    /\ UNCHANGED <<status, sigint, main, dir, content, job, fd, pos, fetched>>

\* Writer::OpenFile, when the first block has come: creates or empties.
OpenFile(t) ==
    /\ At(t, "open")
    /\ LET n == IF FileExists(PathOf(t)) THEN dir[PathOf(t)] ELSE t
       IN /\ dir' = [dir EXCEPT ![PathOf(t)] = n]
          /\ content' = [content EXCEPT ![n] = <<>>]
          /\ fd' = [fd EXCEPT ![t] = n]
    /\ Goto(t, "write")
    /\ UNCHANGED <<status, sigint, main, job, pos, fetched>>

OpenFails(t) ==
    /\ "denied" \in Faults
    /\ At(t, "open")
    /\ Goto(t, "failed")
    /\ UNCHANGED <<status, sigint, main, dir, content, job, fd, pos, fetched>>

WrittenAtEnd(s, i, b) == Append(s, b)

\* A write at the writer's own offset, wherever the file ends by now.
Written(s, i, b) ==
    [k \in 1 .. IF Len(s) < i THEN i ELSE Len(s) |->
        IF k = i THEN b ELSE IF k <= Len(s) THEN s[k] ELSE Hole]

WriteFileAnew(t) ==
    /\ At(t, "write")
    /\ LET i == pos[t] + 1
       IN /\ content' = [content EXCEPT ![fd[t]] = Written(<<>>, i, Block(t, i))]
          /\ pos' = [pos EXCEPT ![t] = i]
          /\ Goto(t, IF i = NBlocks THEN "done" ELSE "check")
    /\ UNCHANGED <<status, sigint, main, dir, job, fd, fetched>>

\* Writer::WriteFile; after the short block the final ACK, and the end.
WriteFile(t) ==
    /\ At(t, "write")
    /\ LET i == pos[t] + 1
       IN /\ content' = [content EXCEPT ![fd[t]] = Written(@, i, Block(t, i))]
          /\ pos' = [pos EXCEPT ![t] = i]
          /\ Goto(t, IF i = NBlocks THEN "done" ELSE "check")
    /\ UNCHANGED <<status, sigint, main, dir, job, fd, fetched>>

WriteFails(t) ==
    /\ "full" \in Faults
    /\ At(t, "write")
    /\ Goto(t, "failed")
    /\ UNCHANGED <<status, sigint, main, dir, content, job, fd, pos, fetched>>

ReadFileAnew(t) ==
    /\ At(t, "read")
    /\ FileExists(PathOf(t))
    /\ fd' = [fd EXCEPT ![t] = dir[PathOf(t)]]
    /\ pos' = [pos EXCEPT ![t] = @ + 1]
    /\ fetched' = IF content[dir[PathOf(t)]] = <<>> THEN fetched
                  ELSE [fetched EXCEPT ![t] =
                           Append(@, Head(content[dir[PathOf(t)]]))]
    /\ Goto(t, "check")
    /\ UNCHANGED <<status, sigint, main, dir, content, job>>

\* Reader::ReadFile: the name must still exist; the first call opens it; at
\* the end of the file the block is empty.  The stream reads ahead, by as
\* much as its buffer holds, so a later block can be older than its call.
ReadFile(t) ==
    /\ At(t, "read")
    /\ FileExists(PathOf(t))
    /\ LET n == IF fd[t] = None THEN dir[PathOf(t)] ELSE fd[t]
           i == pos[t] + 1
       IN /\ fd' = [fd EXCEPT ![t] = n]
          /\ pos' = [pos EXCEPT ![t] = i]
          /\ IF Len(fetched[t]) < i /\ i <= Len(content[n])
             THEN \E k \in i .. Len(content[n]) :
                     fetched' = [fetched EXCEPT ![t] =
                                    @ \o SubSeq(content[n], i, k)]
             ELSE UNCHANGED fetched
    /\ Goto(t, "check")
    /\ UNCHANGED <<status, sigint, main, dir, content, job>>

\* FileDoesNotExistException and FailedToOpenFileException are no TFTP
\* errors: the client is not told.
ReadFails(t) ==
    /\ At(t, "read")
    /\ ~FileExists(PathOf(t)) \/ (fd[t] = None /\ "denied" \in Faults)
    /\ Goto(t, "failed")
    /\ UNCHANGED <<status, sigint, main, dir, content, job, fd, pos, fetched>>

\* FileHandler::DeleteFile of the thread's path, for both kinds of job,
\* whoever created the file.
DeleteFile(t) ==
    /\ At(t, "cleanup")
    /\ dir' = [dir EXCEPT ![PathOf(t)] = None]
    /\ Goto(t, "abort")
    /\ UNCHANGED <<status, sigint, main, content, job, fd, pos, fetched>>

\* std::terminate ends the process, not only the thread.
Terminate(t) ==
    /\ At(t, "abort")
    /\ status' = "terminated"
    /\ UNCHANGED <<sigint, main, dir, content, threadVars>>

ThreadStep(t) ==
    \/ IntroWrq(t) \/ IntroRrq(t) \/ RefuseIntro(t)
    \/ CheckBeforeReceive(t)
    \/ Receive(t) \/ Retry(t) \/ GiveUp(t)
    \/ OpenFile(t) \/ OpenFails(t) \/ WriteFile(t) \/ WriteFails(t)
    \/ ReadFile(t) \/ ReadFails(t)
    \/ DeleteFile(t) \/ Terminate(t)

-----------------------------------------------------------------------------
Next ==
    \/ MainStep
    \/ Sigint
    \/ \E t \in Threads, j \in Jobs : Accept(t, j)
    \/ \E t \in Threads : ThreadStep(t)

Spec == Init /\ [][Next]_vars

\* Every thread is scheduled; SO_RCVTIMEO ends every wait of a thread.  The
\* main thread waits without a limit, so Accept is not fair.
FairSpec ==
    /\ Spec
    /\ WF_vars(MainStep)
    /\ \A t \in Threads : WF_vars(ThreadStep(t))

-----------------------------------------------------------------------------
(* Properties.                                                              *)

\* An upload that got past FileExists.
Admitted(t) == IsWrq(t) /\ tphase[t] \notin {"none", "intro", "refused"}

\* A file that was there before is neither written nor replaced by any
\* upload, whatever the interleaving of checks and openings; only the cleanup
\* after SIGINT (CheckForSigintRRQ deletes what it was only reading) removes
\* its name.
ExistingFileKept ==
    [][\A p \in Paths : dir[p] = p =>
          content'[p] = content[p] /\ (dir'[p] = p \/ sigint)]_vars

\* An upload, as long as no other one of its path has got past FileExists, has
\* in its file exactly the blocks it wrote, during the transfer and after it,
\* and the path keeps naming that file until a SIGINT: later requests for it are
\* refused, also when it failed half-way.
LoneUploadIntact ==
    \A t \in Threads :
        /\ Admitted(t) /\ fd[t] # None
        /\ \A u \in Threads \ {t} : PathOf(u) = PathOf(t) => ~Admitted(u)
        => /\ content[fd[t]] = Input(t, pos[t])
           /\ dir[PathOf(t)] = fd[t] \/ sigint

\* However uploads of one path race in Writer, a block is stored at the place
\* of its own number, and a hole needs two writers on the file, one of which
\* emptied it under the other.
BlocksInPlace ==
    \A n \in Inodes : \A i \in 1 .. Len(content[n]) :
        \/ content[n][i][2] = i
        \/ /\ content[n][i] = Hole
           /\ Cardinality({t \in Threads : IsWrq(t) /\ fd[t] = n}) > 1

\* What a download sent, block by block.
Sent(t) == SubSeq(fetched[t], 1, IF pos[t] < Len(fetched[t])
                                 THEN pos[t] ELSE Len(fetched[t]))

\* A download whose file has at most one writer sends a prefix of one file,
\* also when the file grows, is abandoned or loses its name meanwhile, and
\* one of a file that was there before ends well only after its last block.
ServedPrefix ==
    \A t \in Threads : ~IsWrq(t) /\ fd[t] # None =>
        LET writers == {u \in Threads : IsWrq(u) /\ fd[u] = fd[t]}
        IN Cardinality(writers) <= 1 =>
             /\ \E w \in writers \cup {fd[t]} : Sent(t) = Input(w, Len(Sent(t)))
             /\ tphase[t] = "done" /\ fd[t] \in Paths =>
                    Len(Sent(t)) = NBlocks

-----------------------------------------------------------------------------
(* The inductive invariant of the proofs.                                   *)

Writes(t, n) == IsWrq(t) /\ fd[t] = n
SoleWriter(t, n) == Writes(t, n) /\ \A u \in Threads \ {t} : ~Writes(u, n)
Alone(t) == \A u \in Threads \ {t} : PathOf(u) = PathOf(t) => ~Admitted(u)

\* Where a thread is tells what it has done.
PhaseInv(t) ==
    /\ tphase[t] # "none" => job[t] \in Jobs
    /\ tphase[t] = "none" => job[t] = NoJob
    /\ tphase[t] \in {"none", "intro", "refused"} => fd[t] = None
    /\ fd[t] = None => pos[t] = 0
    /\ tphase[t] \in {"cleanup", "abort"} => sigint
    /\ IsWrq(t) =>
          /\ tphase[t] # "read"
          /\ tphase[t] = "open" => fd[t] = None
          /\ tphase[t] = "write" => fd[t] # None
          /\ tphase[t] \in {"check", "recv", "open", "write"} => pos[t] < NBlocks

\* A reading thread has sent what it has fetched, and asks for more only then.
FetchInv(t) ==
    /\ Len(fetched[t]) <= NBlocks
    /\ pos[t] = 0 => fetched[t] = <<>>
    /\ ~IsWrq(t) =>
          /\ tphase[t] \notin {"open", "write"}
          /\ tphase[t] = "read" => pos[t] <= Len(fetched[t])
          /\ tphase[t] = "done" => LastSent(t)
          /\ \A n \in Inodes : fd[t] = n =>
                /\ n \in Paths \/ SoleWriter(n, n) =>
                      fetched[t] = Input(n, Len(fetched[t]))
                /\ n \in Paths /\ Len(fetched[t]) < pos[t] =>
                      Len(fetched[t]) = NBlocks

\* An inode is that of an old file, or that of the thread that created it at
\* its path and has it open.
InodeInv ==
    /\ \A p \in Paths : dir[p] \notin {None, p} =>
          /\ dir[p] \in Threads
          /\ Writes(dir[p], dir[p]) /\ PathOf(dir[p]) = p
    /\ \A t \in Threads : fd[t] # None =>
          \/ fd[t] = PathOf(t) /\ ~IsWrq(t)
          \/ /\ fd[t] \in Threads
             /\ Writes(fd[t], fd[t]) /\ PathOf(fd[t]) = PathOf(t)

\* An upload is admitted for a free path, so it never meets an old file there;
\* if no other upload was admitted for it, it meets no file at all.
UploadInv(t) ==
    Admitted(t) =>
       /\ dir[PathOf(t)] # PathOf(t)
       /\ Alone(t) => IF fd[t] = None THEN dir[PathOf(t)] = None
                      ELSE fd[t] = t /\ (dir[PathOf(t)] = t \/ sigint)

\* Old files keep their blocks; a writer that is alone on its file has stored
\* what it has received; a file shorter than that has another writer.
ContentInv ==
    /\ \A n \in Inodes : Len(content[n]) <= NBlocks
    /\ \A p \in Paths :
          \/ content[p] = Input(p, NBlocks)
          \/ dir[p] # p /\ \A t \in Threads : fd[t] # p
    /\ \A t \in Threads : SoleWriter(t, t) => content[t] = Input(t, pos[t])
    /\ \A n \in Inodes, t \in Threads : Writes(t, n) =>
          \/ pos[t] <= Len(content[n])
          \/ \E u \in Threads \ {t} : Writes(u, n)

\* A block is at its place; a hole needs two writers.
PlaceInv ==
    \A n \in Inodes : \A i \in 1 .. Len(content[n]) :
        \/ content[n][i][2] = i
        \/ /\ content[n][i] = Hole
           /\ \E t \in Threads : \E u \in Threads \ {t} :
                 Writes(t, n) /\ Writes(u, n)

IInv ==
    /\ TypeOK /\ InodeInv /\ ContentInv /\ PlaceInv
    /\ \A t \in Threads : PhaseInv(t) /\ FetchInv(t) /\ UploadInv(t)

-----------------------------------------------------------------------------
\* After SIGINT the process ends, by itself or by a signal, unless the flag
\* was set in the window between the test in UdpServer::Receive and recvfrom,
\* which nothing then interrupts.
Stops == (sigint /\ main \notin {"enter", "recv"}) ~> status # "up"

\* The manual's shutdown: "potentially created and unfinished resources are
\* cleaned" before the server ends.
ShutdownCleansUp ==
    status # "up" =>
        \A t \in Threads : IsWrq(t) /\ fd[t] # None /\ tphase[t] \in Busy =>
            dir[PathOf(t)] # fd[t]
=============================================================================
