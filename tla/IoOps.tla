------------------------------- MODULE IoOps -------------------------------
(***************************************************************************)
(* The operations of vibeio/op, by what the drivers need to know of each.  *)
(*   waits   what poll_poll waits for when its syscall would block;        *)
(*   points  the storage the submitted entry points to, or the descriptors *)
(*           it names, that only the operation owns;                       *)
(*   keeps   what dropping the future hands to cancel_completion, which    *)
(*           holds it until the kernel has acknowledged the entry;         *)
(*   fd      whether a successful completion carries a new descriptor.     *)
(* The bytes, addresses and paths themselves are left out.                 *)
(***************************************************************************)

Operation(waits, points, keeps, fd) ==
  [waits |-> waits, points |-> points, keeps |-> keeps, fd |-> fd]

\* Stream and datagram data.  A vectored operation points to the array of
\* vectors (on Windows to its staging copy) as well as to the buffers, a datagram to its address, vector and
\* message header, boxed together.
ReadPoll == {"R"}
ReadOp == Operation(ReadPoll, {"buffer"}, {"buffer"}, FALSE)
ReadvPoll == {"R"}
ReadvOp == Operation(ReadvPoll, {"buffers", "vectors"}, {"buffers", "vectors"}, FALSE)
RecvPoll == {"R"}
RecvOp == Operation(RecvPoll, {"buffer"}, {"buffer"}, FALSE)
RecvfromPoll == {"R"}
RecvfromOp == Operation(RecvfromPoll, {"buffer", "header"}, {"buffer", "header"}, FALSE)
WritePoll == {"W"}
WriteOp == Operation(WritePoll, {"buffer"}, {"buffer"}, FALSE)
WritevPoll == {"W"}
WritevKeeps == {"buffers", "vectors"}
WritevOp == Operation(WritevPoll, {"buffers", "vectors"}, WritevKeeps, FALSE)
SendPoll == {"W"}
SendOp == Operation(SendPoll, {"buffer"}, {"buffer"}, FALSE)
SendtoPoll == {"W"}
SendtoOp == Operation(SendtoPoll, {"buffer", "header"}, {"buffer", "header"}, FALSE)

\* Sockets.  Linux accepts through one multishot entry of the listener.
AcceptPoll == {"R"}
AcceptExOp == Operation(AcceptPoll, {"socket", "addresses"}, {"socket", "addresses"}, FALSE)
AcceptUnixPoll == {"R"}
ConnectPoll == {"W"}
ConnectOp == Operation(ConnectPoll, {"address"}, {"address"}, FALSE)
ReadinessPoll == {"R", "W"}

\* Pipes: the entry names duplicates of both descriptors.
SplicePoll == {"R", "W"}
SpliceOp == Operation(SplicePoll, {"duplicates"}, {"duplicates"}, FALSE)

\* Files: completion only.
ReadatOp == Operation({}, {"buffer"}, {"buffer"}, FALSE)
WriteatOp == Operation({}, {"buffer"}, {"buffer"}, FALSE)
FsyncOp == Operation({}, {}, {}, FALSE)
OpenOp == Operation({}, {"path"}, {"path"}, TRUE)
MkDirOp == Operation({}, {"path"}, {"path"}, FALSE)
UnlinkOp == Operation({}, {"path"}, {"path"}, FALSE)
HardLinkOp == Operation({}, {"old", "new"}, {"old", "new"}, FALSE)
RenameOp == Operation({}, {"old", "new"}, {"old", "new"}, FALSE)
SymlinkOp == Operation({}, {"target", "link"}, {"target", "link"}, FALSE)
StatxOp == Operation({}, {"path", "statx"}, {"path", "statx"}, FALSE)

\* Children: a poll of the pidfd.
WaitPidPoll == {"R"}

Operations ==
  {ReadOp, ReadvOp, RecvOp, RecvfromOp, WriteOp, WritevOp, SendOp, SendtoOp, AcceptExOp,
   ConnectOp, SpliceOp, ReadatOp, WriteatOp, FsyncOp, OpenOp, MkDirOp, UnlinkOp, HardLinkOp,
   RenameOp, SymlinkOp, StatxOp}

PollInterests ==
  UNION {o.waits : o \in Operations} \cup AcceptUnixPoll \cup WaitPidPoll \cup ReadinessPoll

=============================================================================
