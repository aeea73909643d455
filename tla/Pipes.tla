------------------------------- MODULE Pipes --------------------------------
(***************************************************************************)
(* copy (vibeio/io/util.rs) between the endpoints a process is given: the  *)
(* pipes of a child (vibeio/process/mod.rs) and the standard streams       *)
(* (vibeio/io/stdio.rs).  An endpoint works by one of these routes:        *)
(*    "async"    registered with the driver: an operation moves data when  *)
(*               it is ready and a dropped one has moved none              *)
(*    "pool"     a child's pipe that could not be registered: it is moved, *)
(*               with the buffer, to a pool thread and back                *)
(*    "stdio"    a standard stream: only the buffer goes to the pool       *)
(*    "direct"   no runtime: the call blocks the thread                    *)
(*    "foreign"  an AsyncRead or AsyncWrite of the caller's own, which may *)
(*               report more than it was given                             *)
(* The future of a copy can be dropped wherever it waits; what it had sent *)
(* to the pool is then done all the same.                                  *)
(***************************************************************************)
EXTENDS Naturals, Sequences, FiniteSets, SequencesExt

CONSTANTS CopyBytes,    \* bytes the source produces: 1 .. CopyBytes
          CopyBuffer,   \* room of copy's buffer
          CopyCalls,    \* bound: calls of copy
          CopyRoutes    \* the <<source, destination>> routes to check

ASSUME PipeCopyAssumption == CopyBytes \in Nat /\ CopyBuffer \in Nat \ {0} /\ CopyCalls \in Nat

VARIABLES croute,       \* [src, dst]
          cheld,        \* cheld[e]: the endpoint is "here", "lent" to a job or "lost"
          cpc,          \* where copy is
          cbuf,         \* the rest of the chunk: IoBufWithCursor
          cround,       \* bytes of the chunk, added to copied at its end
          ccopied,      \* copied
          cjob,         \* the pool job copy waits for
          corphans,     \* pool jobs whose future was dropped
          cpipe,        \* bytes in the source
          csent,        \* bytes the source has produced
          cclosed,      \* the source is at its end
          csink,        \* what the destination received
          clost,        \* history: bytes dropped with a future or a failed call
          cbase,        \* history: Len(csink) at the start of this call
          cdrops,       \* history: endpoints that were lent when a future was dropped
          ccalls,       \* calls made
          cres          \* what the last call returned

copyVars == <<croute, cheld, cpc, cbuf, cround, ccopied, cjob, corphans, cpipe, csent,
              cclosed, csink, clost, cbase, cdrops, ccalls, cres>>

CopyEnds == {"src", "dst"}
NoCopyJob == [kind |-> "none", end |-> "src", data |-> <<>>, st |-> "none", res |-> <<"none", 0>>, call |-> 0]

PipeCopyInit ==
  /\ \E r \in CopyRoutes : croute = [src |-> r[1], dst |-> r[2]]
  /\ cheld = [e \in CopyEnds |-> "here"]
  /\ cpc = "idle" /\ cbuf = <<>> /\ cround = 0 /\ ccopied = 0
  /\ cjob = NoCopyJob /\ corphans = {}
  /\ cpipe = <<>> /\ csent = 0 /\ cclosed = FALSE /\ csink = <<>>
  /\ clost = {} /\ cbase = 0 /\ cdrops = {} /\ ccalls = 0 /\ cres = "none"

-----------------------------------------------------------------------------
(* What an operation on an endpoint can come back with: <<"n", bytes moved>> *)
(* or <<error, 0>>.                                                          *)
Failures == {<<"interrupted", 0>>, <<"error", 0>>}
Misreport(e) == IF croute[e] = "foreign" THEN {<<"toomuch", 0>>} ELSE {}
ReadResults ==
  (IF cpipe # <<>> THEN {<<"n", k>> : k \in {i \in 1..CopyBuffer : i <= Len(cpipe)}}
   ELSE IF cclosed THEN {<<"n", 0>>} ELSE {})
    \cup Failures \cup Misreport("src")
WriteResults(data) == {<<"n", k>> : k \in 0..Len(data)} \cup Failures \cup Misreport("dst")
FlushResults == {<<"n", 0>>} \cup Failures

\* Kernel side of a read that moved k bytes, of a write of the first k of data.
PipeAfter(r) == SubSeq(cpipe, r[2] + 1, Len(cpipe))
SinkAfter(data, r) == csink \o SubSeq(data, 1, r[2])

\* IoBufWithCursor::advance.
advance(data, k) == SubSeq(data, k + 1, Len(data))

-----------------------------------------------------------------------------
(* copy *)
copy ==
  /\ cpc = "idle" /\ ccalls < CopyCalls
  /\ ccalls' = ccalls + 1 /\ cpc' = "read" /\ cbuf' = <<>> /\ cround' = 0 /\ ccopied' = 0
  /\ cbase' = Len(csink) /\ cres' = "none"
  /\ UNCHANGED <<croute, cheld, cjob, corphans, cpipe, csent, cclosed, csink, clost, cdrops>>

\* The call ends; what is left of the chunk goes with its buffer.
Returns(what) ==
  /\ cpc' = "idle" /\ cres' = what /\ cbuf' = <<>> /\ clost' = clost \cup Range(cbuf)
  /\ UNCHANGED <<cround, ccopied>>

\* What copy does with the result of a read that took `data`.
AfterRead(r, data) ==
  CASE r[1] = "interrupted" -> cpc' = "read" /\ UNCHANGED <<cbuf, cround, ccopied, clost, cres>>
    [] r[1] = "error"       -> Returns("error")
    [] r[1] = "toomuch"     -> Returns("InvalidData")
    [] r = <<"n", 0>>       -> cpc' = "flush" /\ UNCHANGED <<cbuf, cround, ccopied, clost, cres>>
    [] OTHER                -> /\ cpc' = "write" /\ cbuf' = data /\ cround' = Len(data)
                               /\ UNCHANGED <<ccopied, clost, cres>>

AfterWrite(r) ==
  CASE r[1] = "interrupted" -> cpc' = "write" /\ UNCHANGED <<cbuf, cround, ccopied, clost, cres>>
    [] r[1] = "error"       -> Returns("error")
    [] r[1] = "toomuch"     -> Returns("InvalidData")
    [] r = <<"n", 0>>       -> Returns("WriteZero")
    [] OTHER ->
         /\ cbuf' = advance(cbuf, r[2])
         /\ IF cbuf' = <<>> THEN cpc' = "read" /\ ccopied' = ccopied + cround /\ cround' = 0
                            ELSE cpc' = "write" /\ UNCHANGED <<ccopied, cround>>
         /\ UNCHANGED <<clost, cres>>

AfterFlush(r) ==
  CASE r[1] = "interrupted" -> cpc' = "flush" /\ UNCHANGED <<cbuf, cround, ccopied, clost, cres>>
    [] r[1] = "error"       -> Returns("error")
    [] OTHER                -> Returns("ok")

\* The handle was lost with a dropped future: the next operation says so.
stdio_closed_error(e) ==
  /\ cheld[e] = "lost"
  /\ cpc = (IF e = "src" THEN "read" ELSE "write") \/ (e = "dst" /\ cpc = "flush")
  /\ Returns("closed")
  /\ UNCHANGED <<croute, cheld, cjob, corphans, cpipe, csent, cclosed, csink, cbase, cdrops, ccalls>>

OnThread(e) == croute[e] \in {"async", "direct", "foreign"}

\* An operation that is not sent to the pool: it happens in one poll.
read_here ==
  /\ cpc = "read" /\ OnThread("src")
  /\ \E r \in ReadResults :
       /\ cpipe' = PipeAfter(r)
       /\ AfterRead(r, SubSeq(cpipe, 1, r[2]))
  /\ UNCHANGED <<croute, cheld, cjob, corphans, csent, cclosed, csink, cbase, cdrops, ccalls>>
write_here ==
  /\ cpc = "write" /\ OnThread("dst")
  /\ \E r \in WriteResults(cbuf) : csink' = SinkAfter(cbuf, r) /\ AfterWrite(r)
  /\ UNCHANGED <<croute, cheld, cjob, corphans, cpipe, csent, cclosed, cbase, cdrops, ccalls>>
flush_here ==
  /\ cpc = "flush" /\ OnThread("dst")
  /\ \E r \in (IF croute.dst = "async" THEN {<<"n", 0>>} ELSE FlushResults) : AfterFlush(r)
  /\ UNCHANGED <<croute, cheld, cjob, corphans, cpipe, csent, cclosed, csink, cbase, cdrops, ccalls>>

-----------------------------------------------------------------------------
(* with_buffer and spawn_blocking: the endpoint (a child's) and the buffer  *)
(* sit in a slot the worker and the future share.                           *)
OpOf == CASE cpc = "read" -> <<"read", "src">> [] cpc = "write" -> <<"write", "dst">>
          [] cpc = "flush" -> <<"flush", "dst">> [] OTHER -> <<"none", "src">>

with_buffer ==
  /\ cpc \in {"read", "write", "flush"} /\ cjob = NoCopyJob
  /\ LET e == OpOf[2] IN
       /\ ~OnThread(e) /\ cheld[e] = "here"
       /\ cheld' = [cheld EXCEPT ![e] = IF croute[e] = "pool" THEN "lent" ELSE @]
       /\ cjob' = [kind |-> OpOf[1], end |-> e, st |-> "queued", res |-> <<"none", 0>>, call |-> ccalls,
                   data |-> IF cpc = "write" THEN cbuf ELSE <<>>]
  /\ cpc' = "waiting"
  /\ UNCHANGED <<croute, cbuf, cround, ccopied, corphans, cpipe, csent, cclosed, csink, clost,
                 cbase, cdrops, ccalls, cres>>

\* What a worker may find, a panic of the operation included: the slot is
\* recovered from the poisoned lock.
JobResults(j) ==
  {<<"panic", 0>>} \cup
  (CASE j.kind = "read" -> ReadResults [] j.kind = "write" -> WriteResults(j.data) [] OTHER -> FlushResults)

worker_runs ==
  /\ cjob.st = "queued"
  /\ \E r \in JobResults(cjob) :
       /\ cjob' = [cjob EXCEPT !.st = "ran", !.res = r,
                     !.data = IF cjob.kind = "read" THEN SubSeq(cpipe, 1, r[2]) ELSE @]
       /\ cpipe' = IF cjob.kind = "read" THEN PipeAfter(r) ELSE cpipe
       /\ csink' = IF cjob.kind = "write" THEN SinkAfter(cjob.data, r) ELSE csink
  /\ UNCHANGED <<croute, cheld, cpc, cbuf, cround, ccopied, corphans, csent, cclosed, clost,
                 cbase, cdrops, ccalls, cres>>

\* A pool that refuses drops the job: the sender is gone, the slot is not.
pool_refuses_copy ==
  /\ cjob.st = "queued"
  /\ cjob' = [cjob EXCEPT !.st = "ran", !.res = <<"error", 0>>, !.data = <<>>]
  /\ UNCHANGED <<croute, cheld, cpc, cbuf, cround, ccopied, corphans, cpipe, csent, cclosed, csink,
                 clost, cbase, cdrops, ccalls, cres>>

\* The future takes the slot back whatever became of the job.
copy_resumes ==
  /\ cpc = "waiting" /\ cjob.st = "ran"
  /\ cheld' = [cheld EXCEPT ![cjob.end] = "here"]
  /\ cjob' = NoCopyJob
  /\ LET r == IF cjob.res[1] = "panic" THEN <<"error", 0>> ELSE cjob.res IN
       CASE cjob.kind = "read"  -> AfterRead(r, cjob.data)
         [] cjob.kind = "write" -> AfterWrite(r)
         [] OTHER               -> AfterFlush(r)
  /\ UNCHANGED <<croute, corphans, cpipe, csent, cclosed, csink, cbase, cdrops, ccalls>>

\* The copy is dropped while it waits.  A queued or running job goes on; a
\* child's endpoint that is lent stays with it and is closed when it ends.
drop_copy ==
  /\ cpc \in {"read", "write", "flush", "waiting"}
  /\ LET lent == {e \in CopyEnds : cheld[e] = "lent"} IN
       /\ cdrops' = cdrops \cup lent
       /\ cheld' = [e \in CopyEnds |-> IF e \in lent THEN "lost" ELSE cheld[e]]
  /\ corphans' = IF cjob.st = "queued" THEN corphans \cup {cjob} ELSE corphans
  /\ clost' = clost \cup (IF cjob.st = "queued" /\ cjob.kind = "write" THEN {}
                          ELSE IF cjob.st = "ran" /\ cjob.kind = "write"
                            THEN Range(cbuf) \ Range(SubSeq(cbuf, 1, cjob.res[2]))
                          ELSE Range(cbuf) \cup Range(cjob.data))
  /\ cjob' = NoCopyJob /\ cpc' = "idle" /\ cbuf' = <<>> /\ cres' = "dropped"
  /\ UNCHANGED <<croute, cround, ccopied, cpipe, csent, cclosed, csink, cbase, ccalls>>

orphan_runs(j) ==
  /\ j \in corphans
  /\ \E r \in JobResults(j) :
       /\ cpipe' = IF j.kind = "read" THEN PipeAfter(r) ELSE cpipe
       /\ csink' = IF j.kind = "write" THEN SinkAfter(j.data, r) ELSE csink
       /\ clost' = clost \cup (IF j.kind = "read" THEN Range(SubSeq(cpipe, 1, r[2]))
                               ELSE Range(SubSeq(j.data, r[2] + 1, Len(j.data))))
  /\ corphans' = corphans \ {j}
  /\ UNCHANGED <<croute, cheld, cpc, cbuf, cround, ccopied, cjob, csent, cclosed, cbase, cdrops, ccalls, cres>>

\* The process at the other end of the source.
source_produces ==
  /\ csent < CopyBytes /\ ~cclosed
  /\ csent' = csent + 1 /\ cpipe' = Append(cpipe, csent + 1)
  /\ UNCHANGED <<croute, cheld, cpc, cbuf, cround, ccopied, cjob, corphans, cclosed, csink, clost,
                 cbase, cdrops, ccalls, cres>>
source_ends ==
  /\ ~cclosed /\ cclosed' = TRUE
  /\ UNCHANGED <<croute, cheld, cpc, cbuf, cround, ccopied, cjob, corphans, cpipe, csent, csink, clost,
                 cbase, cdrops, ccalls, cres>>

PipeCopyNext ==
  \/ copy \/ read_here \/ write_here \/ flush_here
  \/ \E e \in CopyEnds : stdio_closed_error(e)
  \/ with_buffer \/ worker_runs \/ pool_refuses_copy \/ copy_resumes
  \/ drop_copy \/ \E j \in corphans : orphan_runs(j)
  \/ source_produces \/ source_ends

PipeCopySpec == PipeCopyInit /\ [][PipeCopyNext]_copyVars

-----------------------------------------------------------------------------
PipeCopyTypeOK ==
  /\ cpc \in {"idle", "read", "write", "flush", "waiting"}
  /\ \A e \in CopyEnds : cheld[e] \in {"here", "lent", "lost"}

\* Where the bytes the source has produced are.
JobBytes(j) == IF j.kind = "read" \/ j \in corphans THEN Range(j.data) ELSE {}
CopyPlaces ==
  <<Range(cpipe), Range(csink), clost, JobBytes(cjob), UNION {JobBytes(j) : j \in corphans},
    IF cjob.kind = "write" /\ cjob.st = "ran" THEN Range(SubSeq(cbuf, cjob.res[2] + 1, Len(cbuf))) ELSE Range(cbuf)>>

\* No byte is lost, and none arrives twice, through short reads and writes,
\* interruptions, failures, pool jobs that panic or are refused and futures
\* dropped half-way: every byte produced is in exactly one place, and bytes go
\* missing only in a call that failed or was dropped.
CopyAccounted ==
  /\ UNION Range(CopyPlaces) = 1..csent
  /\ \A i, k \in DOMAIN CopyPlaces : i # k => CopyPlaces[i] \cap CopyPlaces[k] = {}
  /\ Len(csink) = Cardinality(Range(csink))

\* What arrives is in the order it was sent, also over several calls and with
\* a dropped call's last write still to come: the next call finds the child's
\* pipe gone.  (A standard stream has no such owner: there a dropped write may
\* land after a later one.)
CopyInOrder ==
  croute.dst # "stdio" /\ croute.src # "stdio" =>
    \A i, k \in 1..Len(csink) : i < k => csink[i] < csink[k]

\* A call that succeeds has moved everything it read, and its count says so.
CountExact == cres = "ok" /\ croute.dst # "stdio" => ccopied = Len(csink) - cbase

\* A child's endpoint comes back from the pool however the job ended; only a
\* future dropped while the endpoint was lent can cost it.
EndpointKept ==
  /\ \A e \in CopyEnds : cheld[e] = "lost" => e \in cdrops
  /\ \A e \in CopyEnds : cheld[e] = "lent" => cjob.end = e /\ cjob # NoCopyJob
  /\ \A j, k \in corphans : croute[j.end] = "pool" /\ j.end = k.end => j = k

\* What copying between a process's endpoints promises.
PipeCopySafe == PipeCopyTypeOK /\ CopyAccounted /\ CopyInOrder /\ CountExact /\ EndpointKept

-----------------------------------------------------------------------------
(***************************************************************************)
(* AsyncWrap (vibeio/util/async_wrap.rs): tokio's poll traits over an      *)
(* object whose operations own their buffer.  An operation in flight takes *)
(* the inner object along in its future and gives it back when it ends; a  *)
(* write is accepted into owned storage and drained by later calls.  The   *)
(* caller polls in any order, with any buffer, and may walk away from a    *)
(* poll that was pending.  Bytes are numbered in the order they are        *)
(* offered, on either side; an inner operation may be pending, short,      *)
(* interrupted or fail.                                                    *)
(***************************************************************************)

CONSTANTS WrapBuffer,   \* BUFFER_SIZE, in bytes of the model
          WrapBytes     \* bytes the caller writes, and the inner object holds, at most

ASSUME AsyncWrapAssumption == WrapBuffer \in Nat \ {0} /\ WrapBytes \in Nat

VARIABLES innerAt,      \* which of the four slots holds the inner object
          writeError,   \* write_error: "none" or a kind
          readBuf,      \* read_buf: bytes read and not yet handed out
          draining,     \* what write_fut still has to write
          accepted,     \* history: bytes poll_write has acknowledged
          delivered,    \* bytes the inner object has taken
          source,       \* number of bytes the inner object has given
          handed,       \* history: bytes poll_read has handed out
          answer        \* history: the last call and its outcome

wrapVars == <<innerAt, writeError, readBuf, draining, accepted, delivered, source, handed, answer>>

WrapSlots == {"inner", "read", "write", "flush"}
Answer(call, how) == answer' = [call |-> call, how |-> how]

AsyncWrapInit ==
  /\ innerAt = "inner" /\ writeError = "none" /\ readBuf = <<>> /\ draining = <<>>
  /\ accepted = <<>> /\ delivered = <<>> /\ source = 0 /\ handed = <<>>
  /\ answer = [call |-> "none", how |-> "none"]

-----------------------------------------------------------------------------
(* The future in flight is polled first; the call goes on once it is done.  *)
(* Several inner writes may resolve within one poll.                        *)

\* The write loop: k bytes have gone through and the next write is pending.
DrainPending(k) ==
  /\ k < Len(draining)
  /\ delivered' = delivered \o SubSeq(draining, 1, k)
  /\ draining' = SubSeq(draining, k + 1, Len(draining))
  /\ UNCHANGED <<innerAt, writeError>>

\* Mutant: the failure is reported once and forgotten.
DrainFails_Once(k) ==
  /\ k < Len(draining)
  /\ delivered' = delivered \o SubSeq(draining, 1, k)
  /\ draining' = <<>> /\ innerAt' = "inner" /\ UNCHANGED writeError
\* The next write fails or takes nothing: the rest is gone with the future.
DrainFails(k) ==
  /\ k < Len(draining)
  /\ delivered' = delivered \o SubSeq(draining, 1, k)
  /\ draining' = <<>> /\ innerAt' = "inner" /\ writeError' = "kind"

\* poll_pending_write that does not come back Ok: the call ends with it.
poll_pending_write(call) ==
  /\ \/ /\ writeError # "none" /\ Answer(call, "failed")
        /\ UNCHANGED <<innerAt, writeError, draining, delivered>>
     \/ /\ writeError = "none" /\ innerAt = "write"
        /\ \E k \in 0..Len(draining) :
             \/ DrainPending(k) /\ Answer(call, "pending")
             \/ DrainFails(k) /\ Answer(call, "failed")
  /\ UNCHANGED <<readBuf, accepted, source, handed>>

\* The same of poll_pending_flush; a failed flush leaves no mark.
poll_pending_flush(call) ==
  /\ innerAt = "flush"
  /\ \/ innerAt' = innerAt /\ Answer(call, "pending")
     \/ innerAt' = "inner" /\ Answer(call, "failed")
  /\ UNCHANGED <<writeError, readBuf, draining, accepted, delivered, source, handed>>

\* Both come back Ok: the accepted bytes have all been written and the inner
\* object is back.
Settles == writeError = "none" /\ innerAt # "read" /\ delivered' = delivered \o draining

-----------------------------------------------------------------------------
Least(a, b) == IF a < b THEN a ELSE b
Taken(n) == [i \in 1..n |-> source + i]

\* poll_read with room for cap bytes: what an earlier read left comes first.
poll_read_leftover(cap) ==
  /\ readBuf # <<>> /\ Settles /\ draining' = <<>>
  /\ LET n == Least(Len(readBuf), cap) IN
       /\ handed' = handed \o SubSeq(readBuf, 1, n)
       /\ readBuf' = SubSeq(readBuf, n + 1, Len(readBuf))
  /\ innerAt' = "inner" /\ Answer("read", "ok")
  /\ UNCHANGED <<writeError, accepted, source>>

\* The read future, made now or by an earlier poll, is polled.
wrap_poll_read(cap) ==
  /\ \/ innerAt = "read" /\ UNCHANGED <<delivered, draining>>
     \/ readBuf = <<>> /\ Settles /\ draining' = <<>>
  /\ \/ /\ innerAt' = "read" /\ Answer("read", "pending")
        /\ UNCHANGED <<readBuf, source, handed>>
     \/ /\ innerAt' = "inner" /\ Answer("read", "failed")
        /\ UNCHANGED <<readBuf, source, handed>>
     \/ \E n \in 0..WrapBuffer :
          /\ source + n <= WrapBytes
          /\ source' = source + n
          /\ handed' = handed \o SubSeq(Taken(n), 1, Least(n, cap))
          /\ readBuf' = SubSeq(Taken(n), Least(n, cap) + 1, n)
          /\ innerAt' = "inner" /\ Answer("read", "ok")
  /\ UNCHANGED <<writeError, accepted>>

\* poll_write of len bytes: at most one buffer is accepted, none is written yet.
poll_write(len) ==
  /\ Len(accepted) + len <= WrapBytes /\ Settles
  /\ LET bytes == [i \in 1..Least(len, WrapBuffer) |-> Len(accepted) + i]
     IN accepted' = accepted \o bytes /\ draining' = bytes
  /\ innerAt' = "write" /\ Answer("write", "ok")
  /\ UNCHANGED <<writeError, readBuf, source, handed>>

\* poll_flush, and poll_shutdown, which is nothing else.
poll_flush ==
  /\ Settles /\ draining' = <<>>
  /\ \/ innerAt' = "flush" /\ Answer("flush", "pending")
     \/ innerAt' = "inner" /\ Answer("flush", "failed")
     \/ innerAt' = "inner" /\ Answer("flush", "ok")
  /\ UNCHANGED <<writeError, readBuf, accepted, source, handed>>

\* A read in flight has the inner object.
rejected(call) ==
  /\ innerAt = "read" /\ writeError = "none" /\ Answer(call, "rejected")
  /\ UNCHANGED <<innerAt, writeError, readBuf, draining, accepted, delivered, source, handed>>

AsyncWrapNext ==
  \/ \E call \in {"read", "write", "flush"} : poll_pending_write(call)
  \/ \E call \in {"read", "write"} : poll_pending_flush(call)
  \/ \E call \in {"write", "flush"} : rejected(call)
  \/ \E n \in 1..(WrapBuffer + 1) : poll_read_leftover(n) \/ wrap_poll_read(n) \/ poll_write(n)
  \/ poll_flush

AsyncWrapSpec == AsyncWrapInit /\ [][AsyncWrapNext]_wrapVars

-----------------------------------------------------------------------------
WrapTypeOK ==
  /\ innerAt \in WrapSlots /\ writeError \in {"none", "kind"}
  /\ Len(readBuf) <= WrapBuffer /\ Len(draining) <= WrapBuffer /\ source \in 0..WrapBytes

\* Acknowledged bytes reach the inner object in order and once; what has not
\* reached it is still held, unless the adapter has failed.
WritesInOrder ==
  /\ IsPrefix(delivered, accepted)
  /\ writeError = "none" => accepted = delivered \o draining
  /\ draining # <<>> <=> innerAt = "write"

\* A flush that says Ok has delivered everything acknowledged before it, and
\* after a drain has failed no call succeeds again.
AcknowledgementsHonest ==
  /\ answer.how = "ok" /\ answer.call = "flush" => delivered = accepted
  /\ writeError # "none" => answer.how # "ok"

\* Bytes read are handed out in order and once, whatever the buffers' sizes
\* and whoever walked away from a pending read.
ReadsInOrder == handed \o readBuf = [i \in 1..source |-> i]

\* The adapter's contract towards its caller.
AsyncWrapSafe == WrapTypeOK /\ WritesInOrder /\ AcknowledgementsHonest /\ ReadsInOrder
=============================================================================
