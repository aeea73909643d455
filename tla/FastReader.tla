----------------------------- MODULE FastReader -----------------------------
(****************************************************************************)
(* The native StreamReader of transport/stream/fast.rs: the buffer, the one *)
(* waiter a read may leave behind, the incremental separator scan, and the  *)
(* pausing of the transport that feeds it.                                  *)
(*                                                                          *)
(* Every method runs under the reader's mutable borrow on the loop thread,  *)
(* so a method is one step; what interleaves is the transport's feeding,    *)
(* the application's reads, cancellations and the done callback that        *)
(* asyncio runs one turn after a cancellation.  The reader's fields are one *)
(* record, and a method is a function from record to record, as the code's  *)
(* methods call one another in sequence.  A byte is its position in         *)
(* fstream, so order, loss and duplication all show.                        *)
(****************************************************************************)
EXTENDS Integers, Sequences, SequencesExt, FiniteSetsExt

CONSTANTS Streams,     \* the byte streams a peer may send (over "a" and "n")
          SepChoices,  \* the separator sets readuntil() is called with
          ReadSizes,   \* the sizes read() and readexactly() are called with
          StreamLimit, \* PyFastStreamReader::limit
          FeedMax      \* the largest chunk one data_received() carries

ASSUME FastReaderAssumption ==
    /\ Streams \subseteq Seq({"a", "n"})
    /\ \A S \in SepChoices : S # {} /\ <<>> \notin S
    /\ StreamLimit \in Nat /\ FeedMax \in Nat \ {0}

VARIABLES fstream,  \* what the peer sends
          ffed,     \* how many of its bytes have been fed
          frd       \* the reader's fields

fastVars == <<fstream, ffed, frd>>

NoWait == [kind |-> "none", n |-> 0, got |-> <<>>, seps |-> {}, offset |-> 0,
           line |-> FALSE]
Newline == {<<"n">>}

\* No waiter, nothing buffered; `out` is the outcome of the last finished read.
FastReaderInit ==
    /\ fstream \in Streams /\ ffed = 0
    /\ frd = [buf |-> <<>>, taken |-> <<>>, wait |-> NoWait, cancelled |-> FALSE,
              paused |-> FALSE, tport |-> "up", tpaused |-> FALSE,
              eof |-> FALSE, exc |-> FALSE, lost |-> FALSE, tgen |-> 1,
              stolen |-> FALSE,
              out |-> [how |-> "none", val |-> <<>>, kind |-> "none", n |-> 0,
                       seps |-> {}, stolen |-> FALSE]]

-----------------------------------------------------------------------------
(* The buffer.  `taken` collects the positions that left the reader.        *)

\* A read that finds data takes it even while another coroutine's read waits;
\* `stolen` remembers that the waiter's bytes were taken from under it.
Consume(r, k) ==
    [r EXCEPT !.buf = SubSeq(@, k + 1, Len(@)), !.taken = @ \o SubSeq(r.buf, 1, k),
              !.stolen = @ \/ (r.wait # NoWait /\ k > 0)]

ReadOutcome(r, how, val, w) ==
    [r EXCEPT !.out = [how |-> how, val |-> val, kind |-> w.kind, n |-> w.n,
                       seps |-> w.seps, stolen |-> r.stolen]]

\* The waiter leaves the reader before its future is resolved.
Dismiss(r) == [r EXCEPT !.wait = NoWait, !.cancelled = FALSE]

\* Take k bytes and return them as the outcome of the read w.
Deliver(r, how, k, w) == ReadOutcome(Consume(r, k), how, SubSeq(r.buf, 1, k), w)

\* A paused transport is resumed once the buffer is back at the limit.
maybe_resume_transport(r) ==
    IF r.paused /\ Len(r.buf) <= StreamLimit /\ r.tport # "none"
    THEN [r EXCEPT !.paused = FALSE, !.tpaused = FALSE] ELSE r

\* A transport is paused beyond twice the limit, unless a read waits.  One
\* that cannot pause is forgotten (NotImplementedError).
maybe_pause_transport(r) ==
    IF r.wait = NoWait /\ ~r.paused /\ Len(r.buf) > 2 * StreamLimit
    THEN CASE r.tport = "up" -> [r EXCEPT !.paused = TRUE, !.tpaused = TRUE]
           [] r.tport = "nopause" -> [r EXCEPT !.tport = "none"]
           [] r.tport = "none" -> r
    ELSE r

\* The bytes a cancelled readexactly() had gathered go back to the front.
Prepended(r) == r.wait.got \o r.buf

clear_cancelled_waiter(r) ==
    IF r.wait # NoWait /\ r.cancelled
    THEN maybe_pause_transport(
           [r EXCEPT !.wait = NoWait, !.cancelled = FALSE,
                     !.buf = IF r.wait.kind = "exact" THEN Prepended(r) ELSE @])
    ELSE r

-----------------------------------------------------------------------------
(* UntilReadState: the scan remembers how far it has looked.                *)

SepLens(seps) == {Len(s) : s \in seps}

\* The places <<start, end>> at which a separator is found from offset on.
Matches(bytes, seps, offset) ==
    {<<i, i + Len(s)>> : i \in offset .. Len(bytes), s \in seps}
       \cap {<<i, j>> \in (0 .. Len(bytes)) \X (0 .. Len(bytes)) :
               SubSeq(bytes, i + 1, j) \in seps}

\* The earliest end wins, and the shortest separator on a tie: it comes first.
Best(found) ==
    CHOOSE m \in found : \A o \in found : m[2] < o[2] \/ (m[2] = o[2] /\ m[1] >= o[1])

\* Mutant: the next scan starts too late for a separator that straddles the end.
NextOffset_SkipsStraddling(buflen, maxSep) == buflen
\* Keep the last maxSep - 1 bytes: a separator may straddle the end.
NextOffset(buflen, maxSep) == Max({0, buflen + 1 - maxSep})

\* The scan's verdict and the offset it leaves.
scan(w, buf) ==
    LET bytes == [i \in DOMAIN buf |-> fstream[buf[i]]]
        found == Matches(bytes, w.seps, w.offset)
        next == NextOffset(Len(buf), Max(SepLens(w.seps)))
    IN  CASE Len(buf) - w.offset < Min(SepLens(w.seps)) ->
               [verdict |-> "more", offset |-> w.offset]
          [] Len(buf) - w.offset >= Min(SepLens(w.seps)) /\ found # {} ->
               [verdict |-> "found", offset |-> w.offset, match |-> Best(found)]
          [] OTHER ->
               [verdict |-> IF next > StreamLimit THEN "over" ELSE "more",
                offset |-> next]

\* The scan cannot decide yet.
IsPending(r, s) == s.verdict = "more" /\ ~r.eof

\* Over the limit: readuntil() leaves the data, readline() drops the line.
until_limit_overrun(r, w, consumed) ==
    IF ~w.line THEN ReadOutcome(r, "overrun", <<>>, w)
    ELSE LET lineEnds == Len(r.buf) > consumed /\ fstream[r.buf[consumed + 1]] = "n"
             k == IF lineEnds THEN consumed + 1 ELSE Len(r.buf)
         IN  maybe_resume_transport(ReadOutcome(Consume(r, k), "overrun", <<>>, w))

resolve_until_scan(r, w, s) ==
    CASE s.verdict = "found" /\ s.match[1] > StreamLimit ->
           until_limit_overrun(r, w, s.match[1])
      [] s.verdict = "found" /\ s.match[1] <= StreamLimit ->
           maybe_resume_transport(Deliver(r, "value", s.match[2], w))
      [] s.verdict = "over" -> until_limit_overrun(r, w, s.offset)
      [] s.verdict = "more" ->
           Deliver(r, IF w.line THEN "value" ELSE "incomplete", Len(r.buf), w)

-----------------------------------------------------------------------------
(* The waiter.                                                              *)

\* ExactReadAccumulator::fill_from: move what is still missing out of the buffer.
FillExact(r) ==
    LET k == Min({Len(r.buf), r.wait.n - Len(r.wait.got)})
    IN  IF r.wait.kind # "exact" THEN r
        ELSE [r EXCEPT !.buf = SubSeq(@, k + 1, Len(@)),
                       !.wait.got = @ \o SubSeq(r.buf, 1, k)]

\* An exact read ends with what it gathered.
DeliverExact(r, how) ==
    [ReadOutcome(Dismiss(r), how, r.wait.got, r.wait) EXCEPT !.taken = @ \o r.wait.got]

CompleteUntil(r) ==
    LET s == scan(r.wait, r.buf) IN
    IF IsPending(r, s) THEN [r EXCEPT !.wait.offset = s.offset]
    ELSE resolve_until_scan(Dismiss(r), r.wait, s)

\* Deliver to the waiter if what it asked for is there.
maybe_complete_waiter(r0) ==
    LET c == clear_cancelled_waiter(r0)
        r == IF c.wait # NoWait /\ ~c.exc THEN FillExact(c) ELSE c
        w == r.wait
    IN  CASE w = NoWait -> r
          [] w # NoWait /\ r.exc -> ReadOutcome(Dismiss(r), "raised", <<>>, w)
          [] w.kind = "any" /\ ~r.exc ->
               IF r.buf = <<>> /\ ~r.eof THEN r
               ELSE maybe_resume_transport(
                      Deliver(Dismiss(r), "value", Min({w.n, Len(r.buf)}), w))
          [] w.kind = "exact" /\ ~r.exc ->
               CASE Len(w.got) >= w.n -> maybe_resume_transport(DeliverExact(r, "value"))
                 [] Len(w.got) < w.n /\ r.eof -> DeliverExact(r, "incomplete")
                 [] OTHER -> r
          [] w.kind = "all" /\ ~r.exc ->
               IF r.eof THEN Deliver(Dismiss(r), "value", Len(r.buf), w) ELSE r
          [] w.kind = "until" /\ ~r.exc -> CompleteUntil(r)

\* A read that has to wait lets the transport read, whatever is buffered.
ResumedForWaiter(r) ==
    IF r.paused /\ r.tport # "none"
    THEN [r EXCEPT !.paused = FALSE, !.tpaused = FALSE] ELSE r

\* A second waiter is refused with ValueError: nothing changes.
start_waiter(r, w) ==
    IF r.wait # NoWait THEN r
    ELSE FillExact([ResumedForWaiter(r) EXCEPT !.wait = w, !.stolen = FALSE])

Waiter(kind, n, seps, line) ==
    [kind |-> kind, n |-> n, got |-> <<>>, seps |-> seps, offset |-> 0, line |-> line]

-----------------------------------------------------------------------------
(* What the transport calls.                                                *)

\* An exact read with an empty buffer is filled from the incoming data first.
FillFromIncoming(r0, data) ==
    LET r == clear_cancelled_waiter(r0)
        direct == ~r.exc /\ r.buf = <<>> /\ r.wait.kind = "exact"
    IN  IF direct THEN FillExact([r EXCEPT !.buf = data])
        ELSE [r EXCEPT !.buf = @ \o data]

\* data_received(): the chunk a transport delivers, paused or not, as the
\* read events queued before the pause still arrive.
fast_feed_data(k) ==
    /\ ~frd.eof /\ ~frd.lost /\ ffed + k <= Len(fstream)
    /\ frd' = maybe_pause_transport(maybe_complete_waiter(
                FillFromIncoming(frd, [i \in 1 .. k |-> ffed + i])))
    /\ ffed' = ffed + k
    /\ UNCHANGED fstream

feed_eof ==
    /\ ~frd.eof
    /\ frd' = maybe_complete_waiter([frd EXCEPT !.eof = TRUE])
    /\ UNCHANGED <<fstream, ffed>>

\* connection_lost(): the error or the end of the stream, then no transport.
fast_connection_lost(failed) ==
    /\ ~frd.lost
    /\ LET r == IF failed THEN [frd EXCEPT !.exc = TRUE] ELSE [frd EXCEPT !.eof = TRUE]
       IN  frd' = [maybe_complete_waiter(r) EXCEPT !.lost = TRUE, !.tport = "none",
                                                !.paused = FALSE]
    /\ UNCHANGED <<fstream, ffed>>

\* set_transport_obj(): start_tls() hands the reader a new transport, which
\* reads; it may be of a kind that cannot pause.
set_transport_obj(kind) ==
    /\ frd.tgen = 1 /\ ~frd.lost
    /\ frd' = maybe_resume_transport(
                [frd EXCEPT !.tport = kind, !.tpaused = FALSE, !.tgen = 2])
    /\ UNCHANGED <<fstream, ffed>>

-----------------------------------------------------------------------------
(* What the application calls.                                              *)

\* Each read forgets a cancelled waiter and reports a stored exception, readuntil() the
\* other way round.
ReadStep(r, Body(_)) ==
    /\ frd' = IF r.exc THEN ReadOutcome(r, "raised", <<>>, Waiter("none", 0, {}, FALSE))
              ELSE Body(clear_cancelled_waiter(r))
    /\ UNCHANGED <<fstream, ffed>>

fast_read(n) ==
    LET w == Waiter("any", n, {}, FALSE)
        Body(r) == IF r.buf # <<>> \/ r.eof
                   THEN maybe_resume_transport(Deliver(r, "value", Min({n, Len(r.buf)}), w))
                   ELSE start_waiter(r, w)
    IN  ReadStep(clear_cancelled_waiter(frd), Body)

read_all ==
    LET w == Waiter("all", 0, {}, FALSE)
        Body(r) == IF r.eof THEN Deliver(r, "value", Len(r.buf), w) ELSE start_waiter(r, w)
    IN  ReadStep(clear_cancelled_waiter(frd), Body)

readexactly(n) ==
    LET w == Waiter("exact", n, {}, FALSE)
        Body(r) == CASE Len(r.buf) >= n -> maybe_resume_transport(Deliver(r, "value", n, w))
                     [] Len(r.buf) < n /\ r.eof -> Deliver(r, "incomplete", Len(r.buf), w)
                     [] OTHER -> start_waiter(r, w)
    IN  ReadStep(clear_cancelled_waiter(frd), Body)

readuntil(seps, line) ==
    LET w == Waiter("until", 0, seps, line)
        Body(r) == LET s == scan(w, r.buf) IN
                   IF IsPending(r, s) THEN start_waiter(r, [w EXCEPT !.offset = s.offset])
                   ELSE resolve_until_scan(r, w, s)
    IN  ReadStep(frd, Body)

\* The waiting coroutine is cancelled: asyncio cancels the future at once.
cancel_read ==
    /\ frd.wait # NoWait /\ ~frd.cancelled
    /\ frd' = [frd EXCEPT !.cancelled = TRUE]
    /\ UNCHANGED <<fstream, ffed>>

\* PyReadWaiterDone runs on the next turn of the loop.
waiter_done ==
    /\ frd.cancelled
    /\ frd' = clear_cancelled_waiter(frd)
    /\ UNCHANGED <<fstream, ffed>>

\* The steps of the transport and of the loop, and those of the application.
FastFeed == \E k \in 1 .. FeedMax : fast_feed_data(k)

FastApp ==
    \/ \E n \in ReadSizes : fast_read(n) \/ readexactly(n)
    \/ read_all
    \/ \E seps \in SepChoices : readuntil(seps, FALSE)
    \/ readuntil(Newline, TRUE)
    \/ cancel_read

FastReaderNext ==
    \/ FastFeed \/ feed_eof \/ waiter_done
    \/ \E failed \in BOOLEAN : fast_connection_lost(failed)
    \/ \E kind \in {"up", "nopause"} : set_transport_obj(kind)
    \/ FastApp

FastReaderSpec == FastReaderInit /\ [][FastReaderNext]_fastVars

-----------------------------------------------------------------------------
(* Properties.                                                              *)

Waiting == frd.wait # NoWait /\ ~frd.cancelled

FastTypeOK ==
    /\ ffed \in 0 .. Len(fstream)
    /\ frd.wait.kind \in {"none", "any", "exact", "all", "until"}
    /\ {frd.paused, frd.tpaused, frd.eof, frd.exc, frd.lost, frd.cancelled} \subseteq BOOLEAN

\* The bytes handed out, the bytes a readexactly() has gathered and the bytes
\* still buffered are the bytes fed, each once and in order; a cancelled
\* readexactly() puts its share back where it came from.  (A connection error
\* is final: what a readexactly() had gathered goes with it.)
BytesInOrder ==
    ~frd.exc => frd.taken \o frd.wait.got \o frd.buf = [i \in 1 .. ffed |-> i]

\* A reader never leaves the transport paused while a read waits for it, and
\* not either once the buffer is back at the limit: nobody would resume it.
\* (After the end of the stream there is nothing left to read.)
NotStarved ==
    frd.tpaused /\ frd.tport # "none" /\ ~frd.eof
      => frd.paused /\ ~Waiting /\ Len(frd.buf) > StreamLimit

\* Beyond twice the limit with nobody waiting, the reader asked for a pause.
Backpressure ==
    frd.wait = NoWait /\ frd.tport = "up" /\ ~frd.eof /\ ~frd.exc
      => frd.paused \/ Len(frd.buf) <= 2 * StreamLimit

\* A waiting read is never one that could already be answered: the
\* incremental scan has missed no separator, however the bytes were cut up.
NoOverdueRead ==
    LET bytes == [i \in DOMAIN frd.buf |-> fstream[frd.buf[i]]] IN
    Waiting /\ ~frd.stolen =>
      /\ ~frd.eof /\ ~frd.exc
      /\ frd.wait.kind = "any" => frd.buf = <<>>
      /\ frd.wait.kind = "exact" => frd.buf = <<>> /\ Len(frd.wait.got) < frd.wait.n
      /\ frd.wait.kind = "until" => Matches(bytes, frd.wait.seps, 0) = {}

\* readuntil() and readline() answer with the shortest prefix that ends in a
\* separator, the answer a scan of the whole buffer would give; readexactly()
\* with exactly n bytes; and read() with none only at the end of the stream.
AnswersRight ==
    LET o == frd.out
        v == [i \in DOMAIN o.val |-> fstream[o.val[i]]]
        EndsAt(j) == \E s \in o.seps : IsSuffix(s, SubSeq(v, 1, j))
    IN  o.how = "value" =>
          /\ o.kind = "exact" => Len(v) = o.n
          /\ o.kind = "any" => Len(v) <= o.n /\ (v = <<>> => frd.eof)
          /\ o.kind = "until" /\ ~o.stolen =>
               /\ EndsAt(Len(v)) \/ frd.eof
               /\ \A j \in 1 .. Len(v) - 1 : ~EndsAt(j)

FastReaderSafe ==
    FastTypeOK /\ BytesInOrder /\ NotStarved /\ Backpressure /\ NoOverdueRead /\ AnswersRight
=============================================================================
