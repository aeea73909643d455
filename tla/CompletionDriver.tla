-------------------------- MODULE CompletionDriver --------------------------
(***************************************************************************)
(* Completion I/O of the runtime: the completion slab of the io_uring and  *)
(* IOCP drivers, the futures that own its entries, cancellation by drop,   *)
(* the multishot accept of io_uring listeners, and shutdown (vibeio/driver *)
(* uring.rs and iocp.rs, vibeio/op).  Operations run on one file, accepts  *)
(* on one listener; descriptors are numbered in the order they open.       *)
(***************************************************************************)
EXTENDS Integers, Sequences, FiniteSets, IoOps

CONSTANTS OpIds, CSlots, \* operations a behaviour starts; keys of the slab
          MaxFds,        \* descriptors completions may carry
          AcceptGens,    \* times the listener is registered
          OpsBesideListener, \* operations in a behaviour that has a listener
          Platforms,     \* subset of {"uring", "iocp"}
          NoSlot

ASSUME CompletionAssumption ==
  /\ MaxFds \in Nat /\ AcceptGens \in Nat /\ Platforms \subseteq {"uring", "iocp"}
  /\ NoSlot \notin [op : OpIds, waiter : BOOLEAN, result : {NoSlot} \cup -1..MaxFds, ignored : BOOLEAN]

VARIABLES platform,
          comps,     \* completions: slot -> [op, waiter, result, ignored], NoSlot if free
          opst,      \* the futures: [pc, fd, slot, woken]
          csq,       \* entries not yet submitted: [slot, op]
          inflight,  \* entries the kernel holds
          ccq,       \* posted results: [slot, op, res] or [gen, res, more]
          file,      \* the file's handle: "open" or "closed"
          listen,    \* the listener's registration: [gen, open, results, waiter, armed, woken]
          opened,    \* descriptors created so far
          given,     \* descriptors handed to callers, in order
          shut,      \* descriptors closed by the driver, in order
          drv        \* "up", "quiesced" or "leaked"

compVars == <<platform, comps, opst, csq, inflight, ccq, file, listen, opened, given, shut, drv>>

Unstarted == [pc |-> "new", fd |-> FALSE, slot |-> NoSlot, woken |-> FALSE]
Unlistened(g) == [gen |-> g, open |-> FALSE, results |-> <<>>, waiter |-> FALSE, armed |-> FALSE,
                  woken |-> FALSE]

CompletionInit ==
  /\ platform \in Platforms
  /\ comps = [t \in CSlots |-> NoSlot]
  /\ \E used \in SUBSET OpIds, g \in {0, AcceptGens} :
       /\ g < AcceptGens => Cardinality(used) <= OpsBesideListener
       /\ opst = [o \in OpIds |-> [Unstarted EXCEPT !.pc = IF o \in used THEN "new" ELSE "done"]]
       /\ listen = Unlistened(g)
  /\ csq = {} /\ inflight = {} /\ ccq = <<>>
  /\ file = "open"
  /\ opened = 0 /\ given = <<>> /\ shut = <<>> /\ drv = "up"

\* A result is negative (an error), 0 (no descriptor), or a descriptor.
Fds(results) == SelectSeq(results, LAMBDA r : r > 0)
FdOf(r) == Fds(<<r>>)

-----------------------------------------------------------------------------
(* The kernel. *)

submit_ring ==
  /\ drv = "up" /\ csq # {}
  /\ inflight' = inflight \cup csq /\ csq' = {}
  /\ UNCHANGED <<platform, comps, opst, ccq, file, listen, opened, given, shut, drv>>

Results(fd) ==
  {-1} \cup (IF ~fd THEN {0} ELSE IF opened < MaxFds THEN {opened + 1} ELSE {})
Opens(r) == opened' = IF FdOf(r) = <<>> THEN opened ELSE r

complete(e) ==
  /\ e \in inflight /\ "op" \in DOMAIN e /\ drv # "quiesced"
  /\ \E r \in Results(opst[e.op].fd) :
       /\ ccq' = Append(ccq, [slot |-> e.slot, op |-> e.op, res |-> r]) /\ Opens(r)
  /\ inflight' = inflight \ {e}
  /\ UNCHANGED <<platform, comps, opst, csq, file, listen, given, shut, drv>>

\* A multishot accept posts a descriptor and goes on, or ends with what it posts.
accepted(e) ==
  /\ e \in inflight /\ "gen" \in DOMAIN e /\ drv # "quiesced"
  /\ \E r \in Results(TRUE), more \in BOOLEAN :
       /\ more => r # -1
       /\ ccq' = Append(ccq, [gen |-> e.gen, res |-> r, more |-> more]) /\ Opens(r)
       /\ inflight' = IF more THEN inflight ELSE inflight \ {e}
  /\ UNCHANGED <<platform, comps, opst, csq, file, listen, given, shut, drv>>

-----------------------------------------------------------------------------
(* Operations. *)

Vacant(t) == comps[t] = NoSlot
NewCompletion(o) == [op |-> o, waiter |-> TRUE, result |-> NoSlot, ignored |-> FALSE]

\* The entry goes to the submission queue, or on Windows to the kernel at once.
submit_completion(o, t, fd) ==
  /\ drv = "up" /\ file = "open" /\ opst[o].pc = "new" /\ Vacant(t)
  /\ comps' = [comps EXCEPT ![t] = NewCompletion(o)]
  /\ opst' = [opst EXCEPT ![o] = [pc |-> "wait", fd |-> fd, slot |-> t, woken |-> FALSE]]
  /\ IF platform = "uring"
     THEN csq' = csq \cup {[slot |-> t, op |-> o]} /\ UNCHANGED inflight
     ELSE inflight' = inflight \cup {[slot |-> t, op |-> o]} /\ UNCHANGED csq
  /\ UNCHANGED <<platform, ccq, file, listen, opened, given, shut, drv>>

\* The entry cannot be built or queued: no slot is kept.
submit_error(o) ==
  /\ drv = "up" /\ file = "open" /\ opst[o].pc = "new"
  /\ opst' = [opst EXCEPT ![o].pc = "done"]
  /\ UNCHANGED <<platform, comps, csq, inflight, ccq, file, listen, opened, given, shut, drv>>

\* get_completion_result takes the result and frees the slot; without one the
\* waker is replaced.
poll_completion(o) ==
  /\ drv = "up" /\ opst[o].pc = "wait"
  /\ LET t == opst[o].slot IN
     IF comps[t].result = NoSlot
     THEN /\ comps' = [comps EXCEPT ![t].waiter = TRUE]
          /\ opst' = [opst EXCEPT ![o].woken = FALSE] /\ UNCHANGED given
     ELSE /\ comps' = [comps EXCEPT ![t] = NoSlot]
          /\ opst' = [opst EXCEPT ![o] = [@ EXCEPT !.pc = "done", !.slot = NoSlot]]
          /\ given' = given \o FdOf(comps[t].result)
  /\ UNCHANGED <<platform, csq, inflight, ccq, file, listen, opened, shut, drv>>

AfterIgnore(c) == IF c.result # NoSlot THEN NoSlot ELSE [c EXCEPT !.ignored = TRUE]

\* Mutant: a result nobody took is forgotten with its entry.
Retired_Forget(c) == <<>>
Retired(c) == FdOf(c.result)

\* The future is dropped: its storage stays with the entry until the kernel
\* answers; an answered entry goes now, with the descriptor it carried.
cancel_completion(o) ==
  /\ drv = "up" /\ opst[o].pc = "wait"
  /\ LET t == opst[o].slot IN
     /\ comps' = [comps EXCEPT ![t] = AfterIgnore(@)]
     /\ shut' = IF comps[t].result # NoSlot THEN shut \o Retired(comps[t]) ELSE shut
  /\ opst' = [opst EXCEPT ![o] = [@ EXCEPT !.pc = "dropped"]]
  /\ UNCHANGED <<platform, csq, inflight, ccq, file, listen, opened, given, drv>>

\* What sync cancellation of an entry leaves: in the queue of results, or (when
\* it was not found, or its time was up) still in flight.
Cancelled(gone) ==
  \E seq \in {s \in [1..Cardinality(gone) -> gone] : \A e \in gone : \E k \in DOMAIN s : s[k] = e} :
    ccq' = ccq \o [k \in DOMAIN seq |->
             IF "op" \in DOMAIN seq[k] THEN [slot |-> seq[k].slot, op |-> seq[k].op, res |-> -1]
             ELSE [gen |-> seq[k].gen, res |-> -1, more |-> FALSE]]

NeedsCancel == \E t \in CSlots : ~Vacant(t) /\ comps[t].result = NoSlot

SubmittedBefore(needed) == IF needed THEN csq ELSE {}

\* The file's handle is dropped (no future borrows it any more) and the file
\* closed: what is queued is submitted first, so that no entry names a closed
\* descriptor when the kernel sees it, and what is in flight is cancelled.
drop_handle ==
  /\ drv = "up" /\ file = "open" /\ \A o \in OpIds : opst[o].pc # "wait"
  /\ file' = "closed"
  /\ LET sent == SubmittedBefore(NeedsCancel)
         mine == {e \in inflight \cup sent : "op" \in DOMAIN e}
     IN  /\ csq' = csq \ sent
         /\ \E gone \in SUBSET mine :
              /\ platform = "iocp" => gone = {}
              /\ inflight' = (inflight \cup sent) \ gone /\ Cancelled(gone)
  /\ UNCHANGED <<platform, comps, opst, listen, opened, given, shut, drv>>

-----------------------------------------------------------------------------
(* Multishot accept (io_uring). *)

open_listener ==
  /\ drv = "up" /\ platform = "uring" /\ ~listen.open /\ listen.gen < AcceptGens
  /\ listen' = [Unlistened(listen.gen + 1) EXCEPT !.open = TRUE]
  /\ UNCHANGED <<platform, comps, opst, csq, inflight, ccq, file, opened, given, shut, drv>>

poll_multishot_accept ==
  /\ drv = "up" /\ listen.open
  /\ IF listen.results # <<>>
     THEN /\ listen' = [listen EXCEPT !.results = Tail(@), !.waiter = FALSE, !.woken = FALSE]
          /\ given' = given \o FdOf(Head(listen.results)) /\ UNCHANGED csq
     ELSE /\ listen' = [listen EXCEPT !.waiter = TRUE, !.armed = TRUE, !.woken = FALSE]
          /\ csq' = IF listen.armed THEN csq ELSE csq \cup {[gen |-> listen.gen]}
          /\ UNCHANGED given
  /\ UNCHANGED <<platform, comps, opst, inflight, ccq, file, opened, shut, drv>>

multishot_accept_fails ==
  /\ drv = "up" /\ listen.open /\ listen.results = <<>> /\ ~listen.armed
  /\ listen' = [listen EXCEPT !.waiter = FALSE, !.woken = FALSE]
  /\ UNCHANGED <<platform, comps, opst, csq, inflight, ccq, file, opened, given, shut, drv>>

\* The listener closes; connections it has queued are closed with it.
drop_listener ==
  /\ drv = "up" /\ listen.open
  /\ listen' = Unlistened(listen.gen)
  /\ shut' = shut \o Fds(listen.results)
  /\ LET sent == IF listen.armed \/ NeedsCancel THEN csq ELSE {}
         mine == {e \in inflight \cup sent : "gen" \in DOMAIN e /\ e.gen = listen.gen}
     IN  /\ csq' = csq \ sent
         /\ \E gone \in SUBSET mine : inflight' = (inflight \cup sent) \ gone /\ Cancelled(gone)
  /\ UNCHANGED <<platform, comps, opst, file, opened, given, drv>>

-----------------------------------------------------------------------------
(* The driver's wait and its end. *)

OwnAccept(e) == listen.open /\ listen.gen = e.gen

drain_accept ==
  /\ drv = "up" /\ ccq # <<>> /\ "gen" \in DOMAIN Head(ccq) /\ ccq' = Tail(ccq)
  /\ LET e == Head(ccq) IN
     IF OwnAccept(e)
     THEN /\ listen' = [listen EXCEPT !.armed = e.more, !.results = Append(@, e.res),
                                      !.waiter = FALSE, !.woken = listen.waiter \/ @]
          /\ UNCHANGED shut
     ELSE shut' = shut \o FdOf(e.res) /\ UNCHANGED listen
  /\ UNCHANGED <<platform, comps, opst, csq, inflight, file, opened, given, drv>>

Wakes(c) == c.waiter

drain_completion ==
  /\ drv = "up" /\ ccq # <<>> /\ "op" \in DOMAIN Head(ccq) /\ ccq' = Tail(ccq)
  /\ LET e == Head(ccq)
         c == comps[e.slot]
         d == [c EXCEPT !.result = e.res, !.waiter = FALSE]
     IN  IF c = NoSlot THEN UNCHANGED <<comps, opst, shut>>
         ELSE IF c.ignored
         THEN /\ comps' = [comps EXCEPT ![e.slot] = NoSlot]
              /\ shut' = shut \o Retired(d) /\ UNCHANGED opst
         ELSE /\ comps' = [comps EXCEPT ![e.slot] = d] /\ UNCHANGED shut
              /\ opst' = [opst EXCEPT ![c.op].woken = @ \/ Wakes(c)]
  /\ UNCHANGED <<platform, csq, inflight, file, listen, opened, given, drv>>

NoHandles == file = "closed" /\ ~listen.open

\* Every slot with the last result posted for it.
LastResult(t) ==
  LET at == {k \in DOMAIN ccq : "op" \in DOMAIN ccq[k] /\ ccq[k].slot = t}
  IN  IF at = {} THEN comps[t].result ELSE ccq[CHOOSE k \in at : \A j \in at : j <= k].res
AcceptFds == Fds([k \in DOMAIN ccq |-> IF "gen" \in DOMAIN ccq[k] THEN ccq[k].res ELSE 0])
SlotSeq == CHOOSE s \in [1..Cardinality(CSlots) -> CSlots] : \A t \in CSlots : \E k \in DOMAIN s : s[k] = t
UnclaimedFds ==
  Fds([k \in DOMAIN SlotSeq |-> IF Vacant(SlotSeq[k]) THEN 0 ELSE LastResult(SlotSeq[k])])

\* Shutdown once everything is answered: results are recorded without waking
\* anybody, undelivered descriptors are closed, and the slabs are dropped.
quiesce ==
  /\ drv = "up" /\ NoHandles /\ csq = {} /\ inflight = {}
  /\ shut' = shut \o AcceptFds \o UnclaimedFds
  /\ comps' = [t \in CSlots |-> NoSlot] /\ ccq' = <<>> /\ drv' = "quiesced"
  /\ UNCHANGED <<platform, opst, csq, inflight, file, listen, opened, given>>

\* The kernel does not confirm: what it may still use is leaked on purpose.
quiesce_fails ==
  /\ drv = "up" /\ NoHandles /\ csq \cup inflight # {}
  /\ drv' = "leaked"
  /\ UNCHANGED <<platform, comps, opst, csq, inflight, ccq, file, listen, opened, given, shut>>

CompletionNext ==
  \/ submit_ring \/ drop_handle \/ open_listener \/ poll_multishot_accept
  \/ multishot_accept_fails \/ drop_listener \/ drain_accept \/ drain_completion
  \/ quiesce \/ quiesce_fails
  \/ \E e \in inflight : complete(e) \/ accepted(e)
  \/ \E o \in OpIds : \/ \E t \in CSlots, fd \in BOOLEAN : submit_completion(o, t, fd)
                      \/ submit_error(o) \/ poll_completion(o) \/ cancel_completion(o)

\* Results are drained in every turn and woken tasks polled.  The kernel
\* answers a submitted operation (a read may wait for ever, so this is assumed
\* of the operations the property is about).
CompletionFairness ==
  /\ WF_compVars(submit_ring) /\ WF_compVars(drain_accept) /\ WF_compVars(drain_completion)
  /\ \A o \in OpIds, t \in CSlots : WF_compVars(complete([slot |-> t, op |-> o]))
  /\ \A o \in OpIds : WF_compVars(opst[o].woken /\ poll_completion(o))

CompletionSpec == CompletionInit /\ [][CompletionNext]_compVars /\ CompletionFairness

-----------------------------------------------------------------------------
CompletionTypeOK ==
  /\ \A t \in CSlots : comps[t] = NoSlot \/
       /\ comps[t].op \in OpIds /\ comps[t].waiter \in BOOLEAN /\ comps[t].ignored \in BOOLEAN
       /\ comps[t].result \in {NoSlot, -1} \cup 0..MaxFds
  /\ \A o \in OpIds : opst[o].pc \in {"new", "wait", "done", "dropped"}
  /\ opened \in 0..MaxFds /\ drv \in {"up", "quiesced", "leaked"}

Submitted == {e \in csq \cup inflight : "op" \in DOMAIN e}

\* A slot is not reused while an answer for its old operation may come: every
\* entry and every answer under way names the operation its slot holds, and a
\* waiting future's slot is its own.
AnswersMatchSlots ==
  drv = "up" =>
    /\ \A e \in Submitted : ~Vacant(e.slot) /\ comps[e.slot].op = e.op
    /\ \A k \in DOMAIN ccq : "op" \in DOMAIN ccq[k] =>
         ~Vacant(ccq[k].slot) /\ comps[ccq[k].slot].op = ccq[k].op
    /\ \A o \in OpIds : opst[o].pc = "wait" => ~Vacant(opst[o].slot) /\ comps[opst[o].slot].op = o

\* Storage the kernel may still use is alive: its future is, or the slot (or
\* the leak) holds everything the entry points to, whichever operation it is.
StorageRetained ==
  \A e \in Submitted : opst[e.op].pc = "wait" \/
    /\ drv \in {"up", "leaked"} /\ ~Vacant(e.slot) /\ comps[e.slot].op = e.op /\ comps[e.slot].ignored
    /\ \A k \in Operations : k.fd = opst[e.op].fd => k.points \subseteq k.keeps

\* No entry reaches the kernel after its descriptor was closed.
NoClosedDescriptorQueued ==
  drv = "up" =>
    \A e \in csq : IF "op" \in DOMAIN e THEN file = "open" ELSE listen.open /\ listen.gen = e.gen

\* Every descriptor the kernel made is in exactly one place: posted, held by
\* a slot, queued at the listener, given to a caller, or closed.
DescriptorsOwnedOnce ==
  drv # "leaked" =>
    LET posted == Fds([k \in DOMAIN ccq |-> ccq[k].res])
        held == Fds([k \in DOMAIN SlotSeq |->
                  IF Vacant(SlotSeq[k]) \/ comps[SlotSeq[k]].result = NoSlot THEN 0
                  ELSE comps[SlotSeq[k]].result])
        all == posted \o held \o Fds(listen.results) \o given \o shut
    IN  Len(all) = opened /\ \A f \in 1..opened : \E k \in DOMAIN all : all[k] = f

\* What the kernel may still use or answer is alive, its own and open.
StorageSafe == AnswersMatchSlots /\ StorageRetained /\ NoClosedDescriptorQueued

CompletionSafe == CompletionTypeOK /\ StorageSafe /\ DescriptorsOwnedOnce

\* An operation that waits is answered, if it is not dropped: no result is
\* posted without waking its task.
CompletionOwed == \E o \in OpIds : opst[o].pc = "wait"
CompletionsServed == []<>~CompletionOwed

=============================================================================
