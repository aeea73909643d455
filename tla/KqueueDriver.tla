---------------------------- MODULE KqueueDriver ----------------------------
(****************************************************************************)
(* The kqueue driver (vibeio/driver/kqueue.rs): edge-triggered filters, at  *)
(* most one for reading and one for writing on a descriptor, whose events   *)
(* carry the slot and the generation of a registration, and a datagram      *)
(* socket pair by which other threads interrupt the wait.  System calls     *)
(* that install or delete filters may fail part of the way.  The driver     *)
(* belongs to one thread; remote threads and the kernel interleave with it. *)
(****************************************************************************)
EXTENDS Naturals, FiniteSets, FiniteSetsExt

CONSTANTS KqHandles,    \* handles
          KqFds,        \* descriptor numbers
          KqInterests,  \* the interests handles are registered with
          KqRemotes,    \* threads that hand work to the runtime
          KqGenerations, \* generations before the counter wraps (2^32)
          KqBudgets     \* bounds: [regs, fails, pushes], the registrations, failing
                        \* system calls and pieces of work of one behaviour

ASSUME KqueueAssumption == KqGenerations \in Nat \ {0, 1} /\ \A b \in KqBudgets : b.regs \in Nat /\ b.fails \in Nat /\ b.pushes \in Nat

VARIABLES kqHandle,     \* kqHandle[h]: [st, fd, slot]
          kqReg,        \* the slab: kqReg[s] is a registration or NoKqReg
          kqNextGen,    \* next_generation
          kqNotes,      \* kernel: filters [fd, filter, slot, gen, active]
          kqLevel,      \* kernel: <<fd, filter>> that would not block
          kqOp,         \* kqOp[h][f]: "none", "waiting" or "woken"
          kqThread,     \* the driver thread: "busy", "blocked" or "acking"
          kqRemote,     \* kqRemote[r]: "idle", "pushed" or "sending"
          kqWork,       \* work pushed and not yet taken
          kqNotified,   \* DriverWaker.notified
          kqWakes,      \* datagrams in the receiver
          kqWakeActive, \* the wake filter has an event
          kqPushed, kqFailed, \* work pushed, system calls that failed
          kqRegs,       \* registrations tried
          kqBudget      \* the bounds of this behaviour

kqVars == <<kqHandle, kqReg, kqNextGen, kqNotes, kqLevel, kqOp, kqThread, kqRemote, kqWork,
            kqNotified, kqWakes, kqWakeActive, kqPushed, kqFailed, kqRegs, kqBudget>>
kqWakeVars == <<kqRemote, kqWork, kqNotified, kqWakes, kqWakeActive, kqPushed>>

KqFilters == {"read", "write"}
KqSlots == 0..Cardinality(KqHandles)
NoKqReg == [fd |-> 0, gen |-> 0, on |-> {}, waiter |-> {}, ready |-> {}]
NoKqHandle == [st |-> "none", fd |-> 0, slot |-> 0]

KqueueInit ==
  /\ kqHandle = [h \in KqHandles |-> NoKqHandle]
  /\ kqReg = [s \in KqSlots |-> NoKqReg] /\ kqNextGen = 0
  /\ kqNotes = {} /\ kqLevel = {}
  /\ kqOp = [h \in KqHandles |-> [f \in KqFilters |-> "none"]]
  /\ kqThread = "busy" /\ kqRemote = [r \in KqRemotes |-> "idle"]
  /\ kqWork = 0 /\ kqNotified = FALSE /\ kqWakes = 0 /\ kqWakeActive = FALSE
  /\ kqPushed = 0 /\ kqFailed = 0 /\ kqRegs = 0 /\ kqBudget \in KqBudgets

-----------------------------------------------------------------------------
(* kevent: EV_ADD makes or rewrites the filter, which is active at once if  *)
(* its descriptor is ready; EV_DELETE removes it.                           *)
AddAll(notes, fd, fs, slot, gen) ==
  {n \in notes : ~(n.fd = fd /\ n.filter \in fs)}
    \cup {[fd |-> fd, filter |-> f, slot |-> slot, gen |-> gen, active |-> <<fd, f>> \in kqLevel] : f \in fs}
KqWithout(notes, fd, fs) == {n \in notes : ~(n.fd = fd /\ n.filter \in fs)}

\* A system call may fail, up to a bound; an interrupted or already deleted
\* filter is not a failure (delete_filter_with).
MayFail(n) == kqFailed + n <= kqBudget.fails
KqNextGen == IF kqNextGen + 1 = KqGenerations THEN 1 ELSE kqNextGen + 1
FreeSlots == {s \in KqSlots : kqReg[s].gen = 0}

-----------------------------------------------------------------------------
(* register_handle, install_registration_with *)
register_handle_kq(h, fd, interest) ==
  /\ kqThread = "busy" /\ kqHandle[h].st = "none" /\ FreeSlots # {} /\ kqRegs < kqBudget.regs
  /\ \A o \in KqHandles : kqHandle[o].st # "none" => kqHandle[o].fd # fd
  /\ kqNextGen' = KqNextGen /\ kqRegs' = kqRegs + 1
  /\ LET s == Min(FreeSlots) IN
     \/ /\ kqNotes' = AddAll(kqNotes, fd, interest, s, KqNextGen)
        /\ kqReg' = [kqReg EXCEPT ![s] = [NoKqReg EXCEPT !.fd = fd, !.gen = KqNextGen, !.on = interest]]
        /\ kqHandle' = [kqHandle EXCEPT ![h] = [st |-> "live", fd |-> fd, slot |-> s]]
        /\ UNCHANGED kqFailed
     \* The first filters, or all of an interrupted call, may be in when it fails; every
     \* filter of the call is then deleted, which may fail as well, and the slot given back.
     \/ \E put \in SUBSET interest, stuck \in SUBSET interest :
          /\ ("write" \in put => interest = {"write"} \/ "read" \in put)
          /\ MayFail(1 + Cardinality(stuck))
          /\ kqNotes' = KqWithout(AddAll(kqNotes, fd, put, s, KqNextGen), fd, interest \ stuck)
          /\ kqFailed' = kqFailed + 1 + Cardinality(stuck)
          /\ UNCHANGED <<kqReg, kqHandle>>
  /\ UNCHANGED <<kqLevel, kqOp, kqThread, kqWakeVars, kqBudget>>

\* The waiters of filters that go away are dropped with them.
Retire(h, fs) == kqOp' = [kqOp EXCEPT ![h] = [f \in KqFilters |-> IF f \in fs THEN "none" ELSE kqOp[h][f]]]
RegWithout(r, fs) == [r EXCEPT !.on = @ \ fs, !.waiter = @ \ fs, !.ready = @ \ fs]

\* reregister_with: the missing filters first, one call each, then the
\* superfluous ones; a failure leaves what was done.
reregister_handle_kq(h, interest) ==
  /\ kqThread = "busy" /\ kqHandle[h].st = "live"
  /\ LET s == kqHandle[h].slot
         r == kqReg[s]
         add == interest \ r.on
         del == r.on \ interest
     IN \E added \in SUBSET add, dropped \in SUBSET del :
          /\ added # add => dropped = {} /\ MayFail(1)
          /\ "write" \in added /\ "read" \in add => "read" \in added
          /\ dropped # del /\ added = add => MayFail(1)
          /\ "write" \in dropped /\ "read" \in del => "read" \in dropped
          /\ kqFailed' = IF added = add /\ dropped = del THEN kqFailed ELSE kqFailed + 1
          /\ kqNotes' = KqWithout(AddAll(kqNotes, r.fd, added, s, r.gen), r.fd, dropped)
          /\ kqReg' = [kqReg EXCEPT ![s] = RegWithout([r EXCEPT !.on = @ \cup added], dropped)]
          /\ Retire(h, dropped)
  /\ UNCHANGED <<kqHandle, kqNextGen, kqLevel, kqThread, kqWakeVars, kqRegs, kqBudget>>

\* deregister_with: both filters are tried and the slot goes only if both
\* are gone; the handle and its descriptor go in any case.
deregister_handle_kq(h) ==
  /\ kqThread = "busy" /\ kqHandle[h].st = "live"
  /\ LET s == kqHandle[h].slot
         r == kqReg[s]
     IN \E stuck \in SUBSET r.on :
          /\ MayFail(Cardinality(stuck))
          /\ kqFailed' = kqFailed + Cardinality(stuck)
          /\ kqNotes' = KqWithout(kqNotes, r.fd, r.on \ stuck)
          /\ kqReg' = [kqReg EXCEPT ![s] = IF stuck = {} THEN NoKqReg ELSE RegWithout(r, r.on \ stuck)]
  /\ kqHandle' = [kqHandle EXCEPT ![h].st = "gone"]
  /\ Retire(h, KqFilters)
  /\ UNCHANGED <<kqNextGen, kqLevel, kqThread, kqWakeVars, kqRegs, kqBudget>>

\* The descriptor is closed: the kernel forgets its filters.
close_fd_kq(h) ==
  /\ kqHandle[h].st = "gone"
  /\ kqHandle' = [kqHandle EXCEPT ![h] = NoKqHandle]
  /\ kqNotes' = KqWithout(kqNotes, kqHandle[h].fd, KqFilters)
  /\ kqLevel' = {l \in kqLevel : l[1] # kqHandle[h].fd}
  /\ UNCHANGED <<kqReg, kqNextGen, kqOp, kqThread, kqWakeVars, kqFailed, kqRegs, kqBudget>>

\* The descriptor of a registration that failed is closed.
close_failed_kq(fd) ==
  /\ \A h \in KqHandles : kqHandle[h].st # "none" => kqHandle[h].fd # fd
  /\ KqWithout(kqNotes, fd, KqFilters) # kqNotes
  /\ kqNotes' = KqWithout(kqNotes, fd, KqFilters)
  /\ UNCHANGED <<kqHandle, kqReg, kqNextGen, kqLevel, kqOp, kqThread, kqWakeVars, kqFailed, kqRegs, kqBudget>>

\* A task asks to be woken: for the next readiness, or because its operation
\* would block (after a wake it tries the operation first).
submit_poll_kq(h, f) ==
  /\ kqThread = "busy" /\ kqHandle[h].st = "live" /\ kqOp[h][f] \in {"none", "woken"}
  /\ LET s == kqHandle[h].slot IN
       /\ f \in kqReg[s].on /\ (kqOp[h][f] = "woken" => <<kqHandle[h].fd, f>> \notin kqLevel)
       /\ IF f \in kqReg[s].ready
            THEN /\ kqReg' = [kqReg EXCEPT ![s].ready = @ \ {f}]
                 /\ kqOp' = [kqOp EXCEPT ![h][f] = "woken"]
            ELSE /\ kqReg' = [kqReg EXCEPT ![s].waiter = @ \cup {f}]
                 /\ kqOp' = [kqOp EXCEPT ![h][f] = "waiting"]
  /\ UNCHANGED <<kqHandle, kqNextGen, kqNotes, kqLevel, kqThread, kqWakeVars, kqFailed, kqRegs, kqBudget>>
\* The kernel: a descriptor becomes ready just after the operation found it
\* was not, or at any other time.
becomes_ready(fd, f) ==
  /\ \E h \in KqHandles : kqHandle[h].st # "none" /\ kqHandle[h].fd = fd
  /\ <<fd, f>> \notin kqLevel
  /\ kqLevel' = kqLevel \cup {<<fd, f>>}
  /\ kqNotes' = {IF n.fd = fd /\ n.filter = f THEN [n EXCEPT !.active = TRUE] ELSE n : n \in kqNotes}
  /\ UNCHANGED <<kqHandle, kqReg, kqNextGen, kqOp, kqThread, kqWakeVars, kqFailed, kqRegs, kqBudget>>
\* An operation, woken or new, finds its descriptor ready and empties it.
op_completes(h, f) ==
  /\ kqThread = "busy" /\ kqHandle[h].st = "live" /\ kqOp[h][f] # "waiting"
  /\ <<kqHandle[h].fd, f>> \in kqLevel
  /\ kqLevel' = kqLevel \ {<<kqHandle[h].fd, f>>}
  /\ kqOp' = [kqOp EXCEPT ![h][f] = "none"]
  /\ UNCHANGED <<kqHandle, kqReg, kqNextGen, kqNotes, kqThread, kqWakeVars, kqFailed, kqRegs, kqBudget>>

-----------------------------------------------------------------------------
(* wait_events *)

\* Mutant: readiness nobody waits for is not remembered.
record_readiness_Forgets(r, f) == IF f \in r.on THEN [r EXCEPT !.waiter = @ \ {f}] ELSE r
\* record_readiness: the waiter is taken, or else the readiness is kept.
record_readiness(r, f) ==
  IF f \notin r.on THEN r
  ELSE IF f \in r.waiter THEN [r EXCEPT !.waiter = @ \ {f}]
  ELSE [r EXCEPT !.ready = @ \cup {f}]

\* Only an event of the registration that now has the slot counts.
KqCurrent(n) == kqReg[n.slot].gen = n.gen

kq_blocks ==
  /\ kqThread = "busy" /\ kqWork = 0 /\ kqThread' = "blocked"
  /\ UNCHANGED <<kqHandle, kqReg, kqNextGen, kqNotes, kqLevel, kqOp, kqWakeVars, kqFailed, kqRegs, kqBudget>>

\* kevent returns some of the active events; their filters are cleared.  The
\* wake event is acknowledged where it is met.
wait_events(batch, wake) ==
  /\ kqThread = "blocked" /\ (batch # {} \/ wake)
  /\ wake => kqWakeActive
  /\ kqNotes' = (kqNotes \ batch) \cup {[n EXCEPT !.active = FALSE] : n \in batch}
  /\ kqReg' = [s \in KqSlots |->
       FoldSet(LAMBDA n, r : record_readiness(r, n.filter), kqReg[s],
               {n \in batch : n.slot = s /\ KqCurrent(n)})]
  /\ kqOp' = [h \in KqHandles |-> [f \in KqFilters |->
       IF kqHandle[h].st = "live" /\ kqOp[h][f] = "waiting"
          /\ f \in kqReg[kqHandle[h].slot].waiter /\ f \notin kqReg'[kqHandle[h].slot].waiter
         THEN "woken" ELSE kqOp[h][f]]]
  /\ kqWakeActive' = (kqWakeActive /\ ~wake)
  /\ kqWakes' = IF wake /\ kqWakes > 0 THEN kqWakes - 1 ELSE kqWakes
  /\ kqThread' = IF wake THEN "acking" ELSE "busy"
  /\ UNCHANGED <<kqHandle, kqNextGen, kqLevel, kqRemote, kqWork, kqNotified, kqPushed, kqFailed, kqRegs, kqBudget>>
acknowledge ==
  /\ kqThread = "acking" /\ kqThread' = "busy" /\ kqNotified' = FALSE
  /\ UNCHANGED <<kqHandle, kqReg, kqNextGen, kqNotes, kqLevel, kqOp, kqRemote, kqWork, kqWakes,
                 kqWakeActive, kqPushed, kqFailed, kqRegs, kqBudget>>
take_work ==
  /\ kqThread = "busy" /\ kqWork > 0 /\ kqWork' = 0
  /\ UNCHANGED <<kqHandle, kqReg, kqNextGen, kqNotes, kqLevel, kqOp, kqThread, kqRemote, kqNotified,
                 kqWakes, kqWakeActive, kqPushed, kqFailed, kqRegs, kqBudget>>

\* DriverWaker::wake on another thread: push, swap the flag, send.
remote_pushes(r) ==
  /\ kqRemote[r] = "idle" /\ kqPushed < kqBudget.pushes
  /\ kqPushed' = kqPushed + 1 /\ kqWork' = kqWork + 1
  /\ kqRemote' = [kqRemote EXCEPT ![r] = "pushed"]
  /\ UNCHANGED <<kqHandle, kqReg, kqNextGen, kqNotes, kqLevel, kqOp, kqThread, kqNotified, kqWakes,
                 kqWakeActive, kqFailed, kqRegs, kqBudget>>
wake_swaps(r) ==
  /\ kqRemote[r] = "pushed"
  /\ kqNotified' = TRUE
  /\ kqRemote' = [kqRemote EXCEPT ![r] = IF kqNotified THEN "idle" ELSE "sending"]
  /\ UNCHANGED <<kqHandle, kqReg, kqNextGen, kqNotes, kqLevel, kqOp, kqThread, kqWork, kqWakes,
                 kqWakeActive, kqPushed, kqFailed, kqRegs, kqBudget>>
wake_sends(r) ==
  /\ kqRemote[r] = "sending"
  /\ kqWakes' = kqWakes + 1 /\ kqWakeActive' = TRUE
  /\ kqRemote' = [kqRemote EXCEPT ![r] = "idle"]
  /\ UNCHANGED <<kqHandle, kqReg, kqNextGen, kqNotes, kqLevel, kqOp, kqThread, kqWork, kqNotified,
                 kqPushed, kqFailed, kqRegs, kqBudget>>

\* The send fails: the flag is taken back, the caller has its work queued and no wake.
wake_fails(r) ==
  /\ kqRemote[r] = "sending" /\ MayFail(1) /\ kqFailed' = kqFailed + 1
  /\ kqNotified' = FALSE /\ kqRemote' = [kqRemote EXCEPT ![r] = "idle"]
  /\ UNCHANGED <<kqHandle, kqReg, kqNextGen, kqNotes, kqLevel, kqOp, kqThread, kqWork, kqWakes,
                 kqWakeActive, kqPushed, kqRegs, kqBudget>>

KqueueNext ==
  \/ \E h \in KqHandles :
       \/ \E fd \in KqFds, i \in KqInterests : register_handle_kq(h, fd, i)
       \/ \E i \in KqInterests : reregister_handle_kq(h, i)
       \/ deregister_handle_kq(h) \/ close_fd_kq(h)
       \/ \E f \in KqFilters : submit_poll_kq(h, f) \/ op_completes(h, f)
  \/ \E fd \in KqFds : close_failed_kq(fd)
  \/ \E fd \in KqFds, f \in KqFilters : becomes_ready(fd, f)
  \/ kq_blocks \/ acknowledge \/ take_work
  \/ \E batch \in SUBSET {n \in kqNotes : n.active}, wake \in BOOLEAN : wait_events(batch, wake)
  \/ \E r \in KqRemotes : remote_pushes(r) \/ wake_swaps(r) \/ wake_sends(r) \/ wake_fails(r)

KqueueSpec == KqueueInit /\ [][KqueueNext]_kqVars

-----------------------------------------------------------------------------
KqueueTypeOK ==
  /\ \A s \in KqSlots : kqReg[s].on \subseteq KqFilters /\ kqReg[s].gen \in 0..(KqGenerations - 1)
  /\ kqWakes \in Nat /\ kqWork \in 0..kqBudget.pushes

\* The slab and the kernel agree on every live registration, however its system calls
\* failed: a filter is installed under the registration's own key exactly when the slab
\* says so.  Only a filter that a failed call could not take back, on a descriptor still
\* open when the 32-bit generations have come round, may share a key.
FiltersMatch ==
  \A h \in KqHandles : kqHandle[h].st = "live" =>
    LET s == kqHandle[h].slot
        installed == {f \in KqFilters : \E n \in kqNotes :
                        n.fd = kqReg[s].fd /\ n.filter = f /\ n.slot = s /\ n.gen = kqReg[s].gen}
    IN /\ kqReg[s].fd = kqHandle[h].fd
       /\ kqReg[s].on \subseteq installed
       /\ kqRegs < KqGenerations \/ kqFailed = 0 => installed \subseteq kqReg[s].on

\* Edges are not lost: an operation that waits on a descriptor that has
\* become ready has its event still to come.
NoEdgeLost ==
  \A h \in KqHandles, f \in KqFilters : kqOp[h][f] = "waiting" =>
    /\ f \in kqReg[kqHandle[h].slot].waiter /\ f \notin kqReg[kqHandle[h].slot].ready
    /\ <<kqHandle[h].fd, f>> \in kqLevel =>
         \E n \in kqNotes : n.fd = kqHandle[h].fd /\ n.filter = f /\ n.active /\ KqCurrent(n)

\* A thread that sleeps in kevent with work to do is about to be woken, unless a send has
\* failed: the datagram is there, with its event, or a thread is on its way to send it.  The
\* flag stands only for a datagram, so the push after a failed send wakes again.
NoWakeLost ==
  /\ kqThread = "blocked" /\ kqWork > 0 /\ kqFailed = 0 =>
       (kqWakes > 0 /\ kqWakeActive) \/ \E r \in KqRemotes : kqRemote[r] # "idle"
  /\ kqNotified => \/ kqWakes > 0 \/ kqThread = "acking"
                   \/ \E r \in KqRemotes : kqRemote[r] = "sending"

\* What the kqueue driver promises the runtime.
KqueueSafe == KqueueTypeOK /\ FiltersMatch /\ NoEdgeLost /\ NoWakeLost
=============================================================================
