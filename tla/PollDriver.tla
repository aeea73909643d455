----------------------------- MODULE PollDriver -----------------------------
(***************************************************************************)
(* Readiness I/O of the runtime: poll-mode registrations of the io_uring,  *)
(* mio, kqueue and IOCP (AFD) drivers, the handles that own them           *)
(* (fd_inner.rs), operations that try their syscall and wait when it would *)
(* block (vibeio/op), and the read fast path of PollTcpStream.  Each       *)
(* handle is used by one task, one operation at a time.  The kernel        *)
(* reports edges; an io_uring multishot poll may end whenever it reports   *)
(* one, an AFD poll always does.                                           *)
(***************************************************************************)
EXTENDS Naturals, Sequences, FiniteSets, IoOps

LOCAL INSTANCE SequencesExt

CONSTANTS Handles,
          RegTokens,     \* keys of the registration slab, reused
          Backends,      \* subset of {"uring", "mio", "kqueue", "iocp"}
          Arrivals,      \* changes of readiness the environment makes
          MaxRegs,       \* registrations a behaviour makes
          MixedInterest, \* an operation may wait for another interest than
                         \* the one before it on the same registration
          NoRegn

ASSUME PollDriverAssumption ==
  /\ Backends \subseteq {"uring", "mio", "kqueue", "iocp"} /\ MixedInterest \in BOOLEAN
  /\ Arrivals \in Nat /\ MaxRegs \in Nat

VARIABLES backend,
          regs,     \* registrations: token -> [h, gen, mask, waiter, armed, ready, closed]
          regGen,   \* next_registration_generation
          token_,   \* InnerRawHandle.token, NoRegn for UNREGISTERED
          polls,    \* polls the kernel holds: [token, gen, h, mask]
          sq,       \* polls queued for submission (uring)
          cq,       \* events posted: [token, gen, h, ev, more, hup]
          io,       \* readiness of each file, with "hup" once the peer closed
          user,     \* the task of each handle: [pc, want, woken, drained]
          changes   \* changes of readiness so far

pollVars == <<backend, regs, regGen, token_, polls, sq, cq, io, user, changes>>
kernelVars == <<polls, sq, cq, io, changes>>

Idle == [pc |-> "idle", want |-> {}, woken |-> FALSE, drained |-> FALSE]

PollDriverInit ==
  /\ backend \in Backends
  /\ regs = [t \in RegTokens |-> NoRegn] /\ regGen = 0
  /\ token_ = [h \in Handles |-> NoRegn]
  /\ polls = {} /\ sq = {} /\ cq = <<>>
  /\ io = [h \in Handles |-> {}] /\ changes = 0
  /\ user = [h \in Handles |-> Idle]

Reg(h) == regs[token_[h]]
PollKey(p) == [token |-> p.token, gen |-> p.gen]
KeyOf(h) == [token |-> token_[h], gen |-> Reg(h).gen]
SetReg(h, r) == regs' = [regs EXCEPT ![token_[h]] = r]

\* A poll's syscall and its submit_poll are one step of the loop thread: only
\* the kernel moves between them.
LoopFree == \A h \in Handles : user[h].pc # "block"

-----------------------------------------------------------------------------
(* The kernel. *)

\* A poll reports what its mask asks for; hang-ups count as readable.
Reports(p, ready) ==
  (p.mask \cap ready) \cup (IF "R" \in p.mask THEN ready \cap {"hup"} ELSE {})
Event(p, ready, more) ==
  [token |-> p.token, gen |-> p.gen, h |-> p.h, ev |-> p.mask \cap ready, more |-> more,
   hup |-> "R" \in p.mask /\ "hup" \in ready]

\* Whether a poll may go on after an event.
GoesOn == IF backend = "uring" THEN BOOLEAN ELSE {backend # "iocp"}

\* Arming a poll reports at once what is ready, and may end it there.
ArmIn(p, ps, q) ==
  IF Reports(p, io[p.h]) = {} THEN polls' = ps \cup {p} /\ cq' = q
  ELSE \E more \in GoesOn :
         /\ polls' = IF more THEN ps \cup {p} ELSE ps
         /\ cq' = Append(q, Event(p, io[p.h], more))

\* New readiness of h: every poll that asks for it reports the edge.
arrive(h, what) ==
  /\ changes < Arrivals /\ what \notin io[h] /\ "hup" \notin io[h]
  /\ changes' = changes + 1
  /\ io' = [io EXCEPT ![h] = @ \cup (IF what = "hup" THEN {"hup", "R"} ELSE {what})]
  /\ LET told == {p \in polls : p.h = h /\ Reports(p, io'[h]) # Reports(p, io[h])} IN
     \E ended \in SUBSET told :
       /\ \A p \in told : (p \notin ended) \in GoesOn
       /\ polls' = polls \ ended
       /\ cq' = cq \o SetToSeq({Event(p, io'[h], p \notin ended) : p \in told})
  /\ UNCHANGED <<backend, regs, regGen, token_, sq, user>>

\* io_uring_enter: one queued poll reaches the kernel.
submit_sq ==
  /\ LoopFree
  /\ \E p \in sq : sq' = sq \ {p} /\ ArmIn(p, polls, cq)
  /\ UNCHANGED <<backend, regs, regGen, token_, io, user, changes>>

-----------------------------------------------------------------------------
(* Registrations. *)

NextGen == regGen + 1
NewReg(h) ==
  [h |-> h, gen |-> NextGen, mask |-> {"R", "W"}, waiter |-> {}, armed |-> FALSE,
   ready |-> {}, closed |-> FALSE]

\* io_uring and IOCP arm a poll with the first wait, mio and kqueue arm it now.
PollsOnWait == backend \in {"uring", "iocp"}

register_handle(h, t) ==
  /\ LoopFree /\ token_[h] = NoRegn /\ regs[t] = NoRegn /\ regGen < MaxRegs /\ user[h].pc = "idle"
  /\ regGen' = NextGen
  /\ regs' = [regs EXCEPT ![t] = NewReg(h)] /\ token_' = [token_ EXCEPT ![h] = t]
  /\ IF PollsOnWait THEN UNCHANGED <<polls, cq>>
     ELSE ArmIn([token |-> t, gen |-> NextGen, h |-> h, mask |-> {"R", "W"}], polls, cq)
  /\ UNCHANGED <<backend, sq, io, user, changes>>

\* The registration leaves the slab.  mio and kqueue remove the source with
\* its events; the others cancel its poll by key, io_uring after submitting
\* what is queued (the result is ignored), and events already posted stay in the queue.
deregister_handle(h) ==
  /\ LoopFree /\ token_[h] # NoRegn /\ user[h].pc = "idle"
  /\ regs' = [regs EXCEPT ![token_[h]] = NoRegn]
  /\ token_' = [token_ EXCEPT ![h] = NoRegn]
  /\ user' = [user EXCEPT ![h] = Idle]
  /\ IF ~PollsOnWait
     THEN /\ polls' = {p \in polls : PollKey(p) # KeyOf(h)}
          /\ cq' = SelectSeq(cq, LAMBDA e : PollKey(e) # KeyOf(h))
          /\ UNCHANGED sq
     ELSE /\ ~Reg(h).armed \/ sq = {}
          /\ UNCHANGED sq
          /\ LET mine == {p \in polls : PollKey(p) = KeyOf(h)} IN
             \/ ~Reg(h).armed /\ UNCHANGED <<polls, cq>>
             \/ /\ Reg(h).armed /\ polls' = polls \ mine
                /\ cq' = IF mine = {} THEN cq
                         ELSE Append(cq, [token |-> token_[h], gen |-> Reg(h).gen, h |-> h,
                                          ev |-> {}, more |-> FALSE, hup |-> FALSE])
             \/ Reg(h).armed /\ UNCHANGED <<polls, cq>>
  /\ UNCHANGED <<backend, regGen, io, changes>>

-----------------------------------------------------------------------------
(* The operations: the syscall, then submit_poll when it would block. *)

MayWant(h, i) == MixedInterest \/ user[h].want \in {{}, {i}}

\* TcpStream's poll_read after a short read: no syscall if no readiness was
\* left over, straight to the wait.
SkipsSyscall(h, i) ==
  i = "R" /\ user[h].drained /\ ~Reg(h).closed /\ Reg(h).ready = {}

BeforeSyscall(r) == [r EXCEPT !.ready = {}]

try_io(h, i) ==
  /\ LoopFree /\ token_[h] # NoRegn /\ MayWant(h, i)
  /\ user[h].pc = "idle" \/ (user[h].pc = "pending" /\ user[h].want = {i})
  /\ IF SkipsSyscall(h, i)
     THEN /\ user' = [user EXCEPT ![h] = [pc |-> "block", want |-> {i}, woken |-> FALSE,
                                          drained |-> FALSE]]
          /\ UNCHANGED <<regs, io>>
     ELSE /\ IF backend \in {"uring", "mio"} /\ i = "R"
             THEN SetReg(h, BeforeSyscall(Reg(h))) ELSE UNCHANGED regs
          /\ IF i \in io[h]
             THEN \E short \in BOOLEAN :
                    /\ io' = IF "hup" \in io[h] \/ ~short THEN io
                             ELSE [io EXCEPT ![h] = @ \ {i}]
                    /\ user' = [user EXCEPT ![h] = [pc |-> "idle", want |-> {i}, woken |-> FALSE,
                                  drained |-> i = "R" /\ short /\ backend \in {"uring", "mio"}]]
             ELSE /\ user' = [user EXCEPT ![h] = [pc |-> "block", want |-> {i}, woken |-> FALSE,
                                                  drained |-> FALSE]]
                  /\ UNCHANGED io
  /\ UNCHANGED <<backend, regGen, token_, polls, sq, cq, changes>>

Park(h, woken) == user' = [user EXCEPT ![h].pc = "pending", ![h].woken = woken]

Claimable(r, i) == (i = "R" /\ r.closed) \/ r.ready # {}

uring_submit_poll(h, i) ==
  LET r == Reg(h)
      p == [token |-> token_[h], gen |-> r.gen, h |-> h, mask |-> {i}]
  IN  /\ backend = "uring"
      /\ IF Claimable(r, i)
         THEN SetReg(h, [r EXCEPT !.ready = IF i = "R" /\ r.closed THEN @ ELSE {}])
              /\ Park(h, TRUE) /\ UNCHANGED sq
         ELSE /\ SetReg(h, [r EXCEPT !.waiter = {i}, !.armed = TRUE]) /\ Park(h, FALSE)
              /\ sq' = IF r.armed THEN sq ELSE sq \cup {p}
      /\ UNCHANGED <<polls, cq>>

\* The submission queue cannot take the poll: the operation fails.
uring_submit_fails(h, i) ==
  LET r == Reg(h) IN
  /\ backend = "uring" /\ ~Claimable(r, i) /\ ~r.armed
  /\ SetReg(h, [r EXCEPT !.waiter = {}])
  /\ user' = [user EXCEPT ![h] = [Idle EXCEPT !.want = {i}]]
  /\ UNCHANGED <<sq, polls, cq>>

\* mio re-registers the source when the interest changes.
mio_submit_poll(h, i) ==
  LET r == Reg(h)
      p == [token |-> token_[h], gen |-> r.gen, h |-> h, mask |-> {i}]
      s == [r EXCEPT !.mask = {i}]
  IN  /\ backend = "mio"
      /\ IF r.mask = {i} THEN UNCHANGED <<polls, cq>>
         ELSE ArmIn(p, {q \in polls : PollKey(q) # PollKey(p)}, cq)
      /\ IF Claimable(r, i)
         THEN SetReg(h, [s EXCEPT !.ready = IF i = "R" /\ r.closed THEN @ ELSE {}])
              /\ Park(h, TRUE)
         ELSE SetReg(h, [s EXCEPT !.waiter = {i}]) /\ Park(h, FALSE)
      /\ UNCHANGED sq

\* kqueue has a waiter and a flag for each filter.
kqueue_submit_poll(h, i) ==
  LET r == Reg(h) IN
  /\ backend = "kqueue"
  /\ IF i \in r.ready
     THEN SetReg(h, [r EXCEPT !.ready = @ \ {i}]) /\ Park(h, TRUE)
     ELSE SetReg(h, [r EXCEPT !.waiter = @ \cup {i}]) /\ Park(h, FALSE)
  /\ UNCHANGED <<polls, sq, cq>>

\* An AFD poll is armed at once unless one is out; readiness leaves no flag.
iocp_submit_poll(h, i) ==
  LET r == Reg(h)
      p == [token |-> token_[h], gen |-> r.gen, h |-> h, mask |-> {i}]
  IN  /\ backend = "iocp"
      /\ SetReg(h, [r EXCEPT !.mask = {i}, !.waiter = {i}, !.armed = TRUE]) /\ Park(h, FALSE)
      /\ IF r.armed THEN UNCHANGED <<polls, cq>> ELSE ArmIn(p, polls, cq)
      /\ UNCHANGED sq

iocp_submit_fails(h, i) ==
  /\ backend = "iocp" /\ ~Reg(h).armed
  /\ SetReg(h, [Reg(h) EXCEPT !.mask = {i}, !.waiter = {}])
  /\ user' = [user EXCEPT ![h] = [Idle EXCEPT !.want = {i}]]
  /\ UNCHANGED <<sq, polls, cq>>

submit_poll(h) ==
  /\ user[h].pc = "block"
  /\ \E i \in user[h].want : \/ uring_submit_poll(h, i) \/ uring_submit_fails(h, i)
                             \/ mio_submit_poll(h, i) \/ kqueue_submit_poll(h, i)
                             \/ iocp_submit_poll(h, i) \/ iocp_submit_fails(h, i)
  /\ UNCHANGED <<backend, regGen, token_, io, changes>>

\* The future is dropped; its waker stays in the registration.
drop_op(h) ==
  /\ LoopFree /\ user[h].pc = "pending"
  /\ user' = [user EXCEPT ![h] = [Idle EXCEPT !.want = user[h].want]]
  /\ UNCHANGED <<backend, regs, regGen, token_, kernelVars>>

-----------------------------------------------------------------------------
(* The driver's wait: one event. *)

Current(e) == regs[e.token] # NoRegn /\ regs[e.token].gen = e.gen

\* Mutant: the event that ends a multishot poll leaves it marked armed.
ArmedAfter_Kept(r, e) == r.armed
ArmedAfter(r, e) == e.more

\* kqueue leaves a flag only when nobody waits, IOCP never, the others always.
Recorded(r, e) ==
  IF backend = "kqueue"
  THEN [r EXCEPT !.waiter = @ \ e.ev, !.ready = @ \cup (e.ev \ r.waiter)]
  ELSE IF backend = "iocp" THEN [r EXCEPT !.armed = ArmedAfter(r, e), !.waiter = {}]
  ELSE [r EXCEPT !.closed = @ \/ e.hup, !.armed = ArmedAfter(r, e), !.waiter = {}, !.ready = {"any"}]

Woken(r, e) == IF backend = "kqueue" THEN r.waiter \cap e.ev # {} ELSE r.waiter # {}

drain_cq ==
  /\ LoopFree /\ cq # <<>> /\ cq' = Tail(cq)
  /\ LET e == Head(cq) IN
     IF ~Current(e) THEN UNCHANGED <<regs, user>>
     ELSE LET r == regs[e.token] IN
          /\ regs' = [regs EXCEPT ![e.token] = Recorded(r, e)]
          /\ user' = IF Woken(r, e) /\ user[r.h].pc = "pending"
                     THEN [user EXCEPT ![r.h].woken = TRUE] ELSE user
  /\ UNCHANGED <<backend, regGen, token_, polls, sq, io, changes>>

RetryIo(h) == /\ user[h].pc = "pending" /\ user[h].woken
              /\ \E i \in user[h].want : try_io(h, i)

PollDriverNext ==
  \/ \E h \in Handles : \/ \E t \in RegTokens : register_handle(h, t)
                        \/ \E i \in PollInterests : try_io(h, i) /\ user[h].pc = "idle"
                        \/ deregister_handle(h) \/ submit_poll(h) \/ drop_op(h) \/ RetryIo(h)
                        \/ \E what \in {"R", "W", "hup"} : arrive(h, what)
  \/ submit_sq \/ drain_cq

\* The loop submits and drains in every turn and polls woken tasks.
PollDriverFairness ==
  /\ WF_pollVars(submit_sq) /\ WF_pollVars(drain_cq)
  /\ \A h \in Handles : WF_pollVars(RetryIo(h)) /\ WF_pollVars(submit_poll(h))

PollDriverSpec == PollDriverInit /\ [][PollDriverNext]_pollVars /\ PollDriverFairness

-----------------------------------------------------------------------------
PollDriverTypeOK ==
  /\ \A t \in RegTokens : regs[t] = NoRegn \/
       regs[t] \in [h : Handles, gen : 1..MaxRegs, mask : SUBSET {"R", "W"},
                    waiter : SUBSET {"R", "W"}, armed : BOOLEAN,
                    ready : SUBSET {"R", "W", "any"}, closed : BOOLEAN]
  /\ user \in [Handles -> [pc : {"idle", "block", "pending"}, want : SUBSET {"R", "W"},
                          woken : BOOLEAN, drained : BOOLEAN]]
  /\ \A h \in Handles : token_[h] = NoRegn \/ Reg(h).h = h

Live(p) == regs[p.token] # NoRegn /\ regs[p.token].gen = p.gen
Sleeping(h) == user[h].pc = "pending" /\ ~user[h].woken

\* No readiness is lost: a task that sleeps while its file has what it waits
\* for has an event on its way, or a poll that reports when it is submitted.
NoLostReadiness ==
  \A h \in Handles : Sleeping(h) /\ (user[h].want \cap io[h] # {}) =>
    \/ \E k \in DOMAIN cq : Live(cq[k]) /\ cq[k].h = h
                            /\ (cq[k].ev \cap user[h].want # {} \/ cq[k].hup)
    \/ \E p \in sq : Live(p) /\ p.h = h /\ user[h].want \subseteq p.mask

\* A sleeping task is some registration's waiter, and poll_armed says exactly
\* whether a multishot poll of this registration is in the kernel or on its
\* way there (until the event that ends it is drained): never two, never none.
ArmedExact ==
  \A t \in RegTokens : regs[t] # NoRegn =>
    LET r == regs[t]
        mine == {p \in polls \cup sq : PollKey(p) = [token |-> t, gen |-> r.gen]}
        ended == \E k \in DOMAIN cq : PollKey(cq[k]) = [token |-> t, gen |-> r.gen]
                                      /\ ~cq[k].more
    IN  /\ Sleeping(r.h) /\ token_[r.h] = t => user[r.h].want \subseteq r.waiter
        /\ PollsOnWait =>
             /\ r.armed <=> (mine # {} \/ ended)
             /\ Cardinality(mine) <= 1 /\ (mine # {} => ~ended)

PollDriverSafe == PollDriverTypeOK /\ NoLostReadiness /\ ArmedExact

\* A task that waits is polled again once its file is ready.
ReadinessOwed == \E h \in Handles : user[h].pc = "pending" /\ user[h].want \cap io[h] # {}
ReadinessServed == []<>~ReadinessOwed

=============================================================================
