--------------------------- MODULE LoopPartsProofs ---------------------------
(***************************************************************************)
(* Proofs about what the loop serves besides its queues: servers, signals, *)
(* watched descriptors, datagrams, sock_ calls and connects, for every     *)
(* number of connections, streams, registrations, datagrams, operations    *)
(* and attempts.                                                           *)
(***************************************************************************)
EXTENDS MCLoopParts, SequenceFacts

-----------------------------------------------------------------------------
(* Servers.  Every way a connection can end is in: a factory that fails, a  *)
(* connection_made that raises or closes, a loss, an upgrade that fails.   *)

ServerStages == {"new", "picked", "queued", "made", "open", "leased", "shaken", "opened", "over",
                 "gone", "rejected", "uncounted"}

ServerTypes ==
    /\ stls \in BOOLEAN /\ closed \in BOOLEAN /\ serving \in BOOLEAN
    /\ spawning \in BOOLEAN /\ stopQueued \in BOOLEAN /\ overload \in BOOLEAN
    /\ acceptor \in {"none", "gone"} \union Accepting
    /\ server_closing \in {"no", "drain", "notify", "done"}
    /\ conn \in [Conns -> ServerStages]
    /\ checking \in Nat /\ notifying \in Nat
    /\ server_waiter \in [Waiters ->
           [at : {"idle", "closed", "tasks", "conns", "pending", "listen", "asleep", "done"},
            second : BOOLEAN, heard : BOOLEAN]]

\* A server starts accepting once, and a connection takes the steps of its kind.
ServerOrder ==
    /\ ~closed /\ ~serving => acceptor = "none" /\ ~spawning
    /\ spawning => acceptor = "none"
    /\ stls => \A c \in Conns : conn[c] \notin {"made", "leased", "rejected", "uncounted"}
    /\ ~stls => /\ acceptor # "reserving"
                /\ \A c \in Conns : conn[c] \notin {"picked", "shaken", "opened", "over"}

\* What wait_closed() has seen stays so: a closed server is not opened again, its accept
\* task does not come back from its check, and without it no slot is taken.
WaitClosedOrder ==
    LET here == server_waiter["wait_closed"].at IN
    /\ here \in {"tasks", "conns", "pending", "done"} => closed
    /\ here \in {"conns", "pending", "done"} => acceptor \notin {"accepting", "reserving"}
    /\ here = "done" => pendingTls = 0
    /\ server_waiter["serve_forever"].at \notin {"tasks", "conns", "pending"}

ServerInv == ServerTypes /\ ServerOrder /\ CountersExact /\ WaitClosedOrder /\ NoWaiterStranded

CountOf(f, S) == Cardinality({c \in Conns : f[c] \in S})
HoldsSlot == {"queued", "shaken", "opened", "over"}

USE DEF closeVars, acceptVars, waiterStays, loopVars, AcceptorEnds, LoseConnection,
    dispatch_watch_command, rearm_fd_watch, server_connection_lost, execute_callback,
    remote_fires, plain_connection_opened, tls_connection_made, tls_connection_opened,
    plain_connection_made, connection_lost_check, waiter_load, ReleaseSlot, stop_server_accept,
    watch_error, local_fires, start_server_accept, tls_handshake, signal_raised,
    finish_start_tls, remove_signal_handler, spawn_accept_queue, add_signal_handler,
    accept_would_block, spawn_accept_take, run_signal_callback, add_reader, close_drain,
    dispatch_fired, cleanup_watchers, waiter_listen, waiter_wakes, dispatch_start, close_notify,
    accept_error, accept_check, LeaseDropped, notify_all, watcher_sends, dispatch_stop,
    close_flags, call_waiter, waiter_ready, StartWatch, start_tls, run_starts_or_ends,
    waiter_polls, accept

\* A count of connections is a natural, never more than there are connections.
LEMMA CountBounds ==
    ASSUME NEW f \in [Conns -> ServerStages], NEW S
    PROVE  /\ CountOf(f, S) \in Nat
           /\ CountOf(f, S) + 1 < CountWidth /\ CountWidth \in Nat
           /\ CountOf(f, S) = 0 <=> \A c \in Conns : f[c] \notin S
<1> DEFINE A == {c \in Conns : f[c] \in S}
<1>1. IsFiniteSet(A) /\ Cardinality(A) <= Cardinality(Conns)
 <2>1. A \in SUBSET Conns OBVIOUS
 <2>2. QED BY <2>1, FS_Subset, ServerAssumption
<1>2. Cardinality(A) \in Nat /\ Cardinality(Conns) \in Nat
  BY <1>1, ServerAssumption, FS_CardinalityType
<1>3. Cardinality(A) = 0 <=> A = {} BY <1>1, FS_EmptySet
<1>4. CountOf(f, S) = Cardinality(A) BY DEF CountOf
<1>5. CountWidth \in Nat /\ CountWidth > Cardinality(Conns) + 1 BY ServerAssumption
<1>6. CountOf(f, S) \in Nat BY <1>2, <1>4
<1>7. CountOf(f, S) + 1 < CountWidth /\ CountWidth \in Nat
 <2> HIDE DEF A
 <2> QED BY <1>1, <1>2, <1>4, <1>5
<1>8. CountOf(f, S) = 0 <=> \A c \in Conns : f[c] \notin S BY <1>3, <1>4, Zenon
<1> QED BY <1>6, <1>7, <1>8

\* One connection moves: it leaves the count of where it was and joins that of where it is.
LEMMA Recount ==
    ASSUME NEW f \in [Conns -> ServerStages], NEW c \in Conns, NEW t \in ServerStages, NEW S
    PROVE  LET g == [f EXCEPT ![c] = t] IN
           /\ (f[c] \in S <=> t \in S) => CountOf(g, S) = CountOf(f, S)
           /\ f[c] \notin S /\ t \in S => CountOf(g, S) = CountOf(f, S) + 1
           /\ f[c] \in S /\ t \notin S => CountOf(g, S) = CountOf(f, S) - 1 /\ CountOf(f, S) > 0
<1> DEFINE A == {d \in Conns : f[d] \in S}
           B == {d \in Conns : [f EXCEPT ![c] = t][d] \in S}
<1>1. IsFiniteSet(A)
 <2>1. A \in SUBSET Conns OBVIOUS
 <2>2. QED BY <2>1, FS_Subset, ServerAssumption
<1>2. ASSUME f[c] \in S <=> t \in S PROVE Cardinality(B) = Cardinality(A)
 <2>1. B = A BY <1>2
 <2>2. QED BY <2>1, Zenon
<1>3. ASSUME f[c] \notin S, t \in S PROVE Cardinality(B) = Cardinality(A) + 1
 <2>1. B = A \union {c} /\ c \notin A BY <1>3
 <2>2. QED BY <1>1, <2>1, FS_AddElement
<1>4. ASSUME f[c] \in S, t \notin S PROVE Cardinality(B) = Cardinality(A) - 1 /\ Cardinality(A) > 0
 <2>1. B = A \ {c} /\ c \in A BY <1>4
 <2>2. Cardinality(B) = Cardinality(A) - 1
  <3> HIDE DEF A, B
  <3>1. Cardinality(A \ {c}) = Cardinality(A) - 1 BY <1>1, <2>1, FS_RemoveElement
  <3>2. QED BY <2>1, <3>1
 <2>3. Cardinality(A) \in Nat /\ Cardinality(A) # 0 BY <1>1, <2>1, FS_EmptySet, FS_CardinalityType
 <2>4. QED BY <2>2, <2>3
<1>5. QED BY <1>2, <1>3, <1>4 DEF CountOf

\* A counter goes up and down by one, around zero.
LEMMA CounterSteps ==
    ASSUME NEW n \in Int, CountWidth \in Nat, 0 - CountWidth < n, n < CountWidth
    PROVE  /\ n + 1 < CountWidth => Inc(Wrapped(n)) = Wrapped(n + 1)
           /\ 0 - CountWidth < n - 1 => Dec(Wrapped(n)) = Wrapped(n - 1)
           /\ n >= 0 => Wrapped(n) = n
           /\ Wrapped(n) = 0 <=> n = 0
<1>1. CASE n < 0 - 1 BY <1>1 DEF Inc, Dec, Wrapped
<1>2. CASE n = 0 - 1
 <2>1. CountWidth % CountWidth = 0 OBVIOUS
 <2>2. QED BY <1>2, <2>1 DEF Inc, Dec, Wrapped
<1>3. CASE n = 0
 <2>1. (0 - 1) % CountWidth = CountWidth - 1 BY <1>3
 <2>2. QED BY <1>3, <2>1 DEF Inc, Dec, Wrapped
<1>4. CASE n > 0 BY <1>4 DEF Inc, Dec, Wrapped
<1>5. QED BY <1>1, <1>2, <1>3, <1>4

\* The steps of a server, one by one.
LEMMA ServerCases ==
    ASSUME ServerNext
    PROVE  \/ spawn_accept_take \/ spawn_accept_queue \/ start_server_accept \/ accept_check \/
              accept_would_block \/ accept_error \/ close_flags \/ close_drain \/
              stop_server_accept \/ close_notify \/ connection_lost_check \/ notify_all
           \/ \E c \in Conns :
                  accept(c) \/ reserve_tls_slot(c) \/ plain_connection_made(c) \/
                  plain_connection_opened(c) \/ tls_handshake(c) \/ tls_connection_opened(c) \/
                  tls_connection_made(c) \/ server_connection_lost(c) \/
                  start_tls(c) \/ finish_start_tls(c)
           \/ \E w \in Waiters :
                  call_waiter(w) \/ waiter_load(w) \/ waiter_listen(w) \/ waiter_wakes(w)
  BY DEF ServerNext, AcceptorStep, CloseStep, ConnStep, WaiterStep

\* Types, under every step.
LEMMA ServerTypesKept ==
    ASSUME ServerTypes, ServerNext
    PROVE  ServerTypes'
<1> USE DEF ServerTypes, ServerStages, Accepting
<1>1. CASE spawn_accept_take BY <1>1
<1>2. CASE spawn_accept_queue BY <1>2
<1>3. CASE start_server_accept BY <1>3
<1>4. CASE accept_check BY <1>4
<1>5. CASE accept_would_block BY <1>5
<1>6. CASE accept_error BY <1>6
<1>7. CASE close_flags BY <1>7
<1>8. CASE close_drain
 <2>1. acceptor' \in {"none", "gone"} \union Accepting BY <1>8
 <2>2. stopQueued' \in BOOLEAN BY <1>8
 <2>3. notifying' \in Nat BY <1>8
 <2>4. QED BY <1>8, <2>1, <2>2, <2>3
<1>9. CASE stop_server_accept
 <2>1. acceptor' \in {"none", "gone"} \union Accepting /\ notifying' \in Nat BY <1>9
 <2>2. QED BY <1>9, <2>1
<1>10. CASE close_notify BY <1>10
<1>11. CASE connection_lost_check BY <1>11
<1>12. CASE notify_all
 <2>1. notifying' \in Nat BY <1>12
 <2>2. QED BY <1>12, <2>1
<1>13. ASSUME NEW c \in Conns, accept(c) PROVE ServerTypes' BY <1>13
<1>14. ASSUME NEW c \in Conns, reserve_tls_slot(c) PROVE ServerTypes'
 <2>1. (overload \/ ~closed) \in BOOLEAN OBVIOUS
 <2>2. overload' \in BOOLEAN BY <1>14, <2>1 DEF reserve_tls_slot
 <2>3. QED BY <1>14, <2>2 DEF reserve_tls_slot
<1>15. ASSUME NEW c \in Conns, plain_connection_made(c) PROVE ServerTypes' BY <1>15
<1>16. ASSUME NEW c \in Conns, plain_connection_opened(c) PROVE ServerTypes' BY <1>16
<1>17. ASSUME NEW c \in Conns, tls_handshake(c) PROVE ServerTypes'
 <2>1. notifying' \in Nat BY <1>17
 <2>2. (overload /\ Dec(pendingTls) >= TlsLimit \div 2) \in BOOLEAN OBVIOUS
 <2>3. overload' \in BOOLEAN BY <1>17, <2>2
 <2>4. QED BY <1>17, <2>1, <2>3
<1>18. ASSUME NEW c \in Conns, tls_connection_opened(c) PROVE ServerTypes' BY <1>18
<1>19. ASSUME NEW c \in Conns, tls_connection_made(c) PROVE ServerTypes' BY <1>19
<1>20. ASSUME NEW c \in Conns, server_connection_lost(c) PROVE ServerTypes' BY <1>20 DEF LossLeaves
<1>21. ASSUME NEW c \in Conns, start_tls(c) PROVE ServerTypes' BY <1>21
<1>22. ASSUME NEW c \in Conns, finish_start_tls(c) PROVE ServerTypes' BY <1>22
<1>23. ASSUME NEW w \in Waiters, call_waiter(w) PROVE ServerTypes' BY <1>23
<1>24. ASSUME NEW w \in Waiters, waiter_load(w) PROVE ServerTypes'
 <2>1. Loaded(w)[2] \in {"done", "tasks", "conns", "pending"} BY <1>24 DEF Loaded
 <2>2. QED BY <1>24, <2>1
<1>25. ASSUME NEW w \in Waiters, waiter_listen(w) PROVE ServerTypes' BY <1>25
<1>26. ASSUME NEW w \in Waiters, waiter_wakes(w) PROVE ServerTypes' BY <1>26
<1> QED
  BY ServerCases, <1>1, <1>2, <1>3, <1>4, <1>5, <1>6, <1>7, <1>8, <1>9, <1>10, <1>11, <1>12, <1>13, <1>14, <1>15, <1>16, <1>17, <1>18, <1>19, <1>20, <1>21, <1>22, <1>23, <1>24, <1>25, <1>26

\* A server starts accepting once, and a connection takes the steps of its kind.
LEMMA ServerOrderKept ==
    ASSUME ServerTypes, ServerOrder, ServerNext
    PROVE  ServerOrder'
<1> USE DEF ServerTypes, ServerOrder, Accepting
<1>1. CASE spawn_accept_take BY <1>1
<1>2. CASE spawn_accept_queue BY <1>2
<1>3. CASE start_server_accept BY <1>3
<1>4. CASE accept_check BY <1>4
<1>5. CASE accept_would_block BY <1>5
<1>6. CASE accept_error BY <1>6
<1>7. CASE close_flags BY <1>7
<1>8. CASE close_drain BY <1>8
<1>9. CASE stop_server_accept BY <1>9
<1>10. CASE close_notify BY <1>10
<1>11. CASE connection_lost_check BY <1>11
<1>12. CASE notify_all BY <1>12
<1>13. ASSUME NEW c \in Conns, accept(c) PROVE ServerOrder' BY <1>13
<1>14. ASSUME NEW c \in Conns, reserve_tls_slot(c) PROVE ServerOrder'
  BY <1>14 DEF reserve_tls_slot, SlotFree
<1>15. ASSUME NEW c \in Conns, plain_connection_made(c) PROVE ServerOrder' BY <1>15
<1>16. ASSUME NEW c \in Conns, plain_connection_opened(c) PROVE ServerOrder' BY <1>16
<1>17. ASSUME NEW c \in Conns, tls_handshake(c) PROVE ServerOrder' BY <1>17
<1>18. ASSUME NEW c \in Conns, tls_connection_opened(c) PROVE ServerOrder' BY <1>18
<1>19. ASSUME NEW c \in Conns, tls_connection_made(c) PROVE ServerOrder' BY <1>19
<1>20. ASSUME NEW c \in Conns, server_connection_lost(c) PROVE ServerOrder' BY <1>20 DEF LossLeaves
<1>21. ASSUME NEW c \in Conns, start_tls(c) PROVE ServerOrder' BY <1>21
<1>22. ASSUME NEW c \in Conns, finish_start_tls(c) PROVE ServerOrder' BY <1>22
<1>23. ASSUME NEW w \in Waiters, call_waiter(w) PROVE ServerOrder' BY <1>23
<1>24. ASSUME NEW w \in Waiters, waiter_load(w) PROVE ServerOrder' BY <1>24
<1>25. ASSUME NEW w \in Waiters, waiter_listen(w) PROVE ServerOrder' BY <1>25
<1>26. ASSUME NEW w \in Waiters, waiter_wakes(w) PROVE ServerOrder' BY <1>26
<1> QED
  BY ServerCases, <1>1, <1>2, <1>3, <1>4, <1>5, <1>6, <1>7, <1>8, <1>9, <1>10, <1>11, <1>12, <1>13, <1>14, <1>15, <1>16, <1>17, <1>18, <1>19, <1>20, <1>21, <1>22, <1>23, <1>24, <1>25, <1>26, Zenon

\* What a step does to the counts: nothing moves, or one connection does and the counters
\* with it.  A transport that was lost uncounted stays so.
CountedMove(c, t) ==
    \/ activeConns' = activeConns /\ (conn[c] \in Counted <=> t \in Counted) /\ t # "uncounted"
    \/ activeConns' = Inc(activeConns) /\ conn[c] \notin Counted /\ t \in Counted
    \/ /\ activeConns' = Dec(activeConns) /\ t \notin Counted
       /\ conn[c] \in Counted <=> t # "uncounted"
SlotMove(c, t) ==
    \/ pendingTls' = pendingTls /\ (stls => (conn[c] \in HoldsSlot <=> t \in HoldsSlot))
    \/ /\ pendingTls' = Inc(pendingTls) /\ stls /\ conn[c] \notin HoldsSlot /\ t \in HoldsSlot
       /\ pendingTls < TlsLimit
    \/ pendingTls' = Dec(pendingTls) /\ stls /\ conn[c] \in HoldsSlot /\ t \notin HoldsSlot
Moves ==
    \E c \in Conns, t \in ServerStages :
        /\ conn' = [conn EXCEPT ![c] = t] /\ conn[c] # "uncounted"
        /\ CountedMove(c, t) /\ SlotMove(c, t)

LEMMA ServerMoves ==
    ASSUME ServerTypes, ServerOrder, ServerNext
    PROVE  stls' = stls /\ ((conn' = conn /\ activeConns' = activeConns /\ pendingTls' = pendingTls) \/ Moves)
<1> DEFINE Still == conn' = conn /\ activeConns' = activeConns /\ pendingTls' = pendingTls
           Goal == stls' = stls /\ (Still \/ Moves)
<1>a. stls \in BOOLEAN /\ conn \in [Conns -> ServerStages] BY DEF ServerTypes
<1>b. /\ stls => \A c \in Conns : conn[c] \notin {"made", "leased", "rejected", "uncounted"}
      /\ ~stls => \A c \in Conns : conn[c] \notin {"picked", "shaken", "opened", "over"}
  BY DEF ServerOrder
<1>c. ASSUME NEW c \in Conns, NEW t \in ServerStages, conn' = [conn EXCEPT ![c] = t],
             conn[c] # "uncounted", CountedMove(c, t), SlotMove(c, t)
      PROVE  Moves
  BY <1>c DEF Moves
<1>1. CASE spawn_accept_take BY <1>1
<1>2. CASE spawn_accept_queue BY <1>2
<1>3. CASE start_server_accept BY <1>3
<1>4. CASE accept_check BY <1>4
<1>5. CASE accept_would_block BY <1>5
<1>6. CASE accept_error BY <1>6
<1>7. CASE close_flags BY <1>7
<1>8. CASE close_drain BY <1>8
<1>9. CASE stop_server_accept BY <1>9
<1>10. CASE close_notify BY <1>10
<1>11. CASE connection_lost_check BY <1>11
<1>12. CASE notify_all BY <1>12
<1>13. ASSUME NEW c \in Conns, accept(c) PROVE Goal
 <2>1. stls' = stls BY <1>13
 <2>2. PICK t \in {"gone", "queued", "picked"} : conn' = [conn EXCEPT ![c] = t] /\ CountedMove(c, t) /\ SlotMove(c, t)
   BY <1>13, <1>a, <1>b DEF CountedMove, SlotMove, Counted, HoldsSlot
 <2>3. conn[c] # "uncounted" /\ t \in ServerStages BY <1>13 DEF ServerStages
 <2>4. QED BY <2>1, <2>2, <2>3, <1>c
<1>14. ASSUME NEW c \in Conns, reserve_tls_slot(c) PROVE Goal
 <2>1. stls' = stls BY <1>14 DEF reserve_tls_slot
 <2>2. PICK t \in {"queued", "gone"} : conn' = [conn EXCEPT ![c] = t] /\ CountedMove(c, t) /\ SlotMove(c, t)
   BY <1>14, <1>a, <1>b DEF reserve_tls_slot, SlotFree, CountedMove, SlotMove, Counted, HoldsSlot
 <2>3. conn[c] # "uncounted" /\ t \in ServerStages BY <1>14 DEF reserve_tls_slot, ServerStages
 <2>4. QED BY <2>1, <2>2, <2>3, <1>c
<1>15. ASSUME NEW c \in Conns, plain_connection_made(c) PROVE Goal
 <2>1. stls' = stls BY <1>15
 <2>2. PICK t \in {"made", "gone", "rejected"} : conn' = [conn EXCEPT ![c] = t] /\ CountedMove(c, t) /\ SlotMove(c, t)
   BY <1>15, <1>a, <1>b DEF CountedMove, SlotMove, Counted, HoldsSlot
 <2>3. conn[c] # "uncounted" /\ t \in ServerStages BY <1>15 DEF ServerStages
 <2>4. QED BY <2>1, <2>2, <2>3, <1>c
<1>16. ASSUME NEW c \in Conns, plain_connection_opened(c) PROVE Goal
 <2>1. stls' = stls BY <1>16
 <2>2. PICK t \in {"open"} : conn' = [conn EXCEPT ![c] = t] /\ CountedMove(c, t) /\ SlotMove(c, t)
   BY <1>16, <1>a, <1>b DEF CountedMove, SlotMove, Counted, HoldsSlot
 <2>3. conn[c] # "uncounted" /\ t \in ServerStages BY <1>16 DEF ServerStages
 <2>4. QED BY <2>1, <2>2, <2>3, <1>c
<1>17. ASSUME NEW c \in Conns, tls_handshake(c) PROVE Goal
 <2>1. stls' = stls BY <1>17
 <2>2. PICK t \in {"shaken", "gone"} : conn' = [conn EXCEPT ![c] = t] /\ CountedMove(c, t) /\ SlotMove(c, t)
   BY <1>17, <1>a, <1>b DEF CountedMove, SlotMove, Counted, HoldsSlot
 <2>3. conn[c] # "uncounted" /\ t \in ServerStages BY <1>17 DEF ServerStages
 <2>4. QED BY <2>1, <2>2, <2>3, <1>c
<1>18. ASSUME NEW c \in Conns, tls_connection_opened(c) PROVE Goal
 <2>1. stls' = stls BY <1>18
 <2>2. PICK t \in {"opened"} : conn' = [conn EXCEPT ![c] = t] /\ CountedMove(c, t) /\ SlotMove(c, t)
   BY <1>18, <1>a, <1>b DEF CountedMove, SlotMove, Counted, HoldsSlot
 <2>3. conn[c] # "uncounted" /\ t \in ServerStages BY <1>18 DEF ServerStages
 <2>4. QED BY <2>1, <2>2, <2>3, <1>c
<1>19. ASSUME NEW c \in Conns, tls_connection_made(c) PROVE Goal
 <2>1. stls' = stls BY <1>19
 <2>2. PICK t \in {"open", "gone"} : conn' = [conn EXCEPT ![c] = t] /\ CountedMove(c, t) /\ SlotMove(c, t)
   BY <1>19, <1>a, <1>b DEF CountedMove, SlotMove, Counted, HoldsSlot
 <2>3. conn[c] # "uncounted" /\ t \in ServerStages BY <1>19 DEF ServerStages
 <2>4. QED BY <2>1, <2>2, <2>3, <1>c
<1>20. ASSUME NEW c \in Conns, server_connection_lost(c) PROVE Goal
 <2>1. stls' = stls BY <1>20
 <2>2. PICK t \in {"gone", "over", "uncounted"} : conn' = [conn EXCEPT ![c] = t] /\ CountedMove(c, t) /\ SlotMove(c, t)
   BY <1>20, <1>a, <1>b DEF LossLeaves, CountedMove, SlotMove, Counted, HoldsSlot
 <2>3. conn[c] # "uncounted" /\ t \in ServerStages BY <1>20 DEF ServerStages
 <2>4. QED BY <2>1, <2>2, <2>3, <1>c
<1>21. ASSUME NEW c \in Conns, start_tls(c) PROVE Goal
 <2>1. stls' = stls BY <1>21
 <2>2. PICK t \in {"leased"} : conn' = [conn EXCEPT ![c] = t] /\ CountedMove(c, t) /\ SlotMove(c, t)
   BY <1>21, <1>a, <1>b DEF CountedMove, SlotMove, Counted, HoldsSlot
 <2>3. conn[c] # "uncounted" /\ t \in ServerStages BY <1>21 DEF ServerStages
 <2>4. QED BY <2>1, <2>2, <2>3, <1>c
<1>22. ASSUME NEW c \in Conns, finish_start_tls(c) PROVE Goal
 <2>1. stls' = stls BY <1>22
 <2>2. PICK t \in {"open", "gone"} : conn' = [conn EXCEPT ![c] = t] /\ CountedMove(c, t) /\ SlotMove(c, t)
   BY <1>22, <1>a, <1>b DEF CountedMove, SlotMove, Counted, HoldsSlot
 <2>3. conn[c] # "uncounted" /\ t \in ServerStages BY <1>22 DEF ServerStages
 <2>4. QED BY <2>1, <2>2, <2>3, <1>c
<1>23. ASSUME NEW w \in Waiters, call_waiter(w) PROVE Goal BY <1>23
<1>24. ASSUME NEW w \in Waiters, waiter_load(w) PROVE Goal BY <1>24
<1>25. ASSUME NEW w \in Waiters, waiter_listen(w) PROVE Goal BY <1>25
<1>26. ASSUME NEW w \in Waiters, waiter_wakes(w) PROVE Goal BY <1>26
<1> QED
  BY ServerCases, <1>1, <1>2, <1>3, <1>4, <1>5, <1>6, <1>7, <1>8, <1>9, <1>10, <1>11, <1>12, <1>13, <1>14, <1>15, <1>16, <1>17, <1>18, <1>19, <1>20, <1>21, <1>22, <1>23, <1>24, <1>25, <1>26

\* The counters as counts of connections.
ActiveCount(f) == CountOf(f, Counted) - CountOf(f, {"uncounted"})

LEMMA CountersAreCounts ==
    ASSUME CountersExact
    PROVE  /\ activeConns = Wrapped(ActiveCount(conn))
           /\ pendingTls = IF stls THEN CountOf(conn, HoldsSlot) ELSE 0
           /\ Uncounted = {} <=> CountOf(conn, {"uncounted"}) = 0
<1>1. Uncounted = {c \in Conns : conn[c] \in {"uncounted"}} BY DEF Uncounted
<1>2. /\ InState(Counted) = CountOf(conn, Counted)
      /\ InState(HoldsSlot) = CountOf(conn, HoldsSlot)
      /\ Cardinality(Uncounted) = CountOf(conn, {"uncounted"})
  BY <1>1, Zenon DEF InState, CountOf
<1>3. activeConns = Wrapped(InState(Counted) - Cardinality(Uncounted)) BY DEF CountersExact
<1>4. pendingTls = IF stls THEN InState(HoldsSlot) ELSE 0 BY DEF CountersExact, HoldsSlot
<1>5. IsFiniteSet(Uncounted) BY FS_Subset, ServerAssumption DEF Uncounted
<1>6. Uncounted = {} <=> Cardinality(Uncounted) = 0 BY <1>5, FS_EmptySet
<1>7. QED BY <1>2, <1>3, <1>4, <1>6 DEF ActiveCount

LEMMA CountersBack ==
    ASSUME acceptTasks' = (IF acceptor' \in Accepting THEN 1 ELSE 0),
           activeConns' = Wrapped(ActiveCount(conn')), pendingTls' <= TlsLimit,
           pendingTls' = IF stls' THEN CountOf(conn', HoldsSlot) ELSE 0
    PROVE  CountersExact'
<1>1. Uncounted' = {c \in Conns : conn'[c] \in {"uncounted"}} BY DEF Uncounted
<1>2. InState(Counted)' = CountOf(conn', Counted) /\ Cardinality(Uncounted') = CountOf(conn', {"uncounted"})
  BY <1>1, Zenon DEF InState, CountOf
<1>3. activeConns' = Wrapped(InState(Counted)' - Cardinality(Uncounted')) BY <1>2 DEF ActiveCount
<1>4. pendingTls' = IF stls' THEN InState(HoldsSlot)' ELSE 0 BY Zenon DEF InState, CountOf
<1>5. QED BY <1>3, <1>4 DEF CountersExact, HoldsSlot, Wrapped

\* The ranges in which the counters stay.
LEMMA CounterRanges ==
    ASSUME NEW f \in [Conns -> ServerStages]
    PROVE  /\ ActiveCount(f) \in Int /\ CountWidth \in Nat
           /\ 0 - CountWidth < ActiveCount(f) /\ ActiveCount(f) + 1 < CountWidth
           /\ CountOf(f, HoldsSlot) \in Nat /\ CountOf(f, HoldsSlot) + 1 < CountWidth
<1>1. \A S : /\ CountOf(f, S) \in Nat
             /\ CountOf(f, S) + 1 < CountWidth /\ CountWidth \in Nat
  BY CountBounds
<1> HIDE DEF CountOf
<1>2. QED BY <1>1 DEF ActiveCount

\* The count of accept tasks is one while there is one.
LEMMA TaskCountKept ==
    ASSUME ServerTypes, ServerOrder, CountersExact, ServerNext
    PROVE  acceptTasks' = IF acceptor' \in Accepting THEN 1 ELSE 0
<1> DEFINE Goal == acceptTasks' = IF acceptor' \in Accepting THEN 1 ELSE 0
<1> USE DEF Accepting
<1>a. acceptTasks = IF acceptor \in Accepting THEN 1 ELSE 0 BY DEF CountersExact
<1>b. CountWidth \in Nat /\ 1 < CountWidth BY ServerAssumption, FS_CardinalityType
<1>c. Inc(0) = 1 /\ Dec(1) = 0 BY <1>b DEF Inc, Dec
<1>d. acceptor \in {"none", "gone"} \union Accepting /\ (spawning => acceptor = "none")
  BY DEF ServerTypes, ServerOrder
<1>1. CASE spawn_accept_take BY <1>1, <1>a, <1>c, <1>d
<1>2. CASE spawn_accept_queue BY <1>2, <1>a, <1>c, <1>d
<1>3. CASE start_server_accept BY <1>3, <1>a, <1>c, <1>d
<1>4. CASE accept_check BY <1>4, <1>a, <1>c, <1>d
<1>5. CASE accept_would_block BY <1>5, <1>a, <1>c, <1>d
<1>6. CASE accept_error BY <1>6, <1>a, <1>c, <1>d
<1>7. CASE close_flags BY <1>7, <1>a, <1>c, <1>d
<1>8. CASE close_drain BY <1>8, <1>a, <1>c, <1>d
<1>9. CASE stop_server_accept BY <1>9, <1>a, <1>c, <1>d
<1>10. CASE close_notify BY <1>10, <1>a, <1>c, <1>d
<1>11. CASE connection_lost_check BY <1>11, <1>a, <1>c, <1>d
<1>12. CASE notify_all BY <1>12, <1>a, <1>c, <1>d
<1>13. ASSUME NEW c \in Conns, accept(c) PROVE Goal BY <1>13, <1>a, <1>c, <1>d
<1>14. ASSUME NEW c \in Conns, reserve_tls_slot(c) PROVE Goal
  BY <1>14, <1>a, <1>c, <1>d DEF reserve_tls_slot, SlotFree
<1>15. ASSUME NEW c \in Conns, plain_connection_made(c) PROVE Goal BY <1>15, <1>a, <1>c, <1>d
<1>16. ASSUME NEW c \in Conns, plain_connection_opened(c) PROVE Goal BY <1>16, <1>a, <1>c, <1>d
<1>17. ASSUME NEW c \in Conns, tls_handshake(c) PROVE Goal BY <1>17, <1>a, <1>c, <1>d
<1>18. ASSUME NEW c \in Conns, tls_connection_opened(c) PROVE Goal BY <1>18, <1>a, <1>c, <1>d
<1>19. ASSUME NEW c \in Conns, tls_connection_made(c) PROVE Goal BY <1>19, <1>a, <1>c, <1>d
<1>20. ASSUME NEW c \in Conns, server_connection_lost(c) PROVE Goal
  BY <1>20, <1>a, <1>c, <1>d DEF LossLeaves
<1>21. ASSUME NEW c \in Conns, start_tls(c) PROVE Goal BY <1>21, <1>a, <1>c, <1>d
<1>22. ASSUME NEW c \in Conns, finish_start_tls(c) PROVE Goal BY <1>22, <1>a, <1>c, <1>d
<1>23. ASSUME NEW w \in Waiters, call_waiter(w) PROVE Goal BY <1>23, <1>a, <1>c, <1>d
<1>24. ASSUME NEW w \in Waiters, waiter_load(w) PROVE Goal BY <1>24, <1>a, <1>c, <1>d
<1>25. ASSUME NEW w \in Waiters, waiter_listen(w) PROVE Goal BY <1>25, <1>a, <1>c, <1>d
<1>26. ASSUME NEW w \in Waiters, waiter_wakes(w) PROVE Goal BY <1>26, <1>a, <1>c, <1>d
<1> QED
  BY ServerCases, <1>1, <1>2, <1>3, <1>4, <1>5, <1>6, <1>7, <1>8, <1>9, <1>10, <1>11, <1>12, <1>13, <1>14, <1>15, <1>16, <1>17, <1>18, <1>19, <1>20, <1>21, <1>22, <1>23, <1>24, <1>25, <1>26

\* Every counter stays exact, and the one of the connections reaches zero from one alone
\* unless a transport was lost uncounted.
LEMMA CountersKept ==
    ASSUME ServerTypes, ServerOrder, CountersExact, ServerNext
    PROVE  /\ CountersExact'
           /\ Uncounted # {} => Uncounted' # {}
           /\ activeConns' = 0 /\ activeConns # 0 /\ Uncounted = {} => activeConns' = Dec(activeConns) /\ activeConns = 1
<1> DEFINE n == ActiveCount(conn)
           h == CountOf(conn, HoldsSlot)
<1>a. conn \in [Conns -> ServerStages] /\ stls \in BOOLEAN BY DEF ServerTypes
<1>b. /\ n \in Int /\ CountWidth \in Nat /\ 0 - CountWidth < n /\ n + 1 < CountWidth
      /\ h \in Nat /\ h + 1 < CountWidth
  BY <1>a, CounterRanges
<1>c. activeConns = Wrapped(n) /\ pendingTls = (IF stls THEN h ELSE 0) BY CountersAreCounts
<1>d. pendingTls <= TlsLimit /\ TlsLimit \in Nat BY ServerAssumption DEF CountersExact
<1>e. stls' = stls BY ServerMoves
<1>1. CASE conn' = conn /\ activeConns' = activeConns /\ pendingTls' = pendingTls
 <2>1. Uncounted' = Uncounted BY <1>1 DEF Uncounted
 <2>2. activeConns' = Wrapped(ActiveCount(conn')) /\ pendingTls' = IF stls' THEN CountOf(conn', HoldsSlot) ELSE 0
   BY <1>1, <1>c, <1>e
 <2>3. QED BY <1>1, <1>d, <2>1, <2>2, TaskCountKept, CountersBack
<1>2. CASE Moves
 <2>1. PICK c \in Conns, t \in ServerStages :
          /\ conn' = [conn EXCEPT ![c] = t] /\ conn[c] # "uncounted"
          /\ CountedMove(c, t) /\ SlotMove(c, t)
   BY <1>2 DEF Moves
 <2>2. conn' \in [Conns -> ServerStages] BY <1>a, <2>1
 <2> DEFINE m == ActiveCount(conn')
            k == CountOf(conn', HoldsSlot)
 <2>3. /\ m \in Int /\ 0 - CountWidth < m /\ m + 1 < CountWidth /\ k \in Nat BY <2>2, CounterRanges
 <2>4. \A S : /\ (conn[c] \in S <=> t \in S) => CountOf(conn', S) = CountOf(conn, S)
              /\ conn[c] \notin S /\ t \in S => CountOf(conn', S) = CountOf(conn, S) + 1
              /\ conn[c] \in S /\ t \notin S =>
                     CountOf(conn', S) = CountOf(conn, S) - 1 /\ CountOf(conn, S) > 0
   BY <1>a, <2>1, Recount, Zenon
 <2>5. \A S : CountOf(conn, S) \in Nat BY <1>a, CountBounds
 <2>6. \/ activeConns' = activeConns /\ m = n
       \/ activeConns' = Inc(activeConns) /\ m = n + 1
       \/ activeConns' = Dec(activeConns) /\ m = n - 1
  <3> HIDE DEF CountOf
  <3>1. CASE activeConns' = activeConns /\ (conn[c] \in Counted <=> t \in Counted) /\ t # "uncounted"
   <4>1. CountOf(conn', Counted) = CountOf(conn, Counted) BY <2>4, <3>1
   <4>2. CountOf(conn', {"uncounted"}) = CountOf(conn, {"uncounted"}) BY <2>1, <2>4, <3>1
   <4>3. QED BY <3>1, <4>1, <4>2 DEF ActiveCount
  <3>2. CASE activeConns' = Inc(activeConns) /\ conn[c] \notin Counted /\ t \in Counted
   <4>1. CountOf(conn', Counted) = CountOf(conn, Counted) + 1 BY <2>4, <3>2
   <4>2. CountOf(conn', {"uncounted"}) = CountOf(conn, {"uncounted"})
    <5>1. t # "uncounted" BY <3>2 DEF Counted
    <5>2. QED BY <2>1, <2>4, <5>1
   <4>3. QED BY <2>5, <3>2, <4>1, <4>2 DEF ActiveCount
  <3>3. CASE /\ activeConns' = Dec(activeConns) /\ t \notin Counted
             /\ conn[c] \in Counted <=> t # "uncounted"
   <4>1. CASE t = "uncounted"
    <5>1. CountOf(conn', Counted) = CountOf(conn, Counted) BY <2>4, <3>3, <4>1
    <5>2. CountOf(conn', {"uncounted"}) = CountOf(conn, {"uncounted"}) + 1 BY <2>1, <2>4, <4>1
    <5>3. QED BY <2>5, <3>3, <5>1, <5>2 DEF ActiveCount
   <4>2. CASE t # "uncounted"
    <5>1. CountOf(conn', Counted) = CountOf(conn, Counted) - 1 BY <2>4, <3>3, <4>2
    <5>2. CountOf(conn', {"uncounted"}) = CountOf(conn, {"uncounted"}) BY <2>1, <2>4, <4>2
    <5>3. QED BY <2>5, <3>3, <5>1, <5>2 DEF ActiveCount
   <4>3. QED BY <4>1, <4>2
  <3>4. QED BY <2>1, <3>1, <3>2, <3>3 DEF CountedMove
 <2>7. activeConns' = Wrapped(m)
  <3> HIDE DEF m, n
  <3> QED BY <1>b, <1>c, <2>3, <2>6, CounterSteps
 <2>8. pendingTls' = (IF stls' THEN k ELSE 0) /\ pendingTls' <= TlsLimit
  <3>1. CASE pendingTls' = pendingTls /\ (stls => (conn[c] \in HoldsSlot <=> t \in HoldsSlot))
   <4>1. stls => k = h BY <2>4, <3>1
   <4>2. QED BY <3>1, <4>1, <1>c, <1>d, <1>e
  <3>2. CASE /\ pendingTls' = Inc(pendingTls) /\ stls /\ conn[c] \notin HoldsSlot /\ t \in HoldsSlot
             /\ pendingTls < TlsLimit
   <4>1. k = h + 1 BY <2>4, <3>2
   <4>2. Inc(h) = h + 1
    <5> HIDE DEF h
    <5> QED BY <1>b, CounterSteps DEF Wrapped
   <4>3. QED BY <3>2, <4>1, <4>2, <1>b, <1>c, <1>d, <1>e
  <3>3. CASE pendingTls' = Dec(pendingTls) /\ stls /\ conn[c] \in HoldsSlot /\ t \notin HoldsSlot
   <4>1. k = h - 1 /\ h > 0 BY <2>4, <3>3
   <4>2. Dec(h) = h - 1
    <5> HIDE DEF h, k
    <5> QED BY <1>b, <2>3, <4>1, CounterSteps DEF Wrapped
   <4>3. QED BY <3>3, <4>1, <4>2, <1>b, <1>c, <1>d, <1>e
  <3>4. QED BY <2>1, <3>1, <3>2, <3>3 DEF SlotMove
 <2>9. CountersExact' BY <2>7, <2>8, TaskCountKept, CountersBack
 <2>10. Uncounted # {} => Uncounted' # {} BY <1>a, <2>1 DEF Uncounted
 <2>11. activeConns' = 0 /\ activeConns # 0 /\ Uncounted = {} => activeConns' = Dec(activeConns) /\ activeConns = 1
  <3>1. SUFFICES ASSUME activeConns' = 0, activeConns # 0, Uncounted = {}
                 PROVE  activeConns' = Dec(activeConns) /\ activeConns = 1
    OBVIOUS
  <3>2. CountOf(conn, {"uncounted"}) = 0 BY <3>1, CountersAreCounts
  <3>3. n \in Nat BY <2>5, <3>2 DEF ActiveCount
  <3>4. m = 0 /\ n # 0
   <4> HIDE DEF m, n
   <4> QED BY <3>1, <3>3, <2>3, <2>7, <1>b, <1>c, CounterSteps DEF Wrapped
  <3>5. n = 1 /\ activeConns' = Dec(activeConns)
   <4> HIDE DEF m, n
   <4> QED BY <3>1, <3>3, <3>4, <2>6
  <3>6. QED BY <1>c, <3>5 DEF Wrapped
 <2>12. QED BY <2>9, <2>10, <2>11
<1>3. QED BY ServerMoves, <1>1, <1>2

\* A connection that holds a slot shows in the counter.
LEMMA SlotIsCounted ==
    ASSUME ServerTypes, CountersExact, NEW c \in Conns, stls, conn[c] \in HoldsSlot
    PROVE  pendingTls # 0
  BY CountersAreCounts, CountBounds DEF ServerTypes

LEMMA SlotIsCountedNext ==
    ASSUME ServerTypes', CountersExact', NEW c \in Conns, stls', conn'[c] \in HoldsSlot
    PROVE  pendingTls' # 0
<1>1. pendingTls' = CountOf(conn', HoldsSlot) /\ conn' \in [Conns -> ServerStages]
  BY DEF CountersExact, InState, CountOf, HoldsSlot, ServerTypes
<1>2. QED BY <1>1, CountBounds

\* What wait_closed() has seen stays so.
LEMMA WaitClosedOrderKept ==
    ASSUME ServerTypes, ServerOrder, CountersExact, WaitClosedOrder, ServerNext
    PROVE  WaitClosedOrder'
<1> USE DEF ServerTypes, ServerOrder, WaitClosedOrder, Waiters
<1>1. CASE spawn_accept_take BY <1>1
<1>2. CASE spawn_accept_queue BY <1>2
<1>3. CASE start_server_accept BY <1>3
<1>4. CASE accept_check BY <1>4
<1>5. CASE accept_would_block BY <1>5
<1>6. CASE accept_error BY <1>6
<1>7. CASE close_flags BY <1>7
<1>8. CASE close_drain BY <1>8
<1>9. CASE stop_server_accept BY <1>9
<1>10. CASE close_notify BY <1>10
<1>11. CASE connection_lost_check BY <1>11
<1>12. CASE notify_all BY <1>12
<1>13. ASSUME NEW c \in Conns, accept(c) PROVE WaitClosedOrder' BY <1>13
<1>14. ASSUME NEW c \in Conns, reserve_tls_slot(c) PROVE WaitClosedOrder'
  BY <1>14 DEF reserve_tls_slot, SlotFree
<1>15. ASSUME NEW c \in Conns, plain_connection_made(c) PROVE WaitClosedOrder' BY <1>15
<1>16. ASSUME NEW c \in Conns, plain_connection_opened(c) PROVE WaitClosedOrder' BY <1>16
<1>17. ASSUME NEW c \in Conns, tls_handshake(c) PROVE WaitClosedOrder'
 <2>1. pendingTls # 0 BY <1>17, SlotIsCounted DEF HoldsSlot
 <2>2. QED BY <1>17, <2>1
<1>18. ASSUME NEW c \in Conns, tls_connection_opened(c) PROVE WaitClosedOrder' BY <1>18
<1>19. ASSUME NEW c \in Conns, tls_connection_made(c) PROVE WaitClosedOrder'
 <2>1. pendingTls # 0 BY <1>19, SlotIsCounted DEF HoldsSlot
 <2>2. QED BY <1>19, <2>1
<1>20. ASSUME NEW c \in Conns, server_connection_lost(c) PROVE WaitClosedOrder'
  BY <1>20 DEF LossLeaves
<1>21. ASSUME NEW c \in Conns, start_tls(c) PROVE WaitClosedOrder' BY <1>21
<1>22. ASSUME NEW c \in Conns, finish_start_tls(c) PROVE WaitClosedOrder' BY <1>22
<1>23. ASSUME NEW w \in Waiters, call_waiter(w) PROVE WaitClosedOrder' BY <1>23
<1>24. ASSUME NEW w \in Waiters, waiter_load(w) PROVE WaitClosedOrder'
 <2>1. acceptTasks = 0 => acceptor \notin {"accepting", "reserving"}
   BY DEF CountersExact, Accepting
 <2>2. CASE w = "serve_forever"
  <3>1. server_waiter[w].at = "closed" BY <1>24, <2>2
  <3>2. Loaded(w)[2] = "done" BY <2>2, <3>1 DEF Loaded
  <3>3. QED BY <1>24, <2>2, <3>2
 <2>3. CASE w = "wait_closed" BY <1>24, <2>1, <2>3 DEF Loaded
 <2>4. QED BY <2>2, <2>3
<1>25. ASSUME NEW w \in Waiters, waiter_listen(w) PROVE WaitClosedOrder' BY <1>25
<1>26. ASSUME NEW w \in Waiters, waiter_wakes(w) PROVE WaitClosedOrder' BY <1>26
<1> HIDE DEF ServerTypes, ServerOrder, WaitClosedOrder, Waiters
<1> QED
  BY ServerCases, <1>1, <1>2, <1>3, <1>4, <1>5, <1>6, <1>7, <1>8, <1>9, <1>10, <1>11, <1>12, <1>13, <1>14, <1>15, <1>16, <1>17, <1>18, <1>19, <1>20, <1>21, <1>22, <1>23, <1>24, <1>25, <1>26

\* Whoever makes true what a waiting future waits for is on its way to notify_all.
LEMMA NoWaiterStrandedKept ==
    ASSUME ServerTypes, ServerOrder, CountersExact, WaitClosedOrder, NoWaiterStranded, ServerNext
    PROVE  NoWaiterStranded'
<1> USE DEF ServerTypes, NoWaiterStranded, Satisfied
<1>a. /\ Uncounted # {} => Uncounted' # {}
      /\ activeConns' = 0 /\ activeConns # 0 /\ Uncounted = {} => activeConns' = Dec(activeConns) /\ activeConns = 1
  BY CountersKept
<1>b. acceptTasks' = (IF acceptor' \in Accepting THEN 1 ELSE 0) /\ acceptTasks = IF acceptor \in Accepting THEN 1 ELSE 0
  BY TaskCountKept DEF CountersExact
<1>c. conn' = conn => Uncounted' = Uncounted BY DEF Uncounted
<1>d. Uncounted = {} => Inc(activeConns) # 0
 <2>1. ActiveCount(conn) \in Int /\ CountWidth \in Nat
       /\ 0 - CountWidth < ActiveCount(conn) /\ ActiveCount(conn) + 1 < CountWidth
   BY CounterRanges
 <2>2. Uncounted = {} => ActiveCount(conn) = CountOf(conn, Counted) - 0
   BY CountersAreCounts DEF ActiveCount
 <2>3. CountOf(conn, Counted) \in Nat BY CountBounds
 <2>4. activeConns = Wrapped(ActiveCount(conn)) BY CountersAreCounts
 <2> HIDE DEF CountOf
 <2>5. Uncounted = {} => ActiveCount(conn) \in Nat BY <2>2, <2>3
 <2>6. QED BY <2>1, <2>4, <2>5, CounterSteps DEF Wrapped
<1>1. CASE spawn_accept_take BY <1>1, <1>a, <1>b, <1>c
<1>2. CASE spawn_accept_queue
 <2>1. acceptTasks' # 0 BY <1>2, <1>b DEF Accepting
 <2>2. server_waiter' = server_waiter /\ notifying' = notifying /\ closed' = closed
       /\ activeConns' = activeConns /\ pendingTls' = pendingTls /\ checking' = checking
       /\ server_closing' = server_closing /\ Uncounted' = Uncounted
   BY <1>2, <1>c
 <2>3. QED BY <2>1, <2>2
<1>3. CASE start_server_accept BY <1>3, <1>a, <1>b, <1>c
<1>4. CASE accept_check BY <1>4, <1>a, <1>b, <1>c
<1>5. CASE accept_would_block BY <1>5, <1>a, <1>b, <1>c
<1>6. CASE accept_error BY <1>6, <1>a, <1>b, <1>c
<1>7. CASE close_flags BY <1>7, <1>a, <1>b, <1>c
<1>8. CASE close_drain BY <1>8, <1>a, <1>b, <1>c
<1>9. CASE stop_server_accept BY <1>9, <1>a, <1>b, <1>c
<1>10. CASE close_notify BY <1>10, <1>a, <1>b, <1>c
<1>11. CASE connection_lost_check BY <1>11, <1>a, <1>b, <1>c
<1>12. CASE notify_all BY <1>12, <1>a, <1>b, <1>c
<1>13. ASSUME NEW c \in Conns, accept(c) PROVE NoWaiterStranded' BY <1>13, <1>a, <1>b, <1>c
<1>14. ASSUME NEW c \in Conns, reserve_tls_slot(c) PROVE NoWaiterStranded'
 <2>1. pendingTls' = pendingTls \/ pendingTls' # 0
  <3>1. SUFFICES ASSUME pendingTls' # pendingTls PROVE pendingTls' # 0 OBVIOUS
  <3>2. stls' /\ conn'[c] \in HoldsSlot
    BY <1>14, <3>1 DEF reserve_tls_slot, HoldsSlot, ServerOrder
  <3>3. ServerTypes' /\ CountersExact' BY ServerTypesKept, CountersKept
  <3>4. QED BY <3>2, <3>3, SlotIsCountedNext
 <2>2. server_waiter' = server_waiter /\ notifying' = notifying /\ closed' = closed
       /\ activeConns' = activeConns /\ acceptTasks' = acceptTasks /\ checking' = checking
       /\ server_closing' = server_closing
   BY <1>14 DEF reserve_tls_slot
 <2>3. QED BY <1>a, <2>1, <2>2
<1>15. ASSUME NEW c \in Conns, plain_connection_made(c) PROVE NoWaiterStranded'
  BY <1>15, <1>a, <1>b, <1>c
<1>16. ASSUME NEW c \in Conns, plain_connection_opened(c) PROVE NoWaiterStranded'
 <2>1. activeConns' = Inc(activeConns) /\ server_waiter' = server_waiter BY <1>16
 <2>2. QED BY <1>16, <1>a, <1>d, <2>1
<1>17. ASSUME NEW c \in Conns, tls_handshake(c) PROVE NoWaiterStranded' BY <1>17, <1>a, <1>b, <1>c
<1>18. ASSUME NEW c \in Conns, tls_connection_opened(c) PROVE NoWaiterStranded'
 <2>1. activeConns' = Inc(activeConns) /\ server_waiter' = server_waiter BY <1>18
 <2>2. QED BY <1>18, <1>a, <1>d, <2>1
<1>19. ASSUME NEW c \in Conns, tls_connection_made(c) PROVE NoWaiterStranded'
  BY <1>19, <1>a, <1>b, <1>c
<1>20. ASSUME NEW c \in Conns, server_connection_lost(c) PROVE NoWaiterStranded'
  BY <1>20, <1>a, <1>b, <1>c DEF LossLeaves
<1>21. ASSUME NEW c \in Conns, start_tls(c) PROVE NoWaiterStranded' BY <1>21, <1>a, <1>b, <1>c
<1>22. ASSUME NEW c \in Conns, finish_start_tls(c) PROVE NoWaiterStranded'
  BY <1>22, <1>a, <1>b, <1>c
<1>23. ASSUME NEW w \in Waiters, call_waiter(w) PROVE NoWaiterStranded' BY <1>23, <1>a, <1>b, <1>c
<1>24. ASSUME NEW w \in Waiters, waiter_load(w) PROVE NoWaiterStranded'
 <2>1. ~Satisfied(w) \/ Loaded(w)[1] BY <1>24 DEF Loaded, WaitClosedOrder, Waiters
 <2>2. server_waiter'[w].at # "asleep" \/ ~Satisfied(w)
  <3>1. Loaded(w)[1] => Loaded(w)[2] \in {"done", "tasks", "conns", "pending"} BY <1>24 DEF Loaded
  <3>2. QED BY <1>24, <2>1, <3>1
 <2>3. \A v \in Waiters : v # w => server_waiter'[v] = server_waiter[v] BY <1>24
 <2>4. QED BY <1>24, <1>c, <2>2, <2>3
<1>25. ASSUME NEW w \in Waiters, waiter_listen(w) PROVE NoWaiterStranded' BY <1>25, <1>a, <1>b, <1>c
<1>26. ASSUME NEW w \in Waiters, waiter_wakes(w) PROVE NoWaiterStranded' BY <1>26, <1>a, <1>b, <1>c
<1> QED
  BY ServerCases, <1>1, <1>2, <1>3, <1>4, <1>5, <1>6, <1>7, <1>8, <1>9, <1>10, <1>11, <1>12, <1>13, <1>14, <1>15, <1>16, <1>17, <1>18, <1>19, <1>20, <1>21, <1>22, <1>23, <1>24, <1>25, <1>26

\* The invariant holds initially and is kept, also while another part moves.
LEMMA ServerInitially == ServerInit => ServerInv
<1> SUFFICES ASSUME ServerInit PROVE ServerInv OBVIOUS
<1>1. ServerTypes /\ ServerOrder BY DEF ServerInit, ServerTypes, ServerOrder, ServerStages
<1>2. WaitClosedOrder /\ NoWaiterStranded
  BY DEF ServerInit, WaitClosedOrder, NoWaiterStranded, Waiters
<1>3. \A S : "new" \notin S => {c \in Conns : conn[c] \in S} = {} BY DEF ServerInit
<1>4. InState(Counted) = 0 /\ InState(HoldsSlot) = 0 /\ Cardinality(Uncounted) = 0
 <2>1. "new" \notin Counted /\ "new" \notin HoldsSlot /\ Uncounted = {}
   BY DEF Counted, HoldsSlot, Uncounted, ServerInit
 <2>2. QED BY <1>3, <2>1, FS_EmptySet, Zenon DEF InState
<1>5. CountersExact
  BY <1>4, ServerAssumption DEF CountersExact, ServerInit, Wrapped, HoldsSlot, Accepting
<1>6. QED BY <1>1, <1>2, <1>5 DEF ServerInv

LEMMA ServerKept ==
    ASSUME ServerInv, [ServerNext]_serverVars
    PROVE  ServerInv'
<1>1. CASE ServerNext
  BY <1>1, ServerTypesKept, ServerOrderKept, CountersKept, WaitClosedOrderKept,
    NoWaiterStrandedKept, Zenon DEF ServerInv
<1>2. CASE UNCHANGED serverVars
  BY <1>2 DEF serverVars, ServerInv, ServerTypes, ServerOrder, CountersExact, InState,
    WaitClosedOrder, NoWaiterStranded, Satisfied, Uncounted
<1>3. QED BY <1>1, <1>2

LEMMA ServerStepOfLoop ==
    ASSUME part = "server" => ServerInv, [LoopNext]_loopVars
    PROVE  (part = "server" => ServerInv)'
<1>1. part' = part BY DEF LoopNext
<1>2. CASE part = "server"
 <2>1. [ServerNext]_serverVars BY <1>2 DEF LoopNext
 <2>2. QED BY <1>2, <2>1, ServerKept, Zenon
<1>3. QED BY <1>1, <1>2, Zenon

\* The three counters of a server are exact whichever way each connection ends, but for one
\* too few for each plain transport lost after its connection_made raised; no accept task
\* or handshake is left once wait_closed() has returned; and without such a loss no future
\* sleeps un-notified although what it waits for holds (server_core.rs, accept.rs, py_server.rs).
THEOREM ServersAreSafe == LoopSpec => []ServersSafe
<1>1. LoopInit => (part = "server" => ServerInv) BY ServerInitially DEF LoopInit
<1>2. (part = "server" => ServerInv) /\ [LoopNext]_loopVars => (part = "server" => ServerInv)'
  BY ServerStepOfLoop
<1>3. (part = "server" => ServerInv) => ServersSafe
 <2>1. WaitClosedOrder => WaitClosedEndsAccepting
   BY Zenon DEF WaitClosedOrder, WaitClosedEndsAccepting
 <2>2. QED BY <2>1 DEF ServersSafe, ServerSafe, ServerInv
<1>4. QED BY <1>1, <1>2, <1>3, PTL DEF LoopSpec

-----------------------------------------------------------------------------
(* Signal streams of the runtime.                                          *)

SignalTypes ==
    /\ raised \in Nat /\ inHandler \in Nat /\ self_pipe \in Nat /\ refs \in Nat
    /\ flag \in BOOLEAN /\ action \in {"previous", "ours"}
    /\ dispatch \in [at : {"read", "scan", "count", "wake"}, of : 0..EntryBound]
    /\ entries \in 0..EntryBound /\ entry \in 0..entries
    /\ counter \in [Entries -> Nat]
    /\ stream \in [Streams -> [at : {"none", "poll", "got", "cloned", "pending"},
                               of : 0..EntryBound, seen : Nat, waker : BOOLEAN]]

\* A dispatch is for an entry that was made, an entry to come has counted nothing, and a
\* stream that was dropped left nothing behind.
EntriesSound ==
    /\ dispatch.at \in {"count", "wake"} => dispatch.of \in 1..entries
    /\ \A e \in Entries : e > entries => counter[e] = 0
    /\ \A s \in Streams : stream[s].at = "none" => stream[s] = Unborn

SignalInv == SignalTypes /\ EntriesSound /\ SignalSafe

Alive == {s \in Streams : stream[s].at # "none"}

\* Types, under every step.
LEMMA SignalTypesKept ==
    ASSUME SignalInv, SignalNext
    PROVE  SignalTypes'
<1> USE SignalAssumption DEF SignalInv, SignalTypes, EntriesSound, Entries
<1>1. CASE signal_arrives
 <2>1. inHandler' \in Nat /\ raised' \in Nat BY <1>1 DEF signal_arrives
 <2>2. flag' \in BOOLEAN BY <1>1 DEF signal_arrives
 <2>3. QED BY <1>1, <2>1, <2>2, Zenon DEF signal_arrives
<1>2. CASE write_notification BY <1>2 DEF write_notification
<1>3. CASE dispatch_read BY SMTT(40), <1>3 DEF dispatch_read
<1>4. CASE dispatch_scan
 <2>1. entry \in 0..EntryBound OBVIOUS
 <2>2. dispatch' \in [at : {"read", "scan", "count", "wake"}, of : 0..EntryBound]
   BY <1>4, <2>1 DEF dispatch_scan
 <2>3. QED BY <1>4, <2>2 DEF dispatch_scan, FlagAfterScan
<1>5. CASE dispatch_count
 <2>1. dispatch.of \in Entries BY <1>5 DEF dispatch_count
 <2>2. counter' \in [Entries -> Nat] BY <1>5, <2>1 DEF dispatch_count
 <2>3. QED BY <1>5, <2>2 DEF dispatch_count
<1>6. CASE dispatch_wake
 <2>1. dispatch' \in [at : {"read", "scan", "count", "wake"}, of : 0..EntryBound]
  <3>1. dispatch' = [at |-> "read", of |-> 0] BY <1>6 DEF dispatch_wake
  <3>2. 0 \in 0..EntryBound OBVIOUS
  <3> HIDE DEF SignalInv, SignalTypes, EntriesSound
  <3>3. QED BY <3>1, <3>2
 <2>2. ASSUME NEW u \in Streams
       PROVE  stream'[u] \in [at : {"none", "poll", "got", "cloned", "pending"},
                              of : 0..EntryBound, seen : Nat, waker : BOOLEAN]
  <3>1. stream[u] \in [at : {"none", "poll", "got", "cloned", "pending"},
                       of : 0..EntryBound, seen : Nat, waker : BOOLEAN]
    OBVIOUS
  <3>2. \/ stream'[u] = stream[u]
        \/ stream'[u] = [stream[u] EXCEPT !.waker = FALSE, !.at = "poll"]
    BY <1>6 DEF dispatch_wake
  <3> HIDE DEF SignalInv, SignalTypes, EntriesSound
  <3>3. QED BY <3>1, <3>2
 <2>3. stream' = [u \in Streams |-> stream'[u]] BY <1>6 DEF dispatch_wake
 <2>4. stream' \in [Streams -> [at : {"none", "poll", "got", "cloned", "pending"},
                               of : 0..EntryBound, seen : Nat, waker : BOOLEAN]]
   BY <2>2, <2>3
 <2>5. QED BY <1>6, <2>1, <2>4 DEF dispatch_wake
<1>7. ASSUME NEW s \in Streams, signal_poll_recv(s) PROVE SignalTypes'
 <2>1. stream[s].of \in Entries BY <1>7 DEF signal_poll_recv, SignalSafe, RegistryExact
 <2>2. counter[stream[s].of] \in Nat BY <2>1, Zenon
 <2>3. stream'[s] \in [at : {"none", "poll", "got", "cloned", "pending"},
                       of : 0..EntryBound, seen : Nat, waker : BOOLEAN]
   BY <1>7, <2>2 DEF signal_poll_recv, Unseen, Received
 <2>4. QED BY <1>7, <2>3 DEF signal_poll_recv
<1>8. ASSUME NEW s \in Streams, install_waker(s) PROVE SignalTypes'
 <2>1. stream[s].of \in Entries BY <1>8 DEF install_waker, SignalSafe, RegistryExact
 <2>2. counter[stream[s].of] \in Nat BY <2>1
 <2>3. stream'[s] \in [at : {"none", "poll", "got", "cloned", "pending"},
                       of : 0..EntryBound, seen : Nat, waker : BOOLEAN]
   BY <1>8, <2>2 DEF install_waker, AfterClone, Unseen, Received
 <2>4. QED BY <1>8, <2>3 DEF install_waker
<1>9. ASSUME NEW s \in Streams, new_signal(s) PROVE SignalTypes'
 <2>1. entry # 0 => counter[entry] \in Nat OBVIOUS
 <2> DEFINE r == IF entry # 0
                 THEN [at |-> "poll", of |-> entry, seen |-> counter[entry], waker |-> FALSE]
                 ELSE [at |-> "poll", of |-> entries + 1, seen |-> 0, waker |-> FALSE]
 <2>2. stream' = [stream EXCEPT ![s] = r] BY <1>9, Zenon DEF new_signal
 <2>3. stream' \in [Streams -> [at : {"none", "poll", "got", "cloned", "pending"},
                               of : 0..EntryBound, seen : Nat, waker : BOOLEAN]]
  <3>1. r \in [at : {"none", "poll", "got", "cloned", "pending"},
               of : 0..EntryBound, seen : Nat, waker : BOOLEAN]
    BY <1>9, <2>1 DEF new_signal
  <3> HIDE DEF r
  <3>2. QED BY <2>2, <3>1
 <2>4. entries' \in 0..EntryBound /\ entry' \in 0..entries' /\ refs' \in Nat BY <1>9 DEF new_signal
 <2>5. QED BY <1>9, <2>3, <2>4 DEF new_signal
<1>10. ASSUME NEW s \in Streams, recv_again(s) PROVE SignalTypes' BY <1>10 DEF recv_again
<1>11. ASSUME NEW s \in Streams, drop_signal(s) PROVE SignalTypes' BY <1>11 DEF drop_signal, Unborn
<1> QED
  BY <1>1, <1>2, <1>3, <1>4, <1>5, <1>6, <1>7, <1>8, <1>9, <1>10, <1>11 DEF SignalNext,
    DispatchStep, StreamStep

\* A dispatch stays with an entry that was made.
LEMMA EntriesSoundKept ==
    ASSUME SignalInv, SignalNext
    PROVE  EntriesSound'
<1> USE SignalAssumption DEF SignalInv, SignalTypes, EntriesSound, Entries
<1>1. CASE signal_arrives BY <1>1 DEF signal_arrives
<1>2. CASE write_notification BY <1>2 DEF write_notification
<1>3. CASE dispatch_read BY <1>3 DEF dispatch_read
<1>4. CASE dispatch_scan BY <1>4 DEF dispatch_scan, FlagAfterScan
<1>5. CASE dispatch_count BY <1>5 DEF dispatch_count
<1>6. CASE dispatch_wake BY <1>6 DEF dispatch_wake
<1>7. ASSUME NEW s \in Streams, signal_poll_recv(s) PROVE EntriesSound'
  BY <1>7 DEF signal_poll_recv, Unseen, Received
<1>8. ASSUME NEW s \in Streams, install_waker(s) PROVE EntriesSound'
  BY <1>8 DEF install_waker, AfterClone, Unseen, Received
<1>9. ASSUME NEW s \in Streams, new_signal(s) PROVE EntriesSound'
 <2>1. stream'[s].at = "poll" /\ \A u \in Streams \ {s} : stream'[u] = stream[u]
   BY <1>9 DEF new_signal
 <2>2. UNCHANGED <<counter, dispatch>> /\ entries' \in {entries, entries + 1}
   BY <1>9 DEF new_signal
 <2>3. \A u \in Streams : stream'[u].at = "none" => stream'[u] = Unborn BY <2>1
 <2>4. QED BY <2>2, <2>3
<1>10. ASSUME NEW s \in Streams, recv_again(s) PROVE EntriesSound' BY <1>10 DEF recv_again
<1>11. ASSUME NEW s \in Streams, drop_signal(s) PROVE EntriesSound' BY <1>11 DEF drop_signal, Unborn
<1> QED
  BY <1>1, <1>2, <1>3, <1>4, <1>5, <1>6, <1>7, <1>8, <1>9, <1>10, <1>11, Zenon DEF SignalNext,
    DispatchStep, StreamStep

\* Neither a full pipe nor a handler between its two steps loses the flag.
LEMMA FlagLeadsToScanKept ==
    ASSUME SignalInv, SignalNext
    PROVE  FlagLeadsToScan'
<1> USE SignalAssumption DEF SignalInv, SignalTypes, SignalSafe, FlagLeadsToScan
<1>1. CASE signal_arrives
 <2>1. CASE action = "ours" BY <1>1, <2>1 DEF signal_arrives
 <2>2. CASE action # "ours" BY <1>1, <2>2 DEF signal_arrives
 <2>3. QED BY <2>1, <2>2, Zenon
<1>2. CASE write_notification BY <1>2 DEF write_notification
<1>3. CASE dispatch_read BY <1>3 DEF dispatch_read
<1>4. CASE dispatch_scan BY <1>4 DEF dispatch_scan, FlagAfterScan
<1>5. CASE dispatch_count BY <1>5, Zenon DEF dispatch_count
<1>6. CASE dispatch_wake BY <1>6 DEF dispatch_wake
<1>7. ASSUME NEW s \in Streams, signal_poll_recv(s) PROVE FlagLeadsToScan'
  BY <1>7, Zenon DEF signal_poll_recv, Unseen, Received
<1>8. ASSUME NEW s \in Streams, install_waker(s) PROVE FlagLeadsToScan'
  BY <1>8, Zenon DEF install_waker, AfterClone, Unseen, Received
<1>9. ASSUME NEW s \in Streams, new_signal(s) PROVE FlagLeadsToScan' BY <1>9, Zenon DEF new_signal
<1>10. ASSUME NEW s \in Streams, recv_again(s) PROVE FlagLeadsToScan' BY <1>10, Zenon DEF recv_again
<1>11. ASSUME NEW s \in Streams, drop_signal(s) PROVE FlagLeadsToScan'
  BY <1>11, Zenon DEF drop_signal, Unborn
<1> QED
  BY <1>1, <1>2, <1>3, <1>4, <1>5, <1>6, <1>7, <1>8, <1>9, <1>10, <1>11, Zenon DEF SignalNext,
    DispatchStep, StreamStep

\* The waker of a stream is left behind after a look at the counter, so a count that
\* comes later finds it.
LEMMA NoStreamStrandedKept ==
    ASSUME SignalInv, SignalNext
    PROVE  NoStreamStranded'
<1> USE SignalAssumption DEF SignalInv, SignalTypes, EntriesSound, Entries, SignalSafe, NoStreamStranded, Unseen
<1>1. CASE signal_arrives BY <1>1, Zenon DEF signal_arrives
<1>2. CASE write_notification BY <1>2, Zenon DEF write_notification
<1>3. CASE dispatch_read
 <2>1. dispatch.at = "read" /\ UNCHANGED <<stream, counter>> BY <1>3 DEF dispatch_read
 <2>2. \A s \in Streams : stream[s].at = "pending" => stream[s].waker /\ ~Unseen(s) BY <2>1
 <2>3. QED BY <2>1, <2>2
<1>4. CASE dispatch_scan BY <1>4 DEF dispatch_scan, FlagAfterScan
<1>5. CASE dispatch_count BY <1>5 DEF dispatch_count
<1>6. CASE dispatch_wake
 <2>1. ASSUME NEW s \in Streams, stream'[s].at = "pending"
       PROVE  stream'[s] = stream[s] /\ stream[s].at = "pending" /\ stream[s].of # dispatch.of
   BY <1>6, <2>1 DEF dispatch_wake
 <2>2. ASSUME NEW s \in Streams, stream[s].at = "pending", stream[s].of # dispatch.of
       PROVE  stream[s].waker /\ ~Unseen(s)
   BY <2>2
 <2>3. counter' = counter BY <1>6 DEF dispatch_wake
 <2>4. QED BY <2>1, <2>2, <2>3
<1>7. ASSUME NEW s \in Streams, signal_poll_recv(s) PROVE NoStreamStranded'
  BY <1>7 DEF signal_poll_recv, Unseen, Received
<1>8. ASSUME NEW s \in Streams, install_waker(s) PROVE NoStreamStranded'
  BY <1>8 DEF install_waker, AfterClone, Unseen, Received
<1>9. ASSUME NEW s \in Streams, new_signal(s) PROVE NoStreamStranded'
 <2>1. stream'[s].at = "poll" /\ \A u \in Streams \ {s} : stream'[u] = stream[u]
   BY <1>9 DEF new_signal
 <2>2. UNCHANGED <<counter, dispatch>> BY <1>9 DEF new_signal
 <2>3. QED BY SMTT(40), <2>1, <2>2
<1>10. ASSUME NEW s \in Streams, recv_again(s) PROVE NoStreamStranded' BY <1>10 DEF recv_again
<1>11. ASSUME NEW s \in Streams, drop_signal(s) PROVE NoStreamStranded'
  BY <1>11 DEF drop_signal, Unborn
<1> QED
  BY <1>1, <1>2, <1>3, <1>4, <1>5, <1>6, <1>7, <1>8, <1>9, <1>10, <1>11, Zenon DEF SignalNext,
    DispatchStep, StreamStep

\* A step that makes and drops no stream leaves the registry as it is.
LEMMA RegistrySame ==
    ASSUME RegistryExact, refs' = refs, action' = action, entry' = entry,
           \A u \in Streams : /\ stream'[u].at = "none" <=> stream[u].at = "none"
                              /\ stream'[u].of = stream[u].of
    PROVE  RegistryExact'
<1>1. {u \in Streams : stream'[u].at # "none"} = {u \in Streams : stream[u].at # "none"} BY Zenon
<1>2. QED BY <1>1 DEF RegistryExact

\* References, disposition and entry move together.
LEMMA RegistryExactKept ==
    ASSUME SignalInv, SignalNext
    PROVE  RegistryExact'
<1>a. SignalTypes /\ RegistryExact BY DEF SignalInv, SignalSafe
<1>b. IsFiniteSet(Alive) /\ Cardinality(Alive) \in Nat
 <2>1. Alive \in SUBSET Streams BY DEF Alive
 <2>2. QED BY <2>1, SignalAssumption, FS_Subset, FS_CardinalityType
<1>c. /\ refs = Cardinality(Alive) /\ (action = "ours" <=> entry # 0)
      /\ \A u \in Alive : stream[u].of = entry /\ action = "ours"
  BY <1>a DEF RegistryExact, Alive
<1>d. /\ stream \in [Streams -> [at : {"none", "poll", "got", "cloned", "pending"},
                                 of : 0..EntryBound, seen : Nat, waker : BOOLEAN]]
      /\ entries \in Nat /\ refs \in Nat /\ action \in {"previous", "ours"}
  BY <1>a DEF SignalTypes
<1>1. CASE signal_arrives
 <2>1. refs' = refs /\ action' = action /\ entry' = entry BY <1>1, Zenon DEF signal_arrives
 <2>2. ASSUME NEW u \in Streams
       PROVE  /\ stream'[u].at = "none" <=> stream[u].at = "none"
              /\ stream'[u].of = stream[u].of
   BY <1>1, <1>d, Zenon DEF signal_arrives
 <2>3. QED BY <2>1, <2>2, <1>a, RegistrySame, Zenon
<1>2. CASE write_notification
 <2>1. refs' = refs /\ action' = action /\ entry' = entry BY <1>2, Zenon DEF write_notification
 <2>2. ASSUME NEW u \in Streams
       PROVE  /\ stream'[u].at = "none" <=> stream[u].at = "none"
              /\ stream'[u].of = stream[u].of
   BY <1>2, <1>d, Zenon DEF write_notification
 <2>3. QED BY <2>1, <2>2, <1>a, RegistrySame
<1>3. CASE dispatch_read
 <2>1. refs' = refs /\ action' = action /\ entry' = entry BY <1>3, Zenon DEF dispatch_read
 <2>2. ASSUME NEW u \in Streams
       PROVE  /\ stream'[u].at = "none" <=> stream[u].at = "none"
              /\ stream'[u].of = stream[u].of
   BY <1>3, <1>d, Zenon DEF dispatch_read
 <2>3. QED BY <2>1, <2>2, <1>a, RegistrySame
<1>4. CASE dispatch_scan
 <2>1. refs' = refs /\ action' = action /\ entry' = entry
   BY <1>4, Zenon DEF dispatch_scan, FlagAfterScan
 <2>2. ASSUME NEW u \in Streams
       PROVE  /\ stream'[u].at = "none" <=> stream[u].at = "none"
              /\ stream'[u].of = stream[u].of
   BY <1>4, <1>d, Zenon DEF dispatch_scan, FlagAfterScan
 <2>3. QED BY <2>1, <2>2, <1>a, RegistrySame
<1>5. CASE dispatch_count
 <2>1. refs' = refs /\ action' = action /\ entry' = entry BY <1>5, Zenon DEF dispatch_count
 <2>2. ASSUME NEW u \in Streams
       PROVE  /\ stream'[u].at = "none" <=> stream[u].at = "none"
              /\ stream'[u].of = stream[u].of
   BY <1>5, <1>d, Zenon DEF dispatch_count
 <2>3. QED BY <2>1, <2>2, <1>a, RegistrySame
<1>6. CASE dispatch_wake
 <2>1. refs' = refs /\ action' = action /\ entry' = entry BY <1>6 DEF dispatch_wake
 <2>2. ASSUME NEW u \in Streams
       PROVE  /\ stream'[u].at = "none" <=> stream[u].at = "none"
              /\ stream'[u].of = stream[u].of
  <3>1. dispatch.of \in 1..entries /\ (stream[u].at = "none" => stream[u] = Unborn)
    BY <1>6 DEF dispatch_wake, SignalInv, EntriesSound
  <3>2. stream[u].at = "none" => stream[u].of # dispatch.of BY <3>1, <1>d DEF Unborn
  <3>3. CASE stream'[u] = stream[u] BY <3>3
  <3>4. CASE stream'[u] = [stream[u] EXCEPT !.waker = FALSE, !.at = "poll"]
             /\ stream[u].of = dispatch.of
    BY <1>d, <3>2, <3>4
  <3>5. QED BY <1>6, <3>3, <3>4 DEF dispatch_wake
 <2>3. QED BY <2>1, <2>2, <1>a, RegistrySame
<1>7. ASSUME NEW s \in Streams, signal_poll_recv(s) PROVE RegistryExact'
 <2>1. refs' = refs /\ action' = action /\ entry' = entry
   BY <1>7, Zenon DEF signal_poll_recv, Unseen, Received
 <2>2. ASSUME NEW u \in Streams
       PROVE  /\ stream'[u].at = "none" <=> stream[u].at = "none"
              /\ stream'[u].of = stream[u].of
   BY <1>7, <1>d, Zenon DEF signal_poll_recv, Unseen, Received
 <2>3. QED BY <2>1, <2>2, <1>a, RegistrySame, Zenon
<1>8. ASSUME NEW s \in Streams, install_waker(s) PROVE RegistryExact'
 <2>1. refs' = refs /\ action' = action /\ entry' = entry
   BY <1>8, Zenon DEF install_waker, AfterClone, Unseen, Received
 <2>2. ASSUME NEW u \in Streams
       PROVE  /\ stream'[u].at = "none" <=> stream[u].at = "none"
              /\ stream'[u].of = stream[u].of
   BY <1>8, <1>d DEF install_waker, AfterClone, Unseen, Received
 <2>3. QED BY <2>1, <2>2, <1>a, RegistrySame
<1>9. ASSUME NEW s \in Streams, new_signal(s) PROVE RegistryExact'
 <2>1. Alive' = Alive \union {s} /\ s \notin Alive BY <1>9, <1>d DEF Alive, new_signal
 <2>2. Cardinality(Alive') = Cardinality(Alive) + 1 BY <2>1, <1>b, FS_AddElement, Zenon
 <2>3. \A u \in Alive : stream'[u] = stream[u] BY <1>9, <2>1, <1>d, Zenon DEF Alive, new_signal
 <2>4. CASE entry # 0
  <3>1. /\ refs' = refs + 1 /\ UNCHANGED <<entry, action>> /\ stream'[s].of = entry
    BY <1>9, <1>d, <2>4 DEF new_signal
  <3>2. refs' = Cardinality(Alive') BY <1>b, <1>c, <2>2, <3>1, Zenon
  <3>3. \A u \in Alive' : stream'[u].of = entry' /\ action' = "ours"
    BY <1>c, <2>1, <2>3, <2>4, <3>1, Zenon
  <3>4. QED BY <1>c, <3>1, <3>2, <3>3, Zenon DEF RegistryExact, Alive
 <2>5. CASE entry = 0
  <3>1. /\ refs' = 1 /\ entry' = entries + 1 /\ action' = "ours" /\ stream'[s].of = entries + 1
        /\ entry' # 0
    BY <1>9, <1>d, <2>5 DEF new_signal
  <3>2. Alive = {} BY <1>c, <2>5, Zenon
  <3>3. refs' = Cardinality(Alive') BY <2>2, <3>1, <3>2, FS_EmptySet
  <3>4. \A u \in Alive' : stream'[u].of = entry' /\ action' = "ours" BY <2>1, <3>1, <3>2, Zenon
  <3>5. QED BY <3>1, <3>3, <3>4, Zenon DEF RegistryExact, Alive
 <2>6. QED BY <2>4, <2>5, Zenon
<1>10. ASSUME NEW s \in Streams, recv_again(s) PROVE RegistryExact'
 <2>1. refs' = refs /\ action' = action /\ entry' = entry BY <1>10, Zenon DEF recv_again
 <2>2. ASSUME NEW u \in Streams
       PROVE  /\ stream'[u].at = "none" <=> stream[u].at = "none"
              /\ stream'[u].of = stream[u].of
   BY <1>10, <1>d DEF recv_again
 <2>3. QED BY <2>1, <2>2, <1>a, RegistrySame
<1>11. ASSUME NEW s \in Streams, drop_signal(s) PROVE RegistryExact'
 <2>1. Alive' = Alive \ {s} /\ s \in Alive BY <1>11, <1>d, Zenon DEF Alive, drop_signal, Unborn
 <2>2. Cardinality(Alive') = Cardinality(Alive) - 1 /\ IsFiniteSet(Alive')
   BY <2>1, <1>b, FS_RemoveElement, Zenon
 <2>3. \A u \in Alive' : stream'[u] = stream[u] /\ u \in Alive
   BY <1>11, <2>1, <1>d, Zenon DEF Alive, drop_signal
 <2>4. refs' = refs - 1 BY <1>11, <1>d DEF drop_signal
 <2>5. refs' = Cardinality(Alive') BY <1>c, <2>2, <2>4, Zenon
 <2>6. CASE UNCHANGED <<entry, action>>
  <3>1. \A u \in Alive' : stream'[u].of = entry' /\ action' = "ours" BY <1>c, <2>3, <2>6, Zenon
  <3>2. QED BY <1>c, <2>5, <2>6, <3>1, Zenon DEF RegistryExact, Alive
 <2>7. CASE refs = 1 /\ refs' = 0 /\ entry' = 0 /\ action' = "previous"
  <3>1. Alive' = {} BY <2>2, <2>5, <2>7, FS_EmptySet, Zenon
  <3>2. QED BY <2>5, <2>7, <3>1, Zenon DEF RegistryExact, Alive
 <2>8. QED BY <1>11, <2>6, <2>7, Zenon DEF drop_signal
<1> QED
  BY <1>1, <1>2, <1>3, <1>4, <1>5, <1>6, <1>7, <1>8, <1>9, <1>10, <1>11, Zenon DEF SignalNext,
    DispatchStep, StreamStep

LEMMA SignalInitially == SignalInit => SignalInv
<1> SUFFICES ASSUME SignalInit PROVE SignalInv OBVIOUS
<1>1. SignalTypes
 <2>1. EntryBound \in Nat /\ 0 \in 0..EntryBound /\ 0 \in 0..0 BY SignalAssumption
 <2>2. dispatch \in [at : {"read", "scan", "count", "wake"}, of : 0..EntryBound]
   BY <2>1 DEF SignalInit
 <2>3. stream \in [Streams -> [at : {"none", "poll", "got", "cloned", "pending"},
                              of : 0..EntryBound, seen : Nat, waker : BOOLEAN]]
   BY <2>1 DEF SignalInit, Unborn
 <2>4. QED BY <2>1, <2>2, <2>3 DEF SignalInit, SignalTypes
<1>2. EntriesSound BY SignalAssumption, Zenon DEF SignalInit, EntriesSound, Unborn, Entries
<1>3. FlagLeadsToScan /\ NoStreamStranded
  BY DEF SignalInit, FlagLeadsToScan, NoStreamStranded, Unborn
<1>4. {s \in Streams : stream[s].at # "none"} = {} BY DEF SignalInit, Unborn
<1>5. RegistryExact BY <1>4, FS_EmptySet DEF SignalInit, RegistryExact
<1>6. QED BY <1>1, <1>2, <1>3, <1>5, Zenon DEF SignalInv, SignalSafe

LEMMA SignalKept ==
    ASSUME SignalInv, [SignalNext]_signalVars
    PROVE  SignalInv'
<1>1. CASE SignalNext
  BY <1>1, SignalTypesKept, EntriesSoundKept, FlagLeadsToScanKept, NoStreamStrandedKept,
    RegistryExactKept DEF SignalInv, SignalSafe
<1>2. CASE UNCHANGED signalVars
  BY <1>2 DEF signalVars, SignalInv, SignalTypes, EntriesSound, SignalSafe, FlagLeadsToScan,
    NoStreamStranded, Unseen, RegistryExact
<1>3. QED BY <1>1, <1>2

(* Handlers of the loop.                                                   *)

HandlerTypes ==
    /\ adds \in Nat /\ raises \in Nat /\ handler \in {0, adds}
    /\ sigCommands \in Seq({"start", "stop", "fired"})
    /\ watcher \in {"off", "on", "failed"}
    /\ caught \in BOOLEAN /\ owed \in BOOLEAN /\ shut \in BOOLEAN
    /\ sigReady \in Seq(Nat)

\* A signal is owed to a handler only while nothing queued changes its watcher; after the
\* shutdown nothing is queued or caught.
OwedUnchanged ==
    /\ owed => Switches = {}
    /\ shut => watcher = "off" /\ ~caught /\ sigCommands = <<>>

HandlersInv == HandlerTypes /\ OwedUnchanged /\ HandlersSafe
\* WatcherFollowsHandler of a channel q, w: there is a watcher, h: there is a handler.
SwitchesOf(q) == {i \in 1..Len(q) : q[i] # "fired"}
Follows(q, w, h) ==
    /\ SwitchesOf(q) = {} => (w <=> h)
    /\ \A i \in SwitchesOf(q) :
         /\ (\A k \in SwitchesOf(q) : k <= i) => (q[i] = "start" <=> h)
         /\ (\A k \in SwitchesOf(q) : i <= k) => (q[i] = "stop" <=> w)
    /\ \A i, j \in SwitchesOf(q) :
         i < j /\ (\A k \in SwitchesOf(q) : k <= i \/ j <= k) => q[i] # q[j]

CommandNames == {"start", "stop", "fired"}

\* A Fired at the end changes nothing.
LEMMA FollowsFired ==
    ASSUME NEW q \in Seq(CommandNames), NEW w \in BOOLEAN, NEW h \in BOOLEAN, Follows(q, w, h)
    PROVE  Follows(Append(q, "fired"), w, h)
<1> DEFINE r == Append(q, "fired")
<1>1. /\ Len(r) = Len(q) + 1 /\ Len(q) \in Nat /\ r[Len(q) + 1] = "fired"
      /\ \A i \in 1..Len(q) : r[i] = q[i]
  BY AppendProperties, LenProperties DEF CommandNames
<1> HIDE DEF r
<1>2. SwitchesOf(r) = SwitchesOf(q) /\ SwitchesOf(q) \subseteq 1..Len(q) BY <1>1 DEF SwitchesOf
<1>3. \A i \in SwitchesOf(q) : r[i] = q[i] BY <1>1, <1>2
<1>4. Follows(r, w, h) BY <1>2, <1>3 DEF Follows
<1>5. QED BY <1>4 DEF r

\* A start or stop that answers the last one changes what is asked for.
LEMMA FollowsSwitch ==
    ASSUME NEW q \in Seq(CommandNames), NEW w \in BOOLEAN, NEW h \in BOOLEAN, Follows(q, w, h)
    PROVE  Follows(Append(q, IF h THEN "stop" ELSE "start"), w, ~h)
<1> DEFINE x == IF h THEN "stop" ELSE "start"
           r == Append(q, x)
           n == Len(q) + 1
<1>1. /\ Len(r) = n /\ Len(q) \in Nat /\ r[n] = x
      /\ \A i \in 1..Len(q) : r[i] = q[i]
  BY AppendProperties, LenProperties DEF CommandNames
<1>2. \A i \in 1..Len(q) : q[i] \in CommandNames BY LenProperties, ElementOfSeq, Zenon
<1> HIDE DEF r
<1>3. SwitchesOf(r) = SwitchesOf(q) \union {n} /\ SwitchesOf(q) \subseteq 1..Len(q)
  BY <1>1 DEF SwitchesOf
<1>4. \A i \in SwitchesOf(q) : r[i] = q[i] /\ i < n /\ i \in Nat /\ q[i] \in {"start", "stop"}
  BY <1>1, <1>2, <1>3 DEF SwitchesOf, CommandNames
<1>5. ASSUME NEW i \in SwitchesOf(r), \A k \in SwitchesOf(r) : k <= i PROVE r[i] = "start" <=> ~h
  BY <1>1, <1>3, <1>4, <1>5
<1>6. ASSUME NEW i \in SwitchesOf(r), \A k \in SwitchesOf(r) : i <= k PROVE r[i] = "stop" <=> w
 <2>1. CASE i = n
  <3>1. SwitchesOf(q) = {} BY <1>1, <1>3, <1>4, <1>6, <2>1
  <3>2. QED BY <1>1, <2>1, <3>1, Zenon DEF Follows
 <2>2. CASE i \in SwitchesOf(q) BY <1>3, <1>4, <1>6, <2>2, Zenon DEF Follows
 <2>3. QED BY <1>3, <2>1, <2>2, Zenon
<1>7. ASSUME NEW i \in SwitchesOf(r), NEW j \in SwitchesOf(r), i < j,
             \A k \in SwitchesOf(r) : k <= i \/ j <= k
      PROVE  r[i] # r[j]
 <2>1. CASE j = n
  <3>1. i \in SwitchesOf(q) /\ \A k \in SwitchesOf(q) : k <= i BY <1>1, <1>3, <1>4, <1>7, <2>1
  <3>2. q[i] = "start" <=> h BY <3>1 DEF Follows
  <3>3. QED BY <1>1, <1>4, <2>1, <3>1, <3>2, Zenon
 <2>2. CASE j # n
  <3>1. i \in SwitchesOf(q) /\ j \in SwitchesOf(q) /\ \A k \in SwitchesOf(q) : k <= i \/ j <= k
    BY <1>1, <1>3, <1>4, <1>7, <2>2
  <3>2. QED BY <1>4, <1>7, <3>1 DEF Follows
 <2>3. QED BY <2>1, <2>2, Zenon
<1>8. SwitchesOf(r) # {} BY <1>3
<1>9. Follows(r, w, ~h) BY <1>5, <1>6, <1>7, <1>8, Zenon DEF Follows
<1>10. QED BY <1>9 DEF r

\* Serving the head: a start or stop becomes the watcher, a Fired leaves it.
LEMMA FollowsTail ==
    ASSUME NEW q \in Seq(CommandNames), NEW w \in BOOLEAN, NEW h \in BOOLEAN, Follows(q, w, h),
           q # <<>>
    PROVE  Follows(Tail(q), IF Head(q) = "fired" THEN w ELSE Head(q) = "start", h)
<1> DEFINE r == Tail(q)
           v == IF Head(q) = "fired" THEN w ELSE Head(q) = "start"
<1>1. /\ Len(q) \in Nat \ {0} /\ Len(r) = Len(q) - 1 /\ Head(q) = q[1]
      /\ \A i \in 1..(Len(q) - 1) : r[i] = q[i + 1]
  BY TailElems
<1>2. \A i \in 1..Len(q) : q[i] \in CommandNames BY LenProperties, ElementOfSeq, Zenon
<1> HIDE DEF r
<1>3. /\ \A i \in SwitchesOf(r) : i \in Nat /\ i >= 1 /\ i + 1 \in SwitchesOf(q) /\ r[i] = q[i + 1]
      /\ \A k \in SwitchesOf(q) : k \in Nat /\ k >= 1 /\ (k > 1 => k - 1 \in SwitchesOf(r))
  BY <1>1 DEF SwitchesOf
<1>4. \A k \in SwitchesOf(q) : q[k] \in {"start", "stop"} BY <1>2 DEF SwitchesOf, CommandNames
<1>h. 1 \in SwitchesOf(q) <=> Head(q) # "fired" BY <1>1 DEF SwitchesOf
<1>5. ASSUME NEW i \in SwitchesOf(r), \A k \in SwitchesOf(r) : k <= i PROVE r[i] = "start" <=> h
 <2>1. i + 1 \in SwitchesOf(q) /\ r[i] = q[i + 1] /\ \A k \in SwitchesOf(q) : k <= i + 1
  <3>1. ASSUME NEW k \in SwitchesOf(q) PROVE k <= i + 1
   <4>1. CASE k = 1 BY <1>3, <4>1
   <4>2. CASE k > 1
    <5>1. k - 1 \in SwitchesOf(r) /\ k \in Nat /\ i \in Nat BY <1>3, <4>2
    <5>2. k - 1 <= i BY <1>5, <5>1
    <5>3. QED BY <5>1, <5>2
   <4>3. QED BY <1>3, <4>1, <4>2
  <3>2. QED BY <1>3, <3>1
 <2>2. QED BY <2>1 DEF Follows
<1>6. ASSUME NEW i \in SwitchesOf(r), \A k \in SwitchesOf(r) : i <= k PROVE r[i] = "stop" <=> v
 <2>1. ASSUME NEW k \in SwitchesOf(q) PROVE k = 1 \/ i + 1 <= k
  <3>1. CASE k > 1
   <4>1. k - 1 \in SwitchesOf(r) /\ k \in Nat /\ i \in Nat BY <1>3, <3>1
   <4>2. i <= k - 1 BY <1>6, <4>1
   <4>3. QED BY <4>1, <4>2
  <3>2. QED BY <1>3, <3>1
 <2>2. i + 1 \in SwitchesOf(q) /\ r[i] = q[i + 1] /\ i \in Nat /\ i >= 1 BY <1>3
 <2>3. CASE Head(q) = "fired"
  <3>1. \A k \in SwitchesOf(q) : i + 1 <= k BY <1>h, <2>1, <2>3
  <3>2. QED BY <2>2, <2>3, <3>1 DEF Follows
 <2>4. CASE Head(q) # "fired"
  <3>1. 1 \in SwitchesOf(q) /\ 1 < i + 1 /\ \A k \in SwitchesOf(q) : k <= 1 \/ i + 1 <= k
    BY <1>h, <2>1, <2>2, <2>4
  <3>2. q[1] # q[i + 1] BY <2>2, <3>1 DEF Follows
  <3>3. QED BY <1>1, <1>4, <2>2, <2>4, <3>1, <3>2
 <2>5. QED BY <2>3, <2>4
<1>7. ASSUME NEW i \in SwitchesOf(r), NEW j \in SwitchesOf(r), i < j,
             \A k \in SwitchesOf(r) : k <= i \/ j <= k
      PROVE  r[i] # r[j]
 <2>1. /\ i + 1 \in SwitchesOf(q) /\ r[i] = q[i + 1] /\ i \in Nat
       /\ j + 1 \in SwitchesOf(q) /\ r[j] = q[j + 1] /\ j \in Nat
   BY <1>3
 <2>2. ASSUME NEW k \in SwitchesOf(q) PROVE k <= i + 1 \/ j + 1 <= k
  <3>1. CASE k > 1
   <4>1. k - 1 \in SwitchesOf(r) /\ k \in Nat BY <1>3, <3>1
   <4>2. k - 1 <= i \/ j <= k - 1 BY <1>7, <4>1, Zenon
   <4>3. QED BY <2>1, <4>1, <4>2
  <3>2. QED BY <1>3, <2>1, <3>1
 <2>3. i + 1 < j + 1 BY <1>7, <2>1
 <2>4. QED BY <2>1, <2>2, <2>3 DEF Follows
<1>8. ASSUME SwitchesOf(r) = {} PROVE v <=> h
 <2>1. ASSUME NEW k \in SwitchesOf(q) PROVE k = 1 BY <1>3, <1>8
 <2>2. CASE Head(q) = "fired" BY <1>h, <2>1, <2>2 DEF Follows
 <2>3. CASE Head(q) # "fired"
  <3>1. 1 \in SwitchesOf(q) /\ \A k \in SwitchesOf(q) : k <= 1 BY <1>h, <2>1, <2>3
  <3>2. q[1] = "start" <=> h BY <3>1, Zenon DEF Follows
  <3>3. QED BY <1>1, <2>3, <3>2, Zenon
 <2>4. QED BY <2>2, <2>3, Zenon
<1> HIDE DEF v
<1>9. Follows(r, v, h) BY <1>5, <1>6, <1>7, <1>8, Zenon DEF Follows
<1>10. QED BY <1>9 DEF r, v

\* Types, under every step.
LEMMA HandlerTypesKept ==
    ASSUME HandlersInv, HandlersNext
    PROVE  HandlerTypes'
<1> USE DEF HandlersInv, HandlerTypes
<1>s. sigCommands # <<>> => Tail(sigCommands) \in Seq({"start", "stop", "fired"}) BY TailElems
<1>r. sigReady # <<>> => Tail(sigReady) \in Seq(Nat) BY TailElems
<1>a. ASSUME NEW x \in {"start", "stop", "fired"}
      PROVE  /\ Append(sigCommands, x) \in Seq({"start", "stop", "fired"})
             /\ sigCommands # <<>> => Append(Tail(sigCommands), x) \in Seq({"start", "stop", "fired"})
  BY <1>s, AppendProperties
<1>b. sigCommands' \in Seq({"start", "stop", "fired"})
 <2>1. \/ sigCommands' \in {sigCommands, <<>>}
       \/ \E x \in {"start", "stop", "fired"} : sigCommands' = Append(sigCommands, x)
       \/ sigCommands # <<>> /\ sigCommands' \in {Tail(sigCommands), Append(Tail(sigCommands), "fired")}
   BY DEF HandlersNext
 <2>2. <<>> \in Seq({"start", "stop", "fired"}) OBVIOUS
 <2>3. QED BY <2>1, <2>2, <1>a, <1>s
<1>1. CASE add_signal_handler BY <1>1, <1>b, <1>r DEF NewlyInstalled
<1>2. CASE remove_signal_handler BY <1>2, <1>b, <1>r
<1>3. CASE signal_raised BY <1>3, <1>b, <1>r
<1>4. CASE watcher_sends BY <1>4, <1>b, <1>r
<1>5. CASE dispatch_start BY <1>5, <1>b, <1>r
<1>6. CASE dispatch_stop BY <1>6, <1>b, <1>r
<1>7. CASE dispatch_fired BY <1>7, <1>b, <1>r DEF Scheduled
<1>8. CASE run_signal_callback BY <1>8, <1>b, <1>r
<1>9. CASE cleanup_watchers BY <1>9, <1>b, <1>r
<1> QED BY <1>1, <1>2, <1>3, <1>4, <1>5, <1>6, <1>7, <1>8, <1>9, Zenon DEF HandlersNext

\* The watcher keeps following the handler.
LEMMA WatcherFollowsKept ==
    ASSUME HandlersInv, HandlersNext
    PROVE  WatcherFollowsHandler'
<1>a. /\ sigCommands \in Seq(CommandNames) /\ watcher \in {"off", "on", "failed"}
      /\ handler \in Nat /\ adds \in Nat /\ shut \in BOOLEAN
  BY DEF HandlersInv, HandlerTypes, CommandNames
<1> DEFINE W == watcher # "off"
           H == handler # 0
<1>b. ~shut => Follows(sigCommands, W, H)
  BY DEF HandlersInv, HandlersSafe, WatcherFollowsHandler, Follows, Switches, SwitchesOf
<1>c. W \in BOOLEAN /\ H \in BOOLEAN OBVIOUS
<1> SUFFICES ASSUME ~shut' PROVE Follows(sigCommands', W', H')
  BY Zenon DEF WatcherFollowsHandler, Follows, Switches, SwitchesOf
<1>d. ~shut BY DEF HandlersNext
<1>e. ASSUME sigCommands # <<>>
      PROVE  /\ Tail(sigCommands) \in Seq(CommandNames)
             /\ Follows(Tail(sigCommands), IF Head(sigCommands) = "fired" THEN W ELSE Head(sigCommands) = "start", H)
 <2> HIDE DEF W, H
 <2>1. QED BY <1>a, <1>b, <1>c, <1>d, <1>e, FollowsTail, TailElems
<1>1. CASE add_signal_handler
 <2>1. CASE handler = 0
  <3>1. sigCommands' = Append(sigCommands, IF H THEN "stop" ELSE "start") /\ W' = W /\ H' = ~H
    BY <1>1, <1>a, <2>1 DEF NewlyInstalled
  <3> HIDE DEF W, H
  <3>2. QED BY <1>a, <1>b, <1>c, <1>d, <3>1, FollowsSwitch, Zenon
 <2>2. CASE handler # 0
  <3>1. sigCommands' = sigCommands /\ W' = W /\ H' = H BY <1>1, <1>a, <2>2 DEF NewlyInstalled
  <3>2. QED BY <1>b, <1>d, <3>1, Zenon
 <2>3. QED BY <2>1, <2>2, Zenon
<1>2. CASE remove_signal_handler
 <2>1. sigCommands' = Append(sigCommands, IF H THEN "stop" ELSE "start") /\ W' = W /\ H' = ~H
   BY <1>2, <1>a, Zenon
 <2> HIDE DEF W, H
 <2>2. QED BY <1>a, <1>b, <1>c, <1>d, <2>1, FollowsSwitch
<1>3. CASE signal_raised
 <2>1. sigCommands' = sigCommands /\ W' = W /\ H' = H BY <1>3
 <2>2. QED BY <1>b, <1>d, <2>1
<1>4. CASE watcher_sends
 <2>1. sigCommands' = Append(sigCommands, "fired") /\ W' = W /\ H' = H BY <1>4
 <2> HIDE DEF W, H
 <2>2. QED BY <1>a, <1>b, <1>c, <1>d, <2>1, FollowsFired, Zenon
<1>5. CASE dispatch_start
 <2>1. /\ sigCommands # <<>> /\ Head(sigCommands) = "start" /\ W' = TRUE /\ H' = H
       /\ sigCommands' \in {Tail(sigCommands), Append(Tail(sigCommands), "fired")}
   BY <1>5
 <2>2. Follows(Tail(sigCommands), TRUE, H) /\ Tail(sigCommands) \in Seq(CommandNames) BY <1>e, <2>1
 <2> HIDE DEF W, H
 <2>3. Follows(Append(Tail(sigCommands), "fired"), TRUE, H) BY <1>c, <2>2, FollowsFired
 <2>4. QED BY <2>1, <2>2, <2>3
<1>6. CASE dispatch_stop
 <2>1. /\ sigCommands # <<>> /\ Head(sigCommands) = "stop" /\ W' = FALSE /\ H' = H
       /\ sigCommands' \in {Tail(sigCommands), Append(Tail(sigCommands), "fired")}
   BY <1>6
 <2>2. Follows(Tail(sigCommands), FALSE, H) /\ Tail(sigCommands) \in Seq(CommandNames)
   BY <1>e, <2>1
 <2> HIDE DEF W, H
 <2>3. Follows(Append(Tail(sigCommands), "fired"), FALSE, H) BY <1>c, <2>2, FollowsFired
 <2>4. QED BY <2>1, <2>2, <2>3
<1>7. CASE dispatch_fired
 <2>1. /\ sigCommands # <<>> /\ Head(sigCommands) = "fired" /\ W' = W /\ H' = H
       /\ sigCommands' = Tail(sigCommands)
   BY <1>7
 <2>2. QED BY <1>e, <2>1
<1>8. CASE run_signal_callback
 <2>1. sigCommands' = sigCommands /\ W' = W /\ H' = H BY <1>8
 <2>2. QED BY <1>b, <1>d, <2>1
<1>9. CASE cleanup_watchers BY <1>9
<1> QED BY <1>1, <1>2, <1>3, <1>4, <1>5, <1>6, <1>7, <1>8, <1>9, Zenon DEF HandlersNext

\* What appending and serving do to the places of the switches and to the range.
LEMMA SwitchPlaces ==
    ASSUME NEW q \in Seq(CommandNames)
    PROVE  /\ SwitchesOf(Append(q, "fired")) = SwitchesOf(q)
           /\ q # <<>> /\ SwitchesOf(q) = {} => Head(q) = "fired" /\ SwitchesOf(Tail(q)) = {}
           /\ SwitchesOf(<<>>) = {}
<1>1. /\ Len(Append(q, "fired")) = Len(q) + 1 /\ Len(q) \in Nat /\ Append(q, "fired")[Len(q) + 1] = "fired"
      /\ \A i \in 1..Len(q) : Append(q, "fired")[i] = q[i]
  BY AppendProperties, LenProperties DEF CommandNames
<1>2. SwitchesOf(Append(q, "fired")) = SwitchesOf(q) BY <1>1 DEF SwitchesOf
<1>3. ASSUME q # <<>>, SwitchesOf(q) = {} PROVE Head(q) = "fired" /\ SwitchesOf(Tail(q)) = {}
 <2>1. /\ Len(q) \in Nat \ {0} /\ Len(Tail(q)) = Len(q) - 1 /\ Head(q) = q[1]
       /\ \A i \in 1..(Len(q) - 1) : Tail(q)[i] = q[i + 1]
   BY <1>3, TailElems
 <2>2. \A i \in 1..Len(q) : q[i] = "fired" BY <1>3 DEF SwitchesOf
 <2>3. \A i \in 1..(Len(q) - 1) : Tail(q)[i] = "fired" BY <2>1, <2>2
 <2>4. QED BY <2>1, <2>2, <2>3 DEF SwitchesOf
<1>4. SwitchesOf(<<>>) = {} BY DEF SwitchesOf
<1>5. QED BY <1>2, <1>3, <1>4

LEMMA RangeAppend ==
    ASSUME NEW q \in Seq(CommandNames), NEW x \in CommandNames
    PROVE  Range(q) \union {x} \subseteq Range(Append(q, x))
<1>1. /\ Len(Append(q, x)) = Len(q) + 1 /\ Len(q) \in Nat /\ Append(q, x)[Len(q) + 1] = x
      /\ \A i \in 1..Len(q) : Append(q, x)[i] = q[i]
      /\ DOMAIN q = 1..Len(q) /\ DOMAIN Append(q, x) = 1..Len(Append(q, x))
  BY AppendProperties, LenProperties
<1>2. \A i \in 1..Len(q) : i \in 1..(Len(q) + 1) BY <1>1
<1>3. Len(q) + 1 \in 1..(Len(q) + 1) BY <1>1
<1>4. QED BY <1>1, <1>2, <1>3 DEF Range

\* A watcher that is on and told nothing but to stop is told nothing at all.
LEMMA NoStopNoSwitch ==
    ASSUME NEW q \in Seq(CommandNames), NEW h \in BOOLEAN, Follows(q, TRUE, h),
           "stop" \notin Range(q)
    PROVE  SwitchesOf(q) = {}
<1> SUFFICES ASSUME SwitchesOf(q) # {} PROVE FALSE OBVIOUS
<1>1. SwitchesOf(q) \subseteq Nat /\ SwitchesOf(q) \subseteq DOMAIN q
  BY LenProperties DEF SwitchesOf
<1>2. PICK i \in SwitchesOf(q) : \A k \in SwitchesOf(q) : i <= k BY <1>1, LeastNat, Zenon
<1>3. q[i] = "stop" BY <1>2 DEF Follows
<1>4. QED BY <1>1, <1>3, Zenon DEF Range

\* Nothing queued changes the watcher of a signal that is owed.
LEMMA OwedUnchangedKept ==
    ASSUME HandlersInv, HandlersNext
    PROVE  OwedUnchanged'
<1>a. /\ sigCommands \in Seq(CommandNames) /\ watcher \in {"off", "on", "failed"}
      /\ handler \in Nat /\ shut \in BOOLEAN /\ owed \in BOOLEAN /\ caught \in BOOLEAN
  BY DEF HandlersInv, HandlerTypes, CommandNames
<1>b. /\ owed => SwitchesOf(sigCommands) = {} /\ handler # 0
      /\ shut => watcher = "off" /\ ~caught /\ sigCommands = <<>>
  BY Zenon DEF HandlersInv, OwedUnchanged, Switches, SwitchesOf, HandlersSafe, CaughtIsDelivered
<1>c. ~shut => Follows(sigCommands, watcher # "off", handler # 0)
  BY DEF HandlersInv, HandlersSafe, WatcherFollowsHandler, Follows, Switches, SwitchesOf
<1>d. /\ SwitchesOf(Append(sigCommands, "fired")) = SwitchesOf(sigCommands)
      /\ sigCommands # <<>> /\ SwitchesOf(sigCommands) = {} =>
             Head(sigCommands) = "fired" /\ SwitchesOf(Tail(sigCommands)) = {}
  BY <1>a, SwitchPlaces, Zenon
<1> DEFINE Goal == /\ owed' => SwitchesOf(sigCommands') = {}
                   /\ shut' => watcher' = "off" /\ ~caught' /\ sigCommands' = <<>>
<1> SUFFICES Goal BY Zenon DEF OwedUnchanged, Switches, SwitchesOf
<1>1. CASE add_signal_handler BY <1>1, <1>a, <1>b, <1>d, Zenon DEF NewlyInstalled
<1>2. CASE remove_signal_handler BY <1>2, <1>a, <1>b, <1>d
<1>3. CASE signal_raised
 <2>0. shut' => watcher' = "off" /\ ~caught' /\ sigCommands' = <<>>
  <3>1. shut' => watcher = "off" /\ ~caught /\ sigCommands = <<>> BY <1>3, <1>b
  <3>2. UNCHANGED <<watcher, sigCommands>> /\ caught' = (caught \/ watcher = "on") BY <1>3
  <3>3. QED BY <3>1, <3>2
 <2>1. CASE owed' = owed BY <1>3, <2>0, <2>1, <1>b
 <2>2. CASE watcher = "on" /\ handler # 0 /\ "stop" \notin Range(sigCommands)
  <3>1. ~shut /\ Follows(sigCommands, TRUE, TRUE) BY <1>a, <1>b, <1>c, <2>2
  <3>2. SwitchesOf(sigCommands) = {} BY <1>a, <2>2, <3>1, NoStopNoSwitch
  <3>3. QED BY <1>3, <2>0, <3>2
 <2>3. QED BY <1>3, <1>a, <2>1, <2>2
<1>4. CASE watcher_sends BY <1>4, <1>a, <1>b, <1>d
<1>5. CASE dispatch_start BY <1>5, <1>a, <1>b, <1>d
<1>6. CASE dispatch_stop BY <1>6, <1>a, <1>b, <1>d
<1>7. CASE dispatch_fired BY <1>7, <1>a, <1>b, <1>d DEF Scheduled
<1>8. CASE run_signal_callback BY <1>8, <1>a, <1>b, <1>d
<1>9. CASE cleanup_watchers BY <1>9, <1>a, <1>b, <1>d, Zenon
<1> QED BY <1>1, <1>2, <1>3, <1>4, <1>5, <1>6, <1>7, <1>8, <1>9, Zenon DEF HandlersNext

\* A signal that is owed stays on its way.
LEMMA CaughtIsDeliveredKept ==
    ASSUME HandlersInv, HandlersNext
    PROVE  CaughtIsDelivered'
<1>a. /\ sigCommands \in Seq(CommandNames) /\ adds \in Nat
      /\ handler \in Nat /\ owed \in BOOLEAN /\ sigReady \in Seq(Nat)
  BY DEF HandlersInv, HandlerTypes, CommandNames
<1>b. /\ owed => SwitchesOf(sigCommands) = {} /\ handler # 0
                 /\ (caught \/ "fired" \in Range(sigCommands) \/ sigReady # <<>>)
  BY DEF HandlersInv, OwedUnchanged, Switches, SwitchesOf, HandlersSafe, CaughtIsDelivered
<1>c. sigCommands # <<>> /\ SwitchesOf(sigCommands) = {} => Head(sigCommands) = "fired"
  BY <1>a, SwitchPlaces
<1>d. ASSUME NEW x \in CommandNames PROVE Range(sigCommands) \union {x} \subseteq Range(Append(sigCommands, x))
  BY <1>a, RangeAppend
<1> USE DEF CaughtIsDelivered
<1>1. CASE add_signal_handler BY <1>1, <1>a, <1>b, <1>c DEF NewlyInstalled
<1>2. CASE remove_signal_handler BY <1>2, <1>a, <1>b, <1>c
<1>3. CASE signal_raised BY <1>3, <1>a, <1>b, <1>c
<1>4. CASE watcher_sends
 <2>1. "fired" \in Range(Append(sigCommands, "fired")) BY <1>d DEF CommandNames
 <2>2. QED BY <1>4, <1>b, <2>1
<1>5. CASE dispatch_start BY <1>5, <1>a, <1>b, <1>c
<1>6. CASE dispatch_stop BY <1>6, <1>a, <1>b, <1>c
<1>7. CASE dispatch_fired
 <2>1. handler # 0 => Append(sigReady, handler) # <<>> BY <1>a
 <2>2. QED BY <1>7, <1>b, <2>1 DEF Scheduled
<1>8. CASE run_signal_callback BY <1>8, <1>a, <1>b, <1>c
<1>9. CASE cleanup_watchers BY <1>9, <1>a, <1>b, <1>c, Zenon
<1> QED BY <1>1, <1>2, <1>3, <1>4, <1>5, <1>6, <1>7, <1>8, <1>9 DEF HandlersNext

\* A callback is made from the newest registration, so it goes behind the others.
LEMMA CallbacksInOrderKept ==
    ASSUME HandlersInv, HandlersNext
    PROVE  CallbacksInOrder'
<1>a. /\ adds \in Nat /\ handler \in {0, adds} /\ sigReady \in Seq(Nat) /\ Len(sigReady) \in Nat
      /\ \A i \in 1..Len(sigReady) : sigReady[i] \in Nat
  BY LenProperties, ElementOfSeq DEF HandlersInv, HandlerTypes
<1>b. CallbacksInOrder BY DEF HandlersInv, HandlersSafe
<1> USE DEF CallbacksInOrder
<1>1. CASE add_signal_handler
 <2>1. adds' = adds + 1 /\ sigReady' = sigReady BY <1>1
 <2>2. QED BY <1>a, <1>b, <2>1
<1>2. CASE remove_signal_handler BY <1>2, <1>b
<1>3. CASE signal_raised BY <1>3, <1>b
<1>4. CASE watcher_sends BY <1>4, <1>b
<1>5. CASE dispatch_start BY <1>5, <1>b
<1>6. CASE dispatch_stop BY <1>6, <1>b
<1>7. CASE dispatch_fired
 <2>1. CASE handler = 0 BY <1>7, <1>b, <2>1 DEF Scheduled
 <2>2. CASE handler # 0
  <3>1. sigReady' = Append(sigReady, adds) /\ adds' = adds BY <1>7, <1>a, <2>2 DEF Scheduled
  <3>2. /\ Len(sigReady') = Len(sigReady) + 1 /\ sigReady'[Len(sigReady) + 1] = adds
        /\ \A i \in 1..Len(sigReady) : sigReady'[i] = sigReady[i]
    BY <1>a, <3>1, AppendProperties
  <3>3. ASSUME NEW i \in 1..Len(sigReady'), NEW j \in 1..i
        PROVE  sigReady'[j] <= sigReady'[i] /\ sigReady'[i] <= adds'
   <4>1. CASE i = Len(sigReady) + 1
    <5>1. sigReady'[i] = adds BY <3>2, <4>1, Zenon
    <5>2. j = Len(sigReady) + 1 \/ j \in 1..Len(sigReady) BY <1>a, <4>1
    <5>3. j \in 1..Len(sigReady) => sigReady[j] <= adds /\ sigReady'[j] = sigReady[j] /\ j \in 1..j
      BY <1>a, <1>b, <3>2
    <5>4. QED BY <1>a, <3>1, <3>2, <5>1, <5>2, <5>3
   <4>2. CASE i # Len(sigReady) + 1
    <5>1. i \in 1..Len(sigReady) /\ j \in 1..Len(sigReady) BY <1>a, <3>2, <4>2
    <5>2. QED BY <1>b, <3>1, <3>2, <5>1, Zenon
   <4>3. QED BY <4>1, <4>2, Zenon
  <3>4. QED BY <3>3
 <2>3. QED BY <2>1, <2>2
<1>8. CASE run_signal_callback
 <2>1. sigReady # <<>> /\ sigReady' = Tail(sigReady) /\ adds' = adds BY <1>8, Zenon
 <2>2. /\ Len(sigReady) \in Nat \ {0} /\ Len(sigReady') = Len(sigReady) - 1
       /\ \A i \in 1..(Len(sigReady) - 1) : sigReady'[i] = sigReady[i + 1]
   BY <1>a, <2>1, TailElems
 <2>3. ASSUME NEW i \in 1..Len(sigReady'), NEW j \in 1..i
       PROVE  sigReady'[j] <= sigReady'[i] /\ sigReady'[i] <= adds'
  <3>1. /\ i + 1 \in 1..Len(sigReady) /\ j + 1 \in 1..(i + 1)
        /\ sigReady'[i] = sigReady[i + 1] /\ sigReady'[j] = sigReady[j + 1]
    BY <2>2
  <3>2. QED BY <1>b, <2>1, <3>1
 <2>4. QED BY <2>3
<1>9. CASE cleanup_watchers BY <1>9, <1>b
<1> QED BY <1>1, <1>2, <1>3, <1>4, <1>5, <1>6, <1>7, <1>8, <1>9, Zenon DEF HandlersNext

LEMMA HandlersInitially == HandlersInit => HandlersInv
<1> SUFFICES ASSUME HandlersInit PROVE HandlersInv OBVIOUS
<1>1. HandlerTypes
 <2>1. <<>> \in Seq({"start", "stop", "fired"}) /\ <<>> \in Seq(Nat) /\ 0 \in Nat OBVIOUS
 <2>2. QED BY <2>1 DEF HandlersInit, HandlerTypes
<1>2. Switches = {} BY DEF HandlersInit, Switches
<1>3. OwedUnchanged /\ WatcherFollowsHandler /\ CaughtIsDelivered
  BY <1>2 DEF HandlersInit, OwedUnchanged, WatcherFollowsHandler, CaughtIsDelivered
<1>4. CallbacksInOrder BY DEF HandlersInit, CallbacksInOrder
<1>5. QED BY <1>1, <1>3, <1>4 DEF HandlersInv, HandlersSafe

LEMMA HandlersKept ==
    ASSUME HandlersInv, [HandlersNext]_handlerVars
    PROVE  HandlersInv'
<1>1. CASE HandlersNext
  BY <1>1, HandlerTypesKept, OwedUnchangedKept, WatcherFollowsKept, CaughtIsDeliveredKept,
    CallbacksInOrderKept, Zenon DEF HandlersInv, HandlersSafe
<1>2. CASE UNCHANGED handlerVars
  BY <1>2 DEF handlerVars, HandlersInv, HandlerTypes, OwedUnchanged, Switches, HandlersSafe,
    WatcherFollowsHandler, CaughtIsDelivered, CallbacksInOrder
<1>3. QED BY <1>1, <1>2

SignalsInv == (part = "signals" => SignalInv) /\ (part = "handlers" => HandlersInv)

LEMMA SignalsStepOfLoop == SignalsInv /\ [LoopNext]_loopVars => SignalsInv'
<1> SUFFICES ASSUME SignalsInv, [LoopNext]_loopVars PROVE SignalsInv' BY Zenon
<1>1. part' = part BY DEF LoopNext
<1>2. CASE part = "signals"
 <2>1. [SignalNext]_signalVars BY <1>2 DEF LoopNext
 <2>2. QED BY <1>1, <1>2, <2>1, SignalKept, Zenon DEF SignalsInv
<1>3. CASE part = "handlers"
 <2>1. [HandlersNext]_handlerVars BY <1>3 DEF LoopNext
 <2>2. QED BY <1>1, <1>3, <2>1, HandlersKept, Zenon DEF SignalsInv
<1>4. QED BY <1>1, <1>2, <1>3, Zenon DEF SignalsInv

\* For every number of signals, streams and handlers: a raised flag is on its way to a scan
\* although a full self-pipe drops notifications, no stream waits beside a signal it has not
\* seen, references and disposition agree (vibeio/signal/unix.rs); the watcher the queued
\* commands lead to is the one the handler map asks for, a signal caught for a handler stays
\* on its way to it, and callbacks keep the order of their registrations (signals.rs).
THEOREM SignalsAreSafe == LoopSpec => []SignalsSafe
<1>1. LoopInit => SignalsInv BY SignalInitially, HandlersInitially, Zenon DEF LoopInit, SignalsInv
<1>2. SignalsInv => SignalsSafe BY DEF SignalsInv, SignalInv, HandlersInv, SignalsSafe
<1>3. QED BY <1>1, <1>2, SignalsStepOfLoop, PTL DEF LoopSpec

-----------------------------------------------------------------------------
(* Watched descriptors.  One registration is current; whatever still names *)
(* another one is stale, and its callback is revoked.                      *)

WatchCommands == [op : {"start", "stop"}, reg : Regs \union {NoReg}]

WatchTasks == [reg : Regs \union {NoReg}, waits : BOOLEAN]

WatchTypes ==
    /\ watch_made \in 0..MaxRegs /\ keep \in Regs \union {NoReg}
    /\ watch_local \in WatchTasks /\ remote \in WatchTasks
    /\ wcmds \in Seq(WatchCommands) /\ queue \in Seq(Regs)
    /\ current \in Regs \union {NoReg}
    /\ inRun \in BOOLEAN /\ waitFailed \in BOOLEAN

\* Every registration that was made is the current one or revoked and nothing names one
\* that was not made; a task that waits waits for a registration, a local one for the
\* current one; a callback only executes in a run, and no revoked one was invoked.
Known == 1..watch_made \union {NoReg}
WatchOwners ==
    /\ keep \in Known /\ watch_local.reg \in Known /\ remote.reg \in Known /\ current \in Known
    /\ \A i \in 1..Len(queue) : queue[i] \in 1..watch_made
    /\ revoked \subseteq 1..watch_made
    /\ keep \notin revoked /\ \A r \in 1..watch_made : r = keep \/ r \in revoked
    /\ watch_local.waits => watch_local.reg = keep /\ keep # NoReg
    /\ remote.waits => remote.reg # NoReg
    /\ current # NoReg => inRun
    /\ strayCalls = {}

\* The commands on their way: a start that is not the last is undone by the stop behind it
\* and starts a stale registration; the last one, if it starts, starts the current one, and
\* then there is no local task.  A task of the dispatcher that waits for the current
\* registration has no command behind it.
CommandsInOrder(c, k, n, w) ==
    \A i \in 1..Len(c) :
      IF c[i].op = "stop" THEN c[i].reg = NoReg
      ELSE /\ c[i].reg \in 1..n
           /\ i < Len(c) => c[i + 1].op = "stop" /\ c[i].reg # k
           /\ i = Len(c) => c[i].reg = k /\ w = NoReg
CommandOrder ==
    /\ CommandsInOrder(wcmds, keep, watch_made, watch_local.reg)
    /\ keep # NoReg /\ remote = Armed(keep) => wcmds = <<>>

LastStarts(cmds) == cmds # <<>> /\ cmds[Len(cmds)].op = "start"

\* What will invoke the current registration once more: exactly one of these.
PendingNow ==
    (IF watch_local.waits THEN 1 ELSE 0)
    + (IF remote = Armed(keep) THEN 1 ELSE 0)
    + (IF LastStarts(wcmds) THEN 1 ELSE 0)
    + CountIn(queue, {keep})
    + (IF current = keep THEN 1 ELSE 0)
PendingExact == keep # NoReg => PendingNow = IF waitFailed THEN 0 ELSE 1

WatchInv == WatchTypes /\ WatchOwners /\ CommandOrder /\ PendingExact

\* A command is a start or a stop, and a start in order names a registration.
LEMMA StartsKnown ==
    ASSUME NEW c \in Seq(WatchCommands), NEW k, NEW n, NEW w,
           CommandsInOrder(c, k, n, w)
    PROVE  \A i \in 1..Len(c) : /\ c[i].op = "start" \/ c[i].op = "stop"
                                /\ c[i].op = "start" => c[i].reg \in 1..n
<1>1. \A i \in 1..Len(c) : c[i] \in WatchCommands BY ElementOfSeq
<1>2. QED BY <1>1 DEF CommandsInOrder, WatchCommands

\* Commands without a start at the end stay in order for a registration that none of them
\* starts.
LEMMA CommandsForNext ==
    ASSUME NEW c \in Seq(WatchCommands), NEW k, NEW n \in Nat, NEW w,
           CommandsInOrder(c, k, n, w), ~LastStarts(c),
           NEW l, l \in 1..n => l = k, NEW m \in Nat, n <= m, NEW v
    PROVE  CommandsInOrder(c, l, m, v)
<1>1. Len(c) \in Nat /\ (c = <<>> => Len(c) = 0) BY LenProperties
<1>2. \A i \in 1..Len(c) : c[i].op # "stop" => i # Len(c) BY <1>1, StartsKnown DEF LastStarts
<1>3. 1..n \subseteq 1..m OBVIOUS
<1>4. QED BY <1>2, <1>3 DEF CommandsInOrder

\* A stop undoes the start in front of it.
LEMMA CommandsStopped ==
    ASSUME NEW c \in Seq(WatchCommands), NEW k, NEW n \in Nat, NEW w,
           CommandsInOrder(c, k, n, w),
           NEW l, l \notin 1..n, NEW m \in Nat, n <= m, NEW v
    PROVE  LET d == Append(c, [op |-> "stop", reg |-> NoReg])
           IN  CommandsInOrder(d, l, m, v) /\ ~LastStarts(d)
<1> DEFINE x == [op |-> "stop", reg |-> NoReg]
           d == Append(c, x)
<1>1. x \in WatchCommands /\ x.op = "stop" /\ x.reg = NoReg BY DEF WatchCommands
<1> HIDE DEF x
<1>2. /\ Len(d) = Len(c) + 1 /\ Len(c) \in Nat
      /\ \A i \in 1..Len(c) : d[i] = c[i]
      /\ d[Len(c) + 1] = x
  BY <1>1, AppendProperties, LenProperties
<1> HIDE DEF d
<1>3. ~LastStarts(d) BY <1>1, <1>2, Zenon DEF LastStarts
<1>4. ASSUME NEW i \in 1..Len(d), d[i].op # "stop"
      PROVE  d[i].reg \in 1..m /\ i < Len(d) /\ d[i + 1].op = "stop" /\ d[i].reg # l
 <2>1. i \in 1..Len(c) /\ d[i] = c[i] /\ i + 1 \in 1..Len(d) BY <1>1, <1>2, <1>4
 <2>2. c[i].reg \in 1..n /\ (i < Len(c) => c[i + 1].op = "stop") BY <1>4, <2>1 DEF CommandsInOrder
 <2>3. d[i + 1].op = "stop"
  <3>1. CASE i = Len(c) BY <1>1, <1>2, <3>1
  <3>2. CASE i < Len(c)
   <4>1. i + 1 \in 1..Len(c) BY <1>2, <2>1, <3>2
   <4>2. QED BY <1>2, <2>2, <3>2, <4>1
  <3>3. QED BY <1>2, <2>1, <3>1, <3>2
 <2>4. QED BY <1>2, <2>1, <2>2, <2>3
<1>5. \A i \in 1..Len(d) : d[i].op = "stop" => d[i].reg = NoReg
 <2>1. \A i \in 1..Len(d) : i \in 1..Len(c) \/ i = Len(c) + 1 BY <1>2
 <2>2. QED BY <1>1, <1>2, <2>1 DEF CommandsInOrder
<1>6. CommandsInOrder(d, l, m, v)
 <2>1. Len(d) \in Nat BY <1>2
 <2>2. QED BY <1>4, <1>5, <2>1 DEF CommandsInOrder
<1>7. QED BY <1>3, <1>6, Zenon DEF d, x

\* A start goes behind commands that do not end in one.
LEMMA CommandsStarted ==
    ASSUME NEW c \in Seq(WatchCommands), NEW m \in Nat, NEW r \in Regs, r <= m, NEW v,
           CommandsInOrder(c, r, m, v), ~LastStarts(c)
    PROVE  LET d == Append(c, [op |-> "start", reg |-> r])
           IN  CommandsInOrder(d, r, m, NoReg) /\ LastStarts(d)
<1> DEFINE x == [op |-> "start", reg |-> r]
           d == Append(c, x)
<1>1. x \in WatchCommands /\ x.op = "start" /\ x.reg = r /\ r \in 1..m
  BY WatchAssumption DEF WatchCommands, Regs
<1> HIDE DEF x
<1>2. /\ Len(d) = Len(c) + 1 /\ Len(c) \in Nat /\ d # <<>>
      /\ \A i \in 1..Len(c) : d[i] = c[i]
      /\ d[Len(c) + 1] = x
  BY <1>1, AppendProperties, LenProperties
<1> HIDE DEF d
<1>3. LastStarts(d) BY <1>1, <1>2, Zenon DEF LastStarts
<1>4. \A i \in 1..Len(c) : c[i].op # "stop" => i # Len(c)
  BY <1>2, StartsKnown, LenProperties DEF LastStarts
<1>5. ASSUME NEW i \in 1..Len(c)
      PROVE  IF d[i].op = "stop" THEN d[i].reg = NoReg
             ELSE d[i].reg \in 1..m /\ d[i + 1].op = "stop" /\ d[i].reg # r
 <2>1. d[i] = c[i] BY <1>2
 <2>2. CASE c[i].op = "stop" BY <2>1, <2>2 DEF CommandsInOrder
 <2>3. CASE c[i].op # "stop"
  <3>1. i < Len(c) /\ i + 1 \in 1..Len(c) BY <1>2, <1>4, <2>3
  <3>2. d[i + 1] = c[i + 1] BY <1>2, <3>1
  <3>3. QED BY <2>1, <2>3, <3>1, <3>2, Zenon DEF CommandsInOrder
 <2>4. QED BY <2>2, <2>3, Zenon
<1>6. CommandsInOrder(d, r, m, NoReg)
 <2>1. \A i \in 1..Len(d) : (i \in 1..Len(c) /\ i # Len(d)) \/ i = Len(c) + 1 BY <1>2
 <2>2. ASSUME NEW i \in 1..Len(d)
       PROVE  IF d[i].op = "stop" THEN d[i].reg = NoReg
              ELSE /\ d[i].reg \in 1..m
                   /\ i < Len(d) => d[i + 1].op = "stop" /\ d[i].reg # r
                   /\ i = Len(d) => d[i].reg = r
   BY <1>1, <1>2, <1>5, <2>1
 <2>3. QED BY <2>2 DEF CommandsInOrder
<1>7. QED BY <1>3, <1>6, Zenon DEF d, x

\* The dispatcher takes the first.
LEMMA CommandsTaken ==
    ASSUME NEW c \in Seq(WatchCommands), c # <<>>, NEW k, NEW n, NEW w,
           CommandsInOrder(c, k, n, w)
    PROVE  /\ CommandsInOrder(Tail(c), k, n, w)
           /\ Tail(c) = <<>> => (LastStarts(c) <=> Head(c).op = "start")
           /\ Tail(c) # <<>> => (LastStarts(c) <=> LastStarts(Tail(c)))
           /\ Head(c).op = "start" => (Head(c).reg = k <=> Tail(c) = <<>>)
<1> DEFINE d == Tail(c)
<1>1. /\ d \in Seq(WatchCommands) /\ Head(c) = c[1] /\ Len(c) \in Nat \ {0}
      /\ Len(d) = Len(c) - 1 /\ Len(d) \in Nat
      /\ \A i \in 1..(Len(c) - 1) : d[i] = c[i + 1]
      /\ d = <<>> <=> Len(d) = 0
 <2>1. /\ d \in Seq(WatchCommands) /\ Head(c) = c[1] /\ Len(c) \in Nat \ {0}
       /\ Len(d) = Len(c) - 1
       /\ \A i \in 1..(Len(c) - 1) : d[i] = c[i + 1]
   BY TailElems
 <2> HIDE DEF d
 <2>2. Len(d) \in Nat /\ (d = <<>> <=> Len(d) = 0) BY <2>1, LenProperties, EmptySeq, Zenon
 <2>3. QED BY <2>1, <2>2
<1> HIDE DEF d
<1>2. ASSUME NEW i \in 1..Len(d)
      PROVE  /\ i + 1 \in 1..Len(c) /\ d[i] = c[i + 1] /\ (i = Len(d) <=> i + 1 = Len(c))
             /\ i < Len(d) => i + 1 < Len(c) /\ d[i + 1] = c[(i + 1) + 1]
  BY <1>1
<1>3. CommandsInOrder(d, k, n, w)
 <2>1. ASSUME NEW i \in 1..Len(d)
       PROVE  IF d[i].op = "stop" THEN d[i].reg = NoReg
              ELSE /\ d[i].reg \in 1..n
                   /\ i < Len(d) => d[i + 1].op = "stop" /\ d[i].reg # k
                   /\ i = Len(d) => d[i].reg = k /\ w = NoReg
   BY <1>2 DEF CommandsInOrder
 <2>2. QED BY <2>1 DEF CommandsInOrder
<1>4. 1 \in 1..Len(c) /\ (c[1].op = "start" => (c[1].reg = k <=> Len(c) = 1))
 <2>1. 1 \in 1..Len(c) /\ (Len(c) = 1 \/ 1 < Len(c)) BY <1>1
 <2>2. QED BY <2>1 DEF CommandsInOrder
<1>5. d # <<>> => (LastStarts(c) <=> LastStarts(d))
 <2>1. d # <<>> => Len(d) \in 1..Len(d) BY <1>1
 <2>2. d # <<>> => d[Len(d)] = c[Len(c)] BY <1>1, <1>2, <2>1, Zenon
 <2>3. QED BY <2>2, Zenon DEF LastStarts
<1>6. d = <<>> => (LastStarts(c) <=> Head(c).op = "start")
 <2>1. d = <<>> => Len(c) = 1 BY <1>1
 <2>2. QED BY <1>1, <2>1 DEF LastStarts
<1>7. QED BY <1>1, <1>3, <1>4, <1>5, <1>6 DEF d

\* What a step of the loop or of its user does to the watch.
LEMMA WatchCases ==
    ASSUME WatchInv, WatchNext
    PROVE  \/ /\ add_reader /\ inRun
           \/ /\ add_reader /\ ~inRun
           \/ remove_reader \/ local_fires \/ remote_fires \/ watch_error
           \/ dispatch_watch_command \/ execute_callback
           \/ /\ rearm_fd_watch /\ inRun /\ keep = current
           \/ /\ rearm_fd_watch /\ UNCHANGED <<watch_local, wcmds>> /\ keep # current
           \/ data_arrives \/ run_starts_or_ends
<1>1. CASE rearm_fd_watch
 <2>1. current # NoReg /\ inRun BY <1>1 DEF WatchInv, WatchOwners
 <2>2. CASE keep = current BY <1>1, <2>1, <2>2, Zenon
 <2>3. CASE keep # current BY <1>1, <2>3 DEF RearmOf
 <2>4. QED BY <2>2, <2>3
<1>2. inRun \in BOOLEAN BY DEF WatchInv, WatchTypes
<1>3. QED BY <1>1, <1>2 DEF WatchNext

\* The commands of a stop, and of a start outside of a run.
LEMMA StopSends ==
    ASSUME WatchTypes
    PROVE  /\ StopCommands(watch_local) \in Seq(WatchCommands)
           /\ watch_local.reg # NoReg => StopCommands(watch_local) = wcmds
           /\ watch_local.reg = NoReg =>
                StopCommands(watch_local) = Append(wcmds, [op |-> "stop", reg |-> NoReg])
<1>1. [op |-> "stop", reg |-> NoReg] \in WatchCommands BY Zenon DEF WatchCommands
<1>2. QED BY <1>1, AppendProperties DEF WatchTypes, StopCommands

LEMMA WatchTypesKept ==
    ASSUME WatchInv, WatchNext
    PROVE  WatchTypes'
<1>1. WatchTypes /\ WatchOwners /\ MaxRegs \in Nat BY WatchAssumption, Zenon DEF WatchInv
<1>2. WatchIdle \in WatchTasks /\ \A r \in Regs : Armed(r) \in WatchTasks
  BY DEF WatchIdle, Armed, WatchTasks
<1>3. \A r \in Regs, s \in Seq(WatchCommands) :
        Append(s, [op |-> "start", reg |-> r]) \in Seq(WatchCommands)
 <2>1. \A r \in Regs : [op |-> "start", reg |-> r] \in WatchCommands BY DEF WatchCommands
 <2>2. QED BY <2>1, AppendProperties
<1>4. StopCommands(watch_local) \in Seq(WatchCommands) BY <1>1, StopSends
<1>5. CASE add_reader
 <2>1. watch_made + 1 \in Regs /\ watch_made' \in 0..MaxRegs /\ keep' \in Regs
   BY <1>1, <1>5 DEF WatchTypes, Regs
 <2>2. \A c \in Seq(WatchCommands) :
         StartWatch(watch_made + 1, c) => watch_local' \in WatchTasks /\ wcmds' \in Seq(WatchCommands)
   BY <1>2, <1>3, <2>1, Zenon
 <2>3. watch_local' \in WatchTasks /\ wcmds' \in Seq(WatchCommands)
   BY <1>1, <1>4, <1>5, <2>2 DEF WatchTypes
 <2>4. QED BY <1>1, <1>5, <2>1, <2>3 DEF WatchTypes
<1>6. CASE remove_reader BY <1>1, <1>2, <1>4, <1>6 DEF remove_reader, WatchTypes
<1>7. ASSUME NEW w \in WatchTasks PROVE [w EXCEPT !.waits = FALSE] \in WatchTasks BY DEF WatchTasks
<1>8. CASE local_fires \/ remote_fires
 <2>1. watch_local' \in WatchTasks /\ remote' \in WatchTasks
   BY <1>1, <1>7, <1>8, Zenon DEF WatchTypes
 <2>2. \A r \in Regs : Fired(r) \in Seq(Regs) BY <1>1, AppendProperties DEF Fired, WatchTypes
 <2>3. queue' \in Seq(Regs)
  <3>1. watch_local.waits => watch_local.reg \in Regs BY <1>1 DEF WatchOwners, WatchTypes
  <3>2. remote.waits => remote.reg \in Regs BY <1>1 DEF WatchOwners, WatchTypes, WatchTasks
  <3>3. QED BY <1>8, <2>2, <3>1, <3>2
 <2>4. QED BY <1>1, <1>8, <2>1, <2>3 DEF WatchTypes
<1>9. CASE watch_error
 <2>1. watch_local' \in WatchTasks /\ remote' \in WatchTasks
   BY <1>1, <1>7, <1>9, Zenon DEF WatchTypes
 <2>2. waitFailed' \in BOOLEAN BY <1>9
 <2>3. QED BY <1>1, <1>9, <2>1, <2>2, Zenon DEF WatchTypes
<1>10. CASE dispatch_watch_command
 <2>1. Tail(wcmds) \in Seq(WatchCommands) /\ Head(wcmds) = wcmds[1] /\ Len(wcmds) \in Nat \ {0}
   BY <1>1, <1>10, TailElems DEF WatchTypes
 <2>2. Head(wcmds).op = "start" => Head(wcmds).reg \in Regs
  <3>1. 1 \in 1..Len(wcmds) BY <2>1
  <3>2. Head(wcmds).op = "start" => Head(wcmds).reg \in 1..watch_made
    BY <1>1, <2>1, <3>1, StartsKnown, Zenon DEF WatchInv, CommandOrder, WatchTypes
  <3>3. 1..watch_made \subseteq Regs BY <1>1 DEF WatchTypes, Regs
  <3>4. QED BY <3>2, <3>3
 <2>3. remote' \in WatchTasks BY <1>2, <1>10, <2>2
 <2>4. QED BY <1>1, <1>10, <2>1, <2>3 DEF WatchTypes
<1>11. CASE execute_callback
 <2>1. Tail(queue) \in Seq(Regs) /\ Head(queue) \in Regs BY <1>1, <1>11, TailElems DEF WatchTypes
 <2>2. QED BY <1>1, <1>11, <2>1, Zenon DEF WatchTypes
<1>12. CASE rearm_fd_watch /\ inRun /\ keep = current
 <2>1. current \in Regs BY <1>1, <1>12, Zenon DEF WatchTypes
 <2>2. watch_local' \in WatchTasks /\ wcmds' = wcmds BY <1>2, <1>12, <2>1, Zenon DEF RearmOf
 <2>3. QED BY <1>1, <1>12, <2>2, Zenon DEF WatchTypes
<1>13. CASE rearm_fd_watch /\ UNCHANGED <<watch_local, wcmds>> BY <1>1, <1>13 DEF WatchTypes
<1>14. CASE data_arrives \/ run_starts_or_ends BY <1>1, <1>14 DEF data_arrives, WatchTypes
<1> HIDE DEF add_reader, local_fires, remote_fires, watch_error, dispatch_watch_command,
     execute_callback, rearm_fd_watch, run_starts_or_ends
<1>15. QED BY <1>5, <1>6, <1>8, <1>9, <1>10, <1>11, <1>12, <1>13, <1>14, WatchCases

LEMMA WatchOwnersKept ==
    ASSUME WatchInv, WatchNext
    PROVE  WatchOwners'
<1>1. WatchTypes /\ WatchOwners /\ MaxRegs \in Nat /\ NoReg \notin 1..MaxRegs
  BY WatchAssumption DEF WatchInv
<1>2. /\ watch_made \in Nat /\ NoReg \notin 1..watch_made
      /\ watch_made < MaxRegs => watch_made + 1 # NoReg
  BY <1>1 DEF WatchTypes
<1>3. /\ WatchIdle.reg = NoReg /\ WatchIdle.waits = FALSE
      /\ \A r : Armed(r).reg = r /\ Armed(r).waits = TRUE
  BY DEF WatchIdle, Armed
<1>4. CASE add_reader
 <2>1. 1..(watch_made + 1) = 1..watch_made \union {watch_made + 1}
       /\ watch_made + 1 \notin 1..watch_made
   BY <1>2
 <2>2. watch_local' = WatchIdle \/ watch_local' = Armed(watch_made + 1) BY <1>4
 <2>3. watch_local'.reg \in Known' /\ (watch_local'.waits => watch_local'.reg = keep' /\ keep' # NoReg)
   BY <1>2, <1>3, <1>4, <2>1, <2>2 DEF Known
 <2>4. revoked' \subseteq 1..watch_made /\ keep' \notin revoked'
       /\ \A r \in 1..watch_made : r \in revoked'
   BY <1>1, <1>2, <1>4, <2>1 DEF WatchOwners, Known
 <2>5. QED BY <1>1, <1>4, <2>1, <2>3, <2>4 DEF WatchOwners, Known
<1>5. CASE remove_reader BY <1>1, <1>2, <1>3, <1>5 DEF remove_reader, WatchOwners, Known
<1>6. CASE local_fires \/ remote_fires
 <2>1. /\ watch_local'.reg = watch_local.reg /\ (watch_local'.waits => watch_local.waits)
       /\ remote'.reg = remote.reg /\ (remote'.waits => remote.waits)
   BY <1>1, <1>6, Zenon DEF WatchTypes, WatchTasks
 <2>2. PICK r \in 1..watch_made : queue' = Fired(r) BY <1>1, <1>6 DEF WatchOwners, Known
 <2>3. \A i \in 1..Len(queue') : queue'[i] \in 1..watch_made
  <3>1. r \in Regs BY <1>1 DEF WatchTypes, Regs
  <3>2. /\ Len(Append(queue, r)) = Len(queue) + 1 /\ Len(queue) \in Nat
        /\ \A i \in 1..Len(queue) : Append(queue, r)[i] = queue[i]
        /\ Append(queue, r)[Len(queue) + 1] = r
    BY <1>1, <3>1, AppendProperties, LenProperties DEF WatchTypes
  <3>3. \A i \in 1..(Len(queue) + 1) : i \in 1..Len(queue) \/ i = Len(queue) + 1 BY <3>2
  <3>4. QED BY <1>1, <2>2, <3>2, <3>3 DEF Fired, WatchOwners
 <2>4. QED BY <1>1, <1>6, <2>1, <2>3, Zenon DEF WatchOwners, Known
<1>7. CASE watch_error
 <2>1. /\ watch_local'.reg = watch_local.reg /\ (watch_local'.waits => watch_local.waits)
       /\ remote'.reg = remote.reg /\ (remote'.waits => remote.waits)
   BY <1>1, <1>7, Zenon DEF WatchTypes, WatchTasks
 <2>2. QED BY <1>1, <1>7, <2>1, Zenon DEF WatchOwners, Known
<1>8. CASE dispatch_watch_command
 <2>1. Head(wcmds) = wcmds[1] /\ 1 \in 1..Len(wcmds) BY <1>1, <1>8, TailElems DEF WatchTypes
 <2>2. Head(wcmds).op = "start" => Head(wcmds).reg \in 1..watch_made
   BY <1>1, <2>1, StartsKnown, Zenon DEF WatchInv, CommandOrder, WatchTypes
 <2>3. remote'.reg \in Known' /\ (remote'.waits => remote'.reg # NoReg)
   BY <1>2, <1>3, <1>8, <2>2, Zenon DEF Known
 <2>4. QED BY <1>1, <1>8, <2>3, Zenon DEF WatchOwners, Known
<1>9. CASE execute_callback
 <2>1. /\ Head(queue) = queue[1] /\ Len(queue) \in Nat \ {0} /\ Len(Tail(queue)) = Len(queue) - 1
       /\ \A i \in 1..(Len(queue) - 1) : Tail(queue)[i] = queue[i + 1]
   BY <1>1, <1>9, TailElems, Zenon DEF WatchTypes
 <2>2. Head(queue) \in 1..watch_made /\ \A i \in 1..Len(queue') : queue'[i] \in 1..watch_made
  <3>1. 1 \in 1..Len(queue) /\ \A i \in 1..(Len(queue) - 1) : i + 1 \in 1..Len(queue) BY <2>1
  <3>2. QED BY <1>1, <1>9, <2>1, <3>1, Zenon DEF WatchOwners
 <2>3. Head(queue) \notin revoked => Head(queue) = keep BY <1>1, <2>2, Zenon DEF WatchOwners
 <2>4. strayCalls' = {} BY <1>1, <1>9, <2>3 DEF WatchOwners
 <2>5. QED BY <1>1, <1>9, <2>2, <2>4, Zenon DEF WatchOwners, Known
<1>10. CASE rearm_fd_watch /\ inRun /\ keep = current
 <2>1. watch_local' = Armed(keep) /\ keep # NoReg BY <1>10, Zenon DEF RearmOf
 <2>2. QED BY <1>1, <1>3, <1>10, <2>1 DEF WatchOwners, Known
<1>11. CASE rearm_fd_watch /\ UNCHANGED <<watch_local, wcmds>> BY <1>1, <1>11 DEF WatchOwners, Known
<1>12. CASE data_arrives \/ run_starts_or_ends BY <1>1, <1>12 DEF data_arrives, WatchOwners, Known
<1>13. QED BY <1>4, <1>5, <1>6, <1>7, <1>8, <1>9, <1>10, <1>11, <1>12, WatchCases

\* After a stop no start is at the end, and the commands are in order for what comes next.
LEMMA StopInOrder ==
    ASSUME WatchTypes, WatchOwners, CommandOrder,
           NEW l, l \notin 1..watch_made, NEW m \in Nat, watch_made <= m, NEW v
    PROVE  LET d == StopCommands(watch_local)
           IN  CommandsInOrder(d, l, m, v) /\ ~LastStarts(d)
<1>1. /\ wcmds \in Seq(WatchCommands) /\ watch_made \in Nat
      /\ CommandsInOrder(wcmds, keep, watch_made, watch_local.reg)
  BY WatchAssumption DEF WatchTypes, CommandOrder
<1>2. CASE watch_local.reg = NoReg BY <1>1, <1>2, CommandsStopped, StopSends
<1>3. CASE watch_local.reg # NoReg
 <2>1. ~LastStarts(wcmds)
  <3>1. Len(wcmds) \in Nat /\ (wcmds # <<>> => Len(wcmds) \in 1..Len(wcmds))
    BY <1>1, LenProperties, EmptySeq
  <3>2. QED BY <1>1, <1>3, <3>1 DEF LastStarts, CommandsInOrder
 <2>2. CommandsInOrder(wcmds, l, m, v)
  <3>1. l \in 1..watch_made => l = keep BY Zenon
  <3>2. QED BY <1>1, <2>1, <3>1, CommandsForNext, Zenon
 <2>3. QED BY <1>3, <2>1, <2>2, StopSends
<1>4. QED BY <1>2, <1>3

\* Without a registration the commands do not end in a start.
LEMMA NothingStarts ==
    ASSUME WatchTypes, CommandOrder, keep = NoReg
    PROVE  ~LastStarts(wcmds)
<1>1. wcmds \in Seq(WatchCommands) /\ NoReg \notin 1..watch_made BY WatchAssumption DEF WatchTypes
<1>2. Len(wcmds) \in Nat /\ (wcmds # <<>> => Len(wcmds) \in 1..Len(wcmds))
  BY <1>1, LenProperties, EmptySeq
<1>3. QED BY <1>1, <1>2, Zenon DEF LastStarts, CommandsInOrder, CommandOrder

\* What adding a registration leaves.
LEMMA AddedCommands ==
    ASSUME WatchInv, add_reader
    PROVE  /\ CommandsInOrder(wcmds', keep', watch_made', watch_local'.reg)
           /\ inRun => ~LastStarts(wcmds') /\ watch_local' = Armed(keep')
           /\ ~inRun => LastStarts(wcmds') /\ watch_local' = WatchIdle
<1> DEFINE r == watch_made + 1
           c == IF keep = NoReg THEN wcmds ELSE StopCommands(watch_local)
<1>1. /\ WatchTypes /\ WatchOwners /\ CommandOrder /\ watch_made \in Nat /\ r \in Nat /\ r \in Regs
      /\ r \notin 1..watch_made /\ watch_made <= r
      /\ watch_made' = r /\ keep' = r /\ StartWatch(r, c)
  BY WatchAssumption DEF WatchInv, WatchTypes, Regs
<1>2. c \in Seq(WatchCommands) BY <1>1, StopSends DEF WatchTypes
<1>3. ASSUME NEW v PROVE CommandsInOrder(c, r, r, v) /\ ~LastStarts(c)
 <2>1. CASE keep = NoReg
  <3>1. ~LastStarts(wcmds) BY <1>1, <2>1, NothingStarts
  <3>2. CommandsInOrder(wcmds, r, r, v)
   <4>1. r \in 1..watch_made => r = keep BY <1>1, Zenon
   <4>2. /\ wcmds \in Seq(WatchCommands)
         /\ CommandsInOrder(wcmds, keep, watch_made, watch_local.reg)
     BY <1>1, Zenon DEF WatchTypes, CommandOrder
   <4> HIDE DEF r
   <4>3. QED BY <1>1, <3>1, <4>1, <4>2, CommandsForNext, Zenon
  <3>3. QED BY <2>1, <3>1, <3>2
 <2>2. CASE keep # NoReg BY <1>1, <2>2, StopInOrder
 <2>3. QED BY <2>1, <2>2
<1> HIDE DEF r, c
<1>4. CASE inRun
 <2>1. watch_local' = Armed(r) /\ wcmds' = c BY <1>1, <1>4
 <2>2. CommandsInOrder(c, r, r, watch_local'.reg) /\ ~LastStarts(c) BY <1>3, Zenon
 <2>3. QED BY <1>1, <1>4, <2>1, <2>2, Zenon
<1>5. CASE ~inRun
 <2>1. watch_local' = WatchIdle /\ wcmds' = Append(c, [op |-> "start", reg |-> r]) BY <1>1, <1>5
 <2>2. CommandsInOrder(wcmds', r, r, NoReg) /\ LastStarts(wcmds')
  <3>1. CommandsInOrder(c, r, r, NoReg) /\ ~LastStarts(c) /\ r <= r BY <1>1, <1>3
  <3>2. QED BY <1>1, <1>2, <2>1, <3>1, CommandsStarted
 <2>3. watch_local'.reg = NoReg BY <2>1 DEF WatchIdle
 <2>4. QED BY <1>1, <1>5, <2>1, <2>2, <2>3, Zenon
<1>6. QED BY <1>1, <1>4, <1>5, Zenon DEF r

\* When the current callback executes, nothing else is pending for it.
LEMMA ExecutingIsAlone ==
    ASSUME WatchInv, keep # NoReg, current = keep
    PROVE  /\ ~watch_local.waits /\ remote # Armed(keep) /\ ~LastStarts(wcmds)
           /\ CountIn(queue, {keep}) = 0 /\ ~waitFailed
<1> DEFINE n == CountIn(queue, {keep})
<1>1. n \in Nat BY CountType, Zenon DEF WatchInv, WatchTypes
<1> HIDE DEF n
<1>2. (IF watch_local.waits THEN 1 ELSE 0) + (IF remote = Armed(keep) THEN 1 ELSE 0)
        + (IF LastStarts(wcmds) THEN 1 ELSE 0) + n + 1 = IF waitFailed THEN 0 ELSE 1
  BY Zenon DEF n, WatchInv, PendingExact, PendingNow
<1>3. QED BY <1>1, <1>2 DEF n

LEMMA CommandOrderKept ==
    ASSUME WatchInv, WatchNext
    PROVE  CommandOrder'
<1>1. /\ WatchTypes /\ WatchOwners /\ CommandOrder /\ watch_made \in Nat
      /\ wcmds \in Seq(WatchCommands)
      /\ CommandsInOrder(wcmds, keep, watch_made, watch_local.reg)
  BY WatchAssumption DEF WatchInv, WatchTypes, CommandOrder
<1>2. /\ WatchIdle.waits = FALSE /\ \A r : Armed(r).reg = r /\ Armed(r).waits = TRUE
  BY DEF WatchIdle, Armed
<1>3. CASE add_reader
 <2>1. remote' # Armed(keep')
  <3>1. watch_made + 1 # NoReg /\ remote'.reg # watch_made + 1
    BY <1>1, <1>3, WatchAssumption DEF WatchOwners, WatchTypes, Known
  <3>2. QED BY <1>2, <1>3, <3>1, Zenon
 <2>2. QED BY <1>3, <2>1, AddedCommands, Zenon DEF CommandOrder
<1>4. CASE remove_reader
 <2>1. NoReg \notin 1..watch_made /\ watch_made <= watch_made
   BY <1>1, WatchAssumption DEF WatchTypes
 <2>2. CommandsInOrder(StopCommands(watch_local), NoReg, watch_made, watch_local'.reg)
   BY <1>1, <2>1, StopInOrder, Zenon
 <2>3. QED BY <1>4, <2>2 DEF remove_reader, CommandOrder
<1>5. CASE local_fires \/ remote_fires \/ watch_error
 <2>1. watch_local'.reg = watch_local.reg /\ (remote' = remote \/ ~remote'.waits)
   BY <1>1, <1>5 DEF WatchTypes, WatchTasks
 <2>2. QED BY <1>1, <1>2, <1>5, <2>1, Zenon DEF CommandOrder
<1>6. CASE dispatch_watch_command
 <2>1. /\ CommandsInOrder(Tail(wcmds), keep, watch_made, watch_local.reg)
       /\ Head(wcmds).op = "start" => (Head(wcmds).reg = keep <=> Tail(wcmds) = <<>>)
   BY <1>1, <1>6, CommandsTaken, Zenon
 <2>2. remote' = Armed(keep) => Tail(wcmds) = <<>> BY <1>2, <1>6, <2>1, Zenon
 <2>3. QED BY <1>6, <2>1, <2>2, Zenon DEF CommandOrder
<1>7. CASE rearm_fd_watch /\ inRun /\ keep = current
 <2>1. wcmds' = wcmds /\ keep # NoReg BY <1>7 DEF RearmOf
 <2>2. ~LastStarts(wcmds) /\ watch_made <= watch_made BY <1>1, <1>7, <2>1, ExecutingIsAlone
 <2>3. CommandsInOrder(wcmds, keep, watch_made, watch_local'.reg) BY <1>1, <2>2, CommandsForNext
 <2>4. QED BY <1>1, <1>7, <2>1, <2>3, Zenon DEF CommandOrder
<1>8. CASE execute_callback \/ data_arrives \/ run_starts_or_ends
           \/ (rearm_fd_watch /\ UNCHANGED <<watch_local, wcmds>>)
  BY <1>1, <1>8 DEF data_arrives, CommandOrder
<1>9. QED BY <1>3, <1>4, <1>5, <1>6, <1>7, <1>8, WatchCases, Zenon

\* The five places, counted: no step but a failed wait loses the current registration and
\* none doubles it.
LEMMA PendingKept ==
    ASSUME WatchInv, WatchNext
    PROVE  PendingExact'
<1> DEFINE n == CountIn(queue, {keep})
<1>1. /\ WatchTypes /\ WatchOwners /\ CommandOrder /\ PendingExact /\ watch_made \in Nat
      /\ queue \in Seq(Regs) /\ NoReg \notin 1..watch_made
  BY WatchAssumption DEF WatchInv, WatchTypes
<1>2. /\ WatchIdle.waits = FALSE /\ \A r : Armed(r).reg = r /\ Armed(r).waits = TRUE
  BY DEF WatchIdle, Armed
<1>3. n \in Nat BY <1>1, CountType
<1>4. CASE add_reader
 <2>1. /\ remote.reg # keep' /\ current # keep' /\ keep' # NoReg
       /\ \A i \in 1..Len(queue) : queue[i] # keep'
   BY <1>1, <1>4, WatchAssumption DEF WatchTypes, WatchOwners, Known
 <2>2. CountIn(queue, {keep'}) = 0 BY <1>1, <2>1, CountType
 <2>3. remote' # Armed(keep') /\ current' # keep' /\ CountIn(queue', {keep'}) = 0 /\ ~waitFailed'
   BY <1>2, <1>4, <2>1, <2>2, Zenon
 <2>4. inRun => watch_local'.waits /\ ~LastStarts(wcmds') BY <1>2, <1>4, AddedCommands, Zenon
 <2>5. ~inRun => ~watch_local'.waits /\ LastStarts(wcmds') BY <1>2, <1>4, AddedCommands, Zenon
 <2>6. QED BY <2>3, <2>4, <2>5 DEF PendingExact, PendingNow
<1>5. CASE remove_reader BY <1>5, Zenon DEF remove_reader, PendingExact
<1>6. CASE local_fires
 <2>1. watch_local.reg = keep /\ keep # NoReg /\ keep \in Regs /\ keep \notin revoked
   BY <1>1, <1>6, Zenon DEF WatchOwners, WatchTypes
 <2>2. queue' = Append(queue, keep) /\ ~watch_local'.waits /\ keep' = keep
   BY <1>1, <1>6, <2>1, Zenon DEF Fired, WatchTypes, WatchTasks
 <2>3. CountIn(queue', {keep'}) = n + 1 BY <1>1, <2>1, <2>2, CountAppend
 <2> HIDE DEF n
 <2>4. PendingNow = 1 + (IF remote = Armed(keep) THEN 1 ELSE 0)
                    + (IF LastStarts(wcmds) THEN 1 ELSE 0) + n + (IF current = keep THEN 1 ELSE 0)
   BY <1>6, Zenon DEF n, PendingNow
 <2>5. PendingNow' = 0 + (IF remote = Armed(keep) THEN 1 ELSE 0)
                    + (IF LastStarts(wcmds) THEN 1 ELSE 0) + (n + 1) + (IF current = keep THEN 1 ELSE 0)
   BY <1>6, <2>2, <2>3, Zenon DEF PendingNow
 <2>6. PendingNow' = PendingNow BY <1>3, <2>4, <2>5
 <2>7. QED BY <1>1, <1>6, <2>1, <2>6, Zenon DEF PendingExact
<1>7. CASE remote_fires /\ remote.reg = keep
 <2>1. keep # NoReg /\ keep \in Regs /\ keep \notin revoked
   BY <1>1, <1>7, Zenon DEF WatchOwners, WatchTypes
 <2>2. /\ queue' = Append(queue, keep) /\ remote = Armed(keep) /\ ~remote'.waits /\ keep' = keep
   BY <1>1, <1>7, <2>1, Zenon DEF Fired, WatchTypes, WatchTasks, Armed
 <2>3. CountIn(queue', {keep'}) = n + 1 /\ remote' # Armed(keep')
   BY <1>1, <1>2, <2>1, <2>2, CountAppend
 <2> HIDE DEF n
 <2>4. PendingNow = (IF watch_local.waits THEN 1 ELSE 0) + 1
                    + (IF LastStarts(wcmds) THEN 1 ELSE 0) + n + (IF current = keep THEN 1 ELSE 0)
   BY <2>2 DEF n, PendingNow
 <2>5. PendingNow' = (IF watch_local.waits THEN 1 ELSE 0) + 0
                    + (IF LastStarts(wcmds) THEN 1 ELSE 0) + (n + 1) + (IF current = keep THEN 1 ELSE 0)
   BY <1>7, <2>2, <2>3 DEF PendingNow
 <2>6. PendingNow' = PendingNow BY <1>3, <2>4, <2>5
 <2>7. QED BY <1>1, <1>7, <2>1, <2>6, Zenon DEF PendingExact
<1>8. CASE remote_fires /\ remote.reg # keep
 <2>1. remote.reg \in revoked BY <1>1, <1>8, Zenon DEF WatchOwners, Known
 <2>2. queue' = queue /\ remote # Armed(keep) /\ remote' # Armed(keep')
   BY <1>1, <1>2, <1>8, <2>1, Zenon DEF Fired, WatchTypes, WatchTasks
 <2>3. QED BY <1>1, <1>8, <2>2 DEF PendingExact, PendingNow
<1>9. CASE watch_error
 <2>1. CASE /\ watch_local.waits /\ ~watch_local'.waits /\ UNCHANGED remote
            /\ waitFailed' = (waitFailed \/ watch_local.reg = keep)
  <3>1. watch_local.reg = keep /\ keep # NoReg /\ waitFailed' BY <1>1, <2>1 DEF WatchOwners
  <3> HIDE DEF n
  <3>2. 1 + (IF remote = Armed(keep) THEN 1 ELSE 0)
          + (IF LastStarts(wcmds) THEN 1 ELSE 0) + n + (IF current = keep THEN 1 ELSE 0)
        = IF waitFailed THEN 0 ELSE 1
    BY <1>1, <2>1, <3>1 DEF n, PendingExact, PendingNow
  <3>3. PendingNow' = 0 + (IF remote = Armed(keep) THEN 1 ELSE 0)
          + (IF LastStarts(wcmds) THEN 1 ELSE 0) + n + (IF current = keep THEN 1 ELSE 0)
    BY <1>9, <2>1 DEF n, PendingNow
  <3>4. PendingNow' = 0 BY <1>3, <3>2, <3>3
  <3>5. QED BY <3>1, <3>4 DEF PendingExact
 <2>2. CASE /\ remote.waits /\ ~remote'.waits /\ UNCHANGED watch_local
            /\ waitFailed' = (waitFailed \/ remote.reg = keep)
  <3>1. CASE remote.reg = keep
   <4>1. remote = Armed(keep) /\ remote' # Armed(keep') /\ keep # NoReg /\ waitFailed'
     BY <1>1, <1>2, <2>2, <3>1 DEF WatchTypes, WatchTasks, WatchOwners, Armed
   <4> HIDE DEF n
   <4>2. (IF watch_local.waits THEN 1 ELSE 0) + 1
           + (IF LastStarts(wcmds) THEN 1 ELSE 0) + n + (IF current = keep THEN 1 ELSE 0)
         = IF waitFailed THEN 0 ELSE 1
     BY <1>1, <4>1, Zenon DEF n, PendingExact, PendingNow
   <4>3. PendingNow' = (IF watch_local.waits THEN 1 ELSE 0) + 0
           + (IF LastStarts(wcmds) THEN 1 ELSE 0) + n + (IF current = keep THEN 1 ELSE 0)
     BY <1>9, <2>2, <4>1 DEF n, PendingNow
   <4>4. PendingNow' = 0 BY <1>3, <4>2, <4>3
   <4>5. QED BY <4>1, <4>4 DEF PendingExact
  <3>2. CASE remote.reg # keep
   <4>1. remote # Armed(keep) /\ remote' # Armed(keep') /\ (waitFailed' <=> waitFailed)
     BY <1>1, <1>2, <1>9, <2>2, <3>2
   <4>2. PendingNow' = PendingNow BY <1>9, <2>2, <4>1 DEF PendingNow
   <4>3. QED BY <1>1, <1>9, <4>1, <4>2 DEF PendingExact
  <3>3. QED BY <3>1, <3>2
 <2>3. QED BY <1>1, <1>9, <2>1, <2>2 DEF WatchTypes, WatchTasks
<1>10. CASE dispatch_watch_command
 <2>1. /\ Tail(wcmds) = <<>> => (LastStarts(wcmds) <=> Head(wcmds).op = "start")
       /\ Tail(wcmds) # <<>> => (LastStarts(wcmds) <=> LastStarts(Tail(wcmds)))
       /\ Head(wcmds).op = "start" => (Head(wcmds).reg = keep <=> Tail(wcmds) = <<>>)
   BY <1>1, <1>10, CommandsTaken, Zenon DEF WatchTypes, CommandOrder
 <2>2. /\ keep # NoReg => remote # Armed(keep)
       /\ remote' = Armed(keep) <=> Head(wcmds).op = "start" /\ Tail(wcmds) = <<>>
   BY <1>1, <1>2, <1>10, <2>1 DEF CommandOrder
 <2>3. ~LastStarts(<<>>) BY Zenon DEF LastStarts
 <2>4. ASSUME keep # NoReg PROVE PendingNow' = PendingNow
  <3> HIDE DEF n
  <3>1. PendingNow = (IF watch_local.waits THEN 1 ELSE 0) + 0
                     + (IF LastStarts(wcmds) THEN 1 ELSE 0) + n + (IF current = keep THEN 1 ELSE 0)
    BY <2>2, <2>4 DEF n, PendingNow
  <3>2. PendingNow' = (IF watch_local.waits THEN 1 ELSE 0) + (IF remote' = Armed(keep) THEN 1 ELSE 0)
                     + (IF LastStarts(Tail(wcmds)) THEN 1 ELSE 0) + n + (IF current = keep THEN 1 ELSE 0)
    BY <1>10 DEF n, PendingNow
  <3>3. (IF remote' = Armed(keep) THEN 1 ELSE 0) + (IF LastStarts(Tail(wcmds)) THEN 1 ELSE 0)
        = IF LastStarts(wcmds) THEN 1 ELSE 0
   <4>1. CASE Tail(wcmds) = <<>>
    <5>1. ~LastStarts(Tail(wcmds)) /\ (remote' = Armed(keep) <=> LastStarts(wcmds))
      BY <2>1, <2>2, <2>3, <4>1
    <5>2. QED BY <5>1
   <4>2. CASE Tail(wcmds) # <<>>
    <5>1. remote' # Armed(keep) /\ (LastStarts(wcmds) <=> LastStarts(Tail(wcmds)))
      BY <2>1, <2>2, <4>2
    <5>2. QED BY <5>1
   <4>3. QED BY <4>1, <4>2
  <3>4. QED BY <1>3, <3>1, <3>2, <3>3
 <2>5. QED BY <1>1, <1>10, <2>4, Zenon DEF PendingExact
<1>11. CASE execute_callback
 <2>1. CountIn(queue, {keep}) = CountIn(Tail(queue), {keep}) + IF Head(queue) \in {keep} THEN 1 ELSE 0
   BY <1>1, <1>11, CountTail
 <2>2. Tail(queue) \in Seq(Regs) BY <1>1, <1>11, TailElems
 <2> DEFINE m == CountIn(Tail(queue), {keep})
 <2>3. m \in Nat BY <2>2, CountType
 <2>4. n = m + IF Head(queue) = keep THEN 1 ELSE 0 BY <2>1
 <2> HIDE DEF n, m
 <2>5. ASSUME keep # NoReg PROVE PendingNow' = PendingNow
  <3>1. PendingNow = (IF watch_local.waits THEN 1 ELSE 0) + (IF remote = Armed(keep) THEN 1 ELSE 0)
                     + (IF LastStarts(wcmds) THEN 1 ELSE 0) + n + 0
    BY <1>11, <2>5 DEF n, PendingNow
  <3>2. PendingNow' = (IF watch_local.waits THEN 1 ELSE 0) + (IF remote = Armed(keep) THEN 1 ELSE 0)
                     + (IF LastStarts(wcmds) THEN 1 ELSE 0) + m + (IF Head(queue) = keep THEN 1 ELSE 0)
    BY <1>11 DEF m, PendingNow
  <3>3. QED BY <1>3, <2>3, <2>4, <3>1, <3>2
 <2>6. QED BY <1>1, <1>11, <2>5 DEF PendingExact
<1>12. CASE rearm_fd_watch /\ inRun /\ keep = current
 <2>1. keep # NoReg /\ watch_local' = Armed(keep) /\ wcmds' = wcmds BY <1>12 DEF RearmOf
 <2>2. /\ ~watch_local.waits /\ remote # Armed(keep) /\ ~LastStarts(wcmds)
       /\ CountIn(queue, {keep}) = 0 /\ ~waitFailed
   BY <1>12, <2>1, ExecutingIsAlone, Zenon
 <2>3. watch_local'.waits BY <1>2, <2>1, Zenon
 <2>4. /\ remote' = remote /\ wcmds' = wcmds /\ queue' = queue /\ keep' = keep
       /\ current' # keep /\ ~waitFailed'
   BY <1>12, <2>1, <2>2, Zenon
 <2>5. QED BY <2>2, <2>3, <2>4 DEF PendingExact, PendingNow
<1>13. CASE rearm_fd_watch /\ UNCHANGED <<watch_local, wcmds>> /\ keep # current
  BY <1>1, <1>13 DEF PendingExact, PendingNow
<1>14. CASE data_arrives \/ run_starts_or_ends
 <2>1. UNCHANGED <<watch_local, remote, wcmds, queue, current, keep, waitFailed>>
   BY <1>14 DEF data_arrives
 <2>2. QED BY <1>1, <2>1 DEF PendingExact, PendingNow
<1> HIDE DEF add_reader, local_fires, remote_fires, watch_error, dispatch_watch_command,
     execute_callback, rearm_fd_watch, run_starts_or_ends
<1>15. QED BY <1>4, <1>5, <1>6, <1>7, <1>8, <1>9, <1>10, <1>11, <1>12, <1>13, <1>14, WatchCases

LEMMA WatchInitially == WatchInit => WatchInv
<1> SUFFICES ASSUME WatchInit PROVE WatchInv OBVIOUS
<1>1. WatchTypes
 <2>1. WatchIdle \in WatchTasks /\ 0 \in 0..MaxRegs BY WatchAssumption DEF WatchIdle, WatchTasks
 <2>2. <<>> \in Seq(WatchCommands) /\ <<>> \in Seq(Regs) BY EmptySeq
 <2>3. QED BY <2>1, <2>2 DEF WatchInit, WatchTypes
<1>2. WatchOwners
 <2>1. WatchIdle.reg = NoReg /\ WatchIdle.waits = FALSE /\ 1..0 = {} BY DEF WatchIdle
 <2>2. QED BY <2>1 DEF WatchInit, WatchOwners, Known
<1>3. CommandOrder BY DEF WatchInit, CommandOrder, CommandsInOrder
<1>4. PendingExact BY DEF WatchInit, PendingExact
<1>5. QED BY <1>1, <1>2, <1>3, <1>4 DEF WatchInv

LEMMA WatchKept ==
    ASSUME WatchInv, [WatchNext]_watchVars
    PROVE  WatchInv'
<1>1. CASE WatchNext
  BY <1>1, WatchTypesKept, WatchOwnersKept, CommandOrderKept, PendingKept DEF WatchInv
<1>2. CASE UNCHANGED watchVars
  BY <1>2 DEF watchVars, WatchInv, WatchTypes, WatchOwners, Known, CommandOrder, PendingExact,
    PendingNow
<1>3. QED BY <1>1, <1>2

\* The places that are counted are the ones the property counts.
LEMMA WatchIsSafe == WatchInv => WatchSafe
<1> SUFFICES ASSUME WatchInv PROVE WatchSafe OBVIOUS
<1>1. /\ WatchTypes /\ WatchOwners /\ CommandOrder /\ PendingExact
      /\ wcmds \in Seq(WatchCommands) /\ CommandsInOrder(wcmds, keep, watch_made, watch_local.reg)
  BY DEF WatchInv, WatchTypes, CommandOrder
<1>2. RemovedStaysRemoved BY <1>1 DEF WatchOwners, RemovedStaysRemoved
<1>3. ASSUME keep # NoReg, ~waitFailed PROVE Pending(keep) = 1
  <2> DEFINE E == {i \in 1..Len(wcmds) : wcmds[i] = [op |-> "start", reg |-> keep]
                                         /\ \A j \in i+1..Len(wcmds) : wcmds[j].reg # NoReg}
 <2>1. Len(wcmds) \in Nat /\ (wcmds # <<>> <=> Len(wcmds) # 0) BY <1>1, LenProperties, EmptySeq
 <2>2. \A i \in 1..Len(wcmds) : wcmds[i] \in WatchCommands BY <1>1, ElementOfSeq
 <2>3. \A i \in E : i = Len(wcmds)
  <3>1. SUFFICES ASSUME NEW i \in E, i # Len(wcmds) PROVE FALSE OBVIOUS
  <3>2. wcmds[i].op = "start" /\ i < Len(wcmds) /\ i + 1 \in i+1..Len(wcmds) /\ i + 1 \in 1..Len(wcmds)
    BY <2>1, <3>1
  <3>3. wcmds[i + 1].op = "stop" BY <1>1, <3>2 DEF CommandsInOrder
  <3>4. wcmds[i + 1].reg = NoReg BY <1>1, <3>2, <3>3 DEF CommandsInOrder
  <3>5. QED BY <3>1, <3>2, <3>4
 <2>4. ASSUME LastStarts(wcmds) PROVE E = {Len(wcmds)}
  <3>1. Len(wcmds) \in 1..Len(wcmds) /\ wcmds[Len(wcmds)].op = "start"
    BY <2>1, <2>4 DEF LastStarts
  <3>2. wcmds[Len(wcmds)].reg = keep BY <1>1, <3>1 DEF CommandsInOrder
  <3>3. wcmds[Len(wcmds)] = [op |-> "start", reg |-> keep] BY <2>2, <3>1, <3>2 DEF WatchCommands
  <3>4. Len(wcmds) \in E BY <2>1, <3>1, <3>3
  <3>5. QED BY <2>3, <3>4
 <2>5. ASSUME ~LastStarts(wcmds) PROVE E = {} BY <2>1, <2>3, <2>5 DEF LastStarts
 <2>6. Cardinality(E) = IF LastStarts(wcmds) THEN 1 ELSE 0 BY <2>4, <2>5, FS_EmptySet, FS_Singleton
 <2>7. watch_local = Armed(keep) <=> watch_local.waits
   BY <1>1 DEF WatchTypes, WatchTasks, WatchOwners, Armed
 <2>8. remote = Armed(keep) /\ wcmds = <<>> <=> remote = Armed(keep) BY <1>1, <1>3 DEF CommandOrder
 <2>9. {i \in 1..Len(queue) : queue[i] = keep} = Spots(queue, {keep}) BY DEF Spots
 <2> HIDE DEF E
 <2>10. Pending(keep) = (IF watch_local = Armed(keep) THEN 1 ELSE 0)
          + (IF remote = Armed(keep) /\ wcmds = <<>> THEN 1 ELSE 0)
          + Cardinality(E) + CountIn(queue, {keep}) + (IF current = keep THEN 1 ELSE 0)
   BY <2>9 DEF Pending, E, CountIn
 <2>11. Pending(keep) = PendingNow BY <2>6, <2>7, <2>8, <2>10 DEF PendingNow
 <2>12. QED BY <1>1, <1>3, <2>11 DEF PendingExact
<1>4. QED BY <1>2, <1>3 DEF WatchSafe, ArmedOnce

-----------------------------------------------------------------------------
(* Datagrams.  The order of the calls is kept by the queue and the wire    *)
(* together, and a loss is only scheduled once the queue holds nothing of  *)
(* what was accepted before the close.                                     *)

DatagramTypes ==
    /\ dbuf \in Seq(Nat) /\ wire \in Seq(Nat) /\ sentTo \in Nat /\ closedAt \in Nat
    /\ {dpaused, dclosing, lostSoon, lostOnDone, made, errorSince, aborted, flushRaised} \subseteq BOOLEAN
    /\ connLost \in {0, 1}
    /\ writerTask \in {"none", "start", "run", "blocked", "cancelled", "dead"}
    /\ writerTask \in {"cancelled", "dead"} => aborted
    /\ readerTask \in {"start", "waiting", "cancelled", "done"}

\* What is queued is in the order of the calls, and after what was sent.
QueueInOrder ==
    /\ \A i, j \in 1..Len(dbuf) : i < j => dbuf[i] < dbuf[j]
    /\ \A i \in 1..Len(wire), j \in 1..Len(dbuf) : wire[i] < dbuf[j]

\* Once connection_lost is scheduled nothing accepted before the close is queued any more.
LossIsComing == lostSoon \/ lostOnDone \/ connLost = 1
ClosedBeforeLoss ==
    /\ dclosing => made /\ closedAt <= sentTo
    /\ LossIsComing => dclosing /\ \A k \in 1..closedAt : k \notin Range(dbuf)
    /\ connLost = 1 => readerTask = "done"

DatagramInv ==
    /\ DatagramTypes /\ WireInOrder /\ QueueInOrder /\ QueueHasWriter /\ PauseFollowsMarks
    /\ ClosedBeforeLoss

DescriptorsInv == (part = "watch" => WatchInv) /\ (part = "datagram" => DatagramInv)

LEMMA RangeElems ==
    ASSUME NEW T, NEW s \in Seq(T)
    PROVE  Range(s) = Elems(s)
<1>1. DOMAIN s = 1..Len(s) BY LenProperties
<1>2. QED BY <1>1 DEF Range, Elems

LEMMA DatagramTypesKept ==
    ASSUME DatagramInv, DatagramNext
    PROVE  DatagramTypes'
<1>1. DatagramTypes BY DEF DatagramInv
<1>2. \A s \in Seq(Nat), x \in Nat : Append(s, x) \in Seq(Nat) BY AppendProperties
<1>3. dbuf # <<>> => Tail(dbuf) \in Seq(Nat) /\ Head(dbuf) \in Nat
  BY <1>1, TailElems DEF DatagramTypes
<1>4. <<>> \in Seq(Nat) BY EmptySeq
<1>5. CallConnectionLost => connLost' \in {0, 1} /\ lostOnDone' \in BOOLEAN
  BY <1>1 DEF CallConnectionLost, DatagramTypes
<1>f. FlushCallback => /\ writerTask' \in {"none", "run"} /\ flushRaised' \in BOOLEAN
                       /\ connLost' \in {0, 1} /\ lostOnDone' \in BOOLEAN
  BY <1>1, <1>5 DEF FlushCallback, Finally, DatagramTypes
<1>6. CASE sendto
 <2>1. dbuf' \in Seq(Nat) /\ wire' \in Seq(Nat) /\ sentTo' \in Nat
  <3>1. dbuf \in Seq(Nat) /\ wire \in Seq(Nat) /\ sentTo \in Nat /\ sentTo + 1 \in Nat
    BY <1>1 DEF DatagramTypes
  <3>2. Append(dbuf, sentTo + 1) \in Seq(Nat) /\ Append(wire, sentTo + 1) \in Seq(Nat)
    BY <1>2, <3>1
  <3>3. /\ dbuf' = dbuf \/ dbuf' = Append(dbuf, sentTo + 1)
        /\ wire' = wire \/ wire' = Append(wire, sentTo + 1)
        /\ sentTo' = sentTo + 1
    BY <1>6 DEF sendto
  <3>4. QED BY <3>1, <3>2, <3>3
 <2>2. dpaused' \in BOOLEAN /\ errorSince' \in BOOLEAN
   BY <1>1, <1>6 DEF sendto, DatagramTypes, PausedAfter
 <2>3. /\ writerTask' \in {"none", "start", "run", "blocked", "cancelled", "dead"}
       /\ writerTask' \in {"cancelled", "dead"} => aborted'
   BY <1>1, <1>6 DEF sendto, DatagramTypes
 <2>4. QED BY <1>1, <1>6, <2>1, <2>2, <2>3 DEF sendto, DatagramTypes
<1>7. CASE flush_one
 <2>1. dbuf' \in Seq(Nat) /\ wire' \in Seq(Nat)
   BY <1>1, <1>2, <1>3, <1>7 DEF flush_one, DatagramTypes
 <2>2. dpaused' \in BOOLEAN /\ errorSince' \in BOOLEAN
   BY <1>1, <1>7 DEF flush_one, DatagramTypes, PausedStill
 <2>3. /\ writerTask' \in {"none", "run", "blocked"} /\ flushRaised' \in BOOLEAN
       /\ connLost' \in {0, 1} /\ lostOnDone' \in BOOLEAN
   BY <1>1, <1>5, <1>7, <1>f DEF flush_one, DatagramTypes
 <2>4. QED BY <1>1, <1>7, <2>1, <2>2, <2>3 DEF flush_one, DatagramTypes
<1>8. CASE flush_ends \/ datagram_lost
 <2>1. connLost' \in {0, 1} /\ lostOnDone' \in BOOLEAN
   BY <1>1, <1>5, <1>8 DEF flush_ends, Finally, datagram_lost, DatagramTypes
 <2>2. QED BY <1>1, <1>8, <2>1 DEF flush_ends, Finally, datagram_lost, DatagramTypes
<1>9. CASE abort_datagram
 <2>1. connLost' \in {0, 1} /\ lostOnDone' \in BOOLEAN BY <1>5, <1>9 DEF abort_datagram
 <2>2. writerTask' \in {"none", "cancelled", "dead"}
   BY <1>1, <1>9 DEF abort_datagram, WriterCancelled, DatagramTypes
 <2>3. QED BY <1>1, <1>4, <1>9, <2>1, <2>2 DEF abort_datagram, DatagramTypes, ReaderCancelled
<1>10. CASE datagram_made \/ socket_writable \/ datagram_arrives \/ read_loop
  BY <1>1, <1>10 DEF datagram_made, socket_writable, datagram_arrives, read_loop, DatagramTypes
<1>11. CASE reader_ends \/ close_datagram
  BY <1>1, <1>11 DEF reader_ends, close_datagram, DatagramTypes, ReaderCancelled
<1>12. QED BY <1>6, <1>7, <1>8, <1>9, <1>10, <1>11 DEF DatagramNext, FlushTask

\* What a step does to the datagrams: one is sent, lost or queued on being handed over; the
\* first of the queue is sent or lost; the queue is dropped; or nothing.
DatagramMoves ==
    \/ /\ dbuf = <<>> /\ wire' = Append(wire, sentTo + 1) /\ sentTo' = sentTo + 1
       /\ UNCHANGED <<dbuf, dropped>>
    \/ /\ dbuf = <<>> /\ dropped' = dropped \union {sentTo + 1} /\ sentTo' = sentTo + 1
       /\ UNCHANGED <<dbuf, wire>>
    \/ /\ dbuf' = Append(dbuf, sentTo + 1) /\ sentTo' = sentTo + 1 /\ UNCHANGED <<wire, dropped>>
    \/ /\ dbuf # <<>> /\ wire' = Append(wire, Head(dbuf)) /\ dbuf' = Tail(dbuf)
       /\ UNCHANGED <<sentTo, dropped>>
    \/ /\ dbuf # <<>> /\ dropped' = dropped \union {Head(dbuf)} /\ dbuf' = Tail(dbuf)
       /\ UNCHANGED <<sentTo, wire>>
    \/ /\ dbuf' = <<>> /\ dropped' = dropped \union Range(dbuf) /\ UNCHANGED <<sentTo, wire>>
    \/ UNCHANGED <<dbuf, wire, dropped, sentTo>>

LEMMA DatagramMovesAre == DatagramNext => DatagramMoves
<1>1. sendto => DatagramMoves BY DEF sendto, SendsDirectly, DatagramMoves
<1>2. flush_one => DatagramMoves BY DEF flush_one, DatagramMoves
<1>3. abort_datagram => DatagramMoves BY DEF abort_datagram, DatagramMoves
<1>4. QED
  BY <1>1, <1>2, <1>3 DEF DatagramNext, FlushTask, DatagramMoves, flush_ends, datagram_made,
    socket_writable, datagram_arrives, read_loop, reader_ends, close_datagram, datagram_lost

\* A sequence of numbers that grows.
Grows(s) == \A i, j \in 1..Len(s) : i < j => s[i] < s[j]

LEMMA GrowsAppend ==
    ASSUME NEW s \in Seq(Nat), Grows(s), NEW x \in Nat, \A y \in Elems(s) : y < x
    PROVE  Grows(Append(s, x))
<1>1. /\ Len(Append(s, x)) = Len(s) + 1 /\ Len(s) \in Nat
      /\ \A i \in 1..Len(s) : Append(s, x)[i] = s[i]
      /\ Append(s, x)[Len(s) + 1] = x
  BY AppendProperties, LenProperties
<1>2. \A i \in 1..Len(s) : s[i] < x BY DEF Elems
<1>3. ASSUME NEW i \in 1..Len(Append(s, x)), NEW j \in 1..Len(Append(s, x)), i < j
      PROVE  Append(s, x)[i] < Append(s, x)[j]
 <2>1. i \in 1..Len(s) /\ (j \in 1..Len(s) \/ j = Len(s) + 1) BY <1>1, <1>3
 <2>2. QED BY <1>1, <1>2, <1>3, <2>1 DEF Grows
<1>4. QED BY <1>3 DEF Grows

LEMMA GrowsTail ==
    ASSUME NEW s \in Seq(Nat), s # <<>>, Grows(s)
    PROVE  Grows(Tail(s)) /\ \A y \in Elems(Tail(s)) : Head(s) < y
<1>1. /\ Head(s) = s[1] /\ Len(s) \in Nat \ {0} /\ Len(Tail(s)) = Len(s) - 1
      /\ \A i \in 1..(Len(s) - 1) : Tail(s)[i] = s[i + 1]
  BY TailElems
<1>2. \A i \in 1..Len(Tail(s)) : i + 1 \in 1..Len(s) /\ 1 < i + 1 /\ Tail(s)[i] = s[i + 1] BY <1>1
<1>3. \A i \in 1..Len(Tail(s)) : Head(s) < Tail(s)[i]
 <2>1. 1 \in 1..Len(s) BY <1>1
 <2>2. QED BY <1>1, <1>2, <2>1 DEF Grows
<1>4. Grows(Tail(s)) BY <1>1, <1>2 DEF Grows
<1>5. QED BY <1>3, <1>4 DEF Elems

LEMMA OrderKept ==
    ASSUME DatagramInv, DatagramNext
    PROVE  (WireInOrder /\ QueueInOrder)'
<1> DEFINE W == Elems(wire)
           Q == Elems(dbuf)
<1>1. /\ dbuf \in Seq(Nat) /\ wire \in Seq(Nat) /\ sentTo \in Nat
      /\ Range(wire) = W /\ Range(dbuf) = Q
      /\ Grows(wire) /\ Grows(dbuf)
  BY RangeElems DEF DatagramInv, DatagramTypes, WireInOrder, QueueInOrder, Grows
<1>2. /\ W \union Q \union dropped = 1..sentTo
      /\ W \cap (Q \union dropped) = {} /\ Q \cap dropped = {}
      /\ \A x \in W, y \in Q : x < y
  BY <1>1 DEF DatagramInv, WireInOrder, QueueInOrder, Elems
<1>3. dbuf' \in Seq(Nat) /\ wire' \in Seq(Nat) BY DatagramTypesKept DEF DatagramTypes
<1>4. SUFFICES /\ Grows(wire') /\ Grows(dbuf')
               /\ Elems(wire') \union Elems(dbuf') \union dropped' = 1..sentTo'
               /\ Elems(wire') \cap (Elems(dbuf') \union dropped') = {}
               /\ Elems(dbuf') \cap dropped' = {}
               /\ \A x \in Elems(wire'), y \in Elems(dbuf') : x < y
 <2>1. Range(wire') = Elems(wire') /\ Range(dbuf') = Elems(dbuf') BY <1>3, RangeElems, Zenon
 <2>2. WireInOrder' BY <1>4, <2>1, Zenon DEF WireInOrder, Grows
 <2>3. QueueInOrder' BY <1>4 DEF QueueInOrder, Grows, Elems
 <2>4. QED BY <2>2, <2>3, Zenon
<1> DEFINE m == sentTo + 1
<1>5. m \in Nat /\ 1..m = 1..sentTo \union {m} /\ \A x \in 1..sentTo : x < m BY <1>1
<1>6. dbuf = <<>> => Q = {} BY DEF Elems
<1>7. Elems(<<>>) = {} /\ Grows(<<>>) BY DEF Elems, Grows
<1>8. /\ Elems(Append(wire, m)) = W \union {m} /\ Elems(Append(dbuf, m)) = Q \union {m}
      /\ Grows(Append(wire, m)) /\ Grows(Append(dbuf, m))
 <2>1. Elems(Append(wire, m)) = W \union {m} /\ Elems(Append(dbuf, m)) = Q \union {m}
   BY <1>1, <1>5, AppendElems
 <2>2. (\A x \in W : x < m) /\ (\A x \in Q : x < m) BY <1>2, <1>5
 <2> HIDE DEF m
 <2>3. Grows(Append(wire, m)) /\ Grows(Append(dbuf, m)) BY <1>1, <1>5, <2>2, GrowsAppend
 <2>4. QED BY <2>1, <2>3, Zenon
<1>9. ASSUME dbuf # <<>>
      PROVE  /\ Head(dbuf) \in Nat /\ Q = Elems(Tail(dbuf)) \union {Head(dbuf)}
             /\ Grows(Tail(dbuf)) /\ \A y \in Elems(Tail(dbuf)) : Head(dbuf) < y /\ y # Head(dbuf)
             /\ Elems(Append(wire, Head(dbuf))) = W \union {Head(dbuf)}
             /\ Grows(Append(wire, Head(dbuf)))
 <2>1. Head(dbuf) \in Nat /\ Tail(dbuf) \in Seq(Nat) /\ Q = Elems(Tail(dbuf)) \union {Head(dbuf)}
   BY <1>1, <1>9, TailElems, Zenon
 <2>2. Grows(Tail(dbuf)) /\ \A y \in Elems(Tail(dbuf)) : Head(dbuf) < y
   BY <1>1, <1>9, GrowsTail, Zenon
 <2>3. \A y \in Elems(Tail(dbuf)) : y \in Nat BY <2>1, ElementOfSeq DEF Elems
 <2>4. Elems(Append(wire, Head(dbuf))) = W \union {Head(dbuf)} BY <1>1, <2>1, AppendElems
 <2>5. Grows(Append(wire, Head(dbuf)))
  <3>1. \A x \in W : x < Head(dbuf) BY <1>2, <2>1, Zenon
  <3>2. QED BY <1>1, <2>1, <3>1, GrowsAppend, Zenon
 <2>6. QED BY <2>1, <2>2, <2>3, <2>4, <2>5
<1> HIDE DEF W, Q, m
<1>10. CASE dbuf = <<>> /\ wire' = Append(wire, m) /\ sentTo' = m /\ UNCHANGED <<dbuf, dropped>>
 <2>1. Elems(wire') = W \union {m} /\ Elems(dbuf') = {} /\ Q = {} /\ dropped' = dropped
   BY <1>6, <1>7, <1>8, <1>10, Zenon
 <2>2. m \notin dropped BY <1>2, <1>5
 <2>3. QED BY <1>1, <1>2, <1>5, <1>7, <1>8, <1>10, <2>1, <2>2
<1>11. CASE dbuf = <<>> /\ dropped' = dropped \union {m} /\ sentTo' = m /\ UNCHANGED <<dbuf, wire>>
 <2>1. Elems(wire') = W /\ Elems(dbuf') = {} /\ Q = {} BY <1>6, <1>7, <1>11, Zenon DEF W
 <2>2. m \notin W BY <1>2, <1>5
 <2>3. QED BY <1>1, <1>2, <1>5, <1>7, <1>11, <2>1, <2>2
<1>12. CASE dbuf' = Append(dbuf, m) /\ sentTo' = m /\ UNCHANGED <<wire, dropped>>
 <2>1. Elems(wire') = W /\ Elems(dbuf') = Q \union {m} BY <1>8, <1>12 DEF W
 <2>2. m \notin W /\ m \notin dropped /\ \A x \in W : x < m BY <1>2, <1>5
 <2>3. QED BY <1>1, <1>2, <1>5, <1>8, <1>12, <2>1, <2>2
<1>13. CASE dbuf # <<>> /\ wire' = Append(wire, Head(dbuf)) /\ dbuf' = Tail(dbuf)
            /\ UNCHANGED <<sentTo, dropped>>
 <2>1. Elems(wire') = W \union {Head(dbuf)} /\ Q = Elems(dbuf') \union {Head(dbuf)}
       /\ Head(dbuf) \notin Elems(dbuf')
   BY <1>9, <1>13, Zenon
 <2>2. Elems(wire') \union Elems(dbuf') \union dropped' = 1..sentTo' BY <1>2, <1>13, <2>1, Zenon
 <2>3. Elems(wire') \cap (Elems(dbuf') \union dropped') = {} /\ Elems(dbuf') \cap dropped' = {}
   BY <1>2, <1>13, <2>1
 <2>4. \A x \in Elems(wire'), y \in Elems(dbuf') : x < y BY <1>2, <1>9, <1>13, <2>1
 <2>5. QED BY <1>9, <1>13, <2>2, <2>3, <2>4, Zenon
<1>14. CASE dbuf # <<>> /\ dropped' = dropped \union {Head(dbuf)} /\ dbuf' = Tail(dbuf)
            /\ UNCHANGED <<sentTo, wire>>
  BY <1>1, <1>2, <1>9, <1>14 DEF W
<1>15. CASE dbuf' = <<>> /\ dropped' = dropped \union Range(dbuf) /\ UNCHANGED <<sentTo, wire>>
  BY <1>1, <1>2, <1>7, <1>15, Zenon DEF W
<1>16. CASE UNCHANGED <<dbuf, wire, dropped, sentTo>> BY <1>1, <1>2, <1>16, Zenon DEF W, Q
<1>17. QED BY <1>10, <1>11, <1>12, <1>13, <1>14, <1>15, <1>16, DatagramMovesAre DEF DatagramMoves, m

LEMMA WriterAndMarksKept ==
    ASSUME DatagramInv, DatagramNext
    PROVE  (QueueHasWriter /\ PauseFollowsMarks)'
<1> DEFINE n == Len(dbuf)
<1>1. /\ dbuf \in Seq(Nat) /\ n \in Nat /\ (dbuf = <<>> <=> n = 0)
      /\ HighWater \in Nat /\ LowWater \in Nat /\ LowWater <= HighWater
  BY LenProperties, EmptySeq, DatagramAssumption, Zenon DEF DatagramInv, DatagramTypes
<1>2. /\ n > HighWater => dpaused
      /\ dpaused /\ n <= LowWater => errorSince
      /\ dbuf # <<>> => writerTask \in {"start", "run", "blocked"} \/ aborted \/ flushRaised
      /\ writerTask \in {"none", "start", "run", "blocked", "cancelled", "dead"}
      /\ writerTask \in {"cancelled", "dead"} => aborted
  BY DEF DatagramInv, DatagramTypes, PauseFollowsMarks, QueueHasWriter
<1>3. dbuf # <<>> => Len(Tail(dbuf)) = n - 1 BY <1>1, TailElems, Zenon
<1>4. Len(Append(dbuf, sentTo + 1)) = n + 1 BY <1>1, AppendProperties DEF DatagramInv, DatagramTypes
<1>5. CASE sendto
 <2>0. aborted' = aborted /\ flushRaised' = flushRaised BY <1>5 DEF sendto
 <2>1. CASE UNCHANGED <<dbuf, dpaused, writerTask, errorSince>>
   BY <1>2, <2>0, <2>1, Zenon DEF QueueHasWriter, PauseFollowsMarks
 <2>2. CASE /\ writerTask' = IF SendsDirectly /\ writerTask = "none" THEN "start" ELSE writerTask
            /\ dbuf' = Append(dbuf, sentTo + 1)
            /\ dpaused' = PausedAfter(Len(dbuf) + 1)
            /\ errorSince' = (errorSince /\ dpaused)
  <3>1. QueueHasWriter' BY <1>2, <2>0, <2>2 DEF QueueHasWriter, SendsDirectly
  <3>2. /\ Len(dbuf') = n + 1 /\ (dpaused' <=> dpaused \/ n + 1 > HighWater)
        /\ (errorSince' <=> errorSince /\ dpaused)
    BY <1>4, <2>2 DEF PausedAfter
  <3> HIDE DEF n
  <3>3. n + 1 > HighWater => dpaused' BY <3>2
  <3>4. dpaused' /\ n + 1 <= LowWater => errorSince' BY <1>1, <1>2, <3>2
  <3>5. QED BY <3>1, <3>2, <3>3, <3>4, Zenon DEF PauseFollowsMarks
 <2>3. QED BY <1>5, <2>1, <2>2, Zenon DEF sendto
<1>6. CASE flush_one
 <2>0. QueueHasWriter' BY <1>6 DEF flush_one, FlushCallback, QueueHasWriter
 <2>1. CASE UNCHANGED <<dbuf, dpaused, errorSince>> /\ writerTask' = "blocked"
   BY <1>2, <2>0, <2>1 DEF PauseFollowsMarks
 <2>2. CASE dbuf' = Tail(dbuf) /\ dpaused' = PausedStill(Len(dbuf) - 1) /\ UNCHANGED errorSince
  <3>1. Len(dbuf') = n - 1 /\ (dpaused' <=> dpaused /\ n - 1 > LowWater)
    BY <1>3, <1>6, <2>2 DEF PausedStill, flush_one
  <3> HIDE DEF n
  <3>2. QED BY <1>1, <1>2, <2>0, <2>2, <3>1 DEF PauseFollowsMarks
 <2>3. CASE dbuf' = Tail(dbuf) /\ UNCHANGED dpaused /\ errorSince' = TRUE
  <3>1. Len(dbuf') = n - 1 BY <1>3, <1>6, <2>3 DEF flush_one
  <3> HIDE DEF n
  <3>2. QED BY <1>1, <1>2, <2>0, <2>3, <3>1 DEF PauseFollowsMarks
 <2>4. QED BY <1>6, <2>1, <2>2, <2>3 DEF flush_one
<1>7. CASE abort_datagram
 <2>1. dbuf' = <<>> /\ Len(dbuf') = 0 /\ errorSince' BY <1>7, EmptySeq, Zenon DEF abort_datagram
 <2>2. QED BY <1>1, <2>1 DEF QueueHasWriter, PauseFollowsMarks
<1>8. CASE flush_ends BY <1>2, <1>8 DEF flush_ends, Finally, QueueHasWriter, PauseFollowsMarks
<1>9. CASE socket_writable BY <1>2, <1>9 DEF socket_writable, QueueHasWriter, PauseFollowsMarks
<1>10. CASE datagram_made \/ datagram_arrives \/ read_loop \/ reader_ends \/ close_datagram
            \/ datagram_lost
 <2>1. UNCHANGED <<dbuf, dpaused, writerTask, errorSince, aborted, flushRaised>>
   BY <1>10 DEF datagram_made, datagram_arrives, read_loop, reader_ends, close_datagram,
     datagram_lost
 <2>2. QED BY <1>2, <2>1, Zenon DEF QueueHasWriter, PauseFollowsMarks
<1>11. QED BY <1>5, <1>6, <1>7, <1>8, <1>9, <1>10, Zenon DEF DatagramNext, FlushTask

LEMMA ClosedBeforeLossKept ==
    ASSUME DatagramInv, DatagramNext
    PROVE  ClosedBeforeLoss'
<1> DEFINE Q == Elems(dbuf)
<1>1. /\ DatagramTypes /\ ClosedBeforeLoss /\ dbuf \in Seq(Nat) /\ sentTo \in Nat /\ closedAt \in Nat
      /\ Range(dbuf) = Q
  BY RangeElems DEF DatagramInv, DatagramTypes
<1>2. /\ dclosing => made /\ closedAt <= sentTo
      /\ LossIsComing => dclosing /\ \A k \in 1..closedAt : k \notin Q
      /\ connLost = 1 => readerTask = "done"
  BY <1>1 DEF ClosedBeforeLoss
<1>3. Range(dbuf') = Elems(dbuf') BY DatagramTypesKept, RangeElems DEF DatagramTypes
<1>4. \* The call itself: nothing accepted before the close may be queued.
      ASSUME CallConnectionLost, dclosing, LossIsComing \/ dbuf = <<>>
      PROVE  /\ connLost' = 1 => readerTask = "done"
             /\ \A k \in 1..closedAt : k \notin Q
 <2>1. connLost' = 1 => readerTask = "done"
   BY <1>1, <1>2, <1>4 DEF CallConnectionLost, DatagramTypes
 <2>2. dbuf = <<>> => Q = {} BY DEF Elems
 <2>3. QED BY <1>2, <1>4, <2>1, <2>2
<1>5. CASE sendto
 <2>1. /\ UNCHANGED <<dclosing, connLost, readerTask, lostSoon, lostOnDone, made, closedAt>>
       /\ sentTo' = sentTo + 1 /\ (dbuf' = dbuf \/ dbuf' = Append(dbuf, sentTo + 1))
   BY <1>5, Zenon DEF sendto
 <2>2. \A k \in Elems(dbuf') : k \in Q \/ k = sentTo + 1
  <3>1. sentTo + 1 \in Nat BY <1>1
  <3>2. Elems(Append(dbuf, sentTo + 1)) = Q \union {sentTo + 1} BY <1>1, <3>1, AppendElems
  <3>3. QED BY <2>1, <3>2
 <2>3. dclosing => \A k \in 1..closedAt : k # sentTo + 1 BY <1>1, <1>2
 <2>4. QED BY <1>1, <1>2, <1>3, <2>1, <2>2, <2>3 DEF ClosedBeforeLoss, LossIsComing
<1>6. CASE flush_one
 <2>1. /\ UNCHANGED <<dclosing, readerTask, lostSoon, made, closedAt, sentTo>>
       /\ dbuf # <<>> /\ (dbuf' = dbuf \/ dbuf' = Tail(dbuf))
       /\ \/ UNCHANGED <<connLost, lostOnDone>>
          \/ dbuf' = Tail(dbuf) /\ Finally(Tail(dbuf))
   BY <1>6 DEF flush_one, FlushCallback
 <2>2. Elems(dbuf') \subseteq Q
  <3>1. Q = Elems(Tail(dbuf)) \union {Head(dbuf)} BY <1>1, <2>1, TailElems
  <3>2. QED BY <2>1, <3>1
 <2>3. CASE UNCHANGED <<connLost, lostOnDone>>
   BY <1>2, <1>3, <2>1, <2>2, <2>3, Zenon DEF ClosedBeforeLoss, LossIsComing
 <2>4. CASE dclosing /\ dbuf' = <<>> /\ CallConnectionLost
  <3>1. Elems(dbuf') = {} BY <2>4 DEF Elems
  <3>2. connLost' = 1 => readerTask = "done"
    BY <1>1, <1>2, <2>4 DEF CallConnectionLost, DatagramTypes
  <3>3. QED BY <1>2, <1>3, <2>1, <2>4, <3>1, <3>2 DEF ClosedBeforeLoss
 <2>5. QED BY <2>1, <2>3, <2>4 DEF Finally, FlushReportsLost
<1>7. CASE flush_ends
 <2>1. /\ UNCHANGED <<dclosing, readerTask, lostSoon, made, closedAt, sentTo, dbuf>>
       /\ \/ UNCHANGED <<connLost, lostOnDone>>
          \/ dclosing /\ dbuf = <<>> /\ CallConnectionLost
   BY <1>7 DEF flush_ends, Finally, FlushReportsLost
 <2>2. CASE dclosing /\ dbuf = <<>> /\ CallConnectionLost
  <3>1. Elems(dbuf') = {} BY <2>1, <2>2 DEF Elems
  <3>2. QED BY <1>2, <1>3, <1>4, <2>1, <2>2, <3>1 DEF ClosedBeforeLoss, LossIsComing
 <2>3. CASE UNCHANGED <<connLost, lostOnDone>>
   BY <1>2, <1>3, <2>1, <2>3, Zenon DEF ClosedBeforeLoss, LossIsComing
 <2>4. QED BY <2>1, <2>2, <2>3
<1>8. CASE datagram_lost
 <2>1. /\ UNCHANGED <<dclosing, readerTask, made, closedAt, sentTo, dbuf>>
       /\ lostSoon /\ CallConnectionLost
   BY <1>8 DEF datagram_lost
 <2>2. dclosing /\ LossIsComing BY <1>2, <2>1 DEF LossIsComing
 <2>3. QED BY <1>2, <1>3, <1>4, <2>1, <2>2 DEF ClosedBeforeLoss
<1>9. CASE abort_datagram
 <2>1. /\ made' /\ dclosing' /\ closedAt' <= sentTo' /\ dbuf' = <<>>
       /\ readerTask' = ReaderCancelled /\ connLost = 0 /\ CallConnectionLost
   BY <1>1, <1>2, <1>9 DEF abort_datagram
 <2>2. connLost' = 1 => readerTask' = "done" BY <2>1 DEF CallConnectionLost, ReaderCancelled
 <2>3. Elems(dbuf') = {} BY <2>1 DEF Elems
 <2>4. QED BY <1>3, <2>1, <2>2, <2>3 DEF ClosedBeforeLoss
<1>10. CASE close_datagram
 <2>1. ~LossIsComing BY <1>2, <1>10 DEF close_datagram
 <2>2. /\ made' /\ dclosing' /\ closedAt' = sentTo /\ sentTo' = sentTo /\ dbuf' = dbuf
       /\ connLost' # 1 /\ (LossIsComing' => dbuf = <<>>)
   BY <1>10, <2>1 DEF close_datagram, CloseSchedulesLost, LossIsComing
 <2>3. LossIsComing' => Elems(dbuf') = {} BY <2>2 DEF Elems
 <2>4. QED BY <1>1, <1>3, <2>2, <2>3 DEF ClosedBeforeLoss
<1>11. CASE reader_ends
 <2>1. /\ UNCHANGED <<dclosing, connLost, made, closedAt, sentTo, dbuf>> /\ readerTask' = "done"
       /\ (LossIsComing' => LossIsComing)
   BY <1>11 DEF reader_ends, LossIsComing
 <2>2. QED BY <1>2, <1>3, <2>1, Zenon DEF ClosedBeforeLoss
<1>12. CASE datagram_made \/ socket_writable \/ datagram_arrives \/ read_loop
 <2>1. /\ UNCHANGED <<dclosing, connLost, lostSoon, lostOnDone, closedAt, sentTo, dbuf>>
       /\ (made => made') /\ (readerTask = "done" => readerTask' = "done")
   BY <1>12 DEF datagram_made, socket_writable, datagram_arrives, read_loop
 <2>2. QED BY <1>2, <1>3, <2>1 DEF ClosedBeforeLoss, LossIsComing
<1>13. QED BY <1>5, <1>6, <1>7, <1>8, <1>9, <1>10, <1>11, <1>12, Zenon DEF DatagramNext, FlushTask

LEMMA DatagramInitially == DatagramInit => DatagramInv
<1> SUFFICES ASSUME DatagramInit PROVE DatagramInv OBVIOUS
<1>1. <<>> \in Seq(Nat) /\ Len(<<>>) = 0 /\ 1..0 = {} BY EmptySeq
<1>2. Range(<<>>) = {} BY <1>1, RangeElems DEF Elems
<1>3. DatagramTypes BY <1>1, DatagramAssumption DEF DatagramInit, DatagramTypes
<1>4. WireInOrder /\ QueueInOrder BY <1>1, <1>2 DEF DatagramInit, WireInOrder, QueueInOrder
<1>5. QueueHasWriter /\ PauseFollowsMarks /\ ClosedBeforeLoss
  BY <1>1, DatagramAssumption DEF DatagramInit, QueueHasWriter, PauseFollowsMarks,
    ClosedBeforeLoss, LossIsComing
<1>6. QED BY <1>3, <1>4, <1>5 DEF DatagramInv

LEMMA DatagramKept ==
    ASSUME DatagramInv, [DatagramNext]_datagramVars
    PROVE  DatagramInv'
<1>1. CASE DatagramNext
  BY <1>1, DatagramTypesKept, OrderKept, WriterAndMarksKept, ClosedBeforeLossKept DEF DatagramInv
<1>2. CASE UNCHANGED datagramVars
  BY <1>2 DEF datagramVars, DatagramInv, DatagramTypes, WireInOrder, QueueInOrder, QueueHasWriter,
    PauseFollowsMarks, ClosedBeforeLoss, LossIsComing
<1>3. QED BY <1>1, <1>2

LEMMA DescriptorsStepOfLoop == DescriptorsInv /\ [LoopNext]_loopVars => DescriptorsInv'
<1> SUFFICES ASSUME DescriptorsInv, [LoopNext]_loopVars PROVE DescriptorsInv' OBVIOUS
<1>1. part' = part BY DEF LoopNext
<1>2. CASE part = "watch"
 <2>1. [WatchNext]_watchVars BY <1>2 DEF LoopNext
 <2>2. QED BY <1>1, <1>2, <2>1, WatchKept DEF DescriptorsInv
<1>3. CASE part = "datagram"
 <2>1. [DatagramNext]_datagramVars BY <1>3 DEF LoopNext
 <2>2. QED BY <1>1, <1>3, <2>1, DatagramKept, Zenon DEF DescriptorsInv
<1>4. QED BY <1>1, <1>2, <1>3 DEF DescriptorsInv

\* For every number of registrations, queued commands and datagrams, and every pair of water
\* marks: a registered callback is armed, queued or executing exactly once unless its wait
\* failed, and a removed or replaced one is neither invoked nor re-armed, whichever of the loop
\* thread and the dispatcher watches (engine/loop_core.rs, engine/dispatcher.rs); datagrams
\* leave in the order of the calls and each is sent, queued or lost, a queue has its flush task
\* until abort() or a raising callback of the protocol ends it, the protocol is paused above
\* the high mark, and connection_lost comes after the reader's end and after everything
\* close() promised (_loop_compat.py).
THEOREM DescriptorsAreSafe == LoopSpec => []DescriptorsSafe
<1>1. LoopInit => DescriptorsInv BY WatchInitially, DatagramInitially DEF LoopInit, DescriptorsInv
<1>2. DescriptorsInv => DescriptorsSafe
 <2>1. DatagramInv => LostIsLast BY DEF DatagramInv, ClosedBeforeLoss, LossIsComing, LostIsLast
 <2>2. DatagramInv => DatagramSafe BY <2>1 DEF DatagramInv, DatagramSafe
 <2>3. QED BY <2>2, WatchIsSafe DEF DescriptorsInv, DescriptorsSafe
<1>3. QED
  BY <1>1, <1>2, DescriptorsStepOfLoop, PTL DEF LoopSpec
-----------------------------------------------------------------------------
(* The sock_ operations: a callback, a request or a registration, one at a   *)
(* time, comes back to a pending future, and nothing is taken for another.   *)

\* What the invariant says of one operation.
OperationSafe(o) ==
    /\ future[o] \in {"none", "pending", "result", "error", "cancelled"}
    /\ sock_waiter[o] \in {"none", "request", "readiness", "ended"}
    /\ doneCall[o] \in BOOLEAN /\ doneFlag[o] \in BOOLEAN /\ request[o] \in BOOLEAN
    /\ started[o] \in BOOLEAN /\ failure[o] \in BOOLEAN /\ sock_ready[o] \in {0, 1}
    /\ sock_ready[o] = 1 => ~request[o] /\ sock_waiter[o] # "readiness"
    /\ request[o] => sock_waiter[o] # "readiness"
    /\ future[o] = "pending" =>
         sock_ready[o] = 1 \/ (request[o] /\ sock_waiter[o] = "request") \/ sock_waiter[o] = "readiness"
    /\ sock_waiter[o] = "none" <=> ~started[o]
    /\ request[o] => started[o]
    /\ sock_waiter[o] = "ended" /\ future[o] = "pending" => failure[o]
    /\ doneCall[o] \/ doneFlag[o] => future[o] \notin {"none", "pending"}
    /\ future[o] = "none" => sock_ready[o] = 0 /\ ~request[o] /\ ~started[o]

OperationFunctions ==
    /\ DOMAIN future = Operations /\ DOMAIN doneCall = Operations /\ DOMAIN doneFlag = Operations
    /\ DOMAIN request = Operations /\ DOMAIN started = Operations
    /\ DOMAIN sock_waiter = Operations /\ DOMAIN sock_ready = Operations
    /\ DOMAIN failure = Operations
    /\ future = [o \in Operations |-> future[o]] /\ doneCall = [o \in Operations |-> doneCall[o]]
    /\ doneFlag = [o \in Operations |-> doneFlag[o]] /\ request = [o \in Operations |-> request[o]]
    /\ started = [o \in Operations |-> started[o]]
    /\ sock_waiter = [o \in Operations |-> sock_waiter[o]]
    /\ sock_ready = [o \in Operations |-> sock_ready[o]]
    /\ failure = [o \in Operations |-> failure[o]]

SocketData ==
    /\ offset \in 0..SendLength /\ inbound \in Nat /\ coming \in Nat /\ taken \in Nat /\ room \in Nat
    /\ used \in {Receivers, {Sender}}

\* The safety of the operations, operation by operation.
LEMMA SocketSafeParts ==
  SocketOpsSafe <=> /\ OperationFunctions /\ SocketData /\ \A o \in Operations : OperationSafe(o)
                    /\ NothingTakenForNobody /\ SentWhole
<1>1. ASSUME SocketOpsSafe
      PROVE  /\ OperationFunctions /\ SocketData /\ \A o \in Operations : OperationSafe(o)
             /\ NothingTakenForNobody /\ SentWhole
 <2>1. OperationFunctions /\ SocketData /\ NothingTakenForNobody /\ SentWhole
   BY <1>1 DEF SocketOpsSafe, SocketOpsTypeOK, OperationFunctions, SocketData
 <2>2. ASSUME NEW o \in Operations PROVE OperationSafe(o)
  <3>1. /\ future[o] \in {"none", "pending", "result", "error", "cancelled"}
        /\ sock_waiter[o] \in {"none", "request", "readiness", "ended"}
        /\ sock_ready[o] \in Nat
    BY <1>1 DEF SocketOpsSafe, SocketOpsTypeOK
  <3>2. /\ doneCall[o] \in BOOLEAN /\ doneFlag[o] \in BOOLEAN /\ request[o] \in BOOLEAN
        /\ started[o] \in BOOLEAN /\ failure[o] \in BOOLEAN
    BY <1>1 DEF SocketOpsSafe, SocketOpsTypeOK
  <3>3. sock_ready[o] + (IF request[o] THEN 1 ELSE 0)
          + (IF sock_waiter[o] = "readiness" THEN 1 ELSE 0) <= 1
    BY <1>1 DEF SocketOpsSafe, OneWait
  <3>4. /\ sock_ready[o] \in {0, 1}
        /\ sock_ready[o] = 1 => ~request[o] /\ sock_waiter[o] # "readiness"
        /\ request[o] => sock_waiter[o] # "readiness"
    BY <3>1, <3>3
  <3>5. future[o] = "pending" =>
          sock_ready[o] = 1 \/ (request[o] /\ sock_waiter[o] = "request")
                            \/ sock_waiter[o] = "readiness"
   <4>1. future[o] = "pending" =>
           sock_ready[o] > 0 \/ (request[o] /\ sock_waiter[o] = "request")
                             \/ sock_waiter[o] = "readiness"
     BY <1>1 DEF SocketOpsSafe, NoneForgotten
   <4>2. sock_ready[o] > 0 => sock_ready[o] = 1 BY <3>4
   <4>3. QED BY <4>1, <4>2
  <3>6. /\ sock_waiter[o] = "none" <=> ~started[o]
        /\ request[o] => started[o]
        /\ sock_waiter[o] = "ended" /\ future[o] = "pending" => failure[o]
        /\ doneCall[o] \/ doneFlag[o] => future[o] \notin {"none", "pending"}
        /\ future[o] = "none" => sock_ready[o] = 0 /\ ~request[o] /\ ~started[o]
    BY <1>1 DEF SocketOpsSafe, WaiterInStep
  <3>7. QED BY <3>1, <3>2, <3>4, <3>5, <3>6 DEF OperationSafe
 <2>3. QED BY <2>1, <2>2
<1>2. ASSUME OperationFunctions, SocketData, \A o \in Operations : OperationSafe(o),
             NothingTakenForNobody, SentWhole
      PROVE  SocketOpsSafe
 <2>1. /\ \A o \in Operations : future[o] \in {"none", "pending", "result", "error", "cancelled"}
       /\ \A o \in Operations : sock_waiter[o] \in {"none", "request", "readiness", "ended"}
       /\ \A o \in Operations : doneCall[o] \in BOOLEAN
       /\ \A o \in Operations : doneFlag[o] \in BOOLEAN
       /\ \A o \in Operations : request[o] \in BOOLEAN
       /\ \A o \in Operations : started[o] \in BOOLEAN
       /\ \A o \in Operations : failure[o] \in BOOLEAN
       /\ \A o \in Operations : sock_ready[o] \in {0, 1} /\ sock_ready[o] \in Nat
   BY <1>2 DEF OperationSafe
 <2>2. SocketOpsTypeOK
  <3>1. future \in [Operations -> {"none", "pending", "result", "error", "cancelled"}]
    BY <1>2, <2>1, Zenon DEF OperationFunctions
  <3>2. sock_waiter \in [Operations -> {"none", "request", "readiness", "ended"}]
    BY <1>2, <2>1, Zenon DEF OperationFunctions
  <3>3. doneCall \in [Operations -> BOOLEAN] /\ doneFlag \in [Operations -> BOOLEAN]
    BY <1>2, <2>1 DEF OperationFunctions
  <3>4. request \in [Operations -> BOOLEAN] /\ started \in [Operations -> BOOLEAN]
    BY <1>2, <2>1 DEF OperationFunctions
  <3>5. failure \in [Operations -> BOOLEAN] /\ sock_ready \in [Operations -> Nat]
    BY <1>2, <2>1 DEF OperationFunctions
  <3>6. QED BY <1>2, <3>1, <3>2, <3>3, <3>4, <3>5, Zenon DEF SocketOpsTypeOK, SocketData
 <2>3. OneWait
  <3>1. ASSUME NEW o \in Operations
        PROVE  sock_ready[o] + (IF request[o] THEN 1 ELSE 0)
                 + (IF sock_waiter[o] = "readiness" THEN 1 ELSE 0) <= 1
   <4>1. /\ sock_ready[o] \in {0, 1}
         /\ sock_ready[o] = 1 => ~request[o] /\ sock_waiter[o] # "readiness"
         /\ request[o] => sock_waiter[o] # "readiness"
     BY <1>2, Zenon DEF OperationSafe
   <4>2. QED BY <4>1
  <3>2. QED BY <3>1, Zenon DEF OneWait
 <2>4. NoneForgotten
  <3>1. 1 > 0 OBVIOUS
  <3>2. QED BY <1>2, <3>1 DEF NoneForgotten, OperationSafe
 <2>5. WaiterInStep BY <1>2 DEF WaiterInStep, OperationSafe
 <2>6. QED BY <1>2, <2>2, <2>3, <2>4, <2>5 DEF SocketOpsSafe
<1>3. QED BY <1>1, <1>2

\* An attempt moves bytes or one item, and only into its own result.
LEMMA AttemptFacts ==
  ASSUME SocketData, NEW o \in Operations, NEW outcome \in {"result", "again"},
         attempt(o, outcome)
  PROVE  /\ offset' \in 0..SendLength /\ inbound' \in Nat /\ taken' \in Nat /\ room' \in Nat
         /\ IF o = Sender THEN taken' = taken /\ (offset' = SendLength <=> outcome = "result")
            ELSE offset' = offset /\ taken' = taken + (IF outcome = "result" THEN 1 ELSE 0)
<1>1. /\ offset \in 0..SendLength /\ inbound \in Nat /\ taken \in Nat /\ room \in Nat
      /\ SendLength \in Nat
  BY SocketOpsAssumption DEF SocketData
<1>2. CASE o = Sender
  <2> DEFINE S == {room, SendLength - offset}
 <2>1. S \subseteq Nat /\ S # {} BY <1>1
 <2>2. Min(S) \in S /\ \A y \in S : Min(S) <= y
  <3>1. \E x \in S : \A y \in S : x <= y BY <2>1, LeastNat
  <3> HIDE DEF S
  <3>2. QED BY <3>1 DEF Min
 <2>3. PICK n \in 0..Min(S) :
         /\ offset' = offset + n /\ room' = room - n
         /\ outcome = IF offset + n = SendLength THEN "result" ELSE "again"
         /\ inbound' = inbound /\ taken' = taken
   BY <1>2 DEF attempt
 <2>4. n \in Nat /\ n <= room /\ n <= SendLength - offset
   <3> DEFINE m == Min(S)
  <3>1. m \in Nat /\ m <= room /\ m <= SendLength - offset BY <2>1, <2>2
  <3> HIDE DEF m, S
  <3>2. n \in 0..m BY DEF m
  <3>3. QED BY <1>1, <3>1, <3>2
 <2> HIDE DEF S
 <2>5. offset + n \in 0..SendLength /\ room - n \in Nat BY <1>1, <2>4
 <2>6. QED BY <1>1, <1>2, <2>3, <2>5
<1>3. CASE o # Sender
 <2>1. /\ offset' = offset /\ room' = room
       /\ \/ outcome = "result" /\ inbound > 0 /\ inbound' = inbound - 1 /\ taken' = taken + 1
          \/ outcome = "again" /\ inbound' = inbound /\ taken' = taken
   BY <1>3 DEF attempt
 <2>2. inbound > 0 => inbound - 1 \in Nat BY <1>1
 <2>3. taken + 1 \in Nat /\ taken + 0 = taken BY <1>1
 <2>4. QED BY <1>1, <1>3, <2>1, <2>2, <2>3
<1>4. QED BY <1>2, <1>3

\* A future that gets a result is one result more; no other is touched.
LEMMA ResultCounted ==
  ASSUME NothingTakenForNobody, SentWhole, OperationFunctions, SocketData,
         NEW o \in Operations, NEW w, future[o] # "result",
         future' = [future EXCEPT ![o] = w],
         IF o = Sender THEN taken' = taken /\ (offset' = SendLength <=> w = "result")
         ELSE offset' = offset /\ taken' = taken + (IF w = "result" THEN 1 ELSE 0)
  PROVE  NothingTakenForNobody' /\ SentWhole'
  <1> DEFINE R == {p \in Receivers : future[p] = "result"}
             Q == {p \in Receivers : future'[p] = "result"}
<1>1. \A p \in Operations : future'[p] = IF p = o THEN w ELSE future[p] BY DEF OperationFunctions
<1>2. Sender \in Operations /\ Receivers \subseteq Operations /\ Sender \notin Receivers
  BY SocketOpsAssumption DEF Operations
<1>3. IsFiniteSet(R) /\ taken = Cardinality(R) /\ taken \in Nat
  BY SocketOpsAssumption, FS_Subset DEF NothingTakenForNobody, SocketData
<1>4. CASE o = Sender
 <2>1. Q = R BY <1>1, <1>2, <1>4
 <2>2. QED BY <1>1, <1>2, <1>3, <1>4, <2>1 DEF NothingTakenForNobody, SentWhole
<1>5. CASE o # Sender
 <2>1. SentWhole' BY <1>1, <1>2, <1>5 DEF SentWhole
 <2>2. CASE w = "result"
  <3>1. Q = R \cup {o} /\ o \notin R BY <1>1, <1>2, <1>5, <2>2 DEF Operations
  <3>2. Cardinality(Q) = Cardinality(R) + 1 BY <1>3, <3>1, FS_AddElement
  <3>3. QED BY <1>3, <1>5, <2>1, <2>2, <3>2 DEF NothingTakenForNobody
 <2>3. CASE w # "result"
  <3>1. Q = R BY <1>1, <1>2, <2>3
  <3>2. taken' = taken BY <1>3, <1>5, <2>3
  <3>3. QED BY <1>3, <2>1, <3>1, <3>2 DEF NothingTakenForNobody
 <2>4. QED BY <2>2, <2>3, Zenon
<1>6. QED BY <1>4, <1>5

\* The state of the operations other than o.
OthersKept(o) ==
    \A p \in Operations : p # o =>
       /\ future'[p] = future[p] /\ doneCall'[p] = doneCall[p] /\ doneFlag'[p] = doneFlag[p]
       /\ request'[p] = request[p] /\ started'[p] = started[p]
       /\ sock_waiter'[p] = sock_waiter[p] /\ sock_ready'[p] = sock_ready[p]
       /\ failure'[p] = failure[p]

LEMMA OneOperation ==
  ASSUME \A p \in Operations : OperationSafe(p), NEW o \in Operations, OthersKept(o),
         OperationSafe(o)'
  PROVE  \A p \in Operations : OperationSafe(p)'
<1>1. ASSUME NEW p \in Operations, p # o PROVE OperationSafe(p)'
 <2>1. OperationSafe(p) BY Zenon
 <2>2. /\ future'[p] = future[p] /\ doneCall'[p] = doneCall[p] /\ doneFlag'[p] = doneFlag[p]
       /\ request'[p] = request[p] /\ started'[p] = started[p]
       /\ sock_waiter'[p] = sock_waiter[p] /\ sock_ready'[p] = sock_ready[p]
       /\ failure'[p] = failure[p]
   BY <1>1, Zenon DEF OthersKept
 <2>3. QED BY <2>1, <2>2 DEF OperationSafe
<1>2. QED BY <1>1, Zenon

\* A step of one operation that starts, resumes or ends an attempt.
SocketParts ==
    /\ OperationFunctions /\ SocketData /\ \A o \in Operations : OperationSafe(o)
    /\ NothingTakenForNobody /\ SentWhole

LEMMA StartStep ==
  ASSUME SocketParts, NEW o \in Operations, start(o) \/ start_elsewhere(o), UNCHANGED used
  PROVE  SocketParts'
<1> USE DEF SocketParts
<1>1. /\ OperationSafe(o) /\ future[o] = "none" /\ sock_ready[o] = 0 /\ ~request[o] /\ ~started[o]
      /\ future[o] # "result"
  BY DEF OperationSafe, start, start_elsewhere
<1>2. /\ doneCall' = doneCall /\ doneFlag' = doneFlag /\ failure' = failure /\ coming' = coming
      /\ used' = used
  BY Zenon DEF start, start_elsewhere, Peer
<1>3. PICK w \in {"result", "pending", "error"} :
        /\ future' = [future EXCEPT ![o] = w]
        /\ \/ w = "pending" /\ arm_wait(o) /\ sock_ready' = sock_ready
           \/ /\ w = "pending" /\ UNCHANGED <<request, started, sock_waiter>>
              /\ sock_ready' = [sock_ready EXCEPT ![o] = @ + 1]
           \/ w # "pending" /\ UNCHANGED <<request, started, sock_waiter, sock_ready>>
        /\ w = "result" => attempt(o, "result")
        /\ w = "pending" => attempt(o, "again")
        /\ w = "error" => attempt_raises \/ attempt(o, "again")
  <2> DEFINE P(w) ==
        /\ future' = [future EXCEPT ![o] = w]
        /\ \/ w = "pending" /\ arm_wait(o) /\ sock_ready' = sock_ready
           \/ /\ w = "pending" /\ UNCHANGED <<request, started, sock_waiter>>
              /\ sock_ready' = [sock_ready EXCEPT ![o] = @ + 1]
           \/ w # "pending" /\ UNCHANGED <<request, started, sock_waiter, sock_ready>>
        /\ w = "result" => attempt(o, "result")
        /\ w = "pending" => attempt(o, "again")
        /\ w = "error" => attempt_raises \/ attempt(o, "again")
 <2>1. ASSUME start_elsewhere(o) PROVE P("pending") BY <2>1, Zenon DEF start_elsewhere
 <2>2. ASSUME NEW outcome \in {"result", "again"}, attempt(o, outcome),
              future' = [future EXCEPT ![o] = IF outcome = "again" THEN "pending" ELSE outcome],
              IF outcome = "again" THEN arm_wait(o) ELSE UNCHANGED <<request, started, sock_waiter>>,
              sock_ready' = sock_ready
       PROVE  P("pending") \/ P("result")
  <3>1. CASE outcome = "again"
   <4>1. P("pending") BY <2>2, <3>1, Zenon
   <4>2. QED BY <4>1, Zenon
  <3>2. CASE outcome = "result"
   <4>1. future' = [future EXCEPT ![o] = "result"] BY <2>2, <3>2
   <4>2. UNCHANGED <<request, started, sock_waiter, sock_ready>> BY <2>2, <3>2
   <4>3. attempt(o, "result") BY <2>2, <3>2
   <4>4. P("result") BY <4>1, <4>2, <4>3, Zenon
   <4>5. QED BY <4>4
  <3>3. QED BY <3>1, <3>2
 <2>3. ASSUME attempt_raises \/ attempt(o, "again"), future' = [future EXCEPT ![o] = "error"],
              UNCHANGED <<request, started, sock_waiter>>, sock_ready' = sock_ready
       PROVE  P("error")
   BY <2>3
 <2> HIDE DEF P
 <2>4. P("pending") \/ P("result") \/ P("error")
  <3>1. CASE start(o)
   <4>1. sock_ready' = sock_ready BY <3>1, Zenon DEF start
   <4>2. QED BY <2>2, <2>3, <3>1, <4>1, Zenon DEF start
  <3>2. QED BY <2>1, <3>1, Zenon
 <2>5. QED BY <2>4 DEF P
<1>4. /\ offset' \in 0..SendLength /\ inbound' \in Nat /\ taken' \in Nat /\ room' \in Nat
      /\ IF o = Sender THEN taken' = taken /\ (offset' = SendLength <=> w = "result")
         ELSE offset' = offset /\ taken' = taken + (IF w = "result" THEN 1 ELSE 0)
 <2>1. CASE attempt(o, "result") /\ w = "result" BY <2>1, AttemptFacts
 <2>2. CASE attempt(o, "again") /\ w # "result" BY <2>2, AttemptFacts, Zenon
 <2>3. CASE attempt_raises /\ w = "error"
  <3>1. offset' = offset /\ inbound' = inbound /\ taken' = taken /\ room' = room
    BY <2>3 DEF attempt_raises
  <3>2. o = Sender => offset # SendLength BY <1>1 DEF SentWhole
  <3>3. taken + 0 = taken BY DEF SocketData
  <3>4. QED BY <2>3, <3>1, <3>2, <3>3 DEF SocketData
 <2>4. QED BY <1>3, <2>1, <2>2, <2>3
<1>5. NothingTakenForNobody' /\ SentWhole' BY <1>1, <1>3, <1>4, ResultCounted
<1>6. SocketData' BY <1>2, <1>4 DEF SocketData
<1>7. OperationFunctions' /\ OthersKept(o)
  BY <1>2, <1>3 DEF OperationFunctions, OthersKept, arm_wait
<1>8. OperationSafe(o)'
 <2>1. /\ future'[o] = w /\ doneCall'[o] = doneCall[o] /\ doneFlag'[o] = doneFlag[o]
       /\ failure'[o] = failure[o]
   BY <1>2, <1>3 DEF OperationFunctions
 <2>2. \/ /\ w = "pending" /\ request'[o] = TRUE /\ started'[o] = TRUE
          /\ sock_waiter'[o] = "request" /\ sock_ready'[o] = 0
       \/ /\ w = "pending" /\ request'[o] = request[o] /\ started'[o] = started[o]
          /\ sock_waiter'[o] = sock_waiter[o] /\ sock_ready'[o] = 1
       \/ /\ w # "pending" /\ request'[o] = request[o] /\ started'[o] = started[o]
          /\ sock_waiter'[o] = sock_waiter[o] /\ sock_ready'[o] = 0
   BY <1>1, <1>3 DEF OperationFunctions, arm_wait
 <2>3. /\ doneCall'[o] \in BOOLEAN /\ doneFlag'[o] \in BOOLEAN /\ failure'[o] \in BOOLEAN
       /\ request'[o] \in BOOLEAN /\ started'[o] \in BOOLEAN
   BY <1>1, <2>1, <2>2 DEF OperationSafe
 <2>4. /\ w \in {"none", "pending", "result", "error", "cancelled"} /\ w # "none"
       /\ sock_waiter'[o] \in {"none", "request", "readiness", "ended"}
       /\ sock_ready'[o] \in {0, 1} /\ sock_waiter[o] = "none" /\ ~doneCall[o] /\ ~doneFlag[o]
   BY <1>1, <2>2 DEF OperationSafe
 <2>5. CASE request'[o] = TRUE /\ started'[o] = TRUE /\ sock_waiter'[o] = "request"
            /\ sock_ready'[o] = 0 /\ w = "pending"
   BY <2>1, <2>3, <2>4, <2>5 DEF OperationSafe
 <2>6. CASE request'[o] = request[o] /\ started'[o] = started[o]
            /\ sock_waiter'[o] = sock_waiter[o] /\ (w = "pending" => sock_ready'[o] = 1)
   BY <1>1, <2>1, <2>3, <2>4, <2>6, Zenon DEF OperationSafe
 <2>7. QED BY <2>2, <2>5, <2>6
<1>9. QED BY <1>5, <1>6, <1>7, <1>8, OneOperation, Zenon

LEMMA PollStep ==
  ASSUME SocketParts, NEW o \in Operations, poll_operation(o), UNCHANGED used
  PROVE  SocketParts'
<1> USE DEF SocketParts
<1>1. /\ OperationSafe(o) /\ sock_ready[o] = 1 /\ doneFlag' = doneFlag /\ coming' = coming
      /\ sock_ready' = [sock_ready EXCEPT ![o] = 0] /\ used' = used
 <2>1. sock_ready[o] = 1 BY DEF OperationSafe, poll_operation
 <2>2. QED BY <2>1 DEF poll_operation, Peer
<1>2. CASE future[o] # "pending"
 <2>1. UNCHANGED <<future, doneCall, request, started, sock_waiter, failure, offset, inbound,
                   taken, room>>
   BY <1>2, Zenon DEF poll_operation, StillWanted
 <2>2. SocketData' /\ NothingTakenForNobody' /\ SentWhole'
   BY <1>1, <2>1, Zenon DEF SocketData, NothingTakenForNobody, SentWhole
 <2>3. OperationFunctions' /\ OthersKept(o) BY <1>1, <2>1 DEF OperationFunctions, OthersKept
 <2>4. OperationSafe(o)' BY <1>1, <1>2, <2>1 DEF OperationFunctions, OperationSafe
 <2>5. QED BY <2>2, <2>3, <2>4, OneOperation, Zenon
<1>3. CASE future[o] = "pending"
 <2>1. PICK w \in {"result", "pending", "error"} :
         /\ future' = [future EXCEPT ![o] = w]
         /\ \/ w = "pending" /\ arm_wait(o) /\ doneCall' = doneCall /\ ~failure[o]
            \/ /\ w # "pending" /\ doneCall' = [doneCall EXCEPT ![o] = TRUE]
               /\ UNCHANGED <<request, started, sock_waiter>>
         /\ w = "result" => attempt(o, "result")
         /\ w = "pending" => attempt(o, "again")
         /\ w = "error" => attempt_raises \/ attempt(o, "again")
         /\ (failure' = failure \/ failure' = [failure EXCEPT ![o] = FALSE])
  <3>1. CASE failure[o]
    BY <1>3, <3>1, Zenon DEF poll_operation, StillWanted, Complete, attempt_raises
  <3>2. CASE ~failure[o]
   <4>1. CASE attempt(o, "result") /\ UNCHANGED <<request, started, sock_waiter>>
              /\ Complete(o, "result") /\ UNCHANGED failure
    <5>1. future' = [future EXCEPT ![o] = "result"] /\ doneCall' = [doneCall EXCEPT ![o] = TRUE]
      BY <4>1 DEF Complete
    <5>2. QED BY <4>1, <5>1
   <4>2. CASE attempt(o, "again") /\ arm_wait(o) /\ UNCHANGED <<future, doneCall>>
              /\ UNCHANGED failure
    <5>1. future' = [future EXCEPT ![o] = "pending"] BY <1>3, <4>2 DEF OperationFunctions
    <5>2. QED BY <3>2, <4>2, <5>1
   <4>3. CASE (attempt_raises \/ attempt(o, "again")) /\ Complete(o, "error")
              /\ UNCHANGED <<request, started, sock_waiter>> /\ UNCHANGED failure
     BY <4>3 DEF Complete, attempt_raises
   <4>4. QED BY <1>3, <3>2, <4>1, <4>2, <4>3 DEF poll_operation, StillWanted
  <3>3. QED BY <3>1, <3>2, Zenon
 <2>2. /\ offset' \in 0..SendLength /\ inbound' \in Nat /\ taken' \in Nat /\ room' \in Nat
       /\ IF o = Sender THEN taken' = taken /\ (offset' = SendLength <=> w = "result")
          ELSE offset' = offset /\ taken' = taken + (IF w = "result" THEN 1 ELSE 0)
  <3>1. CASE attempt(o, "result") /\ w = "result" BY <3>1, AttemptFacts
  <3>2. CASE attempt(o, "again") /\ w # "result" BY <3>2, AttemptFacts
  <3>3. CASE attempt_raises /\ w = "error"
   <4>1. o = Sender => offset # SendLength BY <1>3 DEF SentWhole
   <4>2. taken + 0 = taken BY DEF SocketData
   <4>3. QED BY <3>3, <4>1, <4>2 DEF SocketData, attempt_raises
  <3>4. QED BY <2>1, <3>1, <3>2, <3>3, Zenon
 <2>3. NothingTakenForNobody' /\ SentWhole' BY <1>3, <2>1, <2>2, ResultCounted
 <2>4. SocketData' BY <1>1, <2>2 DEF SocketData
 <2>5. OperationFunctions' /\ OthersKept(o)
  <3>1. OperationFunctions' BY <1>1, <2>1, Zenon DEF OperationFunctions, arm_wait
  <3>2. OthersKept(o) BY <1>1, <2>1, Zenon DEF OperationFunctions, OthersKept, arm_wait
  <3>3. QED BY <3>1, <3>2
 <2>6. OperationSafe(o)'
  <3>1. /\ future'[o] = w /\ doneFlag'[o] = doneFlag[o] /\ sock_ready'[o] = 0
        /\ failure'[o] \in {failure[o], FALSE}
    BY <1>1, <2>1 DEF OperationFunctions
  <3>2. failure'[o] \in BOOLEAN BY <1>1, <3>1 DEF OperationSafe
  <3>3. \/ /\ w = "pending" /\ request'[o] = TRUE /\ started'[o] = TRUE
           /\ sock_waiter'[o] = IF started[o] THEN sock_waiter[o] ELSE "request"
           /\ doneCall'[o] = doneCall[o] /\ ~failure[o]
        \/ /\ w # "pending" /\ request'[o] = request[o] /\ started'[o] = started[o]
           /\ sock_waiter'[o] = sock_waiter[o] /\ doneCall'[o] = TRUE
    BY <2>1 DEF OperationFunctions, arm_wait
  <3>4. w = "pending" => sock_waiter'[o] = "request" BY <1>1, <1>3, <3>3 DEF OperationSafe
  <3>5. /\ doneCall'[o] \in BOOLEAN /\ doneFlag'[o] \in BOOLEAN
        /\ request'[o] \in BOOLEAN /\ started'[o] \in BOOLEAN
    BY <1>1, <3>1, <3>3 DEF OperationSafe
  <3>6. /\ w \in {"none", "pending", "result", "error", "cancelled"} /\ w # "none"
        /\ sock_waiter'[o] \in {"none", "request", "readiness", "ended"}
        /\ ~doneCall[o] /\ ~doneFlag[o] /\ ~request[o] /\ sock_waiter[o] # "readiness"
    BY <1>1, <1>3, <3>3, <3>4 DEF OperationSafe
  <3>7. CASE w = "pending"
   <4>1. request'[o] /\ started'[o] /\ ~doneCall'[o] /\ ~doneFlag'[o]
     BY <3>1, <3>3, <3>6, <3>7, Zenon
   <4>2. QED BY <3>1, <3>2, <3>4, <3>5, <3>6, <3>7, <4>1 DEF OperationSafe
  <3>8. CASE w # "pending"
   <4>1. request'[o] = request[o] /\ started'[o] = started[o] /\ sock_waiter'[o] = sock_waiter[o]
     BY <3>3, <3>8
   <4>2. QED BY <1>1, <3>1, <3>2, <3>5, <3>6, <3>8, <4>1 DEF OperationSafe
  <3>9. QED BY <3>7, <3>8
 <2>7. QED BY <2>3, <2>4, <2>5, <2>6, OneOperation, Zenon
<1>4. QED BY <1>2, <1>3, Zenon

\* Cancelling, and the task that waits, leave the socket alone.
LEMMA SockWaitStep ==
  ASSUME SocketParts, NEW o \in Operations,
         cancel_operation(o) \/ cancel_sock_wait(o) \/ WaiterTask(o), UNCHANGED used
  PROVE  SocketParts'
<1> USE DEF SocketParts
<1>1. OperationSafe(o) OBVIOUS
<1>2. UNCHANGED <<offset, inbound, coming, taken, room, used>>
  BY DEF cancel_operation, cancel_sock_wait, WaiterTask, waiter_told, Peer
<1>3. SocketData' BY <1>2 DEF SocketData
<1>4. NothingTakenForNobody' /\ SentWhole'
 <2>1. CASE cancel_operation(o)
  <3>1. /\ future' = [future EXCEPT ![o] = "cancelled"] /\ future[o] # "result"
        /\ o = Sender => offset # SendLength
    BY <2>1 DEF cancel_operation, Complete, SentWhole
  <3>2. taken + 0 = taken BY DEF SocketData
  <3>3. QED BY <1>2, <3>1, <3>2, ResultCounted
 <2>2. CASE ~cancel_operation(o)
  <3>1. future' = future BY <2>2 DEF cancel_sock_wait, WaiterTask, waiter_told
  <3>2. QED BY <1>2, <3>1, Zenon DEF NothingTakenForNobody, SentWhole
 <2>3. QED BY <2>1, <2>2
<1>5. OperationFunctions' /\ OthersKept(o) /\ OperationSafe(o)'
 <2>1. CASE cancel_operation(o)
   BY <1>1, <2>1 DEF cancel_operation, Complete, OperationFunctions, OthersKept, OperationSafe
 <2>2. CASE cancel_sock_wait(o)
   BY <1>1, <2>2 DEF cancel_sock_wait, OperationFunctions, OthersKept, OperationSafe
 <2>3. CASE waiter_polls(o)
  <3>1. OperationFunctions' BY <1>1, <2>3, Zenon DEF OperationFunctions
  <3>2. OthersKept(o) BY <1>1, <2>3, Zenon DEF OperationFunctions, OthersKept
  <3>3. /\ sock_waiter[o] = "request" /\ request'[o] = FALSE
        /\ sock_waiter'[o] = IF doneFlag[o] THEN "ended" ELSE "readiness"
        /\ UNCHANGED <<future, doneCall, doneFlag, started, sock_ready, failure>>
        /\ doneFlag[o] \/ request[o]
    BY <1>1, <2>3 DEF OperationFunctions
  <3>4. OperationSafe(o)' BY <1>1, <3>3 DEF OperationSafe
  <3>5. QED BY <3>1, <3>2, <3>4
 <2>4. ASSUME NEW fails \in BOOLEAN, waiter_ready(o, fails)
       PROVE  OperationFunctions' /\ OthersKept(o) /\ OperationSafe(o)'
  <3>1. sock_ready[o] = 0 BY <1>1, <2>4, Zenon DEF OperationSafe
  <3>2. sock_ready' = [sock_ready EXCEPT ![o] = 1] BY <2>4, <3>1
  <3>3. OperationFunctions' BY <1>1, <2>4, <3>2, Zenon DEF OperationFunctions
  <3>4. OthersKept(o) BY <1>1, <2>4, <3>2, Zenon DEF OperationFunctions, OthersKept
  <3>5. /\ sock_waiter[o] = "readiness" /\ sock_ready'[o] = 1 /\ failure'[o] = fails
        /\ sock_waiter'[o] = IF fails THEN "ended" ELSE "request"
        /\ UNCHANGED <<future, doneCall, doneFlag, request, started>>
    BY <1>1, <2>4, <3>2 DEF OperationFunctions
  <3>6. OperationSafe(o)' BY <1>1, <3>5 DEF OperationSafe
  <3>7. QED BY <3>3, <3>4, <3>6
 <2>5. CASE waiter_told(o)
   BY <1>1, <2>5 DEF waiter_told, Told, OperationFunctions, OthersKept, OperationSafe
 <2>6. QED BY <2>1, <2>2, <2>3, <2>4, <2>5 DEF WaiterTask
<1>6. QED BY <1>3, <1>4, <1>5, OneOperation

\* What arrives in the socket, and what leaves it, concerns no operation.
LEMMA PeerStep ==
  ASSUME SocketParts, item_arrives \/ peer_drains, UNCHANGED used
  PROVE  SocketParts'
<1> USE DEF SocketParts
<1>1. UNCHANGED <<future, doneCall, doneFlag, request, started, sock_waiter, sock_ready, failure,
                  offset, taken>>
  BY Zenon DEF item_arrives, peer_drains
<1>2. inbound' \in Nat /\ coming' \in Nat /\ room' \in Nat
 <2>1. /\ inbound \in Nat /\ coming \in Nat /\ room \in Nat /\ inbound + 1 \in Nat
       /\ coming > 0 => coming - 1 \in Nat
   BY DEF SocketData
 <2>2. \A r \in 1..2 : r \in Nat OBVIOUS
 <2>3. QED BY <2>1, <2>2, Zenon DEF item_arrives, peer_drains
<1>3. SocketData' /\ NothingTakenForNobody' /\ SentWhole' /\ OperationFunctions'
  BY <1>1, <1>2, Zenon DEF SocketData, NothingTakenForNobody, SentWhole, OperationFunctions
<1>4. \A o \in Operations : OperationSafe(o)' BY <1>1 DEF OperationSafe
<1>5. QED BY <1>3, <1>4

LEMMA SocketOpsStarts == SocketOpsInit => SocketParts
<1>1. SUFFICES ASSUME SocketOpsInit PROVE SocketParts OBVIOUS
<1>2. OperationFunctions BY <1>1 DEF SocketOpsInit, OperationFunctions
<1>3. SocketData /\ SentWhole
  BY <1>1, SocketOpsAssumption DEF SocketOpsInit, SocketData, SentWhole, Operations
<1>4. NothingTakenForNobody
 <2>1. {o \in Receivers : future[o] = "result"} = {} BY <1>1, Zenon DEF SocketOpsInit, Operations
 <2>2. QED BY <1>1, <2>1, FS_EmptySet, Zenon DEF SocketOpsInit, NothingTakenForNobody
<1>5. \A o \in Operations : OperationSafe(o) BY <1>1 DEF SocketOpsInit, OperationSafe
<1>6. QED BY <1>2, <1>3, <1>4, <1>5, Zenon DEF SocketParts

LEMMA SocketOpsKept == SocketParts /\ [SocketOpsNext]_socketVars => SocketParts'
<1>1. SUFFICES ASSUME SocketParts, [SocketOpsNext]_socketVars PROVE SocketParts' OBVIOUS
<1>2. CASE UNCHANGED socketVars
 <2>1. /\ SocketData' /\ NothingTakenForNobody' /\ SentWhole' /\ OperationFunctions'
       /\ \A o \in Operations : OperationSafe(o)'
   BY <1>1, <1>2 DEF socketVars, SocketParts, SocketData, NothingTakenForNobody, SentWhole,
     OperationFunctions, OperationSafe
 <2>2. QED BY <2>1, Zenon DEF SocketParts
<1>3. CASE SocketOpsNext
 <2>1. used \subseteq Operations /\ UNCHANGED used
   BY <1>1, <1>3 DEF SocketParts, SocketData, Operations, SocketOpsNext
 <2>2. CASE item_arrives \/ peer_drains BY <1>1, <2>1, <2>2, PeerStep
 <2>3. ASSUME NEW o \in used, \/ start(o) \/ start_elsewhere(o) \/ cancel_operation(o)
                              \/ SocketStep(o) \/ WaiterTask(o)
       PROVE  SocketParts'
   BY <1>1, <2>1, <2>3, StartStep, PollStep, SockWaitStep DEF SocketStep
 <2>4. QED BY <1>3, <2>2, <2>3 DEF SocketOpsNext, SocketOpsStep
<1>4. QED BY <1>1, <1>2, <1>3, Zenon

\* A pending sock_ call is always waited for in exactly one place, takes nothing
\* for a caller that gave up, and sock_sendall sends the whole
\* (bindings/loop_api/socket_operation.rs).
THEOREM SocketOpsAreSafe == SocketOpsInit /\ [][SocketOpsNext]_socketVars => []SocketOpsSafe
<1>1. SocketParts => SocketOpsSafe BY SocketSafeParts DEF SocketParts
<1>2. QED BY <1>1, SocketOpsStarts, SocketOpsKept, PTL

-----------------------------------------------------------------------------
(* Outgoing connections: descriptor numbers are reused, and yet no watch and *)
(* no callback of an attempt takes another attempt's socket for its own.     *)

AttRecords == [st : {"unused", "pending", "ok", "failed", "cancelled"},
               fd : ConnFds \cup {0}, owner : Clients \cup {0},
               net : {"none", "inprogress", "connected", "refused"},
               wait : {"none", "queued", "armed", "woken", "gone", "again"}, done : BOOLEAN]
EntryRecords == [kind : {"done", "completed", "wakeup"}, a : Tries,
                 errno : {"none", "EBADF", "ECONNREFUSED"}]
ClientRecords ==
  [pc : {"idle", "trying", "awaiting", "ok", "failed", "cancelled"}, left : Int]

\* The types, as the steps below use them.
LEMMA ConnectTypes ==
  ASSUME ConnectTypeOK
  PROVE  /\ path \in {"fast", "native"} /\ Attempts \in Nat
         /\ \A a \in Tries : a \in Nat /\ a # 0 /\ a \in 0..Attempts /\ att[a] \in AttRecords
         /\ att \in [Tries -> AttRecords] /\ client \in [Clients -> ClientRecords]
         /\ \A f \in ConnFds : f # 0 /\ sockAt[f] \in Tries \cup {0} /\ epoll[f] \in Tries \cup {0}
         /\ sockAt \in [ConnFds -> 0..Attempts] /\ epoll \in [ConnFds -> 0..Attempts]
         /\ callbacks \in Seq(EntryRecords) /\ Len(callbacks) \in Nat
         /\ DOMAIN callbacks = 1..Len(callbacks)
         /\ \A i \in 1..Len(callbacks) : callbacks[i] \in EntryRecords
         /\ tasks \in Seq(Tries) /\ Len(tasks) \in Nat /\ DOMAIN tasks = 1..Len(tasks)
         /\ \A i \in 1..Len(tasks) : tasks[i] \in Tries
         /\ \A a \in Tries : att[a].st # "unused" => att[a].fd \in ConnFds /\ att[a].owner \in Clients
         /\ \A a \in Tries : att[a].st = "unused" => att[a].wait = "none" /\ ~att[a].done
<1>1. /\ path \in {"fast", "native"} /\ Attempts \in Nat
      /\ \A a \in Tries : a \in Nat /\ a # 0 /\ a \in 0..Attempts
 <2>1. Attempts \in Nat /\ Attempts # 0 /\ Paths \subseteq {"fast", "native"}
   BY ConnectWatchAssumption
 <2>2. path \in {"fast", "native"} BY <2>1 DEF ConnectTypeOK
 <2>3. QED BY <2>1, <2>2 DEF Tries
<1>2. att \in [Tries -> AttRecords] /\ client \in [Clients -> ClientRecords]
  BY DEF ConnectTypeOK, AttRecords, ClientRecords
<1>3. /\ sockAt \in [ConnFds -> 0..Attempts] /\ epoll \in [ConnFds -> 0..Attempts]
      /\ \A f \in ConnFds : f # 0 /\ sockAt[f] \in Tries \cup {0} /\ epoll[f] \in Tries \cup {0}
 <2>1. sockAt \in [ConnFds -> 0..Attempts] /\ epoll \in [ConnFds -> 0..Attempts]
   BY DEF ConnectTypeOK
 <2>2. ConnFds \subseteq Nat \ {0} BY ConnectWatchAssumption
 <2>3. \A n \in 0..Attempts : n \in Tries \cup {0} BY <1>1 DEF Tries
 <2>4. QED BY <2>1, <2>2, <2>3
<1>4. callbacks \in Seq(EntryRecords) /\ tasks \in Seq(Tries) BY DEF ConnectTypeOK, EntryRecords
<1>5. /\ Len(callbacks) \in Nat /\ DOMAIN callbacks = 1..Len(callbacks)
      /\ \A i \in 1..Len(callbacks) : callbacks[i] \in EntryRecords
  BY <1>4, LenProperties, ElementOfSeq
<1>6. /\ Len(tasks) \in Nat /\ DOMAIN tasks = 1..Len(tasks)
      /\ \A i \in 1..Len(tasks) : tasks[i] \in Tries
  BY <1>4, LenProperties, ElementOfSeq
<1>7. /\ \A a \in Tries : att[a].st # "unused" => att[a].fd \in ConnFds /\ att[a].owner \in Clients
      /\ \A a \in Tries : att[a].st = "unused" => att[a].wait = "none" /\ ~att[a].done
 <2>1. Unused.wait = "none" /\ Unused.done = FALSE BY DEF Unused
 <2>2. QED BY <2>1 DEF ConnectTypeOK
<1>8. QED BY <1>1, <1>2, <1>3, <1>4, <1>5, <1>6, <1>7

\* The step of an attempt that keeps its number and its owner.
LEMMA AttemptTypes ==
  ASSUME ConnectTypeOK, NEW a \in Tries, NEW r \in AttRecords, att' = [att EXCEPT ![a] = r],
         r.st # "unused", r.fd \in ConnFds, r.owner \in Clients,
         path' = path, client' \in [Clients -> ClientRecords],
         sockAt' \in [ConnFds -> 0..Attempts], epoll' \in [ConnFds -> 0..Attempts],
         callbacks' \in Seq(EntryRecords), tasks' \in Seq(Tries)
  PROVE  /\ ConnectTypeOK' /\ att'[a] = r /\ \A b \in Tries : b # a => att'[b] = att[b]
<1>1. att \in [Tries -> AttRecords] BY ConnectTypes
<1>2. /\ att' \in [Tries -> AttRecords] /\ att'[a] = r
      /\ \A b \in Tries : b # a => att'[b] = att[b]
  BY <1>1
<1>3. \A b \in Tries : IF att'[b].st = "unused" THEN att'[b] = Unused
                       ELSE att'[b].fd \in ConnFds /\ att'[b].owner \in Clients
  BY <1>2, Zenon DEF ConnectTypeOK
<1>4. QED BY <1>2, <1>3, Zenon DEF ConnectTypeOK, AttRecords, EntryRecords, ClientRecords

\* A new entry at the end of the loop's queue, and the first taken out.
LEMMA EntryAdded ==
  ASSUME ConnectTypeOK, NEW e \in EntryRecords, callbacks' = Append(callbacks, e)
  PROVE  /\ callbacks' \in Seq(EntryRecords) /\ Len(callbacks') = Len(callbacks) + 1
         /\ DOMAIN callbacks' = 1..(Len(callbacks) + 1)
         /\ callbacks'[Len(callbacks) + 1] = e
         /\ \A i \in 1..Len(callbacks) : callbacks'[i] = callbacks[i]
<1>1. callbacks \in Seq(EntryRecords) /\ Len(callbacks) \in Nat BY ConnectTypes
<1>2. QED BY <1>1, AppendProperties, LenProperties

LEMMA EntryTaken ==
  ASSUME ConnectTypeOK, callbacks # <<>>, callbacks' = Tail(callbacks)
  PROVE  /\ callbacks' \in Seq(EntryRecords) /\ Len(callbacks') = Len(callbacks) - 1
         /\ DOMAIN callbacks' = 1..(Len(callbacks) - 1)
         /\ Len(callbacks) >= 1 /\ Head(callbacks) = callbacks[1] /\ 1 \in 1..Len(callbacks)
         /\ \A i \in 1..(Len(callbacks) - 1) : callbacks'[i] = callbacks[i + 1]
<1>1. callbacks \in Seq(EntryRecords) /\ Len(callbacks) \in Nat BY ConnectTypes
<1>2. QED BY <1>1, HeadTailProperties, LenProperties

LEMMA TaskAdded ==
  ASSUME ConnectTypeOK, NEW a \in Tries, tasks' = Append(tasks, a)
  PROVE  /\ tasks' \in Seq(Tries) /\ Len(tasks') = Len(tasks) + 1
         /\ DOMAIN tasks' = 1..(Len(tasks) + 1) /\ tasks'[Len(tasks) + 1] = a
         /\ \A i \in 1..Len(tasks) : tasks'[i] = tasks[i]
<1>1. tasks \in Seq(Tries) /\ Len(tasks) \in Nat BY ConnectTypes, Zenon
<1>2. QED BY <1>1, AppendProperties, LenProperties

LEMMA TaskTaken ==
  ASSUME ConnectTypeOK, tasks # <<>>, tasks' = Tail(tasks)
  PROVE  /\ tasks' \in Seq(Tries) /\ Len(tasks') = Len(tasks) - 1
         /\ DOMAIN tasks' = 1..(Len(tasks) - 1)
         /\ Len(tasks) >= 1 /\ Head(tasks) = tasks[1] /\ 1 \in 1..Len(tasks)
         /\ \A i \in 1..(Len(tasks) - 1) : tasks'[i] = tasks[i + 1]
<1>1. tasks \in Seq(Tries) /\ Len(tasks) \in Nat BY ConnectTypes, Zenon
<1>2. QED BY <1>1, HeadTailProperties, LenProperties

\* What no step of the queues, the waits or the coroutines changes: an attempt
\* keeps its number and its owner, and a socket is at most closed.
KeepsNumbers ==
  /\ \A b \in Tries : att'[b].fd = att[b].fd /\ (att'[b].st = "unused" <=> att[b].st = "unused")
  /\ \A f \in ConnFds : sockAt'[f] = sockAt[f] \/ sockAt'[f] = 0

LEMMA NumbersKept ==
  ASSUME ConnectTypeOK, NumbersReused, KeepsNumbers
  PROVE  NumbersReused'
<1>1. \A a \in Tries : a \in Nat /\ a # 0 /\ (att[a].st # "unused" => att[a].fd \in ConnFds)
  BY ConnectTypes, Zenon
<1>2. SUFFICES ASSUME NEW a \in Tries, NEW b \in Tries, a < b, att'[b].st # "unused"
               PROVE  att'[a].st # "unused" /\ (att'[a].fd = att'[b].fd => sockAt'[att'[a].fd] # a)
  BY Zenon DEF NumbersReused
<1>3. att[a].st # "unused" /\ (att[a].fd = att[b].fd => sockAt[att[a].fd] # a)
  BY <1>2, Zenon DEF NumbersReused, KeepsNumbers
<1>4. QED BY <1>1, <1>2, <1>3 DEF KeepsNumbers

\* The futures stay as they are, and no connect that is over begins again: what
\* the queue says remains true, and so does a true completion at its end.
KeepsFutures ==
  /\ path' = path /\ sockAt' = sockAt
  /\ \A b \in Tries :
       /\ att'[b].st = att[b].st /\ att'[b].fd = att[b].fd /\ (att'[b].done <=> att[b].done)
       /\ att[b].net \in {"connected", "refused"} => att'[b].net = att[b].net
       /\ att[b].net = "inprogress" => att'[b].net \in {"inprogress", "connected", "refused"}
       /\ att[b].wait = "gone" => att'[b].wait = "gone"

LEMMA FuturesKept ==
  ASSUME ConnectTypeOK, ResumedInOrder, KeepsFutures, callbacks' = callbacks
  PROVE  ResumedInOrder'
<1>1. \A i \in DOMAIN callbacks : callbacks[i].a \in Tries BY ConnectTypes, Zenon DEF EntryRecords
<1>2. WakeupsDue' BY <1>1 DEF ResumedInOrder, WakeupsDue, Queued, KeepsFutures
<1>3. DonesFollowed' BY DEF ResumedInOrder, DonesFollowed, Queued
<1>4. CompletionsTrue' BY <1>1 DEF ResumedInOrder, CompletionsTrue, KeepsFutures
<1>5. QED BY <1>2, <1>3, <1>4, Zenon DEF ResumedInOrder, KeepsFutures

LEMMA WakeupFacts ==
  ASSUME ConnectTypeOK, ResumedInOrder
  PROVE  \A i \in 1..Len(callbacks) :
           /\ callbacks[i].a \in Tries
           /\ callbacks[i].kind = "wakeup" =>
                /\ att[callbacks[i].a].st \in {"ok", "failed", "cancelled"}
                /\ sockAt[att[callbacks[i].a].fd] = callbacks[i].a
                /\ att[callbacks[i].a].done \/ \E j \in 1..(i - 1) :
                     callbacks[j].kind = "done" /\ callbacks[j].a = callbacks[i].a
                /\ \A j \in 1..Len(callbacks) :
                     callbacks[j].kind = "wakeup" /\ callbacks[j].a = callbacks[i].a => j = i
           /\ callbacks[i].kind = "done" =>
                /\ \E j \in (i + 1)..Len(callbacks) :
                     callbacks[j].kind = "wakeup" /\ callbacks[j].a = callbacks[i].a
                /\ att[callbacks[i].a].st \in {"ok", "failed", "cancelled"}
                /\ sockAt[att[callbacks[i].a].fd] = callbacks[i].a
<1>1. DOMAIN callbacks = 1..Len(callbacks) /\ Len(callbacks) \in Nat BY ConnectTypes, Zenon
<1>2. \A i \in 1..Len(callbacks) : callbacks[i].a \in Tries
  BY ConnectTypes, Zenon DEF EntryRecords
<1>3. \A i \in 1..Len(callbacks) : callbacks[i].kind = "wakeup" =>
        /\ att[callbacks[i].a].st \in {"ok", "failed", "cancelled"}
        /\ sockAt[att[callbacks[i].a].fd] = callbacks[i].a
        /\ att[callbacks[i].a].done \/ \E j \in 1..(i - 1) :
             callbacks[j].kind = "done" /\ callbacks[j].a = callbacks[i].a
        /\ \A j \in 1..Len(callbacks) :
             callbacks[j].kind = "wakeup" /\ callbacks[j].a = callbacks[i].a => j = i
  BY <1>1, Zenon DEF ResumedInOrder, WakeupsDue, Queued
<1>4. \A i \in 1..Len(callbacks) : callbacks[i].kind = "done" =>
        \E j \in (i + 1)..Len(callbacks) :
          callbacks[j].kind = "wakeup" /\ callbacks[j].a = callbacks[i].a
  BY <1>1 DEF ResumedInOrder, DonesFollowed, Queued
<1>5. \A i \in 1..Len(callbacks) : \A j \in (i + 1)..Len(callbacks) : j \in 1..Len(callbacks)
  BY <1>1
<1>6. ASSUME NEW i \in 1..Len(callbacks), callbacks[i].kind = "done"
      PROVE  /\ att[callbacks[i].a].st \in {"ok", "failed", "cancelled"}
             /\ sockAt[att[callbacks[i].a].fd] = callbacks[i].a
 <2>1. PICK j \in (i + 1)..Len(callbacks) : callbacks[j].kind = "wakeup" /\ callbacks[j].a = callbacks[i].a
   BY <1>4, <1>6, Zenon
 <2>2. QED BY <1>3, <1>5, <2>1
<1>7. QED BY <1>2, <1>3, <1>4, <1>6, Zenon

LEMMA CompletionAdded ==
  ASSUME ConnectTypeOK, ResumedInOrder, KeepsFutures, NEW a \in Tries, NEW n \in Nat,
         n = Len(callbacks), Len(callbacks') = n + 1, DOMAIN callbacks' = 1..(n + 1),
         \A i \in 1..n : callbacks'[i] = callbacks[i],
         callbacks'[n + 1].kind = "completed", callbacks'[n + 1].a = a,
         att[a].st # "unused",
         att[a].st = "pending" => /\ att[a].wait # "gone" /\ att'[a].wait = "gone"
                                  /\ \/ att'[a].net \in {"connected", "refused"}
                                     \/ path = "fast" /\ att'[a].net = "inprogress"
                                  /\ callbacks'[n + 1].errno =
                                         IF path = "native" /\ att'[a].net = "refused"
                                         THEN "ECONNREFUSED" ELSE "none"
  PROVE  ResumedInOrder'
<1>1. DOMAIN callbacks = 1..n /\ \A i \in 1..n : callbacks[i].a \in Tries
  BY ConnectTypes, WakeupFacts, Zenon
<1>2. WakeupsDue'
 <2>1. SUFFICES ASSUME NEW i \in 1..n, callbacks[i].kind = "wakeup"
                PROVE  /\ att'[callbacks[i].a].st \in {"ok", "failed", "cancelled"}
                       /\ sockAt'[att'[callbacks[i].a].fd] = callbacks[i].a
                       /\ att'[callbacks[i].a].done \/ \E j \in 1..(i - 1) :
                            callbacks'[j].kind = "done" /\ callbacks'[j].a = callbacks[i].a
                       /\ \A j \in 1..(n + 1) :
                            callbacks'[j].kind = "wakeup" /\ callbacks'[j].a = callbacks[i].a => j = i
   BY DEF WakeupsDue, Queued
 <2>2. /\ att[callbacks[i].a].st \in {"ok", "failed", "cancelled"}
       /\ sockAt[att[callbacks[i].a].fd] = callbacks[i].a
       /\ att[callbacks[i].a].done \/ \E j \in 1..(i - 1) :
            callbacks[j].kind = "done" /\ callbacks[j].a = callbacks[i].a
       /\ \A j \in 1..n : callbacks[j].kind = "wakeup" /\ callbacks[j].a = callbacks[i].a => j = i
   BY <2>1, WakeupFacts
 <2>3. \A j \in 1..(i - 1) : callbacks'[j] = callbacks[j] OBVIOUS
 <2>4. \A j \in 1..(n + 1) : callbacks'[j].kind = "wakeup" /\ callbacks'[j].a = callbacks[i].a => j = i
   BY <2>2
 <2>5. /\ att'[callbacks[i].a].st = att[callbacks[i].a].st /\ att'[callbacks[i].a].fd = att[callbacks[i].a].fd
       /\ (att'[callbacks[i].a].done <=> att[callbacks[i].a].done) /\ sockAt' = sockAt
   BY <1>1, Zenon DEF KeepsFutures
 <2>6. QED BY <2>2, <2>3, <2>4, <2>5
<1>3. DonesFollowed'
 <2>1. SUFFICES ASSUME NEW i \in 1..n, callbacks[i].kind = "done"
                PROVE  \E j \in (i + 1)..(n + 1) :
                         callbacks'[j].kind = "wakeup" /\ callbacks'[j].a = callbacks[i].a
   BY DEF DonesFollowed, Queued
 <2>2. PICK j \in (i + 1)..n : callbacks[j].kind = "wakeup" /\ callbacks[j].a = callbacks[i].a
   BY <2>1, WakeupFacts, Zenon
 <2>3. j \in (i + 1)..(n + 1) /\ callbacks'[j] = callbacks[j] OBVIOUS
 <2>4. QED BY <2>2, <2>3, Zenon
<1>4. CompletionsTrue'
 <2>1. \A i \in 1..n : callbacks[i].kind = "completed" =>
          /\ att[callbacks[i].a].st # "unused"
          /\ att[callbacks[i].a].st = "pending" =>
               /\ att[callbacks[i].a].wait = "gone"
               /\ \A j \in 1..n : callbacks[j].kind = "completed" /\ callbacks[j].a = callbacks[i].a => j = i
               /\ \/ att[callbacks[i].a].net \in {"connected", "refused"}
                  \/ path = "fast" /\ att[callbacks[i].a].net = "inprogress"
               /\ callbacks[i].errno =
                    IF path = "native" /\ att[callbacks[i].a].net = "refused" THEN "ECONNREFUSED" ELSE "none"
   BY <1>1 DEF ResumedInOrder, CompletionsTrue
 <2>2. QED BY <1>1, <2>1 DEF CompletionsTrue, KeepsFutures
<1>5. QED BY <1>2, <1>3, <1>4, Zenon DEF ResumedInOrder, KeepsFutures

\* A step that changes only `client`.
LEMMA CreateConnectionStep ==
  ASSUME ConnectSafe, NEW c \in Clients, create_connection(c)
  PROVE  ConnectSafe'
<1>1. client \in [Clients -> ClientRecords] /\ Addresses \in Int
  BY ConnectTypes, ConnectWatchAssumption DEF ConnectSafe
<1>2. /\ client' = [client EXCEPT ![c] = [pc |-> "trying", left |-> Addresses]]
      /\ client[c].pc \in {"idle", "failed", "cancelled"}
      /\ path' = path /\ att' = att /\ sockAt' = sockAt /\ epoll' = epoll
      /\ callbacks' = callbacks /\ tasks' = tasks
  BY Zenon DEF create_connection
<1>3. /\ client' \in [Clients -> ClientRecords]
      /\ \A d \in Clients : d # c => client'[d] = client[d]
  BY <1>1, <1>2, Zenon DEF ClientRecords
<1>4. ConnectTypeOK' BY <1>2, <1>3, Zenon DEF ConnectSafe, ConnectTypeOK, ClientRecords
<1>5. SocketsAccounted'
 <2>1. \A f \in ConnFds : sockAt[f] # 0 =>
         /\ sockAt[f] \in Tries /\ att[sockAt[f]].st # "unused"
         /\ client[att[sockAt[f]].owner].pc \notin {"idle", "failed", "cancelled", "trying"}
   BY ConnectTypes, Zenon DEF ConnectSafe, SocketsAccounted
 <2>2. \A f \in ConnFds : sockAt[f] # 0 =>
         client'[att[sockAt[f]].owner] = client[att[sockAt[f]].owner]
   BY <1>2, <1>3, <2>1, ConnectTypes DEF ConnectSafe
 <2>3. QED BY <1>2, <2>2 DEF ConnectSafe, SocketsAccounted, Live
<1>6. FutureTellsTruth' /\ NumbersReused' /\ (path' = "fast" => LiveWaitsRegistered')
  BY <1>2, Zenon DEF ConnectSafe, FutureTellsTruth, NumbersReused, LiveWaitsRegistered
<1>7. WatchesInOrder'
  BY <1>2, SMT DEF ConnectSafe, WatchesInOrder, WatchesPolled, OldWatchesFirst, Live
<1>8. ResumedInOrder' BY <1>2, FuturesKept, Zenon DEF ConnectSafe, KeepsFutures
<1>9. QED BY <1>4, <1>5, <1>6, <1>7, <1>8, Zenon DEF ConnectSafe

\* The parts of the invariant, and what they say of one attempt.
LEMMA ConnectParts ==
  ASSUME ConnectSafe
  PROVE  /\ ConnectTypeOK /\ FutureTellsTruth /\ SocketsAccounted /\ NumbersReused
         /\ ResumedInOrder /\ WatchesPolled /\ OldWatchesFirst
         /\ path = "fast" => LiveWaitsRegistered
         /\ \A a \in Tries : att[a].st = "pending" \/ (Live(a) /\ ~att[a].done) => sockAt[att[a].fd] = a
         /\ \A f \in ConnFds : sockAt[f] # 0 =>
              /\ sockAt[f] \in Tries /\ att[sockAt[f]].st # "unused" /\ att[sockAt[f]].fd = f
              /\ att[sockAt[f]].owner \in Clients
              /\ client[att[sockAt[f]].owner].pc \notin {"idle", "failed", "cancelled", "trying"}
              /\ \A g \in ConnFds : sockAt[g] # 0 /\ att[sockAt[g]].owner = att[sockAt[f]].owner => g = f
         /\ \A f \in ConnFds : epoll[f] # 0 =>
              sockAt[f] = epoll[f] /\ epoll[f] \in Tries /\ att[epoll[f]].wait \in {"armed", "woken"}
         /\ \A a \in Tries : att[a].done => att[a].st \notin {"unused", "pending"}
<1>1. /\ ConnectTypeOK /\ FutureTellsTruth /\ SocketsAccounted /\ NumbersReused
      /\ ResumedInOrder /\ WatchesPolled /\ OldWatchesFirst
      /\ path = "fast" => LiveWaitsRegistered
  BY Zenon DEF ConnectSafe, WatchesInOrder
<1>2. /\ \A a \in Tries : att[a].st # "unused" => att[a].owner \in Clients
      /\ \A f \in ConnFds : sockAt[f] \in Tries \cup {0} /\ epoll[f] \in Tries \cup {0}
  BY <1>1, ConnectTypes, Zenon
<1>3. \A a \in Tries : att[a].done => att[a].st \notin {"unused", "pending"}
  BY <1>1, Zenon DEF ResumedInOrder
<1>4. QED BY <1>1, <1>2, <1>3 DEF SocketsAccounted

\* The attempt and the number a new connection takes.
LEMMA FreshFacts ==
  ASSUME ConnectSafe, Fresh # {}, FreeFds # {}
  PROVE  /\ Min(Fresh) \in Tries /\ att[Min(Fresh)].st = "unused"
         /\ \A b \in Tries : /\ b < Min(Fresh) => att[b].st # "unused"
                             /\ b > Min(Fresh) => att[b].st = "unused"
         /\ Min(FreeFds) \in ConnFds /\ sockAt[Min(FreeFds)] = 0 /\ epoll[Min(FreeFds)] = 0
<1>1. /\ \A b \in Tries : b \in Nat
      /\ \A f \in ConnFds : f \in Nat
  BY ConnectTypes, ConnectParts, ConnectWatchAssumption, Zenon
<1>2. \A S : S # {} /\ (\A x \in S : x \in Nat) => Min(S) \in S /\ \A y \in S : Min(S) <= y
 <2>1. SUFFICES ASSUME NEW S, S # {}, \A x \in S : x \in Nat
                PROVE  Min(S) \in S /\ \A y \in S : Min(S) <= y
       OBVIOUS
 <2>2. S \in SUBSET Nat BY <2>1
 <2>3. \E n \in S : \A y \in S : n <= y BY <2>1, <2>2, LeastNat
 <2>4. QED BY <2>3 DEF Min
<1>3. /\ Min(Fresh) \in Fresh /\ \A y \in Fresh : Min(Fresh) <= y
      /\ Min(FreeFds) \in FreeFds
  BY <1>1, <1>2 DEF Fresh, FreeFds
<1>4. \A b \in Tries : b < Min(Fresh) => att[b].st # "unused" BY <1>1, <1>3 DEF Fresh
<1>5. \A b \in Tries : b > Min(Fresh) => att[b].st = "unused"
  BY <1>1, <1>3, ConnectParts DEF Fresh, NumbersReused
<1>6. QED BY <1>3, <1>4, <1>5, ConnectParts DEF Fresh, FreeFds

\* What an attempt that starts changes, as one condition.
StartsAttempt(c, a, f, r) ==
  /\ client[c].pc = "trying" /\ att[a].st = "unused" /\ sockAt[f] = 0 /\ epoll[f] = 0
  /\ \A b \in Tries : b < a => att[b].st # "unused"
  /\ \A b \in Tries : b > a => att[b].st = "unused"
  /\ att' = [att EXCEPT ![a] = r] /\ r.fd = f /\ r.owner = c /\ ~r.done
  /\ r.st \in {"pending", "ok", "failed"} /\ r.wait \in {"none", "queued"}
  /\ r.st = "ok" => r.net = "connected"
  /\ r.st = "failed" => r.net = "refused"
  /\ path = "fast" => r.net # "none"
  /\ path = "native" => r.net = "none"
  /\ r.st # "failed" => sockAt' = [sockAt EXCEPT ![f] = a] /\ client'[c].pc \in {"ok", "awaiting"}
  /\ r.st = "failed" => sockAt' = sockAt /\ r.wait = "none"
  /\ client' \in [Clients -> ClientRecords]
  /\ \A d \in Clients : d # c => client'[d] = client[d]
  /\ path' = path /\ epoll' = epoll /\ callbacks' = callbacks
  /\ path = "fast" /\ r.wait = "queued" => tasks' = Append(tasks, a)
  /\ path = "native" \/ r.wait = "none" => tasks' = tasks

\* A new attempt takes the least number that is free; its watch, if it has one, is the
\* last to be polled.
LEMMA AttemptStarts ==
  ASSUME ConnectSafe, NEW c \in Clients, NEW a \in Tries, NEW f \in ConnFds, NEW r \in AttRecords,
         StartsAttempt(c, a, f, r)
  PROVE  ConnectSafe'
<1> USE DEF StartsAttempt
<1>1. /\ ConnectTypeOK /\ FutureTellsTruth /\ SocketsAccounted /\ NumbersReused
      /\ ResumedInOrder /\ WatchesPolled /\ OldWatchesFirst
      /\ path = "fast" => LiveWaitsRegistered
  BY ConnectParts, Zenon
<1>2. /\ path \in {"fast", "native"} /\ a \in Nat /\ a # 0 /\ a \in 0..Attempts
      /\ att[a].wait = "none" /\ ~att[a].done
      /\ \A b \in Tries : /\ b \in Nat /\ b # 0
                          /\ att[b].st # "unused" => att[b].fd \in ConnFds /\ att[b].owner \in Clients
                          /\ att[b].st = "unused" => att[b].wait = "none" /\ ~att[b].done
      /\ sockAt \in [ConnFds -> 0..Attempts] /\ epoll \in [ConnFds -> 0..Attempts]
      /\ callbacks \in Seq(EntryRecords) /\ tasks \in Seq(Tries)
      /\ Len(callbacks) \in Nat /\ DOMAIN callbacks = 1..Len(callbacks)
      /\ Len(tasks) \in Nat /\ DOMAIN tasks = 1..Len(tasks) /\ \A i \in 1..Len(tasks) : tasks[i] \in Tries
  BY <1>1, ConnectTypes, Zenon
<1>3. /\ sockAt' \in [ConnFds -> 0..Attempts]
      /\ \A g \in ConnFds : g # f => sockAt'[g] = sockAt[g]
      /\ sockAt'[f] = IF r.st = "failed" THEN 0 ELSE a
  BY <1>2
<1>4. tasks' \in Seq(Tries) BY <1>1, <1>2, TaskAdded
<1>5. ConnectTypeOK' /\ att'[a] = r /\ \A b \in Tries : b # a => att'[b] = att[b]
  BY <1>1, <1>2, <1>3, <1>4, AttemptTypes
<1>6. FutureTellsTruth' BY <1>1, <1>5 DEF FutureTellsTruth
<1>7. NumbersReused'
 <2>1. SUFFICES ASSUME NEW x \in Tries, NEW y \in Tries, x < y, att'[y].st # "unused"
                PROVE  att'[x].st # "unused" /\ (att'[x].fd = att'[y].fd => sockAt'[att'[x].fd] # x)
   BY Zenon DEF NumbersReused
 <2>2. CASE y = a
  <3>1. att'[x] = att[x] /\ att[x].st # "unused" /\ att'[y].fd = f /\ x # a
    BY <1>2, <1>5, <2>1, <2>2
  <3>2. QED BY <1>2, <1>3, <3>1
 <2>3. CASE y # a
  <3>1. att'[y] = att[y] /\ att'[x] = att[x] /\ x # a BY <1>2, <1>5, <2>1, <2>3
  <3>2. att[x].st # "unused" /\ (att[x].fd = att[y].fd => sockAt[att[x].fd] # x)
    BY <1>1, <2>1, <3>1 DEF NumbersReused
  <3>3. QED BY <1>2, <1>3, <3>1, <3>2
 <2>4. QED BY <2>2, <2>3, Zenon
<1>8. SocketsAccounted'
 <2>1. \A b \in Tries : att'[b].st = "pending" \/ (Live(b)' /\ ~att'[b].done) => sockAt'[att'[b].fd] = b
  <3>1. SUFFICES ASSUME NEW b \in Tries, b # a, att[b].st = "pending" \/ (Live(b) /\ ~att[b].done)
                 PROVE  sockAt'[att[b].fd] = b
    BY <1>3, <1>5 DEF Live
  <3>2. sockAt[att[b].fd] = b /\ att[b].fd \in ConnFds /\ b # 0
    BY <1>2, <3>1, ConnectParts, Zenon DEF Live
  <3>3. QED BY <1>3, <3>2
 <2>2. \A g \in ConnFds : sockAt[g] # 0 =>
         /\ g # f /\ sockAt[g] \in Tries /\ sockAt[g] # a
         /\ att[sockAt[g]].st # "unused" /\ att[sockAt[g]].fd = g
         /\ att[sockAt[g]].owner \in Clients /\ att[sockAt[g]].owner # c
         /\ client[att[sockAt[g]].owner].pc \notin {"idle", "failed", "cancelled", "trying"}
         /\ \A h \in ConnFds : sockAt[h] # 0 /\ att[sockAt[h]].owner = att[sockAt[g]].owner => h = g
   BY ConnectParts
 <2>3. ASSUME NEW g \in ConnFds, sockAt'[g] # 0
       PROVE  LET b == sockAt'[g] IN
               /\ att'[b].st # "unused" /\ att'[b].fd = g
               /\ client'[att'[b].owner].pc \notin {"idle", "failed", "cancelled", "trying"}
               /\ \A h \in ConnFds : sockAt'[h] # 0 /\ att'[sockAt'[h]].owner = att'[b].owner => h = g
  <3>1. CASE g = f
   <4>1. sockAt'[g] = a /\ att'[a] = r /\ r.st # "failed" BY <1>3, <1>5, <2>3, <3>1, Zenon
   <4>2. \A h \in ConnFds : h # f /\ sockAt'[h] # 0 => att'[sockAt'[h]].owner # c
     BY <1>3, <1>5, <2>2
   <4>3. QED BY <3>1, <4>1, <4>2
  <3>2. CASE g # f
   <4>1. /\ sockAt'[g] = sockAt[g] /\ att'[sockAt[g]] = att[sockAt[g]]
         /\ client'[att[sockAt[g]].owner] = client[att[sockAt[g]].owner]
     BY <1>3, <1>5, <2>2, <2>3, <3>2
   <4>2. \A h \in ConnFds : h # f /\ sockAt'[h] # 0 =>
           sockAt'[h] = sockAt[h] /\ att'[sockAt'[h]] = att[sockAt[h]]
     BY <1>3, <1>5, <2>2
   <4>3. sockAt'[f] # 0 => att'[sockAt'[f]].owner = c BY <1>3, <1>5
   <4>4. QED BY <2>2, <2>3, <3>2, <4>1, <4>2, <4>3
  <3>3. QED BY <3>1, <3>2, Zenon
 <2>4. \A g \in ConnFds : epoll'[g] # 0 => sockAt'[g] = epoll'[g] /\ att'[epoll'[g]].wait \in {"armed", "woken"}
  <3>1. SUFFICES ASSUME NEW g \in ConnFds, epoll[g] # 0
                 PROVE  sockAt'[g] = epoll[g] /\ att'[epoll[g]].wait \in {"armed", "woken"}
    BY Zenon
  <3>2. g # f /\ sockAt[g] = epoll[g] /\ epoll[g] \in Tries /\ att[epoll[g]].wait \in {"armed", "woken"}
    BY <3>1, ConnectParts, Zenon
  <3>3. epoll[g] # a BY <1>2, <3>2, Zenon
  <3>4. QED BY <1>3, <1>5, <3>2, <3>3, Zenon
 <2>5. QED BY <2>1, <2>3, <2>4, Zenon DEF SocketsAccounted
<1>9. ResumedInOrder'
 <2>1. \A i \in 1..Len(callbacks) : callbacks[i].a \in Tries /\ callbacks[i].kind \in {"done", "completed", "wakeup"}
   BY <1>1, ConnectTypes DEF EntryRecords
 <2>2. \A i \in 1..Len(callbacks) : callbacks[i].kind = "completed" => att[callbacks[i].a].st # "unused"
   BY <1>1, <1>2 DEF ResumedInOrder, CompletionsTrue
 <2>3. \A i \in 1..Len(callbacks) : att[callbacks[i].a].st # "unused"
   BY <1>1, <2>1, <2>2, WakeupFacts, Zenon
 <2>4. \A i \in 1..Len(callbacks) : att'[callbacks[i].a] = att[callbacks[i].a]
   BY <1>5, <2>1, <2>3
 <2>5. \A i \in 1..Len(callbacks) : callbacks[i].kind = "wakeup" =>
         sockAt'[att[callbacks[i].a].fd] = sockAt[att[callbacks[i].a].fd]
  <3>1. SUFFICES ASSUME NEW i \in 1..Len(callbacks), callbacks[i].kind = "wakeup"
                 PROVE  sockAt'[att[callbacks[i].a].fd] = sockAt[att[callbacks[i].a].fd]
    BY Zenon
  <3>2. sockAt[att[callbacks[i].a].fd] = callbacks[i].a /\ callbacks[i].a # 0 /\ att[callbacks[i].a].fd \in ConnFds
    BY <1>1, <1>2, <2>1, <2>3, <3>1, WakeupFacts
  <3>3. QED BY <1>3, <3>2
 <2>6. WakeupsDue' BY <1>1, <1>2, <2>4, <2>5 DEF ResumedInOrder, WakeupsDue, Queued
 <2>7. DonesFollowed' BY <1>1 DEF ResumedInOrder, DonesFollowed, Queued
 <2>8. CompletionsTrue' BY <1>1, <1>2, <2>4 DEF ResumedInOrder, CompletionsTrue
 <2>9. \A b \in Tries : att'[b].done => att'[b].st \notin {"unused", "pending"}
   BY <1>5, ConnectParts
 <2>10. QED BY <2>6, <2>7, <2>8, <2>9, Zenon DEF ResumedInOrder
<1>10. \A i \in 1..Len(tasks) : tasks[i] # a /\ att[tasks[i]].st # "unused"
 <2>1. \A i \in 1..Len(tasks) : att[tasks[i]].wait \in {"queued", "woken"}
  <3>1. CASE path = "fast" BY <1>1, <1>2, <3>1 DEF WatchesPolled
  <3>2. CASE path = "native"
   <4>1. tasks = <<>> BY <1>1, <3>2 DEF WatchesPolled
   <4>2. QED BY <4>1
  <3>3. QED BY <1>2, <3>1, <3>2
 <2>2. QED BY <1>2, <2>1
<1>11. WatchesPolled' /\ OldWatchesFirst'
 <2>1. CASE tasks' = tasks
  <3>1. path = "fast" => r.wait = "none"
   <4>1. SUFFICES ASSUME path = "fast", r.wait = "queued" PROVE FALSE BY Zenon
   <4>2. Len(tasks') = Len(tasks) + 1 BY <1>1, <4>1, TaskAdded, Zenon
   <4>3. QED BY <1>2, <2>1, <4>2
  <3>2. WatchesPolled'
   <4>1. path = "native" => tasks = <<>> /\ \A b \in Tries : att'[b].wait = "queued" => att'[b].net = "none"
     BY <1>1, <1>5 DEF WatchesPolled
   <4>2. path = "fast" => \A b \in Tries :
           /\ att'[b].wait \in {"queued", "woken"} <=> \E i \in DOMAIN tasks : tasks[i] = b
           /\ att'[b].st # "unused" => att'[b].net # "none"
     BY <1>1, <1>2, <1>5, <1>10, <3>1 DEF WatchesPolled
   <4>3. /\ \A b \in Tries : att'[b].wait = "again" => path = "fast"
         /\ \A b \in Tries : att'[b].wait \in {"armed", "woken"} => att'[b].net # "none"
     BY <1>1, <1>5 DEF WatchesPolled
   <4>4. \A i, j \in DOMAIN tasks : tasks[i] = tasks[j] => i = j
     BY <1>1, Zenon DEF WatchesPolled
   <4>5. QED BY <2>1, <4>1, <4>2, <4>3, <4>4 DEF WatchesPolled
  <3>3. OldWatchesFirst'
   <4>1. \A i \in DOMAIN tasks : att'[tasks[i]] = att[tasks[i]] BY <1>2, <1>5, <1>10
   <4>2. path = "native" => tasks = <<>> BY <1>1, Zenon DEF WatchesPolled
   <4>3. CASE path = "fast"
    <5>1. \A b \in Tries : Live(b)' => b # a /\ att'[b] = att[b] /\ Live(b)
      BY <1>5, <3>1, <4>3 DEF Live
    <5>2. \A i \in DOMAIN tasks : \A b \in Tries :
            tasks[i] < b /\ att'[b].fd = att'[tasks[i]].fd /\ Live(b)' =>
              att'[b].wait = "queued" /\ \E j \in (i + 1)..Len(tasks) : tasks[j] = b
      BY <1>1, <4>1, <5>1 DEF OldWatchesFirst
    <5>3. QED BY <2>1, <5>2 DEF OldWatchesFirst
   <4>4. CASE path = "native"
    <5>1. DOMAIN tasks' = {} BY <2>1, <4>2, <4>4
    <5>2. QED BY <5>1, Zenon DEF OldWatchesFirst
   <4>5. QED BY <1>2, <4>3, <4>4, Zenon
  <3>4. QED BY <3>2, <3>3, Zenon
 <2>2. CASE path = "fast" /\ r.wait = "queued"
  <3>1. PICK n \in Nat : n = Len(tasks) BY <1>2, Zenon
  <3>2. /\ Len(tasks') = n + 1 /\ DOMAIN tasks' = 1..(n + 1) /\ tasks'[n + 1] = a
        /\ \A i \in 1..n : tasks'[i] = tasks[i]
    BY <1>1, <2>2, <3>1, TaskAdded, Zenon
  <3>3. /\ DOMAIN tasks = 1..n
        /\ \A i \in 1..n : tasks[i] \in Tries /\ tasks[i] # a /\ att'[tasks[i]] = att[tasks[i]]
    BY <1>2, <1>5, <1>10, <3>1, Zenon
  <3>4. \A b \in Tries : att'[b].wait \in {"queued", "woken"} <=> \E i \in 1..(n + 1) : tasks'[i] = b
   <4>1. \A b \in Tries : att[b].wait \in {"queued", "woken"} <=> \E i \in 1..n : tasks[i] = b
     BY <1>1, <2>2, <3>3 DEF WatchesPolled
   <4>2. QED BY <1>5, <2>2, <3>2, <3>3, <4>1
  <3>5. \A i, j \in 1..(n + 1) : tasks'[i] = tasks'[j] => i = j
   <4>1. \A i, j \in 1..n : tasks[i] = tasks[j] => i = j BY <1>1, <3>3 DEF WatchesPolled
   <4>2. QED BY <3>2, <3>3, <4>1
  <3>6. WatchesPolled'
   <4>1. \A b \in Tries : att'[b].st # "unused" => att'[b].net # "none"
     BY <1>1, <1>5, <2>2 DEF WatchesPolled
   <4>2. /\ \A b \in Tries : att'[b].wait = "again" => path = "fast"
         /\ \A b \in Tries : att'[b].wait \in {"armed", "woken"} => att'[b].net # "none"
     BY <1>1, <1>5, <2>2 DEF WatchesPolled
   <4>3. path' # "native" /\ path' = path BY <2>2
   <4>4. /\ \A b \in Tries : att'[b].wait \in {"queued", "woken"} <=> \E i \in DOMAIN tasks' : tasks'[i] = b
         /\ \A i, j \in DOMAIN tasks' : tasks'[i] = tasks'[j] => i = j
     BY <3>2, <3>4, <3>5
   <4>5. QED BY <4>1, <4>2, <4>3, <4>4, Zenon DEF WatchesPolled
  <3>7. OldWatchesFirst'
   <4>1. SUFFICES ASSUME NEW i \in 1..(n + 1), NEW b \in Tries, tasks'[i] < b,
                         att'[b].fd = att'[tasks'[i]].fd, Live(b)'
                  PROVE  att'[b].wait = "queued" /\ \E j \in (i + 1)..(n + 1) : tasks'[j] = b
     BY <3>2 DEF OldWatchesFirst
   <4>2. CASE b = a
    <5>1. i # n + 1 BY <1>2, <3>2, <4>1, <4>2, Zenon
    <5>2. n + 1 \in (i + 1)..(n + 1) BY <5>1
    <5>3. QED BY <1>5, <2>2, <3>2, <4>2, <5>2
   <4>3. CASE b # a
    <5>1. att'[b] = att[b] /\ att[b].st # "unused" BY <1>2, <1>5, <4>1, <4>3, Zenon DEF Live
    <5>2. i \in 1..n BY <1>2, <3>2, <4>1, <4>3, <5>1
    <5>3. tasks[i] < b /\ att[b].fd = att[tasks[i]].fd /\ Live(b)
      BY <3>2, <3>3, <4>1, <5>1, <5>2 DEF Live
    <5>4. att[b].wait = "queued" /\ \E j \in (i + 1)..n : tasks[j] = b
      BY <1>1, <3>1, <3>3, <5>2, <5>3 DEF OldWatchesFirst
    <5>5. \A j \in (i + 1)..n : j \in (i + 1)..(n + 1) /\ tasks'[j] = tasks[j] BY <3>2, <5>2
    <5>6. QED BY <5>1, <5>4, <5>5
   <4>4. QED BY <4>2, <4>3, Zenon
  <3>8. QED BY <3>6, <3>7
 <2>3. QED BY <1>2, <2>1, <2>2, Zenon
<1>12. path' = "fast" => LiveWaitsRegistered'
 <2>1. SUFFICES ASSUME path = "fast", NEW b \in Tries, att'[b].wait = "armed", ~att'[b].done
                PROVE  epoll[att'[b].fd] = b
   BY DEF LiveWaitsRegistered
 <2>2. b # a BY <1>5, <2>1
 <2>3. QED BY <1>1, <1>5, <2>1, <2>2 DEF LiveWaitsRegistered
<1>13. QED BY <1>5, <1>6, <1>7, <1>8, <1>9, <1>11, <1>12, Zenon DEF ConnectSafe, WatchesInOrder


\* A watch that was polled has ended or is armed; on the loop's reactor it was the first
\* to be polled, and what waits behind it keeps its order.
LEMMA WatchPolled ==
  ASSUME ConnectSafe, NEW a \in Tries, Live(a), path' = path,
         \A b \in Tries : b # a => att'[b] = att[b],
         att'[a].fd = att[a].fd, att'[a].st = att[a].st, att'[a].wait \in {"gone", "armed"},
         path = "fast" => att'[a].net = att[a].net, att'[a].wait = "armed" => att'[a].net # "none",
         path = "fast" => tasks # <<>> /\ a = Head(tasks) /\ tasks' = Tail(tasks),
         path = "native" => tasks' = tasks
  PROVE  WatchesPolled' /\ OldWatchesFirst'
<1>1. ConnectTypeOK /\ WatchesPolled /\ OldWatchesFirst BY ConnectParts, Zenon
<1>2. /\ path \in {"fast", "native"} /\ Len(tasks) \in Nat /\ DOMAIN tasks = 1..Len(tasks)
      /\ \A i \in 1..Len(tasks) : tasks[i] \in Tries
      /\ \A b \in Tries : b \in Nat
  BY <1>1, ConnectTypes
<1>3. /\ \A b \in Tries : att'[b].wait = "again" => path = "fast"
      /\ \A b \in Tries : att'[b].wait \in {"armed", "woken"} => att'[b].net # "none"
  BY <1>1 DEF WatchesPolled
<1>4. CASE path = "native"
 <2>1. tasks' = <<>> /\ \A b \in Tries : att'[b].wait = "queued" => att'[b].net = "none"
   BY <1>1, <1>4 DEF WatchesPolled
 <2>2. DOMAIN tasks' = {} BY <2>1
 <2>3. QED BY <1>3, <1>4, <2>1, <2>2, Zenon DEF WatchesPolled, OldWatchesFirst
<1>5. CASE path = "fast"
 <2>1. PICK n \in Nat : n = Len(tasks) BY <1>2, Zenon
 <2>2. /\ Len(tasks') = n - 1 /\ DOMAIN tasks' = 1..(n - 1) /\ n >= 1 /\ tasks[1] = a
       /\ \A i \in 1..(n - 1) : tasks'[i] = tasks[i + 1] /\ i + 1 \in 1..n /\ i + 1 # 1
   BY <1>1, <1>5, <2>1, TaskTaken
 <2>3. /\ \A i, j \in 1..n : tasks[i] = tasks[j] => i = j
       /\ \A b \in Tries : /\ att[b].wait \in {"queued", "woken"} <=> \E i \in 1..n : tasks[i] = b
                           /\ att[b].st # "unused" => att[b].net # "none"
  <3>1. DOMAIN tasks = 1..n BY <1>2, <2>1, Zenon
  <3>2. \A b \in Tries : /\ att[b].wait \in {"queued", "woken"} <=> \E i \in DOMAIN tasks : tasks[i] = b
                         /\ att[b].st # "unused" => att[b].net # "none"
    BY <1>1, <1>5, Zenon DEF WatchesPolled
  <3>3. \A i, j \in DOMAIN tasks : tasks[i] = tasks[j] => i = j
    BY <1>1, <1>5, Zenon DEF WatchesPolled
  <3>4. QED BY <3>1, <3>2, <3>3
 <2>4. \A i \in 1..(n - 1) : tasks'[i] \in Tries /\ tasks'[i] # a BY <1>2, <2>1, <2>2, <2>3
 <2>5. \A b \in Tries : att'[b].wait \in {"queued", "woken"} <=> \E i \in 1..(n - 1) : tasks'[i] = b
  <3>1. SUFFICES ASSUME NEW b \in Tries, b # a
                 PROVE  att[b].wait \in {"queued", "woken"} <=> \E i \in 1..(n - 1) : tasks'[i] = b
    BY <2>4
  <3>2. ASSUME NEW i \in 1..n, tasks[i] = b PROVE \E k \in 1..(n - 1) : tasks'[k] = b
   <4>1. i # 1 BY <2>2, <3>1, <3>2, Zenon
   <4>2. i - 1 \in 1..(n - 1) /\ (i - 1) + 1 = i BY <4>1
   <4>3. tasks'[i - 1] = tasks[i] BY <2>2, <4>2, Zenon
   <4>4. QED BY <3>2, <4>2, <4>3, Zenon
  <3>3. QED BY <2>2, <2>3, <3>2
 <2>6. \A i, j \in 1..(n - 1) : tasks'[i] = tasks'[j] => i = j BY <2>2, <2>3
 <2>7. \A b \in Tries : att'[b].st # "unused" => att'[b].net # "none" BY <1>5, <2>3
 <2>8. OldWatchesFirst'
  <3>1. SUFFICES ASSUME NEW i \in 1..(n - 1), NEW b \in Tries, tasks'[i] < b,
                        att'[b].fd = att'[tasks'[i]].fd, Live(b)'
                 PROVE  att'[b].wait = "queued" /\ \E j \in (i + 1)..(n - 1) : tasks'[j] = b
    BY <2>2 DEF OldWatchesFirst
  <3>2. /\ i + 1 \in 1..n /\ tasks[i + 1] < b /\ att[b].fd = att[tasks[i + 1]].fd /\ Live(b)
    BY <2>2, <2>4, <3>1 DEF Live
  <3>3. att[b].wait = "queued" /\ \E j \in ((i + 1) + 1)..n : tasks[j] = b
    BY <1>1, <1>2, <2>1, <3>2 DEF OldWatchesFirst
  <3>4. PICK j \in ((i + 1) + 1)..n : tasks[j] = b BY <3>3, Zenon
  <3>5. /\ j \in 1..n /\ j # 1 /\ j - 1 \in (i + 1)..(n - 1) /\ j - 1 \in 1..(n - 1) /\ (j - 1) + 1 = j
        OBVIOUS
  <3>6. b # a BY <2>2, <2>3, <3>4, <3>5
  <3>7. tasks'[j - 1] = b BY <2>2, <3>4, <3>5, Zenon
  <3>8. QED BY <3>3, <3>5, <3>6, <3>7, Zenon
 <2>9. WatchesPolled'
  <3>1. \A b \in Tries : att'[b].wait \in {"queued", "woken"} <=> \E i \in DOMAIN tasks' : tasks'[i] = b
    BY <2>2, <2>5
  <3>2. \A i, j \in DOMAIN tasks' : tasks'[i] = tasks'[j] => i = j BY <2>2, <2>6
  <3>3. path' # "native" /\ path' = path BY <1>5
  <3>4. QED BY <1>3, <2>7, <3>1, <3>2, <3>3, Zenon DEF WatchesPolled
 <2>10. QED BY <2>8, <2>9
<1>6. QED BY <1>2, <1>4, <1>5, Zenon

\* A wait is over and its registration, if it has one, is taken away: no other wait of
\* the same number can be armed by then on the loop's own reactor.
LEMMA WaitEnds ==
  ASSUME ConnectSafe, NEW a \in Tries, Live(a), NEW r \in AttRecords, att' = [att EXCEPT ![a] = r],
         r.st = att[a].st, r.fd = att[a].fd, r.owner = att[a].owner, r.done = att[a].done, r.wait = "gone",
         \/ r.net = att[a].net
         \/ path = "native" /\ att[a].wait = "queued" /\ r.net \in {"connected", "refused"},
         path' = path, client' = client, sockAt' = sockAt,
         \/ epoll' = epoll /\ att[a].wait = "queued"
         \/ epoll' = [epoll EXCEPT ![att[a].fd] = 0],
         path = "fast" => tasks # <<>> /\ a = Head(tasks) /\ tasks' = Tail(tasks),
         path = "native" => tasks' = tasks,
         NEW e \in {"none", "EBADF", "ECONNREFUSED"},
         callbacks' = callbacks \/ callbacks' = Append(callbacks, Entry("completed", a, e)),
         att[a].st = "pending" => /\ \/ r.net \in {"connected", "refused"}
                                     \/ path = "fast" /\ r.net = "inprogress"
                                  /\ e = IF path = "native" /\ r.net = "refused" THEN "ECONNREFUSED" ELSE "none"
  PROVE  ConnectSafe'
<1>1. /\ ConnectTypeOK /\ FutureTellsTruth /\ SocketsAccounted /\ NumbersReused
      /\ ResumedInOrder /\ WatchesPolled /\ OldWatchesFirst
      /\ path = "fast" => LiveWaitsRegistered
  BY ConnectParts, Zenon
<1>2. /\ path \in {"fast", "native"} /\ att[a] \in AttRecords /\ att[a].st # "unused"
      /\ att[a].fd \in ConnFds /\ att[a].owner \in Clients
      /\ client \in [Clients -> ClientRecords] /\ epoll \in [ConnFds -> 0..Attempts] /\ Attempts \in Nat
      /\ sockAt \in [ConnFds -> 0..Attempts] /\ tasks \in Seq(Tries) /\ Len(callbacks) \in Nat
      /\ callbacks \in Seq(EntryRecords)
      /\ \A b \in Tries : b \in Nat /\ b # 0
  BY <1>1, ConnectTypes, Zenon DEF Live
<1>3. /\ epoll' \in [ConnFds -> 0..Attempts]
      /\ \A g \in ConnFds : epoll'[g] = epoll[g] \/ (g = att[a].fd /\ epoll'[g] = 0)
      /\ att[a].wait # "queued" => epoll'[att[a].fd] = 0
 <2>1. CASE epoll' = epoll /\ att[a].wait = "queued" BY <1>2, <2>1, Zenon
 <2>2. CASE epoll' = [epoll EXCEPT ![att[a].fd] = 0] BY <1>2, <2>2
 <2>3. QED BY <2>1, <2>2, Zenon
<1>4. /\ tasks' \in Seq(Tries) BY <1>1, <1>2, TaskTaken, Zenon
<1>5. /\ Entry("completed", a, e) \in EntryRecords /\ Entry("completed", a, e).kind = "completed"
      /\ Entry("completed", a, e).a = a /\ Entry("completed", a, e).errno = e
  BY DEF Entry, EntryRecords
<1>6. callbacks' \in Seq(EntryRecords) BY <1>1, <1>2, <1>5, EntryAdded, Zenon
<1>7. ConnectTypeOK' /\ att'[a] = r /\ \A b \in Tries : b # a => att'[b] = att[b]
  BY <1>1, <1>2, <1>3, <1>4, <1>6, AttemptTypes
<1>8. FutureTellsTruth'
 <2>1. att[a].wait = "queued" /\ path = "native" => att[a].st \notin {"ok", "failed"}
   BY <1>1, Zenon DEF WatchesPolled, FutureTellsTruth
 <2>2. QED BY <1>1, <1>7, <2>1 DEF FutureTellsTruth
<1>9. KeepsFutures
 <2>1. att[a].wait = "queued" /\ path = "native" => att[a].net = "none"
   BY <1>1, Zenon DEF WatchesPolled
 <2>2. \A b \in Tries : /\ att'[b].st = att[b].st /\ att'[b].fd = att[b].fd /\ (att'[b].done <=> att[b].done)
                        /\ att[b].net \in {"connected", "refused"} => att'[b].net = att[b].net
                        /\ att[b].net = "inprogress" => att'[b].net \in {"inprogress", "connected", "refused"}
                        /\ att[b].wait = "gone" => att'[b].wait = "gone"
   BY <1>7, <2>1
 <2>3. QED BY <2>2, Zenon DEF KeepsFutures
<1>10. NumbersReused'
 <2>1. KeepsNumbers BY <1>9, Zenon DEF KeepsFutures, KeepsNumbers
 <2>2. QED BY <1>1, <2>1, NumbersKept, Zenon
<1>11. ResumedInOrder'
 <2>1. CASE callbacks' = callbacks BY <1>1, <1>9, <2>1, FuturesKept
 <2>2. CASE callbacks' = Append(callbacks, Entry("completed", a, e))
  <3>1. PICK n \in Nat : n = Len(callbacks) BY <1>2
  <3>2. /\ Len(callbacks') = n + 1 /\ DOMAIN callbacks' = 1..(n + 1)
        /\ callbacks'[n + 1] = Entry("completed", a, e)
        /\ \A i \in 1..n : callbacks'[i] = callbacks[i]
    BY <1>1, <1>5, <2>2, <3>1, EntryAdded, Zenon
  <3>3. /\ callbacks'[n + 1].kind = "completed" /\ callbacks'[n + 1].a = a /\ callbacks'[n + 1].errno = e
    BY <1>5, <3>2, Zenon
  <3>4. att[a].st = "pending" =>
          /\ att[a].wait # "gone" /\ att'[a].wait = "gone"
          /\ att'[a].net \in {"connected", "refused"} \/ (path = "fast" /\ att'[a].net = "inprogress")
          /\ callbacks'[n + 1].errno =
               IF path = "native" /\ att'[a].net = "refused" THEN "ECONNREFUSED" ELSE "none"
    BY <1>7, <3>3 DEF Live
  <3>5. QED BY <1>1, <1>2, <1>9, <3>1, <3>2, <3>3, <3>4, CompletionAdded
 <2>3. QED BY <2>1, <2>2
<1>12. WatchesPolled' /\ OldWatchesFirst' BY <1>2, <1>7, WatchPolled, Zenon
<1>13. SocketsAccounted'
 <2>1. \A b \in Tries : att'[b].st = "pending" \/ (Live(b)' /\ ~att'[b].done) => sockAt'[att'[b].fd] = b
   BY <1>7, ConnectParts DEF Live
 <2>2. \A g \in ConnFds : sockAt[g] # 0 =>
          /\ sockAt[g] \in Tries
          /\ att'[sockAt[g]].st = att[sockAt[g]].st /\ att'[sockAt[g]].fd = att[sockAt[g]].fd
          /\ att'[sockAt[g]].owner = att[sockAt[g]].owner
   BY <1>7, ConnectParts
 <2>3. \A g \in ConnFds : epoll'[g] # 0 => epoll'[g] = epoll[g] /\ sockAt[g] = epoll[g]
                                           /\ epoll[g] \in Tries /\ att[epoll[g]].wait \in {"armed", "woken"}
   BY <1>3, ConnectParts
 <2>4. \A g \in ConnFds : epoll'[g] # 0 => epoll[g] # a
  <3>1. SUFFICES ASSUME NEW g \in ConnFds, epoll'[g] # 0, epoll[g] = a PROVE FALSE BY Zenon
  <3>2. sockAt[g] = a /\ att[a].wait # "queued" BY <2>3, <3>1, Zenon
  <3>3. att[a].fd = g BY <1>2, <3>2, ConnectParts, Zenon
  <3>4. QED BY <1>3, <3>1, <3>2, <3>3, Zenon
 <2>5. \A g \in ConnFds : epoll'[g] # 0 => sockAt'[g] = epoll'[g] /\ att'[epoll'[g]].wait \in {"armed", "woken"}
   BY <1>7, <2>3, <2>4
 <2>6. \A g \in ConnFds : sockAt'[g] # 0 =>
         /\ att'[sockAt'[g]].st # "unused" /\ att'[sockAt'[g]].fd = g
         /\ client'[att'[sockAt'[g]].owner].pc \notin {"idle", "failed", "cancelled", "trying"}
         /\ \A h \in ConnFds : sockAt'[h] # 0 /\ att'[sockAt'[h]].owner = att'[sockAt'[g]].owner => h = g
   BY <2>2, ConnectParts
 <2>7. QED BY <2>1, <2>5, <2>6, Zenon DEF SocketsAccounted
<1>14. path' = "fast" => LiveWaitsRegistered'
 <2>1. SUFFICES ASSUME path = "fast", NEW b \in Tries, att'[b].wait = "armed", ~att'[b].done
                PROVE  epoll'[att'[b].fd] = b
   BY Zenon DEF LiveWaitsRegistered
 <2>2. b # a /\ att'[b] = att[b] /\ att[b].wait = "armed" /\ ~att[b].done BY <1>7, <2>1, Zenon
 <2>3. epoll[att[b].fd] = b /\ sockAt[att[b].fd] = b /\ att[b].fd \in ConnFds /\ att[b].st # "unused"
  <3>1. att[b].st # "unused" BY <1>1, <2>2, ConnectTypes, Zenon
  <3>2. att[b].fd \in ConnFds BY <1>1, <3>1, ConnectTypes, Zenon
  <3>3. epoll[att[b].fd] = b BY <1>1, <2>1, <2>2, Zenon DEF LiveWaitsRegistered
  <3>4. QED BY <2>2, <3>1, <3>2, <3>3, ConnectParts, Zenon DEF Live
 <2>4. att[b].fd # att[a].fd
  <3>1. SUFFICES ASSUME att[b].fd = att[a].fd PROVE FALSE BY Zenon
  <3>2. CASE a < b
   <4>1. 1 \in DOMAIN tasks /\ tasks[1] = a BY <1>1, <2>1, TaskTaken, ConnectTypes, Zenon
   <4>2. att[b].wait = "queued"
     BY <1>1, <2>2, <3>1, <3>2, <4>1, Zenon DEF OldWatchesFirst, Live
   <4>3. QED BY <2>2, <4>2, Zenon
  <3>3. CASE b < a BY <1>1, <1>2, <2>3, <3>1, <3>3, Zenon DEF NumbersReused
  <3>4. QED BY <1>2, <2>2, <3>2, <3>3
 <2>5. QED BY <1>3, <2>2, <2>3, <2>4, Zenon
<1>15. QED BY <1>7, <1>8, <1>10, <1>11, <1>12, <1>13, <1>14 DEF ConnectSafe, WatchesInOrder

\* A wait is armed: it is the watch of its number's own socket.
LEMMA WaitArmed ==
  ASSUME ConnectSafe, NEW a \in Tries, ~att[a].done,
         att[a].wait = "queued" \/ (path = "native" /\ att[a].wait = "woken"), NEW r \in AttRecords, att' = [att EXCEPT ![a] = r],
         r.st = att[a].st, r.fd = att[a].fd, r.owner = att[a].owner, r.done = att[a].done, r.wait = "armed",
         \/ r.net = att[a].net /\ (path = "fast" \/ att[a].wait = "woken")
         \/ path = "native" /\ att[a].wait = "queued" /\ r.net = "inprogress",
         path' = path, client' = client, sockAt' = sockAt, callbacks' = callbacks,
         epoll' = [epoll EXCEPT ![att[a].fd] = a],
         path = "fast" => tasks # <<>> /\ a = Head(tasks) /\ tasks' = Tail(tasks),
         path = "native" => tasks' = tasks
  PROVE  ConnectSafe'
<1>1. /\ ConnectTypeOK /\ FutureTellsTruth /\ SocketsAccounted /\ NumbersReused
      /\ ResumedInOrder /\ WatchesPolled /\ OldWatchesFirst
      /\ path = "fast" => LiveWaitsRegistered
  BY ConnectParts, Zenon
<1>2. /\ path \in {"fast", "native"} /\ att[a] \in AttRecords /\ att[a].st # "unused" /\ a \in 0..Attempts
      /\ att[a].fd \in ConnFds /\ att[a].owner \in Clients
      /\ client \in [Clients -> ClientRecords] /\ epoll \in [ConnFds -> 0..Attempts]
      /\ sockAt \in [ConnFds -> 0..Attempts] /\ tasks \in Seq(Tries) /\ callbacks \in Seq(EntryRecords)
      /\ \A b \in Tries : b \in Nat /\ b # 0
  BY <1>1, ConnectTypes, Zenon
<1>3. /\ epoll' \in [ConnFds -> 0..Attempts] /\ epoll'[att[a].fd] = a
      /\ \A g \in ConnFds : g # att[a].fd => epoll'[g] = epoll[g]
  BY <1>2, Zenon
<1>4. tasks' \in Seq(Tries) BY <1>1, <1>2, TaskTaken, Zenon
<1>5. ConnectTypeOK' /\ att'[a] = r /\ \A b \in Tries : b # a => att'[b] = att[b]
  BY <1>1, <1>2, <1>3, <1>4, AttemptTypes
<1>6. Live(a) /\ sockAt[att[a].fd] = a BY ConnectParts DEF Live
<1>7. att[a].wait = "queued" /\ path = "native" => att[a].net = "none" BY <1>1 DEF WatchesPolled
<1>8. FutureTellsTruth' BY <1>1, <1>5, <1>7 DEF FutureTellsTruth
<1>9. KeepsFutures
 <2>1. \A b \in Tries : /\ att'[b].st = att[b].st /\ att'[b].fd = att[b].fd /\ (att'[b].done <=> att[b].done)
                        /\ att[b].net \in {"connected", "refused"} => att'[b].net = att[b].net
                        /\ att[b].net = "inprogress" => att'[b].net \in {"inprogress", "connected", "refused"}
                        /\ att[b].wait = "gone" => att'[b].wait = "gone"
   BY <1>5, <1>7
 <2>2. QED BY <2>1, Zenon DEF KeepsFutures
<1>10. NumbersReused'
 <2>1. KeepsNumbers BY <1>9, Zenon DEF KeepsFutures, KeepsNumbers
 <2>2. QED BY <1>1, <2>1, NumbersKept, Zenon
<1>11. ResumedInOrder' BY <1>1, <1>9, FuturesKept, Zenon
<1>12. WatchesPolled' /\ OldWatchesFirst'
 <2>1. r.net # "none" BY <1>1, <1>2 DEF WatchesPolled
 <2>2. path = "fast" => r.net = att[a].net BY <1>2
 <2>3. QED BY <1>2, <1>5, <1>6, <2>1, <2>2, WatchPolled, Zenon
<1>13. SocketsAccounted'
 <2>1. \A b \in Tries : att'[b].st = "pending" \/ (Live(b)' /\ ~att'[b].done) => sockAt'[att'[b].fd] = b
   BY <1>5, <1>6, ConnectParts DEF Live
 <2>2. \A g \in ConnFds : sockAt[g] # 0 =>
          /\ sockAt[g] \in Tries
          /\ att'[sockAt[g]].st = att[sockAt[g]].st /\ att'[sockAt[g]].fd = att[sockAt[g]].fd
          /\ att'[sockAt[g]].owner = att[sockAt[g]].owner
   BY <1>5, ConnectParts
 <2>3. \A g \in ConnFds : epoll'[g] # 0 => sockAt'[g] = epoll'[g] /\ att'[epoll'[g]].wait \in {"armed", "woken"}
  <3>1. SUFFICES ASSUME NEW g \in ConnFds, g # att[a].fd, epoll[g] # 0
                 PROVE  sockAt[g] = epoll[g] /\ att'[epoll[g]].wait \in {"armed", "woken"}
    BY <1>3, <1>5, <1>6
  <3>2. sockAt[g] = epoll[g] /\ epoll[g] \in Tries /\ att[epoll[g]].wait \in {"armed", "woken"}
    BY <3>1, ConnectParts, Zenon
  <3>3. QED BY <1>5, <3>2, Zenon
 <2>4. \A g \in ConnFds : sockAt'[g] # 0 =>
         /\ att'[sockAt'[g]].st # "unused" /\ att'[sockAt'[g]].fd = g
         /\ client'[att'[sockAt'[g]].owner].pc \notin {"idle", "failed", "cancelled", "trying"}
         /\ \A h \in ConnFds : sockAt'[h] # 0 /\ att'[sockAt'[h]].owner = att'[sockAt'[g]].owner => h = g
   BY <2>2, ConnectParts
 <2>5. QED BY <2>1, <2>3, <2>4, Zenon DEF SocketsAccounted
<1>14. path' = "fast" => LiveWaitsRegistered'
 <2>1. SUFFICES ASSUME path = "fast", NEW b \in Tries, b # a, att'[b].wait = "armed", ~att'[b].done
                PROVE  epoll'[att'[b].fd] = b
   BY <1>3, <1>5 DEF LiveWaitsRegistered
 <2>2. att'[b] = att[b] /\ att[b].st # "unused" BY <1>1, <1>5, <2>1, ConnectTypes, Zenon
 <2>3. epoll[att[b].fd] = b /\ att[b].fd \in ConnFds
   BY <1>1, <2>1, <2>2, ConnectTypes, Zenon DEF LiveWaitsRegistered
 <2>4. sockAt[att[b].fd] = b BY <1>2, <2>3, ConnectParts, Zenon
 <2>5. att[b].fd # att[a].fd BY <1>6, <2>1, <2>4, Zenon
 <2>6. QED BY <1>3, <2>2, <2>3, <2>5, Zenon
<1>15. QED BY <1>5, <1>8, <1>10, <1>11, <1>12, <1>13, <1>14, Zenon DEF ConnectSafe, WatchesInOrder

LEMMA RunWatchStep ==
  ASSUME ConnectSafe, run_connect_watch_task
  PROVE  ConnectSafe'
  <1> DEFINE a == Head(tasks)
             f == att[a].fd
<1>1. /\ ConnectTypeOK /\ WatchesPolled /\ ResumedInOrder
      /\ tasks # <<>> /\ tasks' = Tail(tasks) /\ path' = path /\ client' = client /\ sockAt' = sockAt
  BY ConnectParts, Zenon DEF run_connect_watch_task
<1>2. a = tasks[1] /\ 1 \in 1..Len(tasks) /\ a \in Tries /\ DOMAIN tasks = 1..Len(tasks)
  BY <1>1, TaskTaken, ConnectTypes
<1>3. path = "fast"
 <2>1. path = "native" => tasks = <<>> BY <1>1, Zenon DEF WatchesPolled
 <2>2. QED BY <1>1, <2>1, ConnectTypes, Zenon
<1>4. /\ att[a].wait \in {"queued", "woken"} /\ Live(a)
      /\ att[a].st # "unused" => att[a].net # "none"
  BY <1>1, <1>2, <1>3 DEF WatchesPolled, Live
<1>5. /\ att[a] \in AttRecords /\ att[a].st # "unused" /\ att \in [Tries -> AttRecords] /\ f \in ConnFds
  BY <1>1, <1>2, <1>4, ConnectTypes, Zenon
<1>6. att[a].st = "pending" => sockAt[f] = a /\ ~att[a].done /\ a # 0
  BY <1>1, <1>2, ConnectParts, ConnectTypes, Zenon
<1>7. att[a].wait = "queued" /\ sockAt[f] = a => epoll[f] = 0 BY <1>2, <1>5, ConnectParts
<1> HIDE DEF a, f
<1>8. \A w \in {"gone", "armed"} : /\ [att[a] EXCEPT !.wait = w] \in AttRecords
                                   /\ [att EXCEPT ![a].wait = w] = [att EXCEPT ![a] = [att[a] EXCEPT !.wait = w]]
  BY <1>2, <1>5 DEF AttRecords
<1>9. \A w : LET r == [att[a] EXCEPT !.wait = w] IN
         /\ r.st = att[a].st /\ r.fd = att[a].fd /\ r.owner = att[a].owner /\ r.done = att[a].done
         /\ r.net = att[a].net /\ r.wait = w
  BY <1>5, Zenon DEF AttRecords
<1>10. ASSUME att[a].wait = "queued", sockAt[f] = 0 \/ epoll[f] # 0,
              att' = [att EXCEPT ![a].wait = "gone"],
              callbacks' = IF att[a].done THEN callbacks ELSE Append(callbacks, Entry("completed", a, "EBADF")),
              UNCHANGED epoll
       PROVE  ConnectSafe'
 <2>1. att[a].st # "pending" BY <1>6, <1>7, <1>10
 <2> DEFINE r == [att[a] EXCEPT !.wait = "gone"]
 <2>2. /\ r \in AttRecords /\ r.st = att[a].st /\ r.fd = att[a].fd /\ r.owner = att[a].owner
       /\ r.done = att[a].done /\ r.net = att[a].net /\ r.wait = "gone" /\ att' = [att EXCEPT ![a] = r]
   BY <1>8, <1>9, <1>10
 <2> HIDE DEF r
 <2>3. callbacks' = callbacks \/ callbacks' = Append(callbacks, Entry("completed", a, "EBADF"))
   BY <1>10
 <2>4. QED BY <1>1, <1>2, <1>3, <1>4, <1>10, <2>1, <2>2, <2>3, WaitEnds DEF a
<1>11. ASSUME att[a].wait = "queued", sockAt[f] # 0, epoll[f] = 0, ~att[a].done, ~Writable(f),
              att' = [att EXCEPT ![a].wait = "armed"], epoll' = [epoll EXCEPT ![f] = a], UNCHANGED callbacks
       PROVE  ConnectSafe'
  <2> DEFINE r == [att[a] EXCEPT !.wait = "armed"]
 <2>1. /\ r \in AttRecords /\ r.st = att[a].st /\ r.fd = att[a].fd /\ r.owner = att[a].owner
       /\ r.done = att[a].done /\ r.net = att[a].net /\ r.wait = "armed" /\ att' = [att EXCEPT ![a] = r]
   BY <1>8, <1>9, <1>11
 <2> HIDE DEF r
 <2>2. /\ epoll[att[a].fd] = 0 /\ epoll' = [epoll EXCEPT ![att[a].fd] = a] /\ callbacks' = callbacks
       /\ a = Head(tasks)
   BY <1>11 DEF a, f
 <2>3. path # "native" BY <1>3
 <2>4. r.net = att[a].net /\ (path = "fast" \/ att[a].wait = "woken") BY <1>3, <2>1
 <2>5. QED BY <1>1, <1>2, <1>11, <2>1, <2>2, <2>3, <2>4, WaitArmed, Zenon
<1>12. ASSUME att[a].wait = "queued" => sockAt[f] # 0 /\ epoll[f] = 0 /\ (att[a].done \/ Writable(f)),
              WatchEnds(a, "none")
       PROVE  ConnectSafe'
 <2>1. att[a].st = "pending" => att[a].net \in {"connected", "refused", "inprogress"}
   BY <1>4, <1>5 DEF AttRecords
 <2>2. /\ att' = [att EXCEPT ![a].wait = "gone"] /\ epoll' = [epoll EXCEPT ![f] = 0]
       /\ callbacks' = callbacks \/ callbacks' = Append(callbacks, Entry("completed", a, "none"))
   BY <1>12 DEF WatchEnds, f
 <2> DEFINE r == [att[a] EXCEPT !.wait = "gone"]
 <2>3. /\ r \in AttRecords /\ r.st = att[a].st /\ r.fd = att[a].fd /\ r.owner = att[a].owner
       /\ r.done = att[a].done /\ r.net = att[a].net /\ r.wait = "gone" /\ att' = [att EXCEPT ![a] = r]
   BY <1>8, <1>9, <2>2
 <2> HIDE DEF r
 <2>4. QED
  <3>1. att[a].st = "pending" =>
          /\ r.net \in {"connected", "refused"} \/ (path = "fast" /\ r.net = "inprogress")
          /\ "none" = IF path = "native" /\ r.net = "refused" THEN "ECONNREFUSED" ELSE "none"
    BY <1>3, <2>1, <2>3
  <3>2. "none" \in {"none", "EBADF", "ECONNREFUSED"} /\ path # "native" BY <1>3
  <3>3. epoll' = [epoll EXCEPT ![att[a].fd] = 0] /\ a = Head(tasks) BY <2>2 DEF a, f
  <3>4. QED BY <1>1, <1>2, <1>4, <2>2, <2>3, <3>1, <3>2, <3>3, WaitEnds, Zenon
<1>13. QED BY <1>10, <1>11, <1>12, Zenon DEF run_connect_watch_task, a, f


\* No watch is polled, armed or woken.
KeepsWaits ==
  /\ path' = path /\ tasks' = tasks
  /\ \A b \in Tries :
       /\ \/ att'[b].wait = att[b].wait
          \/ path = "fast" /\ {att[b].wait, att'[b].wait} \subseteq {"gone", "again"}
       /\ att'[b].fd = att[b].fd
       /\ att'[b].st = "unused" <=> att[b].st = "unused"
       /\ att'[b].net = att[b].net \/ (att[b].net = "inprogress" /\ att'[b].net \in {"connected", "refused"})
       /\ att[b].done => att'[b].done

LEMMA WaitsKept ==
  ASSUME ConnectTypeOK, WatchesPolled, OldWatchesFirst, KeepsWaits
  PROVE  WatchesPolled' /\ OldWatchesFirst'
<1>1. \A i \in DOMAIN tasks : tasks[i] \in Tries BY ConnectTypes
<1>2. OldWatchesFirst' BY <1>1 DEF OldWatchesFirst, KeepsWaits, Live
<1>3. /\ path = "native" => tasks = <<>> /\ \A a \in Tries : att'[a].wait = "queued" => att'[a].net = "none"
      /\ path = "fast" => \A a \in Tries :
            /\ att'[a].wait \in {"queued", "woken"} <=> \E i \in DOMAIN tasks : tasks[i] = a
            /\ att'[a].st # "unused" => att'[a].net # "none"
  BY DEF WatchesPolled, KeepsWaits
<1>4. /\ \A i, j \in DOMAIN tasks : tasks[i] = tasks[j] => i = j
      /\ \A b \in Tries : att'[b].wait = "again" => path = "fast"
      /\ \A b \in Tries : att'[b].wait \in {"armed", "woken"} => att'[b].net # "none"
  BY DEF WatchesPolled, KeepsWaits
<1>5. WatchesPolled' BY <1>3, <1>4 DEF WatchesPolled, KeepsWaits
<1>6. QED BY <1>2, <1>5

\* An armed watch is woken: no older watch of its number is left, and no newer one is
\* there while its socket is open.
LEMMA WatchWoken ==
  ASSUME ConnectSafe, path = "fast", path' = path, NEW a \in Tries, att[a].wait = "armed",
         sockAt[att[a].fd] = a, \A b \in Tries : b # a => att'[b] = att[b],
         att'[a].fd = att[a].fd, att'[a].wait = "woken", att'[a].net # "none",
         tasks' = Append(tasks, a)
  PROVE  WatchesPolled' /\ OldWatchesFirst'
<1>1. ConnectTypeOK /\ WatchesPolled /\ OldWatchesFirst /\ NumbersReused BY ConnectParts
<1>2. /\ Len(tasks) \in Nat /\ DOMAIN tasks = 1..Len(tasks)
      /\ \A i \in 1..Len(tasks) : tasks[i] \in Tries
      /\ \A b \in Tries : b \in Nat /\ (att[b].st = "unused" => att[b].wait = "none")
  BY <1>1, ConnectTypes
<1>3. PICK n \in Nat : n = Len(tasks) BY <1>2, Zenon
<1>4. /\ Len(tasks') = n + 1 /\ DOMAIN tasks' = 1..(n + 1) /\ tasks'[n + 1] = a
      /\ \A i \in 1..n : tasks'[i] = tasks[i]
  BY <1>1, <1>3, TaskAdded
<1>5. /\ \A b \in Tries : /\ att[b].wait \in {"queued", "woken"} <=> \E i \in 1..n : tasks[i] = b
                          /\ att[b].st # "unused" => att[b].net # "none"
      /\ \A i, j \in 1..n : tasks[i] = tasks[j] => i = j
 <2>1. DOMAIN tasks = 1..n BY <1>2, <1>3
 <2>2. \A b \in Tries : /\ att[b].wait \in {"queued", "woken"} <=> \E i \in DOMAIN tasks : tasks[i] = b
                        /\ att[b].st # "unused" => att[b].net # "none"
   BY <1>1 DEF WatchesPolled
 <2>3. \A i, j \in DOMAIN tasks : tasks[i] = tasks[j] => i = j BY <1>1 DEF WatchesPolled
 <2>4. QED BY <2>1, <2>2, <2>3
<1>6. \A i \in 1..n : tasks[i] \in Tries /\ tasks[i] # a BY <1>2, <1>3, <1>5
<1>7. /\ \A b \in Tries : att'[b].wait \in {"queued", "woken"} <=> \E i \in 1..(n + 1) : tasks'[i] = b
  BY <1>4, <1>5, <1>6
<1>8. \A i, j \in 1..(n + 1) : tasks'[i] = tasks'[j] => i = j BY <1>4, <1>5, <1>6
<1>9. /\ \A b \in Tries : att'[b].st # "unused" => att'[b].net # "none"
      /\ \A b \in Tries : att'[b].wait = "again" => path = "fast"
      /\ \A b \in Tries : att'[b].wait \in {"armed", "woken"} => att'[b].net # "none"
  BY <1>1, <1>5 DEF WatchesPolled
<1>10. WatchesPolled' BY <1>4, <1>7, <1>8, <1>9 DEF WatchesPolled
<1>11. OldWatchesFirst'
 <2>1. SUFFICES ASSUME NEW i \in 1..(n + 1), NEW b \in Tries, tasks'[i] < b,
                       att'[b].fd = att'[tasks'[i]].fd, Live(b)'
                PROVE  att'[b].wait = "queued" /\ \E j \in (i + 1)..(n + 1) : tasks'[j] = b
   BY <1>4 DEF OldWatchesFirst
 <2>2. att[b].fd = att[tasks'[i]].fd /\ Live(b) /\ tasks'[i] \in Tries
   BY <1>4, <1>6, <2>1 DEF Live
 <2>3. i # n + 1
  <3>1. SUFFICES ASSUME i = n + 1 PROVE FALSE BY Zenon
  <3>2. a < b /\ att[b].st # "unused" /\ att[a].fd = att[b].fd
    BY <1>2, <1>4, <2>1, <2>2, <3>1 DEF Live
  <3>3. QED BY <1>1, <3>2, Zenon DEF NumbersReused
 <2>4. i \in 1..n BY <2>3
 <2>5. att[b].wait = "queued" /\ \E j \in (i + 1)..n : tasks[j] = b
   BY <1>1, <1>2, <1>3, <1>4, <2>1, <2>2, <2>4 DEF OldWatchesFirst
 <2>6. b # a BY <2>5
 <2>7. \A j \in (i + 1)..n : j \in (i + 1)..(n + 1) /\ tasks'[j] = tasks[j] BY <1>4, <2>4
 <2>8. QED BY <2>5, <2>6, <2>7
<1>12. QED BY <1>10, <1>11

\* An attempt changes, its socket and the registrations do not.
LEMMA SocketsKept ==
  ASSUME ConnectSafe, NEW a \in Tries, sockAt' = sockAt, epoll' = epoll, client' = client,
         \A b \in Tries : b # a => att'[b] = att[b],
         att'[a].fd = att[a].fd, att'[a].owner = att[a].owner,
         att'[a].st = "unused" <=> att[a].st = "unused",
         att'[a].st = "pending" => att[a].st = "pending", att[a].done => att'[a].done,
         \/ att'[a].wait = att[a].wait \/ (att[a].wait = "armed" /\ att'[a].wait = "woken")
         \/ {att[a].wait, att'[a].wait} \subseteq {"gone", "again"}
  PROVE  SocketsAccounted'
<1>1. \A b \in Tries : att'[b].st = "pending" \/ (Live(b)' /\ ~att'[b].done) => sockAt'[att'[b].fd] = b
  BY ConnectParts DEF Live
<1>2. \A g \in ConnFds : sockAt[g] # 0 =>
         /\ sockAt[g] \in Tries
         /\ att'[sockAt[g]].st = "unused" <=> att[sockAt[g]].st = "unused"
         /\ att'[sockAt[g]].fd = att[sockAt[g]].fd /\ att'[sockAt[g]].owner = att[sockAt[g]].owner
  BY ConnectParts
<1>3. \A g \in ConnFds : sockAt'[g] # 0 =>
        /\ att'[sockAt'[g]].st # "unused" /\ att'[sockAt'[g]].fd = g
        /\ client'[att'[sockAt'[g]].owner].pc \notin {"idle", "failed", "cancelled", "trying"}
        /\ \A h \in ConnFds : sockAt'[h] # 0 /\ att'[sockAt'[h]].owner = att'[sockAt'[g]].owner => h = g
  BY <1>2, ConnectParts
<1>4. \A g \in ConnFds : epoll'[g] # 0 => sockAt'[g] = epoll'[g] /\ att'[epoll'[g]].wait \in {"armed", "woken"}
  BY ConnectParts
<1>5. QED BY <1>1, <1>3, <1>4, Zenon DEF SocketsAccounted

LEMMA RegistrationsKept ==
  ASSUME ConnectSafe, NEW a \in Tries, path' = path, epoll' = epoll,
         \A b \in Tries : b # a => att'[b] = att[b],
         att'[a].fd = att[a].fd, att[a].done => att'[a].done,
         att'[a].wait = "armed" => att[a].wait = "armed"
  PROVE  path' = "fast" => LiveWaitsRegistered'
<1>1. path = "fast" => LiveWaitsRegistered BY ConnectParts, Zenon
<1>2. QED BY <1>1 DEF LiveWaitsRegistered

LEMMA ConnectResolvesStep ==
  ASSUME ConnectSafe, NEW a \in Tries, connect_resolves(a)
  PROVE  ConnectSafe'
<1>1. /\ ConnectTypeOK /\ FutureTellsTruth /\ NumbersReused /\ ResumedInOrder
      /\ WatchesPolled /\ OldWatchesFirst
  BY ConnectParts, Zenon
<1> DEFINE woken == epoll[att[a].fd] = a /\ att[a].wait = "armed"
<1>2. PICK net \in {"connected", "refused", "inprogress"} :
        /\ net = "inprogress" => woken
        /\ att' = [att EXCEPT ![a].net = net, ![a].wait = IF woken THEN "woken" ELSE @]
  BY DEF connect_resolves
<1>3. /\ att[a].net = "inprogress" /\ sockAt[att[a].fd] = a
      /\ tasks' = IF woken /\ path = "fast" THEN Append(tasks, a) ELSE tasks
      /\ path' = path /\ client' = client /\ sockAt' = sockAt /\ epoll' = epoll /\ callbacks' = callbacks
  BY DEF connect_resolves
<1>4. /\ att[a] \in AttRecords /\ att \in [Tries -> AttRecords] /\ att[a].st # "unused" /\ att[a].fd \in ConnFds
      /\ att[a].owner \in Clients /\ client \in [Clients -> ClientRecords]
      /\ epoll \in [ConnFds -> 0..Attempts] /\ sockAt \in [ConnFds -> 0..Attempts]
      /\ callbacks \in Seq(EntryRecords) /\ tasks \in Seq(Tries)
 <2>1. att[a].st # "unused"
  <3>1. Unused.net = "none" BY DEF Unused
  <3>2. QED BY <1>1, <1>3, <3>1, Zenon DEF ConnectTypeOK
 <2>2. QED BY <1>1, <2>1, ConnectTypes, Zenon
<1> DEFINE r == [att[a] EXCEPT !.net = net, !.wait = IF woken THEN "woken" ELSE @]
<1>5. /\ r \in AttRecords /\ r.st = att[a].st /\ r.fd = att[a].fd /\ r.owner = att[a].owner
      /\ r.done = att[a].done /\ r.net = net /\ r.wait = (IF woken THEN "woken" ELSE att[a].wait)
  BY <1>4 DEF AttRecords
<1>6. att' = [att EXCEPT ![a] = r] BY <1>2, <1>4
<1> HIDE DEF r
<1>7. tasks' \in Seq(Tries) BY <1>1, <1>3, <1>4, TaskAdded
<1>8. ConnectTypeOK' /\ att'[a] = r /\ \A b \in Tries : b # a => att'[b] = att[b]
  BY <1>1, <1>3, <1>4, <1>5, <1>6, <1>7, AttemptTypes
<1>9. FutureTellsTruth' BY <1>1, <1>3, <1>5, <1>8 DEF FutureTellsTruth
<1>10. KeepsFutures
 <2>1. \A b \in Tries : /\ att'[b].st = att[b].st /\ att'[b].fd = att[b].fd /\ (att'[b].done <=> att[b].done)
                        /\ att[b].net \in {"connected", "refused"} => att'[b].net = att[b].net
                        /\ att[b].net = "inprogress" => att'[b].net \in {"inprogress", "connected", "refused"}
                        /\ att[b].wait = "gone" => att'[b].wait = "gone"
   BY <1>3, <1>5, <1>8
 <2>2. QED BY <1>3, <2>1, Zenon DEF KeepsFutures
<1>11. NumbersReused'
 <2>1. KeepsNumbers BY <1>10 DEF KeepsFutures, KeepsNumbers
 <2>2. QED BY <1>1, <2>1, NumbersKept, Zenon
<1>12. ResumedInOrder' BY <1>1, <1>3, <1>10, FuturesKept, Zenon
<1>13. WatchesPolled' /\ OldWatchesFirst'
 <2>1. CASE woken /\ path = "fast"
  <3>1. r.wait = "woken" /\ tasks' = Append(tasks, a) BY <1>3, <1>5, <2>1
  <3>2. QED BY <1>3, <1>5, <1>8, <2>1, <3>1, WatchWoken, Zenon
 <2>2. CASE ~woken
  <3>1. r.wait = att[a].wait /\ tasks' = tasks BY <1>3, <1>5, <2>2, Zenon
  <3>2. KeepsWaits BY <1>2, <1>3, <1>5, <1>8, <2>2, <3>1 DEF KeepsWaits
  <3>3. QED BY <1>1, <3>2, WaitsKept, Zenon
 <2>3. CASE woken /\ path # "fast"
  <3>1. path = "native" /\ tasks' = tasks /\ tasks = <<>>
    BY <1>1, <1>3, <2>3, ConnectTypes, Zenon DEF WatchesPolled
  <3>2. DOMAIN tasks' = {} BY <3>1
  <3>3. \A b \in Tries : att'[b].wait = "queued" => att'[b].net = "none"
    BY <1>1, <1>5, <1>8, <2>3, <3>1 DEF WatchesPolled
  <3>4. /\ \A b \in Tries : att'[b].wait # "again"
        /\ \A b \in Tries : att'[b].wait \in {"armed", "woken"} => att'[b].net # "none"
    BY <1>1, <1>5, <1>8, <2>3, <3>1 DEF WatchesPolled
  <3>5. QED BY <1>3, <3>1, <3>2, <3>3, <3>4, Zenon DEF WatchesPolled, OldWatchesFirst
 <2>4. QED BY <2>1, <2>2, <2>3, Zenon
<1>14. r.wait = att[a].wait \/ (att[a].wait = "armed" /\ r.wait = "woken") BY <1>5
<1>15. SocketsAccounted' BY <1>3, <1>5, <1>8, <1>14, SocketsKept
<1>16. path' = "fast" => LiveWaitsRegistered' BY <1>3, <1>5, <1>8, <1>14, RegistrationsKept
<1>17. QED BY <1>8, <1>9, <1>11, <1>12, <1>13, <1>15, <1>16, Zenon DEF ConnectSafe, WatchesInOrder


\* The first entry of the queue is taken out; an entry that told a watch leaves its mark.
LEMMA CallbackTaken ==
  ASSUME ConnectTypeOK, ResumedInOrder, NEW n \in Nat, n = Len(callbacks),
         Len(callbacks') = n - 1, DOMAIN callbacks' = 1..(n - 1),
         \A i \in 1..(n - 1) : callbacks'[i] = callbacks[i + 1], path' = path,
         \A b \in Tries : /\ att'[b].st = att[b].st /\ att'[b].fd = att[b].fd /\ att'[b].net = att[b].net
                          /\ att[b].done => att'[b].done
                          /\ att'[b].done => att[b].done \/ att[b].st \notin {"unused", "pending"}
                          /\ att[b].wait = "gone" => \/ att'[b].wait = "gone"
                                                     \/ callbacks[1].kind = "completed" /\ b = callbacks[1].a,
         \A i \in 2..n : callbacks[i].kind = "wakeup" =>
            sockAt'[att[callbacks[i].a].fd] = callbacks[i].a,
         callbacks[1].kind = "done" => att'[callbacks[1].a].done
  PROVE  ResumedInOrder'
<1>1. DOMAIN callbacks = 1..n /\ \A i \in 1..n : callbacks[i].a \in Tries
  BY ConnectTypes, WakeupFacts
<1>2. \A i \in 1..(n - 1) : i + 1 \in 1..n /\ i + 1 \in 2..n OBVIOUS
<1>3. WakeupsDue'
 <2>1. SUFFICES ASSUME NEW i \in 1..(n - 1), callbacks[i + 1].kind = "wakeup"
                PROVE  /\ att'[callbacks[i + 1].a].st \in {"ok", "failed", "cancelled"}
                       /\ sockAt'[att'[callbacks[i + 1].a].fd] = callbacks[i + 1].a
                       /\ att'[callbacks[i + 1].a].done \/ \E j \in 1..(i - 1) :
                            callbacks'[j].kind = "done" /\ callbacks'[j].a = callbacks[i + 1].a
                       /\ \A j \in 1..(n - 1) :
                            callbacks'[j].kind = "wakeup" /\ callbacks'[j].a = callbacks[i + 1].a => j = i
  <3>1. SUFFICES ASSUME NEW i \in DOMAIN callbacks', callbacks'[i].kind = "wakeup"
                 PROVE  /\ att'[callbacks'[i].a].st \in {"ok", "failed", "cancelled"}
                        /\ sockAt'[att'[callbacks'[i].a].fd] = callbacks'[i].a
                        /\ att'[callbacks'[i].a].done \/ \E j \in 1..(i - 1) :
                             callbacks'[j].kind = "done" /\ callbacks'[j].a = callbacks'[i].a
                        /\ \A j \in DOMAIN callbacks' :
                             callbacks'[j].kind = "wakeup" /\ callbacks'[j].a = callbacks'[i].a => j = i
    BY Zenon DEF WakeupsDue, Queued
  <3>2. i \in 1..(n - 1) /\ callbacks'[i] = callbacks[i + 1] /\ callbacks[i + 1].kind = "wakeup"
    BY <3>1
  <3>3. QED BY <3>2
 <2>2. PICK m \in 2..n : m = i + 1 BY <1>2, Zenon
 <2>3. /\ m \in 1..n /\ callbacks[m].kind = "wakeup" /\ callbacks[m].a \in Tries
   BY <1>1, <2>1, <2>2
 <2>4. /\ att[callbacks[m].a].st \in {"ok", "failed", "cancelled"}
       /\ att[callbacks[m].a].done \/ \E j \in 1..(m - 1) :
            callbacks[j].kind = "done" /\ callbacks[j].a = callbacks[m].a
       /\ \A j \in 1..n : callbacks[j].kind = "wakeup" /\ callbacks[j].a = callbacks[m].a => j = m
   BY <2>3, WakeupFacts
 <2>5. sockAt'[att'[callbacks[m].a].fd] = callbacks[m].a BY <2>3
 <2>6. att'[callbacks[m].a].done \/ \E j \in 1..(i - 1) :
         callbacks'[j].kind = "done" /\ callbacks'[j].a = callbacks[m].a
  <3>1. SUFFICES ASSUME ~att'[callbacks[m].a].done
                 PROVE  \E j \in 1..(i - 1) : callbacks'[j].kind = "done" /\ callbacks'[j].a = callbacks[m].a
    BY Zenon
  <3>2. PICK j \in 1..(m - 1) : callbacks[j].kind = "done" /\ callbacks[j].a = callbacks[m].a
    BY <2>3, <2>4, <3>1, Zenon
  <3>3. j # 1 BY <3>1, <3>2
  <3>4. j - 1 \in 1..(i - 1) /\ j - 1 \in 1..(n - 1) /\ (j - 1) + 1 = j BY <2>2, <3>3
  <3>5. callbacks'[j - 1] = callbacks[j] BY <3>4, Zenon
  <3>6. QED BY <3>2, <3>4, <3>5
 <2>7. \A j \in 1..(n - 1) : callbacks'[j].kind = "wakeup" /\ callbacks'[j].a = callbacks[m].a => j = i
   BY <1>2, <2>2, <2>4
 <2>8. att'[callbacks[m].a].st \in {"ok", "failed", "cancelled"} BY <2>3, <2>4, Zenon
 <2>9. QED BY <2>2, <2>5, <2>6, <2>7, <2>8
<1>4. DonesFollowed'
 <2>1. SUFFICES ASSUME NEW i \in 1..(n - 1), callbacks[i + 1].kind = "done"
                PROVE  \E j \in (i + 1)..(n - 1) :
                         callbacks'[j].kind = "wakeup" /\ callbacks'[j].a = callbacks[i + 1].a
   BY DEF DonesFollowed, Queued
 <2>2. PICK m \in 1..n : m = i + 1 BY <1>2
 <2>3. PICK j \in (m + 1)..n : callbacks[j].kind = "wakeup" /\ callbacks[j].a = callbacks[m].a
   BY <2>1, <2>2, WakeupFacts
 <2>4. j - 1 \in (i + 1)..(n - 1) /\ j - 1 \in 1..(n - 1) /\ (j - 1) + 1 = j BY <2>2
 <2>5. callbacks'[j - 1] = callbacks[j] BY <2>4, Zenon
 <2>6. QED BY <2>2, <2>3, <2>4, <2>5
<1>5. CompletionsTrue'
 <2>1. \A i \in 1..n : callbacks[i].kind = "completed" =>
          /\ att[callbacks[i].a].st # "unused"
          /\ att[callbacks[i].a].st = "pending" =>
               /\ att[callbacks[i].a].wait = "gone"
               /\ \A j \in 1..n : callbacks[j].kind = "completed" /\ callbacks[j].a = callbacks[i].a => j = i
               /\ \/ att[callbacks[i].a].net \in {"connected", "refused"}
                  \/ path = "fast" /\ att[callbacks[i].a].net = "inprogress"
               /\ callbacks[i].errno =
                    IF path = "native" /\ att[callbacks[i].a].net = "refused" THEN "ECONNREFUSED" ELSE "none"
   BY <1>1 DEF ResumedInOrder, CompletionsTrue
 <2>2. SUFFICES ASSUME NEW i \in 1..(n - 1), callbacks[i + 1].kind = "completed"
                PROVE  /\ att'[callbacks[i + 1].a].st # "unused"
                       /\ att'[callbacks[i + 1].a].st = "pending" =>
                            /\ att'[callbacks[i + 1].a].wait = "gone"
                            /\ \A j \in 1..(n - 1) : callbacks'[j].kind = "completed"
                                    /\ callbacks'[j].a = callbacks[i + 1].a => j = i
                            /\ \/ att'[callbacks[i + 1].a].net \in {"connected", "refused"}
                               \/ path' = "fast" /\ att'[callbacks[i + 1].a].net = "inprogress"
                            /\ callbacks[i + 1].errno =
                                 IF path' = "native" /\ att'[callbacks[i + 1].a].net = "refused"
                                 THEN "ECONNREFUSED" ELSE "none"
   BY DEF CompletionsTrue
 <2>3. PICK m \in 2..n : m = i + 1 BY <1>2, Zenon
 <2>4. m \in 1..n /\ m # 1 /\ 1 \in 1..n /\ callbacks[m].kind = "completed" /\ callbacks[m].a \in Tries
   BY <1>1, <2>2, <2>3
 <2>5. SUFFICES ASSUME att[callbacks[m].a].st = "pending"
                PROVE  /\ att'[callbacks[m].a].wait = "gone"
                       /\ \A j \in 1..(n - 1) : callbacks'[j].kind = "completed"
                               /\ callbacks'[j].a = callbacks[m].a => j = i
   BY <2>1, <2>3, <2>4
 <2>6. /\ att[callbacks[m].a].wait = "gone"
       /\ \A j \in 1..n : callbacks[j].kind = "completed" /\ callbacks[j].a = callbacks[m].a => j = m
   BY <2>1, <2>4, <2>5, Zenon
 <2>7. att'[callbacks[m].a].wait = "gone" BY <2>4, <2>6, Zenon
 <2>8. QED BY <1>2, <2>3, <2>6, <2>7
<1>6. \A b \in Tries : att'[b].done => att'[b].st \notin {"unused", "pending"}
  BY Zenon DEF ResumedInOrder
<1>7. QED BY <1>3, <1>4, <1>5, <1>6 DEF ResumedInOrder

\* A future that was pending is done: its two entries go to the end of the queue, from
\* which at most a completion was taken.
LEMMA FutureDone ==
  ASSUME ConnectTypeOK, ResumedInOrder, NEW a \in Tries, att[a].st = "pending", sockAt[att[a].fd] = a,
         NEW n \in Nat, NEW k \in {0, 1}, n = Len(callbacks), k <= n,
         k = 1 => callbacks[1].kind = "completed",
         Len(callbacks') = (n - k) + 2, DOMAIN callbacks' = 1..((n - k) + 2),
         \A i \in 1..(n - k) : callbacks'[i] = callbacks[i + k],
         callbacks'[(n - k) + 1].kind = "done", callbacks'[(n - k) + 1].a = a,
         callbacks'[(n - k) + 2].kind = "wakeup", callbacks'[(n - k) + 2].a = a,
         path' = path, sockAt' = sockAt, \A b \in Tries : b # a => att'[b] = att[b],
         att'[a].fd = att[a].fd, att'[a].st \in {"ok", "failed", "cancelled"}
  PROVE  ResumedInOrder'
<1>1. PICK m \in Nat : m = n - k
 <2>1. k \in Nat /\ k <= n OBVIOUS
 <2>2. n - k \in Nat BY <2>1
 <2>3. QED BY <2>2
<1>2. /\ DOMAIN callbacks' = 1..(m + 2) /\ Len(callbacks') = m + 2
      /\ \A i \in 1..m : callbacks'[i] = callbacks[i + k] /\ i + k \in 1..n
      /\ callbacks'[m + 1].kind = "done" /\ callbacks'[m + 1].a = a
      /\ callbacks'[m + 2].kind = "wakeup" /\ callbacks'[m + 2].a = a
  BY <1>1
<1>3. DOMAIN callbacks = 1..n /\ \A i \in 1..n : callbacks[i].a \in Tries
  BY ConnectTypes, WakeupFacts, Zenon
<1>4. \A i \in 1..n : callbacks[i].kind \in {"wakeup", "done"} => callbacks[i].a # a
  BY WakeupFacts
<1>5. WakeupsDue'
 <2>1. SUFFICES ASSUME NEW i \in 1..(m + 2), callbacks'[i].kind = "wakeup"
                PROVE  /\ att'[callbacks'[i].a].st \in {"ok", "failed", "cancelled"}
                       /\ sockAt'[att'[callbacks'[i].a].fd] = callbacks'[i].a
                       /\ att'[callbacks'[i].a].done \/ \E j \in 1..(i - 1) :
                            callbacks'[j].kind = "done" /\ callbacks'[j].a = callbacks'[i].a
                       /\ \A j \in 1..(m + 2) :
                            callbacks'[j].kind = "wakeup" /\ callbacks'[j].a = callbacks'[i].a => j = i
   BY <1>2 DEF WakeupsDue, Queued
 <2>2. CASE i = m + 2
  <3>1. m + 1 \in 1..(i - 1) BY <2>2
  <3>2. \A j \in 1..(m + 2) : callbacks'[j].kind = "wakeup" /\ callbacks'[j].a = a => j = m + 2
    BY <1>2, <1>4
  <3>3. QED BY <1>2, <2>2, <3>1, <3>2
 <2>3. CASE i # m + 2
  <3>1. i \in 1..m BY <1>2, <2>1, <2>3
  <3>2. PICK p \in 1..n : p = i + k BY <1>2, <3>1, Zenon
  <3>3. /\ callbacks'[i] = callbacks[p] /\ callbacks[p].kind = "wakeup"
        /\ callbacks[p].a \in Tries /\ callbacks[p].a # a
    BY <1>2, <1>3, <1>4, <2>1, <3>1, <3>2
  <3>4. /\ att[callbacks[p].a].st \in {"ok", "failed", "cancelled"}
        /\ sockAt[att[callbacks[p].a].fd] = callbacks[p].a
        /\ att[callbacks[p].a].done \/ \E j \in 1..(p - 1) :
             callbacks[j].kind = "done" /\ callbacks[j].a = callbacks[p].a
        /\ \A j \in 1..n : callbacks[j].kind = "wakeup" /\ callbacks[j].a = callbacks[p].a => j = p
    BY <3>3, WakeupFacts
  <3>5. ASSUME NEW j \in 1..(p - 1), callbacks[j].kind = "done", callbacks[j].a = callbacks[p].a
        PROVE  \E q \in 1..(i - 1) : callbacks'[q].kind = "done" /\ callbacks'[q].a = callbacks[p].a
   <4>1. j # k BY <3>5
   <4>2. j - k \in 1..(i - 1) /\ j - k \in 1..m /\ (j - k) + k = j BY <3>1, <3>2, <4>1
   <4>3. callbacks'[j - k] = callbacks[j] BY <1>2, <4>2
   <4>4. QED BY <3>5, <4>2, <4>3
  <3>6. ASSUME NEW j \in 1..(m + 2), callbacks'[j].kind = "wakeup", callbacks'[j].a = callbacks[p].a
        PROVE  j = i
   <4>1. j # m + 1 /\ j # m + 2 BY <1>2, <3>3, <3>6
   <4>2. j \in 1..m /\ j + k \in 1..n /\ callbacks'[j] = callbacks[j + k] BY <1>2, <4>1
   <4>3. j + k = p BY <3>4, <3>6, <4>2
   <4>4. QED BY <3>2, <4>3
  <3>7. att'[callbacks[p].a] = att[callbacks[p].a] BY <3>3, Zenon
  <3>8. QED BY <3>3, <3>4, <3>5, <3>6, <3>7
 <2>4. QED BY <2>2, <2>3
<1>6. DonesFollowed'
 <2>0. SUFFICES ASSUME NEW i \in DOMAIN callbacks', callbacks'[i].kind = "done"
                PROVE  \E j \in (i + 1)..Len(callbacks') :
                         callbacks'[j].kind = "wakeup" /\ callbacks'[j].a = callbacks'[i].a
   BY Zenon DEF DonesFollowed, Queued
 <2>1. SUFFICES \E j \in (i + 1)..(m + 2) : callbacks'[j].kind = "wakeup" /\ callbacks'[j].a = callbacks'[i].a
   BY <1>2
 <2>5. i \in 1..(m + 2) /\ callbacks'[i].kind = "done" BY <1>2, <2>0, Zenon
 <2>2. CASE i = m + 1
  <3>1. m + 2 \in (i + 1)..(m + 2) BY <2>2
  <3>2. QED BY <1>2, <2>2, <3>1
 <2>3. CASE i # m + 1
  <3>1. i \in 1..m BY <1>2, <2>3, <2>5
  <3>2. PICK p \in 1..n : p = i + k BY <1>2, <3>1
  <3>3. callbacks'[i] = callbacks[p] /\ callbacks[p].kind = "done"
    BY <1>2, <2>5, <3>1, <3>2, Zenon
  <3>4. PICK j \in (p + 1)..n : callbacks[j].kind = "wakeup" /\ callbacks[j].a = callbacks[p].a
    BY <3>3, WakeupFacts, Zenon
  <3>5. j - k \in (i + 1)..(m + 2) /\ j - k \in 1..m /\ (j - k) + k = j BY <1>1, <3>2
  <3>6. callbacks'[j - k] = callbacks[j] BY <1>2, <3>5
  <3>7. QED BY <3>3, <3>4, <3>5, <3>6
 <2>4. QED BY <2>2, <2>3
<1>7. CompletionsTrue'
 <2>1. \A i \in 1..n : callbacks[i].kind = "completed" =>
          /\ att[callbacks[i].a].st # "unused"
          /\ att[callbacks[i].a].st = "pending" =>
               /\ att[callbacks[i].a].wait = "gone"
               /\ \A j \in 1..n : callbacks[j].kind = "completed" /\ callbacks[j].a = callbacks[i].a => j = i
               /\ \/ att[callbacks[i].a].net \in {"connected", "refused"}
                  \/ path = "fast" /\ att[callbacks[i].a].net = "inprogress"
               /\ callbacks[i].errno =
                    IF path = "native" /\ att[callbacks[i].a].net = "refused" THEN "ECONNREFUSED" ELSE "none"
   BY <1>3 DEF ResumedInOrder, CompletionsTrue
 <2>8. \A j \in 1..(m + 2) : callbacks'[j].kind = "completed" => j \in 1..m
  <3>1. \A j \in 1..(m + 2) : j \in 1..m \/ j = m + 1 \/ j = m + 2 OBVIOUS
  <3>2. QED BY <1>2, <3>1
 <2>2. SUFFICES ASSUME NEW i \in 1..m, callbacks'[i].kind = "completed"
                PROVE  /\ att'[callbacks'[i].a].st # "unused"
                       /\ att'[callbacks'[i].a].st = "pending" =>
                             /\ att'[callbacks'[i].a].wait = "gone"
                             /\ \A j \in 1..m : callbacks'[j].kind = "completed"
                                     /\ callbacks'[j].a = callbacks'[i].a => j = i
                             /\ \/ att'[callbacks'[i].a].net \in {"connected", "refused"}
                                \/ path = "fast" /\ att'[callbacks'[i].a].net = "inprogress"
                             /\ callbacks'[i].errno =
                                  IF path = "native" /\ att'[callbacks'[i].a].net = "refused"
                                  THEN "ECONNREFUSED" ELSE "none"
  <3>1. SUFFICES ASSUME NEW i \in DOMAIN callbacks', callbacks'[i].kind = "completed"
                 PROVE  /\ att'[callbacks'[i].a].st # "unused"
                        /\ att'[callbacks'[i].a].st = "pending" =>
                             /\ att'[callbacks'[i].a].wait = "gone"
                             /\ \A j \in DOMAIN callbacks' : callbacks'[j].kind = "completed"
                                     /\ callbacks'[j].a = callbacks'[i].a => j = i
                             /\ \/ att'[callbacks'[i].a].net \in {"connected", "refused"}
                                \/ path' = "fast" /\ att'[callbacks'[i].a].net = "inprogress"
                             /\ callbacks'[i].errno =
                                  IF path' = "native" /\ att'[callbacks'[i].a].net = "refused"
                                  THEN "ECONNREFUSED" ELSE "none"
    BY Zenon DEF CompletionsTrue
  <3>2. i \in 1..m /\ \A j \in DOMAIN callbacks' : callbacks'[j].kind = "completed" => j \in 1..m
    BY <1>2, <2>8, <3>1, Zenon
  <3>3. QED BY <3>1, <3>2
 <2>3. PICK p \in 1..n : p = i + k BY <1>2
 <2>4. callbacks'[i] = callbacks[p] /\ callbacks[p].kind = "completed" /\ callbacks[p].a \in Tries
   BY <1>2, <1>3, <2>2, <2>3, Zenon
 <2>5. CASE callbacks[p].a = a BY <2>4, <2>5, Zenon
 <2>6. CASE callbacks[p].a # a
  <3>1. ASSUME NEW j \in 1..m, callbacks'[j].kind = "completed", callbacks'[j].a = callbacks[p].a,
               att[callbacks[p].a].st = "pending"
        PROVE  j = i
   <4>1. j + k \in 1..n /\ callbacks'[j] = callbacks[j + k] BY <1>2
   <4>2. PICK q \in 1..n : q = j + k BY <4>1, Zenon
   <4>4. callbacks[q].kind = "completed" /\ callbacks[q].a = callbacks[p].a
     BY <3>1, <4>1, <4>2, Zenon
   <4>5. q = p BY <2>1, <2>4, <3>1, <4>4, Zenon
   <4>3. QED BY <2>3, <4>2, <4>5
  <3>2. att'[callbacks[p].a] = att[callbacks[p].a] BY <2>4, <2>6, Zenon
  <3>3. QED BY <2>1, <2>4, <3>1, <3>2
 <2>7. QED BY <2>5, <2>6
<1>8. \A b \in Tries : att'[b].done => att'[b].st \notin {"unused", "pending"}
  BY Zenon DEF ResumedInOrder
<1>9. QED BY <1>5, <1>6, <1>7, <1>8 DEF ResumedInOrder


\* A pending attempt is decided: by the cancel of its coroutine or by a completion.
LEMMA AttemptDecided ==
  ASSUME ConnectSafe, NEW a \in Tries, att[a].st = "pending", NEW s \in {"ok", "failed", "cancelled"},
         s = "ok" => att[a].net = "connected", s = "failed" => att[a].net = "refused",
         att' = [att EXCEPT ![a].st = s],
         path' = path, client' = client, sockAt' = sockAt, epoll' = epoll, tasks' = tasks,
         NEW q \in Seq(EntryRecords), NEW k \in {0, 1}, k <= Len(callbacks), Len(q) = Len(callbacks) - k,
         \A i \in 1..Len(q) : q[i] = callbacks[i + k], k = 1 => callbacks[1].kind = "completed",
         callbacks' = Notified(q, a)
  PROVE  ConnectSafe'
<1>1. /\ ConnectTypeOK /\ FutureTellsTruth /\ NumbersReused /\ ResumedInOrder
      /\ WatchesPolled /\ OldWatchesFirst /\ sockAt[att[a].fd] = a
  BY ConnectParts, Zenon
<1>2. /\ att[a] \in AttRecords /\ att \in [Tries -> AttRecords] /\ att[a].fd \in ConnFds
      /\ att[a].owner \in Clients /\ client \in [Clients -> ClientRecords]
      /\ epoll \in [ConnFds -> 0..Attempts] /\ sockAt \in [ConnFds -> 0..Attempts]
      /\ tasks \in Seq(Tries) /\ Len(callbacks) \in Nat
  BY <1>1, ConnectTypes, Zenon
<1> DEFINE r == [att[a] EXCEPT !.st = s]
<1>3. /\ r \in AttRecords /\ r.st = s /\ r.fd = att[a].fd /\ r.owner = att[a].owner
      /\ r.done = att[a].done /\ r.net = att[a].net /\ r.wait = att[a].wait
  BY <1>2 DEF AttRecords
<1>4. att' = [att EXCEPT ![a] = r] BY <1>2
<1> HIDE DEF r
<1> DEFINE u == Entry("done", a, "none")
           v == Entry("wakeup", a, "none")
<1>5. /\ u \in EntryRecords /\ u.kind = "done" /\ u.a = a
      /\ v \in EntryRecords /\ v.kind = "wakeup" /\ v.a = a
  BY DEF Entry, EntryRecords
<1>6. callbacks' = q \o <<u, v>> BY DEF Notified
<1> HIDE DEF u, v
<1>7. PICK m \in Nat : m = Len(q) BY LenProperties, Zenon
<1>8. /\ callbacks' \in Seq(EntryRecords) /\ Len(callbacks') = m + 2
      /\ \A i \in 1..m : callbacks'[i] = q[i]
      /\ callbacks'[m + 1] = u /\ callbacks'[m + 2] = v
 <2>1. <<u, v>> \in Seq(EntryRecords) /\ Len(<<u, v>>) = 2 /\ <<u, v>>[1] = u /\ <<u, v>>[2] = v
   BY <1>5
 <2>2. /\ callbacks' \in Seq(EntryRecords) /\ Len(callbacks') = Len(q) + Len(<<u, v>>)
       /\ \A i \in 1..(Len(q) + Len(<<u, v>>)) :
            callbacks'[i] = IF i <= Len(q) THEN q[i] ELSE <<u, v>>[i - Len(q)]
   BY <1>6, <2>1, ConcatProperties
 <2>3. /\ callbacks' \in Seq(EntryRecords) /\ Len(callbacks') = m + 2
       /\ \A i \in 1..(m + 2) : callbacks'[i] = IF i <= m THEN q[i] ELSE <<u, v>>[i - m]
   BY <1>7, <2>1, <2>2
 <2>4. /\ m + 1 \in 1..(m + 2) /\ ~(m + 1 <= m) /\ (m + 1) - m = 1
       /\ m + 2 \in 1..(m + 2) /\ ~(m + 2 <= m) /\ (m + 2) - m = 2
       OBVIOUS
 <2>5. callbacks'[m + 1] = <<u, v>>[1] /\ callbacks'[m + 2] = <<u, v>>[2] BY <2>3, <2>4
 <2>6. \A i \in 1..m : callbacks'[i] = q[i] BY <2>3
 <2>7. QED BY <2>1, <2>3, <2>5, <2>6, Zenon
<1>9. DOMAIN callbacks' = 1..(m + 2) BY <1>8, LenProperties, Zenon
<1>10. ConnectTypeOK' /\ att'[a] = r /\ \A b \in Tries : b # a => att'[b] = att[b]
  BY <1>1, <1>2, <1>3, <1>4, <1>8, AttemptTypes
<1>11. FutureTellsTruth' BY <1>1, <1>3, <1>10 DEF FutureTellsTruth
<1>12. NumbersReused'
 <2>1. KeepsNumbers BY <1>3, <1>10, Zenon DEF KeepsNumbers
 <2>2. QED BY <1>1, <2>1, NumbersKept, Zenon
<1>13. ResumedInOrder'
 <2>1. PICK n \in Nat : n = Len(callbacks) BY <1>2, Zenon
 <2>2. m = n - k BY <1>7, <2>1, Zenon
 <2>3. /\ Len(callbacks') = (n - k) + 2 /\ DOMAIN callbacks' = 1..((n - k) + 2)
       /\ \A i \in 1..(n - k) : callbacks'[i] = callbacks[i + k]
       /\ callbacks'[(n - k) + 1].kind = "done" /\ callbacks'[(n - k) + 1].a = a
       /\ callbacks'[(n - k) + 2].kind = "wakeup" /\ callbacks'[(n - k) + 2].a = a
   BY <1>5, <1>7, <1>8, <1>9, <2>2
 <2>4. k <= n BY <2>1, Zenon
 <2>5. QED BY <1>1, <1>3, <1>10, <2>1, <2>3, <2>4, FutureDone
<1>14. WatchesPolled' /\ OldWatchesFirst'
 <2>1. KeepsWaits BY <1>3, <1>10 DEF KeepsWaits
 <2>2. QED BY <1>1, <2>1, WaitsKept, Zenon
<1>15. SocketsAccounted' BY <1>3, <1>10, SocketsKept
<1>16. path' = "fast" => LiveWaitsRegistered' BY <1>3, <1>10, RegistrationsKept
<1>17. QED
  BY <1>10, <1>11, <1>12, <1>13, <1>14, <1>15, <1>16, Zenon DEF ConnectSafe, WatchesInOrder

LEMMA CancelClientStep ==
  ASSUME ConnectSafe, NEW c \in Clients, cancel_client(c)
  PROVE  ConnectSafe'
<1>1. PICK a \in Tries : /\ att[a].owner = c /\ att[a].st = "pending"
                         /\ att' = [att EXCEPT ![a].st = "cancelled"] /\ callbacks' = Notified(callbacks, a)
  BY DEF cancel_client
<1>2. path' = path /\ client' = client /\ sockAt' = sockAt /\ epoll' = epoll /\ tasks' = tasks
  BY DEF cancel_client
<1>3. callbacks \in Seq(EntryRecords) /\ Len(callbacks) \in Nat BY ConnectParts, ConnectTypes
<1>4. PICK k \in {0, 1} : k = 0 BY Zenon
<1>5. /\ k <= Len(callbacks) /\ Len(callbacks) = Len(callbacks) - k
      /\ k = 1 => callbacks[1].kind = "completed"
      /\ \A i \in 1..Len(callbacks) : callbacks[i] = callbacks[i + k]
  BY <1>3, <1>4
<1>6. "cancelled" \in {"ok", "failed", "cancelled"} BY Zenon
<1>7. QED BY <1>1, <1>2, <1>3, <1>5, <1>6, AttemptDecided

\* A callback at the head of the queue, and what is left.
LEMMA HeadEntry ==
  ASSUME ConnectTypeOK, callbacks # <<>>
  PROVE  /\ Head(callbacks) = callbacks[1] /\ callbacks[1] \in EntryRecords /\ callbacks[1].a \in Tries
         /\ 1 \in 1..Len(callbacks) /\ Len(callbacks) \in Nat /\ Len(callbacks) >= 1
         /\ Tail(callbacks) \in Seq(EntryRecords) /\ Len(Tail(callbacks)) = Len(callbacks) - 1
         /\ DOMAIN Tail(callbacks) = 1..(Len(callbacks) - 1)
         /\ \A i \in 1..(Len(callbacks) - 1) : Tail(callbacks)[i] = callbacks[i + 1]
<1>1. callbacks \in Seq(EntryRecords) /\ Len(callbacks) \in Nat BY ConnectTypes, Zenon
<1>2. /\ Tail(callbacks) \in Seq(EntryRecords) /\ Len(Tail(callbacks)) = Len(callbacks) - 1
      /\ Head(callbacks) = callbacks[1] /\ Len(callbacks) >= 1
      /\ \A i \in 1..(Len(callbacks) - 1) : Tail(callbacks)[i] = callbacks[i + 1]
  BY <1>1, HeadTailProperties, LenProperties
<1>3. callbacks[1] \in EntryRecords /\ 1 \in 1..Len(callbacks) BY <1>1, <1>2, ElementOfSeq
<1>4. QED BY <1>1, <1>2, <1>3, LenProperties DEF EntryRecords

\* A completion that decides the attempt reads the error of the attempt's own socket.
LEMMA ResolveStep ==
  ASSUME ConnectSafe, resolve_connect_completed
  PROVE  ConnectSafe'
  <1> DEFINE e == callbacks[1]
             a == e.a
             so == IF path = "fast" THEN SoError(att[a].fd) ELSE "none"
             errno == IF so # "none" THEN so ELSE e.errno
<1>1. /\ ConnectTypeOK /\ FutureTellsTruth /\ NumbersReused /\ ResumedInOrder /\ SocketsAccounted
      /\ WatchesPolled /\ OldWatchesFirst /\ (path = "fast" => LiveWaitsRegistered)
  BY ConnectParts, Zenon
<1>2. /\ callbacks # <<>> /\ Head(callbacks).kind = "completed"
      /\ path' = path /\ client' = client /\ sockAt' = sockAt /\ epoll' = epoll /\ tasks' = tasks
  BY Zenon DEF resolve_connect_completed, Next1
<1>3. Head(callbacks) = e /\ e.kind = "completed" /\ a \in Tries /\ 1 \in 1..Len(callbacks)
  BY <1>1, <1>2, HeadEntry, Zenon
<1>4. \/ att[a].st # "pending" /\ att' = att /\ callbacks' = Tail(callbacks)
      \/ /\ att[a].st = "pending" /\ errno = "EINPROGRESS"
         /\ att' = [att EXCEPT ![a].wait = "again"] /\ callbacks' = Tail(callbacks)
      \/ /\ att[a].st = "pending" /\ errno # "EINPROGRESS"
         /\ att' = [att EXCEPT ![a].st = IF errno = "none" THEN "ok" ELSE "failed"]
         /\ callbacks' = Notified(Tail(callbacks), a)
  BY <1>3 DEF resolve_connect_completed
<1>5. PICK n \in Nat : n = Len(callbacks) BY <1>1, ConnectTypes, Zenon
<1>6. CASE att' = att /\ callbacks' = Tail(callbacks)
 <2>1. /\ Len(callbacks') = n - 1 /\ DOMAIN callbacks' = 1..(n - 1) /\ callbacks' \in Seq(EntryRecords)
       /\ \A i \in 1..(n - 1) : callbacks'[i] = callbacks[i + 1]
   BY <1>1, <1>2, <1>5, <1>6, HeadEntry, Zenon
 <2>2. \A i \in 2..n : callbacks[i].kind = "wakeup" => sockAt'[att[callbacks[i].a].fd] = callbacks[i].a
   BY <1>1, <1>2, <1>5, WakeupFacts
 <2>3. ResumedInOrder' BY <1>1, <1>2, <1>3, <1>5, <1>6, <2>1, <2>2, CallbackTaken
 <2>4. ConnectTypeOK' BY <1>1, <1>2, <1>6, <2>1, Zenon DEF ConnectTypeOK, EntryRecords
 <2>5. FutureTellsTruth' /\ NumbersReused' /\ SocketsAccounted' /\ (path' = "fast" => LiveWaitsRegistered')
   BY <1>1, <1>2, <1>6 DEF FutureTellsTruth, NumbersReused, SocketsAccounted,
     LiveWaitsRegistered, Live
 <2>6. WatchesPolled' /\ OldWatchesFirst'
  <3>1. KeepsWaits BY <1>2, <1>6, Zenon DEF KeepsWaits
  <3>2. QED BY <1>1, <3>1, WaitsKept, Zenon
 <2>7. QED BY <2>3, <2>4, <2>5, <2>6, Zenon DEF ConnectSafe, WatchesInOrder
<1>9. ASSUME att[a].st = "pending"
      PROVE  /\ att[a].wait = "gone" /\ sockAt[att[a].fd] = a /\ a # 0 /\ path \in {"fast", "native"}
             /\ att[a].net \in {"connected", "refused"} \/ (path = "fast" /\ att[a].net = "inprogress")
             /\ e.errno = IF path = "native" /\ att[a].net = "refused" THEN "ECONNREFUSED" ELSE "none"
 <2>1. /\ att[a].wait = "gone"
       /\ att[a].net \in {"connected", "refused"} \/ (path = "fast" /\ att[a].net = "inprogress")
       /\ e.errno = IF path = "native" /\ att[a].net = "refused" THEN "ECONNREFUSED" ELSE "none"
   BY <1>1, <1>3, <1>9, ConnectTypes, Zenon DEF ResumedInOrder, CompletionsTrue
 <2>2. sockAt[att[a].fd] = a /\ a # 0 /\ path \in {"fast", "native"}
   BY <1>1, <1>3, <1>9, ConnectParts, ConnectTypes, Zenon
 <2>3. QED BY <2>1, <2>2, Zenon
<1>10. CASE /\ att[a].st = "pending" /\ errno = "EINPROGRESS"
            /\ att' = [att EXCEPT ![a].wait = "again"] /\ callbacks' = Tail(callbacks)
 <2>1. /\ att[a].wait = "gone" /\ path = "fast" /\ a # 0 /\ sockAt[att[a].fd] = a
  <3>1. e.errno # "EINPROGRESS" BY <1>9, <1>10
  <3>2. QED BY <1>9, <1>10, <3>1
 <2> HIDE DEF errno, so
 <2>2. /\ att[a] \in AttRecords /\ att \in [Tries -> AttRecords] /\ att[a].fd \in ConnFds
       /\ att[a].owner \in Clients /\ client \in [Clients -> ClientRecords]
       /\ epoll \in [ConnFds -> 0..Attempts] /\ sockAt \in [ConnFds -> 0..Attempts]
       /\ tasks \in Seq(Tries)
   BY <1>1, <1>3, <1>10, ConnectTypes, Zenon
 <2> HIDE DEF a
 <2> DEFINE r == [att[a] EXCEPT !.wait = "again"]
 <2>3. /\ r \in AttRecords /\ r.st = att[a].st /\ r.fd = att[a].fd /\ r.owner = att[a].owner
       /\ r.done = att[a].done /\ r.net = att[a].net /\ r.wait = "again"
   BY <2>2 DEF AttRecords
 <2>4. att' = [att EXCEPT ![a] = r] BY <1>3, <1>10, <2>2
 <2> HIDE DEF r
 <2>5. /\ Len(callbacks') = n - 1 /\ DOMAIN callbacks' = 1..(n - 1) /\ callbacks' \in Seq(EntryRecords)
       /\ \A i \in 1..(n - 1) : callbacks'[i] = callbacks[i + 1]
   BY <1>1, <1>2, <1>5, <1>10, HeadEntry, Zenon
 <2>6. ConnectTypeOK' /\ att'[a] = r /\ \A b \in Tries : b # a => att'[b] = att[b]
   BY <1>1, <1>2, <1>3, <1>10, <2>2, <2>3, <2>4, <2>5, AttemptTypes
 <2>7. FutureTellsTruth' BY <1>1, <2>3, <2>6 DEF FutureTellsTruth
 <2>8. NumbersReused'
  <3>1. KeepsNumbers BY <1>2, <2>3, <2>6, Zenon DEF KeepsNumbers
  <3>2. QED BY <1>1, <3>1, NumbersKept, Zenon
 <2>9. ResumedInOrder'
  <3>1. \A i \in 2..n : callbacks[i].kind = "wakeup" => sockAt'[att[callbacks[i].a].fd] = callbacks[i].a
    BY <1>1, <1>2, <1>5, WakeupFacts
  <3>2. callbacks[1].kind = "completed" /\ callbacks[1].a = a BY <1>3 DEF a, e
  <3>3. \A b \in Tries : /\ att'[b].st = att[b].st /\ att'[b].fd = att[b].fd /\ att'[b].net = att[b].net
                         /\ (att'[b].done <=> att[b].done)
                         /\ att[b].wait = "gone" => att'[b].wait = "gone" \/ b = a
    BY <2>3, <2>6
  <3>4. QED BY <1>1, <1>2, <1>5, <2>5, <3>1, <3>2, <3>3, CallbackTaken
 <2>10. WatchesPolled' /\ OldWatchesFirst'
  <3>1. KeepsWaits BY <1>2, <2>1, <2>3, <2>6 DEF KeepsWaits
  <3>2. QED BY <1>1, <3>1, WaitsKept, Zenon
 <2>11. SocketsAccounted' BY <1>2, <1>3, <2>1, <2>3, <2>6, SocketsKept
 <2>12. path' = "fast" => LiveWaitsRegistered' BY <1>2, <1>3, <2>1, <2>3, <2>6, RegistrationsKept
 <2>13. QED BY <2>6, <2>7, <2>8, <2>9, <2>10, <2>11, <2>12, Zenon DEF ConnectSafe, WatchesInOrder
<1>7. CASE /\ att[a].st = "pending" /\ errno # "EINPROGRESS"
           /\ att' = [att EXCEPT ![a].st = IF errno = "none" THEN "ok" ELSE "failed"]
           /\ callbacks' = Notified(Tail(callbacks), a)
 <2>2. sockAt[att[a].fd] = a /\ a # 0 /\ path \in {"fast", "native"} BY <1>7, <1>9
 <2>1. /\ att[a].net \in {"connected", "refused"}
       /\ e.errno = IF path = "native" /\ att[a].net = "refused" THEN "ECONNREFUSED" ELSE "none"
   BY <1>7, <1>9, <2>2 DEF SoError
 <2>3. (errno = "none") <=> att[a].net = "connected" BY <2>1, <2>2, Zenon DEF SoError
 <2> DEFINE s == IF errno = "none" THEN "ok" ELSE "failed"
 <2>4. /\ s \in {"ok", "failed", "cancelled"} /\ (s = "ok" => att[a].net = "connected")
       /\ s = "failed" => att[a].net = "refused"
   BY <2>1, <2>3
 <2>5. att' = [att EXCEPT ![a].st = s] BY <1>7
 <2> HIDE DEF s
 <2>6. /\ Tail(callbacks) \in Seq(EntryRecords) /\ 1 <= Len(callbacks) /\ 1 \in {0, 1}
       /\ Len(Tail(callbacks)) = Len(callbacks) - 1
       /\ \A i \in 1..Len(Tail(callbacks)) : Tail(callbacks)[i] = callbacks[i + 1]
   BY <1>1, <1>2, HeadEntry
 <2> HIDE DEF a, e
 <2>7. callbacks[1].kind = "completed" BY <1>3 DEF e
 <2>8. QED BY <1>2, <1>3, <1>7, <2>4, <2>5, <2>6, <2>7, AttemptDecided, Zenon
<1>8. QED BY <1>4, <1>6, <1>7, <1>10, Zenon


\* The watch that the dispatcher's reactor had ends.
LEMMA RearmedStep ==
  ASSUME ConnectSafe, NEW a \in Tries, rearmed_watch_ends(a)
  PROVE  ConnectSafe'
<1>1. /\ ConnectTypeOK /\ FutureTellsTruth /\ NumbersReused /\ ResumedInOrder
      /\ WatchesPolled /\ OldWatchesFirst
  BY ConnectParts, Zenon
<1> DEFINE e == IF sockAt[att[a].fd] = 0 THEN "EBADF" ELSE "none"
<1>2. /\ att[a].wait = "again" /\ att' = [att EXCEPT ![a].wait = "gone"]
      /\ path' = path /\ client' = client /\ sockAt' = sockAt /\ epoll' = epoll /\ tasks' = tasks
      /\ callbacks' = Append(callbacks, Entry("completed", a, e)) \/ callbacks' = callbacks
  BY Zenon DEF rearmed_watch_ends
<1>3. /\ path = "fast" /\ att[a] \in AttRecords /\ att \in [Tries -> AttRecords] /\ att[a].st # "unused"
      /\ att[a].fd \in ConnFds /\ att[a].owner \in Clients /\ client \in [Clients -> ClientRecords]
      /\ epoll \in [ConnFds -> 0..Attempts] /\ sockAt \in [ConnFds -> 0..Attempts]
      /\ tasks \in Seq(Tries) /\ callbacks \in Seq(EntryRecords) /\ Len(callbacks) \in Nat /\ a # 0
 <2>1. path = "fast" /\ att[a].st # "unused" BY <1>1, <1>2, ConnectTypes, Zenon DEF WatchesPolled
 <2>2. QED BY <1>1, <2>1, ConnectTypes, Zenon
<1>4. /\ att[a].st = "pending" => e = "none"
      /\ e \in {"none", "EBADF", "ECONNREFUSED"}
      /\ att[a].net \in {"connected", "refused", "inprogress"}
 <2>1. att[a].net # "none" BY <1>1, <1>3, Zenon DEF WatchesPolled
 <2>2. att[a].st = "pending" => sockAt[att[a].fd] = a BY ConnectParts, Zenon
 <2>3. QED BY <1>3, <2>1, <2>2 DEF AttRecords
<1> HIDE DEF e
<1> DEFINE r == [att[a] EXCEPT !.wait = "gone"]
<1>5. /\ r \in AttRecords /\ r.st = att[a].st /\ r.fd = att[a].fd /\ r.owner = att[a].owner
      /\ r.done = att[a].done /\ r.net = att[a].net /\ r.wait = "gone"
  BY <1>3 DEF AttRecords
<1>6. att' = [att EXCEPT ![a] = r] BY <1>2, <1>3
<1> HIDE DEF r
<1>7. /\ Entry("completed", a, e) \in EntryRecords /\ Entry("completed", a, e).kind = "completed"
      /\ Entry("completed", a, e).a = a /\ Entry("completed", a, e).errno = e
  BY <1>4 DEF Entry, EntryRecords
<1>8. callbacks' \in Seq(EntryRecords) BY <1>1, <1>2, <1>3, <1>7, EntryAdded, Zenon
<1>9. ConnectTypeOK' /\ att'[a] = r /\ \A b \in Tries : b # a => att'[b] = att[b]
  BY <1>1, <1>2, <1>3, <1>5, <1>6, <1>8, AttemptTypes
<1>10. FutureTellsTruth' BY <1>1, <1>5, <1>9 DEF FutureTellsTruth
<1>11. KeepsFutures
 <2>1. \A b \in Tries : /\ att'[b].st = att[b].st /\ att'[b].fd = att[b].fd /\ (att'[b].done <=> att[b].done)
                        /\ att[b].net \in {"connected", "refused"} => att'[b].net = att[b].net
                        /\ att[b].net = "inprogress" => att'[b].net \in {"inprogress", "connected", "refused"}
                        /\ att[b].wait = "gone" => att'[b].wait = "gone"
   BY <1>5, <1>9
 <2>2. QED BY <1>2, <2>1, Zenon DEF KeepsFutures
<1>12. NumbersReused'
 <2>1. KeepsNumbers BY <1>11 DEF KeepsFutures, KeepsNumbers
 <2>2. QED BY <1>1, <2>1, NumbersKept, Zenon
<1>13. ResumedInOrder'
 <2>1. CASE callbacks' = callbacks BY <1>1, <1>11, <2>1, FuturesKept
 <2>2. CASE callbacks' = Append(callbacks, Entry("completed", a, e))
  <3>1. PICK n \in Nat : n = Len(callbacks) BY <1>3
  <3>2. /\ Len(callbacks') = n + 1 /\ DOMAIN callbacks' = 1..(n + 1)
        /\ callbacks'[n + 1] = Entry("completed", a, e)
        /\ \A i \in 1..n : callbacks'[i] = callbacks[i]
    BY <1>1, <1>7, <2>2, <3>1, EntryAdded, Zenon
  <3>3. /\ callbacks'[n + 1].kind = "completed" /\ callbacks'[n + 1].a = a /\ callbacks'[n + 1].errno = e
    BY <1>7, <3>2, Zenon
  <3>4. att[a].st = "pending" =>
          /\ att[a].wait # "gone" /\ att'[a].wait = "gone"
          /\ att'[a].net \in {"connected", "refused"} \/ (path = "fast" /\ att'[a].net = "inprogress")
          /\ callbacks'[n + 1].errno =
               IF path = "native" /\ att'[a].net = "refused" THEN "ECONNREFUSED" ELSE "none"
    BY <1>2, <1>3, <1>4, <1>5, <1>9, <3>3
  <3>5. QED BY <1>1, <1>3, <1>11, <3>1, <3>2, <3>3, <3>4, CompletionAdded
 <2>3. QED BY <1>2, <2>1, <2>2
<1>14. WatchesPolled' /\ OldWatchesFirst'
 <2>1. KeepsWaits BY <1>2, <1>3, <1>5, <1>9 DEF KeepsWaits
 <2>2. QED BY <1>1, <2>1, WaitsKept, Zenon
<1>15. SocketsAccounted' BY <1>2, <1>5, <1>9, SocketsKept
<1>16. path' = "fast" => LiveWaitsRegistered' BY <1>2, <1>5, <1>9, RegistrationsKept
<1>17. QED
  BY <1>9, <1>10, <1>12, <1>13, <1>14, <1>15, <1>16, Zenon DEF ConnectSafe, WatchesInOrder

LEMMA ConnectDoneStep ==
  ASSUME ConnectSafe, connect_done
  PROVE  ConnectSafe'
  <1> DEFINE a == callbacks[1].a
<1>1. /\ ConnectTypeOK /\ FutureTellsTruth /\ NumbersReused /\ ResumedInOrder
      /\ WatchesPolled /\ OldWatchesFirst
  BY ConnectParts, Zenon
<1>2. /\ callbacks # <<>> /\ Head(callbacks).kind = "done" /\ callbacks' = Tail(callbacks)
      /\ path' = path /\ client' = client /\ sockAt' = sockAt /\ epoll' = epoll
  BY Zenon DEF connect_done, Next1
<1>3. Head(callbacks) = callbacks[1] /\ callbacks[1].kind = "done" /\ a \in Tries /\ 1 \in 1..Len(callbacks)
  BY <1>1, <1>2, HeadEntry
<1>4. /\ att' = [att EXCEPT ![a].done = TRUE, ![a].wait = IF Awakens(a) THEN "woken" ELSE @]
      /\ tasks' = IF Awakens(a) THEN Append(tasks, a) ELSE tasks
  BY <1>3 DEF connect_done
<1>5. att[a].st \in {"ok", "failed", "cancelled"} /\ sockAt[att[a].fd] = a
  BY <1>1, <1>3, WakeupFacts
<1> HIDE DEF a
<1>6. /\ att[a] \in AttRecords /\ att \in [Tries -> AttRecords] /\ att[a].fd \in ConnFds
      /\ att[a].owner \in Clients /\ client \in [Clients -> ClientRecords]
      /\ epoll \in [ConnFds -> 0..Attempts] /\ sockAt \in [ConnFds -> 0..Attempts]
      /\ tasks \in Seq(Tries) /\ Len(callbacks) \in Nat
  BY <1>1, <1>3, <1>5, ConnectTypes, Zenon
<1> DEFINE r == [att[a] EXCEPT !.done = TRUE, !.wait = IF Awakens(a) THEN "woken" ELSE @]
<1>7. /\ r \in AttRecords /\ r.st = att[a].st /\ r.fd = att[a].fd /\ r.owner = att[a].owner
      /\ r.done = TRUE /\ r.net = att[a].net /\ r.wait = IF Awakens(a) THEN "woken" ELSE att[a].wait
  BY <1>6 DEF AttRecords
<1>8. att' = [att EXCEPT ![a] = r] BY <1>3, <1>4, <1>6
<1> HIDE DEF r
<1>9. PICK n \in Nat : n = Len(callbacks) BY <1>6
<1>10. /\ Len(callbacks') = n - 1 /\ DOMAIN callbacks' = 1..(n - 1) /\ callbacks' \in Seq(EntryRecords)
       /\ \A i \in 1..(n - 1) : callbacks'[i] = callbacks[i + 1]
  BY <1>1, <1>2, <1>9, HeadEntry, Zenon
<1>11. tasks' \in Seq(Tries) BY <1>1, <1>3, <1>4, <1>6, TaskAdded
<1>12. ConnectTypeOK' /\ att'[a] = r /\ \A b \in Tries : b # a => att'[b] = att[b]
  BY <1>1, <1>2, <1>3, <1>5, <1>6, <1>7, <1>8, <1>10, <1>11, AttemptTypes
<1>13. FutureTellsTruth' BY <1>1, <1>7, <1>12 DEF FutureTellsTruth
<1>14. NumbersReused'
 <2>1. KeepsNumbers BY <1>2, <1>7, <1>12, Zenon DEF KeepsNumbers
 <2>2. QED BY <1>1, <2>1, NumbersKept, Zenon
<1>15. ResumedInOrder'
 <2>1. \A i \in 2..n : callbacks[i].kind = "wakeup" => sockAt'[att[callbacks[i].a].fd] = callbacks[i].a
   BY <1>1, <1>2, <1>9, WakeupFacts
 <2>2. \A b \in Tries : /\ att'[b].st = att[b].st /\ att'[b].fd = att[b].fd /\ att'[b].net = att[b].net
                        /\ att[b].done => att'[b].done
                        /\ att'[b].done => att[b].done \/ att[b].st \notin {"unused", "pending"}
                        /\ att[b].wait = "gone" => att'[b].wait = "gone"
   BY <1>5, <1>7, <1>12 DEF Awakens
 <2>3. att'[callbacks[1].a].done BY <1>7, <1>12, Zenon DEF a
 <2>4. QED BY <1>1, <1>2, <1>9, <1>10, <2>1, <2>2, <2>3, CallbackTaken
<1>16. r.wait = att[a].wait \/ (att[a].wait = "armed" /\ r.wait = "woken")
  BY <1>7, Zenon DEF Awakens
<1>17. WatchesPolled' /\ OldWatchesFirst'
 <2>1. CASE Awakens(a)
  <3>1. /\ path = "fast" /\ att[a].wait = "armed" /\ r.wait = "woken" /\ tasks' = Append(tasks, a)
    BY <1>4, <1>7, <2>1, Zenon DEF Awakens
  <3>2. att[a].net # "none" BY <1>1, <1>3, <1>5, <3>1, Zenon DEF WatchesPolled
  <3>3. QED BY <1>2, <1>3, <1>5, <1>7, <1>12, <3>1, <3>2, WatchWoken, Zenon
 <2>2. CASE ~Awakens(a)
  <3>1. r.wait = att[a].wait /\ tasks' = tasks BY <1>4, <1>7, <2>2, Zenon
  <3>2. KeepsWaits BY <1>2, <1>7, <1>12, <3>1, Zenon DEF KeepsWaits
  <3>3. QED BY <1>1, <3>2, WaitsKept, Zenon
 <2>3. QED BY <2>1, <2>2, Zenon
<1>18. SocketsAccounted' BY <1>2, <1>3, <1>7, <1>12, <1>16, SocketsKept
<1>19. path' = "fast" => LiveWaitsRegistered'
  BY <1>2, <1>3, <1>7, <1>12, <1>16, RegistrationsKept, Zenon
<1>20. QED
  BY <1>12, <1>13, <1>14, <1>15, <1>17, <1>18, <1>19, Zenon DEF ConnectSafe, WatchesInOrder

\* The coroutine is resumed after the watch was told: the socket it closes is its own, and
\* no wait that is still wanted goes with it.
LEMMA ClientResumed ==
  ASSUME ConnectSafe, callbacks # <<>>, NEW a \in Tries, a = callbacks[1].a, callbacks[1].kind = "wakeup",
         NEW c \in Clients, c = att[a].owner, client' \in [Clients -> ClientRecords],
         \A d \in Clients : d # c => client'[d] = client[d],
         \/ client'[c].pc = "ok" /\ sockAt' = sockAt /\ epoll' = epoll
         \/ Closed(att[a].fd),
         callbacks' = Tail(callbacks), path' = path, att' = att, tasks' = tasks
  PROVE  ConnectSafe'
<1>1. /\ ConnectTypeOK /\ FutureTellsTruth /\ NumbersReused /\ ResumedInOrder
      /\ WatchesPolled /\ OldWatchesFirst /\ (path = "fast" => LiveWaitsRegistered)
  BY ConnectParts, Zenon
<1>2. PICK n \in Nat : n = Len(callbacks) BY <1>1, ConnectTypes, Zenon
<1>3. /\ Len(callbacks') = n - 1 /\ DOMAIN callbacks' = 1..(n - 1) /\ callbacks' \in Seq(EntryRecords)
      /\ \A i \in 1..(n - 1) : callbacks'[i] = callbacks[i + 1]
      /\ 1 \in 1..n
  BY <1>1, <1>2, HeadEntry, Zenon
<1>4. /\ att[a].st \in {"ok", "failed", "cancelled"} /\ sockAt[att[a].fd] = a
      /\ att[a].done \/ \E j \in 1..(1 - 1) : callbacks[j].kind = "done" /\ callbacks[j].a = a
      /\ \A j \in 1..n : callbacks[j].kind = "wakeup" /\ callbacks[j].a = a => j = 1
  BY <1>1, <1>2, <1>3, WakeupFacts, Zenon
<1>5. att[a].done BY <1>4
<1>6. /\ att[a].fd \in ConnFds /\ sockAt \in [ConnFds -> 0..Attempts] /\ epoll \in [ConnFds -> 0..Attempts]
      /\ Attempts \in Nat /\ a # 0
      /\ \A b \in Tries : b # 0 /\ (att[b].st # "unused" => att[b].fd \in ConnFds)
      /\ \A b \in Tries : att[b].st = "unused" => att[b].wait = "none"
  BY <1>1, <1>4, ConnectTypes, Zenon
<1> DEFINE f == att[a].fd
<1>7. /\ sockAt' \in [ConnFds -> 0..Attempts] /\ epoll' \in [ConnFds -> 0..Attempts]
      /\ \A g \in ConnFds : g # f => sockAt'[g] = sockAt[g] /\ epoll'[g] = epoll[g]
      /\ \/ client'[c].pc = "ok" /\ sockAt'[f] = a /\ epoll'[f] = epoll[f]
         \/ sockAt'[f] = 0 /\ epoll'[f] = 0
 <2>1. CASE client'[c].pc = "ok" /\ sockAt' = sockAt /\ epoll' = epoll BY <1>4, <1>6, <2>1, Zenon
 <2>2. CASE Closed(f) BY <1>6, <2>2 DEF Closed
 <2>3. QED BY <2>1, <2>2, Zenon
<1> HIDE DEF f
<1>8. ConnectTypeOK' BY <1>1, <1>3, <1>7, Zenon DEF ConnectTypeOK, EntryRecords, ClientRecords
<1>9. FutureTellsTruth' BY <1>1 DEF FutureTellsTruth
<1>10. NumbersReused'
 <2>1. KeepsNumbers BY <1>4, <1>7, Zenon DEF KeepsNumbers, f
 <2>2. QED BY <1>1, <2>1, NumbersKept, Zenon
<1>11. ResumedInOrder'
 <2>1. ASSUME NEW i \in 2..n, callbacks[i].kind = "wakeup"
       PROVE  sockAt'[att[callbacks[i].a].fd] = callbacks[i].a
  <3>1. i \in 1..n /\ i # 1 /\ callbacks[i].a # a BY <1>4, <2>1
  <3>2. /\ callbacks[i].a \in Tries /\ sockAt[att[callbacks[i].a].fd] = callbacks[i].a
        /\ att[callbacks[i].a].st # "unused"
    BY <1>1, <1>2, <2>1, <3>1, WakeupFacts, Zenon
  <3>3. att[callbacks[i].a].fd # f /\ att[callbacks[i].a].fd \in ConnFds
    BY <1>4, <1>6, <3>1, <3>2 DEF f
  <3>4. QED BY <1>7, <3>2, <3>3, Zenon
 <2>2. callbacks[1].kind # "done" OBVIOUS
 <2>3. \A i \in 2..n : callbacks[i].kind = "wakeup" => sockAt'[att[callbacks[i].a].fd] = callbacks[i].a
   BY <2>1
 <2>4. QED BY <1>1, <1>2, <1>3, <2>2, <2>3, CallbackTaken, Zenon
<1>12. WatchesPolled' /\ OldWatchesFirst'
 <2>1. KeepsWaits BY Zenon DEF KeepsWaits
 <2>2. QED BY <1>1, <2>1, WaitsKept, Zenon
<1>13. \A b \in Tries : att[b].st = "pending" \/ (Live(b) /\ ~att[b].done) =>
         att[b].fd \in ConnFds /\ att[b].fd # f /\ sockAt[att[b].fd] = b
 <2>1. SUFFICES ASSUME NEW b \in Tries, att[b].st = "pending" \/ (Live(b) /\ ~att[b].done)
                PROVE  att[b].fd \in ConnFds /\ att[b].fd # f /\ sockAt[att[b].fd] = b
   BY Zenon
 <2>2. sockAt[att[b].fd] = b /\ b # a BY <1>4, <1>5, <2>1, ConnectParts, Zenon
 <2>3. att[b].st # "unused" BY <1>6, <2>1, Zenon DEF Live
 <2>4. QED BY <1>4, <1>6, <2>2, <2>3, Zenon DEF f
<1>14. SocketsAccounted'
 <2>1. \A b \in Tries : att'[b].st = "pending" \/ (Live(b)' /\ ~att'[b].done) => sockAt'[att'[b].fd] = b
   BY <1>7, <1>13 DEF Live
 <2>2. \A g \in ConnFds : sockAt[g] # 0 =>
         /\ sockAt[g] \in Tries /\ att[sockAt[g]].st # "unused" /\ att[sockAt[g]].fd = g
         /\ att[sockAt[g]].owner \in Clients
         /\ client[att[sockAt[g]].owner].pc \notin {"idle", "failed", "cancelled", "trying"}
         /\ \A h \in ConnFds : sockAt[h] # 0 /\ att[sockAt[h]].owner = att[sockAt[g]].owner => h = g
   BY ConnectParts, Zenon
 <2>3. \A g \in ConnFds : g # f /\ sockAt[g] # 0 => att[sockAt[g]].owner # c
  <3>1. f \in ConnFds /\ sockAt[f] = a /\ sockAt[f] # 0 /\ att[sockAt[f]].owner = c
    BY <1>4, <1>6 DEF f
  <3>2. ASSUME NEW g \in ConnFds, g # f, sockAt[g] # 0, att[sockAt[g]].owner = c PROVE FALSE
   <4>1. \A h \in ConnFds : sockAt[h] # 0 /\ att[sockAt[h]].owner = att[sockAt[g]].owner => h = g
     BY <2>2, <3>2, Zenon
   <4>2. att[sockAt[f]].owner = att[sockAt[g]].owner BY <3>1, <3>2, Zenon
   <4>3. QED BY <3>1, <3>2, <4>1, <4>2, Zenon
  <3>3. QED BY <3>2, Zenon
 <2>4. \A g \in ConnFds : sockAt'[g] # 0 => sockAt'[g] = sockAt[g] BY <1>4, <1>7, Zenon DEF f
 <2>5. \A g \in ConnFds : sockAt'[g] # 0 =>
         client'[att[sockAt[g]].owner].pc \notin {"idle", "failed", "cancelled", "trying"}
  <3>1. SUFFICES ASSUME NEW g \in ConnFds, sockAt'[g] # 0
                 PROVE  client'[att[sockAt[g]].owner].pc \notin {"idle", "failed", "cancelled", "trying"}
    BY Zenon
  <3>2. CASE g = f
   <4>1. client'[c].pc = "ok" /\ sockAt[g] = a BY <1>4, <1>7, <3>1, <3>2, Zenon DEF f
   <4>2. QED BY <4>1, Zenon
  <3>3. CASE g # f BY <2>2, <2>3, <2>4, <3>1, <3>3
  <3>4. QED BY <3>2, <3>3, Zenon
 <2>6. \A g \in ConnFds : sockAt'[g] # 0 =>
         /\ att'[sockAt'[g]].st # "unused" /\ att'[sockAt'[g]].fd = g
         /\ client'[att'[sockAt'[g]].owner].pc \notin {"idle", "failed", "cancelled", "trying"}
         /\ \A h \in ConnFds : sockAt'[h] # 0 /\ att'[sockAt'[h]].owner = att'[sockAt'[g]].owner => h = g
  <3>1. SUFFICES ASSUME NEW g \in ConnFds, sockAt'[g] # 0
                 PROVE  /\ att[sockAt[g]].st # "unused" /\ att[sockAt[g]].fd = g
                        /\ client'[att[sockAt[g]].owner].pc \notin {"idle", "failed", "cancelled", "trying"}
                        /\ \A h \in ConnFds : sockAt'[h] # 0 /\ att[sockAt[h]].owner = att[sockAt[g]].owner => h = g
    BY <2>4
  <3>2. sockAt[g] # 0 BY <2>4, <3>1, Zenon
  <3>3. \A h \in ConnFds : sockAt'[h] # 0 => sockAt[h] # 0 BY <2>4, Zenon
  <3>4. QED BY <2>2, <2>5, <3>1, <3>2, <3>3, Zenon
 <2>7. \A g \in ConnFds : epoll'[g] # 0 => sockAt'[g] = epoll'[g] /\ att'[epoll'[g]].wait \in {"armed", "woken"}
  <3>1. \A g \in ConnFds : epoll'[g] # 0 => epoll'[g] = epoll[g] /\ sockAt'[g] = sockAt[g]
    BY <1>4, <1>7, Zenon DEF f
  <3>2. QED BY <3>1, ConnectParts
 <2>8. QED BY <2>1, <2>6, <2>7, Zenon DEF SocketsAccounted
<1>15. path' = "fast" => LiveWaitsRegistered' BY <1>1, <1>7, <1>13 DEF LiveWaitsRegistered, Live
<1>16. QED BY <1>8, <1>9, <1>10, <1>11, <1>12, <1>14, <1>15 DEF ConnectSafe, WatchesInOrder

\* A coroutine's step keeps the others as they are.
LEMMA ClientTypes ==
  ASSUME ConnectTypeOK, NEW c \in Clients
  PROVE  /\ \A p \in {"ok", "awaiting"} :
              LET d == [client EXCEPT ![c].pc = p] IN
                d \in [Clients -> ClientRecords] /\ d[c].pc = p /\ \A b \in Clients : b # c => d[b] = client[b]
         /\ LET d == [client EXCEPT ![c] = [pc |-> "cancelled", left |-> 0]] IN
                d \in [Clients -> ClientRecords] /\ \A b \in Clients : b # c => d[b] = client[b]
         /\ NextAddress(c) =>
                client' \in [Clients -> ClientRecords] /\ \A b \in Clients : b # c => client'[b] = client[b]
<1>1. client \in [Clients -> ClientRecords] /\ client[c] \in ClientRecords BY ConnectTypes
<1>2. \A p \in {"ok", "awaiting"} : [client[c] EXCEPT !.pc = p] \in ClientRecords
                                    /\ [client[c] EXCEPT !.pc = p].pc = p
  BY <1>1 DEF ClientRecords
<1>3. [pc |-> "cancelled", left |-> 0] \in ClientRecords BY DEF ClientRecords
<1>4. (IF client[c].left = 1 THEN [pc |-> "failed", left |-> 0]
       ELSE [pc |-> "trying", left |-> client[c].left - 1]) \in ClientRecords
  BY <1>1 DEF ClientRecords
<1>5. \A p \in {"ok", "awaiting"} : [client EXCEPT ![c].pc = p] = [client EXCEPT ![c] = [client[c] EXCEPT !.pc = p]]
  BY <1>1
<1>6. \A x \in ClientRecords : LET d == [client EXCEPT ![c] = x] IN
        d \in [Clients -> ClientRecords] /\ d[c] = x /\ \A b \in Clients : b # c => d[b] = client[b]
  BY <1>1
<1>7. NextAddress(c) => client' = [client EXCEPT ![c] =
         (IF client[c].left = 1 THEN [pc |-> "failed", left |-> 0]
          ELSE [pc |-> "trying", left |-> client[c].left - 1])]
  BY <1>1, Zenon DEF NextAddress
<1>8. QED BY <1>2, <1>3, <1>4, <1>5, <1>6, <1>7

LEMMA ClientWakesStep ==
  ASSUME ConnectSafe, client_wakes
  PROVE  ConnectSafe'
  <1> DEFINE a == callbacks[1].a
             c == att[a].owner
<1>1. ConnectTypeOK /\ ResumedInOrder BY ConnectParts, Zenon
<1>2. /\ callbacks # <<>> /\ Head(callbacks).kind = "wakeup" /\ callbacks' = Tail(callbacks)
      /\ path' = path /\ att' = att /\ tasks' = tasks
  BY DEF client_wakes, Next1
<1>3. Head(callbacks) = callbacks[1] /\ callbacks[1].kind = "wakeup" /\ a \in Tries /\ 1 \in 1..Len(callbacks)
  BY <1>1, <1>2, HeadEntry, Zenon
<1>4. att[a].st \in {"ok", "failed", "cancelled"} BY <1>1, <1>3, WakeupFacts
<1>5. c \in Clients BY <1>1, <1>3, <1>4, ConnectTypes
<1>6. \/ client' = [client EXCEPT ![c].pc = "ok"] /\ sockAt' = sockAt /\ epoll' = epoll
      \/ NextAddress(c) /\ Closed(att[a].fd)
      \/ client' = [client EXCEPT ![c] = [pc |-> "cancelled", left |-> 0]] /\ Closed(att[a].fd)
  BY <1>3, <1>4 DEF client_wakes
<1> HIDE DEF a, c
<1>7. /\ client' \in [Clients -> ClientRecords] /\ \A d \in Clients : d # c => client'[d] = client[d]
      /\ \/ client'[c].pc = "ok" /\ sockAt' = sockAt /\ epoll' = epoll
         \/ Closed(att[a].fd)
 <2>1. CASE client' = [client EXCEPT ![c].pc = "ok"] /\ sockAt' = sockAt /\ epoll' = epoll
   BY <1>1, <1>5, <2>1, ClientTypes
 <2>2. CASE NextAddress(c) /\ Closed(att[a].fd) BY <1>1, <1>5, <2>2, ClientTypes
 <2>3. CASE client' = [client EXCEPT ![c] = [pc |-> "cancelled", left |-> 0]] /\ Closed(att[a].fd)
   BY <1>1, <1>5, <2>3, ClientTypes
 <2>4. QED BY <1>6, <2>1, <2>2, <2>3
<1>8. a = callbacks[1].a /\ c = att[a].owner BY DEF a, c
<1>9. QED BY <1>2, <1>3, <1>5, <1>7, <1>8, ClientResumed


\* connect_socket_to_address on smol's threads.
LEMMA SmolTaskStep ==
  ASSUME ConnectSafe, NEW a \in Tries, SmolTask(a)
  PROVE  ConnectSafe'
<1>1. ConnectTypeOK /\ WatchesPolled /\ ResumedInOrder BY ConnectParts
<1>2. /\ path = "native" /\ path' = path /\ client' = client /\ sockAt' = sockAt /\ tasks' = tasks
  BY DEF SmolTask, connect_socket_to_address, wait_writable_ends, bridge_drops
<1>3. /\ Live(a) /\ att[a] \in AttRecords /\ att \in [Tries -> AttRecords]
 <2>1. Live(a) BY DEF SmolTask, connect_socket_to_address, wait_writable_ends, bridge_drops, Live
 <2>2. QED BY <1>1, <2>1, ConnectTypes
<1>4. /\ a # 0 /\ (att[a].st = "pending" => ~att[a].done)
      /\ Live(a) /\ ~att[a].done => sockAt[att[a].fd] = a
  BY <1>1, ConnectParts, ConnectTypes
<1>5. ASSUME NEW r \in AttRecords, r.wait = "gone", att' = [att EXCEPT ![a] = r],
             r.st = att[a].st, r.fd = att[a].fd, r.owner = att[a].owner, r.done = att[a].done,
             \/ r.net = att[a].net
             \/ att[a].wait = "queued" /\ r.net \in {"connected", "refused"},
             \/ epoll' = epoll /\ att[a].wait = "queued"
             \/ epoll' = [epoll EXCEPT ![att[a].fd] = 0],
             NEW e \in {"none", "EBADF", "ECONNREFUSED"},
             callbacks' = callbacks \/ callbacks' = Append(callbacks, Entry("completed", a, e)),
             att[a].st = "pending" => /\ r.net \in {"connected", "refused"}
                                      /\ e = IF r.net = "refused" THEN "ECONNREFUSED" ELSE "none"
      PROVE  ConnectSafe'
 <2>1. path # "fast" BY <1>2
 <2>2. QED BY <1>2, <1>3, <1>5, <2>1, WaitEnds
<1>6. CASE connect_socket_to_address(a)
 <2>1. att[a].wait = "queued" /\ ~att[a].done BY <1>6 DEF connect_socket_to_address
 <2>2. ASSUME NEW net \in {"connected", "refused"}, att' = [att EXCEPT ![a].wait = "gone", ![a].net = net],
              callbacks' = Append(callbacks, Entry("completed", a, IF net = "refused" THEN "ECONNREFUSED" ELSE "none")),
              UNCHANGED epoll
       PROVE  ConnectSafe'
   <3> DEFINE r == [att[a] EXCEPT !.wait = "gone", !.net = net]
              e == IF net = "refused" THEN "ECONNREFUSED" ELSE "none"
  <3>1. /\ r \in AttRecords /\ r.st = att[a].st /\ r.fd = att[a].fd /\ r.owner = att[a].owner
        /\ r.done = att[a].done /\ r.net = net /\ r.wait = "gone"
    BY <1>3 DEF AttRecords
  <3>2. att' = [att EXCEPT ![a] = r] BY <1>3, <2>2
  <3>3. e \in {"none", "EBADF", "ECONNREFUSED"} /\ callbacks' = Append(callbacks, Entry("completed", a, e))
    BY <2>2
  <3>4. e = IF r.net = "refused" THEN "ECONNREFUSED" ELSE "none" BY <3>1, Zenon
  <3> HIDE DEF r, e
  <3>5. QED BY <1>5, <2>1, <2>2, <3>1, <3>2, <3>3, <3>4
 <2>3. ASSUME epoll[att[a].fd] = 0, att' = [att EXCEPT ![a].wait = "armed", ![a].net = "inprogress"],
              epoll' = [epoll EXCEPT ![att[a].fd] = a], UNCHANGED callbacks
       PROVE  ConnectSafe'
   <3> DEFINE r == [att[a] EXCEPT !.wait = "armed", !.net = "inprogress"]
  <3>1. /\ r \in AttRecords /\ r.st = att[a].st /\ r.fd = att[a].fd /\ r.owner = att[a].owner
        /\ r.done = att[a].done /\ r.net = "inprogress" /\ r.wait = "armed"
    BY <1>3 DEF AttRecords
  <3>2. att' = [att EXCEPT ![a] = r] BY <1>3, <2>3
  <3> HIDE DEF r
  <3>3. path # "fast" BY <1>2
  <3>4. QED BY <1>2, <2>1, <2>3, <3>1, <3>2, <3>3, WaitArmed
 <2>4. QED BY <1>6, <2>2, <2>3 DEF connect_socket_to_address
<1> DEFINE r == [att[a] EXCEPT !.wait = "gone"]
<1>7. /\ r \in AttRecords /\ r.st = att[a].st /\ r.fd = att[a].fd /\ r.owner = att[a].owner
      /\ r.done = att[a].done /\ r.net = att[a].net /\ r.wait = "gone"
      /\ [att EXCEPT ![a].wait = "gone"] = [att EXCEPT ![a] = r]
  BY <1>3 DEF AttRecords
<1> HIDE DEF r
<1>8. CASE wait_writable_ends(a)
 <2>1. /\ att[a].wait = "woken" /\ ~att[a].done
       /\ \/ SoError(att[a].fd) # "EINPROGRESS" /\ WatchEnds(a, SoError(att[a].fd))
          \/ /\ att' = [att EXCEPT ![a].wait = "armed"]
             /\ epoll' = [epoll EXCEPT ![att[a].fd] = a] /\ callbacks' = callbacks
   BY <1>8 DEF wait_writable_ends
 <2>2. att[a].net # "none" /\ sockAt[att[a].fd] = a BY <1>1, <1>3, <1>4, <2>1 DEF WatchesPolled
 <2>3. CASE SoError(att[a].fd) # "EINPROGRESS" /\ WatchEnds(a, SoError(att[a].fd))
   <3> DEFINE e == SoError(att[a].fd)
  <3>1. att[a].net \in {"connected", "refused"} /\ e = IF att[a].net = "refused" THEN "ECONNREFUSED" ELSE "none"
    BY <1>3, <1>4, <2>2, <2>3 DEF SoError, AttRecords
  <3>2. /\ att' = [att EXCEPT ![a].wait = "gone"] /\ epoll' = [epoll EXCEPT ![att[a].fd] = 0]
        /\ callbacks' = Append(callbacks, Entry("completed", a, e))
    BY <2>1, <2>3 DEF WatchEnds
  <3>3. e \in {"none", "EBADF", "ECONNREFUSED"} /\ e = IF r.net = "refused" THEN "ECONNREFUSED" ELSE "none"
    BY <1>7, <3>1
  <3> HIDE DEF e
  <3>4. QED BY <1>5, <1>7, <3>1, <3>2, <3>3
 <2>4. CASE /\ att' = [att EXCEPT ![a].wait = "armed"]
            /\ epoll' = [epoll EXCEPT ![att[a].fd] = a] /\ callbacks' = callbacks
   <3> DEFINE q == [att[a] EXCEPT !.wait = "armed"]
  <3>1. /\ q \in AttRecords /\ q.st = att[a].st /\ q.fd = att[a].fd /\ q.owner = att[a].owner
        /\ q.done = att[a].done /\ q.net = att[a].net /\ q.wait = "armed"
    BY <1>3 DEF AttRecords
  <3>2. att' = [att EXCEPT ![a] = q] BY <1>3, <2>4
  <3> HIDE DEF q
  <3>3. path # "fast" /\ (att[a].wait = "queued" \/ (path = "native" /\ att[a].wait = "woken"))
    BY <1>2, <2>1
  <3>4. q.net = att[a].net /\ (path = "fast" \/ att[a].wait = "woken") BY <2>1, <3>1
  <3>5. QED BY <1>2, <2>1, <2>4, <3>1, <3>2, <3>3, <3>4, WaitArmed, Zenon
 <2>5. QED BY <2>1, <2>3, <2>4, Zenon
<1>9. CASE bridge_drops(a)
 <2>1. /\ att[a].done /\ att' = [att EXCEPT ![a].wait = "gone"] /\ callbacks' = callbacks
       /\ epoll' = IF att[a].wait = "queued" THEN epoll ELSE [epoll EXCEPT ![att[a].fd] = 0]
   BY <1>9 DEF bridge_drops
 <2>2. att[a].st # "pending" /\ "none" \in {"none", "EBADF", "ECONNREFUSED"} BY <1>4, <2>1
 <2>3. \/ epoll' = epoll /\ att[a].wait = "queued"
       \/ epoll' = [epoll EXCEPT ![att[a].fd] = 0]
   BY <2>1
 <2>4. QED BY <1>5, <1>7, <2>1, <2>2, <2>3
<1>10. QED BY <1>6, <1>8, <1>9 DEF SmolTask

LEMMA FastConnectStep ==
  ASSUME ConnectSafe, NEW c \in Clients, fast_sock_connect(c)
  PROVE  ConnectSafe'
  <1> DEFINE a == Min(Fresh)
             f == Min(FreeFds)
             New(st, net, w) == [st |-> st, fd |-> f, owner |-> c, net |-> net, wait |-> w, done |-> FALSE]
<1>1. /\ path = "fast" /\ client[c].pc = "trying" /\ Fresh # {} /\ FreeFds # {}
      /\ path' = path /\ callbacks' = callbacks
  BY DEF fast_sock_connect
<1>2. /\ a \in Tries /\ att[a].st = "unused"
      /\ \A b \in Tries : b < a => att[b].st # "unused"
      /\ \A b \in Tries : b > a => att[b].st = "unused"
      /\ f \in ConnFds /\ sockAt[f] = 0 /\ epoll[f] = 0
  BY <1>1, FreshFacts
<1>3. \/ /\ att' = [att EXCEPT ![a] = New("ok", "connected", "none")]
         /\ client' = [client EXCEPT ![c].pc = "ok"] /\ sockAt' = [sockAt EXCEPT ![f] = a]
         /\ epoll' = epoll /\ tasks' = tasks
      \/ /\ att' = [att EXCEPT ![a] = New("failed", "refused", "none")]
         /\ NextAddress(c) /\ sockAt' = sockAt /\ epoll' = epoll /\ tasks' = tasks
      \/ /\ att' = [att EXCEPT ![a] = New("pending", "inprogress", "queued")]
         /\ client' = [client EXCEPT ![c].pc = "awaiting"] /\ sockAt' = [sockAt EXCEPT ![f] = a]
         /\ tasks' = Append(tasks, a) /\ epoll' = epoll
  BY DEF fast_sock_connect
<1> HIDE DEF a, f
<1>4. \A st \in {"ok", "failed", "pending"} : \A net \in {"connected", "refused", "inprogress"} :
        \A w \in {"none", "queued"} : LET r == New(st, net, w) IN
          /\ r \in AttRecords /\ r.st = st /\ r.net = net /\ r.wait = w /\ r.fd = f /\ r.owner = c /\ ~r.done
  BY <1>2 DEF AttRecords
<1> HIDE DEF New
<1>5. ConnectTypeOK BY ConnectParts
<1>6. CASE /\ att' = [att EXCEPT ![a] = New("ok", "connected", "none")]
           /\ client' = [client EXCEPT ![c].pc = "ok"] /\ sockAt' = [sockAt EXCEPT ![f] = a]
           /\ epoll' = epoll /\ tasks' = tasks
 <2>1. PICK r \in AttRecords : r = New("ok", "connected", "none") BY <1>4
 <2>2. /\ r.st = "ok" /\ r.net = "connected" /\ r.wait = "none" /\ r.fd = f /\ r.owner = c /\ ~r.done
   BY <1>4, <2>1
 <2>3. /\ client' \in [Clients -> ClientRecords] /\ client'[c].pc = "ok"
       /\ \A d \in Clients : d # c => client'[d] = client[d]
   BY <1>5, <1>6, ClientTypes
 <2>4. path # "native" BY <1>1
 <2>5. /\ r.st \in {"pending", "ok", "failed"} /\ r.wait \in {"none", "queued"}
       /\ r.st = "ok" => r.net = "connected"
       /\ r.st = "failed" => r.net = "refused"
       /\ path = "fast" => r.net # "none"
       /\ path = "native" => r.net = "none"
       /\ r.st # "failed" => sockAt' = [sockAt EXCEPT ![f] = a] /\ client'[c].pc \in {"ok", "awaiting"}
       /\ r.st = "failed" => sockAt' = sockAt /\ r.wait = "none"
       /\ path = "fast" /\ r.wait = "queued" => tasks' = Append(tasks, a)
       /\ path = "native" \/ r.wait = "none" => tasks' = tasks
   BY <1>1, <1>6, <2>2, <2>3, <2>4
 <2>6. att' = [att EXCEPT ![a] = r] /\ epoll' = epoll BY <1>6, <2>1
 <2>7. StartsAttempt(c, a, f, r) BY <1>1, <1>2, <2>2, <2>3, <2>5, <2>6, Zenon DEF StartsAttempt
 <2>8. QED BY <1>2, <2>7, AttemptStarts, Zenon
<1>7. CASE /\ att' = [att EXCEPT ![a] = New("failed", "refused", "none")]
           /\ NextAddress(c) /\ sockAt' = sockAt /\ epoll' = epoll /\ tasks' = tasks
 <2>1. PICK r \in AttRecords : r = New("failed", "refused", "none") BY <1>4
 <2>2. /\ r.st = "failed" /\ r.net = "refused" /\ r.wait = "none" /\ r.fd = f /\ r.owner = c /\ ~r.done
   BY <1>4, <2>1
 <2>3. /\ client' \in [Clients -> ClientRecords] /\ \A d \in Clients : d # c => client'[d] = client[d]
   BY <1>5, <1>7, ClientTypes
 <2>4. path # "native" BY <1>1
 <2>5. QED BY <1>1, <1>2, <1>7, <2>1, <2>2, <2>3, <2>4, AttemptStarts, Zenon DEF StartsAttempt
<1>8. CASE /\ att' = [att EXCEPT ![a] = New("pending", "inprogress", "queued")]
           /\ client' = [client EXCEPT ![c].pc = "awaiting"] /\ sockAt' = [sockAt EXCEPT ![f] = a]
           /\ tasks' = Append(tasks, a) /\ epoll' = epoll
 <2>1. PICK r \in AttRecords : r = New("pending", "inprogress", "queued") BY <1>4
 <2>2. /\ r.st = "pending" /\ r.net = "inprogress" /\ r.wait = "queued" /\ r.fd = f /\ r.owner = c /\ ~r.done
   BY <1>4, <2>1
 <2>3. /\ client' \in [Clients -> ClientRecords] /\ client'[c].pc = "awaiting"
       /\ \A d \in Clients : d # c => client'[d] = client[d]
   BY <1>5, <1>8, ClientTypes
 <2>4. path # "native" BY <1>1
 <2>5. /\ r.st \in {"pending", "ok", "failed"} /\ r.wait \in {"none", "queued"}
       /\ r.st = "ok" => r.net = "connected"
       /\ r.st = "failed" => r.net = "refused"
       /\ path = "fast" => r.net # "none"
       /\ path = "native" => r.net = "none"
       /\ r.st # "failed" => sockAt' = [sockAt EXCEPT ![f] = a] /\ client'[c].pc \in {"ok", "awaiting"}
       /\ r.st = "failed" => sockAt' = sockAt /\ r.wait = "none"
       /\ path = "fast" /\ r.wait = "queued" => tasks' = Append(tasks, a)
       /\ path = "native" \/ r.wait = "none" => tasks' = tasks
   BY <1>1, <1>8, <2>2, <2>3, <2>4
 <2>6. att' = [att EXCEPT ![a] = r] /\ epoll' = epoll BY <1>8, <2>1
 <2>7. StartsAttempt(c, a, f, r) BY <1>1, <1>2, <2>2, <2>3, <2>5, <2>6, Zenon DEF StartsAttempt
 <2>8. QED BY <1>2, <2>7, AttemptStarts, Zenon
<1>9. QED BY <1>3, <1>6, <1>7, <1>8, Zenon

LEMMA SockConnectStep ==
  ASSUME ConnectSafe, NEW c \in Clients, sock_connect(c)
  PROVE  ConnectSafe'
  <1> DEFINE a == Min(Fresh)
             f == Min(FreeFds)
             r == [st |-> "pending", fd |-> f, owner |-> c, net |-> "none", wait |-> "queued", done |-> FALSE]
<1>1. /\ path = "native" /\ client[c].pc = "trying" /\ Fresh # {} /\ FreeFds # {}
      /\ path' = path /\ callbacks' = callbacks /\ epoll' = epoll /\ tasks' = tasks
      /\ att' = [att EXCEPT ![a] = r] /\ sockAt' = [sockAt EXCEPT ![f] = a]
      /\ client' = [client EXCEPT ![c].pc = "awaiting"]
  BY DEF sock_connect
<1>2. /\ a \in Tries /\ att[a].st = "unused"
      /\ \A b \in Tries : b < a => att[b].st # "unused"
      /\ \A b \in Tries : b > a => att[b].st = "unused"
      /\ f \in ConnFds /\ sockAt[f] = 0 /\ epoll[f] = 0
  BY <1>1, FreshFacts
<1> HIDE DEF a, f
<1>3. /\ r \in AttRecords /\ r.st = "pending" /\ r.net = "none" /\ r.wait = "queued" /\ r.fd = f
      /\ r.owner = c /\ ~r.done
  BY <1>2 DEF AttRecords
<1> HIDE DEF r
<1>4. /\ client' \in [Clients -> ClientRecords] /\ client'[c].pc = "awaiting"
      /\ \A d \in Clients : d # c => client'[d] = client[d]
 <2>1. ConnectTypeOK /\ client' = [client EXCEPT ![c].pc = "awaiting"] BY <1>1, ConnectParts
 <2>2. QED BY <2>1, ClientTypes
<1>5. path # "fast" BY <1>1
<1>6. /\ r.st \in {"pending", "ok", "failed"} /\ r.wait \in {"none", "queued"}
      /\ r.st = "ok" => r.net = "connected"
      /\ r.st = "failed" => r.net = "refused"
      /\ path = "fast" => r.net # "none"
      /\ path = "native" => r.net = "none"
      /\ r.st # "failed" => sockAt' = [sockAt EXCEPT ![f] = a] /\ client'[c].pc \in {"ok", "awaiting"}
      /\ r.st = "failed" => sockAt' = sockAt /\ r.wait = "none"
      /\ path = "fast" /\ r.wait = "queued" => tasks' = Append(tasks, a)
      /\ path = "native" \/ r.wait = "none" => tasks' = tasks
  BY <1>1, <1>3, <1>4, <1>5
<1>7. /\ att' = [att EXCEPT ![a] = r] /\ epoll' = epoll /\ client[c].pc = "trying"
      /\ path' = path /\ callbacks' = callbacks
  BY <1>1
<1>8. StartsAttempt(c, a, f, r) BY <1>2, <1>3, <1>4, <1>6, <1>7, Zenon DEF StartsAttempt
<1>9. QED BY <1>2, <1>3, <1>8, AttemptStarts, Zenon

LEMMA ConnectStarts ==
  ASSUME ConnectWatchInit
  PROVE  ConnectSafe
<1>1. /\ Unused \in AttRecords /\ Unused.st = "unused" /\ Unused.wait = "none" /\ ~Unused.done
  BY DEF Unused, AttRecords
<1>2. /\ path \in Paths /\ att = [a \in Tries |-> Unused]
      /\ client = [c \in Clients |-> [pc |-> "idle", left |-> 0]]
      /\ sockAt = [f \in ConnFds |-> 0] /\ epoll = [f \in ConnFds |-> 0]
      /\ callbacks = <<>> /\ tasks = <<>>
  BY DEF ConnectWatchInit
<1>3. Attempts \in Nat /\ 0 \in 0..Attempts BY ConnectWatchAssumption
<1>4. \A a \in Tries : att[a] = Unused BY <1>2
<1>5. ConnectTypeOK
 <2>1. att \in [Tries -> AttRecords] BY <1>1, <1>2
 <2>2. client \in [Clients -> ClientRecords] BY <1>2 DEF ClientRecords
 <2>3. sockAt \in [ConnFds -> 0..Attempts] /\ epoll \in [ConnFds -> 0..Attempts] BY <1>2, <1>3
 <2>4. callbacks \in Seq(EntryRecords) /\ tasks \in Seq(Tries) BY <1>2
 <2>5. QED
   BY <1>1, <1>2, <1>4, <2>1, <2>2, <2>3, <2>4 DEF ConnectTypeOK, AttRecords, ClientRecords,
     EntryRecords
<1>6. FutureTellsTruth /\ NumbersReused /\ LiveWaitsRegistered
  BY <1>1, <1>4 DEF FutureTellsTruth, NumbersReused, LiveWaitsRegistered
<1>7. SocketsAccounted BY <1>1, <1>2, <1>4 DEF SocketsAccounted, Live
<1>8. DOMAIN callbacks = {} /\ DOMAIN tasks = {} BY <1>2
<1>9. ResumedInOrder
  BY <1>1, <1>4, <1>8 DEF ResumedInOrder, WakeupsDue, DonesFollowed, CompletionsTrue
<1>10. WatchesInOrder BY <1>1, <1>2, <1>4, <1>8 DEF WatchesInOrder, WatchesPolled, OldWatchesFirst
<1>11. QED BY <1>5, <1>6, <1>7, <1>9, <1>10 DEF ConnectSafe

LEMMA ConnectKept ==
  ASSUME ConnectSafe, UNCHANGED connectVars
  PROVE  ConnectSafe'
<1>1. /\ path' = path /\ client' = client /\ att' = att /\ sockAt' = sockAt /\ epoll' = epoll
      /\ callbacks' = callbacks /\ tasks' = tasks
  BY Zenon DEF connectVars
<1>2. /\ ConnectTypeOK /\ FutureTellsTruth /\ SocketsAccounted /\ NumbersReused
      /\ ResumedInOrder /\ WatchesPolled /\ OldWatchesFirst
      /\ path = "fast" => LiveWaitsRegistered
  BY ConnectParts, Zenon
<1>3. ConnectTypeOK' /\ FutureTellsTruth' /\ SocketsAccounted' /\ NumbersReused'
  BY <1>1, <1>2 DEF ConnectTypeOK, FutureTellsTruth, SocketsAccounted, NumbersReused, Live
<1>4. path' = "fast" => LiveWaitsRegistered' BY <1>1, <1>2, Zenon DEF LiveWaitsRegistered
<1>5. KeepsFutures /\ KeepsWaits BY <1>1, Zenon DEF KeepsFutures, KeepsWaits
<1>6. ResumedInOrder' /\ WatchesPolled' /\ OldWatchesFirst'
  BY <1>1, <1>2, <1>5, FuturesKept, WaitsKept, Zenon
<1>7. QED BY <1>3, <1>4, <1>6 DEF ConnectSafe, WatchesInOrder

LEMMA ConnectNextKept == ConnectSafe /\ [ConnectWatchNext]_connectVars => ConnectSafe'
<1>1. SUFFICES ASSUME ConnectSafe, [ConnectWatchNext]_connectVars PROVE ConnectSafe' OBVIOUS
<1>2. ASSUME NEW c \in Clients, create_connection(c) \/ fast_sock_connect(c) \/ sock_connect(c) \/ cancel_client(c)
      PROVE  ConnectSafe'
  BY <1>1, <1>2, CreateConnectionStep, FastConnectStep, SockConnectStep, CancelClientStep, Zenon
<1>3. ASSUME NEW a \in Tries, connect_resolves(a) \/ SmolTask(a) \/ rearmed_watch_ends(a)
      PROVE  ConnectSafe'
  BY <1>1, <1>3, ConnectResolvesStep, SmolTaskStep, RearmedStep, Zenon
<1>4. CASE run_connect_watch_task BY <1>1, <1>4, RunWatchStep, Zenon
<1>5. CASE LoopCallback
  BY <1>1, <1>5, ConnectDoneStep, ResolveStep, ClientWakesStep, Zenon DEF LoopCallback
<1>6. CASE UNCHANGED connectVars BY <1>1, <1>6, ConnectKept, Zenon
<1>7. QED BY <1>1, <1>2, <1>3, <1>4, <1>5, <1>6, Zenon DEF ConnectWatchNext

\* Connecting on reused descriptor numbers: a future that is done tells the truth about its
\* own socket, a coroutine is resumed once with its socket still open, and a wait on the
\* loop's own reactor keeps its registration, through re-arms and whatever is closed; a wait on
\* async-io's may lose it (fast_sock_connect, run_connect_watch_task, ConnectDone,
\* resolve_connect_completed, sock_connect).
THEOREM ConnectIsSafe == ConnectWatchSpec => []ConnectSafe
  BY ConnectStarts, ConnectNextKept, PTL DEF ConnectWatchSpec

SocketsInv == (part = "sock" => SocketParts) /\ (part = "connect" => ConnectSafe)

LEMMA SocketsStepOfLoop == SocketsInv /\ [LoopNext]_loopVars => SocketsInv'
<1> SUFFICES ASSUME SocketsInv, [LoopNext]_loopVars PROVE SocketsInv' OBVIOUS
<1>1. part' = part BY DEF LoopNext
<1>2. CASE part = "sock"
 <2>1. [SocketOpsNext]_socketVars BY <1>2 DEF LoopNext
 <2>2. QED BY <1>1, <1>2, <2>1, SocketOpsKept, Zenon DEF SocketsInv
<1>3. CASE part = "connect"
 <2>1. [ConnectWatchNext]_connectVars BY <1>3, Zenon DEF LoopNext
 <2>2. QED BY <1>1, <1>3, <2>1, ConnectNextKept, Zenon DEF SocketsInv
<1>4. QED BY <1>1, <1>2, <1>3 DEF SocketsInv

\* For every number of operations, clients, attempts and descriptor numbers: sock_ calls take
\* nothing for a caller that is gone, and the future of a connect is true of its own socket
\* although the number may be another's by then (socket_operation.rs, socket_connect.rs).
\* That a native wait keeps its registration is not claimed: it does not hold.
THEOREM SocketCallsAreSafe == LoopSpec => []SocketCallsSafe
<1>1. LoopInit => SocketsInv BY SocketOpsStarts, ConnectStarts DEF LoopInit, SocketsInv
<1>2. SocketsInv => SocketCallsSafe BY SocketSafeParts DEF SocketsInv, SocketCallsSafe, SocketParts
<1>3. QED BY <1>1, <1>2, SocketsStepOfLoop, PTL DEF LoopSpec

=============================================================================
