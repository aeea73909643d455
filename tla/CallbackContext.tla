-------------------------- MODULE CallbackContext --------------------------
(***************************************************************************)
(* The context a callback runs in: call_soon reads its arguments           *)
(* (bindings/loop_api/fast_callbacks.rs), captures a context (context.rs)  *)
(* and queues a handle; the loop thread enters the context, calls and      *)
(* leaves it (engine/callbacks.rs).  A callback scheduled from an empty    *)
(* context keeps no context at all: an empty one is found when it runs,    *)
(* from a one-place cache that takes it back afterwards.                   *)
(*                                                                         *)
(* A context is a number and vals says whether its one context variable is *)
(* set.  Context 1 is the one run_forever was called in, context 2 one the *)
(* program names explicitly; the others are made by the code.              *)
(***************************************************************************)
EXTENDS Integers, Sequences, FiniteSets, SequencesExt

CONSTANTS MaxCtx,      \* contexts alive at once
          QueueBound,  \* handles waiting
          CallBound,   \* callbacks scheduled in all
          Caching      \* the build keeps an empty context (not Py_GIL_DISABLED)

ASSUME CallbackContextAssumption ==
    MaxCtx \in Nat /\ MaxCtx > 3 /\ QueueBound \in Nat /\ CallBound \in Nat /\ Caching \in BOOLEAN

BaseCtx == 1
UserCtx == 2
NoCtx == 0

VARIABLES vals,      \* context -> whether its variable is set
          entered,   \* contexts entered on the loop thread, the current one last
          beneath,   \* contexts entered when the loop began to run
          slot,      \* EMPTY_CALLBACK_CONTEXT
          ctx_handles,   \* handles in scheduling order: context, contents at scheduling
          call,      \* the callback being run
          otherIn,   \* another thread is inside UserCtx
          tokens,    \* contexts a retained Token refers to
          ctx_scheduled  \* callbacks scheduled so far

contextVars == <<vals, entered, beneath, slot, ctx_handles, call, otherIn, tokens, ctx_scheduled>>

Idle == [on |-> FALSE, ctx |-> NoCtx, snap |-> FALSE, empty |-> NoCtx, where |-> NoCtx, seen |-> FALSE]

CallbackContextTypeOK ==
    /\ vals \in [1..MaxCtx -> BOOLEAN] /\ entered \in Seq(1..MaxCtx) /\ beneath \in Seq(1..MaxCtx)
    /\ slot \in 0..MaxCtx /\ otherIn \in BOOLEAN /\ tokens \subseteq 1..MaxCtx
    /\ ctx_handles \in Seq([ctx : 0..MaxCtx, snap : BOOLEAN, cancelled : BOOLEAN])
    /\ call.ctx \in 0..MaxCtx /\ call.where \in 0..MaxCtx /\ ctx_scheduled \in 0..CallBound

CallbackContextInit ==
    /\ vals \in {v \in [1..MaxCtx -> BOOLEAN] : \A c \in 3..MaxCtx : ~v[c]}
    /\ beneath \in {<<BaseCtx>>, <<UserCtx>>, <<UserCtx, BaseCtx>>} /\ entered = beneath
    /\ slot = NoCtx /\ ctx_handles = <<>> /\ call = Idle /\ otherIn = FALSE /\ tokens = {} /\ ctx_scheduled = 0

Current == Last(entered)

\* Contexts something refers to; a new one takes a number that is free.
InUse == {BaseCtx, UserCtx, slot} \cup Range(entered) \cup tokens \cup {ctx_handles[i].ctx : i \in DOMAIN ctx_handles}
NewContext == CHOOSE c \in (1..MaxCtx) \ InUse : \A d \in (1..MaxCtx) \ InUse : c <= d
RoomForNew == (1..MaxCtx) \ InUse # {}

(* ------------------------------ call_soon ------------------------------- *)

Failed == [ok |-> FALSE]
Call(c, as, ctx) == [ok |-> TRUE, callback |-> c, args |-> as, context |-> ctx]

\* schedule: n positional arguments, then one value per keyword name; a value is known by its
\* place.  Two shapes are read without a look at the names' text.
General(n, names) ==
    LET At(name) == {i \in DOMAIN names : names[i] = name} IN
    IF \/ \E i \in DOMAIN names : names[i] \notin {"callback", "context"}
       \/ n > 0 /\ At("callback") # {}
       \/ n = 0 /\ At("callback") = {}
       \/ Cardinality(At("callback")) > 1 \/ Cardinality(At("context")) > 1
    THEN Failed
    ELSE Call(IF n > 0 THEN 1 ELSE n + CHOOSE i \in At("callback") : TRUE, 2..n,
              IF At("context") = {} THEN 0 ELSE n + CHOOSE i \in At("context") : TRUE)

schedule(n, names) ==
    IF names = <<>> THEN IF n = 0 THEN Failed ELSE Call(1, 2..n, 0)
    ELSE IF n \in {1, 2} /\ names = <<"context">> THEN Call(1, IF n = 2 THEN {2} ELSE {}, n + 1)
    ELSE General(n, names)

\* capture_callback_context: the explicit context itself, else a copy of the current one, and
\* nothing at all for a copy that is empty.
capture_callback_context(explicit) ==
    IF explicit THEN UserCtx ELSE IF vals[Current] THEN NewContext ELSE NoCtx

call_soon(explicit) ==
    /\ ctx_scheduled < CallBound /\ ctx_scheduled' = ctx_scheduled + 1
    /\ Len(ctx_handles) < QueueBound /\ (~explicit /\ vals[Current] => RoomForNew)
    /\ LET c == capture_callback_context(explicit) IN
       /\ ctx_handles' = Append(ctx_handles, [ctx |-> c, snap |-> IF explicit THEN vals[UserCtx] ELSE vals[Current],
                                      cancelled |-> FALSE])
       /\ vals' = IF c = NoCtx \/ explicit THEN vals ELSE [vals EXCEPT ![c] = vals[Current]]
    /\ UNCHANGED <<entered, beneath, slot, call, otherIn, tokens>>

cancel(i) ==
    /\ i \in DOMAIN ctx_handles /\ ~ctx_handles[i].cancelled
    /\ ctx_handles' = [ctx_handles EXCEPT ![i].cancelled = TRUE]
    /\ UNCHANGED <<vals, entered, beneath, slot, call, otherIn, tokens, ctx_scheduled>>

(* -------------------------------- running ------------------------------- *)

\* empty_callback_context
EmptyContext == IF slot # NoCtx THEN slot ELSE NewContext

\* enter_context refuses a context that some thread is inside.
Enterable(c) == c \notin Range(entered) /\ ~(c = UserCtx /\ otherIn)

drop_cancelled ==
    /\ ~call.on /\ ctx_handles # <<>> /\ Head(ctx_handles).cancelled /\ ctx_handles' = Tail(ctx_handles)
    /\ UNCHANGED <<vals, entered, beneath, slot, call, otherIn, tokens, ctx_scheduled>>

\* invoke_with up to the call; a context that is already entered is not entered again.
invoke ==
    /\ ~call.on /\ ctx_handles # <<>> /\ ~Head(ctx_handles).cancelled
    /\ Head(ctx_handles).ctx = NoCtx /\ slot = NoCtx => RoomForNew
    /\ LET h == Head(ctx_handles)
           empty == h.ctx = NoCtx
           c == IF empty THEN EmptyContext ELSE h.ctx
           v == IF empty /\ slot = NoCtx THEN [vals EXCEPT ![c] = FALSE] ELSE vals
       IN /\ vals' = v /\ entered' = IF Enterable(c) THEN Append(entered, c) ELSE entered
          /\ slot' = IF empty THEN NoCtx ELSE slot
          /\ call' = [on |-> TRUE, ctx |-> h.ctx, snap |-> h.snap, empty |-> IF empty THEN c ELSE NoCtx,
                      where |-> IF Enterable(c) THEN c ELSE NoCtx,
                      seen |-> v[IF Enterable(c) THEN c ELSE Current]]
          /\ ctx_handles' = Tail(ctx_handles)
    /\ UNCHANGED <<beneath, otherIn, tokens, ctx_scheduled>>

\* The callback sets the variable, keeping the token or not, or resets it.
set_variable(keep) ==
    /\ call.on /\ ~vals[Current] /\ vals' = [vals EXCEPT ![Current] = TRUE]
    /\ tokens' = IF keep THEN tokens \cup {Current} ELSE tokens
    /\ UNCHANGED <<entered, beneath, slot, ctx_handles, call, otherIn, ctx_scheduled>>

reset_variable ==
    /\ call.on /\ vals[Current] /\ vals' = [vals EXCEPT ![Current] = FALSE]
    /\ UNCHANGED <<entered, beneath, slot, ctx_handles, call, otherIn, tokens, ctx_scheduled>>

drop_token(c) ==
    /\ c \in tokens /\ tokens' = tokens \ {c}
    /\ UNCHANGED <<vals, entered, beneath, slot, ctx_handles, call, otherIn, ctx_scheduled>>

\* recycle_callback_context: nobody else refers to it and it is empty.
\* Mutant: the contents are not looked at.
Recyclable_AnyContents(c) == c \notin tokens
Recyclable(c) == c \notin tokens /\ ~vals[c]

\* The call is over, with a result or an exception: leave what was entered.
callback_ends ==
    /\ call.on /\ call' = Idle
    /\ entered' = IF call.where # NoCtx THEN Front(entered) ELSE entered
    /\ slot' = IF Caching /\ call.where # NoCtx /\ call.empty # NoCtx /\ Recyclable(call.empty)
               THEN call.empty ELSE slot
    /\ UNCHANGED <<vals, beneath, ctx_handles, otherIn, tokens, ctx_scheduled>>

\* Another thread runs something in UserCtx.
other_thread ==
    /\ UserCtx \notin Range(entered) /\ otherIn' = ~otherIn
    /\ vals' \in {vals, [vals EXCEPT ![UserCtx] = TRUE]}
    /\ UNCHANGED <<entered, beneath, slot, ctx_handles, call, tokens, ctx_scheduled>>

CallbackContextNext ==
    \/ \E explicit \in BOOLEAN : call_soon(explicit)
    \/ \E i \in 1..QueueBound : cancel(i)
    \/ drop_cancelled \/ invoke \/ callback_ends \/ reset_variable \/ other_thread
    \/ \E keep \in BOOLEAN : set_variable(keep)
    \/ \E c \in 1..MaxCtx : drop_token(c)

CallbackContextSpec == CallbackContextInit /\ [][CallbackContextNext]_contextVars

(* ------------------------------ properties ------------------------------ *)

\* A callback scheduled without a context runs in one of its own and finds the variables as
\* they were when it was scheduled.
SeesItsContext ==
    call.on /\ call.ctx # UserCtx => call.where \notin {NoCtx, UserCtx} /\ call.seen = call.snap

\* Between callbacks the loop thread is back where run_forever was called.
LoopContextRestored ==
    IF call.on THEN entered \in {beneath, Append(beneath, call.where)} ELSE entered = beneath

\* The cached context is empty and nobody else has it.
CachedIsClean ==
    slot # NoCtx => /\ ~vals[slot] /\ slot \notin tokens /\ slot \notin Range(entered)
                    /\ \A i \in DOMAIN ctx_handles : ctx_handles[i].ctx # slot

\* The shapes read directly give what a reading of call_soon(callback, *args, context=None)
\* gives.
ArgumentsAgree ==
    \A n \in 0..3 : \A names \in UNION {[1..k -> {"callback", "context", "other"}] : k \in 0..2} :
        (\A i, j \in DOMAIN names : i # j => names[i] # names[j]) => schedule(n, names) = General(n, names)

\* What the context of a callback promises.
ContextSafe == SeesItsContext /\ LoopContextRestored /\ CachedIsClean /\ ArgumentsAgree
=============================================================================
