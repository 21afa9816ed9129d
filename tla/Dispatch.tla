------------------------------ MODULE Dispatch ------------------------------
(***************************************************************************)
(* Actor::call_handler (src/src/Actor.cpp) with the fall-back to          *)
(* process_message of process_message_internal: the handler cache of one  *)
(* actor.  handler_cache and dont_have_handler are vectors of             *)
(* ACTOR_HANDLER_CACHE_SIZE entries indexed by get_message_id(); the      *)
(* handlers map is keyed by the message's dynamic type.  A registered     *)
(* handler is named by the type it was registered for; "default" is the   *)
(* actor's process_message.  One dispatch is one step: it runs under the  *)
(* actor's fast_send_mutex.                                                *)
(***************************************************************************)
EXTENDS Naturals, Sequences

CONSTANTS Types,       \* the message types dispatched to the actor
          IdOf,        \* [Types -> Nat]: Message_N<N>::get_message_id()
          Registered,  \* types with a MESSAGE_HANDLER (the handlers map)
          CacheSize,   \* ACTOR_HANDLER_CACHE_SIZE (512)
          None, Garbage

ASSUME Registered \subseteq Types /\ CacheSize \in Nat \ {0}

Slots == 0..(CacheSize - 1)
\* register_handler stores one handler per message type (typeid(MsgT)); a
\* handler is named by its type here, and "default" is process_message.
Handlers == Registered \cup {"default"}

VARIABLES cache,   \* handler_cache
          neg,     \* dont_have_handler
          calls    \* history: <<type dispatched, handler invoked>>

vars == <<cache, neg, calls>>

\* Actor::Actor resizes both vectors to CacheSize, all null / false.
Init == /\ cache = [i \in Slots |-> None]
        /\ neg = [i \in Slots |-> FALSE]
        /\ calls = <<>>

\* handler_cache[id] / dont_have_handler[id].  An id at or past the end
\* reads memory past the vector (undefined behaviour): null, some handler
\* pointer or a garbage pointer, and any bool.
ReadCache(id) == IF id < CacheSize THEN {cache[id]}
                 ELSE Handlers \cup {None, Garbage}
ReadNeg(id) == IF id < CacheSize THEN {neg[id]} ELSE BOOLEAN

\* Mutant: the write lands one slot off.
StoreNext(v, id, x) ==
    IF id + 1 < CacheSize THEN [v EXCEPT ![id + 1] = x] ELSE v

\* A write past the end changes no slot of this actor.
Store(v, id, x) == IF id < CacheSize THEN [v EXCEPT ![id] = x] ELSE v

\* No handler for the type: dont_have_handler[id] = true.
RecordMiss(id) == neg' = Store(neg, id, TRUE) /\ UNCHANGED cache

\* call_handler for a message of type ty, then process_message on a miss.
CallHandler(ty) ==
    LET id == IdOf[ty] IN
    \E f0 \in ReadCache(id), nb \in ReadNeg(id) :
      CASE f0 # None ->
             calls' = Append(calls, <<ty, f0>>) /\ UNCHANGED <<cache, neg>>
        [] nb ->
             calls' = Append(calls, <<ty, "default">>) /\ UNCHANGED <<cache, neg>>
        [] ty \in Registered ->
             /\ calls' = Append(calls, <<ty, ty>>)
             /\ cache' = Store(cache, id, ty)
             /\ UNCHANGED neg
        [] OTHER ->
             /\ calls' = Append(calls, <<ty, "default">>)
             /\ RecordMiss(id)

Next == \E ty \in Types : CallHandler(ty)

Spec == Init /\ [][Next]_vars

-----------------------------------------------------------------------------
TypeOK == /\ cache \in [Slots -> Registered \cup {None}]
          /\ neg \in [Slots -> BOOLEAN]
          /\ calls \in Seq(Types \X (Handlers \cup {Garbage}))

\* The reference dispatch: the handler registered for the message's type,
\* else process_message.
Expected(ty) == IF ty \in Registered THEN ty ELSE "default"

\* Fast-path equivalence (spec.md 8, property 5): whatever dispatches came
\* before, memoised and negative entries included, every dispatch invokes
\* what a lookup of the handlers map would.
DispatchMatchesTable ==
    \A i \in DOMAIN calls : calls[i][2] = Expected(calls[i][1])
=============================================================================
