------------------------------ MODULE Mailbox ------------------------------
(***************************************************************************)
(* BQueue<T> (src/include/actors/BQueue.hpp), the mailbox of every actor:  *)
(* a bounded ring cb_ of capacity Cap that spills into an unbounded deque *)
(* overflow_, one mutex and one condition variable.  Several producer     *)
(* threads push; the actor's worker thread is the only consumer.          *)
(*                                                                         *)
(* push and pop run entirely under the mutex, so each is one step.  The   *)
(* notify_one of push happens after the lock is released and is a step of *)
(* its own.  The consumer's cv.wait with predicate is a check under the   *)
(* lock followed, when both buffers are empty, by a wait that a notify    *)
(* (or a spurious wakeup) ends.  An element is <<producer, number>>.      *)
(***************************************************************************)
EXTENDS Naturals, Sequences, SequencesExt

CONSTANTS Producers,       \* threads that call push
          Cap,             \* ring capacity (ACTOR_BQUEUE_SIZE, 64 in the code)
          MaxPerProducer   \* how many elements each producer pushes

ASSUME Cap \in Nat \ {0} /\ MaxPerProducer \in Nat \ {0}

VARIABLES cb,     \* the ring buffer cb_
          ovf,    \* the overflow deque overflow_
          ppc,    \* producer program counter: "push" or "notify"
          cpc,    \* consumer program counter: "pop" (checking) or "wait"
          sent,   \* number of elements each producer has pushed
          got     \* history: elements returned by pop, in order

vars == <<cb, ovf, ppc, cpc, sent, got>>

Elem == Producers \X (1..MaxPerProducer)

Init == /\ cb = <<>> /\ ovf = <<>>
        /\ ppc = [p \in Producers |-> "push"]
        /\ cpc = "pop"
        /\ sent = [p \in Producers |-> 0]
        /\ got = <<>>

\* Mutant: push puts the element in the ring whenever the ring has room.
PushRingFirst(p) ==
    /\ ppc[p] = "push"
    /\ sent[p] < MaxPerProducer
    /\ LET x == <<p, sent[p] + 1>> IN
         IF Len(cb) = Cap
         THEN ovf' = Append(ovf, x) /\ UNCHANGED cb
         ELSE cb' = Append(cb, x) /\ UNCHANGED ovf
    /\ sent' = [sent EXCEPT ![p] = @ + 1]
    /\ ppc' = [ppc EXCEPT ![p] = "notify"]
    /\ UNCHANGED <<cpc, got>>

\* push(): under the lock, append to overflow_ when it is already in use or
\* the ring is full, else to the ring.
Push(p) ==
    /\ ppc[p] = "push"
    /\ sent[p] < MaxPerProducer
    /\ LET x == <<p, sent[p] + 1>> IN
         IF ovf # <<>> \/ Len(cb) = Cap
         THEN ovf' = Append(ovf, x) /\ UNCHANGED cb
         ELSE cb' = Append(cb, x) /\ UNCHANGED ovf
    /\ sent' = [sent EXCEPT ![p] = @ + 1]
    /\ ppc' = [ppc EXCEPT ![p] = "notify"]
    /\ UNCHANGED <<cpc, got>>

\* Mutant: the notification is lost.
NotifyLost(p) ==
    /\ ppc[p] = "notify"
    /\ ppc' = [ppc EXCEPT ![p] = "push"]
    /\ UNCHANGED <<cpc, cb, ovf, sent, got>>

\* push(), after the lock is released: cv.notify_one() wakes the consumer
\* if it is waiting.
Notify(p) ==
    /\ ppc[p] = "notify"
    /\ ppc' = [ppc EXCEPT ![p] = "push"]
    /\ cpc' = IF cpc = "wait" THEN "pop" ELSE cpc
    /\ UNCHANGED <<cb, ovf, sent, got>>

\* pop(): under the lock, evaluate the wait predicate; when both buffers are
\* empty, block on the condition variable (releasing the lock), otherwise
\* remove the head of the ring, or of the overflow when the ring is empty.
Pop ==
    /\ cpc = "pop"
    /\ IF cb = <<>> /\ ovf = <<>>
       THEN cpc' = "wait" /\ UNCHANGED <<cb, ovf, got>>
       ELSE /\ IF cb # <<>>
               THEN cb' = Tail(cb) /\ got' = Append(got, Head(cb))
                    /\ UNCHANGED ovf
               ELSE ovf' = Tail(ovf) /\ got' = Append(got, Head(ovf))
                    /\ UNCHANGED cb
            /\ UNCHANGED cpc
    /\ UNCHANGED <<ppc, sent>>

\* A spurious wakeup of cv.wait: the predicate is evaluated again.
Spurious ==
    /\ cpc = "wait"
    /\ cpc' = "pop"
    /\ UNCHANGED <<cb, ovf, ppc, sent, got>>

Next == \/ \E p \in Producers : Push(p) \/ Notify(p)
        \/ Pop
        \/ Spurious

\* Every thread that can run eventually runs; spurious wakeups may never come.
Fairness == /\ \A p \in Producers : WF_vars(Push(p)) /\ WF_vars(Notify(p))
            /\ WF_vars(Pop)

Spec == Init /\ [][Next]_vars /\ Fairness

-----------------------------------------------------------------------------
TypeOK == /\ cb \in Seq(Elem) /\ Len(cb) <= Cap
          /\ ovf \in Seq(Elem)
          /\ ppc \in [Producers -> {"push", "notify"}]
          /\ cpc \in {"pop", "wait"}
          /\ sent \in [Producers -> 0..MaxPerProducer]
          /\ got \in Seq(Elem)

\* The pair (ring, overflow) behaves as one FIFO queue: the mailbox refines
\* Fifo with the queue being the ring followed by the overflow.  A push that
\* put an element in the ring while older ones wait in the overflow would
\* let it overtake them (spec.md 3, "pushes preserve FIFO").
Abstract == INSTANCE Fifo WITH q <- cb \o ovf

FifoRefinement == Abstract!Spec

\* No lost wakeup: every element pushed is eventually returned by pop, even
\* though notify_one runs outside the lock and the consumer may be between
\* its predicate check and its wait.
EveryPushPopped ==
    \A p \in Producers : \A i \in 1..MaxPerProducer :
        (sent[p] >= i) ~> (<<p, i>> \in ToSet(got))
=============================================================================
