------------------------------ MODULE Runtime ------------------------------
(***************************************************************************)
(* The local actor runtime of actors-cpp: Actor::send, fast_send, reply,   *)
(* the worker loop Actor::operator(), process_message_internal, terminate  *)
(* (src/src/Actor.cpp), the Group start/shutdown fan-out and forward      *)
(* (src/src/Group.cpp) and Manager::init / Manager::end                   *)
(* (src/src/Manager.cpp).                                                  *)
(*                                                                         *)
(* Threads are the main thread, which runs Manager::init and then         *)
(* Manager::end, and one worker per managed actor or group.  A thread     *)
(* runs a stack of handler frames: fast_send and Group::forward run the   *)
(* target's handler on the caller's thread, holding the target's          *)
(* fast_send_mutex.  What a handler does is the application's business:   *)
(* Script(a, k, n) gives the operations (send, reply, fast_send,          *)
(* terminate) the handler of actor a runs for a message of kind k and     *)
(* payload n.  Each operation is one step.  A mailbox is a sequence: the  *)
(* Mailbox module shows that BQueue implements a FIFO queue.              *)
(***************************************************************************)
EXTENDS Naturals, Sequences, SequencesExt

CONSTANTS
    Actors,           \* application actors
    Groups,           \* Group actors
    Mgr,              \* the Manager (an Actor)
    Main,             \* the main thread
    NoActor,          \* nullptr in an Actor* field; also "mutex free"
    Members,          \* [Groups -> Seq(Actors)]: members in Group::add order
    Managed,          \* the actors passed to Manager::manage, in call order
    Kinds,            \* message kinds, "Start" (id 0) and "Shutdown" (id 5) among them
    Handles(_),       \* kinds an actor registered a MESSAGE_HANDLER for
    Script(_, _, _),  \* the application handler: ops of actor a for kind k, payload n
    MaxN,             \* payloads are 0..MaxN
    MaxMsgs           \* bound on the number of messages allocated

AllActors == Actors \cup Groups \cup {Mgr}

\* One call of Manager::manage(a) on the manager's state: actor_list,
\* managed_name_map and expanded_name_map (an actor is its own name).  A
\* failed assert aborts the process, and no later call runs.
ManageStep(st, a) ==
    LET members == IF a \in Groups THEN ToSet(Members[a]) ELSE {} IN
    CASE st.failed # "none" -> st
      [] a \in st.managed -> [st EXCEPT !.failed = "already managed"]
      [] a \in st.expanded -> [st EXCEPT !.failed = "part of a managed group"]
      [] a \in Groups /\ Members[a] = <<>> -> [st EXCEPT !.failed = "empty group"]
      [] members \cap (st.expanded \cup {a}) # {} ->
             [st EXCEPT !.failed = "member managed elsewhere"]
      [] OTHER -> [list |-> Append(st.list, a), managed |-> st.managed \cup {a},
                   expanded |-> st.expanded \cup {a} \cup members, failed |-> "none"]

Manage == FoldLeft(ManageStep,
                   [list |-> <<>>, managed |-> {}, expanded |-> {}, failed |-> "none"],
                   Managed)

ActorList == Manage.list
Workers == ToSet(ActorList)
Threads == Workers \cup {Main}

ASSUME /\ {"Start", "Shutdown"} \subseteq Kinds
       /\ Manage.failed = "none"
       /\ Workers \subseteq (Actors \cup Groups)
       /\ Main \notin AllActors /\ NoActor \notin AllActors \cup {Main}

\* Group::add sets group / is_part_of_group on the member.
GroupOf(a) == IF \E g \in Groups : a \in ToSet(Members[g])
              THEN CHOOSE g \in Groups : a \in ToSet(Members[g])
              ELSE NoActor

VARIABLES
    msgs,        \* every message allocated so far, indexed by allocation order
    mq,          \* msgq of each actor: ids of the queued messages
    terminated,  \* Actor::terminated
    replyTo,     \* Actor::reply_to
    usingFast,   \* Actor::using_fast_send
    replyMsg,    \* Actor::reply_message (0 is nullptr)
    holder,      \* owner thread of each actor's fast_send_mutex (NoActor: free)
    pc,          \* what each thread is doing
    cur,         \* the message the worker last popped
    stk,         \* each thread's stack of handler frames
    fault,       \* "none", or the assertion that aborted the process
    timers       \* the detached Timer threads still sleeping: [to, n] each

vars == <<msgs, mq, terminated, replyTo, usingFast, replyMsg, holder, pc,
          cur, stk, fault, timers>>

-----------------------------------------------------------------------------
(* Operations run by handlers, and the constructors of messages.          *)

OpNames == {"send", "reply", "fast", "terminate", "spawn", "forward", "wake"}
Op == [op : OpNames \ {"wake"}, to : AllActors \cup {NoActor}, kind : Kinds, n : 0..MaxN]
      \cup [op : {"wake"}, to : AllActors, kind : {"Timeout"}, n : 0..MaxN, interval : Nat]
SendOp(to, k, n) == [op |-> "send", to |-> to, kind |-> k, n |-> n]
ReplyOp(k, n)    == [op |-> "reply", to |-> NoActor, kind |-> k, n |-> n]
FastOp(to, k, n) == [op |-> "fast", to |-> to, kind |-> k, n |-> n]
TermOp(to)       == [op |-> "terminate", to |-> to, kind |-> "Shutdown", n |-> 0]
\* Timer::wake_up_at(to, interval, n).
WakeOp(to, iv, n) ==
    [op |-> "wake", to |-> to, kind |-> "Timeout", n |-> n, interval |-> iv]

\* st: "queued" in a mailbox, "taken" by a worker loop, "dropped" by send to
\* a terminated actor, "fast" passed to fast_send, "captured" in
\* reply_message, "returned" to the caller of fast_send.  origin is history:
\* the message being handled when this one was created by reply(), else 0.
\* frees counts the deletes of the message.
Msg(k, n, s, d, f, st, o) ==
    [kind |-> k, n |-> n, sender |-> s, dest |-> d, fast |-> f, st |-> st,
     origin |-> o, frees |-> 0]

Frame(a, m, ops, mode) == [self |-> a, msg |-> m, ops |-> ops, mode |-> mode]

\* Manager::init: fast_send a Start (sender nullptr) to every managed actor
\* in order, then start one thread per managed actor, then send a Start to
\* the Manager itself.  Affinity and priority set-up only print on failure.
MainScript ==
    [i \in 1..Len(ActorList) |-> FastOp(ActorList[i], "Start", 0)]
    \o [i \in 1..Len(ActorList) |-> [op |-> "spawn", to |-> ActorList[i],
                                    kind |-> "Start", n |-> 0]]
    \o <<SendOp(Mgr, "Start", 0)>>

\* The handlers of a Group: start_handler and shutdown_handler fan out to
\* the members with fast_send (sender = the group) unless the message came
\* from the group itself; every other message goes to process_message,
\* which forwards it to its destination member.
GroupOps(g, m) ==
    LET fan(k) == [i \in 1..Len(Members[g]) |-> FastOp(Members[g][i], k, 0)]
    IN  IF m.kind \in {"Start", "Shutdown"} /\ m.sender # g
        THEN fan(m.kind)
        ELSE <<[op |-> "forward", to |-> m.dest, kind |-> m.kind, n |-> m.n]>>

\* call_handler, and process_message when no handler is registered (the
\* default process_message does nothing).
HandlerOps(a, m) ==
    IF a \in Groups THEN GroupOps(a, m)
    ELSE IF m.kind \in Handles(a) THEN Script(a, m.kind, m.n) ELSE <<>>

\* Mutant: Group::forward's dontdel is ignored, so both the member and the
\* group's loop delete a forwarded message.
DeletesOnReturnAlways(mode) == mode \in {"async", "forward"}

\* Mutant: dontdel is taken as true by default, so the worker loop never
\* deletes what it handled.
DeletesOnReturnNever(mode) == FALSE

\* process_message_internal deletes the message unless dontdel is set,
\* which only Group::forward does.
DeletesOnReturn(mode) == mode = "async"

Init ==
    /\ msgs = <<>>
    /\ mq = [a \in AllActors |-> <<>>]
    /\ terminated = [a \in AllActors |-> FALSE]
    /\ replyTo = [a \in AllActors |-> NoActor]
    /\ usingFast = [a \in AllActors |-> FALSE]
    /\ replyMsg = [a \in AllActors |-> 0]
    /\ holder = [a \in AllActors |-> NoActor]
    /\ pc = [t \in Threads |-> IF t = Main THEN "init" ELSE "unborn"]
    /\ cur = [t \in Threads |-> 0]
    /\ stk = [t \in Threads |-> IF t = Main
                                THEN <<Frame(NoActor, 0, MainScript, "main")>>
                                ELSE <<>>]
    /\ fault = "none"
    /\ timers = <<>>

-----------------------------------------------------------------------------
(* Handler operations.                                                     *)

Top(t) == Last(stk[t])
NextOp(t) == Head(Top(t).ops)
\* The top frame with its first operation done.
Advance(t) == Front(stk[t]) \o <<[Top(t) EXCEPT !.ops = Tail(@)]>>

\* terminated is a plain bool: the receiver's worker thread sets it after
\* leaving its loop, and send() reads it on the sender's thread with no
\* lock or atomic in between.  That data race lets a read after the write
\* still return the old value, false.
ReadTerminated(a) == IF terminated[a] THEN BOOLEAN ELSE {FALSE}

\* Actor::send(m, sender): dropped (and never deleted) when the receiver is
\* seen terminated; else stamped and pushed to the receiver's mailbox, or to
\* its group's mailbox when it is part of a group.
Send(to, k, n, s, o) ==
    /\ Len(msgs) < MaxMsgs
    /\ \E seen \in ReadTerminated(to) :
          IF seen
          THEN /\ msgs' = Append(msgs, Msg(k, n, s, NoActor, FALSE, "dropped", o))
               /\ UNCHANGED mq
          ELSE LET box == IF GroupOf(to) # NoActor THEN GroupOf(to) ELSE to
               IN  /\ msgs' = Append(msgs, Msg(k, n, s, to, FALSE, "queued", o))
                   /\ mq' = [mq EXCEPT ![box] = Append(@, Len(msgs) + 1)]

\* A handler calls to->send(new K(n), this).
DoSend(t) ==
    /\ NextOp(t).op = "send"
    /\ Send(NextOp(t).to, NextOp(t).kind, NextOp(t).n, Top(t).self, 0)
    /\ stk' = [stk EXCEPT ![t] = Advance(t)]
    /\ UNCHANGED <<terminated, replyTo, usingFast, replyMsg, holder, pc, cur, fault>>

\* Actor::terminate: send a Shutdown with no sender to the actor (the
\* sleep(3) that follows only delays the caller).
DoTerminate(t) ==
    /\ NextOp(t).op = "terminate"
    /\ Send(NextOp(t).to, "Shutdown", 0, NoActor, 0)
    /\ stk' = [stk EXCEPT ![t] = Advance(t)]
    /\ UNCHANGED <<terminated, replyTo, usingFast, replyMsg, holder, pc, cur, fault>>

\* Actor::reply: inside fast_send the reply is kept in reply_message for the
\* caller; otherwise it is sent to reply_to, which must be set.
DoReply(t) ==
    LET a == Top(t).self
        o == NextOp(t)
    IN  /\ o.op = "reply"
        /\ \/ /\ usingFast[a]
              /\ Len(msgs) < MaxMsgs
              /\ msgs' = Append(msgs, Msg(o.kind, o.n, a, NoActor, FALSE,
                                          "captured", Top(t).msg))
              /\ replyMsg' = [replyMsg EXCEPT ![a] = Len(msgs) + 1]
              /\ UNCHANGED <<mq, fault>>
           \/ /\ ~usingFast[a] /\ replyTo[a] = NoActor
              /\ fault' = "no return address"
              /\ UNCHANGED <<msgs, mq, replyMsg>>
           \/ /\ ~usingFast[a] /\ replyTo[a] # NoActor
              /\ Send(replyTo[a], o.kind, o.n, a, Top(t).msg)
              /\ UNCHANGED <<replyMsg, fault>>
        /\ stk' = [stk EXCEPT ![t] = Advance(t)]
        /\ UNCHANGED <<terminated, replyTo, usingFast, holder, pc, cur>>

\* Manager::init starts the worker thread of an actor.
DoSpawn(t) ==
    /\ NextOp(t).op = "spawn"
    /\ pc' = [pc EXCEPT ![NextOp(t).to] = "pop"]
    /\ stk' = [stk EXCEPT ![t] = Advance(t)]
    /\ UNCHANGED <<msgs, mq, terminated, replyTo, usingFast, replyMsg, holder, cur, fault>>

\* Mutant: the end of the slot is rounded up, so a call made exactly on a
\* boundary does not wait at all.
WakeUpAtDelayCeil(now, interval) ==
    LET nextTimeout == IF now % interval = 0 THEN now
                       ELSE now - (now % interval) + interval
    IN  nextTimeout - now

\* Timer::wake_up_at: milliseconds from now (since midnight) to the end of
\* the current interval-long slot, the delay its thread sleeps for.
WakeUpAtDelay(now, interval) ==
    LET roundedDown == now - (now % interval)
        nextTimeout == roundedDown + interval
    IN  nextTimeout - now

\* The clock readings a wake_up_at call may see: only the time since
\* midnight modulo the interval matters, and two intervals' worth of
\* readings give every residue, on and off a boundary.
WakeClock(iv) == 0..(2 * iv - 1)

\* Timer::wake_up_at: read the time since midnight, compute the wait to the
\* next boundary, start a detached thread that sleeps that long and then
\* calls to->send(new Timeout(n), nullptr).  The sleeping is abstracted:
\* any sleeping timer may wake first.  (wake_up_in is the same thread with
\* the caller's delay.)
DoWake(t) ==
    /\ NextOp(t).op = "wake"
    /\ \E now \in WakeClock(NextOp(t).interval) :
          timers' = Append(timers,
                           [to |-> NextOp(t).to, n |-> NextOp(t).n, now |-> now,
                            interval |-> NextOp(t).interval,
                            wait |-> WakeUpAtDelay(now, NextOp(t).interval)])
    /\ stk' = [stk EXCEPT ![t] = Advance(t)]
    /\ UNCHANGED <<msgs, mq, terminated, replyTo, usingFast, replyMsg, holder, pc, cur, fault>>

\* Actor::fast_send(m, sender): lock the target's fast_send_mutex (blocking,
\* and for ever if this thread already holds it), stamp the message, clear
\* reply_message, set using_fast_send, and unless the target is terminated
\* run its handler on this thread.
FastSend(t) ==
    LET o == NextOp(t)
        x == o.to
        m == Msg(o.kind, o.n, Top(t).self, NoActor, TRUE, "fast", 0)
    IN  /\ o.op = "fast"
        /\ holder[x] = NoActor
        /\ Len(msgs) < MaxMsgs
        /\ msgs' = Append(msgs, m)
        /\ holder' = [holder EXCEPT ![x] = t]
        /\ usingFast' = [usingFast EXCEPT ![x] = TRUE]
        /\ replyMsg' = [replyMsg EXCEPT ![x] = 0]
        /\ stk' = [stk EXCEPT ![t] =
                    Advance(t) \o <<Frame(x, Len(msgs) + 1,
                                          IF terminated[x] THEN <<>>
                                          ELSE HandlerOps(x, m), "fast")>>]
        /\ UNCHANGED <<mq, terminated, replyTo, pc, cur, fault>>

\* Mutant: the member's process_message_internal leaves using_fast_send as
\* the last fast_send set it.
ForwardKeepsFast(t) ==
    LET o == NextOp(t)
        x == o.to
        m == msgs[Top(t).msg]
    IN  /\ o.op = "forward"
        /\ \/ /\ m.fast
              /\ fault' = "cannot fast send here"
              /\ UNCHANGED <<holder, replyTo, stk>>
           \/ /\ ~m.fast
              /\ holder[x] = NoActor
              /\ holder' = [holder EXCEPT ![x] = t]
              /\ replyTo' = [replyTo EXCEPT ![x] = m.sender]
              /\ stk' = [stk EXCEPT ![t] =
                          Advance(t) \o <<Frame(x, Top(t).msg, HandlerOps(x, m), "forward")>>]
              /\ UNCHANGED fault
        /\ UNCHANGED <<msgs, mq, terminated, usingFast, replyMsg, pc, cur>>

\* Group::forward(m): assert that m did not come by fast_send, set the
\* member's reply_to to the sender, then run the member's
\* process_message_internal(m, dontdel = true) on the group thread.
Forward(t) ==
    LET o == NextOp(t)
        x == o.to
        m == msgs[Top(t).msg]
    IN  /\ o.op = "forward"
        /\ \/ /\ m.fast
              /\ fault' = "cannot fast send here"
              /\ UNCHANGED <<holder, replyTo, usingFast, stk>>
           \/ /\ ~m.fast
              /\ holder[x] = NoActor
              /\ holder' = [holder EXCEPT ![x] = t]
              /\ replyTo' = [replyTo EXCEPT ![x] = m.sender]
              /\ usingFast' = [usingFast EXCEPT ![x] = FALSE]
              /\ stk' = [stk EXCEPT ![t] =
                          Advance(t) \o <<Frame(x, Top(t).msg, HandlerOps(x, m), "forward")>>]
              /\ UNCHANGED fault
        /\ UNCHANGED <<msgs, mq, terminated, replyMsg, pc, cur>>

\* Mutant: the lock_guard of a fast_send is not released when its handler
\* returns.
ReturnKeepsLock(t) ==
    LET f == Top(t)
        r == replyMsg[f.self]
    IN  /\ stk[t] # <<>>
        /\ f.ops = <<>>
        /\ f.mode # "main"
        /\ holder' = IF f.mode = "fast" THEN holder
                     ELSE [holder EXCEPT ![f.self] = NoActor]
        /\ stk' = [stk EXCEPT ![t] = Front(@)]
        /\ msgs' = CASE DeletesOnReturn(f.mode) ->
                          [msgs EXCEPT ![f.msg].frees = @ + 1]
                     [] f.mode = "fast" /\ r # 0 ->
                          [msgs EXCEPT ![r].st = "returned", ![r].frees = @ + 1]
                     [] OTHER -> msgs
        /\ UNCHANGED <<mq, terminated, replyTo, usingFast, replyMsg, pc, cur, fault>>

\* A handler frame whose operations are done returns: the mutex is
\* released; process_message_internal deletes its message unless dontdel;
\* the caller of fast_send receives reply_message in a unique_ptr that it
\* discards, deleting it.
Return(t) ==
    LET f == Top(t)
        r == replyMsg[f.self]
    IN  /\ stk[t] # <<>>
        /\ f.ops = <<>>
        /\ f.mode # "main"
        /\ holder' = [holder EXCEPT ![f.self] = NoActor]
        /\ stk' = [stk EXCEPT ![t] = Front(@)]
        /\ msgs' = CASE DeletesOnReturn(f.mode) ->
                          [msgs EXCEPT ![f.msg].frees = @ + 1]
                     [] f.mode = "fast" /\ r # 0 ->
                          [msgs EXCEPT ![r].st = "returned", ![r].frees = @ + 1]
                     [] OTHER -> msgs
        /\ UNCHANGED <<mq, terminated, replyTo, usingFast, replyMsg, pc, cur, fault>>

-----------------------------------------------------------------------------
(* The worker loop Actor::operator() and the main thread.                 *)

\* Mutant: the worker loop does not set reply_to from the popped message.
PopKeepsReplyTo(t) ==
    /\ pc[t] = "pop"
    /\ mq[t] # <<>>
    /\ cur' = [cur EXCEPT ![t] = Head(mq[t])]
    /\ mq' = [mq EXCEPT ![t] = Tail(@)]
    /\ msgs' = [msgs EXCEPT ![Head(mq[t])].st = "taken"]
    /\ pc' = [pc EXCEPT ![t] = "dispatch"]
    /\ UNCHANGED <<terminated, replyTo, usingFast, replyMsg, holder, stk, fault>>

\* msgq->pop() (blocks while empty); reply_to := m->sender.
Pop(t) ==
    /\ pc[t] = "pop"
    /\ mq[t] # <<>>
    /\ cur' = [cur EXCEPT ![t] = Head(mq[t])]
    /\ mq' = [mq EXCEPT ![t] = Tail(@)]
    /\ replyTo' = [replyTo EXCEPT ![t] = msgs[Head(mq[t])].sender]
    /\ msgs' = [msgs EXCEPT ![Head(mq[t])].st = "taken"]
    /\ pc' = [pc EXCEPT ![t] = "dispatch"]
    /\ UNCHANGED <<terminated, usingFast, replyMsg, holder, stk, fault>>

\* Mutant: process_message_internal leaves using_fast_send as the last
\* fast_send set it.
DispatchKeepsFast(t) ==
    /\ pc[t] = "dispatch"
    /\ holder[t] = NoActor
    /\ holder' = [holder EXCEPT ![t] = t]
    /\ stk' = [stk EXCEPT ![t] =
                <<Frame(t, cur[t], HandlerOps(t, msgs[cur[t]]), "async")>>]
    /\ pc' = [pc EXCEPT ![t] = "run"]
    /\ UNCHANGED <<msgs, mq, terminated, replyTo, usingFast, replyMsg, cur, fault>>

\* Mutant: process_message_internal without its lock_guard.
DispatchNoLock(t) ==
    /\ pc[t] = "dispatch"
    /\ usingFast' = [usingFast EXCEPT ![t] = FALSE]
    /\ stk' = [stk EXCEPT ![t] =
                <<Frame(t, cur[t], HandlerOps(t, msgs[cur[t]]), "async")>>]
    /\ pc' = [pc EXCEPT ![t] = "run"]
    /\ UNCHANGED <<msgs, mq, terminated, replyTo, replyMsg, holder, cur, fault>>

\* process_message_internal(m): lock the actor's own fast_send_mutex, clear
\* using_fast_send and call the handler.
Dispatch(t) ==
    /\ pc[t] = "dispatch"
    /\ holder[t] = NoActor
    /\ holder' = [holder EXCEPT ![t] = t]
    /\ usingFast' = [usingFast EXCEPT ![t] = FALSE]
    /\ stk' = [stk EXCEPT ![t] =
                <<Frame(t, cur[t], HandlerOps(t, msgs[cur[t]]), "async")>>]
    /\ pc' = [pc EXCEPT ![t] = "run"]
    /\ UNCHANGED <<msgs, mq, terminated, replyTo, replyMsg, cur, fault>>

\* Leave the loop after a Shutdown (id 5) or when terminated is set.
Check(t) ==
    /\ pc[t] = "run"
    /\ stk[t] = <<>>
    /\ pc' = [pc EXCEPT ![t] = IF msgs[cur[t]].kind = "Shutdown" \/ terminated[t]
                                THEN "exit" ELSE "pop"]
    /\ UNCHANGED <<msgs, mq, terminated, replyTo, usingFast, replyMsg, holder, cur, stk, fault>>

\* After the loop: terminated := true; end().
Exit(t) ==
    /\ pc[t] = "exit"
    /\ terminated' = [terminated EXCEPT ![t] = TRUE]
    /\ pc' = [pc EXCEPT ![t] = "done"]
    /\ UNCHANGED <<msgs, mq, replyTo, usingFast, replyMsg, holder, cur, stk, fault>>

\* Manager::init returns.
InitDone ==
    /\ pc[Main] = "init"
    /\ stk[Main] = <<Frame(NoActor, 0, <<>>, "main")>>
    /\ stk' = [stk EXCEPT ![Main] = <<>>]
    /\ pc' = [pc EXCEPT ![Main] = "join"]
    /\ UNCHANGED <<msgs, mq, terminated, replyTo, usingFast, replyMsg, holder, cur, fault>>

\* Manager::end joins every worker thread.
Join ==
    /\ pc[Main] = "join"
    /\ \A w \in Workers : pc[w] = "done"
    /\ pc' = [pc EXCEPT ![Main] = "done"]
    /\ UNCHANGED <<msgs, mq, terminated, replyTo, usingFast, replyMsg, holder, cur, stk, fault>>

\* A Timer thread wakes up and sends its Timeout, with no sender, through
\* Actor::send: dropped if the subscriber has terminated by then.  An
\* aborted process takes its timer threads with it.
TimerFire ==
    /\ fault = "none"
    /\ \E i \in DOMAIN timers :
          /\ Send(timers[i].to, "Timeout", timers[i].n, NoActor, 0)
          /\ timers' = RemoveAt(timers, i)
    /\ UNCHANGED <<terminated, replyTo, usingFast, replyMsg, holder, pc, cur, stk, fault>>

RunsOp(t) == stk[t] # <<>> /\ Top(t).ops # <<>>

ThreadStep(t) ==
    /\ fault = "none"
    /\ \/ RunsOp(t) /\ DoWake(t)
       \/ /\ UNCHANGED timers
          /\ \/ RunsOp(t) /\ (DoSend(t) \/ DoTerminate(t) \/ DoReply(t) \/ DoSpawn(t)
                              \/ FastSend(t) \/ Forward(t))
             \/ Return(t)
             \/ t \in Workers /\ (Pop(t) \/ Dispatch(t) \/ Check(t) \/ Exit(t))
             \/ t = Main /\ (InitDone \/ Join)

Next == (\E t \in Threads : ThreadStep(t)) \/ TimerFire

\* The OS scheduler eventually runs every runnable thread, timer threads
\* included (their sleep ends).  std::mutex is not fair, so no thread is
\* promised a mutex that is only intermittently free.
Spec == Init /\ [][Next]_vars /\ \A t \in Threads : WF_vars(ThreadStep(t))
                              /\ WF_vars(TimerFire)

-----------------------------------------------------------------------------
MsgRec == [kind : Kinds, n : 0..MaxN, sender : AllActors \cup {NoActor},
           dest : AllActors \cup {NoActor}, fast : BOOLEAN,
           st : {"queued", "taken", "dropped", "fast", "captured", "returned"},
           origin : 0..MaxMsgs, frees : Nat]

TypeOK ==
    /\ msgs \in Seq(MsgRec) /\ Len(msgs) <= MaxMsgs
    /\ mq \in [AllActors -> Seq(1..MaxMsgs)]
    /\ terminated \in [AllActors -> BOOLEAN]
    /\ replyTo \in [AllActors -> AllActors \cup {NoActor}]
    /\ usingFast \in [AllActors -> BOOLEAN]
    /\ replyMsg \in [AllActors -> 0..MaxMsgs]
    /\ holder \in [AllActors -> Threads \cup {NoActor}]
    /\ pc \in [Threads -> {"init", "join", "unborn", "pop", "dispatch", "run",
                           "exit", "done"}]
    /\ cur \in [Threads -> 0..MaxMsgs]
    /\ \A t \in Threads : \A j \in DOMAIN stk[t] : stk[t][j].ops \in Seq(Op)
    /\ fault \in {"none", "no return address", "cannot fast send here"}
    /\ timers \in Seq([to : AllActors, n : 0..MaxN, now : Nat, interval : Nat,
                       wait : Int])
\* Replies reach the right place (spec.md 4.2): a reply made while handling
\* a message that arrived by send() goes to that message's sender, with the
\* handling actor (a group member, when the group forwarded it) as its
\* sender; a reply made inside fast_send is handed back to the caller and
\* never enqueued.  Both rest on using_fast_send and reply_to, which fast
\* calls, asynchronous dispatch and Group::forward all write.
ReplyRouting ==
    \A i \in DOMAIN msgs : msgs[i].origin # 0 =>
        LET o == msgs[msgs[i].origin] IN
        IF o.fast
        THEN msgs[i].st \in {"captured", "returned"}
        ELSE /\ msgs[i].st \notin {"captured", "returned"}
             /\ msgs[i].sender = o.dest
             /\ msgs[i].st # "dropped" => msgs[i].dest = o.sender

\* A message is deleted at most once, and never while a mailbox holds it or
\* a handler frame still uses it: the worker loop deletes what it popped,
\* and Group::forward passes dontdel so that the member does not delete it
\* a second time under the group (spec.md 3, ownership summary).
InUse(i) ==
    \/ \E a \in AllActors : i \in ToSet(mq[a])
    \/ \E t \in Threads : \E j \in DOMAIN stk[t] : stk[t][j].msg = i

MessageOwnership ==
    \A i \in DOMAIN msgs : /\ msgs[i].frees <= 1
                           /\ InUse(i) => msgs[i].frees = 0

\* Messages leak only where the code leaves them: send() to an actor seen
\* terminated returns without deleting its message (Actor.cpp:79), and
\* nobody deletes a message passed to fast_send (Manager::init's Start, the
\* Group fan-out's Start and Shutdown).  Every other message that no
\* mailbox, handler frame, popping worker or reply_message refers to any
\* more has been deleted: the worker loop deletes what it handled unless
\* dontdel, and the caller of fast_send deletes the reply it gets back.
Referenced(i) ==
    \/ InUse(i)
    \/ \E t \in Threads : cur[t] = i /\ pc[t] = "dispatch"
    \/ \E a \in AllActors : replyMsg[a] = i

LeakCensus ==
    \A i \in DOMAIN msgs :
        (~Referenced(i) /\ msgs[i].frees = 0) => msgs[i].st \in {"dropped", "fast"}

\* Two members of one group never run handlers at the same time
\* (spec.md 8, property 6): a group's members share its thread.
InGroup(t, g) == \E j \in DOMAIN stk[t] : stk[t][j].self \in ToSet(Members[g])

GroupSerial ==
    \A g \in Groups : \A t, u \in Threads : InGroup(t, g) /\ InGroup(u, g) => t = u

\* A message left in the mailbox of a worker thread that has exited is
\* addressed to a terminated actor, so that later sends to it are dropped
\* rather than queued for ever (spec.md 4.8, "send to terminated actor:
\* silent drop").
NoStranded ==
    \A w \in Workers : pc[w] = "done" =>
        \A i \in ToSet(mq[w]) : terminated[msgs[i].dest]

\* Every handler a worker starts eventually returns, and the worker goes
\* back to pop() or leaves its loop: the fast_send_mutex that
\* process_message_internal, fast_send and Group::forward take (and hold
\* across the handler) is always released again, and no set of threads
\* waits on mutexes held by each other (spec.md 7: "the per-actor mutex
\* serializes fast_send with concurrent async dispatches").
HandlersReturn ==
    \A w \in Workers : pc[w] \in {"dispatch", "run"} ~> pc[w] \in {"pop", "done"}
=============================================================================
