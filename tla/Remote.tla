------------------------------ MODULE Remote -------------------------------
(***************************************************************************)
(* The remote transport of actors-cpp between processes: ZmqSender        *)
(* (remote/ZmqSender.hpp), ZmqReceiver and RemoteReplyProxy               *)
(* (remote/ZmqReceiver.hpp), the serialization registry                    *)
(* (remote/Serialization.hpp) and Reject (remote/Reject.hpp), on top of   *)
(* the actor runtime of each process.                                      *)
(*                                                                         *)
(* Each process has a main thread running Manager::init, a ZmqSender and  *)
(* a ZmqReceiver actor, and application actors.  Every managed actor has  *)
(* a worker thread that pops its mailbox and runs the handler's           *)
(* operations one step each.  A push socket delivers frames in order to   *)
(* the pull socket of one endpoint: net[<<p, q>>] is the frames p's       *)
(* sender has pushed to q and q's receiver has not yet received.  An      *)
(* endpoint stands for the process bound to it.  The JSON envelope is its *)
(* fields; JSON text and socket set-up are left out.  The interplay of    *)
(* using_fast_send with reply and of fast_send with the mailbox is in     *)
(* Runtime; here every reply is made by an asynchronous handler.           *)
(***************************************************************************)
EXTENDS Naturals, Sequences, SequencesExt

CONSTANTS
    Procs,           \* processes, each named by its endpoint
    Apps,            \* application actors
    Home(_),         \* the process of an actor
    NameOf(_),       \* get_name() of an application actor
    SenderOf(_),     \* the ZmqSender actor of a process
    ReceiverOf(_),   \* the ZmqReceiver actor of a process
    MgrOf(_),        \* the Manager of a process
    Managed(_),      \* actor_list of a process's Manager, in manage() order
    Registry(_),     \* register_actor: [names -> Apps] of a process's receiver
    Regs(_),         \* the types of a process's REGISTER_REMOTE_MESSAGE lines, in order
    MsgId(_),        \* get_message_id() of a message type (Message_N<N>)
    Handles(_),      \* kinds an application actor has a MESSAGE_HANDLER for
    Script(_, _, _), \* application handler: ops of actor a for kind k, payload n
    ProxyForwards,   \* does reply() reach RemoteReplyProxy::send? (see Reply)
    None

Senders == {SenderOf(p) : p \in Procs}
Receivers == {ReceiverOf(p) : p \in Procs}
Mgrs == {MgrOf(p) : p \in Procs}
Workers == Apps \cup Senders \cup Receivers
Actors == Workers \cup Mgrs
Threads == Workers \cup Procs    \* a process stands for its main thread
ProcOf(t) == IF t \in Procs THEN t ELSE Home(t)

\* REGISTER_REMOTE_MESSAGE_N(Type, fields...) calls register_message with
\* Type().get_message_id(), the name #Type, a serialiser of the fields and
\* a deserialiser that builds a Type from them.  Payloads are the integer n,
\* so the number of fields does not matter: an entry stands for its type.
RemoteMessageEntry(k) == [id |-> MsgId(k), name |-> k, type |-> k]

\* Reject.hpp registers Reject under the literal id 9; Reject itself is
\* Message_N<9>.
RejectEntry == [id |-> 9, name |-> "Reject", type |-> "Reject"]

ASSUME MsgId("Reject") = 9

\* The registrations a process runs during static initialisation: Reject.hpp,
\* included through ZmqReceiver.hpp, comes before the program's own lines.
Registrations(p) ==
    <<RejectEntry>> \o [i \in DOMAIN Regs(p) |-> RemoteMessageEntry(Regs(p)[i])]

\* register_message: id_to_entry_[id] = entry; name_to_entry_[name] = entry.
\* A later entry with the same id or name silently replaces the earlier one.
RegisterMessage(reg, e) ==
    [ids |-> (e.id :> e) @@ reg.ids, names |-> (e.name :> e) @@ reg.names]

\* The MessageRegistry singleton of each process once main starts.
MessageRegistry ==
    [p \in Procs |->
        FoldLeft(RegisterMessage, [ids |-> <<>>, names |-> <<>>], Registrations(p))]

\* get_type_name(get_message_id()): the name of the entry registered for the
\* message's id, "" if none (serialize then finds the same entry).
GetTypeName(p, k) ==
    LET ids == MessageRegistry[p].ids
    IN  IF MsgId(k) \in DOMAIN ids THEN ids[MsgId(k)].name ELSE ""

\* deserialize(type_name, data): a new message of the type registered under
\* the name, or nullptr.
Deserialize(p, name) ==
    LET names == MessageRegistry[p].names
    IN  IF name \in DOMAIN names THEN names[name].type ELSE None

VARIABLES
    mq,          \* msgq of every actor
    proxies,     \* proxies_ of each receiver: the proxies' name, endpoint and msgq
    terminated,  \* Actor::terminated
    replyTo,     \* Actor::reply_to: an actor, <<p, i>> (proxy i of p), or None
    running,     \* ZmqReceiver::running_
    pc,          \* worker: "unborn", "idle", "run", "done"; main: the next
                 \* actor to start, Len(Managed)+1 to spawn, +2 in join
    ops,         \* the operations the thread's current handler has left
    stop,        \* the popped message was a Shutdown (id 5)
    net,         \* frames in flight from p's sender to endpoint q
    frames,      \* history: every frame pushed, in push order
    log,         \* history: messages popped by application actors
    fault        \* per process: "none", or why it aborted

vars == <<mq, proxies, terminated, replyTo, running, pc, ops, stop, net,
          frames, log, fault>>

-----------------------------------------------------------------------------
(* Messages, envelopes and operations.                                     *)

\* A message: kind, payload, sender; req is the RemoteSendRequest content;
\* rtype is Reject::message_type; fid the frame it was decoded from (0 if
\* it came by a local send).
Msg(k, n, s) == [kind |-> k, n |-> n, sender |-> s, req |-> None,
                 rtype |-> None, fid |-> 0]

\* The envelope of on_send_request: receiver, message_type, the message,
\* sender_actor and sender_endpoint (None for null); skind is history, the
\* type of the message given to send_to.
Env(req) == [rname |-> req.rname, wkind |-> req.wkind, n |-> req.n,
             rtype |-> req.rtype, sname |-> req.sname, sep |-> req.sep,
             skind |-> req.skind]

SendOp(to, k, n)        == [op |-> "send", to |-> to, name |-> None, kind |-> k, n |-> n]
RSendOp(ep, name, k, n) == [op |-> "rsend", to |-> ep, name |-> name, kind |-> k, n |-> n]
ReplyOp(k, n)           == [op |-> "reply", to |-> None, name |-> None, kind |-> k, n |-> n]
TermOp(to)              == [op |-> "terminate", to |-> to, name |-> None, kind |-> "Shutdown", n |-> 0]
SysOp(o, m)             == [op |-> o, to |-> None, name |-> None, kind |-> m.kind, n |-> m.n, msg |-> m]

\* The handlers: ZmqSender registers Start (empty) and RemoteSendRequest;
\* ZmqReceiver registers Start and Continue; neither overrides
\* process_message.
HandlerOps(a, m) ==
    LET raw == CASE a \in Senders ->
                      IF m.kind = "SendReq" THEN <<SysOp("push", m)>> ELSE <<>>
                 [] a \in Receivers ->
                      CASE m.kind = "Start" -> <<SysOp("arm", m)>>
                        [] m.kind = "Continue" -> <<SysOp("poll", m)>>
                        [] OTHER -> <<>>
                 [] OTHER ->
                      IF m.kind \in Handles(a) THEN Script(a, m.kind, m.n) ELSE <<>>
    IN  [i \in DOMAIN raw |-> raw[i] @@ [self |-> a]]

-----------------------------------------------------------------------------
(* Sends, as functions of the mailboxes.                                   *)

\* Actor::send: dropped when the receiver is terminated, else queued.
Deliver(box, to, m) ==
    IF terminated[to] THEN box ELSE [box EXCEPT ![to] = Append(@, m)]

\* ZmqSender::send_to on the caller's thread: get_type_name; a type with no
\* registration throws out of a noexcept handler (std::terminate aborts the
\* process); else the message is serialised under that name, deleted, and
\* a RemoteSendRequest is queued to the sender actor.  sname is the
\* sender's name, None for nullptr; the sender endpoint is the local one.
SendToReq(p, ep, name, k, n, rt, sname) ==
    [Msg("SendReq", 0, None) EXCEPT
        !.req = [ep |-> ep, rname |-> name, wkind |-> GetTypeName(p, k), n |-> n,
                 rtype |-> rt, sname |-> sname,
                 sep |-> IF sname = None THEN None ELSE p, skind |-> k]]

SendTo(p, ep, name, k, n, rt, sname) ==
    IF GetTypeName(p, k) = ""
    THEN /\ fault' = [fault EXCEPT ![p] = "uncaught exception"]
         /\ UNCHANGED mq
    ELSE /\ mq' = Deliver(mq, SenderOf(p), SendToReq(p, ep, name, k, n, rt, sname))
         /\ UNCHANGED fault

Top(t) == Head(ops[t])
Done(t) == [ops EXCEPT ![t] = Tail(@)]

-----------------------------------------------------------------------------
(* Operations of application handlers.                                     *)

\* to->send(new K(n), this)
DoSend(t) ==
    /\ Top(t).op = "send"
    /\ mq' = Deliver(mq, Top(t).to, Msg(Top(t).kind, Top(t).n, Top(t).self))
    /\ ops' = Done(t)
    /\ UNCHANGED <<proxies, replyTo, running, stop, net, frames, log, fault>>

\* ActorRef::send on a RemoteActorRef: RemoteActorRef::send calls
\* sender_->send_to(endpoint_, name_, m, this).
DoRSend(t) ==
    LET o == Top(t) IN
    /\ o.op = "rsend"
    /\ SendTo(Home(o.self), o.to, o.name, o.kind, o.n, None, NameOf(o.self))
    /\ ops' = Done(t)
    /\ UNCHANGED <<proxies, replyTo, running, stop, net, frames, log>>

\* Mutant: ZmqReceiver::terminate clears running_ but does not go on to
\* Actor::terminate, so no Shutdown is queued.
DoTerminateFlagOnly(t) ==
    LET to == Top(t).to IN
    /\ Top(t).op = "terminate"
    /\ running' = IF to \in Receivers THEN [running EXCEPT ![to] = FALSE] ELSE running
    /\ mq' = IF to \in Receivers THEN mq ELSE Deliver(mq, to, Msg("Shutdown", 0, None))
    /\ ops' = Done(t)
    /\ UNCHANGED <<proxies, replyTo, stop, net, frames, log, fault>>

\* to->terminate(): Actor::terminate queues a Shutdown with no sender (the
\* sleep only delays); ZmqReceiver::terminate first clears running_.
DoTerminate(t) ==
    LET to == Top(t).to IN
    /\ Top(t).op = "terminate"
    /\ running' = IF to \in Receivers THEN [running EXCEPT ![to] = FALSE] ELSE running
    /\ mq' = Deliver(mq, to, Msg("Shutdown", 0, None))
    /\ ops' = Done(t)
    /\ UNCHANGED <<proxies, replyTo, stop, net, frames, log, fault>>

\* Actor::reply outside fast_send: assert reply_to, then
\* reply_to->send(m, this).  reply_to is an Actor*, and Actor::send is not
\* virtual (Actor.hpp:120), so when reply_to is a RemoteReplyProxy the call
\* is Actor::send and the reply is queued in the proxy's mailbox, which no
\* thread pops.  RemoteReplyProxy::send is marked override, so the header
\* only compiles once that keyword is dropped (ProxyForwards = FALSE) or
\* Actor::send is made virtual (ProxyForwards = TRUE: the proxy calls
\* send_to to the remote sender, with no sender).
Reply(t) ==
    LET a == Top(t).self
        r == replyTo[a]
        p == Home(a)
        k == Top(t).kind
        n == Top(t).n
    IN  /\ Top(t).op = "reply"
        /\ CASE r = None ->
                  /\ fault' = [fault EXCEPT ![p] = "no return address"]
                  /\ UNCHANGED <<mq, proxies>>
             [] r \in Actors ->
                  /\ mq' = Deliver(mq, r, Msg(k, n, a))
                  /\ UNCHANGED <<proxies, fault>>
             [] ProxyForwards ->
                  /\ SendTo(p, proxies[r[1]][r[2]].ep, proxies[r[1]][r[2]].name,
                            k, n, None, None)
                  /\ UNCHANGED proxies
             [] OTHER ->
                  /\ proxies' = [proxies EXCEPT ![r[1]][r[2]].mbox =
                                    Append(@, Msg(k, n, a))]
                  /\ UNCHANGED <<mq, fault>>
        /\ ops' = Done(t)
        /\ UNCHANGED <<replyTo, running, stop, net, frames, log>>

-----------------------------------------------------------------------------
(* The handlers of ZmqSender and ZmqReceiver.                              *)

\* Mutant: send_raw connects a new push socket for every frame instead of
\* keeping one per endpoint in sockets_, so frames of one stream may
\* overtake each other.
PushAnyOrder(t) ==
    LET req == Top(t).msg.req
        e   == Env(req) @@ [fid |-> Len(frames) + 1]
        ch  == <<Home(t), req.ep>>
    IN  /\ Top(t).op = "push"
        /\ \E k \in 1..Len(net[ch]) + 1 : net' = [net EXCEPT ![ch] = InsertAt(@, k, e)]
        /\ frames' = Append(frames, [from |-> Home(t), to |-> req.ep, env |-> e])
        /\ ops' = Done(t)
        /\ UNCHANGED <<mq, proxies, replyTo, running, stop, log, fault>>

\* on_send_request and send_raw: build the envelope, take (or connect) the
\* push socket for the endpoint, send.  The frame joins the ordered stream
\* from this process to that endpoint.
Push(t) ==
    LET req == Top(t).msg.req
        e   == Env(req) @@ [fid |-> Len(frames) + 1]
        ch  == <<Home(t), req.ep>>
    IN  /\ Top(t).op = "push"
        /\ net' = [net EXCEPT ![ch] = Append(@, e)]
        /\ frames' = Append(frames, [from |-> Home(t), to |-> req.ep, env |-> e])
        /\ ops' = Done(t)
        /\ UNCHANGED <<mq, proxies, replyTo, running, stop, log, fault>>

\* on_start of the receiver: running_ = true, then send(Continue, this).
Arm(t) ==
    LET r == Top(t).self IN
    /\ Top(t).op = "arm"
    /\ running' = [running EXCEPT ![r] = TRUE]
    /\ mq' = Deliver(mq, r, Msg("Continue", 0, r))
    /\ ops' = Done(t)
    /\ UNCHANGED <<proxies, replyTo, stop, net, frames, log, fault>>

\* handle_remote_message, as a function of the mailboxes: the registry
\* lookup, then deserialize; a miss of either sends a Reject (through
\* send_reject and send_to, which queue a RemoteSendRequest to the local
\* sender; Reject is always registered) when the envelope names a sender,
\* and drops the frame otherwise.  A hit makes a RemoteReplyProxy when there
\* is a sender, appends it to proxies_, and sends the message to the target
\* with the proxy, or nullptr, as its sender.
Target(p, e) == IF e.rname \in DOMAIN Registry(p) THEN Registry(p)[e.rname] ELSE None
Rejected(p, e) == Target(p, e) = None \/ Deserialize(p, e.wkind) = None

\* Mutant: a failed deserialize drops the frame without send_reject.
HandledBoxNoTypeReject(p, e) ==
    CASE Target(p, e) = None /\ e.sname # None ->
           Deliver(mq, SenderOf(p), SendToReq(p, e.sep, e.sname, "Reject", 0, e.wkind, None))
      [] Rejected(p, e) -> mq
      [] OTHER ->
           Deliver(mq, Target(p, e),
                   [Msg(Deserialize(p, e.wkind), e.n, IF e.sname = None THEN None
                                      ELSE <<p, Len(proxies[p]) + 1>>)
                       EXCEPT !.rtype = e.rtype, !.fid = e.fid])

\* Mutant: the proxy is made and stored but reply_actor stays nullptr.
HandledBoxNullSender(p, e) ==
    IF Rejected(p, e)
    THEN IF e.sname = None THEN mq
         ELSE Deliver(mq, SenderOf(p), SendToReq(p, e.sep, e.sname, "Reject", 0, e.wkind, None))
    ELSE Deliver(mq, Target(p, e),
                 [Msg(Deserialize(p, e.wkind), e.n, None)
                     EXCEPT !.rtype = e.rtype, !.fid = e.fid])

HandledBox(p, e) ==
    IF Rejected(p, e)
    THEN IF e.sname = None THEN mq
         ELSE Deliver(mq, SenderOf(p), SendToReq(p, e.sep, e.sname, "Reject", 0, e.wkind, None))
    ELSE Deliver(mq, Target(p, e),
                 [Msg(Deserialize(p, e.wkind), e.n, IF e.sname = None THEN None
                                    ELSE <<p, Len(proxies[p]) + 1>>)
                     EXCEPT !.rtype = e.rtype, !.fid = e.fid])

NewProxies(p, e) ==
    IF ~Rejected(p, e) /\ e.sname # None
    THEN [proxies EXCEPT ![p] = Append(@, [name |-> e.sname, ep |-> e.sep, mbox |-> <<>>])]
    ELSE proxies

\* on_continue: return if !running_; recv with a 10 ms timeout; on a frame,
\* handle_remote_message; then, if running_, send(Continue, this).  A recv
\* may time out while frames are still in flight (q = None); from q it takes
\* the oldest frame of that stream.
Poll(t) ==
    LET r == Top(t).self
        p == Home(r)
    IN  /\ Top(t).op = "poll"
        /\ ops' = Done(t)
        /\ IF ~running[r]
           THEN UNCHANGED <<mq, proxies, net>>
           ELSE \E q \in Procs \cup {None} :
                  IF q = None
                  THEN /\ mq' = Deliver(mq, r, Msg("Continue", 0, r))
                       /\ UNCHANGED <<proxies, net>>
                  ELSE LET e == Head(net[<<q, p>>]) IN
                       /\ net[<<q, p>>] # <<>>
                       /\ net' = [net EXCEPT ![<<q, p>>] = Tail(@)]
                       /\ proxies' = NewProxies(p, e)
                       /\ mq' = LET box == HandledBox(p, e) IN
                                IF terminated[r] THEN box
                                ELSE [box EXCEPT ![r] = Append(@, Msg("Continue", 0, r))]
        /\ UNCHANGED <<replyTo, running, stop, frames, log, fault>>

-----------------------------------------------------------------------------
(* Threads.                                                                *)

Live(t) == fault[ProcOf(t)] = "none"

\* The worker loop after process_message_internal: leave the loop on a
\* Shutdown (terminated is only set on leaving it), and set terminated.
Return(t) ==
    /\ pc' = [pc EXCEPT ![t] = IF stop'[t] THEN "done" ELSE "idle"]
    /\ terminated' = [terminated EXCEPT ![t] = @ \/ stop'[t]]

\* One operation of the handler the thread is running; the return from the
\* handler and the loop's test are thread-local and go with its last one.
OpStep(t) ==
    /\ Live(t)
    /\ ops[t] # <<>>
    /\ \/ DoSend(t) \/ DoRSend(t) \/ DoTerminate(t) \/ Reply(t)
       \/ Push(t) \/ Arm(t) \/ Poll(t)
    /\ IF t \in Workers /\ Len(ops[t]) = 1 THEN Return(t)
       ELSE UNCHANGED <<pc, terminated>>

\* The worker loop: pop (blocking), reply_to = m->sender, note whether it
\* is a Shutdown, process_message_internal dispatches to the handler (a
\* handler with nothing to do returns at once).
Pop(t) ==
    LET m == Head(mq[t]) IN
    /\ Live(t)
    /\ pc[t] = "idle"
    /\ mq[t] # <<>>
    /\ mq' = [mq EXCEPT ![t] = Tail(@)]
    /\ replyTo' = [replyTo EXCEPT ![t] = m.sender]
    /\ stop' = [stop EXCEPT ![t] = (m.kind = "Shutdown")]
    /\ ops' = [ops EXCEPT ![t] = HandlerOps(t, m)]
    /\ IF HandlerOps(t, m) = <<>> THEN Return(t)
       ELSE /\ pc' = [pc EXCEPT ![t] = "run"]
            /\ UNCHANGED terminated
    /\ log' = IF t \in Apps
              THEN Append(log, [actor |-> t, kind |-> m.kind, n |-> m.n,
                                rtype |-> m.rtype, fid |-> m.fid])
              ELSE log
    /\ UNCHANGED <<proxies, running, net, frames, fault>>

\* Manager::init, first loop: fast_send(Start) to the i-th managed actor;
\* its Start handler then runs on the main thread.
MainStart(p) ==
    LET i == pc[p] IN
    /\ Live(p)
    /\ i \in 1..Len(Managed(p))
    /\ ops[p] = <<>>
    /\ ops' = [ops EXCEPT ![p] = HandlerOps(Managed(p)[i], Msg("Start", 0, None))]
    /\ pc' = [pc EXCEPT ![p] = i + 1]
    /\ UNCHANGED <<mq, proxies, terminated, replyTo, running, stop, net, frames, log, fault>>

\* Manager::init, second loop and last line: a thread per managed actor,
\* then send(Start) to the Manager itself; main goes on to Manager::end and
\* blocks in join.  A thread that has been created but not yet run is the
\* same as an idle one, so the threads are created in one step.
MainSpawn(p) ==
    /\ Live(p)
    /\ pc[p] = Len(Managed(p)) + 1
    /\ ops[p] = <<>>
    /\ pc' = [t \in DOMAIN pc |-> IF t = p THEN Len(Managed(p)) + 2
                                  ELSE IF t \in Range(Managed(p)) THEN "idle" ELSE pc[t]]
    /\ mq' = Deliver(mq, MgrOf(p), Msg("Start", 0, None))
    /\ UNCHANGED <<proxies, terminated, replyTo, running, stop, ops, net, frames, log, fault>>

Init ==
    /\ mq = [a \in Actors |-> <<>>]
    /\ proxies = [p \in Procs |-> <<>>]
    /\ terminated = [a \in Actors |-> FALSE]
    /\ replyTo = [a \in Workers |-> None]
    /\ running = [r \in Receivers |-> FALSE]
    /\ pc = [t \in Threads |-> IF t \in Procs THEN 1 ELSE "unborn"]
    /\ ops = [t \in Threads |-> <<>>]
    /\ stop = [t \in Workers |-> FALSE]
    /\ net = [c \in Procs \X Procs |-> <<>>]
    /\ frames = <<>>
    /\ log = <<>>
    /\ fault = [p \in Procs |-> "none"]

Next ==
    \/ \E t \in Threads : OpStep(t)
    \/ \E t \in Workers : Pop(t)
    \/ \E p \in Procs : MainStart(p) \/ MainSpawn(p)

\* A step of a thread: an operation, or the worker loop, or Manager::init.
ThreadStep(t) ==
    \/ OpStep(t)
    \/ t \in Workers /\ Pop(t)
    \/ t \in Procs /\ (MainStart(t) \/ MainSpawn(t))

\* A poll of receiver r that takes a frame from q's stream.
Receive(r, q) ==
    /\ OpStep(r)
    /\ net[<<q, Home(r)>>] # <<>>
    /\ net'[<<q, Home(r)>>] # net[<<q, Home(r)>>]

\* Every thread the OS can run is eventually run.  A recv on a pull socket
\* with frames queued eventually returns one: ZeroMQ over TCP delivers what
\* was sent on a live connection, so a receiver that polls again and again
\* eventually takes each stream's head (strong fairness, as the poll is
\* enabled only while the receiver runs a Continue).
Fairness ==
    /\ \A t \in Threads : WF_vars(ThreadStep(t))
    /\ \A r \in Receivers, q \in Procs : SF_vars(Receive(r, q))

Spec == Init /\ [][Next]_vars /\ Fairness

-----------------------------------------------------------------------------
(* Properties.                                                             *)

\* The actor an envelope's sender_actor names, in its sender's process.
Origin(e) == Registry(e.sep)[e.sname]

\* Spec property 7 and scenarios S5, S6 (handle_remote_message, send_reject,
\* the Reject's send_to back): every frame that names its sender and whose
\* receiver or message type is unknown where it arrives is eventually
\* answered by a Reject that the sending actor handles, carrying the
\* frame's message_type.  The scenarios push finitely many frames, so this
\* is: from some point on, every such frame pushed so far has its Reject.
Answered(f) ==
    \E j \in DOMAIN log : /\ log[j].actor = Origin(f.env)
                          /\ log[j].kind = "Reject"
                          /\ log[j].rtype = f.env.wkind

RejectContract ==
    <>[](\A i \in DOMAIN frames :
            (frames[i].env.sname # None /\ Rejected(frames[i].to, frames[i].env))
            => Answered(frames[i]))

\* Spec 4.7: exactly one local dispatch per remote frame, in the order of
\* the push/pull stream.  Two messages an actor handles that came in frames
\* from the same process were pushed in the order they are handled, and no
\* frame is handled twice (send_raw's push, on_continue's recv,
\* handle_remote_message's send, the worker's pop).
RemoteFifo ==
    \A x, y \in DOMAIN log :
        (/\ x < y
         /\ log[x].fid # 0 /\ log[y].fid # 0
         /\ log[x].actor = log[y].actor
         /\ frames[log[x].fid].from = frames[log[y].fid].from)
        => log[x].fid < log[y].fid

\* Spec 4.5: the registry maps a message type to its wire name and back.
\* A message an actor handles from a frame is of the type that was given to
\* send_to in the other process: send_to names it by get_type_name of its
\* id, handle_remote_message rebuilds it by deserialize of that name.  An
\* id shared by two registered types breaks this silently, since
\* register_message overwrites the first entry.
CodecRoundTrip ==
    \A i \in DOMAIN log :
        log[i].fid # 0 => log[i].kind = frames[log[i].fid].env.skind

\* ZmqReceiver::terminate: once a started receiver's running_ is false, its
\* thread eventually leaves the worker loop, so the pull socket is no longer
\* polled (the Shutdown queued by Actor::terminate ends the Continue loop).
ReceiverStops ==
    \A r \in Receivers :
        (pc[r] \in {"idle", "run"} /\ ~running[r]) ~> pc[r] = "done"
=============================================================================
