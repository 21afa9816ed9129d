# TLA+ models of actors-cpp

These modules model the actor runtime in `src/`. The runtime gives each actor one thread, a blocking mailbox and a handler table. Groups run several actors on one thread. A Manager starts the threads and is meant to shut them down. A ZeroMQ transport carries messages between processes.

The modules are checked with TLC. `PROJECT.json` lists the components, runs, mutants, the source lines each definition models (`map`), the findings and the hazards.

## The system

| Part | Source | State | Operations |
|---|---|---|---|
| Mailbox `BQueue` | `include/actors/BQueue.hpp` | ring `cb_` (64), overflow deque, mutex, condition variable | `push` (ring unless full or the overflow is in use, `notify_one` after unlock), `pop` (wait until non-empty, ring before overflow) |
| Handler dispatch | `src/Actor.cpp` `call_handler` | `handler_cache[512]`, `dont_have_handler[512]`, `handlers` map | cache hit, negative hit, table hit (memoise), table miss (set negative) |
| Actor | `src/Actor.cpp`, `Actor.hpp` | `terminated`, `reply_to`, `using_fast_send`, `reply_message`, `fast_send_mutex`, group back-link | `send`, `fast_send`, `reply`, `terminate`, `process_message_internal`, the worker loop `operator()` |
| Group | `src/Group.cpp` | members in `add` order | Start/Shutdown fan-out by `fast_send` unless the group sent them, `forward` everything else to its member on the group thread |
| Manager | `src/Manager.cpp` | `actor_list`, name maps, threads | `manage` (asserted name checks), `init` (fast Start to every actor, spawn threads, send itself Start), `end` (join), `process_message` (Shutdown: end, fast_terminate, exit) |
| Timer | `act/Timer.hpp` | a detached thread | sends `Timeout` with no sender after a delay |
| Remote | `remote/ZmqSender.hpp`, `ZmqReceiver.hpp`, `Serialization.hpp`, `Reject.hpp` | sockets, registry, reply proxies, `running_` | send request, serialise and push; poll by self-sent `Continue`, look up the target, Reject, proxy replies |

How the parts interact:
- A member's `send` goes into its group's mailbox. The group thread forwards the message to the member.
- `fast_send` runs the target's handler on the caller's thread, holding the target's `fast_send_mutex`.
- The worker loop holds the same mutex while it runs a handler.
- `reply` captures the reply in `reply_message` inside a `fast_send`. Otherwise it sends the reply to `reply_to`.
- A remote send goes to the process's `ZmqSender` actor as a `RemoteSendRequest`, which serialises it and pushes it on the socket to the endpoint.
- The `ZmqReceiver` actor polls by sending itself `Continue`. It looks up the target by name in the registry, and answers a miss with a `Reject` through its own process's sender.
- A remote message with a sender is delivered with a `RemoteReplyProxy` as its sender, so a `reply` goes back over the wire.

## Modules

- **Fifo**: the abstract queue that a mailbox promises to be.
- **Mailbox**: `BQueue` with several producer threads and one consumer.
  - `push` is one step under the lock. Its `notify_one` is a separate step after unlock.
  - `pop` checks its predicate, then waits or takes.
  - Spurious wakeups are an action.
  - `Abstract == INSTANCE Fifo WITH q <- cb \o ovf` maps the mailbox to the abstract queue. The run checks `Abstract!Spec` as a property.
- **Dispatch**: `call_handler`, with the `process_message` fallback, for one actor.
  - A dispatch is one step, because it runs under the actor's mutex.
  - An id of 512 or more reads past the vectors (undefined behaviour). The read is a nondeterministic choice: null, any handler or garbage, and any bool. A write there changes no slot.
  - `DispatchMatchesTable` compares every dispatch with the reference: the handler `register_handler` stored for the message's type, else `process_message`.
- **Runtime**: the local runtime.
  - Threads: the main thread (`Manager::init`, then `Manager::end`) and one worker per managed actor or group.
  - `Manager::manage` runs in the manager's constructor, before any thread exists. It is a fold (`ManageStep`) over the `Managed` calls. The fold builds `actor_list` and the two name maps and evaluates the four assertions. An `ASSUME` requires the configuration to pass them.
  - Each thread runs a stack of handler frames. `fast_send` and `Group::forward` push a frame for the target, on the caller's thread, holding the target's mutex.
  - The application is given by constant operators: `Handles(a)` (the registered handlers) and `Script(a, k, n)` (what a handler does: send, reply, fast_send, terminate, arm a timer). The MC modules fill them in.
  - `Timer::wake_up_at` (`DoWake`) reads the clock, computes the wait to the next interval boundary (`WakeUpAtDelay`, the code's arithmetic on milliseconds since midnight) and starts a detached thread. The clock reading is any value in two intervals (`WakeClock`), since only its residue matters. The thread wakes (`TimerFire`) and sends `Timeout` with no sender. Which sleeping timer wakes first is left open.
  - `Actor::send` reads the plain bool `terminated` with no lock, while the worker writes it after its loop. Once the flag is set, a send may still see the old `false` (`ReadTerminated`) and queue the message. Before that, it reads `false`.
  - Each message is a record: kind, payload, sender, destination, `is_fast`, a status, the message it replies to, and a count of deletes. The record history lets properties speak about routing and ownership.
  - A mailbox is a sequence. The Mailbox run shows that `BQueue` is a FIFO queue.
  - Assertion failures (`no return address`, `cannot fast send here`) set `fault`, and the process stops.
- **Remote**: processes connected by ZeroMQ, each running its own runtime (sender, receiver, application actors, Manager).
  - A process is named by its endpoint. `net[<<p, q>>]` is the ordered stream from p's sender to endpoint q: one PUSH socket per endpoint over TCP.
  - The registries of each process are constants, because `register_message` and `register_actor` run before `init`.
    - `MessageRegistry[p]`: the fold of `RegisterMessage` (id → entry and name → entry, a later entry overwriting) over `Registrations(p)`. That is `Reject.hpp`'s entry (id 9) followed by the program's `REGISTER_REMOTE_MESSAGE` lines `Regs(p)`, with ids `MsgId(k)`.
    - `send_to` encodes a message under `GetTypeName` of its id, and `""` throws. The receiver decodes with `Deserialize` of the wire name, and `None` (nullptr) gives a Reject. The delivered kind is the decoded type, not the sent one.
    - `Registry(p)`: name to actor.
  - Actions:
    - `send_to` on the caller's thread. An unregistered type throws out of a `noexcept` handler, so `fault`.
    - `on_send_request` / `send_raw` (`Push`).
    - The receiver's `on_start` (`Arm`) and `on_continue` (`Poll`). A poll either times out or takes the head of one stream.
    - `handle_remote_message` (`HandledBox`): an unknown target or type gives a `Reject` to a named sender; otherwise the message is delivered with a new `RemoteReplyProxy` as its sender.
    - `terminate` clears `running_`.
    - `RemoteReplyProxy::send`, under both builds (`ProxyForwards`).
  - History variables: `frames` (every frame pushed) and `log` (every message an application actor popped).
- **MCPingPong**: `examples/ping_pong.cpp`. PingActor's Start also calls `wake_up_at(PongActor, 3)`, so that a `Timeout` lands somewhere in the exchange. No program in the repository uses the Timer.
- **MCGroup**: a group G of M1 and M2, and a plain actor C (spec scenario S3), with four scripts for C.
- **MCRemotePingPong**: `examples/remote_ping.cpp` against `examples/remote_pong.cpp`.
- **MCRemoteReject**: `remote_pong` against a client that sends, on one stream:
  - a Ping to an unknown actor (S5);
  - a kind that `remote_pong` never registered (S6);
  - a good Ping, whose handler replies and then terminates the receiver.

## Runs

| Run | Expect | Checks |
|---|---|---|
| `mailbox` | pass | `FifoRefinement`, `EveryPushPopped` (no lost wakeup), 2 producers × 3 elements, ring capacity 2 |
| `dispatch` | pass | `DispatchMatchesTable`: PingActor's table receiving Start, Shutdown, Ping and Pong in every order, up to 4 dispatches |
| `dispatch_big_id` | violation | `DispatchMatchesTable` with a registered type of id 600 |
| `pingpong` | pass | `ReplyRouting`, `WakeAtNextBoundary`, `LeakCensus`, `PingPongCompletes` (MaxN = 3, with a timer for PongActor) |
| `pingpong_shutdown` | violation | `ShutdownTakesEffect`: after `manager->terminate()` every worker eventually exits |
| `group` | pass | `ReplyRouting`, `MessageOwnership`, `GroupSerial`, `LeakCensus`, `HandlersReturn` |
| `group_fastsend` | violation | `GroupSerial` when C fast-sends Work straight to M1 |
| `group_terminate` | violation | `NoStranded` when C calls `terminate()` on M1 |
| `group_cycle` | violation | `HandlersReturn` when C and M1 fast-send into each other from two threads |
| `remote_pingpong` | pass | `CodecRoundTrip`, `RemoteRoundTrip`: five round trips over the wire, with a virtual `Actor::send` |
| `remote_proxy` | violation | `RemoteRoundTrip` with `Actor::send` non-virtual, as in `Actor.hpp` |
| `remote_reject` | pass | `RemoteFifo`, `RejectContract`, `ReceiverStops` |

What the properties say:
- **ReplyRouting**:
  - A reply made while handling an asynchronous message goes to that message's sender, with the handling member as its sender.
  - A reply made inside `fast_send` is captured and never queued.
  - This rests on `using_fast_send` and `reply_to`, which three code paths write. A `Timeout` popped between two requests sets `reply_to` to null.
- **MessageOwnership**: no message is deleted twice, or while a mailbox or a handler frame still holds it.
- **LeakCensus**: the only messages left allocated with nothing referring to them are the ones the code leaks on purpose or by omission: a send to an actor seen terminated (`Actor.cpp:79`), and the messages passed to `fast_send`, which neither `fast_send` nor its callers (`Manager::init`, the Group fan-out) delete. A message counts as referred to while a mailbox, a handler frame, a worker between pop and dispatch, or a `reply_message` holds it. Every other message has been deleted. This covers the worker loop's delete (unless `dontdel`) and the fast_send caller's delete of the reply. A handler that replied twice inside `fast_send` would break it, because the first reply is overwritten; no handler in the repository does that.
- **GroupSerial**: spec property 6, checked over every interleaving.
- **NoStranded** (checked only in `group_terminate`, where it fails): a worker that has exited leaves in its mailbox only messages addressed to terminated actors, so that sends to them are dropped, as spec 4.8 says. It is not checked in the passing group run. There G never exits and C's exit sets `terminated` in the same step, so the check would show nothing. It cannot catch the stale read of `terminated`, or a send in the window before `terminated = true`, because it allows both by definition. Both cases are real in the code (see the hazards) and no run shows them.
- **WakeAtNextBoundary**: every wait `wake_up_at` computes ends on the first multiple of the interval strictly after the clock reading. It is never zero and never skips a boundary.
- **HandlersReturn**: every handler a worker starts eventually returns. This holds only if each `fast_send_mutex` is released and no two threads wait on each other's mutexes.
- **RemoteRoundTrip**: Ping eventually handles `Pong(Rounds)`, which needs every reply to go back through a proxy, a sender and a stream.
- **CodecRoundTrip**: every message an actor pops from a frame has the type that was given to `send_to` in the other process. It goes through `get_type_name` by id, the wire name, and `deserialize` by name. Two types sharing an id break it silently, because `register_message` overwrites. The mutant gives Pong Ping's id.
- **RemoteFifo**: two messages that one actor pops, coming from frames of the same process, are popped in the order the frames were pushed (spec 4.7: exactly one dispatch per frame, in order).
- **RejectContract**: eventually every frame with a sender that the receiver rejects (an unknown name or an unregistered type) has been answered by a `Reject`, popped by its origin, that names the rejected type.
- **ReceiverStops**: once `running_` is cleared, the receiver's thread eventually leaves its loop. The self-sent `Continue` chain stops, and the Shutdown queued by `terminate` is reached.

Every property of a passing run has a mutant in `PROJECT.json` that breaks it. Each mutant is a plausible change to the modelled code:
- a forgotten reset of `using_fast_send` (in dispatch, and in forward);
- ignoring `dontdel`;
- a missing lock;
- a lock not released on return;
- a missing `reply_to` assignment;
- `dontdel` taken as true, so the worker loop never deletes;
- an off-by-one cache index;
- a ring-first push;
- a lost notify;
- a null proxy sender;
- a Reject without its type;
- a wait rounded up, so a call on a boundary does not wait;
- two message types with the same id;
- frames pushed out of order;
- `terminate` without its Shutdown.

No run checks a `TypeOK`. The type invariants are kept in the modules as documentation of the state. None of them can be broken by a plausible change to the code that the safety properties would not already catch.

### Findings

1. **Shutdown never happens (`pingpong_shutdown`).**
   - `Actor::terminate` on the Manager only queues a Shutdown.
   - `Manager::init` starts threads only for the managed actors, so nothing ever pops the Manager's mailbox.
   - The shutdown code in `Manager::process_message` is unreachable, and `main` hangs in `Manager::end`.
2. **fast_send into a group member breaks group serialisation (`group_fastsend`).** Spec property 6 does not hold.
3. **terminate() on a member ends the whole group (`group_terminate`).**
   - The member's Shutdown goes to the group's mailbox with no sender, so the group fans it out and leaves its loop.
   - No member is marked terminated, so messages for the members stay in a mailbox nobody pops. In the trace, a Work was queued before the group popped the Shutdown, and any later send to a member would queue the same way.
4. **Ids of 512 or more (`dispatch_big_id`).** They index past the cache instead of bypassing it as the spec says.
5. **Remote replies are lost (`remote_proxy`).**
   - `RemoteReplyProxy::send` is marked `override`, but `Actor::send` is not virtual, so the header does not compile.
   - Without `override`, `reply` calls `Actor::send` on the proxy, and the reply waits in a mailbox nobody pops.
6. **Two-thread fast_send cycles deadlock (`group_cycle`).** Each thread holds one actor's non-recursive mutex and waits for the other's. The spec mentions only the one-thread re-entrant case.

## Bounds

Why these bounds are enough:
- **Mailbox:**
  - Cap = 2 lets the ring fill, spill into the overflow, drain and refill while the overflow is still non-empty.
  - Three elements per producer over two producers make each of those happen in some order.
  - The code's ring of 64 behaves the same at its boundary.
- **Dispatch:**
  - The cache has its real size, 512.
  - Four dispatches cover every combination of first and repeated hits and misses over registered and unregistered types.
- **Runtime:**
  - `MaxMsgs` bounds the number of allocated messages: 13 for ping-pong, 16 for the group. Both are enough for every message the scenario can send, so no handler is blocked by the bound and `HandlersReturn` speaks about the code. One more gives the same state count.
  - Ping-pong uses `MaxN = 3` rounds, so replies meet a fast-sent Start's leftover `using_fast_send`. The timer can fire before, between or after any of the rounds.
  - The group scripts hold each race the properties are about: a reply against a Shutdown, a fast_send against the group thread, a member Shutdown against queued work, two fast_sends crossing.
  - A timer in the group scenario multiplies its 39 thousand states by 18, so the timer is checked in ping-pong only.
- **Remote:**
  - `Rounds = 5`, as in `remote_ping.cpp`.
  - The reject client sends three frames on one stream: an unknown name, an unknown type and a good Ping. So each reject path, and their order against a delivery, is checked.

## Fairness

- **Runtime:** each thread gets weak fairness on its own steps, because the OS eventually schedules every runnable thread. `std::mutex` is not fair, so no strong fairness is assumed. Timer threads are weakly fair too, because their sleep ends.
- **Remote:** each thread is weakly fair on its own steps. The receiver's poll taking a frame from a given stream is strongly fair (`SF` on `Receive(r, q)`): a frame that stays at the head of a TCP stream is eventually seen by a `zmq_poll` that keeps being called, although single polls may time out.
- **Mailbox:** Push, Notify and Pop are weakly fair. Spurious wakeups get no fairness.
- Deadlock checking is off where the program really stops: idle workers block in `pop`, and `Manager::end` blocks in `join`.

## Not modelled

- **`fast_terminate` and Manager's Shutdown path:** unreachable in the code as written (finding 1).
- **Builds without assertions:** `manage()` only asserts its name checks. With `NDEBUG` an actor could be managed twice and get two threads on one mailbox. The models assume a debug build.
- **The data race on `running_`**: each access is one atomic step. The race on `terminated` in `send` is modelled as a stale read; the other accesses are atomic.
- **Timer edges:**
  - `wake_up_in`, which no program calls. Its `seconds * 1000 + msecs` overflows `int` above about 2,147,483 seconds.
  - `wake_up_at` with interval 0, a division by zero.
  - The day rollover, where the wait crosses midnight. The next boundary is then not a multiple of the interval from midnight unless the interval divides a day.
- **Registration order across translation units:** static initialisation order between files is unspecified. The model takes each process's lines in file order, after `Reject.hpp`'s. `is_registered` has no caller.
- **Object lifetimes:**
  - A detached Timer thread, or a sleeping `terminate`, can outlive the actor it points to.
  - `send_to` reads the message after deleting it on the unregistered-type path.
- **Remote details:**
  - the socket cache and endpoint rewriting (one stream per endpoint stands for them);
  - JSON field encoding and parse errors (payloads are a wire name and an integer, and every registered entry round-trips its integer);
  - the signal handler of `remote_pong`;
  - `close()`, which no program calls;
  - the growth of `proxies_`, which has no limit to break.
- **`fast_send` to the same actor:** spec 4.8 calls it a fatal assertion. The code locks `fast_send_mutex` before `assert(this != sender)`, so the call relocks a non-recursive mutex and hangs instead (undefined behaviour). `FastSend` blocks on a held mutex as the lock would, so `HandlersReturn` would report it. No scenario does it, and the run budget is spent, so no run shows it. It is listed as a hazard.
- **A handler that replies twice inside `fast_send`:** it leaks the first reply, which `LeakCensus` would report. No handler in the repository does this.
- **Left out:**
  - `msg_cnt`, `last`, thread ids, names, affinity and priority;
  - the getters of Manager, which only read;
  - logging;
  - memory leaks, which are recorded as `frees = 0` but not bounded.
