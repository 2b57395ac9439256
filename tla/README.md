# kwin-api-server: specification and verification

kwin-api-server lets local programs talk to a script inside KWin. A daemon
(`src/daemon`, C++) accepts clients on a unix socket and offers their messages on
D-Bus; a script (`src/kwinscript`, TypeScript) that the daemon loads into KWin
polls them, dispatches JSON-RPC requests and pushes the answers back. A native
messaging host (`src/native`) connects browsers to the same socket.

This directory holds TLA+ modules that model the parts with state, TLC
configurations that check them on small instances, and TLAPS proofs for every
value of the constants. `PROJECT.json` maps every definition to the lines it
models.

## 1. Inventory

| Component | State | Operations | Hard because |
|---|---|---|---|
| Frame decoder, read buffer (`proto/client.cpp`, `rx_buffer.cpp`) | decoder state, bytes read, lengths of the buffer, paused flag | one `read` step, `append`/`advance`, `poll`, `drain`, `rx_resume` | stream cut anywhere; room checked once, buffer drained in between |
| Write buffer (`proto/tx_buffer.cpp`) | ring, head, tail, length | `push`, `flush` | wrap in the middle of a frame, partial sends, rewind |
| Client session (`client_session.cpp`) | epoll mask, second paused flag | `handle_io`, `push`, `on_rx_drained`, destruction | flags and mask changed by different callbacks; end of file together with data |
| `/cli{id}` object (`client_dbus_object.cpp`, `dbus_util.cpp`, `poll_waiter.cpp`) | the one deferred poll and its timer | `poll`, `push`, time-out, cancel | lost wake-ups, a second poll, a poll of a session that closes |
| Server, `/daemon` object (`server.cpp`, `daemon_dbus_object.cpp`) | sessions by id, next id, control queue, deferred poll | accept, disconnect, `poll` | client limit, full queue, given-up polls |
| Control and client loops (`clients.ts`, `dbus.ts`) | map of connections, call under way, retry timer | poll, react to events, dispatch a batch | late answers, time-outs, messages awaited one by one |
| Tokens (`tokens.ts`) | entries by token and by window, deadline timers | request, caption, window added/removed, deadline, drop | two maps and a timer under every order of events |
| Watches (`windows.ts`, `workspace.ts`) | handlers by token, by client | watch, unwatch, drop | must end with the token and with the client |
| Properties (`windows.ts`, `workspace.ts`) | catalogs of desktops and activities | update, query | ids that are out of date; replies that are older than a notification |
| JSON-RPC (`jsonrpc.ts`) | method table | dispatch, notify | which requests get a reply, in which order |
| Process and unit (`main.cpp`, `dbus_service.cpp`, `kwin_client.cpp`, `systemd/`) | phase, bus name, script in KWin | start, load, run, serve, shut down, restart | crashes, calls served after the caller gave up, loss of the name |
| Configuration, staging (`config.cpp`, `file_util.cpp`) | none | parse, substitute | limits and parsing edges |
| Native host (`native/kwin-api-host.py`) | two buffers with half-read frames | bridge | streams cut anywhere in two directions, writes that block both |
| Line server (`socket_server.cpp`) | lines and clients | accept, read, flush | built by unit tests only |

**How they interact.** The peer writes bytes to the socket; `handle_io` feeds them
to the decoder, which appends payloads to the read buffer. A D-Bus `poll` drains
the buffer at once, or waits until `on_rx_messages` or its timer answers it. `push`
fills the write buffer, which `handle_io` flushes. Accepting and losing a client
puts an event on the `/daemon` queue; the script's control loop polls it and
starts or stops a loop per client, whose messages create tokens and watches.
Window manager signals and timers change those and cause notifications, which go
back through `push`. The daemon loads the script and unloads it; systemd restarts
the daemon and unloads the script if it could not.

The daemon and the script each run one event loop: a callback is atomic with
respect to the others of its process. Concurrency is between the peers, the
daemon, the script, KWin's signals, the timers, systemd and the bus.

**What makes each part correct.** Decoder: never writes behind the buffer, stays
in step with the frames, delivers the legal ones whole and in order. Session:
asks epoll for exactly what it needs, never sleeps on work. Write buffer: a FIFO.
Polls: no lost wake-up, answered before the session closes. Control: the script's
map follows the daemon's. Tokens: maps, timers and what owners were told agree; a
binding never moves. Watches: only for the owner of the bound token. Properties:
an update names only what exists; a client that watches and asks knows the value.
Client loop: each request runs once, in order, and is answered or accounted for.
Process: no script left behind, none served that another process loaded, comes
back after failures, stops when told. Native host: forwards every byte.

## 2. Modules

| Module | Models | Checked by | Proved in |
|---|---|---|---|
| `Session` | one client: socket, decoder, read buffer, `handle_io`, `/cli{id}` | `session`, `session_small_buffer` | `SessionProofs` |
| `TxRing` | the ring at byte level | `tx_ring` | `TxRingProofs` |
| `ByteFifo` | what the ring promises: a FIFO of whole frames | as a property of `tx_ring` | `TxRingProofs` |
| `Registry` | tokens, watches, connections in the script | `registry`, `registry_late_dispatch` | `RegistryProofs` |
| `Claims` | what tokens promise: a claim of one client on one window | as a property of `registry` | `RegistryProofs` |
| `Properties` | update, query and watch of windows and the workspace, on top of `Claims` | `properties` (through `MCProperties`) | `PropertiesProofs` |
| `ClientLoop` | a request from the read buffer through the script and back | `client_loop`, `client_loop_parse` | `ClientLoopProofs` |
| `Control` | server, control queue, `/daemon` poll, control loop | `control` | `ControlProofs` |
| `Lifecycle` | daemon process, unit, script in KWin | `lifecycle`, `lifecycle_name_lost` | `LifecycleProofs` |
| `NativeHost` | the bridge between the browser and the socket | `native_host` | `NativeHostProofs` |

Some operators of the modules are faulty variants of the definition that follows
them (`FitsWithoutSeparator` before `can_fit`); `PROJECT.json` pairs each with the
property that notices it when it takes that definition's place. They are used
nowhere else.

### Session

A byte on the wire is `<<f, k>>`, the k-th byte of the f-th frame; payload text
is left out and a message is its frame number. The C++ buffer is represented by
the numbers the object keeps (`len_`, `complete_len_`) and the frames that are
complete (`queue`). D-Bus handlers are single actions. `handle_io` makes several
system calls, and the peer may write between them, so it is split (`pc`): one
`IoEvent` (epoll wake-up), then one action per way through `Client::read`, then
`on_rx_messages`, then `FinishIo` (flush, close or re-arm). While `pc` is not
"idle" no other callback of the daemon runs.

A reply to D-Bus is not lost here: whether the script still waits for it is the
subject of `Control`. `flush` is seen as "the kernel takes at least one byte of a
writable socket"; its bytes are the subject of `TxRing`.

### TxRing and ByteFifo

`write_ring` is given by the ring it leaves: the distance of a slot from `tail_`
decides which byte it gets. Each `send(2)` is an action, with any number of bytes
up to the wrap point. `ByteFifo` holds the bytes as one sequence; under the
refinement mapping that sequence is `Contents`, the bytes from `head_` on round
the ring.

### Control

Requests and answers travel in sequences; each carries whether the script still
waits for it ("live"). A wrapper time-out makes all that is under way stale, at
any point: the answer is then consumed by `LateAnswer`, and the events in it are
recorded in `lost`. The capacity of the queue (128 KiB) is counted in events.
KWin's `callDBus` is taken to call back only on success, as the retry code in
`clients.ts` and `dbus.ts` assumes.

### Registry

`byToken` is a set of functions from tokens to the fields of the entry, with
`state[t] = "absent"` for a token it does not hold. A caption is the token it
begins with. `watch` is the list of handlers the script keeps, `slots` the
handlers that are connected to KWin's signals; the two are separate so that a
handler can be forgotten.

`token_request` only makes the entry; its reply is sent by a later action
(`dispatchMessage`), because the function awaits the server's result, and until
then the token is in `owed`. A deadline or a caption may come between, so
`token.invalidated` or `token.validated` may be pushed before the reply that names
the token. `view` records, for each client and token, what the messages it got say
("missed" after a push that the daemon refused, which `pushToClient` only logs). As
in `Properties`, it is the view of a client that does not let a reply replace what
a notification has said. `OwnersInformed` says that `view` and the registry agree
but for tokens in "missed", and but for the time between the method and its reply.
Which clients may have pushes refused is a constant (`SlowClients`). A request
without an id gets no reply: its token is then as after a refused reply.

An action is what runs between two turns of KWin's event loop. The connection is
checked once per batch, in the turn in which the first message is dispatched
(`Dispatch`); the messages are awaited one by one, and the model lets other events
come between them:
QJSEngine runs promise reactions from the Qt event loop, so a D-Bus answer, a
timer or a signal can be handled first. `registry_late_dispatch` rests on this: its
shortest trace is a connection, a first message, the disconnection, and the second
message of the same batch. An array of requests is taken as its requests one after
the other.
Client ids are never used again within the life of a daemon.

`Registry` sees `onClientDisconnected` as an event that may come at any time;
when it comes is the subject of `Control`.

### Claims and Properties

`Claims` is the token protocol as its users see it: `claim[t]` is the owner and
the window of an active token. `Registry` implements it (`ImplementsClaims`), with
the entries in state "active" as the claims; pending tokens, captions, deadlines
and watches are invisible. `Properties` takes its token actions from `Claims`, so
what `Properties` assumes of tokens is what `Registry` is proved to give.

In `Properties`, `ws` and `win` are KWin's; `desktopsById` and `activitiesById` the
script's catalogs. KWin emits the signals of a change within it, so a change and
the handlers it calls are one action (`Emit`). Each notification may be refused by
the daemon, which the script does not learn of. A query reads in one turn and its
reply is sent in a later one (`pending`), because `dispatchMessage` awaits the
result; a notification may be sent in between. The reply, which arrives last, is
then the older value. `WatchersKnow` therefore holds for clients that do not let a
reply replace a value they had from a notification, and RPC.md could tell them so.
Validation comes before the first assignment of an update, so a rejected request
changes nothing and has no action.

### ClientLoop

The daemon's side is what `Session` has in detail, at the level of whole frames.
A message is one of five kinds: a request with an id, one that has no answer, a
batch of both, one on which the server throws, and one that is not JSON. The
wrapper's timer may give up a call at any time, up to a bound while the call can
still be answered, and always when it cannot: the object of a session that is
closed never answers, and `callDBus` calls back on success only. `lost` and
`refused` record what the code drops knowingly (late answers, batches that do not
parse, refused pushes, what was in the buffer of a client that left), and
`NoneVanishes` and `EveryCallAnswered` say that nothing else is dropped.

### Lifecycle

`calls` are the calls KWin has yet to serve, in the order of the bus, from any
sender; `await` is the place of the one the daemon waits for, so an answer to a
call that was given up, or was made by an earlier process, is nobody's. A call
to KWin while it is down fails at once (name has no owner), which is what
`load_script` retries on; a KWin that dies or is slow gives another error, which
it does not. SIGTERM is blocked until the loop runs. `mine` tells whether the
script KWin has, or had last, was loaded by this process. `NoForeignScript` says
that a serving daemon is not polled by another one: ids start at 1 in every
process, and a script that outlived its daemon would take a new client 1 for the
one whose tokens it holds.

### NativeHost

A direction is named after the peer it comes from; the two share the loop, so
`pc` is "select" or the direction whose buffer is being emptied. Reads and writes
take any number of bytes. `blocked` is a peer that reads too slowly: the write
waits, and with it both directions. The frame length is read from the buffer, so
an oversized frame is noticed with its header. `written` is a history variable:
all bytes a peer has written, which is what the bytes forwarded are compared with.

## 3. Runs

| Run | Bounds | Shows |
|---|---|---|
| `session` | 2-byte headers, payloads of 0, 2 and 3 bytes with at most 2 legal, buffer of 9 bytes, 3 frames | ten properties: types, capacity, decoder in step, order, whole batches, arming, wake-ups, pauses, closing, delivery of every legal frame |
| `session_small_buffer` | capacity 4, messages up to 3 bytes | **violation**: a session pauses with nothing to drain |
| `tx_ring` | 2-byte headers, payloads of 0 to 4 bytes with at most 3 legal, ring of 7 bytes, 4 frames | the ring implements `ByteFifo`; indices agree |
| `registry` | 2 clients, pushes to one of them may be refused, 2 tokens, 2 windows, batches of 2 | tokens, watches and notifications agree; `Registry` implements `Claims`; a pending token is settled |
| `registry_late_dispatch` | 2 clients, 2 tokens, 2 windows | **violation**: a workspace watch of a client that is gone |
| `properties` | 1 client with 2 tokens, 1 window, 2 desktops, 2 activities; 2 properties of the window and 2 of the workspace | updates name only what exists; watchers know |
| `client_loop` | 3 frames of 5 kinds, write buffer of 1 response, 2 time-outs | effects and responses in order, nothing vanishes, calls are answered, the loop ends |
| `client_loop_parse` | 2 frames, no time-outs | **violation**: a request is lost with another message's parse error |
| `control` | limit 2, queue of 3 events, 3 ids, 2 time-outs | the script's map and the events under way add up to the sessions; the script catches up |
| `lifecycle` | 2 retries, 3 faults, 2 calls owed at a user's start | safety and liveness of the process |
| `lifecycle_name_lost` | 1 retry, 1 fault | **violation**: the daemon survives the loss of its name |
| `native_host` | 2-byte headers, payloads of 0 to 2 bytes with at most 1 legal, 2 frames in each direction | bytes verbatim, whole frames, no starvation |

Why the bounds are enough. In `session` a header and a payload can each be cut, a
frame can be read while another is queued, the buffer can be full with a whole
header consumed, and a zero-length, an oversized and a legal frame can follow
each other; a longer stream repeats these. In `tx_ring` frames wrap in the header
and in the payload and the ring fills exactly. In `registry` a token can be
superseded by one of another client, withdrawn or validated before or after the
reply that names it, with each of these pushes refused or not, and a batch leaves
one message for after the disconnection. A second client with refused pushes gives
the same cases with three times the states. In `properties` a desktop or activity can
go between the moment a client learns of it and uses it, a token can be superseded
with watches on it, `desktops` and `onAllDesktops` change each other, and the
client can watch, ask and be notified in every order; other clients act on the
values as the user does. In `client_loop` a batch can hold a message before and
after one that throws, an answer can be late while the retry is refused, and a
third message can run after both; the write buffer is full with one response in
it. In `control` the queue overflows, and a given-up poll is armed while a new one
is refused. In `lifecycle` three faults allow a crash, a time-out in the next life,
and a restart of KWin. In `native_host` a header and a payload can be cut and two
frames joined in both directions at once. What is proved (section 4) does not
depend on bounds.

`properties` uses symmetry of tokens, desktops and activities, and checks
invariants only; no run with liveness uses symmetry. Runs with
`CHECK_DEADLOCK FALSE` are those in which everything may really end: all frames
sent and the session closed, all pushes made, all clients gone.

**Fairness.** `Session`: the io callback runs once its source is ready and runs to
its end (weak); the poll timer fires (weak); bytes written arrive (weak); a
`poll` that keeps being possible is made and served (strong, since io callbacks
come between: the script's loop polls again after each answer and sd-event
dispatches sources in the order they became ready). Peers are not obliged to send.
`Registry`: a running QTimer fires. `Control`: the daemon serves a call and a timer,
KWin serves answers and timers of the script. `ClientLoop`: the same; a wrapper
timer must fire only when the call can no longer be answered, clients need not
send, read or leave, and the disconnect event need not come, since `Control` shows
that it may be lost (so `LoopEnds` starts where it has come). `NativeHost`: the host
serves every side that `select` returns (strong for reading, since the other side
is served in between) and a peer reads in the end; peers need not write.
`Lifecycle`: systemd acts on the
unit, the process runs, KWin comes back and serves its calls; faults and the user
are not obliged to anything, and faults are bounded, so that liveness says the
system recovers when they end.

## 4. Proofs

Every safety invariant and action property of the runs, and both refinements, are
theorems: they hold for every value of the constants that the named assumption of
the module allows, where TLC shows them for one. All but one need nothing beyond
those assumptions. `PausedOnlyUnderBackpressure` needs a read buffer that holds
the longest message and its separator (`RxCap >= kMaxMessageLen + 2`), the
assumption whose failure `session_small_buffer` shows. Each proof module
defines an inductive invariant `IInv`, proves that it holds initially (`Initially`,
`InitIInv`) and that each action keeps it, and derives the properties from it.
Few properties are inductive alone; what had to be added is the argument.

**`SessionProofs`**: `TypeOK`, `RxWithinCapacity`, `SourceArmed`, `NoLostWakeup`,
`CloseAnswersFirst`, `PausedOnlyUnderBackpressure`, `InStep`, `InOrder`,
`BatchIsWhole`. There are four invariants, each resting on the ones before.
- `IInv` adds what the decoder and the loop know in each phase: how much of a header
  or payload has been read and that a payload under way was found to fit; that
  inside `handle_io` a pause of the decoder is a pause of the session; that a poll
  meets a non-empty queue only there, before `on_rx_messages` has run.
- `StreamInv` says that the bytes ahead of the decoder, in the socket and then in
  the pipe, are frames without a gap and begin with the byte the decoder expects.
  The stream is described by what stands m places behind a byte (`Follows`), for
  every m, rather than by the concatenation of the frames: a step then shifts the
  places, and no induction over the stream is needed.
- `OrderInv` says that what was delivered and what is queued rises, and is exactly
  the legal ones of the frames that the decoder is done with.
- `BatchInv` says that every function that gives the ends of the queued messages
  gives `complete_len_` as the last of them, and that there is such a function. A
  message that is added extends these functions by one value, so the recursive
  `MessageEnd` needs no induction over the queue either.

**`TxRingProofs`**: the indices agree with the length (`TailFollowsHead`) and the
ring implements `ByteFifo`: initial states map to initial states, `push` appends
the frame to `Contents`, `flush` removes its first bytes and sends just those, a
refused push and a failure change nothing.

**`RegistryProofs`**: `TypeOK`, `MapsAgree`, `PendingHasDeadline`,
`HandlersMatchWatches`, `OwnersInformed`, the action properties `BindingFixed` and
`DeadlineClosesAmbiguity`, and `ImplementsClaims`. Two things make the invariant
inductive: `Cleared`, that an unknown token has no owner, window, timer or watch
and that a watch goes with a bound token and its window; and `ConnectedFirst` with
`Strangers`, that nothing is owned by, dispatched for, owed or told to a client that
has not connected, without which connecting could give a client tokens it was never
told of. `OwnersInformed` carries the reply by itself: a token owed to a client that
no longer owns it is "gone" in its view, so the reply, when it is sent, is not taken
for a new token. One lemma each for removing tokens, for the notifications of a step
(`NotifyInforms`: they say what the step did, and all of it), `validate`,
`invalidate` and `checkCaption`, and the actions cite them. In the refinement `validate` is a `Bind` (by `MapsAgree` the token that held
the window is the one it supersedes), `invalidate` and the loss of a client are
`Release`, and all else is a stutter.

**`PropertiesProofs`**: `IdsExist` and `WatchersKnow`. The invariant adds that the
catalogs are those of KWin; that watches and values a client knows go through live
claims and connected clients; and `PendingFresh`, the heart of the argument: a
query's result that waits to be sent is still KWin's value unless a notification
about it was sent or refused in the meantime. The assumptions only say that a client
is not a token and that `NoClaim` is not a claim.

**`ClientLoopProofs`**: `EffectsInOrder`, `ResponsesInOrder`, `NoneVanishes`. A
message goes through the read buffer, an answer and the loop's batch to the
methods, a response through the bus and the write buffer to the client. The
invariant says that each of these holds increasing frame numbers and that all in
one place are below all in the places before it (`FramesInTurn`,
`ResponsesInTurn`); a deferred poll means an empty buffer, so its answer cannot
overtake what is queued.

**`ControlProofs`**: `TypeOK`, `EventsAddUp`, `OneCallAwaited`. The invariant adds
that in the answers and then the queue a client is announced at most once, and not
after its end (`EventsInOrder`), and that nothing is known of an id that was not
handed out (`IdsHandedOut`). Without the first, reacting to a batch could
leave the map other than the sum of its events.

**`LifecycleProofs`**: `TypeOK`, `StoppedLeavesNoScript`, `ServedScriptRuns`,
`NoForeignScript`. What earlier lives have asked of KWin and it has not yet served
always ends without a script: none is there and none will be loaded, or an unload
comes with no load behind it (`WillBeGone`). So the load of a new process meets no
script of another (`CleanStart`), and the phases up to serving keep that the script
is its own unless KWin restarted (`OwnScript`).

**`NativeHostProofs`**: `Verbatim`, `WholeFrames`. What a peer has written is
described as in `SessionProofs` (`Framed`), and the bytes that the host has taken
out of a buffer end at the end of a legal frame (`TakesFrames`). The number read
from a header is then the size of the next frame (`Header`), so taking that many
bytes leads to the end of that frame, and turning away means that fewer are there.

**Only model-checked**: the liveness properties (`EveryFrameDelivered`,
`RequestsSettle`, `EveryCallAnswered`, `LoopEnds`, `ScriptCatchesUp`,
`ServesOrStops`, `StopStops`, `EveryFrameForwarded`): the prover has no support for
fairness and ENABLED. The four runs that expect a violation are counterexamples,
which TLC gives.

## 5. Disagreements found

1. `session_small_buffer`: PROTOCOL.md says reading pauses only under
   backpressure; with a configured read buffer smaller than a message it pauses
   for ever.
2. `registry_late_dispatch`: RPC.md says watches are torn down with the client; a
   message of its batch dispatched after that sets one up again.
3. `lifecycle_name_lost`: a comment in `dbus_service.cpp` says the daemon shuts
   down when it loses its name; `event_` is cleared before it is used to leave
   the loop.
4. `client_loop_parse`: RPC.md says requests are dispatched and that a payload that
   does not parse gets a parse error; the script parses all payloads of a poll
   together, so one that is not JSON loses the others and gets no error.

Two behaviours are not contradicted by a document but are worth knowing. A
notification that the daemon refuses (full write buffer) is dropped with a log
line, and its client keeps an old value until the property changes again; in
`Properties` these are the properties in `missed`, which `WatchersKnow` excepts, and
in `Registry` the tokens whose `view` is "missed": such a client may hold a token
that is withdrawn, or never learn of one it has. And
a KWin that restarts takes the script with it while the daemon goes on accepting
clients nobody serves; `ServedScriptRuns` excepts this case.

## 6. Not modelled

- Logging, including the script's `sendLog`; the wording of errors.
- Parsing of the configuration and staging of the script file: they keep no state
  and fail or succeed once, before anything else runs. Their failure is a failure
  of `Setup` in `Lifecycle`.
- `--check`, `--help`, `--version`; systemd's start rate limit.
- An error returned by `sd_event_loop` itself, and an `ExecStopPost` script that finds
  no `dbus-send`: both are faults of the installation.
- The native host's decoding and packing again of a header: the same bytes, so a copy.
- A cycle of peers that each stop reading until the other does: `EveryFrameForwarded`
  assumes that a peer reads in the end.
- The line-protocol server (`socket_server.cpp`): linked by unit tests only.
- The bundling of the script, KWin's type declarations, the development launcher.
- Inside the modelled parts: the schemas of parameters (a request that fails one
  changes nothing), the json-rpc-2.0 library (external), and the single
  properties beyond the kinds `Properties` tells apart: lists of ids, plain values,
  values that cannot be watched.

## 7. Plan

1. Proofs of what the liveness properties rest on and is safety: that whoever waits
   has a step that wakes him (a running timer, a call under way, an armed source).
2. Abstract specifications: a session as a queue of messages, the native host as two
   byte FIFOs, with the refinements that `SessionProofs` and `NativeHostProofs`
   already contain the arguments for.
3. `Config`: limits and parsing as operators against reference definitions.
