# Harapter in TLA+

Formal models of Harapter: TLA+ modules translated from its TypeScript
source, TLC runs on small instances, and TLAPS proofs. Harapter gives a host
one portable interface (Client, Session, Run) over the native protocols of
several agent runtimes. `PROJECT.json` is the machine-readable index:
components, runs, mutants, the lines every definition translates, hazards and
theorems.

## The system

| Part | Source | State it keeps | Operations |
|---|---|---|---|
| JSON-RPC stdio transport | `packages/transport-jsonrpc-stdio/src/index.ts` | pending requests by id, write chain, inbound queue and its acknowledged sequence, three sets of inbound ids, cleanup | request, requestAfterInbound, notify, respond, respondError, abandonInboundRequest, incoming, close, stream callbacks |
| JSONL process transport | `packages/transport-jsonl-process/src/index.ts` | write chain, physical writes, inbound queue, stream guards | send, incoming, close, stream callbacks |
| HTTP and SSE transport | `packages/transport-http-sse/src/index.ts` | operation slots, abort controllers and timers, response bodies, the open flag; the parser of a stream | request, subscribe, close |
| ACP client | `packages/transport-acp/src/client.ts` | one prompt per session, sessions that are cancelling or closing, pending permissions, the event queue with its checkpoints | initialize, prompt, cancelSession, closeSession, events, close, dispatch of messages, handlers of the host |
| Codex adapter | `providers/codex/src/adapter.ts`, `sessions.ts`, `protocol.ts` | Runs by Thread and by Turn, starting and forking Threads, pending interactions by two keys; the child process; known Threads and Sessions | connectCodex, createSession, resumeSession, forkSession, startRun, respond, cancel, close of a Session and of the client, the pump |
| OpenClaw adapter | `providers/openclaw/src/adapter.ts` | Sessions with their reservations, the one active Run, pending approvals, the pending fork | createSession, resumeSession, fork, start, respond, cancel, close of a Session and of the client, the pump |
| OpenCode adapter | `providers/opencode/src/adapter.ts` | Runs by Session, known and quarantined Sessions, pending permissions by two keys, forks | createSession, resumeSession, forkSession, startRun, respond, cancel, close of a Session and of the client, a Run's event stream and prompt |
| Hermes adapter | `providers/hermes/src/adapter.ts` | starting and active Runs by Session, known, retired and quarantined Sessions, pending approvals, branches | createSession, resumeSession, branchSession, startRun, respond, cancel, close, a Run's stream and its reconciliation by polling |
| Pi adapter, RPC | `providers/pi/src/adapter.ts`, `event-queue.ts` | openings, one process per Session, its pending requests and tombstones, pending dialogs, forks | createSession, resumeSession, fork, startRun, respond, cancel, reads, close, the pump of a process |
| Pi adapter, SDK | `providers/pi/src/sdk-adapter.ts`, `sdk-run.ts` | openings, Sessions with their native object, claimed natives | createSession, startRun, cancel, close |
| DeepSeek Harness adapter | `providers/dsh/src/adapter.ts` | the one active Run, notifications before the acknowledgement, subagents, Sessions | createSession, startRun, cancel, close, the pump |
| DeepSeek Harness gateway | `providers/dsh/src/gateway-*.ts` | attached Sessions with their logs, the one mutation, the one Run | create, resume, fork, detach, startRun, cancel, close, frames of the socket |
| Core registry | `packages/core/src/registry.ts` | factories by provider | register, connect |
| Host runtime | `packages/harapter/src/run.ts`, `session.ts` | the owned Client and Session, one deadline, the chat's `busy`, `closed` and shared close | run, openSession, start, send, close |
| Fake Provider | `packages/conformance/src/fake-provider.ts` | native Sessions shared by clients and handles, Runs with their events, timers | the portable operations |
| Publication to npm | `scripts/publish-packages.mjs`, `scripts/lib/package-publication.mjs` | none: a job rebuilds its view from the registry | audit, publish, verify, wait |

Everything runs on one event loop. Parts interact by calls and promises
(adapter to transport), by an async iterator (the transport's `incoming()`
consumed by the adapter's pump) and by callbacks (a Run tells its client that
it ended). Concurrency is the interleaving of continuations: what was read
before an `await` may be stale after it. Failures are closed streams, refused
and failed writes, local timeouts that race late answers, bounded queues that
fill up, and the host closing at any point.

Every adapter promises the same Run: it starts once, reports events, ends in
exactly one of four terminal states, and says nothing after it
(`docs/design/api-design.md`, "Event rules" and "Concurrency").

What makes each part correct:

- **JSON-RPC transport.** Every promise settles, from its own response only;
  a waiting request can always be found; the barrier of `requestAfterInbound`
  holds; messages reach the consumer in order; an inbound request is answered
  at most once and its reservation returned exactly once; after the end of the
  connection nothing waits.
- **JSONL transport.** Records precede a failure, one frame is in the stream at
  a time, the streams are guarded as long as a write can still fail.
- **HTTP and SSE transport.** A slot is given back once on every path, no body is
  left open, the outcome is what happened first, the events of a stream do not
  depend on how it was cut into chunks.
- **ACP client and adapters.** One Run per Thread or Session; a Run's stream
  ends once, after every interaction it reported is resolved; an answer
  reaches the interaction it was given for; a Run ends as the evidence says;
  cancellation reports what happened and settles; what was left uncertain is
  not built on; processes and native Sessions have an owner until they are
  gone; closing a client settles its Runs.
- **Registry and host runtime.** Every handle that was opened is released,
  also one that arrives after the deadline; a result is never returned past a
  failed release; one Run at a time on a chat; every call settles.
- **Publication.** Nothing is written beside what could not be verified, and a
  job succeeds only when everything is verified, over jobs that are killed.

## Modules

| Module | What it is | Composes |
|---|---|---|
| `JsonRpcTransport` | the class of `transport-jsonrpc-stdio` | |
| `JsonlTransport` | the class of `transport-jsonl-process` | |
| `HttpSse` | the class of `transport-http-sse` | |
| `SseParser` | its `parseSse` | |
| `AcpClient` | the class of `transport-acp`: prompts, cancellation, permissions, events | |
| `RunContract` | abstract: what a Run of any Provider promises | |
| `CodexAdapter` | Runs, interactions, forks and the pump of `CodexClient` over a transport | implements `RunContract` |
| `CodexClient` | its child process, its connection and its Sessions | |
| `OpenClawAdapter` | `OpenClawClient`, its Sessions, Runs, approvals, forks and pump over an `AcpClient` | implements `RunContract` |
| `OpenCodeAdapter` | `OpenCodeClient` over HTTP and SSE, and the Provider's Sessions | implements `RunContract` |
| `HermesAdapter` | `HermesClient` over HTTP and SSE, and the Provider's Runs and approvals | implements `RunContract` |
| `PiAdapter` | the Pi client whose Sessions are processes | implements `RunContract` |
| `PiSdk` | the Pi client over the embedded SDK | implements `RunContract` |
| `DshAdapter` | the DeepSeek Harness client over its SDK Runtime | implements `RunContract` |
| `DshGateway` | the DeepSeek Harness client over the Gateway | implements `RunContract` |
| `HostRuntime` | `run()`, `openSession()`, the registry's `connect()`, the chat | |
| `FakeProvider` | the Fake Provider of the conformance package | implements `RunContract` |
| `Publication` | a release, its jobs and the registry | |
| `JsonRpcDshProofs` | theorems of `JsonRpcTransport` and `DshGateway` | extends both, which share nothing |
| `AcpClientProofs` | theorems | the module it is named after |
| `HermesTransportsProofs` | theorems of `HermesAdapter`, `JsonlTransport` and `HttpSse` | extends `MCTransports`, which has the transports side by side, and `HermesAdapter` |
| `CodexAdapterProofs` | theorems of `CodexAdapter` and `CodexClient` | extends `MCCodexAdapter` |
| `OpenClawProofs` | theorems of `OpenClawAdapter` | extends `MCOpenClawAdapter` |
| `OpenCodeProofs` | theorems of `OpenCodeAdapter` | extends `MCOpenCodeAdapter` |
| `PiProofs` | theorems of `PiSdk` and `PiAdapter` | extends `MCPiAdapter` |
| `HostRuntimeProofs` | theorems of `HostRuntime`, `FakeProvider` and `Publication` | extends `MCHost` |
| `MCJsonRpcTransport`, `MCAcpClient`, `MCOpenClawAdapter`, `MCOpenCodeAdapter`, `MCHermesAdapter` | one bound on all inputs together, order of interchangeable calls | the module each is named after |
| `MCTransports` | one behaviour of one of three | `JsonlTransport`, `HttpSse`, `SseParser` |
| `MCCodexAdapter` | four scenarios | `CodexAdapter`, `CodexClient` |
| `MCPiAdapter` | RPC or SDK | `PiAdapter`, `PiSdk` |
| `MCDshAdapter` | process or Gateway | `DshAdapter`, `DshGateway` |
| `MCHost` | one of three | `HostRuntime`, `FakeProvider`, `Publication` |

The MC modules also state the properties of a run as named conjunctions of those
of the modules. Where an MC module joins modules that share nothing, its
variable `which` says which of them a behaviour is of.

All of them treat the event loop alike. A synchronous stretch of code (a host
call up to its first `await`, a data callback, a timer) is one action. The
continuation that a settled promise schedules is another action whenever
something else can run in between. What lies outside the module (the peer, the
stream, the Provider, the host) is a set of actions that may happen in any
order and, unless the next sections say otherwise, need not happen.

### JsonRpcTransport

| Code | Model |
|---|---|
| `pendingRequests`, `nextRequestId` | the same; an identifier maps to a call or `NoCall`; `MaxRequestId` stands for `Number.MAX_SAFE_INTEGER`, so identifiers wrap |
| the promise of a request, its `PendingRequest` and its barrier waiter | `calls[c]` |
| `writeTail`, `pendingWrites` | `writeQueue` (one element per queued operation) and `writing` (what its head is doing) |
| an `enqueueWrite` that rejects at once, whose `catch` runs later | `refused`, `refusedResponses` |
| `pendingInboundRequestIds`, `respondingInboundRequestIds`, the ids abandoned while a response is under way | `pendingInbound`, `responding`, `abandoning` |
| `InboundQueue`, the `incoming()` generator | `inboundQueue`, `consumer`; resuming the generator acknowledges what it had yielded (`Acknowledge`) |
| `terminate()` with its eight callers, `startCleanup()`, `close()` | `Terminate` inside `Fail`, `Close`, `ConsumerReturn`, `ReceiveOverLimit`; `cleanup`, `closers` |

`written`, `received` and `answered` are history: no guard of the code's side
reads them. The peer may answer only what it received (`PeerAnswers`), but late,
twice, or out of nothing. The bytes of a frame, error wording and the codes of
failures are abstracted: everything that ends in `fail()` is one action.

### JsonlTransport

| Code | Model |
|---|---|
| `open`, `terminalError`, the queue's `failure` | `end`: open, failed, or closed without a failure |
| `writeTail`, `pendingWrites` | `writeTail` (one element per chained operation) and `writing` (what its head is doing) |
| the promise of `send()` and its `PendingWrite` | `wait[s]`; a wait that was given up stays in the chain |
| `activePhysicalWrites` | `physical`, by frame |
| `InboundQueue`, the `incoming()` generator | `values`, `consumer` |
| the terminal error guards, `cleanupPromise` | `guards`, `cleanup`, `closers` |

A frame is in three places at once, and each may end alone: the caller's wait,
the operation in the chain and the physical write. `errorOwed` is the `'error'`
event that a Node stream emits a tick after a failed callback; `setImmediate`
(`GuardsReleased`) comes after it.

### AcpClient

| Code | Model |
|---|---|
| `activePromptSessions`, `cancellingSessions`, `cancellationOperations`, `closingSessions` | `active` (by prompt instead of by token), `cancelling`, `cancelOps`, `closing` |
| the promises of `prompt()`, `cancelSession()`, `closeSession()`, with where they await | `prompts`, `cancels`, `closes` |
| `pendingPermissions`; a request of the Agent with its handler and its race | `pendingPermissions`; `requests` |
| `EventQueue`, its checkpoints, the iterator of `events()` | `values`, `sequence`, `acknowledged`, `consumer`; the `target` of a prompt at its checkpoint |
| the transport: its write chain, its inbound queue, the barrier of `requestAfterInbound` | `writeQueue`, `inbound`, the `target` of a prompt that has its response |

`turn` and `atAgent` are the Agent: a turn runs from the moment its frame is
flushed, whatever the client knows of it, until the Agent answers or closes the
session. `prompts[p].due`, `cancels[c].begun` and `requests[k].answers` are
history. A settled promise is `detached` when only the local wait ended.

Dispatch, the continuation of a response and those of `closeSession` run as
microtasks: a prompt whose barrier is released continues before the next
message is dispatched (both take three turns of the microtask queue, and the
barrier is released first), timers and write callbacks wait for both (`Quiet`).
Host code may run anywhere. The order in which the permissions of a session are
answered (the order of a `Map`) is left open: any `q` of `Answerable(s)`.

### CodexAdapter and RunContract

A Turn is named by the `startRun` call that began it; a Turn id the Provider
used before is the separate outcome `ReusedTurn`. `runs[r]` is first the call
(idle, starting, its promise settled, refused) and then its `CodexRun` (active
or one of four terminal states) with its event queue, its cancellation and its
interaction events. `activeByThread`, `activeByTurn`, `startingByThread`,
`pendingByLocalId`, `pendingByWireKey` are the maps of the client; `pump` is the
loop over `transport.incoming()`, with the places where it awaits; `forks` the
steps of `forkSession`. The transport below appears as far as the adapter can
tell: `transport`, `inbound` and the three reservation sets, with the meaning
`JsonRpcTransport` gives them.

*Microtasks.* Promise continuations run before the next callback of the event
loop. The continuation of `turn/start` is scheduled by the response itself, so
before it only what that same callback schedules or causes can run: host code
and a `forkSession` resuming from an earlier response of the same chunk, and the
rest of that chunk. `Quiet` keeps everything else (timers, write callbacks, the
pump) waiting. Without it the model would show interleavings the event loop
excludes.

`RunContract` states what every adapter promises: a Run starts once, reports
while it is active, ends in one of four states and says nothing afterwards.
`CodexAdapter!ImplementsRunContract` is the refinement, with the status and the
interaction events of each Run as the mapping.

### OpenClawAdapter

| Code | Model |
|---|---|
| `sessions`, `sessionReservations`, `forking`, `activeRun`, `closed` | the same |
| the calls of `createSession`, `resumeSession` and `forkSession`, with where they await | `calls` |
| `lifecycleState` and `closePromise` of the `OpenClawSession` a call returned | `handles`; `unsafe` is a close that ended with the connection, whose promise stays cached |
| an `OpenClawRun` with its queue, its collected texts, its prompt and its `cancelOnce` | `runs[r]` |
| `pendingApprovals` and the promise of `requestPermission` | `approvals[a].state`; what the Agent has been told is `approvals[a].told` |
| the `AcpClient` below | `acp`, `events`, the outcomes of the requests, and `Cancelling`, `AnswerAsked`, `PromptAnswered` for the three promises of `AcpClient` it relies on |

Each emit may find the queue of the Run full, and then aborts the connection from
inside whatever called it: `finish`, `settleApprovals` and `abortConnection`
itself among them. That is why the steps compute the Run's record first and
decide afterwards (`Emit`, `Resolve`, `Finish`, then `AbortIfFull`, `FinishRun`).

What the code does and a reader may not expect: a fork excludes reserved
Sessions, but a `createSession` in flight reserves nothing; a Run that ends with
its prompt sets its result first, so its stream does not report the approvals
that are cancelled with it; and an approval that `cancelSession()` has
answered still pends in the adapter, so that `respond()` succeeds although the
Agent was told otherwise. `ApprovalsTruthful` states exactly this.

### CodexClient

`child`, `termination`, `connect` and `wire` are the process, `terminateChild`,
`connectCodex` and the transport; `calls` the calls that make a Session, with
the `CodexSession` each returned in `sessions`; `knownThreads` and
`ephemeralThreads` the tables of the client; `turns` is as much of a Run as a
Session's `close()` asks about. A call that was answered goes on in the same
step: the race between a response and `close()` is in `CodexAdapter`. The
constructor of the transport cannot fail, as its options were validated before.
A fork may begin while a resume of the same Thread is pending, and a child that
outlives SIGKILL during a failing `connect()` is reported to nobody: `ChildOwned`
names both the rule and this exception.

### OpenCodeAdapter

| Code | Model |
|---|---|
| `activeBySession`, `knownSessions`, `quarantinedSessions`, `pendingByLocalId`, `pendingByProviderId`, `claimed` | the same |
| a `startRun` call, its `OpenCodeRun` with its event stream, its prompt and its `cancelOnce` | `runs[r]`: `open`, `pump`, `prompt`, `cancel` |
| calls that make a Session and the `OpenCodeSession` they return; `forkingSessions` | `handles`; `forks` |
| the Provider: its Sessions, the prompt of a Run, its forks | `created`, `remote`, `remoteForks` |

A Run is one POST whose answer is its result, and one event stream for what
happens meanwhile; the Provider goes on with a prompt whose answer nobody awaits
(`remote`). `SessionsExclusive` compares the two: no Run or fork is put on a
Session where the Provider may still work for another. The first event of the
stream and the continuation of `open()` are one step; the queue of events has
room or not; a permission whose registration finds the queue full counts as
requested; `resolvePermission` on a full queue loses its event, and the Run ends.
An event the transport has yielded when its Run ends is still taken by `pump()`, and
`registerPermission` asks neither whether the Run is over nor whether the Client is
closed: `PermissionAskedLate` registers such a permission. It cannot be answered,
stays registered until the Client is closed, and while it is, another Run of
the Session cannot register the same one; `PermissionsSettled` names it as its exception.

### HermesAdapter

The same tables, with Runs that are first posted and validated
(`startingBySession`) and branches that retire their source. The end of a Run's
stream and its terminal event are evidence only: `reconcileTerminal` (`Poll`,
`reconcile`) asks the Provider and waits for approvals that are being answered
and for the stream. An approval is answered by a POST and reported by an event,
in either order (`responses[n]`). The handling of one event is one step.
`remote`, `stream` and `approvals` are the Provider. Its approval route names the
Run and not the approval, so that a late answer may decide the next approval;
`ApprovalsTruthful` says what a Run reports in that case.

### PiAdapter and PiSdk

Over RPC every Session is a process of its own: `handles[h]` is an opening with
the places where `openSessionOnce` waits, then its `PiProcessSession`; `peers[h]`
is the process, `commands` and `remote` what it has read and works on. Requests
of a process (`runs[r].prompt`, `.abort`, `reads`) have their place in the limit
of pending requests until they are answered or, given up, a tombstone
(`abandoned`). That the prompt was accepted, that the agent settled and how its
last message ended come in any order. A fork is a second process on the same
native Session. Stray requests of extensions and failed writes are in
`PeerFails`. A version probe whose process cannot be ended has no owner in the
code; it is not modelled. A process that was started and whose transport refuses
its options (`Spawned`, `SpawnOutcomes`) is told to end, and the opening waits
for that (`terminating`).

With the SDK a Session owns a native object of a factory of the host, which may
come after its deadline; a Run has a prompt promise, an abort promise and the
events of the agent. Callbacks without a wait are one step. A Session whose
factory is late does not count in the limit, as in the code.

### DshAdapter and DshGateway

Over the SDK Runtime a connection has one Run. What the Runtime reports until
`session/prompt` is answered is kept and replayed (`Acknowledge`); a Run begins
where its own message enters the inbox (`correlated`), and ends when its Session
is idle with exactly one end of a turn. `worked[r]` is what the Runtime came to,
and `EndsTruthful` compares. Sequence numbers are abstracted to "is the next".
The room of the queue is nondeterministic. What was kept is replayed to its last
notification, also past the end of the Run, where it may still break the
connection; a Run that `startRun` gives up is settled by nothing (`GivenUp`).
The end of any turn may be missing in the log (`LoseTurn`).

Over the Gateway requests are POSTs and the log of an attached Session is a
stream: `logs[s]` is `GatewaySessionLog`, `posts` and `native` the Gateway's
side. The receipt of a prompt and the end in the log come in either order; a
write whose outcome is unknown closes the client. A socket that is full is
`SocketEnds`. A message that the Gateway drops from its inbox ends its Run by
the deadline of the Run alone (`TimerFires`), which the code always sets:
`runTimeoutMs` where the host gives none.

### HostRuntime

| Code | Model |
|---|---|
| where `execute()` or `work()` awaits | `stage` |
| `stopped`; who won `Promise.race`; the variables `client` and `session` | `stopped`, `outcome`, `owned` |
| `catch` and `finally`: Client first, then Session | `cleanup`, `cleanupFailed`, `Answer` |
| the Client and Session as their provider sees them; its Runs | `handle`, `task` |
| `closed`, `busy`, `closePromise` of `managedSession` | the same, `toClose` for the loop inside the promise |
| the calls of `send()` and `start()` | `op` |

Both entry points run in one module: `kind` says which was called, and the chat
exists after an `openSession()` that succeeded. `Promise.race` decides in the
step that settles its winner (`Decide`), and setup goes on after it has lost: that is
where late Clients and Sessions come from. The registry's `connect()` is inside,
because between `factory.connect` and the last probe the Client is known to the
registry alone. The provider may reject or never answer anything; `start` may
return a Run on a connection that is being closed.

### HttpSse, SseParser

`at[o]` is where `request()` or the generator of `subscribe()` awaits, `wait[o]`
who settled that wait, `active` the set of operations with a slot, `reason` why
one was aborted locally; `fetching` and `body` are the other side, which may
answer after the abort. `SseParser` has the local variables of `parseSse`; a
byte is a line break or the first letter of a field or part of a value, and
`ParsedAsMeant` compares with the events of the whole text split at once.

### FakeProvider and Publication

`fakeRuns`, `handles`, `natives`, `activeRuns` are the fields of `FakeRun`,
`FakeSession`, `FakeNativeSessionState` and `FakeClient`; `readers` the iterators
of `events()`; a Run completes in a timer or once somebody looks at it. Refused
operations change nothing and are left out.

In `Publication` the registry accepts a version for good, and shows it and its
dist-tag later; what it shows only grows. A job may be killed between any two
steps (`JobFails`, which also stands for reads that fail and waits whose deadline
passed) and is started again; the workflow's concurrency group runs one at a
time. Reading the mode is one step. Nothing is claimed of its liveness.

## Runs

Every property has a mutant: a plausible bug in one definition (a dropped
guard, a missing reset, a swapped order) under which the same run finds the
property violated. They stand next to the definition they change.

| Run | Instance | Asks |
|---|---|---|
| `jsonrpc` | 3 requests of either kind on 2 identifiers, 1 notification, 1 `close()`, 1 reusable inbound id, 2 messages, 4 inputs in all, the third request counting twice; queues of 1 and 2 (2,260,100 states) | settlement by the own response, barrier, reservations, order, what the end of the connection releases, settlement of every call |
| `transports` | JSONL: 3 `send()`, 1 `close()`, 3 records, a chain and a queue of 2. HTTP: 2 requests and 1 stream of which 2 begin, one slot of each kind. SSE: texts of 6 bytes in chunks of 2 (191,862) | delivery before failure, one write in the stream, guarded streams; slots, bodies and outcomes; chunking; settlement |
| `acp` | 1 session, 3 prompts, 2 `cancelSession()`, 1 `closeSession()`, 1 request of the Agent, 2 messages; 3 prompts and messages, 4 inputs in all; queues of 2 and 1 (561,319) | one turn at the Agent, aim of a cancellation, no session blocked without a reason, one answer to a permission and before the cancellation, events before the result, settlement |
| `acp_cancel` | 1 prompt, 2 `cancelSession()`, 1 permission, a transport of 1 frame | the second finding below |
| `codex` | 2 Threads with a Run each; 1 Thread with 2 Runs and native ends of Turns; 1 Run with 1 wire id used for 2 interactions; the Client with 2 calls and 1 Run (255,673) | exclusivity of a Thread, truthful `cancel()`, routing and resolution of interactions, no end taken for another Run's, an owner for the process, settlement, the Run contract |
| `codex_close` | 1 Run, no messages | the first finding below |
| `openclaw` | 2 identifiers, 2 calls, 2 Runs, 1 approval, 1 event, a queue of 2; 5 inputs in all, a Run counting as two (750,433) | exclusion among Sessions, closes, forks and Runs, nothing uncertain reused, truthful approvals and cancellations, settlement, the Run contract |
| `opencode` | 2 Sessions, 2 handles, 2 Runs, 1 permission, 4 inputs in all (112,966) | nothing built on uncertain work, permissions resolved once, truthful `cancel()`, settlement, the Run contract |
| `hermes` | 2 Sessions, 2 handles, 2 Runs, 2 approvals, 3 inputs in all (77,657) | the same, ends by evidence, truthful approvals |
| `pi` | RPC: 2 native Sessions, 2 openings, 2 Runs, 1 dialog, 3 inputs in all. SDK: its own two of each, and a limit of two Sessions (50,197) | processes and natives owned, ends truthful, Sessions exclusive, settlement, the Run contract |
| `dsh` | 2 Sessions, 2 Runs, 2 subagents, 1 message of another client, 2 irregularities, 2 inputs in all, for the process and for the Gateway (233,183) | work owned, ends truthful, nothing uncertain built on, settlement, the Run contract |
| `host` | both entry points, and on the chat 2 `send()`, 1 `start()`, any number of `close()`; the Fake Provider with 2 clients, 2 handles, 2 Runs, 1 iterator; 2 packages and 2 jobs (423,691) | release of late handles, authoritative results, order of closing, one Run at a time, settlement; Fake Runs let go of and by contract; publication safe over killed jobs |

*Why these bounds are enough to show something.* The hazards are pairs: two
requests whose answers or frames cross, one identifier used twice, a message
before and one after a response, two Runs on one Thread or on two, an
interaction and its successor under the same wire id, two calls on one chat and
a close, a cancellation and the prompt after the one it was meant for, a Run and
the one started after it on the same Session, a job and its repetition. Each
instance has two of the things that compete (three prompts where the late
answer of the first meets the other two) and queues small enough to be full.
Third participants would repeat the pairs. `MaxInbound`, `MaxMessages`,
`MaxEvents`, `MaxInteractions`, `MaxApprovals`, `MaxDialogs`, `MaxWire`, `MaxSays`,
`MaxOddities`, `MaxChunk`, `MaxText`, `MaxEntries`, `MaxJobs` bound what the other
side sends or does and nothing else. `MaxInputs`, `MaxTraffic` and `MaxOperations`
bound the calls of the host and what the peer begins together, so that every
mixture of a few of them is there, and hold back no step that fairness is
assumed of, except where the step is one of a fork or a branch that may fail
instead. All other constants are limits the code has. HostRuntime needs no
bound: events may arrive for ever. Interchangeable calls are numbered and begin
in order.

`jsonrpc` has three requests and two identifiers, so that the third request
gets an identifier of an earlier one, whose frame, timer, response or barrier
may still be about. `PendingIsTracked`, `TerminationReleasesAll` and the
settlement of every call hold all the same. What one request says of another
does not: the frame or the barrier of a request that timed out then finds the
new request under its number. The code has 2^53 identifiers and takes this for
impossible; `AnsweredByOwnResponse`, `BarrierHolds` and
`OnlyLiveRequestsWritten` say so and speak of a call whose identifier no other
call has had (`Shared`).

## Fairness

Liveness is claimed only from what the runtime provides:

- `JsonRpcTransport`: scheduled continuations run, the request timers fire, the
  cleanup the caller supplied settles. The peer may be silent and the stream
  may never call back for a write.
- `JsonlTransport`: continuations and timers run, the caller's cleanup settles,
  and the stream calls back for every frame it took (Node does, also after
  the stream is destroyed). `close()` has no timer of its own.
- `AcpClient`: continuations run, the timers of requests fire, the stream takes
  every frame: `cancelSession()` waits for its writes without a timer. The Agent,
  the handlers and the consumer of events may be silent for ever.
- `CodexAdapter`: continuations and the pump run, requests settle (the
  transport times them out: `RequestsSettle`), the cancellation watchdog fires.
  Nothing of the host, the Provider, the write of a response or the optional
  Run timeout.
- `OpenClawAdapter`: continuations and the pump run, the stream takes or refuses
  `session/cancel`, and three timers fire: of the settlement of a cancellation, of
  a request and of a Gateway call. Prompts may run for ever.
- `CodexClient`: the process starts or fails to, request timers and the two timers of
  termination fire. It may never exit, and the App Server never answer.
- `HttpSse`: continuations and timers run, the caller's cleanup settles. Connecting
  and a request have timers; fetch and bodies may hang.
- `OpenCodeAdapter`, `HermesAdapter`: requests settle (the transport times them
  out: `OperationsSettle` of `HttpSse`), delays elapse, continuations run. For
  Hermes a host does not repeat a rejected answer for ever: while one is under
  way the Run waits for it.
- `PiAdapter`, `PiSdk`: request timers and those of termination fire,
  continuations run; agents, processes and the SDK may hang.
- `DshAdapter`: the Runtime goes on with its turns (a Run has a timer only if the
  host asks for one), requests settle, the pump runs.
- `DshGateway`: requests settle, frames are read, the Gateway goes on with its turns.
  Every Run has a deadline; that it fires is assumed only where a Run has no other
  end, when its message was dropped, so that `GatewaySettles` also shows that
  the log and the receipt end a Run without it.
- `FakeProvider`: timers and queued completions run. `Publication`: none.
- `HostRuntime`: deadlines fire, continuations run, and `close()` of a Client
  or a Session settles: cleanup awaits it, and the code has no timer there.
  Connecting, probing, creating, starting, events and `onEvent` may hang.

Where calls begin only once, settlement is stated as "time and again no call is
under way", which says the same with one formula.

`CancellationSettles` excludes one state: when `turn/interrupt` itself was
rejected, the cached rejection answers every later `cancel()`, and the
repository does not say that a retry is owed.


## Proofs

TLAPS proves these for every number of calls, every limit and every set of
identifiers, from assumptions on the constants that TLC evaluates in the runs:
`LimitsAssumption` of `JsonRpcTransport`, `JsonlTransport` and `AcpClient` and
`SlotsAssumption` of `HttpSse` (the limits are positive integers, as the
constructors check, and as the limits of `PiAdapter` and `PiSdk` are), `NullAssumption` of each module (`NoCall` is no call, `NoId` no
identifier), `CallsAssumption` (`send()` and `start()` calls are distinct, and
none is named `"main"`), `KindAssumption` (a request is no stream),
`BoundAssumption` (the bound on a counter, `MaxInteractions` of `OpenCodeAdapter`, `MaxApprovals` of
`HermesAdapter` and `MaxEvents` of `OpenClawAdapter`, is any natural number) and
`CapacityAssumption` (the event queue of a Run has a place for `run.started` and
for the terminal event). A module that is only ever instantiated states its
assumptions as definitions; the MC module that instantiates it assumes them
(`TransportsAssumption`, `ClientsAssumption`, `ConnectionsAssumption`, `HostsAssumption`), and its theorems
are proved in a module that extends that MC module, of its own specification
(`Http!Spec`), which the bounds of the MC module are no part of. The theorems of
`DshGateway` have `GatewayAssumption` as their hypothesis, which `MCDshAdapter` assumes of
its instance.

| Theorem | States | Argument |
|---|---|---|
| `TypeCorrect` | `Spec => []TypeOK` | `Typed`: the types, and that the write chain is busy only with an operation at its head. Without the second part the step that takes the head of the chain could take it from an empty one. |
| `PendingTracked` | `Spec => []PendingIsTracked` | `Tracked` adds `Identified`: a request whose frame was refused, or whose operation is still queued after it settled, keeps its identifier, and rests on `Numbered`: a call has an identifier from the moment it is stored, and a barrier only when it asked for one. Every late continuation (a failed write, a barrier) then looks up an identifier that exists and settles whoever waits under it, also when it was given to another request meanwhile. |
| `TerminationReleases` | `Spec => []TerminationReleasesAll` | Inductive together with `Tracked`: the map and the waiting requests agree, so `Terminate` settles all of them, and no later step adds to a closed transport. |
| `InboundAnswersSound` | `Spec => []AnswersSound` | Three invariants, each resting on the one before. `InOrder`: the message the host holds is the next to acknowledge, and an iterator waits only when nothing is queued, else a message could overtake the queue. `Barriers`: a barrier that was released, or whose call was answered, has its sequence number acknowledged, as long as the call still waits or no other had its identifier. `Reserved`: `ResponseReservation`, and for every request received at most one answer counting the one its reservation still owes (`Owed`). |
| `JsonlIsSound` | `Jsonl!Spec => []JsonlSound` | `Typed` as above. `OrderInv`: what was taken in is delivered, then queued, without a gap, and an iterator that waits or threw finds nothing queued. `GuardInv`: at most one physical write, the head of an open chain is waiting for it, and the guards are let go only after it and after the error it leaves behind; the last is what makes it inductive, as `errorOwed` may arise when the write itself is gone. |
| `HttpIsSound` | `Http!Spec => []HttpSound` | `Place`: where an operation waits, who settled that wait, its body and the reason of its abort determine each other; without it a body that `fetch` delivers after the abort could be overlooked. `Told` (`OutcomesTruthful` of one operation), `Listed` (it holds a slot exactly while it runs unaborted) and `SlotsInv` follow step by step. |
| `TurnsAreSound`, `StepsAreInOrder` | `Spec => []TurnsSound`, `Spec => StepsInOrder` | See below. |
| `CodexImplementsRunContract` | `Spec => ImplementsRunContract` | See below. |
| `CodexRunsSound` | `Spec => []RunsSound` | `Whole`, below. |
| `RunsEndByTheirTurn` | `Spec => EndsByItsTurn` | With `Whole`: every step but `turn/completed` lets each active Run go on or ends it with the connection (`GoesOn`). `PumpByTurn`: a routed message is in the hands of the Run of its Turn, or of none, also when it waited for a `startRun`. |
| `ClientIsSound` | `ClientInit /\ [][ClientNext]_clientVars => []ClientSound` of `CodexClient` | `ProcessInv`: at each stage of `connect()` what there is of the process and the transport; a transport that ended has asked for the end of the process, and only an exit counts as one. `ClosingInv`: `close()` has ended the transport and settles as the process did. `CallsInv`, `StartedInv`: a Session has a Thread the Client knows, a Run a call that opened its Session. |
| `NothingIsMixedUp` | both specifications of the Codex adapter `=> NothingMixedUp` | `RunsEndByTheirTurn`, and for `ForksFresh` the same invariant: a Session's Thread is among the known ones, and `fork()` returns one that is not. |
| `HostTypeCorrect` | `Spec => []TypeOK` | Needs that something is left to close while a chat's close is pending. |
| `HandlesAreReleased` | `Spec => []HandlesReleased` | `Released` has three parts. `RaceInv`: the race, its cleanup and the chat come one after another. `OpenIsOwned`: an open handle is known to the registry or to a variable of the entry point that cleanup has still to come past. `ChatCloseInv`: the pending close of a chat has yet to reach at most one open handle. `RunStages` (only `run()` goes on to a Run) keeps `Decide` from taking the result of `run()` for a chat. |
| `BusyIsExact` | `Spec => []BusyTracksCalls` | With `EngagedInv` below. |
| `OneRun` | `Spec => []OneRunAtATime` | `EngagedInv`: at most one call is engaged (in progress, or its Run is), and a Run that outlived its `send()` has closed the chat. `OneRunAtATime` alone is not inductive: `busy` is cleared while such a Run goes on, and only `closed` keeps the next call out. |
| `OutcomesAreTrue` | `Spec => []OutcomesAreAuthoritative` | `SetupInv`: what `run()` owns at each stage. `ResultInv`: a result is kept only after the Run ended and its Session closed, and a failed close of the Client goes on record. `CloseInv`: what the shared close of a chat has reached, and that a `send()` fails only once it settled. |
| `ClosedOnceInOrder` | `Spec => ClosesOnceInOrder` | The same invariants: before the chat, a Session begins to close only with no Run or after the Client's close; in the chat only the `close()` that finds `closePromise` unset asks, and it finds both handles open. |
| `FakeProviderIsSound` | `FakeSpec => []FakeProviderSound` of `FakeProvider` | `KnownInv`: a Run is under way exactly while its native Session and its open client know it. `OwnedInv` ties the handle that started it to that native Session, which `FakeSound` does not: only so the close of a handle that finds its Session idle leaves no Run behind. `StreamInv`: the stream of a Run under way is determined by what it waits for, so that what `finish()` appends (`FinalEventsEnd`) resolves what was asked and ends once. `ReadInv`: an iterator is no further than its stream. |
| `EverythingInOrder` | `Spec /\ FakeSpec => StepsInOrder` | `ClosedOnceInOrder`, and the refinement of `RunContract` by the Fake Provider: every step leaves a Run as it is, begins it or finishes it (`FakeMoves`). |
| `SdkIsSound` | `Sdk!SdkSpec => []SdkSound` of `PiSdk` | `SdkInv`. `OpeningInv`: a `createSession` waits exactly while its factory may still make it a Session. `NativeInv`: what is owned belongs to one open Session. `LimitInv`: Sessions and openings together keep the limit, and a closed client has neither. `ActiveInv` and `WorkInv` tie a Run to its Session and a native to one prompt in both directions, without which a prompt that settles late could end the next Run. |
| `PiIsSound` | `Spec => []PiSound` of `PiAdapter` | `PiInv`, below. |
| `PiRunsImplementContract` | both specifications of the Pi adapter `=> RunsImplementContract` | `SdkInv`, `PiInv`: every step leaves a Run as it is, starts it, reports or resolves a dialog of it while it is active, or ends it once (`SdkMoves`, `PiMoves`). |
| `OpenClawIsSound` | `Spec => []OpenClawSound` of `OpenClawAdapter` | `OpenClawInv`, below. |
| `OpenClawImplementsRunContract` | `Spec => ImplementsRunContract` | The same invariant, and of every step that each Run stays as it is, starts, or goes on or ends with what it resolves among what it requested (`RunsMove`). |
| `OpenCodeIsSound` | `Spec => []OpenCodeSound` of `OpenCodeAdapter` | `OpenCodeInv`, below. |
| `OpenCodeImplementsRunContract` | `Spec => ImplementsRunContract` | The same invariant: every step leaves a Run as it is, opens it, reports a permission or its resolution while it is active, or ends it once (`RunsMove`). |
| `HermesIsSound` | `Spec => []HermesSound` of `HermesAdapter` | `HermesInv`, below. |
| `HermesImplementsRunContract` | `Spec => ImplementsRunContract` | The same invariant: every step leaves a Run as it is, starts it, reports an approval or its decision while it is active, or ends it once (`RunsMove`). |
| `GatewayIsSound` | `GatewaySpec => []GatewaySound` of `DshGateway` | `GatewayInv`, below. |
| `GatewayRunsImplementContract` | `GatewaySpec => GatewayImplementsRunContract` | The same invariant, and of every step that each Run stays as it is, begins, or ends once (`RunMoves`). |
| `PublicationIsSound` | `PublicationSpec => []PublicationSound` of `Publication` | `JobInv`: in every later phase a job knows of all entries, in `final` all are ours. `TaggedInv`: a version that was accepted has a tag that names it or a newer release, without which the tag a replica shows later could undo a success. A job is started over knowing nothing, so that the order of writes rests on what it inspects and audits, not on the jobs before. |

`TurnsAreSound` has one inductive invariant of eleven parts, because its
conjuncts lean on one another in a circle. `OneTurnPerSession` holds since a
running turn holds its Session (`TurnInv`), also while only the local wait for it
was given up: then the Agent may go on for ever, and the Session stays taken. A
Session is let go by the answer, or by `session/close`; that the latter is safe
needs that no prompt of the Session is still queued behind the close that has
reached the Agent (`CloseInv`, from the order of the frames in `WireInv`), and
that a second close cannot overtake it. `BlockedForAReason` is `ActiveInv`,
`CountInv` and the part of `CloseInv` on `closing`: the count of cancellations
is the cardinality of those in progress, so that the last of them unblocks the
Session. `AnsweredOnce` is `RequestInv` with `InboundInv` (a request waits for
its dispatch once). `ClosedInv` says that the end of the connection leaves
nothing, and all others need it. `StepsAreInOrder` comes from the same invariant:
`CancelInv` knows that a Session with a cancellation in progress takes no
prompt and that the answers the cancellation asked for are in the chain before it;
`DueInv`, with `EventInv`, that the events before a response are at every moment
either handed over, or queued, or among the messages that come before it.

`CodexImplementsRunContract` has two halves. Every step `Moves` the Runs: a record
stays, begins, or `Extends` what it was, so that nothing is added to the stream
of a Run that has ended. And `resolved` stays within `requested`, which is not
inductive: `respond()`, the Provider's resolution and the abandonment of an
interaction resolve by the tables, and the tables know nothing of the stream.
`ReportedInv` ties them: a pending interaction of an active Run was reported by
its stream. One kind is `Lost`: the report found the queue full, and the client
closed meanwhile, so that the failure which would have ended the Run no longer
abandons it. Nobody resolves such an interaction any more, because the
pump has nothing left to take and the transport takes no answer; showing that needs the state
of the pump (`PumpInv`), of queues that are full (`FullInv`) and of the
tables (`TablesInv`) along with `RunsInv`.

`CodexRunsSound` takes `Inv` further with `Whole`, which has four parts.
`TidyInv` looks at a Run alone: its queue keeps a place for the terminal event,
and the result of `cancel()` is its end. `ThreadInv` relates Runs and Threads in
both directions (`Registered`), which `ThreadExclusive` alone does not, and says
that an active Run, a `startRun` and a fork exclude each other (`OneHolds`).
`AccountInv`: an active Run has resolved what it reported except what is pending,
unless its queue was full; only so is nothing left when the terminal event takes
the pending ones. The last part is the wire (`RouteInv`, `CarriedInv`,
`HeldInv`): a request of the Provider on its way is the only holder of its wire
id, every reservation has a holder, an id is being answered for exactly one
interaction or refusal, and a reservation is marked for abandonment exactly when
the interaction it is answered for no longer pends. Without the last equivalence
a late answer could release the reservation of a later request with the same id.

`PiInv` has two halves, one on connections and one on Runs. In the first,
`SaneInv` says what the step of an opening, or the state of its Session, tells of
its process and the other way round; `OwnInv` who keeps a process: an opening
among `openingSessions`, a Session in the table, and one Session for one handle.
Both are needed for `close()`: it succeeds by what its tables say, and that no
process is left follows only if nothing is outside the tables. `ForkInv`: the sources of
forks under way are distinct, reserved and without a Run. `CloseInv`: nothing
is asked of an agent after `close()`, and every Session it found is closed by
force. In the second, `RunInv` holds a result against what the agent last said
and what was confirmed. `AgentInv` is about the process: the prompt in its queue or
the work it does is of the active Run of its Session, and there is one of them;
it alone keeps an `agent_settled` of one Run from ending the next. `DialogInv`: a
dialog is pending only while its Run is active. The lemmas are arranged by what a
step does to a Run (reports and answers; `finish()`; connections
that end their Runs; connections that come and go while Runs go on), so that each
action cites one.

`OpenClawInv` is about Sessions in its first three parts. `CallInv` and `HolderInv`: a
resumption has reserved an identifier no Session holds, a live handle holds its Session,
and each identifier has one holder of either kind; a step of one call need then
only show that it leaves the others what they hold (`OneCall`, `Undisturbed`).
`EndInv`: a call or a close whose outcome is unknown has taken the connection with it.
The fourth, `RunsInv`, judges each Run and each approval by itself (`RunFits`,
`ApprovalFits`): an active Run has resolved what it requested except what pends, and has a
place left in its queue. It is stated on values and not on the state, since a step may
find that place taken: it has computed the records of Runs and approvals by then, and
ends with the connection instead. Such records are `Planned`; they may lack
what an active Run must have, and `AbortKeeps` shows that the abort makes them fit: a
queue that overflowed has no place (`Ending`), so that the abort reports nothing more on
it and no approval is resolved twice. `ApprovalFits` needs that what nobody asked
has told the Agent nothing, and that an answer which contradicts the host has a cancelled
Run of the same Session behind it.

`OpenCodeInv` has to tie together what the Client knows and what the Provider does.
`ActiveInv`: a Run under way is the active one of its Session, and the other way
round. `HeldInv`: a Session that is quarantined or being forked has no active
Run. `WorkInv`: the Provider works on at most one prompt of a Session, and on
none beside a fork; a prompt of a Run that is over goes on only in a quarantined
Session, and so does a fork the Client stopped waiting for. The three lean on one
another: a stream that opens starts a prompt, and that nothing else is
worked on then follows because everything else would be of the active Run or would
have quarantined the Session. `PendingInv` is about permissions: the two tables
are inverse to each other, what a Run asked is pending or resolved until the
Run is aborted, and what is pending of a Run that is over came too late for it. `RunInv` fixes the order of a Run's stream, prompt and result,
`CancelInv` what a `cancel()` was told. Whatever ends Runs does so by `finish()`
from a state the step has brought them to; one lemma covers them all (`EndsKeep`, of
`close()`, of a full queue, of a lost stream, of a prompt that settles or of a
cancellation), with what the Provider may still be doing as its hypothesis (`LeavesOff`).

`HermesInv` has four groups. `ClientInv`, `HandleInv`, `OwnerInv` and `PlaceInv` are about
the tables: a Run that is starting or active is the one its Session's entry names, and
nothing else is in the tables. `WorkInv` holds them against the Provider: it works on
at most one Run of a Session, which is in the tables or has quarantined the Session, so
that a POST of which nothing is known does no harm. `RunInv` ties the evidence of a Run
together: a reconciliation under way has the Provider's own answer, and nothing that was
read contradicts it. The last group makes `ApprovalsTruthful` inductive. `StreamInv` says
what of an open stream is unread: per approval a request before its decision,
approvals in their order, and with what the Run has read all there is, for a
Run that is still heard. `PendingInv`: an approval pends while its request was read and
its decision was not. `ResponseInv`: an answer that the Provider took is in the
stream or was read, and an answer in flight still has its approval, unless the
Run is over. Without the order of the stream, an answer for one approval that decides the
next (the route names the Run alone) could not be told from the host's own decision.

`GatewayInv` is about what stands between a Run and the turn that works on its
message. `WorkInv`: a message waits in one inbox, once, and a turn works on one message that
waits nowhere. `OwnerInv`: the log of a Session is owned by the active Run or by none, the
active Run owns that of its Session, and every other Run is over. `SessionInv`: what is
attached is followed, and a Session the Client does not have yet belongs to the operation
under way. `RunInv` judges a Run by itself: how far its call and its POST are, and that
what it was told of its turn is so. `StreamInv` is the part the ends rest on: after a claim of
a message, in the stream or already read, the first end is that of the turn that worked on
it, or that turn is still at work (`EndsWith`). Neither the frames nor the Gateway's
state alone would do, as the log is read long after it was written.

Each proof has one lemma or case per action. In `HostRuntimeProofs` the steps
that settle the race share a lemma (`DecideReleased`, `ThrowReleased`), and so
do all steps of one call on the chat (`OneCallSteps`).

Model-checked only: every liveness property (fairness and `ENABLED` are out of
the prover's reach); `ParsedAsMeant` of `SseParser`, whose fold over the bytes of
a chunk needs an induction over data; `AnsweredByOwnResponse` and
`OnlyLiveRequestsWritten` of `JsonRpcTransport`; `DshSound` of `DshAdapter` and its refinement of
`RunContract`, which are within reach (see Plan). `BusyTracksCalls` is proved and has no run of its own.

## Findings

`codex_close` finds `CloseSettlesRuns` violated. `docs/design/api-design.md:574-577`
says that closing a client settles every active Run. In `startRun`
(`providers/codex/src/adapter.ts:438-511`) the continuation of `turn/start`
registers a Run without looking at `closing`. `close()` called between the
response and that continuation has already aborted the Runs it knows, and the
pump has ended: nothing settles the new one. The trace is short: `StartRun`,
`TurnStartSettles`, `Close`, `RunStarts`.

`acp_cancel` finds `CancelLeavesNothingOpen` violated.
`packages/transport-acp/README.md:181-183` says that `cancelSession()` answers
every pending permission of the session before it sends `session/cancel`.
`settleSessionPermissions` (`client.ts:847-859`) forgets a permission before the
transport has accepted its answer. When the write limit refuses the answer, the
call rejects and the connection stays open. The host calls `cancelSession()`
again: nothing is pending any more, `session/cancel` goes out, the call resolves,
and the Agent's request is never answered. A refused answer of `handleRequest`
does not have this effect: there it ends the connection.

Two more disagreements are exceptions that a property names, and no runs of their own.
Neither is needed for the rest of its property, which holds around it.

- `ProcessesOwned` (Pi). `providers/pi/README.md:327-331` says that after a close a
  later one "cannot report success for an unconfirmed child". An opening whose
  transport refuses its options has a process and no peer (`adapter.ts:1513-1534`).
  When `close()` comes while that process is being ended, and it cannot be, line 580
  reports the closed Client in place of the failed cleanup: the opening is
  forgotten (464-467), and `closeOnce` (614-632) resolves.
- `EndsTruthful` (DSH over the SDK Runtime). `providers/dsh/README.md:342-343` says that
  missing terminal reasons are "never success". When the end of a Run's turn is missing
  and the turn of a message queued before it by another client ends within the
  Run, `finishAtIdle` (`adapter.ts:897-923`) has counted one end, and takes it.

## Not modelled

- **The content of messages.** The mapping of events, inputs and usage, `types.ts`
  and `validation.ts` of `transport-acp`, the larger part of every `protocol.ts`:
  pure functions of one message. What the models need of them is the outcome:
  which kind a message is, or that it is invalid. Runtime configuration,
  identifiers, errors and extensions are of the same kind.
- **Connecting.** Handshakes, version probes and the validation of profiles and
  options, except `connectCodex` and the registry's `connect()`; and read-only
  requests: listing and reading Sessions, `native()`, observation listeners.
- **Physical framing.** `JsonRpcTransport` abstracts bytes, the maximum line
  and frame sizes and UTF-8 to "a line that is invalid ends the connection".
- **`register` of the registry and its read-only operations.** They change one
  map synchronously; `connect()` is in `HostRuntime`.
- **A probe that never settles.** The registry has no deadline of its own, so a
  Client that hangs in `descriptor()` or `capabilities()` is released by no one.
  `HandlesReleased` names the exception (`stage \in Probes`) instead of hiding it.
- **Requests of the ACP client that touch no table** (`session/new`, `load`,
  `resume`, `list`, `delete`, extensions). An invalid answer to one ends the
  connection, which `Fail` covers.
- **`suite.ts`, the policy scripts, examples, fixtures.** Tests, single passes over
  files, demonstrations: nothing there is concurrent, retried or kept.
- **What a Provider does with a request for another's work**: OpenCode's abort route
  names a Session, so that an abort that was overtaken may end the next Run.

## Plan

All modules of the plan are there. What would add most next:

1. Proofs: `DshSound` of `DshAdapter`, and its refinement of `RunContract`.
2. The composition of `OpenCodeAdapter` with `HttpSse`, in place of the outcomes of
   requests it has now.
3. The remaining operations of the ACP client, and connecting in the adapters.
