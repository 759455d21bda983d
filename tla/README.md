# DIAG in TLA+

A verification development for `iov-vehicle-tbox-diag`, the diagnostic service
of a telematics box. Paths below are relative to the repository (`src/` is its
implementation, `include/` its headers).

## The system

| Component | State | Operations | Interacts with |
|---|---|---|---|
| `SessionManager` | one session: owner's address, type, ACTIVE/IDLE, time of last sign of life | switch, tester present, S3 check, release, reset | called by dispatcher and service under its own mutex |
| `SecurityAccess` | per level: seed requested, unlocked, attempts, end of lockout | request seed, send key, is unlocked, lock, reset | asks SEC for seeds and verdicts |
| `ServiceDispatcher` | none (its routing table is filled and never read) | 0x10, 0x3E, 0x27, 0x31, 0x22 | calls the two above, PROV and SEC |
| `DiagService` | `initialized_`, the parts it owns, `mutex_` | initialize, process_request, process_pending_requests, set_*, start/stop_ipc_server, shutdown, queries | main loop, in-process callers, IPC threads |
| `DoIpAdapter` | listening socket, `client_fd_`, `connected_`, `remote_address_` | connect with handshake, receive, send, disconnect | one tester at a time over TCP |
| `SecIpcAdapter` | connection to SEC, time of the last connect attempt | seed, key, certificate operations, each reconnecting if needed | SEC process over framework-ipc |
| `RealProvAdapter` | connection to PROV, time of the last connect attempt | write_vin (two writes), read_vin (two reads), each reconnecting if needed | PROV process; `diag_cli` has a connection of its own to the same PROV |
| `DiagIpcDispatcher` + framework server | server, dispatcher, a thread per client | three queries | `DiagService` under its mutex |
| `main` | `g_running` | start, 10 ms loop, stop, shutdown | all of the above |
| `UdsCodec`, `NrcMapper`, error codes | none | decode, encode, tables | service, dispatcher |
| `DiagClient`, `DiagRetryPolicy` | client connection | connect, disconnect, three queries with a retry | the IPC server, from other processes |
| `diag_cli` | a `DiagService` of its own | thirteen commands, each a script of requests | SEC and PROV; not the daemon |
| logging, tracing, `DoCanAdapter`, configuration | – | output; a stub; start-up values | – |

A request travels: tester → `DoIpAdapter::receive` → decode →
`ServiceDispatcher::dispatch` → session, security, PROV or SEC → encode → `send`.
From the S3 check to the response, `DiagService::mutex_` is held.

### What is hard

* **Time and silence.** S3, lockout and reconnect throttle are comparisons of
  time points, made when somebody happens to look.
* **Two records of one thing.** The session and the security access both have
  an "unlocked"; neither is told when the tester's connection goes.
* **One mutex for everything.** The main loop holds it while it waits for a
  connection, a handshake, the rest of a frame, SEC and PROV; queries and
  shutdown wait for it.
* **Threads and shutdown.** IPC handlers run while the server stops and the
  dispatcher is destroyed.
* **Peers that disappear.** Testers hang up inside a frame, SEC and PROV drop
  idle connections, answers are lost after the request was carried out, and a
  call that is made again may be carried out twice.
* **Two processes at one PROV**, each of which reads and writes in two calls.

`PROJECT.json` lists each hazard with its line and the properties about it.

## The modules

```
SessionLease <== SessionManager --+
                                  +-- ServiceDispatcher -- DiagService -- DiagServiceClaims
                 SecurityAccess --+                             |
                                                    UdsCodec -- DiagPrograms

TesterChannel <== DoIpAdapter     DiagIpcServer -- DiagClient     SecIpcAdapter     RealProvAdapter
```

(`<==` implements, `--` is composed into.) Actions have the names of the methods
they model. Names in CamelCase above an action are variants of it with a
plausible fault, which show that the properties notice one. An MC module gives
constants their values; a Proofs module holds the theorems about the module it is
named for.

* **SessionManager** models `session_manager.cpp`. Every method locks for its
  whole body, so each is one action; its effect is also a function of the session
  (`Switched`, `Present`, `S3Checked`, ...). The time point of the last sign of
  life is kept as its distance from now, `silence`, up to one beyond the limit.
  `quiet` is history: how long each tester has not been granted a request.
* **SessionLease** is what the session manager promises: a lease that one tester
  holds, renews, yields, and loses by silence. `SessionManager` implements it with
  the refinement mapping at its end.
* **SecurityAccess** models `security_access.cpp`, all levels, with seed and key
  levels normalised as the code does. `judged` is history (what SEC was asked
  about the last seed); `watch` is a stopwatch that may be started at any refused
  key and counts the refusals until LOCKOUT has passed.
* **ServiceDispatcher** models `service_dispatcher.cpp`: each handler with its
  checks in their order, the one call it makes, and the response code. The
  outcome of a downstream call is chosen by the environment.
* **DiagService** composes them: initialize (also failing half-way),
  `process_request`, the main loop's round in its steps, `set_sec`,
  `set_transport`, `shutdown`. `job` is the request being served and, since the
  mutex is held meanwhile, the mutex. Wire requests carry address 0, as
  `DiagRequest` does after `UdsCodec::decode`. Time passes in every phase of a
  job: between the S3 check and the call to SEC the code may wait for a frame, for
  a reconnect (up to 3 s) and for answers (up to 60 s), and S3 is 5 s. A session
  may thus be overdue when its request is served; `job.found`, a history field, is
  the session as the S3 check of the request left it, and
  `CertificateWorkInSession` compares with that. All waiting is placed before the
  one step that serves the request; the mutex keeps session and levels as they are
  meanwhile, but for their clocks.
* **DiagServiceClaims** states what comments and documents say of the service.
* **UdsCodec** is `uds_codec.cpp` as operators on sequences of bytes: which frames
  decode, into what, and what a response is encoded to; and the parser of
  `diag_cli raw`, which has one of its own.
* **DiagPrograms** puts bytes and scripts around `DiagService`: `tbox-diag`
  decodes frames and encodes answers, `diag_cli` makes each of its commands out of
  requests (`write_vin` of four), and one process after another runs, each with
  memory of its own. `Meaning` reduces a request to what the dispatcher tells
  apart. The requests a process makes are those of its programs only, not every
  request.
* **DoIpAdapter** models `doip_adapter.cpp`: testers dial, send headers and
  payloads and hang up; each `recv` is a step of its own. Bytes are left out; a
  frame's header tells what the code tells apart. A frame that is refused leaves
  its payload in the socket, where it is read as a header.
* **TesterChannel** is what `include/transport_adapter.h` lets the service expect of
  a transport, without sockets and frames: testers are attended to one after
  another; requests are delivered once and in order, each answered to its sender,
  or dropped, before the next. Of a tester that has sent something improper less is
  promised. `DoIpAdapter` implements it: a line per connection, attended to while
  `connected_` is true, and a request pending while the thread answers it.
* **SecIpcAdapter** models `sec_ipc_adapter.cpp` with several threads: the
  unlocked and the locked look at the connection, the comparison with the last
  attempt, the writing of this one, the connect, the one call or the retried one.
  Between comparison and writing only `connect_mutex_` keeps a second thread from
  comparing with the old time. What `ReconnectsApart` keeps apart are the times that
  the threads read: one that is held up after reading the clock connects later, and
  so closer to the next. SEC and the framework's client are what the adapter's
  comments and tests say of them.
* **RealProvAdapter** models `real_prov.cpp` with the dispatcher's look at it, for
  several processes at one PROV. A request is a look at the connection and up to
  two calls; a call may be carried out or not, its answer may come or not, and the
  client may connect and call again. Whether it does so with a *write* is not said
  consistently (`include/real_prov.h:23-26` says no,
  `tests/test_real_prov_reconnect.cpp:6-8` says yes), so `write_retry` is either.
  `reached` and `disturbed` are history.
* **DiagIpcServer** models `main.cpp`'s order of start, loop, stop and shutdown
  against the IPC handlers of `diag_ipc_dispatcher.cpp`, one thread per
  connection.
* **DiagClient** composes `diag_client.cpp` and `diag_retry_policy.cpp` with it:
  callers connect, query and lose their connections, before or in a query; the
  retry takes a new connection while the server may still serve the old one.

## The runs

| Run | Shows | Bounds |
|---|---|---|
| `session` | the session is a lease: exclusive, renewed by its holder alone, ends neither early nor never | testers 0, 1, 2 (0 is the wire's and the free session's address), S3 of 2 |
| `security` | a seed is good for one key; the lockout bounds the rate of keys; lockouts end | levels 0..2 (key and seed of level 1, an odd one out), 3 attempts, lockout 2 |
| `service` | what reaches SEC and PROV passed security and, if it has to, is in the session that its S3 check found; a refusal for SEC's absence costs nothing; nothing survives a shutdown; the session of a silent tester ends | address 0, on the wire and of callers that leave `source_address` at its default; 2 attempts, S3 and lockout 1 |
| `programs` | the bytes mean what the standard says, going in and coming out; the CLI's four-step write passes every check; its certificate commands pass none | addresses 0 and 0x0E80; frames of every service, as short as it takes, shorter and longer; a full VIN and a short key or certificate; 1 attempt |
| `doip` | no use of a closed socket, no service before activation, answers to the asker; the adapter is a channel that delivers once and in order and attends to one tester after another; the next tester gets its turn | 2 connections, 4 frames in all, of any of four kinds |
| `sec_adapter` | threads that find the connection gone together are not let past the throttle together, nor for ever held back; a key is sent once; an idle drop costs no seed | 2 threads, interval 2 |
| `prov` | what a positive answer and a CONDITIONS_NOT_CORRECT of a write say of PROV; VIN and state as read fit together; writes are not refused for ever | 2 processes, 2 VINs (one with a configuration, one without), interval 1 |
| `ipc` | handlers and dispatcher, status of one moment, no deadlock at shutdown; every query returns, and hides the loss of one connection | 3 connections at the server, 1 caller with `DiagClient`, strangers on the others |

The bounds are enough for what the properties distinguish. S3, lockout and
interval count ticks and are compared with one limit only, so one or two ticks
below it, at it and one beyond it are all the cases there are. Two testers are
needed to take a session or a socket from one another, a third adds no new
conflict; two threads race for a reconnect, two processes for PROV.
`MAX_ATTEMPTS` is 3 in `security`, as in the code. A caller with another address
than the wire's makes the liveness graph of `service` too large; `session` has
several testers, and the proofs about the service hold for any of them.
`MaxDials` and `MaxFrames` bound the DoIP environment: a request needs an
activation before it and order needs two requests, which four frames allow with
one left for the other connection or for something improper in between. In `ipc` a
query that is made again needs two connections, and the third is a stranger's.

Four runs find a violation, each of something the repository says:

* `default_keeps_unlock`: a switch to the default session leaves the level
  unlocked (`src/session_manager.cpp:62`).
* `two_testers_one_session`: a tester that connects after another one has left is
  granted requests about the other's session (`README.md:9`).
* `blocked_service`: part of a frame stops the main loop, under the mutex
  (`src/doip_adapter.cpp:217`); `service` checks the same property with
  testers that send what they begin.
* `doip_leak`: a hang-up leaves our end of the connection open
  (`src/doip_adapter.cpp:220`).

Also met while modelling, not runs: `GET_SERVICE_STATUS` reports
`session_.security_unlocked`, which nothing ever sets
(`src/diag_ipc_dispatcher.cpp:147`); `require_security: true` of the programming
session (`config/diag.default.yaml:74-76`) is not read; the sequence of
`README.md:26-29` opens the extended session (0x03), in which the certificate
routines are refused; a diagnostic message of one to four bytes is handed on with
its addresses as data (`src/doip_adapter.cpp:298`).

Of the CLI: `send_key <level>` asks with `level | 0x80` (`src/diag_cli.cpp:229`), so
`send_key 1` asks for a seed, and only an even level sends a key; `raw` takes
every frame for a routine's (`src/diag_cli.cpp:390-395`), so `22 F1 90` reads the
identifier 0 and a key of 0x27 loses its first two bytes; and
`generate_key_pair`, `read_csr` and `inject_cert` run in a process whose session is
the default one, and are always refused (`CertificateCommandsRefused`).

Of the rest: the control type of a routine (start, stop, results) is not looked at;
`suppressPosRspMsgIndicationBit` is masked but the response is sent all the same;
`read_vin` is valid, and answered positively, although its calls failed
(`src/real_prov.cpp:139`); `DiagClientError::TIMEOUT` is never returned; after both
attempts of a query have failed, a `DiagClient` stays not connected until
`connect` is called again.

### Fairness

* `SessionManager`: the main loop checks S3 every 10 ms, time does not stop.
* `DiagService`: the main loop gets the mutex when it is free again and again (the
  loop sleeps between rounds, callers are short); a request being served ends
  (the IPC clients of SEC and PROV have timeouts); time does not stop.
  `TalkingSpec` adds that testers complete the frames they begin; the code does not
  enforce it, and `blocked_service` shows what it is for.
* `SecurityAccess`: time does not stop.
* `DoIpAdapter`: the loop goes on, and testers hang up in the end: there is no
  limit on an idle connection. That the loop goes on is more than the code
  ensures: `WaitingTesterAccepted` takes for granted that a `send` to a peer that
  has reset its connection does not end the process (`::send` without
  `MSG_NOSIGNAL`, `src/doip_adapter.cpp:195`; `src/main.cpp:37-38` does not handle
  SIGPIPE), and that `accept` still gets a descriptor after the hang-ups of
  `doip_leak`.
* `SecIpcAdapter`: threads go on, and SEC is asked for again and again.
* `RealProvAdapter`: a request that is begun goes on (the client's calls have
  timeouts), time does not stop, and a PROV that is asked to write again and again
  does it at some time and its answer arrives: nothing in the code keeps PROV from
  refusing for ever. `WriteGetsThrough` further presupposes that PROV stays up and
  that the process keeps on asking. Connections are dropped for idleness only at rest.
* `DiagClient`: threads of the server and the loop go on, PROV's client answers or
  gives up, waiting threads get the mutex in the loop's sleep; a caller's thread
  goes on, what it sent arrives or its connection breaks, and a stopped server
  closes its connections (which the framework's server does).
* `DiagPrograms`: none; its properties are about single answers.

## The proofs

For all values of the constants that the named assumptions allow (limits are
naturals, addresses are naturals, the wire's address 0 is one of them):

* **SessionManagerProofs.** The inductive invariant strengthens
  `TimerFollowsHolder` with the types of session and history: the comparison with
  S3 is made on `silence`, and only its equality with the holder's own `quiet`
  makes `NoPrematureExpiry` follow. From it: exclusion, no premature expiry, and
  that every step is a step of `SessionLease` or changes nothing it knows.
* **SecurityAccessProofs.** The invariant adds to the lockout and seed properties
  the relation between the stopwatch, the attempt counter and the lockout: a
  running stopwatch that has seen n refusals vouches for an attempt counter of at
  least n or a lockout that outlasts it. `GuessRate` follows, and would not be
  inductive without it.
* **DiagServiceProofs.** Every step of the service is a step, or no step, of the
  session manager's and the security access's specifications, so their invariants
  hold in the composition without a second proof; the service's own properties
  then need only what a pending job records: for `CertificateWorkInSession`, that
  the session is still what the S3 check of the job found (`FoundInv`), and that an
  S3 check leaves no session overdue, since the timer is its holder's silence.
  `UnavailableCostsNothing` goes through the dispatcher: a handler that changes a level sets another response code.
  `ServiceSessionIsLease` carries the session manager's refinement of `SessionLease`
  over, `ServiceGuessRate` the limit on keys.
* **DiagProgramsProofs.** Every step of the processes is a step, or no step, of the
  service's specification (the requests they make are requests of its, since
  `Meaning` of a frame is one), so nothing gets past the lock whatever the bytes.
  Then, for any sequences of bytes: `ServesAsked` says that the job's request is the
  decoded frame's or the command's, from which the answer's first bytes follow.
  `CertificatesOutOfReach` says that a process of the CLI has unlocked nothing when
  it makes its first request, which a certificate command's only one is; and
  `WriteInv`, for each place in the script of `write_vin`, what the requests before
  it have left: the seed, the unlocked level, no failed attempt.
* **DiagClientProofs.** For the server: where the main thread is while a handler
  runs. Every step of callers and connections is a step, or no step, of the
  server's specification, so its theorems hold with any clients. `OneLossIsHidden`
  needs that an attempt that has been used up, and one whose connection is broken,
  are each counted as lost.
* **DoIpAdapterProofs.** For any number of testers, connections and frames. Use
  after close and activation follow from what `connected_` and `client_fd_` say of
  each other. That an answer goes to the asker needs more: in the socket of a
  tester that has sent nothing improper, headers and payloads alternate, and the
  payload that comes next is of the header read last; otherwise the adapter could
  take a payload for a header and answer for the tester before. `RequestsInOrder`
  needs that payloads agree in kind with their headers, and that the requests asked
  and not yet heard are exactly those in the socket: a function gives, for each place
  in the socket, how many requests had been asked before it. That every step is a
  step of `TesterChannel` needs two more: whatever the thread does, it is connected
  (`BusyConnected`), and `client_fd_` is never a connection that still waits
  (`ClientAccepted`). Each action has a lemma of its own that says which of the
  channel's it is: `accept` attends, a refused handshake, a hang-up or a shutdown
  leaves, `receive` delivers only when a whole request, or something improper, has
  come.
* **SecIpcAdapterProofs.** Per thread: what the mutex's owner is doing, how often
  its operation has asked SEC, and what excuses a failure: only a seed is asked for
  again, and a second attempt that finds no connection has an excuse.
  `ReconnectsApart` needs the mutex: only its owner is between comparison and
  writing, so whoever compares finds `last_connect_attempt_` to be the time of the
  last thread that was let past (`ClockInv`).
* **RealProvAdapterProofs.** Per process: while the configuration is being written,
  the VIN is already at PROV unless another process wrote; a request that was
  turned down has not called; a VIN that was seen is still there when the state is
  read, since no write removes one.

Every invariant and every action property that a run expects to hold, and both
refinements up to fairness, are theorems. Only model-checked is liveness
(`LockoutEnds`, `SilentSessionEnds`, `WaitingTesterAccepted`, `Reconnects`,
`WriteGetsThrough`, `ShutdownCompletes`, `QueriesReturn`, and that an overdue lease
is taken back in `ImplementsLease`): ENABLED and fairness are beyond the prover.
What the four runs with a violation show is a counterexample and needs no proof.

The leaves of the proofs are small enough to be found in less than half of the
time that tlapm allows them, so that a slower machine finds them, too.

## Not modelled

* `DiagService::set_prov` after `initialize` (nothing calls it then), and
  `RealProvAdapter::reconnect`, which has no caller.
* `DoIpAdapter::start_server` and the bytes of DoIP frames: sizes of payloads and
  the acknowledgements tell the service nothing.
* `NrcMapper` and the error codes: the dispatcher sets its response codes itself,
  `diag_error_to_nrc` has no caller, and the error `prov_error_to_diag` returns does
  not reach the tester.
* The configuration's contents: its session, security and timing values are not
  applied by the code.
* What a tester does about an answer that never reaches it: a request that is
  repeated is a request like any other, and no property speaks of work done twice.
  SIGPIPE and the limit on descriptors.
* Arguments and output of `diag_cli`; logging and tracing; the DoCAN stub, to which
  nothing is ever connected.

## Plan

Done: all components with logic of their own; theorems about each of them; two
refinements. Left, in this order:

1. What a tester may rely on of the security access, as an abstract specification
   next to `SessionLease`: a lock that only the key for the last seed opens, so
   many tries in so much time, implemented by every level of `SecurityAccess`.
2. That a request laid out as the CLI does decodes to itself, for every request
   whose fields its service has.
