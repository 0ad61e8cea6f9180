# A TLA+ model of rust_mux

rust_mux lets many MCP clients share one STDIO server process. A daemon accepts
clients on a Unix socket, rewrites the ids of their JSON-RPC requests, forwards
them to one child process, routes the answers back, and replaces the child when
it fails. Around it are proxies for the hosts, a status file and a tray, and
tools that write the configuration of hosts and daemon. This directory holds a
model of them, the TLC runs that check it on small instances, and TLAPS proofs
of the safety properties for every instance. Paths below are relative to the
repository root (`src/runtime.rs` is `src/src/runtime.rs` in `PROJECT.json`,
where the root itself is `src/`).

## 1. Inventory

| Component | State | Operations | What makes it correct |
|---|---|---|---|
| Shared state (`state.rs`, `MuxState`) | clients, pending requests, id counters, cached initialize, status, restarts, pid, queue depth; one tokio `Mutex` | `register_client`, `unregister_client`, `next_request_id`, `reset_state`, `publish_status` | ids name one request; nothing refers to a client that left |
| Client handler (`handle_client`, `handle_client_message`) | per connection: a permit, a reader task, a writer task, an unbounded channel | accept, permit, register, each kind of message, blocking send, disconnect, decode error, write error | limits hold under contention; each request is answered once |
| Server router (`handle_server_events`, `handle_server_message`, `reset_state`) | the event it is handling, between three critical sections | route, deliver, cache and fan out, reset | an answer reaches its request; the cache is not stale for good |
| Timeout reaper (`reap_timeouts`) | the entries it took out, between two critical sections | expire, send errors | no answer lost or doubled against the router |
| Server manager and child (`server_manager`) | the child, its reader and wait tasks, the message in hand, the restart count, the backoff | lazy start, launch, write, notice exit, clean up, back off, give up | requests of a dead child are answered; order and no replay; limits on restarts; one child |
| Daemon (`run_mux`) | the socket file, the cancellation token, the tasks | bind, accept, shut down | socket file and child are gone afterwards |
| Status publishing (`publish_status`, `spawn_status_writer`, `write_status_file`) | a watch channel, a status file | publish, write and rename | the last status written is the last state |
| STDIO proxy (`run_proxy`, `bin/rust_mux_proxy.rs`) | two byte streams | copy both ways until one ends | no answer lost when one side ends |
| Tray (`tray.rs`) | a channel of one snapshot | send latest, draw | shows the latest status |
| Configuration (`config.rs`, `main.rs`) | none (pure) | load, resolve | the documented precedence |
| Host scan and rewire (`scan.rs`) | host files and backups | discover, generate, rewire, status | a backup of the original survives; rewiring twice is harmless |
| Wizard (`wizard.rs`) | a form | keys, save | what is saved is what is shown, and nothing else is lost |
| Command line (`main.rs`), health check | none | dispatch | - |

How they interact. Handlers, router, reaper and manager are tokio tasks that
share `MuxState` behind one mutex. Handlers send messages to the manager over a
bounded channel (`MAX_QUEUE`). The reader task of each child and the manager
send events to the router over an unbounded channel. Router, reaper, reset and
handlers put answers into the unbounded channel of each client, whose writer
task drains it. The cancellation token ends the loops.

What is hard: critical sections are short and many, so a request passes through
the hands of several tasks with the mutex released between them; the event
channel carries the responses of a dead child before, and sometimes after, the
`Reset` that announces its death; a handler that waits for the queue neither
reads nor notices that its peer left; a child may die at any point; aborting a
task only asks it to stop. The `hazards` in `PROJECT.json` list these line by
line.

## 2. Modules

```
RequestLedger      what the daemon promises about a request, abstractly
MuxState           the shared state and its operators          (state.rs)
  ClientHandler    reader and writer task of each connection   (runtime.rs)
  ServerRouter     router and reaper                           (runtime.rs)
  ServerManager    manager, reader task, the child (external)  (runtime.rs)
    Mux            composition, fairness, properties, and the
                   refinement mapping to RequestLedger         (run_mux)
      MCMux        instances for TLC
      MuxProofs -> LimitProofs -> OrderProofs -> FateProofs -> LedgerProofs

StatusFeed         publishing, status file, tray      (state.rs, runtime.rs, tray.rs)
  MCStatus, StatusProofs

SocketFile         daemons on one socket path                  (run_mux)
  Endpoints        proxies, health check, connections          (rust_mux_proxy.rs, runtime.rs)
    MCEndpoints, SocketProofs

ConfigFiles        files, and how a tool overwrites one        (scan.rs, wizard.rs)
  HostConfig       hosts, scan, rewire                         (scan.rs)
    ConfigResolve  load_config, resolve_params                 (config.rs)
      Wizard       the editor and what it saves                (wizard.rs)
        ConfigTools  all of them on the same files
          MCTools, ToolsProofs
```

In the first group, the three task modules extend `MuxState`, so they share its
variables, and add the variables of their own task; `Mux` extends them and says,
for each step of one task, that the others' own variables stay. The other groups
are layers: each module adds variables and steps to the one above it. Each
module starts with the meaning of its control states. `PROJECT.json` maps every
definition to its lines.

The groups meet where one needs something of another. `Endpoints` has the
daemon's side of a connection reduced to what a proxy can tell of it, with the
handler's ends of `ClientHandler` and the answers that `EveryRequestAnswered`
promises. `StatusFeed` has the critical sections of `Mux` reduced to the fact
that they change the state and then publish it, or do not. `ConfigResolve` is
between the tools that write a configuration and the daemon that starts with it.

### The daemon

What is an action. A section of code between `lock()` and the drop of the guard
is one step, since no other task sees the state inside it. Code between two
such sections is attached to one of them when nothing else can observe the
difference. In particular:

- The router handles a response in three steps (`RouteResponse`,
  `DeliverResponse`, `CacheInitialize`) and carries the entry it removed in
  `held` between them. The reaper needs two and carries `expired`.
- A handler that forwards a request inserts it into `pending` in one step and
  queues it in another (`EnqueueOutgoing`), between which it is in `outgoing`.
- The manager takes a message from the queue, holds it (`in_hand`), and writes
  it in another step, which may fail; cleaning up after a child is `Cleanup`
  (abort, send the `Reset`) and then `Clear` (the critical section).
- `writer_handle.abort()` and the release of the permit are `FinishClose`.

What is abstracted:

- A message is the record of what routing looks at: sequence number, client,
  local id, whether it is an initialize. The n-th request of a client has local
  id n. A global id `c<client>:<seq>` is the pair of the two. A notification
  has sequence number 0.
- A connection and its `client_id` are one thing, because ids are never reused.
- The content of an answer is left out; `replies` counts the answers put into a
  client's channel for each local id while the client is registered.
- `cached_initialize` is the child that gave the cached answer.
- `init_waiting` is a set: the order of fan-out is not visible to two clients.
- Time: the reaper may find expired any prefix of the requests in the order of
  their ids (`started_at` is taken under the lock that numbers them), and a
  backoff ends when it ends. Nothing in the model rests on a duration.
- `publish_status`, `update_queue_depth`, `queue_depth` and `last_reset`: they
  change nothing the tasks read, and `StatusFeed` has the publishing. That
  `publish_status` takes the mutex matters here in one place, the restart limit,
  and is modelled there (`GiveUp`).
- Broadcasts of the child's notifications: they change no modelled state. That
  a client's writer can fail at any time covers their effect on the writer.
- `MainExit` ends all tasks at once: `run_mux` returns without waiting for
  them and the runtime drops them where they are.
- Launching a child and reporting it are one step. The last look at the shutdown
  token is another (`PassCheck`, `runtime.rs:580`), so that a child may be
  launched by a daemon that is already shutting down.

The faults an instance explores are the members of `Env`, and the kinds of
message its clients send are those of `Kinds`. Crashes of the child, timeouts
and disconnects are always possible.

Branches of the code that no step can take are kept as the code has them when
they read state (`Wait`: nothing sets `initializing`) and left out when they
are dead by construction: the manager holds a sender of its own channel, so
`recv()` never returns `None` and `should_restart` is never false.

### Requests, abstractly

`RequestLedger` has no queue, table, event, child or lock: a client joins and
leaves once, its n-th request is answered at most once and only while it is
there, and children execute its requests in the order it sent them, each at most
once. It also shows what is not promised. A request may be executed after it was
answered with the error of a reset or the timeout, since neither drains the
queue; a `Reset` that comes late answers requests that the next child is working
on; and a request that was answered may never be executed. The mapping in `Mux`
is a client's place in `conn` and `clients` (`Standing`), `sent`, `replies`, and
the requests in the children's reading (`Executed`).

### Status feed

Snapshots differ only in age: `current` numbers the states that the mutex has
protected, and a snapshot is the number of the state it was taken of. A
publisher takes its snapshot in one step and sends it in another, so snapshots
overtake each other. The status file is replaced in the code's three stages
(open, written, renamed), each of which may fail; `Torn` is a temporary file that
was opened and not completed. When the process ends, at a crash or when `run_mux`
returns, only the two files are left, and the next life of the daemon finds them.
`ChangeSilently` is a critical section after which nothing is published
(`update_queue_depth`). `GiveUp` is the restart limit: the manager keeps the mutex
while it waits to publish (`held`), and from then on no state changes, no snapshot
is taken and no tick publishes; what was taken before is still sent, written and
shown. `WriterTakes` is the `borrow` after `changed()` and the opening of the
temporary file in one step: a value that comes between them is announced as new.

No other critical section of the code has an await inside it, and the mutex's own
queue is FIFO, so that a task that waits for it gets it unless `held`. On that
rests the fairness of `Tick` and `TakeSnapshot`, which have `~held` as a guard.

### Socket file and proxies

`SocketFile` has remove, bind, and remove on the way out as separate steps of any
number of daemons, which may be killed between any two. The results of both
removals are ignored by the code (`runtime.rs:64, 203`); here they succeed, as they
do in a directory in which the daemon can bind. `overlapped` records
whether two have run at a time, since nothing in the code keeps them from it.
In `Endpoints` the lines a host writes are numbered, and `Bad` is one that does
not decode. `rust-mux proxy` (`Framed`) and the `rust-mux-proxy` binary
(`Bytes`) are modelled apart, because they treat the end of each direction
differently. The daemon's end of a connection is in the backlog until accepted,
then served, and then closed, reset, or "deaf": its reader returned on an error
and left the writer behind (`handle_client`'s `?`).

### Configuration and tools

Every file operation is a step: the backup is created and then filled, the file
is truncated (`Empty`) and then written, and a tool may stop between any two, for
it is killed or one of them fails. Writing is in place. If another tool wrote to
the file since it was truncated, the new text replaces the old one or is followed
by the end of it (`Over`); `Mixed` is such a mixture, which is taken for a text
that does not parse. The host replaces its own file in one step.

The contents of a file are what the tools tell apart in it: the host's services
with their command, socket and environment, the rest of the host's document as
the number of its last edit, and a mux configuration's services with the values
of the keys that the tools set. A truncated TOML file is a document without keys;
a truncated JSON file is an error. What stands in the files at first is a
constant: `HostTables` and `MuxTables` are any sets of services that `HostWritten`
and `HandMade` allow, among them an empty command or socket, no command at all, a
socket with `~/`, a limit of no clients, a level that is none, and entries that
lack any of their keys (`Absent`), for which `Resolved` and the wizard's `Shown`
have the fallback of each key.

A socket is expanded where the code does it (`Expanded`, with HOME set):
`resolve_params` does, for a socket from a file, and `ProxyEntry` does not.
`Starts` is what `main` requires of a configuration before it runs: a service
with a command and a socket, and a log level that parses.

In the wizard the cursor is left out: a key that depends on it comes with a choice
of the field. Text is a member of a small set with one value that is invalid for
each kind of check in `try_save`, and one for the level, which it does not check.
What is typed and invalid ("blank", "0") is told apart from what came from a file
("void", "zero"). A value preset on the command line is typed. The wizard may be
started on, and save to, a file with an extension that the tools do not know
("alt").

### Mutants

Next to some definitions stands a variant of it with a suffix
(`ResetState_KeepsCache`): a bug that the code could plausibly have. No
specification uses them. Each is the reason to believe that one property of one
run says something: with it in place of the original, TLC reports that property
violated.

## 3. Properties and runs

| Run | Instance | Properties |
|---|---|---|
| `routing` | 2 clients, 1 message each (request or initialize), 2 children, 2 unread events, failing writes and waits | `TypeOK`, `DemuxCorrect`, `DeadChildSilent`, `CacheFromLiveChild`, `OneFate`, `ImplementsLedger` |
| `restarts` | 1 client, 3 requests, lazy start, restart limit 2, 3 children, failing writes, shutdown | `PidIsCurrent`, `OrderedAtMostOnce`, `NoneStranded` |
| `limits` | 2 clients, 1 permit, queue of 1, 1 pending, every kind but initialize, failing spawn, failing writes to a client, decode errors, shutdown | `TablesBounded`, `RegisteredHoldPermit`, `CleanClose` |
| `liveness` | 1 client, 2 requests, 2 children, queue of 1, failing writes on both sides, failing spawn | `EveryRequestAnswered`, `CrashAnswered`, `SenderGetsOn` |
| `status` | 1 task and the reaper, 3 states, 2 lives, 1 failed file operation, tray, crash, shutdown, restart limit | `TypeOK`, `NoLostUpdate`, `JoinWakes`, `FileReplacedWhole`, `FileCatchesUp`, `TrayCatchesUp`, `ShutdownEnds` |
| `endpoints` | 2 daemons on a path, 1 process that connects (either proxy or a health check), 2 lines | `TypeOK`, `NoOrphanFile`, `Reachable`, `StaleFileHarmless`, `EachOnce`, `NoLineLost`, `LeavesNothing`, `Answered`, `AnswersFlushed`, `ProxyEnds`, `FramedReturns`, `ConnectionEnds` |
| `tools` | 2 service names, a host with one service of 4 kinds, no mux file or one of 2 with two services, 2 runs of tools, 1 edit, JSON and TOML | `TypeOK`, `SettingsSurvive`, `SocketsAgree`, `SavedFormRuns`, `UsableServices`, `SaveChangesOneService` |

Requests and clients:

- `DemuxCorrect`: the entry the router removes by id is the one the child
  answered. The properties of ids this needs are proved, not only checked.
- `DeadChildSilent`: a pending request that a child has read is of the child
  being served, or of one whose `Reset` is queued. So a crash leaves no request
  hanging, although the router may be many events behind.
- `CacheFromLiveChild`: the same for the cached initialize. The router can
  write a dead child's answer into the cache after the manager cleared it; the
  property says that a `Reset`, which clears it again, is then still queued.
- `OneFate`: for each request of a registered client, the answers sent and the
  debts of the tasks (pending, expired, held, waiting) sum to one.
- `ImplementsLedger`: every behaviour of the daemon is one of `RequestLedger`.
  It says more than `OneFate`: which answers may be given together, and that
  nothing is answered to a client before it joined or after it left.
- `OrderedAtMostOnce`: whatever crashes, children are written each client's
  requests in the order they were sent, and each at most once. Whatever is written
  to a child, and whatever leaves the manager's hand, is newer than all that any
  child was written; the second half is what sees the same message written to the
  same child again, which the set `written` would not show.
- `NoneStranded`: a pending request is on its way to a child or read by one that
  is accounted for, or a `Reset` that answers it is coming. What is left to the
  timeout alone is what was pending when the manager returned, and one message:
  that of a lazy start, whose failed write is only logged (`runtime.rs:657`).
- `PidIsCurrent`: the reported pid is of the last child, and is gone when the
  manager gave up or returned.
- `TablesBounded`, `RegisteredHoldPermit`, `CleanClose`: limits under
  contention, and nothing left of a connection once its handler returned, also
  when its writer failed and forgot the client first.
- `EveryRequestAnswered`: with a running clock every request is answered unless
  its client leaves. `CrashAnswered`: what a dead child had read is answered
  even if the clock stands still. `SenderGetsOn`: a handler blocked on the full
  queue gets on.

Status:

- `FileReplacedWhole`: once a daemon has replaced the status file, readers find a
  complete snapshot of that daemon, whatever failed or crashed on the way and
  whatever an earlier life left in the temporary file.
- `FileCatchesUp`, `TrayCatchesUp`: a state that lasts reaches the file and the
  tray's menu, although snapshots overtake each other, a change may go
  unpublished, and `send_latest` drops the newer snapshot when the channel is
  full. Only the reaper's ticks bring this about. Excepted is the daemon whose
  manager keeps the mutex at the restart limit: `Failed` reaches neither (section
  4).
- `NoLostUpdate`: until a write fails, a status writer at rest has the channel's
  value in the file and a busy one has it in hand, or the watch channel still
  announces a newer one. A change that is not in the file for long was lost between
  the mutex and the channel (section 4), never between the channel and the file.
- `JoinWakes`: where `run_mux` joins the tray's thread, the snapshot or the signal
  it waits for is there, or a task has yet to send it.
- `ShutdownEnds`: `run_mux` joins the tray's thread, which may be waiting for its
  first snapshot or for a signal; whenever shutdown comes, the process ends, even
  with the mutex kept for good.

Socket and proxies:

- `NoOrphanFile`, `Reachable`, `StaleFileHarmless`: a daemon that ended on its own
  leaves no socket file; one that listens can be reached, as long as daemons on
  the path follow each other; and one that was killed does not keep the next from
  starting. Two that overlap do remove each other's file.
- `EachOnce`: a host's lines reach the daemon in order and each at most once, and
  the host gets at most one answer for each, whatever the proxy and however the
  answers overtake each other. `NoLineLost`: while proxy and connection are there,
  every line is somewhere between the host and its answer.
- `LeavesNothing`: a byte proxy whose host closed stdin leaves with every answer
  delivered, while the framed one may leave some unread.
- `Answered`: a request written to a proxy is answered on its stdout while the
  host keeps stdin open, sends only messages, and the daemon stays.
- `AnswersFlushed`: a host that closed stdin still gets, through the byte proxy,
  what the daemon had written.
- `ProxyEnds`, `FramedReturns`: a proxy ends after its host closed stdin, and the
  framed proxy lets go of a connection that the daemon closed.
- `ConnectionEnds`: the daemon keeps no connection of a proxy that is gone, unless
  that one left answers unread: the reset makes the mux's reader fail, and the
  client stays registered until something is written to it.

Configuration:

- `SettingsSurvive`, wherever a rewire stops, says two things. Through any number
  of rewires, the settings that the host wrote while none ran, the names of its
  services and their environments are in its file or the backup. Through one, and
  until the next one copies the file, all that it found there is, commands,
  arguments and sockets too, and what the host wrote since. It does not say that
  commands, arguments and sockets outlive a second rewire, which they do not; nor
  that an edit between the end of the copy and the truncation is kept; nor
  anything of a TOML file once a rewire stopped (section 4).
- `SocketsAgree`: after a scan and one rewire, in any order, daemon and host name
  the same socket, unless it begins with `~/`.
- `SavedFormRuns`: with a saved form a daemon starts exactly if the file has a known
  extension and the level is one, neither of which the wizard checks; and it then
  runs with what the form showed, its socket expanded, but for the flags that
  override it. `ConfigResolve`'s operators are checked against this over all of
  `Cli`, with other services in the file that lack any key.
- `UsableServices`: nothing that is typed into a form makes a service without name,
  command, socket or permits, and the service of a saved form has none of these
  faults. Any other that has one got it from the host or from someone's editor:
  `scan` copies an empty command or socket, and the wizard writes back what it
  loaded.
- `SaveChangesOneService`: a save changes one service of the file the wizard was
  started on, provided that no scan ran at the same time.

Bounds. Two clients are enough for one to take the other's slot, entry or
answer; two children for a late event of the first to meet the second, three
for a message to be carried past two; two unread events for a response behind
a `Reset` and before it. One client with several requests has them in flight at
different places. `MaxEvents` pauses the reader tasks, never the manager's
`Reset`. `MaxSpawns` bounds children: the last one neither crashes nor has its
pipe broken, so the bound leaves no run without a child and no property holds or
fails because of it. The ledger is checked with two clients that send one request
each; several requests of one client are `OrderedAtMostOnce`, which with the
proofs gives the ledger for any number.

`status`: two publishers are needed for one snapshot to overtake another, three
states for a third to be left in a channel behind them, two lives for a daemon to
find what another left, and one failed operation for a temporary file to stay
torn while the daemon goes on; the restart limit may come in either life
(532 000 states). `endpoints`: `Hosts` allows one process to
connect; hosts do not see each other but through the daemon, which is the matter
of `Mux`. Two lines let one be answered while the other is on its way, and let a
line that does not decode stand before or behind a request. Two daemons give
succession, overlap, and removal of the other's file. `tools`: two runs let any
two tools, or one twice, meet at every pair of file operations (1.5 million states).
The entries of the initial files are chosen so that each value that the properties
except occurs; the theorems, which bound neither runs nor edits nor the files,
cover the rest. A third tool at the same time, or a second service of the host, is
only in them.

Runs stop when all clients are done, the daemon has exited, or the bounds are
used up, so deadlock is not checked. The `routing` and `limits` runs use the
symmetry of the clients, in which all their properties are symmetric; the
liveness runs use none.

Fairness. Each task is a tokio task that is polled again once it can go on:
weak fairness of the router, the manager, the readers, the reaper's second half
and the handlers' steps. The semaphore and the channel serve waiters in FIFO
order, hence strong fairness of `AcquirePermit` and `EnqueueOutgoing`, whose
slot another task can take first. Fairness of the manager includes
`WriteMessage`, which assumes that a live child reads its stdin: a child that
does not blocks the manager in `writer.send()`, and with it every sender, and
neither its exit nor shutdown is noticed until the write fails. `UntimedSpec`
has no fairness of the clock; `EveryRequestAnswered` assumes it
(`ReaperFairness`). Nothing is assumed of clients, nor that a child answers.

In `StatusFeed` each task and the tray's thread runs on and the reaper's ticker
ticks, except while the mutex is kept at the restart limit; that limit, changes of
the state, Ctrl+C, "Quit mux", crashes and failed writes are free to happen or not. In `Endpoints` proxies and the tasks of a connection run
on, a daemon stays neither in its start nor in its shutdown, and what it read is
answered, which is `EveryRequestAnswered` of `Mux`; hosts need neither write nor
close, and no daemon has to start, stop or be killed. `ConfigTools` has no
liveness property and no fairness.

## 4. Where the code does not do what the documentation says

Each of the first five is a run that expects the violation.

- `initialize_once`: README.md:8, "`initialize` is executed once". Nothing sets
  `initializing`, so all clients that ask before the first answer are forwarded.
- `one_child`: README.md:6, "One child process per service". A child is never
  killed: `child_wait.abort()` drops a `Child` without `kill_on_drop`. After a
  failed write, and after the exit of the daemon (README.md:12, 187), the old
  process may live on.
- `restart_limit`: main.rs:76, "Maximum restarts before marking server failed".
  A limit of n allows n children, so n - 1 restarts.
- `wedge`: at the restart limit, `publish_status` is awaited with the guard of
  the same mutex held (`runtime.rs:592-597`). The mutex is never released, no
  request is answered or timed out any more (README.md:185), and the status
  `Failed` reaches neither the status file nor the tray (README.md:164).
- `read_failure`: README.md:186, "If the child exits or write/read fails, the
  mux restarts it". When the reader ends while the child lives, nothing happens.

The following were met while modelling. The models do what the code does, and the
properties are stated so far as they hold of it.

- tray.rs:29 and 33, "Keep only the latest snapshot": `send_latest` keeps the
  older one and drops the new one when the channel is full.
- README.md:164, "The file is updated on every state change": changes can be
  overtaken or go unpublished until the next tick (`update_queue_depth` changes the
  state and does not publish it), and it measures the queue before it takes the
  mutex.
- README.md:109, "CLI flags still override config": `--max-active-clients` and
  `--log-level` do not, because clap gives them a value in any case
  (config.rs:131, 143). A limit of zero clients is accepted, and nobody served.
- README.md:129, "`s` save": it is Ctrl+S, and a successful save leaves the editor
  at once. A validation error leaves through `?`: the form is lost and the
  terminal stays in raw mode. An extension the tools do not know is written as
  TOML and read as JSON, so that no daemon starts with it; nor does one with a log
  level that is none, which the wizard does not check (main.rs:153). The keys that the form does not show become the
  defaults. The file is loaded twice, and an error of the second time is taken
  for no file, so that a save then drops every other service.
- README.md:34 and 145 name `rust_mux_proxy`; the binary and the default of
  `--proxy-cmd` are `rust-mux-proxy` (Cargo.toml:16, scan.rs:45).
- README.md:118, `restart_backoff_ms` "capped by `restart_backoff_max_ms`": the
  first backoff is not (runtime.rs:729).
- rust_mux_proxy.rs:12 has a socket with `~/` for an example, and expands none, nor
  does `rust-mux proxy`. A shell does it for them; a host that starts the entry
  `rewire` wrote need not, while the daemon does it for the same socket in the
  manifest (config.rs:110), so that the two do not meet.
- A second rewire overwrites the backup with the file that the first one wrote: the
  commands, arguments, sockets and any other key of the services are then in
  neither (scan.rs:297-316, 399-404). It also points a service with a socket of
  its own at the default one, since the entry that the first wrote has no `socket`
  key; and a scan after a rewire takes the proxy for the server.
- `scan` refuses a service without a command and copies an empty command or socket,
  with which no daemon serves (scan.rs:221-253). The wizard checks the service of
  its form and writes the others back as they are.
- Two tools that write one file at the same time may leave the shorter text with the
  end of the longer one behind it.
- A TOML host file truncated by a rewire that was stopped is a valid empty
  document: the next rewire makes it the backup, and the settings are gone. A
  JSON file makes that rewire fail, and the backup stays.
- One service without a command fails the scan of the whole host file.
- `with_extension` gives two files whose names differ in the extension only one
  backup or temporary file: `mcp.json` and `mcp.toml` share `mcp.bak`, and two
  status files share their `.tmp`.
- The framed proxy leaves with the first direction that ends. If answers are
  unread then, the mux sees a reset and leaves the client registered.

## 5. Proofs

Everything below is proved for all values of the constants that the named
assumptions allow: `ConstantsAssumption` (`Mux`), `FeedAssumption`,
`SocketAssumption` and `EndpointsAssumption`, `FilesAssumption` and
`ToolsAssumption`. TLC evaluates each of them in the runs of its modules.

| Module | Theorem | Says |
|---|---|---|
| `MuxProofs` | `TypeCorrect` | `Spec => []TypeOK` |
| | `ResponsesReachTheirRequest` | `Spec => []DemuxCorrect` |
| | `NoRequestHangsOnDeadChild` | `Spec => []DeadChildSilent` |
| | `CacheIsOfLiveChild` | `Spec => []CacheFromLiveChild` |
| `LimitProofs` | `ClosedLeaveNothing` | `Spec => []CleanClose` |
| | `RegisteredClientsHoldPermits` | `Spec => []RegisteredHoldPermit` |
| | `TablesStayBounded` | `Spec => []TablesBounded` |
| | `ReportedPidIsCurrent` | `Spec => []PidIsCurrent` |
| `OrderProofs` | `ReadInOrder` | `Spec => OrderedAtMostOnce` |
| | `NoRequestForgotten` | `Spec => []NoneStranded` |
| `FateProofs` | `EveryRequestHasOneFate` | `Spec => []OneFate` |
| `LedgerProofs` | `MuxImplementsLedger` | `Spec => ImplementsLedger` |
| | `AnsweredAtMostOnce` | `Spec => []AnsweredOnce` |
| `StatusProofs` | `FeedTypeCorrect` | `Spec => []TypeOK` |
| | `FilesReplacedWhole` | `Spec => FileReplacedWhole` |
| | `UpdatesReachWriter` | `Spec => []NoLostUpdate` |
| | `TrayCanEnd` | `Spec => []JoinWakes` |
| `SocketProofs` | `FilesHaveOwners` | `SocketSpec => []NoOrphanFile` |
| | `ListenersReachable` | `SocketSpec => []Reachable` |
| | `LeftoverFileHarmless` | `SocketSpec => []StaleFileHarmless` |
| | `EndpointsKeepsSocket` | `Spec => SocketSpec`, of `Endpoints` |
| | `EndpointsTypeCorrect` | `Spec => []TypeOK` |
| | `LinesInOrderOnce` | `Spec => []EachOnce` |
| | `LinesKept` | `Spec => []NoLineLost` |
| | `ByteProxyLeavesNothing` | `Spec => LeavesNothing` |
| `ToolsProofs` | `RewireKeepsSettings` | `Spec => []SettingsSurvive` |
| | `ToolsWriteUsable` | `Spec => []UsableServices` |
| | `SaveKeepsOthers` | `Spec => SaveChangesOneService` |
| | `SavedFormsRun` | `Spec => []SavedFormRuns` |
| | `ScanAndRewireAgree` | `Spec => []SocketsAgree` |
| | `ToolsTyped` | `Spec => []TypeOK` |

### The daemon

`TypeOK` is inductive as it stands, with the conjunct that the manager has a
child while it serves one. Demultiplexing, dead children and the cache follow
from one inductive invariant, `TypeOK /\ IdsUnique /\ RoutingInv`:

- `IdsUnique`. `Travelling` is the set of all messages that can still be
  matched: pending, blocked in a handler, queued, in the manager's hand, read by
  a child, or in a response. Every sequence number in it is below the counter,
  and names one message. A step either carries messages on (`Carried`) or adds
  the one entry it numbered (`Issued`), and `KeepsIds` shows once that both keep
  the invariant; there is then one lemma per task that says which it does.
- `RoutingInv` adds to the three properties that the router only holds answers
  of a child that is accounted for, and that a response is for a message its
  child has read. The crux is `RouteResponse`: the id finds the very request
  (`MatchIsSelf`), so if it is still pending, `DeadChildSilent` accounts for its
  child, and the `Reset` that does so is behind the response and not consumed by
  it. Without the last two conjuncts `CacheFromLiveChild` is not inductive: the
  router could be about to cache the answer of a child nobody remembers.
- `ManagerAccounts` is the manager's half: it lets go of a child only by
  sending its `Reset`.

`LimitProofs` has one invariant for each property. `HandlerInv` extends
`CleanClose` from the closed connection back to the moment its reader left the
loop, since what the departure leaves must stay away until the handler returns.
`PermitsBounded` counts the connections past the semaphore, with the library's
theorems on cardinality. `TablesInv` needs that the check of `Overloaded` and the
insertion are one step. `PidInv` relates the reported pid to the manager's child.

`OrderInv` (`OrderProofs`) says that along the way of a message, from the hands
of its handler (`Blocked`) through the queue and the manager's hand to a child
(`Read`), any two requests of one client are in the order of their local ids. No
step puts a message back, so dropping one anywhere keeps it; and what leaves the
hand, written or not, is newer than what was read.

`NoneStranded` needs to know who can have a message at all (`WayInv`): a handler
one at most, the manager only before and while it writes to a child, and, with no
child yet, only that of a lazy start. A step then either carries every pending
message on, or leaves an excuse that stays until the router used it
(`ExcuseStays`). The exception for the first message of a lazy start is what is
left over when the step of a failed write is gone through: `Cleanup` follows every
other one.

`OneFate` counts, and a count of debts is not inductive by itself. `FateInv` says
instead that debts are disjoint (`Debts`: no two of pending, expired, held and
waiting owe the same request) and that what a registered client was given is
determined by what is owed (`Settled`: one answer for a request sent and no longer
due, none for any other). The count follows from it at the end.

`LedgerProofs` shows that each step maps to one of `RequestLedger`, or to a
stutter (`Mapped`). Steps that answer (`AnsweringMaps`) take what they answer from
`Owed`, so by `Settled` those requests are open; the write to a child (`WriteMaps`)
executes a request later than all that were executed, by `OrderInv`. The rest
leave the mapped variables alone or are `Join`, `Leave`, `Ask` or `AskAndAnswer`.
`AnsweredOnce` is then a consequence of the ledger's steps alone: no request is
answered twice or before it was sent, those of clients that left included, which
`OneFate` does not count.

### Around the daemon

- `StatusProofs`: the action property `FileReplacedWhole` needs that every
  snapshot on its way in a life, with a publisher, in the channel or in the
  writer's hands, is of that life, and that the temporary file about to be
  renamed is the one just completed (`FeedInv`). `NoLostUpdate` and `JoinWakes`
  are inductive together with what `WakeInv` adds: between two lives the
  forwarding task and the tray's thread are back at their start.
- `SocketProofs`: if no two daemons overlapped, at most one runs, the path is
  empty when it binds, and is its own while it listens (`Alone`).
  - `EachOnce` is about five places of a line; `Flow` states it for any contents of
    them, with the bound that no line is newer than the last one written, without
    which the host could write one again. One lemma for each way to move a line
    shows that `Flow` stays; the steps of proxies and connections are instances.
  - `LeavesNothing` rests on what the byte proxy's copies that ended say of the
    connection (`StageInv`): the copy from the socket ends only at an end of file,
    behind which no answer is left.
  - `NoLineLost` adds that what does not decode is in a stream only if the host
    wrote it (`WholeInv`), so that no line is thrown away with such a one.
- `ToolsProofs` has one invariant for each property. `Shapes`, below them all, says
  what kind of text can be where; `FileOperation` and `Written` say once what a
  write in place can leave, a mixture included.
  - `HostInv`: the backup is complete before the file is truncated, the file is a
    host's text unless a rewire is writing it or a stopped one left it so, a text
    about to be written keeps the settings, names and environments that were read,
    and `found` is in the file until the copy of it is in the backup.
  - `SoundInv`: no text in a file, read by the wizard, or about to be written has
    what only a form can be given, and a form on its way to a file has been
    validated. `UsableServices` follows from it with `FormInv`.
  - `SaveInv`: while no scan runs, what the wizard read is in the mux file until
    its own write truncates it, and what it is about to write has the other
    services as they were. An error of the second read is what makes the part
    about the first step necessary: it cannot happen unless a scan writes.
  - `FormInv`: a mux file last written by the wizard has the entry of its form, or
    is truncated or mixed, and the text on its way has it; the rest is
    `ResolvesForm`, a lemma about `Resolved` without any state.
  - `AgreeInv`, for the services the host had at first: before the first rewire
    every service has the socket of that table everywhere; the write of the rewire
    makes mux file and host agree (`RewireMakesAgree`); and until the next one only
    services that are new have a server in the host's file. They agree as texts;
    a socket without `~/` is its own expansion.
  - `TypedInv`: `TypeOK` with types for the wizard's form, for what it read when it
    started, and for whose text is of which kind. `rewired` stays below the bound
    because a rewire that is under way counts already.

### Only model-checked

Liveness, which is out of the prover's reach: `EveryRequestAnswered`,
`CrashAnswered`, `SenderGetsOn`; `FileCatchesUp`, `TrayCatchesUp`, `ShutdownEnds`;
`Answered`, `AnswersFlushed`, `ProxyEnds`, `FramedReturns`, `ConnectionEnds`. Every
invariant and every action property that a passing run checks is also proved.

## 6. Not modelled

- The values of `queue_depth` and `last_reset`: nothing reads them but the
  snapshot.
- The broadcast of a child's notifications: it reads `clients` and changes no
  state but the clients' channels.
- A host that stops reading its proxy's stdout: it blocks the proxy, and only it.
- Discovery of the hosts' files, the snippet files of `scan` (nothing reads them
  again), dry runs of `scan` and `rewire` and the report of `status`.
- The tray's icon and the text of its menu; drawing and the cursor of the wizard.
- Parsers and printers of JSON, YAML, TOML and JSON-RPC, which are libraries':
  their part here is whether a text parses, and what a truncated one is; a mixture of
  two texts that happens to parse is left out. The expansion of `~` in the paths of
  files and without HOME, the service name derived from a socket path, and the
  parsing of arguments by clap.
- Keys of a host's service other than command, arguments, socket and environment: a
  rewire drops them, as it does the first three.
- Durations: timeout, tick and backoff are choices of the moment.

## 7. Plan

What is left, in order of worth:

1. Two proxies on one daemon with fewer permits than hosts, which joins
   `Endpoints` with the permits of `ClientHandler`.
2. `queue_depth` as a value, with the measure taken before the mutex.
3. `Endpoints` shown to be an abstraction of `Mux` for one connection, so that the
   summary of the daemon's end is a theorem too.

## 8. Running it

```
tlc -workers 2 -config MCMux_routing.cfg MCMux
tlc -workers 2 -config MCStatus_status.cfg MCStatus
tlc -workers 2 -config MCEndpoints_endpoints.cfg MCEndpoints
tlc -workers 2 -config MCTools_tools.cfg MCTools
tlapm MuxProofs.tla
```

and so for the other `MCMux_*.cfg` and the other modules of proofs. `status` and
`endpoints` take two to three minutes, the others less.
