# TLA+ models of the Barrelfish monitor and of its allocation and spawn clients

This directory holds:
- TLA+ models of the concurrent parts of the code under `src/`;
- the TLC configurations that check them;
- `PROJECT.json`, which lists components, runs, mutants, findings and hazards, and maps each definition to the source lines it translates.

## The system

Barrelfish runs one *monitor* per core. Domains (processes) talk to their
monitor, to memory servers and to spawn daemons by messages. The parts
modelled here:

* **Remote capability operations** (`src/usr/monitor/monitor_rpc_server.c`).
  A client domain asks its monitor to retype, delete or revoke a capability
  whose copies may live on other cores.
  * Each handler allocates an operation record. It takes the static record of
    its kind when that is free, else a malloc'ed one.
  * The handler identifies the cap, asks the lock database for the lock and
    returns.
  * The lock database later calls the phase-2 continuation. It re-checks,
    runs the kernel operation, tells the database the outcome, releases the
    lock, frees the record and replies.
* **Capability lock database rcap_db** (not under `src/`; spec.md 4.1).
  * Each monitor keeps a record per cap: holder, has_descendants,
    present_on_cores and a FIFO of waiters.
  * A lock on a cap that is present on other cores needs a grant from each
    of them (lock_request, answered with granted or denied).
  * Retype, delete and revoke are propagated with notify messages.
* **The other blocking calls**, from the same RPC server.
  * `monitor_rpc_init` exports the service, and `connect_callback` installs
    `rx_vtbl` on each client's binding. The client makes one call at a time
    and waits for the response.
  * `mon_allocate_route_id` tags a per-monitor 24-bit counter with the core
    id.
  * `irq_handle_call` hands out vectors from a static counter.
  * `rsrc_manifest`, `rsrc_phase`, `alloc_monitor_ep` and `cap_identify`
    respond themselves. `rpc_rsrc_join` responds only when `rsrc_join`
    failed; after a successful join the resource-control layer, which kept
    the binding, answers later.
* **Boot tracker** (`src/usr/monitor/boot.c`).
  * The BSP monitor boots the other cores one request at a time.
  * It waits for each new monitor to bind, then tells the monitors already
    up to connect to it.
  * `boot_initialize_request` waits until `seen_connections` reaches
    `get_num_connections(num_monitors)`.
* **Memory stealing** (`src/usr/mem_serv_dist/steal.c`).
  * A memory server that runs out asks its peers round robin for RAM, from
    concurrent THC tasks.
  * It connects to a peer lazily and holds a per-peer `thc_lock` around the
    steal RPC.
* **RAM allocator client** (`src/lib/barrelfish/ram_alloc.c`).
  * `ram_alloc_set` connects the domain to the memory server and waits for
    the bind.
  * Threads then allocate and free RAM by RPC under `ram_alloc_lock`.
  * The slot allocator, which is not under `src/`, may itself need
    `ram_alloc` to grow.
* **Spawn client** (`src/lib/barrelfish/spawn_client.c`).
  * Callers bind lazily to the spawn daemon of a core and wait for the bind
    in a nested event loop.
  * `spawn_program_on_all_cores` walks every core.
* **Flounder stub benchmarks** (`src/usr/bench/flounder_stubs/payload.c`
  and `empty.c`).
  * The server domain spawns a copy of itself as the client, exports the
    bench interface and registers it with the name service.
  * The client looks the name up, binds and sends an init message.
  * The server then times MAX_COUNT request/reply round trips and prints
    them.
  * `empty.c` built for Beehive does not spawn. After the init message, both
    ends take the binding's BMP channel away from flounder. The client sends
    a raw message and waits for it to come back, for ever. The server echoes
    each raw message inside `fsb_init_msg`, which never returns.

The monitors interact only by messages. The channels between two monitors
are reliable and FIFO.
- **Monitors.** Each runs one event loop. A handler runs to completion
  unless it waits in `messages_wait_and_handle_next`, which dispatches other
  events.
- **Memory servers.** THC tasks of one thread yield only where they block.
- **Domains.** Threads of a domain share `ram_alloc_lock` and the spawn
  client table.

## Modules

| Module | Models | State | Actions |
|---|---|---|---|
| `MonitorCapOps` | remote cap ops of monitor_rpc_server.c, plus rcap_db | `op` (each client's operation record), `staticUsed` (`static_*_state_used`), `holder`/`hasDesc`/`onCores`/`waiters` (rcap_db per core), `chan` (FIFO channels), `copies` (kernel copies), `retypes` (history) | `RemoteCapRetype/Delete/Revoke` (phase 1), `RemoteCap*Phase2`, `GrantWaiter`, `Recv*` for each peer message |
| `AtomicCapOps` | what the remote cap ops promise (spec.md 4.1-4.4, 8) | `owner` (the call holding each cap's lock), `req` (each client's outstanding call), `retypes` | `Request`, `Acquire`, `Finish` (kernel op, release and reply in one step), `Abandon` |
| `MC_MonitorCapOps` | model values and definitions for TLC | | |
| `MonitorBlockingRpc` | the handlers of monitor_rpc_server.c other than the remote cap ops | `currentRouteId`, `nextvec`, `irqTable`, `aborted` (failed asserts and panics), `issued`/`replies` (history), `rpc` (export and connect), per client `call` (the call it waits on, with its number), `handled`, `owed` (the calls whose join the resource layer answers), `calls` | `export_callback`, `connect_callback`, `Call`, `allocate_route_id` (with `mon_allocate_route_id`), `irq_handle_call`, `rsrc_manifest`, `rsrc_phase`, `rpc_rsrc_join`, `RsrcJoinReply`, `alloc_monitor_ep`, `cap_identify` |
| `Boot` | boot.c | `monitorsUp`, `numMonitors`, `seen` (seen_connections), `pc` (where the BSP's handler is), `running`, `initialized`, `pending`/`conn` (connections between monitors) | `boot_core_request`, `BootWaitInitialized`, `intern_new_monitor_send` (one send of the loop), `BootCoreDone`, `boot_initialize_request`, `BootInitializeReply`; the other cores' `MonitorInitialized` and `ConnectionUp` |
| `PeerSteal` | steal.c | `nextServ` (static next_serv), `isBound`/`held`/`lockGen` per peer (is_bound, the thc_lock, how often it was initialized), per task `pc`/`serv`/`idx`/`peer`/`gen`, `tried`/`stolen` (history) | `try_steal`, `connect_peer`, `LockRetry` (a woken waiter), `StealReturns`; `Scan` is rr_steal's loop as a RECURSIVE operator |
| `RamAlloc` | ram_alloc.c | `func` (ram_alloc_func), `setPc`/`conn` (ram_alloc_set and the connection), `space` (free slots of the slot allocator), `lock`, per thread `pc`/`calls`, `base_capnum`, `aborted` (a failed assert) | `ram_alloc_set_local/remote`, `get_mem_iref_reply`, `bind_continuation`, `ram_alloc_set_returns`, `ram_alloc_remote`, `ram_free_remote`, `thread_mutex_lock`, `RpcReturns`, `ram_alloc_fixed`, `ram_free_fixed` |
| `FlounderStubs` | payload.c, empty.c | `prog`/`beehive` (the binary and build, chosen in `Init`), `srv`/`cli` (where each domain is), `registered`, `connected`, `c2s`/`s2c` (the binding's messages), `btype`, `i`/`flag` (experiment's statics), `t0`/`t1` (timestamps), `overrun`, `done`, `sent`/`rcvd` | `ServerMain`, `EmptyServerMain`, `export_cb`, `connect_cb`, `fsb_init_msg`, `fsb_reply`, `empty_fsb_init_msg`, `fsb_empty_reply`, `Echo`, `ClientMain`, `bind_cb`, `empty_bind_cb`, `fsb_request`, `RawSend`, `RawRecv`; `experiment` and `empty_experiment` are operators the server handlers call |
| `SpawnClient` | spawn_client.c | `client` (get_spawn_rpc_client per core), `panicked`, per caller `pc`/`fn`/`core`/`bind` (its bindst)/`loop` (spawn_program_on_all_cores) | `spawn_program`, `spawn_set_local_memserv`, `spawn_program_on_all_cores`, `AllCoresNext`, `spawn_bind_cont`, `SpawnBindDone`, `bind_client_done`, `Rpc`; pure operators `ArgStrLen`, `ArgStr`, `SpawnPath` for the request |

### How the modules correspond to the code

**MonitorCapOps**
* A phase-1 action is a whole handler. Its early exits are disjuncts: the
  cap is not identified (the core holds no copy), or it already has
  descendants (retype only).
* A phase-2 action is a whole continuation. It covers the kernel call, whose
  outcome is chosen from `KernelOutcomes`, the rcap_db update, `FreeSt` and
  `Reply`. The kernel fails when the core holds no copy, and may also fail
  for a kind in `KernelMayFail`.
* `alloc_*_st` followed by `free_*_st` on an early exit leaves
  `static_*_state_used` as it was, so those paths leave `staticUsed`
  unchanged.
* An operation record carries `live`: the client's copy of the cap still
  exists. A delete, or a revoke's notify, clears it for every call on that
  copy. The kernel operation of a call whose copy is gone fails, as the
  kernel does for a deleted capref.
* **Refinement.** `Abs == INSTANCE AtomicCapOps WITH owner <- LockOwner,
  req <- Request`, and `cap_delete_leaks_lock` checks `CapOpsAtomic ==
  Abs!Spec`.
  * `LockOwner` gives each cap the client whose call holds the whole lock,
    on every core it asked and with its copy still live. A lock some core's
    rcap_db still holds for a call that has replied, with no unlock or
    notify on its way, stays owned by that call's client. A leaked lock is
    therefore visible to the abstract spec, where a call gives up its lock
    when it replies (`Finish`).
  * `Request` gives each client the kind and cap of its outstanding call.
  * A phase-2 continuation maps to `Finish`. Every other monitor step is a
    stutter of the abstract spec, or an `Acquire` at the step that
    completes the whole lock.

**PeerSteal**
* An action runs a THC task from one blocking point to the next: a connect,
  a wait on a held thc_lock, or the steal RPC.
* `thc_lock_init` on a lock that is in use starts a new generation. Waiters
  of the old generation are never woken, just as the re-initialized lock
  forgets its waiter list.

**RamAlloc**
* The slot allocator is abstracted to its count of free slots, following
  the comment at ram_alloc.c lines 28-34. Growing refills the count. The
  allocate RPC's cap takes one slot.
* With one slot left, the allocator grows by calling `ram_alloc`. Under
  `ram_alloc_lock` that call blocks on the lock its own thread holds: the
  thread's `pc` becomes `selfwait`.
* `ram_alloc_set_local` installs the file's own local pair,
  `ram_alloc_fixed` and `ram_free_fixed`; no caller under `src/` passes
  another. A call of `ram_alloc_fixed` is one step: page-sized or not
  (`size_bits` ranges over the two cases), and a failed assert aborts the
  domain. `ram_free_fixed` always aborts (`assert(!"NYI")`).
* `get_mem_iref_reply` asserts `iref != 0`. The monitor's answer is not
  under `src/`, so the model lets the assert fail and end the domain, or
  pass and bind.

**SpawnClient**
* `USER_PANIC_ERR` and failed asserts set `panicked`, which stops every
  action.
* Undefined behaviour is a choice of outcomes. For example,
  `spawn_rpc_client_init` on the NULL binding of a failed bind may crash,
  fail, or install a client on no binding.
* The argv/envp packing and the `$PATH` qualification of the path in
  `spawn_program` are pure operators over strings of numbers (0 is `'\0'`,
  47 is `'/'`). `SpawnRequestEncoding` checks them against `Unpack`, a
  reference decoding that splits a buffer at each `'\0'`, for every vector
  of at most two strings of at most two characters, the empty string
  included. With an unset `PATH` the path goes under `/`.

**FlounderStubs**
* A failed assert, `abort()` and a crash on a bad binding all end the
  domain (`"aborted"`).
* `bind_cb` does not look at `binderr`: after a failed bind the send on the
  bad binding crashes, so a failed bind aborts the client.
* A time stamp is modelled by what it orders: the read of `bench_tsc()`
  after `sent` requests and `rcvd` replies is `<<sent, rcvd>>`.
* A write past `timestamps[]` is recorded in `overrun`.
* `payload.c` and `empty.c` share the code of `export_cb`, `connect_cb`,
  the client's `main` and the request handler. Those actions serve both
  binaries and are mapped to `payload.c`.
* On Beehive, `bmp_chan_recv` is retried with `thread_yield` while no message
  is there. That retry is the guard of `Echo` and `RawRecv`.
  `flounder_stub_bmp_process_header` lives in flounder's BMP code outside
  `src/` and changes no modelled state.

**MonitorBlockingRpc**
* The widths are the code's: a 24-bit counter under an 8-bit core tag.
* Counters may start where the monitor is after millions of allocations, so
  that the rollover assert is reached in a few steps.
* Each core has one client binding. A call carries its number, and a
  response ends whichever call the client waits on.
* `rsrc_manifest` hands `b` to `rsrc_join` (line 435) as `rpc_rsrc_join`
  does. A successful join there also leaves the resource layer owing a
  response on `b`, which reaches whatever call the client waits on next.
* What the resource-control and capability layers return is a choice of
  outcomes. Only what changes the reply protocol is kept: `rsrc_set_phase`
  may fail (the assert aborts the monitor), `rsrc_join` may succeed (the
  layer owes the response), and `cap_destroy` may fail after the response.
  The ids and caps in the responses are left out.
* Sending a response is taken to succeed: the client waits for it on a
  binding with nothing else in flight. The asserts on the send are left out.

## Runs

| Run | Result | What it shows |
|---|---|---|
| `cap_ops` | pass (29k states) | Three cores. Clients a1 and a2 call core A, b1 calls core B. Each makes one call on d (held on every core) or e (d's descendant), and kernel operations may fail. Locks on a cap are exclusive, and a revoke's recursive lock excludes every call on the subtree. A cap is retyped at most once until it is removed, and the static records stay consistent. |
| `cap_delete_leaks_lock` | violation | The monitors do not refine `AtomicCapOps` (`CapOpsAtomic`): a delete or revoke whose kernel operation fails replies while its lock stays held. spec.md 4.3 and 4.4 say the lock is released. No injected fault is needed: a delete queued behind a revoke on the other core loses its copy to the revoke, and its kernel delete fails. |
| `blocking_rpc_calls` | pass (228k states) | Two monitors, one at the rollover edge, each with a client making three calls of any kind. No route id is handed out twice (`RouteIdsUnique`). Every call is answered unless the monitor aborted (`EveryCallAnswered`): `rpc_rsrc_join` answers the failed joins, and the resource layer the others. |
| `boot_mesh` | pass | get_num_connections equals (n-1)(n-2)/2. When boot_initialize_request replies, every two running monitors are connected. Boot ends, even when spawns fail. |
| `boot_notify_partial_mesh` | violation | A new_monitor_notify that fails leaves a running monitor out of num_monitors. In TLC's trace core 1 is refused as an unknown type, core 3's one notify (to core 2) fails, and get_num_connections(2) = 0 lets boot_initialize_request reply while cores 2 and 3 run unconnected. |
| `steal_round_robin` | pass (7k states) | With two concurrent tasks, a try_steal that fails asked every other peer exactly once, wherever next_serv stood. |
| `steal_connect_race` | violation | Two tasks that find the same peer unbound both connect, and two steal RPCs are outstanding on one binding. This is the FIXME at steal.c line 49. |
| `ram_alloc_lock` | pass | One allocating and one freeing thread. The pre-grow keeps the slot allocator from growing under the lock, ram_alloc_set returns unless the assert on the memory server's iref ends the domain, and every call returns. |
| `ram_alloc_self_deadlock` | violation | Two allocating threads both pass the pre-grow check with two slots left. The second then holds the lock while its RPC takes the last slot, and the growth deadlocks on that lock. |
| `spawn_all_cores` | pass (28k states) | spawn_program_on_all_cores reports success only after it spawned on every core with a daemon. Every call returns. The spawn request holds argv and envp exactly as `'\0'`-terminated strings of length argstrlen, and the whole `<PATH>/<path>` fits pathbuf. |
| `flounder_ping_pong` | pass (263 states) | The run covers `payload.c` with every benchmark type argv[1] may give, `empty.c`, and `empty.c` built for Beehive; spawn, export, registration, lookup and bind may fail. `experiment()` never writes past `timestamps[]`, every printed page spans exactly its own round trip, and without Beehive the benchmark ends (`EachPageOneRoundTrip`, `BenchmarkEnds`). On Beehive, flounder never sees a raw message, the client only ever receives echoes, and one raw message goes back and forth (`HijackInStep`). Unless a domain aborts, the echo loop runs for ever (`EchoLoopRuns`). |
| `spawn_bind_error` | violation | bind_client ignores `bindst.err`. After a failed bind it installs an RPC client on a NULL binding, a case spawn_program checks for. |

Every property of a passing run has a mutant in `PROJECT.json`: a plausible
bug in the code, written as an operator next to the one it replaces, that
TLC finds violating the property.

Three problems are not runs of their own. Each has the same cause as a run
above:
- A failed kernel revoke hangs the next caller on the cap. It is covered by
  `cap_delete_leaks_lock`.
- A waiter on a peer's `thc_lock` is lost when a racing connect
  re-initializes the lock. It needs three tasks: one waits while two race
  through `connect_peer`. With three tasks and one request each, TLC finds
  a try_steal that never returns. The cause is the race of
  `steal_connect_race`.
- `rcap_db_delete`, as spec.md 4.1 describes it, drops the record on every
  core, although only one copy was deleted. The cores that keep a copy then
  lock it without asking each other. A later revoke locks it without its
  descendants.
  * Instances with a client on each of three cores violate
    `MutualExclusion`.
  * Instances with two calls per client and the descendant violate
    `SubtreeExclusion`.
  * `cap_ops` is bounded so that it does not reach this case (one call per
    client, no client on core C).
  * This disagreement is within spec.md (4.1 against 8), about code not
    under `src/`, and is listed as a hazard.

## Bounds

* **Capability runs.**
  * `cap_ops` has three cores, so a lock needs the grants of two peers, and
    one can grant while the other denies.
  * Two clients on core A exercise the static record and its malloc
    fallback. b1 on core B makes locks distributed.
  * The cap d and its descendant e give the recursive lock a subtree.
  * One call per client keeps the run under a minute. Larger instances
    (a client on every core, or two calls each) reach the rcap_db_delete of
    spec.md 4.1 and fail through it (see above).
  * `cap_delete_leaks_lock` has two cores and two clients with two calls
    each, which is enough for a revoke to overtake a queued delete.
* **Blocking RPC calls.** Two monitors, three calls per client of any of
  the seven kinds. A counter starts at 0 or two allocations below 0xffffff,
  so both ordinary ids and the rollover abort occur. A two-entry IRQ table
  makes both the kernel's accept and its refusal happen. Three calls let a
  deferred join answer meet the next call and the one after it.
* **Boot.** Four cores: the BSP and three others. This is the smallest
  number for which a new monitor must be connected to more than one monitor
  that is already up.
* **Stealing.** Three peer slots, one of them our own, so the round robin
  wraps and skips.
  * The passing run has two tasks with two requests each, enough for two
    tasks to scan from a stale next_serv.
  * The race needs two tasks.
* **RAM allocator.** Three slots per CNode, two threads, and three calls
  (passing run) or two calls (race). The count reaches one slot, which makes
  the pre-grow happen. `cnode_base` has two slots (OBJSPERPAGE_CTE) in the
  passing run, so the third page request reaches the assert and ends the
  domain.
* **Spawn client.** Three cores: ours, one with a daemon and one without, so
  `CHIPS_ERR_UNKNOWN_NAME` is skipped. Two callers with two calls each can
  bind the same core concurrently.

* **Flounder benchmark.** MAX_COUNT is 12, not 1000 (100 in `empty.c`). Pages 1 to 11 are
  printed, as pages 100 to 999 are, so the first page is skipped as in the
  code. The Beehive echo loop has no counter; its few states repeat. argv[1] ranges over every known type and one unknown type.

## Fairness

* **Monitors.** Each event loop keeps dispatching. A due continuation, a
  lock grant to a waiter and a queued message are each weakly fair. Clients
  are not obliged to call.
* **Boot.** The BSP's handlers, the boot manager (which sends its next
  request after each reply) and the other cores' bind and connect steps are
  weakly fair.
* **Stealing.** THC runs every runnable task, and peers answer connects and
  RPCs. No liveness property is checked: with two tasks no waiter can be
  lost, and with three one is (see above).
* **RAM allocator.**
  * The domain's start-up calls `ram_alloc_set`.
  * Messages are delivered.
  * A thread waiting on a free mutex gets it, because the thread scheduler
    runs every runnable thread.
* **Blocking RPC calls.** Each monitor's event loop handles every call
  that arrives (weak fairness of everything the monitor does). The resource
  layer is assumed to answer a join it took over, whether
  `rpc_rsrc_join` or `rsrc_manifest` made it; that code is not under
  `src/`. Clients are not obliged to call.
* **Spawn client.** The event loop delivers the bind and the RPC replies.
* **Flounder benchmark.** Weak fairness of the whole next-state relation.
  Each domain runs its message loop, and the name service, spawn and bind
  complete. Outside the Beehive echo loop the state graph has no cycles, so
  this is enough for the benchmark to end. Inside the loop, exactly one of
  `RawSend`, `Echo` and `RawRecv` is enabled at a time. Weak fairness
  therefore makes each of them happen again and again, as the two spinning
  domains do.
* **AtomicCapOps.** A call that holds its lock finishes (`WF` of `Finish`).
  The continuation is due once the lock is complete, and the monitor's loop
  runs it.

Runs whose callers make a bounded number of calls say `CHECK_DEADLOCK FALSE`
and explain why in a comment. Once all calls are done the system really has
nothing left to do, and the liveness properties are what check that
everything before that point finishes.

## Not modelled

* **Kernel code:** `src/kernel/arch/arm/exec.c` and the x86 headers.
* **Drivers and applications:** rtc, vmkitmon, tcpechoserver and webserver.
* **Benchmarks:**
  * ump_bench's `send.c` spins on a raw UMP channel whose peer is not under
    `src/`.
  * `bmp_chan_recv` errors other than "no message" in the Beehive echo loop
    are not modelled. The loop only logs them and echoes a message it never
    received, but those errors are defined outside `src/`.
* **Headers with no behaviour.**
* **Parts of the modelled files:**
  * `ram_set_affinity` and `ram_get_affinity`. They only change the
    arguments of the allocate RPC, which the model leaves out. They write
    the two fields without the lock, which is listed as a hazard.
  * A concurrent `base_capnum++` in `ram_alloc_fixed`. No caller under
    `src/` shows whether a domain that installs it runs several threads.
  * The memory accounting in `steal_and_alloc`, which belongs to the memory
    server's allocator outside `src/`.
  * The resource ids and caps that the rsrc, alloc_monitor_ep and
    cap_identify handlers pass on. The code that makes them is not under
    `src/`. Two hazards there are listed without a property:
    `rsrc_manifest` replies with an uninitialised id when `rsrc_new` fails,
    and leaks the resource when `rsrc_join` fails.
  * tcpechoserver asserts that `tcp_write` succeeds. A peer that never
    reads fills lwIP's send buffer and the assert aborts the server; the
    buffer accounting is lwIP's.

`PROJECT.json` lists each of these with the reason.

## Plan

1. Done: `MonitorCapOps`, `Boot`, `PeerSteal`, `RamAlloc`, `SpawnClient`,
   `MonitorBlockingRpc`, `FlounderStubs` (both binaries, and the Beehive build), and the refinement of `AtomicCapOps` by
   `MonitorCapOps`.
2. An abstract "round-robin over peers" specification for `PeerSteal`,
   refined by the task-level model.
3. Preemption inside `ram_alloc_fixed` (its unsynchronized
   `base_capnum++`), if a domain that installs it runs several threads.
4. The monitor's binding with several clients per core, and the remote cap
   ops and the other calls on one binding.
