# TLA+ models of the serial-port listener core (Comm9)

This directory holds TLA+ models of the background-listener part of the
native serial library in `src/`: the threads that wait for data, line events
and device hot-plug, and the register/unregister protocol that starts and
stops them. Each module is translated from the C source it names. The TLC
configurations check these models, and `PROJECT.json` lists every run, every
mutant, the source lines behind each definition, the findings and the hazards.

## 1. Inventory

### Source files

| file | what it contains |
|---|---|
| `src/com.embeddedunveiled.native/macOS_serial/src/unix_like_serial_lib.c` | The Unix threads: `data_looper` (epoll on Linux, kqueue on macOS), `event_looper` (blocking `TIOCMIWAIT` on Linux, 500 ms polling on macOS), `port_monitor` (udev on Linux, an IOKit run loop on macOS), the SIGUSR1 exit handlers, and `device_added`/`device_removed` |
| `src/com.embeddedunveiled.native/macOS_serial/src/unix_like_serial_lib.h` | `struct com_thread_params` (the per-handle registration that caller and thread share), `struct port_info`, `struct driver_ref` |
| `src/com.embeddedunveiled.serial.native/src/windows_serial.c` | The Windows JNI layer: the port-name enumeration, the wrappers for open/close/read/write/configure and the queries, plus the listener registry `handle_looper_info[1024]` with `setUpDataLooperThread`, `setUpEventLooperThread`, `setupLooperThread`, `destroyDataLooperThread` and `destroyEventLooperThread` |

Two pieces of code are not in this repository: the Unix JNI layer (register and
unregister for Unix, which spawn and stop the Unix threads) and the Windows
thread body `event_data_looper`. Where a model needs them, they are modelled
from `spec.md`, and PROJECT.json marks those definitions `spec_modelled`.

### Components

1. **Unix data listener** (`data_looper`, .c 102-458). This is the thread's
   state:
   - the shared `com_thread_params`: `data_init_done` and `data_thread_exit`
     (the registering caller writes them too), `evfd`, and the mutex;
   - its own descriptors (`epfd`/`evfd` on Linux, `kq` and a pipe on macOS)
     and its JVM attachment;
   - the stack buffers `buffer[1024]` and `final_buf[3072]`, and the locals
     `index`, `partialData` and `errorCount`.

   It performs these operations:
   - set-up under the mutex, with 8 failure exits (Linux) or 6 (macOS);
   - a wait in epoll/kevent, then the exit check;
   - a read loop with partial-read reassembly;
   - delivery to the sink (`insertInDataQueue`, `insertInDataErrorQueue`);
   - a link-error counter that calls the sink every 100th error.
2. **Unix event listener** (`event_looper`, .c 475-624). This is its state:
   - `event_init_done` and the mutex;
   - the line-status bits;
   - `oldstate` (macOS only).

   Its loop blocks in `TIOCMIWAIT` (Linux) or sleeps 500 ms (macOS), then
   reads `TIOCMGET` and builds the CTS/DSR/DCD/RI mask. Linux delivers the mask
   on every wake-up. macOS delivers it only when it differs from `oldstate`.
   The thread is stopped by SIGUSR1, through `event_exit_signal_handler`
   (.c 461-471).
3. **Port presence monitor** (`port_monitor`, .c 762-997, and the handler
   .c 628-659):
   - On Linux, a `select` loop on the udev monitor socket. An "add" action
     calls the sink with 1. A "remove" action first `stat`s the port path and
     calls the sink with 2 only when that `stat` fails with an errno outside a
     list of benign ones.
   - On macOS, an IOKit matching notification calls `device_added`. The first
     call, on the already-present devices, is suppressed by `tempVal`. Each
     device gets a `driver_ref`, stored in the global `pm_info[2048]` at
     `pm_index`. `device_removed` applies the same `stat` filter as Linux.
   - Exit is by SIGUSR1: on macOS the handler releases the `driver_ref`s of
     the calling thread.
4. **Windows listener registry** (windows_serial.c 58-71 and 1260-1497):
   - The state is `handle_looper_info[1024]`, `dtp_index`, the critical
     section `csmutex`, and the per-port comm mask (`SetCommMask`/
     `GetCommMask`).
   - A set-up call scans the table for the handle. When the handle is found,
     the call adds its role to the comm mask. Otherwise
     `setupLooperThread` fills `handle_looper_info[dtp_index]`, starts the
     thread and increments `dtp_index`.
   - A destroy call either narrows the mask, or sets `thread_exit` and wakes
     the thread with `SetCommMask(EV_BREAK)`.
5. **Windows listener thread** (`event_data_looper`). Its code is not in the
   repository. Spec.md describes it as waiting on the comm mask and exiting
   when it wakes and finds `thread_exit` set.
6. **Port I/O wrappers** (windows_serial.c 80-1258): init, version, port
   names, open, close, read, write, configuration, line status, break, byte
   counts. Spec.md leaves them out as single-call wrappers without
   concurrency, but their error paths hold resources (JNI pins, event
   objects) and their results reach the port's settings, so every Windows
   port call is modelled (`WinPort`), and `getSerialPortNames`, whose loops
   run on uninitialised and wrongly advanced counters, has its own module
   (`WinPortNames`).

### How the components interact

- **Caller → listener thread** (Unix, through the shared `com_thread_params`):
  - At register time, the caller spawns the thread and waits for
    `*_init_done` to leave 0. The thread holds the mutex throughout its
    set-up, and then publishes 1 or a negative error code.
  - At unregister time, the caller sets `*_thread_exit` and wakes the
    thread. Without the mutex, the thread then reads that flag.
- **Wake paths**:
  - The data thread is woken through the eventfd (Linux) or the pipe
    (macOS).
  - The event and monitor threads are woken by SIGUSR1. There is one
    process-wide handler: `event_looper` and `port_monitor` both install
    theirs with `signal()`, so whichever runs last receives every SIGUSR1.
- **Thread → sink**: synchronous JNI calls from the thread. Java exceptions
  are described and cleared (`LOGE`).
- **Windows caller → registry → thread**:
  - The table scan and the comm-mask updates run without the critical
    section. Only `setupLooperThread` takes it.
  - The thread and the destroy calls communicate through `thread_exit` and
    the comm mask.

### What is hard

- Interleavings of caller and thread around set-up (the handshake) and around
  tear-down (the exit flag, the wake-up, and where the thread is at that
  moment).
- Concurrent register calls on Windows: the scan for an existing thread runs
  outside the critical section.
- Early returns: failure paths that must release what was acquired, close
  descriptors, detach from the JVM, and leave the critical section.
- Data carried across loop iterations: the partial-read state, the error
  counter, the edge-detection `oldstate`, and the stale `events[1]`.
- Bounded tables that are never compacted: `handle_looper_info`/`dtp_index`
  and `pm_info`/`pm_index`.
- A process-wide signal handler that two different threads install.

### What makes each component correct

- **Data listener**:
  - Every exit path releases its descriptors and its JVM attachment.
  - Success is reported only by a thread that is serving.
  - The sink receives exactly the bytes the device sent, in order.
  - After unregister, the thread ends.
  - A lost link (a hung-up port) reaches the sink's error entry point.
- **Event listener**:
  - On macOS, deliveries alternate: no two consecutive deliveries carry the
    same value, and the last delivery matches the lines at the last poll.
  - On Linux, each wake-up gives exactly one delivery.
  - After unregister, the thread ends without touching a JVM it never
    attached to.
- **Port monitor**:
  - No "added" notification is sent for a device that was present at start.
  - "Removed" is sent only when the `stat` says the path is gone.
  - At exit, every `driver_ref` the monitor created is released, and no
    other thread's `driver_ref` is touched.
- **Windows registry**:
  - At most one thread runs per handle.
  - Every role the application believes is registered is served by a
    running thread whose comm mask includes that role.
  - The critical section is held only inside `setupLooperThread`.
  - No write goes outside `handle_looper_info`.

## 2. Plan

The modules are listed in order of importance. All are written.

1. `DataLooper` (done). Unix `data_looper`, Linux build, composed with the
   register/unregister caller that spec.md describes. This is the central data
   path and the start/stop handshake.
2. `WinRegistry` (done). The Windows registry with concurrent callers, the
   critical section, the comm mask, and an abstract `event_data_looper`
   (modelled from spec.md).
3. `EventLooper` (done). Unix `event_looper`:
   - Constant `Platform`: Linux delivers unconditionally, macOS is
     edge-triggered.
   - The SIGUSR1 exit, with `jvm_port` read in the handler.
4. `PortMonitor` (done). Linux udev loop and macOS `device_added`/`device_removed`
   with `tempVal`, `pm_info` and `pm_index`, plus its exit handler.
5. `SignalRouting` (done). Composes `EventLooper` and `PortMonitor` through the
   single SIGUSR1 disposition and the shared `jvm_port`. It checks that a
   stopped monitor has released its references whichever handler ran.
6. `DataLooperKqueue` (done). The macOS variant of `DataLooper`: pipe and kqueue
   descriptors, six set-up failures, and the `ident == fd` selection.
7. Abstract specification `ListenerLifecycle` (done). For one handle and
   role: the caller's phase and the listener's life, with the promises
   "registered ⇒ serving" and "asked to stop ⇒ eventually ended".
   `DataLooper` and `EventLooper` are shown to implement it through
   `INSTANCE ... WITH`.
8. `WinPort` (done). The Windows port wrappers and queries, with every
   Win32 and JNI outcome their code tells apart.
9. `WinPortNames` (done). `getSerialPortNames`, one step per loop
   iteration.

## 3. Modules, runs and what they show

### DataLooper (`DataLooper.tla`, `MC_DataLooper.tla`)

**State**:
- The caller: `caller`.
- The thread: `tpc`, `held` (JVM attachment, `evfd`, `epfd`), `events[0..1]`,
  `buffer`, `finalBuf`, `index`, `partialData` and `errorCount`, translated
  cell by cell because the partial-read path indexes them.
- The shared parameter block: `initDone`, `exitFlag`, `mutexHeld`, and the
  eventfd counter `evfdCount`.
- The device: `rx` (the queued bytes) and `portErr` (the port has hung up).
- Observations: `sink` (the calls made on the looper object, in order) and
  `sent` (every byte the device sent).

**Actions**:
- Set-up:
  - `ThreadLock`.
  - `ThreadInitFail(f)`, one for each of the 8 failure branches. Each sets
    `data_init_done`, releases what its branch releases, and exits.
  - `ThreadInitOk`.
- The wait loop, split by the branch taken after `epoll_wait`: `WaitExit`,
  `WaitData`, `WaitLinkError`.
- The read loop, one action per outcome of `read`: `ReadComplete(n)`,
  `ReadInterrupted(n)`, `ReadFails`, `ReadZero`.
- The caller, modelled from spec.md: `Register`, `AwaitInit`, and
  unregister as two steps in spec.md's order. `Unregister` sets
  `data_thread_exit` (the caller is then "stopping"), and `UnregisterWake`
  writes the eventfd. The thread reads the flag without the mutex (line
  316), so it may run between the two stores. It then sees the flag
  without the eventfd.
- The device: `Arrive(b)`, `Unplug`.

**Constants that choose the build's behaviour**:
- `SuccessErrno`: the errno a successful `read` may leave. POSIX leaves it
  unspecified; glibc leaves 0. Only `EINTR` reaches the partial path.
- `EmptyRead`: what `read` returns on an empty port. This depends on how the
  port was opened, which is not in this repository. The choices are EOF,
  EAGAIN, or blocking.

**Runs**:

| run | cfg | result | what it shows |
|---|---|---|---|
| `datalooper_lifecycle` | `MC_DataLooper.cfg` | pass | Under every interleaving of register, set-up failures, data, hang-up and unregister, with two register cycles: all exit paths leave nothing held (`NoLeakOnExit`); success is reported only by a serving thread (`RegisteredMeansServing`); the thread always ends after unregister (`ExitLiveness`); a hang-up while registered reaches the sink's error entry point (`HangupReported`, spec.md lines 49 and 84); thread and caller implement `ListenerLifecycle` (`Refines`) |
| `datalooper_stream` | `MC_DataLooper_stream.cfg` | pass | With `errno` left 0 by successful reads, the sink receives exactly the sent bytes, in order (`DataIntegrity`) |
| `datalooper_reassembly` | `MC_DataLooper_reassembly.cfg` | violation | When a read that transferred bytes reports `EINTR`, the partial-read path delivers wrong bytes. The trace reads `b2` (interrupted), then `b1`, and delivers `<<b2, junk>>`. The reason is that `final_buf[i] = buffer[i]` runs for `index <= i < ret` instead of appending at `index`. `partialData` and `index` are also never reset |
| `datalooper_blocking` | `MC_DataLooper_blocking.cfg` | violation, extra cfg | On a port opened for blocking reads, a partial read that drains the port makes the loop call `read()` again without a readiness check. An unregister then never ends the thread (`ExitLiveness`) |

**Bounds**:
- `Chunk = 2` (for 1024). A 3-byte burst then needs two reads, and a short
  read leaves stale cells behind, which is the case the indexing bug needs.
- `MaxBytes = 3`, with two byte values, so that reordering or loss is
  visible. `datalooper_stream` uses 4 bytes and three registrations.
- `Threshold = 2` (for 100), with up to 3 hang-up wake-ups, so the counter
  reaches the threshold, is reset, and counts again. Three wake-ups are
  also the most `HangupReported` can need with two registrations: one left
  counted by a thread that was unregistered, then two for the next. So with
  the code as written, the report always comes before the bound is
  reached.
- `MaxRegs = 2`: a second thread starts after the first has ended, on a port
  that may already hold data or be hung up.

**Refinement** (`Refines == LL!Spec`): `reg` is the caller's phase, with
"stopping" shown as idle (`RegOf`), so the flag store is the abstract `Stop`
and the eventfd write is a stuttering step;
`life` maps `tpc` (`none`; `start`/`init` → starting; `wait`/`read` →
serving; `exited` → ended); `stop` is `data_thread_exit = 1`. Every step of
the thread or the caller is a step of `ListenerLifecycle` or leaves the
mapped state unchanged, and the abstract fairness (listener steps, the
answer to register) follows from the thread's fairness and that of the
caller's wait loop.

**Fairness**: weak fairness on the thread's steps, because it is an OS thread
that is always scheduled, and on the caller's wait for `data_init_done` (a
loop), and on `UnregisterWake`: an unregister call that has set the flag
runs on to its eventfd write. Register, the start of an unregister and the
device are not fair, because the application and the device act when they
choose.

### DataLooperKqueue (`DataLooperKqueue.tla`, `MC_DataLooperKqueue.tla`)

The `__APPLE__` branches of `data_looper`. `D == INSTANCE DataLooper` supplies
the caller, the device and the read loop (lines 354-422 are common to both
builds). This module writes what differs.

**State**: DataLooper's, with `pipeBytes` (bytes written to `pipe1[1]` by
unregister and never read) in place of the eventfd counter, `evlist` (the two
`struct kevent` cells as `[ident, error]`), and `fdOpen` (the application has
not closed the port descriptor).

**Actions**:
- `ThreadInitFail(f)` adds `pipe` and `kqueue` to the four JNI failure points.
  Each one releases what it acquired: a failed `kqueue()` closes both pipe
  ends (.c 255-282).
- `kevent` re-adds both descriptors on every wait. It returns the ready
  entries in either order (`KeventResults`), with an EV_ERROR entry first
  once the port fd is closed. They fill `evlist[0..ret-1]`; the other cell
  keeps its old, or (after `Register`) uninitialised, value.
  - `WaitExit` is the pipe in either cell with `data_thread_exit = 1`.
  - `WaitData` is `evlist[0]` being the port without EV_ERROR.
  - `WaitError` counts EV_ERROR and calls the sink every `Threshold`-th
    time.
- `ReadBadFd` is a read after `CloseFd`.

| run | result | what it shows |
|---|---|---|
| `datalooper_kqueue` | pass | Every set-up failure releases what it took (`NoLeakOnExit`); a registered listener has its thread in the loop with jvm, pipe and kq held, whatever stale or uninitialised `evlist[1]` holds (`RegisteredMeansServing`); an unregister always ends the thread, with the pipe entry in either cell (`ExitLiveness`); `Refines` checks `ListenerLifecycle` with the same mapping as DataLooper |
| `datalooper_kqueue_hangup` | violation, extra cfg | A hung-up tty (EV_EOF, never tested) makes the thread read 0 bytes and wait again forever, and the sink is never told (`HangupReported`) |

**Bounds**: as for `datalooper_lifecycle` (Chunk 2, three bytes, threshold 2,
three error wake-ups, two registrations). Two registrations are needed so
that a new thread can start with stale cells; 261,008 states.

**Fairness**: as for DataLooper. Closing the fd is the application's choice
and is not fair.

### WinRegistry (`WinRegistry.tla`, `MC_WinRegistry.tla`)

**State**:
- The table and its lock: `slots` (`handle_looper_info[x]`: `hComm`,
  `thread_exit`, the enabled roles), `dtpIndex`, `oob` (a write at
  `dtp_index >= MAX_NUM_THREADS`), `csOwner` and `csDepth` (csmutex is a
  recursive critical section).
- The ports: `commMask`, a comm mask modelled as its set of `EV_*` bits, so
  that `|` is union and `&` is intersection.
- The threads started for the entries: `tstate` and `woken` (a SetCommMask
  has made its `WaitCommEvent` return).
- The Java threads: `pc`, `op` (the call in progress) and `lmask` (the local
  `event_mask` of a set-up call).
- The application: `roles` (what it believes is registered), `used` and
  `ops`.

**Actions**: one per step of a JNI call, split where another thread can
run in between:
- `setUp*LooperThread`: `StartSetUp` (the unlocked scan), `GetMask`, then
  `SetMaskFails` or `SetMaskOk`.
- `setupLooperThread`: `Enter`, `RefFails` or `Publish`, then `SpawnFails` or
  `SpawnOk`.
- `destroy*LooperThread`: `StartDestroy` (GetCommMask and the `b & mask`
  test), `DestroyFlag`, `DestroyWake`.
- The data and event variants of each call differ only in the role's bits
  and are one action with a `role` argument.
- `SetMaskOk` falls off the end of the function with no return value. It
  therefore lets the Java side see either outcome.
- `event_data_looper` is not in `src/`. `ThreadStart` and `ThreadWake` model
  it from spec.md 4.1-4.3:
  - at start it adds its roles' bits to the mask, or exits if it is already
    flagged;
  - after each wake-up it exits if flagged, freeing its entry.

**Runs**:

| run | result | what it shows |
|---|---|---|
| `winregistry_lifecycle` | pass | With one Java thread, two ports, both roles, every failure path and re-registration: a port never has two live threads (`OneThreadPerHandle`); destroying every role flags the thread (`NoOrphanThread`); a flagged running thread ends (`ThreadExitLiveness`) |
| `winregistry_narrow` | violation, extra cfg | Destroying one role of two stops the shared thread (`b = a & EV_CTS` with `a = 0`, line 1412) |
| `winregistry_reregister` | violation, extra cfg | A registration right after a destroy finds the dying thread's entry and only updates the mask |
| `winregistry_maskrace` | violation, extra cfg | The unlocked GetCommMask/SetCommMask of a set-up call loses the new thread's own mask update |
| `winregistry_spawnfail` | violation, extra cfg | A failed `_beginthreadex` leaves its entry, so a retry "succeeds" with no thread |
| `winregistry_race` | violation | Two Java threads registering the two roles of one port both miss in the unlocked scan and start two threads |
| `winregistry_cslock` | violation, extra cfg | The early returns of `setupLooperThread` keep csmutex |
| `winregistry_overflow` | violation, extra cfg | `dtp_index` never decreases, so the table overflows |

**Bounds**:
- `MaxThreads = 2` (for 1024): the last entry, where an off-by-one scan
  misses, is reached in three calls.
- `MaxOps = 6` JNI calls: enough for two register / destroy cycles of both
  roles on one port, with failures in between, or two ports interleaved
  (698,651 states, about 100 s).
- The violation runs use the smallest bounds that reach their case.

**Fairness**:
- Weak fairness on the steps of a call already started: a JNI call runs to
  its end unless it blocks on csmutex.
- Weak fairness on the looper threads.
- Starting a call is not fair: the application chooses when to call.

### EventLooper (`EventLooper.tla`, `MC_EventLooper.tla`)

**State**:
- The caller: `caller`, `regs` (registrations so far).
- The thread: `tpc`, `oldstate` (macOS), and the shared `mutexHeld`,
  `initDone`.
- The process: `handler` (the SIGUSR1 disposition), `sigPending`, `jvmPort`
  (the global `jvm_port`, set only by `port_monitor`).
- The device: `lines` (the TIOCM bits CTS, CD, RI, DSR that are high),
  `changed` (a change happened while the thread was inside TIOCMIWAIT),
  `present`, `changes`.
- Observation: `delivered`, the codes passed to `insertInEventQueue`.

**Actions**:
- Set-up: `ThreadLock`, `ThreadInitFail(f)` for the four failure branches
  (lines 500-540), `ThreadInitOk` (installs the handler, sets init-done).
- The loop: `WaitReturn` (Linux TIOCMIWAIT returns after a change), `Sleep`
  (macOS usleep), `GetStatus` (TIOCMGET, `Decode`, `Report`: Linux always,
  macOS only when the code differs from `oldstate`), `GetFails` (TIOCMGET on a
  removed device: continue).
- `SignalTaken`: `event_exit_signal_handler` (detach via `jvm_port`,
  `pthread_exit`), or the default disposition, which ends the process.
- The caller (spec.md 4.4): `Register`, `AwaitInit`, `Unregister`; the
  device: `Toggle(b)`, `Remove`.

**Runs**:

| run | result | what it shows |
|---|---|---|
| `eventlooper_lifecycle` | pass | Linux, every set-up failure and two registrations with line changes and removal: a registered listener has a thread in its loop with the event handler installed (`RegisteredMeansServing`), an unregistered one ends (`ExitLiveness`), and thread and caller implement `ListenerLifecycle` (`Refines`; `life` maps `wait`/`get` to serving and `exited`/`crashed` to ended, `stop` is the pending SIGUSR1 or a thread that has taken it) |
| `eventlooper_poll` | pass | macOS: while the port stays present, the last delivered code eventually equals the decoded line state (`StatusConverges`) |
| `eventlooper_missed` | violation, extra cfg | Linux: a change made while the thread is outside TIOCMIWAIT (reading the lines, calling the sink, or before the first wait) is never reported |
| `eventlooper_nojvmport` | violation, extra cfg | With no port monitor ever started, `jvm_port` is NULL and unregistering dereferences it |

**Bounds**: all four status lines; `MaxChanges = 3` on both platforms: on
Linux, changes inside and outside the wait; on macOS, a change undone within
one poll interval, then another. `MaxRegs` is 3 on Linux and 2 on macOS, so
that later threads start after earlier ones ended.

**Fairness**: weak fairness on the thread (an OS thread; the 500 ms sleep
always ends) and on the caller's wait for `event_init_done`. The device and
the application are not fair.

### PortMonitor (`PortMonitor.tla`, `MC_PortMonitor.tla`)

**State**:
- Per monitor thread: `mpc`, `sigPending`, `queue` (the udev events or IOKit
  callbacks pending for it), `tempVal` and `iter` (macOS `device_added`).
- Shared: `handler` (SIGUSR1), `jvmPort`, and on macOS `pmInfo`, `pmIndex`,
  `oob` and `refs` (the `driver_ref` structures allocated and not freed).
- The devices: `plugged`, `gen` (a new IOKit service per plug), `pathOk`
  (whether `stat(port_name)` succeeds; on Linux a re-plugged port gets a new
  name, so the watched path never returns).
- Observations: `sink` (codes passed to `onPortMonitorEvent`), and the
  history counters `plugs`, `gone`, `events`.

**Actions**:
- Set-up: `StartMonitor` (sets `jvm_port`), `InitFail(m, f)` for each failure
  branch of the build (none reports to the caller), `InitOk` (Linux: udev
  receiving and handler; macOS: `tempVal = 0`, handler, and the armed
  notification whose first batch is the devices present).
- Linux loop: `RecvAdd`, `RecvRemove` (stat, then 2 unless the errno is one of
  the benign ones, `Confirms`).
- macOS run loop: `DeviceAdded` (1 unless it is the first call), then for
  each service `IterStore` (`pm_info[pm_index] = ref`) and `IterIncr`
  (`pm_index++`), separate steps because another monitor can run in between;
  `IterDone`; `DeviceRemoved`.
- `SignalTaken`: `exitMonitor_signal_handler`, or the default disposition.
- The application (spec.md 4.5): `Unregister`. The OS: `Plug(d)` reaches
  every receiving monitor, on macOS possibly merged into the last pending
  `device_added` batch; `Unplug(d)` queues a udev remove, or one
  `device_removed` per reference a monitor holds to the service.
- The code's assumption that the port stays until the monitor is initialised
  (lines 758-760) is kept as a guard of `Unplug`.

**Runs**:

| run | result | what it shows |
|---|---|---|
| `portmonitor_linux` | pass | One monitor, two USB devices, stops and set-up failures: every disappearance of the watched path is eventually reported with 2 (`RemovalReported`) |
| `portmonitor_macos` | pass | One monitor: every driver reference is in `pm_info` (`RefsTracked`) and the exit handler frees all of them (`NoRefLeak`) |
| `portmonitor_added` | violation, extra cfg | macOS: a device arriving before the first drain, or in a batch with another, gets no added-event (`AddedExactlyOnce`) |
| `portmonitor_dupremove` | violation, extra cfg | Linux: after the port has gone, removing it again under its new name reports 2 a second time (`RemovedAtMostOnce`) |
| `portmonitor_pmrace` | violation, extra cfg | Two macOS monitors store at the same `pm_info[pm_index]` |
| `portmonitor_clobber` | violation, extra cfg | One monitor's exit handler wipes another's entries, which are then never freed |
| `portmonitor_overflow` | violation, extra cfg | `pm_index` is never reset (`PmInBounds`, with `PmSize = 2` for 2048) |
| `portmonitor_earlystop` | violation, extra cfg | A stop before the handler is installed ends the process |

**Bounds**: one or two monitors, each watching its own device; two USB
devices so that an unrelated removal happens; up to 6 plug/unplug events
on Linux and 4 on macOS, enough for remove/re-plug/remove; `PmSize` is `2 + MaxEvents` in the passing
macOS run so that only a real loss empties a slot.

**Fairness**: weak fairness on each monitor thread: udev's select and the run
loop wake whenever an event is pending. Devices and the application are not
fair.

### ListenerLifecycle (`ListenerLifecycle.tla`)

The abstract specification of one listener and its caller (spec.md 4.1 and
5): `reg` (`idle`, `waiting` inside register, `registered`), `life` (`none`,
`starting`, `serving`, `ended`) and `stop`. Actions: `Start`, `StartFail`,
`StartOk`, `Answer`, `Stop`, `Stopped`; weak fairness on the listener's steps
and on `Answer`. It has no run of its own: it is checked as the `Refines`
property of `datalooper_lifecycle`, `datalooper_kqueue` and
`eventlooper_lifecycle`.

### SignalRouting (`SignalRouting.tla`, `MC_SignalRouting.tla`)

The event listener and a port monitor in one process. `E` and `P` instance
`EventLooper` and `PortMonitor` with `handler` and `jvmPort` shared; every
step of either is a step of the composition (with the other's variables
unchanged) except the delivery of SIGUSR1, which is written here from both
handlers: `EvSignalTaken` (.c 461-471 or 628-659 in the event thread,
whichever is installed) and `MonSignalTaken(m)`. A signal under the default
disposition, or a NULL `jvm_port` dereferenced, ends the process.

| run | result | what it shows |
|---|---|---|
| `signalrouting_leak` | violation | macOS: the monitor stores a driver reference, the event listener registers and its `signal()` replaces the monitor's handler; the monitor is then stopped by `event_exit_signal_handler` and never frees its reference (`NoRefLeak`) |
| `signalrouting_clobber` | violation, extra cfg | Stopping the event listener while the monitor's handler is installed runs `exitMonitor_signal_handler` in the event thread, which zeroes `pm_info` (`MonRefsTracked`) |

**Bounds**: one monitor, one device, at most one registration of the event
listener and one device event: the leak needs ten steps.

### WinPort (`WinPort.tla`, `MC_WinPort.tla`)

**State**: the OS handle table `hmap` and the handles the application holds
(`held`); per port its DCB (`dcb`: baud, byte size, stop bits, parity,
`fParity`, and the flow-control flags summarised as none/hw/sw), `brk` and
the modem lines `lines`; `pins` and `evts` (JNI elements pinned and event
objects created by calls that have returned without releasing them);
`last` (the last call and its result); `crashed`.

**Actions**: one per JNI call, since each runs in the calling Java thread on
no shared library state: `OpenFails`, `OpenSetupFails`, `OpenOk` (openComPort
split by where it returns), `CloseComPort`, `ReadBytes`, `WriteBytes`,
`ConfigureData` (the baud table `CbrOf`/`Unsupported`/`BaudFor`, `StopOf`,
`ParityOf`), `ConfigureControl`, `SendBreak`, `EscapeComm` (setRTS/setDTR),
and the queries `GetConfiguration` (getCurrentConfigurationW), `GetByteCount`,
`ClearBuffers` (clearPortIOBuffers, with the purge flags `PurgeFlags`),
`GetLinesStatus`, `GetInterruptCount` and `SetMinDataLength`. The queries change
only `last` (and `crashed`: getCurrentConfigurationW returns the int -240 as
a `jobjectArray`). With neither buffer asked for, clearPortIOBuffers passes
`PORTIOBUFFER = -1`, every purge flag, aborts included. getByteCount passes
the `COMSTAT` by value and applies `->` to it (lines 1116 and 1126), which
does not compile; the model takes the intended `&comstat`. getInterruptCount
uses `sizeof(count_info)`, 48, as an element count and returns 36 ints read
past its 12-int array; the model calls that result "garbage".
`breakRet` records each port's last sendBreak result.
What each Win32 or JNI function returns is chosen by `\E` among the outcomes
the code tells apart. Undefined behaviour is a choice of outcomes: the write
through the uninitialised `lpCommTimeouts` faults or zeroes foreign memory,
and readBytes' integer returns taken as a `jbyteArray` may fault the JVM.
`DWORD baud = -1` holds 2^32 - 1, beyond TLC's integers, so it is written
`BaudUnset = -1`.
Line 284 tests `erroVal`, which is not declared, so windows_serial.c does not
compile as written; the model reads it as the `errorVal` it stands for (a
failed SetCommState returns -EINVAL or -240). A COM port admits one open
handle, so `OpenOk` needs the port not to be open already; a second
CreateFile fails with one of the mapped errors of `OpenFails`.

| run | result | what it shows |
|---|---|---|
| `winport_leak` | violation | An open that fails in CreateFile returns without `ReleaseStringUTFChars`; read and write error paths likewise keep their event and pinned array (`NoCallLeak`) |
| `winport_control` | violation, extra cfg | configureComPortControl returns 0 without `SetCommState`, so hardware flow control asked for is not in the DCB (`ControlApplied`) |
| `winport_baud` | violation, extra cfg | A baud code outside the table leaves 0xFFFFFFFF in the DCB; if the driver accepts it the call returns 0 (`BaudValid`) |
| `winport_break` | passes, extra cfg | `MC_WinPort_break.cfg`, `MaxCalls = 4`, 23,879 states, every action fired: `TypeOK`, and `BreakReported`, a port left in the break state (ClearCommBreak failed after SetCommBreak) is one whose last sendBreak returned -240. It fails when `SendBreakIgnoresClear`, which does not test ClearCommBreak's result, replaces `SendBreak` |

The run list is full, so `winport_break` is not in PROJECT.json's runs.

**Bounds**: one port, two handle values (so a closed value can be reused),
`MaxCalls = 3`, three baud codes (a table rate, the rejected custom code 251
and an unknown code), and a previous DCB with hardware flow control.

### WinPortNames (`WinPortNames.tla`, `MC_WinPortNames.tla`)

**State**: `pc` (open, count, fill, done), the locals `count` and `i`,
`keyOpen`, `portsFound` (0 for NULL, else the length allocated), `filled`
(the array indices given a String) and `strings` (Strings created).

**Actions**: `OpenKey` (RegOpenKeyEx, or return NULL), `CountStep` (one pass
of the counting `while`, and the allocation when it ends), `FillStep` (one
pass of `for(i=0; i<count; count++)`), `CloseKey`. `count` is declared
without an initialiser (line 124), so `Init` lets it hold any DWORD. Because
the value-name size argument is `&name_of_value` and `lpcbData` is never set,
`EnumAt` lets RegEnumValueA answer ERROR_MORE_DATA as well as success for an
existing index. DWORDs are kept modulo `2^DwordBits`: at 32 bits the fill
loop's wrap takes 2^32 passes, beyond TLC. The wrap happens the same way at
3 bits. `WF_vars(Next)` holds because the function runs in one Java thread
and every step it takes is enabled until it returns.

| cfg | result | what it shows |
|---|---|---|
| `MC_WinPortNames.cfg` | passes, 95 states | `TypeOK`; `Returns`: the call returns, but only because `count` wraps |
| `MC_WinPortNames_names.cfg` | violation | A returned array has as many slots as `count` reached (`Entries`, or the uninitialised start when that was past it) and only slot 0 set (`NamesListed`) |
| `MC_WinPortNames_strings.cfg` | violation | The fill loop creates a String per pass until `count` wraps (`StringsBounded`); at 32 bits that is about 2^32 local references |
| `MC_WinPortNames_key.cfg` | violation | ERROR_MORE_DATA in the fill loop returns NULL with the key open (`KeyClosed`) |

**Bounds**: `Entries = 2` (so `count` can start below, at and above it),
`DwordBits = 3`. None of these cfgs is in the run list, which is full.
The file also uses C++ `env->` calls in a C file, so it does not compile as C.
The model follows the calls as written.

## 4. Findings

PROJECT.json lists twelve runs: the eight passing runs and four violation
runs, one for the main finding of each module that has one. Each finding names its line and the
statement it contradicts.
- `datalooper_reassembly`: the partial-read reassembly in `data_looper` is
  wrong. The copy indices are wrong and the state is never reset (.c
  362-385).
- `winregistry_race`: the scan runs outside csmutex.
- `signalrouting_leak`: the event listener's `signal()` replaces the port
  monitor's SIGUSR1 handler, so a monitor stopped afterwards never frees its
  driver references (.c 533).
- `winport_leak`: the Windows open, read and write wrappers leak their JNI
  pins and event objects on their error paths.

The other violations marked "extra cfg" in the tables above are kept as
counterexample configurations beside the runs. They can be reproduced with
`tlc -config <cfg> <MC module>`, and PROJECT.json records each one as the
note of the hazard at its line:
- `MC_WinRegistry_narrow.cfg`: the destroy calls never take their "other
  listener exists" branch (`b = a & EV_CTS` with `a = 0`, .c 1412).
- `MC_DataLooperKqueue_hangup.cfg`: on macOS a hung-up port (EV_EOF) makes
  the thread read 0 bytes and wait again forever, and the sink's error entry
  point is never called, contrary to spec.md lines 49 and 84 (.c 351). The
  same property, `HangupReported`, holds for the Linux build and is checked
  by `datalooper_lifecycle`.
- `MC_DataLooper_blocking.cfg`: after a partial read the loop re-reads
  without readiness, so an unregister can leave the thread blocked (.c
  354-414).
- `MC_WinRegistry_reregister.cfg` and `MC_WinRegistry_spawnfail.cfg`: a
  registration can succeed with no thread to serve it.
- `MC_WinRegistry_maskrace.cfg`: the mask update of a set-up call is not
  atomic.
- `MC_WinRegistry_cslock.cfg`: csmutex is leaked on the failure paths.
- `MC_WinRegistry_overflow.cfg`: the registry is exhausted after
  `MAX_NUM_THREADS` registrations.
- `MC_EventLooper_missed.cfg`: Linux misses line changes made between two
  TIOCMIWAIT calls.
- `MC_PortMonitor_added.cfg` and `MC_PortMonitor_dupremove.cfg`:
  added-events are lost and removed-events repeated.
- `MC_PortMonitor_pmrace.cfg` and `MC_PortMonitor_overflow.cfg`: `pm_info`
  is written without a lock and `pm_index` is never reset.
- `MC_EventLooper_nojvmport.cfg`: the event loop's exit handler needs a
  port monitor to have set `jvm_port`.
- `MC_PortMonitor_clobber.cfg` and `MC_SignalRouting_clobber.cfg`: a
  monitor's exit handler (run by another monitor or by the event thread)
  wipes `pm_info` entries it does not own, which are then never freed.
- `MC_WinPort_control.cfg` and `MC_WinPort_baud.cfg`: flow-control settings
  are never applied, and an unknown baud code is passed on as 0xFFFFFFFF.
- `MC_PortMonitor_earlystop.cfg`: the monitor has no init-done handshake, so
  an early stop kills the process.
- `MC_WinPortNames_names.cfg`, `_strings.cfg` and `_key.cfg`:
  getSerialPortNames starts from an uninitialised `count` and advances
  `count` instead of `i`. A returned array therefore holds one name, a String
  is created on each of about 2^32 passes, and an error return leaves the
  registry key open.

## 5. Not modelled

- Type invariants that no program change breaks are not run. `WinRegistry`
  and `PortMonitor` keep a `TypeOK` that states their state's types, and it
  holds (`MC_WinRegistry_lifecycle.cfg` and `MC_PortMonitor_macos.cfg`).
  But every mutant that breaks it alters an OS primitive (LeaveCriticalSection)
  or a value only tested against 0 (`tempVal`), not the program. So
  neither is listed as a property of a run.

- initNativeLib and getNativeLibraryVersion (windows_serial.c 80-110):
  `WinRegistry` starts with csmutex already initialised, and the version
  call only builds a string.
- The bytes of the Windows queries' results: the DCB strings of
  getCurrentConfigurationW, the queue counts and the modem bits. No property
  reads them.
- readBytes' `jbyte data_buf[count]` stack array (line 357): a zero,
  negative or huge Java count is undefined or overflows the stack, and the
  data and the stack are outside the model.
- The Unix port I/O wrappers are not in this repository.
- `WinPort` and `WinRegistry` are not composed: closeComPort leaves the
  registry entry behind (hazard at windows_serial.c:322).
- The JNI calls' internals: `GetObjectClass` and `GetMethodID` appear only as
  the failure points they can produce.
- `fprintf` logging.
- Byte values beyond equality.
