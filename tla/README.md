# A TLA+ model of the Bluetooth device emulator

The program lets the Bluetooth stack of a Windows CE device (or emulator) use a
USB Bluetooth adapter that is plugged into the desktop.  A transport driver on
the device hands every HCI packet to an agent, the agent sends it over the
Remote Tools connection to a plug-in on the desktop, and the plug-in gives it to
the adapter through the FreeBT runtime and the FreeBT USB driver.  Events and
incoming data travel the other way.

This directory holds a model of that program, the TLC configurations that check
it and the proofs that go beyond what TLC can enumerate.  Paths of sources below
are relative to `src/src/`; `fbtusb/` stands for `freebt/src/driver/fbtusb/`.

    tlc -config MCHciBridge.cfg MCHciBridge.tla        check a run
    tlapm FbtUsbPnpProofs.tla                          check the proofs of a module

## 1. The system and its parts

Device side:

| Component | State | Operations | Where |
|---|---|---|---|
| transport driver `bthemul.dll` | open flag, parameters, a lock | `HCI_OpenConnection`, `HCI_WritePacket`, `HCI_ReadPacket`, `HCI_CloseConnection` | `bthemul/bthemul.cxx` |
| COM driver `bthemulcom.dll` | three message queues of one message, the read cache `g_pBuffer`/`g_dwBufReadPos` | `BTE_Open`, `BTE_Write`, `BTE_Read`, `BTE_Close`, `BTE_Init`, `BTE_Deinit` | `bthemulcom/bthemulcom.cxx` |
| packet serialisation | a 4096 byte buffer, read and write position, count | `write*`, `read*`, `writeUCharArray`, `readUCharArray` | `common/Packet.cpp` |
| agent `BthEmulAgent` | the queues, `g_pCmd`, `g_hWorkingThread`, the watchdog counter, the quit event | `CommandCallback`, `WorkingThread`, `SendCommand`, `Initialize`, `Uninitialize`, the watchdog | `BthEmulManager/BthEmulManager/BthEmulAgent/AgentAsync.cpp` |

Desktop side:

| Component | State | Operations | Where |
|---|---|---|---|
| plug-in, data path | the command transport, `devId`, the watchdog timer, flags of the control panel data | `OnStart`, `OpenDevice`, `OnHciEvent`, `OnCommandPacketReceived`, `SendCommand`, `WatchDogTimerEvent` | `.../BthEmulManagerPlugin/Plugin-Async.cs` |
| plug-in, control panel | settings, logs, statistics | windows and their handlers | `.../BthEmulManagerPlugin/*.cs` |
| runtime `fbtrt.dll`, devices | the slots `g_bthHw`, `g_bthHci`, `g_bthDevInfo` | `OpenDevice`, `CloseDevice`, `SendHCICommand`, `SendData`, enumeration | `freebt/src/runtime/fbtrt.cpp` |
| runtime, readers | the reassembly buffer, one thread per packet, `s_criticalSection` | `OnEvent`, `DataReader`, `DataEventHandler` | `freebt/src/runtime/BthEmulHci.cpp` |
| FreeBT HCI library | overlapped listeners, pending command slots, the pending event of a round trip | `EventListener`, `CHciLocal`, `CHciRoundTrip` | `freebt/src/lib/hci/` |
| FreeBT hardware access | a file handle | `CreateFile`, `DeviceIoControl`, `ReadFile`, `WriteFile` wrappers | `freebt/src/lib/hw/` |
| USB driver `fbtusb.sys` | `DeviceState`, `QueueState`, `OutStandingIO`, `StopEvent`, `RemoveEvent`, `OpenHandleCount`, the idle and power fields | the dispatch routines for PnP, power, create/close/cleanup, device control, read/write, WMI | `fbtusb/` |

The parts touch each other in four ways: message queues of one message between
the COM driver and the agent; commands of the Remote Tools transport, which the
desktop sends with a blocking `ProcessCommand` and the agent with a non-blocking
`PushCommand`; callbacks of the runtime into the plug-in, made under the critical
section `s_criticalSection`; and IRPs between the runtime and the USB driver.

What is hard about it, and the property that makes each part correct:

* **A write is answered by five components.**  `BTE_Write` puts a packet in one
  queue and waits without a timeout for a result in another.  Every packet must
  get exactly one answer, the adapter's own, and the next packet must not see
  it.  One lost answer hangs the Bluetooth stack, one too many desynchronises it.
* **The agent has one desktop command at a time.**  `CommandCallback` blocks on
  full queues.  An event that the stack does not read holds up the result of a
  write and the answer to a ping behind it.
* **Events are carried by a thread each.**  What orders them is the critical
  section, held until the agent has answered.
* **The connection breaks at any moment**, with commands blocked on both sides.
* **The USB driver counts its requests**, and PnP handlers wait for the count.
  A path with a missing or a doubled decrement lets a device be stopped with
  requests under way, deletes its object early, or blocks PnP for ever.
* **A session of the agent ends while its threads still work.**  The queues, the
  driver instance and the reading thread of the next session are made in the
  same globals.  There must be one driver, one reader of its queue, and a way
  back from every closed port.
* **Adapter slots are shared by all plug-ins**, and closed by whichever timer
  notices first.  A handle must have one owner, and no thread may read with a
  handle that is closed.  `GetDeviceInfo` has an HCI object of its own with a
  thread per event, which must not mix up the answers.
* **Power is asked for by one IRP and given by another**, with a worker between
  them that waits, on the event the PnP queries wait on, for everybody else.
* **Selective suspend has six parties**: a timer, a work item, the hub, its
  callback, whoever cancels and the completion, and two of them decide between
  each other who frees the idle request.

`PROJECT.json` lists the hazards at their lines, each with the property that
would notice it, or with the reason why none does.

## 2. The modules

| Module | What it is |
|---|---|
| `HciWriteService` | abstract: what the stack may rely on when it writes a packet |
| `HciEventFifo` | abstract: a bounded FIFO for the adapter's packets |
| `HciBridge` | the data path from the stack to the adapter and back |
| `MCHciBridge` | its instance for TLC |
| `HciBridgeProofs` | its type invariant and `Threads`, proved |
| `HciBridgeEventProofs` | `HciBridge` implements `HciEventFifo`, proved |
| `HciBridgeWriteProofs` | `HciBridge` implements `HciWriteService`, `BridgeInv`, proved |
| `FbtUsbPnp` | the USB driver: I/O count, plug and play, requests, handles, WMI |
| `MCFbtUsbPnp` | its instances for TLC |
| `FbtUsbPnpProofs` | types, count, wait of the queries, assertions and deletion, proved |
| `FbtUsbPower` | `FbtUsbPnp` with the power IRPs |
| `MCFbtUsbPower` | its instance for TLC |
| `FbtUsbPowerProofs` | types, count, waits and assertions with power IRPs, proved |
| `FbtUsbSuspend` | the USB driver: selective suspend |
| `MCFbtUsbSuspend` | its instances for TLC |
| `FbtUsbSuspendProofs` | types, count, the one idle request and the waits with selective suspend, proved |
| `AgentSession` | the life cycle of the agent, the COM driver and the plug-in's side of it |
| `MCAgentSession` | its instances for TLC |
| `AgentSessionProofs` | types, one driver and one reader, proved |
| `RuntimeDevices` | the slots and threads of `fbtrt.dll`, and the calls of the plug-ins |
| `MCRuntimeDevices` | its instance for TLC |
| `RuntimeDevicesProofs` | types, owners of handles, readers, answers and information, proved |

`FbtUsbPower` EXTENDS `FbtUsbPnp`: its steps are those of the driver and those of
the power IRPs, over the same count, event and device state.  `FbtUsbSuspend` is
a driver with fewer requests and PnP handlers, whose count and event are the
operators of an INSTANCE of `FbtUsbPnp`.  `HciBridge`, `AgentSession` and
`RuntimeDevices` are three cuts through the same path: one session's data, the
sequence of sessions, and the desktop's adapters.

Operators whose comment begins "Faulty variant" are never part of `Next`.  Each
is an action with a plausible bug, kept to show that the property it is paired
with in `PROJECT.json` notices that bug.

## 3. The bridge

`HciBridge` follows one HCI packet at a time through everything between the
stack and the adapter, with the agent initialised and the device open on the
desktop.  Its variables are the places a packet can be in:

| Variable | In the code |
|---|---|
| `opened` | `BTE_Open` has succeeded |
| `write[w]` | the `BTE_Write` call of stack thread `w`: writing the queue, waiting for the result, the last return |
| `writeQ`, `readQ`, `errorQ` | the three queues; `dwMaxMessages` is 1 and both ends wait INFINITE, so a queue is its message or `None` |
| `worker` | the packet `WorkingThread` has read and not yet sent up |
| `cmd` | the byte parameter held by the one command object `g_pCmd` |
| `up` | commands pushed to the desktop and not yet received |
| `receiver` | `OnCommandPacketReceived` on its way back with a result |
| `down[t]` | the command desktop thread `t` is blocked on in `ProcessCommand` |
| `callback` | the command `CommandCallback` is executing |
| `listener[l]`, `lock` | the packet reader thread `l` carries; the owner of `s_criticalSection` |
| `connected` | the transport's connection state |
| `adapter` | the last packet the adapter was given and what it answered |

An action is one atomic step of one thread between two points at which it can
block or be overtaken: a queue write, a queue read, the start and the end of
`CommandCallback`, the entry and exit of the critical section.  `Disconnect`
loses what is on the wire and releases every blocked desktop thread; what is in
the device's queues, in `worker` and in `callback` survives it, as in the code.
Packets are opaque values.  `Oversize` is the set of packets that
`HCI_WritePacket` accepts (4096 bytes, not counting the type byte it adds) and
that do not fit in a `Packet` next to its type and length.

Properties:

* `BridgeInv`: between the stack and the adapter there is at
  most one request or answer; it belongs to the write that waits; while the
  connection holds, a waiting write has one; the request is that write's packet
  and the answer the adapter's answer to it.  So `CommandCallback` never blocks
  on a full error queue.
* `WritesAreServed`: refinement of `HciWriteService`.  A call is *accepted* until
  the adapter has the packet, *performed* until `BTE_Write` returns, *lost* if
  the connection has taken its request or answer.  A lost call never returns.
* `EventsInOrder`: refinement of `HciEventFifo` with capacity two.  The packets
  in `readQ`, in `callback` and in the transport, oldest first, are the queue.
* `WriteReturns`, `LockIsReleased`: a write that waits returns unless the
  connection breaks; the owner of the critical section lets it go once the stack
  has opened the device.
* `LengthReturnedWasSent`: see section 10.

One writing thread is assumed by the first two groups (`Writers` has one element
in the runs): the stack of Windows CE serialises its calls of `HCI_WritePacket`,
and `BTE_Write` with two callers could hand either of them the other's result.
What holds for any number of writers is proved in `ThreadsCorrect`.

The order in which reader threads *enter* the critical section is not the order
of arrival, and no property claims it (`TODO` of the repository names the
matter: "2. Correct command/event order").

## 4. Plug and play in the USB driver

`FbtUsbPnp` is the driver as the I/O manager and the PnP manager see it.

| Variable | In the code |
|---|---|
| `devState`, `prevDevState`, `queueState` | `DeviceState`, `PrevDevState`, `QueueState` |
| `usbInterface` | `UsbInterface` is set (needed to open a handle) |
| `outStandingIO` | `OutStandingIO`, biased to 1 |
| `stopEvent`, `stopWaiters`, `removeEvent` | the auto-reset `StopEvent` with the threads blocked on it, and `RemoveEvent` |
| `openHandleCount`, `handle[h]` | `OpenHandleCount`, and each file object between open, cleanup and close |
| `request[r]` | each I/O request: admitted, counted, sent, completed early, refused |
| `wmi` | a WMI request in `FreeBT_DispatchSysCtrl` |
| `pnp` | the PnP IRP in the driver and the point its handler has reached |

The dispatch routines are cut where another thread can see the difference:
between the test of `DeviceState` and the count, between the count and
`IoCallDriver`, between `IoCallDriver` and the late count of reads and writes,
and around every wait.  `FreeBT_IoIncrement` and `FreeBT_IoDecrement` are one
step each, being a critical section of `IOCountLock`.  `StopEvent` keeps its
auto-reset meaning: setting it releases one waiter or leaves it signalled, a
wait consumes it.

`MaySend` is the environment: which PnP IRP the PnP manager sends to a device
in which state, one at a time, and `IRP_MN_REMOVE_DEVICE` only when all handles
are closed (Windows 2000 and later; Windows 98 and Me also remove a device with
open handles, and that is not modelled).

Selective suspend and wait-wake are off in this module.  `NewRequestsQueue`
is always empty, because nothing calls the function that inserts into it, and
`FreeBT_AbortPipes` finds no pipe, because `PipeOpen` is only ever cleared.

Properties:

* `CountExact`: at every step of every thread the count is the bias, plus the
  requests inside the driver, less the transfers that completed before they were
  counted and the commands that were refused; `OpenHandleCount` is the number of
  granted handles.
* `WaitEndsIdle`: when the wait of a query-stop or a query-remove ends, no
  request, cleanup or WMI request is inside the driver.
* `AssertsHold`: three ASSERTs of the driver (`fbtusb/fbtpnp.c` 836, 1185, 1754).
* `PnpIsAnswered`: each PnP IRP is answered, unless an event read stays in the
  USB stack for ever.
* `NothingAfterDelete`: once the device object is deleted nothing in the driver
  takes another step.
* `AssertRemoved`, `StopMeansNoIo`: see section 10.

## 5. Power in the USB driver

`FbtUsbPower` adds four variables: `sysPower` and `devPower` as the device
extension keeps them, and `sIrp` and `dIrp`, the system and the device power IRP
in the driver with the point they have reached.  The dispatch routine counts a
power IRP, the S-irp is passed down, its completion routine asks the power
manager for the D-irp, and the D-irp's way depends on whether power goes up,
stays or goes down (`HandleDeviceSetPower`).  Down is the difficult case:
`HoldIoRequests` stops the queue and starts a worker, which gives back the
counts of both IRPs, waits for `StopEvent` ("wait for I/O in progress to
finish"), takes the counts again and passes the D-irp down.

Each call that can fail has a disjunct in which it does: the lower drivers at
each of the three completion routines, memory for the context, the request for
the D-irp.  `DeviceState` is the mapping of the capabilities, of which only D0
for the working state is assumed.  `PnpOverlap` are the PnP requests that the
PnP manager may send while an S-irp is under way.

The stopped queue holds nothing: `FreeBT_DispatchDevCtrl`, read and write do not
test `QueueState`, and `QueueRequest` is never called.

Properties:

* `PowerCountExact`: the count of section 4 with what the two power IRPs hold,
  which is 0, 1 or 2 depending on how far the worker has come.
* `WaitsEndIdle`: when the worker's wait ends no application's request and no PnP
  request is inside, and when a query's wait ends no power IRP is, other than
  one that waits as well.  This is the composition of two users of one auto-reset
  event, and it is where the two modules could contradict each other.
* `AssertsHold`: the driver's assertions of section 4, now that a worker gives up
  counts that are not its own: the count still reaches zero in a removed device
  only.
* `PowerIsAnswered`: system power IRPs are completed, unless requests overlap in
  the driver for ever.  Its premise `QueriesKeepClear` leaves out behaviours
  where a query is under way with a power IRP: the one signal of `StopEvent` can
  then release the query and not the worker, who waits for the next decrement to
  one, and nothing in the driver promises there is one.

Not claimed, being false of the code: that the driver leaves a deleted device
alone.  With a removal in `PnpOverlap`, TLC has `FreeBT_DispatchPower` test the
device state, the removal run to its end, and the power IRP, which was not
counted yet, count itself in a deleted device; likewise the worker, who has
given up the counts the removal would wait for.  Without such a removal there
would be no power IRP to speak of, so that no property is stated.

Merged: the completion of a D-irp with the decrement that follows it
(`fbtpwr.c:336-348`, 680-683).  What the completion starts, the end of the S-irp
and its decrement, may come before that decrement in the code; the counts add
up the same.

## 6. Selective suspend in the USB driver

| Variable | In the code |
|---|---|
| `ssEnable`, `timer`, `dpc` | `SSEnable`, `Timer` armed, `DpcRoutine` queued |
| `noDpcWorkItemPending`, `noIdleReqPend`, `idleReqPend` | the events and the flag of the same names |
| `pendingIdleIrp`, `freeIdleIrpCount` | `PendingIdleIrp`, `FreeIdleIrpCount` |
| `worker` | the work item `IdleRequestWorkerRoutine` in `SubmitIdleRequestIrp` |
| `canceller[t]` | `CancelSelectSuspend` called by an open or a PnP request |
| `completion[i]` | `IdleNotificationRequestComplete` of request `i` |
| `allocated`, `below`, `cancelled` | the idle requests in memory, with the hub, cancelled |
| `callback` | `IdleNotificationCallback`, which powers the device down and waits |
| `power`, `requested`, `leaked` | the D-irp in the driver, those asked for, the counts lost |
| `devState`, `pnp`, `handle`, `request`, `outStandingIO`, `stopEvent` | as in section 4 |

The idle requests come from a set `Irps` of memories, so that an address can be
freed and used again while somebody still holds it.  `HubWaits` says whether the
hub driver returns a cancelled request in the middle of its callback; the run
`suspend` has the polite one and `suspend_stop` the other.

What is merged or bounded: one work item at a time; opening a file, its request
and its closing are one application's, so that an open and the answer to it are
not interleaved with a second one; memory is taken in a fixed order.
`SSEnable` is tested together with the wait for `NoIdleReqPendEvent`, where the
code tests it once before (`fbtdev.c:443`, `fbtrwr.c:57`): only a stop clears it,
after which the model lets more requests through than the code, and never in run
`suspend`, the one whose property is about that wait.
`SSRegistryEnable` is set, wait-wake is not.  The module begins with a started
device and ends with a surprise removal.

Properties:

* `OneIdleRequest`: the hub never has two idle requests, nor one while another is
  being submitted.  `IdleReqPend` is set and cleared by three threads, two of
  which free the request and one of which re-arms the timer that starts the next.
* `SuspendCountExact`: what is counted is the bias, the PnP request, the
  application's request, each power IRP from `PoRequestPowerIrp` to its
  completion function and again inside the driver, and those that
  `PoRequestPowerIrp` refused, whose count nobody gives back
  (`fbtusb/fbtdev.c:1027`).  The leak is counted in `leaked` so that everything
  else stays exact.
* `SuspendWaitsEndIdle`: the waits for `StopEvent` of a query to stop and of the
  worker that takes the device down end only when no request, no power IRP that
  was asked for and no other PnP request is inside.  Here the event has more who
  set and clear it than in section 5: `FreeBT_DispatchClose` signals it, and the
  callback and the completion of the idle request count the power IRPs they ask for.
* `RequestIsReleased`: a request of an application that waits for
  `NoIdleReqPendEvent` is let through.
* `SuspendTypeOK` claims of `FreeIdleIrpCount` that it stands for at most two owners.
  It has no lower bound that holds for any memory: TLC reaches -2 with
  two memories and -3 with three.

Four sentences one would like to claim are false of the code.  They are hazards
of `PROJECT.json` and not properties: the canceller's request can be freed under
it (`fbtdev.c:1113`); `FreeIdleIrpCount` can drop below zero when a new request
sets it to two in between; a stop can wait for ever after a start has reset it
(`fbtpnp.c:885`); and a request that was let through can find an idle request
with the hub, since the event is set outside the lock (`fbtdev.c:441`, 1053).

## 7. The agent's sessions

`AgentSession` is what happens around the data path.  The plug-in sends
`ACK_MSG`, the agent answers, the plug-in sends `AGENT_INITIALIZE_MSG`, and
`Initialize` opens the queues, activates the driver and starts a `WorkingThread`.
When the stack closes the COM port, `COM_CLOSE_MSG` goes to the plug-in, which
has the agent uninitialise and then initialise itself again.

| Variable | In the code |
|---|---|
| `main`, `quit` | `WinMain` and `g_hQuitEvent` |
| `watchDog` | `g_lWatchDogCounter`, and whether its thread runs |
| `callback` | `CommandCallback`: whose command, which step of `Initialize` or `Uninitialize` |
| `queues`, `device`, `threads`, `lastThread` | the queues are open, `g_hDevice`, every `WorkingThread` ever started, `g_hWorkingThread` |
| `failed` | a step of `Initialize` has failed (its result is ignored) |
| `registered`, `used`, `stack` | driver instances, the latest one was closed by the stack, the stack's handle |
| `toAgent`, `toDevice` | the message in each queue |
| `up`, `down[t]` | messages pushed up; the command desktop thread `t` is blocked on |
| `connected`, `attached` | the transport, and the plug-in's `HardwareState` |

Each wait and each change of a global is a step.  A `WorkingThread` is `looping`,
`waiting` for the two objects, `reading` a message or `sending` it;
`PulseEvent` of the quit event releases those that are waiting at that moment and
leaves no trace.  A thread whose queue was closed under it fails in its loop, as
in the code.

Assumed of what is not in the repository: the transport's stop of the command
handler waits for the callback that runs; the desktop sends `END_COMMAND` as the
last thing, once `WinMain` waits, and disconnects.  The plug-in's answers to messages
it ignores are left out.  HCI packets are modelled only downwards and without
content, because that is where they hold up `CommandCallback`; the contents and
the way up are `HciBridge`.

Properties:

* `OneDriver`: the instances of the driver that are registered are the one in
  `g_hDevice`, and none when the agent has gone past its deactivation.
* `OneReader`: at most one `WorkingThread` can take messages.
* `Recovers`: a closed port is followed by an agent with a fresh driver, or by one
  that was told to quit, was cut off, or had a step of `Initialize` fail.
* `WatchDogEnds`: an agent without a desktop ends its wait.
* `AssertNoDevice`: see section 10.

`OneDriver` and `OneReader` hold for a stack that opens each driver once
(`Impatient = FALSE`); run `agent_assert` shows what the other kind does.  That the *process* ends
after `quit` is false: `PulseEvent` misses a thread that is sending, and
`WinMain` waits for it for ever (`AgentAsync.cpp:146`).  It is not claimed.

## 8. The runtime's devices

`RuntimeDevices` has one plug-in per emulator with three threads: its own, the
watchdog's timer and the connection monitor's.  They call `OpenDevice`,
`SendHCICommand` and `CloseDevice` of `fbtrt.dll`, which run in
`g_hciCritSection`.

| Variable | In the code |
|---|---|
| `plugin` | connected, `devId` of `ControlPanelData` and of `Plugin`, commands still to send |
| `call[t]`, `lock` | the runtime call of thread `t` and its step; the owner of `g_hciCritSection` |
| `slot`, `info` | `g_bthHw`/`g_bthHci`, and whose information is in `g_bthDevInfo` |
| `handle` | the driver handle of a plug-in's `CBTHW` |
| `query`, `answers` | the first command slot of `GetDeviceInfo`'s `CHciLocal`, what it has taken for answers |
| `known` | the plug-ins whose `GetDeviceInfo` returns TRUE (its `bRet`) |
| `listener`, `handlers`, `reading` | the `Listener` threads with their overlapped reads, the event threads, the data readers |
| `adapter` | plugged in, and the events it has |

`GetDeviceInfo` is cut where another thread can see the difference: queueing and
sending a command, waiting, and taking the answer; an event thread *finds* the
slot in one step and *completes* it in another.  An adapter may be pulled out at
any time (those in `Removable`), `StartEventListener` and the start of the data
reader may fail, and a `Listener` may end because it gets no handle (those in
`Failing`).  `GetDeviceInfo` ignores that its listener was not created
(`BthEmulHci.cpp:361`) and sends its commands all the same.  The status of an
answer is the adapter's choice: only that of the first query decides what
`GetDeviceInfo` returns, since the others can but leave `bRet` as it is
(`BthEmulHci.cpp:364-389`).  An answer without parameters is one of these: the
buffer's zero reads as success.  An answer longer than its structure is
dropped and its command never signalled (`hcilocal.cpp:689`).

The driver is exclusive (`fbtusb/fbtdev.c:64`), so `Attach` finds the first
adapter that is plugged in and not open.  Merged: `QueueCommand` with the send
that follows it (both under the lock, the answer cannot be there earlier), and
`Attach`'s tries.  Each timer runs one handler at a time.  A command to an
invalid `devId` has no effect and is left out.  An event thread that finds its
`CHciLocal` gone is caught by `FBT_TRY` and has no effect here; the language
leaves it undefined, and `HandlersFindQuery` says when it does not happen.  Not
modelled: the subscription of the callback (once, before the first event), and
the lengths of answers but for one that is too long.

Properties:

* `HandlesAreOwned`: an adapter has one handle, a device one slot, which is the
  one its plug-in was told; a handle in no slot is being opened or was lost when
  the listener could not be started (`fbtrt.cpp:108-116` deletes the `CBTHW`
  without `Detach`).
* `ReadersAreJoined`: no thread reads with a closed handle or for no slot.
* `AnswersAreTaken`, `HandlersFindQuery`: `GetDeviceInfo` takes the answers to its
  own commands and no handler thread outlives it, until it has taken an answer
  that an earlier session left in the adapter for the same opcode.
* `InfoIsCurrent`: a slot in use shows the information of its own device if and
  only if that device answered the first query with success.  What it shows
  otherwise is left from a device before it, or nothing: the code does not clear
  `g_bthDevInfo` (`fbtrt.cpp:97`, 152).
* `CallsReturn`, `DisconnectCloses`: every call returns and a disconnected
  plug-in gives up its device, unless no answer can reach `GetDeviceInfo`, which
  waits for it without a timeout and in the critical section (`Stuck`): the
  adapter was pulled out, there is no listener, or the answer was too long.  Of
  the adapter and the driver they assume that a plugged adapter answers every
  command and that the driver accepts the reads.  TLC finds each of the last two
  reasons necessary; in run `devices` the first comes with the second, because a
  read that fails ends the listener, but not when all reads are completed.

Not claimed, being false: that a `CloseDevice` on its way closes the device it
was meant for.  The slot may have a new owner by then (`Plugin-Async.cs:251`).

## 9. The runs

| Run | Configuration | Instance | Distinct states | Shows |
|---|---|---|---|---|
| `bridge` | `MCHciBridge.cfg` | 1 writer, 2 packets, 2 reader threads, 2 events, timer, fairness | 263,208 | `TypeOK`, `BridgeInv`, `WritesAreServed`, `EventsInOrder`, `WriteReturns`, `LockIsReleased` |
| `bridge_oversize` | `MCHciBridgeOversize.cfg` | as `bridge`, one packet oversize | violation | `LengthReturnedWasSent` fails |
| `pnp` | `MCFbtUsbPnp.cfg` | a command and an event read on 2 handles, fairness | 77,624 | `WaitEndsIdle`, `AssertsHold`, `PnpIsAnswered` |
| `pnp_count` | `MCFbtUsbPnpCount.cfg` | a command, a transfer and a refusable command, 2 handles | 1,066,174 | `TypeOK`, `CountExact`, `NothingAfterDelete` |
| `pnp_assert` | `MCFbtUsbPnpAssert.cfg` | one transfer | violation | `AssertRemoved` fails |
| `pnp_stopped` | `MCFbtUsbPnpStopped.cfg` | one command | violation | `StopMeansNoIo` fails |
| `power` | `MCFbtUsbPower.cfg` | an event read on 1 handle, D0 and D3, all PnP requests (a removal only between power IRPs), fairness | 1,299,681 | `PowerTypeOK`, `PowerCountExact`, `WaitsEndIdle`, `AssertsHold`, `PowerIsAnswered` |
| `suspend` | `MCFbtUsbSuspend.cfg` | memory for 2 idle requests, a PnP request, fairness | 1,121,796 | `SuspendTypeOK`, `OneIdleRequest`, `RequestIsReleased` |
| `suspend_stop` | `MCFbtUsbSuspendStop.cfg` | memory for 1 idle request, all PnP requests, 1 refused power IRP | 3,588,432 | `SuspendCountExact`, `SuspendWaitsEndIdle` |
| `agent` | `MCAgentSession.cfg` | 2 sessions, a watchdog that counts to 2, fairness | 376,718 | `AgentTypeOK`, `OneDriver`, `OneReader`, `Recovers`, `WatchDogEnds` |
| `agent_assert` | `MCAgentSessionAssert.cfg` | 3 sessions, a stack that reopens | violation | `AssertNoDevice` fails |
| `devices` | `MCRuntimeDevices.cfg` | 2 plug-ins, 2 adapters, 2 slots, 2 queries, 2 reads per listener, 1 removable adapter, a listener of each kind that may fail, fairness | 95,992 | all of section 8 |

Why these bounds.  Two packets and two events are what tells "the answer to
this packet" from "the answer to the previous one" and an order from its
reverse; two reader threads are what contends for the critical section, and with
the timer and the receiver four desktop threads contend for `CommandCallback`.
The queues are bounded by the code, `up` by `AtMostOne`, so that no state
constraint is needed.  In the driver, two requests reach
every pair of interleaved paths and a third inside to overlap them; two handles
allow the race of two opens.  A refused command is not issued again (state
`twice`): each request can spoil the count at most once, which keeps the count
finite.  With power, one event read is what keeps the worker waiting, and one
sleeping state is what the code tells from the working state.  Selective suspend
needs two memories for a second idle request to begin while the first is being
freed, and one for its address to come back; `MaxLeaks` keeps the count finite.
Of the agent, two sessions are one and the next one, whose threads meet; the
third of `agent_assert` is what the doubled message starts.  Two plug-ins, slots
and adapters contend for everything there is one of, two queries are a command
and the next one in the same slot, and two reads a listener have events overtake
each other; one plug-in sends one command, of the opcode of a query, which is
what can be mistaken for an answer; one adapter is pulled out, so that the other
shows what a plugged adapter does not prevent, and one plug-in's query listener and
the other's device listener may fail, which is each kind once.

Deadlock is checked for the bridge.  It is not for the driver, the agent and the
devices, which may stop: a deleted device, an agent that has exited, plug-ins
that have closed.

### Fairness

* Weak fairness of every step of a thread that is inside a routine: threads are
  scheduled and their queues served.
* Strong fairness of `CommandCallback_Enter(t)`: several commands wait for one
  callback, the transport serves them in order, none is passed over for ever.
* Weak fairness of USB completions, except those of event reads, which end only
  when the adapter has an event.
* Strong fairness of the receiver's turn in `CommandCallback` in `AgentSession`,
  for the same reason.  Of the stack it assumes only that it finishes an open or
  a close it has begun.
* The lower drivers return every power IRP, the hub every cancelled idle request.
* In `RuntimeDevices` weak fairness of the threads, the timers, and the reads
  that the adapter's events complete.  Weak fairness is enough for
  `g_hciCritSection`: a call waits behind finitely many others.
* None of packets the stack writes, of events, pings, `BTE_Open`, the connection,
  the choice among waiters of `s_criticalSection`, applications, or the PnP
  manager.  For this reason `LockIsReleased` speaks of the owner and not of the
  next waiter, and only once the stack has opened the device: before that nobody
  reads the queue.

## 10. Where the code and its comments differ

* `bridge_oversize`.  `bthemulcom/bthemulcom.cxx:548` says of `BTE_Write` "The
  length returned is guaranteed to be the length requested unless an error
  condition occurs."  `writeUCharArray` refuses an array that does not fit the
  4096 bytes of a `Packet`, line 561 ignores that, and `HCI_WritePacket` allows
  4096 bytes before it adds the type byte.  For the 9 lengths from 4089 to 4097,
  type byte included, the message holds only its type,
  the agent's `SendCommand` leaves `g_pCmd` as it was and pushes the previous
  packet again, and `BTE_Write` reports the length of a packet that was not sent.
* `pnp_assert`.  `FreeBT_IoDecrement` asserts that a count of zero is reached
  only by a removed device (`fbtusb/fbtpnp.c:1754`).  `FreeBT_DispatchRead` and
  `FreeBT_DispatchWrite` raise the count after `IoCallDriver`, so a completion
  in between takes it from 1 to 0 in a working device and leaves `RemoveEvent`
  signalled.
* `pnp_stopped`.  `fbtusb/fbtpnp.c:897` says that after the stop IRP the driver
  "must not send any more Irps down that touch the device until another Start
  has occurred".  `FreeBT_DispatchDevCtrl` tests `DeviceState` (`fbtdev.c:432`)
  and `FreeBT_SendHCICommand` counts the request later (`fbtdev.c:250`); a
  query-stop and a stop that fit in between find no request, and the command
  then goes to a stopped device.
* `agent_assert`.  `ActivateDriver` asserts that there is no driver
  (`AgentAsync.cpp:492`).  Each `COM_CLOSE_MSG` starts a new session
  (`Plugin-Async.cs:326-346`), so a stack that opens and closes the port again
  before the agent has uninitialised itself starts two: a second driver instance
  and a second `WorkingThread`, and nobody deregisters the first.  The sleeps of
  500 ms in `Initialize` and `HCI_OpenConnection` make it rare and do not order
  the two.

## 11. The proofs

All are checked by TLAPS down to the last leaf, for every value of the
constants that satisfies the module's assumptions: `BridgeAssumption` (names are
distinct from each other and from `None`, `Oversize` is a set of packets),
`PnpAssumption` (finitely many requests and handles, each request on a handle,
and the classes of requests do not overlap wrongly), `PowerAssumption`
(`DeviceState` maps states to levels, the working state to D0),
`SuspendAssumption` (`NoIrp` is no memory), `RuntimeAssumption` (slots and
adapters are numbers, `None` is neither a number, a plug-in, a thread nor an
event), `CommandsAssumption` (no query is asked twice) and `SessionAssumption`
(the watchdog counts to a positive number, as does the bound on the threads started).

Some theorems have a hypothesis on top, which stands in the theorem.  The first two
say how the Bluetooth stack uses this code, the others what the requests and the
PnP manager do:

* `OneWriter(w)`: the stack has one call of `HCI_WritePacket` at a time, and its
  packets fit a `Packet`.  Without the second half `LengthReturnedWasSent` is
  false, which run `bridge_oversize` shows.  With two writers the two threads
  share one reply queue.
* `~Impatient`: the stack opens a driver once.  Without it two sessions overlap,
  which run `agent_assert` shows.
* `Transfers = {}` and `Failing = {}`: every request is counted before it is sent,
  as commands and event reads are, and `IoCallDriver` refuses none.  Without the
  first half `AssertRemoved` is false, which run `pnp_assert` shows.
* `"REMOVE" \notin PnpOverlap`: the PnP manager removes no device in the middle of a
  system power IRP.  Without it the bias a removal drops would be missing from the
  count that the worker waits for (`OverlapInv` below).

| Theorem | Module | Says |
|---|---|---|
| `TypeCorrect` | `HciBridgeProofs` | `Spec => []TypeOK` |
| `ThreadsCorrect` | `HciBridgeProofs` | `Spec => []Threads`: only the receiver reports results, only the owner of the lock sends adapter packets, a broken connection leaves nothing on the wire |
| `EventOrder` | `HciBridgeEventProofs` | `Spec => EventsInOrder`: the bridge implements `HciEventFifo` |
| `BridgeCorrect` | `HciBridgeWriteProofs` | `Spec => []BridgeInv`, for one writer |
| `LengthReturned` | `HciBridgeWriteProofs` | `Spec => LengthReturnedWasSent`, for one writer |
| `WriteServiceImplemented` | `HciBridgeWriteProofs` | `Spec => WritesAreServed`, for one writer: the bridge implements `HciWriteService` |
| `CountIsExact` | `FbtUsbPnpProofs` | `Spec => [](TypeOK /\ CountExact)` |
| `QueriesWaitForRequests` | `FbtUsbPnpProofs` | `WaitEndsIdle`, when no request is counted late or refused |
| `DriverAssertions` | `FbtUsbPnpProofs` | `AssertsHold`, under the same condition |
| `DeletedDeviceIsLeft` | `FbtUsbPnpProofs` | `Spec => NothingAfterDelete` |
| `DriverTypesCorrect` | `FbtUsbPnpProofs` | `Spec => []TypeOK` |
| `PowerCountIsExact` | `FbtUsbPowerProofs` | `PowerSpec => [](PowerTypeOK /\ PowerCountExact)` |
| `PowerWaitsForRequests` | `FbtUsbPowerProofs` | `WaitsEndIdle`, when no request is counted late or refused and no device is removed in the middle of a power IRP |
| `PowerTypesCorrect` | `FbtUsbPowerProofs` | `PowerSpec => []PowerTypeOK` |
| `PowerAssertions` | `FbtUsbPowerProofs` | `PowerSpec => AssertsHold`, when no request is counted late or refused, whatever overlaps a power IRP |
| `SuspendTypesCorrect` | `FbtUsbSuspendProofs` | `Spec => []SuspendTypeOK` |
| `SuspendWaitsForRequests` | `FbtUsbSuspendProofs` | `Spec => SuspendWaitsEndIdle` |
| `SuspendKeepsBias` | `FbtUsbSuspendProofs` | `Spec => [](outStandingIO >= 1 /\ ~removeEvent)`: the count never falls to zero in a device that is not removed |
| `SuspendCountIsExact` | `FbtUsbSuspendProofs` | `Spec => []SuspendCountExact` |
| `OneRequestBelow` | `FbtUsbSuspendProofs` | `Spec => []OneIdleRequest` |
| `AgentTypesCorrect` | `AgentSessionProofs` | `Spec => []AgentTypeOK` |
| `OneDriverCorrect` | `AgentSessionProofs` | `Spec => []OneDriver`, for a patient stack |
| `OneReaderCorrect` | `AgentSessionProofs` | `Spec => []OneReader`, for a patient stack |
| `DevicesTypes` | `RuntimeDevicesProofs` | `Spec => []DevicesTypeOK` |
| `HandlesOwned` | `RuntimeDevicesProofs` | `Spec => []HandlesAreOwned` |
| `ReadersJoined` | `RuntimeDevicesProofs` | `Spec => []ReadersAreJoined` |
| `AnswersTaken` | `RuntimeDevicesProofs` | `Spec => []AnswersAreTaken` |
| `HandlersFind` | `RuntimeDevicesProofs` | `Spec => []HandlersFindQuery` |
| `InfoCurrent` | `RuntimeDevicesProofs` | `Spec => []InfoIsCurrent` |

How they go:

* `TypeOK` of the bridge is inductive by itself.  `Threads` is inductive relative
  to it: the conjunct about `callback` is needed because `Respond` releases the
  thread of the command that is *executing*, and the one about `Executing`
  because two threads in one callback would release each other.
* `EventOrder` maps every action to a step of the FIFO or to a stutter.
  `OnEvent` is `Put`; it needs that, while connected, a free lock means that no adapter packet
  is in the transport or in the callback (lemma `Places`), hence `Threads`.
  `HCI_ReadPacket` is `Get`.  The moves from the transport to the callback and
  from there to `readQ` stutter, because they keep the order.  `Disconnect` is
  `Break`, which loses the newest packet at most.
* `PathInv` (`HciBridgeWriteProofs`) is `AtMostOne`, `AnswerOnItsWay`, `OwnRequest`
  and `OwnAnswer` with `Calls`, that a call under way has a packet and no result.
  The request and its answer are in one of seven places: `writeQ`, the
  `WorkingThread`, `up`, the receiver, `down`, `CommandCallback`, `errorQ`.  Each
  step leaves them where they are (`PathStays`, most of the steps), moves them
  one place on, or loses them with the connection; `StayingKeepsPath` does the
  first kind at once.  That the answer in `down` and in the callback is the
  receiver's is `Threads`.
* `WriteServiceImplemented` maps the call to `idle`, accepted, performed, answered
  or lost by `CallOf`.  The adapter's step on the packet is the service's
  performing, the end of `BTE_Write` its return, the steps that lose the
  connection its loss; the moves between the places stutter, because the answer
  is the same in each.  `LengthReturned` has the same invariant, read at the step
  that returns.
* `CountExact` is inductive together with `TypeOK`.  Each action moves one
  request or one file from one class to another, so that the lemmas
  `RequestMoves` and `HandleMoves` about the cardinalities of those classes carry
  most of it.
* `WaitEndsIdle` needs three invariants more.  `EventInv` ties `StopEvent` to the
  count: a signalled event means a count of at most one, so that a wait which
  finds it signalled, and one which is released by the decrement to one, end with
  nobody inside; and only a waiting query is blocked on it.  `StateInv` says in which `DeviceState` each point of a PnP handler is
  reached.  `AllCounted` says that with `Transfers = {}` and `Failing = {}` no
  request is missing from the count, so that a count of one means nobody is
  inside.  The condition is necessary: runs `pnp_count` and `pnp_assert` show
  how a transfer spoils the count.

* `NothingAfterDelete` needs `StateInv` and `LastRequests`: a request that is not
  over has a file object that was granted; when a removal is under way no handle
  is open and none can be opened, so that no request can come; from
  `FreeBT_WmiDeRegistration` on no WMI request can.  Then a deleted device
  takes no step.
* The lemmas about the count in `FbtUsbPnpProofs` are stated for `CountIs(n)`, where
  `n` is what somebody other than requests, files and PnP holds.  `CountExact` is
  `n = 0`; `PowerCountExact` is `n = PowerCount`, so that the steps of the driver
  need no second proof and only the power steps are new.  The invariant,
  `PowerInv`, has `LevelsOK` besides: the level a D-irp asks for is one of
  `DeviceState`, without which `devPower` loses its type.
* `WaitsEndIdle` takes the three invariants of `WaitEndsIdle` again, with a second
  thread that may wait, and `OverlapInv`: no removal begins under an S-irp.
  Without it a removal, which drops the bias, would make the worker's count of
  one mean a request inside.
* `PowerAssertions` needs no more than `PowerInv`, `StateInv` and `AllCounted`: with
  nothing missing from it the count is at least what PnP and the power IRPs hold
  (`CountCoversPnp`), so that it is zero only when a removal has given up its own
  count and the bias.  Unlike the waits it does not care what overlaps.
* `SuspendCountExact` is inductive with `PartsOK`, the types of what it adds up and
  which steps belong to a query: every step moves the count and one of its parts
  together, or neither.
* `SuspendWaitsEndIdle` needs, besides the exact count, only that a signalled
  `StopEvent` means a count of at most one (`EventInv`).  Nothing that is counted is
  negative, not even the leak, so that at a count of one all of it is nothing
  (`BiasAlone`); `SuspendKeepsBias` is the same sum read from below.
* `SuspendTypesCorrect` takes the variables in four groups, since each step of `Next`
  changes few of them: what each kind of step leaves alone is said once
  (`IdleUnmoved` to `PnpUnmoved`).  That `DevPower` is D0 or D2 needs that a power IRP in
  the driver is to one of them, that memory is freed and not invented needs `FreeTypes`.
* `OneIdleRequest` is inductive with `PendingInv`: `IdleReqPend` is set while a
  request is on its way from `SubmitIdleRequestIrp` to the hub and back to the
  lock of its completion routine, and nobody clears it in between, whoever
  cancels the request meanwhile.  Who frees the memory, which is where the code
  goes wrong (section 6), plays no part in it.
* `SessionInv` is what carries `OneDriver` and `OneReader`.  `OneControl`: of the start
  and the end of a session there is one under way, be it in the plug-in's message,
  in a queue, in a thread that sends or in `CommandCallback`.  `FreshStart`: a session starts without
  a driver and without a reader.  `UsedOnce`: it ends because the stack has
  closed the driver, which a patient stack opens once, so that no second
  `COM_CLOSE_MSG` is sent.  `ReaderHasMessage`: a `WorkingThread` that was woken by
  a message finds it, which makes it the only one.  `ActivateDriver` fails when
  every index is taken, as `RegisterDevice` does; `DriverOfDevice` says that the
  registered driver is `g_hDevice` until it is deregistered.
* `OwnInv` is `HandlesAreOwned` with four conjuncts that make it inductive and imply
  `ReadersAreJoined`.  `Readers`: which reader thread runs at which step of the
  session that started it.  `LockHeld`: a thread in a step inside the critical section is
  its owner.  `Sessions`: what the plug-in's own thread has at each of its
  steps, in particular that it has a handle and no `devId` while it opens.  `Joins`: a
  closer inside the critical section works on a slot that is in use.  Closers
  with an old `devId` are harmless because they look at the slot again under the
  lock, which is what `Joins` records.
* `AskInv` is about `GetDeviceInfo`.  `Tracked`: unless a leftover of an earlier session was
  taken, at most one answer to a command of `GetDeviceInfo` is under way, in the
  adapter, in a completed read, with a handler thread or in the slot of
  `CHciLocal`, and it is to the command that is waited for.  A command is sent
  only when the answer before was taken, so that the next answer is alone; the
  adapter's answers to the emulators are not mistaken for one, because
  `TookLeftover` counts those that are.  `QueryOf` says that the slot belongs to
  the session that asks and is filled only then, `FoundAsked` and `BufferAsked`
  that a handler between its two steps and the filled slot carry an opcode that
  was asked.  `InfoReady` is why the two searches for a free slot, in
  `GetDeviceInfo` and when the device is stored, find the same one:
  `g_hciCritSection` is held in between.

Only model-checked:

* Liveness under fairness, which is out of the prover's reach: `WriteReturns`,
  `LockIsReleased`, `PnpIsAnswered`, `PowerIsAnswered`, `RequestIsReleased`, `Recovers`,
  `WatchDogEnds`, `CallsReturn`, `DisconnectCloses`.
* What the four runs of section 10 refute.
Nothing is proved of `BridgeInv` and `WritesAreServed` for more than one writer, which
the code does not provide for, nor for packets that fit no `Packet`: for those TLC finds
`AnswerOnItsWay`, `OwnRequest` and `OwnAnswer` violated.

Every safety invariant and action property of a passing run is thus stated by a
theorem.

## 12. Not modelled, and the plan

1. `Framing`: the positions of `Packet`, the read cache of `BTE_Read` that
   outlives `BTE_Close` (`bthemulcom/bthemulcom.cxx:486`), the reassembly of
   `DataReader`, as functions checked against a reference definition.
2. `FbtUsbWaitWake`: the wait-wake IRP and its cancellation (`fbtusb/fbtpwr.c`
   126-158, 887-1038), composed with `FbtUsbPower`.
3. Proofs: `StateInv` of `FbtUsbPnpProofs` for `FbtUsbSuspend`, whose `devState` has
   the same transitions.

Left out, with the reason: the windows, settings and logs of the plug-in (no
state the data path depends on); `CHciRoundTrip` (used by the test programs
only); the commands of `CHciLocal` that `fbtrt.dll` does not send (they differ
in their bytes); the name space (`fbtpnp.c:1815`); `s_criticalSection` once it is
deleted (`BthEmulHci.cpp:39`: a lock that is deleted while held has no defined
outcome); WMI data blocks; the test programs (interactive, they hold no state
of the system); registry scripts and build files.  `PROJECT.json` has the list by component.
