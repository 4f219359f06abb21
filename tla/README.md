# A TLA+ model of the BKEL SOME/IP gateway

The repository holds a gateway (C++, `src/app`) that connects TLS clients (Python GUI,
`src/clientapp`) to an STM32 microcontroller (C with FreeRTOS,
`src/someip_gateway_mcu_stm32f103rb`) over a UART. Clients register a 12-bit CID, send RPC
requests (SIDs 0x10-0x13, no answer) and DIAG requests (0x20-0x26, one answer each); the MCU
advertises its services every five seconds.

Paths below are relative to `src/`.

## Inventory

| Component | State | Operations | Interacts with | Hard because |
|---|---|---|---|---|
| **Session table**: `app/src/core/SessionManager.cpp`, `Session.cpp` | `sessions_` (CID to Session), per session `requestedSidQueue_`, `toMcuQueue_`, `isBlocked_` and the owned transport | `addSession`, `removeSession`, `forwardToMcu`, `routeUartRxBySid`, `broadcast`, `sendToSession`, `popNextMcuFrame`, `setBlocked` | called by the accept thread, every rx thread and both UART threads, under `mtx_` | sessions are found by CID alone, and CIDs are chosen by clients; answers are matched by SID alone |
| **TLS transport**: `app/src/transport/TlsTransport.cpp` | `running_`, `ssl_`, `txQueue_`, two threads | `start`, `stop`, `sendData`, `rxLoop`, `txLoop` | created by the accept thread, fed by the UART thread, destroyed by its own rx thread | an object that is destroyed from one of its own threads; a condition variable; an unlocked `ssl_` |
| **Accept thread**: `TcpServer.cpp` | the listening socket and its queue | `startup`, `acceptLoop`, `receivedCidTls`, `shutdown` | makes transports and sessions | blocks on one client at a time, without a timeout |
| **UART threads**: `UartTransport.cpp` | the frame being written; `running` | `txWorker`, `rxWorker`, `writeData` | pop from and deliver to the session table | the result of `write` is not looked at |
| **Packet parser and encoder**: `app/src/protocol` | `rxBuffer` | `push`, `parse`, `onFrame`, `build_frame` | bytes from the UART, frames to the session table | chunks, corrupt bytes, resynchronisation |
| **Test menu**: `CommandService.cpp` | `currentCid` | one function per request | writes to the UART beside `txWorker` | its answers look like those to clients |
| **MCU command parser**: `BKEL_APP_protocol.c` | `rx_buf`, `parsed_packet` | `parse_packet`, `parse_one_frame`, `handle_frame` | bytes from the interrupts, notifications to the worker tasks | one shared packet, bounded buffer |
| **MCU tasks**: `BKEL_APP_TaskM.c`, `_sendDiagData.c`, `_rpc.c`, `_service.c`, `_cid.c` | notification values, `seq4` | one loop per task | the UART, unlocked | preemption in the middle of a frame; reset |
| **MCU drivers and interrupts**: `BSW`, `BKEL_isr.c` | DMA buffers, the stream buffer, `adc_frame_idx` | interrupt handlers, `BKEL_BSW_ADC_GetValue`, `BKEL_UART_Tx` | command task, diag task | data shared with DMA and interrupts |
| **Client**: `clientapp/testpc` | `self.client`, known MCUs and their services, selections, service list | `connect`, `disconnect`, `on_mcu_select`, `send_selected_service`, `_handle_frame`, `_tick` | the TLS connection | a connect that times out while the gateway still has it; lists that change under the selection |
| `TcpTransport.cpp` | as the TLS transport | | never instantiated | - |
| **MCU start-up**: `main.c`, `BKEL_sysinit.c` | how far it is | `system_init`, `rtos_taskinit` | interrupts that are on before their buffer exists | order |
| `Engine`, `main`, `Config`, `Logger`, `session_test.cpp`, HAL, FreeRTOS | none of interest | | | - |

What makes each part correct: a session belongs to one connection from its start to its end; a
pending request ends with its answer and only with it; nobody waits for an answer that cannot
come; no thread touches an object that is gone; a connection that ends is cleaned up; what is
queued is sent; a parser recovers every intact frame whatever surrounds it; a worker task
serves the packet it was notified of, and its answer leaves in one piece; a connect that failed
leaves no session behind. `PROJECT.json` lists the hazards line by line.

## Modules

```
SessionService (abstract) <---implemented by--- TlsTransport
      ^ implemented by
SessionManager <---extends--- Bridge <------ MCBridge
      ^  ^  ^                    ^
      |  |  MCSessionManager     |
      |  |                       |
      |  SessionManagerProofs <- BridgeProofs
      |
Registration <----+----- RegistrationProofs
                  MCClient
ClientGui <-------+----- ClientGuiProofs

TlsTransport <----- MCTlsTransport,  TlsTransportProofs

Framing <---- PacketParser <----- PacketParserProofs
   ^               ^
   |               MCPacketParser -----> Crc8
   |
   +--------- McuParser <----- MCMcuParser -----> Crc8
                   ^
                   McuParserProofs

McuTasks <-----+---- McuProofs
               MCMcu
McuDrivers <---+
```

### SessionManager
One step per operation of `SessionManager`, since each runs under `mtx_` from its first line to
its last. A member of `Conns` is one connection with its `TlsTransport`, rx thread and Session;
`CidOf` gives the CID it announces, and two connections may announce the same one. `sessions`
is the map, `transport` the life of the transport object (`"none"`, `"accepted"`, `"running"`,
`"leaked"`), `rx` the rx thread (in its loop, or past it and about to call `removeSession`), and
the three queues and the flag are the members of `Session` and `TlsTransport`. A destroyed
object is represented by its initial values, which is what `ReconnectStartsFresh` makes precise.
A frame is its SID, its CID and a history field `from` that no action reads.

`"leaked"` is what becomes of a connection whose CID is taken: `addSession` does nothing, the
`unique_ptr` destroys a transport with `running_ = false`, and the destructor then skips `stop()`.

### SessionService
What the session table promises, without the table: clients join and leave, one per CID; requests
are queued, forwarded by smallest CID, awaited and answered in order. There is no map, look-up,
transport, thread or block flag. `ImplementsSessionService` (in SessionManager) maps its variables:
`live` is the set of running connections, the queues are the queues. That the steps fit is not a
matter of form: `removeSession(cid)` and `forwardToMcu(cid)` find a session by CID, and must find
the session of the very client that leaves or asks. TlsTransport implements the same service at the
grain of its threads.

### Bridge
Composes the session table with the two UART threads, the menu and the MCU as it appears on the
wire; all actions of the session table are reused as they are. `uartTxFrame` is the frame that
`txWorker` has popped and not yet written, `toMcu` and `fromMcu` are the frames under way. The
MCU serves one request at a time: the worker tasks have a higher priority than the command task.
`Faults` says which losses may happen: a failed write or a frame the MCU drops (`"uart_tx"`), a
frame the gateway's parser rejects (`"uart_rx"`), an MCU reset (`"reset"`), and the one request
the MCU may leave unanswered by design, 0x21 without a captured edge (`"pwm_invalid"`). The
history variable `lost` records the clients that lost a request or its answer; properties use it
to say for whom nothing is promised.

### TlsTransport
The same connections at the grain of mutexes and condition variables. `mtx` is the session
table's mutex, held by the accept thread while it starts both threads, by the UART thread while
it hands out a frame, and by an rx thread from `removeSession` until `stop()` has joined the tx
thread and the object is destroyed. `txPc` follows `txLoop`: the loop condition, taking
`txMutex_`, the predicate, the step from the predicate into the wait, the drain loop with its
unlock, the unlocked test of `ssl_` and the write. A notification wakes a waiting thread and is
lost on any other. Writing to an SSL object that `stop()` has freed since the test is undefined
behaviour: the model lets it look like a failed write or end the process (`crashed`). Every
connection has its own CID here; shared CIDs are the subject of SessionManager.

`FreedWriteOnlyInStop` says how far that race goes: only the tx thread that `stop()` is waiting for
can hit the freed object, never one of a running connection. It confines the race and does not deny it.

`ThreadsImplementService` maps this module to SessionService: a client is `live` while it is in
`sessions_`, and what it has yet to get is its `txQueue_`, with one more buffer while the UART thread
holds `mtx_` and has not come to it. So a frame counts as handed to all its receivers when they are
picked, a buffer as received when the tx thread takes it, and a session as gone when its entry is
erased, whatever the tx thread still drains. Requests and answers do not appear at this grain.

### Registration
How a client gets a session, on top of SessionManager's own actions. A program (`Guis`) has at most
one connection in `self.client`; `peer` is the client's end of each connection, `backlog` the listen
queue, `secured` the connections whose handshake is done on the gateway's side. `connect` runs in the
GUI thread (`connecting`), so a program does nothing else meanwhile, and gives up after three seconds
(`wrap_socketFails`), while its connection may stay in the listen queue or with the accept thread.
The accept thread takes one connection at a time and waits in `SSL_accept` and `receivedCidTls` for
as long as it takes; a closed connection ends both. A CID that cannot be parsed leaves a connection
open that has announced nothing (`"silent"`); the first frame it sends then is a request, which
`receivedCidTls` refuses. `Connect` pressed twice replaces `self.client` without closing it
(`abandoned`); `SessionHasItsClient` exempts what this leaves behind and nothing else. A connection that
both ends are done with stands for the next one (`Unused`). `create_connection` fails only when the
listen queue is full, and at once; that it blocks first, or that a host refuses it, adds nothing here.

### ClientGui
The lists of the GUI: MCUs heard of, their services, which of them are online, what is selected and
what the service list shows. All callbacks run in one thread, so each is one step; MCUs go offline
between any two. `tk.Listbox` ignores changes while it is disabled, and `on_mcu_select` fills the
list before it enables it: `stale` marks the time in which the list is that of the MCU before. With
the mouse the second event of the same click repairs it, with the keyboard it lasts until the next
advertisement. The properties hold outside that time and would not notice it. Left out, which only
allows more requests than the program makes: the early returns of `send_selected_service` without a
connection or with a payload that cannot be parsed, and the loss of one list's selection when the other
is clicked (Tk's `exportselection`).

### McuTasks
One processor with four tasks from power-up on. A task takes a step only when no ready task has a
higher priority; two tasks of the same priority may alternate. Interrupts come between any two steps.
`startUp` goes through the stages of `main`, `system_init` and `rtos_taskinit`, which is preempted by
the tasks it creates. A burst of bytes on a USART ends with the idle interrupt, which hands what the
DMA counter tells to the stream buffer; the command task takes it from there, parses it and notifies
a worker with the address of the one `parsed_packet`. `BKEL_UART_Tx` is modelled byte by byte, with
the test of TXE and the write as two steps, first for USART1 and then for USART2. Bytes carry the
frame they belong to and their place in it; contents, the CRC and the 512-byte array, with its overflow
branch (`BKEL_APP_TaskM.c:91-96`), are the subject of McuParser. An RPC function prints one text before it
acts; the further lines that `BKEL_RPC_SPI_Read` prints after each byte (`BKEL_APP_rpc.c:80-84, 92-97`) are
left out. A reset loses everything but what has left.

FreeRTOS appears as the calls the tasks make: who is ready and who runs (`Ready`, `Runs`), notifications
(`xTaskNotify`) and the stream buffer. Its `configASSERT` disables interrupts and loops, so a failed
assertion is `hung`. Three calls assert something that start-up decides: `xStreamBufferSendFromISR` in the
interrupts and `xStreamBufferReceive` in the command task assert that `rxStream` exists, `xTaskNotify` in
`handle_frame` that the worker's handle is not NULL. Each of these actions computes `hung'` from what it
asserts. `AssertionsHold` says that only the first one can fail: the command task preempts
`rtos_taskinit` before the workers are created and may find a whole request, but by then `rxStream` exists,
and `handle_frame` tests the handles (`HandleSet`; without the test TLC finds the command task notifying a
worker that start-up has not come to).

The one thing taken from time rather than order: both USARTs run at the same speed, so USART1 has
become empty by the time the last byte of a frame is written to USART2 (in `txTests`). It is why an
advertisement that was preempted between test and write cannot destroy the last byte of an answer on
USART1, the line to the gateway; on USART2 it can, and `AnswersInOnePiece` says so.

`AnswersInServedOrder` is what Bridge takes from the MCU when it treats the line from it as a queue:
the places where answers begin on a wire map, in order, to the requests in `served`.

### McuDrivers
`BKEL_BSW_ADC_GetValue` against the DMA, which writes two frames in turn and is not stopped by
disabling interrupts, and against its interrupt. A half-word of the buffer is the number of the scan
it was converted in. Time enters once more: the copy is over, and any other interrupt handler is done,
before the ADC has finished `IrqLatency + 1` more conversions of 21 microseconds. `PwmReadsBack`
relates what was asked for to what is read back, with the integer widths of the code.

### Framing, Crc8
The layout of a frame, byte by byte, with `build_frame` and the reads and tests the two parsers
share. The check byte is an operator parameter, `Crc`: what the parsers promise does not depend on
it, and the proofs hold for any. `Crc8` is `calc_crc8`, which the runs use. `Intact(s, p)` is the
reference: a whole frame that passes every test begins at byte `p` of `s`.

### PacketParser
The gateway's `push` and `parse` over bytes. `stream` is everything the UART carries in the end;
a step hands over the next `n` bytes of it, and the turns of the loop in `parse` are steps:
a byte is dropped, a frame is delivered and erased, or the loop ends. `consumed` and `delivered`
are history.

### McuParser
The MCU's `f_handleCommandTask`, `parse_packet`, `parse_one_frame` and `handle_frame`. The array
keeps its old contents behind `rx_len`, `memmove` included, because `parse_one_frame` tests for four
bytes and reads five; at the very end of the array the fifth lies behind it, and any byte may be
found there. `base`, `handled`, `early` and `overflows` are history: where the array is in the
stream, what was accepted and which task was woken, and where the two defects struck.

## Runs

| Run | Instance | States | Shows |
|---|---|---|---|
| `session_manager` | 3 connections, two with one CID; SIDs 0x10, 0x20, 0x21; queues of 2, tx queue of 1 | 978 486 | types, `RxThreadOwnsSession`, `SessionIsLive`, `ReconnectStartsFresh`, `PendingOnlyAnswered`, `ImplementsSessionService` |
| `duplicate_cid` | 2 connections with one CID | violation | the second connection is neither started nor closed |
| `bridge` | 2 clients, diag SIDs 0x20 and 0x21, menu with reset and 0x21, every fault | 1 537 076 | types, `NoOrphanedWait` |
| `bridge_live` | 2 clients, SID 0x21, unanswered requests | 1 191 024 | `WaitEnds` |
| `diag_answered` | 1 client | violation | one unanswered 0x21 hides later answers with another SID, until one with SID 0x21 comes |
| `tls_transport` | 2 connections, queues of 2 | 109 878 | types, `TxJoinedBeforeDestroy`, `StartedBeforeStopped`, `DeliveryHitsLiveTransport`, `FreedWriteOnlyInStop`, `QueuedDataIsSent`, `ThreadsImplementService` |
| `tls_stop` | 1 connection | violation | a lost wake-up in `stop()` blocks the rx thread, and with `mtx_` the gateway |
| `packet_parser` | streams of up to three of eight pieces, in every chunking; payload limit 2 | 40 121 | types, `OnlyIntactDelivered`, `NothingIntactSkipped`, `BufferHoldsLessThanAFrame` |
| `mcu_parser` | 36 streams of up to three pieces, chunks of up to 5, array of 14, payload limit 4 | 35 782 | types, `OnlyIntactHandled`, `LostOnlyEarlyOrOverflowing`, `OverflowOnlyBehindLongFrame` |
| `abnormal_dlc` | the firmware's sizes; five bytes of noise and a request | violation | a request is dropped for a DLC that is not its own |
| `mcu` | five scripts of up to two requests on two USARTs, one advertisement, frames of 3 bytes, DMA buffer of 4, stream buffer of 3; the ADC for five scans; 48 PWM settings | 282 654 | types, `PacketServedAsNotified`, `AnswersInOnePiece`, `AnswersInServedOrder`, `AdvertisementOnlyCut`, `AssertionsHold`, `AcceptedIsServed`; `PairOfOneScan`, `NewestScanReturned`; `PwmReadsBack` |
| `client` | two programs with two connections each, three of which announce one CID; listen queue of 2; two MCUs, two services | 170 395 | types, `SessionHasItsClient`, `ConnectReturns`, `AcceptComesToAll`; `RequestIsOffered`, `ListShowsSelectedMcu` |

`mcu` and `client` each check parts that share no variable (tasks, ADC and PWM; connections and
lists): a step of one part is taken with the others in their initial state, so the parts are explored
one after the other and not multiplied.

**Bounds.** The queues of the code have no limit; `MaxPending`, `MaxQueue`, `MaxTx` and
`MaxWire` bound them in the guards of the actions that add to them. Two pending requests are
what ordering and head-of-line blocking need, two CIDs what the order of `popNextMcuFrame`
needs, two connections on one CID and a third one what the races for a map entry need. Frames on
the wire are bounded by 1 for the safety run, where `uartTxFrame` and the session queues keep
further ones, and by 2 for the liveness run, so that an advertisement never takes the only place
an answer could use; `MenuRoom` and `AdvertiseRoom` allow one menu frame and one advertisement
under way. Payloads, types and lengths decide nothing in these modules and are left out.
The parsers' instances keep the relations of the real sizes: the array holds the longest frame and
a little more, a chunk is shorter than a frame, a false header can announce a frame that the array
cannot hold together with the next chunk. Three pieces are what damage before and after a frame
needs; all ways to cut the stream into chunks are explored.
In `mcu` a burst may be as long as the DMA buffer and longer than the stream buffer, so that both
limits are met; three bytes are the shortest frame with a first, a middle and a last byte; the scripts
(what each USART receives, byte by byte)
have two requests for one worker, for two workers, behind a reset and behind an undefined SID, and the
requests of the two USARTs in every order. Every request is sent once, so that histories tell them
apart. Five scans are two rounds of the DMA buffer and a half. The PWM settings are the edges of its
arithmetic: 0, the first inexact period (36), the last before the overflow (62) and the largest byte.
In `client` the listen queue is full with two, so that a third connect fails; two connections per
program are what reconnecting over a connection that is still being cleaned up needs.

**Symmetry and views.** `session_manager` permutes the two connections that share a CID; they are
interchangeable in every action and property. `bridge` identifies states that differ only in what
the buffers in `txQueue` hold, which neither an action's guard nor an invariant other than the
type reads (and that one is proved).

**Fairness.** In Bridge the UART threads and the MCU's tasks are weakly fair: they loop and take
work whenever there is some. The tx thread of a connection is weakly fair: that this follows from
the condition variable is `QueuedDataIsSent` in TlsTransport. Clients owe nothing. In TlsTransport
every thread is weakly fair in what it can do alone and strongly fair in getting a mutex that
others keep taking and releasing. Spurious wake-ups may happen and are never owed, and so are
connections, disconnections and frames from the MCU. Clients are taken to read what they are
sent (an `SSL_write` ends).
In McuTasks the processor is weakly fair as a whole (some task that may run does: that the right one
gets the time follows from the priorities) and each USART shifts its bytes out; bytes, and the end of
the advertiser's delay, are not owed. In Registration the accept thread is weakly fair in what it can
do, the time limit of `connect()` passes (`wrap_socketFails` is the only way on when the gateway does
not answer) and the announcement follows the handshake; nobody has to press a button, and a silent
client owes nothing.
Bridge and Registration take each operation of the session table as one step, which assumes that `mtx_` is
released in the end. `tls_stop` shows when it is not: a wake-up lost in `stop()` leaves `mtx_` locked for
good, and then neither `addSession` nor the UART threads go on. So `WaitEnds` and `AcceptComesToAll` hold
for a gateway in which that deadlock does not happen; they say nothing about one in which it has.

**Deadlock.** The TlsTransport runs do not check for deadlock because a crashed process stops for
good, the parser runs and `mcu` because the UART may fall silent (and because a failed assertion stops
the MCU); the other runs do.

## What the code does that its documents do not say

The four violations are recorded as findings, each with the line it contradicts: a duplicate
CID (`SessionManager.cpp:32` against `ALL_APP_API_SPEC.md:168`), head-of-line blocking
(`SessionManager.cpp:125` against `README.md:41`), the lost wake-up in `TlsTransport::stop()`
(`TlsTransport.cpp:35` against `ALL_APP_API_SPEC.md:219`), and the header test of the MCU's parser,
one byte short (`BKEL_APP_protocol.c:202` against `ALL_APP_API_SPEC.md:216`). 
A comment at `SessionManager.cpp:124` describes a comparison of the answer's CID with the session's
that the code does not make. It would not work as described, since answers carry the MCU's CID: it is
the mutant of `NoOrphanedWait`.

`NoOrphanedWait` is the other side of head-of-line blocking: the queue of a session whose own
frames all get through never goes out of step, however many answers to others, to the menu or to
closed sessions pass by. An answer to somebody else may be taken for one's own (same SID); the
real one then finds nobody waiting. That is why the property speaks of the last requests on the way:
more may be on the way than is waited for, never less.

Three further behaviours have no line that denies them and are part of the models as they are. Bytes
that reach the MCU between the enabling of the receive interrupts (`BKEL_sysinit.c:182`) and the
creation of `rxStream` (`BKEL_APP_TaskM.c:182`) fail an assertion and stop it; `AssertionsHold` says
that no other assertion fails. A period of 63 kHz or more is read back wrongly (`BKEL_BSW_pwm.c:39`). A
program whose user presses Connect twice keeps a session it cannot use, and its new connection is the
duplicate of the old one (`gui.py:109`); `SessionHasItsClient` says that this is the only way.

## Proofs

TLAPS proves, for every set of connections, every assignment of CIDs and all bounds, from the
assumptions on the constants named in the modules (`NoConn` is no connection, CIDs and SIDs are
natural numbers, bounds are positive; in Bridge, frames may carry the CIDs and SIDs in use):

- `SessionManagerProofs`: `TypeCorrect`, `OwnSessionOnly`, `LiveSessionsOnly`,
  `FreshAfterReconnect`, `PendingAnsweredInOrder`. The inductive invariant `SessionInv` is the
  conjunction of the three ownership properties: that an rx thread finds its own session needs
  that every map entry is a running connection of that CID (so that a removal cannot hit
  another's), and a fresh start needs both. The action property follows from it, since a request
  may only vanish in `routeUartRxBySid` or with its session. `ServiceImplemented` is the refinement:
  with `SessionInv`, the session found under a CID is that of the client the abstract step is about,
  and a client that joins has empty queues.
- `BridgeProofs`: `BridgeTypeCorrect`; `BridgeImplementsSessionManager`, that every step of the
  gateway is a step of the session table or leaves it alone; and `BridgeKeepsSessions`, which
  carries the theorems over, the abstract service included. `NobodyWaitsInVain` is `NoOrphanedWait`,
  for any number of clients, whatever is lost. A session's SIDs are matched with its own requests among
  the frames on its path (`fromMcu`, `toMcu`, `uartTxFrame`, its own queue, oldest first) by an
  increasing map that leaves out none from the first on. The inductive invariant `BridgeInv` says this of
  every connection that has lost nothing, registered or not (`AwaitInv`), and adds that a
  session's queue holds its own client's frames (`OwnQueueInv`), that nothing blocks a session
  (`OpenInv`) and `SessionInv`, by which a closing connection takes down its own session and no other.
  The lemmas say what a step may do to a path: frames of others come and go (`OthersChange`), a
  request is added at the end (`OneMoreRequest`), moves on or becomes its answer (`RequestBecomesAnswer`), and
  the first frame leaves, with its SID if that was waited for first (`FirstAnswered`) and without if
  an answer to somebody else has served it before (`FirstGone`).
- `TlsTransportProofs`: `TlsTypeCorrect`, `TxThreadOutlived`, `StopFindsThreads`, `DeliveryIsSafe`,
  `FreedWriteConfined`. The inductive
  invariant `TlsInv` adds to the goals who holds `mtx_` in which control state (`LockInv`), how
  the life of the object follows the control state of the rx thread (`LifeInv`), how far the accept
  thread is when an rx thread exists (`StartInv`), and that the UART thread's targets are in the
  table as long as it holds `mtx_` (`TargetInv`). `SslInv` adds in which control states the SSL object
  exists. `DataWakesTxThread` is the safety part of `QueuedDataIsSent`: a tx thread that sleeps on data is
  about to be notified. `WakeupInv` adds who holds `txMutex_` and that a thread goes to sleep on an empty
  queue; that stop() sets `running_` without the mutex is what keeps the same from holding for its
  notification. `ThreadsServe` is the refinement `ThreadsImplementService`. One lemma per kind of step says
  which step of the service it is (`JoinStep`, `LeaveStep`, `ReceiveStep`, `InformStep`) or why it is
  none (`SendStep`, `StutterStep`); `LockInv` and `TargetInv` are needed for frames that are handed out
  one by one, since nobody joins or leaves meanwhile.

- `PacketParserProofs`: `ParserTypeCorrect`, `DeliveryIsFaithful`, `ResyncLosesNothing`,
  `BufferIsBounded`, for every byte stream, every chunking, every payload limit below 2^16 and every
  check byte. The inductive invariant adds `BufferIsWindow`: the buffer is the part of the stream
  between what was consumed and what has arrived. The lemmas carry the parser's tests from the front
  of the buffer to the place in the stream (`WindowFrame`), and show that erasing and appending
  move the window (`WindowErase`, `WindowAppend`). A dropped byte then does not begin an
  intact frame, and a delivered one covers all bytes erased with it.

- `RegistrationProofs`: `RegistrationImplementsSessionManager`, `RegistrationTypeCorrect` and
  `NoSessionLeftBehind`, for any number of programs and connections. `ClientInv` says that a
  connection being made is the one its program waits for (`ConnectingInv`), that an announced one is
  in use or was replaced (`AnnouncedInv`), and that a transport runs only for a client that has
  announced itself (`RunningInv`). The refinement brings in `LiveSessionsOnly`: a session in the table is
  a running transport.
- `ClientGuiProofs`: `ListIsOfSelectedMcu` and `OfferedRequestsOnly`, for any MCUs and services. The two
  are inductive together: what is requested was selected in a list, and the services of an MCU only grow.

- `McuParserProofs`: `McuParserTypeCorrect`, `HandledIsIntact`, `LossIsConfined`,
  `OverflowNeedsLongFrame`, for every byte stream, chunking, array size, payload limit and check byte. The
  inductive invariant `McuInv` adds to the goals that the filled part of `rx_buf` is the stream from
  `base` on (`WindowInv`), what the parser waits for between two chunks (`WaitInv`: an overflow can only
  be behind a header that announces more than the array has left) and that frames are handled in the
  order they came in (`HandledInv`). Nothing is assumed of the bytes behind `rx_len`, so that the byte
  read too early may be any.
- `McuProofs`, tasks: `TasksTypeCorrect`, `PacketIsShared`, `TasksKeepAssertions`, `AnswersStayWhole`,
  `AnswersKeepOrder`, `AdvertisementsOnlyCut`, for any requests, scripts, frame lengths and buffer sizes. `PacketInv` says that either all
  notices are served or one worker has the packet as it is now; that no step breaks it needs the
  priorities, since the command task may parse only when no worker is ready. `TasksKeepAssertions` is inductive
with the type of `boot`: a task that runs exists, and what exists was created after `rxStream`. `SenderInv` says that, apart from an
  advertisement, one task at a time is in `BKEL_UART_Tx`. About the wire the invariant speaks of what
  has been sent together with what is in the data register (`Sent`): where a frame in one piece goes on
  (`PieceInv`), what a byte follows (`FollowInv`), how much of a frame is out (`ProgressInv`, `DoneInv`), the order in an
  advertisement (`OrderInv`), and which byte an advertisement that was interrupted between test and write
  can overwrite, the last of an answer on USART2 (`RegisterInv`). The order of answers needs that the
  diag task answers the request served last (`AnswererInv`) and that no answer of that request has begun
  on a USART before it writes its first byte there (`AnswersOn`).
- `McuProofs`, drivers: `AdcPairIsWhole` and `AdcPairIsNewest`, for any number of scans. `AdcInv` follows
  the DMA: which frame is complete and with which scan (`BufInv`), what the interrupt has announced or
  still has to (`FlagInv`), and that with interrupts off the index names a complete frame that the DMA
  does not reach (`MaskInv`). This rests on `LatencyAssumption`, `IrqLatency <= 1`: a conversion takes 21
  microseconds (239.5 cycles of sampling and 12.5 of conversion), so at most one ends while the few instructions of the copy run
  with interrupts off, or while another handler delays the DMA's. With 2 TLC finds a mixed pair.
  `PwmIsReadBack` is proved for all settings, from bounds on what integer division loses (`DivBounds`).

Every invariant that a passing run checks is now also a theorem.

**Only model-checked**: liveness (`WaitEnds`, `QueuedDataIsSent`, `AcceptedIsServed`, `ConnectReturns`,
`AcceptComesToAll`), which is beyond the prover; and what `calc_crc8` computes, which is a
recursion over data (the proofs about the parsers hold for any check byte).

## Not modelled

Of the repository's 124 000 lines of code, about 4 500 are its own; the rest is the vendored STM32 HAL,
CMSIS and FreeRTOS. Of these only the calls of FreeRTOS that the tasks make are modelled (the choice of the
task that runs, notifications, the stream buffer, and what they assert); the rest would not help. Of the repository's own code these parts are left out:

- opening and configuring the listening socket, certificates and the UART, `UART::stop` and
  `TcpServer::shutdown`: `main` never returns, the process runs until it is killed;
- `TcpTransport` and `TcpServer::receivedCid`, which are compiled and never used, and with them the
  ban list, which only `TcpTransport` fills; `session_test.cpp`, which is not part of the build;
- logging, configuration (`max_connections` and `timeout` are read and never used), `onFrameArrived`;
- `FrameCodec`: the client reads frames of the gateway's encoder from a TLS stream, which neither loses
  nor damages bytes, and checks nothing; the mock server; the log, history and payload texts;
- pin, LED and SPI drivers and the captured PWM input: single register accesses; other register set-up;
- the sequence number in the low bits of the MCU's CIDs, which two tasks increment without a lock: no
  receiver reads it.

The queues of the gateway have no limit in the code, so there is nothing to check about a client that
does not read; the models bound them.

## Plan

What could be added:

1. The invariants behind the liveness runs of Registration and Bridge, as `DataWakesTxThread` is for the
   tx thread: what each step of the accept thread leaves for the next.
2. `McuTasks` and `McuParser` share the command task at two grains; a refinement between the two would say
   that the byte-level parser implements the frame-level one when nothing overflows.
