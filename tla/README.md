# BLE parking gateway: a TLA+ model of its programs

The repository holds three groups of C programs that run side by side on one
gateway board:

```
 phone / car  <~~BLE~~>  dongle  <--UART-->  BLE_Scanner process
                                               |  UartCmdRxThread: bytes -> events -> queues
                                               |  CentralModeThread: scan, link, bond
                                               |  pipe_0000_Thread, Forward_MSG_Queue_Thread
                                               v  System V queues (kernel; they outlive the process)
 broker  <--MQTT-->  mosquitto_sub  --queue 123456-->  (nobody)
 broker  <--MQTT-->  mosquitto_pub  <--stdin
 user --> led_manager --fifo--> led_controller --> LEDs
```

Paths below are relative to `src/`.

## 1. Inventory

| component | state it keeps | operations | hard because |
|---|---|---|---|
| Serial receiver: the byte loop of `UartCmdRxThread` (`BLE_Scanner/src/UartCmdRxThread.c` 46-116) | `current_state`, the 8-bit `index`, `count`, `rx_packet`, `rx_byte` | one byte of the line per turn | lost bytes, failed reads, a wrapping index, a state without a case |
| Event router: the rest of `UartCmdRxThread` (116-298) | the queue ids, the connection table | route an event to a queue, print it, acknowledge a write request | blocks on a full queue; everything behind it waits |
| Message queues (`Msg_Def.c`) | the kernel's queues | `sys_mq_send`, `sys_mq_recv`, both blocking | bounded, and not emptied by a restart |
| UART driver (`UARTDriver.c`) | a file descriptor | open with flush, write | a write may fail; two threads write without a lock |
| Central (`CentralModeThread.c` 657-945) | `current_state` of its machine, the address found | boot commands, scan, cancel, link, bond | answers are recognised by position; no timeout; results of functions without a return statement |
| Forwarding (`pipe_0000_Thread`, `Forward_MSG_Queue_Thread`) | `Conn_Device_List`, `Slave_Count`, the retry count | turn a peer's write into a message, send messages on, wait for the status | four queues in a circle, statuses matched by position |
| LED controller (`LED_Manager`) | `GPIO[4]` (state, flag), the fifo, a block of six bytes | parse a block, drive and mark the LEDs | two threads on a table without a lock; requests of five to seven bytes read in blocks of six; a number parsed from a buffer with an unset byte |
| `mosquitto_pub` (`pub_client.c`) | `mid_sent`, `last_mid`, `last_mid_sent`, `status`, `connected`, the line buffer | read a line, publish, callbacks for connect, disconnect, publish | main and the library's thread without a lock; ids that start again; a buffer that grows |
| `mosquitto_sub` (`sub_client.c`) | `process_messages`, `msg_count`, the queue | connect and message callbacks | posts, blocking, to a queue nobody reads |
| MQTT configuration (`client_shared.c`, and the way in and out of both `main()`) | `struct mosq_config`, `message`, `msglen`, the library and its client | config file, options, checks, proxy url, load the message, make an id, hand over the settings, connect | options that exclude or need each other come in any order from two places; most calls may fail; what is read may change or stop half-way |
| `SetParamValue` (`BLEParameters.c`) | - | command and its status | nothing calls it; not modelled |
| GPIO access, error table, command builders nothing calls | - | shell commands, constant data | pure I/O and data; not modelled |

How they interact. `main()` of the scanner (`VVDNBLEMeshStack.c` 37-62) opens
the port and starts `UartCmdRxThread` and `CentralModeThread`; nothing starts the
two forwarding threads in this build. The threads share the serial port and meet
in queues: Central writes commands and reads its answers from COMMANDRESP, which
the receiver fills. The LED programs meet in a named pipe. The MQTT clients are
separate processes; the subscriber means to feed the forwarding thread's queue.

What makes each correct:

* receiver: events arrive whole, once, in order; after a fault it finds the next boundary;
* router: it never stays blocked while somebody still needs it;
* Central: the link is requested only when the radio has stopped scanning, and
  pairing starts only on a report of this link; no answer is waited for that
  nobody will send;
* forwarding: the status that is read belongs to the notification just sent;
* LEDs: only what was asked for, and all of it, reaches the pins;
* publisher: it ends when everything read is acknowledged, and publishes lines as they are;
* subscriber: exactly the wanted messages, and an end after `-C` of them;
* configuration: what was declared is what is accepted, whatever the order, and what the
  library is told; the message is sent whole; whatever fails, the library is cleaned up.

## 2. Modules

| module | models | abstract specification |
|---|---|---|
| `UartFraming` | the byte loop, per byte, with the line in front of it | `FrameLink`: events sent are delivered once, in order, eventually |
| `EventRouter` | the chain of conditions: a function from event to queue | |
| `BleScanner` (extends `EventRouter`) | Central, router, dongle, both directions of the line, queues, restart | `GapSession`: boot, search, stop, link, bond against what the radio does, and again after a restart |
| `Forwarder` | the two forwarding threads, the table, and everything that shares a queue or a thread with them: the router with the queues of Central and of the ping monitor, Central as far as it reads, bonds and writes, a restart | |
| `LedController` | `led_manager`, the fifo, the parser, the processing thread | |
| `PubClient` | `mosquitto_pub` with its library and broker | |
| `SubClient` | `mosquitto_sub` with its library and broker, and its queue across runs | |
| `SocksUrl` | the proxy url: one pass over its characters, and its escapes | `Readings`: what a url of the documented form says |
| `MqttConfig` (extends `SocksUrl`) | `client_config_load`: options of the file, then of the command line, then the checks | |
| `ClientStart` (extends `MqttConfig`) | both `main()` around their loops: configure, load, library, id, settings, connect, take down | `LibraryUse`: the order in which libmosquitto asks to be called |
| `UartFramingProofs`, `BleScannerProofs`, `ForwarderProofs`, `LedControllerProofs`, `PubClientProofs`, `SubClientProofs`, `ClientStartProofs` | theorems about the module of that name | |
| `BleSessionProofs` (extends `BleScannerProofs`) | theorems: Central implements the session; what it waits for | |
| `MC*` | small instances for TLC | |

Correspondence. A module has one action per handler or per state of a state
machine, under the source's name where TLA+ allows it (`Device_Scan_Rsp`,
`Notify_data`, `my_publish_callback`); variables carry the source's names
(`current_state`, `mid_sent`, `Slave_Count`). Variables the comments call *ghost*
only record history for the properties and guard nothing. `PROJECT.json` maps
every definition to its lines. Definitions introduced as "Mutant of X" are
variants of X with a plausible mistake in them; they are used in no
specification, and show that a property notices the mistake.

Points that need the source at hand:

* **Missing return statements.** `Device_Scan_Rsp`, `Device_Scan_Data`,
  `Device_Establish_Link_Rsp` fall off their end on some paths. The Makefiles build
  without optimisation, where the result is then what the last comparison left in the
  register. `ScanRspResult`, `ScanDataResult` and `LinkRspResult` say which value that
  is on every path. An advertising report that does not match leaves an arbitrary
  byte (the bound `bytes` of `BleScanner`): 1 looks like the end of the scan, 2 like a match.
* **Unset memory.** `Led_Controller` copies two digits into `char value[3]` and never sets `value[2]`, so that
  `sscanf` may read on: `behind` in `LedController` is what stands behind them, chosen once (it is a local of
  a thread that never returns) from the constant `Leftovers`; a number of one digit is terminated. `data_led()` indexes its packet with
  an unset variable: the packet it means, none, or the end of the process.
  The router reads `rx_packet` at fixed places, whatever was received: of an event shorter than those, the bytes there are
  of events before it. `PacketDone` in `UartFraming` puts out what was received; `EventRouter` takes
  events that are long enough, as the dongle sends them.
* **Atomicity.** An action reads or writes at most one thing another thread
  can see, or its intermediate states can be seen by nobody. Where the code does more,
  there are several actions: the receiver queues a write request, then acknowledges it
  (`RouteEvent`, `data_ack`); the LED thread tests, drives and marks in steps
  (`TestOn`, `MarkExecuted`); the publish callback stores the id and then compares it
  (`Acknowledged`, `my_publish_callback`). In `pipe_0000_Thread` receive and send are
  one step: the message in its hand counts as still in the queue.
* **The dongle, the broker and libmosquitto** are outside the repository. They
  are modelled by what the code relies on: the dongle answers every command with a
  command status and scans end; the broker acknowledges in the order of publication
  (as MQTT demands within a QoS); libmosquitto's thread connects again until
  `mosquitto_disconnect` is called.
* **One option is one step.** `opt` and `value` in `MqttConfig` are the words at the front;
  an option whose value is missing, not allowed, or that belongs to the other program is
  `BadOption`. The command line is a sequence of settings, fetched when the next word of
  `argv` is looked at (`NextArgument`), so that an option without its value takes the next
  word for it as in the code. The tables (`Text`, `Numeric`, `Flag`, `Source`) stand for the
  branches that differ only in the field and the limits. A message's text, a topic and a number are words;
  which topics are valid and what a word is as a number are constants. Exit status 1
  stands for every error.
* All optional features are taken as compiled in (TLS, PSK, SRV, SOCKS): the makefiles leave
  it to the build.
* `ble_status` is a `uint8_t`, so the test `== -1` of Central's scan state is
  never true; the status of LINK_ESTABLISHED is never looked at.

## 3. What the runs check

Every run is exhaustive for its bounds. Deadlock checking is off where the
bounds let the environment stop or where the code itself may stop for good (Central
after `bond()`, a program that ended); the LED system never stops and is checked for
deadlock.

### uart_link (`TypeOK`, `Delivered`, `ImplementsLink`)
Three events out of seven kinds on a line without faults, `index` modulo 8 for 256, payloads
with both packet type bytes in them and of sizes on both sides of the wrap.
`Delivered` says what the router is given: an event that fits as it is, one that does
not as its bytes past the wrap, with no damage to its neighbours. `ImplementsLink`
adds that every event arrives eventually. The loop has no memory beyond one
packet, so three events in a row show every influence of one on the next.

### uart_lossy (`OnlySelfDelimited`, `WedgedBehind02`, `StaysInSync`)
Two faults (a lost byte, or a failed `read()` that runs the old byte again), `index`
modulo 8, and events with an empty payload, which swallow the next byte, or longer than the index counts.
What is taken for a packet never contradicts its own length byte, and the router is given those bytes,
or the last ones when the index wrapped (an action property: the ghost `held` keeps all bytes
stored since the parser was idle, also those the wrapped index writes over); once in step the parser
stays in step; it is wedged in `STATE_ERROR` only behind a 0x02. That it *may* never get back in step by itself is not
excluded: nothing in the code looks for a gap.

### scanner (`TypeOK`, `WaitsForAnAnswer`, `BondsOnReport`, `NoScanWhileLinking`, `FollowsSession`, `SearchGoesOn`, `RouterGetsOn`, `LinkTargetMatched`)
Four kinds of behaviour in one run (`RunBounds`): one run of the process with three reports, two events of the
link out of all its peer can send, one failed write and every last byte a report may leave (`OneRun`); two
restarts over queues that survive them, with two reports (`Reruns`); one restart with a failed write and one
report (`FaultRerun`); and one restart with one report and three notifications or MTU requests of a peer whose link
outlives it (`LinkRerun`), which is more than a queue holds, so that a queue filled by the first run stops the router in
the second. Queues hold 2, the line 4 in each
direction. A line of 3 would fill in both directions and let everybody wait for everybody,
which no serial line does. Queues of 157 (the kernel's default for 104-byte messages)
differ from 2 in how long it takes to fill them.

`FollowsSession` is the refinement to `GapSession`, also across restarts: a run keeps the session
unless it starts with the end of a cancelled scan still in the queue (`inherited`). `WaitsForAnAnswer` names the ways in which Central waits for ever: a cancel that comes
after the end of the scan, a link that came to nothing, and a scan the dongle refuses because the
write of `GAP_DeviceInit` failed: behind an old queue Central then takes an old status for the answer
(`unready`, which needs a restart and a fault).

The two liveness properties say that no scan hangs, and that a full queue stops the router for good in two cases only:
Central has left for `bond()`, where it spins and reads no more; or (`HeldByPeer`) a link has outlived the run
before, and its peer's queue, which nobody in this build reads, is full, so that the next notification holds the router while Central
boots or scans. Without that exemption TLC finds `RouterGetsOn` violated in `LinkRerun`.

Central cannot tell an old message from a new one. `BondsOnReport` and `NoScanWhileLinking`
show that the only old message that misleads it for good is the end of a cancelled scan;
without that exemption TLC needs two restarts and more than fifty steps to find the violation.
`LinkTargetMatched` exempts the byte 2, with which a report that does not match counts as a match, and runs that
began with a link up or with its peer's MTU request (0x0502) still queued (`linked`): read in the place of a report, its
low byte 2 passes for a match as well, and the link is asked for with an empty address. That case takes four
messages of older runs in the queue, three restarts and about two million states, and is outside this run's bounds; with
queues of 4, three restarts, two reports and one MTU request TLC finds it when the exemption is dropped. That no other case exists
is the theorem `TargetMatched`, for all bounds.

### forwarder (`TypeOK`, `StatusesAccountedFor`, `RoundEnds`, `RouterHeldOnlyBy`)
Five instances in one run (`AllBounds`), with RETRY_COUNT 2 for 4 and queues of 1: two links, one of which ends, as
`Slave_Count` is set by that alone, so that a message of the cloud goes round the table (`TwoLinks`); statuses that
reset the count or that the code does not know, with a failed write (`OddStatuses`); four messages at once, the least with
which every thread can be waiting for the next (`FourMessages`); four for the queues of Central and of the
ping monitor (`Others`); and a restart over what the first run left in the queues, with Central in `bond()` and a failed
write (`Rerun`).

`StatusesAccountedFor` is exact: the statuses on their way are that of the notification that is waited for,
and those of the writes nobody waits for (`aside`: the two of `bond()`, the two of a peer's write sent back, and what an
earlier run left), less one for each notification that was not written (`lost`). Only while both are 0 is the
status that is read that of the notification just sent; from the first on, every later one is judged
by an older status.

`RoundEnds` says that no message of the ping monitor or of a peer holds the forwarding thread for good, and
names what may: statuses without end that the count does not see (NO_RESOURCES sets it back to 0, and one that the
switch at UartCmdRxThread.c 408 does not list leaves it as it is), a router that is held up for good itself, and
a status that nobody is going to send. Messages of the cloud are outside the property: their retries are not counted at all.

`RouterHeldOnlyBy` names what alone blocks the router for good: a queue nobody reads any more (`NotRead`: that of
Central in `bond()`, that of a ping monitor that does not run), statuses that no thread has a reason to read
(`Starved`), and a circle of waits (`Circle`) in which the awaited status stands behind a peer's
event that has no room. The ping monitor is only declared in the repository, so that it may read but need not.

### forwarder_all (`ForwardedToAll`, violated)
"This loop will forward the message to all the BLE connections" (UartCmdRxThread.c
381), but `Notify_data` writes connection 0 into every packet.

### led (`TypeOK`, `OnlyWhatWasAsked`, `ArrivesUnlessCrowded`, `ExecutedUnlessRaced`, `LevelIsReached`, `Blinks`)
Two LEDs, three requests, with the numbers 1, 00 and 100: of one, two and three digits; the parser
refuses the last. Behind two digits the stack holds nothing, or a 7: 00 is then LED 0, or 7, which
is none. `OnlyWhatWasAsked` is about the digits that were asked for, and what stands behind them: nothing in the
repository says that the LED that is changed is the one named, and with an unlucky stack it is not. Requests may
be lost when written behind an unread one of another size (`crowded`), and a level may stay
undriven when it comes between driving and marking (`raced`); in all other
cases it is driven and, if left to toggle, the LED blinks for ever. Three requests are
enough for two odd ones to shift the block of a third.

### pub (`TypeOK`, `DisconnectsWhenSent`, `SentButForGap`, `ExitStatus`, `PubEnds`)
All five modes; inputs of up to four lines, with lengths of zero, one, two and three blocks
of 3 characters (1024 in the code); ids modulo 3; two refused or lost connections; one
failing publish. `DisconnectsWhenSent` exempts an id that was taken again while in use
(65535 lines ahead of the broker). `SentButForGap` says exactly which
characters of a line get lost. `PubEnds` exempts a client with `-l` that published nothing, and
one whose connection ended unasked: main then joins a thread that goes on.
Only the last line of the input may lack its newline, and no line has a NUL in it.

### pub_exits (`Exits`), pub_line_is_message (`LineIsMessage`), both violated
With `-l` and empty input the client never ends (`-1` against `0`); a long line after
another long one is published without its middle (`pos` moves by 1023 whatever was read).
A last line without a newline is read and dropped, too (pub_client.c 412), without a run of its own.

### sub (`TypeOK`, `FirstWanted`, `StatusTells`, `CountEnds`)
Five ways to call the client, two losses (a connection refused or lost, or a topic that `mosquitto_subscribe` fails for,
which the callback does not look at), one more run on the same queue. A callback that finds the queue full is
`BLOCKED`: it never returns, not even to notice a lost connection. The messages
handled (`handled` has their places among those received) are the first `-C` ones that are wanted,
whatever is still read after the disconnect and however often the subscriptions had to be made again; and nothing but
the full queue, or a topic that failed to be subscribed, keeps it from ending. A message without a payload counts too, without
`-v`, though nothing is printed or posted. The broker goes on publishing wanted messages.

### sub_ends_after_count (`EndsAfterCount`, violated)
`-C` promises to "disconnect and exit after receiving the 'msg_count' messages"; the
callback blocks for ever once queue 123456 is full. `sub_client.c` 38 defines the key
anew, so the thread that should read it waits at 2004.

### client_start (`TypeOK`, `AcceptedAsDeclared`, `ProxyAsWritten`, `SettingsReachLibrary`, `LoadedWhole`, `UsesLibrary`, `StartEnds`)
The calls are made of themes: sessions and ids, security, will and user, sources of the
message, network. Of each, up to three (or two) options in every order, split in every way
between file and command line, with values inside and outside every limit; every pair that
excludes or needs each other is in one theme. Urls: every text of up to six of `:`, `@` and a
digit, of up to four with a letter and `%40`, and every user, password and port in a full url,
with each escape. Inputs of 0 to 4 bytes, blocks of 2, messages of at most 3, and a file that
changes its length twice while it is read; reading may fail, and so may every call whose result is looked at, with the
allocations of the line buffer and of the config file's name. What `strdup` and `realloc` return for a single
option or a part of the proxy url is not looked at in most places; they are taken to succeed.

* `AcceptedAsDeclared`: whether settings are accepted depends on what they are, never on their
  order or place, and the last value counts, the command line's before the file's.
* `ProxyAsWritten`: a url is accepted exactly if it says something (`Readings`), and what is taken is what
  it says. The parser is laxer than the documented form in three ways, which are in `Readings`: colons in
  a password, colons in the text of a port without a user, no port after the colon with one. `%40` in
  the user's part becomes `:` where the comment on the function has `@` (client_shared.c 780
  and 810); the property exempts it.
* `SettingsReachLibrary`: every setting of the connection that has a value is in a call made before the loop
  (`--insecure`, `-S` and the like, which have none, are conditions in it and no clause of their own).
  Without effect (`WithoutEffect`), and accepted without a word or with a warning: a password without a
  user, a certificate without `--cafile` or `--capath`, a PSK identity without a PSK, a
  will's QoS without a will, a port with `-S`. A session is persistent only under the user's own id.
* `LoadedWhole` and `StartEnds`: what is sent is all there was. Two reads never end (`Endless`):
  `load_file` when the file became shorter than `ftell()` said or reading fails, and `load_stdin` when reading fails
  after the first bytes. When it fails before, the second `realloc(message, 0)` frees
  the buffer and `free(message)` does so again.
* `UsesLibrary`: the refinement to `LibraryUse`. Every failure after `mosquitto_lib_init()` cleans
  up, once; a client that was made but not connected is left to the end of the process. The one
  way around it is the return from the middle of the loop when there is no memory for
  a line (`Abandon`).

### Fairness

Weak fairness only, and only for what the platform schedules: the threads of a process
(the kernel schedules every runnable thread), the library's callbacks, the dongle's
answers and the end of a scan (its timeout). Nothing is assumed of users, peers, lost
connections, or links: `LinkOutcome` is not fair. In `client_start` only
`main()` is fair; nobody has to change the file. For `sub` a broker that goes on
publishing is assumed, as `-C` waits for it by design. An action that waits for room in
a queue is disabled while there is none, so fairness never pushes a blocked thread on.

## 4. What is proved

All safety properties the passing runs check, `FollowsSession` and `UsesLibrary` among
them, are theorems of the specifications, for all values of the constants. The assumptions are the
ASSUMEs of the modules, which TLC evaluates on every run, and those a theorem states. Every
proof has the same form: an invariant that holds initially and that each action keeps, one lemma per
action or thread, and the property as a consequence. What each invariant has to say is below.

`UartFramingProofs`, for every byte set, frame set, index width above 3 and bound:

* `TypeCorrect` (`TypeOK`): `TypeInv`, the type invariant with the facts about the line it needs
  (a frame under way has at least one byte left).
* `WedgedOnlyBehind02` (`WedgedBehind02`): inductive with `Leading02`, which says that in
  `INIT` and `ERROR` everything stored so far is 0x02.
* `SelfDelimitedOnly` (`OnlySelfDelimited`): needs `Stored` (the index, where it has not wrapped, is the
  number of bytes held, and `rx_packet` has the last of them at their places) and `Parsed` (what each
  state of the parser knows of the bytes held: how many packet type bytes lead, where the length
  byte is, how many bytes `count` still asks for).
* `ResyncLasts` (`StaysInSync`): an action property, from `InSyncStep`, the lemma that one byte of a
  well-formed event keeps the parser where the line is, and emits the event at its end.
* `WholeDelivery` (`Delivered`) and `LinkRefined` (every step is a step of `FrameLink` or a
  stutter, the safety half of `ImplementsLink`): under `AllWellFormed` (each event has a payload and fits
  the index), and `LinkRefined` also without faults. The inductive invariant is `Faithful`: until the first
  fault the parser is in step *and* has delivered what left the line. Being in step alone says
  nothing about the past, what was delivered alone nothing about the byte under way.

`BleScannerProofs` and `BleSessionProofs`, for every capacity of line and queues and every bound on
reports, traffic, faults and restarts. `Elems(q)` is what a queue holds, `Behind(q, C)` what it
holds behind an element of `C`; these two are enough to follow messages through the line, the router and
the queue without their positions.

* `TypeCorrect` (`TypeOK`): neither the line nor a queue ever holds more than its capacity.
* `NeverLinksWhileScanning` (`NoScanWhileLinking`): from `CommandInv` (which commands may be under
  way, and which not behind which, in each state of Central) and `EndInv` (once the end of a cancelled scan is
  under way nothing starts another one, and Central asks for a link only when it has read that end).
* `BondsOnlyOnReport` (`BondsOnReport`): also needs `AnswerInv`: until the dongle has reported on a link
  everything behind the end of the cancelled scan is `Quiet`, i.e. not taken for a report, in the
  queue, on the line and on the way between them.
* `TargetMatched` (`LinkTargetMatched`): `MatchInv`, a 2 in the place of a match comes from a
  report that left one behind, or from an MTU request, which is in the queue, on the line or still to come only while a link is up, or in
  a run that began with one (`linked`).
* `ImplementsSession` (`FollowsSession`): every step of Central, router, dongle and restart is a step
  of `GapSession` or a stutter. `SessionInv`, the conjunction of the above, is what tells the
  radio's steps apart: the dongle starts to scan or connect only for a request Central has made and not gone
  beyond.
* `WaitsForAnswers` (`WaitsForAnAnswer`): `WaitInv` says of each state that waits that the request,
  its answer, or what the dongle does on it, is still under way. A first version without
  `unready` was not inductive; TLC then found the behaviour, and the property names it.

`ForwarderProofs`, for any number of peripherals and retries, and any bound:

* `TypeCorrect` (`TypeOK`).
* `StatusesExact` (`StatusesAccountedFor`), inductive as it stands: commands, statuses on the line and statuses queued are one
  sum that dongle and router leave as it is, and a restart counts what it finds.
* `StatusIsItsOwn`: while nothing was written that nobody waits for and no notification was lost, a status in
  WRITE_RSP is that of the notification just sent, and the only one.
* `NoOtherDeadlock`: when everyone waits (`AllWait`: no command before the dongle, and each of the four threads
  without a message, a status, or room), everything is done, or the router waits for a queue nobody
  reads, or in the circle that `RouterHeldOnlyBy` names, or with a status after more than `QCap` writes nobody waits
  for, or the forwarding thread waits though more notifications were lost than such writes made. It is
  what is safety in `RoundEnds` and `RouterHeldOnlyBy`, with Central, the ping monitor's queue and restarts in it.

`LedControllerProofs`, for any number of LEDs, any requests and any bound:

* `TypeCorrect` (`TypeOK`), and `MarkedIsExecuted` (`ExecutedUnlessRaced`): inductive with
  what the processing thread knows between driving and marking (an LED that is being marked was
  driven to the level its state asked for when tested, unless raced).
* `ChangesOnlyWhatWasAsked` (`OnlyWhatWasAsked`): `Asked`: wherever a `#` is in the pipe, a request that was made
  stands whole. A block that begins with `#` then begins with a request, and what a short read leaves in
  the buffer cannot complete it to another one.
* `ArrivesInOrder` (`ArrivesUnlessCrowded`): `InOrder`: the requests received stand in order among those sent,
  and each that waits stands at the beginning of a block that will be read (`InBlocks`), the
  blocks in the order of the requests; every other block begins in the middle of a request or with three
  digits or more, and such a block changes nothing. That requests are written on an even boundary until
  one is `crowded` is what keeps it.
* `LevelIsOnItsWay`, the safety half of `LevelIsReached`: unless raced, a level that was asked for is at the
  pin, or in the table where `Led_Controller_Processing` comes by.

`PubClientProofs`, for every mode, block size, largest id, input and number of faults:

* `TypeCorrect` (`TypeOK`): needs `ReaderInv`, that `pos` is within what was read while more of
  the line follows; it holds because only a call of `fgets()` that filled its space is followed
  by another.
* `EndsWhenSent` (`DisconnectsWhenSent`): inductive with `NewestLast` (the newest id is
  the last in flight or, once acknowledged, nothing is in flight; true until an id is taken
  again in use), `InputDone` (`last_mid` is -1 until stdin is empty, then `mid_sent`) and
  `OneMessage` (without `-l` one message is published, on the only connection).
* `ZeroMeansAcknowledged` (`ExitStatus`): from `OneMessage`, which says that
  `mosquitto_disconnect()` is called only with nothing in flight, and that without that call
  the end of the connection sets `rc`.
* `SentLinesHaveOneGap` (`SentButForGap`): `GapInv`: the buffer holds the line read so far, but for one stretch
  (`Gap`) that begins one block before the end of the first call that follows a longer line; each later call
  overwrites the end of the one before, so that there is never a second stretch.
* `EndIsNotMissed`, the safety half of `PubEnds`: when the newest message is acknowledged and nobody has
  told the library to disconnect, the callback is about to (without `-l`), or `main()` finds `AllSent` the next
  time it looks (with `-l`, once stdin is read to its end), whichever of the two threads came
  first. `Outstanding`: until the disconnect the newest id is the last in flight or, when nothing is in
  flight, `last_mid_sent`; this holds even when ids are taken again while in use.

`SubClientProofs`, for any topics, calls, capacities and bounds:

* `TypeCorrect` (`TypeOK`), `HandlesFirstWanted` (`FirstWanted`) and `StatusIsOfCount` (`StatusTells`):
  inductive with `Counts`: the flag, `msg_count` and the request to disconnect tell the same of what was
  handled; while messages are processed that is every wanted one received.
* `AsksToEndAtCount`, the safety half of `CountEnds`: the library is told to disconnect exactly when `-C` messages
  were handled, and until then every connection that is up has all the topics (`Subscribed`), but those
  that failed, and nothing wanted is ignored.

`ClientStartProofs`, for every call, file, input, message limit and failure:

* `LibraryUsed` (`UsesLibrary`): every step is a step of `LibraryUse` or a stutter; `InOrder` says what
  library and client are at each place of `main()`.
* `MessageLoadedWhole` (`LoadedWhole`): `Loads`: up to `fopen()` the input is as the job has it, `pos` is within
  it and within the size `ftell()` told, and from the check on to the end the message is what was loaded.
* `TypeCorrect` (`TypeOK`): `Typed`: with `Loads` and `InOrder`, every number of the configuration is its
  default or was within the limits of its option (`OptionEffect`: an option changes its own field alone),
  and `told` holds the settings as they are in `cfg`.
* `DeclaredIsWhatCounts` (`AcceptedAsDeclared`), for any config file and command line: `Reading`: there is an `n`
  up to which the settings have been read (`ReadTo`: what is left in `words` and `lines` is the rest of them), and
  the configuration is settled by the first `n` (`Settled`: a field holds the last value of its option
  among them, or its default; each of them is allowed; the topics are theirs; there is at most one source of the
  message). When all have been read, the checks on the whole are `Consistent` (`Complaints`); what is
  refused on the way was not allowed or not consistent with what came before it (`RefusedRightly`).
* `SettingsAreTold` (`SettingsReachLibrary`): `Declares` carries what was declared from the verdict to the loop, past
  the id that `client_id_generate` makes (`IdGenerated`); `Handed` says that before the library connects no
  call is due that has not been made, and that the session is persistent only where `-c` asked for it.
* `ProxySaysUrl` (`ProxyAsWritten`), for urls of any length. Three steps. `ReadingsByPlace`: what a url says
  depends on where its first stops (`:` or `@`) are, and there is one reading at most (`UserAt`, `PortAt`,
  `AddressAt`). `ScannedTo`: where the pass of `mosquitto__parse_socks_url` stands after `n` characters, one
  disjunct for each place (in the first part, in what may be a password or a port, in the host
  behind the `@`, in the port), each with what has been cut out, and one for a text that has no reading any more.
  `ScanStep` is the step from `n` to `n + 1`; `AllScanned` makes of it a statement on all `n` by the least `n`
  for which it fails, as the induction theorems of the library take an operator, which the provers cannot
  instantiate. `PassReads`: at the end the pass has the one reading, or there is none. `atoi` is
  never unfolded: code and reference apply it to the same text.
* `EveryStepCounts` and `NearerEnds`, the safety half of `StartEnds`: unless a read is endless, every step of
  `main()` decreases `Distance` (places to go; then lines, bytes of stdin or calls of
  `client_opts_set` that are left; then words) in a well-founded order, and no change of the
  file increases it. So `main()` takes finitely many steps, whatever the sizes; that it takes them is fairness.
  `Unread` (never more is read of the file than the size that was taken) is the invariant it needs.

Two definitions of the model turned out to be wrong in proving: `Scan` and `Remainder` had guards that
overlapped. They now say what the code does in that order.

Only model-checked: liveness itself, i.e. `ImplementsLink` and the `~>` and `<>` properties (fairness and ENABLED
are outside the prover). Of `RoundEnds`, `RouterHeldOnlyBy`, `LevelIsReached`, `PubEnds`, `CountEnds` and `StartEnds`, of
`ImplementsLink` and (by `WaitsForAnswers`) of the search in `BleScanner`, what can be said of states and steps
is proved. Of `atoi` on a port's text, and of `sscanf` on an LED's number (`gpio_number`), nothing is proved; they are evaluated in
the runs.

## 5. What is not modelled

* Memory beyond arrays (an event longer than `mtext`, numbers that index a table unchecked): no
  defined outcome. A line of the config file longer than 1023 characters is read as two, an
  empty one after stripping has its last character looked for before the line; a line of the model is what
  one `fgets()` returns.
* What stands in `rx_packet` behind an event that is shorter than the places the router reads; a
  `write()` that writes a part of a command (the threads share the port without a lock, but one `write()` of a whole command is
  serialised by the kernel); allocations whose result the code does not look at.
* That an event without a payload comes through: it does not (it swallows a byte), but no text promises it.
* Formatting, printing, shell commands on GPIO, the error table, usage texts, termios: no
  state that a property could be about.
* Connections other than 0 in `BleScanner`: this build makes one link, whose handle is 0.
  `Pipe_1_Id` to `Pipe_3_Id`, the queues of the others, are never initialised
  (UartCmdRxThread.c 250), so there is nothing faithful to say of them.
* `SetParamValue` and the builders of commands that nothing calls. If something called
  `SetParamValue`, the status it waits for (FE30) would be printed by the router and never queued.
* `Forwarder` and `SubClient` over one queue: the keys differ (2004 and 123456) and the
  forwarding threads are not started, so in this build the two never meet. `sub_ends_after_count`
  shows what the second key costs.

## 6. Plan

Every component the inventory names as modelled is, and every safety property of a run is a theorem.
What is left is liveness as such. It needs a prover for ENABLED; the theorems of section 4 named as
safety halves are the lemmas it would rest on. One half is still missing: for `Blinks`, that the reading and
the processing thread do not undo each other's toggles.
