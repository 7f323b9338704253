# A TLA+ verification of RadProt_IOT

RadProt_IOT is the firmware of a radiation-protection gateway on a Raspberry Pi Pico W (FreeRTOS on two
cores, lwIP). Instruments send lines of text over UARTs; the firmware cuts a field out of every line,
averages it, and publishes the result over MQTT and to a browser over a WebSocket. It has a web page for its
settings, kept in flash, and an access-point mode with its own DHCP and DNS servers.

This directory holds specifications of it, model-checked with TLC and, where the state is simple enough,
proved with TLAPS. `PROJECT.json` maps every definition to the source lines it models and lists runs,
mutants, hazards and theorems.

    tlc -workers 2 -config MqttClient.cfg MqttClient      # one run
    tlapm MqttProofs.tla                                  # one proof module

## 1. The system

| Component | State | Operations | Talks to |
|---|---|---|---|
| UART receive path (`hal/src/serial.cpp`, `inc/ringbuffer.h`) | ring, `string_finished_`, `received_chars`, `timeout_detected` | receive interrupt; `read_string` of the reader | the sensor's task, by notification |
| Sensor task (`src/sensor.cpp`) | `accum`, `avg_cnt_current`; reads its entry of the settings in flash | one line: slice, average, publish | both queues; settings |
| MQTT (`src/MQTT.cpp`, paho C client) | session flags, four timers, packet identifier, mutex, socket | `mqtt_task`: connect, publish, close; `MQTTRun`: cycle | queue, lwIP sockets |
| MQTT packets (`MQTTPacket/src`) | the place of the non-blocking reader | serialise, deserialise, read | both clients |
| C++ MQTT client (`MQTTClient/src/MQTTClient.h`, not used by the firmware) | publish in flight, QoS 2 identifiers, message handlers | connect, publish, subscribe, yield | broker |
| WebSocket server (`src/websocket.cpp`, `src/crypto.cpp`) | listening socket, one client | accept, handshake, frames, status | queue, lwIP sockets |
| DHCP server (`dhcpserver/`) | table of leases, 32-bit tick counter | DISCOVER, REQUEST | lwIP's UDP callback |
| DNS server (`dns/`) and patched IP layer (`lwip_patch/ip4.c`) | addresses and interfaces | one answer per query; route, accept, send | web server, through the client |
| Settings, POST handlers and the page (`src/settings.cpp`, `src/post.cpp`, `httpserver/fs/index.html`) | a sector of flash | show, fill in, save, scan, restart | every task reads the flash |
| HTTP server (`httpserver/`) | connections, files, heap blocks, `current_connection` | the callbacks of lwIP | POST handlers |
| ENC28J60 driver (`enc28j60/`) | chip pointers and flags, `next_packet_pointer` | enable interrupts, send, receive, interrupt task | lwIP's netif, which sends from its own thread and from the interrupt task |
| Start-up, links, watchdog (`src/main.cpp`, `wifi_fns`, `ethernet_fns`) | mode, link state, list of networks | choose the mode, connect, monitor, feed | starts everything |

What is hard here: the receive interrupt runs between any two statements of the reader, or on the other core
at the same time; settings are read from flash repeatedly while the web page rewrites them; two tasks read one
MQTT connection; two tasks draw descriptors from one table; two tasks and a chip share the registers of the
Ethernet driver; leases are compared on a wrapping clock of which half the bits are thrown away; packets are
torn by timeouts; a restart goes through a watchdog that another task feeds; memory of the web server changes
hands between callbacks; and nearly everything has a timeout that races what it waits for. `PROJECT.json`
lists each hazard at its line, with the properties that cover it.

What makes each part correct:

- UART: no byte twice, out of order or from unwritten storage; undamaged lines arrive whole; a finished line
  that is announced is taken.
- Sensor: no write beyond `data[]`, and no read beyond the line unless a save falls inside the field; an average is over the readings it claims, none
  counted twice; results keep coming whatever is saved.
- MQTT: a publish reported as done was acknowledged by its own PUBACK; the session and the socket end
  together; after any fault readings that fit the send buffer get through again.
- MQTT packets: what is serialised is what the other side reads, within both buffers, however it is cut.
- C++ client: QoS 2 exactly once, QoS 1 at least once, over any number of connections; the right handlers.
- WebSocket: nothing is leaked, the handshake is accepted, the stream decodes to what was queued.
- DHCP: no address is held by two clients, and none is offered while held; both sides read the same message.
- Device: it runs with what the flash holds or is about to restart; an announced restart comes; saving the page as
  it is changes nothing that it shows.
- HTTP: as long as POSTs do not overlap, every block has one owner and is freed once and a POST gets its own answer;
  responses are complete; every connection ends.
- ENC28J60: the walk through the receive buffer stays in step; no stored frame is lost, doubled or left; a frame is
  sent whole by whoever goes by the present state of the transmitter.
- Portal: whatever name a client asks for, it ends at the page.

## 2. Modules

| Module | Models | Run |
|---|---|---|
| `RingBuffer` | the class RingBuffer, as operators on a record | through `Serial` |
| `Serial` (`MCSerial`) | interrupt and `read_string`, one step per statement of the reader | `serial` |
| `Fifo` | what a ring promises: a bounded FIFO queue | abstract specification |
| `RingRace` | `push` and `pop` statement by statement; refines `Fifo` | `ring_one_core` |
| `Sensor` (`MCSensor`) | the field loop against a settings entry that changes in place | `sensor` |
| `DhcpServer` | the lease table and the tick arithmetic | `dhcp` |
| `DhcpMessage` (`MCDhcpServer`) | the bytes of requests and replies, on top of `DhcpServer` | `dhcp` |
| `MqttClient` | `mqtt_task`, `MQTTRun`, broker, network, time | `mqtt` |
| `MqttPacket` (`MCMqttPacket`) | every serialiser and deserialiser, `MQTTPacket_readnb` over a transport | `mqtt_packet` |
| `MqttSession` (`MCMqttSession`) | the C++ client, a broker, connections that break | `mqtt_session` |
| `Crypto` | blocks and padding of SHA-1, base 64 | through `Sockets` |
| `WebSocket` | handshake and frames, as operators | through `Sockets` |
| `Sockets` (`MCSockets`) | descriptor table, WebSocket server with its client and queue, `mqtt_task` | `sockets` |
| `Device` (`MCDevice`) | start-up, network, settings, flash, watchdog, power | `device` |
| `Httpd` (`MCHttpd`) | the web server's callbacks and its memory | `httpd` |
| `Enc28j60` (`MCEnc28j60`) | interrupt task, `send_pbuf` and the chip | `enc28j60` |
| `Portal` (`MCPortal`) | DNS server, IP layer and redirect, with a client between them | `portal` |
| `UartProofs`, `NetworkProofs` | theorems about `Serial` and `RingRace`; about `Enc28j60`, `DhcpServer`, `DhcpMessage` and `Portal` | |
| `SensorProofs`, `MqttProofs`, `MqttSessionProofs`, `SocketsProofs`, `DeviceProofs`, `HttpdProofs` | theorems about the module they are named after (`Mqtt`: `MqttClient`) | |

Names of variables and actions are those of the source. Some conventions:

- **Granularity.** A step is what cannot be interrupted: a whole interrupt handler, a critical section, a
  lwIP callback (`Httpd`, `DhcpServer`, `Portal`); otherwise one statement that touches shared state
  (`Serial`'s reader, `Sensor`, `RingRace`), one library call (`Sockets`) or one access to the chip under its
  mutex (`Enc28j60`). In `MqttClient` one cycle is one step, because the client's mutex is held around it and
  nothing else touches the connection from this side; the broker, the network and time act between cycles.
- **Data.** A UART byte is its line and place; a reading is a number of order; an MQTT packet is a type and
  an identifier in `MqttClient` and `MqttSession`, and its bytes in `MqttPacket`. Parsing of numbers, JSON and
  HTTP headers is left out.
- **History variables** (`torn`, `raced`, `spent`, `waiting`, `left`, the records `gh`, `peer` and `handed`,
  and `published`, `arrived`, `acked`, `delivered`) record what happened or what the other
  side has seen; no guard of the code's actions reads them.
- **Types.** Every module has a `TypeOK` that says what its variables hold. It is checked in `serial` and proved
  for `Serial`, `RingRace`, `DhcpServer` and `MqttClient`; the other proofs have the types they need in their
  invariants. Elsewhere it documents the state, and goes into a cfg when the module is changed. The runs are
  spent on what the types do not say.
- **Mutants.** A definition `X_something` before `X` is a plausible bug in `X`; replacing `X` by it makes the
  property it stands for fail. They show that each property depends on the code.

How the main abstractions were made:

- `Serial`: `SetReceivingTaskHandle` stands for the moment `Sensor::init` hands over its task; characters
  before it, or while interrupts are off, are lost (`Overrun`). Only the loop of `read_string` can time out.
- `Sensor`: `SaveSettings` is the flash write of `settings_save_fn`, done with both cores stopped, so it falls
  between two statements, never inside one. `raced` records that it fell inside a field's computation.
- `DhcpServer`: `left` is the client's view, the time it may still use an address; the table must stay ahead
  of it. Clients send anything at any time, so loss, repetition and reordering are included. `DhcpMessage`
  adds no state: its invariants relate the bytes to the answer the server has just given.
- `MqttClient`: a connection is a pair of FIFO sequences that can fall silent, be reset or be refused.
  `readPacket` includes packets torn by its timeout, with the bytes that are left behind (`half`). The broker
  is given by its address. Subscribe, unsubscribe, yield, QoS 0 and 2 and incoming PUBLISH exist in the
  client and are not reached from the firmware. Of the size of a packet only this is kept: whether CONNECT with its
  credentials, and PUBLISH with topic and reading, fit the 80 bytes of `sendbuf` (`credentials_fit`,
  `reading_fits`); the one is a matter of the settings, the other differs from reading to reading.
- `MqttPacket`: a buffer is a sequence of bytes; a behaviour is one message (or noise) on its way, in
  portions chosen by the transport.
- `MqttSession`: one thread, so one cycle is one step; whether a timer has expired is left open. The broker
  keeps to the protocol and repeats what a broken connection left unanswered.
- `Sockets`: lwIP gives out the lowest free descriptor. A close of a descriptor that is not open returns an
  error and changes nothing. A frame of the client arrives in one piece; what is sent may be cut off.
  `sha1_transform` is a constant, so nothing depends on what it computes. The client reads its stream as RFC 6455
  says: `FrameStarts` is where it finds a frame, each behind the one before. Powers of two (the length field of
  SHA-1, the bits of a digit) are written out, since the provers do not compute them.
- `Device`: settings are grouped by what they decide (network, broker, sensors, what is published). The page is
  modelled from `settings_get_fn` to what it posts, with the parts that are hidden or disabled; a field that is not
  posted reaches `atoi` as a null pointer, and `AtZero` is what that reads. Time is the watchdog's second. Power may fail at any step, also between erase and program.
- `Httpd`: memory is a set of blocks and TCP remembers which block its unsent bytes are in. A request is one
  of the kinds the parser tells apart; `tcp_write` takes any part of what it is offered. A body is a sequence of
  numbered units, and whether a handler was given them as they were sent is remembered per POST (`handled`), for
  `OwnAnswer`; it excepts clients that send more or less than they announce (`odd`) and a second POST begun or
  ended while the first was under way (`overlap`).
- `Enc28j60`: the receive buffer is a ring of cells in which a frame takes one or two; the chip writes, wraps,
  overflows, aborts and raises flags on its own. One misread header is allowed for. The model begins after `init`,
  which lets the chip receive; `ArmEdge` and `EnableFlags` are `enable_interupts`, which comes later. `send_pbuf` runs
  in two threads: that of lwIP's core lock, and the interrupt task, where lwIP answers a frame (`inside`, with the
  lock) or reports a link that came up (`linked`, without it). `gh` remembers which frames came, were good, were
  dropped by a reset and reached lwIP; `old` is who goes by an earlier state of the transmitter, `excuse` the
  transmissions such a party has hit, and `deaf` that INT was low when its edge was armed.
- `Portal`: labels are short strings over small numbers; the comparison of names is character by character,
  since that is where the three components could differ. A redirect always names `host.domain`; lwIP's TCP
  drops what was sent to a broadcast address. The networks of the interfaces are apart, because in access point
  mode the station interface is not up. The name of the device fits the 32 bytes in which `http_parse_request`
  takes the Host header: nothing calls `write_ap_mode_settings`, so host and domain keep their defaults. The
  setting of the network suffix is taken both ways, though it is delivered as TRUE (`settings.cpp:27`).

## 3. Runs

| Run | Shows | Bounds |
|---|---|---|
| `serial` | `TypeOK`, `InOrder`, `WholeLine`; `FinishedIsTaken` under fairness | ring of 5, 3 lines of up to 2 bytes: wrap, nearly-full branch, full ring and two lines at once all occur |
| `ring_one_core` | `ImplementsFifo`: push and pop implement `Fifo` when interrupt and reader share a core | ring of 2, 6 pushes: both pointers wrap |
| `sensor` | `SliceInBounds`, `AverageExact`, `ResultsKeepComing` | 5 readings, 2 saves among 24 entries: windows shrink and grow in mid-window; slices inside, across and beyond the line |
| `dhcp` | `NoDoubleLease`, `OfferedIsFree`, `MessagesUnderstood` | 2 addresses, 3 clients; a clock of 18 ticks that wraps, with the longest lease the assumption allows; options before the address of length 0 and 31, and such as contain its code |
| `mqtt` | `AckIsForThis`, `ClosedWithoutSession`, and `Delivers` under fairness | 2 identifiers, so an old PUBACK would differ from the current one; keep-alive of 2 ticks, command timeout of 1; credentials and readings that fit `sendbuf` and that do not |
| `mqtt_packet` | `InsideBuffers`, `SplitMakesNoDifference`, `RoundTrip` | every type with every optional field; remaining lengths on both sides of 127; buffers of the exact size, one less and more |
| `mqtt_session` | `ExactlyOnce`, `AtLeastOnce`, `RightHandlers` | 2 messages each way, 2 identifiers (they are reused), 1 slot for QoS 2 (it is full), 3 connections, 2 filters |
| `sockets` | `NoLeak`, `EstablishedHasSocket`, `HandshakeAccepted`, `FramesUnderstood` | 4 descriptors, one more than both tasks use; keys on both sides of a block's end; messages on both sides of 126 bytes and of the send buffer |
| `device` | `RunningAsSaved`, `PasswordKept`, `ResaveKeepsWhatIsShown`; `RestartFollows`, `Reconnects` under fairness | 2 saves among 5 forms, with and without the Ethernet chip, 1 power cut, 1 lost link; a password that fits its field and one that fills it |
| `httpd` | `OwnAnswer`, `HeapExact`, `ResponseComplete`; `ConnectionsEnd` under fairness | 2 connections, or 1 with every kind of request; a send buffer smaller than header and body together |
| `enc28j60` | `RxInSync`, `NothingLost`, `TxWhole`; `FrameTaken` under fairness | buffer of 3 cells with frames of 1 and 2, so it wraps and overflows; 3 events among frames in, frames out, link changes and misread headers, from `init` on; 2 polls of `send_pbuf` |
| `portal` | `OneRedirect`, `ReplyReturns`; `PageComesUp` under fairness | all names of up to 3 of 5 labels: the host, a beginning of it, the domain's labels, another one, with and without a Host header, both settings of the network suffix; 2 interfaces |

Behaviours that use up a bound (input, saves, frames, connections) stop, hence `CHECK_DEADLOCK FALSE` in
`serial`, `sensor`, `mqtt_packet`, `mqtt_session`, `device`, `httpd` and `enc28j60`; the other runs check
that the system never stops.

**Fairness.** A ready task runs once those above it block, a callback that is due is called, time passes; no
fault has to happen and nobody outside the device has to do anything unless said here.

- `Serial`: the reader's steps and the tick that ends its timeout; nothing is assumed of the instrument.
- `MqttClient`: both tasks run, readings come, the broker answers, time passes. No fault has to stop by
  itself: `Delivers` starts when the environment becomes `calm`, which it may never do. `calm` means that
  connections are accepted and kept and that an answer comes within the time one cycle waits for it; without
  the last part the early end of a session (section 4) could repeat for ever. It does not mean that packets fit: with
  credentials that do, a calm network gets a reading through or the task takes one that does not fit, and if readings
  that fit keep coming so do publishes.
- `Device`: the tasks and time; the watchdog fires when it is not fed; power comes back; a network that is
  joined often enough is joined at last (strong fairness), and its DHCP server answers while the link stays.
  Nothing is assumed of whoever uses the page. `Reconnects` excepts a wait for an address on a link that
  is gone, which the code does not end.
- `Httpd`: lwIP polls every open connection, and a close for which memory is missing succeeds in the end. The
  peer may stay silent for ever.
- `Enc28j60`: the interrupt task and `send_pbuf`, not the chip, and not `enable_interupts`: a transmission need not
  end. Memory for a frame
  is found when it is asked for often enough (strong fairness).
- `Portal`: the server answers what it has received and the client goes on with the answer. `PageComesUp` is about
  clients that send a Host header.

## 4. Observations

Met while modelling; each is in the model as the code has it, and the property it concerns is stated so that
it holds in spite of it. Nothing here is a run of its own.

UART and sensor:

- A line that becomes complete between the test of `string_finished_` and the timeout branch is thrown away
  with the first character of the next (`serial.cpp:194-203`, "Timed out before the whole string was
  received").
- `string_finished_` and the notification say that there are finished strings, not how many. If a second line ends
  before the first is read, one notification covers both (`serial.cpp:205`), the read of the first clears the flag
  (`:178`), and the second line stays in the ring, unannounced, until a third one ends; from then on the sensor is a
  line behind. `FinishedIsTaken` promises no more than that: while the flag is set, the oldest finished line is taken.
- A save between the test of a field's limits and the copy makes the copy read past the end of the line
  (`sensor.cpp:128-145`); `SliceInBounds` excepts it (`raced`).
- `current_size` is updated from both cores when interrupt and reader are on different ones
  (`ringbuffer.h:31`, `:41`); the critical section of the reader does not exclude the other core's interrupts,
  and an update is lost. With `OneCore = FALSE` the run `ring_one_core` fails.
- A terminator pushed into a full ring is dropped and `string_finished_` set all the same (`serial.cpp:40`,
  `:48`); `WholeLine` counts such a line as damaged.
- `avg_cnt` lowered to exactly the number of readings already added is not noticed (`sensor.cpp:68`, "restart
  averaging"); the window runs past the count and is dropped.
- Sensors number themselves by construction (`sensor.h:28`) and `main.cpp:139-161` constructs only the enabled
  ones: with sensor 0 disabled the others use another sensor's entry.

MQTT:

- A session is given up at the cycle after PINGREQ when `last_received` has expired, not after a keep-alive
  interval (`MQTTClient.cpp:195`, "PINGRESP not received in keepalive interval").
- `sendbuf` has 80 bytes (`MQTT.cpp:36`), a topic up to 30 and a reading up to 255. A PUBLISH that does not fit is
  treated like a broken connection (`MQTTClient.cpp:560`): the session is closed and the reading is lost, on a perfect
  network too, and again for each such reading. A CONNECT whose name and password do not fit (`:386`) never succeeds:
  the task opens and closes connections for ever. `Delivers` asks for credentials that fit, and for readings that do.
- After a failed connection the descriptor is closed twice, and the second close may hit a client the
  WebSocket server has just accepted (`MQTT.cpp:106`). Without a broker `mqtt_task` closes descriptor 0, which
  is the listening socket (`MQTTFreeRTOS.cpp:121`).
- `mqtt_connection_status` stays true after a failed publish until the next failed connect (`MQTT.cpp:86`).
  `mqtt_reconnect` is set only in the branch not taken when the MQTT settings changed (`post.cpp:174-181`).
- A broker given by name: the task waits without a timeout for a callback that is not called when the answer
  is in the cache or the query fails at once, and that dereferences a null address when it fails later
  (`MQTTFreeRTOS.cpp:130-190`). An immediate error of `lwip_connect` counts as a connection.
- Packets: the server's CONNACK, SUBACK and UNSUBACK ask for two bytes less than they write; SUBACK accepts
  one result too many (`MQTTSubscribeClient.cpp:123`); a QoS 1 PUBLISH too short for its identifier has a
  negative payload length; `MQTTPacket_read` ignores a length of more than four bytes.
- C++ client: `pubrel` is never set, so a lost PUBCOMP repeats the whole publish; `connect` goes on after a
  refused CONNACK; `sessionPresent` is not used; with the QoS 2 table full a message is acknowledged and
  dropped (`MQTTClient.h:620`, which the run does not reach: its broker has no more messages under way than the table
  has places); a lost SUBACK leaves a subscription without a handler, and a full handler table closes the
  session; `#` does not match the parent level, `+` no empty level. The QoS 2 code is off by default.

WebSocket and DHCP:

- A send that times out half-way (500 ms) is not noticed and leaves the stream undecodable (`cut`). Only the
  first frame of what was received is looked at, and a frame in two pieces is taken as complete; one that
  announces more than was received is unmasked beyond it (`websocket.cpp:212-217`), which the model leaves out by its
  assumption that a client's frame fits. Keys longer
  than 91 bytes are truncated. The queue is drained before the next `select`, however slow the client.
- `opt_find` takes PAD for an option with a length and may read beyond what was received; the message type is
  assumed to be the first option. A lease that nobody touched for 2^31 ms after its end looks live again
  (`dhcpserver.cpp:231`): the address is unavailable, but never held twice.

Settings and start-up:

- A password of eight characters or more fills its field without a terminator and never again equals what is
  posted. An empty password in initial configuration erases the stored one (`post.cpp:145`). `restart` needs
  none.
- A power cut between erase and program (`settings.cpp:177-178`) leaves the sector erased, all ones, and nothing puts
  the defaults back: the connection type is not `WIFI`, so the device starts as an Ethernet client with all sensors
  enabled; no password can match, and only the jumper leads to initial configuration.
- Saving the page as it is shown does change settings that it does not show. Without an ENC28J60 the Ethernet part is
  neither sent nor filled in (`settings.h:127`, `index.html:589-603`) and posted as it was built: the connection type
  becomes `WIFI`, the Ethernet's DHCP flag is cleared (`post.cpp:94`, `:100`), and if either was different the device
  restarts (`:164`). A disabled average or scale (`index.html:738`, `:752`) and an authentication mode that is not in
  the list are not posted, and `atoi` and `atof` are given a null pointer (`post.cpp:86`, `:128`, `:129`): on this chip
  that reads the boot ROM. The same goes for `ipaddr_aton` and the addresses disabled by DHCP (`:90-98`).
- A link lost while `wifi_connect` waits for an address (`wifi_fns.cpp:52`) is never joined again, although
  `main.cpp:169` says the connection is monitored. `watchdog_enable` is commented out (`main.cpp:83`), so
  nothing ends that wait.

Web server and portal:

- Of two overlapping POSTs the first to finish clears `current_connection`: the other is answered with 400
  and its response is leaked. `http_err` during a POST leaks the content received so far. A second, empty POST
  behind a stalled answer deletes the content of the first again.
- The response of a POST and the redirect's header are given to TCP without a copy and freed when the
  connection is closed, while TCP may still have to send them (`httpd.h:105`, `:108`).
- `httpd_post_receive_data` copies `tot_len` bytes from the first pbuf of a chain; a body longer than
  announced is copied too; a POST cut off by a close is processed as it is. The rest of a stalled POST
  response is sent only by `http_sent`.
- DNS queries with an OPT record get no answer, AAAA is answered with an A record, and a first label that is a
  beginning of the host name counts as the host. `host_name_matches` compares an uninitialised address when
  Host is not one (`httpd.cpp:1745`). A request without a Host header, or with `host:` in another spelling, is
  answered with 400 (`httpd.cpp:1868-1870`). A name whose compression pointer points to itself keeps the DNS server's
  task in a loop for ever (`dnsserver.cpp:54-60`); the names of the model have no such pointer.

ENC28J60:

- A link change between the reads of PHSTAT2 and PHIR is acknowledged unseen (`enc28j60.cpp:100-108`).
- ERXRDPT is advanced before the frame is read (`:493`, `:497`), so the chip may overwrite it; it is written
  without the workaround for even addresses that the comment at `:22` asks for.
- `init` lets the chip receive and raise INT (`:279-280`) long before `enable_interupts` arms the falling edge
  (`:297`). A frame that comes in between holds INT low; clearing EIR does not release PKTIF (`:302`), so there never
  is an edge: nothing is received and the link is never reported. `FrameTaken` excepts this state (`deaf`).
- The interrupt task acts on flags it has read before. Between that and its clearing of TXRTS (`:124`) or
  `reset_tx_logic`, `send_pbuf` may have started another frame, which is then cut; so it is when the task itself sent
  it, because a link that came up made lwIP announce itself (`:101`), with TXIF read in the same round. That call is
  made without lwIP's core lock, so the other thread may be in `send_pbuf` at the same time.
- `send_pbuf` waits for TXIF before it sends. If the interrupt task has cleared it, as it normally has, each frame costs
  all polls (`MAX_RETRIES`), and the frame before is taken to be done when it need not be.
- A retransmission after a late collision follows `reset_tx_logic` and sends up to the end of the buffer. This, old
  flags and waits given up are the excuses in `TxWhole`, each for the frames it hits.
- `regw_read` keeps only 8 bits (`:414`).

## 5. Proofs

Every theorem is for all values of the constants that satisfy the named assumptions, and unbounded time.

| Module | Theorem | Assumptions |
|---|---|---|
| `UartProofs` | `TypeCorrect`, `RingBookkeeping`, `DeliveredInOrder`; `LinesAreWhole` for a ring of more than two places | `SizeAssumption`, `ItemAssumption`, `BoundAssumption` |
| | `Refinement`: `RingRace` implements `Fifo` | `SizeAssumption`, `RaceAssumption`, and `OneCore` |
| `SensorProofs` | `SliceStays`, `ResultsCome`, `AveragesExact` | `SizeAssumption`, `BoundAssumption`, `EntriesAssumption` |
| `NetworkProofs` | `DhcpTypeCorrect`, `ExclusiveLeases`, `OffersAreFree` | `SlotsAssumption`, `MacAssumption`, `ClockAssumption` |
| | `MessagesRead` | those, `ServersAssumption`, `BaseAssumption`, `OptionsAssumption` |
| | `SentWhole`, `WalkInSync`, `EveryFrame` | `Enc28j60Assumption` |
| | `RedirectOnce` | `NameAssumption` |
| | `ReplyFromOwn`, `AnswerReachable` | `NetworkAssumption`, `LeaseAssumption` |
| `MqttProofs` | `TypeCorrect`, `ClosedOnlyWithoutSession`, `AcksMatch` | `TimeAssumption`, `SizeAssumption` |
| `MqttSessionProofs` | `DeliveredOnce`, `PublishedAtLeastOnce` | `MqttSessionAssumption` |
| `SocketsProofs` | `NothingLeaks`, `EstablishedStays` | `TableAssumption` |
| | `FramesArrive` | `TableAssumption`, `FramesAssumption` |
| | `HandshakesAccepted` | `RequestsAssumption`, and `Transforms` |
| `DeviceProofs` | `RunsAsSaved`, `PasswordStays`, `ResaveIsHarmless`, `ScanBounded` | `DeviceAssumption` |
| `HttpdProofs` | `HeapAccounted`, `AnswerIsOwn`, `ResponsesWhole` | `HttpdAssumption` |

The assumptions that say more than that a size is a natural number:

- `LinesAreWhole` is stated for `SERIAL_BUFFERS_SIZE > 2`; the code has 256. A ring of two is filled by one
  byte and its terminator, and `read_string` keeps the last place of its array free, so the terminator is cut
  off: `WholeLine` is false there.
- `Refinement` is stated for `OneCore`, without which it is false (section 4).
- `EntriesAssumption`: a field's limits are 16 bits, as in the settings; `avg_cnt` is any integer.
- `ClockAssumption`: see DHCP below.
- `BaseAssumption`: base and size of the table stay below 256 (16 and 8 in the code), or slots share addresses.
  `ServersAssumption`: the domain name has at most 255 bytes, since its length is written as one.
- `OptionsAssumption`: a client asks for an address in one option and its message fits `options`; what is
  longer is cut by `pbuf_copy_partial`.
- `MqttSessionAssumption`: the QoS 2 table has no more places than there are identifiers; the code has 10 and
  65535. Otherwise the broker of the model could run out of identifiers for what it may have under way.
- `FramesAssumption`: a client's frame fits `recv_buf` with its header, and a short length is one of up to 125;
  longer frames are cut by `lwip_recv` (section 4).
- `RequestsAssumption`: a key and the GUID fit `concat_key`; longer keys are truncated (section 4).
- `Transforms`: `sha1_transform` makes a digest of 20 bytes from such a digest and a block of 64. It is a
  hypothesis of the theorem because TLC cannot range over all blocks.
- `NameAssumption`: the host name is not empty, and with a dot and the domain fits into `HostSize` with its
  terminator. A longer Host header is cut (`httpd.cpp:1876`), and the page would redirect to itself for ever.
- `NetworkAssumption`: clients are in the network of the interface they came by, no other interface that is up
  is in it or has one of them as gateway. `LeaseAssumption`: no client has a broadcast or multicast address.
- `Enc28j60Assumption`: a frame is shorter than the receive buffer. `HttpdAssumption`: lengths are natural
  numbers, `SndBuf` is not zero.
- `DeviceAssumption` and `MqttSessionAssumption` also say that `NULL` is none of the values it is told apart
  from.

The arguments:

- **Serial, order.** `InOrder` alone does not say that the next byte comes after those stored. The inductive
  invariant adds that everything stored or delivered has been sent by now (`SentBy`), and splits the order at
  the border between the reader's string and the ring (`Precedes`). `RingConsistent` makes the ring's contents
  a sequence on which push is Append and pop is SubSeq; lemmas at the head of the module show that once.
- **Serial, whole lines.** `WholeInv` adds to it that the bytes of an undamaged line stand together in the
  ring (`LineInv`), what `string_finished_` announces and when a timeout has withdrawn it (`FinishInv`), and
  that an undamaged line never reaches the place the reader's array has not got (`RoomInv`). The last one is
  the subtle part: a full ring may be drained or not, depending on whether a string is finished.
- **Ring.** Half-way through `push` or `pop` the count disagrees with the pointers by one; `Distance` says by
  how much at each statement, `Pushing` and `PoppingInv` what has been tested and read so far, and `Exclusive`
  that only one of the two is under way. Under the refinement mapping one statement of each is the step of
  `Fifo` and the others leave the queue alone.
- **Sensor.** `Slice` follows place and length from their tests to the copy, with the exception of a save in
  between. `Readings` says that the sum is of as many readings as counted, all of them unpublished and none
  the one in hand. `Waits` relates the readings since the last result to the count at each step; it allows for
  a count of `avg_cnt + 1`, which a lowered `avg_cnt` leaves and the next reading clears.
- **DHCP.** `NoDoubleLease` follows from `Covered`: while a client may use an address, the table has its MAC
  there and an expiry that the clock has not reached. The work is in the arithmetic: the rounding of `Expiry`
  to its upper half and the signed comparison of `IsExpired` agree as long as twice (lease + granule) fits the
  counter (`ClockAssumption`; the code has 2 * (86,400,000 + 65,536) against 2^32). The assumption is not
  idle: with a lease longer than it allows, `OfferedIsFree` is violated.
- **DHCP messages.** `MessagesUnderstood` follows from the type of `answer`; the rest is about operators. From
  one option of a message the search goes on to the next (`SearchSkips`), so it finds the one the client put
  last and nothing inside another's value. The reply is followed option by option (`FieldRead`) to its end mark,
  so that what is behind it in the buffer does not matter; `ReplyLengths` keeps it in the buffer.
- **MQTT.** `AckIsForThis` follows from `Connection`: while `mqtt_task` waits for a PUBACK at most one PUBLISH
  or PUBACK is on the connection and it has the current identifier; otherwise there is none, except when the
  connection is about to be closed. `Cycle` shows that reading, losing and pinging preserve this.
- **C++ client.** Of each handshake at most one packet is under way, in one direction or the other: `Outward`
  for the client's publish, `Once` for each identifier the broker has given. The table of identifiers is that
  of messages under way which were delivered (`Table`), the packets under way stand for a state of their
  message at the broker (`UnderWay`), and there is a free place and a fresh identifier by counting
  (`Numbered`, `FreeSlot`, `IdLeft`). `Kept` says where a published message is: with the broker or in
  `pubbuf`. Since one `cycle` is one step with several calls in it, the invariant is an operator on the values
  inside the step (`Good`), and each call has its lemma.
- **Sockets.** A remembered descriptor may already be the other task's, so what a task remembers says nothing
  about the table. `Owned` goes the other way: whatever is open is remembered by the task it is for; `Opened`
  says that a task about to open one has none.
- **Frames.** `FramesInv`: the numbers in the queue ascend, and whatever a client has received parses up to the
  number of the last message sent, which is below those queued. That a finite stream has a set of frame starts
  that `FrameStarts` computes is a least-counterexample argument (`Parsed`); `FrameAdded` shows that a frame put
  behind a stream leaves the starts before it and adds its own, `FrameStays` that what a client reads in an
  earlier frame does not change. Unmasking undoes masking byte by byte, `Xor` being its own inverse.
- **Handshake.** `HashRight`: cutting key and GUID at `BLOCK` with `sha1_update` and padding the rest in one or
  two last blocks gives the blocks of the padded message, so the hash is that of the standard. `Encoded`: each
  digit of `base64_encode` has six of the bits of three bytes, the last group filled up with zeros and `=`.
- **Web server.** `HttpdInv` has for each connection what its callbacks rely on (`Each`: the response is cut at
  `left`, what TCP was given is the rest; a POST's content is what arrived), who the single
  `current_connection` is (`Current`), that there is a block for each POST under way (`Memory`) and that blocks
  have one owner (`Ownership`, which holds as long as no connection had a second POST). The callbacks work on a
  copy of the connection's state and end in `http_send`, so each is a chain of lemmas on that copy (`Ready`,
  `Posted`) closed by one that puts it back (`KeepStep`, `LeaveStep`, `SendStep`).
- **Ethernet, out.** A frame is damaged by someone else's write to the transmitter. `Reading` says which flags the
  interrupt task has in hand at each position; `Quiet`, that no transmit flag is set and that flags it still has to
  act on are known to be old. `Alone` follows a frame that nothing excuses from `send_pbuf` (`BeforeClear`, `InHand`)
  to the air (`OnAir`): length and buffer are its own, all is `Quiet`, and every other `send_pbuf` that has ended its
  wait is in `gh.old`, so that a write of his excuses the frame. A step leaves the transmitter alone (`TxSame`), acts
  by flags (`TxByFlags`) or is one of `send_pbuf` (`TxFree`).
- **Ethernet, in.** `Laid` places the frames not released one behind the other from `next_packet_pointer`, by
  their distance from it, up to where the chip writes; the chip stops before it meets itself. Distances are
  compared instead of addresses, so that the ring's wrap is dealt with by a few lemmas on `Wrap`. `Numbers` adds
  that frames reach lwIP in the order of the wire. All of it holds until a header is misread (`glitches`).
- **Portal.** `Led`: a client that was redirected is asking for the name in the redirect; `OwnName`: the
  comparison of `host_name_matches`, character by character, takes exactly that name. For `ReplyReturns` the
  routing of `ip4_route` finds the access point's interface, the only one whose network the client is in.
- **Device.** `Contents` says what the flash, and the copy about to be written, can hold; `Started` which of
  them the tasks were started with, at each step of a save; `Phases` that a handler past its decision has set
  the watchdog. `ResaveIsHarmless` needs `Contents` because one conversion of the authentication mode undoes
  the other only for the modes the first one yields.

The library's induction theorems cannot be instantiated here, so where a recursive function is reasoned about
(the digests of `Blocks`, the frame starts, the walks over DHCP options) the proof takes the least element at
which the claim fails. The existence of such functions, which the provers do not take from their definition, is
shown the same way.

Left to TLC:

- the liveness properties (`FinishedIsTaken`, `Delivers`, `RestartFollows`, `Reconnects`, `ConnectionsEnd`,
  `FrameTaken`, `PageComesUp`), since the prover has no fairness;
- `InsideBuffers`, `SplitMakesNoDifference` and `RoundTrip` of `MqttPacket`: its readers and writers recurse over
  the bytes of nested fields, and every packet type would need its own proof that the one undoes the other;
- `RightHandlers`: true for the topics and filters of the run, not for all (section 4: `+` and empty levels),
  so it would need an assumption on filters that the code does not make.

## 6. Not modelled

- The wait of `mqtt_task` for a host name: there is no way out of it to state a property about (section 4).
- Parts of modelled files that the build leaves out: server side includes, CGI, keep-alive, HTTP 0.9, dynamic
  files and TLS of `httpd.cpp`; options, fragments and IGMP of `ip4.c`; subscribe, yield and QoS 2 of the C
  client, which this firmware never calls.
- Register access of the ENC28J60 over SPI (bank switching, PHY polling) is one step under its mutex; what
  `init` writes is the initial state.
- Not at all: GPIO, SPI, logging and the status page (I/O only), number formatting and JSON, the compression
  function of SHA-1 (arithmetic without protocol), `MQTTFormat`, the generated file system and the tool that
  makes it.

## 7. Plan

The path of a reading (UART, sensor, MQTT, sockets) and the DHCP server came first: a fault there loses or
falsifies readings, or needs weeks of uptime to show; then settings and start-up, web server, Ethernet driver,
portal, and the MQTT packet layer and C++ client. The proofs followed the same order. What is left
is the proof of `RoundTrip` of `MqttPacket`, beginning with the remaining length and strings, on which all types
rest.
