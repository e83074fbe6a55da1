# A verification of espthernet

espthernet turns an ESP8266 into an Ethernet station without an Ethernet chip:
the I2S engine samples and drives the line, software encodes and decodes
Manchester code, and a small IP stack with a TCP server feeds the same HTTP
server that also serves Wi-Fi. This directory holds TLA+ models of that code,
what TLC checks of them and what TLAPS proves.

## 1. Inventory

Three things run on the processor:

| Actor | Code | May interrupt |
| --- | --- | --- |
| interrupt | `slc_isr` (i2sduplex.c), calls `GotNewI2SData` (manchestrate.c) | everything |
| idle task | `procTask` (user_main.c): `et_backend_tick_quick`, `CSTick(0)` | nothing |
| 10 ms timer | `myTimer` (user_main.c): `et_backend_tick_slow`, `TickTCP`, `CSTick(1)` | nothing |

Tasks and timers of the SDK run to their end. The DMA of the I2S engine is a
fourth actor that reads and writes memory at its own pace.

| Component | State | Operations | Talks to | Hard part | What makes it correct |
| --- | --- | --- | --- | --- | --- |
| Receive path: manchestrate.c, net_compat.c | `PacketStoreInSitu`, `stripe`, decoder state, `rx_cur`, `rx_pack_flags`, `rx_pack_lens`, the buffers | `GotNewI2SData`, `ResetPacketInternal`, `DecodePacket`, `et_backend_tick_quick` | calls `et_receivecallback` | interrupt against polling loop, two buffers, every fault at every place in a block | no shared buffer, no leak, frames whole and delivered once, none starves |
| Frame capture: manchestrate.c, net_compat.c, custom_commands.c | `KeepNextPacket`, `PacketStore` | commands CK, CL, CM, CN | receive path | armed, stored and locked by different actors | what is locked is what was asked for, and stays |
| Transmit path: i2sduplex.c, manchestrate.c | descriptor lists, `insend`, `i2stxdone`, `tx_link_address`, `nlpcount` | `SendPacketData`, `SendI2SPacket`, `slc_isr`, `testi2s_init` | called by IP and TCP | DMA, interrupt and main loop on one linked list; late interrupts; restarts | buffer not touched while sent, each packet once, busy wait ends |
| IP, ARP, ICMP, UDP: iparpetc.c, user_main.c | transmit scratch, `macfrom`, `ipsource`, `remoteport`, `localport` | `et_receivecallback` and its handlers | receive and transmit paths, TCP, commands | every frame overwrites the globals, also one for another host | an answer goes to who asked |
| TCP: tcp.c | `TCPs[]` | `HandleTCP`, `TickTCP`, `et_RequestClosure`, `et_EndTCPWrite` | bridge | loss, repetition, delay; timeouts; half-closed connections | byte streams, sockets come back |
| Bridge: mystuff.c | `interop_conns[]` | `et_TCPReceiveSyn`, `et_TCPReceiveData`, `et_TCPConnectionClosing`, `et_espconn_disconnect`, `EndTCPWrite` | TCP, HTTP, SDK | callbacks with the connection of an earlier use | callbacks reach the connection they are for |
| HTTP: http.c, http_custom.c | `HTTPConnections[]`, `curhttp`, `curdata` | connect, receive and disconnect callbacks, `HTTPTick`, pages, websockets | bridge, commands, file system | requests cut anywhere; a slot keeps what the connection before left in it; written from receive callback and from tick | a connection serves its own socket; a page goes out whole, in order, by its own callback; connections end |
| Command services: commonservices.c, custom_commands.c | browse table and counters, settings, Wi-Fi mode | `issue_command`, `CSTick`, `SlowTick`, `CSSettingsLoad`, `CSSettingsSave` | UDP, HTTP, flash, SDK | requests answered at a later tick, over one espconn; power failures between writes | every probe answered, searches end, settings in RAM and flash agree |
| Flash update: commonservices.c, flash_rewriter.c, web/execute_reflash.c | flash, host's position and retries | FE, FB, FW, FM; `MyRewriteFlash` | UDP | retries, late duplicates of erase and write | one whole program is left |
| Start-up and scheduling: user_main.c | `tick_flag`, `printed_ip`, `opm` | `user_init`, `procTask`, `myTimer` | everything | restarts at any point | settings survive, a failed station is tried again |
| File system: mfs.c, web/mfsmaker.c | image in flash, file positions | `MFSOpenFile`, `MFSReadSector` | HTTP | end of file, absent file | the bytes of the file |
| Packet sniffer: pRemoteSniffer | `sendbuffer`, `gHandlingTCP`, the clock, the table of clients | `promisc_cb`, `TickPacketSet`, `HandleIncomingEthernetSyn`, `pkcapt_close` | radio, TCP | captures replace each other; a clock of 32 bits | a capture is one well-formed file, with the right times |
| UART, mDNS, web page | | | | | see "Not modelled" |

PROJECT.json lists the hazards, each with its line and the properties that
watch it.

## 2. Modules

| Module | Models | Built on |
| --- | --- | --- |
| `RxPath` | receive path | |
| `FramePool` | abstract: frames through a pool of slots, one writer, one reader | |
| `RxPath_proofs` | theorems about `RxPath` and `RxCapture` | `RxCapture` |
| `RxCapture` | frame capture beside the receive path | `RxPath` |
| `TxDma` | transmit path | |
| `TcpSockets` | all sockets, bridge, table of HTTP connections | |
| `TcpSockets_proofs` | theorems about `TcpSockets` and `TcpStream` | `TcpStream` |
| `ByteStream` | abstract: one direction of a connection | |
| `TcpStream` | one connection with sequence numbers and a network | `TcpSockets` |
| `FlashDevice` | flash, commands FE, FB, FW and FM with the copying | |
| `Reflash` | the host that pushes and the network between, composed with the device | `FlashDevice` |
| `Reflash_proofs` | theorems about `FlashDevice` and `Reflash` | `Reflash` |
| `HttpServer` | request parser, pages, dynamic pages, websockets, files, reuse of slots | |
| `HttpServer_proofs` | theorems about `HttpServer` | `HttpServer` |
| `Browse` | probes, responses and searches over the one UDP espconn | |
| `IpInput` | Ethernet input: ARP, ICMP, UDP, TCP, and what is answered; composed with browsing | `Browse` |
| `IpInput_proofs` | theorems about `Browse` and `IpInput` | `IpInput` |
| `System` | start-up, settings, Wi-Fi mode, the idle task and the timer, restarts | |
| `System_proofs` | theorems about `System` | `System` |
| `Sniffer` | capture of Wi-Fi frames, its TCP stream, clock, table of clients | |
| `Sniffer_proofs` | theorems about `Sniffer` | `Sniffer` |
| `TxDma_proofs` | theorems about `TxDma` | `TxDma` |
| `MCTcpSockets`, `MCReflash`, `MCHttpServer`, `MCTcpStream` | give constants for TLC, symmetry, and what is assumed of them | |

Definitions marked "Mutant" are plausible mistakes in the operator that follows
them. Each property was seen to fail when one of them takes the operator's
place (PROJECT.json, "mutants"), so none holds merely by the shape of a model.
Variables and members called "history" are not in the code: they remember what
a property needs.

### RxPath

The interrupt is cut at every word of a block of samples: `left` words are left
of it, and the main loop moves only while `left = 0`. That it moves between any
two blocks, at each of its steps (`pc`: flag test, CRC, callback, release), is
all the interleaving the hardware allows. A word of samples is reduced to what
the decoder can tell: quiet, preamble, start delimiter, data, an end of packet
at the right (`tail`) or a wrong place (`stop`). `NextWords` is the line: gaps,
frames of any length up to `LineWords`, faults anywhere in them.

| Code | Actions |
| --- | --- |
| `GotNewI2SData` 283-306: search after a packet | `Search` |
| 308-337: every other word, three in a row start a frame | `Quiet`, `PassOver` |
| 339-415: `ResetPacketInternal`, or search on; stale `r` at the end of a block | `Start` |
| `DecodePacket` | `DecodeFirst`, `DecodePreamble`, `DecodeData`, `DecodeOverflow`, `DecodeEnd` |
| `et_backend_tick_quick` | `ScanFlag`, `CheckCrc`, `CallbackReturns`, `Release` |
| engine down, restarts | `LoseWord` |

`mem` holds the words themselves, with the number of their frame and place, so
that "the CRC is right" is "these are all words of one frame in order"
(`Intact`). A decoded byte is taken to be a word; the code's lag of a byte at
the end of a packet is inside one word.

`FramePool` says what the receive path is for. The mapping (end of `RxPath`)
calls a buffer full when its flag is 2, filling when the interrupt has a frame
in progress in it *whatever its flag says* - after a faulty first word the flag
is 0 and the decoder goes on -, else free.

### RxCapture

`store` is what can be told of `PacketStore`: of which frame its samples are.
Commands come in frames and over Wi-Fi, so they run wherever the main loop is.
CK takes any number (`CKSet`); it empties the store and sets `KeepNextPacket`
in two stores, and an interrupt may come in between (`ck`).

### TxDma

Descriptors are numbered as the code's `unused` member numbers them at the
start, 6 is the link pulse. `Engine` follows links, and its flag for a finished
descriptor overwrites the one before: late interrupts are lost interrupts.
`Kick` is `testi2s_init`, from the interrupt or the timer. `nlpcount` counts
finished descriptors, not bytes.

`buffer` says whether the preamble is in `sendDMAbuffer` and whose data follows
it: `SendPacketData` writes the preamble before it waits, the same one every
time, and the data after (`Call`, `WaitDone`). `doneEarly` records that the
packet was out, or dropped by a restart, before `SendI2SPacket` got to clear
`i2stxdone` for it: restarts and the engine may come between any two steps of
the main loop, those two stores included (see "Known disagreements"). `onTime`
says that an interrupt is always taken before
the engine finishes the next flagged descriptor: chosen at the start and kept,
so one run has both kinds of behaviour, and only liveness asks for it.

### TcpSockets

One action is one handler run to its end. Segments are anything anyone may
send: `Segment` picks the flags, whether an acknowledgement is the one waited
for, whether data is the data expected. An HTTP connection is free, reading a
request or serving one; what it does in the receive callback is one of
`Deeds`. Wi-Fi connections share the HTTP table. Socket 0 exists only for its
stale MAC (`mac0`) and in what is sent from it (`wire`).

| Code | Actions |
| --- | --- |
| `HandleTCP` 134-168 with `et_TCPReceiveSyn` and `httpserver_connectcb` | `Syn` (`Open`, `Register`, `Reset`) |
| 171-187 no socket | `Stray` |
| 189-196 RST | `Rst` |
| 200-228 acknowledgement | `Acked`, in every segment |
| 230-254 FIN, anything while closing | `Fin`, `Late` |
| 265-308 data | `Data`, `NoData` |
| `TickTCP` | `TickTCP` |
| `HTTPTick` | `Serve`, `KeepAlive`, `HTTPClose` |
| connections over Wi-Fi | `WifiConnects`, `WifiCloses` |

Two functions lack a return statement. `et_TCPReceiveData`'s result is a free
choice (`acks`); `HandleIncomingEthernetSyn`'s is a member of `HookReturns`,
which is {0, 80} in the run `TcpSockets` (80 is what the register that held the
port leaves) and {0} elsewhere.

### TcpStream

The same actions for one connection, with `seq_num`, `ack_num`, the stored
packet and a network that never forgets: every packet ever sent may arrive at
any time, any number of times, or never. The client is any that conforms: it
sends bytes it has, new or again, with an acknowledgement of anything it
received. `ByteStream` is the promise, in both directions.

### FlashDevice and Reflash

Flash is counted in pages of 1024 bytes, the data of one FW; sectors and blocks
are some pages each. Programming can only clear bits, so a page written twice
with different data is `Mixed`. A hash is what was hashed.

| Code | Actions |
| --- | --- |
| `issue_command` FE, FB, FW | `EraseSector`, `EraseBlock`, `WritePage` |
| FM: `MyRewriteFlash` returns at once with an error | `Refuse`, when `Verify` is not 0 |
| FM: goes on | `Rewrite`, when `Verify` is 0 |
| the copying, flash_rewriter.c from 238, to the restart | `CopyErase`, `CopyWrite` |
| `Push` (web/execute_reflash.c): send a command, again after 100 ms, give up | `Ask`, `GiveUp` |
| `PushMatch` returns with the answer | `BlockErased`, `Written` |
| web/execute_reflash.c is run once more | `RunAgain` |

The network is the set of all datagrams ever sent, and any may arrive at any
time. Answers reach only the port of the run of the host they are for. An
answer names the command and the address but not the data, so a late one can be
taken for another: `late` counts the datagrams used after their time. A file
whose length is a multiple of a page is pushed with a page of zeros more, for
the end of file is found only by reading on (`Exact`). The MD5 of an image is
modelled without the key the device may have.

### HttpServer

Text is a sequence of tokens, those a state of the parser tells apart: a path,
a blank, an end of line, the header line of a websocket, the two halves of a
websocket frame. The client's text reaches `http_recvcb` cut anywhere, and each
character is one action, so that a segment can end in any state. A slot is a
record with every member that outlives a connection; `Fresh` sets only what
`httpserver_connectcb` sets. What is sent is a packet named by its kind and, for
files, by the bytes it carries.

| Code | Actions |
| --- | --- |
| `HTTPGotData`, one state each | `WaitMethod`, `WaitPath`, `WaitProto`, `WaitFlag`, `WaitInflag`, `DataXfer`, `DataWebsocket`, `WaitClose`, `NoState` |
| `InternalStartHTTP`, `HTTPCustomStart`, `HTTPHandleInternalCallback` | `InternalStartHTTP` and its operators, in `WaitFlag` and `HTTPTick` |
| `WebSocketGotData`, `WebSocketTickInternal`, http_custom.c | `DataWebsocket`, `HTTPTick` |
| `httpserver_connectcb`, `http_recvcb`, `http_disconnetcb` | `httpserver_connectcb`, `http_recvcb` to `Return`, `Disconnected` |
| `HTTPTick`, `DoHTTP` for every slot | `HTTPTick` |

`timeout` is a count of `Word` values that wraps and is handed down from one
connection of a slot to the next (`Fresh` does not set it back). What is asked
of it is put in terms of two histories: `idle`, the ticks that found the
connection waiting since data came, and `last`, whether data or the server's own
close came last, which tells a close by the server from one by the peer though
the slot looks the same after both. A search for a websocket's key that fails
leaves up to 20 characters of the segment, here any end of it (`FindKey`).

TCP is what TcpSockets and TcpStream show it to be, in one bit: a packet waits
for its acknowledgement or not. A websocket frame whose end is missing has one
of three fates, by how many of its characters are there: `Established` says
which.

### Browse and IpInput

`remote` is the one remote address of `pUdpServer`: of the datagram in hand, of
the next one to be sent, and, for a command that came over Ethernet, whatever
was last. `BQ` answers a waiting probe first, as the code does, and takes
`remote` after that.

| Code | Actions |
| --- | --- |
| `issue_command` BQ, BR, BS, the rest | `BQ`, `BR`, `BS`, `Other` |
| `issue_command_udp` | `issue_command_udp` |
| `SlowTick`, `EmitWhoAmINow`, `EmitBrowse` | `SlowTick` |
| `et_receivecallback` | `et_receivecallback` with `TakePorts`, `TakeSource` |
| its handlers | `HandleArp`, `HandleICMP`, `HandleUDP`, `HandleTCP` |

A frame is a record of what its handler reads. The destination is one of five
`Targets`, so that the check octet by octet is the code's (`ForMe`). `reply` is
what the last frame made the device send.

### System

A step runs to the next point where a command can come in, or the power can
fail: between two writes to flash. `pc` names it.

| Code | Actions |
| --- | --- |
| `user_init` | `user_init`, `CSPreInit` |
| `CSSettingsLoad`, `CSSettingsSave` | `CSSettingsLoad`, `SaveDefaults`, `RestoreAgain` |
| IN, ID, IS, IL, IR, W1, W2 | `issue_command` |
| `procTask`, `CSTick(0)`, `CSTick(1)`, `SlowTick`, `myTimer` | `CSTick`, `Ticked`, `SlowTick`, `myTimer` |
| IB, a power failure | `Restart` |
| external: the SDK's station and `system_restore` | `Station`, `system_restore` |

### Sniffer

A record of the pcap stream is the number of its frame, its time and its
length. Time (`now`) is unbounded, the SDK's clock has its low bits, and `tv_usec + diff`
wraps as the code's uint32_t does (`UpdateTime`). It would lose a turn of the
clock if more than `Word - Second` went by between two runs of the task; the
timer runs it a hundred times a second, so `Pass` stops there. Of TCP each
socket has its state, whether a packet is outstanding, and whose
`disconnect_callback` it has; a web server takes sockets from the same table.

| Code | Actions |
| --- | --- |
| `promisc_cb` | `promisc_cb` |
| `TickPacketSet`, `UpdateTime` | `TickPacketSet` |
| `HandleIncomingEthernetSyn`, `et_TCPReceiveSyn` | `HandleIncomingEthernetSyn`, `WebSyn` |
| `HandleTCP`, `TickTCP`, `pkcapt_close` | `Acknowledged`, `Fin`, `Rst`, `GivenUp` |

## 3. What is checked

| Run (module) | Result | Shows |
| --- | --- | --- |
| `RxPath` (`RxCapture`) | passes | no leaked buffer; a checked frame stays as it was checked; delivered once; bounded overtaking; refines `FramePool` with its fairness, so every complete frame is served; only a command changes or releases a locked capture, and the interrupt locks no empty one |
| `RxPath_drop` (`RxPath`) | violated | a frame given up though a buffer was free |
| `TxDma` | passes | lists match state; nothing is written under the engine; sent once; done means sent; the wait ends but for a flag lost in one gap; packets and link pulses go out |
| `TcpSockets` (`MCTcpSockets`) | passes | HTTP connections work on their own live socket, whatever anyone sends |
| `TcpSockets_live` | passes | closing ends; retransmission ends; established sockets are served, if closing connections are not reset |
| `TcpSockets_none` | violated | a second disconnect callback clears another socket's connection |
| `TcpStream` (`MCTcpStream`) | passes | byte streams in both directions; "can send" means received |
| `Reflash` (`MCReflash`) | passes | one whole program is left; copied is what was verified; what the host pushed is staged, if nothing comes late |
| `HttpServer` (`MCHttpServer`) | passes | a file goes out in order and whole before its connection is closed; pages and websockets have their own callbacks; nobody who talks is timed out; who falls silent is, in time, whatever count the slot was left with; connections end; no deadlock |
| `IpInput` | passes | answers go to the sender; every probe is answered; the table lists the peers once; searches end with all their probes sent |
| `System` | passes | settings in RAM and flash agree; defaults only when asked for; a failed station is tried again |
| `Sniffer` | passes | the capture is an open socket of its own; its stream is a pcap file; times are kept; the oldest client is dropped; what was collected is sent |

The type invariant of `Sniffer` is checked by its run, for it says more than
types: that `sendbuffer` does not overflow.
The types of all other modules with proofs are theorems instead, as are several
invariants that were checked by TLC first and are proved since
(`ReceivingIntoOwnBuffer`, `CallbackSeesCheckedFrame`, `ClosingIsTimed`,
`SearchGoesOn`, `OneEntryEach`, `ImplementsPool`).

A violated run shows code and comment at odds; PROJECT.json, "findings", quotes
both.

### Known disagreements

Met while modelling, and in the models, but without a run of their own:

* manchestrate.c:286 says that the search after a bad packet goes on until the
  data is quiet, 295 that three words that are not null are looked for; 296
  ends it at the first such word, so decoding can start inside the rest of a
  bad frame (`Search`).
* net_compat.c:69-71 locks the capture when a CRC fails, but what is in
  `PacketStore` by then may be a later frame; with custom_commands.c:38 arming
  in the middle of a frame, "next packet" is captured from its middle. Both
  are behaviours of `RxCapture`, which is why `LockedStoreKept` only says
  that what is locked stays. custom_commands.c:38 names 1 and 2, but takes any
  number: CK4 locks a store it has just emptied.
* i2sduplex.c:414-417: `SendI2SPacket` links the packet before it clears
  `i2stxdone`. A packet that is sent between the two stores, or dropped there
  by a restart (`KickRX`), leaves the flag cleared with no interrupt to set it:
  the next `SendPacketData` waits until another restart, and if none comes for
  ever. `TxDma` has these behaviours; `WaitEnds` excepts them (`doneEarly`) and
  shows that there is no other way to hang.
* tcp.c:140: a refused SYN is answered from socket 0 before its MAC is
  updated, so the reset goes to the station of the last use (`mac0`, `wire`).
* user_main.c:95 and mystuff.c:167: functions whose result is used end without
  a return statement.
* tcp.c:138: the `rsck` of the SYN block shadows that of the function, so the
  SYN|ACK is counted for socket 0 and never repeated, though tcp.h:91 says "if
  zero, then no packets are pending".
* http.c:616: a websocket frame sent from the receive callback replaces a
  packet that is not acknowledged, against tcp.h:61 (`SData` in `TcpStream`).
* flash_rewriter.c:76 checks destinations for multiples of 4096, but the copying
  erases blocks of 65536: `Layout` asks for what the code does not check.
* user_main.c:112-113 says "Uncomment this to force a system restore." and the
  call is not commented out: every start forgets the network that W1 set, which
  the web page (menuinterface.js:69) says is saved. A name that is empty (IN,
  IS) makes the next IL or start reset everything. `printed_ip` is cleared only
  by a failure, so a change of network while connected is not announced. After
  HTTPTick(0), in which a page may issue W1 or W2, `SlowTick` still works by
  the mode read before (`opm`). The use of JoinGropMDNS's value, which has none,
  is a free choice.
* HTTP: a slot keeps `timeout` of the connection that timed out in it, so the
  next one, if nothing comes in time, is closed at its first slow tick
  (`ClosedWhenIdle` asks that something came). An unknown page under /d/ is
  answered with "Connection: close" and never closed (`ConnectionEnds` excepts
  it); an unknown websocket is marked 404 and accepted, with the callbacks of
  the slot's last page (http_custom.c:153-156, `OwnCallback` excepts it); a
  handshake that fails while `keep_alive` is left from before goes on as a
  request. http.c:560-563 says that an incomplete websocket frame is dropped
  with its connection, but fewer than five characters of one are passed over
  and the connection goes on (521-522); an incomplete header of a longer frame
  makes `curlen` wrap, and the frame is taken for whole. http.c:605 encodes a
  length of 126 as if it were short. A second request in one segment is lost.
* Browsing: a probe that comes while another waits is answered at the other's
  port, since `EmitWhoAmINow` overwrites `remote_port` before it is read
  (commonservices.c:165-171). A command that came over Ethernet or HTTP works
  with the address of the last peer on Wi-Fi. BS hands `nam` to
  `BrowseForService` where the service was read (211).
* iparpetc.c accepts a broadcast octet by octet: 10.1.255.5 is taken for this
  host, 255.255.255.255 is not (`Targets`, "mixed" and "ones").
* Sniffer: `pkcapt_close` ends the capture of now whichever socket closed, so a
  reset of an old one that is closing silences its successor
  (pRemoteSniffer/custom_commands.c:165-168, tcp.c:189-196). The age of a
  client in CS is a signed difference: one not heard for 36 to 71 minutes is
  listed again; after a turn of the clock ages start over, which is why
  `DropsOldest` asks for less. CI stores the channel unchecked. Data may follow
  the SYN|ACK at once, before it is acknowledged.
* user/custom_commands.c:96-97 sets `KeepNextPacket` to 0 before it looks
  whether it is 4, so CN always answers that there was none.

### Bounds

* `RxPath`: two buffers as in the code, blocks of 4 words, buffers of 2 words,
  frames up to 3. A block is shorter than a preamble and than a frame with its
  gap, so that every event falls at every place of a block; buffers are
  shorter than the longest frame, so that they overflow; a frame of one word
  is a runt. Three frames fill both buffers and ask for a third. `PreWords =
  5` because the code looks at every other word: three looks and the skipped
  word must fit. In a behaviour either commands for the capture are given
  (`watched`) or words are lost; `LossToo = TRUE` has both in one, too many
  states for a run; the proofs are for either.
* `TxDma`: three packets and two restarts; a link pulse every 10 interrupts is
  enough for idle loops between pulses.
* `TcpSockets`: two sockets beside socket 0, two web peers, one stranger, two
  HTTP connections, of which Wi-Fi takes one, three connection requests: one
  socket is used twice, one peer can have two, and either table can be full
  while the other is not. One tick before resending, and every timeout happens.
  `TcpSockets_live` has one retry, and leaves out the stranger, Wi-Fi and
  resets of connections that are closing, with which served sockets are
  lost (`TcpSockets_none`).
* `TcpStream`: three bytes and three packets each way, so that an old packet
  can be two behind.
* `Reflash`: three runs of the host with files of different lengths, one that
  fills its place and one that runs over into the second; sectors of two pages
  (the 1 that flash_rewriter.c:220 adds is a byte in the code and a page here:
  with sectors of one page it would round up to a block more), blocks of two sectors, images of one and two blocks;
  two tries for a command; one datagram that comes after its time, anywhere.
  Deadlock is not checked: once every run has ended and no datagram is left to
  come late, the system really stops.
* `HttpServer`: one slot, as slots are independent but for the choice of a free
  one and `curhttp`, which the parser runs under alone; two connections, so that
  the second finds what the first left, and two requests, on one of them or one
  on each. A timeout of one tick, and a count of four values, so that the
  second connection may find it past the limit or wrapped; sectors of one byte: a file of five has a full
  packet of four sectors and another, the file of none is answered without
  data, and there are two entries of the same name. Eight paths: a file, an
  empty one, an absent one, two dynamic pages and an unknown one, a websocket
  and an unknown one. The other paths behave as one of these; their constants
  are in `DynPaths` and `WsPaths`.
* `IpInput`: three peers and a table of two, so that it overflows; searches of
  two probes with pauses of one or two ticks; three commands, so that two can
  wait for a third; two hosts, one that asks between two frames of the other.
* `System`: four commands, enough to edit, save, edit and load; three starts,
  so that a restart can interrupt what follows a restart.
* `Sniffer`: a clock of four values, a second of two and four steps, so that it
  wraps and the longest gap there may be between two ticks occurs; a buffer
  that the header and two records fill but for one byte; three frames of three clients in a
  table of two; two sockets and two connections, so that one capture can
  replace another, or the web server take the socket of one.

### Fairness

* `RxPath`: the interrupt runs to its end (weak), and the main loop gets the
  processor between interrupts (strong fairness, as it is disabled during each
  of them). The code needs this to work at all: a block takes 51 us to fill
  and the decoder less to read.
* `TxDma`: the engine never stops, interrupts are taken, a call that has begun
  goes on; all weak.
* `TcpSockets`: `TickTCP` only, which the SDK's timer calls every 10 ms. No
  peer is assumed to do anything. `AnswersUnasked` is FALSE there: a peer that
  keeps asking a websocket restarts the clock of its own packet each time.
* `HttpServer`: callbacks run to their end, the slow tick goes on, TCP
  acknowledges what was sent or ends the connection, and a disconnect that was
  asked of Wi-Fi happens; all weak. Of clients nothing is assumed.
* `IpInput`: the tick, which the timer brings.
* `System`: the program goes on (weak). The timer fires between two runs of the
  idle task again and again, though each run disables it (strong).
* `Sniffer`: the tick, and for each socket an acknowledgement or its timeout;
  both weak.

## 4. What is proved

Every safety property that a run checks, invariant, action property or
refinement, is a theorem for every value of the constants. PROJECT.json lists
them, with what they state.

`RxPath_proofs` holds for any number of buffers and any lengths, `Lossy` or
not, from `ConstantsOK` alone:

* `TypeCorrect`: the types.
* `Invariance`: the inductive invariant `IInv`. `NoLeakedBuffer` alone is not
  inductive: to see that a step keeps it one must know that the buffer the main
  loop works on stays complete, that no other buffer than `rx_cur` is in
  transit, that the interrupt does not go on in a complete buffer, and that the
  frame in the callback is the one checked. `IInv` is the conjunction, with the
  bound on `waited` that the order of the polling loop gives.
* `NoLeak`, `Exclusion`, `CheckedFrame`, `Overtaking`, `StableWhileRead`: from
  `IInv`.
* `Refinement`: `Spec => ImplementsPool`, each action being a step of the pool
  or none. With one lemma for each kind of step.
* `NoFrameTwice` needs more than the buffers: `OnceInv` says that the line is
  past the beginning of every frame that is in a buffer or was delivered, that
  no two buffers hold the beginning of the same one, and that what a buffer
  holds was not delivered, unless it is about to be released.
  `OnceInvariance` has both invariants together.
* `CaptureWatches`: the capture only adds variables, `CSpec => Spec`, so all of
  the above holds with it. `StoreLocked` then shows that only a command changes or
  releases a store that is locked, and that the interrupt locks no empty one
  (`Begins`: once it is in an armed frame, something was stored).

`TcpSockets_proofs` holds for any number of sockets, HTTP connections, peers,
ticks and retries. `SocketTypes`, `ServesOwn` and `ClosingTimed` come from one
`IInv`: the types, what a single socket must satisfy (`SockOK`), and
`LiveServesOwnSocket`, the bond between the two tables. The bond is what makes
a handler's change of one table safe for the other; `BondKept` and
`ClosingKept` say so once, and each handler has a lemma that uses them.

`EstablishedServed`: a connection request is answered
when a socket is free, and served when an HTTP connection is too; that the
first implies the second is a matter of counting: connections that are live
work on sockets of their own, so there are no more of them than sockets in use
and connections that Wi-Fi may hold (`Served`), and one is left by
`EnoughConns`, which the code's 3 sockets and 8 connections satisfy for
up to 5 over Wi-Fi. It assumes that closing connections are not reset
(`~ClosersReset`), without which it is false, as `TcpSockets_none` shows.

`WhatItSays` and `TwoStreams` are about `TcpStream`, for its one connection
(`OneConnection`), any number of bytes, packets, ticks and retries, and a
network that may deliver whatever was ever sent. `StreamInv` says that every
packet in the network, and the one stored to be sent again, is a part of what
was written, by its sequence number; how far the client is between what was
acknowledged and what was sent; and what the clock of the socket says about the
packet that waits. Both assume `~AnswersUnasked`: nothing is written while a
packet waits, for what is then written replaces it (see "Known
disagreements").

`Reflash_proofs` begins with the device: `ExactRewrite`, for sectors, blocks,
images and destinations of any size. Its `DInv` says that while copying the
flash differs from what was verified only up to the place the loops have
reached, and is right or blank there; `BlocksCover` shows that the rounding of
the code's loop bound copies every page and nothing past the last block. It
needs `Layout`.

Then the host and the network. `PInv` says that no request
touches the program's place, that the device is whole when idle, and that what
it copies are both files of one run of the host. `VerifiedFits` derives `Layout` from the
fact that the verification succeeded; of the files only `PlacesOK` is
assumed: that they go to whole blocks in order, and that the second one fits.
The results are `ReflashTypes`, `OneWholeProgram`, `DeviceWithHost` (the
composition implements the device on its own) and `ExactOverNetwork`.
`PushedStaged` follows the host page by page, while no datagram came after its
time: a command is not sent before those it follows are answered (`Behind`), so
an answer is to the command at hand; what is behind the page at hand is
written, and what is ahead of it in the block is blank (`Pushing`). Of the flash
it needs `StageOnFlash`: that it is at least twice the half the program runs in.

`HttpServer_proofs` holds for any number of slots, any file system, any number
of connections and requests, cut anywhere. A handler changes one slot, so there
is one lemma for each function on slots, and `OneSlot` makes a step of it.
The invariant of a slot, `SlotOK`, adds to `PageInOrder` and `OwnCallback`
what they rest on: `SendsFile`, that packets sent and `bytesleft` make up the
file, that the last of several packets is data, and `isdone` is set only when
nothing is left - which `InternalStartHTTP`
must establish whatever page was in the slot before - and `Linked`, that only a
free slot has no connection. `OnTime` compares `timeout` with `idle`: after the
first tick it is not behind, however the slot was left, and if data set it back
the two are the same. `SentInOrder`, `CalledBack`, `EndsWhole`, `EndsIdle`,
`EndsInTime` and the types follow.

`TxDma_proofs` holds for any number of packets, restarts and idle loops:
`ListsAsInsendSays`, `BufferIsFree`, `NoPacketTwice`, `DoneIsSent`,
and the types. The invariants are not inductive: `TxInvariant` adds where the
engine can be for each value of `insend` and of the program counter, however
many of its interrupts were lost and wherever restarts fell.

`IpInput_proofs` holds for any peers, ports, hosts, table and searches:
`PeersListed`, `SearchNeverStalls`, `SenderAnswered`, and `OneProbeWaits`: at
most one probe is not answered, the one `BrowseRespond` holds, which is what
makes `ProbesAnswered` follow from the tick. Handlers of browsing have their
lemmas once, and the input's actions use them.

`System_proofs` holds for any names, networks, commands and restarts. `InSync`
is extended to the rest of start-up (`Synced`), and `DefaultsAsked` rests on
`Keyed`: flash never holds settings that have a name but not the key, wherever
the power failed.

`Sniffer_proofs` holds for any sockets, clients, clock and buffer.
`CaptureIsPcap` rests on what `sendbuffer` is when appended to the stream of
the capture of now, and on its records being no later than the clock;
`ClockIsKept` on `Pass`, which lets at most a turn of the clock less a second
go by between two runs of the tasks; `OldestIsDropped` on every time in the table being the low
bits of the time it was heard (`at`); `TypeCorrect` shows that `sendbuffer`
does not overflow.

Model-checked only: liveness, and whatever rests on ENABLED, which are out of
reach of TLAPS: `ImplementsFairPool` beyond `Refinement`, `WaitEnds`,
`LineIsShared`, `ClosingEnds`, `ResendingEnds`, `ConnectionEnds`,
`ProbesAnswered`, `SearchEnds`, `StationRetried`, `CaptureGoesOn`. For several
of them the safety they rest on is proved: `SearchNeverStalls`,
`OneProbeWaits`, `ClosingTimed`, `Overtaking`.

## 5. Not modelled, and why

* Manchester code itself (tables, nibble by nibble), CRC, MD5 and Base64: pure
  functions over 32 bit words, a candidate for a module of functions.
* UART: output only; received characters go to an empty `charrx`.
* mDNS: called at start, but switched off by DISABLE_MDNS in this project.
* DHCP client, ARP and ping clients: not compiled in. Nor is the Wi-Fi scan
  (W S, W R), behind ENABLE_SCANNING.
* The commands for GPIO and echo, FX and FR, CL, CM, CS and CH: they read, or
  set what nothing else reads.
* pushtodev and the flashing from the web page, which use the same commands as
  `Reflash`; the copies of host tools; mfsmaker and FindMPFS.
* The web page's queue of commands: JavaScript over a websocket, a client of
  what is modelled.
* The SDK, but for what the code asks of it.
* Wrap-around of sequence numbers, checksums, windows (the code sends a
  constant one and ignores the peer's).
* The parts of pRemoteSniffer that are the firmware's own files once more.

## 6. Plan

Done: receive path, capture, transmit path, sockets, stream, HTTP server,
Ethernet input, browsing, settings and start-up, flash update, sniffer; proofs
of the safety of all of them.

Next, in this order:

1. Liveness of `TcpStream` under a client that repeats, and FIN and RST with
   sequence numbers.
2. The composition of `HttpServer` with `TcpSockets`, in which a slot's
   disconnect is the socket's.
3. `Manchester` and `Crc` as pure functions against reference definitions.
4. The page's command queue.
