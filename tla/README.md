# A TLA+ model of z80-tcpip

z80-tcpip is a TCP/IP stack for a ZX Spectrum that talks SLIP over the serial
port of an Interface 1, with three programs on top of it (ping, a chat and an
IRC client) and a bridge for the host that connects an emulated Spectrum (FUSE)
to a tun device. These modules model its control flow, TLC checks them on small
instances, and TLAPS proves every safety property of the runs that pass for every
instance: those of the TCP client, of the SLIP receiver, of the bridge, of ping, and of
the sessions, the dialogue and the screen of the chat and IRC clients.

## The system

| part | state | operations | who else acts |
|---|---|---|---|
| TCP client, `tcp.c` | `seq`, `ack`, ports, one packet buffer for both directions | `tcp_connect`, `tcp_send`, `tcp_recv`, `tcp_recv_timeout` | the server; a network that loses, repeats and reorders |
| SLIP, `slip.c` | none between calls | `send_packet`, `recv_packet` | the line goes on while the program is elsewhere |
| bridge, `slip-tun.c` | `attached`, the decoder, four descriptors | one `poll` loop: `handle_tun`, `handle_tx`, `client_attach`, `client_detach` | FUSE instances, the kernel's fifos, the tun device |
| chat, `tcp_chat.c` | `window_open`, input line, log line | a loop of `handle_key` and `poll_net` | the server, the user |
| IRC, `irc.c` | `window_open`, input line, `rxline`, `out`, pending flags, `cur_chan`, `mynick` | the same loop, `flush_pending`, typed commands | the server, the user |
| IP, `ip.c` | the packet id | header and checksum | |
| ping, `icmp.c`, `ping.c` | `retries` | up to five requests, one packet judged | the host, other packets on the line |
| dialogue of chat and IRC | the typed line | `read_line`, `parse_ip`, `parse_number`, `next_word` | the user |
| screen of chat and IRC | what the console shows, the input line | `draw_input`, `log_line`, `emit` | the console driver |

The programs call `tcp.c`, which calls `ip.c` to build a header and `slip.c` to
move bytes. There are no threads and no interrupts on the Spectrum: all
interleaving is with the outside world, at `rs232_get()`. What is hard:

* one packet buffer serves for sending and receiving, and any packet that
  arrives while `tcp_send` waits ends the wait or costs a retry;
* the serial port has no buffer, so bytes are lost whenever the program is not
  reading, and reading starts in the middle of frames;
* the window is closed most of the time, and every window update is sent once;
* the programs act on received data in the middle of sending;
* the bridge has to keep two FUSE sessions apart while the processes come and
  go between any two of its system calls, itself included;
* log lines and the line being typed share a screen without a scrolling region.

`PROJECT.json` lists the places in the code where each of these bites
("hazards") with the properties about them.

## Modules

* **Tcp** models `tcp.c`. `pc` is "run" between two calls and "wait" inside
  `recv_packet()`; every packet or timeout that ends the wait is one action
  that runs to the next wait or to the return (`rx_synack`, `rx_probe`,
  `rx_nodata`, `rx_data`, ...). The actions `again`, `fail` and `succeed` are what
  `tcp_send` and `tcp_connect` make of the result. A packet is a record;
  checksums and header bytes are left out. The content of the buffer matters in
  one respect, whether a received packet has overwritten the data to be sent
  (`overwritten`), and a data byte of the server is known by its position. The
  server is external: it numbers, acknowledges, retransmits, probes and resets
  as an ordinary TCP would. The network is a growing set in each direction.
* **ByteStream** is what the TCP client promises an application: one connection
  with a stream in each direction; received bytes come in order and at most once,
  but bytes may be left out (the gap of `tcp_gap` and what `tcp_send` drops are
  steps of it), and sent bytes are known to have arrived only when
  they have. `Tcp` maps `ack` to the next byte, `delivered` to the bytes given, the
  server's received bytes to those arrived, and `seq` to those acknowledged, and
  states the refinement as `IsByteStream`.
* **TcpProofs** holds the theorems about Tcp, about the refinement and about what
  reaches the server.
* **SlipCodec** is the byte stuffing; **SlipRecv** is `recv_packet()`, one
  `rs232_get()` per step. A byte is a name. The host puts a whole frame on the
  line at once, because a write of at most PIPE_BUF bytes to a fifo is not split
  and a frame has at most 3002 bytes; but the line may stall at any byte of it, and
  a read that times out there stores the byte before once more. **SlipRecvProofs**
  holds its theorems.
* **SlipTun** is the bridge, with one action for every system call whose outcome
  another process can change. A fifo keeps its contents while any process has
  either end open. A frame for the Spectrum is known by the instance that was
  running when it was written, a byte from the Spectrum by its writer. The bridge
  itself may be killed, or leave by `die()`, at any step and be started again
  (`startup`, `startup_drain`); a byte that FUSE writes while there is no bridge is
  kept or lost, depending on how FUSE has opened the fifo. **SlipTunProofs** holds its
  theorems.
* **Session** is the loop that `tcp_chat.c` and `irc.c` share (`poll_net`, the
  draining send) over what `tcp.c` looks like from above: a segment of ours is
  heard or lost, and anything the server has sent may arrive, once more or for
  the first time, in any cut. The server (external) keeps to the window it has heard
  of, with its FIN too, and goes on repeating what it has sent. `framed` is the one place
  where a call can stay: `recv_packet()` has seen an END and waits for the rest of the
  frame without a timeout (`frame_begins`, `frame_ends`; finding `slip_hang`).
* **Chat** adds the keyboard and the log: `logline_char` folded over each segment.
* **Irc** adds line assembly, the pending flags, the typed commands and `out[]`.
  A word stands for the characters of a command; a typed command is known by
  what it puts into `out[]` and what it does to `cur_chan`. A `/raw` line may be any line,
  so what it does to the server's idea of our channel is unknown (`joined` is `Unknown`).
  `Kept` says what the 64 bytes of `pong_arg` keep of the argument of a PING. The ghosts
  `asked` and `joined` change when `tcp_send()` has returned, since it may fail.
  **SessionProofs**,
  **ChatProofs** and **IrcProofs** hold the theorems, the first what the two share.
* **DataLemmas** has no state: it proves what the proofs need about loops over a
  segment or a fifo (`FoldLeft`, recursive functions, `FlattenSeq`), about the bytes of
  an encoded packet, and about division, greatest and least numbers and sequences.
* **Ip** is `ip.c` in 16 bit words: `csum` with its two folds as a function of the
  sum of the words, and the header. **Ping** is `icmp.c` and `ping.c`: each request
  is built in the buffer of the one before, and `recv_packet` is "recv", where it
  times out, or "frame", where it does not. The host is external and answers only
  what verifies.
* **Dialogue** is what the chat and IRC clients ask before they connect, character
  by character, since what it does is to parse: the number of digits, of bytes in an
  address and the widths of `uint8_t` and `unsigned int` are constants, so that short
  lines overflow them.
* **Screen** is the display during a session: rows of characters, the print
  position of the console driver (external), the bottom row with the input line, and
  the order in which the two programs clear, send and echo a line.
* **Console** puts Ping, Dialogue and Screen side by side for one run; only one of
  them is running in a behaviour. **ConsoleProofs** holds the theorems about all three.

The modules `MC...` give the constants their values. A definition that is
named in a comment as "a plausible bug" is not used by any specification: it is
a variant of the definition after it, and each property has been seen to fail
with one of them ("mutants" in `PROJECT.json`).

## What is checked

| run | checks | bounds |
|---|---|---|
| `tcp` | numbers stay truthful (`AckedIsReceived`, `AckWithinSent`), never move back, data fits the buffer, is delivered in order and once, only the application's bytes are sent, the whole is a `ByteStream`, every call returns | 2 ports, 2 attempts, 1 retransmission, 3 server bytes, windows 0, 2 and 3 of 2, 4 server packets, calls until 6 client segments exist |
| `slip` | only whole sent packets are returned, in order, and a stall damages only the packet it falls into; a complete frame ends the call; a call can stay only at a border on a silent line | 3 frames, buffer of 2, timeouts 1, 3 and 4, 2 stalls |
| `bridge` | no leftovers for a new FUSE, only whole packets of the present FUSE are injected, attach and detach follow, also across a restart of the bridge | 2 instances, 2 starts of the bridge, 1 packet from each instance, 2 for them, fifo of 1 frame |
| `chat` | all received text is on screen in the right rows, `window_open` is right, a FIN the server could send is noticed, whatever came with it or was lost, and costs no more text than one window | 4 texts of 4 characters, screen of 2 columns, window of 3 |
| `irc` | `out[]` is one line at a time, no PING is forgotten, every PING that is read is answered unless a frame never ends, `cur_chan` is the channel last asked for | 3 texts of up to 4 words, 2 channels, one drain poll, window of 3 |
| `console` | ping: every request verifies at its receiver, all are tried before it gives up, the retries end; dialogue: an address is understood as typed up to the width of a byte, a client dials a port other than 0 with a nick of one word; screen: the log holds what was logged, in order and in whole rows, and the bottom row what is being typed | 16 addresses, 5 retries; all lines of up to 5 characters, addresses of 2 bytes of 2 bits, 3 digits; a screen of 3 rows and 4 columns, input of 3 characters, 4 kinds of log lines, no bound on their number |

The bounds let the interesting cases happen: a second attempt from another port
with the first SYN-ACK still under way, a retransmission cut across bytes already
delivered, a packet longer than the buffer, a FUSE killed within a frame, a bridge
restarted within a frame whose tail looks like a packet, a line cut by a segment and
by the screen width, a PING read while a PONG is being sent, a sum that carries at
both folds of the checksum, a number that wraps at the word and at the byte, a log
line of exactly the width of the screen.
The number of drain polls (3 in the code, 1 in `irc`) only bounds how much is read
within one send; one poll already interleaves reading and sending.

Deadlock is not checked in `tcp` (the bounds on packets stop the model), `chat`,
`irc` and `console` (the programs may end).

Six runs show where the code does not do what its documentation or comments
say; each is explained under "findings":

| run | what happens |
|---|---|
| `tcp_acked` | `tcp_send` returns 0 for data that nobody acknowledged |
| `tcp_gap` | a segment after a lost one is accepted, and the lost one is acknowledged with it |
| `tcp_wrap` | when the server's numbers wrap, a retransmission is delivered twice |
| `slip_hang` | a stray END on a line that falls silent blocks `recv_packet` forever |
| `bridge_leftovers` | a FUSE restarted quickly reads frames for its predecessor |
| `chat_window` | a lost window update leaves the chat client deaf until the user types: the server may send neither text nor its FIN |

With `InPlace = {TRUE}` (an application that calls `tcp_send` with `data == NULL`, which
tcp.c:51-53 allows and no program of the repository does) `OnlyOurBytes` fails as well: a
retransmission reads the payload from a buffer that a packet has been received into.
All runs and the theorem `ServerGetsOurs` assume callers that pass their data.

Because of `bridge_leftovers` the run `bridge` assumes a slow restart (`SlowRestart`): a FUSE runs
until the bridge has attached it, and the next one starts once it is detached.

### Fairness

`Tcp` assumes that a wait that nothing ends is ended by the timeout of
`recv_packet` (weak fairness of `rx_timeout`); what is excluded is the line of the
finding `slip_hang`. `SlipRecv` assumes that `rs232_get` comes back, `SlipTun` that
the bridge process runs while it is up (nobody has to start it) and that a killed
FUSE gets its files closed. `Ping` assumes that the program goes on and that a silent
line ends in a timeout; inside a frame nothing is assumed (`slip_hang`). `Chat` and
`Irc` assume the same: the program goes on outside a frame (strong fairness of `goes_on`,
strong because frames may begin and end in between; what that excludes beyond a frame that
never ends is an endless row of probes within one call, which the server's back-off rules
out). Inside a frame nothing is assumed, so `PingAnswered` and `AllArrives` make an exception
for a program that stays in one. `HangupNoticed` needs none: the server repeats a FIN that it
has sent, so frames do come (weak fairness of `fin_frames`).

What the server repeats is everything that is not acknowledged, FIN included, in one
segment: that is less than a window, and a segment has room for a window. `Chat` assumes
that polls receive it again and again (strong fairness of `fin_again`), but not that an ACK
of ours is heard: an idle client sends it once. So the FIN may come with text that is new, which hides it from
`poll_net()`; with the text for ever after, when the ACK was lost; or alone. A server that
cuts its retransmissions differently, and never repeats the FIN before the text is
acknowledged, would not be noticed once that ACK is lost. And a server that has missed our
window update cannot send a FIN at all; this is part of `chat_window`, and `HangupNoticed`
speaks of a FIN that has been sent. For `AllArrives`, `Chat` also assumes that the server
sends what its window allows and that what both sides keep on sending arrives in the end
(`server_sends`, `heard`, `data_arrives`).

## What is proved

`TcpProofs` proves, for all values of the constants that satisfy the assumptions
in `Tcp` (any ports, messages, windows, retry limits and numbers of packets) and
under `NoWrap` (the server's numbers do not pass the modulus; `tcp_wrap` shows that
this is needed):

* `TypeCorrect`, `SeqSafe`, `AckSafe`, `BufferSafe`: the invariants `TypeOK`,
  `AckedIsReceived`, `AckWithinSent` and `DataFits`;
* `NoRegression` and `InOrderAtMostOnce`: the action properties `NeverRegresses` and
  `InOrderOnce`.

None of the four is inductive: what the client believes comes from packets, and
packets may be arbitrarily old. The invariant `IInv` therefore says of every packet
that was ever sent what it may say now: a packet of the server numbers bytes the
server has sent and acknowledges bytes it has received (`PeerTruthful`), a packet of
the client acknowledges what the server has sent (`ClientTruthful`); since the
server's counters only grow, old packets stay truthful. `Phase` ties the handshake to
the place in the program, so that a number is only believed for the port it is for,
and `ClientState` says that everything delivered lies below `ack`. There is one lemma
per action, and `Fail` and `Again` for the retry logic that the receive actions share.

Two more build on `IInv`:

* `ImplementsByteStream`: `Spec` implements `ByteStream` under the refinement mapping.
  Every action of the client or the server is mapped to `Open`, `Arrive`, `Receive` or a
  stutter. Beyond `IInv` this needs `Quiet`: before the connection is established no
  segment with data exists for any port, so the stream starts empty whichever attempt
  succeeds.
* `ServerGetsOurs`: `OnlyOurBytes`, for callers that pass their data. The inductive part
  says that every segment under way, and everything the server has taken, consists of
  bytes of some message, which holds because a retransmission copies the message anew.

### Loops over received data

`show_data()`, the line assembly of `irc.c` and `handle_tx()` run over all bytes of a
segment or a fifo in one step of the model. What such a loop computes needs induction
over the bytes, and the library's induction theorems cannot be instantiated by the
provers here because they take a predicate. `DataLemmas` gets around this by induction
over a set (`SetInduction`, from the well-foundedness of Nat): `Chain(h, ...)` says that
`h[i]` is the state after i bytes, `ChainExists` and `ChainUnique` that there is exactly
one such h, and `FoldSteps` that `FoldLeft` computes its last element. A loop invariant is
then proved for the set of all i for which it holds (`UpTo`). For SLIP, `Enc(q, k)` is what
is left of the frame of q after k bytes of the packet; `EncCons` and `EncEnd` take it apart
byte by byte and `FrameIsEnc` says that the frame is an END and all of it.

### Chat and IRC

`SessionProofs` and `ChatProofs`, for every text, window, screen width and number of
drain polls:

* `ChatTypes`, `ChatWindowTracked` (`WindowTracked`), `ChatNothingHidden` (`NothingHidden`),
  `ChatLinesKept` (`LinesKept`) and the action property `ChatHangup`
  (`HangupLosesOneWindow`).

`WindowTracked` is not inductive while a line is being sent, and the hang-up property
needs to know that no acknowledgement and no window the server has seen lies beyond what
the client has read: `SessionInv` adds `WithinWindow` and `WindowKnown`. For the screen the
invariant is on the loop: `Shows(l, s, m)` relates the row being assembled, the rows
emitted and the characters s handed over so far, all from before position m of the
text; `logline_char` preserves it at every character whatever it is (printable, a line
end, neither; at the width of the screen or not), and `ChatInv` says that it holds with an
empty `logline` between two segments. `LinesKept` counts blank rows against empty lines,
so `BlanksRight` keeps the two sets in step character by character.

`IrcProofs`, for every set of words, channels, pings and commands:

* `IrcTypes`, `IrcOutIsOneLine` (`OutIsOneLine`), `IrcPingRemembered` (`PingRemembered`) and
  `IrcChannelJoined` (`ChannelJoined`).

`ChannelJoined` says nothing while `joined` is `Unknown`: after a `/raw` line, which the client
does not look into (`/raw JOIN #b` leaves `cur_chan` as it is), and after a JOIN or PART whose
`tcp_send()` failed. Every JOIN and PART that is sent ends that.

The inductive invariant `IrcInv` is checked by TLC as well. Beyond the four it says that a
pending PONG is the answer to the last PING (`PongKnown`), so that one read while its
predecessor is answered is not lost when `o_send()` ends, and, since `ChannelJoined` is not
inductive, what the line in `out[]` says about `cur_chan`: a JOIN being sent is for
`cur_chan`, and while a PART is being sent there is no `cur_chan` (`ChannelKnown`); so what is
known after it was sent is right again, whatever was known before (`TellsChannel`).
`IrcAssumption` asks that no
argument of a PING is the word 001, so that the two are told apart by their word: irc.c
tells them apart by the first word of a line.

### The bridge

`SlipTunProofs`, for every set of packets, every size of the buffers and any number of
instances and restarts:

* `TunTypes` (`TypeOK`; the decoder stays within its buffer);
* `TunNoLeftovers` (`NoLeftovers`), for `SlowRestart`: `bridge_leftovers` shows that it does
  not hold without;
* `TunInjectedWhole` (`InjectedWhole`), for `SlowRestart` too: every packet handed to the
  tun device is, as a whole, one that the FUSE running at that time sent.

The inductive invariant `TunInv` adds to the types that a packet is there when
`handle_tun` takes it, that an instance that is off has no fifo open, and that rx is empty
when nobody has it open (`RxEmptied`); from the last one and the slow restart follows that a
new instance finds rx empty, so that everything in it is for the present one (`Addressed`).

`InjectedWhole` says nothing of the decoder's state between two bytes, so its invariant
`WholeInv` follows the stream of bytes that an instance writes. A `Place` in it says how many
frames have begun and how much of the last one is out; `Trace` labels the bytes in the fifo
with consecutive places; `InStep` says that the decoder either is not synchronised or
holds exactly the bytes of the frame up to the place of the next byte (`Sync`), and
`DecodeStep` that one byte more keeps it so. That all bytes there are from the instance that
runs (`AllFromUs`) rests on `Gone`: nothing of a FUSE that has gone is left when the next one
starts. Bytes that are lost leave the decoder unsynchronised until an END.

### The SLIP receiver

`SlipRecvProofs`, for every set of packets, every buffer size, all timeouts and any number
of frames and stalls:

* `SlipTypes` (`TypeOK`: the packet buffer is never overrun and `to` never passes zero);
* `SlipReturnsSent` (`ReturnsSentPackets`).

Neither the line nor the buffer says which frame is being read, so the inductive invariant
`RecvInv` says that there is a place l in the sequence of all frames such that the line
holds what is `Ahead` of l, and relates it to `recv_packet` (`Reading`): while it reads, c is
the byte before l even after a timeout, which is why a byte taken twice can be neither
taken for a border nor hide one; p is empty exactly when nothing of the frame has been
read; and as long as the line has not stalled in this frame p is a prefix of its packet
(`Copied`). The witness f of `ReturnsSentPackets` is kept with the place: every frame returned
lies before l (`Before`), so that the next one returned comes after all of them and none
comes twice. Bytes lost while the program is away move l on and nothing else.

### Ping, the dialogue and the screen

`ConsoleProofs`, for every value of the constants of `Ping`, `Dialogue` and `Screen`:

* `ConsoleTypes` (`TypeOK` of Console), `PingVerifies` (`RequestsVerify`), `PingTriesAll`
  (`AllTried`);
* `DialogueTakesAddresses` (`AddressAsTyped`) and `DialogueReady` (`ReadyToDial`);
* `ScreenKeepsLog` (`LogIntact`) and `ScreenShowsInput` (`InputShown`).

The three share no state, so the invariant `ConsoleInv` is the conjunction of one for each
and a step of one leaves the other two as they are.

*Ping.* The arithmetic is in `ChecksumVerifies`: if sum = Wq + r with q, r < W = 2^16, the
first fold gives q + r, which carries at most once, so after the second fold sum + csum(sum)
is (W - 1)(q + 1) or (W - 1)(q + 2). The invariant `Counted` relates `requests`, `retries` and
the place in the program.

*Dialogue.* `AddressAsTyped` is about one state but about two loops: `parse_ip()` over the
bytes of an address and `parse_number()` over the digits of each. For the inner one the
value after k digits is the number meant so far modulo the word; since a byte divides the
word, cutting the result to a byte gives what the number means modulo the byte
(`ByteOfWord`). For the outer one every turn that goes well ends at a cut of the line, and
as a run of digits can end in only one place the cuts the loop finds are the only ones with
which the line reads as an address: the loop accepts if there are some, and reads what they
say. `ReadyToDial` is not inductive; `Settled` adds what is known at the questions before the
last one (a port at the nick, a nick at the channel), and that nick and channel are one word
at any time, also when they are cut at their length limit.

*Screen.* The console driver prints character by character and may scroll at any of them,
so what `log_line()` leaves is proved in two inductions: over the characters of one row
and over the rows of a text. A text that is padded to whole rows leaves the print position
at the start of the row below the screen, so the newline scrolls exactly once, and every row of
the text has pushed the log up by one; that the number printed is a multiple of the width,
and the number of rows that of `rows_of`, is the arithmetic of `padding`. `ScreenInv` says
that the rows above are the log, that the bottom row is what `draw_input()` makes of the
line being typed, that no argument of a control code is awaited (what is printed has none),
and that `input` is still what is being sent while `doing` is "send": `clear_input()` empties
the line by its length only, and no key is read before the echo.

### Only model-checked

The liveness properties `CallsReturn`, `FrameEndsCall`, `StopsOnlyAtBorder`,
`StableClientAttached`, `GoneClientDetached`, `HangupNoticed`, `PingAnswered` and `PingEnds`:
fairness and `ENABLED` are beyond the prover. Every invariant and every action property of a passing run is a theorem.

## Not modelled

`tst.c` prints a line and `NET.sh` configures the host; neither has state of its own.
Of the bridge, how the tun device, the raw socket and the fifo files are created
(`tun_open`, `raw_open`, `make_fifo`, `run_cmd`): either it works or the bridge exits.
The layout of the TCP header and its checksum (the same `csum`). Of `irc.c`, the wording
of the log, `mynick` after the registration, and the length limit of `out[]`: no line
that the program builds reaches it. Whether a PONG or a JOIN that `tcp_send()` reports as
sent has arrived is the business of `Tcp` (finding `tcp_acked`); one that fails is not tried
again, the user is told. The keyboard's debouncing and repeat.

## Plan

The modules were written in this order, each composing the ones before it where they
interact: Tcp with ByteStream; SlipCodec and SlipRecv; SlipTun; Session with Chat and Irc;
Ip and Ping; Dialogue; Screen; Console. All of them are modelled, checked and proved as
described above. What is left is what "Not modelled" and "Only model-checked" name.
