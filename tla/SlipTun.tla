------------------------------ MODULE SlipTun ------------------------------
(***************************************************************************)
(* slip-tun.c: the bridge between a tun device and the two fifos of a FUSE *)
(* emulator, across FUSE instances that start, die in the middle of a      *)
(* frame and are started again, and across restarts of the bridge itself.  *)
(*                                                                         *)
(* The bridge is the poll() loop of main(), one action per system call     *)
(* whose outcome another process can change: what poll() reported may be   *)
(* stale when it is acted upon.  FUSE, the fifos and the tun device are    *)
(* external.  A fifo keeps its contents for as long as any process has     *)
(* either end open, and loses them when the last one closes.               *)
(***************************************************************************)
EXTENDS SlipCodec

CONSTANTS
    Packets,      \* what the Spectrum sends: sequences of bytes
    MTU,          \* size of the decoder's frame buffer
    IP_HDR_MIN,   \* shortest frame that is injected
    RxCap,        \* frames that fit into the rx fifo
    MaxInst,      \* bound: FUSE instances
    MaxTx,        \* bound: packets each instance sends
    MaxTun,       \* bound: packets that arrive at the tun device
    MaxStarts,    \* bound: starts of the bridge
    SlowRestart   \* FUSE runs until it is attached, restarts once it is detached

ASSUME TunAssumption ==
    /\ MTU \in Nat \ {0} /\ IP_HDR_MIN \in Nat \ {0} /\ RxCap \in Nat \ {0}
    /\ MaxInst \in Nat /\ MaxTx \in Nat /\ MaxTun \in Nat /\ MaxStarts \in Nat \ {0}
    /\ SlowRestart \in BOOLEAN
    /\ Packets \subseteq Seq(Bytes)

VARIABLES
    pc,          \* next step of the bridge, "down" while it does not run
    starts,      \* how often it was started
    revents,     \* what poll() reported: a subset of {"tun", "rx", "tx"}
    attached,    \* rx_fd is open (rx_fd # -1 exactly when attached)
    decoder,     \* frame, in_escape, in_sync, truncated
    inst,        \* number of the latest FUSE instance
    fuse,        \* "off", "up", "dying"
    rx_open, tx_open,  \* which fifos that instance has open
    out, ntx,    \* bytes of the frame it is writing, packets it began
    rx, tx,      \* contents of the fifos
    tx_hup,      \* a writer has had tx open since tx_fd was opened
    tun, ntun,   \* packets waiting at the tun device, packets so far
    seen,        \* frames FUSE has read: the reader and the addressee
    injected     \* frames put on the network

bridge == <<starts, revents, attached, decoder>>
client == <<inst, fuse, rx_open, tx_open, out, ntx>>
fifos  == <<rx, tx, tx_hup>>
world  == <<tun, ntun, seen, injected>>
vars   == <<pc, bridge, client, fifos, world>>

-----------------------------------------------------------------------------
(* The environment: FUSE, the kernel's fifos, the tun device (external).    *)

env == UNCHANGED <<pc, bridge>>

fuse_start ==
    /\ fuse = "off" /\ inst < MaxInst
    /\ SlowRestart => ~attached /\ pc \in {"poll", "down"}
    /\ inst' = inst + 1 /\ fuse' = "up" /\ ntx' = 0 /\ out' = <<>>
    /\ UNCHANGED <<rx_open, tx_open, fifos, world>> /\ env

fuse_open_rx ==
    /\ fuse = "up" /\ ~rx_open /\ rx_open' = TRUE
    /\ UNCHANGED <<inst, fuse, tx_open, out, ntx, fifos, world>> /\ env

fuse_open_tx ==
    /\ fuse = "up" /\ ~tx_open
    /\ tx_open' = TRUE /\ tx_hup' = TRUE
    /\ UNCHANGED <<inst, fuse, rx_open, out, ntx, rx, tx, world>> /\ env

fuse_begin_frame(packet) ==
    /\ fuse = "up" /\ tx_open /\ out = <<>> /\ ntx < MaxTx
    /\ out' = frame_of(packet) /\ ntx' = ntx + 1
    /\ UNCHANGED <<inst, fuse, rx_open, tx_open, fifos, world>> /\ env

(* Without a reader the byte is kept or lost: it depends on how FUSE has    *)
(* opened the fifo.                                                         *)
fuse_write ==
    /\ fuse = "up" /\ tx_open /\ out # <<>>
    /\ \/ tx' = Append(tx, [b |-> Head(out), from |-> inst])
       \/ pc = "down" /\ tx' = tx
    /\ out' = Tail(out)
    /\ UNCHANGED <<inst, fuse, rx_open, tx_open, ntx, rx, tx_hup, world>> /\ env

fuse_read ==
    /\ fuse = "up" /\ rx_open /\ rx # <<>>
    /\ rx' = Tail(rx)
    /\ seen' = seen \cup {[reader |-> inst, for |-> Head(rx)]}
    /\ UNCHANGED <<client, tx, tx_hup, tun, ntun, injected>> /\ env

(* FUSE quits or is killed at any time; its fifos are closed one by one.    *)
fuse_exit ==
    /\ fuse = "up"
    /\ SlowRestart => attached
    /\ fuse' = "dying" /\ out' = <<>>
    /\ UNCHANGED <<inst, rx_open, tx_open, ntx, fifos, world>> /\ env

fuse_close ==
    /\ fuse = "dying"
    /\ \/ rx_open /\ rx_open' = FALSE /\ UNCHANGED <<tx_open, fuse>>
       \/ tx_open /\ tx_open' = FALSE /\ UNCHANGED <<rx_open, fuse>>
       \/ ~rx_open /\ ~tx_open /\ fuse' = "off" /\ UNCHANGED <<rx_open, tx_open>>
    /\ rx' = IF attached \/ rx_open' THEN rx ELSE <<>>
    /\ tx' = IF pc # "down" \/ tx_open' THEN tx ELSE <<>>
    /\ UNCHANGED <<inst, out, ntx, tx_hup, world>> /\ env

tun_packet ==
    /\ ntun < MaxTun /\ pc # "down"
    /\ tun' = tun + 1 /\ ntun' = ntun + 1
    /\ UNCHANGED <<client, fifos, seen, injected>> /\ env

Environment ==
    \/ fuse_start \/ fuse_open_rx \/ fuse_open_tx
    \/ \E packet \in Packets : fuse_begin_frame(packet)
    \/ fuse_write \/ fuse_read \/ fuse_exit \/ fuse_close
    \/ tun_packet
-----------------------------------------------------------------------------
(* The bridge.                                                              *)

no_frame == [frame |-> <<>>, in_escape |-> FALSE, in_sync |-> FALSE, truncated |-> FALSE]

(* A plausible bug: the reader leaving rx is not watched for.               *)
poll_events_no_rx ==
    (IF tun > 0 THEN {"tun"} ELSE {})
    \cup (IF attached /\ (tx # <<>> \/ (tx_hup /\ ~tx_open)) THEN {"tx"} ELSE {})

poll_events ==
    (IF tun > 0 THEN {"tun"} ELSE {})
    \cup (IF attached /\ ~rx_open THEN {"rx"} ELSE {})
    \cup (IF attached /\ (tx # <<>> \/ (tx_hup /\ ~tx_open)) THEN {"tx"} ELSE {})

(* A plausible bug: poll() waits for an event while detached, too.          *)
poll_returns_on_event == poll_events # {}

(* poll() blocks while attached; while detached it looks again after        *)
(* ATTACH_POLL_MS.                                                          *)
poll_returns == attached => poll_events # {}

poll ==
    /\ pc = "poll"
    /\ poll_returns
    /\ revents' = poll_events
    /\ pc' = IF "tun" \in revents' THEN "tun" ELSE "rx"
    /\ UNCHANGED <<starts, attached, decoder, client, fifos, world>>

(* A plausible bug: rx is left open across the sessions.                    *)
client_detach_no_close ==
    /\ attached' = FALSE
    /\ rx' = rx
    /\ pc' = "drain"

(* client_detach: close the write side of rx, then flush tx. *)
client_detach ==
    /\ attached' = FALSE
    /\ rx' = IF rx_open THEN rx ELSE <<>>
    /\ pc' = "drain"

(* handle_tun up to the attached test: the packet is for somebody else, or  *)
(* nobody is attached.                                                      *)
tun_drop ==
    /\ pc = "tun"
    /\ tun' = tun - 1 /\ pc' = "rx"
    /\ UNCHANGED <<bridge, client, fifos, ntun, seen, injected>>

handle_tun ==
    /\ pc = "tun" /\ attached
    /\ tun' = tun - 1 /\ pc' = "write"
    /\ UNCHANGED <<bridge, client, fifos, ntun, seen, injected>>

(* rx_write: the frame goes in as a whole, the client is gone (EPIPE,       *)
(* POLLERR), or it makes no room within WRITE_TIMEOUT_MS.                   *)
rx_write ==
    /\ pc = "write"
    /\ \/ /\ ~rx_open
          /\ client_detach
          /\ UNCHANGED <<tx, tx_hup>>
       \/ /\ rx_open /\ Len(rx) < RxCap
          /\ rx' = Append(rx, inst)
          /\ pc' = "rx"
          /\ UNCHANGED <<attached, tx, tx_hup>>
       \/ /\ rx_open /\ Len(rx) >= RxCap
          /\ pc' = "rx"
          /\ UNCHANGED <<attached, fifos>>
    /\ UNCHANGED <<starts, revents, decoder, client, world>>

(* A plausible bug: the decoder keeps its half of a frame.                  *)
tx_drain_no_reset == tx' = <<>> /\ UNCHANGED decoder

tx_drain == tx' = <<>> /\ decoder' = no_frame

(* tx_flush: discard what is there ... *)
flush_drain ==
    /\ pc = "drain" /\ pc' = "reopen"
    /\ tx_drain
    /\ UNCHANGED <<starts, revents, attached, client, rx, tx_hup, world>>

(* ... and open tx anew.  A write after the drain survives with its writer. *)
(* After handle_tun has detached, main() still goes through the rx test;    *)
(* client_detach then has nothing left to do.                               *)
tx_reopen ==
    /\ pc = "reopen"
    /\ tx_hup' = tx_open
    /\ pc' = IF "continue" \in revents THEN "poll" ELSE "rx"
    /\ UNCHANGED <<bridge, client, rx, tx, world>>

(* POLLERR on rx_fd: detach and start over. *)
rx_check ==
    /\ pc = "rx"
    /\ \/ /\ "rx" \in revents /\ attached
          /\ client_detach
          /\ revents' = revents \cup {"continue"}
       \/ /\ "rx" \in revents /\ ~attached
          /\ pc' = "poll"
          /\ UNCHANGED <<attached, rx, revents>>
       \/ /\ "rx" \notin revents
          /\ pc' = IF "tx" \in revents /\ attached THEN "tx" ELSE "attach"
          /\ UNCHANGED <<attached, rx, revents>>
    /\ UNCHANGED <<starts, decoder, client, tx, tx_hup, world>>

(* inject_frame: only what looks like an IPv4 packet. *)
is_ipv4(f) == Len(f) >= IP_HDR_MIN /\ f[1].b = "v4"

(* A plausible bug: off by one at the end of the frame buffer.              *)
frame_full_late(d) == Len(d.frame) > MTU

frame_full(d) == Len(d.frame) = MTU

(* One byte from the tx fifo; d also collects the frames to inject.         *)
slip_decode(d, c) ==
    LET plain == IF d.in_escape /\ c.b \in escape_codes
                   THEN [c EXCEPT !.b = unescape(c.b)] ELSE c
    IN  CASE ~d.in_sync -> [d EXCEPT !.in_sync = (c.b = END)]
          [] d.in_sync /\ c.b = END ->
               [d EXCEPT !.frame = <<>>, !.in_escape = FALSE, !.truncated = FALSE,
                         !.inject = IF ~d.truncated /\ is_ipv4(d.frame)
                                      THEN Append(@, d.frame) ELSE @]
          [] d.in_sync /\ c.b = ESC -> [d EXCEPT !.in_escape = TRUE]
          [] d.in_sync /\ c.b \notin {END, ESC} /\ frame_full(d) ->
               [d EXCEPT !.in_escape = FALSE, !.truncated = TRUE]
          [] OTHER -> [d EXCEPT !.in_escape = FALSE, !.frame = Append(@, plain)]

with_inject ==
    [frame |-> decoder.frame, in_escape |-> decoder.in_escape, in_sync |-> decoder.in_sync,
     truncated |-> decoder.truncated, inject |-> <<>>]

(* handle_tx: everything that is in the fifo, or end of file. *)
handle_tx ==
    /\ pc = "tx"
    /\ \/ /\ tx # <<>>
          /\ LET after[i \in 0 .. Len(tx)] ==
                     IF i = 0 THEN with_inject
                              ELSE slip_decode(after[i - 1], tx[i])
                 d == after[Len(tx)]
             IN  /\ decoder' = [frame |-> d.frame, in_escape |-> d.in_escape,
                                in_sync |-> d.in_sync, truncated |-> d.truncated]
                 /\ injected' = injected \cup
                        {[frame |-> f, by |-> inst] : f \in ToSet(d.inject)}
          /\ tx' = <<>> /\ pc' = "attach"
          /\ UNCHANGED <<revents, attached, rx>>
       \/ /\ tx = <<>> /\ tx_open
          /\ pc' = "attach"
          /\ UNCHANGED <<revents, attached, decoder, rx, tx, injected>>
       \/ /\ tx = <<>> /\ ~tx_open
          /\ client_detach
          /\ revents' = revents \cup {"continue"}
          /\ UNCHANGED <<decoder, tx, injected>>
    /\ UNCHANGED <<starts, client, tx_hup, tun, ntun, seen>>

(* client_attach: opening rx for writing succeeds once it has a reader.     *)
client_attach ==
    /\ pc = "attach"
    /\ attached' = (attached \/ rx_open)
    /\ pc' = "poll" /\ revents' = {}
    /\ UNCHANGED <<starts, decoder, client, fifos, world>>

(* main() up to its loop: the device and the fifos are opened ... *)
startup ==
    /\ pc = "down" /\ pc' = "startup"
    /\ starts' = starts + 1
    /\ tx_hup' = tx_open
    /\ UNCHANGED <<revents, attached, decoder, client, rx, tx, world>>

(* ... and "whatever is in the fifo at startup predates us".                *)
startup_drain ==
    /\ pc = "startup" /\ pc' = "poll"
    /\ tx_drain
    /\ UNCHANGED <<starts, revents, attached, client, rx, tx_hup, world>>

(* die(), or somebody kills the bridge: the kernel closes its files.  (The  *)
(* last of MaxStarts bridges stays.)                                        *)
die ==
    /\ pc # "down" /\ starts < MaxStarts
    /\ pc' = "down"
    /\ revents' = {} /\ attached' = FALSE /\ decoder' = no_frame
    /\ rx' = IF rx_open THEN rx ELSE <<>>
    /\ tx' = IF tx_open THEN tx ELSE <<>>
    /\ tun' = 0
    /\ UNCHANGED <<starts, client, tx_hup, ntun, seen, injected>>

Main ==
    \/ poll \/ tun_drop \/ handle_tun \/ rx_write \/ flush_drain \/ tx_reopen
    \/ rx_check \/ handle_tx \/ client_attach \/ startup_drain
-----------------------------------------------------------------------------
Init ==
    /\ pc = "down" /\ starts = 0
    /\ revents = {} /\ attached = FALSE /\ decoder = no_frame
    /\ inst = 0 /\ fuse = "off" /\ rx_open = FALSE /\ tx_open = FALSE
    /\ out = <<>> /\ ntx = 0
    /\ rx = <<>> /\ tx = <<>> /\ tx_hup = FALSE
    /\ tun = 0 /\ ntun = 0 /\ seen = {} /\ injected = {}

Next == Environment \/ startup \/ Main \/ die

(* While it is up the bridge is a running process, and so is a FUSE that is *)
(* closing its files.  Nobody has to start the bridge.                      *)
Spec == Init /\ [][Next]_vars /\ WF_vars(Main) /\ WF_vars(fuse_close)
-----------------------------------------------------------------------------
(* Properties *)

(* A byte and the FUSE instance that wrote it. *)
Octets == [b : Bytes, from : 1 .. MaxInst]

(* Every variable keeps its type; in particular slip_decode never writes    *)
(* past the end of its frame buffer.                                        *)
TypeOK ==
    /\ starts \in 0 .. MaxStarts
    /\ pc \in {"down", "startup", "poll", "tun", "write", "drain", "reopen", "rx", "tx", "attach"}
    /\ revents \subseteq {"tun", "rx", "tx", "continue"} /\ attached \in BOOLEAN
    /\ decoder \in [frame : Seq(Octets), in_escape : BOOLEAN, in_sync : BOOLEAN, truncated : BOOLEAN]
    /\ Len(decoder.frame) <= MTU
    /\ inst \in 0 .. MaxInst /\ fuse \in {"off", "up", "dying"}
    /\ rx_open \in BOOLEAN /\ tx_open \in BOOLEAN /\ tx_hup \in BOOLEAN
    /\ rx \in Seq(1 .. MaxInst) /\ Len(rx) <= RxCap
    /\ tx \in Seq(Octets) /\ out \in Seq(Bytes)
    /\ tun \in 0 .. MaxTun /\ ntun \in 0 .. MaxTun /\ ntx \in 0 .. MaxTx

(* The head of slip-tun.c: "a restarted FUSE never sees leftovers from the  *)
(* previous instance": an instance reads only frames written while it ran.  *)
NoLeftovers == \A f \in seen : f.reader = f.for

(* What is put on the network is a packet that one FUSE instance sent, as a *)
(* whole, and it is that of the present instance: neither a frame cut short *)
(* by a killed FUSE or by a restart of the bridge, nor bytes of two         *)
(* instances glued together.                                                *)
InjectedWhole ==
    \A f \in injected :
        /\ \E packet \in Packets : packet = [i \in DOMAIN f.frame |-> f.frame[i].b]
        /\ \A i \in DOMAIN f.frame : f.frame[i].from = f.by

ClientUp == fuse = "up" /\ rx_open /\ tx_open

(* A FUSE that stays is attached in the end, and stays so, as long as the   *)
(* bridge is up, whichever of the two came first: no stale event of its     *)
(* predecessor makes the bridge detach it forever.                          *)
StableClientAttached == <>[](ClientUp /\ pc # "down") => <>[]attached

(* The end of a FUSE that is not restarted is noticed, by POLLERR on rx or  *)
(* the end of file on tx, whatever its last bytes were.                     *)
GoneClientDetached == <>[](fuse = "off") => <>[]~attached
=============================================================================
