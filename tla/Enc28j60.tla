----------------------------- MODULE Enc28j60 ------------------------------
(***************************************************************************)
(* The driver of the ENC28J60 Ethernet chip (enc28j60/src): the task that  *)
(* serves the chip's interrupt (irq_deferred_handler), send_pbuf, and the  *)
(* chip itself as far as the driver can see it.  Each access to the chip   *)
(* takes the mutex; between two accesses the other task and the chip run.  *)
(*                                                                         *)
(* send_pbuf runs in the thread that holds lwIP's core lock ("lwip") and   *)
(* in the interrupt task ("irq"): with the lock when lwIP answers a frame  *)
(* it is given (LWIP_TCPIP_CORE_LOCKING_INPUT), and without it when        *)
(* netif_set_link_up has something to announce.                            *)
(*                                                                         *)
(* The receive buffer is a ring of RxSize cells.  A frame takes one or     *)
(* more of them; its header, in the first one, says where the next frame   *)
(* begins.                                                                 *)
(***************************************************************************)
EXTENDS Integers, Sequences, FiniteSets

CONSTANTS
    NULL,
    RxSize,              \* cells of the receive buffer
    Lengths,             \* cells a received frame takes
    MaxPackets,          \* bound on the frames that arrive
    MaxFrames,           \* bound on the frames that are sent
    MaxLink,             \* bound on the changes of the link
    MaxGlitches,         \* bound on the headers misread over SPI
    MaxEvents,           \* bound on all of these together
    MAX_RETRIES,         \* polls of send_pbuf
    MAX_TX_RETRYCOUNT

ASSUME Enc28j60Assumption ==
    /\ RxSize \in Nat \ {0} /\ Lengths \subseteq 1..RxSize - 1
    /\ {MaxPackets, MaxFrames, MaxLink, MaxGlitches, MaxEvents, MAX_RETRIES, MAX_TX_RETRYCOUNT} \subseteq Nat

VARIABLES
    mem,       \* receive buffer: which cell of which frame is in each cell
    fifo,      \* frames received and not yet released, as <<number, length, ok>>
    wrpt,      \* ERXWRPT
    erxrdpt,   \* ERXRDPT
    eir,       \* flags of EIR that are set, PKTIF (fifo is not empty) aside
    intie,     \* EIE_INTIE
    link,      \* state of the link
    tx,        \* transmitter: TXRTS, TXABRT, ETXND, what the buffer holds, what is on the air,
               \* the frame last started
    sem,       \* irq_loop_sem
    irq,       \* interrupt task: position, flags read, loop, packets to go, header read
    drv,       \* driver state: next_packet_pointer, tx_retry_count, link state given to lwIP,
               \* how far enable_interupts is
    snd,       \* send_pbuf, for each thread in it: position, frame, polls
    gh         \* history: frames that came, good ones stored, handed to lwIP and dropped,
               \* glitches, link changes, frames given to send_pbuf, frames damaged and excused,
               \* who acts on an earlier state of the transmitter, INT low before its edge counted

chip == <<mem, fifo, wrpt, erxrdpt, eir, intie, link, tx>>
encVars == <<mem, fifo, wrpt, erxrdpt, eir, intie, link, tx, sem, irq, drv, snd, gh>>

RXSTART_INIT == 0
RXEND_INIT == RxSize - 1
TXEND_INIT == 0        \* as the end of a frame: the whole transmit buffer
Cells == RXSTART_INIT..RXEND_INIT

(* The pin follows the flags that EIE enables while INTIE is set: until    *)
(* enable_interupts has written EIE that is PKTIF only.  Once the edge is  *)
(* armed, each fall of the pin gives the semaphore                         *)
(* (enc28j60_irq_callback).                                                *)
Pin(started, ie, flags, packets) == ie /\ (packets # <<>> \/ (started = "on" /\ flags # {}))
Edge ==
    sem' = (sem \/ /\ drv.started # "off"
                   /\ ~Pin(drv.started, intie, eir, fifo) /\ Pin(drv'.started, intie', eir', fifo'))

erxrdpt_workaround(next) ==
    IF next - 1 < RXSTART_INIT \/ next - 1 > RXEND_INIT THEN RXEND_INIT ELSE next - 1

Senders == {"lwip", "irq"}
NotSending == [pc |-> "idle", frame |-> 0, polls |-> 0]

(* init has run, seconds ago: the chip receives and raises INT for frames, *)
(* but nobody listens yet.                                                 *)
EncInit ==
    /\ mem = [c \in Cells |-> <<0, 0>>]
    /\ fifo = <<>>
    /\ wrpt = RXSTART_INIT
    /\ erxrdpt = erxrdpt_workaround(RXSTART_INIT)
    /\ link \in BOOLEAN /\ eir = {} /\ intie = TRUE
    /\ tx = [rts |-> FALSE, abrt |-> FALSE, nd |-> TXEND_INIT, buf |-> NULL, air |-> NULL, frame |-> 0]
    /\ sem = FALSE
    /\ irq = [pc |-> "wait", flags |-> {}, loop |-> FALSE, late |-> FALSE, left |-> 0, info |-> NULL]
    /\ drv = [next |-> RXSTART_INIT, tries |-> 0, up |-> FALSE, started |-> "off"]
    /\ snd = [s \in Senders |-> NotSending]
    /\ gh = [came |-> 0, good |-> {}, got |-> <<>>, dropped |-> {}, glitches |-> 0, links |-> 0,
             sent |-> 0, spoilt |-> {}, excuse |-> {}, old |-> {}, deaf |-> FALSE]

-----------------------------------------------------------------------------
(* The chip. *)

More == gh.came + gh.sent + gh.links + gh.glitches < MaxEvents

FreeCells == (erxrdpt - wrpt - 1) % RxSize

Arrive ==
    /\ More /\ gh.came < MaxPackets
    /\ \E len \in Lengths, ok \in BOOLEAN :
         /\ gh' = [gh EXCEPT !.came = @ + 1,
                   !.good = IF ok /\ len <= FreeCells THEN @ \cup {gh.came + 1} ELSE @]
         /\ IF len <= FreeCells
            THEN /\ mem' = [c \in Cells |-> LET i == (c - wrpt) % RxSize
                                            IN  IF i < len THEN <<gh.came + 1, i>> ELSE mem[c]]
                 /\ fifo' = Append(fifo, <<gh.came + 1, len, ok>>)
                 /\ wrpt' = (wrpt + len) % RxSize
                 /\ UNCHANGED eir
            ELSE eir' = eir \cup {"RXERIF"} /\ UNCHANGED <<mem, fifo, wrpt>>
    /\ UNCHANGED <<erxrdpt, intie, link, tx, irq, drv, snd>> /\ Edge

LinkChanges ==
    /\ drv.started = "on"       \* before, enable_interupts says what is left of it
    /\ More /\ gh.links < MaxLink
    /\ gh' = [gh EXCEPT !.links = @ + 1]
    /\ link' = ~link
    /\ eir' = eir \cup {"LINKIF"}
    /\ UNCHANGED <<mem, fifo, wrpt, erxrdpt, intie, tx, irq, drv, snd>> /\ Edge

(* What is on the air is cut when the transmitter is reset, stopped or     *)
(* started again.                                                          *)
Cut(h) == IF tx.air = NULL THEN h ELSE [h EXCEPT !.spoilt = @ \cup {tx.frame}]

(* A transmission ends: well, aborted, or with an error.                   *)
Transmitted ==
    /\ tx.air # NULL
    /\ \E how \in {"done", "aborted", "error"} :
         /\ tx' = [tx EXCEPT !.rts = FALSE, !.air = NULL, !.abrt = @ \/ how # "done"]
         /\ eir' = eir \cup (IF how = "error" THEN {"TXIF", "TXERIF"} ELSE {"TXIF"})
         /\ gh' = IF tx.air = <<tx.frame, tx.frame>> /\ tx.buf = tx.frame THEN gh ELSE Cut(gh)
    /\ UNCHANGED <<mem, fifo, wrpt, erxrdpt, intie, link, irq, drv, snd>> /\ Edge

-----------------------------------------------------------------------------
(* enable_interupts: the falling edge is armed; then the flags are         *)
(* cleared, but for PKTIF and LINKIF, which the chip does not let go, and  *)
(* EIE and PHIE enable the others: a link that has changed since the reset *)
(* is reported now.  It has the mutex all the time.                        *)

ArmEdge ==
    /\ drv.started = "off" /\ drv' = [drv EXCEPT !.started = "armed"]
    /\ gh' = [gh EXCEPT !.deaf = Pin("off", intie, eir, fifo)]
    /\ UNCHANGED <<chip, sem, irq, snd>>

EnableFlags ==
    /\ drv.started = "armed" /\ drv' = [drv EXCEPT !.started = "on"]
    /\ \E changed \in {TRUE, link} : eir' = IF changed THEN {"LINKIF"} ELSE {}
    /\ UNCHANGED <<mem, fifo, wrpt, erxrdpt, intie, link, tx, irq, snd, gh>> /\ Edge

-----------------------------------------------------------------------------
(* The interrupt task, one access to the chip after the other. *)

Irq(from, to) == irq.pc = from /\ irq' = [irq EXCEPT !.pc = to]
IrqLooping(from, to) == irq.pc = from /\ irq' = [irq EXCEPT !.pc = to, !.loop = TRUE]

IrqTake ==
    /\ drv.started = "on"       \* it needs the mutex
    /\ sem /\ sem' = FALSE
    /\ Irq("wait", "flags")
    /\ intie' = FALSE
    /\ UNCHANGED <<mem, fifo, wrpt, erxrdpt, eir, link, tx, drv, snd, gh>>

(* The handlers in their order: each is entered if its flag was read. *)
AfterTxError(flags) == IF "RXERIF" \in flags THEN "rxer" ELSE "count"
AfterTx(flags) == IF "TXERIF" \in flags THEN "txer" ELSE AfterTxError(flags)
AfterLink(flags) == IF "TXIF" \in flags /\ "TXERIF" \notin flags THEN "tx" ELSE AfterTx(flags)
FirstOf(flags) == IF "LINKIF" \in flags THEN "link" ELSE AfterLink(flags)

IrqFlags ==
    /\ irq.pc = "flags"
    /\ irq' = [irq EXCEPT !.pc = FirstOf(eir), !.flags = eir, !.loop = FALSE]
    /\ UNCHANGED <<chip, sem, drv, snd, gh>>

(* netif_set_link_up: a link that comes up makes lwIP announce itself and  *)
(* go on with DHCP before the call returns.                                *)
IrqLink ==
    /\ IrqLooping("link", IF link /\ ~drv.up THEN "linked" ELSE "phir")
    /\ drv' = [drv EXCEPT !.up = link]
    /\ UNCHANGED <<chip, sem, snd, gh>>

IrqLinked ==
    /\ snd["irq"].pc = "idle" /\ Irq("linked", "phir")
    /\ UNCHANGED <<chip, sem, drv, snd, gh>>

IrqPhir ==
    /\ Irq("phir", AfterLink(irq.flags))
    /\ eir' = eir \ {"LINKIF"}
    /\ UNCHANGED <<mem, fifo, wrpt, erxrdpt, intie, link, tx, sem, drv, snd, gh>>

(* A task writes to the transmitter: if what it goes by is older than the  *)
(* last reset or clearing of the flags, or it has given up waiting for     *)
(* them, the frame on the air and those that others prepare are excused.   *)
Prepared(others) ==
    {snd[s].frame : s \in {t \in others : snd[t].pc \in {"clear", "length", "copy", "start"}}}
Excuse(frames, h) == [h EXCEPT !.excuse = @ \cup frames]
Writes(party, h) ==
    IF party \notin gh.old THEN h
    ELSE Excuse(Prepared(Senders \ {party}) \cup (IF tx.air = NULL THEN {} ELSE {tx.frame}), h)

reset_tx_logic(t) == [t EXCEPT !.air = NULL, !.rts = FALSE, !.nd = TXEND_INIT]

IrqTx ==
    /\ IrqLooping("tx", "rts")
    /\ drv' = [drv EXCEPT !.tries = 0]
    /\ tx' = IF tx.abrt THEN [reset_tx_logic(tx) EXCEPT !.abrt = FALSE] ELSE tx
    /\ gh' = IF tx.abrt THEN Cut(Writes("flags", gh)) ELSE gh
    /\ UNCHANGED <<mem, fifo, wrpt, erxrdpt, eir, intie, link, sem, snd>>

IrqTxRts ==
    /\ Irq("rts", "txif")
    /\ tx' = [tx EXCEPT !.rts = FALSE, !.air = NULL]
    /\ gh' = Cut(Writes("flags", gh))
    /\ UNCHANGED <<mem, fifo, wrpt, erxrdpt, eir, intie, link, sem, drv, snd>>

IrqTxIf ==
    /\ Irq("txif", AfterTxError(irq.flags))
    /\ eir' = eir \ {"TXIF"}
    /\ UNCHANGED <<mem, fifo, wrpt, erxrdpt, intie, link, tx, sem, drv, snd, gh>>

(* read_tsv reads at an address of which regw_read has lost the upper      *)
(* byte: whether it sees a late collision is anyone's guess.               *)
IrqTxError ==
    /\ irq.pc = "txer"
    /\ \E late \in BOOLEAN : irq' = [irq EXCEPT !.pc = "rterr", !.loop = TRUE, !.late = late]
    /\ tx' = reset_tx_logic(tx)
    /\ gh' = Cut(Writes("flags", gh))
    /\ UNCHANGED <<mem, fifo, wrpt, erxrdpt, eir, intie, link, sem, drv, snd>>

MayRetry(tries) == tries < MAX_TX_RETRYCOUNT

IrqTxAgain ==
    /\ Irq("rterr", "txerif")
    /\ LET again == irq.late /\ MayRetry(drv.tries)
       IN  /\ tx' = IF again THEN [tx EXCEPT !.rts = TRUE, !.air = <<tx.buf, tx.nd>>]
                    ELSE [tx EXCEPT !.rts = FALSE, !.air = NULL]
           /\ gh' = LET h == Cut(Writes("flags", gh))
                    IN  IF again THEN Excuse(Prepared(Senders) \cup {tx.frame}, h) ELSE h
    /\ drv' = [drv EXCEPT !.tries = IF irq.late THEN @ + 1 ELSE @]
    /\ UNCHANGED <<mem, fifo, wrpt, erxrdpt, eir, intie, link, sem, snd>>

IrqTxErIf ==
    /\ Irq("txerif", AfterTxError(irq.flags))
    /\ eir' = eir \ {"TXERIF", "TXIF"}
    /\ UNCHANGED <<mem, fifo, wrpt, erxrdpt, intie, link, tx, sem, drv, snd, gh>>

(* reset_rx_logic: the chip drops what it holds. *)
Dropping(h) == [h EXCEPT !.dropped = @ \cup {fifo[i][1] : i \in DOMAIN fifo}]

reset_rx_logic_keeps_next ==
    /\ fifo' = <<>>
    /\ wrpt' = RXSTART_INIT
    /\ erxrdpt' = erxrdpt_workaround(RXSTART_INIT)
    /\ eir' = eir \ {"RXERIF"}
    /\ UNCHANGED <<mem, intie, link, tx, drv>>

reset_rx_logic ==
    /\ fifo' = <<>>
    /\ wrpt' = RXSTART_INIT
    /\ erxrdpt' = erxrdpt_workaround(RXSTART_INIT)
    /\ drv' = [drv EXCEPT !.next = RXSTART_INIT]
    /\ eir' = eir \ {"RXERIF"}
    /\ UNCHANGED <<mem, intie, link, tx>>

IrqRxError ==
    /\ IrqLooping("rxer", "count")
    /\ reset_rx_logic
    /\ gh' = Dropping(gh)
    /\ UNCHANGED <<sem, snd>>

-----------------------------------------------------------------------------
(* rx_interrupt. *)

IrqCount ==
    /\ irq.pc = "count"
    /\ irq' = [irq EXCEPT !.pc = "packet", !.left = Len(fifo), !.flags = {}, !.late = FALSE]
    /\ gh' = [gh EXCEPT !.old = @ \ {"flags"}]
    /\ UNCHANGED <<chip, sem, drv, snd>>

(* The header at next_packet_pointer, as the chip wrote it or misread.     *)
Garbage == [ok : BOOLEAN, next : Cells \cup {RxSize}, len : {1}, id : {0}]
Header(p) ==
    IF mem[p][1] # 0 /\ mem[p][2] = 0 /\ \E i \in DOMAIN fifo : fifo[i][1] = mem[p][1]
    THEN LET f == fifo[CHOOSE i \in DOMAIN fifo : fifo[i][1] = mem[p][1]]
         IN  {[id |-> f[1], len |-> f[2], ok |-> f[3], next |-> (p + f[2]) % RxSize]}
    ELSE Garbage

get_incoming_packet_info ==
    /\ irq.pc = "packet" /\ irq.left > 0
    /\ \/ /\ \E h \in Header(drv.next) : irq' = [irq EXCEPT !.pc = "alloc", !.info = h]
          /\ UNCHANGED gh
       \/ /\ More /\ gh.glitches < MaxGlitches
          /\ \E h \in Garbage : irq' = [irq EXCEPT !.pc = "alloc", !.info = h]
          /\ gh' = [gh EXCEPT !.glitches = @ + 1]
    /\ UNCHANGED <<chip, sem, drv, snd>>

IrqNoPbuf_discards ==
    /\ irq.pc = "alloc" /\ irq.info.ok
    /\ irq' = [irq EXCEPT !.pc = "packet", !.left = @ - 1, !.info = NULL]
    /\ drv' = [drv EXCEPT !.next = irq.info.next % RxSize]
    /\ erxrdpt' = irq.info.next % RxSize
    /\ fifo' = Tail(fifo)
    /\ UNCHANGED <<mem, wrpt, eir, intie, link, tx, sem, snd, gh>>

(* A good frame for which there is no pbuf stays where it is. *)
IrqNoPbuf ==
    /\ irq.pc = "alloc" /\ irq.info.ok
    /\ irq' = [irq EXCEPT !.pc = "packet", !.left = @ - 1, !.info = NULL]
    /\ UNCHANGED <<chip, sem, drv, snd, gh>>

Deliver(id) == [gh EXCEPT !.got = Append(@, id)]
Handed == IF irq.info.ok THEN "input" ELSE "packet"

(* get_incoming_packet: a pointer outside the buffer. *)
IrqBadPointer ==
    /\ irq.pc = "alloc" /\ irq.info.next > RXEND_INIT
    /\ reset_rx_logic
    /\ irq' = [irq EXCEPT !.pc = Handed, !.left = @ - 1, !.info = NULL]
    /\ gh' = Dropping(IF irq.info.ok THEN Deliver(irq.info.id) ELSE gh)
    /\ UNCHANGED <<sem, snd>>

(* get_incoming_packet: the frame's cells are released before it is read.  *)
IrqRelease ==
    /\ irq.info # NULL /\ irq.info.next <= RXEND_INIT /\ Irq("alloc", "read")
    /\ drv' = [drv EXCEPT !.next = irq.info.next]
    /\ erxrdpt' = irq.info.next
    /\ UNCHANGED <<mem, fifo, wrpt, eir, intie, link, tx, sem, snd, gh>>

IrqRead ==
    /\ Irq("read", "dec")
    /\ gh' = IF irq.info.ok THEN Deliver(irq.info.id) ELSE gh
    /\ UNCHANGED <<chip, sem, drv, snd>>

IrqDecrement ==
    /\ irq.pc = "dec"
    /\ irq' = [irq EXCEPT !.pc = Handed, !.left = @ - 1, !.info = NULL]
    /\ fifo' = IF fifo = <<>> THEN <<>> ELSE Tail(fifo)
    /\ UNCHANGED <<mem, wrpt, erxrdpt, eir, intie, link, tx, drv, snd, gh>> /\ Edge

(* netif.input is tcpip_input: lwIP works on the frame in this task, with  *)
(* the core lock.                                                          *)
IrqInput ==
    /\ snd["lwip"].pc = "idle" /\ Irq("input", "inside")
    /\ UNCHANGED <<chip, sem, drv, snd, gh>>

IrqInputDone ==
    /\ snd["irq"].pc = "idle" /\ Irq("inside", "packet")
    /\ UNCHANGED <<chip, sem, drv, snd, gh>>

IrqAgain ==
    /\ irq.left = 0 /\ irq.loop /\ Irq("packet", "flags")
    /\ UNCHANGED <<chip, sem, drv, snd, gh>>

IrqEnable_drains ==
    /\ irq.pc = "packet" /\ irq.left = 0 /\ ~irq.loop
    /\ irq' = [irq EXCEPT !.pc = "wait"]
    /\ intie' = TRUE /\ sem' = FALSE
    /\ UNCHANGED <<mem, fifo, wrpt, erxrdpt, eir, link, tx, drv, snd, gh>>

IrqEnable ==
    /\ irq.pc = "packet" /\ irq.left = 0 /\ ~irq.loop
    /\ irq' = [irq EXCEPT !.pc = "wait"]
    /\ intie' = TRUE
    /\ UNCHANGED <<mem, fifo, wrpt, erxrdpt, eir, link, tx, drv, snd, gh>> /\ Edge

-----------------------------------------------------------------------------
(* send_pbuf.  A frame that is too big is refused without any effect.      *)
(* Frame n ends, in the transmit buffer, at n.                             *)

Snd(s, from, to) == snd[s].pc = from /\ snd' = [snd EXCEPT ![s].pc = to]

(* Whoever holds the core lock sends; the interrupt task does without it   *)
(* while it reports the link.                                              *)
MaySend(s) ==
    IF s = "lwip" THEN drv.started = "on" /\ irq.pc # "inside"
    ELSE irq.pc \in {"linked", "inside"}

eth_packet_output(s) ==
    /\ More /\ gh.sent < MaxFrames /\ snd[s].pc = "idle" /\ MaySend(s)
    /\ snd' = [snd EXCEPT ![s] = [pc |-> "wait", frame |-> gh.sent + 1, polls |-> 0]]
    /\ gh' = [gh EXCEPT !.sent = @ + 1]
    /\ UNCHANGED <<chip, sem, irq, drv>>

SendPoll(s) ==
    /\ snd[s].pc = "wait"
    /\ LET raised == eir \cap {"TXIF", "TXERIF"} # {}
           done == raised \/ snd[s].polls + 1 >= MAX_RETRIES
       IN  /\ snd' = [snd EXCEPT ![s] = [pc |-> IF done THEN "reset" ELSE "wait", frame |-> snd[s].frame,
                                         polls |-> IF done THEN 0 ELSE snd[s].polls + 1]]
           /\ gh' = [gh EXCEPT !.old = IF done /\ ~raised THEN @ \cup {s} ELSE @]
    /\ UNCHANGED <<chip, sem, irq, drv>>

(* The interrupt task may yet act on transmit flags that it has read. *)
Pending ==
    /\ irq.pc \in {"link", "linked", "phir", "tx", "rts", "txif", "txer", "rterr", "txerif"}
    /\ irq.flags \cap {"TXIF", "TXERIF"} # {}

(* From here on, what the others have decided to do is out of date; a      *)
(* frame that another send_pbuf has in hand is overrun.                    *)
Past(s) == snd[s].pc \notin {"idle", "wait"}
Outdates(s, h) ==
    LET others == {t \in Senders \ {s} : Past(t)}
    IN  [Excuse({snd[t].frame : t \in others}, h) EXCEPT
            !.old = @ \cup others \cup (IF Pending THEN {"flags"} ELSE {})]

SendReset(s) ==
    /\ Snd(s, "reset", "clear")
    /\ tx' = [tx EXCEPT !.air = NULL, !.rts = FALSE]
    /\ gh' = Outdates(s, Cut(Writes(s, gh)))
    /\ UNCHANGED <<mem, fifo, wrpt, erxrdpt, eir, intie, link, sem, irq, drv>>

SendClear_left_out(s) ==
    /\ Snd(s, "clear", "length")
    /\ gh' = Outdates(s, gh)
    /\ UNCHANGED <<chip, sem, irq, drv>>

SendClear(s) ==
    /\ Snd(s, "clear", "length")
    /\ eir' = eir \ {"TXERIF", "TXIF"}
    /\ gh' = Outdates(s, gh)
    /\ UNCHANGED <<mem, fifo, wrpt, erxrdpt, intie, link, tx, irq, drv>> /\ Edge

SendLength(s) ==
    /\ Snd(s, "length", "copy")
    /\ tx' = [tx EXCEPT !.nd = snd[s].frame]
    /\ gh' = Writes(s, gh)
    /\ UNCHANGED <<mem, fifo, wrpt, erxrdpt, eir, intie, link, sem, irq, drv>>

SendCopy(s) ==
    /\ Snd(s, "copy", "start")
    /\ tx' = [tx EXCEPT !.buf = snd[s].frame]
    /\ gh' = Writes(s, gh)
    /\ UNCHANGED <<mem, fifo, wrpt, erxrdpt, eir, intie, link, sem, irq, drv>>

SendStart(s) ==
    /\ snd[s].pc = "start" /\ snd' = [snd EXCEPT ![s] = NotSending]
    /\ tx' = [tx EXCEPT !.rts = TRUE, !.air = <<tx.buf, tx.nd>>, !.frame = snd[s].frame]
    /\ gh' = [Cut(Writes(s, gh)) EXCEPT !.old = @ \ {s}]
    /\ UNCHANGED <<mem, fifo, wrpt, erxrdpt, eir, intie, link, sem, irq, drv>>

-----------------------------------------------------------------------------
Sending(s) ==
    SendPoll(s) \/ SendReset(s) \/ SendClear(s) \/ SendLength(s) \/ SendCopy(s) \/ SendStart(s)

IrqTask ==
    \/ IrqTake \/ IrqFlags \/ IrqLink \/ IrqLinked \/ IrqPhir
    \/ IrqTx \/ IrqTxRts \/ IrqTxIf
    \/ IrqTxError \/ IrqTxAgain \/ IrqTxErIf \/ IrqRxError
    \/ IrqCount \/ get_incoming_packet_info \/ IrqNoPbuf \/ IrqBadPointer \/ IrqRelease
    \/ IrqRead \/ IrqDecrement \/ IrqInput \/ IrqInputDone \/ IrqAgain \/ IrqEnable
    \/ Sending("irq")

EncNext ==
    \/ Arrive \/ LinkChanges \/ Transmitted \/ ArmEdge \/ EnableFlags
    \/ IrqTask \/ Sending("lwip") \/ \E s \in Senders : eth_packet_output(s)

(* Both tasks are scheduled, and memory for a frame is found when it is    *)
(* asked for often enough.                                                 *)
EncSpec == EncInit /\ [][EncNext]_encVars /\ WF_encVars(IrqTask) /\ WF_encVars(Sending("lwip"))
             /\ SF_encVars(IrqRelease \/ IrqBadPointer)
-----------------------------------------------------------------------------
Released == IF irq.pc = "dec" \/ irq.pc = "read" THEN 1 ELSE 0
Stored == SubSeq(fifo, 1 + Released, Len(fifo))
CellsOf(frames) ==
    LET upto[n \in 0..Len(frames)] == IF n = 0 THEN 0 ELSE upto[n - 1] + frames[n][2]
    IN  upto[Len(frames)]

(* The driver walks the receive buffer by the pointer in each frame's      *)
(* header: through every overflow and reset, next_packet_pointer is where  *)
(* the oldest frame the driver has not released begins.                    *)
RxInSync ==
    gh.glitches = 0 => drv.next = (wrpt - CellsOf(Stored)) % RxSize

(* The good frames the chip stored reach lwIP once each and in order, but  *)
(* for those a receive reset dropped: one without a pbuf is tried again.   *)
(* Frames are numbered as they come, so order is that of the numbers.      *)
NothingLost ==
    gh.glitches = 0 =>
        /\ \A i \in 2..Len(gh.got) : gh.got[i - 1] < gh.got[i]
        /\ {gh.got[i] : i \in DOMAIN gh.got} =
              {id \in gh.good : /\ id \notin gh.dropped
                               /\ \A i \in DOMAIN fifo : fifo[i][1] = id => i = 1 /\ irq.pc = "dec"}

(* A frame is sent whole, with its own length and content.  What damages   *)
(* one is a task that goes by an earlier state of the transmitter: the     *)
(* interrupt task with flags read before send_pbuf cleared them, or        *)
(* another send_pbuf that ended its wait before that, or gave it up; and a *)
(* late collision, retried after reset_tx_logic has put ETXND to the end   *)
(* of the buffer.  Each excuses the frames it hits, not those before or    *)
(* after: whoever goes by the state of the transmitter damages none.       *)
TxWhole == gh.spoilt \subseteq gh.excuse

(* The pin is an edge: every frame in the buffer is taken out of it, with  *)
(* no interrupt lost between the last look at the flags and INTIE, unless  *)
(* the pin was low already when the edge was armed (a frame came between   *)
(* init and enable_interupts): then there never is an edge, and the driver *)
(* is deaf.                                                                *)
Hearing == drv.started = "on" /\ ~gh.deaf
FrameTaken == \A id \in 1..MaxPackets :
    (Hearing /\ fifo # <<>> /\ fifo[1][1] = id) ~> ~(fifo # <<>> /\ fifo[1][1] = id)
=============================================================================
