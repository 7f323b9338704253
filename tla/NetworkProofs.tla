--------------------------- MODULE NetworkProofs ---------------------------
(***************************************************************************)
(* Proofs about the device's networks, for every value of the constants.   *)
(*                                                                         *)
(* The Ethernet driver (Enc28j60), for every receive buffer, all lengths   *)
(* of frames and any traffic: what is sent is whole but for what is named, the walk through the  *)
(* receive buffer stays in step with the chip, and every good frame        *)
(* reaches lwIP once and in order.                                         *)
(*                                                                         *)
(* The DHCP server (DhcpServer), for any number of addresses and clients,  *)
(* any width of the tick counter and of expiry, and any lease that leaves  *)
(* room for the sign of a 32-bit difference (ClockAssumption): a lease is  *)
(* not given to two clients.                                               *)
(*                                                                         *)
(* Its messages (DhcpMessage), for every server and whatever options a     *)
(* client adds to its own: each side finds in the bytes what was meant.    *)
(*                                                                         *)
(* The captive portal (Portal), for every name of the device, all          *)
(* interfaces, names and packets: a client is redirected once, and what it *)
(* receives comes from the address it sent to.                             *)
(***************************************************************************)
EXTENDS Enc28j60, DhcpMessage, Portal, SequenceTheorems, WellFoundedInduction, TLAPS

(* The remainder, by a name of its own: the solver is to use what the      *)
(* lemmas say about it, not its own arithmetic.                            *)
Wrap(a, M) == a % M

(* The records, by their fields. *)
GhIs(h) ==
    /\ h = [came |-> h.came, good |-> h.good, got |-> h.got, dropped |-> h.dropped,
            glitches |-> h.glitches, links |-> h.links, sent |-> h.sent, spoilt |-> h.spoilt,
            excuse |-> h.excuse, old |-> h.old, deaf |-> h.deaf]
    /\ h.glitches \in Nat

SndIs == snd = [s \in Senders |-> [pc |-> snd[s].pc, frame |-> snd[s].frame, polls |-> snd[s].polls]]

Records ==
    /\ tx = [rts |-> tx.rts, abrt |-> tx.abrt, nd |-> tx.nd, buf |-> tx.buf, air |-> tx.air,
             frame |-> tx.frame]
    /\ irq = [pc |-> irq.pc, flags |-> irq.flags, loop |-> irq.loop, late |-> irq.late,
              left |-> irq.left, info |-> irq.info]
    /\ drv = [next |-> drv.next, tries |-> drv.tries, up |-> drv.up, started |-> drv.started]
    /\ SndIs
    /\ GhIs(gh)

(* What the history says of the frames received is the same in both. *)
SameRx(h, g) ==
    /\ g.came = h.came /\ g.good = h.good /\ g.got = h.got /\ g.dropped = h.dropped
    /\ g.glitches = h.glitches

-----------------------------------------------------------------------------
(* Transmission. *)

TxFlags == {"TXIF", "TXERIF"}

(* Where the interrupt task is says which flag it has read. *)
Reading ==
    /\ irq.pc \in {"tx", "rts", "txif"} => "TXIF" \in irq.flags
    /\ irq.pc \in {"txer", "rterr", "txerif"} => "TXERIF" \in irq.flags

(* The frame on the air, or one that send_pbuf has in hand before or after *)
(* it clears the flags, and nothing excuses it.                            *)
OnAir == tx.air # NULL /\ tx.frame \notin gh.excuse
BeforeClear(s) == snd[s].pc = "clear" /\ snd[s].frame \notin gh.excuse
InHand(s) == snd[s].pc \in {"length", "copy", "start"} /\ snd[s].frame \notin gh.excuse

(* No transmit flag is set, and those the interrupt task would still act   *)
(* on are known to be old.                                                 *)
Quiet == eir \cap TxFlags = {} /\ (Pending => "flags" \in gh.old)

(* Such a frame is as it should be; whoever else is about to write to the  *)
(* transmitter goes by an earlier state of it.                             *)
Alone ==
    /\ OnAir => /\ tx.air = <<tx.frame, tx.frame>> /\ tx.buf = tx.frame /\ Quiet
                /\ \A t \in Senders : Past(t) => t \in gh.old
    /\ \A s \in Senders :
         /\ InHand(s) => /\ tx.air = NULL /\ Quiet
                         /\ \A t \in Senders \ {s} : Past(t) => t \in gh.old
                         /\ snd[s].pc \in {"copy", "start"} => tx.nd = snd[s].frame
                         /\ snd[s].pc = "start" => tx.buf = snd[s].frame
         /\ BeforeClear(s) => /\ tx.air = NULL
                              /\ \A t \in Senders \ {s} :
                                    snd[t].pc \in {"clear", "length", "copy", "start"} => t \in gh.old

TxInv == Reading /\ gh.spoilt \subseteq gh.excuse /\ Alone

-----------------------------------------------------------------------------
(* Reception.  o[i] is how far behind next the i-th of the frames f        *)
(* begins in the memory m; the last one is how far behind it the chip      *)
(* writes (w), never so far that it meets what is not released (e).        *)
Laid(f, next, o, w, e, m) ==
    /\ o \in [1..Len(f) + 1 -> 0..RxSize - 1]
    /\ o[1] = 0
    /\ \A i \in 1..Len(f) : o[i + 1] = o[i] + f[i][2]
    /\ \A i, j \in 1..Len(f) + 1 : i <= j => o[i] <= o[j]
    /\ w = Wrap(next + o[Len(f) + 1], RxSize)
    /\ \A i \in 1..Len(f) : \A k \in 0..f[i][2] - 1 :
          m[Wrap(next + (o[i] + k), RxSize)] = <<f[i][1], k>>
    /\ e = next \/ (next = 0 /\ e = RxSize - 1 /\ o[Len(f) + 1] <= RxSize - 2)

(* A frame of len cells fits behind used cells. *)
Fits(next, used, e, len) ==
    /\ used + len <= RxSize - 1
    /\ e = next \/ (next = 0 /\ e = RxSize - 1 /\ used + len <= RxSize - 2)

(* The memory once the frame x is written from w on. *)
Written(m, w, x) ==
    [c \in 0..RxSize - 1 |-> IF Wrap(c - w, RxSize) < x[2] THEN <<x[1], Wrap(c - w, RxSize)>> ELSE m[c]]

Layout == \E o : Laid(Stored, drv.next, o, wrpt, erxrdpt, mem)

Frames == Nat \X Lengths \X BOOLEAN

RxTypes ==
    /\ mem \in [Cells -> Nat \X Nat]
    /\ fifo \in Seq(Frames)
    /\ {wrpt, erxrdpt, drv.next} \subseteq Cells
    /\ irq.left \in Nat
    /\ gh.came \in Nat
    /\ gh.got \in Seq(Nat)

(* What the header says that the driver has read: its place is that of     *)
(* the oldest frame.                                                       *)
Place ==
    /\ irq.pc \in {"packet", "alloc", "read", "dec", "input", "inside"} => irq.left <= Len(fifo)
    /\ irq.pc \in {"alloc", "read", "dec"} => irq.left >= 1
    /\ irq.pc \in {"alloc", "read", "dec"} =>
          irq.info.id = fifo[1][1] /\ irq.info.len = fifo[1][2] /\ irq.info.ok = fifo[1][3]
    /\ irq.pc = "alloc" => irq.info.next = Wrap(drv.next + fifo[1][2], RxSize)

(* The numbers of the frames: those in the buffer are later than those     *)
(* dropped or handed over.                                                 *)
Numbers ==
    /\ gh.good \subseteq 1..gh.came /\ gh.dropped \subseteq 1..gh.came
    /\ \A i \in 1..Len(fifo) : fifo[i][1] \in 1..gh.came /\ (fifo[i][3] <=> fifo[i][1] \in gh.good)
    /\ \A i, j \in 1..Len(fifo) : i < j => fifo[i][1] < fifo[j][1]
    /\ \A i \in 1..Len(fifo) : \A d \in gh.dropped : d < fifo[i][1]
    /\ \A j \in 1..Len(gh.got) : gh.got[j] \in 1..gh.came
    /\ \A i \in 1..Len(fifo), j \in 1..Len(gh.got) :
          gh.got[j] < fifo[i][1] \/ (i = 1 /\ irq.pc = "dec" /\ gh.got[j] = fifo[i][1])

RxInv == gh.glitches = 0 => RxTypes /\ Layout /\ Place /\ Numbers /\ NothingLost

EncInv == Records /\ TxInv /\ RxInv

-----------------------------------------------------------------------------
(* Arithmetic of the ring. *)

LEMMA Size == RxSize \in Nat \ {0} /\ Lengths \subseteq 1..RxSize - 1 /\ Cells = 0..RxSize - 1 /\ RXEND_INIT = RxSize - 1
BY Enc28j60Assumption DEF Cells, RXSTART_INIT, RXEND_INIT

LEMMA Short == \A l \in Lengths : l \in Nat /\ l >= 1 /\ 0 \in 0..l - 1
BY Size

LEMMA ModOnce ==
    ASSUME NEW M \in Nat \ {0}, NEW a \in Int
    PROVE  /\ a \in 0..M - 1 => a % M = a
           /\ a \in M..2 * M - 1 => a % M = a - M
           /\ a \in -M..-1 => a % M = a + M
<1>1. ASSUME NEW b \in 0..M - 1 PROVE b % M = b
  BY <1>1
<1>2. ASSUME NEW b \in 0..M - 1 PROVE (b + M) % M = b /\ (b - M) % M = b
  <2>1. (b + M) % M = b % M
    OBVIOUS
  <2>2. (b - M) % M = b % M
    OBVIOUS
  <2> QED BY <1>1, <2>1, <2>2
<1>3. ASSUME a \in M..2 * M - 1 PROVE a % M = a - M
  <2> DEFINE b == a - M
  <2>1. b \in 0..M - 1 /\ a = b + M
    BY <1>3
  <2> HIDE DEF b
  <2>2. (b + M) % M = b
    BY <2>1, <1>2
  <2> QED BY <2>1, <2>2
<1>4. ASSUME a \in -M..-1 PROVE a % M = a + M
  <2> DEFINE b == a + M
  <2>1. b \in 0..M - 1 /\ a = b - M
    BY <1>4
  <2> HIDE DEF b
  <2>2. (b - M) % M = b
    BY <2>1, <1>2
  <2> QED BY <2>1, <2>2
<1> QED BY <1>1, <1>3, <1>4

LEMMA WrapOnce ==
    ASSUME NEW M \in Nat \ {0}
    PROVE  /\ \A a \in 0..M - 1 : Wrap(a, M) = a
           /\ \A a \in M..2 * M - 1 : Wrap(a, M) = a - M
           /\ \A a \in -M..-1 : Wrap(a, M) = a + M
<1>1. ASSUME NEW a \in 0..M - 1 PROVE Wrap(a, M) = a
  BY <1>1, ModOnce DEF Wrap
<1>2. ASSUME NEW a \in M..2 * M - 1 PROVE Wrap(a, M) = a - M
  BY <1>2, ModOnce DEF Wrap
<1>3. ASSUME NEW a \in -M..-1 PROVE Wrap(a, M) = a + M
  <2>1. a \in Int
    OBVIOUS
  <2>2. a \in -M..-1 => a % M = a + M
    BY <2>1, ModOnce
  <2> QED BY <2>2 DEF Wrap
<1> QED BY <1>1, <1>2, <1>3

LEMMA WrapSum ==
    ASSUME NEW M \in Nat \ {0}, NEW n \in 0..M - 1, NEW v \in 0..M - 1
    PROVE  /\ Wrap(n + v, M) = IF n + v < M THEN n + v ELSE n + v - M
           /\ Wrap(n - v, M) = IF n >= v THEN n - v ELSE n - v + M
<1>1. n + v \in 0..M - 1 \/ n + v \in M..2 * M - 1
  OBVIOUS
<1>2. n - v \in 0..M - 1 \/ n - v \in -M..-1
  OBVIOUS
<1>3. Wrap(n + v, M) = IF n + v < M THEN n + v ELSE n + v - M
  BY <1>1, WrapOnce
<1>4. Wrap(n - v, M) = IF n >= v THEN n - v ELSE n - v + M
  BY <1>2, WrapOnce
<1> QED BY <1>3, <1>4

(* How far one place in the ring is behind another. *)
LEMMA Offset ==
    ASSUME NEW M \in Nat \ {0}, NEW n \in 0..M - 1, NEW u \in 0..M - 1, NEW v \in 0..M - 1
    PROVE  Wrap(Wrap(n + v, M) - Wrap(n + u, M), M) = IF v >= u THEN v - u ELSE v - u + M
<1> DEFINE p == Wrap(n + v, M)
           q == Wrap(n + u, M)
<1>1. p = IF n + v < M THEN n + v ELSE n + v - M
  BY WrapSum
<1>2. q = IF n + u < M THEN n + u ELSE n + u - M
  BY WrapSum
<1> HIDE DEF p, q
<1>3. p \in 0..M - 1 /\ q \in 0..M - 1
  BY <1>1, <1>2
<1>4. Wrap(p - q, M) = IF p >= q THEN p - q ELSE p - q + M
  BY <1>3, WrapSum
<1>5. Wrap(p - q, M) = IF v >= u THEN v - u ELSE v - u + M
  BY <1>1, <1>2, <1>3, <1>4
<1> QED BY <1>5 DEF p, q

(* Going on from a place that was reached by going l on. *)
LEMMA GoOn ==
    ASSUME NEW M \in Nat \ {0}, NEW n \in 0..M - 1, NEW v \in 0..M - 1, NEW l \in 0..v
    PROVE  Wrap(Wrap(n + l, M) + (v - l), M) = Wrap(n + v, M)
<1> DEFINE p == Wrap(n + l, M)
           d == v - l
<1>1. p = IF n + l < M THEN n + l ELSE n + l - M
  BY WrapSum
<1>2. Wrap(n + v, M) = IF n + v < M THEN n + v ELSE n + v - M
  BY WrapSum
<1>3. p \in 0..M - 1 /\ d \in 0..M - 1
  BY <1>1
<1> HIDE DEF p
<1>4. Wrap(p + d, M) = IF p + d < M THEN p + d ELSE p + d - M
  <2> HIDE DEF d
  <2> QED BY <1>3, WrapSum
<1>5. Wrap(p + (v - l), M) = Wrap(n + v, M)
  BY <1>1, <1>2, <1>3, <1>4
<1> QED BY <1>5 DEF p

(* Going on and back again. *)
LEMMA GoBack ==
    ASSUME NEW M \in Nat \ {0}, NEW n \in 0..M - 1, NEW u \in 0..M - 1
    PROVE  Wrap(Wrap(n + u, M) - u, M) = n
<1> DEFINE w == Wrap(n + u, M)
<1>1. w = IF n + u < M THEN n + u ELSE n + u - M
  BY WrapSum
<1> HIDE DEF w
<1>2. w \in 0..M - 1
  BY <1>1
<1>3. Wrap(w - u, M) = IF w >= u THEN w - u ELSE w - u + M
  BY <1>2, WrapSum
<1>4. Wrap(w - u, M) = n
  BY <1>1, <1>2, <1>3
<1> QED BY <1>4 DEF w

(* CellsOf adds up what the frames take. *)
LEMMA Telescope ==
    ASSUME NEW f, Len(f) \in Nat, NEW o \in [1..Len(f) + 1 -> Int], o[1] = 0,
           \A i \in 1..Len(f) : o[i + 1] = o[i] + f[i][2]
    PROVE  CellsOf(f) = o[Len(f) + 1]
<1> DEFINE n == Len(f)
           Body(u) == [i \in 0..n |-> IF i = 0 THEN 0 ELSE u[i - 1] + f[i][2]]
           upto == CHOOSE u : u = Body(u)
           w == [i \in 0..n |-> o[i + 1]]
<1>1. CellsOf(f) = upto[n]
  BY DEF CellsOf
<1>2. w = Body(w)
  <2>1. ASSUME NEW i \in 0..n PROVE o[i + 1] = IF i = 0 THEN 0 ELSE w[i - 1] + f[i][2]
    <3>1. CASE i = 0
      BY <3>1
    <3>2. CASE i # 0
      <4>1. i \in 1..n /\ i - 1 \in 0..n /\ (i - 1) + 1 = i
        BY <3>2
      <4> QED BY <3>2, <4>1
    <3> QED BY <3>1, <3>2
  <2> QED BY <2>1
<1>3. upto = Body(upto)
  <2> HIDE DEF Body, w
  <2>1. \E u : u = Body(u)
    BY <1>2
  <2> QED BY <2>1
<1> HIDE DEF upto
<1>4. \A i \in 0..n : upto[i] = IF i = 0 THEN 0 ELSE upto[i - 1] + f[i][2]
  <2> DEFINE b == Body(upto)
  <2>1. \A i \in 0..n : b[i] = IF i = 0 THEN 0 ELSE upto[i - 1] + f[i][2]
    OBVIOUS
  <2> HIDE DEF b
  <2>2. upto = b
    BY <1>3 DEF b
  <2> QED BY <2>1, <2>2
<1> DEFINE Bad == {i \in 0..n : upto[i] # w[i]}
<1>5. Bad = {}
  <2> SUFFICES ASSUME Bad # {} PROVE FALSE
    OBVIOUS
  <2>1. PICK i \in Bad : \A j \in Bad : ~(j < i)
    <3>1. Bad \in SUBSET Nat
      OBVIOUS
    <3> HIDE DEF Bad
    <3>2. \E x \in Bad : \A y \in Bad : <<y, x>> \notin OpToRel(<, Nat)
      BY <3>1, NatLessThanWellFounded, WFMin
    <3>3. \A x, y \in Bad : y < x => <<y, x>> \in OpToRel(<, Nat)
      BY <3>1 DEF OpToRel
    <3> QED BY <3>2, <3>3
  <2>2. i # 0
    BY <1>4, <2>1
  <2>3. i - 1 \in 0..n /\ i - 1 \notin Bad /\ i \in 1..n
    BY <2>1, <2>2
  <2>4. upto[i - 1] = o[i]
    BY <2>3
  <2>5. upto[i] = upto[i - 1] + f[i][2] /\ o[i + 1] = o[i] + f[i][2]
    BY <1>4, <2>3
  <2> QED BY <2>1, <2>4, <2>5
<1>6. n \in 0..n
  OBVIOUS
<1>7. upto[n] = w[n]
  BY <1>5, <1>6
<1> QED BY <1>1, <1>6, <1>7

-----------------------------------------------------------------------------
(* What the operators on the history change. *)
LEMMA ExcuseIs ==
    ASSUME NEW h, GhIs(h), NEW F
    PROVE  /\ GhIs(Excuse(F, h)) /\ SameRx(h, Excuse(F, h))
           /\ Excuse(F, h).spoilt = h.spoilt /\ Excuse(F, h).old = h.old
           /\ Excuse(F, h).excuse = h.excuse \cup F
<1> DEFINE r == [came |-> h.came, good |-> h.good, got |-> h.got, dropped |-> h.dropped,
                 glitches |-> h.glitches, links |-> h.links, sent |-> h.sent, spoilt |-> h.spoilt,
                 excuse |-> h.excuse \cup F, old |-> h.old, deaf |-> h.deaf]
<1>1. Excuse(F, h) = r
  BY DEF GhIs, Excuse
<1>2. /\ GhIs(r) /\ SameRx(h, r) /\ r.spoilt = h.spoilt /\ r.old = h.old
      /\ r.excuse = h.excuse \cup F
  BY DEF GhIs, SameRx
<1> QED BY <1>1, <1>2

LEMMA CutIs ==
    ASSUME NEW h, GhIs(h)
    PROVE  /\ GhIs(Cut(h)) /\ SameRx(h, Cut(h))
           /\ Cut(h).excuse = h.excuse /\ Cut(h).old = h.old
           /\ Cut(h).spoilt = IF tx.air = NULL THEN h.spoilt ELSE h.spoilt \cup {tx.frame}
BY DEF GhIs, SameRx, Cut

Hit(party) == Prepared(Senders \ {party}) \cup (IF tx.air = NULL THEN {} ELSE {tx.frame})

LEMMA WritesIs ==
    ASSUME NEW h, GhIs(h), NEW party
    PROVE  /\ GhIs(Writes(party, h)) /\ SameRx(h, Writes(party, h))
           /\ Writes(party, h).spoilt = h.spoilt /\ Writes(party, h).old = h.old
           /\ Writes(party, h).excuse = IF party \in gh.old THEN h.excuse \cup Hit(party) ELSE h.excuse
<1>1. CASE party \notin gh.old
  BY <1>1 DEF Writes, SameRx
<1>2. CASE party \in gh.old
  <2>1. Writes(party, h) = Excuse(Hit(party), h)
    BY <1>2 DEF Writes, Hit
  <2> QED BY <1>2, <2>1, ExcuseIs
<1> QED BY <1>1, <1>2

LEMMA CutWrites ==
    ASSUME GhIs(gh), NEW party
    PROVE  LET g == Cut(Writes(party, gh))
           IN  /\ GhIs(g) /\ SameRx(gh, g) /\ g.old = gh.old
               /\ g.excuse = IF party \in gh.old THEN gh.excuse \cup Hit(party) ELSE gh.excuse
               /\ g.spoilt = IF tx.air = NULL THEN gh.spoilt ELSE gh.spoilt \cup {tx.frame}
<1> DEFINE h == Writes(party, gh)
<1>1. /\ GhIs(h) /\ SameRx(gh, h) /\ h.spoilt = gh.spoilt /\ h.old = gh.old
      /\ h.excuse = IF party \in gh.old THEN gh.excuse \cup Hit(party) ELSE gh.excuse
  BY WritesIs
<1> HIDE DEF h
<1>2. /\ GhIs(Cut(h)) /\ SameRx(h, Cut(h))
      /\ Cut(h).excuse = h.excuse /\ Cut(h).old = h.old
      /\ Cut(h).spoilt = IF tx.air = NULL THEN h.spoilt ELSE h.spoilt \cup {tx.frame}
  BY <1>1, CutIs
<1>3. LET g == Cut(h)
      IN  /\ GhIs(g) /\ SameRx(gh, g) /\ g.old = gh.old
          /\ g.excuse = IF party \in gh.old THEN gh.excuse \cup Hit(party) ELSE gh.excuse
          /\ g.spoilt = IF tx.air = NULL THEN gh.spoilt ELSE gh.spoilt \cup {tx.frame}
  BY <1>1, <1>2 DEF SameRx
<1> QED BY <1>3 DEF h

LEMMA OutdatesIs ==
    ASSUME NEW h, GhIs(h), NEW s
    PROVE  /\ GhIs(Outdates(s, h)) /\ SameRx(h, Outdates(s, h))
           /\ Outdates(s, h).spoilt = h.spoilt
           /\ Outdates(s, h).old = h.old \cup {t \in Senders \ {s} : Past(t)}
                                      \cup (IF Pending THEN {"flags"} ELSE {})
           /\ Outdates(s, h).excuse =
                 h.excuse \cup {snd[t].frame : t \in {u \in Senders \ {s} : Past(u)}}
<1> DEFINE f == Excuse({snd[t].frame : t \in {u \in Senders \ {s} : Past(u)}}, h)
<1>1. /\ GhIs(f) /\ SameRx(h, f) /\ f.spoilt = h.spoilt /\ f.old = h.old
      /\ f.excuse = h.excuse \cup {snd[t].frame : t \in {u \in Senders \ {s} : Past(u)}}
  BY ExcuseIs
<1>2. Outdates(s, h) = [f EXCEPT !.old = @ \cup {t \in Senders \ {s} : Past(t)}
                                           \cup (IF Pending THEN {"flags"} ELSE {})]
  BY DEF Outdates
<1> HIDE DEF f
<1>3. /\ GhIs(Outdates(s, h)) /\ SameRx(f, Outdates(s, h))
      /\ Outdates(s, h).spoilt = f.spoilt /\ Outdates(s, h).excuse = f.excuse
      /\ Outdates(s, h).old = f.old \cup {t \in Senders \ {s} : Past(t)}
                                   \cup (IF Pending THEN {"flags"} ELSE {})
  BY <1>1, <1>2 DEF GhIs, SameRx
<1> QED BY <1>1, <1>3 DEF SameRx

(* A step of one send_pbuf is none of the other. *)
Moved(s, pc) ==
    /\ snd'[s].pc = pc /\ snd'[s].frame = snd[s].frame
    /\ \A t \in Senders \ {s} : snd'[t] = snd[t]

LEMMA Moves ==
    ASSUME SndIs, NEW s \in Senders, NEW from, NEW to, Snd(s, from, to)
    PROVE  snd[s].pc = from /\ Moved(s, to) /\ SndIs'
<1>1. snd' = [t \in Senders |-> IF t = s THEN [snd[s] EXCEPT !.pc = to] ELSE snd[t]]
  BY DEF Snd, SndIs
<1>2. [snd[s] EXCEPT !.pc = to] = [pc |-> to, frame |-> snd[s].frame, polls |-> snd[s].polls]
  <2>1. snd[s] = [pc |-> snd[s].pc, frame |-> snd[s].frame, polls |-> snd[s].polls]
    BY DEF SndIs
  <2> QED BY <2>1
<1>3. /\ snd'[s] = [pc |-> to, frame |-> snd[s].frame, polls |-> snd[s].polls]
      /\ \A t \in Senders \ {s} : snd'[t] = snd[t]
  BY <1>1, <1>2
<1>4. SndIs'
  <2>1. ASSUME NEW t \in Senders
        PROVE  snd'[t] = [pc |-> snd'[t].pc, frame |-> snd'[t].frame, polls |-> snd'[t].polls]
    <3>1. CASE t = s
      BY <1>3, <3>1
    <3>2. CASE t # s
      BY <1>3, <3>2 DEF SndIs
    <3> QED BY <3>1, <3>2
  <2>2. snd' = [t \in Senders |-> snd'[t]]
    BY <1>1
  <2> QED BY <2>1, <2>2 DEF SndIs
<1> QED BY <1>3, <1>4 DEF Moved, Snd

(* send_pbuf is entered, polls the flags, or is left. *)
LEMMA Others ==
    ASSUME SndIs, NEW s \in Senders, NEW p, NEW f, NEW n,
           snd' = [snd EXCEPT ![s] = [pc |-> p, frame |-> f, polls |-> n]]
    PROVE  /\ snd'[s].pc = p /\ snd'[s].frame = f /\ SndIs'
           /\ \A t \in Senders \ {s} : snd'[t] = snd[t]
<1>1. snd' = [t \in Senders |-> IF t = s THEN [pc |-> p, frame |-> f, polls |-> n] ELSE snd[t]]
  BY DEF SndIs
<1>2. snd'[s] = [pc |-> p, frame |-> f, polls |-> n] /\ \A t \in Senders \ {s} : snd'[t] = snd[t]
  BY <1>1
<1>3. SndIs'
  <2>1. ASSUME NEW t \in Senders
        PROVE  snd'[t] = [pc |-> snd'[t].pc, frame |-> snd'[t].frame, polls |-> snd'[t].polls]
    <3>1. CASE t = s
      BY <1>2, <3>1
    <3>2. CASE t # s
      BY <1>2, <3>2 DEF SndIs
    <3> QED BY <3>1, <3>2
  <2>2. snd' = [t \in Senders |-> snd'[t]]
    BY <1>1
  <2> QED BY <2>1, <2>2 DEF SndIs
<1> QED BY <1>2, <1>3

LEMMA Polls ==
    ASSUME SndIs, GhIs(gh), NEW s \in Senders, SendPoll(s)
    PROVE  /\ snd[s].pc = "wait" /\ SndIs' /\ GhIs(gh') /\ SameRx(gh, gh')
           /\ gh'.spoilt = gh.spoilt /\ gh'.excuse = gh.excuse
           /\ \/ Moved(s, "wait") /\ gh'.old = gh.old
              \/ Moved(s, "reset") /\ gh'.old = gh.old /\ eir \cap TxFlags # {}
              \/ Moved(s, "reset") /\ gh'.old = gh.old \cup {s}
<1> DEFINE raised == eir \cap {"TXIF", "TXERIF"} # {}
           done == raised \/ snd[s].polls + 1 >= MAX_RETRIES
           p == IF done THEN "reset" ELSE "wait"
           n == IF done THEN 0 ELSE snd[s].polls + 1
           o == IF done /\ ~raised THEN gh.old \cup {s} ELSE gh.old
<1>1. /\ snd[s].pc = "wait" /\ gh' = [gh EXCEPT !.old = o]
      /\ snd' = [snd EXCEPT ![s] = [pc |-> p, frame |-> snd[s].frame, polls |-> n]]
  <2>1. snd[s].pc = "wait"
    BY DEF SendPoll
  <2>2. gh' = [gh EXCEPT !.old = o]
    BY Zenon DEF SendPoll
  <2>3. snd' = [snd EXCEPT ![s] = [pc |-> p, frame |-> snd[s].frame, polls |-> n]]
    BY Zenon DEF SendPoll
  <2> QED BY <2>1, <2>2, <2>3
<1>2. \/ p = "wait" /\ o = gh.old
      \/ p = "reset" /\ o = gh.old /\ eir \cap TxFlags # {}
      \/ p = "reset" /\ o = gh.old \cup {s}
  BY DEF TxFlags
<1> HIDE DEF p, n, o
<1>3. GhIs(gh') /\ SameRx(gh, gh') /\ gh'.spoilt = gh.spoilt /\ gh'.excuse = gh.excuse /\ gh'.old = o
  BY <1>1 DEF GhIs, SameRx
<1>4. /\ snd'[s].pc = p /\ snd'[s].frame = snd[s].frame /\ SndIs'
      /\ \A t \in Senders \ {s} : snd'[t] = snd[t]
  BY <1>1, Others
<1> QED BY <1>1, <1>2, <1>3, <1>4 DEF Moved

(* The records keep their fields. *)
LEMMA RecordsKept ==
    ASSUME Records, [EncNext]_encVars
    PROVE  Records'
<1>0. GhIs(gh) /\ SndIs
  BY DEF Records
<1>1. CASE Arrive
  BY <1>1 DEF Arrive, Records, SndIs, GhIs, chip
<1>2. CASE LinkChanges
  BY <1>2 DEF LinkChanges, Records, SndIs, GhIs, chip
<1>3. CASE Transmitted
  <2>1. GhIs(gh')
    BY <1>0, <1>3, CutIs DEF Transmitted
  <2> QED BY <1>3, <2>1 DEF Transmitted, Records, SndIs, chip
<1>4. CASE ArmEdge
  BY <1>4 DEF ArmEdge, Records, SndIs, GhIs, chip
<1>5. CASE EnableFlags
  BY <1>0, <1>5 DEF EnableFlags, Records, SndIs, chip
<1>6. CASE IrqTake
  BY <1>0, <1>6 DEF IrqTake, Records, SndIs, chip, Irq
<1>7. CASE IrqFlags
  BY <1>0, <1>7 DEF IrqFlags, Records, SndIs, chip
<1>8. CASE IrqLink
  BY <1>0, <1>8 DEF IrqLink, Records, SndIs, chip, IrqLooping
<1>9. CASE IrqLinked
  BY <1>0, <1>9 DEF IrqLinked, Records, SndIs, chip, Irq
<1>10. CASE IrqPhir
  BY <1>0, <1>10 DEF IrqPhir, Records, SndIs, chip, Irq
<1>11. CASE IrqTx
  <2>1. GhIs(gh')
    BY <1>0, <1>11, CutWrites DEF IrqTx
  <2> QED BY <1>11, <2>1 DEF IrqTx, Records, SndIs, chip, IrqLooping, reset_tx_logic
<1>12. CASE IrqTxRts
  <2>1. GhIs(gh')
    BY <1>0, <1>12, CutWrites DEF IrqTxRts
  <2> QED BY <1>12, <2>1 DEF IrqTxRts, Records, SndIs, chip, Irq
<1>13. CASE IrqTxIf
  BY <1>0, <1>13 DEF IrqTxIf, Records, SndIs, chip, Irq
<1>14. CASE IrqTxError
  <2>1. GhIs(gh')
    BY <1>0, <1>14, CutWrites DEF IrqTxError
  <2> QED BY <1>14, <2>1 DEF IrqTxError, Records, SndIs, chip, reset_tx_logic
<1>15. CASE IrqTxAgain
  <2> DEFINE h == Cut(Writes("flags", gh))
  <2>1. GhIs(h)
    BY <1>0, CutWrites
  <2> HIDE DEF h
  <2>2. gh' = h \/ \E F : gh' = Excuse(F, h)
    BY <1>15 DEF IrqTxAgain, h
  <2>3. GhIs(gh')
    BY <2>1, <2>2, ExcuseIs
  <2> QED BY <1>15, <2>3 DEF IrqTxAgain, Records, SndIs, chip, Irq
<1>16. CASE IrqTxErIf
  BY <1>0, <1>16 DEF IrqTxErIf, Records, SndIs, chip, Irq
<1>17. CASE IrqRxError
  BY <1>17 DEF IrqRxError, Records, SndIs, GhIs, IrqLooping, Dropping, reset_rx_logic
<1>18. CASE IrqCount
  BY <1>18 DEF IrqCount, Records, SndIs, GhIs, chip
<1>19. CASE get_incoming_packet_info
  <2>1. PICK h : irq' = [irq EXCEPT !.pc = "alloc", !.info = h]
    BY <1>19 DEF get_incoming_packet_info
  <2>2. UNCHANGED gh \/ gh' = [gh EXCEPT !.glitches = @ + 1]
    BY <1>19 DEF get_incoming_packet_info
  <2>3. UNCHANGED <<tx, drv, snd>>
    BY <1>19 DEF get_incoming_packet_info, chip
  <2>4. GhIs(gh')
    BY <1>0, <2>2 DEF GhIs
  <2>5. irq' = [pc |-> irq'.pc, flags |-> irq'.flags, loop |-> irq'.loop, late |-> irq'.late,
                left |-> irq'.left, info |-> irq'.info]
    BY <2>1 DEF Records
  <2> QED BY <2>3, <2>4, <2>5 DEF Records, SndIs
<1>20. CASE IrqNoPbuf
  BY <1>0, <1>20 DEF IrqNoPbuf, Records, SndIs, chip
<1>21. CASE IrqBadPointer
  <2> DEFINE h == IF irq.info.ok THEN Deliver(irq.info.id) ELSE gh
  <2>1. gh' = Dropping(h)
    BY <1>21 DEF IrqBadPointer
  <2>2. GhIs(h)
    BY <1>0 DEF GhIs, Deliver
  <2> HIDE DEF h
  <2>3. GhIs(gh')
    BY <2>1, <2>2 DEF Dropping, GhIs
  <2> QED BY <1>21, <2>3 DEF IrqBadPointer, Records, SndIs, reset_rx_logic
<1>22. CASE IrqRelease
  BY <1>0, <1>22 DEF IrqRelease, Records, SndIs, chip, Irq
<1>23. CASE IrqRead
  BY <1>23 DEF IrqRead, Records, SndIs, GhIs, chip, Irq, Deliver
<1>24. CASE IrqDecrement
  BY <1>0, <1>24 DEF IrqDecrement, Records, SndIs, chip
<1>25. CASE IrqInput
  BY <1>0, <1>25 DEF IrqInput, Records, SndIs, chip, Irq
<1>26. CASE IrqInputDone
  BY <1>0, <1>26 DEF IrqInputDone, Records, SndIs, chip, Irq
<1>27. CASE IrqAgain
  BY <1>0, <1>27 DEF IrqAgain, Records, SndIs, chip, Irq
<1>28. CASE IrqEnable
  BY <1>0, <1>28 DEF IrqEnable, Records, SndIs, chip
<1>29. ASSUME NEW s \in Senders, eth_packet_output(s) PROVE Records'
  <2>1. SndIs'
    BY <1>0, <1>29, Others DEF eth_packet_output
  <2> QED BY <1>29, <2>1 DEF eth_packet_output, Records, GhIs, chip
<1>30. ASSUME NEW s \in Senders, SendPoll(s) PROVE Records'
  BY <1>0, <1>30, Polls DEF SendPoll, Records, chip
<1>31. ASSUME NEW s \in Senders, SendReset(s) PROVE Records'
  <2>1. SndIs'
    BY <1>0, <1>31, Moves DEF SendReset
  <2>2. GhIs(gh')
    BY <1>0, <1>31, CutWrites, OutdatesIs DEF SendReset
  <2> QED BY <1>31, <2>1, <2>2 DEF SendReset, Records
<1>32. ASSUME NEW s \in Senders, SendClear(s) PROVE Records'
  <2>1. SndIs'
    BY <1>0, <1>32, Moves DEF SendClear
  <2>2. GhIs(gh')
    BY <1>0, <1>32, OutdatesIs DEF SendClear
  <2> QED BY <1>32, <2>1, <2>2 DEF SendClear, Records
<1>33. ASSUME NEW s \in Senders, SendLength(s) PROVE Records'
  <2>1. SndIs'
    BY <1>0, <1>33, Moves DEF SendLength
  <2>2. GhIs(gh')
    BY <1>0, <1>33, WritesIs DEF SendLength
  <2> QED BY <1>33, <2>1, <2>2 DEF SendLength, Records
<1>34. ASSUME NEW s \in Senders, SendCopy(s) PROVE Records'
  <2>1. SndIs'
    BY <1>0, <1>34, Moves DEF SendCopy
  <2>2. GhIs(gh')
    BY <1>0, <1>34, WritesIs DEF SendCopy
  <2> QED BY <1>34, <2>1, <2>2 DEF SendCopy, Records
<1>35. ASSUME NEW s \in Senders, SendStart(s) PROVE Records'
  <2>1. SndIs'
    BY <1>0, <1>35, Others DEF SendStart, NotSending
  <2>2. GhIs(gh')
    <3> DEFINE h == Cut(Writes(s, gh))
    <3>1. GhIs(h) /\ gh' = [h EXCEPT !.old = @ \ {s}]
      BY <1>0, <1>35, CutWrites DEF SendStart
    <3> HIDE DEF h
    <3> QED BY <3>1 DEF GhIs
  <2> QED BY <1>35, <2>1, <2>2 DEF SendStart, Records
<1>36. CASE UNCHANGED encVars
  BY <1>36 DEF encVars, Records, SndIs, GhIs
<1>37. "irq" \in Senders /\ "lwip" \in Senders
  BY DEF Senders
<1> QED BY <1>1, <1>2, <1>3, <1>4, <1>5, <1>6, <1>7, <1>8, <1>9, <1>10, <1>11, <1>12,
           <1>13, <1>14, <1>15, <1>16, <1>17, <1>18, <1>19, <1>20, <1>21, <1>22, <1>23, <1>24,
           <1>25, <1>26, <1>27, <1>28, <1>29, <1>30, <1>31, <1>32, <1>33, <1>34, <1>35, <1>36,
           <1>37
        DEF EncNext, IrqTask, Sending

-----------------------------------------------------------------------------
(* A step that neither writes to the transmitter nor raises its flags. *)
LEMMA TxSame ==
    ASSUME TxInv, UNCHANGED <<tx, snd>>, gh'.spoilt = gh.spoilt, gh'.excuse = gh.excuse,
           eir' \cap TxFlags \subseteq eir \cap TxFlags,
           Pending' => Pending \/ eir \cap TxFlags # {},
           \A t \in Senders : t \in gh.old => t \in gh'.old,
           Pending' /\ "flags" \in gh.old => "flags" \in gh'.old, Reading'
    PROVE  TxInv'
<1>1. Quiet => Quiet'
  BY DEF Quiet
<1>2. /\ OnAir' = OnAir /\ \A s \in Senders : /\ InHand(s)' = InHand(s)
                                             /\ BeforeClear(s)' = BeforeClear(s)
                                             /\ Past(s)' = Past(s)
  BY DEF OnAir, InHand, BeforeClear, Past
<1>3. Alone'
  BY <1>1, <1>2 DEF TxInv, Alone
<1> QED BY <1>3 DEF TxInv

(* What the interrupt task does to the transmitter it does on flags that   *)
(* are old, or while no frame is under way but one that excuses it.        *)
LEMMA TxByFlags ==
    ASSUME TxInv, Pending, UNCHANGED <<snd, eir>>,
           gh'.old = gh.old, gh.excuse \subseteq gh'.excuse,
           "flags" \in gh.old => Hit("flags") \subseteq gh'.excuse,
           gh'.spoilt \subseteq gh.spoilt \cup (IF tx.air = NULL THEN {} ELSE {tx.frame}),
           \/ tx'.air = NULL
           \/ tx'.frame \in gh'.excuse /\ Prepared(Senders) \subseteq gh'.excuse,
           Reading'
    PROVE  TxInv'
<1>1. ~OnAir'
  BY DEF OnAir
<1>2. CASE "flags" \in gh.old
  <2>1. Senders \ {"flags"} = Senders
    BY DEF Senders
  <2>2. \A s \in Senders : ~InHand(s)' /\ ~BeforeClear(s)'
    BY <1>2, <2>1 DEF Hit, Prepared, InHand, BeforeClear
  <2>3. gh'.spoilt \subseteq gh'.excuse
    BY <1>2 DEF TxInv, Hit
  <2> QED BY <1>1, <2>2, <2>3 DEF TxInv, Alone
<1>3. CASE "flags" \notin gh.old
  <2>1. ~Quiet
    BY <1>3 DEF Quiet
  <2>2. ~OnAir /\ \A s \in Senders : ~InHand(s)
    BY <2>1 DEF TxInv, Alone
  <2>3. \A s \in Senders : ~InHand(s)'
    BY <2>2 DEF InHand
  <2>4. gh'.spoilt \subseteq gh'.excuse
    BY <2>2 DEF OnAir, TxInv
  <2>5. ASSUME NEW s \in Senders, BeforeClear(s)'
        PROVE  tx'.air = NULL /\ BeforeClear(s)
    BY <2>5 DEF BeforeClear, Prepared
  <2>6. ASSUME NEW s \in Senders, BeforeClear(s)', NEW t \in Senders \ {s},
               snd'[t].pc \in {"clear", "length", "copy", "start"}
        PROVE  t \in gh'.old
    BY <2>5, <2>6 DEF TxInv, Alone
  <2>7. Alone'
    BY <1>1, <2>3, <2>5, <2>6, Zenon DEF Alone
  <2> QED BY <2>4, <2>7 DEF TxInv
<1> QED BY <1>2, <1>3

(* What one send_pbuf does to the transmitter it does on an old state, or  *)
(* while there is no other frame under way.                                *)
LEMMA TxFree ==
    ASSUME TxInv, NEW s \in Senders,
           snd[s].pc = "reset" \/ snd[s].pc \in {"clear", "length", "copy", "start"}
    PROVE  s \notin gh.old => /\ ~OnAir
                              /\ \A t \in Senders \ {s} : ~InHand(t)
                              /\ snd[s].pc # "reset" => \A t \in Senders \ {s} : ~BeforeClear(t)
<1>0. Past(s)
  BY DEF Past
<1>1. \A t \in Senders \ {s} : s \in Senders \ {t}
  OBVIOUS
<1>2. s \notin gh.old => ~OnAir
  BY <1>0 DEF TxInv, Alone
<1>3. ASSUME NEW t \in Senders \ {s}, InHand(t) PROVE s \in gh.old
  BY <1>0, <1>1, <1>3 DEF TxInv, Alone
<1>4. ASSUME NEW t \in Senders \ {s}, BeforeClear(t), snd[s].pc \in {"clear", "length", "copy", "start"}
      PROVE  s \in gh.old
  BY <1>1, <1>4 DEF TxInv, Alone
<1> QED BY <1>2, <1>3, <1>4

(* Each step keeps the frames under way whole, or leaves an excuse. *)
LEMMA TxKept ==
    ASSUME Records, TxInv, [EncNext]_encVars
    PROVE  TxInv'
<1>0. GhIs(gh) /\ SndIs /\ Reading
  BY DEF Records, TxInv
<1>1. CASE Arrive
  <2>1. gh'.spoilt = gh.spoilt /\ gh'.excuse = gh.excuse /\ gh'.old = gh.old
    BY <1>0, <1>1 DEF Arrive, GhIs, Pending, Records
  <2>2. UNCHANGED <<tx, snd>> /\ eir' \cap TxFlags \subseteq eir \cap TxFlags
    BY <1>1 DEF Arrive, TxFlags, chip
  <2>3. Reading' /\ (Pending' => Pending)
    BY <1>0, <1>1 DEF Arrive, Reading, Pending, Records, chip
  <2> QED BY <2>1, <2>2, <2>3, TxSame
<1>2. CASE LinkChanges
  <2>1. gh'.spoilt = gh.spoilt /\ gh'.excuse = gh.excuse /\ gh'.old = gh.old
    BY <1>0, <1>2 DEF LinkChanges, GhIs, Pending, Records
  <2>2. UNCHANGED <<tx, snd>> /\ eir' \cap TxFlags \subseteq eir \cap TxFlags
    BY <1>2 DEF LinkChanges, TxFlags, chip
  <2>3. Reading' /\ (Pending' => Pending)
    BY <1>0, <1>2 DEF LinkChanges, Reading, Pending, Records, chip
  <2> QED BY <2>1, <2>2, <2>3, TxSame
<1>3. CASE Transmitted
  <2>1. PICK how : gh' = IF tx.air = <<tx.frame, tx.frame>> /\ tx.buf = tx.frame THEN gh ELSE Cut(gh)
    BY <1>3 DEF Transmitted
  <2>2. /\ tx.air # NULL /\ tx'.air = NULL /\ UNCHANGED <<irq, snd>>
    BY <1>3 DEF Transmitted, Records
  <2>3. /\ gh'.excuse = gh.excuse /\ gh'.old = gh.old
        /\ gh'.spoilt \subseteq gh.spoilt \cup (IF OnAir THEN {} ELSE {tx.frame})
    BY <1>0, <2>1, <2>2, CutIs DEF TxInv, Alone
  <2>4. ~OnAir' /\ \A s \in Senders : ~InHand(s)' /\ ~BeforeClear(s)'
    BY <2>2, <2>3 DEF OnAir, InHand, BeforeClear, TxInv, Alone
  <2>5. gh'.spoilt \subseteq gh'.excuse
    BY <2>2, <2>3 DEF OnAir, TxInv
  <2> QED BY <1>0, <2>2, <2>4, <2>5 DEF TxInv, Alone, Reading
<1>4. CASE ArmEdge
  <2>1. gh'.spoilt = gh.spoilt /\ gh'.excuse = gh.excuse /\ gh'.old = gh.old
    BY <1>0, <1>4 DEF ArmEdge, GhIs, Pending, Records
  <2>2. UNCHANGED <<tx, snd>> /\ eir' \cap TxFlags \subseteq eir \cap TxFlags
    BY <1>4 DEF ArmEdge, TxFlags, chip
  <2>3. Reading' /\ (Pending' => Pending)
    BY <1>0, <1>4 DEF ArmEdge, Reading, Pending, Records, chip
  <2> QED BY <2>1, <2>2, <2>3, TxSame
<1>5. CASE EnableFlags
  <2>1. UNCHANGED <<tx, snd, gh>> /\ eir' \cap TxFlags \subseteq eir \cap TxFlags
    BY <1>5 DEF EnableFlags, TxFlags, chip
  <2>2. Reading' /\ (Pending' => Pending)
    BY <1>0, <1>5 DEF EnableFlags, Reading, Pending, TxFlags, Records, chip
  <2> QED BY <2>1, <2>2, TxSame
<1>6. CASE IrqTake
  <2>1. UNCHANGED <<tx, snd, gh>> /\ eir' \cap TxFlags \subseteq eir \cap TxFlags
    BY <1>6 DEF IrqTake, TxFlags, chip, Irq
  <2>2. Reading' /\ (Pending' => Pending)
    BY <1>0, <1>6 DEF IrqTake, Reading, Pending, TxFlags, Records, chip, Irq
  <2> QED BY <2>1, <2>2, TxSame
<1>7. CASE IrqFlags
  <2>1. UNCHANGED <<tx, snd, gh>> /\ eir' \cap TxFlags \subseteq eir \cap TxFlags
    BY <1>7 DEF IrqFlags, TxFlags, chip, FirstOf, AfterLink, AfterTx, AfterTxError
  <2>2. Reading' /\ (Pending' => eir \cap TxFlags # {})
    BY <1>0, <1>7 DEF IrqFlags, Reading, Pending, TxFlags, Records, chip, FirstOf, AfterLink, AfterTx, AfterTxError
  <2> QED BY <2>1, <2>2, TxSame
<1>8. CASE IrqLink
  <2>1. UNCHANGED <<tx, snd, gh>> /\ eir' \cap TxFlags \subseteq eir \cap TxFlags
    BY <1>8 DEF IrqLink, TxFlags, chip, IrqLooping
  <2>2. Reading' /\ (Pending' => Pending)
    BY <1>0, <1>8 DEF IrqLink, Reading, Pending, TxFlags, Records, chip, IrqLooping
  <2> QED BY <2>1, <2>2, TxSame
<1>9. CASE IrqLinked
  <2>1. UNCHANGED <<tx, snd, gh>> /\ eir' \cap TxFlags \subseteq eir \cap TxFlags
    BY <1>9 DEF IrqLinked, TxFlags, chip, Irq
  <2>2. Reading' /\ (Pending' => Pending)
    BY <1>0, <1>9 DEF IrqLinked, Reading, Pending, TxFlags, Records, chip, Irq
  <2> QED BY <2>1, <2>2, TxSame
<1>10. CASE IrqPhir
  <2>1. UNCHANGED <<tx, snd, gh>> /\ eir' \cap TxFlags \subseteq eir \cap TxFlags
    BY <1>10 DEF IrqPhir, TxFlags, chip, Irq, AfterLink, AfterTx, AfterTxError
  <2>2. Reading' /\ (Pending' => Pending)
    BY <1>0, <1>10 DEF IrqPhir, Reading, Pending, TxFlags, Records, chip, Irq, AfterLink, AfterTx, AfterTxError
  <2> QED BY <2>1, <2>2, TxSame
<1>11. CASE IrqTx
  <2>1. CASE tx.abrt
    <3>1. Pending /\ Reading' /\ UNCHANGED <<snd, eir>> /\ tx'.air = NULL
      BY <1>0, <1>11, <2>1 DEF IrqTx, Pending, Reading, Records, IrqLooping, reset_tx_logic
    <3>2. /\ gh'.old = gh.old /\ gh.excuse \subseteq gh'.excuse
          /\ "flags" \in gh.old => Hit("flags") \subseteq gh'.excuse
          /\ gh'.spoilt \subseteq gh.spoilt \cup (IF tx.air = NULL THEN {} ELSE {tx.frame})
      BY <1>0, <1>11, <2>1, CutWrites DEF IrqTx
    <3> QED BY <3>1, <3>2, TxByFlags
  <2>2. CASE ~tx.abrt
    <3>1. UNCHANGED <<tx, snd, eir, gh>> /\ Reading' /\ Pending
      BY <1>0, <1>11, <2>2 DEF IrqTx, Pending, Reading, Records, IrqLooping
    <3> QED BY <3>1, TxSame
  <2> QED BY <2>1, <2>2
<1>12. CASE IrqTxRts
  <2>1. Pending /\ Reading' /\ UNCHANGED <<snd, eir>> /\ tx'.air = NULL
    BY <1>0, <1>12 DEF IrqTxRts, Pending, Reading, Records, Irq
  <2>2. /\ gh'.old = gh.old /\ gh.excuse \subseteq gh'.excuse
        /\ "flags" \in gh.old => Hit("flags") \subseteq gh'.excuse
        /\ gh'.spoilt \subseteq gh.spoilt \cup (IF tx.air = NULL THEN {} ELSE {tx.frame})
    BY <1>0, <1>12, CutWrites DEF IrqTxRts
  <2> QED BY <2>1, <2>2, TxByFlags
<1>13. CASE IrqTxIf
  <2>1. UNCHANGED <<tx, snd, gh>> /\ eir' \cap TxFlags \subseteq eir \cap TxFlags
    BY <1>13 DEF IrqTxIf, TxFlags, chip, Irq, AfterTxError
  <2>2. Reading' /\ (Pending' => Pending)
    BY <1>0, <1>13 DEF IrqTxIf, Reading, Pending, TxFlags, Records, chip, Irq, AfterTxError
  <2> QED BY <2>1, <2>2, TxSame
<1>14. CASE IrqTxError
  <2>1. Pending /\ Reading' /\ UNCHANGED <<snd, eir>> /\ tx'.air = NULL
    BY <1>0, <1>14 DEF IrqTxError, Pending, Reading, Records, reset_tx_logic
  <2>2. /\ gh'.old = gh.old /\ gh.excuse \subseteq gh'.excuse
        /\ "flags" \in gh.old => Hit("flags") \subseteq gh'.excuse
        /\ gh'.spoilt \subseteq gh.spoilt \cup (IF tx.air = NULL THEN {} ELSE {tx.frame})
    BY <1>0, <1>14, CutWrites DEF IrqTxError
  <2> QED BY <2>1, <2>2, TxByFlags
<1>15. CASE IrqTxAgain
  <2> DEFINE h == Cut(Writes("flags", gh))
             again == irq.late /\ MayRetry(drv.tries)
             F == Prepared(Senders) \cup {tx.frame}
  <2>1. Pending /\ Reading' /\ UNCHANGED <<snd, eir>> /\ tx'.frame = tx.frame
    BY <1>0, <1>15 DEF IrqTxAgain, Pending, Reading, Records, Irq
  <2>2. /\ GhIs(h) /\ h.old = gh.old /\ gh.excuse \subseteq h.excuse
        /\ "flags" \in gh.old => Hit("flags") \subseteq h.excuse
        /\ h.spoilt \subseteq gh.spoilt \cup (IF tx.air = NULL THEN {} ELSE {tx.frame})
    BY <1>0, CutWrites
  <2>3. /\ gh' = IF again THEN Excuse(F, h) ELSE h
        /\ ~again => tx'.air = NULL
    BY <1>15 DEF IrqTxAgain, Records
  <2> HIDE DEF h, F, again
  <2>4. /\ gh'.old = h.old /\ gh'.spoilt = h.spoilt
        /\ gh'.excuse = IF again THEN h.excuse \cup F ELSE h.excuse
    BY <2>2, <2>3, ExcuseIs
  <2>5. \/ tx'.air = NULL
        \/ tx'.frame \in gh'.excuse /\ Prepared(Senders) \subseteq gh'.excuse
    BY <2>1, <2>3, <2>4 DEF F
  <2>6. /\ gh'.old = gh.old /\ gh.excuse \subseteq gh'.excuse
        /\ "flags" \in gh.old => Hit("flags") \subseteq gh'.excuse
        /\ gh'.spoilt \subseteq gh.spoilt \cup (IF tx.air = NULL THEN {} ELSE {tx.frame})
    BY <2>2, <2>4
  <2> QED BY <2>1, <2>5, <2>6, TxByFlags
<1>16. CASE IrqTxErIf
  <2>1. UNCHANGED <<tx, snd, gh>> /\ eir' \cap TxFlags \subseteq eir \cap TxFlags
    BY <1>16 DEF IrqTxErIf, TxFlags, chip, Irq, AfterTxError
  <2>2. Reading' /\ (Pending' => Pending)
    BY <1>0, <1>16 DEF IrqTxErIf, Reading, Pending, TxFlags, Records, chip, Irq, AfterTxError
  <2> QED BY <2>1, <2>2, TxSame
<1>17. CASE IrqRxError
  <2>1. gh'.spoilt = gh.spoilt /\ gh'.excuse = gh.excuse /\ gh'.old = gh.old
    BY <1>0, <1>17 DEF IrqRxError, GhIs, Pending, Records, IrqLooping, reset_rx_logic, Dropping
  <2>2. UNCHANGED <<tx, snd>> /\ eir' \cap TxFlags \subseteq eir \cap TxFlags
    BY <1>17 DEF IrqRxError, TxFlags, chip, IrqLooping, reset_rx_logic, Dropping
  <2>3. Reading' /\ (Pending' => Pending)
    BY <1>0, <1>17 DEF IrqRxError, Reading, Pending, Records, chip, IrqLooping, reset_rx_logic, Dropping
  <2> QED BY <2>1, <2>2, <2>3, TxSame
<1>18. CASE IrqCount
  <2>1. gh'.spoilt = gh.spoilt /\ gh'.excuse = gh.excuse /\ gh'.old = gh.old \ {"flags"} /\ ~Pending'
    BY <1>0, <1>18 DEF IrqCount, GhIs, Pending, Records
  <2>2. UNCHANGED <<tx, snd>> /\ eir' \cap TxFlags \subseteq eir \cap TxFlags
    BY <1>18 DEF IrqCount, TxFlags, chip
  <2>3. Reading' /\ (Pending' => Pending)
    BY <1>0, <1>18 DEF IrqCount, Reading, Pending, Records, chip
  <2> QED BY <2>1, <2>2, <2>3, TxSame DEF Senders
<1>19. CASE get_incoming_packet_info
  <2>1. gh'.spoilt = gh.spoilt /\ gh'.excuse = gh.excuse /\ gh'.old = gh.old
    BY <1>0, <1>19 DEF get_incoming_packet_info, GhIs, Pending, Records
  <2>2. UNCHANGED <<tx, snd>> /\ eir' \cap TxFlags \subseteq eir \cap TxFlags
    BY <1>19 DEF get_incoming_packet_info, TxFlags, chip
  <2>3. Reading' /\ (Pending' => Pending)
    BY <1>0, <1>19 DEF get_incoming_packet_info, Reading, Pending, Records, chip
  <2> QED BY <2>1, <2>2, <2>3, TxSame
<1>20. CASE IrqNoPbuf
  <2>1. UNCHANGED <<tx, snd, gh>> /\ eir' \cap TxFlags \subseteq eir \cap TxFlags
    BY <1>20 DEF IrqNoPbuf, TxFlags, chip
  <2>2. Reading' /\ (Pending' => Pending)
    BY <1>0, <1>20 DEF IrqNoPbuf, Reading, Pending, TxFlags, Records, chip
  <2> QED BY <2>1, <2>2, TxSame
<1>21. CASE IrqBadPointer
  <2> DEFINE h == IF irq.info.ok THEN Deliver(irq.info.id) ELSE gh
  <2>1. gh' = Dropping(h)
    BY <1>21 DEF IrqBadPointer
  <2>2. GhIs(h) /\ h.spoilt = gh.spoilt /\ h.excuse = gh.excuse /\ h.old = gh.old
    BY <1>0 DEF GhIs, Deliver
  <2> HIDE DEF h
  <2>3. gh'.spoilt = gh.spoilt /\ gh'.excuse = gh.excuse /\ gh'.old = gh.old
    BY <2>1, <2>2 DEF Dropping, GhIs
  <2>4. UNCHANGED <<tx, snd>> /\ eir' \subseteq eir /\ Reading' /\ ~Pending'
    BY <1>21 DEF IrqBadPointer, Handed, reset_rx_logic, Records, Reading, Pending
  <2> QED BY <2>3, <2>4, TxSame
<1>22. CASE IrqRelease
  <2>1. UNCHANGED <<tx, snd, gh>> /\ eir' \cap TxFlags \subseteq eir \cap TxFlags
    BY <1>22 DEF IrqRelease, TxFlags, chip, Irq
  <2>2. Reading' /\ (Pending' => Pending)
    BY <1>0, <1>22 DEF IrqRelease, Reading, Pending, TxFlags, Records, chip, Irq
  <2> QED BY <2>1, <2>2, TxSame
<1>23. CASE IrqRead
  <2>1. gh'.spoilt = gh.spoilt /\ gh'.excuse = gh.excuse /\ gh'.old = gh.old
    BY <1>0, <1>23 DEF IrqRead, GhIs, Pending, Records, Irq, Deliver
  <2>2. UNCHANGED <<tx, snd>> /\ eir' \cap TxFlags \subseteq eir \cap TxFlags
    BY <1>23 DEF IrqRead, TxFlags, chip, Irq, Deliver
  <2>3. Reading' /\ (Pending' => Pending)
    BY <1>0, <1>23 DEF IrqRead, Reading, Pending, Records, chip, Irq, Deliver
  <2> QED BY <2>1, <2>2, <2>3, TxSame
<1>24. CASE IrqDecrement
  <2>1. UNCHANGED <<tx, snd, gh>> /\ eir' \cap TxFlags \subseteq eir \cap TxFlags
    BY <1>24 DEF IrqDecrement, TxFlags, chip, Handed
  <2>2. Reading' /\ (Pending' => Pending)
    BY <1>0, <1>24 DEF IrqDecrement, Reading, Pending, TxFlags, Records, chip, Handed
  <2> QED BY <2>1, <2>2, TxSame
<1>25. CASE IrqInput
  <2>1. UNCHANGED <<tx, snd, gh>> /\ eir' \cap TxFlags \subseteq eir \cap TxFlags
    BY <1>25 DEF IrqInput, TxFlags, chip, Irq
  <2>2. Reading' /\ (Pending' => Pending)
    BY <1>0, <1>25 DEF IrqInput, Reading, Pending, TxFlags, Records, chip, Irq
  <2> QED BY <2>1, <2>2, TxSame
<1>26. CASE IrqInputDone
  <2>1. UNCHANGED <<tx, snd, gh>> /\ eir' \cap TxFlags \subseteq eir \cap TxFlags
    BY <1>26 DEF IrqInputDone, TxFlags, chip, Irq
  <2>2. Reading' /\ (Pending' => Pending)
    BY <1>0, <1>26 DEF IrqInputDone, Reading, Pending, TxFlags, Records, chip, Irq
  <2> QED BY <2>1, <2>2, TxSame
<1>27. CASE IrqAgain
  <2>1. UNCHANGED <<tx, snd, gh>> /\ eir' \cap TxFlags \subseteq eir \cap TxFlags
    BY <1>27 DEF IrqAgain, TxFlags, chip, Irq
  <2>2. Reading' /\ (Pending' => Pending)
    BY <1>0, <1>27 DEF IrqAgain, Reading, Pending, TxFlags, Records, chip, Irq
  <2> QED BY <2>1, <2>2, TxSame
<1>28. CASE IrqEnable
  <2>1. UNCHANGED <<tx, snd, gh>> /\ eir' \cap TxFlags \subseteq eir \cap TxFlags
    BY <1>28 DEF IrqEnable, TxFlags, chip
  <2>2. Reading' /\ (Pending' => Pending)
    BY <1>0, <1>28 DEF IrqEnable, Reading, Pending, TxFlags, Records, chip
  <2> QED BY <2>1, <2>2, TxSame
<1>29. ASSUME NEW s \in Senders, eth_packet_output(s) PROVE TxInv'
  <2>1. /\ snd[s].pc = "idle" /\ snd'[s].pc = "wait" /\ \A t \in Senders \ {s} : snd'[t] = snd[t]
    BY <1>0, <1>29, Others DEF eth_packet_output
  <2>2. /\ gh'.spoilt = gh.spoilt /\ gh'.excuse = gh.excuse /\ gh'.old = gh.old
        /\ UNCHANGED <<tx, eir, irq>>
    BY <1>0, <1>29 DEF eth_packet_output, GhIs, chip
  <2>3. Quiet' = Quiet /\ OnAir' = OnAir /\ \A t \in Senders : Past(t)' = Past(t)
    BY <2>1, <2>2 DEF Quiet, OnAir, Pending, Past
  <2>4. \A t \in Senders : /\ InHand(t)' => InHand(t) /\ t # s
                           /\ BeforeClear(t)' => BeforeClear(t) /\ t # s
    BY <2>1, <2>2 DEF InHand, BeforeClear
  <2>5. \A t \in Senders : /\ snd'[t].pc \in {"clear", "length", "copy", "start"} => t # s
                           /\ t # s => snd'[t] = snd[t]
    BY <2>1
  <2>6. Alone'
    BY <2>2, <2>3, <2>4, <2>5 DEF TxInv, Alone
  <2> QED BY <1>0, <2>2, <2>6 DEF TxInv, Reading
<1>30. ASSUME NEW s \in Senders, SendPoll(s) PROVE TxInv'
  <2>1. /\ snd[s].pc = "wait" /\ gh'.spoilt = gh.spoilt /\ gh'.excuse = gh.excuse
        /\ \/ Moved(s, "wait") /\ gh'.old = gh.old
           \/ Moved(s, "reset") /\ gh'.old = gh.old /\ eir \cap TxFlags # {}
           \/ Moved(s, "reset") /\ gh'.old = gh.old \cup {s}
    BY <1>0, <1>30, Polls
  <2>2. UNCHANGED <<tx, eir, irq>>
    BY <1>30 DEF SendPoll, chip
  <2>3. OnAir' = OnAir /\ (Quiet => Quiet') /\ gh.old \subseteq gh'.old
    BY <2>1, <2>2 DEF Quiet, OnAir, Pending
  <2>4. \A t \in Senders : /\ InHand(t)' => InHand(t) /\ t # s
                           /\ BeforeClear(t)' => BeforeClear(t) /\ t # s
    BY <2>1 DEF InHand, BeforeClear, Moved
  <2>5. \A t \in Senders : /\ snd'[t].pc \in {"clear", "length", "copy", "start"} => t # s
                           /\ t # s => snd'[t] = snd[t]
    BY <2>1 DEF Moved
  <2>6. ASSUME Quiet, NEW t \in Senders, Past(t)' PROVE Past(t) \/ t \in gh'.old
    BY <2>1, <2>6 DEF Past, Moved, Quiet
  <2>7. Alone'
    BY <2>2, <2>1, <2>3, <2>4, <2>5, <2>6 DEF TxInv, Alone
  <2> QED BY <1>0, <2>1, <2>2, <2>7 DEF TxInv, Reading
<1>31. ASSUME NEW s \in Senders, SendReset(s) PROVE TxInv'
  <2> DEFINE h == Cut(Writes(s, gh))
             others == {t \in Senders \ {s} : Past(t)}
  <2>1. snd[s].pc = "reset" /\ Moved(s, "clear") /\ UNCHANGED <<eir, irq>> /\ tx'.air = NULL
    BY <1>0, <1>31, Moves DEF SendReset, Records
  <2>2. /\ GhIs(h) /\ h.old = gh.old
        /\ h.excuse = IF s \in gh.old THEN gh.excuse \cup Hit(s) ELSE gh.excuse
        /\ h.spoilt = IF tx.air = NULL THEN gh.spoilt ELSE gh.spoilt \cup {tx.frame}
    BY <1>0, CutWrites
  <2>3. gh' = Outdates(s, h)
    BY <1>31 DEF SendReset
  <2> HIDE DEF h
  <2>4. /\ gh'.spoilt = h.spoilt /\ others \subseteq gh'.old
        /\ gh'.excuse = h.excuse \cup {snd[t].frame : t \in others}
    BY <2>2, <2>3, OutdatesIs
  <2>5. OnAir => s \in gh.old
    BY <2>1, TxFree
  <2>6. gh'.spoilt \subseteq gh'.excuse
    BY <2>2, <2>4, <2>5 DEF OnAir, TxInv, Hit
  <2>7. ASSUME NEW t \in Senders \ {s}
        PROVE  ~InHand(t)' /\ ~BeforeClear(t)' /\ (Past(t)' => t \in gh'.old)
    BY <2>1, <2>4 DEF InHand, BeforeClear, Past, Moved
  <2>8. ~InHand(s)' /\ ~OnAir'
    BY <2>1 DEF InHand, OnAir, Moved
  <2>9. Alone'
    BY <2>1, <2>7, <2>8 DEF Alone, Past
  <2> QED BY <1>0, <2>1, <2>6, <2>9 DEF TxInv, Reading
<1>32. ASSUME NEW s \in Senders, SendClear(s) PROVE TxInv'
  <2> DEFINE others == {t \in Senders \ {s} : Past(t)}
  <2>1. /\ snd[s].pc = "clear" /\ Moved(s, "length") /\ UNCHANGED <<tx, irq>>
        /\ eir' \cap TxFlags = {}
    BY <1>0, <1>32, Moves DEF SendClear, TxFlags
  <2>2. /\ gh'.spoilt = gh.spoilt /\ gh.old \subseteq gh'.old /\ others \subseteq gh'.old
        /\ Pending => "flags" \in gh'.old
        /\ gh'.excuse = gh.excuse \cup {snd[t].frame : t \in others}
    BY <1>0, <1>32, OutdatesIs DEF SendClear
  <2>3. Quiet'
    BY <2>1, <2>2 DEF Quiet, Pending
  <2>4. ASSUME NEW t \in Senders \ {s}
        PROVE  ~InHand(t)' /\ ~BeforeClear(t)' /\ (Past(t)' => t \in gh'.old)
    BY <2>1, <2>2 DEF InHand, BeforeClear, Past, Moved
  <2>5. InHand(s)' => tx'.air = NULL
    BY <2>1, <2>2 DEF InHand, BeforeClear, Moved, TxInv, Alone
  <2>6. ~BeforeClear(s)' /\ snd'[s].pc = "length"
    BY <2>1 DEF BeforeClear, Moved
  <2>7. ASSUME OnAir'
        PROVE  /\ tx'.air = <<tx'.frame, tx'.frame>> /\ tx'.buf = tx'.frame
               /\ s \in gh'.old
    <3>1. OnAir /\ Past(s)
      BY <2>1, <2>2, <2>7 DEF OnAir, Past
    <3> QED BY <2>1, <2>2, <3>1 DEF TxInv, Alone
  <2>8. Alone'
    BY <2>3, <2>4, <2>5, <2>6, <2>7 DEF Alone
  <2> QED BY <1>0, <2>1, <2>2, <2>8 DEF TxInv, Reading
<1>33. ASSUME NEW s \in Senders, SendLength(s) PROVE TxInv'
  <2>1. /\ snd[s].pc = "length" /\ Moved(s, "copy") /\ UNCHANGED <<eir, irq>>
        /\ tx'.nd = snd[s].frame /\ tx'.air = tx.air /\ tx'.frame = tx.frame
    BY <1>0, <1>33, Moves DEF SendLength, Records
  <2>2. /\ gh'.spoilt = gh.spoilt /\ gh'.old = gh.old
        /\ gh'.excuse = IF s \in gh.old THEN gh.excuse \cup Hit(s) ELSE gh.excuse
    BY <1>0, <1>33, WritesIs DEF SendLength
  <2>3. Quiet' = Quiet /\ \A t \in Senders : Past(t)' = Past(t)
    BY <2>1, <2>2 DEF Quiet, Pending, Past, Moved
  <2>4. ~OnAir' /\ \A t \in Senders \ {s} : ~InHand(t)' /\ ~BeforeClear(t)'
    <3>1. CASE s \in gh.old
      BY <2>1, <2>2, <3>1 DEF OnAir, InHand, BeforeClear, Hit, Prepared, Moved
    <3>2. CASE s \notin gh.old
      <4>1. ~OnAir /\ \A t \in Senders \ {s} : ~InHand(t) /\ ~BeforeClear(t)
        BY <2>1, <3>2, TxFree
      <4> QED BY <2>1, <2>2, <3>2, <4>1 DEF OnAir, InHand, BeforeClear, Moved
    <3> QED BY <3>1, <3>2
  <2>5. ~BeforeClear(s)' /\ (InHand(s)' => InHand(s)) /\ snd'[s].pc = "copy" /\ snd'[s].frame = snd[s].frame
    BY <2>1, <2>2 DEF InHand, BeforeClear, Moved
  <2>6. Alone'
    BY <2>1, <2>2, <2>3, <2>4, <2>5 DEF TxInv, Alone
  <2> QED BY <1>0, <2>1, <2>2, <2>6 DEF TxInv, Reading
<1>34. ASSUME NEW s \in Senders, SendCopy(s) PROVE TxInv'
  <2>1. /\ snd[s].pc = "copy" /\ Moved(s, "start") /\ UNCHANGED <<eir, irq>>
        /\ tx'.buf = snd[s].frame /\ tx'.air = tx.air /\ tx'.frame = tx.frame /\ tx'.nd = tx.nd
    BY <1>0, <1>34, Moves DEF SendCopy, Records
  <2>2. /\ gh'.spoilt = gh.spoilt /\ gh'.old = gh.old
        /\ gh'.excuse = IF s \in gh.old THEN gh.excuse \cup Hit(s) ELSE gh.excuse
    BY <1>0, <1>34, WritesIs DEF SendCopy
  <2>3. Quiet' = Quiet /\ \A t \in Senders : Past(t)' = Past(t)
    BY <2>1, <2>2 DEF Quiet, Pending, Past, Moved
  <2>4. ~OnAir' /\ \A t \in Senders \ {s} : ~InHand(t)' /\ ~BeforeClear(t)'
    <3>1. CASE s \in gh.old
      BY <2>1, <2>2, <3>1 DEF OnAir, InHand, BeforeClear, Hit, Prepared, Moved
    <3>2. CASE s \notin gh.old
      <4>1. ~OnAir /\ \A t \in Senders \ {s} : ~InHand(t) /\ ~BeforeClear(t)
        BY <2>1, <3>2, TxFree
      <4> QED BY <2>1, <2>2, <3>2, <4>1 DEF OnAir, InHand, BeforeClear, Moved
    <3> QED BY <3>1, <3>2
  <2>5. ~BeforeClear(s)' /\ (InHand(s)' => InHand(s)) /\ snd'[s].pc = "start" /\ snd'[s].frame = snd[s].frame
    BY <2>1, <2>2 DEF InHand, BeforeClear, Moved
  <2>6. Alone'
    BY <2>1, <2>2, <2>3, <2>4, <2>5 DEF TxInv, Alone
  <2> QED BY <1>0, <2>1, <2>2, <2>6 DEF TxInv, Reading
<1>35. ASSUME NEW s \in Senders, SendStart(s) PROVE TxInv'
  <2> DEFINE h == Cut(Writes(s, gh))
  <2>1. /\ snd[s].pc = "start" /\ snd'[s].pc = "idle" /\ UNCHANGED <<eir, irq>>
        /\ \A t \in Senders \ {s} : snd'[t] = snd[t]
    BY <1>0, <1>35, Others DEF SendStart, NotSending
  <2>2. /\ tx'.air = <<tx.buf, tx.nd>> /\ tx'.frame = snd[s].frame /\ tx'.buf = tx.buf
    BY <1>35 DEF SendStart, Records
  <2>3. /\ GhIs(h) /\ h.old = gh.old
        /\ h.excuse = IF s \in gh.old THEN gh.excuse \cup Hit(s) ELSE gh.excuse
        /\ h.spoilt = IF tx.air = NULL THEN gh.spoilt ELSE gh.spoilt \cup {tx.frame}
    BY <1>0, CutWrites
  <2>4. gh' = [h EXCEPT !.old = @ \ {s}]
    BY <1>35 DEF SendStart
  <2> HIDE DEF h
  <2>5. gh'.spoilt = h.spoilt /\ gh'.excuse = h.excuse /\ gh'.old = gh.old \ {s}
    BY <2>3, <2>4 DEF GhIs
  <2>6. s \in gh.old \/ (~OnAir /\ \A t \in Senders \ {s} : ~InHand(t) /\ ~BeforeClear(t))
    BY <2>1, TxFree
  <2>7. gh'.spoilt \subseteq gh'.excuse
    BY <2>3, <2>5, <2>6 DEF OnAir, TxInv, Hit
  <2>8. \A t \in Senders \ {s} : ~InHand(t)' /\ ~BeforeClear(t)'
    BY <2>1, <2>3, <2>5, <2>6 DEF InHand, BeforeClear, Hit, Prepared
  <2>9. ~InHand(s)' /\ ~BeforeClear(s)' /\ ~Past(s)'
    BY <2>1 DEF InHand, BeforeClear, Past
  <2>10. OnAir' => InHand(s)
    BY <2>1, <2>2, <2>3, <2>5 DEF OnAir, InHand
  <2>11. ASSUME InHand(s)
         PROVE  /\ tx'.air = <<tx'.frame, tx'.frame>> /\ tx'.buf = tx'.frame /\ Quiet
                /\ \A t \in Senders \ {s} : Past(t) => t \in gh.old
    BY <2>1, <2>2, <2>11 DEF TxInv, Alone
  <2>12. Quiet => Quiet'
    BY <2>1, <2>5 DEF Quiet, Pending, Senders
  <2>13. \A t \in Senders \ {s} : Past(t)' = Past(t)
    BY <2>1 DEF Past
  <2>14. Alone'
    BY <2>5, <2>8, <2>9, <2>10, <2>11, <2>12, <2>13 DEF Alone
  <2> QED BY <1>0, <2>1, <2>7, <2>14 DEF TxInv, Reading
<1>36. CASE UNCHANGED encVars
  <2>1. UNCHANGED <<tx, snd, gh, eir, irq>>
    BY <1>36 DEF encVars
  <2> QED BY <1>0, <2>1, TxSame DEF Pending, Reading
<1>37. "irq" \in Senders /\ "lwip" \in Senders
  BY DEF Senders
<1> QED BY <1>1, <1>2, <1>3, <1>4, <1>5, <1>6, <1>7, <1>8, <1>9, <1>10, <1>11, <1>12,
           <1>13, <1>14, <1>15, <1>16, <1>17, <1>18, <1>19, <1>20, <1>21, <1>22, <1>23, <1>24,
           <1>25, <1>26, <1>27, <1>28, <1>29, <1>30, <1>31, <1>32, <1>33, <1>34, <1>35, <1>36,
           <1>37
        DEF EncNext, IrqTask, Sending

-----------------------------------------------------------------------------
(* How frames come to lie in the ring and leave it. *)

LEMMA LaidEmpty ==
    ASSUME NEW m
    PROVE  \E o : Laid(<<>>, RXSTART_INIT, o, RXSTART_INIT, erxrdpt_workaround(RXSTART_INIT), m)
<1> DEFINE o == [i \in 1..1 |-> 0]
<1>1. RxSize \in Nat \ {0}
  BY Size
<1>2. Len(<<>>) = 0 /\ 0 \in 0..RxSize - 1
  BY <1>1
<1>3. Wrap(0, RxSize) = 0
  BY <1>1, <1>2, WrapOnce
<1>4. erxrdpt_workaround(0) = RxSize - 1
  BY <1>1, Size DEF erxrdpt_workaround, RXSTART_INIT
<1>5. o[1] = 0 /\ o \in [1..1 -> 0..RxSize - 1]
  BY <1>2
<1> HIDE DEF o
<1>6. Laid(<<>>, 0, o, 0, RxSize - 1, m)
  BY <1>1, <1>2, <1>3, <1>5 DEF Laid
<1> QED BY <1>4, <1>6 DEF RXSTART_INIT

(* The room the chip sees is what the frames leave. *)
LEMMA Room ==
    ASSUME NEW M \in Nat \ {0}, NEW n \in 0..M - 1, NEW u \in 0..M - 1, NEW e, NEW len \in Nat,
           e = n \/ (n = 0 /\ e = M - 1 /\ u <= M - 2),
           len <= Wrap(e - Wrap(n + u, M) - 1, M)
    PROVE  u + len <= M - 1 /\ (e = n \/ (n = 0 /\ e = M - 1 /\ u + len <= M - 2))
<1> DEFINE w == Wrap(n + u, M)
           d == e - w - 1
<1>1. w = IF n + u < M THEN n + u ELSE n + u - M
  BY WrapSum
<1> HIDE DEF w
<1>2. CASE e = n
  <2>1. d = (IF n + u < M THEN -u - 1 ELSE M - u - 1)
    BY <1>1, <1>2
  <2>2. d \in -M..-1 \/ d \in 0..M - 1
    BY <2>1
  <2> HIDE DEF d
  <2>3. Wrap(d, M) = M - u - 1
    BY <2>1, <2>2, WrapOnce
  <2> QED BY <1>2, <2>3 DEF d, w
<1>3. CASE n = 0 /\ e = M - 1 /\ u <= M - 2
  <2>1. d = M - 2 - u /\ d \in 0..M - 1
    BY <1>1, <1>3
  <2> HIDE DEF d
  <2>2. Wrap(d, M) = M - 2 - u
    BY <2>1, WrapOnce
  <2> QED BY <1>3, <2>2 DEF d, w
<1> QED BY <1>2, <1>3

LEMMA LaidAppend ==
    ASSUME NEW f \in Seq(Frames), NEW next \in 0..RxSize - 1, NEW o, NEW w \in 0..RxSize - 1,
           NEW e \in 0..RxSize - 1, NEW m, Laid(f, next, o, w, e, m),
           NEW x \in Frames, Fits(next, o[Len(f) + 1], e, x[2])
    PROVE  \E q : Laid(Append(f, x), next, q, Wrap(w + x[2], RxSize), e, Written(m, w, x))
<1> DEFINE n == Len(f)
           id == x[1]
           len == x[2]
           used == o[n + 1]
           g == Append(f, x)
           q == [i \in 1..n + 2 |-> IF i <= n + 1 THEN o[i] ELSE used + len]
           m2 == Written(m, w, x)
<1>1. RxSize \in Nat \ {0} /\ len \in 1..RxSize - 1 /\ n \in Nat
  <2>1. len \in Lengths
    BY DEF Frames
  <2> HIDE DEF len
  <2>2. len \in 1..RxSize - 1 /\ RxSize \in Nat \ {0}
    BY <2>1, Size
  <2> QED BY <2>2
<1>0. \A c \in 0..RxSize - 1 :
        m2[c] = IF Wrap(c - w, RxSize) < len THEN <<id, Wrap(c - w, RxSize)>> ELSE m[c]
  BY DEF Written
<1> HIDE DEF m2
<1>2. used \in 0..RxSize - 1 /\ o \in [1..n + 1 -> 0..RxSize - 1] /\ w = Wrap(next + used, RxSize)
  BY <1>1 DEF Laid
<1>3. used + len <= RxSize - 1 /\ (e = next \/ (next = 0 /\ e = RxSize - 1 /\ used + len <= RxSize - 2))
  BY DEF Fits
<1> HIDE DEF id, len
<1>4. Len(g) = n + 1 /\ g[n + 1] = x /\ \A i \in 1..n : g[i] = f[i]
  BY <1>1
<1>5. /\ q \in [1..n + 2 -> 0..RxSize - 1] /\ q[n + 2] = used + len
      /\ \A i \in 1..n + 1 : q[i] = o[i]
  BY <1>1, <1>2, <1>3
<1>6. \A i \in 1..n : f[i][2] \in 1..RxSize - 1 /\ o[i + 1] = o[i] + f[i][2] /\ o[i + 1] <= used
  <2>1. ASSUME NEW i \in 1..n PROVE f[i][2] \in 1..RxSize - 1
    <3>1. f[i] \in Frames
      OBVIOUS
    <3>2. f[i][2] \in Lengths
      BY <3>1 DEF Frames
    <3> QED BY <3>2, Size
  <2>2. ASSUME NEW i \in 1..n PROVE o[i + 1] = o[i] + f[i][2]
    BY DEF Laid
  <2>3. \A i, j \in 1..n + 1 : i <= j => o[i] <= o[j]
    BY DEF Laid
  <2>4. ASSUME NEW i \in 1..n PROVE o[i + 1] <= used
    <3>1. i + 1 \in 1..n + 1 /\ n + 1 \in 1..n + 1 /\ i + 1 <= n + 1
      BY <1>1
    <3> QED BY <2>3, <3>1
  <2> QED BY <2>1, <2>2, <2>4
<1>7. Wrap(w + len, RxSize) = Wrap(next + (used + len), RxSize)
  <2> DEFINE v == used + len
  <2>1. v \in 0..RxSize - 1 /\ used \in 0..v /\ v - used = len
    BY <1>1, <1>2, <1>3
  <2> HIDE DEF used, v
  <2>2. Wrap(Wrap(next + used, RxSize) + (v - used), RxSize) = Wrap(next + v, RxSize)
    BY <1>1, <2>1, GoOn
  <2> QED BY <1>2, <2>1, <2>2 DEF v
<1>8. ASSUME NEW v \in 0..RxSize - 1
      PROVE  /\ Wrap(next + v, RxSize) \in 0..RxSize - 1
             /\ v >= used => Wrap(Wrap(next + v, RxSize) - w, RxSize) = v - used
             /\ v < used => Wrap(Wrap(next + v, RxSize) - w, RxSize) = v - used + RxSize
  <2>1. Wrap(Wrap(next + v, RxSize) - w, RxSize) = IF v >= used THEN v - used ELSE v - used + RxSize
    <3> HIDE DEF used
    <3> QED BY <1>1, <1>2, Offset
  <2>2. Wrap(next + v, RxSize) \in 0..RxSize - 1
    <3>1. Wrap(next + v, RxSize) = IF next + v < RxSize THEN next + v ELSE next + v - RxSize
      BY <1>1, WrapSum
    <3> QED BY <1>1, <3>1
  <2> HIDE DEF used
  <2>3. used \in 0..RxSize - 1
    BY <1>2
  <2> QED BY <2>1, <2>2, <2>3
<1>9. ASSUME NEW i \in 1..n, NEW k \in 0..f[i][2] - 1
      PROVE  m2[Wrap(next + (o[i] + k), RxSize)] = <<f[i][1], k>>
  <2> DEFINE v == o[i] + k
  <2>1. v \in 0..RxSize - 1 /\ v < used
    <3> DEFINE l == f[i][2]
               b == o[i]
    <3>1. l \in 1..RxSize - 1 /\ b \in 0..RxSize - 1 /\ b + l <= used /\ used \in 0..RxSize - 1
      BY <1>1, <1>2, <1>6
    <3>2. k \in Nat /\ k < l
      BY <3>1
    <3> HIDE DEF l, b, used
    <3>3. b + k \in 0..RxSize - 1 /\ b + k < used
      BY <1>1, <3>1, <3>2
    <3> QED BY <3>3 DEF b
  <2>2. m[Wrap(next + v, RxSize)] = <<f[i][1], k>>
    BY DEF Laid
  <2> DEFINE c == Wrap(next + v, RxSize)
             d == Wrap(c - w, RxSize)
  <2> HIDE DEF used, v
  <2>3. c \in 0..RxSize - 1 /\ d = v - used + RxSize
    BY <1>8, <2>1
  <2> HIDE DEF d
  <2>4. ~(d < len)
    BY <1>1, <1>2, <1>3, <2>1, <2>3
  <2>5. m2[c] = m[c]
    <3> HIDE DEF c
    <3> QED BY <1>0, <2>3, <2>4 DEF d
  <2> QED BY <2>2, <2>5 DEF v
<1>10. ASSUME NEW k \in 0..len - 1
       PROVE  m2[Wrap(next + (used + k), RxSize)] = <<id, k>>
  <2> DEFINE v == used + k
  <2>1. v \in 0..RxSize - 1 /\ v >= used /\ v - used = k
    BY <1>1, <1>2, <1>3
  <2> DEFINE c == Wrap(next + v, RxSize)
             d == Wrap(c - w, RxSize)
  <2> HIDE DEF used, v
  <2>2. c \in 0..RxSize - 1 /\ d = k
    BY <1>8, <2>1
  <2>3. m2[c] = <<id, d>>
    <3>1. d < len
      BY <1>1, <2>2
    <3> HIDE DEF c
    <3> QED BY <1>0, <2>2, <3>1
  <2> QED BY <2>2, <2>3 DEF v
<1> HIDE DEF q, g
<1>11. \A i \in 1..n + 1 : q[i + 1] = q[i] + g[i][2]
  <2>1. ASSUME NEW i \in 1..n PROVE q[i + 1] = q[i] + g[i][2]
    <3>1. i \in 1..n + 1 /\ i + 1 \in 1..n + 1
      BY <1>1
    <3>2. o[i + 1] = o[i] + f[i][2]
      BY <1>6
    <3> QED BY <1>4, <1>5, <3>1, <3>2
  <2>2. q[(n + 1) + 1] = q[n + 1] + g[n + 1][2]
    <3>1. n + 1 \in 1..n + 1 /\ (n + 1) + 1 = n + 2
      BY <1>1
    <3> QED BY <1>4, <1>5, <3>1 DEF len
  <2> QED BY <1>1, <2>1, <2>2
<1>12. \A i, j \in 1..n + 2 : i <= j => q[i] <= q[j]
  <2>1. \A i, j \in 1..n + 1 : i <= j => o[i] <= o[j]
    BY DEF Laid
  <2>2. \A i \in 1..n + 1 : o[i] <= used
    BY <1>1, <2>1
  <2>3. ASSUME NEW i \in 1..n + 2, NEW j \in 1..n + 2, i <= j PROVE q[i] <= q[j]
    <3>1. CASE j <= n + 1
      <4>1. i \in 1..n + 1 /\ j \in 1..n + 1
        BY <1>1, <2>3, <3>1
      <4> QED BY <1>5, <2>1, <2>3, <4>1
    <3>2. CASE j = n + 2 /\ i <= n + 1
      <4>1. i \in 1..n + 1
        BY <1>1, <3>2
      <4>2. o[i] <= used /\ o[i] \in Int /\ used \in Int
        BY <1>2, <2>2, <4>1
      <4>3. q[i] = o[i] /\ q[j] = used + len
        BY <1>5, <3>2, <4>1
      <4> HIDE DEF used
      <4> QED BY <1>1, <4>2, <4>3
    <3>3. CASE j = n + 2 /\ i = n + 2
      BY <1>1, <1>2, <1>5, <3>3
    <3> QED BY <1>1, <2>3, <3>1, <3>2, <3>3
  <2> QED BY <2>3
<1>13. \A i \in 1..n + 1 : \A k \in 0..g[i][2] - 1 :
          m2[Wrap(next + (q[i] + k), RxSize)] = <<g[i][1], k>>
  <2>1. ASSUME NEW i \in 1..n, NEW k \in 0..g[i][2] - 1
        PROVE  m2[Wrap(next + (q[i] + k), RxSize)] = <<g[i][1], k>>
    <3>1. q[i] = o[i] /\ g[i] = f[i]
      BY <1>1, <1>4, <1>5
    <3> QED BY <1>9, <3>1
  <2>2. ASSUME NEW k \in 0..g[n + 1][2] - 1
        PROVE  m2[Wrap(next + (q[n + 1] + k), RxSize)] = <<g[n + 1][1], k>>
    <3>1. n + 1 \in 1..n + 1 /\ g[n + 1] = x
      BY <1>1, <1>4
    <3>3. q[n + 1] = used
      BY <1>5, <3>1
    <3>2. g[n + 1][2] = len /\ g[n + 1][1] = id
      BY <3>1 DEF id, len
    <3> QED BY <1>10, <3>1, <3>2, <3>3
  <2>3. ASSUME NEW i \in 1..n + 1, NEW k \in 0..g[i][2] - 1
        PROVE  m2[Wrap(next + (q[i] + k), RxSize)] = <<g[i][1], k>>
    <3>1. CASE i \in 1..n
      BY <2>1, <3>1
    <3>2. CASE i = n + 1
      BY <2>2, <3>2
    <3> QED BY <1>1, <3>1, <3>2
  <2> QED BY <2>3
<1>14. Laid(g, next, q, Wrap(w + len, RxSize), e, m2)
  <2>1. Len(g) + 1 = n + 2 /\ q[1] = 0 /\ q[Len(g) + 1] = used + len
    BY <1>1, <1>4, <1>5 DEF Laid
  <2> HIDE DEF used
  <2> QED BY <1>3, <1>4, <1>5, <1>7, <1>11, <1>12, <1>13, <2>1 DEF Laid
<1> QED BY <1>14 DEF g, m2, len

LEMMA LaidArrive ==
    ASSUME NEW f \in Seq(Frames), NEW next \in 0..RxSize - 1, NEW o, NEW w \in 0..RxSize - 1,
           NEW e \in 0..RxSize - 1, NEW m, Laid(f, next, o, w, e, m),
           NEW x \in Frames, x[2] <= Wrap(e - w - 1, RxSize)
    PROVE  \E q : Laid(Append(f, x), next, q, Wrap(w + x[2], RxSize), e, Written(m, w, x))
<1> DEFINE len == x[2]
           u == o[Len(f) + 1]
<1>1. RxSize \in Nat \ {0} /\ len \in Nat /\ Len(f) \in Nat
  <2>1. len \in Lengths
    BY DEF Frames
  <2> HIDE DEF len
  <2>2. len \in Nat /\ RxSize \in Nat \ {0}
    BY <2>1, Size
  <2> QED BY <2>2
<1>2. /\ u \in 0..RxSize - 1 /\ w = Wrap(next + u, RxSize)
      /\ e = next \/ (next = 0 /\ e = RxSize - 1 /\ u <= RxSize - 2)
  BY <1>1 DEF Laid
<1> HIDE DEF u, len
<1>3. len <= Wrap(e - Wrap(next + u, RxSize) - 1, RxSize)
  BY <1>2 DEF len
<1>4. /\ u + len <= RxSize - 1
      /\ e = next \/ (next = 0 /\ e = RxSize - 1 /\ u + len <= RxSize - 2)
  BY <1>1, <1>2, <1>3, Room
<1>5. Fits(next, o[Len(f) + 1], e, x[2])
  BY <1>4 DEF Fits, u, len
<1> QED BY <1>5, LaidAppend

LEMMA LaidTail ==
    ASSUME NEW f \in Seq(Frames), f # <<>>, NEW next \in 0..RxSize - 1, NEW o, NEW w, NEW e, NEW m,
           Laid(f, next, o, w, e, m)
    PROVE  \E q : Laid(Tail(f), Wrap(next + f[1][2], RxSize), q, w, Wrap(next + f[1][2], RxSize), m)
<1> DEFINE n == Len(f)
           l == f[1][2]
           on == Wrap(next + l, RxSize)
           g == Tail(f)
           q == [i \in 1..n |-> o[i + 1] - l]
<1>1. RxSize \in Nat \ {0} /\ n \in Nat \ {0} /\ 1 \in 1..n
  BY Size
<1>2. /\ o \in [1..n + 1 -> 0..RxSize - 1] /\ o[1] = 0
      /\ \A i \in 1..n : o[i + 1] = o[i] + f[i][2]
      /\ \A i, j \in 1..n + 1 : i <= j => o[i] <= o[j]
  BY DEF Laid
<1>3. /\ w = Wrap(next + o[n + 1], RxSize)
      /\ \A i \in 1..n : \A k \in 0..f[i][2] - 1 : m[Wrap(next + (o[i] + k), RxSize)] = <<f[i][1], k>>
  BY DEF Laid
<1>4. /\ Len(g) = n - 1
      /\ \A i \in 1..n - 1 : g[i] = f[i + 1] /\ i + 1 \in 1..n
  BY <1>1
<1>5. \A i \in 1..n : f[i][2] \in 1..RxSize - 1
  <2>1. ASSUME NEW i \in 1..n PROVE f[i][2] \in 1..RxSize - 1
    <3>1. f[i] \in Frames
      OBVIOUS
    <3>2. f[i][2] \in Lengths
      BY <3>1 DEF Frames
    <3> QED BY <3>2, Size
  <2> QED BY <2>1
<1>6. l \in 1..RxSize - 1 /\ o[2] = l
  <2>1. o[1 + 1] = o[1] + f[1][2] /\ f[1][2] \in 1..RxSize - 1
    BY <1>1, <1>2, <1>5
  <2> QED BY <1>2, <2>1
<1>7. \A i \in 1..n : o[i + 1] \in l..RxSize - 1
  <2>1. ASSUME NEW i \in 1..n PROVE o[i + 1] \in l..RxSize - 1
    <3>1. 2 \in 1..n + 1 /\ i + 1 \in 1..n + 1 /\ 2 <= i + 1
      BY <1>1
    <3>2. o[2] <= o[i + 1] /\ o[i + 1] \in 0..RxSize - 1
      BY <1>2, <3>1
    <3> QED BY <1>6, <3>2
  <2> QED BY <2>1
<1>8. /\ \A i \in 1..n : q[i] = o[i + 1] - l
      /\ q \in [1..n -> 0..RxSize - 1]
  <2>1. ASSUME NEW i \in 1..n PROVE o[i + 1] - l \in 0..RxSize - 1
    <3> DEFINE b == o[i + 1]
    <3>1. b \in l..RxSize - 1
      BY <1>7
    <3> HIDE DEF b, l
    <3>2. b - l \in 0..RxSize - 1
      BY <1>1, <1>6, <3>1
    <3> QED BY <3>2 DEF b
  <2> QED BY <2>1
<1>9. on \in 0..RxSize - 1
  <2> HIDE DEF l
  <2>1. Wrap(next + l, RxSize) = IF next + l < RxSize THEN next + l ELSE next + l - RxSize
    BY <1>1, <1>6, WrapSum
  <2> QED BY <1>1, <1>6, <2>1
<1>10. ASSUME NEW v \in l..RxSize - 1
       PROVE  Wrap(on + (v - l), RxSize) = Wrap(next + v, RxSize)
  <2> HIDE DEF l
  <2>1. v \in 0..RxSize - 1 /\ l \in 0..v
    BY <1>1, <1>6
  <2> QED BY <1>1, <2>1, GoOn
<1> HIDE DEF q, g, on
<1>11. q[1] = 0
  BY <1>1, <1>6, <1>8
<1>12. \A i \in 1..n - 1 : q[i + 1] = q[i] + g[i][2]
  <2>1. ASSUME NEW i \in 1..n - 1 PROVE q[i + 1] = q[i] + g[i][2]
    <3>1. i \in 1..n /\ i + 1 \in 1..n /\ g[i] = f[i + 1]
      BY <1>1, <1>4
    <3>2. q[i + 1] = o[(i + 1) + 1] - l /\ q[i] = o[i + 1] - l
      BY <1>8, <3>1
    <3>3. o[(i + 1) + 1] = o[i + 1] + f[i + 1][2]
      BY <1>2, <3>1
    <3>4. o[i + 1] \in Int /\ f[i + 1][2] \in Int
      BY <1>5, <1>7, <3>1
    <3> HIDE DEF l
    <3> QED BY <1>6, <3>1, <3>2, <3>3, <3>4
  <2> QED BY <2>1
<1>13. \A i, j \in 1..n : i <= j => q[i] <= q[j]
  <2>1. ASSUME NEW i \in 1..n, NEW j \in 1..n, i <= j PROVE q[i] <= q[j]
    <3>1. i + 1 \in 1..n + 1 /\ j + 1 \in 1..n + 1 /\ i + 1 <= j + 1
      BY <1>1, <2>1
    <3>2. o[i + 1] <= o[j + 1]
      <4>1. \A d, y \in 1..n + 1 : d <= y => o[d] <= o[y]
        BY <1>2
      <4> QED BY <3>1, <4>1
    <3>3. o[i + 1] \in Int /\ o[j + 1] \in Int
      BY <1>7
    <3>4. q[i] = o[i + 1] - l /\ q[j] = o[j + 1] - l
      BY <1>8
    <3> HIDE DEF l
    <3> QED BY <1>6, <3>2, <3>3, <3>4
  <2> QED BY <2>1
<1>14. w = Wrap(on + q[n], RxSize)
  <2>1. o[n + 1] \in l..RxSize - 1 /\ q[n] = o[n + 1] - l
    BY <1>1, <1>7, <1>8
  <2> QED BY <1>3, <1>10, <2>1
<1>15. ASSUME NEW i \in 1..n - 1, NEW k \in 0..g[i][2] - 1
       PROVE  m[Wrap(on + (q[i] + k), RxSize)] = <<g[i][1], k>>
  <2> DEFINE b == o[i + 1]
             h == f[i + 1][2]
  <2>1. i \in 1..n /\ i + 1 \in 1..n /\ g[i] = f[i + 1]
    BY <1>1, <1>4
  <2>2. b \in l..RxSize - 1 /\ h \in 1..RxSize - 1 /\ q[i] = b - l /\ k \in 0..h - 1
    BY <1>5, <1>7, <1>8, <2>1
  <2>3. b + h <= RxSize - 1
    <3>1. o[(i + 1) + 1] = o[i + 1] + f[i + 1][2] /\ o[(i + 1) + 1] \in l..RxSize - 1
      BY <1>2, <1>7, <2>1
    <3> QED BY <3>1
  <2>4. m[Wrap(next + (b + k), RxSize)] = <<f[i + 1][1], k>>
    BY <1>3, <2>1
  <2> DEFINE v == b + k
  <2> HIDE DEF b, h, l
  <2>5. v \in l..RxSize - 1 /\ q[i] + k = v - l
    BY <1>1, <1>6, <2>2, <2>3
  <2> HIDE DEF v
  <2>6. Wrap(on + (v - l), RxSize) = Wrap(next + v, RxSize)
    BY <1>10, <2>5
  <2> QED BY <2>1, <2>4, <2>5, <2>6 DEF v
<1>16. Len(g) + 1 = n
  BY <1>1, <1>4
<1> HIDE DEF n
<1>17. Laid(g, on, q, w, on, m)
  BY <1>4, <1>8, <1>11, <1>12, <1>13, <1>14, <1>15, <1>16 DEF Laid
<1> QED BY <1>17 DEF g, on

-----------------------------------------------------------------------------
(* The frames that are not released. *)
LEMMA StoredIs ==
    ASSUME NEW f \in Seq(Frames)
    PROVE  /\ SubSeq(f, 1 + 0, Len(f)) = f
           /\ f # <<>> => SubSeq(f, 1 + 1, Len(f)) = Tail(f) /\ Tail(f) \in Seq(Frames)
<1>1. SubSeq(f, 1, Len(f)) = f
  OBVIOUS
<1>2. ASSUME f # <<>> PROVE SubSeq(f, 2, Len(f)) = Tail(f) /\ Tail(f) \in Seq(Frames)
  <2>1. Len(f) \in Nat \ {0} /\ Tail(f) \in Seq(Frames) /\ Len(Tail(f)) = Len(f) - 1
    BY <1>2
  <2>2. \A i \in 1..Len(f) - 1 : Tail(f)[i] = f[i + 1]
    BY <1>2, <2>1
  <2>3. SubSeq(f, 2, Len(f)) \in Seq(Frames) /\ Len(SubSeq(f, 2, Len(f))) = Len(f) - 1
    BY <2>1
  <2>4. \A i \in 1..Len(f) - 1 : SubSeq(f, 2, Len(f))[i] = f[i + 1]
    BY <2>1
  <2> QED BY <2>1, <2>2, <2>3, <2>4
<1> QED BY <1>1, <1>2

(* A step that leaves the receive buffer alone and the walk through it     *)
(* between two frames, or as it was.                                       *)
LEMMA RxSame ==
    ASSUME RxInv, UNCHANGED <<mem, fifo, wrpt, erxrdpt>>, drv'.next = drv.next,
           gh.came \in Nat => gh'.came \in Nat /\ gh'.came >= gh.came, gh'.good = gh.good, gh'.got = gh.got, gh'.dropped = gh.dropped,
           gh'.glitches = gh.glitches,
           \/ irq' = irq
           \/ /\ irq.pc \notin {"read", "dec"}
              /\ irq'.pc \notin {"packet", "alloc", "read", "dec", "input", "inside"}
              /\ irq'.left = irq.left
           \/ /\ irq.pc \notin {"read", "dec"} /\ irq'.pc \in {"packet", "input", "inside"}
              /\ fifo \in Seq(Frames) => irq'.left \in 0..Len(fifo)
    PROVE  RxInv'
<1> SUFFICES ASSUME gh'.glitches = 0 PROVE (RxTypes /\ Layout /\ Place /\ Numbers /\ NothingLost)'
  BY DEF RxInv
<1>1. gh.glitches = 0 /\ RxTypes /\ Layout /\ Place /\ Numbers /\ NothingLost
  BY DEF RxInv
<1>2. RxTypes'
  BY <1>1 DEF RxTypes, Cells
<1>3. Layout'
  <2>1. Released' = Released
    BY DEF Released
  <2> QED BY <1>1, <2>1 DEF Layout, Stored
<1>4. Place'
  <2>1. CASE irq' = irq
    BY <1>1, <2>1 DEF Place
  <2>2. CASE irq'.pc \notin {"packet", "alloc", "read", "dec", "input", "inside"}
    BY <2>2 DEF Place
  <2>3. CASE irq'.pc \in {"packet", "input", "inside"} /\ irq'.left \in 0..Len(fifo)
    BY <1>1, <2>3 DEF Place, RxTypes
  <2> QED BY <1>1, <2>1, <2>2, <2>3 DEF RxTypes
<1>5. irq'.pc = "dec" <=> irq.pc = "dec"
  OBVIOUS
<1>6. Numbers'
  <2>1. \A d \in 1..gh.came : d \in 1..gh'.came
    BY <1>1 DEF RxTypes
  <2> DEFINE U == 1..gh.came
             V == 1..gh'.came
  <2> HIDE DEF U, V
  <2>2. \A d \in U : d \in V
    BY <2>1 DEF U, V
  <2>3. gh'.good \subseteq V /\ gh'.dropped \subseteq V
    BY <1>1, <2>2 DEF Numbers, U
  <2>4. /\ \A i \in 1..Len(fifo') : fifo'[i][1] \in V /\ (fifo'[i][3] <=> fifo'[i][1] \in gh'.good)
        /\ \A j \in 1..Len(gh'.got) : gh'.got[j] \in V
    BY <1>1, <2>2 DEF Numbers, U
  <2> QED BY <1>1, <1>5, <2>3, <2>4 DEF Numbers, V
<1>7. NothingLost'
  <2> DEFINE Still(h) == \A i \in DOMAIN fifo : fifo[i][1] = h => i = 1 /\ irq.pc = "dec"
  <2>1. /\ \A i \in 2..Len(gh.got) : gh.got[i - 1] < gh.got[i]
        /\ {gh.got[i] : i \in DOMAIN gh.got} = {h \in gh.good : h \notin gh.dropped /\ Still(h)}
    BY <1>1 DEF NothingLost
  <2>2. \A h : (\A i \in DOMAIN fifo' : fifo'[i][1] = h => i = 1 /\ irq'.pc = "dec") <=> Still(h)
    BY <1>5
  <2> HIDE DEF Still
  <2>3. {h \in gh.good : h \notin gh.dropped /\ Still(h)} =
        {h \in gh'.good : h \notin gh'.dropped /\
           \A i \in DOMAIN fifo' : fifo'[i][1] = h => i = 1 /\ irq'.pc = "dec"}
    BY <2>2
  <2>4. {gh'.got[i] : i \in DOMAIN gh'.got} = {gh.got[i] : i \in DOMAIN gh.got}
    BY Zenon
  <2>5. \A i \in 2..Len(gh'.got) : gh'.got[i - 1] < gh'.got[i]
    BY <2>1
  <2> QED BY <2>1, <2>3, <2>4, <2>5, Zenon DEF NothingLost
<1> QED BY <1>2, <1>3, <1>4, <1>6, <1>7

(* A frame arrives: it is laid behind the others, or it finds no room. *)
LEMMA RxArrive ==
    ASSUME Records, RxInv, Arrive
    PROVE  RxInv'
<1> SUFFICES ASSUME gh'.glitches = 0 PROVE (RxTypes /\ Layout /\ Place /\ Numbers /\ NothingLost)'
  BY DEF RxInv
<1>1. PICK len \in Lengths, ok \in BOOLEAN :
        /\ gh' = [gh EXCEPT !.came = @ + 1,
                  !.good = IF ok /\ len <= FreeCells THEN @ \cup {gh.came + 1} ELSE @]
        /\ IF len <= FreeCells
           THEN /\ mem' = [c \in Cells |-> LET i == (c - wrpt) % RxSize
                                           IN  IF i < len THEN <<gh.came + 1, i>> ELSE mem[c]]
                /\ fifo' = Append(fifo, <<gh.came + 1, len, ok>>)
                /\ wrpt' = (wrpt + len) % RxSize
           ELSE UNCHANGED <<mem, fifo, wrpt>>
  BY DEF Arrive
<1>2. UNCHANGED <<erxrdpt, irq, drv>>
  BY DEF Arrive
<1> HIDE DEF Arrive
<1>3. /\ gh'.came = gh.came + 1 /\ gh'.got = gh.got /\ gh'.dropped = gh.dropped
      /\ gh'.glitches = gh.glitches
      /\ gh'.good = IF ok /\ len <= FreeCells THEN gh.good \cup {gh.came + 1} ELSE gh.good
  BY <1>1 DEF Records, GhIs
<1>4. gh.glitches = 0 /\ RxTypes /\ Layout /\ Place /\ Numbers /\ NothingLost
  BY <1>3 DEF RxInv
<1>5. gh.came \in Nat /\ fifo \in Seq(Frames) /\ Len(fifo) \in Nat
  BY <1>4 DEF RxTypes
<1>6. CASE ~(len <= FreeCells)
  <2>1. UNCHANGED <<mem, fifo, wrpt>> /\ gh'.good = gh.good
    BY <1>1, <1>3, <1>6
  <2> QED BY <1>2, <1>3, <1>4, <1>5, <2>1, RxSame DEF RxInv
<1>7. CASE len <= FreeCells
  <2> DEFINE id == gh.came + 1
             n == Len(fifo)
             x == <<id, len, ok>>
  <2>1. /\ mem' = Written(mem, wrpt, x)
        /\ fifo' = Append(fifo, x)
        /\ wrpt' = Wrap(wrpt + len, RxSize)
        /\ gh'.good = IF ok THEN gh.good \cup {id} ELSE gh.good
    BY <1>1, <1>3, <1>7, Size DEF Written, Wrap
  <2>2. x \in Frames /\ x[1] = id /\ x[2] = len /\ x[3] = ok /\ id \in Nat
    BY <1>5 DEF Frames
  <2>3. x[2] <= Wrap(erxrdpt - wrpt - 1, RxSize)
    BY <1>7 DEF FreeCells, Wrap
  <2> HIDE DEF x
  <2>4. /\ fifo' \in Seq(Frames) /\ Len(fifo') = n + 1 /\ fifo'[n + 1] = x
        /\ \A i \in 1..n : fifo'[i] = fifo[i]
    BY <1>5, <2>1, <2>2
  <2>5. RxTypes'
    <3>1. RxSize \in Nat \ {0} /\ wrpt \in Int /\ len \in Int
      BY <1>4, Size DEF RxTypes
    <3>2. wrpt' \in Cells
      <4>1. wrpt + len \in Int
        BY <3>1
      <4>2. (wrpt + len) % RxSize \in 0..RxSize - 1
        BY <3>1, <4>1
      <4> QED BY <2>1, <4>2, Size DEF Wrap
    <3>3. ASSUME NEW c \in Cells PROVE Wrap(c - wrpt, RxSize) \in Nat
      <4>1. c - wrpt \in Int
        BY <3>1, Size
      <4> QED BY <3>1, <4>1 DEF Wrap
    <3>4. ASSUME NEW c \in Cells
          PROVE  (IF Wrap(c - wrpt, RxSize) < x[2] THEN <<x[1], Wrap(c - wrpt, RxSize)>> ELSE mem[c])
                    \in Nat \X Nat
      BY <1>4, <2>2, <3>3 DEF RxTypes
    <3>5. mem' \in [Cells -> Nat \X Nat]
      BY <2>1, <3>4, Size DEF Written
    <3>6. gh'.came \in Nat
      BY <1>3, <1>5
    <3> QED BY <1>2, <1>3, <1>4, <2>4, <3>2, <3>5, <3>6 DEF RxTypes, Cells
  <2>6. Place'
    <3>1. CASE irq.pc \in {"alloc", "read", "dec"}
      <4>1. irq.left \in Nat /\ irq.left >= 1 /\ irq.left <= n
        BY <1>4, <3>1 DEF Place, RxTypes
      <4>2. fifo'[1] = fifo[1] /\ irq.left <= Len(fifo')
        BY <1>5, <2>4, <4>1
      <4> QED BY <1>2, <1>4, <3>1, <4>1, <4>2 DEF Place
    <3>2. CASE irq.pc \notin {"alloc", "read", "dec"}
      <4>1. irq.pc \in {"packet", "input", "inside"} => irq.left <= Len(fifo')
        BY <1>4, <1>5, <2>4 DEF Place, RxTypes
      <4> QED BY <1>2, <3>2, <4>1 DEF Place
    <3> QED BY <3>1, <3>2
  <2>7. Layout'
    <3>1. PICK o : Laid(Stored, drv.next, o, wrpt, erxrdpt, mem)
      BY <1>4 DEF Layout
    <3>2. /\ Stored \in Seq(Frames)
          /\ Stored' = Append(Stored, x)
      <4>1. CASE Released = 0
        <5>1. Stored = fifo
          BY <1>5, <4>1, StoredIs DEF Stored
        <5>2. Released' = 0
          BY <1>2, <4>1 DEF Released
        <5>3. Stored' = fifo'
          BY <2>4, <5>2, StoredIs DEF Stored
        <5> QED BY <1>5, <2>1, <5>1, <5>3
      <4>2. CASE Released = 1
        <5>1. fifo # <<>>
          BY <1>4, <1>5, <4>2 DEF Place, Released, RxTypes
        <5>2. Stored = Tail(fifo) /\ Tail(fifo) \in Seq(Frames)
          BY <1>5, <4>2, <5>1, StoredIs DEF Stored
        <5>3. fifo' # <<>> /\ Released' = 1
          BY <1>2, <1>5, <2>4, <4>2 DEF Released
        <5>4. Stored' = Tail(fifo')
          BY <2>4, <5>3, StoredIs DEF Stored
        <5>5. Tail(Append(fifo, x)) = Append(Tail(fifo), x)
          BY <1>5, <2>2, <5>1
        <5> QED BY <2>1, <5>2, <5>4, <5>5
      <4> QED BY <4>1, <4>2 DEF Released
    <3>3. drv.next \in 0..RxSize - 1 /\ wrpt \in 0..RxSize - 1 /\ erxrdpt \in 0..RxSize - 1
      BY <1>4, Size DEF RxTypes
    <3>4. \E q : Laid(Append(Stored, x), drv.next, q, Wrap(wrpt + x[2], RxSize), erxrdpt,
                     Written(mem, wrpt, x))
      BY <2>2, <2>3, <3>1, <3>2, <3>3, LaidArrive
    <3> QED BY <1>2, <2>1, <2>2, <3>2, <3>4 DEF Layout
  <2>8. Numbers'
    <3>1. gh'.good \subseteq 1..gh'.came /\ gh'.dropped \subseteq 1..gh'.came
      BY <1>3, <1>4, <1>5, <2>1 DEF Numbers
    <3>2. ASSUME NEW i \in 1..n + 1
          PROVE  fifo'[i][1] \in 1..gh'.came /\ (fifo'[i][3] <=> fifo'[i][1] \in gh'.good)
      <4>1. CASE i \in 1..n
        BY <1>3, <1>4, <1>5, <2>1, <2>4, <4>1 DEF Numbers
      <4>2. CASE i = n + 1
        BY <1>3, <1>4, <1>5, <2>1, <2>2, <2>4, <4>2 DEF Numbers
      <4> QED BY <1>5, <4>1, <4>2
    <3>3. ASSUME NEW i \in 1..n + 1, NEW j \in 1..n + 1, i < j PROVE fifo'[i][1] < fifo'[j][1]
      <4>1. CASE j \in 1..n
        BY <1>4, <1>5, <2>4, <3>3, <4>1 DEF Numbers
      <4>2. CASE j = n + 1
        <5>1. i \in 1..n
          BY <1>5, <3>3, <4>2
        <5> QED BY <1>4, <1>5, <2>2, <2>4, <4>2, <5>1 DEF Numbers
      <4> QED BY <1>5, <4>1, <4>2
    <3>4. ASSUME NEW i \in 1..n + 1, NEW d \in gh'.dropped PROVE d < fifo'[i][1]
      <4>1. CASE i \in 1..n
        BY <1>3, <1>4, <2>4, <4>1 DEF Numbers
      <4>2. CASE i = n + 1
        BY <1>3, <1>4, <1>5, <2>2, <2>4, <4>2 DEF Numbers
      <4> QED BY <1>5, <4>1, <4>2
    <3>5. \A j \in 1..Len(gh'.got) : gh'.got[j] \in 1..gh'.came
      BY <1>3, <1>4, <1>5 DEF Numbers
    <3>6. ASSUME NEW i \in 1..n + 1, NEW j \in 1..Len(gh'.got)
          PROVE  \/ gh'.got[j] < fifo'[i][1]
                 \/ i = 1 /\ irq'.pc = "dec" /\ gh'.got[j] = fifo'[i][1]
      <4>1. CASE i \in 1..n
        BY <1>2, <1>3, <1>4, <2>4, <4>1 DEF Numbers
      <4>2. CASE i = n + 1
        <5>1. gh'.got[j] = gh.got[j] /\ gh.got[j] \in 1..gh.came
          BY <1>3, <1>4 DEF Numbers
        <5>2. gh'.got[j] < gh.came + 1
          BY <1>5, <5>1
        <5> QED BY <2>2, <2>4, <4>2, <5>2
      <4> QED BY <1>5, <4>1, <4>2
    <3> QED BY <2>4, <3>1, <3>2, <3>3, <3>4, <3>5, <3>6 DEF Numbers
  <2>9. NothingLost'
    <3> DEFINE Waiting(h) == \A i \in 1..n : fifo[i][1] = h => i = 1 /\ irq.pc = "dec"
    <3>1. DOMAIN fifo = 1..n /\ DOMAIN fifo' = 1..n + 1
      BY <1>5, <2>4
    <3>2. \A h : (\A i \in 1..n + 1 : fifo'[i][1] = h => i = 1 /\ irq'.pc = "dec")
              <=> Waiting(h) /\ (h = id => n + 1 = 1 /\ irq.pc = "dec")
      BY <1>2, <1>5, <2>2, <2>4
    <3>3. ~(n + 1 = 1 /\ irq.pc = "dec")
      BY <1>4, <1>5 DEF Place, RxTypes
    <3> HIDE DEF Waiting, id
    <3>4. \A h : (\A i \in 1..n + 1 : fifo'[i][1] = h => i = 1 /\ irq'.pc = "dec")
              <=> Waiting(h) /\ h # id
      BY <3>2, <3>3
    <3>5. gh.good \subseteq gh'.good /\ gh'.good \subseteq gh.good \cup {id} /\ id \notin gh.good
      BY <1>4, <1>5, <2>1 DEF Numbers, id
    <3>6. {gh.got[i] : i \in DOMAIN gh.got} = {h \in gh.good : h \notin gh.dropped /\ Waiting(h)}
      BY <1>4, <3>1 DEF NothingLost, Waiting
    <3>7. {h \in gh.good : h \notin gh.dropped /\ Waiting(h)} =
          {h \in gh'.good : h \notin gh'.dropped /\
             (\A i \in 1..n + 1 : fifo'[i][1] = h => i = 1 /\ irq'.pc = "dec")}
      BY <1>3, <3>4, <3>5
    <3>8. \A i \in 2..Len(gh.got) : gh.got[i - 1] < gh.got[i]
      BY <1>4 DEF NothingLost
    <3> QED BY <1>3, <3>1, <3>6, <3>7, <3>8 DEF NothingLost
  <2> QED BY <2>5, <2>6, <2>7, <2>8, <2>9
<1> QED BY <1>6, <1>7

(* A receive reset: the walk starts again where the chip does. *)
LEMMA RxReset ==
    ASSUME Records, RxInv, IrqRxError
    PROVE  RxInv'
<1> SUFFICES ASSUME gh'.glitches = 0 PROVE (RxTypes /\ Layout /\ Place /\ Numbers /\ NothingLost)'
  BY DEF RxInv
<1>1. /\ irq.pc = "rxer" /\ irq'.pc = "count" /\ irq'.left = irq.left
      /\ fifo' = <<>> /\ wrpt' = RXSTART_INIT /\ erxrdpt' = erxrdpt_workaround(RXSTART_INIT)
      /\ drv'.next = RXSTART_INIT /\ mem' = mem
      /\ gh' = [gh EXCEPT !.dropped = @ \cup {fifo[i][1] : i \in DOMAIN fifo}]
  BY DEF IrqRxError, IrqLooping, reset_rx_logic, Dropping, Records
<1>2. /\ gh'.came = gh.came /\ gh'.good = gh.good /\ gh'.got = gh.got
      /\ gh'.dropped = gh.dropped \cup {fifo[i][1] : i \in DOMAIN fifo}
      /\ gh'.glitches = gh.glitches
  BY <1>1 DEF Records, GhIs
<1>3. gh.glitches = 0 /\ RxTypes /\ Layout /\ Place /\ Numbers /\ NothingLost
  BY <1>2 DEF RxInv
<1>4. RxSize \in Nat \ {0} /\ {RXSTART_INIT, erxrdpt_workaround(RXSTART_INIT)} \subseteq Cells
  BY Size DEF RXSTART_INIT, erxrdpt_workaround
<1>5. RxTypes'
  BY <1>1, <1>2, <1>3, <1>4 DEF RxTypes, Cells
<1>6. Layout'
  <2>1. Stored' = <<>>
    BY <1>1, StoredIs DEF Stored, Released
  <2> QED BY <1>1, <2>1, LaidEmpty DEF Layout
<1>7. Place'
  BY <1>1 DEF Place
<1>8. Numbers'
  <2>1. \A i \in DOMAIN fifo : fifo[i][1] \in 1..gh.came
    BY <1>3 DEF Numbers, RxTypes
  <2>2. gh'.dropped \subseteq 1..gh'.came
    BY <1>2, <1>3, <2>1 DEF Numbers
  <2>3. Len(fifo') = 0
    BY <1>1
  <2> QED BY <1>2, <1>3, <2>2, <2>3 DEF Numbers
<1>9. NothingLost'
  <2>1. DOMAIN fifo' = {}
    BY <1>1
  <2>2. {gh.got[i] : i \in DOMAIN gh.got} =
        {id \in gh.good : /\ id \notin gh.dropped
                         /\ \A i \in DOMAIN fifo : fifo[i][1] = id => i = 1 /\ irq.pc = "dec"}
    BY <1>3 DEF NothingLost
  <2>3. {gh.got[i] : i \in DOMAIN gh.got} = {id \in gh.good : id \notin gh'.dropped}
    BY <1>1, <1>2, <2>2
  <2>4. \A i \in 2..Len(gh.got) : gh.got[i - 1] < gh.got[i]
    BY <1>3 DEF NothingLost
  <2> QED BY <1>2, <2>1, <2>3, <2>4 DEF NothingLost
<1> QED BY <1>5, <1>6, <1>7, <1>8, <1>9

(* The header at next_packet_pointer is that of the oldest frame. *)
LEMMA RxHeader ==
    ASSUME Records, RxInv, get_incoming_packet_info
    PROVE  RxInv'
<1> SUFFICES ASSUME gh'.glitches = 0 PROVE (RxTypes /\ Layout /\ Place /\ Numbers /\ NothingLost)'
  BY DEF RxInv
<1>1. UNCHANGED <<mem, fifo, wrpt, erxrdpt, drv>> /\ irq.pc = "packet" /\ irq.left > 0
  BY DEF get_incoming_packet_info, chip
<1>2. gh' = gh /\ \E h \in Header(drv.next) : irq' = [irq EXCEPT !.pc = "alloc", !.info = h]
  <2>1. gh' # [gh EXCEPT !.glitches = @ + 1]
    BY DEF Records, GhIs
  <2> QED BY <2>1 DEF get_incoming_packet_info
<1>3. PICK h \in Header(drv.next) : irq' = [irq EXCEPT !.pc = "alloc", !.info = h]
  BY <1>2
<1>4. RxTypes /\ Layout /\ Place /\ Numbers /\ NothingLost
  BY <1>2 DEF RxInv
<1>5. irq'.pc = "alloc" /\ irq'.left = irq.left /\ irq'.info = h
  BY <1>3 DEF Records
<1>6. fifo \in Seq(Frames) /\ Len(fifo) \in Nat /\ 1 \in 1..Len(fifo) /\ irq.left <= Len(fifo) /\ irq.left \in Nat
  BY <1>1, <1>4 DEF RxTypes, Place
<1>7. Stored = fifo /\ Released' = Released
  BY <1>1, <1>5, <1>6, StoredIs DEF Stored, Released
<1>8. mem[drv.next] = <<fifo[1][1], 0>>
  <2>1. PICK o : Laid(fifo, drv.next, o, wrpt, erxrdpt, mem)
    BY <1>4, <1>7 DEF Layout
  <2>2. fifo[1][2] \in Lengths
    BY <1>6 DEF Frames
  <2>3. 0 \in 0..fifo[1][2] - 1
    BY <2>2, Short
  <2>4. mem[Wrap(drv.next + (o[1] + 0), RxSize)] = <<fifo[1][1], 0>> /\ o[1] = 0
    BY <1>6, <2>1, <2>3 DEF Laid
  <2>5. drv.next \in 0..RxSize - 1 /\ RxSize \in Nat \ {0}
    BY <1>4, Size DEF RxTypes
  <2>6. Wrap(drv.next + 0, RxSize) = drv.next
    BY <2>5, WrapOnce
  <2> QED BY <2>4, <2>6
<1>9. /\ fifo[1][1] # 0
      /\ \A i \in 1..Len(fifo) : fifo[i][1] = fifo[1][1] => i = 1
  <2>1. fifo[1][1] \in 1..gh.came /\ gh.came \in Nat
    BY <1>4, <1>6 DEF Numbers, RxTypes
  <2>2. ASSUME NEW i \in 1..Len(fifo), i # 1 PROVE fifo[i][1] # fifo[1][1]
    <3>1. 1 < i /\ fifo[i][1] \in 1..gh.came
      BY <1>4, <2>2 DEF Numbers
    <3>2. fifo[1][1] < fifo[i][1]
      BY <1>4, <1>6, <3>1 DEF Numbers
    <3> QED BY <2>1, <3>1, <3>2
  <2> QED BY <2>1, <2>2
<1>10. h = [id |-> fifo[1][1], len |-> fifo[1][2], ok |-> fifo[1][3],
            next |-> (drv.next + fifo[1][2]) % RxSize]
  <2> DEFINE p == drv.next
             c == CHOOSE i \in DOMAIN fifo : fifo[i][1] = mem[p][1]
  <2>1. mem[p][1] = fifo[1][1] /\ mem[p][2] = 0 /\ DOMAIN fifo = 1..Len(fifo)
    BY <1>6, <1>8
  <2>2. c = 1
    BY <1>6, <1>9, <2>1
  <2>3. Header(p) = {[id |-> fifo[c][1], len |-> fifo[c][2], ok |-> fifo[c][3],
                      next |-> (p + fifo[c][2]) % RxSize]}
    BY <1>6, <1>9, <2>1 DEF Header
  <2> QED BY <1>3, <2>2, <2>3
<1>11. Place'
  <2>1. /\ h.id = fifo[1][1] /\ h.len = fifo[1][2] /\ h.ok = fifo[1][3]
        /\ h.next = Wrap(drv.next + fifo[1][2], RxSize)
    BY <1>10 DEF Wrap
  <2>2. irq.left >= 1
    BY <1>1, <1>6
  <2> QED BY <1>1, <1>5, <1>6, <2>1, <2>2 DEF Place
<1>12. RxTypes'
  BY <1>1, <1>2, <1>4, <1>5 DEF RxTypes, Cells
<1>13. Layout'
  BY <1>1, <1>4, <1>7 DEF Layout, Stored
<1>14. Numbers'
  BY <1>1, <1>2, <1>4, <1>5 DEF Numbers
<1>15. NothingLost'
  BY <1>1, <1>2, <1>4, <1>5 DEF NothingLost
<1> QED BY <1>11, <1>12, <1>13, <1>14, <1>15

(* The pointer in the header is inside the buffer. *)
LEMMA InfoInside ==
    ASSUME RxInv, gh.glitches = 0, irq.pc = "alloc"
    PROVE  /\ irq.info.next = Wrap(drv.next + fifo[1][2], RxSize)
           /\ irq.info.next \in 0..RxSize - 1
           /\ fifo \in Seq(Frames) /\ fifo # <<>> /\ Len(fifo) \in Nat /\ 1 \in 1..Len(fifo)
<1>1. RxTypes /\ Place
  BY DEF RxInv
<1>2. irq.info.next = Wrap(drv.next + fifo[1][2], RxSize)
  BY <1>1 DEF Place
<1>3. fifo \in Seq(Frames) /\ fifo # <<>> /\ Len(fifo) \in Nat /\ 1 \in 1..Len(fifo)
  BY <1>1 DEF RxTypes, Place
<1>4. fifo[1][2] \in Lengths
  BY <1>3 DEF Frames
<1>5. drv.next + fifo[1][2] \in Int /\ RxSize \in Nat \ {0}
  <2>1. fifo[1][2] \in Nat /\ drv.next \in 0..RxSize - 1 /\ RxSize \in Nat \ {0}
    BY <1>1, <1>4, Short, Size DEF RxTypes
  <2> QED BY <2>1
<1>6. Wrap(drv.next + fifo[1][2], RxSize) \in 0..RxSize - 1
  BY <1>5 DEF Wrap
<1> QED BY <1>2, <1>3, <1>6

(* The oldest frame is released: next_packet_pointer goes to the one       *)
(* behind it.                                                              *)
LEMMA RxRelease ==
    ASSUME Records, RxInv, IrqRelease
    PROVE  RxInv'
<1> SUFFICES ASSUME gh'.glitches = 0 PROVE (RxTypes /\ Layout /\ Place /\ Numbers /\ NothingLost)'
  BY DEF RxInv
<1>1. /\ irq.pc = "alloc" /\ irq' = [irq EXCEPT !.pc = "read"]
      /\ drv' = [drv EXCEPT !.next = irq.info.next] /\ erxrdpt' = irq.info.next
      /\ UNCHANGED <<mem, fifo, wrpt, gh>>
  BY DEF IrqRelease, Irq
<1>2. gh.glitches = 0 /\ RxTypes /\ Layout /\ Place /\ Numbers /\ NothingLost
  BY <1>1 DEF RxInv
<1>3. irq'.pc = "read" /\ irq'.left = irq.left /\ irq'.info = irq.info /\ drv'.next = irq.info.next
  BY <1>1 DEF Records
<1>4. /\ irq.info.next = Wrap(drv.next + fifo[1][2], RxSize)
      /\ irq.info.next \in 0..RxSize - 1
      /\ fifo \in Seq(Frames) /\ fifo # <<>> /\ Len(fifo) \in Nat /\ 1 \in 1..Len(fifo)
  BY <1>1, <1>2, InfoInside
<1>5. RxTypes'
  BY <1>1, <1>2, <1>3, <1>4, Size DEF RxTypes, Cells
<1>6. Layout'
  <2>1. Stored = fifo /\ Stored' = Tail(fifo)
    BY <1>1, <1>3, <1>4, StoredIs DEF Stored, Released
  <2>2. PICK o : Laid(fifo, drv.next, o, wrpt, erxrdpt, mem)
    BY <1>2, <2>1 DEF Layout
  <2>3. drv.next \in 0..RxSize - 1
    BY <1>2, Size DEF RxTypes
  <2>4. \E q : Laid(Tail(fifo), Wrap(drv.next + fifo[1][2], RxSize), q, wrpt,
                   Wrap(drv.next + fifo[1][2], RxSize), mem)
    BY <1>4, <2>2, <2>3, LaidTail
  <2> QED BY <1>1, <1>3, <1>4, <2>1, <2>4 DEF Layout
<1>7. Place'
  BY <1>1, <1>2, <1>3 DEF Place
<1>8. Numbers'
  BY <1>1, <1>2, <1>3 DEF Numbers
<1>9. NothingLost'
  BY <1>1, <1>2, <1>3 DEF NothingLost
<1> QED BY <1>5, <1>6, <1>7, <1>8, <1>9

(* The oldest frame is handed to lwIP if it is good. *)
LEMMA RxRead ==
    ASSUME Records, RxInv, IrqRead
    PROVE  RxInv'
<1> SUFFICES ASSUME gh'.glitches = 0 PROVE (RxTypes /\ Layout /\ Place /\ Numbers /\ NothingLost)'
  BY DEF RxInv
<1> DEFINE n == Len(fifo)
           k == Len(gh.got)
           id == fifo[1][1]
<1>1. /\ irq.pc = "read" /\ irq' = [irq EXCEPT !.pc = "dec"]
      /\ UNCHANGED <<mem, fifo, wrpt, erxrdpt, drv>>
      /\ gh' = IF irq.info.ok THEN Deliver(irq.info.id) ELSE gh
  BY DEF IrqRead, Irq, chip
<1>3. gh'.glitches = gh.glitches
  BY <1>1 DEF Deliver, Records, GhIs
<1>4. gh.glitches = 0 /\ RxTypes /\ Layout /\ Place /\ Numbers /\ NothingLost
  BY <1>3 DEF RxInv
<1>5. irq'.pc = "dec" /\ irq'.left = irq.left /\ irq'.info = irq.info
  BY <1>1 DEF Records
<1>6. /\ irq.info.id = id /\ irq.info.ok = fifo[1][3]
      /\ fifo \in Seq(Frames) /\ n \in Nat /\ 1 \in 1..n
  BY <1>1, <1>4 DEF Place, RxTypes
<1>7. id \in 1..gh.came /\ gh.came \in Nat /\ (fifo[1][3] <=> id \in gh.good)
  BY <1>4, <1>6 DEF Numbers, RxTypes
<1>8. /\ gh'.came = gh.came /\ gh'.good = gh.good /\ gh'.dropped = gh.dropped
      /\ gh'.got = IF id \in gh.good THEN Append(gh.got, id) ELSE gh.got
  BY <1>1, <1>6, <1>7 DEF Deliver, Records, GhIs
<1>9. gh.got \in Seq(Nat) /\ k \in Nat
  BY <1>4 DEF RxTypes
<1>10. \A i \in 1..n : \A j \in 1..k : gh.got[j] < fifo[i][1]
  BY <1>1, <1>4 DEF Numbers
<1>11. \A i \in 1..n : fifo[i][1] \in 1..gh.came /\ (i # 1 => id < fifo[i][1])
  <2>1. ASSUME NEW i \in 1..n, i # 1 PROVE id < fifo[i][1]
    <3>1. 1 < i
      BY <2>1
    <3> QED BY <1>4, <1>6, <3>1 DEF Numbers
  <2> QED BY <1>4, <2>1 DEF Numbers
<1> HIDE DEF id
<1>12. /\ gh'.got \in Seq(Nat)
       /\ id \notin gh.good => Len(gh'.got) = k /\ gh'.got = gh.got
       /\ id \in gh.good => /\ Len(gh'.got) = k + 1 /\ gh'.got[k + 1] = id
                            /\ \A j \in 1..k : gh'.got[j] = gh.got[j]
  <2>1. id \in Nat
    BY <1>7
  <2>2. /\ Append(gh.got, id) \in Seq(Nat) /\ Len(Append(gh.got, id)) = k + 1
        /\ Append(gh.got, id)[k + 1] = id /\ \A j \in 1..k : Append(gh.got, id)[j] = gh.got[j]
    BY <1>9, <2>1
  <2> QED BY <1>8, <1>9, <2>2
<1>13. RxTypes'
  BY <1>1, <1>4, <1>5, <1>8, <1>12 DEF RxTypes, Cells
<1>14. Layout'
  BY <1>1, <1>4, <1>5 DEF Layout, Stored, Released
<1>15. Place'
  BY <1>1, <1>4, <1>5 DEF Place
<1>16. Numbers'
  <2>1. \A j \in 1..Len(gh'.got) : gh'.got[j] \in 1..gh'.came
    BY <1>4, <1>7, <1>8, <1>9, <1>12 DEF Numbers
  <2>2. ASSUME NEW i \in 1..n, NEW j \in 1..Len(gh'.got)
        PROVE  gh'.got[j] < fifo[i][1] \/ (i = 1 /\ gh'.got[j] = fifo[i][1])
    <3>1. CASE j \in 1..k
      BY <1>10, <1>12, <3>1
    <3>2. CASE j \notin 1..k
      <4>1. j = k + 1 /\ id \in gh.good
        BY <1>9, <1>12, <3>2
      <4> QED BY <1>11, <1>12, <4>1 DEF id
    <3> QED BY <3>1, <3>2
  <2> QED BY <1>1, <1>4, <1>5, <1>8, <2>1, <2>2 DEF Numbers
<1>17. NothingLost'
  <2>1. \A i \in 2..k : gh.got[i - 1] < gh.got[i]
    BY <1>4 DEF NothingLost
  <2>2. \A i \in 2..Len(gh'.got) : gh'.got[i - 1] < gh'.got[i]
    <3>1. CASE id \notin gh.good
      BY <1>12, <2>1, <3>1
    <3>2. CASE id \in gh.good
      <4>1. ASSUME NEW i \in 2..k PROVE gh'.got[i - 1] < gh'.got[i]
        <5>1. i \in 1..k /\ i - 1 \in 1..k
          BY <1>9
        <5>2. gh'.got[i] = gh.got[i] /\ gh'.got[i - 1] = gh.got[i - 1]
          BY <1>12, <3>2, <5>1
        <5> QED BY <2>1, <5>2
      <4>2. ASSUME k >= 1 PROVE gh'.got[(k + 1) - 1] < gh'.got[k + 1]
        <5>1. (k + 1) - 1 = k /\ k \in 1..k
          BY <1>9, <4>2
        <5>2. gh.got[k] < id
          BY <1>6, <1>10, <5>1 DEF id
        <5> QED BY <1>12, <3>2, <5>1, <5>2
      <4>3. ASSUME NEW i \in 2..k + 1 PROVE gh'.got[i - 1] < gh'.got[i]
        <5>1. CASE i \in 2..k
          BY <4>1, <5>1
        <5>2. CASE i = k + 1
          BY <1>9, <4>2, <5>2
        <5> QED BY <1>9, <5>1, <5>2
      <4> QED BY <1>12, <3>2, <4>3
    <3> QED BY <3>1, <3>2
  <2> DEFINE Old == {gh.got[i] : i \in 1..k}
             Out == {h \in gh.good : h \notin gh.dropped /\ \A i \in 1..n : fifo[i][1] # h}
  <2>3. DOMAIN gh.got = 1..k /\ DOMAIN fifo = 1..n /\ DOMAIN gh'.got = 1..Len(gh'.got)
    BY <1>6, <1>9, <1>12
  <2>4. Old = Out
    BY <1>1, <1>4, <2>3 DEF NothingLost
  <2>5. {gh'.got[i] : i \in 1..Len(gh'.got)} = Old \cup (IF id \in gh.good THEN {id} ELSE {})
    <3>1. CASE id \notin gh.good
      BY <1>12, <3>1
    <3>2. CASE id \in gh.good
      <4>1. 1..k + 1 = (1..k) \cup {k + 1}
        BY <1>9
      <4>2. {gh'.got[i] : i \in 1..k} = Old
        BY <1>12, <3>2
      <4>3. Len(gh'.got) = k + 1 /\ gh'.got[k + 1] = id
        BY <1>12, <3>2
      <4> HIDE DEF Old, k
      <4> QED BY <3>2, <4>1, <4>2, <4>3
    <3> QED BY <3>1, <3>2
  <2>6. id \notin gh.dropped /\ \A i \in 1..n : fifo[i][1] = id <=> i = 1
    <3>1. \A d \in gh.dropped : d < id
      BY <1>4, <1>6 DEF Numbers, id
    <3>2. ~(id < id)
      BY <1>7
    <3>3. \A i \in 1..n : i # 1 => id # fifo[i][1]
      BY <1>7, <1>11
    <3> QED BY <3>1, <3>2, <3>3 DEF id
  <2>7. {h \in gh.good : h \notin gh.dropped /\ \A i \in 1..n : fifo[i][1] = h => i = 1}
          = Out \cup (IF id \in gh.good THEN {id} ELSE {})
    BY <2>6 DEF id
  <2> HIDE DEF Old, Out
  <2>8. {gh'.got[i] : i \in 1..Len(gh'.got)} =
        {h \in gh.good : h \notin gh.dropped /\ \A i \in 1..n : fifo[i][1] = h => i = 1}
    BY <2>4, <2>5, <2>7
  <2>9. {h \in gh.good : h \notin gh.dropped /\ \A i \in 1..n : fifo[i][1] = h => i = 1} =
        {h \in gh'.good : /\ h \notin gh'.dropped
                          /\ \A i \in DOMAIN fifo' : fifo'[i][1] = h => i = 1 /\ irq'.pc = "dec"}
    BY <1>1, <1>5, <1>8, <2>3
  <2>10. {gh'.got[i] : i \in DOMAIN gh'.got} = {gh'.got[i] : i \in 1..Len(gh'.got)}
    BY <2>3, Zenon
  <2> QED BY <2>2, <2>8, <2>9, <2>10, Zenon DEF NothingLost
<1> QED BY <1>13, <1>14, <1>15, <1>16, <1>17

(* The chip is told that the oldest frame is done with. *)
LEMMA RxDecrement ==
    ASSUME Records, RxInv, IrqDecrement
    PROVE  RxInv'
<1> SUFFICES ASSUME gh'.glitches = 0 PROVE (RxTypes /\ Layout /\ Place /\ Numbers /\ NothingLost)'
  BY DEF RxInv
<1> DEFINE n == Len(fifo)
<1>1. /\ irq.pc = "dec" /\ irq' = [irq EXCEPT !.pc = Handed, !.left = @ - 1, !.info = NULL]
      /\ fifo' = IF fifo = <<>> THEN <<>> ELSE Tail(fifo)
      /\ UNCHANGED <<mem, wrpt, erxrdpt, drv, gh>>
  BY DEF IrqDecrement
<1>2. gh.glitches = 0 /\ RxTypes /\ Layout /\ Place /\ Numbers /\ NothingLost
  BY <1>1 DEF RxInv
<1>3. irq'.pc \in {"packet", "input"} /\ irq'.left = irq.left - 1
  BY <1>1 DEF Records, Handed
<1>4. fifo \in Seq(Frames) /\ n \in Nat \ {0} /\ fifo # <<>> /\ 1 \in 1..n /\ irq.left \in 1..n
  BY <1>1, <1>2 DEF Place, RxTypes
<1>5. /\ fifo' \in Seq(Frames) /\ Len(fifo') = n - 1
      /\ \A i \in 1..n - 1 : fifo'[i] = fifo[i + 1] /\ i + 1 \in 1..n
  BY <1>1, <1>4
<1>6. RxTypes'
  BY <1>1, <1>2, <1>3, <1>4, <1>5 DEF RxTypes, Cells
<1>7. Layout'
  <2>1. Stored = Tail(fifo)
    BY <1>1, <1>4, StoredIs DEF Stored, Released
  <2>2. Stored' = fifo'
    BY <1>3, <1>5, StoredIs DEF Stored, Released
  <2> QED BY <1>1, <1>2, <1>4, <2>1, <2>2 DEF Layout
<1>8. Place'
  BY <1>3, <1>4, <1>5 DEF Place
<1>9. Numbers'
  <2>1. ASSUME NEW i \in 1..n - 1, NEW j \in 1..n - 1, i < j PROVE fifo'[i][1] < fifo'[j][1]
    <3>1. i + 1 \in 1..n /\ j + 1 \in 1..n /\ i + 1 < j + 1
      BY <1>4, <2>1
    <3> QED BY <1>2, <1>5, <3>1 DEF Numbers
  <2>2. ASSUME NEW i \in 1..n - 1
        PROVE  /\ fifo'[i][1] \in 1..gh.came /\ (fifo'[i][3] <=> fifo'[i][1] \in gh.good)
               /\ \A d \in gh.dropped : d < fifo'[i][1]
    BY <1>2, <1>5 DEF Numbers
  <2>3. ASSUME NEW i \in 1..n - 1, NEW j \in 1..Len(gh.got) PROVE gh.got[j] < fifo'[i][1]
    <3>1. fifo'[i] = fifo[i + 1] /\ i + 1 \in 1..n /\ i + 1 # 1
      BY <1>4, <1>5
    <3> QED BY <1>2, <3>1 DEF Numbers
  <2> QED BY <1>1, <1>2, <1>5, <2>1, <2>2, <2>3 DEF Numbers
<1>10. NothingLost'
  <2>1. DOMAIN fifo = 1..n /\ DOMAIN fifo' = 1..n - 1
    BY <1>4, <1>5
  <2>2. ASSUME NEW h
        PROVE  (\A i \in 1..n : fifo[i][1] = h => i = 1) <=> (\A i \in 1..n - 1 : fifo'[i][1] # h)
    <3>1. ASSUME \A i \in 1..n : fifo[i][1] = h => i = 1, NEW i \in 1..n - 1 PROVE fifo'[i][1] # h
      <4>1. fifo'[i] = fifo[i + 1] /\ i + 1 \in 1..n /\ i + 1 # 1
        BY <1>4, <1>5
      <4> QED BY <3>1, <4>1
    <3>2. ASSUME \A i \in 1..n - 1 : fifo'[i][1] # h, NEW i \in 1..n, i # 1 PROVE fifo[i][1] # h
      <4>1. i - 1 \in 1..n - 1 /\ (i - 1) + 1 = i
        BY <1>4, <3>2
      <4>2. fifo'[i - 1] = fifo[i]
        BY <1>5, <4>1
      <4> QED BY <3>2, <4>1, <4>2
    <3> QED BY <3>1, <3>2
  <2>3. {gh.got[i] : i \in DOMAIN gh.got} =
        {h \in gh.good : h \notin gh.dropped /\ \A i \in 1..n : fifo[i][1] = h => i = 1}
    BY <1>1, <1>2, <2>1 DEF NothingLost
  <2>4. {gh.got[i] : i \in DOMAIN gh.got} =
        {h \in gh.good : h \notin gh.dropped /\ \A i \in 1..n - 1 : fifo'[i][1] # h}
    BY <2>2, <2>3
  <2>5. \A i \in 2..Len(gh.got) : gh.got[i - 1] < gh.got[i]
    BY <1>2 DEF NothingLost
  <2>6. {h \in gh.good : h \notin gh.dropped /\ \A i \in 1..n - 1 : fifo'[i][1] # h} =
        {h \in gh'.good : /\ h \notin gh'.dropped
                          /\ \A i \in DOMAIN fifo' : fifo'[i][1] = h => i = 1 /\ irq'.pc = "dec"}
    BY <1>1, <1>3, <2>1
  <2>7. gh' = gh
    BY <1>1
  <2>8. {gh'.got[i] : i \in DOMAIN gh'.got} = {gh.got[i] : i \in DOMAIN gh.got}
    BY <2>7, Zenon
  <2>9. \A i \in 2..Len(gh'.got) : gh'.got[i - 1] < gh'.got[i]
    BY <2>5, <2>7
  <2> QED BY <2>4, <2>6, <2>8, <2>9, Zenon DEF NothingLost
<1> QED BY <1>6, <1>7, <1>8, <1>9, <1>10

(* Each step keeps the walk in step with the chip. *)
LEMMA RxKept ==
    ASSUME Records, RxInv, [EncNext]_encVars
    PROVE  RxInv'
<1>0. GhIs(gh) /\ SndIs
  BY DEF Records
<1>a. ASSUME UNCHANGED <<mem, fifo, wrpt, erxrdpt, irq>>, drv'.next = drv.next, SameRx(gh, gh')
      PROVE  RxInv'
  BY <1>a, RxSame DEF SameRx
<1>b. ASSUME UNCHANGED <<mem, fifo, wrpt, erxrdpt>>, drv'.next = drv.next, SameRx(gh, gh'),
             irq'.left = irq.left, irq.pc \notin {"read", "dec"},
             irq'.pc \notin {"packet", "alloc", "read", "dec", "input", "inside"}
      PROVE  RxInv'
  BY <1>b, RxSame DEF SameRx
<1>c. ASSUME UNCHANGED <<mem, fifo, wrpt, erxrdpt, drv, gh>>, irq'.left = irq.left,
             irq.pc \in {"input", "inside"}, irq'.pc \in {"packet", "inside"}
      PROVE  RxInv'
  <2>1. CASE gh.glitches = 0
    <3>1. fifo \in Seq(Frames) => irq'.left \in 0..Len(fifo)
      BY <1>c, <2>1 DEF RxInv, Place, RxTypes
    <3> QED BY <1>c, <3>1, RxSame
  <2> QED BY <1>c, <2>1 DEF RxInv
<1>1. CASE Arrive
  BY <1>1, RxArrive
<1>2. CASE LinkChanges
  <2>1. SameRx(gh, gh')
    BY <1>0, <1>2 DEF LinkChanges, SameRx, GhIs
  <2> QED BY <1>2, <2>1, <1>a DEF LinkChanges, Records
<1>3. CASE Transmitted
  <2>1. SameRx(gh, gh')
    BY <1>0, <1>3, CutIs DEF Transmitted, SameRx
  <2> QED BY <1>3, <2>1, <1>a DEF Transmitted, Records
<1>4. CASE ArmEdge
  <2>1. SameRx(gh, gh')
    BY <1>0, <1>4 DEF ArmEdge, SameRx, GhIs
  <2> QED BY <1>4, <2>1, <1>a DEF ArmEdge, Records, chip
<1>5. CASE EnableFlags
  <2>1. SameRx(gh, gh')
    BY <1>0, <1>5 DEF EnableFlags, SameRx
  <2> QED BY <1>5, <2>1, <1>a DEF EnableFlags, Records
<1>6. CASE IrqTake
  <2>1. SameRx(gh, gh')
    BY <1>0, <1>6 DEF IrqTake, SameRx
  <2> QED BY <1>6, <2>1, <1>b DEF IrqTake, Records, Irq
<1>7. CASE IrqFlags
  <2>1. SameRx(gh, gh')
    BY <1>0, <1>7 DEF IrqFlags, SameRx
  <2> QED BY <1>7, <2>1, <1>b DEF IrqFlags, Records, chip, FirstOf, AfterLink, AfterTx, AfterTxError
<1>8. CASE IrqLink
  <2>1. SameRx(gh, gh')
    BY <1>0, <1>8 DEF IrqLink, SameRx
  <2> QED BY <1>8, <2>1, <1>b DEF IrqLink, Records, chip, IrqLooping
<1>9. CASE IrqLinked
  <2>1. SameRx(gh, gh')
    BY <1>0, <1>9 DEF IrqLinked, SameRx
  <2> QED BY <1>9, <2>1, <1>b DEF IrqLinked, Records, chip, Irq
<1>10. CASE IrqPhir
  <2>1. SameRx(gh, gh')
    BY <1>0, <1>10 DEF IrqPhir, SameRx
  <2> QED BY <1>10, <2>1, <1>b DEF IrqPhir, Records, Irq, AfterLink, AfterTx, AfterTxError
<1>11. CASE IrqTx
  <2>1. SameRx(gh, gh')
    BY <1>0, <1>11, CutWrites DEF IrqTx, SameRx
  <2> QED BY <1>11, <2>1, <1>b DEF IrqTx, Records, IrqLooping
<1>12. CASE IrqTxRts
  <2>1. SameRx(gh, gh')
    BY <1>0, <1>12, CutWrites DEF IrqTxRts, SameRx
  <2> QED BY <1>12, <2>1, <1>b DEF IrqTxRts, Records, Irq
<1>13. CASE IrqTxIf
  <2>1. SameRx(gh, gh')
    BY <1>0, <1>13 DEF IrqTxIf, SameRx
  <2> QED BY <1>13, <2>1, <1>b DEF IrqTxIf, Records, Irq, AfterTxError
<1>14. CASE IrqTxError
  <2>1. SameRx(gh, gh')
    BY <1>0, <1>14, CutWrites DEF IrqTxError, SameRx
  <2> QED BY <1>14, <2>1, <1>b DEF IrqTxError, Records
<1>15. CASE IrqTxAgain
  <2> DEFINE h == Cut(Writes("flags", gh))
  <2>1. GhIs(h) /\ SameRx(gh, h)
    BY <1>0, CutWrites
  <2> HIDE DEF h
  <2>2. gh' = h \/ \E F : gh' = Excuse(F, h)
    BY <1>15 DEF IrqTxAgain, h
  <2>3. SameRx(gh, gh')
    BY <2>1, <2>2, ExcuseIs DEF SameRx
  <2> QED BY <1>15, <2>3, <1>b DEF IrqTxAgain, Records, Irq
<1>16. CASE IrqTxErIf
  <2>1. SameRx(gh, gh')
    BY <1>0, <1>16 DEF IrqTxErIf, SameRx
  <2> QED BY <1>16, <2>1, <1>b DEF IrqTxErIf, Records, Irq, AfterTxError
<1>17. CASE IrqRxError
  BY <1>17, RxReset
<1>18. CASE IrqCount
  <2>1. /\ UNCHANGED <<mem, fifo, wrpt, erxrdpt, drv>> /\ irq.pc \notin {"read", "dec"}
        /\ irq'.pc = "packet" /\ irq'.left = Len(fifo)
    BY <1>18 DEF IrqCount, Records, chip
  <2>2. SameRx(gh, gh')
    BY <1>0, <1>18 DEF IrqCount, SameRx, GhIs
  <2>3. fifo \in Seq(Frames) => irq'.left \in 0..Len(fifo)
    BY <2>1
  <2> QED BY <2>1, <2>2, <2>3, RxSame DEF SameRx
<1>19. CASE get_incoming_packet_info
  BY <1>19, RxHeader
<1>20. CASE IrqNoPbuf
  <2>1. /\ UNCHANGED <<mem, fifo, wrpt, erxrdpt, drv, gh>> /\ irq.pc \notin {"read", "dec"}
        /\ irq'.pc = "packet" /\ irq'.left = irq.left - 1
    BY <1>20 DEF IrqNoPbuf, Records, chip
  <2>2. CASE gh.glitches = 0
    <3>1. irq.left \in 1..Len(fifo) /\ Len(fifo) \in Nat
      BY <1>20, <2>2 DEF IrqNoPbuf, RxInv, Place, RxTypes
    <3>2. irq'.left \in 0..Len(fifo)
      BY <2>1, <3>1
    <3> QED BY <2>1, <3>2, RxSame
  <2> QED BY <2>1, <2>2 DEF RxInv
<1>21. CASE IrqBadPointer
  <2>1. gh'.glitches = gh.glitches
    <3> DEFINE h == IF irq.info.ok THEN Deliver(irq.info.id) ELSE gh
    <3>1. gh' = Dropping(h)
      BY <1>21 DEF IrqBadPointer
    <3>2. h.glitches = gh.glitches /\ GhIs(h)
      BY <1>0 DEF GhIs, Deliver
    <3> HIDE DEF h
    <3> QED BY <3>1, <3>2 DEF Dropping, GhIs
  <2>2. ASSUME gh.glitches = 0 PROVE FALSE
    <3>1. irq.info.next \in 0..RxSize - 1
      BY <1>21, <2>2, InfoInside DEF IrqBadPointer
    <3>2. irq.info.next > RxSize - 1
      BY <1>21, Size DEF IrqBadPointer
    <3> QED BY <3>1, <3>2, Size
  <2> QED BY <2>1, <2>2 DEF RxInv
<1>22. CASE IrqRelease
  BY <1>22, RxRelease
<1>23. CASE IrqRead
  BY <1>23, RxRead
<1>24. CASE IrqDecrement
  BY <1>24, RxDecrement
<1>25. CASE IrqInput
  BY <1>25, <1>c DEF IrqInput, Irq, Records, chip
<1>26. CASE IrqInputDone
  BY <1>26, <1>c DEF IrqInputDone, Irq, Records, chip
<1>27. CASE IrqAgain
  <2>1. SameRx(gh, gh')
    BY <1>0, <1>27 DEF IrqAgain, SameRx
  <2> QED BY <1>27, <2>1, <1>b DEF IrqAgain, Records, Irq, chip
<1>28. CASE IrqEnable
  <2>1. SameRx(gh, gh')
    BY <1>0, <1>28 DEF IrqEnable, SameRx
  <2> QED BY <1>28, <2>1, <1>b DEF IrqEnable, Records
<1>29. ASSUME NEW s \in Senders, eth_packet_output(s) PROVE RxInv'
  <2>1. SameRx(gh, gh')
    BY <1>0, <1>29 DEF eth_packet_output, SameRx, GhIs
  <2> QED BY <1>29, <2>1, <1>a DEF eth_packet_output, Records, chip
<1>30. ASSUME NEW s \in Senders, SendPoll(s) PROVE RxInv'
  <2>1. SameRx(gh, gh')
    BY <1>0, <1>30, Polls
  <2> QED BY <1>30, <2>1, <1>a DEF SendPoll, chip
<1>31. ASSUME NEW s \in Senders, SendReset(s) PROVE RxInv'
  <2>1. SameRx(gh, gh')
    <3> DEFINE h == Cut(Writes(s, gh))
    <3>1. GhIs(h) /\ SameRx(gh, h) /\ gh' = Outdates(s, h)
      BY <1>0, <1>31, CutWrites DEF SendReset
    <3> HIDE DEF h
    <3> QED BY <3>1, OutdatesIs DEF SameRx
  <2> QED BY <1>31, <2>1, <1>a DEF SendReset
<1>32. ASSUME NEW s \in Senders, SendClear(s) PROVE RxInv'
  <2>1. SameRx(gh, gh')
    BY <1>0, <1>32, OutdatesIs DEF SendClear
  <2> QED BY <1>32, <2>1, <1>a DEF SendClear
<1>33. ASSUME NEW s \in Senders, SendLength(s) PROVE RxInv'
  <2>1. SameRx(gh, gh')
    BY <1>0, <1>33, WritesIs DEF SendLength
  <2> QED BY <1>33, <2>1, <1>a DEF SendLength
<1>34. ASSUME NEW s \in Senders, SendCopy(s) PROVE RxInv'
  <2>1. SameRx(gh, gh')
    BY <1>0, <1>34, WritesIs DEF SendCopy
  <2> QED BY <1>34, <2>1, <1>a DEF SendCopy
<1>35. ASSUME NEW s \in Senders, SendStart(s) PROVE RxInv'
  <2>1. SameRx(gh, gh')
    <3> DEFINE h == Cut(Writes(s, gh))
    <3>1. GhIs(h) /\ SameRx(gh, h) /\ gh' = [h EXCEPT !.old = @ \ {s}]
      BY <1>0, <1>35, CutWrites DEF SendStart
    <3> HIDE DEF h
    <3> QED BY <3>1 DEF SameRx, GhIs
  <2> QED BY <1>35, <2>1, <1>a DEF SendStart
<1>36. CASE UNCHANGED encVars
  BY <1>36, <1>a DEF encVars, SameRx
<1>37. "irq" \in Senders /\ "lwip" \in Senders
  BY DEF Senders
<1> QED BY <1>1, <1>2, <1>3, <1>4, <1>5, <1>6, <1>7, <1>8, <1>9, <1>10, <1>11, <1>12,
           <1>13, <1>14, <1>15, <1>16, <1>17, <1>18, <1>19, <1>20, <1>21, <1>22, <1>23, <1>24,
           <1>25, <1>26, <1>27, <1>28, <1>29, <1>30, <1>31, <1>32, <1>33, <1>34, <1>35, <1>36,
           <1>37
        DEF EncNext, IrqTask, Sending

-----------------------------------------------------------------------------
LEMMA EncInitInv == EncInit => EncInv
<1> SUFFICES ASSUME EncInit PROVE EncInv
  OBVIOUS
<1>1. Records
  BY DEF EncInit, Records, SndIs, GhIs, NotSending
<1>2. TxInv
  <2>1. \A s \in Senders : snd[s].pc = "idle"
    BY DEF EncInit, NotSending
  <2>2. tx.air = NULL /\ irq.pc = "wait" /\ gh.spoilt = {}
    BY DEF EncInit
  <2> QED BY <2>1, <2>2 DEF TxInv, Reading, Alone, OnAir, InHand, BeforeClear
<1>3. RxTypes
  <2>1. {RXSTART_INIT, erxrdpt_workaround(RXSTART_INIT)} \subseteq Cells
    BY Size DEF RXSTART_INIT, erxrdpt_workaround
  <2> QED BY <2>1 DEF EncInit, RxTypes
<1>4. Layout
  <2>1. Stored = <<>>
    BY StoredIs DEF EncInit, Stored, Released
  <2> QED BY <2>1, LaidEmpty DEF EncInit, Layout
<1>5. Place
  BY DEF EncInit, Place
<1>6. Numbers /\ NothingLost
  BY DEF EncInit, Numbers, NothingLost
<1> QED BY <1>1, <1>2, <1>3, <1>4, <1>5, <1>6 DEF EncInv, RxInv

LEMMA EncStep == EncInv /\ [EncNext]_encVars => EncInv'
BY RecordsKept, TxKept, RxKept DEF EncInv

LEMMA EncInvariance == EncSpec => []EncInv
BY EncInitInv, EncStep, PTL DEF EncSpec

(* What goes out on the wire is whole and has its own length: what is      *)
(* damaged was hit by the interrupt task with flags read before send_pbuf  *)
(* cleared them, by a send_pbuf that goes by an earlier state or gave up   *)
(* waiting, or by the retry of a late collision.  For every number of      *)
(* polls and retries and every interleaving of irq_deferred_handler, both  *)
(* senders, the frames lwIP sends in the interrupt task included, and the  *)
(* chip.                                                                   *)
THEOREM SentWhole == EncSpec => []TxWhole
<1>1. EncInv => TxWhole
  BY DEF EncInv, TxInv, TxWhole
<1> QED BY <1>1, EncInvariance, PTL

(* next_packet_pointer is where the oldest frame that is not released      *)
(* begins, for every size of the receive buffer, all lengths of frames,    *)
(* any number of overflows and resets.                                     *)
THEOREM WalkInSync == EncSpec => []RxInSync
<1>1. EncInv => RxInSync
  <2> SUFFICES ASSUME EncInv, gh.glitches = 0
               PROVE  drv.next = (wrpt - CellsOf(Stored)) % RxSize
    BY DEF RxInSync
  <2>1. RxTypes /\ Layout /\ Place
    BY DEF EncInv, RxInv
  <2>2. Stored \in Seq(Frames)
    <3>1. fifo \in Seq(Frames)
      BY <2>1 DEF RxTypes
    <3>2. Released = 1 => fifo # <<>>
      BY <2>1, <3>1 DEF Place, Released, RxTypes
    <3> QED BY <3>1, <3>2, StoredIs DEF Stored, Released
  <2>3. PICK o : Laid(Stored, drv.next, o, wrpt, erxrdpt, mem)
    BY <2>1 DEF Layout
  <2> DEFINE used == o[Len(Stored) + 1]
  <2>4. /\ o \in [1..Len(Stored) + 1 -> 0..RxSize - 1] /\ o[1] = 0 /\ Len(Stored) \in Nat
        /\ \A i \in 1..Len(Stored) : o[i + 1] = o[i] + Stored[i][2]
        /\ wrpt = Wrap(drv.next + used, RxSize)
    BY <2>2, <2>3 DEF Laid
  <2>5. o \in [1..Len(Stored) + 1 -> Int]
    BY <2>4
  <2>6. CellsOf(Stored) = used
    <3> DEFINE f == Stored
    <3>1. /\ o \in [1..Len(f) + 1 -> Int] /\ o[1] = 0 /\ Len(f) \in Nat
          /\ \A i \in 1..Len(f) : o[i + 1] = o[i] + f[i][2]
      BY <2>4, <2>5
    <3> HIDE DEF f
    <3>2. CellsOf(f) = o[Len(f) + 1]
      BY <3>1, Telescope
    <3> QED BY <3>2 DEF f
  <2>7. used \in 0..RxSize - 1 /\ drv.next \in 0..RxSize - 1 /\ RxSize \in Nat \ {0}
    <3>1. Len(Stored) + 1 \in 1..Len(Stored) + 1
      BY <2>4
    <3>2. used \in 0..RxSize - 1
      BY <2>4, <3>1
    <3>3. drv.next \in 0..RxSize - 1 /\ RxSize \in Nat \ {0}
      BY <2>1, Size DEF RxTypes
    <3> QED BY <3>2, <3>3
  <2> HIDE DEF used
  <2>8. Wrap(Wrap(drv.next + used, RxSize) - used, RxSize) = drv.next
    BY <2>7, GoBack
  <2> QED BY <2>4, <2>6, <2>8 DEF Wrap
<1> QED BY <1>1, EncInvariance, PTL

(* Every good frame the chip stored reaches lwIP once and in order, except *)
(* those a receive reset dropped and those still in the buffer.            *)
THEOREM EveryFrame == EncSpec => []NothingLost
<1>1. EncInv => NothingLost
  BY DEF EncInv, RxInv, NothingLost
<1> QED BY <1>1, EncInvariance, PTL

-----------------------------------------------------------------------------
(***************************************************************************)
(* The DHCP server.                                                        *)
(***************************************************************************)

-----------------------------------------------------------------------------
(* Arithmetic.                                                             *)

\* What % returns on the two numbers that a sum or difference of two ticks
\* can be: one in the range of the counter, or one turn away from it.
LEMMA OneTurn ==
    ASSUME NEW w \in Nat \ {0}, NEW x \in 0 .. w - 1
    PROVE  /\ x % w = x
           /\ (x + w) % w = x
           /\ (x - w) % w = x
  OBVIOUS

\* Division by the unit of expiry.
LEMMA DivBounds ==
    ASSUME NEW g \in Nat \ {0}, NEW a \in Nat
    PROVE  /\ a \div g \in Nat
           /\ (a \div g) * g <= a
           /\ a < (a \div g) * g + g
  OBVIOUS

\* The product of the two widths is ordered as its second factor.
LEMMA ProductOrder ==
    ASSUME NEW g \in Nat \ {0}, NEW e \in Nat, NEW u \in Nat
    PROVE  /\ e * g \in Nat
           /\ e < u => e * g + g <= g * u
           /\ e * g < g * u => e < u
  OBVIOUS

-----------------------------------------------------------------------------
(* The clock.                                                              *)

\* The tick counter is wide enough for two leases and their rounding.
LEMMA WordSize ==
    /\ Word \in Nat \ {0}
    /\ 2 * (LEASE_TIME + Granule) <= Word
<1>1. Word \in Nat
  BY ClockAssumption, ProductOrder DEF Word
<1> QED BY <1>1, ClockAssumption

\* The last tick of a unit is a value of the counter.
LEMMA LastTickInWord ==
    ASSUME NEW e \in 0 .. Units - 1
    PROVE  LastTick(e) \in 0 .. Word - 1
<1>1. e * Granule \in Nat /\ e * Granule + Granule <= Granule * Units
  BY ClockAssumption, ProductOrder
<1> QED BY <1>1, ClockAssumption DEF LastTick, Word

\* The last tick of unit e comes l ticks after t, or up to a unit later, on
\* a counter that may wrap in between.
Reaches(e, t, l) ==
    \/ LastTick(e) - t - l \in 0 .. Granule - 1
    \/ LastTick(e) - t - l + Word \in 0 .. Granule - 1

\* Expiry keeps the upper half of the tick at which the lease ends: it is
\* rounded so that the lease never counts as over too early.
LEMMA ExpiryReaches ==
    ASSUME now \in 0 .. Word - 1
    PROVE  Expiry \in 0 .. Units - 1 /\ Reaches(Expiry, now, LEASE_TIME)
<1> DEFINE a == (now + LEASE_TIME) % Word
<1>1. a \in 0 .. Word - 1 /\ a \in {now + LEASE_TIME, now + LEASE_TIME - Word}
  <2>1. CASE now + LEASE_TIME < Word
    <3>1. now + LEASE_TIME \in 0 .. Word - 1
      BY <2>1, ClockAssumption, WordSize
    <3>2. a = now + LEASE_TIME
      <4> DEFINE x == now + LEASE_TIME
      <4>1. x % Word = x
        BY <3>1, WordSize, OneTurn
      <4> QED BY <4>1
    <3> QED BY <3>1, <3>2
  <2>2. CASE now + LEASE_TIME >= Word
    <3>1. now + LEASE_TIME - Word \in 0 .. Word - 1
      BY <2>2, ClockAssumption, WordSize
    <3>2. a = now + LEASE_TIME - Word
      <4> DEFINE x == now + LEASE_TIME - Word
      <4>1. (x + Word) % Word = x
        BY <3>1, WordSize, OneTurn
      <4>2. x + Word = now + LEASE_TIME
        BY WordSize, ClockAssumption
      <4> QED BY <4>1, <4>2
    <3> QED BY <3>1, <3>2
  <2> QED BY <2>1, <2>2, WordSize, ClockAssumption
<1>2. /\ Expiry \in Nat
      /\ Expiry * Granule <= a
      /\ a < Expiry * Granule + Granule
  BY <1>1, DivBounds, WordSize, ClockAssumption DEF Expiry
<1> HIDE DEF a
<1>3. Expiry * Granule \in Nat
  BY <1>2, ProductOrder, ClockAssumption
<1>4. Expiry < Units
  <2>1. Expiry * Granule < Granule * Units
    BY <1>1, <1>2, <1>3, WordSize DEF Word
  <2> QED BY <2>1, <1>2, ProductOrder, ClockAssumption
<1>5. LastTick(Expiry) - a \in 0 .. Granule - 1
  BY <1>1, <1>2, <1>3, ClockAssumption, WordSize DEF LastTick
<1>6. LastTick(Expiry) \in Int
  BY <1>3, ClockAssumption DEF LastTick
<1>7. Reaches(Expiry, now, LEASE_TIME)
  BY <1>1, <1>5, <1>6, ClockAssumption, WordSize DEF Reaches
<1> QED BY <1>2, <1>4, <1>7, ClockAssumption

\* A lease with time left does not compare as expired.
LEMMA LiveIsNotExpired ==
    ASSUME DhcpTypeOK, NEW i \in Slots, NEW l \in 1 .. LEASE_TIME,
           Reaches(lease[i].expiry, now, l)
    PROVE  ~IsExpired(i)
<1> DEFINE t == LastTick(lease[i].expiry)
<1>1. t \in Int /\ now \in Int
  <2>1. lease[i].expiry \in 0 .. Units - 1 /\ now \in 0 .. Word - 1
    BY DEF DhcpTypeOK
  <2> QED BY <2>1, LastTickInWord, WordSize
<1>2. t - now \in Int
  BY <1>1
<1>3. PICK x \in l .. l + Granule - 1 : t - now \in {x, x - Word}
  <2>1. CASE t - now - l \in 0 .. Granule - 1
    BY <2>1, <1>1, ClockAssumption
  <2>2. CASE t - now - l + Word \in 0 .. Granule - 1
    <3>1. t - now + Word \in l .. l + Granule - 1
      BY <2>2, <1>1, ClockAssumption, WordSize
    <3>2. t - now = (t - now + Word) - Word
      BY <1>1, WordSize
    <3> QED BY <3>1, <3>2
  <2> QED BY <2>1, <2>2 DEF Reaches
<1>4. x \in 0 .. Word - 1 /\ 2 * x < Word
  BY WordSize, ClockAssumption
<1>5. (t - now) % Word = x
  BY <1>3, <1>4, WordSize, OneTurn
<1> QED BY <1>4, <1>5, WordSize DEF IsExpired

-----------------------------------------------------------------------------
(* The inductive invariant: a client with time left is the one its slot    *)
(* names, and the slot's expiry does not come before that time is over.    *)
(* NoDoubleLease alone is not inductive: it says nothing of what the table *)
(* knows about the clients that hold an address.                           *)

Covered(m, i) ==
    left[m][i] > 0 => /\ lease[i].mac = m
                      /\ Reaches(lease[i].expiry, now, left[m][i])

DhcpInv == DhcpTypeOK /\ \A m \in Mac, i \in Slots : Covered(m, i)

\* The empty table, and no client holds anything.
LEMMA DhcpInitInv == DhcpInit => DhcpInv
<1> SUFFICES ASSUME DhcpInit PROVE DhcpInv
  OBVIOUS
<1>1. DhcpTypeOK
  BY ClockAssumption, WordSize DEF DhcpInit, DhcpTypeOK, Answers, Ignored
<1>2. \A m \in Mac, i \in Slots : Covered(m, i)
  BY ClockAssumption DEF DhcpInit, Covered
<1> QED BY <1>1, <1>2 DEF DhcpInv

\* A slot that a DISCOVER clears, or offers to m, is held by nobody else.
LEMMA ReusableIsFree ==
    ASSUME DhcpInv, NEW m \in Mac, NEW i \in Slots, FirstOwn(m, i) \/ FirstReusable(m, i),
           NEW n \in Mac \ {m}
    PROVE  ~(left[n][i] > 0)
<1> SUFFICES ASSUME left[n][i] > 0 PROVE FALSE
  OBVIOUS
<1>1. lease[i].mac = n /\ Reaches(lease[i].expiry, now, left[n][i])
  BY DEF DhcpInv, Covered
<1>2. left[n][i] \in 1 .. LEASE_TIME
  BY ClockAssumption DEF DhcpInv, DhcpTypeOK
<1>3. ~IsExpired(i)
  BY <1>1, <1>2, LiveIsNotExpired DEF DhcpInv
<1> QED BY <1>1, <1>3, MacAssumption DEF FirstOwn, FirstReusable

\* DHCPDISCOVER clears expired entries only, so no holder loses its entry.
LEMMA DiscoverInv ==
    ASSUME DhcpInv, NEW m \in Mac, Discover(m)
    PROVE  DhcpInv' /\ OfferedIsFree'
<1> USE DEF DhcpInv
<1>1. DhcpTypeOK'
  <2>1. lease' \in [Slots -> [mac : Mac \cup {NoMac}, expiry : 0 .. Units - 1]]
    BY DEF Discover, DhcpTypeOK
  <2>2. answer' \in Answers
    BY DEF Discover, Answers, Offer, Ignored
  <2> QED BY <2>1, <2>2 DEF Discover, DhcpTypeOK
<1>2. ASSUME NEW n \in Mac, NEW i \in Slots PROVE Covered(n, i)'
  <2> SUFFICES ASSUME left[n][i] > 0
               PROVE  lease'[i] = lease[i]
    BY DEF Covered, Reaches, Discover
  <2>1. ~(FirstReusable(m, i) /\ IsExpired(i))
    <3>1. CASE n = m
      BY <3>1 DEF Covered, FirstReusable
    <3>2. CASE n # m
      BY <3>2, ReusableIsFree
    <3> QED BY <3>1, <3>2
  <2> QED BY <2>1 DEF Discover
<1>3. OfferedIsFree'
  <2> SUFFICES ASSUME answer'.type = "offer",
                      NEW n \in Mac \ {answer'.mac}
               PROVE  left[n][answer'.ip] <= 0
    BY DEF OfferedIsFree, Discover
  <2>1. PICK i \in Slots : answer' = Offer(m, i) /\ (FirstOwn(m, i) \/ FirstReusable(m, i))
    BY DEF Discover, Ignored
  <2>2. answer'.mac = m /\ answer'.ip = i
    BY <2>1 DEF Offer
  <2>3. ~(left[n][i] > 0)
    BY <2>1, <2>2, ReusableIsFree
  <2>4. left[n][i] \in Int
    BY ClockAssumption DEF DhcpTypeOK
  <2> QED BY <2>2, <2>3, <2>4
<1> QED BY <1>1, <1>2, <1>3

\* DHCPREQUEST writes an entry its client may have, and the entry lasts as
\* long as the lease.
LEMMA RequestInv ==
    ASSUME DhcpInv, NEW m \in Mac, NEW i \in Slots, Request(m, i)
    PROVE  DhcpInv' /\ OfferedIsFree'
<1> USE DEF DhcpInv
<1>1. Expiry \in 0 .. Units - 1 /\ Reaches(Expiry, now, LEASE_TIME)
  BY ExpiryReaches DEF DhcpTypeOK
<1>2. DhcpTypeOK'
  <2>1. lease' \in [Slots -> [mac : Mac \cup {NoMac}, expiry : 0 .. Units - 1]]
    BY <1>1 DEF Request, DhcpTypeOK
  <2>2. left' \in [Mac -> [Slots -> 0 .. LEASE_TIME]]
    BY ClockAssumption DEF Request, DhcpTypeOK
  <2>3. answer' \in Answers
    BY DEF Request, Answers
  <2> QED BY <2>1, <2>2, <2>3 DEF Request, DhcpTypeOK
<1>3. ASSUME NEW n \in Mac, NEW j \in Slots PROVE Covered(n, j)'
  <2>1. CASE j # i
    <3>1. lease'[j] = lease[j] /\ left'[n][j] = left[n][j]
      BY <2>1 DEF Request, DhcpTypeOK
    <3> QED BY <3>1 DEF Covered, Reaches, Request
  <2>2. CASE j = i /\ n = m
    <3>1. lease'[i] = [mac |-> m, expiry |-> Expiry] /\ left'[m][i] = LEASE_TIME
      BY DEF Request, DhcpTypeOK
    <3> QED BY <3>1, <2>2, <1>1 DEF Covered, Reaches, Request
  <2>3. CASE j = i /\ n # m
    <3>1. left'[n][i] = left[n][i]
      BY <2>3 DEF Request, DhcpTypeOK
    <3>2. ~(left[n][i] > 0)
      BY <2>3, MacAssumption DEF Request, MayHave, Covered
    <3> QED BY <3>1, <3>2, <2>3 DEF Covered
  <2> QED BY <2>1, <2>2, <2>3
<1>4. OfferedIsFree'
  BY DEF OfferedIsFree, Request
<1> QED BY <1>2, <1>3, <1>4

\* While time passes an entry stays ahead of the lease it stands for.
LEMMA TickInv ==
    ASSUME DhcpInv, Tick
    PROVE  DhcpInv' /\ OfferedIsFree'
<1> USE DEF DhcpInv
<1>1. now \in 0 .. Word - 1 /\ now' \in 0 .. Word - 1
      /\ (now' = now + 1 \/ (now = Word - 1 /\ now' = 0))
  <2>1. now \in 0 .. Word - 1
    BY DEF DhcpTypeOK
  <2>2. CASE now + 1 < Word
    <3> DEFINE x == now + 1
    <3>1. x \in 0 .. Word - 1
      BY <2>1, <2>2, WordSize
    <3>2. x % Word = x
      BY <3>1, WordSize, OneTurn
    <3> QED BY <2>1, <3>1, <3>2 DEF Tick
  <2>3. CASE now + 1 >= Word
    <3>1. now = Word - 1 /\ 0 \in 0 .. Word - 1
      BY <2>1, <2>3, WordSize
    <3>2. (0 + Word) % Word = 0
      BY <3>1, WordSize, OneTurn
    <3>3. now + 1 = 0 + Word
      BY <3>1, WordSize
    <3> QED BY <2>1, <3>1, <3>2, <3>3 DEF Tick
  <2> QED BY <2>1, <2>2, <2>3, WordSize
<1>2. DhcpTypeOK'
  <2>1. left' \in [Mac -> [Slots -> 0 .. LEASE_TIME]]
    BY ClockAssumption DEF Tick, DhcpTypeOK
  <2> QED BY <1>1, <2>1 DEF Tick, DhcpTypeOK, Answers, Ignored
<1>3. ASSUME NEW m \in Mac, NEW i \in Slots PROVE Covered(m, i)'
  <2> SUFFICES ASSUME left'[m][i] > 0
               PROVE  lease[i].mac = m /\ Reaches(lease[i].expiry, now', left'[m][i])
    BY DEF Covered, Reaches, Tick
  <2>1. /\ left[m][i] \in 1 .. LEASE_TIME
        /\ left'[m][i] = left[m][i] - 1
    BY ClockAssumption DEF Tick, DhcpTypeOK
  <2>2. lease[i].mac = m /\ Reaches(lease[i].expiry, now, left[m][i])
    BY <2>1 DEF Covered
  <2>3. LastTick(lease[i].expiry) \in 0 .. Word - 1
    BY LastTickInWord DEF DhcpTypeOK
  <2> HIDE DEF DhcpInv
  <2>4. CASE now' = now + 1
    BY <2>1, <2>2, <2>3, <2>4, <1>1, WordSize, ClockAssumption DEF Reaches
  <2>5. CASE now = Word - 1 /\ now' = 0
    BY <2>1, <2>2, <2>3, <2>5, <1>1, WordSize, ClockAssumption DEF Reaches
  <2> QED BY <2>2, <2>4, <2>5, <1>1
<1>4. OfferedIsFree'
  BY DEF OfferedIsFree, Tick, Ignored
<1> QED BY <1>2, <1>3, <1>4

\* The table covers every client that may still use an address, and offers
\* nothing that is in use: the strengthened invariant of the server.
THEOREM DhcpInvariance == DhcpSpec => [](DhcpInv /\ OfferedIsFree)
<1>1. DhcpInit => DhcpInv /\ OfferedIsFree
  BY DhcpInitInv DEF DhcpInit, OfferedIsFree, Ignored
<1>2. DhcpInv /\ OfferedIsFree /\ [DhcpNext]_dhcpVars => DhcpInv' /\ OfferedIsFree'
  <2> SUFFICES ASSUME DhcpInv, OfferedIsFree, [DhcpNext]_dhcpVars
               PROVE  DhcpInv' /\ OfferedIsFree'
    OBVIOUS
  <2>1. ASSUME NEW m \in Mac, Discover(m) PROVE DhcpInv' /\ OfferedIsFree'
    BY <2>1, DiscoverInv
  <2>2. ASSUME NEW m \in Mac, NEW i \in Slots, Request(m, i) PROVE DhcpInv' /\ OfferedIsFree'
    BY <2>2, RequestInv
  <2>3. CASE IgnoreRequest
    <3>1. UNCHANGED <<lease, now, left>> /\ answer' = Ignored
      BY <2>3 DEF IgnoreRequest
    <3>2. DhcpTypeOK'
      BY <3>1 DEF DhcpInv, DhcpTypeOK, Answers, Ignored
    <3>3. \A m \in Mac, i \in Slots : Covered(m, i)'
      BY <3>1 DEF DhcpInv, Covered, Reaches
    <3> QED BY <3>1, <3>2, <3>3 DEF DhcpInv, OfferedIsFree, Ignored
  <2>4. CASE Tick
    BY <2>4, TickInv
  <2>5. CASE UNCHANGED dhcpVars
    BY <2>5 DEF dhcpVars, DhcpInv, DhcpTypeOK, Covered, Reaches, OfferedIsFree
  <2> QED BY <2>1, <2>2, <2>3, <2>4, <2>5 DEF DhcpNext
<1> QED BY <1>1, <1>2, PTL DEF DhcpSpec

\* The table, the clock and the answers of the server keep their types; in
\* particular expiry fits its 16 bits and every offered address is in the table.
THEOREM DhcpTypeCorrect == DhcpSpec => []DhcpTypeOK
<1>1. DhcpInv => DhcpTypeOK
  BY DEF DhcpInv
<1> QED BY <1>1, DhcpInvariance, PTL

\* No two clients hold one address: dhcp_server_process hands an address out
\* again only when its last lease is over, at every width of the counters.
THEOREM ExclusiveLeases == DhcpSpec => []NoDoubleLease
<1>1. DhcpInv => NoDoubleLease
  BY DEF DhcpInv, Covered, NoDoubleLease
<1> QED BY <1>1, DhcpInvariance, PTL

\* A DHCPOFFER never names an address that another client still holds.
THEOREM OffersAreFree == DhcpSpec => []OfferedIsFree
BY DhcpInvariance, PTL

-----------------------------------------------------------------------------
LEMMA Least ==
    ASSUME NEW S \in SUBSET Nat, S # {}
    PROVE  \E x \in S : \A y \in S : x <= y
<1>1. \E x \in S : \A y \in S : <<y, x>> \notin OpToRel(<, Nat)
  BY NatLessThanWellFounded, WFMin
<1>2. \A x, y \in S : y < x => <<y, x>> \in OpToRel(<, Nat)
  BY DEF OpToRel
<1>3. \E x \in S : \A y \in S : ~(y < x)
  BY <1>1, <1>2
<1> QED BY <1>3

-----------------------------------------------------------------------------
(* The messages of DHCP.  Three functions are defined by going forward in  *)
(* a sequence: the client's encoding and decoding, and the server's search *)
(* (opt_find).  Each exists because every step goes forward.               *)

LEMMA Downward ==
    ASSUME NEW n \in Nat, NEW S \in SUBSET Nat, n + 1 \in S, \A lo \in 1..n : lo + 1 \in S => lo \in S
    PROVE  1 \in S
<1> DEFINE Bad == {k \in 0..n : n + 1 - k \notin S}
<1>1. SUFFICES ASSUME Bad # {} PROVE FALSE
  <2>1. n \in 0..n /\ n + 1 - n = 1
    OBVIOUS
  <2>2. ASSUME Bad = {} PROVE 1 \in S
    <3>1. n \notin Bad
      BY <2>2
    <3>2. n + 1 - n \in S
      BY <2>1, <3>1
    <3> QED BY <2>1, <3>2
  <2> QED BY <2>2
<1>2. PICK m \in Bad : \A y \in Bad : m <= y
  <2>1. Bad \in SUBSET Nat
    OBVIOUS
  <2> HIDE DEF Bad
  <2> QED BY <1>1, <2>1, Least
<1>3. m # 0
  BY <1>2
<1>4. m - 1 \in 0..n /\ m - 1 \notin Bad
  BY <1>2, <1>3
<1>5. n + 1 - m \in 1..n /\ n + 1 - (m - 1) = (n + 1 - m) + 1
  BY <1>2, <1>3
<1>6. (n + 1 - m) + 1 \in S
  BY <1>4, <1>5
<1>7. n + 1 - m \in S
  BY <1>5, <1>6
<1> QED BY <1>2, <1>7

LEMMA Upward ==
    ASSUME NEW n \in Nat, NEW S \in SUBSET Nat, 1 \in S, \A i \in 1..n : i \in S => i + 1 \in S
    PROVE  n + 1 \in S
<1> DEFINE Bad == {k \in 1..n + 1 : k \notin S}
<1>1. SUFFICES ASSUME Bad # {} PROVE FALSE
  OBVIOUS
<1>2. PICK m \in Bad : \A y \in Bad : m <= y
  <2>1. Bad \in SUBSET Nat
    OBVIOUS
  <2> HIDE DEF Bad
  <2> QED BY <1>1, <2>1, Least
<1>3. m # 1
  BY <1>2
<1>4. m - 1 \in 1..n /\ m - 1 \notin Bad /\ (m - 1) + 1 = m
  BY <1>2, <1>3
<1>5. m - 1 \in S
  BY <1>4
<1>6. m \in S
  BY <1>4, <1>5
<1> QED BY <1>2, <1>6

EncodingFrom(list, lo, e) ==
    [i \in lo..Len(list) + 1 |->
        IF i > Len(list) THEN <<DHCP_OPT_END>>
        ELSE <<list[i].code, Len(list[i].value)>> \o list[i].value \o e[i + 1]]

LEMMA EncodingExists ==
    ASSUME NEW list, Len(list) \in Nat
    PROVE  \E e : e = EncodingFrom(list, 1, e)
<1> DEFINE n == Len(list)
           E(i, e) == IF i > n THEN <<DHCP_OPT_END>>
                      ELSE <<list[i].code, Len(list[i].value)>> \o list[i].value \o e[i + 1]
           Ok(lo) == \E e : e = [i \in lo..n + 1 |-> E(i, e)]
<1>1. n \in Nat
  OBVIOUS
<1>2. ASSUME NEW e PROVE EncodingFrom(list, 1, e) = [i \in 1..n + 1 |-> E(i, e)]
  BY DEF EncodingFrom
<1>3. Ok(n + 1)
  <2> DEFINE f == [i \in n + 1..n + 1 |-> <<DHCP_OPT_END>>]
  <2>1. \A i \in n + 1..n + 1 : i > n
    BY <1>1
  <2>2. [i \in n + 1..n + 1 |-> E(i, f)] = [i \in n + 1..n + 1 |-> <<DHCP_OPT_END>>]
    BY <2>1, Zenon
  <2>3. f = [i \in n + 1..n + 1 |-> E(i, f)]
    BY <2>2, Zenon
  <2> HIDE DEF f, E
  <2> QED BY <2>3
<1>4. ASSUME NEW lo \in 1..n, Ok(lo + 1) PROVE Ok(lo)
  <2>1. PICK f : f = [i \in lo + 1..n + 1 |-> E(i, f)]
    BY <1>4
  <2> DEFINE g == [i \in lo..n + 1 |-> E(i, f)]
  <2>2. ASSUME NEW i \in lo..n + 1, ~(i > n) PROVE g[i + 1] = f[i + 1]
    <3>1. i + 1 \in lo + 1..n + 1 /\ i + 1 \in lo..n + 1
      BY <1>1, <2>2
    <3> DEFINE w == [j \in lo + 1..n + 1 |-> E(j, f)]
    <3> HIDE DEF E
    <3>2. w[i + 1] = E(i + 1, f) /\ g[i + 1] = E(i + 1, f)
      BY <3>1
    <3> HIDE DEF w, g
    <3>3. f = w
      BY <2>1 DEF w
    <3> QED BY <3>2, <3>3
  <2>3. ASSUME NEW i \in lo..n + 1 PROVE E(i, f) = E(i, g)
    <3> HIDE DEF g
    <3> QED BY <2>2, Zenon
  <2>4. g = [i \in lo..n + 1 |-> E(i, g)]
    <3> HIDE DEF E
    <3>1. [i \in lo..n + 1 |-> E(i, f)] = [i \in lo..n + 1 |-> E(i, g)]
      BY <2>3, Zenon
    <3> QED BY <3>1
  <2> HIDE DEF g, E
  <2> QED BY <2>4
<1> HIDE DEF Ok
<1>5. Ok(1)
  <2> DEFINE S == {lo \in 1..n + 1 : Ok(lo)}
  <2>1. n + 1 \in S /\ S \in SUBSET Nat
    BY <1>1, <1>3
  <2>2. ASSUME NEW lo \in 1..n, lo + 1 \in S PROVE lo \in S
    BY <1>4, <2>2
  <2>3. 1 \in S
    <3> HIDE DEF S, n
    <3> QED BY <1>1, <2>1, <2>2, Downward
  <2> QED BY <2>3
<1> QED BY <1>2, <1>5 DEF Ok

LEMMA GoesForward ==
    ASSUME NEW s \in Seq(Byte), NEW i \in Nat, i < Len(s)
    PROVE  /\ s[i + 1] \in 0..255 /\ i + 2 + s[i + 1] \in Nat
           /\ i + 2 <= i + 2 + s[i + 1] /\ i + 2 + s[i + 1] <= Len(s) + 256
<1>1. i + 1 \in 1..Len(s)
  OBVIOUS
<1>2. s[i + 1] \in 0..255
  <2>1. s[i + 1] \in Byte
    BY <1>1
  <2> QED BY <2>1 DEF Byte
<1> DEFINE x == s[i + 1]
           l == Len(s)
<1>3. l \in Nat /\ i < l /\ x \in 0..255
  BY <1>2
<1> HIDE DEF x, l
<1>4. i + 2 + x \in Nat /\ i + 2 <= i + 2 + x /\ i + 2 + x <= l + 256
  BY <1>3
<1> QED BY <1>2, <1>4 DEF x, l

SearchFrom(opt, cmd, lo, f) ==
    [i \in lo..OPTIONS + 257 |->
        IF i > OPTIONS \/ i >= Len(opt) \/ opt[i] = DHCP_OPT_END THEN 0
        ELSE IF opt[i] = cmd THEN i ELSE f[i + 2 + opt[i + 1]]]

LEMMA SearchExists ==
    ASSUME NEW opt \in Seq(Byte), NEW cmd
    PROVE  \E f : f = SearchFrom(opt, cmd, 1, f)
<1> DEFINE n == OPTIONS + 256
           Stop(i) == i > OPTIONS \/ i >= Len(opt) \/ opt[i] = DHCP_OPT_END
           E(i, f) == IF Stop(i) THEN 0 ELSE IF opt[i] = cmd THEN i ELSE f[i + 2 + opt[i + 1]]
           Ok(lo) == \E f : f = [i \in lo..n + 1 |-> E(i, f)]
<1>1. n \in Nat /\ n + 1 = OPTIONS + 257
  BY DEF OPTIONS
<1>2. ASSUME NEW f PROVE SearchFrom(opt, cmd, 1, f) = [i \in 1..n + 1 |-> E(i, f)]
  <2> HIDE DEF n
  <2> QED BY <1>1, Zenon DEF SearchFrom
<1>3. Ok(n + 1)
  <2> DEFINE f == [i \in n + 1..n + 1 |-> 0]
  <2>1. \A i \in n + 1..n + 1 : Stop(i)
    BY DEF OPTIONS
  <2> HIDE DEF Stop
  <2>2. [i \in n + 1..n + 1 |-> E(i, f)] = [i \in n + 1..n + 1 |-> 0]
    BY <2>1, Zenon
  <2>3. f = [i \in n + 1..n + 1 |-> E(i, f)]
    BY <2>2, Zenon
  <2> HIDE DEF f, E
  <2> QED BY <2>3
<1>4. ASSUME NEW lo \in 1..n, Ok(lo + 1) PROVE Ok(lo)
  <2>1. PICK f : f = [i \in lo + 1..n + 1 |-> E(i, f)]
    BY <1>4
  <2> DEFINE g == [i \in lo..n + 1 |-> E(i, f)]
  <2>2. ASSUME NEW i \in lo..n + 1, ~Stop(i)
        PROVE  g[i + 2 + opt[i + 1]] = f[i + 2 + opt[i + 1]]
    <3> DEFINE x == i + 2 + opt[i + 1]
    <3>1. x \in lo + 1..n + 1 /\ x \in lo..n + 1
      <4>1. i \in Nat /\ i < Len(opt) /\ lo <= i /\ lo \in Nat /\ i <= OPTIONS
        BY <1>1, <2>2 DEF OPTIONS
      <4>2. x \in Nat /\ i + 2 <= x /\ opt[i + 1] \in 0..255
        BY <4>1, GoesForward
      <4>3. x <= i + 257
        <5> DEFINE z == opt[i + 1]
        <5>1. z \in 0..255 /\ i \in Nat
          BY <4>1, <4>2
        <5> HIDE DEF z
        <5>2. i + 2 + z <= i + 257
          BY <5>1
        <5> QED BY <5>2 DEF z
      <4> HIDE DEF x, E
      <4> QED BY <1>1, <4>1, <4>2, <4>3 DEF OPTIONS
    <3> DEFINE w == [j \in lo + 1..n + 1 |-> E(j, f)]
    <3> HIDE DEF E, x
    <3>2. w[x] = E(x, f) /\ g[x] = E(x, f)
      BY <3>1
    <3> HIDE DEF w, g
    <3>3. f = w
      BY <2>1 DEF w
    <3> QED BY <3>2, <3>3 DEF x
  <2>3. ASSUME NEW i \in lo..n + 1 PROVE E(i, f) = E(i, g)
    <3> HIDE DEF g, Stop
    <3> QED BY <2>2, Zenon
  <2>4. g = [i \in lo..n + 1 |-> E(i, g)]
    <3> HIDE DEF E
    <3>1. [i \in lo..n + 1 |-> E(i, f)] = [i \in lo..n + 1 |-> E(i, g)]
      BY <2>3, Zenon
    <3> QED BY <3>1
  <2> HIDE DEF g, E
  <2> QED BY <2>4
<1> HIDE DEF Ok
<1>5. Ok(1)
  <2> DEFINE S == {lo \in 1..n + 1 : Ok(lo)}
  <2>1. n + 1 \in S /\ S \in SUBSET Nat
    BY <1>1, <1>3
  <2>2. ASSUME NEW lo \in 1..n, lo + 1 \in S PROVE lo \in S
    <3>1. lo \in 1..n + 1
      BY <1>1
    <3> HIDE DEF Ok
    <3> QED BY <1>4, <2>2, <3>1
  <2>3. 1 \in S
    <3> HIDE DEF S, n
    <3> QED BY <1>1, <2>1, <2>2, Downward
  <2> QED BY <2>3
<1>6. PICK f : f = [i \in 1..n + 1 |-> E(i, f)]
  BY <1>5 DEF Ok
<1> HIDE DEF n, E
<1>7. f = SearchFrom(opt, cmd, 1, f)
  BY <1>2, <1>6, Zenon
<1> QED BY <1>7

DecodingFrom(bytes, lo, f) ==
    [i \in lo..Len(bytes) + 257 |->
        IF i > Len(bytes) THEN {Option(0, <<>>)}
        ELSE IF bytes[i] = DHCP_OPT_END THEN {}
        ELSE IF i = Len(bytes) \/ i + 1 + bytes[i + 1] > Len(bytes) THEN {Option(0, <<>>)}
        ELSE {Option(bytes[i], SubSeq(bytes, i + 2, i + 1 + bytes[i + 1]))} \cup f[i + 2 + bytes[i + 1]]]

LEMMA DecodingExists ==
    ASSUME NEW bytes \in Seq(Byte)
    PROVE  \E f : f = DecodingFrom(bytes, 1, f)
<1> DEFINE n == Len(bytes) + 256
           Over(i) == i = Len(bytes) \/ i + 1 + bytes[i + 1] > Len(bytes)
           E(i, f) == IF i > Len(bytes) THEN {Option(0, <<>>)}
                      ELSE IF bytes[i] = DHCP_OPT_END THEN {}
                      ELSE IF Over(i) THEN {Option(0, <<>>)}
                      ELSE {Option(bytes[i], SubSeq(bytes, i + 2, i + 1 + bytes[i + 1]))}
                           \cup f[i + 2 + bytes[i + 1]]
           Ok(lo) == \E f : f = [i \in lo..n + 1 |-> E(i, f)]
<1>1. n \in Nat /\ n + 1 = Len(bytes) + 257
  OBVIOUS
<1>2. ASSUME NEW f PROVE DecodingFrom(bytes, 1, f) = [i \in 1..n + 1 |-> E(i, f)]
  <2> HIDE DEF n
  <2> QED BY <1>1, Zenon DEF DecodingFrom
<1>3. Ok(n + 1)
  <2> DEFINE z == {Option(0, <<>>)}
             f == [i \in n + 1..n + 1 |-> z]
  <2>1. \A i \in n + 1..n + 1 : i > Len(bytes)
    OBVIOUS
  <2>2. [i \in n + 1..n + 1 |-> E(i, f)] = [i \in n + 1..n + 1 |-> z]
    BY <2>1, Zenon
  <2>3. f = [i \in n + 1..n + 1 |-> E(i, f)]
    BY <2>2, Zenon
  <2> HIDE DEF f, E
  <2> QED BY <2>3
<1>4. ASSUME NEW lo \in 1..n, Ok(lo + 1) PROVE Ok(lo)
  <2>1. PICK f : f = [i \in lo + 1..n + 1 |-> E(i, f)]
    BY <1>4
  <2> DEFINE g == [i \in lo..n + 1 |-> E(i, f)]
  <2>2. ASSUME NEW i \in lo..n + 1, ~(i > Len(bytes)), ~Over(i)
        PROVE  g[i + 2 + bytes[i + 1]] = f[i + 2 + bytes[i + 1]]
    <3> DEFINE x == i + 2 + bytes[i + 1]
    <3>1. x \in lo + 1..n + 1 /\ x \in lo..n + 1
      <4>1. i \in Nat /\ i < Len(bytes) /\ lo <= i /\ lo \in Nat
        BY <1>1, <2>2
      <4>2. x \in Nat /\ i + 2 <= x /\ x <= Len(bytes) + 256
        BY <4>1, GoesForward
      <4> HIDE DEF x, E
      <4> QED BY <1>1, <4>1, <4>2
    <3> DEFINE w == [j \in lo + 1..n + 1 |-> E(j, f)]
    <3> HIDE DEF E, x
    <3>2. w[x] = E(x, f) /\ g[x] = E(x, f)
      BY <3>1
    <3> HIDE DEF w, g
    <3>3. f = w
      BY <2>1 DEF w
    <3> QED BY <3>2, <3>3 DEF x
  <2>3. ASSUME NEW i \in lo..n + 1 PROVE E(i, f) = E(i, g)
    <3> HIDE DEF g, Over
    <3> QED BY <2>2, Zenon
  <2>4. g = [i \in lo..n + 1 |-> E(i, g)]
    <3> HIDE DEF E
    <3>1. [i \in lo..n + 1 |-> E(i, f)] = [i \in lo..n + 1 |-> E(i, g)]
      BY <2>3, Zenon
    <3> QED BY <3>1
  <2> HIDE DEF g, E
  <2> QED BY <2>4
<1> HIDE DEF Ok
<1>5. Ok(1)
  <2> DEFINE S == {lo \in 1..n + 1 : Ok(lo)}
  <2>1. n + 1 \in S /\ S \in SUBSET Nat
    BY <1>1, <1>3
  <2>2. ASSUME NEW lo \in 1..n, lo + 1 \in S PROVE lo \in S
    BY <1>4, <2>2
  <2>3. 1 \in S
    <3> HIDE DEF S, n
    <3> QED BY <1>1, <2>1, <2>2, Downward
  <2> QED BY <2>3
<1>6. PICK f : f = [i \in 1..n + 1 |-> E(i, f)]
  BY <1>5 DEF Ok
<1> HIDE DEF n, E
<1>7. f = DecodingFrom(bytes, 1, f)
  BY <1>2, <1>6, Zenon
<1> QED BY <1>7

(* The sequence x stands in y behind its first base bytes. *)
Holds(y, base, x) == \A i \in 1..Len(x) : y[base + i] = x[i]

LEMMA AtParts ==
    ASSUME NEW y, NEW base \in Nat, NEW a \in Seq(Byte), NEW b \in Seq(Byte), Holds(y, base, a \o b)
    PROVE  Holds(y, base, a) /\ Holds(y, base + Len(a), b)
<1> DEFINE s == a \o b
<1>1. /\ Len(s) = Len(a) + Len(b)
      /\ \A i \in 1..Len(a) : s[i] = a[i]
      /\ \A i \in 1..Len(b) : s[Len(a) + i] = b[i]
  OBVIOUS
<1> HIDE DEF s
<1>2. Len(a) \in Nat /\ Len(b) \in Nat
  OBVIOUS
<1>3. \A i \in 1..Len(s) : y[base + i] = s[i]
  BY DEF Holds, s
<1>4. ASSUME NEW i \in 1..Len(a) PROVE y[base + i] = a[i]
  BY <1>1, <1>2, <1>3
<1>5. ASSUME NEW i \in 1..Len(b) PROVE y[(base + Len(a)) + i] = b[i]
  <2>1. Len(a) + i \in 1..Len(s) /\ base + (Len(a) + i) = (base + Len(a)) + i
    BY <1>1, <1>2
  <2> QED BY <1>1, <1>3, <2>1
<1> QED BY <1>4, <1>5 DEF Holds

LEMMA Joining ==
    ASSUME NEW a \in Seq(Byte), NEW b \in Seq(Byte)
    PROVE  a \o b \in Seq(Byte) /\ Len(a \o b) = Len(a) + Len(b)
OBVIOUS

LEMMA Pairs ==
    ASSUME NEW c \in Byte, NEW l \in Byte
    PROVE  <<c, l>> \in Seq(Byte) /\ Len(<<c, l>>) = 2 /\ <<c, l>>[1] = c /\ <<c, l>>[2] = l
OBVIOUS

(* A list of options and its encoding. *)
IsOption(o) == o.code \in Byte \ {DHCP_OPT_END} /\ o.value \in Seq(Byte) /\ Len(o.value) <= 255
IsList(list) == Len(list) \in Nat /\ \A i \in 1..Len(list) : IsOption(list[i])

Head2(o) == <<o.code, Len(o.value)>>

IsEncoding(list, e) ==
    /\ e[Len(list) + 1] = <<DHCP_OPT_END>>
    /\ \A i \in 1..Len(list) : e[i] = Head2(list[i]) \o list[i].value \o e[i + 1]
    /\ \A i \in 1..Len(list) + 1 : e[i] \in Seq(Byte)

LEMMA OptionIs ==
    ASSUME NEW o, IsOption(o)
    PROVE  /\ o.value \in Seq(Byte) /\ Len(o.value) \in Byte /\ o.code \in Byte
           /\ Head2(o) \in Seq(Byte) /\ Len(Head2(o)) = 2
           /\ Head2(o)[1] = o.code /\ Head2(o)[2] = Len(o.value)
<1>0. o.value \in Seq(Byte) /\ Len(o.value) <= 255 /\ o.code \in Byte
  BY Zenon DEF IsOption
<1> DEFINE l == Len(o.value)
<1>2. l \in Nat /\ l <= 255
  BY <1>0
<1>3. l \in Byte
  <2> HIDE DEF l
  <2> QED BY <1>2 DEF Byte
<1>1. o.value \in Seq(Byte) /\ Len(o.value) \in Byte /\ o.code \in Byte
  BY <1>0, <1>3
<1> QED BY <1>1, Pairs DEF Head2

LEMMA EncodingIs ==
    ASSUME NEW list, IsList(list)
    PROVE  \E e : IsEncoding(list, e) /\ OptionBytes(list) = e[1]
<1> DEFINE n == Len(list)
           e == CHOOSE e : e = EncodingFrom(list, 1, e)
           w == EncodingFrom(list, 1, e)
<1>1. n \in Nat
  BY DEF IsList
<1>2. e = w
  <2>1. \E x : x = EncodingFrom(list, 1, x)
    BY <1>1, EncodingExists
  <2> QED BY <2>1, Zenon
<1>3. OptionBytes(list) = e[1]
  BY Zenon DEF OptionBytes, EncodingFrom
<1> HIDE DEF e
<1>4. \A i \in 1..n + 1 :
        w[i] = IF i > n THEN <<DHCP_OPT_END>>
               ELSE <<list[i].code, Len(list[i].value)>> \o list[i].value \o e[i + 1]
  BY DEF EncodingFrom
<1> HIDE DEF w
<1>5. e[n + 1] = <<DHCP_OPT_END>>
  <2>1. n + 1 \in 1..n + 1 /\ n + 1 > n
    BY <1>1
  <2> HIDE DEF n
  <2> QED BY <1>2, <1>4, <2>1, Zenon
<1>6. ASSUME NEW i \in 1..n PROVE e[i] = Head2(list[i]) \o list[i].value \o e[i + 1]
  <2>1. i \in 1..n + 1 /\ ~(i > n)
    BY <1>1
  <2> HIDE DEF n
  <2> QED BY <1>2, <1>4, <2>1, Zenon DEF Head2
<1>7. e[n + 1] \in Seq(Byte)
  <2>1. <<DHCP_OPT_END>> \in Seq(Byte)
    BY DEF DHCP_OPT_END, Byte
  <2> QED BY <1>5, <2>1
<1>8. ASSUME NEW lo \in 1..n, e[lo + 1] \in Seq(Byte) PROVE e[lo] \in Seq(Byte)
  <2>1. IsOption(list[lo])
    BY DEF IsList
  <2>2. Head2(list[lo]) \in Seq(Byte) /\ list[lo].value \in Seq(Byte)
    BY <2>1, OptionIs
  <2>3. Head2(list[lo]) \o list[lo].value \in Seq(Byte)
    BY <2>2, Joining, Zenon
  <2> QED BY <1>6, <1>8, <2>3, Joining, Zenon
<1> DEFINE Ok(i) == e[i] \in Seq(Byte)
           S == {i \in 1..n + 1 : \A j \in i..n + 1 : Ok(j)}
<1>9. S \in SUBSET Nat /\ n + 1 \in S
  <2> HIDE DEF n
  <2>1. \A j \in n + 1..n + 1 : j = n + 1
    BY <1>1
  <2>2. \A j \in n + 1..n + 1 : Ok(j)
    BY <1>7, <2>1
  <2>3. n + 1 \in 1..n + 1
    BY <1>1
  <2> HIDE DEF Ok
  <2> QED BY <1>1, <2>2, <2>3
<1>10. ASSUME NEW lo \in 1..n, lo + 1 \in S PROVE lo \in S
  <2>1. \A j \in lo + 1..n + 1 : Ok(j)
    BY <1>10
  <2> HIDE DEF n
  <2>2. lo + 1 \in lo + 1..n + 1 /\ lo \in 1..n + 1
    BY <1>1
  <2>3. Ok(lo)
    BY <1>8, <2>1, <2>2
  <2> HIDE DEF Ok
  <2>4. ASSUME NEW j \in lo..n + 1 PROVE Ok(j)
    <3>1. j = lo \/ j \in lo + 1..n + 1
      BY <1>1
    <3> QED BY <2>1, <2>3, <3>1
  <2> QED BY <2>2, <2>4
<1>11. 1 \in S
  <2> HIDE DEF S, n
  <2> QED BY <1>1, <1>9, <1>10, Downward
<1>12. \A i \in 1..n + 1 : e[i] \in Seq(Byte)
  BY <1>11
<1> QED BY <1>3, <1>5, <1>6, <1>12, Zenon DEF IsEncoding

(* Behind the first base bytes of y stands what is encoded from the i-th   *)
(* option on.                                                              *)
Placed(y, e, i, base) == base \in Nat /\ Holds(y, base, e[i]) /\ base + Len(e[i]) <= Len(y)

LEMMA NextPlaced ==
    ASSUME NEW y \in Seq(Byte), NEW list, IsList(list), NEW e, IsEncoding(list, e),
           NEW i \in 1..Len(list), NEW base, Placed(y, e, i, base)
    PROVE  /\ base \in Nat /\ base + 2 + Len(list[i].value) <= Len(y) /\ Len(list[i].value) \in Nat
           /\ Holds(y, base, Head2(list[i])) /\ Holds(y, base + 2, list[i].value)
           /\ Placed(y, e, i + 1, base + 2 + Len(list[i].value))
<1> DEFINE h == Head2(list[i])
           v == list[i].value
           t == e[i + 1]
<1>1. IsOption(list[i])
  BY DEF IsList
<1>2. h \in Seq(Byte) /\ Len(h) = 2 /\ v \in Seq(Byte)
  BY <1>1, OptionIs
<1>3. Len(list) \in Nat
  BY DEF IsList
<1>4. i + 1 \in 1..Len(list) + 1
  BY <1>3
<1>5. t \in Seq(Byte) /\ e[i] = h \o v \o t
  BY <1>4, Zenon DEF IsEncoding
<1>6. base \in Nat /\ Holds(y, base, e[i]) /\ base + Len(e[i]) <= Len(y)
  BY DEF Placed
<1> HIDE DEF h, v, t
<1>7. h \o v \in Seq(Byte) /\ Len(h \o v) = 2 + Len(v) /\ Len(v) \in Nat /\ Len(t) \in Nat
  <2>1. h \o v \in Seq(Byte) /\ Len(h \o v) = Len(h) + Len(v)
    BY <1>2, Joining
  <2>2. Len(v) \in Nat /\ Len(t) \in Nat
    BY <1>2, <1>5
  <2>3. Len(h) = 2
    BY <1>2
  <2> QED BY <2>1, <2>2, <2>3
<1>8. Len(e[i]) = 2 + Len(v) + Len(t)
  BY <1>5, <1>7, Joining
<1>9. Holds(y, base, h \o v) /\ Holds(y, base + Len(h \o v), t)
  BY <1>5, <1>6, <1>7, AtParts
<1>10. Holds(y, base, h) /\ Holds(y, base + Len(h), v)
  BY <1>2, <1>6, <1>9, AtParts
<1> DEFINE l == Len(v)
           k == Len(t)
           m == Len(y)
<1>11. base + (2 + l) = base + 2 + l /\ base + 2 + l \in Nat /\ base + 2 + l + k <= m /\ base + 2 + l <= m
  <2>1. base \in Nat /\ l \in Nat /\ k \in Nat /\ m \in Nat /\ base + (2 + l + k) <= m
    BY <1>6, <1>7, <1>8
  <2> HIDE DEF l, k, m
  <2> QED BY <2>1
<1>12. Holds(y, base + 2 + l, t)
  BY <1>7, <1>9, <1>11
<1>13. Placed(y, e, i + 1, base + 2 + l)
  BY <1>11, <1>12 DEF Placed, t
<1> QED BY <1>2, <1>6, <1>7, <1>10, <1>11, <1>13 DEF h, v

LEMMA HeadAt ==
    ASSUME NEW y, NEW base \in Nat, NEW o, IsOption(o), Holds(y, base, Head2(o))
    PROVE  y[base + 1] = o.code /\ y[base + 2] = Len(o.value)
<1> DEFINE h == Head2(o)
<1>1. Len(h) = 2 /\ h[1] = o.code /\ h[2] = Len(o.value)
  BY OptionIs
<1> HIDE DEF h
<1>2. \A i \in 1..2 : y[base + i] = h[i]
  BY <1>1 DEF Holds, h
<1>3. 1 \in 1..2 /\ 2 \in 1..2
  OBVIOUS
<1> QED BY <1>1, <1>2, <1>3

Searching(y, cmd, f) == f = SearchFrom(y, cmd, 1, f)

LEMMA SearchAt ==
    ASSUME NEW y, NEW cmd, NEW f, Searching(y, cmd, f), NEW i \in 1..OPTIONS + 257
    PROVE  f[i] = IF i > OPTIONS \/ i >= Len(y) \/ y[i] = DHCP_OPT_END THEN 0
                  ELSE IF y[i] = cmd THEN i ELSE f[i + 2 + y[i + 1]]
<1> DEFINE w == SearchFrom(y, cmd, 1, f)
<1>1. w[i] = IF i > OPTIONS \/ i >= Len(y) \/ y[i] = DHCP_OPT_END THEN 0
             ELSE IF y[i] = cmd THEN i ELSE f[i + 2 + y[i + 1]]
  BY Zenon DEF SearchFrom
<1>2. f = w
  BY DEF Searching
<1> HIDE DEF w
<1> QED BY <1>1, <1>2, Zenon

(* A search in y comes to the option o behind the first base bytes. *)
GetsTo(y, cmd, f, o, base) ==
    /\ y \in Seq(Byte) /\ Len(y) <= OPTIONS /\ Searching(y, cmd, f) /\ IsOption(o)
    /\ base \in Nat /\ Holds(y, base, Head2(o)) /\ base + 2 <= Len(y)

LEMMA SearchStep ==
    ASSUME NEW y, NEW cmd, NEW f, NEW o, NEW base, GetsTo(y, cmd, f, o, base)
    PROVE  /\ o.code = cmd => f[base + 1] = base + 1
           /\ o.code # cmd => f[base + 1] = f[base + 2 + Len(o.value) + 1]
<1>0. /\ y \in Seq(Byte) /\ Len(y) <= OPTIONS /\ Searching(y, cmd, f) /\ IsOption(o)
      /\ base \in Nat /\ Holds(y, base, Head2(o)) /\ base + 2 <= Len(y)
  BY DEF GetsTo
<1> DEFINE i == base + 1
           l == Len(o.value)
<1>1. y[i] = o.code /\ y[i + 1] = l /\ o.code # DHCP_OPT_END /\ l \in Nat
  <2>1. y[base + 1] = o.code /\ y[base + 2] = Len(o.value)
    BY <1>0, HeadAt
  <2>2. i + 1 = base + 2
    BY <1>0
  <2>3. o.code # DHCP_OPT_END
    BY <1>0, Zenon DEF IsOption
  <2>4. o.value \in Seq(Byte)
    BY <1>0, Zenon DEF IsOption
  <2>5. Len(o.value) \in Nat
    BY <2>4
  <2> QED BY <2>1, <2>2, <2>3, <2>5
<1>2. i \in 1..OPTIONS + 257 /\ ~(i > OPTIONS) /\ ~(i >= Len(y)) /\ i + 2 + l = base + 2 + l + 1
  <2> HIDE DEF l
  <2> QED BY <1>0, <1>1 DEF OPTIONS
<1> HIDE DEF i, l
<1>3. f[i] = IF i > OPTIONS \/ i >= Len(y) \/ y[i] = DHCP_OPT_END THEN 0
             ELSE IF y[i] = cmd THEN i ELSE f[i + 2 + y[i + 1]]
  <2>1. i \in 1..OPTIONS + 257
    BY <1>2
  <2> QED BY <1>0, <2>1, SearchAt
<1>4. ~(i > OPTIONS \/ i >= Len(y) \/ y[i] = DHCP_OPT_END)
  BY <1>1, <1>2, Zenon
<1>5. f[i] = IF y[i] = cmd THEN i ELSE f[i + 2 + y[i + 1]]
  BY <1>3, <1>4, Zenon
<1>6. f[i] = IF o.code = cmd THEN i ELSE f[i + 2 + l]
  BY <1>1, <1>5, Zenon
<1>7. o.code = cmd => f[i] = i
  BY <1>6, Zenon
<1>8. o.code # cmd => f[i] = f[base + 2 + l + 1]
  BY <1>2, <1>6, Zenon
<1> QED BY <1>7, <1>8, Zenon DEF i, l

LEMMA SearchEnds ==
    ASSUME NEW y \in Seq(Byte), Len(y) <= OPTIONS, NEW cmd, NEW f, Searching(y, cmd, f),
           NEW base \in Nat, Holds(y, base, <<DHCP_OPT_END>>), base + 1 <= Len(y)
    PROVE  f[base + 1] = 0
<1>1. y[base + 1] = DHCP_OPT_END
  BY DEF Holds
<1>2. base + 1 \in 1..OPTIONS + 257
  BY DEF OPTIONS
<1> DEFINE i == base + 1
<1> HIDE DEF i
<1>3. f[i] = IF i > OPTIONS \/ i >= Len(y) \/ y[i] = DHCP_OPT_END THEN 0
             ELSE IF y[i] = cmd THEN i ELSE f[i + 2 + y[i + 1]]
  BY <1>2, SearchAt DEF i
<1>4. y[i] = DHCP_OPT_END
  BY <1>1 DEF i
<1>5. f[i] = 0
  BY <1>3, <1>4, Zenon
<1> QED BY <1>5 DEF i

LEMMA OptFind ==
    ASSUME NEW y \in Seq(Byte), NEW cmd
    PROVE  \E f : Searching(y, cmd, f) /\ opt_find(y, cmd) = f[1]
<1> DEFINE f == CHOOSE f : f = SearchFrom(y, cmd, 1, f)
<1>1. \E x : x = SearchFrom(y, cmd, 1, x)
  BY SearchExists
<1>2. f = SearchFrom(y, cmd, 1, f)
  BY <1>1, Zenon
<1>3. opt_find(y, cmd) = f[1]
  BY Zenon DEF opt_find, SearchFrom
<1> HIDE DEF f
<1> QED BY <1>2, <1>3 DEF Searching

(* A search that does not stop at the first m options goes on behind them. *)
Passes(list, e, cmd, f, m) ==
    /\ IsList(list) /\ IsEncoding(list, e) /\ Len(e[1]) <= OPTIONS /\ Searching(e[1], cmd, f)
    /\ m \in 0..Len(list) /\ \A i \in 1..m : list[i].code # cmd

LEMMA SearchSkips ==
    ASSUME NEW list, NEW e, NEW cmd, NEW f, NEW m, Passes(list, e, cmd, f, m)
    PROVE  \E base : Placed(e[1], e, m + 1, base) /\ f[base + 1] = f[1]
<1> DEFINE y == e[1]
           Ok(i) == \E base : Placed(y, e, i, base) /\ f[base + 1] = f[1]
           S == {i \in 1..m + 1 : Ok(i)}
<1>9. /\ IsList(list) /\ IsEncoding(list, e) /\ Len(e[1]) <= OPTIONS /\ Searching(e[1], cmd, f)
      /\ m \in 0..Len(list) /\ \A i \in 1..m : list[i].code # cmd
  BY DEF Passes
<1>0. Len(list) \in Nat /\ m \in Nat /\ m <= Len(list)
  BY <1>9 DEF IsList
<1>1. y \in Seq(Byte)
  <2>1. 1 \in 1..Len(list) + 1
    BY <1>0
  <2> QED BY <1>9, <2>1, Zenon DEF IsEncoding
<1>2. Ok(1)
  <2>1. Holds(y, 0, y)
    BY <1>1 DEF Holds
  <2>2. Placed(y, e, 1, 0)
    BY <1>1, <2>1 DEF Placed
  <2>3. 0 + 1 = 1
    OBVIOUS
  <2> HIDE DEF y
  <2> QED BY <2>2, <2>3
<1>3. ASSUME NEW i \in 1..m, Ok(i) PROVE Ok(i + 1)
  <2>1. PICK base : Placed(y, e, i, base) /\ f[base + 1] = f[1]
    BY <1>3
  <2>2. i \in 1..Len(list) /\ list[i].code # cmd
    BY <1>0, <1>9
  <2>3. IsOption(list[i])
    BY <1>9, <2>2 DEF IsList
  <2> DEFINE l == Len(list[i].value)
             nb == base + 2 + l
  <2>4. /\ base \in Nat /\ base + 2 + l <= Len(y) /\ l \in Nat
        /\ Holds(y, base, Head2(list[i])) /\ Placed(y, e, i + 1, nb)
    <3> HIDE DEF y
    <3> QED BY <1>1, <1>9, <2>1, <2>2, NextPlaced
  <2>5. base + 2 <= Len(y)
    <3> DEFINE z == Len(y)
    <3>1. z \in Nat
      BY <1>1
    <3> HIDE DEF z, l
    <3>2. base + 2 + l <= z => base + 2 <= z
      BY <2>4, <3>1
    <3> QED BY <2>4, <3>2 DEF z
  <2>6. f[base + 1] = f[nb + 1]
    <3> HIDE DEF nb
    <3> DEFINE o == list[i]
    <3>2. Len(y) <= OPTIONS /\ Searching(y, cmd, f)
      BY <1>9
    <3>3. IsOption(o) /\ o.code # cmd /\ base \in Nat /\ Holds(y, base, Head2(o)) /\ base + 2 <= Len(y)
      BY <2>2, <2>3, <2>4, <2>5
    <3> HIDE DEF y, o
    <3>4. f[base + 1] = f[base + 2 + Len(o.value) + 1]
      <4>1. GetsTo(y, cmd, f, o, base)
        BY <1>1, <3>2, <3>3 DEF GetsTo
      <4>2. o.code # cmd
        BY <3>3
      <4>3. /\ o.code = cmd => f[base + 1] = base + 1
            /\ o.code # cmd => f[base + 1] = f[base + 2 + Len(o.value) + 1]
        BY <4>1, SearchStep
      <4> QED BY <4>2, <4>3, Zenon
    <3>1. f[base + 1] = f[base + 2 + Len(list[i].value) + 1]
      BY <3>4 DEF o
    <3> QED BY <3>1, Zenon DEF nb
  <2> HIDE DEF nb, y
  <2> QED BY <2>1, <2>4, <2>6
<1> HIDE DEF Ok, y
<1>4. 1 \in S /\ S \in SUBSET Nat
  BY <1>0, <1>2
<1>5. ASSUME NEW i \in 1..m, i \in S PROVE i + 1 \in S
  BY <1>0, <1>3, <1>5
<1>6. m + 1 \in S
  <2> HIDE DEF S
  <2> QED BY <1>0, <1>4, <1>5, Upward
<1>7. Ok(m + 1)
  BY <1>6
<1> QED BY <1>7 DEF Ok, y

LEMMA NotFound ==
    ASSUME NEW list, IsList(list), NEW cmd, Len(OptionBytes(list)) <= OPTIONS,
           \A i \in 1..Len(list) : list[i].code # cmd
    PROVE  opt_find(OptionBytes(list), cmd) = 0
<1>1. PICK e : IsEncoding(list, e) /\ OptionBytes(list) = e[1]
  BY EncodingIs
<1>2. Len(list) \in Nat /\ Len(list) \in 0..Len(list) /\ Len(list) + 1 \in 1..Len(list) + 1
  BY DEF IsList
<1>3. e[1] \in Seq(Byte)
  <2>1. 1 \in 1..Len(list) + 1
    BY <1>2
  <2> QED BY <1>1, <2>1, Zenon DEF IsEncoding
<1>4. PICK f : Searching(e[1], cmd, f) /\ opt_find(e[1], cmd) = f[1]
  BY <1>3, OptFind
<1>5. PICK base : Placed(e[1], e, Len(list) + 1, base) /\ f[base + 1] = f[1]
  <2> DEFINE m == Len(list)
  <2>1. Len(e[1]) <= OPTIONS /\ m \in 0..Len(list) /\ \A i \in 1..m : list[i].code # cmd
    BY <1>1, <1>2
  <2> HIDE DEF m
  <2>2. \E base : Placed(e[1], e, m + 1, base) /\ f[base + 1] = f[1]
    <3>1. Passes(list, e, cmd, f, m)
      BY <1>1, <1>4, <2>1 DEF Passes
    <3> QED BY <3>1, SearchSkips
  <2> QED BY <2>2 DEF m
<1>6. e[Len(list) + 1] = <<DHCP_OPT_END>>
  BY <1>1 DEF IsEncoding
<1>7. base \in Nat /\ Holds(e[1], base, <<DHCP_OPT_END>>) /\ base + 1 <= Len(e[1])
  <2>1. base \in Nat /\ Holds(e[1], base, e[Len(list) + 1]) /\ base + Len(e[Len(list) + 1]) <= Len(e[1])
    BY <1>5 DEF Placed
  <2>2. Len(<<DHCP_OPT_END>>) = 1
    OBVIOUS
  <2> QED BY <1>6, <2>1, <2>2
<1>8. f[base + 1] = 0
  BY <1>1, <1>3, <1>4, <1>7, SearchEnds
<1> QED BY <1>1, <1>4, <1>5, <1>8

(* The last option is found when none before it has its code. *)
LEMMA FoundLast ==
    ASSUME NEW list, IsList(list), NEW m \in Nat, Len(list) = m + 1,
           Len(OptionBytes(list)) <= OPTIONS,
           \A i \in 1..m : list[i].code # list[m + 1].code
    PROVE  LET y == OptionBytes(list)
               o == opt_find(y, list[m + 1].code)
           IN  /\ y \in Seq(Byte) /\ o \in Nat \ {0} /\ o + 1 + Len(list[m + 1].value) <= Len(y)
               /\ \A i \in 1..Len(list[m + 1].value) : y[o + 1 + i] = list[m + 1].value[i]
<1> DEFINE cmd == list[m + 1].code
           v == list[m + 1].value
<1>1. PICK e : IsEncoding(list, e) /\ OptionBytes(list) = e[1]
  BY EncodingIs
<1>2. m \in 0..Len(list) /\ m + 1 \in 1..Len(list) /\ 1 \in 1..Len(list) + 1
  OBVIOUS
<1>3. e[1] \in Seq(Byte)
  BY <1>1, <1>2, Zenon DEF IsEncoding
<1> HIDE DEF cmd
<1>4. PICK f : Searching(e[1], cmd, f) /\ opt_find(e[1], cmd) = f[1]
  BY <1>3, OptFind
<1>5. PICK base : Placed(e[1], e, m + 1, base) /\ f[base + 1] = f[1]
  <2>1. \A i \in 1..m : list[i].code # cmd
    BY DEF cmd
  <2>2. Passes(list, e, cmd, f, m)
    BY <1>1, <1>2, <1>4, <2>1 DEF Passes
  <2> QED BY <2>2, SearchSkips
<1>6. /\ base \in Nat /\ base + 2 + Len(v) <= Len(e[1]) /\ Len(v) \in Nat
      /\ Holds(e[1], base, Head2(list[m + 1])) /\ Holds(e[1], base + 2, v)
  BY <1>1, <1>2, <1>3, <1>5, NextPlaced
<1>7. IsOption(list[m + 1])
  BY <1>2 DEF IsList
<1> DEFINE z == Len(e[1])
           l == Len(v)
<1>8. z \in Nat /\ l \in Nat /\ base + 2 + l <= z
  <2>1. z \in Nat
    BY <1>3
  <2> HIDE DEF z, l
  <2>2. Len(v) = l
    BY DEF l
  <2>3. Len(e[1]) = z
    BY DEF z
  <2> QED BY <1>6, <2>1, <2>2, <2>3
<1>9. base + 2 <= z /\ (base + 1) + 1 + l <= z /\ base + 1 \in Nat \ {0}
  <2> HIDE DEF z, l
  <2> QED BY <1>6, <1>8
<1>10. f[base + 1] = base + 1
  <2> DEFINE o == list[m + 1]
             y == e[1]
  <2>1. Len(y) <= OPTIONS /\ Searching(y, cmd, f) /\ y \in Seq(Byte)
    BY <1>1, <1>3, <1>4
  <2>2. IsOption(o) /\ o.code = cmd /\ base \in Nat /\ Holds(y, base, Head2(o)) /\ base + 2 <= Len(y)
    BY <1>6, <1>7, <1>9 DEF cmd
  <2> HIDE DEF o, y
  <2>3. GetsTo(y, cmd, f, o, base)
    BY <2>1, <2>2 DEF GetsTo
  <2> QED BY <2>2, <2>3, SearchStep
<1>11. opt_find(e[1], cmd) = base + 1
  BY <1>4, <1>5, <1>10
<1>12. ASSUME NEW i \in 1..l PROVE e[1][(base + 1) + 1 + i] = v[i]
  <2>1. e[1][(base + 2) + i] = v[i]
    BY <1>6 DEF Holds
  <2>2. (base + 2) + i = (base + 1) + 1 + i
    BY <1>6, <1>8
  <2> QED BY <2>1, <2>2
<1> QED BY <1>1, <1>3, <1>9, <1>11, <1>12 DEF cmd

LEMMA EncodedLength ==
    ASSUME NEW list, IsList(list), NEW e, IsEncoding(list, e), NEW i \in 1..Len(list)
    PROVE  /\ Len(e[i + 1]) \in Nat /\ Len(list[i].value) \in Nat
           /\ Len(e[i]) = 2 + Len(list[i].value) + Len(e[i + 1])
<1> DEFINE h == Head2(list[i])
           v == list[i].value
           t == e[i + 1]
<1>1. IsOption(list[i]) /\ Len(list) \in Nat
  BY DEF IsList
<1>2. h \in Seq(Byte) /\ Len(h) = 2 /\ v \in Seq(Byte)
  BY <1>1, OptionIs
<1>3. i + 1 \in 1..Len(list) + 1
  BY <1>1
<1>4. t \in Seq(Byte) /\ e[i] = h \o v \o t
  BY <1>3, Zenon DEF IsEncoding
<1> HIDE DEF h, v, t
<1>5. h \o v \in Seq(Byte) /\ Len(h \o v) = Len(h) + Len(v)
  BY <1>2, Joining
<1>6. Len(v) \in Nat /\ Len(t) \in Nat
  BY <1>2, <1>4
<1>7. Len(e[i]) = Len(h \o v) + Len(t)
  BY <1>4, <1>5, Joining
<1>8. Len(e[i]) = 2 + Len(v) + Len(t)
  BY <1>2, <1>5, <1>6, <1>7
<1> QED BY <1>6, <1>8 DEF v, t

(* Values of the same lengths take the same room. *)
LEMMA SameLength ==
    ASSUME NEW a, IsList(a), NEW b, IsList(b), Len(a) = Len(b),
           \A i \in 1..Len(a) : Len(a[i].value) = Len(b[i].value)
    PROVE  Len(OptionBytes(a)) = Len(OptionBytes(b))
<1>1. PICK e : IsEncoding(a, e) /\ OptionBytes(a) = e[1]
  BY EncodingIs
<1>2. PICK g : IsEncoding(b, g) /\ OptionBytes(b) = g[1]
  BY EncodingIs
<1> DEFINE n == Len(a)
           Ok(i) == Len(e[i]) = Len(g[i])
           S == {i \in 1..n + 1 : Ok(i)}
<1>3. n \in Nat /\ Len(b) = n
  BY DEF IsList
<1>4. Ok(n + 1)
  <2>1. e[n + 1] = <<DHCP_OPT_END>>
    BY <1>1 DEF IsEncoding
  <2>2. g[n + 1] = <<DHCP_OPT_END>>
    BY <1>2 DEF IsEncoding
  <2> QED BY <2>1, <2>2
<1>5. ASSUME NEW i \in 1..n, Ok(i + 1) PROVE Ok(i)
  <2>1. i \in 1..Len(a) /\ i \in 1..Len(b)
    BY <1>3
  <2>2. Len(e[i]) = 2 + Len(a[i].value) + Len(e[i + 1])
    BY <1>1, <2>1, EncodedLength
  <2>3. Len(g[i]) = 2 + Len(b[i].value) + Len(g[i + 1])
    BY <1>2, <2>1, EncodedLength
  <2>4. Len(a[i].value) = Len(b[i].value)
    BY <2>1
  <2>5. Len(e[i + 1]) = Len(g[i + 1])
    BY <1>5
  <2> QED BY <2>2, <2>3, <2>4, <2>5, Zenon
<1> HIDE DEF Ok, n
<1>6. n + 1 \in S /\ S \in SUBSET Nat
  BY <1>3, <1>4
<1>7. ASSUME NEW i \in 1..n, i + 1 \in S PROVE i \in S
  BY <1>3, <1>5, <1>7
<1>8. 1 \in S
  <2> HIDE DEF S
  <2> QED BY <1>3, <1>6, <1>7, Downward
<1>9. Ok(1)
  BY <1>8
<1> QED BY <1>1, <1>2, <1>9 DEF Ok

-----------------------------------------------------------------------------
(* The client's message. *)

Opts == [code : Byte \ {DHCP_OPT_END}, value : Seq(Byte)]
Asked(addr) == IF addr = Absent THEN <<>> ELSE <<Option(DHCP_OPT_REQUESTED_IP, addr)>>
MessageList(type, others, addr) ==
    <<Option(DHCP_OPT_MSG_TYPE, <<type>>)>> \o others \o Asked(addr)

LEMMA MessageIs ==
    ASSUME NEW type, NEW others, NEW addr
    PROVE  Message(type, others, addr) = OptionBytes(MessageList(type, others, addr))
BY DEF Message, MessageList, Asked

LEMMA OthersAre ==
    ASSUME NEW others \in OtherOptions
    PROVE  /\ others \in Seq(Opts) /\ Len(others) \in Nat
           /\ \A i \in 1..Len(others) :
                 IsOption(others[i]) /\ others[i].code # DHCP_OPT_REQUESTED_IP
<1> DEFINE T == [code : Byte \ {DHCP_OPT_END, DHCP_OPT_REQUESTED_IP}, value : Seq(Byte)]
<1>1. others \in Seq(T) /\ \A i \in 1..Len(others) : Len(others[i].value) <= 255
  BY OptionsAssumption, Zenon
<1>2. T \subseteq Opts
  BY DEF Opts
<1>3. \A o \in T : o.code \in Byte \ {DHCP_OPT_END} /\ o.value \in Seq(Byte) /\ o.code # DHCP_OPT_REQUESTED_IP
  OBVIOUS
<1> HIDE DEF T
<1>4. Len(others) \in Nat /\ \A i \in 1..Len(others) : others[i] \in T
  BY <1>1
<1>5. others \in Seq(Opts)
  <2> HIDE DEF Opts
  <2> QED BY <1>1, <1>2
<1>6. ASSUME NEW i \in 1..Len(others)
      PROVE  IsOption(others[i]) /\ others[i].code # DHCP_OPT_REQUESTED_IP
  <2>1. others[i] \in T /\ Len(others[i].value) <= 255
    BY <1>1, <1>4
  <2> DEFINE o == others[i]
  <2>2. o.code \in Byte \ {DHCP_OPT_END} /\ o.value \in Seq(Byte) /\ o.code # DHCP_OPT_REQUESTED_IP
    BY <1>3, <2>1
  <2> QED BY <2>1, <2>2, Zenon DEF IsOption
<1> QED BY <1>4, <1>5, <1>6

LEMMA OptionFields ==
    ASSUME NEW c \in Byte \ {DHCP_OPT_END}, NEW v \in Seq(Byte), Len(v) <= 255
    PROVE  /\ Option(c, v) \in Opts /\ IsOption(Option(c, v))
           /\ Option(c, v).code = c /\ Option(c, v).value = v
<1>1. Option(c, v).code = c /\ Option(c, v).value = v
  BY DEF Option
<1>2. Option(c, v) \in Opts
  BY DEF Opts, Option
<1>3. IsOption(Option(c, v))
  BY <1>1, Zenon DEF IsOption
<1> QED BY <1>1, <1>2, <1>3

LEMMA TypeOption ==
    ASSUME NEW type \in Byte
    PROVE  LET t == Option(DHCP_OPT_MSG_TYPE, <<type>>)
           IN  t \in Opts /\ IsOption(t) /\ t.code = DHCP_OPT_MSG_TYPE /\ t.value = <<type>>
<1>1. <<type>> \in Seq(Byte) /\ Len(<<type>>) <= 255
  OBVIOUS
<1>2. DHCP_OPT_MSG_TYPE \in Byte \ {DHCP_OPT_END}
  BY DEF DHCP_OPT_MSG_TYPE, DHCP_OPT_END, Byte
<1> QED BY <1>1, <1>2, OptionFields

Address(a) == a \in Seq(Byte) /\ Len(a) = 4

LEMMA AddressOption ==
    ASSUME NEW a, Address(a)
    PROVE  LET t == Option(DHCP_OPT_REQUESTED_IP, a)
           IN  /\ a # Absent /\ t \in Opts /\ IsOption(t) /\ t.code = DHCP_OPT_REQUESTED_IP /\ t.value = a
               /\ Asked(a) = <<t>>
<1>1. a \in Seq(Byte) /\ Len(a) <= 255
  BY DEF Address
<1>2. DHCP_OPT_REQUESTED_IP \in Byte \ {DHCP_OPT_END}
  BY DEF DHCP_OPT_REQUESTED_IP, DHCP_OPT_END, Byte
<1>3. a # Absent
  BY <1>1, OptionsAssumption, Zenon
<1>4. Asked(a) = <<Option(DHCP_OPT_REQUESTED_IP, a)>>
  BY <1>3, Zenon DEF Asked
<1> QED BY <1>1, <1>2, <1>3, <1>4, OptionFields

InTurn(w, a, s, c) ==
    /\ Len(w) = 1 + Len(s) + Len(c) /\ w[1] = a
    /\ \A i \in 1..Len(s) : w[1 + i] = s[i]
    /\ \A i \in 1..Len(c) : w[1 + Len(s) + i] = c[i]

LEMMA Three ==
    ASSUME NEW S, NEW a \in S, NEW s \in Seq(S), NEW c \in Seq(S)
    PROVE  InTurn(<<a>> \o s \o c, a, s, c)
BY DEF InTurn

LEMMA ListWithAddress ==
    ASSUME NEW type \in Byte, NEW others \in OtherOptions, NEW a, Address(a)
    PROVE  LET list == MessageList(type, others, a)
               m == Len(others) + 1
           IN  /\ m \in Nat /\ Len(list) = m + 1 /\ IsList(list)
               /\ list[1].value = <<type>> /\ list[m + 1].value = a
               /\ list[m + 1].code = DHCP_OPT_REQUESTED_IP
               /\ \A i \in 1..m : list[i].code # DHCP_OPT_REQUESTED_IP
               /\ \A i \in 2..m : list[i] = others[i - 1]
<1> DEFINE t == Option(DHCP_OPT_MSG_TYPE, <<type>>)
           o == Option(DHCP_OPT_REQUESTED_IP, a)
           w == <<t>> \o others \o <<o>>
           k == Len(others)
<1>1. t \in Opts /\ IsOption(t) /\ t.code # DHCP_OPT_REQUESTED_IP /\ t.value = <<type>>
  <2>1. DHCP_OPT_MSG_TYPE # DHCP_OPT_REQUESTED_IP
    BY DEF DHCP_OPT_MSG_TYPE, DHCP_OPT_REQUESTED_IP
  <2> QED BY <2>1, TypeOption
<1>2. o \in Opts /\ IsOption(o) /\ o.code = DHCP_OPT_REQUESTED_IP /\ o.value = a /\ Asked(a) = <<o>>
  BY AddressOption
<1>3. MessageList(type, others, a) = w
  BY <1>2, Zenon DEF MessageList
<1>4. /\ others \in Seq(Opts) /\ k \in Nat
      /\ \A i \in 1..k : IsOption(others[i]) /\ others[i].code # DHCP_OPT_REQUESTED_IP
  BY OthersAre
<1> HIDE DEF t, o
<1>5. /\ Len(w) = 1 + k + 1 /\ w[1] = t /\ \A i \in 1..k : w[1 + i] = others[i]
      /\ w[1 + k + 1] = o
  <2> DEFINE c == <<o>>
  <2>1. c \in Seq(Opts) /\ Len(c) = 1 /\ c[1] = o /\ 1 \in 1..Len(c)
    BY <1>2
  <2> HIDE DEF c, Opts
  <2>2. InTurn(w, t, others, c)
    <3>1. t \in Opts
      BY <1>1
    <3>2. others \in Seq(Opts)
      BY <1>4
    <3>3. InTurn(<<t>> \o others \o c, t, others, c)
      BY <2>1, <3>1, <3>2, Three
    <3> QED BY <3>3 DEF c
  <2> HIDE DEF w
  <2>3. /\ Len(w) = 1 + k + Len(c) /\ w[1] = t /\ \A i \in 1..k : w[1 + i] = others[i]
        /\ \A i \in 1..Len(c) : w[1 + k + i] = c[i]
    BY <2>2, Zenon DEF InTurn
  <2> QED BY <2>1, <2>3
<1> HIDE DEF w, k
<1>6. 1 + k + 1 = (k + 1) + 1 /\ k + 1 \in Nat
  BY <1>4
<1>7. ASSUME NEW i \in 2..k + 1 PROVE i - 1 \in 1..k /\ w[i] = others[i - 1]
  <2>1. i - 1 \in 1..k /\ 1 + (i - 1) = i
    BY <1>4
  <2> QED BY <1>5, <2>1
<1>8. ASSUME NEW i \in 1..k + 1 PROVE IsOption(w[i]) /\ w[i].code # DHCP_OPT_REQUESTED_IP
  <2>1. i = 1 \/ i \in 2..k + 1
    BY <1>4
  <2> QED BY <1>1, <1>4, <1>5, <1>7, <2>1
<1>9. IsList(w)
  <2>1. Len(w) = k + 2 /\ Len(w) \in Nat
    BY <1>4, <1>5
  <2>2. ASSUME NEW i \in 1..Len(w) PROVE IsOption(w[i])
    <3>1. i \in 1..k + 1 \/ i = 1 + k + 1
      BY <1>4, <2>1
    <3> QED BY <1>2, <1>5, <1>8, <3>1
  <2> QED BY <2>1, <2>2 DEF IsList
<1> QED BY <1>1, <1>2, <1>3, <1>5, <1>6, <1>7, <1>8, <1>9 DEF k

LEMMA ListWithout ==
    ASSUME NEW type \in Byte, NEW others \in OtherOptions
    PROVE  LET list == MessageList(type, others, Absent)
               m == Len(others) + 1
           IN  /\ m \in Nat /\ Len(list) = m /\ IsList(list)
               /\ list[1].value = <<type>>
               /\ \A i \in 1..m : list[i].code # DHCP_OPT_REQUESTED_IP
               /\ \A i \in 2..m : list[i] = others[i - 1]
<1> DEFINE t == Option(DHCP_OPT_MSG_TYPE, <<type>>)
           w == <<t>> \o others \o <<>>
           k == Len(others)
<1>1. t \in Opts /\ IsOption(t) /\ t.code # DHCP_OPT_REQUESTED_IP /\ t.value = <<type>>
  <2>1. DHCP_OPT_MSG_TYPE # DHCP_OPT_REQUESTED_IP
    BY DEF DHCP_OPT_MSG_TYPE, DHCP_OPT_REQUESTED_IP
  <2> QED BY <2>1, TypeOption
<1>3. MessageList(type, others, Absent) = w
  <2>1. Asked(Absent) = <<>>
    BY Zenon DEF Asked
  <2> QED BY <2>1, Zenon DEF MessageList
<1>4. /\ others \in Seq(Opts) /\ k \in Nat
      /\ \A i \in 1..k : IsOption(others[i]) /\ others[i].code # DHCP_OPT_REQUESTED_IP
  BY OthersAre
<1> HIDE DEF t
<1>5. Len(w) = 1 + k /\ w[1] = t /\ \A i \in 1..k : w[1 + i] = others[i]
  <2> DEFINE c == <<>>
  <2>1. c \in Seq(Opts) /\ Len(c) = 0
    OBVIOUS
  <2> HIDE DEF c, Opts
  <2>2. InTurn(w, t, others, c)
    <3>1. t \in Opts
      BY <1>1
    <3>2. others \in Seq(Opts)
      BY <1>4
    <3>3. InTurn(<<t>> \o others \o c, t, others, c)
      BY <2>1, <3>1, <3>2, Three
    <3> QED BY <3>3 DEF c
  <2> HIDE DEF w
  <2>3. Len(w) = 1 + k + Len(c) /\ w[1] = t /\ \A i \in 1..k : w[1 + i] = others[i]
    BY <2>2, Zenon DEF InTurn
  <2> QED BY <1>4, <2>1, <2>3
<1> HIDE DEF w, k
<1>6. 1 + k = k + 1 /\ k + 1 \in Nat
  BY <1>4
<1>7. ASSUME NEW i \in 2..k + 1 PROVE i - 1 \in 1..k /\ w[i] = others[i - 1]
  <2>1. i - 1 \in 1..k /\ 1 + (i - 1) = i
    BY <1>4
  <2> QED BY <1>5, <2>1
<1>8. ASSUME NEW i \in 1..k + 1 PROVE IsOption(w[i]) /\ w[i].code # DHCP_OPT_REQUESTED_IP
  <2>1. i = 1 \/ i \in 2..k + 1
    BY <1>4
  <2> QED BY <1>1, <1>4, <1>5, <1>7, <2>1
<1>9. IsList(w)
  BY <1>5, <1>6, <1>8 DEF IsList
<1> QED BY <1>1, <1>3, <1>5, <1>6, <1>7, <1>8, <1>9 DEF k

LEMMA Zero == Address(<<0, 0, 0, 0>>) /\ 0 \in Byte /\ DHCPREQUEST \in Byte /\ DHCPDISCOVER \in Byte
BY DEF Address, Byte, DHCPREQUEST, DHCPDISCOVER

LEMMA MessageFits ==
    ASSUME NEW type \in Byte, NEW others \in OtherOptions, NEW addr, addr = Absent \/ Address(addr)
    PROVE  Len(OptionBytes(MessageList(type, others, addr))) <= OPTIONS
<1> DEFINE z == IF addr = Absent THEN Absent ELSE <<0, 0, 0, 0>>
           a == MessageList(type, others, addr)
           b == MessageList(0, others, z)
           m == Len(others) + 1
<1>1. Len(OptionBytes(b)) <= OPTIONS
  <2>1. z \in {Absent, <<0, 0, 0, 0>>}
    OBVIOUS
  <2>2. Len(Message(0, others, z)) <= OPTIONS
    <3> HIDE DEF z
    <3> QED BY <2>1, OptionsAssumption, Zenon
  <2> QED BY <2>2, MessageIs
<1>2. Len(<<type>>) = Len(<<0>>)
  OBVIOUS
<1>3. CASE addr = Absent
  <2>1. z = Absent
    BY <1>3
  <2> HIDE DEF z
  <2>2. /\ m \in Nat /\ Len(a) = m /\ IsList(a) /\ a[1].value = <<type>>
        /\ \A i \in 2..m : a[i] = others[i - 1]
    BY <1>3, ListWithout
  <2>3. /\ Len(b) = m /\ IsList(b) /\ b[1].value = <<0>>
        /\ \A i \in 2..m : b[i] = others[i - 1]
    BY <2>1, Zero, ListWithout
  <2> HIDE DEF a, b, m
  <2>4. ASSUME NEW i \in 1..m PROVE Len(a[i].value) = Len(b[i].value)
    <3>1. i = 1 \/ i \in 2..m
      BY <2>2
    <3>2. CASE i = 1
      BY <1>2, <2>2, <2>3, <3>2
    <3>3. CASE i \in 2..m
      BY <2>2, <2>3, <3>3
    <3> QED BY <3>1, <3>2, <3>3
  <2>5. Len(OptionBytes(a)) = Len(OptionBytes(b))
    BY <2>2, <2>3, <2>4, SameLength
  <2> QED BY <1>1, <2>5 DEF a
<1>4. CASE Address(addr)
  <2>1. z = <<0, 0, 0, 0>> /\ Address(z) /\ Len(z) = 4 /\ Len(addr) = 4
    BY <1>4, Zero, AddressOption DEF Address
  <2> HIDE DEF z
  <2>2. /\ m \in Nat /\ Len(a) = m + 1 /\ IsList(a) /\ a[1].value = <<type>> /\ a[m + 1].value = addr
        /\ \A i \in 2..m : a[i] = others[i - 1]
    BY <1>4, ListWithAddress
  <2>3. /\ Len(b) = m + 1 /\ IsList(b) /\ b[1].value = <<0>> /\ b[m + 1].value = z
        /\ \A i \in 2..m : b[i] = others[i - 1]
    BY <2>1, Zero, ListWithAddress
  <2> HIDE DEF a, b, m
  <2>4. ASSUME NEW i \in 1..m + 1 PROVE Len(a[i].value) = Len(b[i].value)
    <3>1. i = 1 \/ i \in 2..m \/ i = m + 1
      BY <2>2
    <3>2. CASE i = 1
      BY <1>2, <2>2, <2>3, <3>2
    <3>3. CASE i \in 2..m
      BY <2>2, <2>3, <3>3
    <3>4. CASE i = m + 1
      BY <2>1, <2>2, <2>3, <3>4
    <3> QED BY <3>1, <3>2, <3>3, <3>4
  <2>5. Len(OptionBytes(a)) = Len(OptionBytes(b))
    BY <2>2, <2>3, <2>4, SameLength
  <2> QED BY <1>1, <2>5 DEF a
<1> QED BY <1>3, <1>4

-----------------------------------------------------------------------------
(* What a request asks for. *)

LEMMA AskedNothing ==
    ASSUME NEW others \in OtherOptions, NEW d
    PROVE  RequestedSlot(Message(DHCPREQUEST, others, Absent), d) = Absent
<1> DEFINE list == MessageList(DHCPREQUEST, others, Absent)
<1>1. IsList(list) /\ \A i \in 1..Len(list) : list[i].code # DHCP_OPT_REQUESTED_IP
  BY Zero, ListWithout
<1>2. Len(OptionBytes(list)) <= OPTIONS
  BY Zero, MessageFits
<1>3. Message(DHCPREQUEST, others, Absent) = OptionBytes(list)
  BY MessageIs
<1> HIDE DEF list
<1>4. opt_find(OptionBytes(list), DHCP_OPT_REQUESTED_IP) = 0
  BY <1>1, <1>2, NotFound
<1> DEFINE y == OptionBytes(list)
<1> HIDE DEF y
<1>5. opt_find(y, DHCP_OPT_REQUESTED_IP) = 0
  BY <1>4 DEF y
<1>6. RequestedSlot(y, d) = Absent
  BY <1>5, Zenon DEF RequestedSlot
<1> QED BY <1>3, <1>6 DEF y

LEMMA SubSeqOfThree ==
    ASSUME NEW y \in Seq(Byte), NEW p \in Nat, NEW q \in Nat, 1 <= p, q = p + 2, q <= Len(y)
    PROVE  SubSeq(y, p, q) = <<y[p], y[p + 1], y[p + 2]>>
<1>0. SubSeq(y, p, q) \in Seq(Byte) /\ Len(SubSeq(y, p, q)) = q - p + 1
      /\ \A i \in 1..q - p + 1 : SubSeq(y, p, q)[i] = y[p + i - 1]
  <2>1. \A i \in p..q : y[i] \in Byte
    OBVIOUS
  <2>2. p \in Int /\ q \in Int /\ p <= q
    OBVIOUS
  <2> QED BY <2>1, <2>2, SubSeqProperties
<1>1. \A i \in 1..3 : SubSeq(y, p, q)[i] = y[p + i - 1]
  BY <1>0
<1>2. Len(SubSeq(y, p, q)) = 3 /\ SubSeq(y, p, q) \in Seq(Byte)
  BY <1>0
<1>3. SubSeq(y, p, q)[1] = y[p] /\ SubSeq(y, p, q)[2] = y[p + 1] /\ SubSeq(y, p, q)[3] = y[p + 2]
  BY <1>1
<1> DEFINE s == SubSeq(y, p, q)
           t == <<y[p], y[p + 1], y[p + 2]>>
<1>4. s \in Seq(Byte) /\ t \in Seq(Byte) /\ Len(s) = 3 /\ Len(t) = 3
  BY <1>2
<1>5. \A i \in 1..3 : s[i] = t[i]
  BY <1>3
<1> HIDE DEF s, t
<1>6. s = t
  BY <1>4, <1>5, SeqEqual
<1> QED BY <1>6 DEF s, t

LEMMA AskedFor ==
    ASSUME NEW others \in OtherOptions, NEW d, Address(d.ip), NEW a, Address(a)
    PROVE  LET slot == (a[4] - DHCPS_BASE_IP) % 256
           IN  RequestedSlot(Message(DHCPREQUEST, others, a), d)
                 = IF <<a[1], a[2], a[3]>> # <<d.ip[1], d.ip[2], d.ip[3]>> \/ slot >= DHCPS_MAX_IP
                   THEN Absent ELSE slot
<1> DEFINE list == MessageList(DHCPREQUEST, others, a)
           m == Len(others) + 1
           y == OptionBytes(list)
           o == opt_find(y, DHCP_OPT_REQUESTED_IP)
<1>1. /\ m \in Nat /\ Len(list) = m + 1 /\ IsList(list)
      /\ list[m + 1].value = a /\ list[m + 1].code = DHCP_OPT_REQUESTED_IP
      /\ \A i \in 1..m : list[i].code # DHCP_OPT_REQUESTED_IP
  BY Zero, ListWithAddress
<1>2. Len(y) <= OPTIONS
  BY Zero, MessageFits
<1>3. Message(DHCPREQUEST, others, a) = y
  BY MessageIs
<1> HIDE DEF list, m
<1>4. /\ y \in Seq(Byte) /\ o \in Nat \ {0} /\ o + 1 + 4 <= Len(y)
      /\ \A i \in 1..4 : y[o + 1 + i] = a[i]
  <2>1. \A i \in 1..m : list[i].code # list[m + 1].code
    BY <1>1
  <2>2. LET x == opt_find(y, list[m + 1].code)
        IN  /\ y \in Seq(Byte) /\ x \in Nat \ {0} /\ x + 1 + Len(list[m + 1].value) <= Len(y)
            /\ \A i \in 1..Len(list[m + 1].value) : y[x + 1 + i] = list[m + 1].value[i]
    BY <1>1, <1>2, <2>1, FoundLast
  <2>3. Len(a) = 4
    BY DEF Address
  <2> HIDE DEF y
  <2> QED BY <1>1, <2>2, <2>3
<1> HIDE DEF y, o
<1>5. y[o + 2] = a[1] /\ y[o + 3] = a[2] /\ y[o + 4] = a[3] /\ y[o + 5] = a[4]
  <2>1. o + 1 + 1 = o + 2 /\ o + 1 + 2 = o + 3 /\ o + 1 + 3 = o + 4 /\ o + 1 + 4 = o + 5
    BY <1>4
  <2> QED BY <1>4, <2>1
<1>6. SubSeq(y, o + 2, o + 4) = <<a[1], a[2], a[3]>>
  <2>1. /\ o + 2 \in Nat /\ o + 4 \in Nat /\ 1 <= o + 2 /\ o + 4 = (o + 2) + 2 /\ o + 4 <= Len(y)
        /\ (o + 2) + 1 = o + 3 /\ (o + 2) + 2 = o + 4
    BY <1>4
  <2>2. SubSeq(y, o + 2, o + 4) = <<y[o + 2], y[(o + 2) + 1], y[(o + 2) + 2]>>
    BY <1>4, <2>1, SubSeqOfThree
  <2> QED BY <1>5, <2>1, <2>2
<1>7. SubSeq(d.ip, 1, 3) = <<d.ip[1], d.ip[2], d.ip[3]>>
  <2> DEFINE p == d.ip
  <2>1. p \in Seq(Byte) /\ 3 <= Len(p)
    BY DEF Address
  <2> HIDE DEF p
  <2>2. SubSeq(p, 1, 3) = <<p[1], p[1 + 1], p[1 + 2]>>
    BY <2>1, SubSeqOfThree
  <2> QED BY <2>2 DEF p
<1>8. o # 0
  BY <1>4
<1>9. RequestedSlot(y, d)
        = IF o = 0 \/ SubSeq(y, o + 2, o + 4) # SubSeq(d.ip, 1, 3) \/ (y[o + 5] - DHCPS_BASE_IP) % 256 >= DHCPS_MAX_IP
          THEN Absent ELSE (y[o + 5] - DHCPS_BASE_IP) % 256
  BY Zenon DEF RequestedSlot, o
<1> QED BY <1>3, <1>5, <1>6, <1>7, <1>8, <1>9, Zenon

LEMMA AddressChanged ==
    ASSUME NEW a, Address(a), NEW i \in 1..4, NEW x \in Byte
    PROVE  /\ Address([a EXCEPT ![i] = x])
           /\ \A j \in 1..4 : [a EXCEPT ![i] = x][j] = IF j = i THEN x ELSE a[j]
<1>1. a \in Seq(Byte) /\ Len(a) = 4 /\ DOMAIN a = 1..4
  BY DEF Address
<1>2. [a EXCEPT ![i] = x] \in Seq(Byte) /\ Len([a EXCEPT ![i] = x]) = 4
  BY <1>1, ExceptSeq
<1>3. \A j \in 1..4 : [a EXCEPT ![i] = x][j] = IF j = i THEN x ELSE a[j]
  BY <1>1
<1> QED BY <1>2, <1>3 DEF Address

LEMMA Leased ==
    ASSUME NEW d, Address(d.ip), NEW yi \in Slots
    PROVE  LET a == yiaddr(d, yi)
           IN  /\ Address(a) /\ a[1] = d.ip[1] /\ a[2] = d.ip[2] /\ a[3] = d.ip[3]
               /\ a[4] = DHCPS_BASE_IP + yi
<1>1. d.ip \in Seq(Byte) /\ Len(d.ip) = 4
  BY DEF Address
<1>2. DHCPS_BASE_IP + yi \in Byte
  BY BaseAssumption, SlotsAssumption DEF Slots, Byte, DHCPS_BASE_IP
<1> DEFINE p == d.ip
           x == DHCPS_BASE_IP + yi
           t == <<p[1], p[2], p[3]>>
<1>3. p[1] \in Byte /\ p[2] \in Byte /\ p[3] \in Byte
  BY <1>1
<1>4. SubSeq(p, 1, 3) = t
  <2> HIDE DEF p
  <2>1. p \in Seq(Byte) /\ 3 <= Len(p)
    BY <1>1 DEF p
  <2>2. SubSeq(p, 1, 3) = <<p[1], p[1 + 1], p[1 + 2]>>
    BY <2>1, SubSeqOfThree
  <2> QED BY <2>2
<1> HIDE DEF p, x
<1>5. /\ t \o <<x>> \in Seq(Byte) /\ Len(t \o <<x>>) = 4
      /\ (t \o <<x>>)[1] = p[1] /\ (t \o <<x>>)[2] = p[2] /\ (t \o <<x>>)[3] = p[3]
      /\ (t \o <<x>>)[4] = x
  <2>1. x \in Byte
    BY <1>2 DEF x
  <2>2. t \in Seq(Byte) /\ Len(t) = 3 /\ t[1] = p[1] /\ t[2] = p[2] /\ t[3] = p[3]
    BY <1>3
  <2> DEFINE c == <<x>>
  <2>3. c \in Seq(Byte) /\ Len(c) = 1 /\ c[1] = x
    BY <2>1
  <2> HIDE DEF t, c
  <2>4. /\ t \o c \in Seq(Byte) /\ Len(t \o c) = 4
        /\ \A i \in 1..3 : (t \o c)[i] = t[i]
        /\ (t \o c)[3 + 1] = c[1]
    <3>1. /\ t \o c \in Seq(Byte) /\ Len(t \o c) = Len(t) + Len(c)
          /\ \A i \in 1..Len(t) + Len(c) :
                (t \o c)[i] = IF i <= Len(t) THEN t[i] ELSE c[i - Len(t)]
      BY <2>2, <2>3, ConcatProperties
    <3> QED BY <2>2, <2>3, <3>1
  <2>5. 1 \in 1..3 /\ 2 \in 1..3 /\ 3 \in 1..3 /\ 3 + 1 = 4
    OBVIOUS
  <2> QED BY <2>2, <2>3, <2>4, <2>5 DEF c
<1>6. yiaddr(d, yi) = t \o <<x>>
  BY <1>4, Zenon DEF yiaddr, p, x
<1> QED BY <1>5, <1>6 DEF Address, p, x

LEMMA ServersAre ==
    ASSUME NEW d \in Servers
    PROVE  /\ Address(d.ip) /\ Address(d.nm)
           /\ d.domain_name # Absent => d.domain_name \in Seq(Byte) /\ Len(d.domain_name) <= 255
BY ServersAssumption DEF Address

LEMMA Requests ==
    ASSUME answer.ip \in Slots, NEW d \in Servers, NEW others \in OtherOptions
    PROVE  LET slot(addr) == RequestedSlot(Message(DHCPREQUEST, others, addr), d)
               a == yiaddr(d, answer.ip)
           IN  /\ slot(a) = answer.ip
               /\ slot([a EXCEPT ![1] = (@ + 1) % 256]) = Absent
               /\ slot([a EXCEPT ![4] = DHCPS_BASE_IP + DHCPS_MAX_IP]) = Absent
               /\ slot([a EXCEPT ![4] = DHCPS_BASE_IP - 1]) = Absent
               /\ slot(Absent) = Absent
<1> DEFINE yi == answer.ip
           a == yiaddr(d, yi)
           b == [a EXCEPT ![1] = (a[1] + 1) % 256]
           u == [a EXCEPT ![4] = DHCPS_BASE_IP + DHCPS_MAX_IP]
           l == [a EXCEPT ![4] = DHCPS_BASE_IP - 1]
           slot(addr) == RequestedSlot(Message(DHCPREQUEST, others, addr), d)
<1>1. Address(d.ip)
  BY ServersAre
<1>2. yi \in Nat /\ yi < DHCPS_MAX_IP /\ DHCPS_MAX_IP \in Nat /\ DHCPS_MAX_IP <= 239
  BY BaseAssumption, SlotsAssumption DEF Slots, DHCPS_BASE_IP
<1>3. /\ Address(a) /\ a[1] = d.ip[1] /\ a[2] = d.ip[2] /\ a[3] = d.ip[3]
      /\ a[4] = DHCPS_BASE_IP + yi
  BY <1>1, Leased
<1> HIDE DEF a, yi
<1>4. a[1] \in 0..255
  <2>1. a \in Seq(Byte) /\ Len(a) = 4
    BY <1>3 DEF Address
  <2>2. a[1] \in Byte
    <3>1. 1 \in 1..Len(a)
      BY <2>1
    <3> QED BY <2>1, <3>1, ElementOfSeq
  <2> QED BY <2>2 DEF Byte
<1>5. slot(a) = yi
  <2>1. (a[4] - DHCPS_BASE_IP) % 256 = yi
    BY <1>2, <1>3 DEF DHCPS_BASE_IP
  <2>2. ~(yi >= DHCPS_MAX_IP)
    BY <1>2
  <2>3. <<a[1], a[2], a[3]>> = <<d.ip[1], d.ip[2], d.ip[3]>>
    BY <1>3
  <2>4. slot(a) = IF <<a[1], a[2], a[3]>> # <<d.ip[1], d.ip[2], d.ip[3]>>
                     \/ (a[4] - DHCPS_BASE_IP) % 256 >= DHCPS_MAX_IP
                  THEN Absent ELSE (a[4] - DHCPS_BASE_IP) % 256
    BY <1>1, <1>3, AskedFor
  <2> HIDE DEF slot
  <2> QED BY <2>1, <2>2, <2>3, <2>4
<1>6. slot(b) = Absent
  <2>1. (a[1] + 1) % 256 \in Byte /\ (a[1] + 1) % 256 # a[1]
    BY <1>4 DEF Byte
  <2>2. Address(b) /\ \A j \in 1..4 : b[j] = IF j = 1 THEN (a[1] + 1) % 256 ELSE a[j]
    BY <1>3, <2>1, AddressChanged
  <2> HIDE DEF b
  <2>3. b[1] # d.ip[1]
    BY <1>3, <2>1, <2>2
  <2>4. slot(b) = IF <<b[1], b[2], b[3]>> # <<d.ip[1], d.ip[2], d.ip[3]>>
                     \/ (b[4] - DHCPS_BASE_IP) % 256 >= DHCPS_MAX_IP
                  THEN Absent ELSE (b[4] - DHCPS_BASE_IP) % 256
    BY <1>1, <2>2, AskedFor
  <2>5. <<b[1], b[2], b[3]>> # <<d.ip[1], d.ip[2], d.ip[3]>>
    BY <2>3
  <2> HIDE DEF slot
  <2> QED BY <2>4, <2>5
<1>7. ASSUME NEW x \in Byte, (x - DHCPS_BASE_IP) % 256 >= DHCPS_MAX_IP
      PROVE  slot([a EXCEPT ![4] = x]) = Absent
  <2> DEFINE c == [a EXCEPT ![4] = x]
  <2>1. Address(c) /\ c[4] = x
    <3>1. /\ Address([a EXCEPT ![4] = x])
          /\ \A j \in 1..4 : [a EXCEPT ![4] = x][j] = IF j = 4 THEN x ELSE a[j]
      BY <1>3, AddressChanged
    <3> QED BY <3>1
  <2> HIDE DEF c
  <2>2. slot(c) = IF <<c[1], c[2], c[3]>> # <<d.ip[1], d.ip[2], d.ip[3]>>
                     \/ (c[4] - DHCPS_BASE_IP) % 256 >= DHCPS_MAX_IP
                  THEN Absent ELSE (c[4] - DHCPS_BASE_IP) % 256
    BY <1>1, <2>1, AskedFor
  <2> HIDE DEF slot
  <2>3. slot(c) = Absent
    BY <1>7, <2>1, <2>2
  <2> QED BY <2>3 DEF c
<1>8. slot(u) = Absent
  <2> DEFINE x == DHCPS_BASE_IP + DHCPS_MAX_IP
  <2>1. x = 16 + DHCPS_MAX_IP
    BY DEF DHCPS_BASE_IP
  <2> HIDE DEF slot, x
  <2>2. x \in Byte /\ (x - 16) % 256 >= DHCPS_MAX_IP
    BY <1>2, <2>1 DEF Byte
  <2>3. slot([a EXCEPT ![4] = x]) = Absent
    BY <1>7, <2>2, Zenon DEF DHCPS_BASE_IP
  <2> QED BY <2>3 DEF x
<1>9. slot(l) = Absent
  <2> DEFINE x == DHCPS_BASE_IP - 1
  <2>1. x = 15
    BY DEF DHCPS_BASE_IP
  <2> HIDE DEF slot, x
  <2>2. x \in Byte /\ (x - 16) % 256 = 255
    <3>1. \A k \in 0..255 : k < 16 => (k - 16) % 256 = k + 240
      OBVIOUS
    <3>2. x \in 0..255 /\ x < 16 /\ x + 240 = 255
      BY <2>1
    <3> QED BY <3>1, <3>2 DEF Byte
  <2>3. (x - 16) % 256 >= DHCPS_MAX_IP
    BY <1>2, <2>2
  <2>4. slot([a EXCEPT ![4] = x]) = Absent
    BY <1>7, <2>2, <2>3, Zenon DEF DHCPS_BASE_IP
  <2> QED BY <2>4 DEF x
<1>10. slot(Absent) = Absent
  BY AskedNothing
<1> HIDE DEF slot
<1> QED BY <1>5, <1>6, <1>8, <1>9, <1>10, Zenon DEF slot, a, yi

-----------------------------------------------------------------------------
(* What the client finds in the reply. *)

Decoding(y, f) == f = DecodingFrom(y, 1, f)

ReadsOn(y, f, i) ==
    f[i] = IF i > Len(y) THEN {Option(0, <<>>)}
           ELSE IF y[i] = DHCP_OPT_END THEN {}
           ELSE IF i = Len(y) \/ i + 1 + y[i + 1] > Len(y) THEN {Option(0, <<>>)}
           ELSE {Option(y[i], SubSeq(y, i + 2, i + 1 + y[i + 1]))} \cup f[i + 2 + y[i + 1]]

LEMMA DecodingAt ==
    ASSUME NEW y, NEW f, Decoding(y, f), NEW i, i \in 1..Len(y) + 257
    PROVE  ReadsOn(y, f, i)
<1> DEFINE w == DecodingFrom(y, 1, f)
<1>1. w[i] = IF i > Len(y) THEN {Option(0, <<>>)}
             ELSE IF y[i] = DHCP_OPT_END THEN {}
             ELSE IF i = Len(y) \/ i + 1 + y[i + 1] > Len(y) THEN {Option(0, <<>>)}
             ELSE {Option(y[i], SubSeq(y, i + 2, i + 1 + y[i + 1]))} \cup f[i + 2 + y[i + 1]]
  BY Zenon DEF DecodingFrom
<1>2. f = w
  BY DEF Decoding
<1> HIDE DEF w
<1> QED BY <1>1, <1>2, Zenon DEF ReadsOn

IsField(c, v) == c \in Byte \ {DHCP_OPT_END} /\ v \in Seq(Byte) /\ Len(v) <= 255

(* Behind the first base bytes of y stands an option. *)
Here(y, base, c, v) ==
    /\ IsField(c, v) /\ base \in Nat
    /\ Holds(y, base, <<c, Len(v)>>) /\ Holds(y, base + 2, v) /\ base + 2 + Len(v) <= Len(y)

LEMMA ValueAt ==
    ASSUME NEW y \in Seq(Byte), NEW v \in Seq(Byte), NEW p \in Nat, Holds(y, p, v), p + Len(v) <= Len(y)
    PROVE  SubSeq(y, p + 1, p + Len(v)) = v
<1> DEFINE l == Len(v)
           s == SubSeq(y, p + 1, p + l)
<1>1. l \in Nat /\ p + l <= Len(y) /\ \A i \in 1..l : y[p + i] = v[i]
  BY DEF Holds
<1>2. v \in Seq(Byte) /\ Len(v) = l
  OBVIOUS
<1> HIDE DEF l
<1>3. /\ s \in Seq(Byte) /\ Len(s) = IF p + 1 <= p + l THEN (p + l) - (p + 1) + 1 ELSE 0
      /\ \A i \in 1..(p + l) - (p + 1) + 1 : s[i] = y[(p + 1) + i - 1]
  <2>1. \A i \in p + 1..p + l : y[i] \in Byte
    BY <1>1
  <2>2. p + 1 \in Int /\ p + l \in Int
    BY <1>1
  <2> QED BY <2>1, <2>2, SubSeqProperties
<1> HIDE DEF s
<1>4. Len(s) = l
  BY <1>1, <1>3
<1>5. ASSUME NEW i \in 1..l PROVE s[i] = v[i]
  <2>1. i \in 1..(p + l) - (p + 1) + 1 /\ (p + 1) + i - 1 = p + i
    BY <1>1
  <2> QED BY <1>1, <1>3, <2>1
<1>6. s = v
  BY <1>2, <1>3, <1>4, <1>5, SeqEqual
<1> QED BY <1>6 DEF s, l

LEMMA DecodeStep ==
    ASSUME NEW y \in Seq(Byte), NEW f, Decoding(y, f), NEW base, NEW c, NEW v, Here(y, base, c, v)
    PROVE  f[base + 1] = {Option(c, v)} \cup f[base + 2 + Len(v) + 1]
<1> DEFINE i == base + 1
           l == Len(v)
           n == Len(y)
<1>1. /\ c \in Byte \ {DHCP_OPT_END} /\ v \in Seq(Byte) /\ base \in Nat
      /\ Holds(y, base, <<c, l>>) /\ Holds(y, base + 2, v) /\ base + 2 + l <= n
  BY DEF Here, IsField
<1>2. l \in Nat /\ n \in Nat
  BY <1>1
<1> HIDE DEF l, n
<1>3. y[i] = c /\ y[i + 1] = l
  <2>1. i + 1 = base + 2
    BY <1>1
  <2>2. \A k \in 1..2 : y[base + k] = <<c, l>>[k]
    BY <1>1 DEF Holds
  <2>3. 1 \in 1..2 /\ 2 \in 1..2
    OBVIOUS
  <2> QED BY <2>1, <2>2, <2>3
<1>4. /\ i \in 1..n + 257 /\ ~(i > n) /\ ~(i = n \/ i + 1 + l > n)
      /\ i + 2 = base + 2 + 1 /\ i + 1 + l = base + 2 + l /\ i + 2 + l = base + 2 + l + 1
  BY <1>1, <1>2
<1>5. SubSeq(y, base + 2 + 1, base + 2 + l) = v
  <2>1. base + 2 \in Nat /\ (base + 2) + Len(v) <= Len(y)
    BY <1>1 DEF l, n
  <2> QED BY <1>1, <2>1, ValueAt DEF l
<1> HIDE DEF i
<1>6. f[i] = IF i > Len(y) THEN {Option(0, <<>>)}
             ELSE IF y[i] = DHCP_OPT_END THEN {}
             ELSE IF i = Len(y) \/ i + 1 + y[i + 1] > Len(y) THEN {Option(0, <<>>)}
             ELSE {Option(y[i], SubSeq(y, i + 2, i + 1 + y[i + 1]))} \cup f[i + 2 + y[i + 1]]
  <2>1. i \in 1..Len(y) + 257
    BY <1>4 DEF n
  <2>2. ReadsOn(y, f, i)
    BY <2>1, DecodingAt
  <2> QED BY <2>2, Zenon DEF ReadsOn
<1>7. f[i] = IF i > n THEN {Option(0, <<>>)}
             ELSE IF c = DHCP_OPT_END THEN {}
             ELSE IF i = n \/ i + 1 + l > n THEN {Option(0, <<>>)}
             ELSE {Option(c, SubSeq(y, i + 2, i + 1 + l))} \cup f[i + 2 + l]
  BY <1>3, <1>6, Zenon DEF n
<1>8. c # DHCP_OPT_END
  BY <1>1
<1>9. f[i] = {Option(c, SubSeq(y, i + 2, i + 1 + l))} \cup f[i + 2 + l]
  BY <1>4, <1>7, <1>8, Zenon
<1>10. f[i] = {Option(c, v)} \cup f[base + 2 + l + 1]
  BY <1>4, <1>5, <1>9, Zenon
<1> QED BY <1>10 DEF i, l

LEMMA DecodeEnds ==
    ASSUME NEW y \in Seq(Byte), NEW f, Decoding(y, f), NEW base \in Nat,
           Holds(y, base, <<DHCP_OPT_END>>), base + 1 <= Len(y)
    PROVE  f[base + 1] = {}
<1> DEFINE i == base + 1
<1>1. y[i] = DHCP_OPT_END
  BY DEF Holds
<1>2. i \in 1..Len(y) + 257 /\ ~(i > Len(y))
  OBVIOUS
<1> HIDE DEF i
<1>3. f[i] = IF i > Len(y) THEN {Option(0, <<>>)}
             ELSE IF y[i] = DHCP_OPT_END THEN {}
             ELSE IF i = Len(y) \/ i + 1 + y[i + 1] > Len(y) THEN {Option(0, <<>>)}
             ELSE {Option(y[i], SubSeq(y, i + 2, i + 1 + y[i + 1]))} \cup f[i + 2 + y[i + 1]]
  <2>1. i \in 1..Len(y) + 257
    BY <1>2
  <2>2. ReadsOn(y, f, i)
    BY <2>1, DecodingAt
  <2> QED BY <2>2, Zenon DEF ReadsOn
<1>4. f[i] = {}
  BY <1>1, <1>2, <1>3, Zenon
<1> QED BY <1>4 DEF i

LEMMA DecodedIs ==
    ASSUME NEW y \in Seq(Byte)
    PROVE  \E f : Decoding(y, f) /\ Decoded(y) = f[1]
<1> DEFINE f == CHOOSE f : f = DecodingFrom(y, 1, f)
<1>1. \E x : x = DecodingFrom(y, 1, x)
  BY DecodingExists
<1>2. f = DecodingFrom(y, 1, f)
  BY <1>1, Zenon
<1>3. Decoded(y) = f[1]
  BY Zenon DEF Decoded, DecodingFrom
<1> HIDE DEF f
<1> QED BY <1>2, <1>3 DEF Decoding

(* y begins with w. *)
Standing(y, w) == w \in Seq(Byte) /\ Holds(y, 0, w) /\ Len(w) <= Len(y)

LEMMA FieldLength ==
    ASSUME NEW w \in Seq(Byte), NEW c, NEW v, IsField(c, v)
    PROVE  /\ Len(v) \in Nat /\ Len(w) \in Nat /\ w \o opt_write_n(c, v) \in Seq(Byte)
           /\ Len(w \o opt_write_n(c, v)) = Len(w) + 2 + Len(v)
<1>1. c \in Byte /\ v \in Seq(Byte) /\ Len(v) <= 255
  BY DEF IsField
<1>2. Len(v) \in Byte
  <2> DEFINE l == Len(v)
  <2>1. l \in Nat /\ l <= 255
    BY <1>1
  <2> HIDE DEF l
  <2>2. l \in Byte
    BY <2>1 DEF Byte
  <2> QED BY <2>2 DEF l
<1> DEFINE h == <<c, Len(v)>>
<1>3. h \in Seq(Byte) /\ Len(h) = 2
  BY <1>1, <1>2, Pairs
<1>4. opt_write_n(c, v) = h \o v
  BY DEF opt_write_n
<1> HIDE DEF h
<1>5. h \o v \in Seq(Byte) /\ Len(h \o v) = 2 + Len(v)
  BY <1>1, <1>3, Joining
<1>6. w \o (h \o v) \in Seq(Byte) /\ Len(w \o (h \o v)) = Len(w) + Len(h \o v)
  BY <1>5, Joining
<1>7. Len(v) \in Nat /\ Len(w) \in Nat
  BY <1>1
<1>8. Len(w \o (h \o v)) = Len(w) + 2 + Len(v)
  BY <1>5, <1>6, <1>7
<1> QED BY <1>4, <1>6, <1>7, <1>8

LEMMA Field ==
    ASSUME NEW y \in Seq(Byte), NEW w \in Seq(Byte), NEW c, NEW v, IsField(c, v),
           Standing(y, w \o opt_write_n(c, v))
    PROVE  Standing(y, w) /\ Here(y, Len(w), c, v)
<1>1. c \in Byte /\ v \in Seq(Byte) /\ Len(v) <= 255
  BY DEF IsField
<1>2. Len(v) \in Byte
  <2> DEFINE l == Len(v)
  <2>1. l \in Nat /\ l <= 255
    BY <1>1
  <2> HIDE DEF l
  <2>2. l \in Byte
    BY <2>1 DEF Byte
  <2> QED BY <2>2 DEF l
<1> DEFINE h == <<c, Len(v)>>
           p == h \o v
<1>3. h \in Seq(Byte) /\ Len(h) = 2
  BY <1>1, <1>2, Pairs
<1>4. opt_write_n(c, v) = p
  BY DEF opt_write_n
<1> HIDE DEF h
<1>5. p \in Seq(Byte)
  BY <1>1, <1>3, Joining
<1>6. Holds(y, 0, w \o p) /\ Len(w \o p) <= Len(y) /\ Len(w \o p) = Len(w) + 2 + Len(v)
  BY <1>4, FieldLength DEF Standing
<1>7. Holds(y, 0, w) /\ Holds(y, 0 + Len(w), p)
  <2> HIDE DEF p
  <2> QED BY <1>5, <1>6, AtParts
<1>8. 0 + Len(w) = Len(w) /\ Len(w) \in Nat
  OBVIOUS
<1>9. Holds(y, Len(w), h) /\ Holds(y, Len(w) + 2, v)
  <2>1. Holds(y, Len(w), h \o v)
    BY <1>7, <1>8
  <2>2. Holds(y, Len(w), h) /\ Holds(y, Len(w) + Len(h), v)
    BY <1>1, <1>3, <1>8, <2>1, AtParts
  <2> QED BY <1>3, <2>2
<1> DEFINE k == Len(w)
           l == Len(v)
           n == Len(y)
<1>10. k \in Nat /\ l \in Nat /\ n \in Nat /\ k + 2 + l <= n
  BY <1>1, <1>6
<1>11. k <= n
  <2> HIDE DEF k, l, n
  <2> QED BY <1>10
<1> QED BY <1>7, <1>9, <1>10, <1>11 DEF Standing, Here, h

LEMMA Lease ==
    opt_write_u32(DHCP_OPT_IP_LEASE_TIME, DEFAULT_LEASE_TIME_S)
      = opt_write_n(DHCP_OPT_IP_LEASE_TIME, <<0, 1, 81, 128>>)
<1> DEFINE t == DEFAULT_LEASE_TIME_S
           v == [i \in 1..4 |-> (t \div PowersOf256[i]) % 256]
           w == <<0, 1, 81, 128>>
<1>1. t = 86400
  BY SMT DEF DEFAULT_LEASE_TIME_S
<1>2. PowersOf256[1] = 16777216 /\ PowersOf256[2] = 65536 /\ PowersOf256[3] = 256 /\ PowersOf256[4] = 1
  BY SMT DEF PowersOf256
<1>3. opt_write_u32(DHCP_OPT_IP_LEASE_TIME, t) = <<DHCP_OPT_IP_LEASE_TIME, 4>> \o v
  BY Zenon DEF opt_write_u32
<1> HIDE DEF t
<1>4. /\ (t \div PowersOf256[1]) % 256 = 0 /\ (t \div PowersOf256[2]) % 256 = 1
      /\ (t \div PowersOf256[3]) % 256 = 81 /\ (t \div PowersOf256[4]) % 256 = 128
  BY <1>1, <1>2, SMT
<1>5. v[1] = 0 /\ v[2] = 1 /\ v[3] = 81 /\ v[4] = 128
  <2>1. 1 \in 1..4 /\ 2 \in 1..4 /\ 3 \in 1..4 /\ 4 \in 1..4
    BY SMT
  <2> QED BY <1>4, <2>1, Zenon
<1>6. v \in Seq(Byte) /\ Len(v) = 4
  <2>1. ASSUME NEW i \in 1..4 PROVE v[i] \in Byte
    <3> HIDE DEF v
    <3>1. i = 1 \/ i = 2 \/ i = 3 \/ i = 4
      BY SMT
    <3> QED BY <1>5, <3>1, SMT DEF Byte
  <2>2. v = [i \in 1..4 |-> v[i]]
    BY Zenon
  <2> HIDE DEF v
  <2> QED BY <2>1, <2>2, SMT
<1> HIDE DEF v
<1>7. w \in Seq(Byte) /\ Len(w) = 4 /\ w[1] = 0 /\ w[2] = 1 /\ w[3] = 81 /\ w[4] = 128
  BY SMT DEF Byte
<1> HIDE DEF w
<1>8. v = w
  <2>1. \A i \in 1..4 : i = 1 \/ i = 2 \/ i = 3 \/ i = 4
    BY SMT
  <2>2. \A i \in 1..4 : v[i] = w[i]
    BY <1>5, <1>7, <2>1, SMT
  <2> QED BY <1>6, <1>7, <2>2, SeqEqual
<1>9. opt_write_n(DHCP_OPT_IP_LEASE_TIME, w) = <<DHCP_OPT_IP_LEASE_TIME, 4>> \o w
  BY <1>7, Zenon DEF opt_write_n
<1> QED BY <1>3, <1>8, <1>9, Zenon DEF t, w

LEMMA TypeField ==
    ASSUME NEW type \in Byte
    PROVE  opt_write_u8(DHCP_OPT_MSG_TYPE, type) = <<>> \o opt_write_n(DHCP_OPT_MSG_TYPE, <<type>>)
BY DEF opt_write_u8, opt_write_n, DHCP_OPT_MSG_TYPE

(* The parts of the reply, in turn. *)
W0 == <<>>
W1(type) == W0 \o opt_write_n(DHCP_OPT_MSG_TYPE, <<type>>)
W2(type, d) == W1(type) \o opt_write_n(DHCP_OPT_SERVER_ID, d.ip)
W3(type, d) == W2(type, d) \o opt_write_n(DHCP_OPT_SUBNET_MASK, d.nm)
W4(type, d) == W3(type, d) \o opt_write_n(DHCP_OPT_ROUTER, d.ip)
W5(type, d) == W4(type, d) \o opt_write_n(DHCP_OPT_DNS, d.ip)
W6(type, d) == IF d.domain_name = Absent THEN W5(type, d)
               ELSE W5(type, d) \o opt_write_n(DHCP_OPT_DOMAIN_NAME, d.domain_name)
W7(type, d) == W6(type, d) \o opt_write_n(DHCP_OPT_IP_LEASE_TIME, <<0, 1, 81, 128>>)
W8(type, d) == W7(type, d) \o <<DHCP_OPT_END>>

LEMMA FieldsAre ==
    ASSUME NEW d \in Servers, NEW type \in Byte
    PROVE  /\ IsField(DHCP_OPT_MSG_TYPE, <<type>>) /\ Len(<<type>>) = 1
           /\ IsField(DHCP_OPT_SERVER_ID, d.ip) /\ Len(d.ip) = 4
           /\ IsField(DHCP_OPT_SUBNET_MASK, d.nm) /\ Len(d.nm) = 4
           /\ IsField(DHCP_OPT_ROUTER, d.ip)
           /\ IsField(DHCP_OPT_DNS, d.ip)
           /\ d.domain_name # Absent => IsField(DHCP_OPT_DOMAIN_NAME, d.domain_name)
           /\ IsField(DHCP_OPT_IP_LEASE_TIME, <<0, 1, 81, 128>>) /\ Len(<<0, 1, 81, 128>>) = 4
<1>1. {DHCP_OPT_MSG_TYPE, DHCP_OPT_SERVER_ID, DHCP_OPT_SUBNET_MASK, DHCP_OPT_ROUTER, DHCP_OPT_DNS,
       DHCP_OPT_DOMAIN_NAME, DHCP_OPT_IP_LEASE_TIME} \subseteq Byte \ {DHCP_OPT_END}
  BY DEF DHCP_OPT_MSG_TYPE, DHCP_OPT_SERVER_ID, DHCP_OPT_SUBNET_MASK, DHCP_OPT_ROUTER, DHCP_OPT_DNS,
         DHCP_OPT_DOMAIN_NAME, DHCP_OPT_IP_LEASE_TIME, DHCP_OPT_END, Byte
<1>2. <<type>> \in Seq(Byte) /\ Len(<<type>>) = 1
  OBVIOUS
<1>3. <<0, 1, 81, 128>> \in Seq(Byte) /\ Len(<<0, 1, 81, 128>>) = 4
  BY DEF Byte
<1>4. d.ip \in Seq(Byte) /\ Len(d.ip) = 4 /\ d.nm \in Seq(Byte) /\ Len(d.nm) = 4
  BY ServersAre DEF Address
<1>5. d.domain_name # Absent => d.domain_name \in Seq(Byte) /\ Len(d.domain_name) <= 255
  BY ServersAre
<1> HIDE DEF Byte
<1>6. Len(<<type>>) <= 255 /\ Len(<<0, 1, 81, 128>>) <= 255 /\ Len(d.ip) <= 255 /\ Len(d.nm) <= 255
  BY <1>2, <1>3, <1>4
<1> QED BY <1>1, <1>2, <1>3, <1>4, <1>5, <1>6 DEF IsField

LEMMA FieldRead ==
    ASSUME NEW y \in Seq(Byte), NEW f, Decoding(y, f), NEW w \in Seq(Byte), NEW c, NEW v, IsField(c, v),
           Standing(y, w \o opt_write_n(c, v))
    PROVE  /\ Standing(y, w)
           /\ f[Len(w) + 1] = {Option(c, v)} \cup f[Len(w \o opt_write_n(c, v)) + 1]
<1>1. Standing(y, w) /\ Here(y, Len(w), c, v)
  BY Field
<1>2. f[Len(w) + 1] = {Option(c, v)} \cup f[Len(w) + 2 + Len(v) + 1]
  <2> DEFINE k == Len(w)
  <2>1. Here(y, k, c, v)
    BY <1>1
  <2> HIDE DEF k
  <2>2. f[k + 1] = {Option(c, v)} \cup f[k + 2 + Len(v) + 1]
    BY <2>1, DecodeStep
  <2> QED BY <2>2 DEF k
<1>3. Len(w \o opt_write_n(c, v)) = Len(w) + 2 + Len(v)
  BY FieldLength
<1> QED BY <1>1, <1>2, <1>3, Zenon

LEMMA EndRead ==
    ASSUME NEW y \in Seq(Byte), NEW f, Decoding(y, f), NEW w \in Seq(Byte),
           Standing(y, w \o <<DHCP_OPT_END>>)
    PROVE  Standing(y, w) /\ f[Len(w) + 1] = {}
<1> DEFINE e == <<DHCP_OPT_END>>
           k == Len(w)
           n == Len(y)
<1>1. e \in Seq(Byte) /\ Len(e) = 1
  BY DEF DHCP_OPT_END, Byte
<1>2. Holds(y, 0, w \o e) /\ Len(w \o e) <= n
  BY DEF Standing
<1> HIDE DEF e
<1>3. Len(w \o e) = Len(w) + Len(e)
  BY <1>1, Joining
<1>4. Holds(y, 0, w) /\ Holds(y, 0 + k, e)
  BY <1>1, <1>2, AtParts
<1>5. k \in Nat /\ n \in Nat
  OBVIOUS
<1>6. k + 1 <= n
  BY <1>1, <1>2, <1>3
<1> HIDE DEF k, n
<1>7. k <= n /\ 0 + k = k
  BY <1>5, <1>6
<1>8. Holds(y, k, e)
  BY <1>4, <1>7, Zenon
<1>9. f[k + 1] = {}
  BY <1>5, <1>6, <1>8, DecodeEnds DEF e, n
<1> QED BY <1>4, <1>7, <1>9 DEF Standing, k, n

LEMMA ReplyLengths ==
    ASSUME NEW d \in Servers, NEW type \in Byte
    PROVE  /\ W0 \in Seq(Byte) /\ Len(W0) = 0
           /\ W1(type) \in Seq(Byte) /\ W2(type, d) \in Seq(Byte) /\ W3(type, d) \in Seq(Byte)
           /\ W4(type, d) \in Seq(Byte) /\ W5(type, d) \in Seq(Byte) /\ W6(type, d) \in Seq(Byte)
           /\ W7(type, d) \in Seq(Byte) /\ W8(type, d) \in Seq(Byte)
           /\ Len(W8(type, d)) <= OPTIONS
<1>0. W0 \in Seq(Byte) /\ Len(W0) = 0
  BY DEF W0
<1>1. W1(type) \in Seq(Byte) /\ Len(W1(type)) = 3
  <2>1. IsField(DHCP_OPT_MSG_TYPE, <<type>>) /\ Len(<<type>>) = 1
    BY FieldsAre
  <2>2. /\ W0 \o opt_write_n(DHCP_OPT_MSG_TYPE, <<type>>) \in Seq(Byte)
        /\ Len(W0 \o opt_write_n(DHCP_OPT_MSG_TYPE, <<type>>)) = Len(W0) + 2 + Len(<<type>>)
    BY <1>0, <2>1, FieldLength
  <2>3. W1(type) \in Seq(Byte) /\ Len(W1(type)) = Len(W0) + 2 + Len(<<type>>)
    BY <2>2, Zenon DEF W1
  <2> QED BY <1>0, <2>1, <2>3
<1>2. W2(type, d) \in Seq(Byte) /\ Len(W2(type, d)) = 9
  <2>1. IsField(DHCP_OPT_SERVER_ID, d.ip) /\ Len(d.ip) = 4
    BY FieldsAre
  <2>2. /\ W1(type) \o opt_write_n(DHCP_OPT_SERVER_ID, d.ip) \in Seq(Byte)
        /\ Len(W1(type) \o opt_write_n(DHCP_OPT_SERVER_ID, d.ip)) = Len(W1(type)) + 2 + Len(d.ip)
    BY <1>1, <2>1, FieldLength
  <2>3. W2(type, d) \in Seq(Byte) /\ Len(W2(type, d)) = Len(W1(type)) + 2 + Len(d.ip)
    BY <2>2, Zenon DEF W2
  <2> QED BY <1>1, <2>1, <2>3
<1>3. W3(type, d) \in Seq(Byte) /\ Len(W3(type, d)) = 15
  <2>1. IsField(DHCP_OPT_SUBNET_MASK, d.nm) /\ Len(d.nm) = 4
    BY FieldsAre
  <2>2. /\ W2(type, d) \o opt_write_n(DHCP_OPT_SUBNET_MASK, d.nm) \in Seq(Byte)
        /\ Len(W2(type, d) \o opt_write_n(DHCP_OPT_SUBNET_MASK, d.nm)) = Len(W2(type, d)) + 2 + Len(d.nm)
    BY <1>2, <2>1, FieldLength
  <2>3. W3(type, d) \in Seq(Byte) /\ Len(W3(type, d)) = Len(W2(type, d)) + 2 + Len(d.nm)
    BY <2>2, Zenon DEF W3
  <2> QED BY <1>2, <2>1, <2>3
<1>4. W4(type, d) \in Seq(Byte) /\ Len(W4(type, d)) = 21
  <2>1. IsField(DHCP_OPT_ROUTER, d.ip) /\ Len(d.ip) = 4
    BY FieldsAre
  <2>2. /\ W3(type, d) \o opt_write_n(DHCP_OPT_ROUTER, d.ip) \in Seq(Byte)
        /\ Len(W3(type, d) \o opt_write_n(DHCP_OPT_ROUTER, d.ip)) = Len(W3(type, d)) + 2 + Len(d.ip)
    BY <1>3, <2>1, FieldLength
  <2>3. W4(type, d) \in Seq(Byte) /\ Len(W4(type, d)) = Len(W3(type, d)) + 2 + Len(d.ip)
    BY <2>2, Zenon DEF W4
  <2> QED BY <1>3, <2>1, <2>3
<1>5. W5(type, d) \in Seq(Byte) /\ Len(W5(type, d)) = 27
  <2>1. IsField(DHCP_OPT_DNS, d.ip) /\ Len(d.ip) = 4
    BY FieldsAre
  <2>2. /\ W4(type, d) \o opt_write_n(DHCP_OPT_DNS, d.ip) \in Seq(Byte)
        /\ Len(W4(type, d) \o opt_write_n(DHCP_OPT_DNS, d.ip)) = Len(W4(type, d)) + 2 + Len(d.ip)
    BY <1>4, <2>1, FieldLength
  <2>3. W5(type, d) \in Seq(Byte) /\ Len(W5(type, d)) = Len(W4(type, d)) + 2 + Len(d.ip)
    BY <2>2, Zenon DEF W5
  <2> QED BY <1>4, <2>1, <2>3
<1>6. W6(type, d) \in Seq(Byte) /\ Len(W6(type, d)) \in 27..284
  <2>1. CASE d.domain_name = Absent
    <3>1. W6(type, d) = W5(type, d)
      BY <2>1, Zenon DEF W6
    <3> QED BY <1>5, <3>1
  <2>2. CASE d.domain_name # Absent
    <3> DEFINE v == d.domain_name
    <3>1. IsField(DHCP_OPT_DOMAIN_NAME, v)
      BY <2>2, FieldsAre
    <3>2. Len(v) \in Nat /\ Len(v) <= 255
      BY <3>1 DEF IsField
    <3>3. W6(type, d) = W5(type, d) \o opt_write_n(DHCP_OPT_DOMAIN_NAME, v)
      BY <2>2, Zenon DEF W6
    <3> HIDE DEF v
    <3>4. /\ W5(type, d) \o opt_write_n(DHCP_OPT_DOMAIN_NAME, v) \in Seq(Byte)
          /\ Len(W5(type, d) \o opt_write_n(DHCP_OPT_DOMAIN_NAME, v)) = Len(W5(type, d)) + 2 + Len(v)
      BY <1>5, <3>1, FieldLength
    <3>5. W6(type, d) \in Seq(Byte) /\ Len(W6(type, d)) = Len(W5(type, d)) + 2 + Len(v)
      BY <3>3, <3>4, Zenon
    <3> DEFINE k == Len(W6(type, d))
               l == Len(v)
    <3>6. k = 27 + 2 + l /\ l \in Nat /\ l <= 255
      BY <1>5, <3>2, <3>5
    <3> HIDE DEF k, l
    <3>7. k \in 27..284
      BY <3>6
    <3> QED BY <3>5, <3>7 DEF k
  <2> QED BY <2>1, <2>2
<1>7. W7(type, d) \in Seq(Byte) /\ Len(W7(type, d)) = Len(W6(type, d)) + 6
  <2> DEFINE v == <<0, 1, 81, 128>>
  <2>1. IsField(DHCP_OPT_IP_LEASE_TIME, v) /\ Len(v) = 4
    BY FieldsAre
  <2>2. W7(type, d) = W6(type, d) \o opt_write_n(DHCP_OPT_IP_LEASE_TIME, v)
    BY Zenon DEF W7
  <2> HIDE DEF v
  <2>3. /\ W6(type, d) \o opt_write_n(DHCP_OPT_IP_LEASE_TIME, v) \in Seq(Byte)
        /\ Len(W6(type, d) \o opt_write_n(DHCP_OPT_IP_LEASE_TIME, v)) = Len(W6(type, d)) + 2 + Len(v)
    BY <1>6, <2>1, FieldLength
  <2>4. W7(type, d) \in Seq(Byte) /\ Len(W7(type, d)) = Len(W6(type, d)) + 2 + Len(v)
    BY <2>2, <2>3, Zenon
  <2> QED BY <1>6, <2>1, <2>4
<1>8. W8(type, d) \in Seq(Byte) /\ Len(W8(type, d)) = Len(W7(type, d)) + 1
  <2> DEFINE e == <<DHCP_OPT_END>>
  <2>1. e \in Seq(Byte) /\ Len(e) = 1
    BY DEF DHCP_OPT_END, Byte
  <2>2. W8(type, d) = W7(type, d) \o e
    BY Zenon DEF W8
  <2> HIDE DEF e
  <2>3. W7(type, d) \o e \in Seq(Byte) /\ Len(W7(type, d) \o e) = Len(W7(type, d)) + Len(e)
    BY <1>7, <2>1, Joining
  <2> QED BY <2>1, <2>2, <2>3
<1>9. Len(W8(type, d)) <= OPTIONS
  <2> DEFINE k == Len(W6(type, d))
             l == Len(W7(type, d))
             m == Len(W8(type, d))
  <2>1. k \in 27..284
    BY <1>6
  <2>2. l = k + 6
    BY <1>7
  <2>3. m = l + 1
    BY <1>8
  <2> HIDE DEF k, l, m
  <2>4. m <= 308
    BY <2>1, <2>2, <2>3
  <2> QED BY <2>4 DEF m, OPTIONS
<1> QED BY <1>0, <1>1, <1>2, <1>3, <1>4, <1>5, <1>6, <1>7, <1>8, <1>9

(* The options meant for the client. *)
Meant(type, d) ==
    {Option(DHCP_OPT_MSG_TYPE, <<type>>), Option(DHCP_OPT_SERVER_ID, d.ip),
     Option(DHCP_OPT_SUBNET_MASK, d.nm), Option(DHCP_OPT_ROUTER, d.ip),
     Option(DHCP_OPT_DNS, d.ip), Option(DHCP_OPT_IP_LEASE_TIME, <<0, 1, 81, 128>>)}
    \cup IF d.domain_name = Absent THEN {} ELSE {Option(DHCP_OPT_DOMAIN_NAME, d.domain_name)}

(* Whatever is behind the reply in y, its options are read from y. *)
LEMMA ReplyRead ==
    ASSUME NEW d \in Servers, NEW type \in Byte, NEW y \in Seq(Byte), Standing(y, W8(type, d))
    PROVE  Decoded(y) = Meant(type, d)
<1>0. PICK f : Decoding(y, f) /\ Decoded(y) = f[1]
  BY DecodedIs
<1> DEFINE dn == d.domain_name
           ls == <<0, 1, 81, 128>>
<1>1. /\ W0 \in Seq(Byte) /\ W1(type) \in Seq(Byte) /\ W2(type, d) \in Seq(Byte)
      /\ W3(type, d) \in Seq(Byte) /\ W4(type, d) \in Seq(Byte) /\ W5(type, d) \in Seq(Byte)
      /\ W6(type, d) \in Seq(Byte) /\ W7(type, d) \in Seq(Byte)
  BY ReplyLengths
<1>2. /\ IsField(DHCP_OPT_MSG_TYPE, <<type>>) /\ IsField(DHCP_OPT_SERVER_ID, d.ip)
      /\ IsField(DHCP_OPT_SUBNET_MASK, d.nm) /\ IsField(DHCP_OPT_ROUTER, d.ip)
      /\ IsField(DHCP_OPT_DNS, d.ip) /\ IsField(DHCP_OPT_IP_LEASE_TIME, ls)
      /\ dn # Absent => IsField(DHCP_OPT_DOMAIN_NAME, dn)
  BY FieldsAre
<1>3. Standing(y, W7(type, d)) /\ f[Len(W7(type, d)) + 1] = {}
  <2>1. Standing(y, W7(type, d) \o <<DHCP_OPT_END>>)
    BY Zenon DEF W8
  <2> QED BY <1>0, <1>1, <2>1, EndRead
<1>4. /\ Standing(y, W6(type, d))
      /\ f[Len(W6(type, d)) + 1] = {Option(DHCP_OPT_IP_LEASE_TIME, ls)} \cup f[Len(W7(type, d)) + 1]
  <2>1. W7(type, d) = W6(type, d) \o opt_write_n(DHCP_OPT_IP_LEASE_TIME, ls)
    BY Zenon DEF W7
  <2> HIDE DEF ls
  <2>2. IsField(DHCP_OPT_IP_LEASE_TIME, ls) /\ W6(type, d) \in Seq(Byte)
    BY <1>1, <1>2
  <2>3. Standing(y, W6(type, d) \o opt_write_n(DHCP_OPT_IP_LEASE_TIME, ls))
    BY <1>3, <2>1, Zenon
  <2>4. /\ Standing(y, W6(type, d))
        /\ f[Len(W6(type, d)) + 1] = {Option(DHCP_OPT_IP_LEASE_TIME, ls)} \cup f[Len(W6(type, d) \o opt_write_n(DHCP_OPT_IP_LEASE_TIME, ls)) + 1]
    BY <1>0, <2>2, <2>3, FieldRead
  <2> QED BY <2>1, <2>4, Zenon
<1>5. /\ Standing(y, W5(type, d))
      /\ f[Len(W5(type, d)) + 1] = (IF dn = Absent THEN {} ELSE {Option(DHCP_OPT_DOMAIN_NAME, dn)})
                                   \cup f[Len(W6(type, d)) + 1]
  <2>1. CASE dn = Absent
    <3>1. W6(type, d) = W5(type, d)
      BY <2>1, Zenon DEF W6
    <3> QED BY <1>4, <2>1, <3>1
  <2>2. CASE dn # Absent
    <3>1. W6(type, d) = W5(type, d) \o opt_write_n(DHCP_OPT_DOMAIN_NAME, dn)
      BY <2>2, Zenon DEF W6
    <3> HIDE DEF dn
    <3>2. IsField(DHCP_OPT_DOMAIN_NAME, dn) /\ W5(type, d) \in Seq(Byte)
      BY <1>1, <1>2, <2>2
    <3>3. Standing(y, W5(type, d) \o opt_write_n(DHCP_OPT_DOMAIN_NAME, dn))
      BY <1>4, <3>1, Zenon
    <3>4. /\ Standing(y, W5(type, d))
          /\ f[Len(W5(type, d)) + 1] = {Option(DHCP_OPT_DOMAIN_NAME, dn)}
                \cup f[Len(W5(type, d) \o opt_write_n(DHCP_OPT_DOMAIN_NAME, dn)) + 1]
      BY <1>0, <3>2, <3>3, FieldRead
    <3>5. f[Len(W5(type, d)) + 1] = {Option(DHCP_OPT_DOMAIN_NAME, dn)} \cup f[Len(W6(type, d)) + 1]
      BY <3>1, <3>4, Zenon
    <3> QED BY <2>2, <3>4, <3>5, Zenon
  <2> QED BY <2>1, <2>2
<1>6. /\ Standing(y, W4(type, d))
      /\ f[Len(W4(type, d)) + 1] = {Option(DHCP_OPT_DNS, d.ip)} \cup f[Len(W5(type, d)) + 1]
  <2>1. W5(type, d) = W4(type, d) \o opt_write_n(DHCP_OPT_DNS, d.ip)
    BY Zenon DEF W5
  <2>2. IsField(DHCP_OPT_DNS, d.ip) /\ W4(type, d) \in Seq(Byte)
    BY <1>1, <1>2
  <2>3. Standing(y, W4(type, d) \o opt_write_n(DHCP_OPT_DNS, d.ip))
    BY <1>5, <2>1, Zenon
  <2>4. /\ Standing(y, W4(type, d))
        /\ f[Len(W4(type, d)) + 1] = {Option(DHCP_OPT_DNS, d.ip)} \cup f[Len(W4(type, d) \o opt_write_n(DHCP_OPT_DNS, d.ip)) + 1]
    BY <1>0, <2>2, <2>3, FieldRead
  <2> QED BY <2>1, <2>4, Zenon
<1>7. /\ Standing(y, W3(type, d))
      /\ f[Len(W3(type, d)) + 1] = {Option(DHCP_OPT_ROUTER, d.ip)} \cup f[Len(W4(type, d)) + 1]
  <2>1. W4(type, d) = W3(type, d) \o opt_write_n(DHCP_OPT_ROUTER, d.ip)
    BY Zenon DEF W4
  <2>2. IsField(DHCP_OPT_ROUTER, d.ip) /\ W3(type, d) \in Seq(Byte)
    BY <1>1, <1>2
  <2>3. Standing(y, W3(type, d) \o opt_write_n(DHCP_OPT_ROUTER, d.ip))
    BY <1>6, <2>1, Zenon
  <2>4. /\ Standing(y, W3(type, d))
        /\ f[Len(W3(type, d)) + 1] = {Option(DHCP_OPT_ROUTER, d.ip)} \cup f[Len(W3(type, d) \o opt_write_n(DHCP_OPT_ROUTER, d.ip)) + 1]
    BY <1>0, <2>2, <2>3, FieldRead
  <2> QED BY <2>1, <2>4, Zenon
<1>8. /\ Standing(y, W2(type, d))
      /\ f[Len(W2(type, d)) + 1] = {Option(DHCP_OPT_SUBNET_MASK, d.nm)} \cup f[Len(W3(type, d)) + 1]
  <2>1. W3(type, d) = W2(type, d) \o opt_write_n(DHCP_OPT_SUBNET_MASK, d.nm)
    BY Zenon DEF W3
  <2>2. IsField(DHCP_OPT_SUBNET_MASK, d.nm) /\ W2(type, d) \in Seq(Byte)
    BY <1>1, <1>2
  <2>3. Standing(y, W2(type, d) \o opt_write_n(DHCP_OPT_SUBNET_MASK, d.nm))
    BY <1>7, <2>1, Zenon
  <2>4. /\ Standing(y, W2(type, d))
        /\ f[Len(W2(type, d)) + 1] = {Option(DHCP_OPT_SUBNET_MASK, d.nm)} \cup f[Len(W2(type, d) \o opt_write_n(DHCP_OPT_SUBNET_MASK, d.nm)) + 1]
    BY <1>0, <2>2, <2>3, FieldRead
  <2> QED BY <2>1, <2>4, Zenon
<1>9. /\ Standing(y, W1(type))
      /\ f[Len(W1(type)) + 1] = {Option(DHCP_OPT_SERVER_ID, d.ip)} \cup f[Len(W2(type, d)) + 1]
  <2>1. W2(type, d) = W1(type) \o opt_write_n(DHCP_OPT_SERVER_ID, d.ip)
    BY Zenon DEF W2
  <2>2. IsField(DHCP_OPT_SERVER_ID, d.ip) /\ W1(type) \in Seq(Byte)
    BY <1>1, <1>2
  <2>3. Standing(y, W1(type) \o opt_write_n(DHCP_OPT_SERVER_ID, d.ip))
    BY <1>8, <2>1, Zenon
  <2>4. /\ Standing(y, W1(type))
        /\ f[Len(W1(type)) + 1] = {Option(DHCP_OPT_SERVER_ID, d.ip)} \cup f[Len(W1(type) \o opt_write_n(DHCP_OPT_SERVER_ID, d.ip)) + 1]
    BY <1>0, <2>2, <2>3, FieldRead
  <2> QED BY <2>1, <2>4, Zenon
<1>10. f[Len(W0) + 1] = {Option(DHCP_OPT_MSG_TYPE, <<type>>)} \cup f[Len(W1(type)) + 1]
  <2>1. W1(type) = W0 \o opt_write_n(DHCP_OPT_MSG_TYPE, <<type>>)
    BY Zenon DEF W1
  <2>2. IsField(DHCP_OPT_MSG_TYPE, <<type>>) /\ W0 \in Seq(Byte)
    BY <1>1, <1>2
  <2>3. Standing(y, W0 \o opt_write_n(DHCP_OPT_MSG_TYPE, <<type>>))
    BY <1>9, <2>1, Zenon
  <2>4. /\ Standing(y, W0)
        /\ f[Len(W0) + 1] = {Option(DHCP_OPT_MSG_TYPE, <<type>>)} \cup f[Len(W0 \o opt_write_n(DHCP_OPT_MSG_TYPE, <<type>>)) + 1]
    BY <1>0, <2>2, <2>3, FieldRead
  <2> QED BY <2>1, <2>4, Zenon
<1>11. Len(W0) + 1 = 1
  BY ReplyLengths
<1> DEFINE s == IF dn = Absent THEN {} ELSE {Option(DHCP_OPT_DOMAIN_NAME, dn)}
<1>12. f[1] = {Option(DHCP_OPT_MSG_TYPE, <<type>>)} \cup ({Option(DHCP_OPT_SERVER_ID, d.ip)}
              \cup ({Option(DHCP_OPT_SUBNET_MASK, d.nm)} \cup ({Option(DHCP_OPT_ROUTER, d.ip)}
              \cup ({Option(DHCP_OPT_DNS, d.ip)} \cup (s \cup ({Option(DHCP_OPT_IP_LEASE_TIME, ls)}
              \cup {}))))))
  <2> HIDE DEF s, ls
  <2> QED BY <1>3, <1>4, <1>5, <1>6, <1>7, <1>8, <1>9, <1>10, <1>11, Zenon DEF s
<1>13. \A a, b, c, g, h, i, z :
         {a} \cup ({b} \cup ({c} \cup ({g} \cup ({h} \cup (z \cup ({i} \cup {}))))))
           = {a, b, c, g, h, i} \cup z
  OBVIOUS
<1>14. f[1] = {Option(DHCP_OPT_MSG_TYPE, <<type>>), Option(DHCP_OPT_SERVER_ID, d.ip),
               Option(DHCP_OPT_SUBNET_MASK, d.nm), Option(DHCP_OPT_ROUTER, d.ip),
               Option(DHCP_OPT_DNS, d.ip), Option(DHCP_OPT_IP_LEASE_TIME, ls)} \cup s
  <2> HIDE DEF s, ls
  <2> QED BY <1>12, <1>13, Zenon
<1> QED BY <1>0, <1>14, Zenon DEF Meant, s, ls, dn

LEMMA SentIs ==
    ASSUME NEW asks, NEW d \in Servers, NEW type \in Byte
    PROVE  ReplyOptions(asks, type, d)
             = [sent |-> W8(type, d),
                buffer |-> W8(type, d) \o SubSeq(asks, Len(W8(type, d)) + 1, Len(asks))]
<1> DEFINE a == opt_write_n(DHCP_OPT_MSG_TYPE, <<type>>)
<1>1. opt_write_u8(DHCP_OPT_MSG_TYPE, type) = W1(type)
  BY TypeField, Zenon DEF W1, W0
<1>2. W6(type, d) = W5(type, d) \o (IF d.domain_name = Absent THEN <<>>
                                   ELSE opt_write_n(DHCP_OPT_DOMAIN_NAME, d.domain_name))
  <2>1. W5(type, d) \in Seq(Byte)
    BY ReplyLengths
  <2>2. W5(type, d) \o <<>> = W5(type, d)
    BY <2>1
  <2> QED BY <2>2, Zenon DEF W6
<1>3. W1(type)
        \o opt_write_n(DHCP_OPT_SERVER_ID, d.ip)
        \o opt_write_n(DHCP_OPT_SUBNET_MASK, d.nm)
        \o opt_write_n(DHCP_OPT_ROUTER, d.ip)
        \o opt_write_n(DHCP_OPT_DNS, d.ip) = W5(type, d)
  BY Zenon DEF W5, W4, W3, W2
<1>4. W6(type, d) \o opt_write_n(DHCP_OPT_IP_LEASE_TIME, <<0, 1, 81, 128>>) \o <<DHCP_OPT_END>>
        = W8(type, d)
  BY Zenon DEF W8, W7
<1> QED BY <1>1, <1>2, <1>3, <1>4, Lease, Zenon DEF ReplyOptions

LEMMA Replies ==
    ASSUME NEW asks \in Seq(Byte), NEW d \in Servers, NEW type \in Byte
    PROVE  LET r == ReplyOptions(asks, type, d)
           IN  /\ Len(r.sent) <= OPTIONS
               /\ Decoded(r.buffer) = Meant(type, d) /\ Decoded(r.sent) = Meant(type, d)
<1> DEFINE w == W8(type, d)
           k == Len(w)
           n == Len(asks)
           t == SubSeq(asks, k + 1, n)
           r == ReplyOptions(asks, type, d)
<1>1. w \in Seq(Byte) /\ k <= OPTIONS
  BY ReplyLengths
<1>2. r.sent = w /\ r.buffer = w \o t
  <2> DEFINE b == w \o t
  <2>1. r = [sent |-> w, buffer |-> b]
    BY SentIs, Zenon
  <2> HIDE DEF w, b, r
  <2>2. r.sent = w /\ r.buffer = b
    BY <2>1
  <2> QED BY <2>2 DEF b
<1> HIDE DEF w, r
<1>3. k \in Nat /\ n \in Nat
  BY <1>1
<1>4. t \in Seq(Byte)
  <2>1. \A i \in k + 1..n : asks[i] \in Byte
    <3> SUFFICES ASSUME NEW i \in k + 1..n PROVE asks[i] \in Byte
      OBVIOUS
    <3> HIDE DEF k, n
    <3>1. i \in 1..n
      BY <1>3
    <3>2. i \in 1..Len(asks)
      BY <3>1 DEF n
    <3> QED BY <3>2, ElementOfSeq
  <2>2. k + 1 \in Int /\ n \in Int
    BY <1>3
  <2> HIDE DEF k, n
  <2> QED BY <2>1, <2>2, SubSeqProperties
<1> HIDE DEF k, n, t
<1>5. Standing(w, w)
  <2>1. \A i \in 1..Len(w) : w[0 + i] = w[i]
    OBVIOUS
  <2>2. Len(w) \in Nat
    BY <1>1
  <2>3. Len(w) <= Len(w)
    BY <2>2
  <2>4. Holds(w, 0, w)
    BY <2>1 DEF Holds
  <2> QED BY <1>1, <2>3, <2>4 DEF Standing
<1>6. w \o t \in Seq(Byte) /\ Standing(w \o t, w)
  <2>1. w \o t \in Seq(Byte) /\ Len(w \o t) = Len(w) + Len(t)
    BY <1>1, <1>4, Joining
  <2>2. Len(w) \in Nat /\ Len(t) \in Nat
    BY <1>1, <1>4
  <2>3. Len(w) <= Len(w \o t)
    BY <2>1, <2>2
  <2>4. Holds(w \o t, 0, w)
    <3>1. \A i \in 1..Len(w) : (w \o t)[i] = w[i]
      BY <1>1, <1>4
    <3>2. \A i \in 1..Len(w) : 0 + i = i
      BY <2>2
    <3> QED BY <3>1, <3>2 DEF Holds
  <2> QED BY <1>1, <2>1, <2>3, <2>4 DEF Standing
<1>7. Decoded(w) = Meant(type, d) /\ Decoded(w \o t) = Meant(type, d)
  <2>1. Decoded(w) = Meant(type, d)
    BY <1>1, <1>5, ReplyRead DEF w
  <2>2. Decoded(w \o t) = Meant(type, d)
    <3> DEFINE y == w \o t
    <3>1. y \in Seq(Byte) /\ Standing(y, W8(type, d))
      BY <1>6 DEF w
    <3> HIDE DEF y
    <3>2. Decoded(y) = Meant(type, d)
      BY <3>1, ReplyRead
    <3> QED BY <3>2 DEF y
  <2> QED BY <2>1, <2>2
<1>8. Len(r.sent) <= OPTIONS
  BY <1>1, <1>2, Zenon DEF k
<1>9. Decoded(r.buffer) = Meant(type, d) /\ Decoded(r.sent) = Meant(type, d)
  BY <1>2, <1>7, Zenon
<1> QED BY <1>8, <1>9, Zenon DEF r

LEMMA MessageBytes ==
    ASSUME NEW type \in Byte, NEW others \in OtherOptions, NEW addr, addr = Absent \/ Address(addr)
    PROVE  Message(type, others, addr) \in Seq(Byte)
<1> DEFINE list == MessageList(type, others, addr)
<1>1. IsList(list)
  BY ListWithAddress, ListWithout
<1> HIDE DEF list
<1>2. PICK e : IsEncoding(list, e) /\ OptionBytes(list) = e[1]
  BY <1>1, EncodingIs
<1>3. 1 \in 1..Len(list) + 1
  BY <1>1 DEF IsList
<1>4. e[1] \in Seq(Byte)
  BY <1>2, <1>3, Zenon DEF IsEncoding
<1> QED BY <1>2, <1>4, MessageIs, Zenon DEF list

LEMMA Understood ==
    ASSUME answer.type = "ack" \/ answer.type = "offer" => answer.ip \in Slots
    PROVE  MessagesUnderstood
<1>1. RequestUnderstood
  <2>1. ASSUME answer.type = "ack", NEW d \in Servers, NEW others \in OtherOptions
        PROVE  LET slot(addr) == RequestedSlot(Message(DHCPREQUEST, others, addr), d)
                   a == yiaddr(d, answer.ip)
               IN  /\ slot(a) = answer.ip
                   /\ slot([a EXCEPT ![1] = (@ + 1) % 256]) = Absent
                   /\ slot([a EXCEPT ![4] = DHCPS_BASE_IP + DHCPS_MAX_IP]) = Absent
                   /\ slot([a EXCEPT ![4] = DHCPS_BASE_IP - 1]) = Absent
                   /\ slot(Absent) = Absent
    BY <2>1, Requests, Zenon
  <2> QED BY <2>1, Zenon DEF RequestUnderstood
<1>2. ReplyReadsBack
  <2>1. ASSUME answer.type # "none", NEW d \in Servers, NEW others \in OtherOptions
        PROVE  LET type == IF answer.type = "ack" THEN DHCPACK ELSE DHCPOFFER
                   asks == IF answer.type = "ack" THEN Message(DHCPREQUEST, others, yiaddr(d, answer.ip))
                           ELSE Message(DHCPDISCOVER, others, Absent)
                   r == ReplyOptions(asks, type, d)
               IN  /\ Len(r.sent) <= OPTIONS
                   /\ Decoded(r.buffer) = Decoded(r.sent)
                   /\ Decoded(r.sent) = Meant(type, d)
    <3> DEFINE type == IF answer.type = "ack" THEN DHCPACK ELSE DHCPOFFER
               asks == IF answer.type = "ack" THEN Message(DHCPREQUEST, others, yiaddr(d, answer.ip))
                       ELSE Message(DHCPDISCOVER, others, Absent)
    <3>1. type \in Byte
      BY DEF DHCPACK, DHCPOFFER, Byte
    <3>2. asks \in Seq(Byte)
      <4>1. CASE answer.type = "ack"
        <5>1. Address(d.ip) /\ answer.ip \in Slots
          BY <4>1, ServersAre
        <5>2. Address(yiaddr(d, answer.ip))
          BY <5>1, Leased
        <5>3. Message(DHCPREQUEST, others, yiaddr(d, answer.ip)) \in Seq(Byte)
          BY <5>2, MessageBytes, Zero
        <5> QED BY <4>1, <5>3, Zenon
      <4>2. CASE answer.type # "ack"
        <5>1. Message(DHCPDISCOVER, others, Absent) \in Seq(Byte)
          BY MessageBytes, Zero
        <5> QED BY <4>2, <5>1, Zenon
      <4> QED BY <4>1, <4>2
    <3> HIDE DEF type, asks
    <3>3. LET r == ReplyOptions(asks, type, d)
          IN  /\ Len(r.sent) <= OPTIONS
              /\ Decoded(r.buffer) = Meant(type, d) /\ Decoded(r.sent) = Meant(type, d)
      BY <3>1, <3>2, Replies, Zenon
    <3>4. LET r == ReplyOptions(asks, type, d)
          IN  /\ Len(r.sent) <= OPTIONS
              /\ Decoded(r.buffer) = Decoded(r.sent) /\ Decoded(r.sent) = Meant(type, d)
      BY <3>3, Zenon
    <3> QED BY <3>4, Zenon DEF type, asks
  <2> QED BY <2>1, Zenon DEF ReplyReadsBack, Meant
<1> QED BY <1>1, <1>2, Zenon DEF MessagesUnderstood

\* The server finds the address a client asks for and no other, whatever
\* options are around it and however they are cut (opt_find), and a client
\* finds in the reply, written over its own message, the options meant for it
\* and no rest of its own (opt_write_n, dhcp_server_process).
THEOREM MessagesRead == DhcpSpec => []MessagesUnderstood
<1>1. DhcpTypeOK => MessagesUnderstood
  <2> SUFFICES ASSUME DhcpTypeOK PROVE MessagesUnderstood
    OBVIOUS
  <2>1. answer \in Answers
    BY DEF DhcpTypeOK
  <2>2. answer.type = "ack" \/ answer.type = "offer" => answer.ip \in Slots
    BY <2>1 DEF Answers
  <2> QED BY <2>2, Understood
<1> QED BY <1>1, DhcpTypeCorrect, PTL

-----------------------------------------------------------------------------
(***************************************************************************)
(* The captive portal.                                                     *)
(***************************************************************************)

(* The client follows redirects only to the name of the device. *)
Led ==
    /\ client.pc \in {"idle", "ask", "request", "page"}
    /\ client = [pc |-> client.pc, ip |-> client.ip, host |-> client.host, labels |-> client.labels,
                 addr |-> client.addr, hops |-> client.hops, edns |-> client.edns,
                 pointer |-> client.pointer, spelt |-> client.spelt]
    /\ client.hops = 0 \/ (client.hops = 1 /\ client.host = Location)

(* The web server takes the name it redirects to for its own. *)
LEMMA OwnName == host_name_matches(Location) = {TRUE}
<1> DEFINE h == Len(host_name)
           d == Len(domain_name)
           rest == <<DOT>> \o domain_name
<1>1. /\ host_name \in Seq(Nat) /\ domain_name \in Seq(Nat) /\ h \in Nat /\ d \in Nat
      /\ HostSize \in Nat /\ h + 1 + d < HostSize
  BY NameAssumption
<1>2. /\ rest \in Seq(Nat) /\ Len(rest) = d + 1 /\ rest[1] = DOT
      /\ \A i \in 1..d : rest[i + 1] = domain_name[i]
  <2>1. <<DOT>> \in Seq(Nat) /\ Len(<<DOT>>) = 1 /\ <<DOT>>[1] = DOT
    BY DEF DOT
  <2> QED BY <1>1, <2>1
<1>3. Location = host_name \o rest
  <2>1. <<DOT>> \in Seq(Nat)
    BY DEF DOT
  <2> QED BY <1>1, <2>1 DEF Location
<1> HIDE DEF rest
<1>4. /\ Location \in Seq(Nat) /\ Len(Location) = h + 1 + d
      /\ \A i \in 1..h : Location[i] = host_name[i]
      /\ \A i \in 1..d + 1 : Location[h + i] = rest[i]
  <2>1. Location \in Seq(Nat) /\ Len(Location) = h + Len(rest)
    BY <1>1, <1>2, <1>3, ConcatProperties, Zenon
  <2>2. ASSUME NEW i \in 1..h PROVE Location[i] = host_name[i]
    BY <1>1, <1>2, <1>3
  <2>3. ASSUME NEW i \in 1..d + 1 PROVE Location[h + i] = rest[i]
    BY <1>1, <1>2, <1>3
  <2> QED BY <1>1, <1>2, <2>1, <2>2, <2>3
<1>5. Truncated(Location) = Location
  BY <1>1, <1>4 DEF Truncated
<1>6. IsPrefix(host_name, Location)
  BY <1>1, <1>4 DEF IsPrefix
<1>7. Location[h + 1] = DOT
  BY <1>1, <1>2, <1>4
<1>8. SubSeq(Location, h + 2, Len(Location)) = domain_name
  <2> DEFINE s == SubSeq(Location, h + 2, h + 1 + d)
  <2>1. s \in Seq(Nat) /\ Len(s) = d
    BY <1>1, <1>4
  <2>2. ASSUME NEW i \in 1..d PROVE s[i] = domain_name[i]
    <3>1. h + 2 + i - 1 = h + (i + 1) /\ i + 1 \in 1..d + 1 /\ i \in 1..(h + 1 + d) - (h + 2) + 1
      BY <1>1
    <3>2. s[i] = Location[h + 2 + i - 1]
      BY <1>1, <1>4, <3>1
    <3>3. s[i] = Location[h + (i + 1)]
      BY <3>1, <3>2
    <3>4. Location[h + (i + 1)] = rest[i + 1] /\ rest[i + 1] = domain_name[i]
      BY <1>2, <1>4, <3>1
    <3> QED BY <3>3, <3>4
  <2> HIDE DEF s
  <2>3. s = domain_name
    BY <1>1, <2>1, <2>2, SeqEqual
  <2> QED BY <1>4, <2>3 DEF s
<1> QED BY <1>5, <1>6, <1>7, <1>8 DEF host_name_matches, SameHost

LEMMA LedInit == PortalInit => Led
BY DEF PortalInit, Led, Idle

LEMMA LedStep == Led /\ [PortalNext]_portalVars => Led'
<1> SUFFICES ASSUME Led, [PortalNext]_portalVars PROVE Led'
  OBVIOUS
<1>1. CASE Start
  BY <1>1 DEF Start, Led
<1>2. CASE dns_server_thread
  BY <1>2 DEF dns_server_thread, Led
<1>3. CASE NoAnswer
  BY <1>3 DEF NoAnswer, Led, Idle
<1>4. CASE HttpRequest
  <2> DEFINE page == [client EXCEPT !.pc = "page"]
             led == [client EXCEPT !.pc = "ask", !.host = Location, !.labels = Device,
                                   !.hops = @ + 1, !.pointer = FALSE]
  <2>1. PICK matches \in host_name_matches(client.host) :
          client' = IF seen'.to # "tcp" THEN client ELSE IF matches THEN page ELSE led
    BY <1>4 DEF HttpRequest
  <2>2. ASSUME client.host = Location PROVE matches = TRUE
    <3>1. matches \in {TRUE}
      BY <2>2, OwnName, Zenon
    <3> QED BY <3>1, Zenon
  <2>3. CASE client.host = Location
    <3> HIDE DEF page, led
    <3>1. client' = client \/ client' = page
      BY <2>1, <2>2, <2>3
    <3> USE DEF page
    <3> QED BY <3>1 DEF Led
  <2>4. CASE client.host # Location
    <3> HIDE DEF page, led
    <3>1. client' = client \/ client' = page \/ client' = led
      BY <2>1
    <3> USE DEF page, led
    <3>2. client.hops = 0
      BY <2>4 DEF Led
    <3>3. CASE client' = client
      BY <3>3 DEF Led
    <3>4. CASE client' = page
      BY <3>4 DEF Led
    <3>5. CASE client' = led
      <4>1. client' = [pc |-> "ask", ip |-> client.ip, host |-> Location, labels |-> Device,
                       addr |-> client.addr, hops |-> client.hops + 1, edns |-> client.edns,
                       pointer |-> FALSE, spelt |-> client.spelt]
        BY <3>5 DEF Led
      <4>2. client'.hops = 1
        BY <3>2, <4>1
      <4> QED BY <4>1, <4>2 DEF Led
    <3> QED BY <3>1, <3>3, <3>4, <3>5, Zenon
  <2> QED BY <2>3, <2>4
<1>5. CASE Leave
  BY <1>5 DEF Leave, Led, Idle
<1>6. CASE Stray
  BY <1>6 DEF Stray, Led
<1>7. CASE BadRequest
  BY <1>7 DEF BadRequest, Led, Idle
<1>8. CASE UNCHANGED portalVars
  BY <1>8 DEF portalVars, Led
<1> QED BY <1>1, <1>2, <1>3, <1>4, <1>5, <1>6, <1>7, <1>8 DEF PortalNext

(* Whatever a client asks for, it is redirected once at most: the name the *)
(* web server writes into its redirect is one host_name_matches takes,     *)
(* for every host name and domain that fit into its buffer.                *)
THEOREM RedirectOnce == PortalSpec => []OneRedirect
<1>1. Led => OneRedirect
  BY DEF Led, OneRedirect
<1> QED BY <1>1, LedInit, LedStep, PTL DEF PortalSpec

(* The way back to a client is the interface of the access point. *)
LEMMA RouteBack ==
    ASSUME NEW c \in Clients
    PROVE  ip4_route(c) = inp
<1> DEFINE fits == {n \in DOMAIN Netifs : /\ Usable(n)
                                          /\ \/ c[1] = Netifs[n].ip[1]
                                             \/ ~Netifs[n].bcast /\ c = Netifs[n].gw}
<1>1. fits = {inp}
  BY NetworkAssumption DEF Usable, ANY
<1>2. inp \in Int
  BY NetworkAssumption
<1> HIDE DEF fits
<1>3. fits # {} /\ (CHOOSE n \in fits : \A m \in fits : n <= m) = inp
  <2>1. \A m \in fits : inp <= m
    BY <1>1, <1>2
  <2>2. \E n \in fits : \A m \in fits : n <= m
    BY <1>1, <2>1
  <2> QED BY <1>1, <2>2
<1> QED BY <1>3 DEF ip4_route, fits

(* A client's TCP segment is answered from the address it was sent to and  *)
(* over the interface of the access point, the secondary address of        *)
(* ip4_input_accept included: for all interfaces and addresses in which    *)
(* the access point's network is its own.                                  *)
THEOREM ReplyFromOwn == PortalSpec => []ReplyReturns
<1>1. ReplyReturns
  <2> SUFFICES ASSUME seen.packet.src \in Clients, ~IsBroadcast(seen.packet.dest, inp)
               PROVE  ip4_output(seen.packet.dest, seen.packet.src) =
                        [src |-> seen.packet.dest, dest |-> seen.packet.src, by |-> inp]
    BY DEF ReplyReturns
  <2>1. ip4_route(seen.packet.src) = inp
    BY RouteBack
  <2>2. seen.packet.dest # ANY
    BY DEF IsBroadcast
  <2>3. inp # None
    BY NetworkAssumption
  <2> QED BY <2>1, <2>2, <2>3 DEF ip4_output, ip4_output_if
<1> QED BY <1>1, PTL

(* What dns_server_thread gives out the IP layer takes: a client whose     *)
(* query was answered reaches the web server, whether it was given the     *)
(* address of the access point or the secondary one.                       *)
THEOREM AnswerReachable ==
    PortalSpec => [](client.pc = "request" =>
                        ip4_input(TcpTo(client.ip, client.addr)) = "tcp")
<1> DEFINE Given == client.pc \in {"ask", "request"} =>
                      /\ client.ip \in Clients
                      /\ client.pc = "request" => client.addr \in Addresses
           Reach == client.pc = "request" => ip4_input(TcpTo(client.ip, client.addr)) = "tcp"
<1>1. PortalInit => Given
  BY DEF PortalInit, Idle
<1>2. Led /\ Given /\ [PortalNext]_portalVars => Given'
  <2> SUFFICES ASSUME Led, Given, [PortalNext]_portalVars PROVE Given'
    OBVIOUS
  <2>1. CASE Start
    BY <2>1 DEF Start
  <2>2. CASE dns_server_thread
    BY <2>2 DEF dns_server_thread, Led, get_address_for_encoded_domain, Addresses
  <2>3. CASE NoAnswer
    BY <2>3 DEF NoAnswer, Idle
  <2>4. CASE HttpRequest
    <3>1. \/ client' = client \/ client' = [client EXCEPT !.pc = "page"]
          \/ client' = [client EXCEPT !.pc = "ask", !.host = Location, !.labels = Device,
                                      !.hops = @ + 1, !.pointer = FALSE]
      BY <2>4 DEF HttpRequest
    <3>2. client.pc = "request"
      BY <2>4 DEF HttpRequest
    <3> QED BY <3>1, <3>2 DEF Led
  <2>5. CASE Leave
    BY <2>5 DEF Leave, Idle
  <2>6. CASE Stray
    BY <2>6 DEF Stray
  <2>7. CASE BadRequest
    BY <2>7 DEF BadRequest, Idle
  <2>8. CASE UNCHANGED portalVars
    BY <2>8 DEF portalVars
  <2> QED BY <2>1, <2>2, <2>3, <2>4, <2>5, <2>6, <2>7, <2>8 DEF PortalNext
<1>3. Given => Reach
  <2> SUFFICES ASSUME NEW c \in Clients, NEW a \in Addresses PROVE ip4_input(TcpTo(c, a)) = "tcp"
    OBVIOUS
  <2> DEFINE p == TcpTo(c, a)
  <2>1. HeaderOk(p)
    BY DEF HeaderOk, TcpTo, IP_HLEN
  <2>2. InputNetif(p) = inp
    <3>1. p.dest = a
      BY DEF TcpTo
    <3>2. Netifs[inp].up /\ Netifs[inp].ip # ANY
      BY NetworkAssumption DEF ANY
    <3>3. ip4_input_accept(inp, a)
      BY <3>2 DEF ip4_input_accept, Addresses, ip_address, IsBroadcast
    <3> HIDE DEF p
    <3> QED BY <3>1, <3>2, <3>3 DEF InputNetif
  <2>3. ~LinkLayerAddressed(p) /\ SourceOk(p)
    <3>1. p.src = c /\ p.proto = "tcp"
      BY DEF TcpTo
    <3> HIDE DEF p
    <3> QED BY <3>1, LeaseAssumption DEF LinkLayerAddressed, SourceOk
  <2>4. inp # None /\ p.fragment = FALSE /\ p.proto = "tcp"
    BY NetworkAssumption DEF TcpTo
  <2> HIDE DEF p
  <2>5. ip4_input(p) = "tcp"
    BY <2>1, <2>2, <2>3, <2>4 DEF ip4_input
  <2> QED BY <2>5 DEF p
<1> QED BY <1>1, <1>2, <1>3, LedInit, LedStep, PTL DEF PortalSpec
=============================================================================
